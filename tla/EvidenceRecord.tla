---------------------------- MODULE EvidenceRecord ----------------------------
(***************************************************************************)
(* scripts/record_release_evidence.py: run the release gate, run the       *)
(* benchmarks into a staging directory, write the manifest, and put the    *)
(* staging directory in the place of the evidence of the version.          *)
(*                                                                         *)
(* One action per step that touches the file system or starts a process.   *)
(* A step may raise (Fault), and then the except and finally clauses run;  *)
(* the process may be killed between any two steps (Crash), and then they  *)
(* do not; somebody may edit the source or commit meanwhile.  Invocations  *)
(* follow one another on the same directories.                             *)
(***************************************************************************)
EXTENDS Integers, FiniteSets

CONSTANTS
    Sources,        \* the contents the source tree may have, all # 0
    MaxRuns,        \* bound on the invocations
    MaxFaults,      \* bound on the steps that raise, in each invocation
    MaxCrashes,     \* bound on the kills
    MaxEdits        \* bound on the edits of the source

ASSUME RecordAssumption ==
    /\ Sources \subseteq Nat \ {0} /\ Sources # {}
    /\ {MaxRuns, MaxFaults, MaxCrashes, MaxEdits} \subseteq Nat

Benchmarks == 1..3      \* synthetic, real-code, end-to-end, in this order

\* A result file names the source it was measured on and may be written by a
\* benchmark that fails; the manifest has the commit read at the start and the
\* fingerprint taken at the end.  0 stands for a file that is not there.
Result == [source : Sources \cup {0}, passed : BOOLEAN]
Missing == [source |-> 0, passed |-> FALSE]
Directory == [exists : BOOLEAN, result : [Benchmarks -> Result],
              commit : Sources \cup {0}, sha : Sources \cup {0}]
Absent == [exists |-> FALSE, result |-> [b \in Benchmarks |-> Missing],
           commit |-> 0, sha |-> 0]
Empty == [Absent EXCEPT !.exists = TRUE]

Passed(d, b) == d.result[b].source # 0 /\ d.result[b].passed

Complete(d) ==
    /\ d.exists /\ d.commit # 0 /\ d.sha # 0
    /\ \A b \in Benchmarks : Passed(d, b)

EvidenceOf(s) ==
    [exists |-> TRUE, commit |-> s, sha |-> s,
     result |-> [b \in Benchmarks |-> [source |-> s, passed |-> TRUE]]]

VARIABLES
    head, tree,                 \* the commit checked out, the source on disk
    release, staging, backup,   \* the three directories
    replace,                    \* --replace-existing
    pc,                         \* the next step; "idle" between invocations
    bench,                      \* the benchmark being run
    commit,                     \* source_commit
    hadExisting,                \* had_existing of _commit_staged_evidence
    runs, faults, crashes, edits

dirs == <<release, staging, backup>>
source == <<head, tree, edits>>
locals == <<bench, commit, hadExisting>>
vars == <<source, dirs, replace, pc, locals, runs, faults, crashes>>

Before == {"clean", "identity", "paths", "gate", "clear_staging", "clear_backup",
           "mkdir"}
InTry == {"bench", "manifest", "move_old", "move_new", "restore", "drop_backup"}
Finally == {"fin_staging", "fin_restore", "fin_backup"}

\* What an rmtree that is interrupted may leave of a directory.
Remains(d) ==
    {[exists |-> TRUE,
      result |-> [b \in Benchmarks |-> IF b \in S THEN d.result[b] ELSE Missing],
      commit |-> IF m THEN d.commit ELSE 0, sha |-> IF m THEN d.sha ELSE 0] :
        S \in SUBSET Benchmarks, m \in BOOLEAN}

-----------------------------------------------------------------------------
Init ==
    /\ head \in Sources /\ tree = head
    /\ release \in {Absent, EvidenceOf(head)}
    /\ staging = Absent /\ backup = Absent
    /\ replace = FALSE /\ pc = "idle"
    /\ bench = 1 /\ commit = 0 /\ hadExisting = FALSE
    /\ runs = 0 /\ faults = 0 /\ crashes = 0 /\ edits = 0

Invoke ==
    /\ pc = "idle" /\ runs < MaxRuns
    /\ runs' = runs + 1 /\ faults' = 0
    /\ replace' \in BOOLEAN
    /\ pc' = "clean"
    /\ bench' = 1 /\ commit' = 0 /\ hadExisting' = FALSE
    /\ UNCHANGED <<source, dirs, crashes>>

\* Steps of the script leave everything else alone.
Step(from) ==
    /\ pc = from
    /\ UNCHANGED <<source, replace, runs, faults, crashes>>

\* git status --porcelain; the evidence directories do not count.
CheckClean ==
    /\ Step("clean")
    /\ pc' = IF tree = head THEN "identity" ELSE "idle"
    /\ UNCHANGED <<dirs, locals>>

\* git rev-parse HEAD; the declared head, when there is one, is the same.
ReadIdentity ==
    /\ Step("identity")
    /\ \/ pc' = "paths" /\ commit' = head
       \/ pc' = "idle" /\ UNCHANGED commit
    /\ UNCHANGED <<dirs, bench, hadExisting>>

CheckPaths ==
    /\ Step("paths")
    /\ pc' = IF release.exists /\ ~replace THEN "idle" ELSE "gate"
    /\ UNCHANGED <<dirs, locals>>

\* The release gate is a process of its own and may fail.
Gate ==
    /\ Step("gate")
    /\ pc' \in {"clear_staging", "idle"}
    /\ UNCHANGED <<dirs, locals>>

ClearStaging ==
    /\ Step("clear_staging")
    /\ staging' = Absent /\ pc' = "clear_backup"
    /\ UNCHANGED <<release, backup, locals>>

ClearBackup ==
    /\ Step("clear_backup")
    /\ backup' = Absent /\ pc' = "mkdir"
    /\ UNCHANGED <<release, staging, locals>>

MakeStaging ==
    /\ Step("mkdir")
    /\ staging' = Empty /\ bench' = 1 /\ pc' = "bench"
    /\ UNCHANGED <<release, backup, commit, hadExisting>>

FaultyRunBenchmarkOverrun ==    \* one benchmark too many
    /\ Step("bench")
    /\ staging' = [staging EXCEPT !.result[bench] = [source |-> tree, passed |-> TRUE]]
    /\ IF bench <= 3 THEN pc' = "bench" /\ bench' = bench + 1
       ELSE pc' = "manifest" /\ UNCHANGED bench
    /\ UNCHANGED <<release, backup, commit, hadExisting>>

FaultyRunBenchmarkUnchecked ==  \* the return code is not looked at
    /\ Step("bench")
    /\ \E passed \in BOOLEAN :
          staging' = [staging EXCEPT !.result[bench] =
                        [source |-> tree, passed |-> passed]]
    /\ IF bench < 3 THEN pc' = "bench" /\ bench' = bench + 1
       ELSE pc' = "manifest" /\ UNCHANGED bench
    /\ UNCHANGED <<release, backup, commit, hadExisting>>

FaultyRunBenchmarkRetried ==    \* a benchmark that fails starts all of them again
    /\ Step("bench")
    /\ \E passed \in BOOLEAN :
        /\ staging' = [staging EXCEPT !.result[bench] =
                          [source |-> tree, passed |-> passed]]
        /\ IF ~passed THEN pc' = "mkdir" /\ UNCHANGED bench
           ELSE IF bench < 3 THEN pc' = "bench" /\ bench' = bench + 1
           ELSE pc' = "manifest" /\ UNCHANGED bench
    /\ UNCHANGED <<release, backup, commit, hadExisting>>

\* A benchmark writes its result file before it tests its thresholds; when it
\* fails the script returns, through the finally clause.
RunBenchmark ==
    /\ Step("bench")
    /\ \E passed \in BOOLEAN :
        /\ staging' = [staging EXCEPT !.result[bench] =
                          [source |-> tree, passed |-> passed]]
        /\ IF ~passed THEN pc' = "fin_staging" /\ UNCHANGED bench
           ELSE IF bench < 3 THEN pc' = "bench" /\ bench' = bench + 1
           ELSE pc' = "manifest" /\ UNCHANGED bench
    /\ UNCHANGED <<release, backup, commit, hadExisting>>

FaultyWriteManifest ==      \* the fingerprint of the commit, not of the disk
    /\ Step("manifest")
    /\ staging' = [staging EXCEPT !.commit = commit, !.sha = commit]
    /\ pc' = "move_old"
    /\ UNCHANGED <<release, backup, locals>>

WriteManifest ==
    /\ Step("manifest")
    /\ staging' = [staging EXCEPT !.commit = commit, !.sha = tree]
    /\ pc' = "move_old"
    /\ UNCHANGED <<release, backup, locals>>

(***************************************************************************)
(* _commit_staged_evidence                                                 *)
(***************************************************************************)
MoveOldAway ==
    /\ Step("move_old")
    /\ hadExisting' = release.exists
    /\ IF release.exists THEN backup' = release /\ release' = Absent
       ELSE UNCHANGED <<backup, release>>
    /\ pc' = "move_new"
    /\ UNCHANGED <<staging, bench, commit>>

MoveNewIn ==
    /\ Step("move_new")
    /\ release' = staging /\ staging' = Absent
    /\ pc' = "drop_backup"
    /\ UNCHANGED <<backup, locals>>

\* except BaseException: put the old evidence back, then raise again.
Restore ==
    /\ Step("restore")
    /\ IF hadExisting /\ backup.exists /\ ~release.exists
       THEN release' = backup /\ backup' = Absent
       ELSE UNCHANGED <<release, backup>>
    /\ pc' = "fin_staging"
    /\ UNCHANGED <<staging, locals>>

DropBackup ==
    /\ Step("drop_backup")
    /\ backup' = Absent /\ pc' = "fin_staging"
    /\ UNCHANGED <<release, staging, locals>>

(***************************************************************************)
(* The finally clause of main                                              *)
(***************************************************************************)
FinallyStaging ==
    /\ Step("fin_staging")
    /\ staging' = Absent /\ pc' = "fin_restore"
    /\ UNCHANGED <<release, backup, locals>>

FaultyFinallyRestore ==     \* the finally clause only cleans up
    /\ Step("fin_restore")
    /\ pc' = "fin_backup"
    /\ UNCHANGED <<dirs, locals>>

FinallyRestore ==
    /\ Step("fin_restore")
    /\ IF backup.exists /\ ~release.exists
       THEN release' = backup /\ backup' = Absent
       ELSE UNCHANGED <<release, backup>>
    /\ pc' = "fin_backup"
    /\ UNCHANGED <<staging, locals>>

FinallyBackup ==
    /\ Step("fin_backup")
    /\ backup' = Absent /\ pc' = "idle"
    /\ UNCHANGED <<release, staging, locals>>

Script ==
    \/ CheckClean \/ ReadIdentity \/ CheckPaths \/ Gate
    \/ ClearStaging \/ ClearBackup \/ MakeStaging
    \/ RunBenchmark \/ WriteManifest
    \/ MoveOldAway \/ MoveNewIn \/ Restore \/ DropBackup
    \/ FinallyStaging \/ FinallyRestore \/ FinallyBackup

-----------------------------------------------------------------------------
(***************************************************************************)
(* Failure                                                                 *)
(***************************************************************************)

\* An rmtree cut short: which directory the step at `pc` was removing.
HalfRemoved ==
    /\ staging' \in IF pc \in {"clear_staging", "fin_staging"} /\ staging.exists
                    THEN Remains(staging) ELSE {staging}
    /\ backup'  \in IF pc \in {"clear_backup", "drop_backup", "fin_backup"}
                       /\ backup.exists
                    THEN Remains(backup) ELSE {backup}
    /\ UNCHANGED release

FaultyHandler ==        \* the renames are outside the try statement
    IF pc \in Before \cup Finally \cup {"move_old", "move_new"} THEN {"idle"}
    ELSE {"fin_staging"}

\* Where an exception raised by the step at `pc` leads: out of the program
\* before the try statement and in the finally clause, to the except clause
\* when the second rename fails, else to the finally clause.  An interrupt may
\* come after the first rename and before the inner try.
Handler ==
    CASE pc \in Before \cup Finally -> {"idle"}
      [] pc = "move_new" -> {"restore", "fin_staging"}
      [] OTHER -> {"fin_staging"}

Fault ==
    /\ pc # "idle" /\ faults < MaxFaults
    /\ faults' = faults + 1
    /\ pc' \in Handler
    /\ HalfRemoved
    /\ UNCHANGED <<source, replace, locals, runs, crashes>>

\* SIGKILL or a power failure: nothing else of the invocation runs.
Crash ==
    /\ pc # "idle" /\ crashes < MaxCrashes
    /\ crashes' = crashes + 1
    /\ pc' = "idle"
    /\ HalfRemoved
    /\ UNCHANGED <<source, replace, locals, runs, faults>>

(***************************************************************************)
(* Somebody edits the source, or commits what is on disk.                  *)
(***************************************************************************)
EditSource ==
    /\ edits < MaxEdits /\ edits' = edits + 1
    /\ tree' \in Sources \ {tree}
    /\ UNCHANGED <<head, dirs, replace, pc, locals, runs, faults, crashes>>

CommitSource ==
    /\ head # tree /\ head' = tree
    /\ UNCHANGED <<tree, edits, dirs, replace, pc, locals, runs, faults, crashes>>

\* Nothing more happens when the invocations are used up.
Over == pc = "idle" /\ runs = MaxRuns /\ UNCHANGED vars

Next == Invoke \/ Script \/ Fault \/ Crash \/ EditSource \/ CommitSource \/ Over

\* Each step of the script, the processes it waits for included, comes to an
\* end; nobody promises to invoke it, to edit the source or to fail.
Fairness == WF_vars(Script)

Spec == Init /\ [][Next]_vars /\ Fairness

-----------------------------------------------------------------------------
(***************************************************************************)
(* Properties                                                              *)
(***************************************************************************)

TypeOK ==
    /\ head \in Sources /\ tree \in Sources
    /\ release \in Directory /\ staging \in Directory /\ backup \in Directory
    /\ replace \in BOOLEAN /\ hadExisting \in BOOLEAN
    /\ pc \in {"idle"} \cup Before \cup InTry \cup Finally
    /\ bench \in Benchmarks /\ commit \in Sources \cup {0}
    /\ runs \in 0..MaxRuns /\ faults \in 0..MaxFaults
    /\ crashes \in 0..MaxCrashes /\ edits \in 0..MaxEdits

\* The directory a reader of the repository looks at never holds evidence that
\* is partial or that a failed benchmark wrote, wherever a step raises, the
\* process is killed, or a previous invocation left its own directories.
NeverPartial == release.exists => Complete(release)

\* What each step leaves for the next: the staging directory is complete when
\* it is moved, and whatever the finally clause may have to put back is
\* complete too (lines 69-178).
Identified == {"paths", "gate", "clear_staging", "clear_backup", "mkdir",
               "bench", "manifest"}

Staged ==
    /\ pc \in Identified => commit # 0
    /\ pc \in {"mkdir", "bench", "manifest", "move_old"} => ~backup.exists
    /\ pc \in {"bench", "manifest"} => staging.exists
    /\ pc = "bench" => \A b \in Benchmarks : b < bench => Passed(staging, b)
    /\ pc = "manifest" => \A b \in Benchmarks : Passed(staging, b)
    /\ pc \in {"move_old", "move_new"} => Complete(staging)
    /\ pc = "drop_backup" => release.exists
    /\ pc \in InTry \cup Finally /\ backup.exists /\ ~release.exists => Complete(backup)

\* When an invocation is over, whichever single step of it raised, the evidence
\* is where the readers look for it and not in the backup directory, unless one
\* was killed.
EvidenceInPlace == crashes = 0 /\ pc = "idle" /\ backup.exists => release.exists

\* The evidence as a reader who waits for the renames sees it.
Visible ==
    IF release.exists THEN release ELSE IF Complete(backup) THEN backup ELSE Absent

\* The script implements the store: an invocation replaces the evidence as a
\* whole and only when it may, although it takes two renames, each of which
\* may fail or be the last thing it does, and with leftovers of others around
\* (scripts/record_release_evidence.py:28, 181-192).
Store == INSTANCE EvidenceStore WITH
    Evidence <- {d \in Directory : Complete(d)},
    Absent <- Absent, evidence <- Visible, replacing <- replace, killed <- crashes > 0

ImplementsStore == Store!StoreSpec

\* Evidence whose parts come from two contents of the source shows it, when
\* the source changed once: the fingerprint taken at the end is not the one of
\* the commit read at the start, and release_source_check.py rejects it.
OneSource(d) == \A b \in Benchmarks : d.result[b].source = d.commit

MixedEvidenceShows ==
    release.exists /\ edits <= 1 /\ ~OneSource(release) => release.sha # release.commit

\* Every invocation ends, whatever raises in it.
InvocationEnds == pc # "idle" ~> pc = "idle"

(***************************************************************************)
(* What the repository says, and the code does not do.                     *)
(***************************************************************************)

\* scripts/record_release_evidence.py:28: existing evidence is replaced only
\* after every gate and benchmark passes.  After a kill between the renames
\* the next invocation needs no --replace-existing, and removes the backup,
\* the only copy, before it runs a benchmark (lines 58, 70).
EvidenceSurvives ==
    [][Visible.exists => Visible'.exists]_vars
=============================================================================
