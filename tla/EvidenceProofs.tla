---------------------------- MODULE EvidenceProofs ----------------------------
(***************************************************************************)
(* Proofs about EvidenceRecord, for any number of invocations, of raising  *)
(* steps, of kills and of edits.                                           *)
(*                                                                         *)
(* NeverPartial is not inductive: a directory becomes the release by a     *)
(* rename, so what is renamed must be known to be complete before.  Staged *)
(* says so for the staging directory, result by result, and for the backup *)
(* wherever the except or the finally clause may put it back.              *)
(*                                                                         *)
(* Where evidence may be while it is not in the release directory (Placed) *)
(* and whether replacing was asked for by whoever is about to publish      *)
(* (Asked) are what the refinement of EvidenceStore needs; Traced follows  *)
(* the contents of the source into the results and the fingerprint.        *)
(***************************************************************************)
EXTENDS EvidenceRecord, TLAPS

-----------------------------------------------------------------------------
(***************************************************************************)
(* Directories                                                             *)
(***************************************************************************)

\* The directories the script starts from and creates.
LEMMA DirectoryConstants ==
    /\ Missing \in Result
    /\ Absent \in Directory /\ Empty \in Directory
    /\ ~Absent.exists /\ Empty.exists
  BY DEF Missing, Result, Absent, Empty, Directory

\* Evidence of a commit is complete.
LEMMA EvidenceOfComplete ==
    ASSUME NEW s \in Sources
    PROVE  EvidenceOf(s) \in Directory /\ Complete(EvidenceOf(s))
  BY RecordAssumption DEF EvidenceOf, Directory, Result, Complete, Passed

\* What an interrupted rmtree leaves is still a directory.
LEMMA RemainsType ==
    ASSUME NEW d \in Directory, NEW e \in Remains(d)
    PROVE  e \in Directory
<1>1. PICK S \in SUBSET Benchmarks, m \in BOOLEAN :
         e = [exists |-> TRUE,
              result |-> [b \in Benchmarks |-> IF b \in S THEN d.result[b] ELSE Missing],
              commit |-> IF m THEN d.commit ELSE 0, sha |-> IF m THEN d.sha ELSE 0]
  BY DEF Remains
<1>2. [b \in Benchmarks |-> IF b \in S THEN d.result[b] ELSE Missing]
         \in [Benchmarks -> Result]
  BY DirectoryConstants DEF Directory
<1> QED
  BY <1>1, <1>2 DEF Directory

\* Writing one result file, and what it does to the others.
LEMMA ResultWritten ==
    ASSUME NEW d \in Directory, NEW b \in Benchmarks, NEW r \in Result
    PROVE  LET e == [d EXCEPT !.result[b] = r]
           IN  /\ e \in Directory /\ e.exists = d.exists
               /\ e.result = [d.result EXCEPT ![b] = r]
<1> DEFINE f == [d.result EXCEPT ![b] = r]
<1>1. d.result \in [Benchmarks -> Result] /\ f \in [Benchmarks -> Result]
  BY DEF Directory
<1>2. [d EXCEPT !.result[b] = r] = [d EXCEPT !.result = f]
  OBVIOUS
<1> HIDE DEF f
<1>3. /\ [d EXCEPT !.result = f] \in Directory
      /\ [d EXCEPT !.result = f].exists = d.exists
      /\ [d EXCEPT !.result = f].result = f
  BY <1>1 DEF Directory
<1> QED
  BY <1>2, <1>3 DEF f

\* Writing the manifest makes a directory of passed results complete.
LEMMA ManifestWritten ==
    ASSUME NEW d \in Directory, NEW c \in Sources, NEW s \in Sources,
           NEW e, e = [d EXCEPT !.commit = c, !.sha = s]
    PROVE  /\ e \in Directory
           /\ d.exists /\ (\A b \in Benchmarks : Passed(d, b)) => Complete(e)
  BY RecordAssumption DEF Directory, Complete, Passed

-----------------------------------------------------------------------------
(***************************************************************************)
(* The inductive invariant                                                 *)
(***************************************************************************)

Inv == TypeOK /\ NeverPartial /\ Staged

\* The only evidence at the start is complete.
LEMMA InvInit == Init => Inv
<1> SUFFICES ASSUME Init PROVE Inv
  OBVIOUS
<1>1. release \in Directory /\ (release.exists => Complete(release))
  BY EvidenceOfComplete, DirectoryConstants DEF Init
<1>2. TypeOK
  <2>1. head \in Sources /\ tree \in Sources /\ commit \in Sources \cup {0}
    BY DEF Init
  <2>2. staging \in Directory /\ backup \in Directory
    BY DirectoryConstants DEF Init
  <2>3. /\ runs \in 0..MaxRuns /\ faults \in 0..MaxFaults
        /\ crashes \in 0..MaxCrashes /\ edits \in 0..MaxEdits
    BY RecordAssumption DEF Init
  <2>4. pc = "idle" /\ bench \in Benchmarks
    BY DEF Init, Benchmarks
  <2>5. replace = FALSE /\ hadExisting = FALSE
    BY DEF Init
  <2>6. replace \in BOOLEAN /\ hadExisting \in BOOLEAN
    BY <2>5, Zenon
  <2> QED
    BY <1>1, <2>1, <2>2, <2>3, <2>4, <2>6 DEF TypeOK
<1>3. Staged
  BY DEF Init, Staged, Identified, InTry, Finally
<1> QED
  BY <1>1, <1>2, <1>3 DEF Inv, NeverPartial

\* The steps before the try statement leave the release alone.
LEMMA InvBefore ==
    Inv /\ (Invoke \/ CheckClean \/ ReadIdentity \/ CheckPaths \/ Gate) => Inv'
<1> SUFFICES ASSUME Inv, Invoke \/ CheckClean \/ ReadIdentity \/ CheckPaths \/ Gate
             PROVE  Inv'
  OBVIOUS
<1>1. UNCHANGED <<release, staging, backup, head, tree, edits, crashes>>
  BY DEF Invoke, CheckClean, ReadIdentity, CheckPaths, Gate, Step, dirs, source
<1>2. /\ pc' \in {"idle", "clean", "identity", "paths", "gate", "clear_staging"}
      /\ pc' \in {"paths", "gate", "clear_staging"} => commit' # 0
      /\ commit' \in Sources \cup {0} /\ bench' \in Benchmarks /\ hadExisting' \in BOOLEAN
      /\ replace' \in BOOLEAN
  <2>1. CASE Invoke
    <3>1. pc' = "clean" /\ commit' = 0 /\ hadExisting' = FALSE /\ bench' = 1
      BY <2>1 DEF Invoke
    <3>2. replace' \in BOOLEAN
      BY <2>1 DEF Invoke
    <3>3. hadExisting' \in BOOLEAN
      BY <3>1, Zenon
    <3>4. bench' \in Benchmarks
      BY <3>1 DEF Benchmarks
    <3> QED
      BY <3>1, <3>2, <3>3, <3>4
  <2>2. CASE ReadIdentity
    <3>1. commit' \in {head, commit} /\ (pc' = "idle" \/ (pc' = "paths" /\ commit' = head))
      BY <2>2 DEF ReadIdentity, locals
    <3>2. head \in Sources /\ head # 0
      BY RecordAssumption DEF Inv, TypeOK
    <3> QED
      BY <2>2, <3>1, <3>2 DEF ReadIdentity, Step, Inv, TypeOK
  <2>3. CASE CheckClean \/ CheckPaths \/ Gate
    BY <2>3 DEF CheckClean, CheckPaths, Gate, Step, locals, Inv, TypeOK, Staged, Identified
  <2> QED
    BY <2>1, <2>2, <2>3
<1>3. runs' \in 0..MaxRuns /\ faults' \in 0..MaxFaults
  BY RecordAssumption DEF Invoke, CheckClean, ReadIdentity, CheckPaths, Gate, Step,
     Inv, TypeOK
<1>4. TypeOK'
  BY <1>1, <1>2, <1>3 DEF Inv, TypeOK, Before
<1>5. Staged'
  BY <1>1, <1>2 DEF Staged, Identified, InTry, Finally
<1> QED
  BY <1>1, <1>4, <1>5 DEF Inv, NeverPartial

\* Clearing the directories of an earlier invocation, and making the new one.
LEMMA InvPrepare == Inv /\ (ClearStaging \/ ClearBackup \/ MakeStaging) => Inv'
<1> SUFFICES ASSUME Inv, ClearStaging \/ ClearBackup \/ MakeStaging PROVE Inv'
  OBVIOUS
<1>1. /\ UNCHANGED <<head, tree, edits, crashes, runs, faults, replace, release>>
      /\ UNCHANGED <<commit, hadExisting>> /\ bench' \in {bench, 1}
      /\ staging' \in {staging, Absent, Empty} /\ backup' \in {backup, Absent}
      /\ commit # 0
  BY DEF ClearStaging, ClearBackup, MakeStaging, Step, source, locals, Inv, Staged, Identified
<1>2. pc' \in {"clear_backup", "mkdir", "bench"}
  BY DEF ClearStaging, ClearBackup, MakeStaging
<1>3. TypeOK'
  BY <1>1, <1>2, DirectoryConstants DEF Inv, TypeOK, Before, InTry, Benchmarks
<1>4. Staged'
  <2>1. pc' = "mkdir" => ~backup'.exists
    BY DirectoryConstants DEF ClearStaging, ClearBackup, MakeStaging
  <2>2. pc' = "bench" => ~backup'.exists /\ staging'.exists /\ bench' = 1
    BY DirectoryConstants DEF ClearStaging, ClearBackup, MakeStaging, Step, Inv, Staged
  <2>3. \A b \in Benchmarks : ~(b < 1)
    BY DEF Benchmarks
  <2> QED
    BY <1>1, <1>2, <2>1, <2>2, <2>3 DEF Staged, Identified, InTry, Finally
<1> QED
  BY <1>1, <1>3, <1>4 DEF Inv, NeverPartial

\* A benchmark writes its own result; the script goes on only when it passed.
LEMMA InvBenchmark == Inv /\ RunBenchmark => Inv'
<1> SUFFICES ASSUME Inv, RunBenchmark PROVE Inv'
  OBVIOUS
<1>1. PICK passed \in BOOLEAN :
        /\ staging' = [staging EXCEPT !.result[bench] = [source |-> tree, passed |-> passed]]
        /\ IF ~passed THEN pc' = "fin_staging" /\ UNCHANGED bench
           ELSE IF bench < 3 THEN pc' = "bench" /\ bench' = bench + 1
           ELSE pc' = "manifest" /\ UNCHANGED bench
  BY DEF RunBenchmark
<1> DEFINE r == [source |-> tree, passed |-> passed]
<1>2. r \in Result /\ bench \in 1..3 /\ tree # 0
  BY RecordAssumption DEF Inv, TypeOK, Result, Benchmarks
<1>3. /\ staging' \in Directory /\ staging'.exists = staging.exists
      /\ staging'.result[bench] = r
      /\ \A a \in Benchmarks : a # bench => staging'.result[a] = staging.result[a]
  <2>1. staging \in Directory /\ bench \in Benchmarks
    BY DEF Inv, TypeOK
  <2>2. staging' = [staging EXCEPT !.result[bench] = r]
    BY <1>1
  <2> HIDE DEF r
  <2>3. r \in Result
    BY <1>2
  <2>4. /\ staging' \in Directory /\ staging'.exists = staging.exists
        /\ staging'.result = [staging.result EXCEPT ![bench] = r]
    BY <2>1, <2>2, <2>3, ResultWritten
  <2>5. staging.result \in [Benchmarks -> Result]
    BY <2>1 DEF Directory
  <2> QED
    BY <2>1, <2>4, <2>5
<1>4. /\ UNCHANGED <<head, tree, edits, crashes, runs, faults, replace, release, backup>>
      /\ UNCHANGED <<commit, hadExisting>> /\ pc = "bench"
      /\ commit # 0 /\ staging.exists /\ ~backup.exists
      /\ \A a \in Benchmarks : a < bench => Passed(staging, a)
  BY DEF RunBenchmark, Step, source, Inv, Staged, Identified
<1>5. bench' \in 1..3 /\ pc' \in {"fin_staging", "bench", "manifest"}
  BY <1>1, <1>2
<1>6. TypeOK'
  BY <1>3, <1>4, <1>5 DEF Inv, TypeOK, InTry, Finally, Benchmarks
<1>7. /\ pc' = "bench" => \A a \in Benchmarks : a < bench' => Passed(staging', a)
      /\ pc' = "manifest" => \A a \in Benchmarks : Passed(staging', a)
  <2>1. CASE passed
    <3>1. \A a \in Benchmarks : a < bench + 1 => Passed(staging', a)
      BY <1>2, <1>3, <1>4, <2>1 DEF Passed, Benchmarks
    <3>2. pc' = "bench" => bench' = bench + 1
      BY <1>1, <2>1
    <3>3. pc' = "manifest" => bench = 3
      BY <1>1, <1>2, <2>1
    <3> QED
      BY <3>1, <3>2, <3>3 DEF Benchmarks
  <2>2. CASE ~passed
    BY <1>1, <2>2
  <2> QED
    BY <2>1, <2>2
<1>8. Staged'
  BY <1>3, <1>4, <1>5, <1>7 DEF Staged, Identified, InTry, Finally
<1> QED
  BY <1>4, <1>6, <1>8 DEF Inv, NeverPartial

\* The manifest completes the staging directory.
LEMMA InvManifest == Inv /\ WriteManifest => Inv'
<1> SUFFICES ASSUME Inv, WriteManifest PROVE Inv'
  OBVIOUS
<1>1. /\ UNCHANGED <<head, tree, edits, crashes, runs, faults, replace, release, backup>>
      /\ UNCHANGED <<bench, commit, hadExisting>> /\ pc' = "move_old"
      /\ staging' = [staging EXCEPT !.commit = commit, !.sha = tree]
      /\ staging.exists /\ ~backup.exists /\ commit \in Sources /\ tree \in Sources
      /\ \A b \in Benchmarks : Passed(staging, b)
  BY DEF WriteManifest, Step, source, locals, Inv, TypeOK, Staged, Identified
<1>2. staging' \in Directory /\ Complete(staging')
  BY <1>1, ManifestWritten DEF Inv, TypeOK
<1>3. TypeOK'
  BY <1>1, <1>2 DEF Inv, TypeOK, InTry
<1>4. Staged'
  BY <1>1, <1>2 DEF Staged, Identified, InTry, Finally
<1> QED
  BY <1>1, <1>3, <1>4 DEF Inv, NeverPartial

\* The first rename: from here on the backup may have to be put back.
LEMMA InvMoveOld == Inv /\ MoveOldAway => Inv'
<1> SUFFICES ASSUME Inv, MoveOldAway PROVE Inv'
  OBVIOUS
<1>1. /\ UNCHANGED <<head, tree, edits, crashes, runs, faults, replace, staging>>
      /\ UNCHANGED <<bench, commit>> /\ pc' = "move_new"
      /\ hadExisting' = release.exists /\ Complete(staging) /\ ~backup.exists
  BY DEF MoveOldAway, Step, source, Inv, Staged
<1>2. \/ backup' = release /\ release' = Absent /\ Complete(release)
      \/ UNCHANGED <<backup, release>>
  BY DEF MoveOldAway, Inv, NeverPartial
<1>3. release.exists \in BOOLEAN
  BY DEF Inv, TypeOK, Directory
<1>4. release' \in Directory /\ backup' \in Directory
  BY <1>2, DirectoryConstants DEF Inv, TypeOK
<1>5. TypeOK'
  BY <1>1, <1>3, <1>4 DEF Inv, TypeOK, InTry
<1>6. (backup'.exists => Complete(backup')) /\ NeverPartial'
  BY <1>1, <1>2, DirectoryConstants DEF Inv, NeverPartial
<1>7. Staged'
  BY <1>1, <1>6 DEF Staged, Identified, InTry, Finally
<1> QED
  BY <1>5, <1>6, <1>7 DEF Inv

\* The second rename publishes a complete directory.
LEMMA InvMoveNew == Inv /\ MoveNewIn => Inv'
<1> SUFFICES ASSUME Inv, MoveNewIn PROVE Inv'
  OBVIOUS
<1>1. /\ UNCHANGED <<head, tree, edits, crashes, runs, faults, replace, backup>>
      /\ UNCHANGED <<bench, commit, hadExisting>> /\ pc' = "drop_backup"
      /\ release' = staging /\ staging' = Absent /\ Complete(staging)
  BY DEF MoveNewIn, Step, source, locals, Inv, Staged
<1>2. TypeOK'
  BY <1>1, DirectoryConstants DEF Inv, TypeOK, InTry
<1>3. NeverPartial' /\ release'.exists
  BY <1>1 DEF NeverPartial, Complete
<1>4. Staged'
  BY <1>1, <1>3 DEF Staged, Identified, InTry, Finally
<1> QED
  BY <1>2, <1>3, <1>4 DEF Inv

\* What the except and the finally clause put back is complete.
LEMMA InvRestore == Inv /\ (Restore \/ FinallyRestore) => Inv'
<1> SUFFICES ASSUME Inv, Restore \/ FinallyRestore PROVE Inv'
  OBVIOUS
<1>1. /\ UNCHANGED <<head, tree, edits, crashes, runs, faults, replace, staging>>
      /\ UNCHANGED <<bench, commit, hadExisting>>
      /\ pc' \in {"fin_staging", "fin_backup"} /\ pc \in InTry \cup Finally
  BY DEF Restore, FinallyRestore, Step, source, locals, InTry, Finally
<1>2. \/ release' = backup /\ backup' = Absent /\ Complete(backup)
      \/ UNCHANGED <<backup, release>>
  BY <1>1 DEF Restore, FinallyRestore, Inv, Staged
<1>3. release' \in Directory /\ backup' \in Directory
  BY <1>2, DirectoryConstants DEF Inv, TypeOK
<1>4. TypeOK'
  BY <1>1, <1>3 DEF Inv, TypeOK, Finally
<1>5. /\ NeverPartial'
      /\ backup'.exists /\ ~release'.exists => Complete(backup')
  BY <1>1, <1>2, DirectoryConstants DEF Inv, NeverPartial, Staged
<1>6. Staged'
  BY <1>1, <1>5 DEF Staged, Identified, InTry, Finally
<1> QED
  BY <1>4, <1>5, <1>6 DEF Inv

\* The steps that only remove a directory, and never the release.
LEMMA InvRemove ==
    Inv /\ (DropBackup \/ FinallyStaging \/ FinallyBackup) => Inv'
<1> SUFFICES ASSUME Inv, DropBackup \/ FinallyStaging \/ FinallyBackup PROVE Inv'
  OBVIOUS
<1>1. /\ UNCHANGED <<head, tree, edits, crashes, runs, faults, replace, release>>
      /\ UNCHANGED <<bench, commit, hadExisting>>
      /\ pc' \in {"fin_staging", "fin_restore", "idle"}
      /\ pc \in InTry \cup Finally
      /\ staging' \in {staging, Absent} /\ backup' \in {backup, Absent}
  BY DEF DropBackup, FinallyStaging, FinallyBackup, Step, source, locals, InTry, Finally
<1>2. TypeOK'
  BY <1>1, DirectoryConstants DEF Inv, TypeOK, Finally
<1>3. backup'.exists /\ ~release'.exists => Complete(backup')
  BY <1>1, DirectoryConstants DEF Inv, Staged
<1>4. Staged'
  BY <1>1, <1>3 DEF Staged, Identified, InTry, Finally
<1> QED
  BY <1>1, <1>2, <1>4 DEF Inv, NeverPartial

-----------------------------------------------------------------------------
(***************************************************************************)
(* Failure and the environment                                             *)
(***************************************************************************)

\* What is half removed when a step is cut short, and where the script goes on:
\* a backup it may still put back is whole.
LEMMA HalfRemovedSafe ==
    ASSUME Inv, HalfRemoved
    PROVE  /\ staging' \in Directory /\ backup' \in Directory /\ release' = release
           /\ backup' # backup => pc \in {"clear_backup", "drop_backup", "fin_backup"}
<1>1. staging' \in Remains(staging) \cup {staging} /\ backup' \in Remains(backup) \cup {backup}
  BY DEF HalfRemoved
<1>2. staging \in Directory /\ backup \in Directory
  BY DEF Inv, TypeOK
<1>3. staging' \in Directory /\ backup' \in Directory
  BY <1>1, <1>2, RemainsType
<1> QED
  BY <1>3 DEF HalfRemoved

\* The exceptions and the kills.
LEMMA InvFailure == Inv /\ (Fault \/ Crash) => Inv'
<1> SUFFICES ASSUME Inv, Fault \/ Crash PROVE Inv'
  OBVIOUS
<1>1. /\ UNCHANGED <<head, tree, edits, runs, replace, bench, commit, hadExisting>>
      /\ HalfRemoved
  BY DEF Fault, Crash, source, locals
<1>2. /\ pc' \in {"idle", "restore", "fin_staging"}
      /\ pc' # "idle" => pc \in InTry
      /\ pc' = "restore" => pc = "move_new"
  <2>1. CASE Crash
    BY <2>1 DEF Crash
  <2>2. CASE Fault
    <3>1. pc' \in Handler /\ pc \in Before \cup InTry \cup Finally
      BY <2>2 DEF Fault, Inv, TypeOK
    <3>2. CASE pc \in Before \cup Finally
      BY <3>1, <3>2 DEF Handler, Before, Finally
    <3>3. CASE pc = "move_new"
      BY <3>1, <3>3 DEF Handler, Before, Finally, InTry
    <3>4. CASE pc \in InTry \ {"move_new"}
      BY <3>1, <3>4 DEF Handler, Before, Finally, InTry
    <3> QED
      BY <3>1, <3>2, <3>3, <3>4
  <2> QED
    BY <2>1, <2>2
<1>3. faults' \in 0..MaxFaults /\ crashes' \in 0..MaxCrashes
  BY RecordAssumption DEF Fault, Crash, Inv, TypeOK
<1>4. TypeOK'
  BY <1>1, <1>2, <1>3, HalfRemovedSafe DEF Inv, TypeOK, InTry, Finally
<1>5. NeverPartial'
  BY <1>1, HalfRemovedSafe DEF Inv, NeverPartial
<1>6. pc' # "idle" /\ backup'.exists /\ ~release'.exists => Complete(backup')
  <2> SUFFICES ASSUME pc' # "idle", backup'.exists, ~release'.exists
               PROVE  Complete(backup')
    OBVIOUS
  <2>1. release' = release /\ pc \in InTry
    BY <1>1, <1>2, HalfRemovedSafe
  <2>2. pc # "drop_backup" /\ pc # "clear_backup" /\ pc # "fin_backup"
    BY <2>1 DEF Inv, Staged, InTry
  <2>3. backup' = backup
    BY <1>1, <2>2, HalfRemovedSafe
  <2> QED
    BY <2>1, <2>3 DEF Inv, Staged
<1>7. Staged'
  BY <1>2, <1>6 DEF Staged, Identified, InTry, Finally
<1> QED
  BY <1>4, <1>5, <1>7 DEF Inv

\* Edits and commits touch none of the three directories.
LEMMA InvEnvironment == Inv /\ (EditSource \/ CommitSource \/ UNCHANGED vars) => Inv'
<1> SUFFICES ASSUME Inv, EditSource \/ CommitSource \/ UNCHANGED vars PROVE Inv'
  OBVIOUS
<1>1. UNCHANGED <<dirs, replace, pc, locals, runs, faults, crashes>>
  BY DEF EditSource, CommitSource, vars
<1>2. head' \in Sources /\ tree' \in Sources /\ edits' \in 0..MaxEdits
  BY RecordAssumption DEF EditSource, CommitSource, vars, source, Inv, TypeOK
<1>3. TypeOK'
  BY <1>1, <1>2 DEF dirs, locals, Inv, TypeOK
<1>4. NeverPartial' /\ Staged'
  BY <1>1 DEF dirs, locals, Inv, NeverPartial, Staged
<1> QED
  BY <1>3, <1>4 DEF Inv

-----------------------------------------------------------------------------
(***************************************************************************)
(* The theorems                                                            *)
(***************************************************************************)

\* The invariant holds in every state of every behaviour.
LEMMA Invariance == Spec => []Inv
<1>1. Inv /\ [Next]_vars => Inv'
  BY InvBefore, InvPrepare, InvBenchmark, InvManifest, InvMoveOld, InvMoveNew,
     InvRestore, InvRemove, InvFailure, InvEnvironment DEF Next, Script, Over
<1> QED
  BY <1>1, InvInit, PTL DEF Spec

\* Every variable keeps to its type: the benchmark index stays within the three
\* benchmarks, and the directories, half removed or not, stay directories.
THEOREM RecorderTyped == Spec => []TypeOK
<1>1. Inv => TypeOK
  BY DEF Inv
<1> QED
  BY <1>1, Invariance, PTL

\* The release directory never holds partial or failed evidence, for any number
\* of invocations, of steps that raise, of kills and of edits (lines 69-178).
THEOREM ReleaseNeverPartial == Spec => []NeverPartial
<1>1. Inv => NeverPartial
  BY DEF Inv
<1> QED
  BY <1>1, Invariance, PTL

\* What each step leaves to the next one: nothing but a complete directory is
\* moved into the place of the release, or put back there.
THEOREM MovesOnlyComplete == Spec => []Staged
<1>1. Inv => Staged
  BY DEF Inv
<1> QED
  BY <1>1, Invariance, PTL

-----------------------------------------------------------------------------
(***************************************************************************)
(* Where the evidence is: the invariant behind EvidenceInPlace and behind  *)
(* the refinement                                                          *)
(***************************************************************************)

\* An rmtree that is interrupted and leaves the directory complete has removed
\* nothing.
LEMMA RemainsWhole ==
    ASSUME NEW d \in Directory, d.exists, NEW e \in Remains(d), Complete(e)
    PROVE  e = d
<1>1. PICK S \in SUBSET Benchmarks, m \in BOOLEAN :
         e = [exists |-> TRUE,
              result |-> [b \in Benchmarks |-> IF b \in S THEN d.result[b] ELSE Missing],
              commit |-> IF m THEN d.commit ELSE 0, sha |-> IF m THEN d.sha ELSE 0]
  BY DEF Remains
<1>2. m
  BY <1>1 DEF Complete
<1>3. \A b \in Benchmarks : b \in S
  BY <1>1 DEF Complete, Passed, Missing
<1>4. [b \in Benchmarks |-> IF b \in S THEN d.result[b] ELSE Missing] = d.result
  BY <1>3 DEF Directory
<1> QED
  BY <1>1, <1>2, <1>4 DEF Directory

\* A step cut short changes the backup only while it removes it, and then what
\* is left is not complete.
LEMMA HalfRemovedBackup ==
    ASSUME Inv, HalfRemoved, backup' # backup
    PROVE  /\ pc \in {"clear_backup", "drop_backup", "fin_backup"}
           /\ backup.exists /\ ~Complete(backup')
<1>1. backup.exists /\ backup' \in Remains(backup)
  BY DEF HalfRemoved
<1>2. backup \in Directory
  BY DEF Inv, TypeOK
<1> QED
  BY <1>1, <1>2, RemainsWhole DEF HalfRemoved

\* Where the only copy of the evidence may be the backup.  As long as nobody was
\* killed that is between the two renames and after a step that raised there,
\* and no other step of the invocation raises.
Placed ==
    /\ pc \in (Before \cup InTry) \ {"restore"} => faults = 0
    /\ pc = "restore" => faults # 0
    /\ crashes = 0 /\ backup.exists /\ ~release.exists =>
          \/ pc = "move_new"
          \/ pc \in {"restore", "fin_staging", "fin_restore"} /\ faults # 0
    /\ pc = "fin_backup" /\ backup.exists => release.exists

\* Evidence that is there is replaced only with --replace-existing.
Asked ==
    /\ /\ pc \in {"gate", "clear_staging", "clear_backup", "mkdir", "bench",
                  "manifest", "move_old"}
       /\ release.exists
       => replace
    /\ pc = "move_new" => ~release.exists /\ (backup.exists => replace)

LEMMA PlacedInit == Init => Placed /\ Asked
  BY DirectoryConstants DEF Init, Placed, Asked, Before, InTry

\* Until the first rename the evidence stays where it is.
LEMMA PlacedBefore ==
    Inv /\ Placed /\ (Invoke \/ CheckClean \/ ReadIdentity \/ CheckPaths \/ Gate
                      \/ ClearStaging \/ ClearBackup \/ MakeStaging
                      \/ RunBenchmark \/ WriteManifest)
    => Placed'
<1> SUFFICES ASSUME Inv, Placed,
                    Invoke \/ CheckClean \/ ReadIdentity \/ CheckPaths \/ Gate
                      \/ ClearStaging \/ ClearBackup \/ MakeStaging
                      \/ RunBenchmark \/ WriteManifest
             PROVE  Placed'
  OBVIOUS
<1>1. /\ UNCHANGED <<release, crashes>>
      /\ backup' = backup \/ ~backup'.exists
  BY DirectoryConstants DEF Invoke, CheckClean, ReadIdentity, CheckPaths, Gate, Step, dirs,
     ClearStaging, ClearBackup, MakeStaging, RunBenchmark, WriteManifest
<1>2. /\ pc' \in {"idle", "clean", "identity", "paths", "gate", "clear_staging",
                  "clear_backup", "mkdir", "bench", "manifest", "move_old", "fin_staging"}
      /\ faults' = 0
      /\ pc \in {"idle", "clean", "identity", "paths", "gate", "clear_staging",
                 "clear_backup", "mkdir", "bench", "manifest"}
  <2>1. CASE Invoke
    BY <2>1 DEF Invoke
  <2>2. CASE RunBenchmark
    BY <2>2 DEF RunBenchmark, Step, Placed, InTry
  <2>3. CASE CheckClean \/ ReadIdentity \/ CheckPaths \/ Gate
               \/ ClearStaging \/ ClearBackup \/ MakeStaging \/ WriteManifest
    BY <2>3 DEF CheckClean, ReadIdentity, CheckPaths, Gate, Step, ClearStaging, ClearBackup,
       MakeStaging, WriteManifest, Placed, Before, InTry
  <2> QED
    BY <2>1, <2>2, <2>3
<1>3. ~(crashes = 0 /\ backup.exists /\ ~release.exists)
  BY <1>2 DEF Placed
<1> QED
  BY <1>1, <1>2, <1>3 DEF Placed

\* The renames, and what the except and the finally clause do afterwards.
LEMMA PlacedAfter ==
    Inv /\ Placed /\ (MoveOldAway \/ MoveNewIn \/ Restore \/ DropBackup
                      \/ FinallyStaging \/ FinallyRestore \/ FinallyBackup)
    => Placed'
<1> SUFFICES ASSUME Inv, Placed,
                    MoveOldAway \/ MoveNewIn \/ Restore \/ DropBackup
                      \/ FinallyStaging \/ FinallyRestore \/ FinallyBackup
             PROVE  Placed'
  OBVIOUS
<1>1. UNCHANGED <<crashes, faults>>
  BY DEF MoveOldAway, MoveNewIn, Restore, DropBackup, FinallyStaging, FinallyRestore,
     FinallyBackup, Step
<1>2. CASE MoveOldAway
  BY <1>1, <1>2 DEF MoveOldAway, Step, Placed, Before, InTry
<1>3. CASE MoveNewIn
  <2>1. pc = "move_new" /\ pc' = "drop_backup" /\ release' = staging /\ staging.exists
    BY <1>3 DEF MoveNewIn, Step, Inv, Staged, Complete
  <2> QED
    BY <1>1, <2>1 DEF Placed, Before, InTry
<1>4. CASE Restore
  <2>1. pc = "restore" /\ pc' = "fin_staging"
    BY <1>4 DEF Restore, Step
  <2>2. \/ UNCHANGED <<release, backup>>
        \/ ~backup'.exists
    BY <1>4, DirectoryConstants DEF Restore
  <2> QED
    BY <1>1, <2>1, <2>2 DEF Placed, Before, InTry
<1>5. CASE DropBackup
  <2>1. pc' = "fin_staging" /\ ~backup'.exists
    BY <1>5, DirectoryConstants DEF DropBackup
  <2> QED
    BY <2>1 DEF Placed, Before, InTry
<1>6. CASE FinallyStaging
  <2>1. pc = "fin_staging" /\ pc' = "fin_restore" /\ UNCHANGED <<release, backup>>
    BY <1>6 DEF FinallyStaging, Step
  <2> QED
    BY <1>1, <2>1 DEF Placed, Before, InTry
<1>7. CASE FinallyRestore
  <2>1. pc' = "fin_backup"
    BY <1>7 DEF FinallyRestore
  <2>2. backup'.exists => release'.exists
    BY <1>7, DirectoryConstants DEF FinallyRestore
  <2> QED
    BY <2>1, <2>2 DEF Placed, Before, InTry
<1>8. CASE FinallyBackup
  <2>1. pc' = "idle" /\ ~backup'.exists
    BY <1>8, DirectoryConstants DEF FinallyBackup
  <2> QED
    BY <2>1 DEF Placed, Before, InTry
<1> QED
  BY <1>2, <1>3, <1>4, <1>5, <1>6, <1>7, <1>8

\* One step of an invocation may raise: what the except and the finally clause
\* then do runs to its end.  After a kill nothing is claimed.
LEMMA PlacedFailure ==
    ASSUME MaxFaults <= 1, Inv, Placed, Fault \/ Crash
    PROVE  Placed'
<1>1. release' = release /\ HalfRemoved
  BY HalfRemovedSafe DEF Fault, Crash, HalfRemoved
<1>2. CASE Crash
  <2>1. pc' = "idle" /\ crashes' = crashes + 1 /\ crashes \in Nat
    BY <1>2, RecordAssumption DEF Crash, Inv, TypeOK
  <2>2. crashes' # 0
    BY <2>1
  <2> QED
    BY <2>1, <2>2 DEF Placed, Before, InTry
<1>3. CASE Fault
  <2>1. faults = 0 /\ faults' = 1 /\ crashes' = crashes /\ pc # "idle" /\ pc' \in Handler
    BY <1>3, RecordAssumption DEF Fault, Inv, TypeOK
  <2>2. pc \in Before \cup InTry \cup Finally /\ pc # "restore"
    BY <2>1 DEF Inv, TypeOK, Placed
  <2>3. /\ pc' \in {"idle", "restore", "fin_staging"}
        /\ pc' = "idle" \/ pc \in InTry
    <3>1. CASE pc \in Before \cup Finally
      BY <2>1, <3>1 DEF Handler, Before, Finally
    <3>2. CASE pc \in InTry
      BY <2>1, <3>2 DEF Handler, Before, Finally, InTry
    <3> QED
      BY <2>2, <3>1, <3>2
  <2>4. backup' = backup \/ backup.exists
    BY <1>1, HalfRemovedBackup
  <2>5. crashes = 0 /\ backup'.exists /\ ~release'.exists => pc = "move_new"
    BY <1>1, <2>1, <2>4 DEF Placed
  <2>6. pc = "move_new" => pc' \in {"restore", "fin_staging"}
    BY <2>1 DEF Handler, Before, Finally
  <2> QED
    BY <2>1, <2>3, <2>5, <2>6 DEF Placed, Before, InTry
<1> QED
  BY <1>2, <1>3

\* Where the evidence is is an invariant, when no second step raises.
LEMMA PlacedStep ==
    ASSUME MaxFaults <= 1, Inv, Placed, [Next]_vars
    PROVE  Placed'
<1>1. CASE EditSource \/ CommitSource \/ UNCHANGED vars
  <2>1. UNCHANGED <<release, staging, backup, pc, faults, crashes>>
    BY <1>1 DEF EditSource, CommitSource, vars, dirs
  <2> QED
    BY <2>1 DEF Placed
<1> QED
  BY <1>1, PlacedBefore, PlacedAfter, PlacedFailure DEF Next, Script, Over

\* Whether replacing was asked for is tested once, before the gate; nothing is
\* put into the release directory between that and the rename.
LEMMA AskedStep ==
    ASSUME Inv, Asked, [Next]_vars
    PROVE  Asked'
<1> DEFINE Tested == {"gate", "clear_staging", "clear_backup", "mkdir", "bench",
                      "manifest", "move_old"}
<1>1. CASE Invoke \/ CheckClean \/ ReadIdentity
  <2>1. pc' \in {"clean", "identity", "idle", "paths"}
    BY <1>1 DEF Invoke, CheckClean, ReadIdentity
  <2> QED
    BY <2>1 DEF Asked
<1>2. CASE CheckPaths
  <2>1. UNCHANGED <<release, replace>> /\ pc' \in {"idle", "gate"}
        /\ (pc' = "gate" => ~(release.exists /\ ~replace))
    BY <1>2 DEF CheckPaths, Step, dirs
  <2> QED
    BY <2>1 DEF Asked
<1>3. CASE Gate \/ ClearStaging \/ ClearBackup \/ MakeStaging \/ RunBenchmark \/ WriteManifest
  <2>1. /\ UNCHANGED <<release, replace>> /\ pc \in Tested
        /\ pc' \in Tested \cup {"idle", "fin_staging"}
    BY <1>3 DEF Gate, ClearStaging, ClearBackup, MakeStaging, RunBenchmark, WriteManifest,
       Step, dirs
  <2> QED
    BY <2>1 DEF Asked
<1>4. CASE MoveOldAway
  <2>1. /\ pc = "move_old" /\ pc' = "move_new" /\ ~backup.exists /\ replace' = replace
        /\ IF release.exists THEN release' = Absent
           ELSE UNCHANGED <<backup, release>>
    BY <1>4 DEF MoveOldAway, Step, Inv, Staged
  <2> QED
    BY <2>1, DirectoryConstants DEF Asked
<1>5. CASE MoveNewIn \/ Restore \/ DropBackup \/ FinallyStaging \/ FinallyRestore \/ FinallyBackup
  <2>1. pc' \in {"drop_backup", "fin_staging", "fin_restore", "fin_backup", "idle"}
    BY <1>5 DEF MoveNewIn, Restore, DropBackup, FinallyStaging, FinallyRestore, FinallyBackup
  <2> QED
    BY <2>1 DEF Asked
<1>6. CASE Fault \/ Crash
  <2>1. pc' \in {"idle", "restore", "fin_staging"}
    BY <1>6 DEF Fault, Crash, Handler
  <2> QED
    BY <2>1 DEF Asked
<1>7. CASE EditSource \/ CommitSource \/ UNCHANGED vars
  <2>1. UNCHANGED <<release, backup, replace, pc>>
    BY <1>7 DEF EditSource, CommitSource, vars, dirs
  <2> QED
    BY <2>1 DEF Asked
<1> QED
  BY <1>1, <1>2, <1>3, <1>4, <1>5, <1>6, <1>7 DEF Next, Script, Over

LEMMA PlacedInvariance ==
    ASSUME MaxFaults <= 1
    PROVE  Spec => [](Inv /\ Placed /\ Asked)
<1>1. Placed /\ Asked /\ Inv /\ [Next]_vars => (Placed /\ Asked)'
  BY PlacedStep, AskedStep
<1> QED
  BY <1>1, PlacedInit, Invariance, PTL DEF Spec

\* When no invocation was killed and in each at most one step raised, the
\* evidence is never left in the backup directory, where no reader looks (lines
\* 113-121, 171-178).  A second step that raises, in the except or in the
\* finally clause, does leave it there, which is why the theorem says so.
THEOREM EvidenceStaysInPlace ==
    ASSUME MaxFaults <= 1
    PROVE  Spec => []EvidenceInPlace
<1>1. Placed => EvidenceInPlace
  BY DEF Placed, EvidenceInPlace
<1> QED
  BY <1>1, PlacedInvariance, PTL

-----------------------------------------------------------------------------
(***************************************************************************)
(* The script implements the store                                         *)
(***************************************************************************)

\* The mapped state is a state of the store.
LEMMA VisibleType ==
    ASSUME Inv
    PROVE  /\ Visible \in {d \in Directory : Complete(d)} \cup {Absent}
           /\ release.exists => Visible = release /\ Complete(release)
  BY DEF Inv, TypeOK, NeverPartial, Visible

\* What the reader sees does not change when neither directory does, and of the
\* backup it matters only whether it is complete.
LEMMA VisibleSame ==
    ASSUME release' = release, \/ backup' = backup
                               \/ release.exists
                               \/ ~Complete(backup) /\ ~Complete(backup')
    PROVE  Visible' = Visible
  BY DEF Visible

LEMMA ScriptImplements ==
    ASSUME Inv, Placed, Asked, Script
    PROVE  [Store!StoreNext]_(Store!storeVars)
<1>1. UNCHANGED <<replace, crashes>>
  BY DEF Script, CheckClean, ReadIdentity, CheckPaths, Gate, ClearStaging, ClearBackup,
     MakeStaging, RunBenchmark, WriteManifest, MoveOldAway, MoveNewIn, Restore, DropBackup,
     FinallyStaging, FinallyRestore, FinallyBackup, Step
<1>2. ASSUME Visible' = Visible PROVE UNCHANGED Store!storeVars
  BY <1>1, <1>2 DEF Store!storeVars
<1>3. CASE CheckClean \/ ReadIdentity \/ CheckPaths \/ Gate \/ ClearStaging
           \/ MakeStaging \/ RunBenchmark \/ WriteManifest \/ FinallyStaging
  <2>1. UNCHANGED <<release, backup>>
    BY <1>3 DEF CheckClean, ReadIdentity, CheckPaths, Gate, ClearStaging, MakeStaging,
       RunBenchmark, WriteManifest, FinallyStaging, dirs
  <2> QED
    BY <1>2, <2>1, VisibleSame
<1>4. CASE ClearBackup
  <2>1. release' = release /\ backup' = Absent /\ pc = "clear_backup"
    BY <1>4 DEF ClearBackup, Step
  <2>2. ~Complete(Absent)
    BY DirectoryConstants DEF Complete
  <2>3. CASE release.exists \/ ~Complete(backup)
    BY <1>2, <2>1, <2>2, <2>3, VisibleSame
  <2>4. CASE ~release.exists /\ Complete(backup)
    <3>1. crashes > 0
      BY <2>1, <2>4, RecordAssumption DEF Placed, Complete, Inv, TypeOK
    <3>2. Visible' = Absent
      BY <2>1, <2>2, <2>4 DEF Visible
    <3> QED
      BY <1>1, <3>1, <3>2 DEF Store!StoreNext, Store!Lose
  <2> QED
    BY <2>3, <2>4
<1>5. CASE MoveOldAway
  <2>1. CASE release.exists
    <3>1. Visible = release /\ Visible' = release
      BY <1>5, <2>1, VisibleType, DirectoryConstants DEF MoveOldAway, Visible
    <3> QED
      BY <1>2, <3>1
  <2>2. CASE ~release.exists
    <3>1. UNCHANGED <<release, backup>>
      BY <1>5, <2>2 DEF MoveOldAway
    <3> QED
      BY <1>2, <3>1, VisibleSame
  <2> QED
    BY <2>1, <2>2
<1>6. CASE MoveNewIn
  <2>1. pc = "move_new" /\ release' = staging /\ Complete(staging) /\ staging \in Directory
    BY <1>6 DEF MoveNewIn, Step, Inv, Staged, TypeOK
  <2>2. Visible' = staging
    BY <2>1 DEF Visible, Complete
  <2>3. Visible = Absent \/ replace
    BY <2>1 DEF Asked, Visible, Complete
  <2> QED
    BY <1>1, <2>1, <2>2, <2>3 DEF Store!StoreNext, Store!Publish
<1>7. CASE Restore \/ FinallyRestore
  <2>1. pc \in InTry \cup Finally
    BY <1>7 DEF Restore, FinallyRestore, Step, InTry, Finally
  <2>2. \/ UNCHANGED <<release, backup>>
        \/ release' = backup /\ backup.exists /\ ~release.exists
    BY <1>7 DEF Restore, FinallyRestore
  <2>3. CASE release' = backup /\ backup.exists /\ ~release.exists
    <3>1. Complete(backup)
      BY <2>1, <2>3 DEF Inv, Staged
    <3> QED
      BY <1>2, <2>3, <3>1 DEF Visible
  <2> QED
    BY <1>2, <2>2, <2>3, VisibleSame
<1>8. CASE DropBackup \/ FinallyBackup
  <2>1. release' = release /\ backup' = Absent /\ pc \in {"drop_backup", "fin_backup"}
    BY <1>8 DEF DropBackup, FinallyBackup, Step
  <2>2. release.exists \/ ~backup.exists
    BY <2>1 DEF Placed, Inv, Staged
  <2>3. ~Complete(Absent) /\ (Complete(backup) => backup.exists)
    BY DirectoryConstants DEF Complete
  <2> QED
    BY <1>2, <2>1, <2>2, <2>3, VisibleSame
<1> QED
  BY <1>3, <1>4, <1>5, <1>6, <1>7, <1>8 DEF Script

\* A step that raises loses nothing of what is visible, and neither does the
\* kill itself.  Only the rmtree of the backup that a later invocation starts
\* with can, after an earlier one was killed between the renames.
LEMMA FailureImplements ==
    ASSUME Inv, Placed, Fault \/ Crash
    PROVE  [Store!StoreNext]_(Store!storeVars)
<1>1. release' = release /\ HalfRemoved /\ replace' = replace
  BY HalfRemovedSafe DEF Fault, Crash, HalfRemoved
<1>2. crashes \in Nat
  BY RecordAssumption DEF Inv, TypeOK
<1>3. /\ crashes' = crashes \/ (crashes' = crashes + 1 /\ (crashes' > 0) = TRUE)
      /\ crashes > 0 => (crashes' > 0) = (crashes > 0)
  BY <1>2 DEF Fault, Crash
<1>4. CASE Visible' = Visible
  BY <1>1, <1>3, <1>4 DEF Store!storeVars, Store!StoreNext, Store!Kill
<1>5. CASE Visible' # Visible
  <2>1. ~release.exists /\ backup' # backup
    BY <1>1, <1>5, VisibleSame
  <2>2. backup.exists /\ ~Complete(backup') /\ pc \in {"clear_backup", "drop_backup", "fin_backup"}
    BY <1>1, <2>1, HalfRemovedBackup
  <2>3. crashes > 0
    BY <1>2, <2>1, <2>2 DEF Placed
  <2>4. Visible' = Absent
    BY <1>1, <2>1, <2>2 DEF Visible
  <2> QED
    BY <1>1, <1>3, <2>3, <2>4 DEF Store!StoreNext, Store!Lose
<1> QED
  BY <1>4, <1>5

LEMMA StepImplements ==
    ASSUME Inv, Placed, Asked, [Next]_vars
    PROVE  [Store!StoreNext]_(Store!storeVars)
<1>1. CASE Invoke
  <2>1. UNCHANGED <<release, backup, crashes>> /\ replace' \in BOOLEAN
    BY <1>1 DEF Invoke, dirs
  <2> QED
    BY <2>1, VisibleSame DEF Store!StoreNext, Store!Begin
<1>2. CASE EditSource \/ CommitSource \/ UNCHANGED vars
  <2>1. UNCHANGED <<release, backup, crashes, replace>>
    BY <1>2 DEF EditSource, CommitSource, vars, dirs
  <2> QED
    BY <2>1, VisibleSame DEF Store!storeVars
<1> QED
  BY <1>1, <1>2, ScriptImplements, FailureImplements DEF Next, Over

LEMMA InitImplements == Init => Store!StoreInit
<1> SUFFICES ASSUME Init PROVE Store!StoreInit
  OBVIOUS
<1>1. Inv
  BY InvInit
<1>2. Visible \in {d \in Directory : Complete(d)} \cup {Absent}
  BY <1>1, VisibleType
<1>3. replace \in BOOLEAN
  BY <1>1 DEF Inv, TypeOK
<1>4. (crashes > 0) = FALSE
  BY DEF Init
<1> QED
  BY <1>2, <1>3, <1>4 DEF Store!StoreInit

\* The script implements the store: whatever raises in it, and whenever it is
\* killed, the evidence a reader sees is replaced as a whole, only when that was
\* asked for, and is lost only after a kill (lines 28, 181-192).
THEOREM ScriptImplementsStore ==
    ASSUME MaxFaults <= 1
    PROVE  Spec => ImplementsStore
<1>1. Init => Store!StoreInit
  BY InitImplements
<1>2. Inv /\ Placed /\ Asked /\ [Next]_vars => [Store!StoreNext]_(Store!storeVars)
  BY StepImplements
<1> QED
  BY <1>1, <1>2, PlacedInvariance, PTL DEF Spec, ImplementsStore, Store!StoreSpec

-----------------------------------------------------------------------------
(***************************************************************************)
(* Evidence of two contents of the source                                  *)
(***************************************************************************)

\* Complete evidence whose parts come from two contents shows it.
Shows(d) == Complete(d) /\ ~OneSource(d) => d.sha # d.commit

\* As long as the source was edited at most once: before the edit everything is
\* of the commit that is checked out; when the commit read at the start is still
\* the content on disk, so is every result measured since.
Traced ==
    /\ edits = 0 => head = tree
    /\ edits = 0 /\ pc \in Identified => commit = tree
    /\ edits <= 1 /\ pc \in {"bench", "manifest"} /\ commit = tree =>
          \A b \in Benchmarks : staging.result[b].source \in {0, tree}
    /\ edits <= 1 => Shows(release) /\ Shows(backup)
    /\ edits <= 1 /\ pc \in {"move_old", "move_new"} => Shows(staging)

LEMMA TracedInit == Init => Traced
<1> SUFFICES ASSUME Init PROVE Traced
  OBVIOUS
<1>1. ~Complete(Absent)
  BY DirectoryConstants DEF Complete
<1>2. Shows(EvidenceOf(head))
  BY DEF Shows, OneSource, EvidenceOf
<1> QED
  BY <1>1, <1>2 DEF Init, Traced, Shows, Identified

\* The steps that write no result, no manifest and no directory.
LEMMA TracedQuiet ==
    ASSUME Inv, Traced,
           Invoke \/ CheckClean \/ ReadIdentity \/ CheckPaths \/ Gate
             \/ ClearStaging \/ FinallyStaging \/ FinallyBackup \/ ClearBackup \/ DropBackup
    PROVE  Traced'
<1>1. /\ UNCHANGED <<head, tree, edits, release>>
      /\ backup' \in {backup, Absent}
      /\ pc' \in {"clean", "identity", "paths", "gate", "clear_staging", "clear_backup",
                  "mkdir", "fin_staging", "fin_restore", "idle"}
  BY DEF Invoke, CheckClean, ReadIdentity, CheckPaths, Gate, ClearStaging, FinallyStaging,
     FinallyBackup, ClearBackup, DropBackup, Step, source, dirs
<1>2. edits = 0 /\ pc' \in Identified => commit' = tree
  BY DEF Invoke, CheckClean, ReadIdentity, CheckPaths, Gate, ClearStaging, FinallyStaging,
     FinallyBackup, ClearBackup, DropBackup, Step, locals, Traced, Identified
<1>3. Shows(Absent)
  BY DirectoryConstants DEF Shows, Complete
<1> QED
  BY <1>1, <1>2, <1>3 DEF Traced

\* The staging directory starts empty, and each benchmark measures what is on
\* disk at that moment.
LEMMA TracedMeasured ==
    ASSUME Inv, Traced, MakeStaging \/ RunBenchmark
    PROVE  Traced'
<1>1. /\ UNCHANGED <<head, tree, edits, release, backup, commit>>
      /\ pc' \in {"bench", "manifest", "fin_staging"}
      /\ edits = 0 => commit = tree
  BY DEF MakeStaging, RunBenchmark, Step, source, Traced, Identified
<1>2. CASE MakeStaging
  <2>1. \A b \in Benchmarks : staging'.result[b].source = 0
    BY <1>2 DEF MakeStaging, Empty, Absent, Missing
  <2> QED
    BY <1>1, <2>1 DEF Traced
<1>3. CASE RunBenchmark
  <2>1. PICK passed \in BOOLEAN :
          staging' = [staging EXCEPT !.result[bench] = [source |-> tree, passed |-> passed]]
    BY <1>3 DEF RunBenchmark
  <2>2. staging \in Directory /\ bench \in Benchmarks /\ pc = "bench"
    BY <1>3 DEF RunBenchmark, Step, Inv, TypeOK
  <2>3. [source |-> tree, passed |-> passed] \in Result
    BY DEF Result, Inv, TypeOK
  <2>4. staging'.result = [staging.result EXCEPT ![bench] = [source |-> tree, passed |-> passed]]
    BY <2>1, <2>2, <2>3, ResultWritten
  <2>5. \A b \in Benchmarks :
           staging'.result[b].source = IF b = bench THEN tree ELSE staging.result[b].source
    BY <2>2, <2>4 DEF Directory
  <2> QED
    BY <1>1, <2>2, <2>5 DEF Traced
<1> QED
  BY <1>2, <1>3

\* The fingerprint is taken when every result is there.
LEMMA TracedManifest ==
    ASSUME Inv, Traced, WriteManifest
    PROVE  Traced'
<1>1. /\ UNCHANGED <<head, tree, edits, release, backup, commit>>
      /\ pc = "manifest" /\ pc' = "move_old"
      /\ staging' = [staging EXCEPT !.commit = commit, !.sha = tree]
      /\ staging \in Directory
      /\ \A b \in Benchmarks : staging.result[b].source # 0
  BY DEF WriteManifest, Step, source, locals, Inv, Staged, Passed, TypeOK
<1>2. staging'.commit = commit /\ staging'.sha = tree /\ staging'.result = staging.result
  BY <1>1 DEF Directory
<1>3. edits <= 1 => Shows(staging')
  <2> SUFFICES ASSUME edits <= 1, commit = tree PROVE OneSource(staging')
    BY <1>2 DEF Shows
  <2> QED
    BY <1>1, <1>2 DEF OneSource, Traced
<1> QED
  BY <1>1, <1>3 DEF Traced, Identified

\* A rename carries a directory as it is.
LEMMA TracedMoved ==
    ASSUME Inv, Traced, MoveOldAway \/ MoveNewIn \/ Restore \/ FinallyRestore
    PROVE  Traced'
<1>1. /\ UNCHANGED <<head, tree, edits>>
      /\ pc' \in {"move_new", "drop_backup", "fin_staging", "fin_backup"}
  BY DEF MoveOldAway, MoveNewIn, Restore, FinallyRestore, Step, source
<1>2. Shows(Absent)
  BY DirectoryConstants DEF Shows, Complete
<1>3. edits <= 1 => Shows(release') /\ Shows(backup')
  BY <1>2 DEF MoveOldAway, MoveNewIn, Restore, FinallyRestore, Step, Traced
<1>4. edits <= 1 /\ pc' = "move_new" => Shows(staging')
  BY DEF MoveOldAway, MoveNewIn, Restore, FinallyRestore, Step, Traced
<1> QED
  BY <1>1, <1>3, <1>4 DEF Traced, Identified

\* A backup half removed is complete only when nothing of it was removed.
LEMMA TracedFailure ==
    ASSUME Inv, Traced, Fault \/ Crash
    PROVE  Traced'
<1>1. /\ UNCHANGED <<head, tree, edits, release>> /\ HalfRemoved
      /\ pc' \in {"idle", "restore", "fin_staging"}
  BY DEF Fault, Crash, Handler, HalfRemoved, source
<1>2. backup' = backup \/ ~Complete(backup')
  BY <1>1, HalfRemovedBackup
<1>3. edits <= 1 => Shows(backup')
  BY <1>2 DEF Shows, Traced
<1> QED
  BY <1>1, <1>3 DEF Traced, Identified

\* The first edit parts the content on disk from every commit read before it.
LEMMA TracedEnvironment ==
    ASSUME Inv, Traced, EditSource \/ CommitSource \/ UNCHANGED vars
    PROVE  Traced'
<1>1. UNCHANGED <<release, staging, backup, pc, commit>>
  BY DEF EditSource, CommitSource, vars, dirs, locals
<1>2. CASE EditSource
  <2>1. tree' # tree /\ edits' = edits + 1 /\ edits \in Nat
    BY <1>2, RecordAssumption DEF EditSource, Inv, TypeOK
  <2>2. edits' # 0 /\ (edits' <= 1 => edits = 0)
    BY <2>1
  <2>3. edits = 0 /\ pc \in {"bench", "manifest"} => commit # tree'
    BY <2>1 DEF Traced, Identified
  <2>4. edits' <= 1 => edits <= 1
    BY <2>1
  <2> QED
    BY <1>1, <2>2, <2>3, <2>4 DEF Traced
<1>3. CASE CommitSource \/ UNCHANGED vars
  <2>1. UNCHANGED <<tree, edits>> /\ (head' = tree \/ head' = head)
    BY <1>3 DEF CommitSource, vars, source
  <2> QED
    BY <1>1, <2>1 DEF Traced
<1> QED
  BY <1>2, <1>3

LEMMA TracedInvariance == Spec => [](Inv /\ Traced)
<1>1. Traced /\ Inv /\ [Next]_vars => Traced'
  BY TracedQuiet, TracedMeasured, TracedManifest, TracedMoved, TracedFailure,
     TracedEnvironment DEF Next, Script, Over
<1> QED
  BY <1>1, TracedInit, Invariance, PTL DEF Spec

\* Evidence that was measured on two contents of the source cannot look like
\* evidence of one, when the source was edited once: the commit is read first
\* and the fingerprint is taken last (lines 38, 129).
THEOREM MixedEvidenceAlwaysShows == Spec => []MixedEvidenceShows
<1>1. Inv /\ Traced => MixedEvidenceShows
  BY DEF Inv, NeverPartial, Traced, Shows, MixedEvidenceShows
<1> QED
  BY <1>1, TracedInvariance, PTL

-----------------------------------------------------------------------------
(***************************************************************************)
(* An invocation advances                                                  *)
(***************************************************************************)

\* How many steps an invocation can still take: three benchmarks are counted down by
\* bench, and a handler is entered below every step it may be entered from.
StepsLeft ==
    CASE pc = "clean" -> 17
      [] pc = "identity" -> 16
      [] pc = "paths" -> 15
      [] pc = "gate" -> 14
      [] pc = "clear_staging" -> 13
      [] pc = "clear_backup" -> 12
      [] pc = "mkdir" -> 11
      [] pc = "bench" -> 11 - bench
      [] pc = "manifest" -> 7
      [] pc = "move_old" -> 6
      [] pc = "move_new" -> 5
      [] pc \in {"restore", "drop_backup"} -> 4
      [] pc = "fin_staging" -> 3
      [] pc = "fin_restore" -> 2
      [] pc = "fin_backup" -> 1
      [] pc = "idle" -> 0

LEMMA StepsLeftType ==
    ASSUME TypeOK
    PROVE  StepsLeft \in 0..17 /\ (pc # "idle" => StepsLeft > 0)
<1>1. bench \in 1..3
  BY DEF TypeOK, Benchmarks
<1>2. pc \in {"idle"} \cup Before \cup InTry \cup Finally
  BY DEF TypeOK
<1> QED
  BY <1>1, <1>2 DEF Before, InTry, Finally, StepsLeft

\* Whatever happens in it, no step of an invocation leads back.
LEMMA StepLowers ==
    ASSUME Inv, Script \/ Fault \/ Crash
    PROVE  StepsLeft' < StepsLeft
<1>1. bench \in 1..3
  BY DEF Inv, TypeOK, Benchmarks
<1>2. CASE CheckClean \/ ReadIdentity \/ CheckPaths \/ Gate \/ ClearStaging \/ ClearBackup
  BY <1>2 DEF CheckClean, ReadIdentity, CheckPaths, Gate, ClearStaging, ClearBackup, Step,
     StepsLeft
<1>3. CASE MakeStaging
  BY <1>3 DEF MakeStaging, Step, StepsLeft
<1>4. CASE RunBenchmark
  <2>1. /\ pc = "bench"
        /\ \/ pc' = "fin_staging"
           \/ bench < 3 /\ pc' = "bench" /\ bench' = bench + 1
           \/ pc' = "manifest"
    BY <1>4 DEF RunBenchmark, Step
  <2> QED
    BY <1>1, <2>1 DEF StepsLeft
<1>5. CASE WriteManifest \/ MoveOldAway \/ MoveNewIn \/ Restore \/ DropBackup
           \/ FinallyStaging \/ FinallyRestore \/ FinallyBackup
  BY <1>5 DEF WriteManifest, MoveOldAway, MoveNewIn, Restore, DropBackup, FinallyStaging,
     FinallyRestore, FinallyBackup, Step, StepsLeft
<1>6. CASE Crash
  <2>1. pc # "idle" /\ pc' = "idle"
    BY <1>6 DEF Crash
  <2> QED
    BY <2>1, StepsLeftType DEF Inv, StepsLeft
<1>7. CASE Fault
  <2>1. pc # "idle" /\ pc' \in Handler
    BY <1>7 DEF Fault
  <2>2. pc \in Before \cup InTry \cup Finally
    BY <2>1 DEF Inv, TypeOK
  <2>3. CASE pc \in Before \cup Finally
    <3>1. pc' = "idle"
      BY <2>1, <2>3 DEF Handler, Before, Finally
    <3> QED
      BY <2>1, <3>1, StepsLeftType DEF Inv, StepsLeft
  <2>4. CASE pc = "move_new"
    <3>1. pc' \in {"restore", "fin_staging"}
      BY <2>1, <2>4 DEF Handler, Before, Finally
    <3> QED
      BY <2>4, <3>1 DEF StepsLeft
  <2>5. CASE pc \in InTry \ {"move_new"}
    <3>1. pc' = "fin_staging"
      BY <2>1, <2>5 DEF Handler, Before, Finally, InTry
    <3> QED
      BY <1>1, <2>5, <3>1 DEF StepsLeft, InTry
  <2> QED
    BY <2>2, <2>3, <2>4, <2>5
<1> QED
  BY <1>2, <1>3, <1>4, <1>5, <1>6, <1>7 DEF Script

\* An invocation takes at most 17 steps, each of which brings it nearer to its end,
\* whatever raises in it, whatever it finds and whoever edits the source meanwhile:
\* what InvocationEnds needs besides fairness (lines 28-192).
THEOREM InvocationAdvances ==
    Spec => [][/\ Script \/ Fault \/ Crash => StepsLeft' < StepsLeft
               /\ EditSource \/ CommitSource => StepsLeft' = StepsLeft
               /\ Invoke => StepsLeft' = 17
               /\ StepsLeft \in 0..17 /\ (StepsLeft = 0 <=> pc = "idle")]_vars
<1> DEFINE Advances ==
       /\ Script \/ Fault \/ Crash => StepsLeft' < StepsLeft
       /\ EditSource \/ CommitSource => StepsLeft' = StepsLeft
       /\ Invoke => StepsLeft' = 17
       /\ StepsLeft \in 0..17 /\ (StepsLeft = 0 <=> pc = "idle")
<1>1. ASSUME Inv, [Next]_vars PROVE [Advances]_vars
  <2>1. Script \/ Fault \/ Crash => StepsLeft' < StepsLeft
    BY <1>1, StepLowers
  <2>2. EditSource \/ CommitSource => StepsLeft' = StepsLeft
    BY DEF EditSource, CommitSource, locals, StepsLeft
  <2>3. Invoke => StepsLeft' = 17
    BY DEF Invoke, StepsLeft
  <2>4. pc = "idle" => StepsLeft = 0
    BY DEF StepsLeft
  <2>5. StepsLeft \in 0..17 /\ (StepsLeft = 0 <=> pc = "idle")
    BY <1>1, <2>4, StepsLeftType DEF Inv
  <2> QED
    BY <2>1, <2>2, <2>3, <2>5
<1> QED
  BY <1>1, Invariance, PTL DEF Spec
=============================================================================
