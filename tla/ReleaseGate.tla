----------------------------- MODULE ReleaseGate -----------------------------
(***************************************************************************)
(* scripts/release_check.py: the checks of a release candidate, one child  *)
(* process after the other, each with a timeout; and the same program run  *)
(* once more, by itself, in a copy of the source, while the maintainer may *)
(* go on editing the original.                                             *)
(*                                                                         *)
(* Level 1 is the gate, level 2 the gate it runs in the standalone copy.   *)
(***************************************************************************)
EXTENDS BenchmarkScores

CONSTANTS
    Sources,            \* the sources a tree may hold
    Content,            \* what each of them says and does
    NoSource,           \* what is there before a build or an export
    SyntheticPrecision, SyntheticRecall,    \* required of the benchmarks, in percent
    RealPrecision, RealRecall,
    ResultPrecision,    \* and once more of their results
    MaxEvents           \* bound on faults and edits together

(***************************************************************************)
(* The checks in their order.  A check is made only if the one it follows, *)
(* if any, has passed.  "one_wheel" and the two results are tests by the   *)
(* gate itself, the others child processes.                                *)
(***************************************************************************)
Checks == <<
    "launch_surface", "ruff_check", "ruff_format", "mypy", "consumer_typing",
    "test_key_allowlist", "third_party_notices", "action_contract", "zizmor", "tests",
    "coverage_thresholds", "doctor_strict", "legacy_module", "vulnerable_example",
    "pqc_aware_example", "official_SARIF", "CycloneDX", "synthetic_benchmark",
    "synthetic_result", "real_code_benchmark", "real_code_result", "end_to_end",
    "end_to_end_result", "source_identity", "package_build", "twine", "sdist_surface",
    "one_wheel", "artifact_manifest", "manifest_validation", "SBOM_schema",
    "wheel_install", "wheel_surface", "standalone_export", "standalone_launch_surface",
    "standalone_gates">>

Follows(name) ==
    CASE name = "coverage_thresholds" -> "tests"
      [] name \in {"pqc_aware_example", "official_SARIF", "CycloneDX"} -> "vulnerable_example"
      [] name = "synthetic_result" -> "synthetic_benchmark"
      [] name = "real_code_result" -> "real_code_benchmark"
      [] name = "end_to_end_result" -> "end_to_end"
      [] name \in {"twine", "sdist_surface", "one_wheel"} -> "package_build"
      [] name \in {"artifact_manifest", "wheel_install"} -> "one_wheel"
      [] name \in {"manifest_validation", "SBOM_schema"} -> "artifact_manifest"
      [] name = "wheel_surface" -> "wheel_install"
      [] name \in {"standalone_launch_surface", "standalone_gates"} -> "standalone_export"
      [] OTHER -> ""

End == Len(Checks) + 1
Positions == 1..(End - 1)
Names == {Checks[i] : i \in Positions}
Levels == {1, 2}

Own == {"synthetic_result", "real_code_result", "end_to_end_result", "one_wheel"}
Packages == {"twine", "sdist_surface", "one_wheel", "artifact_manifest",
             "manifest_validation", "SBOM_schema", "wheel_install"}
Artifacts == {"artifact_manifest", "manifest_validation", "SBOM_schema"}
Standalone == {"standalone_export", "standalone_launch_surface", "standalone_gates"}

\* wrong: the checks a source does not meet.  What the benchmarks say of it
\* follows from the findings of its scanner and its migration table.
SourceType ==
    [wrong : SUBSET Names, plans : Plans,
     synthetic : Seq(Cases), real : Seq(Cases), repositories : Seq(Repositories)]

ASSUME GateAssumption ==
    /\ Content \in [Sources -> SourceType] /\ NoSource \notin Sources
    /\ MaxEvents \in Nat
    /\ {SyntheticPrecision, SyntheticRecall, RealPrecision, RealRecall, ResultPrecision}
          \subseteq 0..100
    /\ ResultPrecision <= SyntheticPrecision /\ ResultPrecision <= RealPrecision

VARIABLES
    tree,           \* the source in the working tree
    copy,           \* and in the standalone copy
    tools,          \* whether zizmor is installed, and git can name the commit
    skipStandalone, \* the option of level 1; level 2 always has it
    at,             \* the next check of each level: 0 not started, End the verdict
    passed, failed, \* its checks so far
    hung,           \* its current check does not return
    built,          \* the source its packages were built from
    verdict,
    events

vars == <<tree, copy, tools, skipStandalone, at, passed, failed, hung, built, verdict, events>>

Holds(s, name) ==
    /\ name \notin s.wrong
    /\ name = "synthetic_benchmark" =>
          BenchmarkPasses(s.synthetic, "semantic_use", s.plans, SyntheticPrecision, SyntheticRecall)
    /\ name = "synthetic_result" =>
          ResultAccepted(s.synthetic, "semantic_use", s.plans, ResultPrecision)
    /\ name = "real_code_benchmark" =>
          BenchmarkPasses(s.real, "call_site", s.plans, RealPrecision, RealRecall)
    /\ name = "real_code_result" =>
          ResultAccepted(s.real, "call_site", s.plans, ResultPrecision)
    /\ name = "end_to_end" => EndToEndPasses(s.repositories)
    /\ name = "end_to_end_result" => EndToEndAccepted(s.repositories)

Met == [s \in Sources |-> {name \in Names : Holds(Content[s], name)}]
Meets(s, name) == name \in Met[s]

Root(l) == IF l = 1 THEN tree ELSE copy

\* What a check judges.  The commands of the wheel are run in the environment of
\* the gate, which at level 2 is that of a child: its PYTHONPATH names the source
\* of level 1, and Python imports that before the wheel that was installed.
FaultySubject(l, name) ==       \* the gate in the copy is run without cwd
    IF name \in Packages THEN built[l]
    ELSE IF name = "standalone_launch_surface" THEN copy ELSE tree

Subject(l, name) ==
    CASE name \in Packages -> built[l]
      [] name = "wheel_surface" -> (IF l = 1 THEN built[1] ELSE tree)
      [] name = "standalone_launch_surface" -> copy
      [] OTHER -> Root(l)

\* Skipped without a word in the verdict: zizmor when it is not there, the
\* artifacts when git names no commit, and the copy when asked to.
Applies(l, name) ==
    /\ name = "zizmor" => tools.zizmor
    /\ name \in Artifacts => l = 1 /\ tools.git
    /\ name \in Standalone => l = 1 /\ ~skipStandalone

Made(l, name) ==
    Applies(l, name) /\ Follows(name) \in passed[l] \cup {""}

-----------------------------------------------------------------------------
Init ==
    /\ tree \in Sources /\ copy = NoSource
    /\ tools \in [zizmor : BOOLEAN, git : BOOLEAN] /\ skipStandalone \in BOOLEAN
    /\ at = [l \in Levels |-> IF l = 1 THEN 1 ELSE 0]
    /\ passed = [l \in Levels |-> {}] /\ failed = [l \in Levels |-> {}]
    /\ hung = [l \in Levels |-> FALSE]
    /\ built = [l \in Levels |-> NoSource]
    /\ verdict = [l \in Levels |-> "none"] /\ events = 0

Current(l) == Checks[at[l]]

\* It is level l's turn to act on its current check.
Turn(l) ==
    /\ verdict[l] = "none" /\ at[l] \in Positions
    /\ UNCHANGED <<tree, tools, skipStandalone>>

Makes(l) == Turn(l) /\ Made(l, Current(l)) /\ ~hung[l]
Waits(l) == Makes(l) /\ Current(l) # "standalone_gates" /\ UNCHANGED verdict

Passes(l) ==
    /\ at' = [at EXCEPT ![l] = @ + 1]
    /\ passed' = [passed EXCEPT ![l] = @ \cup {Current(l)}]
    /\ UNCHANGED <<failed, hung>>

Fails(l) ==
    /\ at' = [at EXCEPT ![l] = @ + 1]
    /\ failed' = [failed EXCEPT ![l] = @ \cup {Current(l)}]
    /\ hung' = [hung EXCEPT ![l] = FALSE]
    /\ UNCHANGED <<passed, built, copy>>

FaultySkip(l) ==                \* a failed check is retried by those that follow it
    /\ Turn(l) /\ ~Made(l, Current(l))
    /\ at' = [at EXCEPT ![l] = IF Follows(Current(l)) \in failed[l] THEN @ - 1 ELSE @ + 1]
    /\ UNCHANGED <<passed, failed, hung, built, copy, verdict, events>>

Skip(l) ==
    /\ Turn(l) /\ ~Made(l, Current(l))
    /\ at' = [at EXCEPT ![l] = @ + 1]
    /\ UNCHANGED <<passed, failed, hung, built, copy, verdict, events>>

Succeed(l) ==
    /\ Waits(l) /\ Meets(Subject(l, Current(l)), Current(l)) /\ Passes(l)
    /\ built' = IF Current(l) = "package_build" THEN [built EXCEPT ![l] = Root(l)] ELSE built
    /\ copy' = IF Current(l) = "standalone_export" THEN tree ELSE copy
    /\ UNCHANGED events

Fail(l) ==
    /\ Waits(l) /\ ~Meets(Subject(l, Current(l)), Current(l))
    /\ Fails(l) /\ UNCHANGED events

\* What is wrong need not be the source: no network, a full disk, a result that
\* cannot be read, two wheels.
Break(l) == Waits(l) /\ Fails(l) /\ events < MaxEvents /\ events' = events + 1

Hang(l) ==
    /\ Waits(l) /\ Current(l) \notin Own
    /\ hung' = [hung EXCEPT ![l] = TRUE]
    /\ events < MaxEvents /\ events' = events + 1
    /\ UNCHANGED <<at, passed, failed, built, copy>>

FaultyTimeOut(l) ==             \* what timed out is noted, and made again
    /\ Turn(l) /\ hung[l] /\ hung' = [hung EXCEPT ![l] = FALSE]
    /\ failed' = [failed EXCEPT ![l] = @ \cup {Current(l)}]
    /\ UNCHANGED <<at, passed, built, copy, verdict, events>>

TimeOut(l) == Turn(l) /\ hung[l] /\ Fails(l) /\ UNCHANGED <<verdict, events>>

Judge(l) ==
    /\ verdict[l] = "none" /\ at[l] = End
    /\ verdict' = [verdict EXCEPT ![l] = IF failed[l] = {} THEN "PASS" ELSE "FAIL"]
    /\ UNCHANGED <<tree, copy, tools, skipStandalone, at, passed, failed, hung, built, events>>

(***************************************************************************)
(* The gate in the copy is a check of level 1 with a timeout of its own,   *)
(* shorter than those of its checks together.                              *)
(***************************************************************************)
Nests == Makes(1) /\ Current(1) = "standalone_gates" /\ UNCHANGED events

StartCopy ==
    /\ Nests /\ at[2] = 0 /\ at' = [at EXCEPT ![2] = 1]
    /\ UNCHANGED <<passed, failed, hung, built, copy, verdict>>

CopyEnds ==
    /\ Nests /\ UNCHANGED <<verdict, built, copy>>
    /\ \/ verdict[2] = "PASS" /\ Passes(1)
       \/ verdict[2] = "FAIL" /\ Fails(1)

CopyTimesOut ==
    /\ Nests /\ at[2] # 0 /\ verdict[2] = "none" /\ Fails(1)
    /\ verdict' = [verdict EXCEPT ![2] = "killed"]

\* The maintainer, or another process, changes the working tree.
Edit(s) ==
    /\ verdict[1] = "none" /\ events < MaxEvents /\ events' = events + 1
    /\ tree' = s
    /\ UNCHANGED <<copy, tools, skipStandalone, at, passed, failed, hung, built, verdict>>

Gate(l) == Skip(l) \/ Succeed(l) \/ Fail(l) \/ TimeOut(l) \/ Judge(l)
Top == Gate(1) \/ StartCopy \/ CopyEnds \/ CopyTimesOut
Finished == verdict[1] # "none" /\ UNCHANGED vars

Next ==
    \/ Top \/ Gate(2)
    \/ \E l \in Levels : Break(l) \/ Hang(l)
    \/ \E s \in Sources : Edit(s)
    \/ Finished

\* Nothing is assumed of the gate in the copy: it may stop anywhere.
Fairness == WF_vars(Top)

Spec == Init /\ [][Next]_vars /\ Fairness

-----------------------------------------------------------------------------
(***************************************************************************)
(* Properties                                                              *)
(***************************************************************************)
\* Types; and every check a level has come past was passed, failed or skipped,
\* none of them two of these.
TypeOK ==
    /\ tree \in Sources /\ copy \in Sources \cup {NoSource}
    /\ at \in [Levels -> 0..End]
    /\ passed \in [Levels -> SUBSET Names] /\ failed \in [Levels -> SUBSET Names]
    /\ hung \in [Levels -> BOOLEAN]
    /\ built \in [Levels -> Sources \cup {NoSource}]
    /\ verdict \in [Levels -> {"none", "PASS", "FAIL", "killed"}]
    /\ events \in 0..MaxEvents
    /\ \A l \in Levels : passed[l] \cap failed[l] = {}

\* What a PASS says of the source that was exported: it meets every check, all
\* of them on one content, however the working tree was edited meanwhile and
\* whichever source each check of level 1 has met (release_check.py:297-320).
\* The artifacts are not made in the copy, which has no git; the commands of
\* the wheel judge the wrong source there.
PassIsOfOneSource ==
    verdict[1] = "PASS" /\ ~skipStandalone =>
        /\ verdict[2] = "PASS"
        /\ \A name \in Names \ (Artifacts \cup Standalone \cup {"wheel_surface"}) :
              (name = "zizmor" => tools.zizmor) => Meets(copy, name)

\* The labels of a benchmark, of algorithms that get plans, that the targets of a
\* purpose contradict.
Contradicted(cases, unit, plans, purpose) ==
    {m \in Labelled(cases, unit) :
        LET label == Last(cases[m[1]].labels, m[2], unit)
        IN  /\ label.purpose = purpose /\ label.algorithm \in plans.shor
            /\ Contradicts(label, plans)}

\* What has no place in a plan for a purpose.
WrongFor(purpose) ==
    CASE purpose = "SIGNATURE" -> {"ML_KEM"}
      [] purpose \in {"KEY_ESTABLISHMENT", "ENCRYPTION"} -> {"ML_DSA", "SLH_DSA"}
      [] OTHER -> {}

\* A row of the migration table that recommends a signature scheme for key
\* establishment or encryption, or a KEM for signatures, gets through the gate
\* only where the labels that contradict it are few enough to be missed: their
\* share is below what the recall may lack (run_quantumguardbench.py:129-158,
\* 374-391; release_check.py:164-199).  Of the row for certificates no check
\* says anything.
DangerousRowShows ==
    verdict[1] = "PASS" /\ ~skipStandalone =>
        \A purpose \in Purposes :
            LET s == Content[copy]
                m == Contradicted(s.real, "call_site", s.plans, purpose)
            IN  Lists(s.plans.targets[purpose], WrongFor(purpose)) =>
                    100 * Cardinality(m)
                        <= (100 - RealRecall) * Cardinality(Labelled(s.real, "call_site"))

\* The gate gives a verdict although a check may hang and the gate in the copy
\* stop: each child has a timeout (release_check.py:34-40, 308-313).
GateEnds == <>(verdict[1] # "none")
=============================================================================
