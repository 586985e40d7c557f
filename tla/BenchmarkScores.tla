--------------------------- MODULE BenchmarkScores ---------------------------
(***************************************************************************)
(* How run_quantumguardbench.py and run_end_to_end.py score the scanner on *)
(* labelled code, and when they exit with 0.                               *)
(*                                                                         *)
(* A case is a directory with labels; found and repeated are the active    *)
(* findings of the two audits the runner makes of it.  plans is what the   *)
(* migration engine has: the algorithms it plans for, and for each purpose *)
(* the list of targets it recommends.                                      *)
(***************************************************************************)
EXTENDS Integers, FiniteSets, Sequences

Purposes == {"SIGNATURE", "KEY_ESTABLISHMENT", "ENCRYPTION", "HASHING", "MAC",
             "KDF", "CERTIFICATE", "UNKNOWN"}
Targets == {"ML_KEM", "ML_DSA", "SLH_DSA"}
NoTargets == <<"not_labelled">>     \* a label without migration_targets
Plans == [shor : SUBSET STRING, targets : [Purposes -> Seq(Targets)]]
Formats == {"cyclonedx", "contract", "official"}

Findings == [file : STRING, line : Nat, algorithm : STRING, purpose : Purposes]
Labels == [file : STRING, line : Nat, algorithm : STRING, purpose : Purposes,
           targets : Seq(Targets) \cup {NoTargets}]
Cases == [labels : Seq(Labels), found : Seq(Findings), repeated : Seq(Findings),
          valid : SUBSET Formats]
Repositories ==
    [required : SUBSET (STRING \X STRING \X Purposes \X Nat),
     found : Seq(Findings), repeated : Seq(Findings), minimum : Nat,
     expected : SUBSET STRING, dependencies : SUBSET STRING,
     parserErrors : Nat, valid : SUBSET Formats]

-----------------------------------------------------------------------------
(***************************************************************************)
(* Labels against findings                                                 *)
(***************************************************************************)
Key(item, unit) ==
    IF unit = "call_site"
    THEN <<item.file, item.algorithm, item.purpose, item.line>>
    ELSE <<item.file, item.algorithm, item.purpose>>

Keys(items, unit) == {Key(items[i], unit) : i \in DOMAIN items}

\* What {key: item for item in items} holds for a key: the last such item.
Last(items, key, unit) ==
    items[CHOOSE i \in DOMAIN items :
            /\ Key(items[i], unit) = key
            /\ \A j \in DOMAIN items : Key(items[j], unit) = key => j <= i]

\* The keys of all cases, each with its case.
Labelled(cases, unit) ==
    UNION {{i} \X Keys(cases[i].labels, unit) : i \in DOMAIN cases}
Observed(cases, unit) ==
    UNION {{i} \X Keys(cases[i].found, unit) : i \in DOMAIN cases}

TruePositives(cases, unit) == Labelled(cases, unit) \cap Observed(cases, unit)
FalsePositives(cases, unit) == Observed(cases, unit) \ Labelled(cases, unit)
FalseNegatives(cases, unit) == Labelled(cases, unit) \ Observed(cases, unit)

\* part / whole < percent / 100, where a ratio of nothing is 1.0.
Below(part, whole, percent) == whole > 0 /\ 100 * part < percent * whole

PrecisionBelow(cases, unit, percent) ==
    LET tp == Cardinality(TruePositives(cases, unit))
    IN  Below(tp, tp + Cardinality(FalsePositives(cases, unit)), percent)

RecallBelow(cases, unit, percent) ==
    LET tp == Cardinality(TruePositives(cases, unit))
    IN  Below(tp, tp + Cardinality(FalseNegatives(cases, unit)), percent)

-----------------------------------------------------------------------------
(***************************************************************************)
(* Migration targets of the wrong class                                    *)
(***************************************************************************)
Lists(targets, some) == \E i \in DOMAIN targets : targets[i] \in some

FaultyDangerous(purpose, targets) ==    \* encryption is forgotten
    \/ purpose = "SIGNATURE" /\ Lists(targets, {"ML_KEM"})
    \/ purpose = "KEY_ESTABLISHMENT" /\ Lists(targets, {"ML_DSA", "SLH_DSA"})

\* Only three purposes are looked at: a certificate may get any targets.
Dangerous(purpose, targets) ==
    \/ purpose = "SIGNATURE" /\ Lists(targets, {"ML_KEM"})
    \/ /\ purpose \in {"KEY_ESTABLISHMENT", "ENCRYPTION"}
       /\ Lists(targets, {"ML_DSA", "SLH_DSA"})

\* The targets of the plan for a label that is met, whose algorithm and purpose
\* are those of the finding; an active finding has no plan where the algorithm
\* is out of Shor's reach.
ActualTargets(label, plans) ==
    IF label.algorithm \in plans.shor THEN plans.targets[label.purpose] ELSE <<>>

\* Whether a label contradicts those targets, their order included.
Contradicts(label, plans) ==
    label.targets \notin {NoTargets, ActualTargets(label, plans)}

\* Only a label that is met, has targets, and has others than the plan, is
\* looked at.
DangerousErrors(cases, unit, plans) ==
    {m \in TruePositives(cases, unit) :
        LET label == Last(cases[m[1]].labels, m[2], unit)
        IN  /\ Contradicts(label, plans)
            /\ Dangerous(label.purpose, ActualTargets(label, plans))}

-----------------------------------------------------------------------------
(***************************************************************************)
(* The exit codes, and what the release gate asks of the results           *)
(***************************************************************************)
Deterministic(cases) == \A i \in DOMAIN cases : cases[i].found = cases[i].repeated
Valid(cases, formats) == \A i \in DOMAIN cases : formats \subseteq cases[i].valid

BenchmarkPasses(cases, unit, plans, precision, recall) ==
    /\ ~PrecisionBelow(cases, unit, precision) /\ ~RecallBelow(cases, unit, recall)
    /\ Deterministic(cases) /\ Valid(cases, Formats)
    /\ DangerousErrors(cases, unit, plans) = {}

ResultAccepted(cases, unit, plans, precision) ==
    /\ Valid(cases, {"cyclonedx", "official"})
    /\ ~PrecisionBelow(cases, unit, precision)
    /\ DangerousErrors(cases, unit, plans) = {}

\* What a repository was to show and did not.
MissingObservations(repo) == repo.required \ Keys(repo.found, "call_site")

Complete(repo) ==
    /\ repo.parserErrors = 0 /\ repo.expected \subseteq repo.dependencies
    /\ MissingObservations(repo) = {} /\ Len(repo.found) >= repo.minimum

EndToEndPasses(repos) ==
    /\ Deterministic(repos) /\ Valid(repos, Formats)
    /\ \A i \in DOMAIN repos : Complete(repos[i])

EndToEndAccepted(repos) ==
    /\ Deterministic(repos) /\ Valid(repos, {"cyclonedx", "official"})
    /\ \A i \in DOMAIN repos : Complete(repos[i])
=============================================================================
