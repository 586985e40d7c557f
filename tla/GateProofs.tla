----------------------------- MODULE GateProofs -----------------------------
(***************************************************************************)
(* Theorems about ReleaseGate: types, and what a PASS says of the source.  *)
(***************************************************************************)
EXTENDS ReleaseGate, FiniteSetTheorems, TLAPS

-----------------------------------------------------------------------------
(***************************************************************************)
(* The order of the checks                                                 *)
(***************************************************************************)
LEMMA TheLast == End = 37 /\ Positions = 1..36
BY SMTT(30) DEF Checks, End, Positions

LEMMA TheChecks ==
    /\ Checks[1] = "launch_surface" /\ Checks[2] = "ruff_check"
    /\ Checks[3] = "ruff_format" /\ Checks[4] = "mypy"
    /\ Checks[5] = "consumer_typing" /\ Checks[6] = "test_key_allowlist"
    /\ Checks[7] = "third_party_notices" /\ Checks[8] = "action_contract"
    /\ Checks[9] = "zizmor" /\ Checks[10] = "tests"
    /\ Checks[11] = "coverage_thresholds" /\ Checks[12] = "doctor_strict"
    /\ Checks[13] = "legacy_module" /\ Checks[14] = "vulnerable_example"
    /\ Checks[15] = "pqc_aware_example" /\ Checks[16] = "official_SARIF"
    /\ Checks[17] = "CycloneDX" /\ Checks[18] = "synthetic_benchmark"
    /\ Checks[19] = "synthetic_result" /\ Checks[20] = "real_code_benchmark"
    /\ Checks[21] = "real_code_result" /\ Checks[22] = "end_to_end"
    /\ Checks[23] = "end_to_end_result" /\ Checks[24] = "source_identity"
    /\ Checks[25] = "package_build" /\ Checks[26] = "twine"
    /\ Checks[27] = "sdist_surface" /\ Checks[28] = "one_wheel"
    /\ Checks[29] = "artifact_manifest" /\ Checks[30] = "manifest_validation"
    /\ Checks[31] = "SBOM_schema" /\ Checks[32] = "wheel_install"
    /\ Checks[33] = "wheel_surface" /\ Checks[34] = "standalone_export"
    /\ Checks[35] = "standalone_launch_surface" /\ Checks[36] = "standalone_gates"
BY SMTT(60) DEF Checks

\* No check has two places.
LEMMA Distinct ==
    ASSUME NEW i \in Positions, NEW j \in Positions, Checks[i] = Checks[j]
    PROVE  i = j
BY TheChecks, TheLast, SMTT(60)

\* What a check follows comes before it, and applies where the check applies.
LEMMA FollowsEarlier ==
    ASSUME NEW i \in Positions, Follows(Checks[i]) # ""
    PROVE  \E j \in Positions : j < i /\ Follows(Checks[i]) = Checks[j]
<1>. DEFINE Before(j) == j \in Positions /\ j < i /\ Follows(Checks[i]) = Checks[j]
<1>. SUFFICES \E j : Before(j)
  OBVIOUS
<1>1. i \in {11, 15, 16, 17, 19, 21, 23, 26, 27, 28, 29, 30, 31, 32, 33, 35, 36}
  BY TheChecks, TheLast, SMTT(60) DEF Follows
<1>2. ASSUME i \in {11}
      PROVE  Before(10)
  BY <1>2, TheChecks, TheLast, SMTT(60) DEF Follows
<1>3. ASSUME i \in {15, 16, 17}
      PROVE  Before(14)
  BY <1>3, TheChecks, TheLast, SMTT(60) DEF Follows
<1>4. ASSUME i \in {19}
      PROVE  Before(18)
  BY <1>4, TheChecks, TheLast, SMTT(60) DEF Follows
<1>5. ASSUME i \in {21}
      PROVE  Before(20)
  BY <1>5, TheChecks, TheLast, SMTT(60) DEF Follows
<1>6. ASSUME i \in {23}
      PROVE  Before(22)
  BY <1>6, TheChecks, TheLast, SMTT(60) DEF Follows
<1>7. ASSUME i \in {26, 27, 28}
      PROVE  Before(25)
  BY <1>7, TheChecks, TheLast, SMTT(60) DEF Follows
<1>8. ASSUME i \in {29, 32}
      PROVE  Before(28)
  BY <1>8, TheChecks, TheLast, SMTT(60) DEF Follows
<1>9. ASSUME i \in {30, 31}
      PROVE  Before(29)
  BY <1>9, TheChecks, TheLast, SMTT(60) DEF Follows
<1>10. ASSUME i \in {33}
      PROVE  Before(32)
  BY <1>10, TheChecks, TheLast, SMTT(60) DEF Follows
<1>11. ASSUME i \in {35, 36}
      PROVE  Before(34)
  BY <1>11, TheChecks, TheLast, SMTT(60) DEF Follows
<1>. HIDE DEF Before
<1> QED
  BY <1>1, <1>2, <1>3, <1>4, <1>5, <1>6, <1>7, <1>8, <1>9, <1>10, <1>11, Zenon

LEMMA Places ==
    ASSUME NEW i \in Positions
    PROVE  /\ Checks[i] = "standalone_gates" => i = 36
           /\ Checks[i] = "standalone_export" => i = 34
BY TheChecks, TheLast, SMTT(60)

\* What a check follows applies wherever the check does.
LEMMA FollowedApplies ==
    ASSUME NEW l \in Levels, NEW name, Applies(l, name), Follows(name) # ""
    PROVE  Applies(l, Follows(name))
BY SMTT(60) DEF Applies, Follows, Artifacts, Standalone

-----------------------------------------------------------------------------
(***************************************************************************)
(* Steps                                                                   *)
(***************************************************************************)
Step(l) ==
    \/ Skip(l) \/ Succeed(l) \/ Fail(l) \/ TimeOut(l)
    \/ Judge(l) \/ Break(l) \/ Hang(l)

LEMMA NextCases ==
    ASSUME Next
    PROVE  \/ \E l \in Levels : Step(l)
           \/ StartCopy \/ CopyEnds \/ CopyTimesOut
           \/ \E s \in Sources : Edit(s)
           \/ UNCHANGED vars
BY Zenon DEF Next, Top, Gate, Step, Levels, Finished

\* The checks a level has come past.
Seen(l) == {Checks[i] : i \in 1..(at[l] - 1)}

\* A level goes on to its next check.
Moves(l) ==
    /\ verdict[l] = "none" /\ at[l] \in Positions /\ at' = [at EXCEPT ![l] = @ + 1]
    /\ \/ passed' = [passed EXCEPT ![l] = @ \cup {Current(l)}] /\ UNCHANGED failed
       \/ failed' = [failed EXCEPT ![l] = @ \cup {Current(l)}] /\ UNCHANGED passed
       \/ UNCHANGED <<passed, failed>> /\ ~Made(l, Current(l))

Enters ==
    /\ at[2] = 0 /\ at' = [at EXCEPT ![2] = 1] /\ at[1] \in Positions
    /\ Current(1) = "standalone_gates"
    /\ UNCHANGED <<passed, failed>>

LEMMA StepMoves ==
    ASSUME NEW l \in Levels, Step(l)
    PROVE  Moves(l) \/ UNCHANGED <<at, passed, failed>>
BY DEF Step, Skip, Succeed, Fail, TimeOut, Judge, Break, Hang, Waits, Makes, Turn, Passes,
       Fails, Moves

LEMMA Shapes ==
    ASSUME [Next]_vars
    PROVE  (\E l \in Levels : Moves(l)) \/ Enters \/ UNCHANGED <<at, passed, failed>>
<1>1. ASSUME NEW l \in Levels, Step(l)
      PROVE  Moves(l) \/ UNCHANGED <<at, passed, failed>>
  BY <1>1, StepMoves
<1>2. ASSUME StartCopy
      PROVE  Enters
  BY <1>2 DEF StartCopy, Nests, Makes, Turn, Enters
<1>3. ASSUME CopyEnds
      PROVE  Moves(1)
  BY <1>3 DEF CopyEnds, Nests, Makes, Turn, Passes, Fails, Moves
<1>4. ASSUME CopyTimesOut
      PROVE  Moves(1)
  BY <1>4 DEF CopyTimesOut, Nests, Makes, Turn, Fails, Moves
<1>5. ASSUME NEW s \in Sources, Edit(s)
      PROVE  UNCHANGED <<at, passed, failed>>
  BY <1>5 DEF Edit
<1>6. ASSUME UNCHANGED vars
      PROVE  UNCHANGED <<at, passed, failed>>
  BY <1>6 DEF vars
<1>7. 1 \in Levels
  BY DEF Levels
<1> QED
  BY <1>1, <1>2, <1>3, <1>4, <1>5, <1>6, <1>7, NextCases, Zenon

-----------------------------------------------------------------------------
(***************************************************************************)
(* Type correctness                                                        *)
(***************************************************************************)
Progress ==
    /\ at \in [Levels -> 0..End]
    /\ passed \in [Levels -> SUBSET Names] /\ failed \in [Levels -> SUBSET Names]

\* The checks passed and failed are among those come past, and are not the same.
Sorted ==
    \A l \in Levels : passed[l] \cup failed[l] \subseteq Seen(l) /\ passed[l] \cap failed[l] = {}

Held ==
    /\ tree \in Sources /\ copy \in Sources \cup {NoSource}
    /\ built \in [Levels -> Sources \cup {NoSource}]

Flags ==
    /\ hung \in [Levels -> BOOLEAN]
    /\ verdict \in [Levels -> {"none", "PASS", "FAIL", "killed"}]

TypeInv == Progress /\ Sorted /\ Held /\ Flags /\ events \in 0..MaxEvents

LEMMA CurrentIsNew ==
    ASSUME NEW l \in Levels, Progress, at[l] \in Positions
    PROVE  Current(l) \notin Seen(l) /\ Current(l) \in Names
<1>1. ASSUME NEW i \in 1..(at[l] - 1), Checks[i] = Checks[at[l]]
      PROVE  FALSE
  <2>1. i \in Positions /\ i # at[l]
    BY TheLast
  <2> QED
    BY <1>1, <2>1, Distinct
<1>2. Current(l) \notin Seen(l)
  BY <1>1 DEF Current, Seen
<1> QED
  BY <1>2 DEF Current, Names

LEMMA MovesProgress ==
    ASSUME Progress, NEW l \in Levels, Moves(l)
    PROVE  Progress'
<1>1. Current(l) \in Names
  BY CurrentIsNew DEF Moves
<1>2. at' \in [Levels -> 0..End]
  BY TheLast DEF Progress, Moves
<1>3. passed' \in [Levels -> SUBSET Names] /\ failed' \in [Levels -> SUBSET Names]
  BY <1>1, Zenon DEF Progress, Moves
<1> QED
  BY <1>2, <1>3 DEF Progress

LEMMA MovesSeen ==
    ASSUME Progress, NEW l \in Levels, Moves(l), NEW k \in Levels
    PROVE  Seen(k)' = IF k = l THEN Seen(k) \cup {Current(l)} ELSE Seen(k)
<1>1. at[l] \in 1..36 /\ at'[k] = IF k = l THEN at[l] + 1 ELSE at[k]
  BY TheLast DEF Progress, Moves
<1>2. CASE k = l
  <2>1. 1..(at'[k] - 1) = (1..(at[l] - 1)) \cup {at[l]}
    BY <1>1, <1>2
  <2> QED
    BY <1>2, <2>1 DEF Seen, Current
<1>3. CASE k # l
  BY <1>1, <1>3 DEF Seen
<1> QED
  BY <1>2, <1>3

LEMMA MovesSorted ==
    ASSUME Progress, Sorted, NEW l \in Levels, Moves(l)
    PROVE  Sorted'
<1>. SUFFICES ASSUME NEW k \in Levels
              PROVE  /\ passed'[k] \cup failed'[k] \subseteq Seen(k)'
                     /\ passed'[k] \cap failed'[k] = {}
  BY DEF Sorted
<1>. DEFINE C == Current(l)
<1>1. C \notin Seen(l)
  BY CurrentIsNew DEF Moves
<1>2. Seen(k)' = IF k = l THEN Seen(k) \cup {C} ELSE Seen(k)
  BY MovesSeen
<1>3. passed[k] \cup failed[k] \subseteq Seen(k) /\ passed[k] \cap failed[k] = {}
  BY DEF Sorted
<1>4. \/ passed'[k] = (IF k = l THEN passed[k] \cup {C} ELSE passed[k]) /\ failed'[k] = failed[k]
      \/ failed'[k] = (IF k = l THEN failed[k] \cup {C} ELSE failed[k]) /\ passed'[k] = passed[k]
      \/ failed'[k] = failed[k] /\ passed'[k] = passed[k]
  BY DEF Progress, Moves
<1>. HIDE DEF C
<1> QED
  BY <1>1, <1>2, <1>3, <1>4

LEMMA EntersSorted ==
    ASSUME Progress, Sorted, Enters
    PROVE  Progress' /\ Sorted' /\ \A l \in Levels : Seen(l)' = Seen(l)
<1>1. 2 \in Levels /\ at'[2] = 1 /\ at[2] = 0 /\ at'[1] = at[1]
  BY DEF Progress, Enters, Levels
<1>2. Progress'
  BY TheLast DEF Progress, Enters, Levels
<1>3. 1..(0 - 1) = {} /\ 1..(1 - 1) = {}
  OBVIOUS
<1>4. ASSUME NEW l \in Levels PROVE Seen(l)' = Seen(l)
  <2>1. CASE l = 1 BY <1>1, <2>1 DEF Seen
  <2>2. CASE l = 2 BY <1>1, <1>3, <2>2 DEF Seen
  <2> QED
    BY <2>1, <2>2 DEF Levels
<1> QED
  BY <1>2, <1>4 DEF Enters, Sorted

LEMMA StepSorted ==
    ASSUME Progress, Sorted, [Next]_vars
    PROVE  Progress' /\ Sorted'
<1>1. ASSUME UNCHANGED <<at, passed, failed>>
      PROVE  Progress' /\ Sorted'
  BY <1>1 DEF Progress, Sorted, Seen
<1> QED
  BY <1>1, Shapes, MovesProgress, MovesSorted, EntersSorted

\* The steps that change none of tree, copy and built.
LEMMA StepKeeps ==
    ASSUME NEW l \in Levels, Step(l), ~Succeed(l)
    PROVE  UNCHANGED <<tree, copy, built>>
BY DEF Step, Skip, Fail, TimeOut, Judge, Break, Hang, Waits, Makes, Turn, Fails

LEMMA StepHeld ==
    ASSUME Held, [Next]_vars
    PROVE  Held'
<1>1. ASSUME UNCHANGED <<tree, copy, built>>
      PROVE  Held'
  BY <1>1 DEF Held
<1>2. ASSUME NEW l \in Levels, Succeed(l)
      PROVE  Held'
  <2>1. tree' = tree /\ copy' \in {copy, tree}
    BY <1>2 DEF Succeed, Waits, Makes, Turn
  <2>2. built' = built \/ built' = [built EXCEPT ![l] = Root(l)]
    BY <1>2 DEF Succeed
  <2>3. Root(l) \in Sources \cup {NoSource}
    BY DEF Held, Root
  <2> QED
    BY <2>1, <2>2, <2>3 DEF Held
<1>3. ASSUME StartCopy \/ CopyEnds \/ CopyTimesOut
      PROVE  UNCHANGED <<tree, copy, built>>
  BY <1>3 DEF StartCopy, CopyEnds, CopyTimesOut, Nests, Makes, Turn, Fails
<1>4. ASSUME NEW s \in Sources, Edit(s)
      PROVE  Held'
  BY <1>4 DEF Edit, Held
<1>5. ASSUME UNCHANGED vars
      PROVE  UNCHANGED <<tree, copy, built>>
  BY <1>5 DEF vars
<1> QED
  BY <1>1, <1>2, <1>3, <1>4, <1>5, StepKeeps, NextCases

LEMMA StepFlags ==
    ASSUME Flags, [Next]_vars
    PROVE  Flags'
<1>1. ASSUME NEW l \in Levels, Step(l)
      PROVE  /\ hung' = hung \/ hung' = [hung EXCEPT ![l] = TRUE]
                \/ hung' = [hung EXCEPT ![l] = FALSE]
             /\ verdict' = verdict \/ verdict' = [verdict EXCEPT ![l] = "PASS"]
                \/ verdict' = [verdict EXCEPT ![l] = "FAIL"]
  BY <1>1 DEF Step, Skip, Succeed, Fail, TimeOut, Judge, Break, Hang, Waits, Makes, Turn, Fails,
       Passes
<1>2. ASSUME StartCopy \/ CopyEnds \/ CopyTimesOut
      PROVE  /\ hung' = hung \/ hung' = [hung EXCEPT ![1] = FALSE]
             /\ verdict' = verdict \/ verdict' = [verdict EXCEPT ![2] = "killed"]
  BY <1>2 DEF StartCopy, CopyEnds, CopyTimesOut, Nests, Makes, Turn, Fails, Passes
<1>3. ASSUME NEW s \in Sources, Edit(s)
      PROVE  UNCHANGED <<hung, verdict>>
  BY <1>3 DEF Edit
<1>4. ASSUME UNCHANGED vars
      PROVE  UNCHANGED <<hung, verdict>>
  BY <1>4 DEF vars
<1>5. (UNCHANGED hung \/ \E l \in Levels : \E b \in BOOLEAN : hung' = [hung EXCEPT ![l] = b])
  BY <1>1, <1>2, <1>3, <1>4, NextCases, Zenon DEF Levels
<1>6. \/ UNCHANGED verdict
      \/ \E l \in Levels : \E v \in {"PASS", "FAIL", "killed"} : verdict' = [verdict EXCEPT ![l] = v]
  BY <1>1, <1>2, <1>3, <1>4, NextCases, Zenon DEF Levels
<1>7. hung' \in [Levels -> BOOLEAN]
  BY <1>5, Zenon DEF Flags
<1>8. verdict' \in [Levels -> {"none", "PASS", "FAIL", "killed"}]
  BY <1>6 DEF Flags
<1> QED
  BY <1>7, <1>8 DEF Flags

LEMMA StepEvents ==
    ASSUME events \in 0..MaxEvents, [Next]_vars
    PROVE  events' \in 0..MaxEvents
<1>1. ASSUME NEW l \in Levels, Step(l)
      PROVE  events' = events \/ (events < MaxEvents /\ events' = events + 1)
  BY <1>1 DEF Step, Skip, Succeed, Fail, TimeOut, Judge, Break, Hang
<1>2. ASSUME StartCopy \/ CopyEnds \/ CopyTimesOut
      PROVE  events' = events
  BY <1>2 DEF StartCopy, CopyEnds, CopyTimesOut, Nests
<1>3. ASSUME NEW s \in Sources, Edit(s)
      PROVE  events < MaxEvents /\ events' = events + 1
  BY <1>3 DEF Edit
<1>4. ASSUME UNCHANGED vars
      PROVE  events' = events
  BY <1>4 DEF vars
<1>5. events' = events \/ (events < MaxEvents /\ events' = events + 1)
  BY <1>1, <1>2, <1>3, <1>4, NextCases
<1> QED
  BY <1>5, GateAssumption DEF GateAssumption

LEMMA TypeStart ==
    ASSUME Init
    PROVE  TypeInv
<1>1. Progress /\ Sorted
  BY TheLast DEF Init, Progress, Sorted, Seen, Levels
<1>2. Held /\ Flags
  BY DEF Init, Held, Flags
<1>3. events \in 0..MaxEvents
  BY GateAssumption DEF Init, GateAssumption
<1> QED
  BY <1>1, <1>2, <1>3 DEF TypeInv

LEMMA TypeStep ==
    ASSUME TypeInv, [Next]_vars
    PROVE  TypeInv'
BY StepSorted, StepHeld, StepFlags, StepEvents DEF TypeInv

\* The types, and that no check of a level has both passed and failed, hold of
\* every gate, whatever the sources and the corpora.
THEOREM TypesHold == Spec => []TypeOK
<1>1. TypeInv => TypeOK
  BY Zenon DEF TypeInv, Progress, Sorted, Held, Flags, TypeOK
<1> QED
  BY <1>1, TypeStart, TypeStep, PTL DEF Spec

-----------------------------------------------------------------------------
(***************************************************************************)
(* What a PASS says.  First, that a level without a failure has passed     *)
(* every check that applies, for what a check follows comes before it.     *)
(***************************************************************************)
Whole(l) == failed[l] = {} => \A name \in Seen(l) : Applies(l, name) => name \in passed[l]

AllWhole == \A l \in Levels : Whole(l)

Verdicts == \A l \in Levels : verdict[l] = "PASS" => failed[l] = {} /\ at[l] = End

LEMMA OptionsKept ==
    ASSUME [Next]_vars
    PROVE  UNCHANGED <<tools, skipStandalone>>
<1>1. ASSUME NEW l \in Levels, Step(l)
      PROVE  UNCHANGED <<tools, skipStandalone>>
  BY <1>1 DEF Step, Skip, Succeed, Fail, TimeOut, Judge, Break, Hang, Waits, Makes, Turn
<1>2. ASSUME StartCopy \/ CopyEnds \/ CopyTimesOut
      PROVE  UNCHANGED <<tools, skipStandalone>>
  BY <1>2 DEF StartCopy, CopyEnds, CopyTimesOut, Nests, Makes, Turn
<1>3. ASSUME NEW s \in Sources, Edit(s)
      PROVE  UNCHANGED <<tools, skipStandalone>>
  BY <1>3 DEF Edit
<1>4. ASSUME UNCHANGED vars
      PROVE  UNCHANGED <<tools, skipStandalone>>
  BY <1>4 DEF vars
<1> QED
  BY <1>1, <1>2, <1>3, <1>4, NextCases

LEMMA MovesWhole ==
    ASSUME Progress, NEW l \in Levels, Moves(l), NEW k \in Levels, Whole(k),
           UNCHANGED <<tools, skipStandalone>>
    PROVE  Whole(k)'
<1>. DEFINE C == Current(l)
<1>1. Seen(k)' = IF k = l THEN Seen(k) \cup {C} ELSE Seen(k)
  BY MovesSeen
<1>2. ASSUME NEW name PROVE Applies(k, name)' <=> Applies(k, name)
  BY Zenon DEF Applies
<1>3. CASE k # l
  <2>1. passed'[k] = passed[k] /\ failed'[k] = failed[k] /\ Seen(k)' = Seen(k)
    BY <1>1, <1>3 DEF Progress, Moves
  <2> QED
    BY <1>2, <2>1, Zenon DEF Whole
<1>4. CASE k = l
  <2>. SUFFICES ASSUME failed'[l] = {}, NEW name \in Seen(l) \cup {C}, Applies(l, name)
                PROVE  name \in passed'[l]
    BY <1>1, <1>2, <1>4, Zenon DEF Whole
  <2>1. failed[l] = {} /\ passed[l] \subseteq passed'[l]
    BY DEF Progress, Moves
  <2>2. CASE name \in Seen(l)
    BY <1>4, <2>1, <2>2 DEF Whole
  <2>3. CASE name = C
    <3>1. CASE Made(l, C)
      BY <2>1, <2>3, <3>1 DEF Progress, Moves
    <3>2. CASE Follows(C) # ""
      <4>1. at[l] \in Positions /\ C = Checks[at[l]]
        BY DEF Moves, Current
      <4>2. PICK j \in Positions : j < at[l] /\ Follows(C) = Checks[j]
        BY <3>2, <4>1, FollowsEarlier
      <4>3. j \in 1..(at[l] - 1)
        BY <4>1, <4>2, TheLast
      <4>4. Follows(C) \in Seen(l) /\ Applies(l, Follows(C))
        BY <2>3, <3>2, <4>2, <4>3, FollowedApplies DEF Seen
      <4>5. Made(l, C)
        BY <1>4, <2>1, <2>3, <4>4 DEF Whole, Made
      <4> QED
        BY <3>1, <4>5
    <3>3. CASE Follows(C) = ""
      <4>1. Made(l, C)
        BY <2>3, <3>3 DEF Made
      <4> QED
        BY <3>1, <4>1
    <3> QED
      BY <3>2, <3>3
  <2> QED
    BY <2>2, <2>3
<1> QED
  BY <1>3, <1>4

LEMMA StepWhole ==
    ASSUME Progress, Sorted, AllWhole, [Next]_vars
    PROVE  AllWhole'
<1>. SUFFICES ASSUME NEW k \in Levels PROVE Whole(k)'
  BY DEF AllWhole
<1>1. UNCHANGED <<tools, skipStandalone>> /\ Whole(k)
  BY OptionsKept DEF AllWhole
<1>2. ASSUME NEW l \in Levels, Moves(l)
      PROVE  Whole(k)'
  BY <1>1, <1>2, MovesWhole
<1>3. ASSUME Enters
      PROVE  Whole(k)'
  <2>1. UNCHANGED <<passed, failed>> /\ Seen(k)' = Seen(k)
    BY <1>3, EntersSorted DEF Enters
  <2> QED
    BY <1>1, <2>1, Zenon DEF Whole, Applies
<1>4. ASSUME UNCHANGED <<at, passed, failed>>
      PROVE  Whole(k)'
  BY <1>1, <1>4, Zenon DEF Whole, Applies, Seen
<1> QED
  BY <1>2, <1>3, <1>4, Shapes

\* How a verdict comes about.
LEMMA VerdictSteps ==
    ASSUME Flags, [Next]_vars, NEW k \in Levels, verdict'[k] # verdict[k]
    PROVE  /\ verdict[k] = "none"
           /\ verdict'[k] = "PASS" =>
                 at[k] = End /\ failed[k] = {} /\ UNCHANGED <<at, passed, failed>>
<1>1. ASSUME NEW l \in Levels, Judge(l)
      PROVE  /\ verdict[l] = "none" /\ at[l] = End /\ UNCHANGED <<at, passed, failed>>
             /\ verdict' = [verdict EXCEPT ![l] = IF failed[l] = {} THEN "PASS" ELSE "FAIL"]
  BY <1>1 DEF Judge
<1>2. ASSUME NEW l \in Levels, Step(l), ~Judge(l)
      PROVE  verdict' = verdict
  BY <1>2 DEF Step, Skip, Succeed, Fail, TimeOut, Break, Hang, Waits
<1>3. ASSUME CopyTimesOut
      PROVE  verdict[2] = "none" /\ verdict' = [verdict EXCEPT ![2] = "killed"]
  BY <1>3 DEF CopyTimesOut
<1>4. ASSUME StartCopy \/ CopyEnds
      PROVE  verdict' = verdict
  BY <1>4 DEF StartCopy, CopyEnds
<1>5. ASSUME NEW s \in Sources, Edit(s)
      PROVE  verdict' = verdict
  BY <1>5 DEF Edit
<1>6. ASSUME UNCHANGED vars
      PROVE  verdict' = verdict
  BY <1>6 DEF vars
<1>7. CASE CopyTimesOut
  BY <1>3, <1>7 DEF Flags, Levels
<1>8. CASE \E l \in Levels : Judge(l)
  <2>. PICK l \in Levels : Judge(l)
    BY <1>8
  <2>1. k = l
    BY <1>1 DEF Flags
  <2> QED
    BY <1>1, <2>1 DEF Flags
<1> QED
  BY <1>2, <1>4, <1>5, <1>6, <1>7, <1>8, NextCases

LEMMA StepVerdicts ==
    ASSUME Progress, Flags, Verdicts, [Next]_vars
    PROVE  Verdicts'
<1>. SUFFICES ASSUME NEW k \in Levels, verdict'[k] = "PASS"
              PROVE  failed'[k] = {} /\ at'[k] = End
  BY DEF Verdicts
<1>1. CASE verdict'[k] # verdict[k]
  BY <1>1, VerdictSteps
<1>2. CASE verdict'[k] = verdict[k]
  <2>1. failed[k] = {} /\ at[k] = End
    BY <1>2 DEF Verdicts
  <2>2. ASSUME NEW l \in Levels, Moves(l)
        PROVE  failed'[k] = failed[k] /\ at'[k] = at[k]
    <3>1. k # l
      BY <1>2, <2>2 DEF Moves
    <3> QED
      BY <2>2, <3>1 DEF Moves, Progress
  <2>3. ASSUME Enters
        PROVE  failed'[k] = failed[k] /\ at'[k] = at[k]
    <3>1. k # 2
      BY <2>1, <2>3, TheLast DEF Enters
    <3> QED
      BY <2>3, <3>1 DEF Enters, Progress, Levels
  <2> QED
    BY <2>1, <2>2, <2>3, Shapes
<1> QED
  BY <1>1, <1>2

-----------------------------------------------------------------------------
(***************************************************************************)
(* The copy does not change while the gate runs in it, and what that gate  *)
(* has passed, it has passed on the copy.                                  *)
(***************************************************************************)
Nested == at[2] # 0 => at[1] >= 36

OnCopy ==
    /\ passed[2] \subseteq Met[copy] \cup {"wheel_surface"}
    /\ passed[2] \cap Packages # {} => "package_build" \in passed[2]
    /\ "package_build" \in passed[2] => built[2] = copy

Ended == "standalone_gates" \in passed[1] => verdict[2] = "PASS"

LEMMA StepNested ==
    ASSUME Progress, Nested, [Next]_vars
    PROVE  Nested'
<1>1. 1 \in Levels /\ 2 \in Levels /\ at[1] \in 0..37 /\ at[2] \in 0..37
  BY TheLast DEF Levels, Progress
<1>2. ASSUME NEW l \in Levels, Moves(l)
      PROVE  /\ at[l] # 0
             /\ at'[1] = IF l = 1 THEN at[1] + 1 ELSE at[1]
             /\ at'[2] = IF l = 2 THEN at[2] + 1 ELSE at[2]
  BY <1>1, <1>2, TheLast DEF Moves, Progress
<1>3. ASSUME Enters
      PROVE  at'[1] = 36
  BY <1>1, <1>3, Places DEF Enters, Current, Progress
<1>4. ASSUME UNCHANGED <<at, passed, failed>>
      PROVE  Nested'
  BY <1>4 DEF Nested
<1>5. ASSUME NEW l \in Levels, Moves(l)
      PROVE  Nested'
  BY <1>1, <1>2, <1>5 DEF Nested, Levels
<1> QED
  BY <1>3, <1>4, <1>5, Shapes DEF Nested

\* The steps that bring the copy's gate no passed check, and change no copy.
LEMMA QuietSteps ==
    ASSUME Progress, Held, [Next]_vars, ~Succeed(1), ~Succeed(2)
    PROVE  copy' = copy /\ built' = built /\ passed'[2] = passed[2]
<1>1. ASSUME NEW l \in Levels, Step(l)
      PROVE  copy' = copy /\ built' = built /\ passed' = passed
  <2>1. ~Succeed(l)
    BY DEF Levels
  <2> QED
    BY <1>1, <2>1 DEF Step, Skip, Fail, TimeOut, Judge, Break, Hang, Waits, Makes, Turn, Fails
<1>2. ASSUME StartCopy \/ CopyEnds \/ CopyTimesOut
      PROVE  copy' = copy /\ built' = built /\ passed'[2] = passed[2]
  <2>1. copy' = copy /\ built' = built
    BY <1>2 DEF StartCopy, CopyEnds, CopyTimesOut, Nests, Makes, Turn, Fails
  <2>2. passed' = passed \/ passed' = [passed EXCEPT ![1] = @ \cup {Current(1)}]
    BY <1>2 DEF StartCopy, CopyEnds, CopyTimesOut, Fails, Passes
  <2> QED
    BY <2>1, <2>2 DEF Progress, Levels
<1>3. ASSUME NEW s \in Sources, Edit(s)
      PROVE  copy' = copy /\ built' = built /\ passed' = passed
  BY <1>3 DEF Edit
<1>4. ASSUME UNCHANGED vars
      PROVE  copy' = copy /\ built' = built /\ passed' = passed
  BY <1>4 DEF vars
<1> QED
  BY <1>1, <1>2, <1>3, <1>4, NextCases

LEMMA FirstLevelKeeps ==
    ASSUME Progress, Sorted, Held, Nested, OnCopy, Succeed(1)
    PROVE  OnCopy'
<1>1. 1 \in Levels /\ 2 \in Levels
  BY DEF Levels
<1>2. passed'[2] = passed[2]
  BY DEF Succeed, Passes, Progress, Levels
<1>3. built'[2] = built[2]
  BY DEF Succeed, Held, Levels
<1>4. CASE Current(1) = "standalone_export"
  <2>1. at[1] = 34
    BY <1>4, Places DEF Succeed, Waits, Makes, Turn, Current
  <2>2. 1..(at[2] - 1) = {}
    BY <2>1 DEF Nested
  <2>3. passed[2] = {}
    BY <1>1, <2>2 DEF Sorted, Seen
  <2> QED
    BY <1>2, <2>3 DEF OnCopy
<1>5. CASE Current(1) # "standalone_export"
  <2>1. copy' = copy
    BY <1>5 DEF Succeed
  <2> QED
    BY <1>2, <1>3, <2>1 DEF OnCopy
<1> QED
  BY <1>4, <1>5

LEMMA SecondLevelPasses ==
    ASSUME Progress, Held, OnCopy, Succeed(2)
    PROVE  OnCopy'
<1>. DEFINE C == Current(2)
<1>1. /\ Made(2, C) /\ C \in Met[Subject(2, C)]
      /\ passed'[2] = passed[2] \cup {C}
  BY DEF Succeed, Waits, Makes, Meets, Passes, Progress, Levels
<1>2. C \notin Standalone
  <2>1. 2 # 1
    OBVIOUS
  <2> QED
    BY <1>1, <2>1, Zenon DEF Made, Applies
<1>3. copy' = copy
  BY <1>2 DEF Succeed, Standalone
<1>4. built'[2] = IF C = "package_build" THEN copy ELSE built[2]
  BY DEF Succeed, Root, Held, Levels
<1>5. C \in Packages => "package_build" \in passed[2]
  <2>1. C \in Packages => Follows(C) \in Packages \cup {"package_build"}
    BY SMTT(60) DEF Packages, Follows
  <2>2. "" \notin Packages \cup {"package_build"}
    BY DEF Packages
  <2>3. Follows(C) \in passed[2] \cup {""}
    BY <1>1 DEF Made
  <2> QED
    BY <2>1, <2>2, <2>3 DEF OnCopy
<1>6. C \in Met[copy] \cup {"wheel_surface"}
  <2>1. CASE C \in Packages
    BY <1>1, <1>5, <2>1 DEF Subject, OnCopy
  <2>2. CASE C \notin Packages /\ C # "wheel_surface"
    <3>1. Subject(2, C) = copy
      BY <1>2, <2>2 DEF Subject, Root, Standalone
    <3> QED
      BY <1>1, <3>1
  <2> QED
    BY <2>1, <2>2
<1>7. "package_build" \notin Packages
  BY DEF Packages
<1>. HIDE DEF C
<1>8. passed'[2] \subseteq Met[copy'] \cup {"wheel_surface"}
  BY <1>1, <1>3, <1>6 DEF OnCopy
<1>9. passed'[2] \cap Packages # {} => "package_build" \in passed'[2]
  BY <1>1, <1>5 DEF OnCopy
<1>10. "package_build" \in passed'[2] => built'[2] = copy'
  BY <1>1, <1>3, <1>4 DEF OnCopy
<1> QED
  BY <1>8, <1>9, <1>10 DEF OnCopy, Met

LEMMA StepOnCopy ==
    ASSUME Progress, Sorted, Held, Nested, OnCopy, [Next]_vars
    PROVE  OnCopy'
<1>1. CASE Succeed(1)
  BY <1>1, FirstLevelKeeps
<1>2. CASE Succeed(2)
  BY <1>2, SecondLevelPasses
<1>3. CASE ~Succeed(1) /\ ~Succeed(2)
  BY <1>3, QuietSteps DEF OnCopy, Met
<1> QED
  BY <1>1, <1>2, <1>3

\* Level 1 has passed the gate in the copy only where that has given a PASS.
LEMMA StepEnded ==
    ASSUME Progress, Flags, Ended, [Next]_vars
    PROVE  Ended'
<1>. DEFINE G == "standalone_gates"
<1>1. 1 \in Levels /\ 2 \in Levels
  BY DEF Levels
<1>2. ASSUME NEW l \in Levels, Step(l)
      PROVE  G \in passed'[1] => G \in passed[1]
  <2>1. CASE Succeed(l)
    <3>1. Current(l) # G /\ passed' = [passed EXCEPT ![l] = @ \cup {Current(l)}]
      BY <2>1 DEF Succeed, Waits, Passes
    <3>. HIDE DEF G
    <3> QED
      BY <1>1, <3>1 DEF Progress
  <2>2. CASE ~Succeed(l)
    BY <1>2, <2>2 DEF Step, Skip, Fail, TimeOut, Judge, Break, Hang, Waits, Fails
  <2> QED
    BY <2>1, <2>2
<1>3. ASSUME StartCopy \/ CopyTimesOut
      PROVE  passed' = passed
  BY <1>3 DEF StartCopy, CopyTimesOut, Fails
<1>4. ASSUME CopyEnds
      PROVE  passed' = passed \/ verdict[2] = "PASS"
  BY <1>4 DEF CopyEnds, Fails
<1>5. ASSUME NEW s \in Sources, Edit(s)
      PROVE  passed' = passed
  BY <1>5 DEF Edit
<1>6. ASSUME UNCHANGED vars
      PROVE  passed' = passed
  BY <1>6 DEF vars
<1>7. G \in passed'[1] => G \in passed[1] \/ verdict[2] = "PASS"
  BY <1>2, <1>3, <1>4, <1>5, <1>6, NextCases
<1>8. verdict[2] = "PASS" => verdict'[2] = "PASS"
  BY <1>1, VerdictSteps
<1> QED
  BY <1>7, <1>8 DEF Ended

-----------------------------------------------------------------------------
GateInv == TypeInv /\ AllWhole /\ Verdicts /\ Nested /\ OnCopy /\ Ended

LEMMA GateStart ==
    ASSUME Init
    PROVE  GateInv
<1>1. TypeInv
  BY TypeStart
<1>2. AllWhole /\ Verdicts
  BY TheLast DEF Init, AllWhole, Whole, Seen, Verdicts, Levels
<1>3. Nested /\ OnCopy /\ Ended
  BY DEF Init, Nested, OnCopy, Ended, Levels
<1> QED
  BY <1>1, <1>2, <1>3 DEF GateInv

LEMMA GateStep ==
    ASSUME GateInv, [Next]_vars
    PROVE  GateInv'
<1>1. Progress /\ Sorted /\ Held /\ Flags
  BY DEF GateInv, TypeInv
<1>2. TypeInv'
  BY TypeStep DEF GateInv
<1> QED
  BY <1>1, <1>2, StepWhole, StepVerdicts, StepNested, StepOnCopy, StepEnded DEF GateInv

LEMMA WholeAtEnd ==
    ASSUME NEW l \in Levels, AllWhole, Verdicts, verdict[l] = "PASS",
           NEW name \in Names, Applies(l, name)
    PROVE  name \in passed[l]
<1>1. failed[l] = {} /\ at[l] = End
  BY DEF Verdicts
<1>2. name \in Seen(l)
  BY <1>1, TheLast DEF Names, Seen
<1> QED
  BY <1>1, <1>2 DEF AllWhole, Whole

LEMMA GatePasses ==
    ASSUME GateInv
    PROVE  PassIsOfOneSource
<1>. SUFFICES ASSUME verdict[1] = "PASS", ~skipStandalone
              PROVE  /\ verdict[2] = "PASS"
                     /\ \A name \in Names \ (Artifacts \cup Standalone \cup {"wheel_surface"}) :
                           (name = "zizmor" => tools.zizmor) => Meets(copy, name)
  BY DEF PassIsOfOneSource
<1>0. 1 \in Levels /\ 2 \in Levels
  BY DEF Levels
<1>1. "standalone_gates" \in Names /\ Applies(1, "standalone_gates")
  BY TheLast, TheChecks DEF Names, Applies, Artifacts
<1>2. verdict[2] = "PASS"
  BY <1>0, <1>1, WholeAtEnd DEF GateInv, Ended
<1>3. ASSUME NEW name \in Names, name \notin Artifacts \cup Standalone,
             name # "wheel_surface", name = "zizmor" => tools.zizmor
      PROVE  Meets(copy, name)
  <2>1. Applies(2, name)
    BY <1>3 DEF Applies
  <2>2. name \in passed[2]
    BY <1>0, <1>2, <2>1, WholeAtEnd DEF GateInv
  <2> QED
    BY <1>3, <2>2 DEF GateInv, OnCopy, Meets
<1> QED
  BY <1>2, <1>3

\* A gate that prints PASS, and was not told to leave out the copy, has exported
\* a source that meets every check but the ones left out, whatever became of
\* the working tree, and whatever broke or hung.
THEOREM PassJudgesOneSource == Spec => []PassIsOfOneSource
<1>1. Spec => []GateInv
  BY GateStart, GateStep, PTL DEF Spec
<1> QED
  BY <1>1, GatePasses, PTL

-----------------------------------------------------------------------------
(***************************************************************************)
(* What it says of the migration table.  The corpora are finite, so that   *)
(* their labels can be counted.                                            *)
(***************************************************************************)
LEMMA KeysFinite ==
    ASSUME NEW S, NEW items \in Seq(S), NEW unit
    PROVE  IsFiniteSet(Keys(items, unit))
<1>. DEFINE f == [i \in DOMAIN items |-> Key(items[i], unit)]
<1>1. IsFiniteSet(DOMAIN items)
  BY FS_Interval
<1>2. f \in Surjection(DOMAIN items, Keys(items, unit))
  BY DEF Keys, Surjection
<1> QED
  BY <1>1, <1>2, FS_Surjection

LEMMA LabelledFinite ==
    ASSUME NEW cases \in Seq(Cases), NEW unit
    PROVE  IsFiniteSet(Labelled(cases, unit))
<1>. DEFINE Of(i) == {i} \X Keys(cases[i].labels, unit)
            f == [i \in DOMAIN cases |-> Of(i)]
            Image == {Of(i) : i \in DOMAIN cases}
<1>1. IsFiniteSet(DOMAIN cases)
  BY FS_Interval
<1>2. f \in Surjection(DOMAIN cases, Image)
  BY DEF Surjection
<1>3. IsFiniteSet(Image)
  BY <1>1, <1>2, FS_Surjection
<1>4. ASSUME NEW i \in DOMAIN cases
      PROVE  IsFiniteSet(Of(i))
  <2>0. cases[i] \in Cases
    OBVIOUS
  <2>1. cases[i].labels \in Seq(Labels)
    BY <2>0, Zenon DEF Cases
  <2> QED
    BY <2>1, KeysFinite, FS_Singleton, FS_Product
<1>. HIDE DEF Of
<1>5. IsFiniteSet(UNION Image)
  BY <1>3, <1>4, FS_UNION
<1> QED
  BY <1>5 DEF Labelled, Of

LEMMA Shares ==
    ASSUME NEW percent \in 0..100, NEW all \in Nat, NEW met \in Nat, NEW missed \in Nat,
           all = met + missed, ~(met + missed > 0 /\ 100 * met < percent * (met + missed))
    PROVE  100 * missed <= (100 - percent) * all
<1>1. CASE all = 0
  <2>1. missed = 0 /\ (100 - percent) * 0 = 0
    BY <1>1
  <2> QED
    BY <1>1, <2>1
<1>2. CASE all > 0
  <2>. DEFINE share == percent * all
  <2>1. share \in Int /\ (100 - percent) * all = 100 * all - share
    OBVIOUS
  <2>2. 100 * met >= share
    BY <1>2
  <2>. HIDE DEF share
  <2> QED
    BY <2>1, <2>2
<1> QED
  BY <1>1, <1>2

\* A recall that is not below the percentage required bounds the labels missed.
LEMMA MissedBounded ==
    ASSUME NEW cases \in Seq(Cases), NEW unit, NEW percent \in 0..100,
           ~RecallBelow(cases, unit, percent)
    PROVE  100 * Cardinality(FalseNegatives(cases, unit))
               <= (100 - percent) * Cardinality(Labelled(cases, unit))
<1>. DEFINE all == Cardinality(Labelled(cases, unit))
            met == Cardinality(TruePositives(cases, unit))
            missed == Cardinality(FalseNegatives(cases, unit))
<1>1. IsFiniteSet(Labelled(cases, unit))
  BY LabelledFinite
<1>2. missed = all - met
  BY <1>1, FS_Difference DEF FalseNegatives, TruePositives
<1>3. met \in Nat /\ missed \in Nat /\ all \in Nat
  <2>1. TruePositives(cases, unit) \in SUBSET Labelled(cases, unit)
    BY DEF TruePositives
  <2>2. FalseNegatives(cases, unit) \in SUBSET Labelled(cases, unit)
    BY DEF FalseNegatives
  <2> QED
    BY <1>1, <2>1, <2>2, FS_Subset, FS_CardinalityType
<1>4. ~(met + missed > 0 /\ 100 * met < percent * (met + missed))
  BY DEF RecallBelow, Below
<1>. HIDE DEF all, met, missed
<1>5. all = met + missed
  BY <1>2, <1>3
<1>6. 100 * missed <= (100 - percent) * all
  BY <1>3, <1>4, <1>5, Shares
<1> QED
  BY <1>6 DEF all, missed

LEMMA ContradictedMissed ==
    ASSUME NEW cases, NEW unit, NEW plans, NEW purpose \in Purposes,
           DangerousErrors(cases, unit, plans) = {},
           Lists(plans.targets[purpose], WrongFor(purpose))
    PROVE  Contradicted(cases, unit, plans, purpose) \subseteq FalseNegatives(cases, unit)
<1>. SUFFICES ASSUME NEW m \in Contradicted(cases, unit, plans, purpose),
                     m \in Observed(cases, unit)
              PROVE  FALSE
  BY DEF Contradicted, FalseNegatives
<1>. DEFINE label == Last(cases[m[1]].labels, m[2], unit)
<1>1. /\ m \in TruePositives(cases, unit) /\ Contradicts(label, plans)
      /\ label.purpose = purpose /\ label.algorithm \in plans.shor
  BY DEF Contradicted, TruePositives
<1>2. ActualTargets(label, plans) = plans.targets[purpose]
  BY <1>1 DEF ActualTargets
<1>3. Dangerous(label.purpose, ActualTargets(label, plans))
  BY <1>1, <1>2 DEF Dangerous, WrongFor, Lists
<1>4. m \in DangerousErrors(cases, unit, plans)
  BY <1>1, <1>3, Zenon DEF DangerousErrors
<1> QED
  BY <1>4

\* The export has left a source in the copy.
Exported == "standalone_export" \in passed[1] => copy \in Sources

LEMMA StepExported ==
    ASSUME Progress, Held, Exported, [Next]_vars
    PROVE  Exported'
<1>. DEFINE E == "standalone_export"
<1>1. 1 \in Levels /\ 2 \in Levels /\ tree \in Sources
  BY DEF Levels, Held
<1>2. CASE ~Succeed(1) /\ ~Succeed(2)
  <2>1. E \in passed'[1] => E \in passed[1]
    <3>1. ASSUME NEW l \in Levels, Step(l)
          PROVE  passed' = passed
      <4>1. ~Succeed(l)
        BY <1>2 DEF Levels
      <4> QED
        BY <3>1, <4>1 DEF Step, Skip, Fail, TimeOut, Judge, Break, Hang, Waits, Fails
    <3>2. ASSUME StartCopy \/ CopyTimesOut
          PROVE  passed' = passed
      BY <3>2 DEF StartCopy, CopyTimesOut, Fails
    <3>3. ASSUME CopyEnds
          PROVE  E \in passed'[1] => E \in passed[1]
      <4>1. /\ Current(1) # E
            /\ passed' = passed \/ passed' = [passed EXCEPT ![1] = @ \cup {Current(1)}]
        BY <3>3 DEF CopyEnds, Nests, Fails, Passes
      <4>. HIDE DEF E
      <4> QED
        BY <1>1, <4>1 DEF Progress
    <3>4. ASSUME NEW s \in Sources, Edit(s)
          PROVE  passed' = passed
      BY <3>4 DEF Edit
    <3>5. ASSUME UNCHANGED vars
          PROVE  passed' = passed
      BY <3>5 DEF vars
    <3> QED
      BY <3>1, <3>2, <3>3, <3>4, <3>5, NextCases
  <2> QED
    BY <1>2, <2>1, QuietSteps DEF Exported
<1>3. ASSUME NEW l \in Levels, Succeed(l)
      PROVE  Exported'
  <2>1. /\ passed' = [passed EXCEPT ![l] = @ \cup {Current(l)}]
        /\ copy' = IF Current(l) = E THEN tree ELSE copy
    BY <1>3 DEF Succeed, Passes
  <2>. HIDE DEF E
  <2>2. E \in passed'[1] => E \in passed[1] \/ Current(l) = E
    BY <1>1, <2>1 DEF Progress
  <2> QED
    BY <1>1, <2>1, <2>2 DEF Exported, E
<1> QED
  BY <1>1, <1>2, <1>3

LEMMA GateShowsDanger ==
    ASSUME GateInv, Exported
    PROVE  DangerousRowShows
<1>. SUFFICES ASSUME verdict[1] = "PASS", ~skipStandalone, NEW purpose \in Purposes,
                     Lists(Content[copy].plans.targets[purpose], WrongFor(purpose))
              PROVE  100 * Cardinality(Contradicted(Content[copy].real, "call_site",
                                                    Content[copy].plans, purpose))
                         <= (100 - RealRecall)
                               * Cardinality(Labelled(Content[copy].real, "call_site"))
  BY DEF DangerousRowShows
<1>. DEFINE cases == Content[copy].real
            plans == Content[copy].plans
<1>1. copy \in Sources
  <2>1. 1 \in Levels
    BY DEF Levels
  <2>2. "standalone_export" \in Names /\ Applies(1, "standalone_export")
    BY TheLast, TheChecks DEF Names, Applies, Artifacts
  <2> QED
    BY <2>1, <2>2, WholeAtEnd DEF GateInv, Exported
<1>2. cases \in Seq(Cases) /\ RealRecall \in 0..100
  BY <1>1, GateAssumption DEF GateAssumption, SourceType
<1>3. BenchmarkPasses(cases, "call_site", plans, RealPrecision, RealRecall)
  <2>1. "real_code_benchmark" \in Names
    BY TheLast, TheChecks DEF Names
  <2>2. Meets(copy, "real_code_benchmark")
    BY <2>1, GatePasses DEF PassIsOfOneSource, Artifacts, Standalone
  <2>3. Holds(Content[copy], "real_code_benchmark")
    BY <1>1, <2>2 DEF Meets, Met
  <2> QED
    BY <2>3, Zenon DEF Holds
<1>. HIDE DEF cases, plans
<1>4. Contradicted(cases, "call_site", plans, purpose) \subseteq FalseNegatives(cases, "call_site")
  BY <1>3, ContradictedMissed DEF BenchmarkPasses, plans
<1>. DEFINE c == Cardinality(Contradicted(cases, "call_site", plans, purpose))
            n == Cardinality(FalseNegatives(cases, "call_site"))
            all == Cardinality(Labelled(cases, "call_site"))
<1>5. 100 * n <= (100 - RealRecall) * all
  BY <1>2, <1>3, MissedBounded DEF BenchmarkPasses
<1>6. c \in Nat /\ n \in Nat /\ all \in Nat /\ c <= n
  <2>1. IsFiniteSet(Labelled(cases, "call_site"))
    BY <1>2, LabelledFinite
  <2>2. IsFiniteSet(FalseNegatives(cases, "call_site"))
    BY <2>1, FS_Difference DEF FalseNegatives
  <2> QED
    BY <1>4, <2>1, <2>2, FS_Subset, FS_CardinalityType
<1>. HIDE DEF c, n, all
<1>7. 100 * c <= (100 - RealRecall) * all
  <2>1. (100 - RealRecall) * all \in Int
    BY <1>2, <1>6
  <2> QED
    BY <1>5, <1>6, <2>1
<1> QED
  BY <1>7 DEF c, all, cases, plans

\* After a PASS, a dangerous row of the migration table can hide only behind
\* labels that the scanner has missed, and of these there are no more than the
\* recall required of the real-code corpus allows.
THEOREM DangerStaysSmall == Spec => []DangerousRowShows
<1>1. Init => Exported
  BY DEF Init, Exported, Levels
<1>2. ASSUME GateInv, Exported, [Next]_vars
      PROVE  Exported'
  BY <1>2, StepExported DEF GateInv, TypeInv
<1>3. Spec => [](GateInv /\ Exported)
  BY <1>1, <1>2, GateStart, GateStep, PTL DEF Spec
<1> QED
  BY <1>3, GateShowsDanger, PTL
=============================================================================
