------------------------------ MODULE ChainProofs ------------------------------
(***************************************************************************)
(* ReleaseChain for every set of sources, benchmarks and toolchains: every *)
(* manifest is traceable to its commit, and hence the two checks accept    *)
(* exactly the genuine tags, whose results were measured on the benchmark  *)
(* inputs of their source.  References says which commits can be named.    *)
(***************************************************************************)
EXTENDS ReleaseChain, TLAPS

Commits == [parents : Seq(Nat), source : Sources, evidence : Evidence]

\* The part of TypeOK the argument needs.
Shape ==
    /\ commits \in Seq(Commits)
    /\ head \in DOMAIN commits
    /\ source \in Sources /\ evidence \in Evidence

Recorders == [pc : {"idle", "bench", "manifest"}, commit : Nat,
              todo : SUBSET Benchmarks, result : [Benchmarks -> Result], moves : Nat]

\* Fingerprint of the source of the commit a recording was started on.
Bound(c) == Fingerprint[commits[c].source]

\* What a running recording keeps: its results are of sources, and, as long as
\* nothing bound has changed, of those of its commit; after one change the
\* source on disk is another.
Recording ==
    recorder.pc # "idle" =>
        /\ recorder.commit \in DOMAIN commits
        /\ recorder.pc = "manifest" => recorder.todo = {}
        /\ \A b \in Benchmarks \ recorder.todo : recorder.result[b].source \in Sources
        /\ recorder.moves = 0 =>
              /\ Fingerprint[source] = Bound(recorder.commit)
              /\ \A b \in Benchmarks \ recorder.todo :
                    Fingerprint[recorder.result[b].source] = Bound(recorder.commit)
        /\ recorder.moves = 1 => Fingerprint[source] # Bound(recorder.commit)

Inv == Shape /\ tools \in Toolchains /\ recorder \in Recorders /\ recordings \in Nat
         /\ ManifestsTraceable /\ Recording

-----------------------------------------------------------------------------
(***************************************************************************)
(* Types of what is put together.                                          *)
(***************************************************************************)
LEMMA ResultFunction ==
    ASSUME NEW f \in [Benchmarks -> Result], NEW b, NEW v \in Result
    PROVE  [f EXCEPT ![b] = v] \in [Benchmarks -> Result]
  OBVIOUS

LEMMA NoEvidenceTyped == NoEvidence \in Evidence
<1>1. NoResult \in Result BY DEF NoResult, Result
<1>2. [b \in Benchmarks |-> NoResult] \in [Benchmarks -> Result] BY <1>1
<1>3. NoManifest \in Manifest BY <1>2 DEF NoManifest, Manifest
<1>. QED BY <1>2, <1>3 DEF NoEvidence, Evidence

LEMMA IdleTyped == Idle \in Recorders
<1>1. NoResult \in Result BY DEF NoResult, Result
<1>2. [b \in Benchmarks |-> NoResult] \in [Benchmarks -> Result] BY <1>1
<1>. QED BY <1>2 DEF Idle, Recorders

\* Evidence put together from two pieces of evidence.
LEMMA EvidenceMixed ==
    ASSUME NEW e \in Evidence, NEW d \in Evidence, NEW b \in Benchmarks
    PROVE  /\ [e EXCEPT !.manifest = d.manifest] \in Evidence
           /\ [e EXCEPT !.result[b] = d.result[b]] \in Evidence
           /\ [e EXCEPT !.manifest = d.manifest].manifest = d.manifest
           /\ [e EXCEPT !.result[b] = d.result[b]].manifest = e.manifest
<1>1. e.result \in [Benchmarks -> Result] /\ d.result[b] \in Result /\ d.manifest \in Manifest
    BY DEF Evidence
<1>2. [e.result EXCEPT ![b] = d.result[b]] \in [Benchmarks -> Result]
    BY <1>1, ResultFunction
<1>3. [e EXCEPT !.result[b] = d.result[b]] \in Evidence
    BY <1>2 DEF Evidence
<1>4. [e EXCEPT !.manifest = d.manifest] \in Evidence
    BY <1>1 DEF Evidence
<1>. QED BY <1>3, <1>4 DEF Evidence

-----------------------------------------------------------------------------
LEMMA InvInit == Init => Inv
<1> SUFFICES ASSUME Init PROVE Inv OBVIOUS
<1> DEFINE first == [parents |-> <<>>, source |-> source, evidence |-> evidence]
<1>1. evidence \in Evidence /\ source \in Sources
    BY NoEvidenceTyped DEF Init
<1>2. first \in Commits BY <1>1 DEF Commits
<1>3. commits = <<first>> BY DEF Init
<1>4. commits \in Seq(Commits) /\ DOMAIN commits = {1} /\ commits[1] = first
  <2> HIDE DEF first
  <2>. QED BY <1>2, <1>3
<1>5. Shape BY <1>1, <1>4 DEF Init, Shape
<1>6. evidence.manifest.commit = 0 BY DEF Init, NoEvidence, NoManifest
<1>7. ManifestsTraceable BY <1>4, <1>6 DEF ManifestsTraceable, Traceable
<1>8. recorder \in Recorders /\ recorder.pc = "idle" BY IdleTyped DEF Init, Idle
<1>. QED BY <1>5, <1>7, <1>8 DEF Inv, Recording, Init

\* Traceability of a manifest is not lost when commits are added.
LEMMA TraceableKept ==
    ASSUME NEW m \in Manifest, Traceable(m), commits \in Seq(Commits),
           NEW c \in Commits, commits' = Append(commits, c)
    PROVE  Traceable(m)'
<1>1. \A i \in DOMAIN commits : i \in DOMAIN commits' /\ commits'[i] = commits[i]
    OBVIOUS
<1>2. CASE m.commit = 0 BY <1>2 DEF Traceable
<1>3. CASE m.commit # 0
  <2>1. m.commit \in DOMAIN commits BY <1>3 DEF Traceable
  <2>2. m.commit \in DOMAIN commits' /\ commits'[m.commit] = commits[m.commit]
      BY <1>1, <2>1
  <2>. QED BY <1>3, <2>1, <2>2 DEF Traceable
<1>. QED BY <1>2, <1>3

LEMMA TraceableUnchanged ==
    ASSUME NEW m, Traceable(m), UNCHANGED commits PROVE Traceable(m)'
  BY DEF Traceable

LEMMA ManifestTyped ==
    ASSUME Shape PROVE /\ evidence.manifest \in Manifest
                       /\ \A c \in DOMAIN commits : /\ commits[c] \in Commits
                                                    /\ commits[c].evidence \in Evidence
                                                    /\ commits[c].evidence.manifest \in Manifest
<1>1. \A c \in DOMAIN commits : commits[c] \in Commits BY DEF Shape
<1>. QED BY <1>1 DEF Shape, Evidence, Commits

-----------------------------------------------------------------------------
(***************************************************************************)
(* The recorder.                                                           *)
(***************************************************************************)
LEMMA StartKeepsInv == ASSUME Inv, StartRecording PROVE Inv'
<1> USE DEF Inv
<1>1. UNCHANGED <<commits, head, source, evidence, tools>>
    BY DEF StartRecording, repository, disk
<1>2. Shape' BY <1>1 DEF Shape
<1>3. ManifestsTraceable'
    BY <1>1, TraceableUnchanged DEF ManifestsTraceable
<1>4. head \in Nat BY DEF Shape
<1>5. Idle \in Recorders BY IdleTyped
<1>6. recorder' = [Idle EXCEPT !.pc = "bench", !.commit = head, !.todo = Benchmarks]
    BY DEF StartRecording
<1>7. /\ recorder' \in Recorders
      /\ recorder'.pc = "bench" /\ recorder'.commit = head
      /\ recorder'.todo = Benchmarks /\ recorder'.moves = 0
    BY <1>4, <1>5, <1>6 DEF Recorders, Idle
<1>8. source = commits[head].source BY DEF StartRecording, Clean
<1>9. Recording' BY <1>1, <1>7, <1>8 DEF Recording, Bound, Shape
<1>10. recordings' \in Nat BY DEF StartRecording
<1>. QED BY <1>1, <1>2, <1>3, <1>7, <1>9, <1>10

LEMMA MeasureKeepsInv == ASSUME Inv, Measure PROVE Inv'
<1> USE DEF Inv
<1>1. UNCHANGED <<commits, head, source, evidence, tools, recordings>>
    BY DEF Measure, repository, disk
<1>2. Shape' /\ ManifestsTraceable'
    BY <1>1, TraceableUnchanged DEF Shape, ManifestsTraceable
<1>3. PICK b \in recorder.todo :
          recorder' = [recorder EXCEPT !.todo = @ \ {b},
              !.result[b] = [run |-> recordings, source |-> source],
              !.pc = IF recorder.todo = {b} THEN "manifest" ELSE "bench"]
    BY DEF Measure
<1> DEFINE r == [run |-> recordings, source |-> source]
<1>4. r \in Result /\ r.source = source BY DEF Result, Shape
<1>5. recorder.result \in [Benchmarks -> Result] /\ recorder.todo \subseteq Benchmarks
    BY DEF Recorders
<1>6. [recorder.result EXCEPT ![b] = r] \in [Benchmarks -> Result]
  <2> HIDE DEF r
  <2>. QED BY <1>4, <1>5, ResultFunction
<1>7. /\ recorder'.result = [recorder.result EXCEPT ![b] = r]
      /\ recorder'.todo = recorder.todo \ {b}
      /\ recorder'.commit = recorder.commit /\ recorder'.moves = recorder.moves
      /\ recorder'.pc = IF recorder.todo = {b} THEN "manifest" ELSE "bench"
    BY <1>3 DEF Recorders
<1>8. recorder' \in Recorders
    BY <1>3, <1>6 DEF Recorders
<1>9. recorder.pc # "idle" BY DEF Measure
<1>10. \A a \in Benchmarks \ recorder'.todo :
          recorder'.result[a].source = IF a = b THEN source ELSE recorder.result[a].source
  <2> HIDE DEF r
  <2>. QED BY <1>4, <1>5, <1>7
<1>11. \A a \in Benchmarks \ recorder'.todo : a # b => a \in Benchmarks \ recorder.todo
    BY <1>7
<1>12. Recording'
  <2>1. recorder'.commit \in DOMAIN commits' BY <1>1, <1>7, <1>9 DEF Recording
  <2>2. recorder'.pc = "manifest" => recorder'.todo = {} BY <1>7
  <2>3. \A a \in Benchmarks \ recorder'.todo : recorder'.result[a].source \in Sources
      BY <1>9, <1>10, <1>11 DEF Recording, Shape
  <2>4. recorder'.moves = 0 =>
          /\ Fingerprint[source'] = Bound(recorder.commit)
          /\ \A a \in Benchmarks \ recorder'.todo :
                Fingerprint[recorder'.result[a].source] = Bound(recorder.commit)
      BY <1>1, <1>7, <1>9, <1>10, <1>11 DEF Recording
  <2>5. recorder'.moves = 1 => Fingerprint[source'] # Bound(recorder.commit)
      BY <1>1, <1>7, <1>9 DEF Recording
  <2>6. Bound(recorder.commit)' = Bound(recorder.commit) BY <1>1, <1>7 DEF Bound
  <2>. QED BY <2>1, <2>2, <2>3, <2>4, <2>5, <2>6 DEF Recording
<1>. QED BY <1>1, <1>2, <1>8, <1>12

LEMMA PublishKeepsInv == ASSUME Inv, Publish PROVE Inv'
<1> USE DEF Inv
<1>1. UNCHANGED <<commits, head, source, tools, recordings>> /\ recorder' = Idle
    BY DEF Publish, repository
<1> DEFINE m == [commit |-> recorder.commit, sha |-> Fingerprint[source],
                 result |-> recorder.result, tools |-> tools, moves |-> recorder.moves]
<1>2. evidence' = [manifest |-> m, result |-> recorder.result]
    BY DEF Publish
<1>3. Fingerprint[source] \in Nat BY ChainAssumption DEF Shape
<1>4. m \in Manifest BY <1>3 DEF Manifest, Recorders
<1>5. evidence' \in Evidence /\ evidence'.manifest = m
  <2>1. recorder.result \in [Benchmarks -> Result] BY DEF Recorders
  <2> HIDE DEF m
  <2>. QED BY <1>2, <1>4, <2>1 DEF Evidence
<1>6. Shape' BY <1>1, <1>5 DEF Shape
<1>7. recorder.pc = "manifest" BY DEF Publish
<1>8. Traceable(m)
  <2>1. recorder.commit \in DOMAIN commits /\ recorder.todo = {}
      BY <1>7 DEF Recording
  <2>2. \A b \in Benchmarks : recorder.result[b].source \in Sources
      BY <1>7, <2>1 DEF Recording
  <2>3. recorder.moves = 0 =>
          /\ Fingerprint[source] = Bound(recorder.commit)
          /\ \A b \in Benchmarks :
                Fingerprint[recorder.result[b].source] = Bound(recorder.commit)
      BY <1>7, <2>1 DEF Recording
  <2>4. recorder.moves = 1 => Fingerprint[source] # Bound(recorder.commit)
      BY <1>7 DEF Recording
  <2>. QED BY <2>1, <2>2, <2>3, <2>4 DEF Traceable, Bound
<1>9. ManifestsTraceable'
  <2> HIDE DEF m
  <2>. QED BY <1>1, <1>5, <1>8, TraceableUnchanged DEF ManifestsTraceable
<1>10. recorder' \in Recorders /\ recorder'.pc = "idle" BY <1>1, IdleTyped DEF Idle
<1>11. Recording' BY <1>10 DEF Recording
<1>. QED BY <1>1, <1>6, <1>9, <1>10, <1>11

LEMMA GiveUpKeepsInv == ASSUME Inv, GiveUp PROVE Inv'
<1> USE DEF Inv
<1>1. UNCHANGED <<commits, head, source, evidence, tools, recordings>> /\ recorder' = Idle
    BY DEF GiveUp, repository, disk
<1>2. Shape' /\ ManifestsTraceable'
    BY <1>1, TraceableUnchanged DEF Shape, ManifestsTraceable
<1>3. recorder' \in Recorders /\ recorder'.pc = "idle" BY <1>1, IdleTyped DEF Idle
<1>4. Recording' BY <1>3 DEF Recording
<1>. QED BY <1>1, <1>2, <1>3, <1>4

-----------------------------------------------------------------------------
(***************************************************************************)
(* The maintainer.  What happens to the source on disk first.              *)
(***************************************************************************)
LEMMA BecomesKeepsRecording ==
    ASSUME Inv, NEW s \in Sources, Becomes(s), UNCHANGED commits
    PROVE  recorder' \in Recorders /\ Recording' /\ source' \in Sources
<1> USE DEF Inv
<1>1. source' = s BY DEF Becomes
<1>2. Fingerprint[s] \in Nat /\ Fingerprint[source] \in Nat
    BY ChainAssumption DEF Shape
<1>3. CASE recorder.pc = "idle"
  <2>1. recorder' = recorder BY <1>3 DEF Becomes
  <2>. QED BY <1>1, <1>3, <2>1 DEF Recording
<1>4. CASE recorder.pc # "idle" /\ Fingerprint[s] = Fingerprint[source]
  <2>1. recorder' = recorder BY <1>4 DEF Becomes
  <2>2. Fingerprint[source'] = Fingerprint[source] BY <1>1, <1>4
  <2>3. Bound(recorder.commit)' = Bound(recorder.commit) BY <2>1 DEF Bound
  <2>. QED BY <1>1, <1>4, <2>1, <2>2, <2>3 DEF Recording
<1>5. CASE recorder.pc # "idle" /\ Fingerprint[s] # Fingerprint[source]
  <2>1. recorder' = [recorder EXCEPT !.moves = @ + 1] BY <1>5 DEF Becomes
  <2>2. recorder.moves \in Nat BY DEF Recorders
  <2>3. recorder' \in Recorders BY <2>1, <2>2 DEF Recorders
  <2>4. /\ recorder'.moves = recorder.moves + 1
        /\ recorder'.commit = recorder.commit /\ recorder'.todo = recorder.todo
        /\ recorder'.result = recorder.result /\ recorder'.pc = recorder.pc
      BY <2>1 DEF Recorders
  <2>5. Bound(recorder.commit)' = Bound(recorder.commit) BY <2>4 DEF Bound
  <2>6. recorder'.moves = 1 => Fingerprint[source'] # Bound(recorder.commit)
      BY <1>1, <1>5, <2>2, <2>4 DEF Recording
  <2>7. recorder'.moves # 0 BY <2>2, <2>4
  <2>. QED BY <1>1, <1>5, <2>3, <2>4, <2>5, <2>6, <2>7 DEF Recording
<1>. QED BY <1>3, <1>4, <1>5

\* A running recording goes on when neither the source nor a commit changes.
LEMMA RecordingKept ==
    ASSUME Recording, UNCHANGED <<commits, source, recorder>> PROVE Recording'
  BY DEF Recording, Bound

LEMMA EditSourceKeepsInv ==
    ASSUME Inv, EditSource, UNCHANGED recordings PROVE Inv'
<1> USE DEF Inv
<1>1. UNCHANGED <<commits, head, evidence, tools>> BY DEF EditSource, repository
<1>2. PICK s \in Sources : Becomes(s) BY DEF EditSource
<1>3. recorder' \in Recorders /\ Recording' /\ source' \in Sources
    BY <1>1, <1>2, BecomesKeepsRecording
<1>4. Shape' BY <1>1, <1>3 DEF Shape
<1>5. ManifestsTraceable' BY <1>1, TraceableUnchanged DEF ManifestsTraceable
<1>. QED BY <1>1, <1>3, <1>4, <1>5

LEMMA RestoreFileKeepsInv ==
    ASSUME Inv, RestoreFile, UNCHANGED recordings PROVE Inv'
<1> USE DEF Inv
<1>1. UNCHANGED <<commits, head, source, tools, recorder>>
    BY DEF RestoreFile, repository
<1>2. PICK c \in DOMAIN commits :
        \/ evidence' = [evidence EXCEPT !.manifest = commits[c].evidence.manifest]
        \/ \E b \in Benchmarks :
              evidence' = [evidence EXCEPT !.result[b] = commits[c].evidence.result[b]]
    BY DEF RestoreFile
<1>3. evidence \in Evidence /\ commits[c].evidence \in Evidence
    BY ManifestTyped DEF Shape
<1>4. PICK b \in Benchmarks : TRUE BY ChainAssumption
<1>5. /\ evidence' \in Evidence
      /\ evidence'.manifest \in {evidence.manifest, commits[c].evidence.manifest}
  <2>1. CASE evidence' = [evidence EXCEPT !.manifest = commits[c].evidence.manifest]
      BY <1>3, <1>4, <2>1, EvidenceMixed
  <2>2. CASE \E a \in Benchmarks :
              evidence' = [evidence EXCEPT !.result[a] = commits[c].evidence.result[a]]
    <3>1. PICK a \in Benchmarks :
              evidence' = [evidence EXCEPT !.result[a] = commits[c].evidence.result[a]]
        BY <2>2
    <3> DEFINE d == commits[c].evidence
    <3>2. d \in Evidence /\ evidence' = [evidence EXCEPT !.result[a] = d.result[a]]
        BY <1>3, <3>1
    <3> HIDE DEF d
    <3>3. evidence' \in Evidence /\ evidence'.manifest = evidence.manifest
        BY <1>3, <3>2, EvidenceMixed
    <3>. QED BY <3>3
  <2>. QED BY <1>2, <2>1, <2>2
<1>6. Traceable(evidence'.manifest) BY <1>5 DEF ManifestsTraceable
<1>7. ManifestsTraceable' BY <1>1, <1>6, TraceableUnchanged DEF ManifestsTraceable
<1>8. Shape' BY <1>1, <1>5 DEF Shape
<1>. QED BY <1>1, <1>7, <1>8, RecordingKept

LEMMA UpgradeKeepsInv ==
    ASSUME Inv, UpgradeTools, UNCHANGED recordings PROVE Inv'
<1> USE DEF Inv
<1>1. UNCHANGED <<commits, head, source, evidence, recorder>> /\ tools' \in Toolchains
    BY DEF UpgradeTools, repository
<1>2. Shape' /\ ManifestsTraceable'
    BY <1>1, TraceableUnchanged DEF Shape, ManifestsTraceable
<1>. QED BY <1>1, <1>2, RecordingKept

LEMMA CheckoutKeepsInv ==
    ASSUME Inv, Checkout, UNCHANGED recordings PROVE Inv'
<1> USE DEF Inv
<1>1. UNCHANGED <<commits, tools>> BY DEF Checkout
<1>2. PICK c \in DOMAIN commits :
          head' = c /\ Becomes(commits[c].source) /\ evidence' = commits[c].evidence
    BY DEF Checkout
<1>3. commits[c] \in Commits /\ commits[c].evidence \in Evidence BY ManifestTyped
<1>4. commits[c].source \in Sources BY <1>3 DEF Commits
<1>5. recorder' \in Recorders /\ Recording' /\ source' \in Sources
    BY <1>1, <1>2, <1>4, BecomesKeepsRecording
<1>6. Shape' BY <1>1, <1>2, <1>3, <1>5 DEF Shape
<1>7. Traceable(evidence'.manifest) BY <1>2 DEF ManifestsTraceable
<1>8. ManifestsTraceable' BY <1>1, <1>7, TraceableUnchanged DEF ManifestsTraceable
<1>. QED BY <1>1, <1>5, <1>6, <1>8

LEMMA CommitKeepsInv ==
    ASSUME Inv, Commit, UNCHANGED recordings PROVE Inv'
<1> USE DEF Inv
<1>1. UNCHANGED <<source, evidence, tools, recorder>> /\ head' = Len(commits')
    BY DEF Commit, disk
<1>2. PICK parents \in {<<head>>, commits[head].parents}
                      \cup {<<head, c>> : c \in DOMAIN commits \ {head}},
           s \in {source, commits[head].source},
           e \in {evidence, commits[head].evidence} :
        commits' = Append(commits, [parents |-> parents, source |-> s, evidence |-> e])
    BY DEF Commit
<1> DEFINE new == [parents |-> parents, source |-> s, evidence |-> e]
<1>3. commits[head] \in Commits BY DEF Shape
<1>4. s \in Sources /\ e \in Evidence BY <1>3 DEF Shape, Commits
<1>5. parents \in Seq(Nat)
  <2>1. \A c \in DOMAIN commits : c \in Nat BY DEF Shape
  <2>2. CASE parents = <<head>> BY <2>1, <2>2 DEF Shape
  <2>3. CASE parents = commits[head].parents BY <1>3, <2>3 DEF Commits
  <2>4. CASE parents \in {<<head, c>> : c \in DOMAIN commits \ {head}}
    <3>1. PICK c \in DOMAIN commits \ {head} : parents = <<head, c>> BY <2>4
    <3>2. head \in Nat /\ c \in Nat BY <2>1, <3>1 DEF Shape
    <3>. QED BY <3>1, <3>2
  <2>. QED BY <2>2, <2>3, <2>4
<1>6. new \in Commits BY <1>4, <1>5 DEF Commits
<1>7. Traceable(e.manifest) BY DEF ManifestsTraceable, Shape
<1>8. new.evidence = e OBVIOUS
<1>9. commits' = Append(commits, new) BY <1>2
<1> HIDE DEF new
<1>10. /\ commits' \in Seq(Commits)
       /\ DOMAIN commits' = DOMAIN commits \cup {Len(commits) + 1}
       /\ Len(commits') = Len(commits) + 1
       /\ \A i \in DOMAIN commits : commits'[i] = commits[i]
       /\ commits'[Len(commits) + 1] = new
    BY <1>6, <1>9 DEF Shape
<1>11. Shape' BY <1>1, <1>10 DEF Shape
<1>12. \A m \in Manifest : Traceable(m) => Traceable(m)'
    BY <1>6, <1>9, TraceableKept DEF Shape
<1>13. e.manifest \in Manifest BY <1>4 DEF Evidence
<1>14. \A c \in DOMAIN commits' :
          \E m \in Manifest : commits'[c].evidence.manifest = m /\ Traceable(m)'
  <2> TAKE c \in DOMAIN commits'
  <2>1. CASE c = Len(commits) + 1
    <3>1. commits'[c].evidence.manifest = e.manifest BY <1>8, <1>10, <2>1
    <3>2. Traceable(e.manifest)' BY <1>7, <1>12, <1>13
    <3>. QED BY <1>13, <3>1, <3>2
  <2>2. CASE c \in DOMAIN commits
    <3>1. PICK m \in Manifest : m = commits[c].evidence.manifest
        BY <2>2, ManifestTyped
    <3>2. commits'[c].evidence.manifest = m BY <1>10, <2>2, <3>1
    <3>3. Traceable(m) BY <2>2, <3>1 DEF ManifestsTraceable
    <3>. QED BY <1>12, <3>2, <3>3
  <2>. QED BY <1>10, <2>1, <2>2
<1>15. Traceable(evidence.manifest)'
    BY <1>1, <1>12, ManifestTyped DEF ManifestsTraceable
<1>16. ManifestsTraceable' BY <1>14, <1>15 DEF ManifestsTraceable
<1>17. Recording'
  <2>1. CASE recorder.pc = "idle" BY <1>1, <2>1 DEF Recording
  <2>2. CASE recorder.pc # "idle"
    <3>1. recorder.commit \in DOMAIN commits BY <2>2 DEF Recording
    <3>2. Bound(recorder.commit)' = Bound(recorder.commit)
        BY <1>1, <1>10, <3>1 DEF Bound
    <3>3. recorder.commit \in DOMAIN commits' BY <1>10, <3>1
    <3>. QED BY <1>1, <2>2, <3>2, <3>3 DEF Recording
  <2>. QED BY <2>1, <2>2
<1>. QED BY <1>1, <1>11, <1>16, <1>17

LEMMA TagOrPushKeepsInv ==
    ASSUME Inv, Tag \/ Push, UNCHANGED recordings PROVE Inv'
<1> USE DEF Inv
<1>1. UNCHANGED <<commits, head, source, evidence, tools, recorder>>
    BY DEF Tag, Push, disk
<1>2. Shape' /\ ManifestsTraceable'
    BY <1>1, TraceableUnchanged DEF Shape, ManifestsTraceable
<1>. QED BY <1>1, <1>2, RecordingKept

LEMMA InvStep == Inv /\ [Next]_vars => Inv'
<1> SUFFICES ASSUME Inv, [Next]_vars PROVE Inv' OBVIOUS
<1>1. CASE StartRecording BY <1>1, StartKeepsInv
<1>2. CASE Measure BY <1>2, MeasureKeepsInv
<1>3. CASE Publish BY <1>3, PublishKeepsInv
<1>4. CASE GiveUp BY <1>4, GiveUpKeepsInv
<1>5. CASE Maintainer
  <2>1. UNCHANGED recordings BY <1>5 DEF Maintainer
  <2>. QED BY <1>5, <2>1, EditSourceKeepsInv, RestoreFileKeepsInv, UpgradeKeepsInv,
              CheckoutKeepsInv, CommitKeepsInv, TagOrPushKeepsInv DEF Maintainer
<1>6. CASE UNCHANGED vars
  <2>1. UNCHANGED <<commits, head, source, evidence, tools, recorder, recordings>>
      BY <1>6 DEF vars, repository, disk
  <2>2. Shape' /\ ManifestsTraceable'
      BY <2>1, TraceableUnchanged DEF Inv, Shape, ManifestsTraceable
  <2>. QED BY <2>1, <2>2, RecordingKept DEF Inv
<1>. QED BY <1>1, <1>2, <1>3, <1>4, <1>5, <1>6 DEF Next

\* Every manifest, on disk or committed, can be traced to the source of the
\* commit it names (record_release_evidence.py:34-165).
THEOREM EveryManifestTraceable == Spec => []ManifestsTraceable
<1>1. Init => Inv BY InvInit
<1>2. Inv /\ [Next]_vars => Inv' BY InvStep
<1>3. Inv => ManifestsTraceable BY DEF Inv
<1>. QED BY <1>1, <1>2, <1>3, PTL DEF Spec

-----------------------------------------------------------------------------
(***************************************************************************)
(* What the checks decide.                                                 *)
(***************************************************************************)
LEMMA DiffersSplits ==
    ASSUME NEW c, NEW p, Differs(c, p) = {"manifest"} \cup Benchmarks
    PROVE  c.source = p.source
  BY ChainAssumption DEF Differs

LEMMA AcceptedIsGenuine ==
    ASSUME Inv, WorktreeClean, evidence.manifest.moves <= 1, Accepted
    PROVE  /\ tag = head /\ tag \in Ancestors[main]
           /\ Genuine(tag) /\ evidence.manifest.tools = tools
<1> DEFINE m == evidence.manifest
           p == m.commit
<1>1. source = commits[head].source /\ evidence = commits[head].evidence
    BY DEF WorktreeClean, Clean
<1>2. /\ p # 0 /\ m.sha = Fingerprint[source]
      /\ evidence.result = m.result /\ m.tools = tools
    BY DEF Accepted, SourceCheckPasses
<1>3. /\ tag = head /\ commits[head].parents = <<p>>
      /\ Changed(head) = {"manifest"} \cup Benchmarks
      /\ head \in Ancestors[main]
    BY DEF Accepted, TagCheckPasses
<1>4. Changed(head) = Differs(commits[head], commits[p])
  <2>1. Len(commits[head].parents) = 1 /\ commits[head].parents[1] = p
      BY <1>3
  <2>. QED BY <2>1 DEF Changed
<1>5. commits[head].source = commits[p].source
    BY <1>3, <1>4, DiffersSplits
<1>6. m \in Manifest BY ManifestTyped DEF Inv
<1>7. m.moves \in Nat /\ m.moves <= 1 BY <1>6 DEF Manifest
<1>8. Traceable(m) BY DEF Inv, ManifestsTraceable
<1>9. m.moves # 1 BY <1>1, <1>2, <1>5, <1>8 DEF Traceable
<1>10. m.moves = 0 BY <1>7, <1>9
<1>11. \A b \in Benchmarks : Fingerprint[m.result[b].source] = Fingerprint[commits[p].source]
    BY <1>2, <1>8, <1>10 DEF Traceable
<1>12. Genuine(head)
  <2>1. commits[head].evidence.manifest = m /\ commits[head].evidence.result = m.result
      BY <1>1, <1>2
  <2>. QED BY <1>2, <1>3, <1>4, <1>5, <1>10, <1>11, <2>1 DEF Genuine
<1>. QED BY <1>2, <1>3, <1>12

LEMMA GenuineIsAccepted ==
    ASSUME Inv, WorktreeClean, tag = head, tag \in Ancestors[main], Genuine(tag),
           evidence.manifest.tools = tools
    PROVE  Accepted
<1> DEFINE m == evidence.manifest
           p == m.commit
<1>1. source = commits[head].source /\ evidence = commits[head].evidence
    BY DEF WorktreeClean, Clean
<1>2. /\ p # 0 /\ commits[head].parents = <<p>>
      /\ commits[head].source = commits[p].source
      /\ Differs(commits[head], commits[p]) = {"manifest"} \cup Benchmarks
      /\ m.moves = 0 /\ evidence.result = m.result
      /\ \A b \in Benchmarks :
            Fingerprint[evidence.result[b].source] = Fingerprint[commits[head].source]
    BY <1>1 DEF Genuine
<1>3. Changed(head) = {"manifest"} \cup Benchmarks
  <2>1. Len(commits[head].parents) = 1 /\ commits[head].parents[1] = p
      BY <1>2
  <2>. QED BY <1>2, <2>1 DEF Changed
<1>4. TagCheckPasses BY <1>2, <1>3 DEF TagCheckPasses
<1>5. Traceable(m) BY DEF Inv, ManifestsTraceable
<1>6. m.sha = Fingerprint[source] BY <1>1, <1>2, <1>5 DEF Traceable
<1>7. \A b \in Benchmarks : m.result[b].source \in Sources
    BY <1>2, <1>5 DEF Traceable
<1>8. source \in Sources BY DEF Inv, Shape
<1>9. \A b \in Benchmarks : Corpus[m.result[b].source] = Corpus[source]
  <2> TAKE b \in Benchmarks
  <2> DEFINE measured == m.result[b].source
  <2>1. measured \in Sources BY <1>7
  <2>2. Fingerprint[measured] = Fingerprint[source] BY <1>1, <1>2
  <2> HIDE DEF measured
  <2>3. Corpus[measured] = Corpus[source] BY <1>8, <2>1, <2>2, ChainAssumption
  <2>. QED BY <2>3 DEF measured
<1>10. SourceCheckPasses BY <1>2, <1>6, <1>9 DEF SourceCheckPasses
<1>. QED BY <1>4, <1>10 DEF Accepted

\* In a clean checkout, and unless the source was changed and changed back
\* during the recording, the checks accept a tag exactly when it is genuine
\* (release_source_check.py:169-189, validate_release_tag.py:46-97).
THEOREM ChecksAlwaysExact == Spec => []ChecksExact
<1>1. Init => Inv BY InvInit
<1>2. Inv /\ [Next]_vars => Inv' BY InvStep
<1>3. Inv => ChecksExact
    BY AcceptedIsGenuine, GenuineIsAccepted DEF ChecksExact
<1>. QED BY <1>1, <1>2, <1>3, PTL DEF Spec

\* The results of a tag that is accepted were measured on the benchmark inputs
\* of its source, however often the source changed during the recording: the
\* digests the manifest lists are those of the results, and the results on disk
\* are those it lists (record_release_evidence.py:131-133,
\* release_source_check.py:184-186).
THEOREM InputsAlwaysMeasured == Spec => []InputsMeasured
<1>1. InputsMeasured
  <2> SUFFICES ASSUME WorktreeClean, Accepted, NEW b \in Benchmarks
               PROVE  Corpus[commits[tag].evidence.result[b].source] = Corpus[commits[tag].source]
    BY DEF InputsMeasured
  <2>1. source = commits[tag].source /\ evidence = commits[tag].evidence
    BY DEF WorktreeClean, Clean, Accepted, TagCheckPasses
  <2>2. evidence.result = evidence.manifest.result
    BY DEF Accepted, SourceCheckPasses
  <2>3. Corpus[evidence.manifest.result[b].source] = Corpus[source]
    BY DEF Accepted, SourceCheckPasses
  <2>. QED BY <2>1, <2>2, <2>3
<1>. QED BY <1>1, PTL

-----------------------------------------------------------------------------
(***************************************************************************)
(* Types: the history of the repository, and the recorder between          *)
(* recordings.                                                             *)
(***************************************************************************)

\* Parents come first, so that no commit is its own ancestor.
ParentsFirst ==
    \A c \in DOMAIN commits : \A i \in DOMAIN commits[c].parents :
        commits[c].parents[i] \in 1..(c - 1)

References ==
    /\ main \in DOMAIN commits /\ tag \in DOMAIN commits \cup {0}
    /\ ParentsFirst
    /\ recorder.pc = "idle" => recorder = Idle
    /\ edits \in Nat

LEMMA TypeIsInv == Inv /\ References => TypeOK
  BY DEF Inv, References, ParentsFirst, Shape, TypeOK, Commits, Recorders

LEMMA ReferencesInit == Init => References
<1> SUFFICES ASSUME Init PROVE References OBVIOUS
<1> DEFINE first == [parents |-> <<>>, source |-> source, evidence |-> evidence]
<1>1. commits = <<first>> BY DEF Init
<1>2. DOMAIN commits = {1} /\ commits[1] = first
  <2> HIDE DEF first
  <2>. QED BY <1>1
<1>3. ParentsFirst BY <1>2 DEF ParentsFirst
<1>. QED BY <1>2, <1>3 DEF Init, References

\* A commit is put behind its parents, the amended one included.
LEMMA CommitKeepsReferences ==
    ASSUME Inv, References, Commit
    PROVE  References'
<1>1. UNCHANGED <<main, tag, recorder, edits>> BY DEF Commit
<1>2. PICK parents \in {<<head>>, commits[head].parents}
                      \cup {<<head, c>> : c \in DOMAIN commits \ {head}},
           s \in {source, commits[head].source},
           e \in {evidence, commits[head].evidence} :
        commits' = Append(commits, [parents |-> parents, source |-> s, evidence |-> e])
    BY DEF Commit
<1> DEFINE new == [parents |-> parents, source |-> s, evidence |-> e]
<1>3. new.parents = parents /\ commits' = Append(commits, new) BY <1>2
<1> HIDE DEF new
<1>4. /\ commits \in Seq(Commits) /\ head \in DOMAIN commits
      /\ DOMAIN commits = 1..Len(commits) /\ Len(commits) \in Nat
    BY DEF Inv, Shape
<1>5. /\ DOMAIN commits' = DOMAIN commits \cup {Len(commits) + 1}
      /\ \A i \in DOMAIN commits : commits'[i] = commits[i]
      /\ commits'[Len(commits) + 1] = new
    BY <1>3, <1>4
<1>6. \A i \in DOMAIN parents : parents[i] \in 1..Len(commits)
  <2>1. CASE parents = commits[head].parents
    <3>1. \A i \in DOMAIN parents : parents[i] \in 1..(head - 1)
        BY <1>4, <2>1 DEF References, ParentsFirst
    <3>. QED BY <1>4, <3>1
  <2>2. CASE parents = <<head>> BY <1>4, <2>2
  <2>3. CASE parents \in {<<head, c>> : c \in DOMAIN commits \ {head}}
    <3>1. PICK c \in DOMAIN commits : parents = <<head, c>> BY <2>3
    <3>. QED BY <1>4, <3>1
  <2>. QED BY <2>1, <2>2, <2>3
<1>7. ParentsFirst'
  <2> SUFFICES ASSUME NEW c \in DOMAIN commits', NEW i \in DOMAIN commits'[c].parents
               PROVE  commits'[c].parents[i] \in 1..(c - 1)
    BY DEF ParentsFirst
  <2>1. CASE c \in DOMAIN commits BY <1>5, <2>1 DEF References, ParentsFirst
  <2>2. CASE c = Len(commits) + 1
    <3>1. commits'[c].parents = parents /\ c - 1 = Len(commits) BY <1>3, <1>4, <1>5, <2>2
    <3>. QED BY <1>6, <3>1
  <2>. QED BY <1>5, <2>1, <2>2
<1>. QED BY <1>1, <1>5, <1>7 DEF References

LEMMA ReferencesStep == Inv /\ References /\ [Next]_vars => References'
<1> SUFFICES ASSUME Inv, References, [Next]_vars PROVE References' OBVIOUS
<1>1. CASE StartRecording \/ Measure \/ Publish \/ GiveUp
  <2>1. UNCHANGED <<commits, main, tag, edits>>
      BY <1>1 DEF StartRecording, Measure, Publish, GiveUp, repository
  <2>2. recorder'.pc = "idle" => recorder' = Idle
    <3>1. CASE Publish \/ GiveUp BY <3>1 DEF Publish, GiveUp
    <3>2. CASE StartRecording
      <4>1. recorder' = [Idle EXCEPT !.pc = "bench", !.commit = head, !.todo = Benchmarks]
          BY <3>2 DEF StartRecording
      <4>2. recorder'.pc = "bench" BY <4>1 DEF Idle
      <4>. QED BY <4>2
    <3>3. CASE Measure
      <4>1. recorder \in Recorders BY DEF Inv
      <4>2. recorder'.pc # "idle" BY <3>3, <4>1 DEF Measure, Recorders
      <4>. QED BY <4>2
    <3>. QED BY <1>1, <3>1, <3>2, <3>3
  <2>. QED BY <2>1, <2>2 DEF References, ParentsFirst
<1>2. CASE EditSource \/ RestoreFile \/ UpgradeTools \/ Checkout
  <2>1. UNCHANGED <<commits, main, tag>> /\ edits' \in Nat
      BY <1>2 DEF EditSource, RestoreFile, UpgradeTools, Checkout, Edit, repository, References
  <2>2. \/ recorder' = recorder
        \/ recorder' = [recorder EXCEPT !.moves = @ + 1] /\ recorder.pc # "idle"
    <3>1. CASE RestoreFile \/ UpgradeTools BY <3>1 DEF RestoreFile, UpgradeTools
    <3>2. CASE EditSource \/ Checkout
      <4>1. PICK s : Becomes(s) BY <3>2 DEF EditSource, Checkout
      <4>. QED BY <4>1 DEF Becomes
    <3>. QED BY <1>2, <3>1, <3>2
  <2>3. recorder'.pc = recorder.pc BY <2>2 DEF Inv, Recorders
  <2>. QED BY <2>1, <2>2, <2>3 DEF References, ParentsFirst
<1>3. CASE Commit BY <1>3, CommitKeepsReferences
<1>4. CASE Tag \/ Push
  <2>1. /\ UNCHANGED <<commits, recorder, edits>>
        /\ main' \in DOMAIN commits /\ tag' \in DOMAIN commits \cup {0}
      BY <1>4 DEF Tag, Push, References, Inv, Shape
  <2>. QED BY <2>1 DEF References, ParentsFirst
<1>5. CASE UNCHANGED vars
  <2>1. UNCHANGED <<commits, main, tag, edits, recorder>> BY <1>5 DEF vars, repository
  <2>. QED BY <2>1 DEF References, ParentsFirst
<1>. QED BY <1>1, <1>2, <1>3, <1>4, <1>5 DEF Next, Maintainer

\* Every variable keeps to its type: the references name commits, the history
\* has no cycle, since every parent is an earlier commit, and no recording
\* leaves results behind for the next (record_release_evidence.py:174).
THEOREM ChainTyped == Spec => []TypeOK
<1>1. Init => Inv /\ References BY InvInit, ReferencesInit
<1>2. Inv /\ References /\ [Next]_vars => (Inv /\ References)'
    BY InvStep, ReferencesStep
<1>3. Inv /\ References => TypeOK BY TypeIsInv
<1>. QED BY <1>1, <1>2, <1>3, PTL DEF Spec
=============================================================================
