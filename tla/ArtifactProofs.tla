---------------------------- MODULE ArtifactProofs ----------------------------
(***************************************************************************)
(* Proofs about ReleaseArtifacts, for any number of versions, sources,     *)
(* builds, invocations, rebuilt packages and kills.                        *)
(***************************************************************************)
EXTENDS ReleaseArtifacts, TLAPS

\* The documents that the running invocation writes.
SumsOfRun == [version |-> v, wheel |-> hashed.wheel, sdist |-> hashed.sdist]
SbomOfRun == [version |-> v, source |-> args.source,
              wheel |-> hashed.wheel, sdist |-> hashed.sdist]

AfterWheel == {"sdist", "openSums", "fillSums", "openSbom", "fillSbom", "hashSbom", "hashSums",
               "openManifest", "fillManifest"}
AfterSdist == AfterWheel \ {"sdist"}

Late == {"hashSums", "openManifest", "fillManifest"}

GeneratorInv ==
    /\ step \in AfterWheel => hashed.wheel \in Builds
    /\ step \in AfterSdist => hashed.sdist \in Builds
    /\ step \in {"openSbom", "fillSbom", "hashSbom"} \cup Late => sums = SumsOfRun
    /\ step \in {"hashSbom"} \cup Late => sbom[v] = SbomOfRun
    /\ step \in Late => hashed.sbom = SbomOfRun
    /\ step \in {"openManifest", "fillManifest"} => hashed.sums = SumsOfRun

WriterInv == FilesTyped /\ GeneratorTyped /\ GeneratorInv /\ ManifestOfOneRun
RunInv == WriterInv /\ ValidatorTyped /\ CountersTyped /\ HistoryTyped

LEMMA InitRun == Init => RunInv
<1> SUFFICES ASSUME Init PROVE RunInv
  OBVIOUS
<1>1. FilesTyped /\ GeneratorTyped /\ ValidatorTyped /\ HistoryTyped
  BY DEF Init, FilesTyped, GeneratorTyped, ValidatorTyped, HistoryTyped
<1>2. runs = 0 /\ builds = 0 /\ kills = 0 /\ validations = 0
  BY DEF Init
<1>3. CountersTyped
  BY <1>2, ArtifactsAssumption DEF CountersTyped, ArtifactsAssumption
<1>4. GeneratorInv
  BY DEF Init, GeneratorInv, AfterWheel, AfterSdist, Late
<1>5. ManifestOfOneRun
  BY ArtifactsAssumption DEF Init, ManifestOfOneRun, ArtifactsAssumption
<1> QED
  BY <1>1, <1>3, <1>4, <1>5 DEF RunInv, WriterInv

\* Every step counts one thing at most, and stays within its bound.
LEMMA CountersStep == CountersTyped /\ Next => CountersTyped'
<1> SUFFICES ASSUME CountersTyped, Next PROVE CountersTyped'
  OBVIOUS
<1>1. /\ MaxRuns \in Nat /\ MaxBuilds \in Nat /\ MaxKills \in Nat /\ MaxValidations \in Nat
  BY ArtifactsAssumption DEF ArtifactsAssumption
<1>2. /\ UNCHANGED runs \/ (runs < MaxRuns /\ runs' = runs + 1)
      /\ UNCHANGED builds \/ (builds < MaxBuilds /\ builds' = builds + 1)
      /\ UNCHANGED kills \/ (kills < MaxKills /\ kills' = kills + 1)
      /\ UNCHANGED validations
         \/ (validations < MaxValidations /\ validations' = validations + 1)
  <2>1. CASE Generate
    BY <2>1 DEF Generate, Begin, List, HashWheel, HashSdist, OpenSums, FillSums, OpenSbom,
                FillSbom, HashSbom, HashSums, OpenManifest, FillManifest, Stop, Unchanged
  <2>2. CASE ValidateStep
    BY <2>2 DEF ValidateStep, Validate, ReadManifest, CheckWheel, CheckSdist, CheckSbom,
                CheckSums, ReadSbom, ReadSums, Observe
  <2>3. CASE Build
    BY <2>3 DEF Build
  <2>4. CASE Finished
    BY <2>4 DEF Finished, vars
  <2> QED
    BY <2>1, <2>2, <2>3, <2>4 DEF Next
<1> QED
  BY <1>1, <1>2 DEF CountersTyped

LEMMA HistoryStep == HistoryTyped /\ Next => HistoryTyped'
<1> SUFFICES ASSUME HistoryTyped, Next PROVE HistoryTyped'
  OBVIOUS
<1>1. clean' \in {clean, TRUE, FALSE} /\ quiet' \in {quiet, TRUE, FALSE}
  <2>1. CASE Generate
    BY <2>1 DEF Generate, Begin, List, HashWheel, HashSdist, OpenSums, FillSums, OpenSbom,
                FillSbom, HashSbom, HashSums, OpenManifest, FillManifest, Stop, Unchanged, GiveUp
  <2>2. CASE ValidateStep
    BY <2>2 DEF ValidateStep, Validate, ReadManifest, CheckWheel, CheckSdist, CheckSbom,
                CheckSums, ReadSbom, ReadSums, Observe
  <2>3. CASE Build
    BY <2>3 DEF Build
  <2>4. CASE Finished
    BY <2>4 DEF Finished, vars
  <2> QED
    BY <2>1, <2>2, <2>3, <2>4 DEF Next
<1> QED
  BY <1>1 DEF HistoryTyped

LEMMA ValidatorStep ==
    ASSUME FilesTyped, ValidatorTyped, Next
    PROVE  ValidatorTyped'
<1> USE DEF ValidatorTyped, FilesTyped
<1>1. CASE Generate \/ Build \/ Finished
  <2>1. UNCHANGED validator
    BY <1>1 DEF Generate, Begin, List, HashWheel, HashSdist, OpenSums, FillSums, OpenSbom,
                FillSbom, HashSbom, HashSums, OpenManifest, FillManifest, Stop, Build, Finished,
                Unchanged, vars
  <2> QED
    BY <2>1 DEF validator
<1>2. CASE Validate
  BY <1>2 DEF Validate
<1>3. ASSUME NEW f, NEW n, Observe(f, n) PROVE failed' \in BOOLEAN /\ want' = want /\ check' = n
  BY <1>3 DEF Observe
<1>4. CASE ReadManifest
  BY <1>3, <1>4 DEF ReadManifest
<1>5. CASE CheckWheel \/ CheckSdist \/ CheckSbom \/ CheckSums
  BY <1>3, <1>5 DEF CheckWheel, CheckSdist, CheckSbom, CheckSums
<1>6. CASE ReadSbom \/ ReadSums
  BY <1>3, <1>6 DEF ReadSbom, ReadSums
<1> QED
  BY <1>1, <1>2, <1>4, <1>5, <1>6 DEF Next, ValidateStep

\* The steps of the generator, from those that read to those that write.
LEMMA ReaderSteps ==
    ASSUME WriterInv, Begin \/ List \/ HashWheel \/ HashSdist \/ HashSbom \/ HashSums \/ Stop
    PROVE  WriterInv'
<1>1. UNCHANGED files
  BY DEF Begin, List, HashWheel, HashSdist, HashSbom, HashSums, Stop
<1>2. FilesTyped' /\ ManifestOfOneRun'
  BY <1>1 DEF WriterInv, FilesTyped, ManifestOfOneRun, files
<1> USE DEF WriterInv, FilesTyped, GeneratorTyped, GeneratorInv, AfterWheel, AfterSdist, Late,
            SumsOfRun, SbomOfRun, v, files, Unchanged, GiveUp
<1>3. CASE Begin
  BY <1>2, <1>3 DEF Begin
<1>4. CASE List
  BY <1>2, <1>4 DEF List
<1>5. CASE HashWheel
  BY <1>2, <1>5 DEF HashWheel
<1>6. CASE HashSdist
  BY <1>2, <1>6 DEF HashSdist
<1>7. CASE HashSbom
  <2>1. sbom[args.version] \in Sboms /\ sbom[args.version] = SbomOfRun
    BY <1>7 DEF HashSbom, Sboms
  <2> QED
    BY <1>2, <1>7, <2>1 DEF HashSbom
<1>8. CASE HashSums
  <2>1. sums \in SumsDocs /\ sums = SumsOfRun
    BY <1>8 DEF HashSums, SumsDocs
  <2> QED
    BY <1>2, <1>8, <2>1 DEF HashSums
<1>9. CASE Stop
  BY <1>2, <1>9 DEF Stop
<1> QED
  BY <1>3, <1>4, <1>5, <1>6, <1>7, <1>8, <1>9

LEMMA WriterSteps ==
    ASSUME WriterInv, OpenSums \/ FillSums \/ OpenSbom \/ FillSbom \/ OpenManifest \/ FillManifest
    PROVE  WriterInv'
<1> USE DEF WriterInv, FilesTyped, GeneratorTyped, GeneratorInv, AfterWheel, AfterSdist, Late,
            SumsOfRun, SbomOfRun, ManifestOfOneRun, v, Unchanged
<1>1. CASE OpenSums
  BY <1>1 DEF OpenSums
<1>2. CASE FillSums
  <2>1. sums' \in SumsDocs /\ sums' = SumsOfRun
    BY <1>2 DEF FillSums, SumsDocs
  <2> QED
    BY <1>2, <2>1 DEF FillSums
<1>3. CASE OpenSbom
  BY <1>3 DEF OpenSbom
<1>4. CASE FillSbom
  <2>1. SbomOfRun \in Sboms
    BY <1>4 DEF FillSbom, Sboms
  <2>2. sbom' = [sbom EXCEPT ![v] = SbomOfRun]
    BY <1>4 DEF FillSbom
  <2> QED
    BY <1>4, <2>1, <2>2 DEF FillSbom
<1>5. CASE OpenManifest
  BY <1>5, ArtifactsAssumption DEF OpenManifest, ArtifactsAssumption
<1>6. CASE FillManifest
  <2>1. manifest' \in Manifests /\ OfOneRun(manifest')
    BY <1>6 DEF FillManifest, OfOneRun, Manifests, Sboms, SumsDocs
  <2>2. FilesTyped' /\ GeneratorTyped' /\ GeneratorInv'
    BY <1>6, <2>1 DEF FillManifest
  <2>3. ManifestOfOneRun'
    BY <2>1
  <2> QED
    BY <2>2, <2>3
<1> QED
  BY <1>1, <1>2, <1>3, <1>4, <1>5, <1>6

LEMMA OtherSteps ==
    ASSUME WriterInv, ValidateStep \/ Build \/ Finished
    PROVE  WriterInv'
<1>1. UNCHANGED <<sbom, sums, manifest, generator>>
  BY DEF ValidateStep, Validate, ReadManifest, CheckWheel, CheckSdist, CheckSbom, CheckSums,
         ReadSbom, ReadSums, Observe, Build, Finished, files, vars
<1>2. /\ wheel' \in [Versions -> Builds \cup {Absent}]
      /\ sdist' \in [Versions -> Builds \cup {Absent}]
  <2>1. CASE Build
    BY <2>1 DEF Build, WriterInv, FilesTyped
  <2>2. CASE ValidateStep \/ Finished
    <3>1. UNCHANGED <<wheel, sdist>>
      BY <2>2 DEF ValidateStep, Validate, ReadManifest, CheckWheel, CheckSdist, CheckSbom,
                  CheckSums, ReadSbom, ReadSums, Observe, Finished, files, vars
    <3> QED
      BY <3>1 DEF WriterInv, FilesTyped
  <2> QED
    BY <2>1, <2>2
<1>3. GeneratorTyped' /\ GeneratorInv' /\ ManifestOfOneRun'
  BY <1>1 DEF WriterInv, GeneratorTyped, GeneratorInv, ManifestOfOneRun, SumsOfRun, SbomOfRun,
              generator, v
<1> QED
  BY <1>1, <1>2, <1>3 DEF WriterInv, FilesTyped

LEMMA RunStep == RunInv /\ [Next]_vars => RunInv'
<1> SUFFICES ASSUME RunInv, [Next]_vars PROVE RunInv'
  OBVIOUS
<1>1. CASE Next
  <2>1. CountersTyped' /\ HistoryTyped' /\ ValidatorTyped'
    BY <1>1, CountersStep, HistoryStep, ValidatorStep DEF RunInv, WriterInv
  <2>2. WriterInv'
    BY <1>1, ReaderSteps, WriterSteps, OtherSteps DEF RunInv, Next, Generate
  <2> QED
    BY <2>1, <2>2 DEF RunInv
<1>2. CASE UNCHANGED vars
  BY <1>2 DEF vars, files, generator, validator, RunInv, WriterInv, FilesTyped, GeneratorTyped,
              GeneratorInv, ManifestOfOneRun, ValidatorTyped, CountersTyped, HistoryTyped,
              SumsOfRun, SbomOfRun, v
<1> QED
  BY <1>1, <1>2

\* The invariant holds of every behaviour.
LEMMA RunAlways == Spec => []RunInv
<1> QED
  BY InitRun, RunStep, PTL DEF Spec

\* Files, generator, validator and counters have their types (TypeOK): a digest is that
\* of a package that was there, and no document is hashed before it is whole.
THEOREM ArtifactsTyped == Spec => []TypeOK
<1>1. RunInv => TypeOK
  BY DEF RunInv, WriterInv, TypeOK
<1> QED
  BY <1>1, RunAlways, PTL

\* A complete manifest names the SBOM and the checksums of the invocation that wrote it
\* (main of generate_release_artifacts.py, lines 80-124).
THEOREM EveryManifestOfOneRun == Spec => []ManifestOfOneRun
<1>1. RunInv => ManifestOfOneRun
  BY DEF RunInv, WriterInv
<1> QED
  BY <1>1, RunAlways, PTL

-----------------------------------------------------------------------------
(***************************************************************************)
(* The validator.  What it has compared stays so while no file changes.    *)
(***************************************************************************)
Comparing == {"wheel", "sdist", "sbom", "sums", "components", "lines"}

\* What the steps before check have established, when none of them failed.
Compared ==
    /\ held \in Manifests /\ held = manifest /\ held.version = want
    /\ check # "wheel" => wheel[want] = held.wheel
    /\ check \notin {"wheel", "sdist"} => sdist[want] = held.sdist
    /\ check \notin {"wheel", "sdist", "sbom"} => sbom[want] = held.sbom
    /\ check \notin {"wheel", "sdist", "sbom", "sums"} => sums = held.sums

AcceptInv ==
    /\ check \in Comparing => held \in Manifests
    /\ quiet /\ ~failed /\ check \in Comparing \cup {"done"} => Compared

\* No step changes a file under a validator that goes on counting on it.
LEMMA QuietSteps ==
    ASSUME Generate \/ Build \/ Finished \/ UNCHANGED vars
    PROVE  UNCHANGED validator /\ (UNCHANGED <<files, quiet>> \/ ~quiet')
<1>1. UNCHANGED validator
  BY DEF Generate, Begin, List, HashWheel, HashSdist, OpenSums, FillSums, OpenSbom, FillSbom,
         HashSbom, HashSums, OpenManifest, FillManifest, Stop, Build, Finished, Unchanged, vars
<1>2. UNCHANGED <<files, quiet>> \/ quiet' = FALSE
  BY DEF Generate, Begin, List, HashWheel, HashSdist, OpenSums, FillSums, OpenSbom, FillSbom,
         HashSbom, HashSums, OpenManifest, FillManifest, Stop, Build, Finished, Unchanged, vars
<1> QED
  BY <1>1, <1>2

LEMMA LookingSteps ==
    ASSUME ValidateStep PROVE UNCHANGED <<files, generator, clean>>
BY DEF ValidateStep, Validate, ReadManifest, CheckWheel, CheckSdist, CheckSbom, CheckSums,
       ReadSbom, ReadSums, Observe

LEMMA AcceptStep ==
    ASSUME AcceptInv, [Next]_vars PROVE AcceptInv'
<1>1. CASE Generate \/ Build \/ Finished \/ UNCHANGED vars
  BY <1>1, QuietSteps DEF AcceptInv, Compared, validator, files
<1>2. CASE Validate
  BY <1>2 DEF Validate, AcceptInv, Comparing
<1>3. CASE ReadManifest
  BY <1>3 DEF ReadManifest, Observe, AcceptInv, Compared, Comparing, files
<1>4. CASE CheckWheel
  BY <1>4 DEF CheckWheel, Observe, AcceptInv, Compared, Comparing, files
<1>5. CASE CheckSdist
  BY <1>5 DEF CheckSdist, Observe, AcceptInv, Compared, Comparing, files
<1>6. CASE CheckSbom
  BY <1>6 DEF CheckSbom, Observe, AcceptInv, Compared, Comparing, files
<1>7. CASE CheckSums
  BY <1>7 DEF CheckSums, Observe, AcceptInv, Compared, Comparing, files
<1>8. CASE ReadSbom
  BY <1>8 DEF ReadSbom, Observe, AcceptInv, Compared, Comparing, files
<1>9. CASE ReadSums
  BY <1>9 DEF ReadSums, Observe, AcceptInv, Compared, Comparing, files
<1> QED
  BY <1>1, <1>2, <1>3, <1>4, <1>5, <1>6, <1>7, <1>8, <1>9 DEF Next, ValidateStep

\* A release that the validator accepts while no file changes is of the version asked
\* for, its files agree, and one invocation with one source commit has written all of
\* its documents (main of validate_release_artifacts.py, lines 20-137).
THEOREM OnlyOneReleaseAccepted == Spec => []AcceptedIsOneRelease
<1>1. Init => AcceptInv
  BY DEF Init, AcceptInv, Comparing
<1>2. AcceptInv /\ [Next]_vars => AcceptInv'
  BY AcceptStep
<1>3. AcceptInv /\ ManifestOfOneRun => AcceptedIsOneRelease
  BY DEF AcceptInv, Compared, ManifestOfOneRun, AcceptedIsOneRelease
<1> QED
  BY <1>1, <1>2, <1>3, EveryManifestOfOneRun, PTL DEF Spec

-----------------------------------------------------------------------------
(***************************************************************************)
(* What an invocation that nobody disturbs leaves behind.                  *)
(***************************************************************************)
Released ==
    /\ manifest \in Manifests /\ manifest.version = v /\ OfOneRun(manifest)
    /\ wheel[v] = manifest.wheel /\ sdist[v] = manifest.sdist
    /\ sbom[v] = manifest.sbom /\ sums = manifest.sums

CleanInv ==
    /\ clean /\ step \in AfterWheel => hashed.wheel = wheel[v]
    /\ clean /\ step \in AfterSdist => hashed.sdist = sdist[v]
    /\ clean /\ step = "idle" => Released

Undisturbed == quiet /\ clean /\ step = "idle" /\ want = v

ServedInv ==
    Undisturbed /\ check # "idle" =>
        ~failed /\ (check \in Comparing \cup {"done"} => held = manifest)

LEMMA CleanInit == Init => CleanInv /\ ServedInv
BY DEF Init, CleanInv, ServedInv, AfterWheel, AfterSdist, Undisturbed

LEMMA CleanStep ==
    ASSUME WriterInv, WriterInv', CleanInv, [Next]_vars PROVE CleanInv'
<1> USE DEF CleanInv, AfterWheel, AfterSdist, v, Unchanged, GiveUp
<1>1. CASE Begin
  BY <1>1 DEF Begin
<1>2. CASE List \/ Stop
  BY <1>2 DEF List, Stop
<1>3. CASE HashWheel \/ HashSdist
  BY <1>3 DEF HashWheel, HashSdist, files, WriterInv, GeneratorTyped
<1>4. CASE HashSbom \/ HashSums
  BY <1>4 DEF HashSbom, HashSums, files, WriterInv, GeneratorTyped
<1>5. CASE OpenSums \/ FillSums \/ OpenSbom \/ FillSbom \/ OpenManifest
  BY <1>5 DEF OpenSums, FillSums, OpenSbom, FillSbom, OpenManifest
<1>6. CASE FillManifest
  <2>1. clean => hashed.wheel = wheel[v] /\ hashed.sdist = sdist[v]
    BY <1>6 DEF FillManifest
  <2>2. /\ sums = SumsOfRun /\ sbom[v] = SbomOfRun
        /\ hashed.sbom = SbomOfRun /\ hashed.sums = SumsOfRun
    BY <1>6 DEF FillManifest, WriterInv, GeneratorInv, Late
  <2>3. manifest' \in Manifests /\ OfOneRun(manifest')
    BY <1>6, <2>2 DEF FillManifest, OfOneRun, SumsOfRun, SbomOfRun, WriterInv, GeneratorTyped,
                      GeneratorInv, Manifests, Sboms, SumsDocs
  <2> QED
    BY <1>6, <2>1, <2>2, <2>3 DEF FillManifest, Released
<1>7. CASE Build
  BY <1>7 DEF Build
<1>8. CASE ValidateStep \/ Finished \/ UNCHANGED vars
  <2>1. UNCHANGED <<files, generator, clean>>
    BY <1>8, LookingSteps DEF Finished, vars
  <2> QED
    BY <2>1 DEF files, generator, Released
<1> QED
  BY <1>1, <1>2, <1>3, <1>4, <1>5, <1>6, <1>7, <1>8 DEF Next, Generate

LEMMA ServedStep ==
    ASSUME CleanInv, AcceptInv, ServedInv, [Next]_vars PROVE ServedInv'
<1> USE DEF ServedInv, Undisturbed, Comparing
<1>1. CASE Generate \/ Build \/ Finished \/ UNCHANGED vars
  <2>1. UNCHANGED validator /\ (UNCHANGED <<files, quiet>> \/ ~quiet')
    BY <1>1, QuietSteps
  <2>2. ASSUME UNCHANGED <<files, quiet>>, Undisturbed' PROVE Undisturbed
    <3>1. CASE Generate
      BY <2>1, <2>2, <3>1 DEF Generate, Begin, List, HashWheel, HashSdist, OpenSums, FillSums,
            OpenSbom, FillSbom, HashSbom, HashSums, OpenManifest, FillManifest, Stop, GiveUp
    <3>2. CASE Build \/ Finished \/ UNCHANGED vars
      BY <2>2, <3>2 DEF Build, Finished, vars, generator, validator, v
    <3> QED
      BY <1>1, <3>1, <3>2
  <2> QED
    BY <2>1, <2>2 DEF validator, files
<1>2. CASE ValidateStep
  <2>1. UNCHANGED <<files, generator, clean>>
    BY <1>2, LookingSteps
  <2>2. CASE Validate
    BY <2>2 DEF Validate
  <2>3. ASSUME ~Validate PROVE UNCHANGED <<want, quiet>> /\ check # "idle" /\ check # "done"
    BY <1>2, <2>3 DEF ValidateStep, ReadManifest, CheckWheel, CheckSdist, CheckSbom, CheckSums,
                      ReadSbom, ReadSums, Observe
  <2>4. ASSUME ~Validate, Undisturbed'
        PROVE  Released /\ want = v /\ ~failed /\ (check \in Comparing => held = manifest)
    BY <2>1, <2>3, <2>4 DEF CleanInv, generator, v
  <2>5. ASSUME ~Validate, Undisturbed' PROVE ~failed' /\ held' = manifest
    <3> USE DEF Released, OfOneRun
    <3>1. CASE ReadManifest
      BY <2>4, <2>5, <3>1 DEF ReadManifest, Observe
    <3>2. CASE CheckWheel \/ CheckSdist \/ CheckSbom \/ CheckSums
      BY <2>4, <2>5, <3>2 DEF CheckWheel, CheckSdist, CheckSbom, CheckSums, Observe
    <3>3. manifest.sbom \in Sboms /\ manifest.sums \in SumsDocs
      BY <2>4, <2>5 DEF Manifests
    <3>4. CASE ReadSbom
      <4>1. held = manifest /\ sbom[held.version] = manifest.sbom
        BY <2>4, <2>5, <3>4 DEF ReadSbom
      <4>2. Names(sbom[held.version])
        BY <2>4, <2>5, <4>1 DEF Names
      <4>3. UNCHANGED held /\ Observe(FALSE, "lines")
        BY <3>3, <3>4, <4>1, <4>2 DEF ReadSbom, Observe
      <4> QED
        BY <2>4, <2>5, <4>1, <4>3 DEF Observe
    <3>5. CASE ReadSums
      <4>1. held = manifest /\ sums = manifest.sums
        BY <2>4, <2>5, <3>5 DEF ReadSums
      <4>2. Names(sums)
        BY <2>4, <2>5, <4>1 DEF Names
      <4>3. UNCHANGED held /\ Observe(FALSE, "done")
        BY <3>3, <3>5, <4>1, <4>2 DEF ReadSums, Observe
      <4> QED
        BY <2>4, <2>5, <4>1, <4>3 DEF Observe
    <3> QED
      BY <1>2, <2>5, <3>1, <3>2, <3>4, <3>5 DEF ValidateStep
  <2> QED
    BY <2>1, <2>2, <2>5 DEF files
<1> QED
  BY <1>1, <1>2 DEF Next

\* A release whose generation nobody has disturbed is accepted by the validator, whatever
\* earlier invocations and other versions have left in the directory (the generator
\* writes every document that the validator reads).
THEOREM EveryReleaseAccepted == Spec => []GeneratedIsAccepted
<1>1. RunInv => WriterInv
  BY DEF RunInv
<1>2. Init => AcceptInv
  BY DEF Init, AcceptInv, Comparing
<1>3. WriterInv /\ WriterInv' /\ CleanInv /\ [Next]_vars => CleanInv'
  BY CleanStep
<1>4. AcceptInv /\ [Next]_vars => AcceptInv'
  BY AcceptStep
<1>5. CleanInv /\ AcceptInv /\ ServedInv /\ [Next]_vars => ServedInv'
  BY ServedStep
<1>6. ServedInv => GeneratedIsAccepted
  BY DEF ServedInv, Undisturbed, GeneratedIsAccepted, v
<1> QED
  BY CleanInit, RunAlways, <1>1, <1>2, <1>3, <1>4, <1>5, <1>6, PTL DEF Spec
=============================================================================
