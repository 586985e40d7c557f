--------------------------- MODULE ReleaseArtifacts ---------------------------
(***************************************************************************)
(* The dist directory of a release: a wheel and a source distribution for  *)
(* each version, and the documents that describe them.                     *)
(* generate_release_artifacts.py hashes the two and writes checksums, SBOM *)
(* and manifest in place, one after the other; it may be killed or raise   *)
(* anywhere.  validate_release_artifacts.py reads them file by file.       *)
(* Meanwhile packages are built anew.  A hash is the content it is of.     *)
(***************************************************************************)
EXTENDS Integers

CONSTANTS
    Versions,
    Sources,        \* source commit, evidence commit, workflow, run id of a build
    Builds,         \* contents of wheels and source distributions
    Absent, Partial,
    MaxRuns, MaxBuilds, MaxKills, MaxValidations    \* bounds

SumsDocs == [version : Versions, wheel : Builds, sdist : Builds]
Sboms == [version : Versions, source : Sources, wheel : Builds, sdist : Builds]
Manifests == [version : Versions, source : Sources, wheel : Builds, sdist : Builds,
              sbom : Sboms, sums : SumsDocs]

ArtifactsAssumption ==
    /\ Absent # Partial
    /\ Absent \notin Builds
    /\ \A d \in {Absent, Partial} : d \notin SumsDocs \cup Sboms \cup Manifests
    /\ MaxRuns \in Nat /\ MaxBuilds \in Nat /\ MaxKills \in Nat /\ MaxValidations \in Nat

ASSUME ArtifactsAssumption

VARIABLES
    wheel, sdist, sbom,     \* by version: their names contain it
    sums, manifest,         \* SHA256SUMS, release-artifacts.json
    step, args, hashed,     \* the generator
    check, want, held, failed,      \* the validator; held is the manifest it read
    runs, builds, kills, validations,
    clean,          \* history: the last generator was not stopped, no build since it began
    quiet           \* history: no file has changed since the validator began

files == <<wheel, sdist, sbom, sums, manifest>>
generator == <<step, args, hashed>>
validator == <<check, want, held, failed>>
vars == <<files, generator, validator, runs, builds, kills, validations, clean, quiet>>

-----------------------------------------------------------------------------
(***************************************************************************)
(* The generator.                                                          *)
(***************************************************************************)
v == args.version

Unchanged == UNCHANGED <<args, validator, runs, builds, kills, validations>>

Begin ==
    /\ step = "idle" /\ runs < MaxRuns
    /\ args' \in [version : Versions, source : Sources]
    /\ step' = "list" /\ runs' = runs + 1 /\ clean' = TRUE
    /\ UNCHANGED <<files, hashed, validator, builds, kills, validations, quiet>>

GiveUp == step' = "idle" /\ clean' = FALSE

\* A package that is missing ends it before anything is written.
List ==
    /\ step = "list"
    /\ \/ Absent \in {wheel[v], sdist[v]} /\ GiveUp
       \/ Absent \notin {wheel[v], sdist[v]} /\ step' = "wheel" /\ UNCHANGED clean
    /\ Unchanged /\ UNCHANGED <<files, hashed, quiet>>

FaultyHashWheel ==              \* nobody looks whether it is still there
    /\ step = "wheel" /\ step' = "sdist"
    /\ hashed' = [hashed EXCEPT !.wheel = wheel[v]]
    /\ Unchanged /\ UNCHANGED <<files, clean, quiet>>

HashWheel ==
    /\ step = "wheel"
    /\ \/ wheel[v] = Absent /\ GiveUp /\ UNCHANGED hashed
       \/ /\ wheel[v] # Absent /\ step' = "sdist"
          /\ hashed' = [hashed EXCEPT !.wheel = wheel[v]]
          /\ UNCHANGED clean
    /\ Unchanged /\ UNCHANGED <<files, quiet>>

HashSdist ==
    /\ step = "sdist"
    /\ \/ sdist[v] = Absent /\ GiveUp /\ UNCHANGED hashed
       \/ /\ sdist[v] # Absent /\ step' = "openSums"
          /\ hashed' = [hashed EXCEPT !.sdist = sdist[v]]
          /\ UNCHANGED clean
    /\ Unchanged /\ UNCHANGED <<files, quiet>>

\* write_text truncates the file before it fills it.
OpenSums ==
    /\ step = "openSums" /\ step' = "fillSums"
    /\ sums' = Partial /\ quiet' = FALSE
    /\ Unchanged /\ UNCHANGED <<wheel, sdist, sbom, manifest, hashed, clean>>

FillSums ==
    /\ step = "fillSums" /\ step' = "openSbom"
    /\ sums' = [version |-> v, wheel |-> hashed.wheel, sdist |-> hashed.sdist]
    /\ quiet' = FALSE
    /\ Unchanged /\ UNCHANGED <<wheel, sdist, sbom, manifest, hashed, clean>>

OpenSbom ==
    /\ step = "openSbom" /\ step' = "fillSbom"
    /\ sbom' = [sbom EXCEPT ![v] = Partial] /\ quiet' = FALSE
    /\ Unchanged /\ UNCHANGED <<wheel, sdist, sums, manifest, hashed, clean>>

FillSbom ==
    /\ step = "fillSbom" /\ step' = "hashSbom"
    /\ sbom' = [sbom EXCEPT ![v] = [version |-> v, source |-> args.source,
                                    wheel |-> hashed.wheel, sdist |-> hashed.sdist]]
    /\ quiet' = FALSE
    /\ Unchanged /\ UNCHANGED <<wheel, sdist, sums, manifest, hashed, clean>>

\* Both are read back from the disk.
HashSbom ==
    /\ step = "hashSbom" /\ step' = "hashSums"
    /\ hashed' = [hashed EXCEPT !.sbom = sbom[v]]
    /\ Unchanged /\ UNCHANGED <<files, clean, quiet>>

HashSums ==
    /\ step = "hashSums" /\ step' = "openManifest"
    /\ hashed' = [hashed EXCEPT !.sums = sums]
    /\ Unchanged /\ UNCHANGED <<files, clean, quiet>>

OpenManifest ==
    /\ step = "openManifest" /\ step' = "fillManifest"
    /\ manifest' = Partial /\ quiet' = FALSE
    /\ Unchanged /\ UNCHANGED <<wheel, sdist, sbom, sums, hashed, clean>>

FillManifest ==
    /\ step = "fillManifest" /\ step' = "idle"
    /\ manifest' = [version |-> v, source |-> args.source,
                    wheel |-> hashed.wheel, sdist |-> hashed.sdist,
                    sbom |-> hashed.sbom, sums |-> hashed.sums]
    /\ quiet' = FALSE
    /\ Unchanged /\ UNCHANGED <<wheel, sdist, sbom, sums, hashed, clean>>

\* Killed, or an exception that nothing catches.
Stop ==
    /\ step # "idle" /\ kills < MaxKills
    /\ GiveUp /\ kills' = kills + 1
    /\ UNCHANGED <<files, args, hashed, validator, runs, builds, validations, quiet>>

Generate ==
    \/ Begin \/ List \/ HashWheel \/ HashSdist \/ OpenSums \/ FillSums \/ OpenSbom \/ FillSbom
    \/ HashSbom \/ HashSums \/ OpenManifest \/ FillManifest \/ Stop

-----------------------------------------------------------------------------
(***************************************************************************)
(* The validator.  It notes every failure and goes on to the end.          *)
(***************************************************************************)
Observe(failure, next) ==
    /\ failed' = (failed \/ failure) /\ check' = next
    /\ UNCHANGED <<files, generator, want, runs, builds, kills, validations, clean, quiet>>

Validate ==
    /\ check \in {"idle", "done"} /\ validations < MaxValidations
    /\ want' \in Versions
    /\ check' = "manifest" /\ held' = Absent /\ failed' = FALSE /\ quiet' = TRUE
    /\ validations' = validations + 1
    /\ UNCHANGED <<files, generator, runs, builds, kills, clean>>

\* Without a manifest there is nothing to compare.
ReadManifest ==
    /\ check = "manifest"
    /\ held' = manifest
    /\ \/ manifest \in Manifests /\ Observe(manifest.version # want, "wheel")
       \/ manifest \notin Manifests /\ Observe(TRUE, "done")

CheckWheel ==
    check = "wheel" /\ Observe(wheel[held.version] # held.wheel, "sdist") /\ UNCHANGED held
CheckSdist ==
    check = "sdist" /\ Observe(sdist[held.version] # held.sdist, "sbom") /\ UNCHANGED held
FaultyCheckSbom ==              \* only that there is one
    check = "sbom" /\ Observe(sbom[held.version] = Absent, "sums") /\ UNCHANGED held
CheckSbom ==
    check = "sbom" /\ Observe(sbom[held.version] # held.sbom, "sums") /\ UNCHANGED held
CheckSums ==
    check = "sums" /\ Observe(sums # held.sums, "components") /\ UNCHANGED held

\* The two documents are read once more, for the packages they name.
FaultyNames(d) ==               \* the hash of the wheel is expected for both
    /\ d.version = held.version
    /\ d.wheel = held.wheel
    /\ d.sdist = held.wheel

Names(d) ==
    /\ d.version = held.version
    /\ d.wheel = held.wheel
    /\ d.sdist = held.sdist
ReadSbom ==
    /\ check = "components" /\ UNCHANGED held
    /\ LET d == sbom[held.version]
       IN  Observe(d \notin Sboms \/ (d \in Sboms /\ ~Names(d)), "lines")
ReadSums ==
    /\ check = "lines" /\ UNCHANGED held
    /\ Observe(sums \notin SumsDocs \/ (sums \in SumsDocs /\ ~Names(sums)), "done")

ValidateStep ==
    \/ Validate \/ ReadManifest \/ CheckWheel \/ CheckSdist \/ CheckSbom \/ CheckSums
    \/ ReadSbom \/ ReadSums

-----------------------------------------------------------------------------
\* A package is built, or removed, by whoever prepares the release.
Build ==
    /\ builds < MaxBuilds /\ builds' = builds + 1
    /\ \E u \in Versions, b \in Builds \cup {Absent} :
          \/ wheel' = [wheel EXCEPT ![u] = b] /\ UNCHANGED sdist
          \/ sdist' = [sdist EXCEPT ![u] = b] /\ UNCHANGED wheel
    /\ clean' = FALSE /\ quiet' = FALSE
    /\ UNCHANGED <<sbom, sums, manifest, generator, validator, runs, kills, validations>>

Init ==
    /\ wheel \in [Versions -> Builds \cup {Absent}]
    /\ sdist \in [Versions -> Builds \cup {Absent}]
    /\ sbom = [u \in Versions |-> Absent] /\ sums = Absent /\ manifest = Absent
    /\ step = "idle" /\ args \in [version : Versions, source : Sources]
    /\ hashed = [wheel |-> Absent, sdist |-> Absent, sbom |-> Absent, sums |-> Absent]
    /\ check = "idle" /\ want \in Versions /\ held = Absent /\ failed = FALSE
    /\ runs = 0 /\ builds = 0 /\ kills = 0 /\ validations = 0
    /\ clean = FALSE /\ quiet = FALSE

\* Nobody does anything any more.
Finished ==
    /\ step = "idle" /\ check \in {"idle", "done"}
    /\ runs = MaxRuns /\ builds = MaxBuilds /\ validations = MaxValidations
    /\ UNCHANGED vars

Next == Generate \/ ValidateStep \/ Build \/ Finished

Spec == Init /\ [][Next]_vars

-----------------------------------------------------------------------------
FilesTyped ==
    /\ wheel \in [Versions -> Builds \cup {Absent}]
    /\ sdist \in [Versions -> Builds \cup {Absent}]
    /\ sbom \in [Versions -> Sboms \cup {Absent, Partial}]
    /\ sums \in SumsDocs \cup {Absent, Partial}
    /\ manifest \in Manifests \cup {Absent, Partial}

GeneratorTyped ==
    /\ step \in {"idle", "list", "wheel", "sdist", "openSums", "fillSums", "openSbom",
                 "fillSbom", "hashSbom", "hashSums", "openManifest", "fillManifest"}
    /\ args \in [version : Versions, source : Sources]
    /\ hashed \in [wheel : Builds \cup {Absent}, sdist : Builds \cup {Absent},
                   sbom : Sboms \cup {Absent}, sums : SumsDocs \cup {Absent}]

ValidatorTyped ==
    /\ check \in {"idle", "manifest", "wheel", "sdist", "sbom", "sums", "components",
                  "lines", "done"}
    /\ want \in Versions
    /\ held \in Manifests \cup {Absent, Partial}
    /\ failed \in BOOLEAN

CountersTyped ==
    /\ runs \in 0..MaxRuns /\ builds \in 0..MaxBuilds
    /\ kills \in 0..MaxKills /\ validations \in 0..MaxValidations

HistoryTyped == clean \in BOOLEAN /\ quiet \in BOOLEAN

\* The variables have their types.
TypeOK == FilesTyped /\ GeneratorTyped /\ ValidatorTyped /\ CountersTyped /\ HistoryTyped

\* The documents of a manifest are those of its own invocation.
OfOneRun(m) ==
    /\ m.sbom = [version |-> m.version, source |-> m.source,
                 wheel |-> m.wheel, sdist |-> m.sdist]
    /\ m.sums = [version |-> m.version, wheel |-> m.wheel, sdist |-> m.sdist]

\* Whatever was generated, killed and generated again before it: a manifest that is
\* complete names the SBOM and the checksums of the invocation that wrote it, whole
\* and about the same packages (main, lines 80-124).
ManifestOfOneRun == manifest \in Manifests => OfOneRun(manifest)

\* What the validator accepts while no file changes is a release of the version asked
\* for: packages, checksums, SBOM and manifest agree, and one invocation with one
\* source commit has written all documents.  The validator compares neither commits
\* nor what invocation wrote a document.
AcceptedIsOneRelease ==
    check = "done" /\ ~failed /\ quiet =>
        /\ manifest \in Manifests /\ manifest.version = want /\ OfOneRun(manifest)
        /\ wheel[want] = manifest.wheel /\ sdist[want] = manifest.sdist
        /\ sbom[want] = manifest.sbom /\ sums = manifest.sums

\* A release whose generation ended without being disturbed is accepted, whatever
\* earlier invocations and other versions have left in the directory.
GeneratedIsAccepted ==
    check = "done" /\ quiet /\ clean /\ step = "idle" /\ want = args.version => ~failed
=============================================================================
