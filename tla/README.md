# Verification of QuantumGuard

This directory holds TLA+ specifications of QuantumGuard, the static scanner of
cryptography in this repository, the TLC configurations that model-check them on small
instances, and theorems about them that the TLAPS proof system checks. Paths below are
relative to the repository; `util.py` and the like are in `src/quantumguard/`, the release
tooling in `scripts/`.

`PROJECT.json` lists the components, the runs, the mutants, the source lines behind each
definition, the hazards and the theorems.

    tlasany Discovery.tla
    tlc -workers 2 -config MCDiscovery_scan.cfg MCDiscovery
    tlapm DiscoveryProofs.tla

## 1. The system

QuantumGuard is a single-threaded program. It keeps nothing between runs except the files
it writes. What makes it hard to test is what is around it: the tree it scans belongs to
other processes, which change it between two system calls; the date passes midnight; a step
raises halfway through a directory swap; a release script is killed.

### Scanning

**Source discovery** (`util.py`: `iter_source_files`, `safe_read_text`).
*State*: the stack of `os.walk`, the two loops over a directory's entries, the selection, the
bytes accounted to it, seven skip counters. *Operations*: list a directory; keep or skip each
sub-directory; for each file lstat, stat, test three limits, lstat again, open, fstat, read.
*Interaction*: the file system, read-only. *Hard*: each of those calls may meet another file
than the one before, and the final sort asks the file system once more. *Correct when*: the limits hold, only regular files are read, every
listed path is decided once and reported once, a limit is reported only where it binds, a
quiet tree is read completely, and the scan ends.

**Analyzers** (`analyzers/`). *State*: the names a module binds, per file. *Operations*: find
calls in Python source, keys in configuration files, words in text. *Interaction*: given the
text that discovery read; report findings with algorithm, purpose and confidence. *Hard*: the
order in which imports and assignments are met; shadowing. *Correct when*: a finding's rule
and targets are those of its algorithm and purpose.

**Policy, rules, risk, HNDL, migration** (`policy.py`, `rules/quantumguard-rules.json`,
`risk.py`, `hndl.py`, `migration/engine.py`). Pure functions and tables over findings and
the user's answers. *Hard*: the same knowledge is written down in several tables. *Correct
when*: the tables agree on everything an analyzer can report.

**Suppressions** (`suppression.py`). *State*: the entries of `quantumguard.toml`, the audit
log. *Operations*: per finding, read the file again, look for a marker on its line and the
line before, then for an entry. *Interaction*: the file system and the clock, both later than
discovery. *Hard*: files and date change between two findings. *Correct when*: log and
statuses agree, and, if nothing changes, exactly the exempt findings are suppressed.

**Audit pipeline** (`api.py`: `audit`). Calls all of the above in order: discovery, analyzers,
assessment, suppressions, dependencies, assets, plans, agility, HNDL. *State*: the findings,
changed in place by assessment and suppression. *Correct when*: each finding ends in one place
(logged, planned or out of reach of Shor's algorithm) and the audit ends.

**Dependency discovery** (`dependencies.py`) and **assets** (`api.py`: `_assets`). *State*: the
dependencies found, by ecosystem, name and manifest; the assets, by a hash of what they are.
*Operations*: walk for manifests, read each, parse it, note what it declares; then make one asset
of the findings that have type, algorithm, purpose, file and line in common, and attribute it to a
dependency. *Interaction*: the file system once more, after everything else is done. *Hard*: an
exception here loses an audit that is otherwise complete; identities coincide. *Correct when*: no
declared dependency is missed, every finding is in the inventory, and what it is attributed to is
declared.

**Agility** (`agility.py`), **data models** (`models.py`), **reports** (`reporting.py`) are pure
functions of the result.

**Command line and baselines** (`cli.py`). *State*: the result documents in a directory and
the baseline file, both of earlier commands. *Operations*: `audit` (seven documents, a
comparison with a baseline, an exit code), `baseline`, `verify` (two audits compared), and
commands that print one document. *Interaction*: a later command reads the baseline, and a
results directory inside the scanned tree is scanned with it. *Hard*: documents are truncated
and filled one after the other over those of another audit; the code and its suppressions
change between two commands. *Correct when*: an audit that gives a verdict leaves a consistent
set of documents, and calls new only what has changed since its baseline.

**TLS inspection** (`tls.py`): one blocking handshake. **Doctor** (`doctor.py`): probes of the
installation. **GitHub Action** (`action.yml`): a shell wrapper.

### Releasing

**Evidence recorder** (`record_release_evidence.py`). *State*: the evidence directory of a
version, a staging and a backup directory. *Operations*: check the tree is clean, read the
commit, run the release gate and three benchmarks, write a manifest, swap directories by two
renames, restore on failure. *Interaction*: child processes, git, the file system. *Hard*: a
step raises or the process is killed anywhere; directories of a killed run are still there;
the source is edited during the hour it takes. *Correct when*: the evidence a reader sees is
never partial, an invocation replaces it as a whole and only when asked to, a failing one
leaves it in place, and evidence of two sources does not pass for evidence of one.

**Release source and tag checks** (`release_source_check.py`, `validate_release_tag.py`)
compare the evidence with the source and the tag. **Release artifacts**
(`generate_release_artifacts.py`, `validate_release_artifacts.py`). *State*: the directory that is
to be published: packages of several versions, their SBOMs, one file of checksums and one
manifest. *Operations*: hash the packages and write three documents in place; read all of it back
and compare. *Interaction*: packages are built and removed by others; a validation may meet a
generation. *Hard*: a kill between or within two documents leaves those of two versions or two
commits side by side, and the validator compares neither commits nor invocations. *Correct when*:
what is accepted is one release, and a release that nobody disturbed is accepted.

**Release gate** (`release_check.py`). *State*: the checks passed and failed so far, the packages
built, the copy exported. *Operations*: three dozen checks, nearly all of them child processes with
a timeout, some only if another has passed; among them the gate itself, run in the exported copy.
*Interaction*: the working tree, which others may edit while the gate runs. *Hard*: the checks meet
different sources; a check is skipped, hangs or breaks; the nested gate inherits the environment of
the outer one. *Correct when*: PASS is said of one source that meets all of them, and a verdict is
given.

**Benchmark runners** (`run_quantumguardbench.py`, `run_end_to_end.py`) score the scanner on a
labelled **corpus**. *Hard*: what counts once and what twice, ratios of nothing, and which labels
the test of the migration table looks at. **Staged snapshot check**, **standalone export**,
**performance and coverage gates** and **other validators** compare files with what is expected of
them.

## 2. The modules

| module | models | checked by | proofs |
|---|---|---|---|
| `Discovery` | `util.py` 29-177 | `MCDiscovery` | `DiscoveryProofs` |
| `EvidenceStore` | what the recorder promises | `MCEvidenceRecord` (refinement) | |
| `EvidenceRecord` | `record_release_evidence.py` | `MCEvidenceRecord` | `EvidenceProofs` |
| `Policy` | the tables of `models.py`, `policy.py`, `risk.py`, `hndl.py`, `engine.py`, the rule database, and what the analyzers can report | through `AuditPipeline` | |
| `AuditPipeline` | `api.audit` and `suppression.py`; extends `Policy` | `MCAuditPipeline` | `PipelineProofs` |
| `Inventory` | `dependencies.py`, the assets of `api.py`, the edges of `reporting.py`; extends `AuditPipeline` | `MCAuditPipeline` | `PipelineProofs` |
| `NameResolution` | `analyzers/python.py` 45-74, 198-315: what a called name means | through `NamesAtRunTime` | |
| `NamesAtRunTime` | the Python interpreter, on the file that was analyzed; extends `NameResolution` | `MCNamesAtRunTime` | `NameProofs` |
| `ReleaseChain` | `release_source_check.py`, `validate_release_tag.py` over the history of a repository | `MCReleaseChain` | `ChainProofs` |
| `ReleaseArtifacts` | `generate_release_artifacts.py`, `validate_release_artifacts.py` | `MCReleaseArtifacts` | `ArtifactProofs` |
| `BenchmarkScores` | the scores of `run_quantumguardbench.py` and `run_end_to_end.py`, as operators | through `ReleaseGate` | |
| `ReleaseGate` | `release_check.py`, twice: the gate and the gate in the copy; extends `BenchmarkScores` | `MCReleaseGate` | `GateProofs` |
| `CommandLine` | `cli.py`: `audit`, `baseline`, `verify`, one after the other | `MCCommandLine` | `CommandProofs` |

An operator whose name begins with `Faulty` is not used by any specification: it is the next
definition with a plausible bug in it, which a property has to notice. `PROJECT.json`
("mutants") says which.

The modules nest by grain. `Discovery` is one scan at the grain of system calls;
`AuditPipeline` takes its result (all files are read) and is one audit at the grain of a file
read or a decision; `CommandLine` takes a whole audit as one step and is at the grain of a
document opened or written. `EvidenceRecord` is one recording at the grain of a file-system
operation; `ReleaseChain` keeps three moments of it (start, each measurement, publication).

### Discovery

One action per system call. `pc` says which call comes next; `stack`, `dirsTodo`, `retained`,
`filesTodo` are `os.walk` and the two loops; `path`, `measured`, `fd` are the locals of the
loop body and of `safe_read_text`; `selected`, `total`, `skipped` are the result. `outcome`
is a history variable: what became of each path, by which the counters are judged.
`CheckRoot`, `Walk`, `ClassifyDir`, `DirsDone`, `Lstat`, `Stat`, `Recheck`, `Open`, `Fstat`,
`Read`, `FilesDone`, `Return`, `Resolve`, `Sort` follow the code from top to bottom; `Resolve` is
`relative_posix`, the key of the final sort, which resolves one selected path after the other and
raises for a link that leaves the tree. `content` is a history variable as well: the bytes of the
texts that were kept, where `total` has the sizes `stat` returned. The environment rewrites a
file, puts a link, a device or nothing in its place, takes permissions away, or removes a
directory, between any two of them.

Abstractions. A size is a small number; a content is text or not. A directory is not replaced
by a link during a scan (files are). The read loop is one step, since the descriptor is open by
then and its size limit is tested as it goes. Directories are visited in the order of the
explicit stack of `os.walk`. Where a link points is not part of the tree: `Resolve` chooses. After
the scan `audit` calls `relative_posix` again (`api.py:90`), with the same two outcomes; that call is
not modelled.

What the code does not promise. `docs/LIMITATIONS.md:21` bounds the selected source bytes. The code
adds up sizes from `stat`, so the bytes of the text that it keeps may exceed `max_total_bytes` when
files grow between `stat` and `open`. `WithinLimits` therefore bounds the four quantities apart: the
number of files, each text, the accounted sizes, and the content, which stays within the total in a
tree nobody touches and exceeds it by at most one `max_file_bytes` for each change.

### EvidenceRecord, EvidenceStore

One action per file-system or process step of `main` and `_commit_staged_evidence`. `Fault`
lets a step raise, without effect or with a directory half removed, and continues in the
handlers and `finally` clauses as Python does; `Crash` kills the process and leaves the
directories as they are then. `EditSource` and `CommitSource` are the maintainer.

`EvidenceStore` has the operations `Begin`, `Publish`, `Kill` and `Lose`: evidence appears whole
or is replaced whole, only by an invocation allowed to, and disappears only after a kill.
`EvidenceRecord` implements it (`ImplementsStore`) by the mapping that shows the release
directory or, while there is none, a backup that is complete. That `Lose` is needed is the
finding `evidence_lost` of section 4; one raising step in an invocation never loses anything, and
`NeverPartial` holds in every case. Two can: when the second rename raises and then the removal of
staging in the `finally` clause, the old evidence stays in the backup directory, which the next
invocation removes (TLC finds that with `MaxFaults` 2). `EvidenceInPlace` and `ImplementsStore` are
therefore checked, and proved, for at most one.

Abstractions. The tests for symbolic links of lines 50-57 are left out. The manifest is
written in one step: a kill during the write leaves staging, which nobody reads and the next
invocation clears.

### Policy, AuditPipeline

`Policy` has no state: algorithms and purposes go by the names the code displays, severities
are ranks, and the tables of the code are functions and sets. Several source files state the same knowledge
(targets in `engine.py` and in the rules; lifetime in `risk.py` and `hndl.py`), and the module
keeps the copies apart so that `TablesAgree` can compare them.

`AuditPipeline` reads the files, analyzes and assesses, loads the configuration, then decides
findings in order: `Inline` reads the file again at the finding's line and the one before,
`Configured` tries the entries. `LoadConfig` is for a configuration that is TOML, absent or
unreadable; `ConfigRaises` is for one that is TOML whose `suppressions` cannot be iterated, as
`suppressions = 5`: the `TypeError` of `suppression.py:64` is caught nowhere, and ends the audit
(`pc = "raised"`). `EditFile`, `EditConfig`, `Midnight` intervene between any two
steps. `world` and `result` group what the environment owns and what the audit has derived.

A text is a sequence of lines as `str.splitlines` makes them, which is how markers are looked up
(`suppression.py:88`). It ends a line at a form feed, a vertical tab, a file, group or record
separator, U+0085, U+2028 and U+2029 too, where `ast` does not; `ends` says of a line whether it ends
for both. A finding of a file in `PythonFiles` carries `LineOf`, the line number of `ast`, and after
such a character `Candidates` are other lines than those of the call. `QuietlyExact` says of every
finding that is not `Shifted` so that it is suppressed exactly when it is exempt; of a shifted one
this is false, and the marker of an earlier line decides.

Abstractions. A line holds calls, from left to right, and at most one marker; expiry is a day number (-1 a day
gone by or no date at all, `MaxDay + 1` never). The date is the same for the candidates of one
decision. A removed file is a file without lines. `matching_rule` returning nothing and the
rule for unknown cryptography are one case, as their consequences are the same. The column of a
finding is the number of its call on the line. Agility and the errors of parsers are left out.

### Inventory

`Inventory` extends `AuditPipeline` by what comes after the decisions. `ParseManifest` takes one
manifest (of `unparsed`), reads and parses it and adds what it declares to `found`; `ManifestRaises`
is the exception that nothing catches there, which sets `lost`; `DeriveAll` is `Derive` with the assets.
`EditManifest` changes a manifest between any two steps. An asset of `assets` keeps the finding that
made it (`Maker`) and the dependency it is attributed to (`Attribution`); `Component` is the
dependency under which the CycloneDX document puts it.

Every step of `Inventory` is one of `AuditPipeline` or leaves its variables alone, which
`PipelineProofs` proves (`InventoryImplementsAudit`), so the invariants of the one hold of the other.

Two things the model makes visible are no property. A finding whose call names no declared library is
attributed to the only crypto dependency of the repository, if there is only one, whatever it is
(`Attribution`, `api.py:240-244`), although `docs/RISK_MODEL.md:9` has dependency context never
fabricated; `InventoryExact` claims nothing of that guess, but that a named library is preferred to
it and that nothing is attributed where there are several candidates. And what counts as one is decided by a substring, so that a name with `ring` in it, as
`spring-core`, does (`dependencies.py:317`). An unreadable manifest ends the audit with the exit
code of an error (`cli.py:101`), where an unreadable source file is counted and skipped.

Abstractions. A name is a number in the order of lower case, with a spelling; versions are left out.
What a manifest declares is given (`Contents`), or that reading or parsing it raises; formats, the
directories the walk leaves out, and manifests too large or not text, which declare nothing, are not
distinguished. `Signals` and `LibraryOf` stand for the tests on names. The assets made of
dependencies themselves are left out: they are the crypto dependencies again.

### NameResolution, NamesAtRunTime

A file is a sequence of statements in source order, each with the blocks around it: an import (of
a dotted name, with or without `as`, from a module or whole), an assignment of a constant, the call
of a name or of its attributes whose result gets a name, an annotated assignment, a function with a
parameter and its annotation, a plain call, a test, and a `rebind`: any binding of a name that
`_imports` does not look at, as unpacking, or the target of a `for`, a `with` or an `except`.
`Visit` is `_imports` meeting one node; the next is the shallowest, then the first, that is left,
which is the order of `ast.walk`. `InferTypes` and `ReportCalls` are the two other walks, each in one
step, since their results do not depend on the order.

A dotted name is a sequence of `Words` and is compared as a whole, as in the code. `Candidates` are
the types `_inferred_types` gives a name: what a call returns goes by the name of its callee, or of
the class whose constructor that is (`Made`: `generate`, `from_private_bytes`, `from_public_bytes`);
an annotation is taken at its word. A name with two candidates has no type, though both be
cryptography, as `key = jwt.A()` in one branch and `key = jwt.B()` in the other. A name that is no
import stands for itself (`Imported`), so that a variable that happens to be called `jwt` is
classified by its own text. `import jwt.A` makes `jwt` stand for `jwt.A` in the tables, though it
binds `jwt` to the package: `jwt.A.sign` is then looked up as `jwt.A.A.sign`. Such a name is not
among those of `ClearNamesExact`.

`NamesAtRunTime` then runs the file as Python would: names bound anywhere in a function are local
to it, an import may fail, an exception ends the frame, an open test goes either way, and a
function that exists may be called by anybody between any two statements of the module, with any
argument its annotation allows. A value goes by the dotted name it was imported, made or annotated
as, or is `Other`. `met` keeps what each call has met; the properties compare it with `reported`. The
interpreter is external; only `NameResolution` is the repository's code.

What the code does not promise. `docs/DETECTION_MODEL.md:14` has shadowed aliases not become findings.
`_imports` notes assignments to a plain name, the walrus, functions and classes (`python.py:235-251`);
after `import jwt`, `jwt, x = f()` or `for jwt in y:` a call of `jwt` is reported although it is
something else. `ShadowedRejected` is about the rebindings that are noted (`Noticed`).

Abstractions. `Other` has only attributes that are `Other`. An annotated value is of the type it says,
for the analyzer and at run time. Left out: class bodies and nested functions, `try`, `while`,
comprehensions, calls of the result of a call, and the assignments `_classify_assignment` looks at. A
function has one parameter.

### ReleaseChain

`repository` is what git knows (commits with tree and parents, tags), `disk` the working
tree, the recording in progress and the published evidence. The maintainer edits, restores,
commits, checks out, upgrades tools, records and tags. A recording starts, measures each
benchmark on whatever the source is at that moment, and publishes. `SourceCheckPasses` and
`TagCheckPasses` are the two scripts, as predicates of one moment: they run in a checkout
nobody else writes to. Which source a result was *measured* on is a history field no check
can read; the properties are about it. Contents of the source are numbers with a fingerprint
(what the digest covers) and a corpus (the benchmark inputs). Version strings, product fields
and verdicts are left out.

### ReleaseArtifacts

`step` is the generator, from `Begin` and `List` (arguments, the two packages) over `HashWheel` and
`HashSdist` to the documents; each is opened (`write_text` truncates it) and filled in two actions.
The manifest names the SBOM and the checksums by digests of what is then on disk (`HashSbom`,
`HashSums`). `Stop` is a kill or an exception nothing catches, anywhere. `check` is the validator:
`ReadManifest`, one action per file it hashes, and `ReadSbom` and `ReadSums`, which read two of them
a second time. It notes failures and goes on, as the code does. `Build` puts a package in the
directory or removes it, between any two steps. A digest is modelled by the content it is of, and
a source stands for what else is on the generator's command line: both commits, workflow and run.
`clean` and `quiet` are history: whether anybody has disturbed the generation, or changed a file
since the validation began.

Abstractions. `--output-dir` is the directory of the packages, where the validator looks for
everything. The tests for symbolic links, and of fields against constants (schema version, product,
dependencies), are left out, as are metadata, toolchain and environment, which no check compares.
One generator and one validator at a time.

### BenchmarkScores, ReleaseGate

`BenchmarkScores` has no state. Labels and findings are sequences, since the code builds
dictionaries of them in which the last of a key stays; scores are sets of keys, and percentages are
compared by multiplication, where a ratio of nothing is 1.0 as in the code, so that an empty corpus
has full marks. `DangerousErrors` is the test of the migration table as the runner makes it: only
labels that are met, that state targets, and that state others than the plan, are looked at. The plan
is that of the finding (`ActualTargets`): of an algorithm out of Shor's reach there is none, and the
runner compares with the empty list. A migration table (`Plans`) is the set of algorithms that get a
plan and a list of targets for each of the eight purposes, right or wrong; the test looks at three of
them, so that a certificate with ML-KEM, say, passes (`Dangerous`, `run_quantumguardbench.py:152`).

`ReleaseGate` runs the checks of `Checks` in order at two levels: the gate, and the gate it runs in
the exported copy. `Made` says whether a check is made at all: it may not apply (`Applies`), or what
it follows (`Follows`) may not have passed. A check that is made succeeds or fails by what its
subject is (`Subject`, `Meets`), breaks for any other reason (`Break`), or hangs until its timeout
(`Hang`, `TimeOut`). `StartCopy`, `CopyEnds` and `CopyTimesOut` are the check that is a gate. `Edit`
changes the working tree between any two steps. A source is what its checks say of it (`wrong`) and
what its benchmarks find.

What a PASS therefore does not say: zizmor is skipped where it is not installed, and SBOM and
manifest where git names no commit, without a word in the verdict (`Applies`); the commands of the
wheel are run with the `PYTHONPATH` of the outer gate, so that in the copy they judge the working
tree and not the wheel (`release_check.py:435`, `Subject`); the time the nested gate is given, 900
seconds, is less than that of its checks together, so that it may be stopped while it is doing well;
and `performance_gate.py` is not among the checks, although `docs/BENCHMARKS.md:138` has the full
gate run the scaling certification.

Abstractions. A check is a name and the set of sources that meet it. Reading a result and testing it
is one step. The exceptions `_version` lets through, and the wording of failures, are left out.

### CommandLine

`proc` is the command that runs or ran last: `Scan`, `ScanAgain` (verify), `OpenBaseline` and
`FillBaseline`, `LoadBaseline` (reading and comparing), `Open` and `Fill` for each document in
the order of the code, `Judge` (the report and the exit code). Writing is two actions because
`write_text` truncates before it writes; `Stop` ends a command at any of them with the exit
code of an exception, an interrupt or a kill. `Start` chooses a command and its options.
`EditCode`, `Suppress`, `Expire` are the developer and the calendar. A finding is a unit of
code with its line, as the finding hash has it, or a document and an algorithm it names.
`baseline.touched`, `baseline.wrote`, `proc.touched` are history: what changed since the
baseline's scan.

Abstractions. One command at a time. The line of a finding in a document is left out, so the
model makes *fewer* findings new than the code. Only the documents in which an algorithm is the
value of a key `ConfigAnalyzer` classifies can be findings. The commands `inventory`, `cbom`,
`plan`, `agility`, `explain`, `rules`, `doctor`, `tls` print or write a single document and are
left out.

## 3. The runs

`PROJECT.json` says which property each run checks. States are distinct states; times are with
two workers.

| run | what is in it | states | time |
|---|---|---|---|
| `discovery_scan` | two trees with any two changes at any two moments, and 5188 trees nobody changes | 337 303 | 34 s |
| `discovery_vanished` | as above, expected violation | | 5 s |
| `evidence` | three invocations, one raising step, one kill, one edit | 91 910 | 11 s |
| `evidence_lost` | two invocations, one kill, expected violation | | 1 s |
| `audit` | two files of up to three lines, one with a form feed, and a configuration of every form under any two changes; every pair of findings and context, undisturbed; lines with two calls beside two manifests under any two changes | 864 600 | 140 s |
| `audit_expired` | no change, expected violation | | 1 s |
| `names` | 129 576 files of four statements, one function call | 1 468 949 | 60 s |
| `chain_checks` | three commits, two recordings, two edits, two toolchains | 1 302 958 | 57 s |
| `gate` | two sources under any two faults, hangs or edits, with and without tools and the copy; and 1024 corpora, undisturbed | 845 569 | 112 s |
| `artifacts` | two versions, two sources, two invocations, one kill, two builds, one validation | 2 637 018 | 80 s |
| `commands` | three commands, one failure, one edit, two directories | 450 332 | 45 s |
| `commands_inside` | the same without edits, expected violation | | 1 s |

Why the bounds are enough.

- *Discovery.* `MaxFiles` 2 with four source files, `MaxTotalBytes` 3 with sizes up to 3 and
  `MaxFileBytes` 2 let each limit bind before and after a file that fits, and a file grow over
  each between stat and read. A race needs one change between test and use; two allow a file
  to change and change back. A nested, an ignored and an unreadable directory are the three
  cases of the directory loop. The quiet trees vary one file over every kind, size, content and
  permission and the others over the interesting ones; they are never changed
  (`MCNext`), so that the two sets of trees can share a run.
- *EvidenceRecord.* Leftovers of a killed invocation matter to the next one, and what that
  leaves to a third. Two contents of the source are enough to mix them.
- *AuditPipeline.* A form feed before two calls shifts their lines; a text of three lines is the
  shortest in which a shifted call has a marker of its own. Two findings are the fewest with an order;
  two changes let a marker move away and back, or a file and the date change. The pairs cover every row of the tables, since
  nothing relates three findings.
- *Inventory.* Two manifests are the fewest that can disagree on a name, be read in either order, or
  fail one after the other; a manifest holds nothing, one name, a name in two spellings beside
  another for the same library, or a crypto library no call names, or raises. Two calls of a line
  have one identity and two libraries, and identities differ in file, line and purpose. Manifests
  change while they are read; before that a change is another manifest to begin with.
- *NamesAtRunTime.* An import, something that rebinds the name or takes a type from it, a block
  that changes the order in which they are met or run, and the call: four statements. Two modules
  and two classes of one of them tell a resolution by full name from one by module, and a right one
  from a wrong one; `key` is made, annotated, passed or imported, directly or by a constructor, and a
  third name, `open`, can be what it is made from without being bound. One
  call of a function is enough, since its locals do not outlive it.
- *ReleaseChain.* A merge needs three commits, and a stale recording one commit before it.
  Source 3 differs from 1 in documentation the fingerprint does not bind, 4 in the benchmark
  inputs, which it does. The benchmarks are symmetric.
- *ReleaseArtifacts.* What an invocation finds is left by one before it, killed or complete, of the
  same version or another; two contents of a package tell a right digest from a stale one. One
  validation is enough, since it changes nothing.
- *ReleaseGate.* Two events let a tree be edited and edited back, or a fault meet an edit. Two
  sources, of which one fails a check of the tree and one of the wheel, tell which source a check has
  met. A corpus has up to two labels and two findings, with equal and different keys, under a right
  migration table and three wrong ones, with labels of algorithms that get no plan and of a
  certificate; it is scored by a gate nobody disturbs.
- *CommandLine.* A baseline, an audit that writes, and an audit that reads what was written
  are three commands; a fourth would repeat the third. One unit whose algorithm reaches
  `--fail-on` when a document names it and one whose does not; one is suppressed at first.

**Fairness.** `Discovery`, `EvidenceRecord`, `AuditPipeline` and `CommandLine` assume weak
fairness of the program's own step: each is one thread, without locks, that waits only for
system calls and child processes, and those return (the recorder gives its children no timeout,
so for it this is an assumption on the gate and the benchmarks). `ReleaseGate` assumes it of the outer gate only: its
children have timeouts, so that nothing need be assumed of them, the gate in the copy included.
Nothing is assumed of the environment: edits, faults and kills may happen or not. `Terminates`,
`InvocationEnds`, `AuditEnds`, `GateEnds` and `CommandsEnd` rest on it. `ReleaseChain`, `ReleaseArtifacts` and `NamesAtRunTime` state safety only and have none.

Deadlock is checked everywhere: a specification that is finished says so with an action
(`Finished`, `Ended`, `Over`); the maintainer of `ReleaseChain` never runs out of moves within the bounds.

## 4. Where the code differs from what the repository says

| run | said | what the run shows |
|---|---|---|
| `discovery_vanished` | `docs/LIMITATIONS.md:23`: what disappears during enumeration is recorded | a file gone before its stat has no counter (`util.py:155`) |
| `evidence_lost` | `record_release_evidence.py:28`: existing evidence is replaced transactionally | after a kill between the renames the next invocation, which needs no `--replace-existing` then, removes the only copy before anything was rerun (line 70) |
| `audit_expired` | `docs/SUPPRESSIONS.md:19`: expired entries are not silently accepted | words after the date make it part of the reason, and the marker has no expiry (`suppression.py:12`) |
| `commands_inside` | `tests/test_cli_commands.py:126`: a baseline limits failures to new findings | results written inside the tree are findings of the next audit, which fails on code nobody touched |

Other passages the models disagree with. None has a run of its own; the model has what the code does,
and the property beside it is stated as far as the code keeps it.

| source | said | what the code does |
|---|---|---|
| `util.py:175` | `docs/LIMITATIONS.md:21`: 100 MiB of selected source bytes | the sizes of `stat` are added up; the content of files that grow may exceed it (`WithinLimits`) |
| `util.py:176` | `docs/LIMITATIONS.md:24`: no uncontrolled traceback | the final sort raises for a selected file that has become a link out of the tree (`Resolve`) |
| `suppression.py:88` | `suppression.py:91`: candidates are the finding's `start_line` and the one before | after a form feed or U+2028 markers are looked up by other numbers than the findings carry (`LineOf`) |
| `suppression.py:64` | `suppression.py:53-63`: what is wrong with the file goes to `parser_errors` | `suppressions = 5` is valid TOML and raises an uncaught `TypeError` (`ConfigRaises`) |
| `api.py:240` | `docs/RISK_MODEL.md:9`: dependency context is never fabricated | the only crypto dependency is taken for a call that names no library (`Attribution`) |
| `analyzers/python.py:246` | `docs/DETECTION_MODEL.md:14`: shadowed aliases do not become findings | unpacking, `for`, `with`, `except`, parameters, and rebindings met before the import shadow unseen (`Rebinds`) |
| `run_quantumguardbench.py:153` | `docs/PRIOR_ART_AND_DIFFERENTIATION.md:53`: signature/certificate and key-establishment/encryption are separate classes, and the benchmark fails cross-class suggestions | a certificate may get any targets (`Dangerous`) |

The recorder does not notice an edit during the hour it takes: it reads the commit first and the
fingerprint last (lines 38, 129). `MixedEvidenceShows` and the properties of `ReleaseChain` say which
of these recordings the later checks can tell, and by what. The tag check reads the manifest from
the working tree and the rest from git (`validate_release_tag.py:54`); `ReleaseChain` models it so, and
`ChecksExact` is therefore about clean checkouts.

## 5. What is proved

TLAPS checks every leaf; nothing is assumed but the constants' assumptions
(`PathsAssumption`, `TreesAssumption`, `LimitsAssumption`, `EditsAssumption`,
`RecordAssumption`, `PipelineAssumption`, `InventoryAssumption`, `ProgramsAssumption`,
`RunAssumption`, `ChainAssumption`, `ArtifactsAssumption`, `GateAssumption`, `CommandAssumption`), which say that parameters have their types (of programs,
that they are syntactically right; of documents, that absent and half-written ones differ from whole
ones; of a tree, that its paths are finitely many; of `MaxLine`, that it is not 0). The theorems hold for every tree, limit, number of files, benchmarks, commits, versions,
commands, edits, faults and kills.

- **`DiscoveryProofs`**: `TypeCorrect`, `LimitsHold`, `OnlyRegularFiles`, `SkipsJustified`,
  `EveryPathCountedOnce`, `QuietScanIsComplete`. The
  limits are tested when the file is measured and used when it is read, four calls later;
  `WithinLimits` is therefore not inductive. For the content it bounds, `Paid` says that what was kept
  is longer than what was added up by at most one file limit for each change, and that while the file
  at hand is longer than it was measured, the change that made it so is not yet spent. `Admission` is what makes it so: between the two
  the file is not decided and there is room for it at its measured size, which only the scanner
  itself could use up. `CountersAgree` needs that the lists the scanner works through are disjoint
  and name each path once (`Walked`), since a path listed twice would be counted twice; `Counting`
  then moves one path from one set to another with each counter. `QuietScanIsComplete` goes both
  ways: every outcome has the reason in the tree that the code gives it (`DirReason`, `FileReason`,
  part of `Undisturbed`), and what is reachable has been listed, for the directories listed are
  closed under `Enters` (`ReachedAreListed`).
- **`EvidenceProofs`**: `RecorderTyped`, `ReleaseNeverPartial`, `MovesOnlyComplete`,
  `EvidenceStaysInPlace`, `ScriptImplementsStore`, `MixedEvidenceAlwaysShows`,
  `InvocationAdvances` (a measure, `StepsLeft`, that every step of the script, raising ones and
  kills included, lowers: at most 17 per invocation, and 0 exactly when it is idle). The release
  directory changes by renames only, so `NeverPartial` needs that what is about to be renamed
  is complete: staging once the manifest is written, and the backup whenever a handler may put
  it back (`Staged`). `Placed` says at which steps the evidence may be in the backup only: after the
  first rename, and in the handlers, which then have their one raising step behind them. With `Asked`
  (what is about to be published was asked for, or replaces nothing) each step of the script is a
  step of `EvidenceStore` or changes nothing a reader sees. Both suppose `MaxFaults <= 1`, in each
  invocation; section 2 says what a second one does. `Traced` follows an edit through results and
  fingerprint for `MixedEvidenceShows`.
- **`PipelineProofs`**: `PipelineTyped`, `LogAlwaysAgrees`, `FindingsPartitioned`,
  `SuppressionsExact`, `TablesAlwaysAgree`. `Fresh` (before
  the decisions the log is empty and nothing is suppressed) starts the argument that log and
  statuses stay together; `Derived` (plans and HNDL are those of the final statuses) ends it.
  `DecidedExactly` compares the code's order of candidates and entries with `Exempt`, which has none:
  in an audit nothing changes under, a decided finding is suppressed exactly when it is exempt, and
  the markers and entries still to be tried are the only ones that can exempt the one at hand. Of a
  finding that is not shifted, the code's line is that of the call (`OwnLine`): before it as many
  newlines as lines have ended.
  `Rated` carries what rules, assessment and HNDL make of a finding to the end; that the copies of
  the tables then agree is a matter of every algorithm and purpose an analyzer can report
  (`ObservedHasRule`, `RulesAgree`) and of the sums of `risk.py` (`HighIsCritical`).
  With manifests and assets, of `InventorySpec`: `InventoryTyped`, `InventoryAlwaysExact`,
  `InventoryImplementsAudit`. `FoundSoFar` says of the manifests read so far what `NoneMissed` says at
  the end; the assets are made in the last step, and that each finding has one rests on `MakerExists`:
  of the findings with one identity one is last, because they are calls of one file (`Anchored`), which
  has a last line, and a line has an end (`Greatest`, used twice). `Shaped` adds that an undisturbed
  audit comes past the configuration only if that has the shape it is read as.
- **`GateProofs`**: `TypesHold`, `PassJudgesOneSource`, `DangerStaysSmall`. PASS of the outer gate
  needs PASS of the inner one, and the copy, unlike the working tree, is never edited: the checks
  the inner gate has passed are checks of one content. That every check it has come past was passed,
  failed or left out, and that what a check follows has a place before it (`FollowsEarlier`), makes
  its PASS mean all of them. `DangerStaysSmall` adds a count: labels that contradict a dangerous row
  and are met would have failed the benchmark, so they are among those the scanner missed.
- **`NameProofs`**: `NamesTyped`, `SkippedCallsNeverRun`, `ReboundNeverReported`,
  `ClearNamesResolved`. What a frame has
  still to execute lies, for every test above it that has been decided, in a branch the test
  allows (`PathInv`); functions need it too, since they are called long after the tests around
  their definition. `ReboundNeverReported` joins two orders: breadth first, an import at the head of
  the file is met before whatever is below it, so whatever rebinds the name is noted
  (`ShadowsNoted`); in the order of execution, a name means something not imported only if it is
  rebound (`OthersBound`). The premise is needed: the analyzer notes nothing when a statement
  that rebinds a name is met before its import, as `jwt = None` at top level above an `import jwt`
  in a function or a test, and it never notes that a parameter has an imported name. A call of `jwt`
  is then reported although it calls something else, against `docs/DETECTION_MODEL.md:14`.
  Nor does it note unpacking and the like, hence the premise `Noticed`.
  For `ClearNamesResolved`, `Resolved` says that the analyzer's tables are functions of the file, and
  `RunExact` that a value held under a name with one meaning is that meaning, in whatever order the
  file runs: the full dotted name the tables have for it, whether imported, made by a call or
  annotated (`Means`). Dotted names stay dotted names under what the analyzer does to them
  (`DottedNames`), so that a value that was not imported is never mistaken for one (`ValuesMade`).
- **`ChainProofs`**: `ChainTyped`, `EveryManifestTraceable`, `ChecksAlwaysExact`,
  `InputsAlwaysMeasured`. Whatever is committed,
  amended, merged and recorded, every manifest in a commit or on disk that was made without a
  change of the bound files has the fingerprint of its commit, and so has the source of each of
  its results; made with a single change, it has another. `Recording` says the same of the
  recording in progress, and the exactness of the checks follows from it.
- **`ArtifactProofs`**: `ArtifactsTyped`, `EveryManifestOfOneRun`, `OnlyOneReleaseAccepted`,
  `EveryReleaseAccepted`. No generator but the running one writes documents, so what it has written is
  still there when it reads it back (`GeneratorInv`); hence every complete manifest is of one
  invocation. What the validator has compared stays so while nothing changes (`Compared`), which
  carries that from the manifest to the files. `CleanInv` says the converse: after a generation
  nobody disturbed, packages and documents are those of its manifest.
- **`CommandProofs`**: `CommandLineTyped`, `DocumentsNewerFirst`, `VerdictsDocumented`,
  `NewHasACause`. The types need that lines stay within `MaxLine` (`Bounded`). The next two
  rest on a loop invariant: documents before the next one are this audit's and whole, those after
  it older. `NewHasACause` rests on `News`: at every moment whatever a scan would find now is in
  the baseline or recent, and while a baseline is being made, in the scan it is made from or
  touched since.

Every safety property the passing runs check is stated by one of these theorems. Model-checked only
is all liveness (`Terminates`, `InvocationEnds`, `AuditEnds`, `GateEnds`, `CommandsEnd`), since
fairness and ENABLED are out of the prover's reach; for `InvocationEnds` the measure it rests on is
proved (`InvocationAdvances`). Induction over data, and anything about
RECURSIVE operators, cannot be proved with the installed provers; no module here uses one.

What the proofs have changed in the model. `ClearNamesExact` was false as first stated, for names
nothing binds: `key = jwt()` and `key = open()` give `key` two types for the analyzer, although by
the old `OnlyImportedAs` every binding of `open` was an import of `jwt`. The runs had no third name;
now they do, and a clear name is bound somewhere. Three tables of `Policy` were CASEs with
overlapping guards, which TLC reads from the top, as the code does, but TLA+ does not; they are
IFs now. `TablesAgree` excepted findings of low confidence, which need no exception.

## 6. What is not modelled, and the plan

`PROJECT.json` ("components", "hazards") has the complete list. Reports but for their edges, data models, doctor,
the action and most validators keep no state and interleave with nothing. Next, in this order:

1. **Key classification** (`analyzers/config.py`): the lowered key compared with capitals; and
   `default_severity` against the severities of the rule database.
2. **Staged snapshot** (`validate_staged_snapshot.py`): an edit between the one test for unstaged
   changes and the comparison of files with the index.
3. **Agility** rounding, **TLS** phases, and the breakdowns and rates of the benchmark runners.
4. The **walk** of `dependencies.py` and the formats of its manifests, as `Discovery` has it for
   sources.

`NameResolution` is to be extended by `try`, loops, class bodies and the assignments
`_classify_assignment` reports; the second resolution of selected paths (`api.py:90`) belongs into
`AuditPipeline`.

Further proofs: for the other liveness properties the measure that every step of the program
lowers, as `InvocationAdvances` gives it for the recorder; and the refinements of what comes next.
