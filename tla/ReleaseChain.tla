------------------------------ MODULE ReleaseChain ------------------------------
(***************************************************************************)
(* From recorded evidence to an accepted release: the maintainer edits,    *)
(* records, commits, tags and pushes, and release_source_check.py and      *)
(* validate_release_tag.py decide whether the tag may be released.         *)
(*                                                                         *)
(* The recorder is EvidenceRecord cut to what the checks depend on: the    *)
(* moments it reads the commit, the source of each benchmark and the       *)
(* fingerprint.  A source is everything in the repository but the evidence;*)
(* the fingerprint binds a part of it, without most of the documentation.  *)
(***************************************************************************)
EXTENDS Integers, Sequences

CONSTANTS
    Sources,        \* contents of the repository outside the evidence
    Fingerprint,    \* source_sha256: what release_source_files binds of a source
    Corpus,         \* the benchmark inputs in it: what corpus_sha256 digests
    Benchmarks,     \* the result files
    Toolchains,     \* what may be installed, all # 0
    MaxCommits, MaxRecordings, MaxEdits     \* bounds

ASSUME ChainAssumption ==
    /\ Sources \subseteq Nat \ {0} /\ Sources # {}
    /\ Fingerprint \in [Sources -> Nat \ {0}]
    /\ Corpus \in [Sources -> Nat]
    /\ \A s, t \in Sources : Fingerprint[s] = Fingerprint[t] => Corpus[s] = Corpus[t]
    /\ Benchmarks # {} /\ {"source", "manifest"} \cap Benchmarks = {}
    /\ Toolchains \subseteq Nat \ {0} /\ Toolchains # {}
    /\ {MaxCommits, MaxRecordings, MaxEdits} \subseteq Nat

VARIABLES
    commits,            \* the commits of the repository, parents first
    head, main, tag,    \* of them; tag is 0 until there is one
    source, evidence,   \* on disk; evidence is benchmarks/releases/<version>
    tools,              \* installed
    recorder,           \* a running record_release_evidence.py
    recordings, edits

repository == <<commits, head, main, tag>>
disk == <<source, evidence, tools>>
vars == <<repository, disk, recorder, recordings, edits>>

\* A result names its run, since it holds timings no other run repeats, and the
\* source it measured; run 0 is no file.  A manifest has the commit, the
\* fingerprint, and the digest of each result; commit 0 is no file.  `moves`
\* is history: how often what is bound changed during the recording.
NoResult == [run |-> 0, source |-> 0]
NoManifest == [commit |-> 0, sha |-> 0, result |-> [b \in Benchmarks |-> NoResult],
               tools |-> 0, moves |-> 0]
NoEvidence == [manifest |-> NoManifest, result |-> [b \in Benchmarks |-> NoResult]]

Idle == [pc |-> "idle", commit |-> 0, todo |-> {},
         result |-> [b \in Benchmarks |-> NoResult], moves |-> 0]

Clean == source = commits[head].source
WorktreeClean == Clean /\ evidence = commits[head].evidence

Init ==
    /\ source \in Sources /\ evidence = NoEvidence /\ tools \in Toolchains
    /\ commits = <<[parents |-> <<>>, source |-> source, evidence |-> evidence]>>
    /\ head = 1 /\ main = 1 /\ tag = 0
    /\ recorder = Idle
    /\ recordings = 0 /\ edits = 0

-----------------------------------------------------------------------------
(***************************************************************************)
(* The recorder.  It gives up when a gate or a benchmark fails.            *)
(***************************************************************************)
FaultyStartRecording ==     \* a dirty source is recorded too
    /\ recorder.pc = "idle" /\ recordings < MaxRecordings
    /\ recordings' = recordings + 1
    /\ recorder' = [Idle EXCEPT !.pc = "bench", !.commit = head, !.todo = Benchmarks]
    /\ UNCHANGED <<repository, disk, edits>>

StartRecording ==
    /\ recorder.pc = "idle" /\ recordings < MaxRecordings
    /\ Clean
    /\ recordings' = recordings + 1
    /\ recorder' = [Idle EXCEPT !.pc = "bench", !.commit = head, !.todo = Benchmarks]
    /\ UNCHANGED <<repository, disk, edits>>

Measure ==
    /\ recorder.pc = "bench"
    /\ \E b \in recorder.todo :
          recorder' = [recorder EXCEPT !.todo = @ \ {b},
              !.result[b] = [run |-> recordings, source |-> source],
              !.pc = IF recorder.todo = {b} THEN "manifest" ELSE "bench"]
    /\ UNCHANGED <<repository, disk, recordings, edits>>

Publish ==
    /\ recorder.pc = "manifest"
    /\ evidence' =
        [manifest |-> [commit |-> recorder.commit, sha |-> Fingerprint[source],
                       result |-> recorder.result, tools |-> tools,
                       moves |-> recorder.moves],
         result |-> recorder.result]
    /\ recorder' = Idle
    /\ UNCHANGED <<repository, source, tools, recordings, edits>>

FaultyGiveUp ==              \* the results so far are left behind
    /\ recorder.pc # "idle" /\ recorder' = [recorder EXCEPT !.pc = "idle"]
    /\ UNCHANGED <<repository, disk, recordings, edits>>

GiveUp ==
    /\ recorder.pc # "idle" /\ recorder' = Idle
    /\ UNCHANGED <<repository, disk, recordings, edits>>

-----------------------------------------------------------------------------
(***************************************************************************)
(* The maintainer and git.                                                 *)
(***************************************************************************)

\* The source on disk becomes s; a running recorder does not notice.
Becomes(s) ==
    /\ source' = s
    /\ recorder' = IF recorder.pc # "idle" /\ Fingerprint[s] # Fingerprint[source]
                   THEN [recorder EXCEPT !.moves = @ + 1] ELSE recorder

Edit == edits < MaxEdits /\ edits' = edits + 1

EditSource ==
    /\ Edit
    /\ \E s \in Sources \ {source} : Becomes(s)
    /\ UNCHANGED <<repository, evidence, tools>>

\* git checkout <c> -- <one evidence file>
RestoreFile ==
    /\ Edit
    /\ \E c \in DOMAIN commits :
        \/ evidence' = [evidence EXCEPT !.manifest = commits[c].evidence.manifest]
        \/ \E b \in Benchmarks :
              evidence' = [evidence EXCEPT !.result[b] = commits[c].evidence.result[b]]
    /\ UNCHANGED <<repository, source, tools, recorder>>

UpgradeTools ==
    /\ Edit
    /\ tools' \in Toolchains \ {tools}
    /\ UNCHANGED <<repository, source, evidence, recorder>>

Checkout ==
    /\ Edit /\ WorktreeClean
    /\ \E c \in DOMAIN commits \ {head} :
          head' = c /\ Becomes(commits[c].source) /\ evidence' = commits[c].evidence
    /\ UNCHANGED <<commits, main, tag, tools>>

\* A commit of some of what is on disk: on top of HEAD, in place of it, or
\* merging another commit.
Commit ==
    /\ Len(commits) < MaxCommits
    /\ \E parents \in {<<head>>, commits[head].parents}
                      \cup {<<head, c>> : c \in DOMAIN commits \ {head}},
          s \in {source, commits[head].source},
          e \in {evidence, commits[head].evidence} :
        /\ parents = <<head>> => [source |-> s, evidence |-> e] #
              [source |-> commits[head].source, evidence |-> commits[head].evidence]
        /\ commits' = Append(commits, [parents |-> parents, source |-> s, evidence |-> e])
    /\ head' = Len(commits')
    /\ UNCHANGED <<main, tag, disk, recorder, edits>>

Tag ==
    /\ tag' \in DOMAIN commits \ {tag}
    /\ UNCHANGED <<commits, head, main, disk, recorder, edits>>

Push ==
    /\ main' = head /\ main # head
    /\ UNCHANGED <<commits, head, tag, disk, recorder, edits>>

Maintainer ==
    /\ EditSource \/ RestoreFile \/ UpgradeTools \/ Checkout \/ Commit \/ Tag \/ Push
    /\ UNCHANGED recordings

Next == StartRecording \/ Measure \/ Publish \/ GiveUp \/ Maintainer

Spec == Init /\ [][Next]_vars

-----------------------------------------------------------------------------
(***************************************************************************)
(* The two checks, of a repository nobody changes while they run.  Both    *)
(* collect failures and go on, so the order of their tests does not matter.*)
(***************************************************************************)

FaultySourceCheckPasses ==      \* the corpora are not among the compared keys
    LET m == evidence.manifest IN
    /\ m.commit # 0
    /\ m.sha = Fingerprint[source]
    /\ evidence.result = m.result
    /\ m.tools = tools

\* release_source_check.py --evidence: fingerprint and corpora of the manifest
\* are those of the disk, the results have the digests it lists, and the
\* toolchain is the one installed.
SourceCheckPasses ==
    LET m == evidence.manifest IN
    /\ m.commit # 0
    /\ m.sha = Fingerprint[source]
    /\ \A b \in Benchmarks : Corpus[m.result[b].source] = Corpus[source]
    /\ evidence.result = m.result
    /\ m.tools = tools

\* The files in which two commits differ.
Differs(c, p) ==
    (IF c.source # p.source THEN {"source"} ELSE {})
      \cup (IF c.evidence.manifest # p.evidence.manifest THEN {"manifest"} ELSE {})
      \cup {b \in Benchmarks : c.evidence.result[b] # p.evidence.result[b]}

\* git diff-tree shows nothing for a merge or a root commit.
Changed(c) ==
    IF Len(commits[c].parents) = 1 THEN Differs(commits[c], commits[commits[c].parents[1]])
    ELSE {}

Ancestors ==
    LET up[c \in DOMAIN commits] ==
          {c} \cup UNION {up[commits[c].parents[i]] : i \in DOMAIN commits[c].parents}
    IN  up

FaultyTagCheckPasses ==         \* other files may change in the tag's commit
    /\ tag = head
    /\ evidence.manifest.commit # 0
    /\ commits[head].parents = <<evidence.manifest.commit>>
    /\ {"manifest"} \cup Benchmarks \subseteq Changed(head)
    /\ head \in Ancestors[main]

\* validate_release_tag.py: the manifest is the one on disk, parents and changes
\* are those of HEAD.
TagCheckPasses ==
    /\ tag = head
    /\ evidence.manifest.commit # 0
    /\ commits[head].parents = <<evidence.manifest.commit>>
    /\ Changed(head) = {"manifest"} \cup Benchmarks
    /\ head \in Ancestors[main]

Accepted == SourceCheckPasses /\ TagCheckPasses

-----------------------------------------------------------------------------
(***************************************************************************)
(* Properties                                                              *)
(***************************************************************************)
Result == [run : Nat, source : Sources \cup {0}]
Manifest == [commit : Nat, sha : Nat, result : [Benchmarks -> Result],
             tools : Toolchains \cup {0}, moves : Nat]
Evidence == [manifest : Manifest, result : [Benchmarks -> Result]]

\* Commits come after their parents, and no recording leaves results behind
\* (record_release_evidence.py:174).
TypeOK ==
    /\ commits \in Seq([parents : Seq(Nat), source : Sources, evidence : Evidence])
    /\ head \in DOMAIN commits /\ main \in DOMAIN commits
    /\ tag \in DOMAIN commits \cup {0}
    /\ \A c \in DOMAIN commits : \A i \in DOMAIN commits[c].parents :
          commits[c].parents[i] \in 1..(c - 1)
    /\ source \in Sources /\ evidence \in Evidence /\ tools \in Toolchains
    /\ recorder \in [pc : {"idle", "bench", "manifest"}, commit : Nat,
                     todo : SUBSET Benchmarks, result : [Benchmarks -> Result], moves : Nat]
    /\ recorder.pc = "idle" => recorder = Idle
    /\ recordings \in Nat /\ edits \in Nat

\* What a release promises, said of the tag alone: its commit adds the whole of
\* one recording to one commit, and that recording was made on that commit,
\* whose source did not change until the fingerprint was taken.
Genuine(c) ==
    LET e == commits[c].evidence
        p == e.manifest.commit
    IN  /\ p # 0 /\ commits[c].parents = <<p>>
        /\ commits[c].source = commits[p].source
        /\ Differs(commits[c], commits[p]) = {"manifest"} \cup Benchmarks
        /\ e.manifest.moves = 0
        /\ e.result = e.manifest.result
        /\ \A b \in Benchmarks :
              Fingerprint[e.result[b].source] = Fingerprint[commits[c].source]

\* In a clean checkout the two checks accept the tag exactly when it is genuine,
\* checked out, pushed, and recorded with the toolchain at hand, though one
\* looks at the disk, the other at git, and neither at the source a result was
\* measured on.  A source that was changed and changed back during a recording
\* is beyond them (release_source_check.py:169-189, validate_release_tag.py:46-97).
ChecksExact ==
    WorktreeClean /\ evidence.manifest.moves <= 1 =>
        (Accepted <=> /\ tag = head /\ tag \in Ancestors[main]
                      /\ Genuine(tag) /\ evidence.manifest.tools = tools)

\* However often the source changed during a recording, the results of a tag
\* that is accepted in a clean checkout were measured on the benchmark inputs of
\* its source: the manifest takes their digests from the results, not from the
\* disk (record_release_evidence.py:131-133, release_source_check.py:184-186).
InputsMeasured ==
    WorktreeClean /\ Accepted =>
        \A b \in Benchmarks :
            Corpus[commits[tag].evidence.result[b].source] = Corpus[commits[tag].source]

\* What the checks rely on: a manifest lists results that exist; one made
\* without a change of the bound files has the fingerprint of its commit
\* everywhere, one made with a single change has another.
Traceable(m) ==
    m.commit # 0 =>
        /\ m.commit \in DOMAIN commits
        /\ \A b \in Benchmarks : m.result[b].source \in Sources
        /\ LET bound == Fingerprint[commits[m.commit].source]
           IN  /\ m.moves = 0 => m.sha = bound /\ \A b \in Benchmarks :
                                    Fingerprint[m.result[b].source] = bound
               /\ m.moves = 1 => m.sha # bound

ManifestsTraceable ==
    /\ Traceable(evidence.manifest)
    /\ \A c \in DOMAIN commits : Traceable(commits[c].evidence.manifest)
=============================================================================
