--------------------------- MODULE DiscoveryProofs ---------------------------
(***************************************************************************)
(* Proofs about Discovery, for every tree, every limit and any number of   *)
(* changes by other processes: the limits, what the counters say, and that *)
(* a scan nobody disturbs selects every file it should.                    *)
(*                                                                         *)
(* The limits are tested against the size of the stat, several system      *)
(* calls before the file is appended.  WithinLimits alone is therefore not *)
(* inductive: Admission carries the result of the test to the append, and  *)
(* says that the file at hand is still undecided, which LimitSkipsJustified*)
(* needs when that file is measured; Paid says that a file that is no      *)
(* longer as it was measured has used up one change made by others.        *)
(***************************************************************************)
EXTENDS Discovery, SequenceTheorems, FiniteSetTheorems, TLAPS

\* What the files loop relies on between its steps: the file it is at has not
\* been decided, and from the stat to the end of the read there is room for it
\* under every limit, at the size the stat returned (util.py:151-175).
AtFile   == pc \in {"stat", "recheck", "open", "fstat", "read"}
Admitted == pc \in {"recheck", "open", "fstat", "read"}

Admission ==
    /\ \A f \in filesTodo : outcome[f] = "listed"
    /\ AtFile => path \in Files \ filesTodo /\ outcome[path] = "listed"
    /\ Admitted => /\ Len(selected) < MaxFiles
                   /\ measured[path] <= MaxFileBytes
                   /\ total + measured[path] <= MaxTotalBytes
    /\ pc = "read" => fd.kind = "file"

\* The part of WithinLimits the accounting of the scan alone is about.
Bounded ==
    /\ Len(selected) <= MaxFiles
    /\ total <= MaxTotalBytes
    /\ \A i \in DOMAIN selected : selected[i].bytes <= MaxFileBytes

-----------------------------------------------------------------------------
(***************************************************************************)
(* Type correctness                                                        *)
(***************************************************************************)

\* The two sorts of paths and the constants over them.
LEMMA PathFacts ==
    /\ Root \in Paths /\ Dirs \subseteq Paths /\ Files \subseteq Paths
    /\ Dirs \cap Files = {} /\ Sources \subseteq Files
    /\ \A p \in Paths : Parent[p] \in Dirs
  BY PathsAssumption DEF Paths

\* Counting a path keeps the types of the counters and of the history.
LEMMA SkipType ==
    ASSUME TypeOK, NEW p \in Paths, NEW c \in Counters, Skip(p, c)
    PROVE  skipped' \in [Counters -> Nat] /\ outcome' \in [Paths -> Outcomes]
  BY DEF TypeOK, Skip, Outcomes

\* So does leaving it without a trace.
LEMMA PassType ==
    ASSUME TypeOK, NEW p \in Paths, NEW o \in Outcomes, Pass(p, o)
    PROVE  skipped' \in [Counters -> Nat] /\ outcome' \in [Paths -> Outcomes]
  BY DEF TypeOK, Pass

\* Giving up on a file closes the descriptor and counts the file.
LEMMA GiveUpType ==
    ASSUME TypeOK, path \in Files, NEW c \in Counters, GiveUp(c)
    PROVE  /\ skipped' \in [Counters -> Nat] /\ outcome' \in [Paths -> Outcomes]
           /\ fd' \in Descriptor /\ pc' \in ScanPC
  BY PathFacts, SkipType DEF GiveUp, Closed, Descriptor, ScanPC

\* The initial state has the types of TypeOK.
LEMMA TypeInit == Init => TypeOK
<1> SUFFICES ASSUME Init PROVE TypeOK
  OBVIOUS
<1>1. file \in [Files -> FileNode] /\ dir \in [Dirs -> DirNode]
  BY TreesAssumption DEF Init
<1>2. edits \in 0..MaxEdits
  BY EditsAssumption DEF Init
<1>3. fd \in Descriptor
  BY DEF Init, Closed, Descriptor
<1>4. skipped \in [Counters -> Nat] /\ outcome \in [Paths -> Outcomes]
  BY DEF Init, ZeroCounters, Outcomes
<1>5. /\ stack \in Seq(Dirs) /\ retained \in Seq(Dirs) /\ selected \in Seq(Selected)
      /\ keys \in Seq(Nat)
  BY DEF Init
<1> QED
  BY <1>1, <1>2, <1>3, <1>4, <1>5, PathFacts DEF Init, TypeOK, ScanPC

\* Sorting a list keeps its length and its members.
LEMMA ReorderedType ==
    ASSUME NEW S, NEW s \in Seq(S), NEW order \in [DOMAIN s -> DOMAIN s]
    PROVE  Reordered(s, order) \in Seq(S) /\ Len(Reordered(s, order)) = Len(s)
  BY DEF Reordered

\* What appending does to the length and the members of a list.
LEMMA AppendFacts ==
    ASSUME NEW S, NEW s \in Seq(S), NEW x \in S
    PROVE  /\ Len(Append(s, x)) = Len(s) + 1
           /\ \A i \in DOMAIN Append(s, x) :
                  \/ Append(s, x)[i] = x
                  \/ i \in DOMAIN s /\ Append(s, x)[i] = s[i]
<1>1. /\ Len(Append(s, x)) = Len(s) + 1 /\ Append(s, x)[Len(s) + 1] = x
      /\ \A i \in 1..Len(s) : Append(s, x)[i] = s[i]
  BY AppendProperties
<1>2. DOMAIN s = 1..Len(s) /\ DOMAIN Append(s, x) = 1..(Len(s) + 1) /\ Len(s) \in Nat
  BY <1>1
<1>3. \A i \in 1..(Len(s) + 1) : i = Len(s) + 1 \/ i \in 1..Len(s)
  BY <1>2
<1> QED
  BY <1>1, <1>2, <1>3

\* Every step of the scanner keeps the types.
LEMMA TypeScan == TypeOK /\ Admission /\ Scan => TypeOK'
<1> SUFFICES ASSUME TypeOK, Admission, Scan PROVE TypeOK'
  OBVIOUS
<1> USE PathFacts
<1>1. CASE CheckRoot
  <2>1. <<Root>> \in Seq(Dirs)
    BY PathsAssumption
  <2>2. pc' \in {"walk", "raised"} /\ stack' \in {<<Root>>, stack}
    BY <1>1 DEF CheckRoot
  <2> QED
    BY <1>1, <2>1, <2>2 DEF CheckRoot, TypeOK, ScanPC, treeVars
<1>2. CASE Walk
  <2> DEFINE d == Head(stack)
  <2>1. d \in Dirs /\ stack' \in Seq(Dirs) /\ retained' \in Seq(Dirs)
    BY <1>2 DEF Walk, TypeOK
  <2>2. CASE ScandirOk(d)
    <3>1. /\ dirsTodo' \subseteq Dirs /\ filesTodo' \subseteq Files
          /\ pc' \in ScanPC /\ skipped' = skipped
      BY <2>2 DEF ScandirOk, ScanPC
    <3>2. outcome' \in [Paths -> Outcomes]
      BY <2>2 DEF ScandirOk, TypeOK, Outcomes
    <3> QED
      BY <1>2, <2>1, <3>1, <3>2 DEF Walk, TypeOK, treeVars
  <2>3. CASE ScandirFailed(d)
    <3>1. skipped' \in [Counters -> Nat] /\ outcome' \in [Paths -> Outcomes]
      BY <2>1, <2>3, SkipType DEF ScandirFailed, Counters
    <3> QED
      BY <1>2, <2>1, <2>3, <3>1 DEF Walk, ScandirFailed, TypeOK, treeVars
  <2> QED
    BY <1>2, <2>2, <2>3 DEF Walk
<1>3. CASE Return
  BY <1>3 DEF Return, TypeOK, ScanPC, treeVars, walkVars
<1>4. CASE DirsDone
  BY <1>4 DEF DirsDone, TypeOK, ScanPC, treeVars, walkVars
<1>5. CASE FilesDone
  BY <1>5 DEF FilesDone, TypeOK, ScanPC, treeVars
<1>6. ASSUME NEW e \in Dirs, ClassifyDir(e) PROVE TypeOK'
  <2>1. retained' \in Seq(Dirs) /\ dirsTodo' \subseteq Dirs
    <3>1. retained' \in {retained, Append(retained, e)}
      BY <1>6 DEF ClassifyDir
    <3>2. dirsTodo' = dirsTodo \ {e}
      BY <1>6 DEF ClassifyDir
    <3>3. Append(retained, e) \in Seq(Dirs)
      BY DEF TypeOK
    <3> QED
      BY <3>1, <3>2, <3>3 DEF TypeOK
  <2>2. skipped' \in [Counters -> Nat] /\ outcome' \in [Paths -> Outcomes]
    BY <1>6, SkipType, PassType DEF ClassifyDir, Counters, Outcomes
  <2> QED
    BY <1>6, <2>1, <2>2 DEF ClassifyDir, TypeOK, treeVars
<1>7. ASSUME NEW f \in Files, Lstat(f) PROVE TypeOK'
  <2>1. skipped' \in [Counters -> Nat] /\ outcome' \in [Paths -> Outcomes]
    BY <1>7, SkipType, PassType DEF Lstat, Counters, Outcomes, TypeOK
  <2> QED
    BY <1>7, <2>1 DEF Lstat, TypeOK, ScanPC, treeVars
<1>8. CASE Stat
  <2>1. path \in Files /\ file[path].size \in Nat
    BY <1>8 DEF Stat, Admission, AtFile, TypeOK, FileNode
  <2>2. Limit(file[path].size) \in Counters \cup {"none"}
    BY DEF Limit, Counters
  <2>3. skipped' \in [Counters -> Nat] /\ outcome' \in [Paths -> Outcomes]
    <3>1. path \in Paths /\ "permission" \in Counters /\ "vanished" \in Outcomes
      BY <2>1, PathFacts DEF Counters, Outcomes
    <3>2. CASE Skip(path, "permission")
      BY <3>1, <3>2, SkipType
    <3>3. CASE Pass(path, "vanished")
      BY <3>1, <3>3, PassType
    <3>4. CASE UNCHANGED <<skipped, outcome>>
      BY <3>4 DEF TypeOK
    <3>5. CASE Limit(file[path].size) # "none" /\ Skip(path, Limit(file[path].size))
      BY <2>2, <3>1, <3>5, SkipType
    <3> QED
      BY <1>8, <3>2, <3>3, <3>4, <3>5 DEF Stat, StatFails, StatOk
  <2>4. measured' \in [Files -> Nat] /\ pc' \in ScanPC
    BY <1>8, <2>1 DEF Stat, StatFails, StatOk, TypeOK, ScanPC
  <2> QED
    BY <1>8, <2>3, <2>4 DEF Stat, TypeOK, treeVars, walkVars
<1>9. CASE Recheck
  <2>1. path \in Files
    BY <1>9 DEF Recheck, Admission, AtFile
  <2>2. /\ skipped' \in [Counters -> Nat] /\ outcome' \in [Paths -> Outcomes]
        /\ fd' \in Descriptor /\ pc' \in ScanPC
    BY <1>9, <2>1, GiveUpType DEF Recheck, Counters, TypeOK, ScanPC
  <2> QED
    BY <1>9, <2>2 DEF Recheck, TypeOK, treeVars, walkVars
<1>10. CASE Open
  <2>1. path \in Files /\ file[path] \in FileNode
    BY <1>10 DEF Open, Admission, AtFile, TypeOK
  <2>2. /\ skipped' \in [Counters -> Nat] /\ outcome' \in [Paths -> Outcomes]
        /\ fd' \in Descriptor /\ pc' \in ScanPC
    <3>1. CASE GiveUp("permission") \/ GiveUp("binary")
      BY <2>1, <3>1, GiveUpType DEF Counters
    <3>2. CASE ~(GiveUp("permission") \/ GiveUp("binary"))
      <4>1. /\ file[path].kind \in {"file", "other"}
            /\ fd' = [kind |-> file[path].kind, size |-> file[path].size,
                      text |-> file[path].text, linked |-> TRUE]
            /\ pc' = "fstat" /\ UNCHANGED <<skipped, outcome>>
        BY <1>10, <2>1, <3>2 DEF Open, FileNode
      <4>2. fd' \in Descriptor
        BY <2>1, <4>1 DEF FileNode, Descriptor
      <4> QED
        BY <4>1, <4>2 DEF TypeOK, ScanPC
    <3> QED
      BY <3>1, <3>2
  <2> QED
    BY <1>10, <2>2 DEF Open, TypeOK, treeVars, walkVars
<1>11. CASE Fstat
  <2>1. path \in Files
    BY <1>11 DEF Fstat, Admission, AtFile
  <2>2. /\ skipped' \in [Counters -> Nat] /\ outcome' \in [Paths -> Outcomes]
        /\ fd' \in Descriptor /\ pc' \in ScanPC
    BY <1>11, <2>1, GiveUpType DEF Fstat, Counters, TypeOK, ScanPC
  <2> QED
    BY <1>11, <2>2 DEF Fstat, TypeOK, treeVars, walkVars
<1>12. CASE Read
  <2>1. path \in Files /\ measured[path] \in Nat
    BY <1>12 DEF Read, Admission, AtFile, TypeOK
  <2>2. CASE fd.size > MaxFileBytes \/ ~fd.text
    <3>1. GiveUp("binary") /\ UNCHANGED <<selected, total, content>>
      BY <1>12, <2>2 DEF Read
    <3>2. /\ skipped' \in [Counters -> Nat] /\ outcome' \in [Paths -> Outcomes]
          /\ fd' \in Descriptor /\ pc' \in ScanPC
      BY <2>1, <3>1, GiveUpType DEF Counters
    <3> QED
      BY <1>12, <3>1, <3>2 DEF Read, TypeOK, treeVars, walkVars
  <2>3. CASE ~(fd.size > MaxFileBytes \/ ~fd.text)
    <3> DEFINE item == [path |-> path, bytes |-> fd.size, kind |-> fd.kind]
    <3>1. item \in Selected
      BY <2>1 DEF TypeOK, Descriptor, Selected
    <3>2. /\ selected' = Append(selected, item) /\ total' = total + measured[path]
          /\ content' = content + fd.size
          /\ Pass(path, "selected") /\ pc' = "files" /\ fd' = Closed
      BY <1>12, <2>3 DEF Read
    <3>3. selected' \in Seq(Selected) /\ total' \in Nat /\ content' \in Nat
      BY <2>1, <3>1, <3>2 DEF TypeOK, Descriptor
    <3>4. skipped' \in [Counters -> Nat] /\ outcome' \in [Paths -> Outcomes]
      BY <2>1, <3>2, PassType DEF Outcomes
    <3>5. fd' \in Descriptor /\ pc' \in ScanPC
      BY <3>2 DEF Closed, Descriptor, ScanPC
    <3> QED
      BY <1>12, <3>3, <3>4, <3>5 DEF Read, TypeOK, treeVars, walkVars
  <2> QED
    BY <2>2, <2>3
<1>13. CASE Resolve
  <2>1. /\ keys \in Seq(Nat) /\ selected \in Seq(Selected)
        /\ Len(keys) + 1 \in DOMAIN selected
    BY <1>13 DEF Resolve, TypeOK
  <2>2. selected[Len(keys) + 1].path \in Paths
    <3>1. selected[Len(keys) + 1] \in Selected
      BY <2>1
    <3> QED
      BY <3>1 DEF Selected
  <2>3. \A p \in Paths : Append(keys, Rank[p]) \in Seq(Nat)
    BY <2>1, PathsAssumption
  <2>4. keys' \in Seq(Nat) /\ pc' \in ScanPC
    BY <1>13, <2>1, <2>2, <2>3 DEF Resolve, ScanPC
  <2> QED
    BY <1>13, <2>4 DEF Resolve, TypeOK, treeVars, walkVars
<1>14. CASE Sort
  <2>1. DOMAIN keys = DOMAIN selected /\ selected \in Seq(Selected)
    BY <1>14 DEF Sort, TypeOK
  <2>2. PICK order \in [DOMAIN selected -> DOMAIN selected] :
           selected' = Reordered(selected, order)
    BY <1>14, <2>1 DEF Sort, SortOrders, Injection
  <2>3. selected' \in Seq(Selected)
    BY <2>1, <2>2, ReorderedType
  <2> QED
    BY <1>14, <2>3 DEF Sort, TypeOK, ScanPC, treeVars, walkVars
<1> QED
  BY <1>1, <1>2, <1>3, <1>4, <1>5, <1>6, <1>7, <1>8, <1>9, <1>10, <1>11, <1>12,
     <1>13, <1>14 DEF Scan

\* A node whose fields are changed is still a node.
LEMMA FileNodeRewrite ==
    ASSUME NEW n \in FileNode, NEW s \in Nat, NEW t \in BOOLEAN
    PROVE  [n EXCEPT !.size = s, !.text = t] \in FileNode
  BY Zenon DEF FileNode

\* The same for its kind and its permission.
LEMMA FileNodeChange ==
    ASSUME NEW n \in FileNode
    PROVE  /\ [n EXCEPT !.readable = FALSE] \in FileNode
           /\ [n EXCEPT !.kind = "gone"] \in FileNode
           /\ \A k \in {"file", "link", "other", "gone"} : [n EXCEPT !.kind = k] \in FileNode
  BY Zenon DEF FileNode

\* And for directories.
LEMMA DirNodeChange ==
    ASSUME NEW n \in DirNode
    PROVE  /\ [n EXCEPT !.list = FALSE] \in DirNode
           /\ [n EXCEPT !.search = FALSE] \in DirNode
           /\ [n EXCEPT !.kind = "gone"] \in DirNode
  BY DEF DirNode

\* So does every change made by another process.
LEMMA TypeEnvironment == TypeOK /\ Environment => TypeOK'
<1> SUFFICES ASSUME TypeOK, Environment PROVE TypeOK'
  OBVIOUS
<1> USE PathFacts
<1>1. edits' \in 0..MaxEdits
  BY EditsAssumption DEF Environment, Edit, TypeOK
<1> DEFINE TreeType == /\ file \in [Files -> FileNode] /\ dir \in [Dirs -> DirNode]
                       /\ fd \in Descriptor
<1>2. TreeType'
  <2>1. ASSUME NEW f \in Files, NEW size \in Sizes, NEW text \in BOOLEAN,
               Rewrite(f, size, text)
        PROVE  TreeType'
    <3>1. size \in Nat
      BY EditsAssumption
    <3>2. file' \in [Files -> FileNode]
      <4> DEFINE n == [file[f] EXCEPT !.size = size, !.text = text]
      <4>1. n \in FileNode
        BY <3>1, FileNodeRewrite DEF TypeOK
      <4>2. file' = [file EXCEPT ![f] = n]
        BY <2>1 DEF Rewrite, TypeOK
      <4> QED
        BY <4>1, <4>2 DEF TypeOK
    <3>3. fd' \in Descriptor
      BY <2>1, <3>1 DEF Rewrite, TypeOK, Descriptor
    <3> QED
      BY <2>1, <3>2, <3>3 DEF Rewrite, TypeOK
  <2>2. ASSUME NEW f \in Files, NEW k \in {"file", "link", "other", "gone"},
               Replace(f, k)
        PROVE  TreeType'
    <3>1. file' \in [Files -> FileNode]
      <4>1. [file[f] EXCEPT !.kind = k] \in FileNode
        BY FileNodeChange DEF TypeOK
      <4>2. file' = [file EXCEPT ![f] = [file[f] EXCEPT !.kind = k]]
        BY <2>2 DEF Replace, TypeOK
      <4> QED
        BY <4>1, <4>2 DEF TypeOK
    <3>2. fd' \in Descriptor
      BY <2>2 DEF Replace, TypeOK, Descriptor
    <3> QED
      BY <2>2, <3>1, <3>2 DEF Replace, TypeOK
  <2>3. ASSUME NEW p \in Paths, Chmod(p) PROVE TreeType'
    <3>1. file' \in [Files -> FileNode]
      <4>1. CASE file' = file
        BY <4>1 DEF TypeOK
      <4>2. CASE p \in Files /\ file' = [file EXCEPT ![p].readable = FALSE]
        <5>1. [file[p] EXCEPT !.readable = FALSE] \in FileNode
          BY <4>2, FileNodeChange DEF TypeOK
        <5>2. file' = [file EXCEPT ![p] = [file[p] EXCEPT !.readable = FALSE]]
          BY <4>2 DEF TypeOK
        <5> QED
          BY <5>1, <5>2 DEF TypeOK
      <4> QED
        BY <2>3, <4>1, <4>2 DEF Chmod
    <3>2. dir' \in [Dirs -> DirNode]
      <4>1. CASE dir' = dir
        BY <4>1 DEF TypeOK
      <4>2. CASE /\ p \in Dirs
                 /\ \/ dir' = [dir EXCEPT ![p].list = FALSE]
                    \/ dir' = [dir EXCEPT ![p].search = FALSE]
        <5>1. /\ [dir[p] EXCEPT !.list = FALSE] \in DirNode
              /\ [dir[p] EXCEPT !.search = FALSE] \in DirNode
          BY <4>2, DirNodeChange DEF TypeOK
        <5>2. \/ dir' = [dir EXCEPT ![p] = [dir[p] EXCEPT !.list = FALSE]]
              \/ dir' = [dir EXCEPT ![p] = [dir[p] EXCEPT !.search = FALSE]]
          BY <4>2 DEF TypeOK
        <5>3. PICK n \in DirNode : dir' = [dir EXCEPT ![p] = n]
          BY <5>1, <5>2
        <5> QED
          BY <4>2, <5>3 DEF TypeOK
      <4> QED
        BY <2>3, <4>1, <4>2 DEF Chmod
    <3> QED
      BY <2>3, <3>1, <3>2 DEF Chmod, TypeOK
  <2>4. ASSUME NEW d \in Dirs, RemoveDir(d) PROVE TreeType'
    <3>1. file' \in [Files -> FileNode]
      <4>1. \A f \in Files : [file[f] EXCEPT !.kind = "gone"] \in FileNode
        BY FileNodeChange DEF TypeOK
      <4> QED
        BY <2>4, <4>1 DEF RemoveDir, TypeOK
    <3>2. dir' \in [Dirs -> DirNode]
      <4>1. [dir[d] EXCEPT !.kind = "gone"] \in DirNode
        BY DirNodeChange DEF TypeOK
      <4>2. dir' = [dir EXCEPT ![d] = [dir[d] EXCEPT !.kind = "gone"]]
        BY <2>4 DEF RemoveDir, TypeOK
      <4> QED
        BY <4>1, <4>2 DEF TypeOK
    <3>3. fd' \in Descriptor
      BY <2>4 DEF RemoveDir, TypeOK, Descriptor
    <3> QED
      BY <3>1, <3>2, <3>3
  <2> QED
    BY <2>1, <2>2, <2>3, <2>4 DEF Environment
<1> QED
  BY <1>1, <1>2 DEF Environment, TypeOK, scanVars, walkVars

-----------------------------------------------------------------------------
(***************************************************************************)
(* The inductive invariant                                                 *)
(***************************************************************************)

Inv == TypeOK /\ Admission /\ Bounded /\ RegularFilesOnly /\ LimitSkipsJustified

\* Nothing is selected, listed or at hand in the initial state.
LEMMA InvInit == Init => Inv
<1> SUFFICES ASSUME Init PROVE Inv
  OBVIOUS
<1>1. /\ selected = <<>> /\ total = 0 /\ filesTodo = {} /\ pc = "start"
      /\ \A f \in Files : outcome[f] = "unseen"
  BY PathFacts DEF Init
<1>2. Admission
  BY <1>1 DEF Admission, AtFile, Admitted
<1>3. Bounded
  BY <1>1, LimitsAssumption DEF Bounded
<1>4. RegularFilesOnly
  BY <1>1 DEF RegularFilesOnly
<1>5. LimitSkipsJustified
  BY <1>1 DEF LimitSkipsJustified
<1> QED
  BY <1>2, <1>3, <1>4, <1>5, TypeInit DEF Inv

\* A change of the tree touches none of what the invariant relates.
LEMMA InvEnvironment == Inv /\ Environment => Inv'
<1> SUFFICES ASSUME Inv, Environment PROVE Inv'
  OBVIOUS
<1>1. UNCHANGED <<pc, filesTodo, path, measured, selected, total, outcome>>
  BY DEF Environment, scanVars, walkVars
<1>2. fd'.kind = fd.kind
  BY DEF Inv, TypeOK, Environment, Rewrite, Replace, Chmod, RemoveDir, Descriptor
<1>3. Admission'
  BY <1>1, <1>2 DEF Inv, Admission, AtFile, Admitted
<1>4. Bounded' /\ RegularFilesOnly' /\ LimitSkipsJustified'
  BY <1>1 DEF Inv, Bounded, RegularFilesOnly, LimitSkipsJustified
<1> QED
  BY <1>3, <1>4, TypeEnvironment DEF Inv

\* When only the history of one path changes, to something that is no limit
\* skip, the limits and the justification of earlier skips still hold.
LEMMA SameSelection ==
    ASSUME Inv, UNCHANGED <<selected, total, measured>>,
           \A f \in Files : outcome'[f] \in {"file_limit", "byte_limit", "too_large"}
                              => outcome'[f] = outcome[f]
    PROVE  Bounded' /\ RegularFilesOnly' /\ LimitSkipsJustified'
  BY DEF Inv, Bounded, RegularFilesOnly, LimitSkipsJustified

\* The steps of the walk.
LEMMA InvWalk ==
    Inv /\ (CheckRoot \/ Walk \/ DirsDone \/ FilesDone \/ \E e \in Dirs : ClassifyDir(e))
        => Inv'
<1> SUFFICES ASSUME Inv,
                    CheckRoot \/ Walk \/ DirsDone \/ FilesDone
                      \/ \E e \in Dirs : ClassifyDir(e)
             PROVE  Inv'
  OBVIOUS
<1> USE PathFacts
<1>1. TypeOK'
  BY TypeScan DEF Inv, Scan
<1>2. /\ UNCHANGED <<selected, total, measured>>
      /\ pc' \notin {"stat", "recheck", "open", "fstat", "read"}
  BY DEF CheckRoot, Walk, ScandirOk, ScandirFailed, DirsDone, FilesDone,
         ClassifyDir, Inv, TypeOK, walkVars
<1>3. /\ \A f \in Files : outcome'[f] \in {"file_limit", "byte_limit", "too_large"}
                             => outcome'[f] = outcome[f]
      /\ \A f \in filesTodo' : outcome'[f] = "listed"
  <2>1. CASE CheckRoot \/ DirsDone \/ FilesDone
    BY <2>1 DEF CheckRoot, DirsDone, FilesDone, walkVars, Inv, Admission
  <2>2. CASE Walk
    <3>1. Head(stack) \in Dirs
      BY <2>2 DEF Walk, Inv, TypeOK
    <3>2. CASE ScandirOk(Head(stack))
      BY <3>1, <3>2 DEF ScandirOk
    <3>3. CASE ScandirFailed(Head(stack))
      BY <3>1, <3>3 DEF ScandirFailed, Skip, Inv, Admission, TypeOK
    <3> QED
      BY <2>2, <3>2, <3>3 DEF Walk
  <2>3. CASE \E e \in Dirs : ClassifyDir(e)
    BY <2>3 DEF ClassifyDir, Skip, Pass, Inv, Admission, TypeOK
  <2> QED
    BY <2>1, <2>2, <2>3
<1>4. Admission'
  BY <1>2, <1>3 DEF Admission, AtFile, Admitted
<1> QED
  BY <1>1, <1>2, <1>3, <1>4, SameSelection DEF Inv

\* Taking the next file of a directory.
LEMMA InvLstat == ASSUME Inv, NEW f \in Files, Lstat(f) PROVE Inv'
<1> USE PathFacts
<1>1. TypeOK'
  BY TypeScan DEF Inv, Scan
<1>2. /\ UNCHANGED <<selected, total, measured>>
      /\ f \in filesTodo /\ filesTodo' = filesTodo \ {f} /\ outcome[f] = "listed"
  BY DEF Lstat, IsFirst, Inv, Admission
<1>3. \A g \in Files : g # f => outcome'[g] = outcome[g]
  BY DEF Lstat, Skip, Pass, Inv, TypeOK
<1>4. \/ pc' = "files" /\ outcome'[f] \in {"permission", "symlink", "extension"}
      \/ pc' = "stat" /\ path' = f /\ outcome' = outcome
  BY DEF Lstat, Skip, Pass, Inv, TypeOK
<1>5. Admission'
  BY <1>2, <1>3, <1>4 DEF Inv, Admission, AtFile, Admitted, TypeOK
<1>6. \A g \in Files : outcome'[g] \in {"file_limit", "byte_limit", "too_large"}
                           => outcome'[g] = outcome[g]
  BY <1>3, <1>4
<1> QED
  BY <1>1, <1>2, <1>5, <1>6, SameSelection DEF Inv

\* Measuring it: either it is skipped for the limit that is exceeded, or it is
\* admitted with room for the size just measured.
LEMMA InvStat == Inv /\ Stat => Inv'
<1> SUFFICES ASSUME Inv, Stat PROVE Inv'
  OBVIOUS
<1> USE PathFacts
<1> DEFINE size == file[path].size
<1>1. TypeOK'
  BY TypeScan DEF Inv, Scan
<1>2. /\ path \in Files \ filesTodo /\ outcome[path] = "listed" /\ size \in Nat
      /\ UNCHANGED <<selected, total, filesTodo, path>>
  BY DEF Stat, Inv, Admission, AtFile, TypeOK, FileNode, walkVars
<1>3. \A g \in Files : g # path => outcome'[g] = outcome[g] /\ measured'[g] = measured[g]
  BY DEF Stat, StatFails, StatOk, Skip, Pass, Inv, TypeOK
<1>4. Bounded' /\ RegularFilesOnly'
  BY <1>2 DEF Inv, Bounded, RegularFilesOnly
<1>5. CASE StatFails
  <2>1. pc' = "files" /\ outcome'[path] \in {"permission", "vanished"} /\ measured' = measured
    BY <1>2, <1>5 DEF StatFails, Skip, Pass, Inv, TypeOK
  <2>2. Admission'
    BY <1>2, <1>3, <2>1 DEF Inv, Admission, AtFile, Admitted, TypeOK
  <2>3. LimitSkipsJustified'
    BY <1>2, <1>3, <2>1 DEF Inv, LimitSkipsJustified
  <2> QED
    BY <1>1, <1>4, <2>2, <2>3 DEF Inv
<1>6. CASE StatOk
  <2>1. measured'[path] = size
    BY <1>2, <1>6 DEF StatOk, Inv, TypeOK
  <2>2. CASE Limit(size) = "none"
    <3>1. /\ pc' = "recheck" /\ outcome' = outcome
          /\ size <= MaxFileBytes /\ Len(selected) < MaxFiles
          /\ total + size <= MaxTotalBytes
      BY <1>2, <1>6, <2>2, LimitsAssumption DEF StatOk, Limit, Inv, TypeOK
    <3>2. Admission'
      BY <1>2, <2>1, <3>1 DEF Inv, Admission, AtFile, Admitted
    <3>3. LimitSkipsJustified'
      BY <1>2, <1>3, <3>1 DEF Inv, LimitSkipsJustified
    <3> QED
      BY <1>1, <1>4, <3>2, <3>3 DEF Inv
  <2>3. CASE Limit(size) # "none"
    <3>1. pc' = "files" /\ outcome'[path] = Limit(size)
      BY <1>2, <1>6, <2>3 DEF StatOk, Skip, Inv, TypeOK
    <3>2. Admission'
      BY <1>2, <1>3, <3>1 DEF Inv, Admission, AtFile, Admitted, TypeOK
    <3>3. /\ Limit(size) = "too_large" => size > MaxFileBytes
          /\ Limit(size) = "file_limit" => Len(selected) = MaxFiles
          /\ Limit(size) = "byte_limit" => total + size > MaxTotalBytes
      BY LimitsAssumption DEF Limit, Inv, Bounded, TypeOK
    <3>4. LimitSkipsJustified'
      BY <1>2, <1>3, <2>1, <3>1, <3>3 DEF Inv, LimitSkipsJustified
    <3> QED
      BY <1>1, <1>4, <3>2, <3>4 DEF Inv
  <2> QED
    BY <2>2, <2>3
<1> QED
  BY <1>5, <1>6 DEF Stat

\* Opening it: each step either gives the file up or keeps it admitted, and
\* only a regular file is handed to the read.
LEMMA InvOpening == Inv /\ (Recheck \/ Open \/ Fstat) => Inv'
<1> SUFFICES ASSUME Inv, Recheck \/ Open \/ Fstat PROVE Inv'
  OBVIOUS
<1> USE PathFacts
<1>1. TypeOK'
  BY TypeScan DEF Inv, Scan
<1>2. /\ path \in Files \ filesTodo /\ Admitted
      /\ UNCHANGED <<selected, total, measured, filesTodo, path>>
  BY DEF Recheck, Open, Fstat, Inv, Admission, AtFile, Admitted, walkVars
<1>3. CASE GiveUp("permission") \/ GiveUp("binary")
  <2>1. /\ pc' = "files" /\ outcome'[path] \in {"permission", "binary"}
        /\ \A g \in Files : g # path => outcome'[g] = outcome[g]
    BY <1>2, <1>3 DEF GiveUp, Skip, Inv, TypeOK
  <2>2. Admission'
    BY <1>2, <2>1 DEF Inv, Admission, AtFile, Admitted, TypeOK
  <2>3. \A g \in Files : outcome'[g] \in {"file_limit", "byte_limit", "too_large"}
                             => outcome'[g] = outcome[g]
    BY <2>1
  <2> QED
    BY <1>1, <1>2, <2>2, <2>3, SameSelection DEF Inv
<1>4. CASE ~(GiveUp("permission") \/ GiveUp("binary"))
  <2>1. /\ pc' \in {"open", "fstat", "read"} /\ outcome' = outcome
        /\ pc' = "read" => fd'.kind = "file"
    BY <1>4 DEF Recheck, Open, Fstat
  <2>2. Admission'
    BY <1>2, <2>1 DEF Inv, Admission, AtFile, Admitted
  <2> QED
    BY <1>1, <1>2, <2>1, <2>2, SameSelection DEF Inv
<1> QED
  BY <1>3, <1>4

\* Reading it.  The bytes appended were bounded again after the stat; the
\* total grows by the size that was admitted.
LEMMA InvRead == Inv /\ Read => Inv'
<1> SUFFICES ASSUME Inv, Read PROVE Inv'
  OBVIOUS
<1> USE PathFacts
<1>1. TypeOK'
  BY TypeScan DEF Inv, Scan
<1>2. /\ path \in Files \ filesTodo /\ outcome[path] = "listed" /\ fd.kind = "file"
      /\ Len(selected) < MaxFiles /\ total + measured[path] <= MaxTotalBytes
      /\ UNCHANGED <<measured, filesTodo, path>> /\ pc' = "files"
  BY DEF Read, GiveUp, Inv, Admission, AtFile, Admitted, walkVars
<1>3. /\ outcome'[path] \in {"binary", "selected"}
      /\ \A g \in Files : g # path => outcome'[g] = outcome[g]
  BY <1>2 DEF Read, GiveUp, Skip, Pass, Inv, TypeOK
<1>4. Admission'
  BY <1>2, <1>3 DEF Inv, Admission, AtFile, Admitted, TypeOK
<1>5. CASE fd.size > MaxFileBytes \/ ~fd.text
  <2>1. UNCHANGED <<selected, total, measured>>
    BY <1>2, <1>5 DEF Read
  <2>2. \A g \in Files : outcome'[g] \in {"file_limit", "byte_limit", "too_large"}
                             => outcome'[g] = outcome[g]
    BY <1>3
  <2> QED
    BY <1>1, <1>4, <2>1, <2>2, SameSelection DEF Inv
<1>6. CASE ~(fd.size > MaxFileBytes \/ ~fd.text)
  <2> DEFINE item == [path |-> path, bytes |-> fd.size, kind |-> fd.kind]
  <2>1. selected' = Append(selected, item) /\ total' = total + measured[path]
    BY <1>6 DEF Read
  <2>2. item.bytes <= MaxFileBytes /\ item.kind = "file"
    BY <1>2, <1>6, LimitsAssumption DEF Inv, TypeOK, Descriptor
  <2>3. /\ Len(selected') = Len(selected) + 1
        /\ \A i \in DOMAIN selected' : 
              \/ selected'[i] = item
              \/ i \in DOMAIN selected /\ selected'[i] = selected[i]
    <3>1. selected \in Seq(Selected) /\ item \in Selected
      BY <1>2 DEF Inv, TypeOK, Descriptor, Selected
    <3> HIDE DEF item
    <3> QED
      BY <2>1, <3>1, AppendFacts
  <2>4. Bounded'
    <3>1. Len(selected') <= MaxFiles
      BY <1>2, <2>3, LimitsAssumption DEF Inv, TypeOK
    <3>2. total' <= MaxTotalBytes
      BY <1>2, <2>1
    <3> HIDE DEF item
    <3>3. \A i \in DOMAIN selected' : selected'[i].bytes <= MaxFileBytes
      BY <2>2, <2>3 DEF Inv, Bounded
    <3> QED
      BY <3>1, <3>2, <3>3 DEF Bounded
  <2>5. RegularFilesOnly'
    BY <2>2, <2>3 DEF Inv, RegularFilesOnly
  <2>6. LimitSkipsJustified'
    <3> SUFFICES ASSUME NEW f \in Files
                 PROVE  /\ outcome'[f] = "file_limit" => Len(selected') = MaxFiles
                        /\ outcome'[f] = "byte_limit" => total' + measured'[f] > MaxTotalBytes
                        /\ outcome'[f] = "too_large"  => measured'[f] > MaxFileBytes
      BY DEF LimitSkipsJustified
    <3>1. CASE f = path
      BY <1>3, <3>1
    <3>2. CASE f # path
      BY <1>2, <1>3, <2>1, <3>2, LimitsAssumption DEF Inv, LimitSkipsJustified, TypeOK
    <3> QED
      BY <3>1, <3>2
  <2> QED
    BY <1>1, <1>4, <2>4, <2>5, <2>6 DEF Inv
<1> QED
  BY <1>5, <1>6

\* Resolving the paths only decides the order.
LEMMA InvReturn == Inv /\ (Return \/ Resolve) => Inv'
<1> SUFFICES ASSUME Inv, Return \/ Resolve PROVE Inv'
  OBVIOUS
<1>1. TypeOK'
  BY TypeScan DEF Inv, Scan
<1>2. /\ UNCHANGED <<selected, total, measured, outcome, filesTodo>>
      /\ pc' \in {"sort", "raised"}
  BY DEF Return, Resolve, walkVars
<1>3. Admission'
  BY <1>2 DEF Inv, Admission, AtFile, Admitted
<1> QED
  BY <1>1, <1>2, <1>3, SameSelection DEF Inv

\* Sorting the result keeps its length and its members.
LEMMA InvSort == Inv /\ Sort => Inv'
<1> SUFFICES ASSUME Inv, Sort PROVE Inv'
  OBVIOUS
<1>1. TypeOK'
  BY TypeScan DEF Inv, Scan
<1>2. PICK order \in [DOMAIN selected -> DOMAIN selected] :
         selected' = Reordered(selected, order)
  <2>1. DOMAIN keys = DOMAIN selected
    BY DEF Sort, Inv, TypeOK
  <2> QED
    BY <2>1 DEF Sort, SortOrders, Injection
<1>3. /\ Len(selected') = Len(selected)
      /\ \A i \in DOMAIN selected' : \E j \in DOMAIN selected : selected'[i] = selected[j]
  BY <1>2, ReorderedType DEF Reordered, Inv, TypeOK
<1>4. UNCHANGED <<total, measured, outcome, filesTodo, path, fd>> /\ pc' = "done"
  BY DEF Sort, walkVars
<1>5. Admission'
  BY <1>4 DEF Inv, Admission, AtFile, Admitted
<1>6. Bounded' /\ RegularFilesOnly' /\ LimitSkipsJustified'
  BY <1>3, <1>4 DEF Inv, Bounded, RegularFilesOnly, LimitSkipsJustified
<1> QED
  BY <1>1, <1>5, <1>6 DEF Inv

\* Inv is an inductive invariant of the specification.
LEMMA Invariance == Spec => []Inv
<1>1. Inv /\ [Next]_vars => Inv'
  <2>1. CASE Scan /\ Inv
    BY <2>1, InvWalk, InvLstat, InvStat, InvOpening, InvRead, InvReturn, InvSort
       DEF Scan
  <2>2. CASE Environment /\ Inv
    BY <2>2, InvEnvironment
  <2>3. CASE UNCHANGED vars /\ Inv
    BY <2>3 DEF vars, Inv, TypeOK, Admission, AtFile, Admitted, Bounded,
       RegularFilesOnly, LimitSkipsJustified
  <2> QED
    BY <2>1, <2>2, <2>3 DEF Next, Finished
<1> QED
  BY <1>1, InvInit, PTL DEF Spec

-----------------------------------------------------------------------------
(***************************************************************************)
(* Theorems                                                                *)
(***************************************************************************)

\* Type correctness of the scanner, its environment and its history.
THEOREM TypeCorrect == Spec => []TypeOK
<1>1. Inv => TypeOK
  BY DEF Inv
<1> QED
  BY <1>1, Invariance, PTL

\* What is still paid for: the text that was read is longer than the sizes added
\* up for it by at most max_file_bytes for each change made by others, and when
\* the file at hand is not what was measured, one change has not been used yet.
Grown == IF pc \in {"recheck", "open"} THEN file[path].size # measured[path]
                                        ELSE fd.size # measured[path]

Paid ==
    /\ content <= total + edits * MaxFileBytes
    /\ Admitted /\ Grown => content + MaxFileBytes <= total + edits * MaxFileBytes

\* One more change buys one more max_file_bytes.
LEMMA OneMore ==
    ASSUME NEW n \in Nat, NEW b \in Nat
    PROVE  n * b \in Nat /\ (n + 1) * b = n * b + b
  OBVIOUS

\* The step of another process: whatever it does to the file at hand, it has one
\* change more to its account.
LEMMA PaidEnvironment == Inv /\ Paid /\ Environment => Paid'
<1> SUFFICES ASSUME Inv, Paid, Environment PROVE Paid'
  OBVIOUS
<1> DEFINE bound == edits * MaxFileBytes
<1>1. /\ edits \in Nat /\ MaxFileBytes \in Nat /\ content \in Nat /\ total \in Nat
      /\ edits' = edits + 1 /\ UNCHANGED <<content, total>>
  BY LimitsAssumption, EditsAssumption DEF Inv, TypeOK, Environment, Edit, scanVars
<1>2. bound \in Nat /\ bound' = bound + MaxFileBytes
  BY <1>1, OneMore
<1>3. content <= total + bound
  BY DEF Paid
<1> HIDE DEF bound
<1>4. content' + MaxFileBytes <= total' + bound' /\ content' <= total' + bound'
  BY <1>1, <1>2, <1>3
<1> QED
  BY <1>4 DEF Paid, bound

\* A step of the scanner spends at most what is there.
LEMMA PaidScan == Inv /\ Paid /\ Scan => Paid'
<1> SUFFICES ASSUME Inv, Paid, Scan PROVE Paid'
  OBVIOUS
<1> USE PathFacts
<1> DEFINE bound == edits * MaxFileBytes
<1>1. edits' = edits
  BY DEF Scan, CheckRoot, Walk, Return, DirsDone, FilesDone, ClassifyDir, Lstat, Stat,
         Recheck, Open, Fstat, Read, Resolve, Sort, treeVars
<1>2. bound \in Nat /\ bound' = bound /\ content \in Nat /\ total \in Nat
      /\ MaxFileBytes \in Nat
  BY <1>1, OneMore, LimitsAssumption, EditsAssumption DEF Inv, TypeOK
<1>3. content <= total + bound /\ (Admitted /\ Grown => content + MaxFileBytes <= total + bound)
  BY DEF Paid
<1> HIDE DEF bound
<1>4. CASE Read /\ ~(fd.size > MaxFileBytes \/ ~fd.text)
  <2>1. /\ Admitted /\ pc' = "files" /\ content' = content + fd.size
        /\ total' = total + measured[path] /\ pc = "read"
    BY <1>4 DEF Read, Admitted
  <2>2. /\ fd.size \in Nat /\ fd.size <= MaxFileBytes
        /\ measured[path] \in Nat
    BY <1>2, <1>4 DEF Read, Inv, TypeOK, Descriptor, Admission, AtFile
  <2>3. content' <= total' + bound
    <3>1. CASE fd.size = measured[path]
      BY <1>2, <1>3, <2>1, <2>2, <3>1
    <3>2. CASE fd.size # measured[path]
      <4>1. content + MaxFileBytes <= total + bound
        BY <1>3, <2>1, <3>2 DEF Grown
      <4> QED
        BY <1>2, <2>1, <2>2, <4>1
    <3> QED
      BY <3>1, <3>2
  <2> QED
    BY <1>2, <2>1, <2>3 DEF Paid, Admitted, bound
<1>5. CASE ~(Read /\ ~(fd.size > MaxFileBytes \/ ~fd.text))
  <2>1. UNCHANGED <<content, total>>
    BY <1>5 DEF Scan, CheckRoot, Walk, Return, DirsDone, FilesDone, ClassifyDir, Lstat,
           Stat, Recheck, Open, Fstat, Read, Resolve, Sort
  <2>2. Admitted' /\ Grown' => Admitted /\ Grown
    <3>1. CASE Stat
      <4>1. /\ path \in Files /\ UNCHANGED <<path, file>>
            /\ \/ pc' = "files"
               \/ pc' = "recheck" /\ measured' = [measured EXCEPT ![path] = file[path].size]
        BY <3>1 DEF Stat, StatFails, StatOk, Inv, Admission, AtFile, walkVars, treeVars
      <4> QED
        BY <4>1 DEF Admitted, Grown, Inv, TypeOK
    <3>2. CASE Recheck
      BY <3>2 DEF Recheck, GiveUp, Admitted, Grown, treeVars
    <3>3. CASE Open
      BY <3>3 DEF Open, GiveUp, Admitted, Grown, treeVars
    <3>4. CASE Fstat
      BY <3>4 DEF Fstat, GiveUp, Admitted, Grown
    <3>5. CASE ~(Stat \/ Recheck \/ Open \/ Fstat)
      <4>1. ~Admitted'
        BY <1>5, <3>5 DEF Scan, CheckRoot, Walk, ScandirOk, ScandirFailed, Return,
           DirsDone, FilesDone, ClassifyDir, Lstat, Read, GiveUp, Resolve, Sort, Admitted
      <4> QED
        BY <4>1
    <3> QED
      BY <3>1, <3>2, <3>3, <3>4, <3>5
  <2> QED
    BY <1>2, <1>3, <2>1, <2>2 DEF Paid, bound
<1> QED
  BY <1>4, <1>5

\* Paid holds at every step.
LEMMA PaidInvariance == Spec => []Paid
<1>1. Init => Paid
  BY OneMore, LimitsAssumption DEF Init, Paid, Admitted
<1>2. Inv /\ Paid /\ [Next]_vars => Paid'
  <2>1. CASE UNCHANGED vars /\ Paid
    BY <2>1 DEF vars, Paid, Admitted, Grown
  <2> QED
    BY <2>1, PaidEnvironment, PaidScan DEF Next, Finished
<1> QED
  BY <1>1, <1>2, Invariance, PTL DEF Spec

\* The file, size and total limits hold at every step of a scan, whatever other
\* processes do to the files between the system calls (util.py:157-175); and the
\* content that was read is within the total but for one max_file_bytes at most
\* for each change they made.
THEOREM LimitsHold == Spec => []WithinLimits
<1>1. Inv /\ Paid => WithinLimits
  <2> SUFFICES ASSUME Inv, Paid PROVE WithinLimits
    OBVIOUS
  <2>1. /\ content \in Nat /\ total \in Nat /\ MaxTotalBytes \in Nat
        /\ edits * MaxFileBytes \in Nat
    BY OneMore, LimitsAssumption, EditsAssumption DEF Inv, TypeOK
  <2>2. total <= MaxTotalBytes /\ content <= total + edits * MaxFileBytes
    BY DEF Inv, Bounded, Paid
  <2>3. content <= MaxTotalBytes + edits * MaxFileBytes
    <3> DEFINE bound == edits * MaxFileBytes
    <3> HIDE DEF bound
    <3>1. content <= MaxTotalBytes + bound
      BY <2>1, <2>2 DEF bound
    <3> QED
      BY <3>1 DEF bound
  <2> QED
    BY <2>3 DEF Inv, Bounded, WithinLimits
<1> QED
  BY <1>1, Invariance, PaidInvariance, PTL

\* Only regular files are ever read, although links and FIFOs may take the
\* place of a file after each test of it (util.py:38-49).
THEOREM OnlyRegularFiles == Spec => []RegularFilesOnly
<1>1. Inv => RegularFilesOnly
  BY DEF Inv
<1> QED
  BY <1>1, Invariance, PTL

\* Every file skipped for a limit exceeds that limit in the final result too
\* (util.py:157-165).
THEOREM SkipsJustified == Spec => []LimitSkipsJustified
<1>1. Inv => LimitSkipsJustified
  BY DEF Inv
<1> QED
  BY <1>1, Invariance, PTL

-----------------------------------------------------------------------------
(***************************************************************************)
(* The walk: no path is met twice, and what is listed or kept is not lost  *)
(***************************************************************************)

\* The directories that wait to be listed, by the history: the kept ones, and
\* the root until its turn comes.
Pending ==
    With("retained") \cup
    (IF outcome[Root] = "unseen" /\ pc \notin {"start", "raised"} THEN {Root} ELSE {})

InLoop == pc = "dirs" \/ pc = "files" \/ AtFile

\* The history and the loops of os.walk agree.  A path is only met when its
\* directory has been listed, so it cannot be met again through another one;
\* the stack and retained_dirs hold exactly what waits to be listed, once; and
\* a path is "listed" exactly as long as a loop still holds it (util.py:112-150).
Walked ==
    /\ IsInjective(stack)
    /\ InLoop => IsInjective(retained) /\ ToSet(retained) \cap ToSet(stack) = {}
    /\ \A p \in Paths \ {Root} :
           outcome[p] # "unseen" => outcome[Parent[p]] = "scanned"
    /\ Pending = ToSet(stack) \cup (IF InLoop THEN ToSet(retained) ELSE {})
    /\ With("listed") = dirsTodo \cup filesTodo \cup (IF AtFile THEN {path} ELSE {})
    /\ Root \notin dirsTodo
    /\ pc # "dirs" => dirsTodo = {}
    /\ ~InLoop => filesTodo = {}
    /\ pc = "start" => stack = <<>> /\ outcome[Root] = "unseen"
    /\ pc \in {"sort", "done"} => stack = <<>>

\* Taking the first element of a list without repetitions removes it.
LEMMA TailEntries ==
    ASSUME NEW S, NEW s \in Seq(S), s # <<>>, IsInjective(s)
    PROVE  /\ Head(s) \in ToSet(s) /\ IsInjective(Tail(s))
           /\ ToSet(Tail(s)) = ToSet(s) \ {Head(s)}
<1> DEFINE t == Tail(s)
<1>1. /\ Len(s) \in Nat /\ Len(s) >= 1 /\ DOMAIN s = 1..Len(s) /\ Head(s) = s[1]
      /\ DOMAIN t = 1..(Len(s) - 1) /\ \A i \in 1..(Len(s) - 1) : t[i] = s[i + 1]
  BY HeadTailProperties, EmptySeq
<1>2. \A i, j \in 1..Len(s) : s[i] = s[j] => i = j
  BY <1>1 DEF IsInjective
<1>3. \A i \in 1..Len(s) : i = 1 \/ (i - 1 \in 1..(Len(s) - 1) /\ s[i] = t[i - 1])
  BY <1>1
<1>4. \A i \in 1..(Len(s) - 1) : i + 1 \in 1..Len(s) /\ i + 1 # 1
  BY <1>1
<1> HIDE DEF t
<1>5. IsInjective(t)
  BY <1>1, <1>2, <1>4 DEF IsInjective
<1>6. \A x : x \in ToSet(t) <=> x \in ToSet(s) /\ x # s[1]
  <2>1. ASSUME NEW i \in DOMAIN t PROVE t[i] \in ToSet(s) /\ t[i] # s[1]
    BY <1>1, <1>2, <1>4 DEF ToSet
  <2>2. ASSUME NEW i \in DOMAIN s, s[i] # s[1] PROVE s[i] \in ToSet(t)
    <3>1. i - 1 \in DOMAIN t /\ s[i] = t[i - 1]
      BY <1>1, <1>3, <2>2
    <3> QED
      BY <3>1 DEF ToSet
  <2> QED
    BY <2>1, <2>2 DEF ToSet
<1>7. s[1] \in ToSet(s)
  BY <1>1 DEF ToSet
<1> QED
  BY <1>1, <1>5, <1>6, <1>7 DEF t

\* Appending a new element keeps a list without repetitions.
LEMMA AppendEntries ==
    ASSUME NEW S, NEW s \in Seq(S), NEW x \in S, IsInjective(s), x \notin ToSet(s)
    PROVE  /\ IsInjective(Append(s, x))
           /\ ToSet(Append(s, x)) = ToSet(s) \cup {x}
<1> DEFINE t == Append(s, x)
<1>1. /\ Len(s) \in Nat /\ DOMAIN s = 1..Len(s) /\ DOMAIN t = 1..(Len(s) + 1)
      /\ t[Len(s) + 1] = x /\ \A i \in 1..Len(s) : t[i] = s[i]
  BY AppendProperties
<1>2. \A i \in 1..(Len(s) + 1) : i = Len(s) + 1 \/ i \in 1..Len(s)
  BY <1>1
<1>3. \A i \in 1..Len(s) : i \in 1..(Len(s) + 1) /\ s[i] # x
  BY <1>1 DEF ToSet
<1>4. Len(s) + 1 \in 1..(Len(s) + 1)
  BY <1>1
<1> HIDE DEF t
<1>5. IsInjective(t)
  BY <1>1, <1>2, <1>3 DEF IsInjective
<1>6. ToSet(t) = ToSet(s) \cup {x}
  BY <1>1, <1>2, <1>3, <1>4 DEF ToSet
<1> QED
  BY <1>5, <1>6 DEF t

\* So does putting another one without a common element before it.
LEMMA ConcatEntries ==
    ASSUME NEW S, NEW s \in Seq(S), NEW t \in Seq(S),
           IsInjective(s), IsInjective(t), ToSet(s) \cap ToSet(t) = {}
    PROVE  IsInjective(s \o t) /\ ToSet(s \o t) = ToSet(s) \cup ToSet(t)
<1> DEFINE u == s \o t
<1>1. /\ Len(s) \in Nat /\ Len(t) \in Nat /\ DOMAIN s = 1..Len(s) /\ DOMAIN t = 1..Len(t)
      /\ DOMAIN u = 1..(Len(s) + Len(t))
      /\ \A i \in 1..(Len(s) + Len(t)) : u[i] = IF i <= Len(s) THEN s[i] ELSE t[i - Len(s)]
  BY ConcatProperties
<1>2. \A i \in 1..(Len(s) + Len(t)) :
          \/ i \in 1..Len(s) /\ u[i] = s[i]
          \/ i - Len(s) \in 1..Len(t) /\ u[i] = t[i - Len(s)]
  BY <1>1
<1>3. /\ \A i \in 1..Len(s) : i \in DOMAIN u /\ u[i] = s[i]
      /\ \A i \in 1..Len(t) : i + Len(s) \in DOMAIN u /\ u[i + Len(s)] = t[i]
  BY <1>1
<1> HIDE DEF u
<1>4. \A x : x \in ToSet(u) <=> x \in ToSet(s) \/ x \in ToSet(t)
  <2>1. ASSUME NEW i \in DOMAIN u PROVE u[i] \in ToSet(s) \/ u[i] \in ToSet(t)
    BY <1>1, <1>2 DEF ToSet
  <2>2. ASSUME NEW i \in DOMAIN s PROVE s[i] \in ToSet(u)
    BY <1>1, <1>3 DEF ToSet
  <2>3. ASSUME NEW i \in DOMAIN t PROVE t[i] \in ToSet(u)
    BY <1>1, <1>3 DEF ToSet
  <2> QED
    BY <2>1, <2>2, <2>3 DEF ToSet
<1>5. \A i \in 1..Len(s), j \in 1..Len(t) : s[i] # t[j]
  BY <1>1 DEF ToSet
<1>6. IsInjective(u)
  <2> SUFFICES ASSUME NEW i \in DOMAIN u, NEW j \in DOMAIN u, u[i] = u[j]
               PROVE  i = j
    BY DEF IsInjective
  <2>1. CASE i \in 1..Len(s) /\ j \in 1..Len(s)
    BY <1>1, <1>3, <2>1 DEF IsInjective
  <2>2. CASE i - Len(s) \in 1..Len(t) /\ j - Len(s) \in 1..Len(t)
    <3>1. u[i] = t[i - Len(s)] /\ u[j] = t[j - Len(s)]
      BY <1>1, <2>2
    <3>2. i - Len(s) = j - Len(s)
      BY <1>1, <2>2, <3>1 DEF IsInjective
    <3> QED
      BY <1>1, <3>2
  <2> QED
    BY <1>1, <1>2, <1>5, <2>1, <2>2
<1> QED
  BY <1>4, <1>6 DEF u

\* A history that differs in one path.
LEMMA WithChange ==
    ASSUME NEW p \in Paths, NEW o, outcome \in [Paths -> Outcomes],
           outcome' = [outcome EXCEPT ![p] = o]
    PROVE  \A c : With(c)' = IF c = o THEN With(c) \cup {p} ELSE With(c) \ {p}
  BY DEF With

\* The directory the walk takes next waits to be listed, and nothing in it has
\* been met.
LEMMA WalkHead ==
    ASSUME Inv, Walked, pc = "walk", stack # <<>>
    PROVE  /\ Head(stack) \in Dirs /\ outcome[Head(stack)] \in {"unseen", "retained"}
           /\ outcome[Head(stack)] = "unseen" => Head(stack) = Root
           /\ \A p \in Paths \ {Root} : Parent[p] = Head(stack)
                  => p # Head(stack) /\ outcome[p] = "unseen"
<1> DEFINE d == Head(stack)
<1> USE PathFacts
<1>1. d \in ToSet(stack) /\ d \in Dirs
  BY TailEntries DEF Walked, Inv, TypeOK
<1>2. d \in Pending
  BY <1>1 DEF Walked
<1>3. outcome[d] = "retained" \/ (outcome[d] = "unseen" /\ d = Root)
  BY <1>2 DEF Pending, With
<1> HIDE DEF d
<1>4. \A p \in Paths \ {Root} : Parent[p] = d => p # d /\ outcome[p] = "unseen"
  BY <1>1, <1>3 DEF Walked
<1> QED
  BY <1>1, <1>3, <1>4 DEF d

\* Listing the next directory, or failing to.
LEMMA WalkedWalk == Inv /\ Walked /\ Walk => Walked'
<1> SUFFICES ASSUME Inv, Walked, Walk PROVE Walked'
  OBVIOUS
<1> USE PathFacts
<1> DEFINE d == Head(stack)
<1>1. /\ pc = "walk" /\ stack # <<>> /\ stack' = Tail(stack) /\ retained' = <<>>
      /\ UNCHANGED path
      /\ ScandirOk(d) \/ ScandirFailed(d)
  BY DEF Walk
<1>2. /\ d \in Dirs /\ outcome[d] \in {"unseen", "retained"}
      /\ outcome[d] = "unseen" => d = Root
      /\ \A p \in Paths \ {Root} : Parent[p] = d => p # d /\ outcome[p] = "unseen"
  BY <1>1, WalkHead
<1>3. /\ IsInjective(stack') /\ ToSet(stack') = ToSet(stack) \ {d}
      /\ IsInjective(retained') /\ ToSet(retained') = {}
  <2>1. stack \in Seq(Dirs)
    BY DEF Inv, TypeOK
  <2>2. IsInjective(stack') /\ ToSet(stack') = ToSet(stack) \ {d}
    BY <1>1, <2>1, TailEntries DEF Walked
  <2>3. DOMAIN <<>> = {}
    OBVIOUS
  <2> QED
    BY <1>1, <2>2, <2>3 DEF IsInjective, ToSet
<1>4. Pending = ToSet(stack) /\ With("listed") = {} /\ dirsTodo = {} /\ filesTodo = {}
  BY <1>1 DEF Walked, InLoop, AtFile
<1> HIDE DEF d
<1>5. CASE ScandirOk(d)
  <2> DEFINE E == dirsTodo' \cup filesTodo'
  <2>1. /\ E \subseteq Paths \ {Root} /\ \A p \in E : Parent[p] = d
        /\ outcome' = [p \in Paths |-> IF p = d THEN "scanned"
                                       ELSE IF p \in E THEN "listed" ELSE outcome[p]]
        /\ pc' = "dirs" /\ Root \notin dirsTodo'
    BY <1>5, PathsAssumption DEF ScandirOk
  <2>2. \A p \in E : p # d /\ outcome[p] = "unseen"
    BY <1>2, <2>1
  <2> HIDE DEF E
  <2>3. \A p \in Paths \ {Root} : outcome'[p] # "unseen" => outcome'[Parent[p]] = "scanned"
    <3> SUFFICES ASSUME NEW p \in Paths \ {Root}, outcome'[p] # "unseen"
                 PROVE  outcome'[Parent[p]] = "scanned"
      OBVIOUS
    <3>1. CASE p \in E
      BY <2>1, <3>1
    <3>2. CASE p \notin E
      <4>1. outcome[p] # "unseen"
        BY <1>2, <2>1, <3>2
      <4>2. outcome[Parent[p]] = "scanned" /\ Parent[p] \in Paths
        BY <4>1 DEF Walked
      <4> QED
        BY <2>1, <2>2, <4>2
    <3> QED
      BY <3>1, <3>2
  <2>4. With("retained")' = With("retained") \ {d} /\ With("listed")' = E
    BY <1>4, <2>1, <2>2 DEF With
  <2>5. Pending' = Pending \ {d}
    <3>1. (outcome'[Root] = "unseen") <=> (outcome[Root] = "unseen" /\ Root # d)
      BY <2>1
    <3> QED
      BY <1>1, <2>1, <2>4, <3>1 DEF Pending
  <2>6. InLoop' /\ ~AtFile'
    BY <2>1 DEF InLoop, AtFile
  <2> QED
    BY <1>3, <1>4, <2>1, <2>3, <2>4, <2>5, <2>6 DEF Walked, E
<1>6. CASE ScandirFailed(d)
  <2>1. PICK c \in Counters : outcome' = [outcome EXCEPT ![d] = c]
    BY <1>6 DEF ScandirFailed, Skip, Counters
  <2>2. pc' = "walk" /\ dirsTodo' = {} /\ filesTodo' = {}
    BY <1>1, <1>4, <1>6 DEF ScandirFailed
  <2>3. c \notin {"unseen", "listed", "retained", "scanned"}
    BY DEF Counters
  <2>4. outcome'[d] = c /\ \A p \in Paths : p # d => outcome'[p] = outcome[p]
    BY <1>2, <2>1 DEF Inv, TypeOK
  <2>5. \A p \in Paths \ {Root} : outcome'[p] # "unseen" => outcome'[Parent[p]] = "scanned"
    BY <1>2, <2>4 DEF Walked
  <2>6. With("retained")' = With("retained") \ {d} /\ With("listed")' = {}
    <3>1. d \in Paths /\ outcome \in [Paths -> Outcomes]
      BY <1>2 DEF Inv, TypeOK
    <3>2. \A o : With(o)' = IF o = c THEN With(o) \cup {d} ELSE With(o) \ {d}
      BY <2>1, <3>1, WithChange
    <3> QED
      BY <1>4, <2>3, <3>2
  <2>7. Pending' = Pending \ {d}
    <3>1. (outcome'[Root] = "unseen") <=> (outcome[Root] = "unseen" /\ Root # d)
      BY <2>3, <2>4
    <3> QED
      BY <1>1, <2>2, <2>6, <3>1 DEF Pending
  <2>8. ~InLoop' /\ ~AtFile'
    BY <2>2 DEF InLoop, AtFile
  <2> QED
    BY <1>3, <1>4, <2>2, <2>5, <2>6, <2>7, <2>8 DEF Walked
<1> QED
  BY <1>1, <1>5, <1>6

\* Starting the walk, leaving a loop, and the result: the history is the same
\* and the kept directories move to the stack when the files loop ends.
LEMMA WalkedControl ==
    Inv /\ Walked /\ (CheckRoot \/ DirsDone \/ FilesDone \/ Return \/ Resolve \/ Sort)
        => Walked'
<1> SUFFICES ASSUME Inv, Walked,
                    CheckRoot \/ DirsDone \/ FilesDone \/ Return \/ Resolve \/ Sort
             PROVE  Walked'
  OBVIOUS
<1> USE PathFacts
<1>1. UNCHANGED <<outcome, dirsTodo, filesTodo, path, retained>>
  BY DEF CheckRoot, DirsDone, FilesDone, Return, Resolve, Sort, walkVars
<1>2. With("retained")' = With("retained") /\ With("listed")' = With("listed")
  BY <1>1 DEF With
<1>3. CASE CheckRoot
  <2>1. /\ pc = "start" /\ stack = <<>> /\ outcome[Root] = "unseen"
        /\ \/ pc' = "walk" /\ stack' = <<Root>>
           \/ pc' = "raised" /\ stack' = stack
    BY <1>3 DEF CheckRoot, Walked
  <2>2. ToSet(<<>>) = {} /\ ToSet(<<Root>>) = {Root} /\ IsInjective(<<Root>>)
    BY DEF ToSet, IsInjective
  <2>3. Pending = With("retained") /\ Pending = {}
    BY <2>1, <2>2 DEF Pending, Walked, InLoop, AtFile
  <2>4. Pending' = ToSet(stack')
    BY <1>1, <1>2, <2>1, <2>2, <2>3 DEF Pending
  <2>5. IsInjective(stack')
    BY <2>1, <2>2 DEF Walked
  <2>6. ~InLoop /\ ~AtFile /\ ~InLoop' /\ ~AtFile'
    BY <2>1 DEF InLoop, AtFile
  <2> QED
    BY <1>1, <1>2, <2>1, <2>4, <2>5, <2>6 DEF Walked
<1>4. CASE DirsDone
  <2>1. pc = "dirs" /\ pc' = "files" /\ dirsTodo = {} /\ stack' = stack
    BY <1>4 DEF DirsDone, walkVars
  <2>2. Pending' = Pending /\ InLoop /\ InLoop' /\ ~AtFile /\ ~AtFile'
    BY <1>1, <1>2, <2>1 DEF Pending, InLoop, AtFile
  <2> QED
    BY <1>1, <1>2, <2>1, <2>2 DEF Walked
<1>5. CASE FilesDone
  <2>1. pc = "files" /\ pc' = "walk" /\ filesTodo = {} /\ stack' = retained \o stack
    BY <1>5 DEF FilesDone
  <2>2. Pending' = Pending /\ InLoop /\ ~InLoop' /\ ~AtFile /\ ~AtFile'
    BY <1>1, <1>2, <2>1 DEF Pending, InLoop, AtFile
  <2>3. IsInjective(stack') /\ ToSet(stack') = ToSet(retained) \cup ToSet(stack)
    <3>1. stack \in Seq(Dirs) /\ retained \in Seq(Dirs)
      BY DEF Inv, TypeOK
    <3>2. IsInjective(stack) /\ IsInjective(retained) /\ ToSet(retained) \cap ToSet(stack) = {}
      BY <2>2 DEF Walked
    <3> QED
      BY <2>1, <3>1, <3>2, ConcatEntries
  <2> QED
    BY <1>1, <1>2, <2>1, <2>2, <2>3 DEF Walked
<1>6. CASE Return
  <2>1. pc = "walk" /\ pc' = "sort" /\ stack = <<>> /\ stack' = stack
    BY <1>6 DEF Return, walkVars
  <2>2. Pending' = Pending /\ ~InLoop /\ ~InLoop' /\ ~AtFile /\ ~AtFile'
    BY <1>1, <1>2, <2>1 DEF Pending, InLoop, AtFile
  <2> QED
    BY <1>1, <1>2, <2>1, <2>2 DEF Walked
<1>7. CASE Resolve \/ Sort
  <2>1. /\ pc = "sort" /\ pc' \in {"sort", "done", "raised"} /\ stack' = stack
        /\ stack = <<>> /\ ToSet(<<>>) = {}
    BY <1>7 DEF Resolve, Sort, walkVars, Walked, ToSet
  <2>2. ~InLoop /\ ~InLoop' /\ ~AtFile /\ ~AtFile'
    BY <2>1 DEF InLoop, AtFile
  <2>3. Pending = {}
    BY <2>1, <2>2 DEF Walked
  <2>4. Pending' = {}
    BY <1>1, <1>2, <2>1, <2>3 DEF Pending
  <2> QED
    BY <1>1, <1>2, <2>1, <2>2, <2>3, <2>4 DEF Walked
<1> QED
  BY <1>3, <1>4, <1>5, <1>6, <1>7

\* Classifying a directory: it leaves the loop, and is kept or decided.
LEMMA WalkedClassify == ASSUME Inv, Walked, NEW e \in Dirs, ClassifyDir(e) PROVE Walked'
<1> USE PathFacts
<1>1. /\ pc = "dirs" /\ pc' = pc /\ e \in dirsTodo /\ dirsTodo' = dirsTodo \ {e}
      /\ UNCHANGED <<stack, filesTodo, path>>
  BY DEF ClassifyDir, IsFirst
<1>2. PICK o \in Outcomes :
         /\ outcome' = [outcome EXCEPT ![e] = o]
         /\ o \notin {"unseen", "listed", "scanned"}
         /\ o = "retained" => retained' = Append(retained, e)
         /\ o # "retained" => retained' = retained
  BY DEF ClassifyDir, Skip, Pass, Outcomes, Counters
<1>3. /\ outcome[e] = "listed" /\ e # Root
      /\ e \notin ToSet(stack) /\ e \notin ToSet(retained)
      /\ filesTodo \subseteq Files /\ InLoop /\ ~AtFile
  <2>1. e \in With("listed") /\ e # Root
    BY <1>1 DEF Walked
  <2>2. outcome[e] = "listed" /\ e \notin Pending
    BY <2>1 DEF With, Pending
  <2> QED
    BY <1>1, <2>1, <2>2 DEF Walked, InLoop, AtFile, Inv, TypeOK
<1>4. InLoop' /\ ~AtFile'
  BY <1>1 DEF InLoop, AtFile
<1>5. outcome'[e] = o /\ \A p \in Paths : p # e => outcome'[p] = outcome[p]
  BY <1>2 DEF Inv, TypeOK
<1>6. \A p \in Paths \ {Root} : outcome'[p] # "unseen" => outcome'[Parent[p]] = "scanned"
  BY <1>3, <1>5 DEF Walked
<1>7. /\ With("listed")' = With("listed") \ {e}
      /\ With("retained")' = IF o = "retained" THEN With("retained") \cup {e}
                                               ELSE With("retained")
  BY <1>2, <1>3, WithChange DEF Inv, TypeOK, With
<1>8. Pending' = IF o = "retained" THEN Pending \cup {e} ELSE Pending
  <2>1. (outcome'[Root] = "unseen") <=> (outcome[Root] = "unseen")
    BY <1>3, <1>5
  <2> QED
    BY <1>1, <1>7, <2>1 DEF Pending
<1>9. /\ IsInjective(retained')
      /\ ToSet(retained') = IF o = "retained" THEN ToSet(retained) \cup {e} ELSE ToSet(retained)
  <2>1. IsInjective(retained) /\ retained \in Seq(Dirs)
    BY <1>3 DEF Walked, Inv, TypeOK
  <2> QED
    <3>1. /\ IsInjective(Append(retained, e))
          /\ ToSet(Append(retained, e)) = ToSet(retained) \cup {e}
      BY <1>3, <2>1, AppendEntries
    <3> QED
      BY <1>2, <2>1, <3>1
<1>10. With("listed")' = dirsTodo' \cup filesTodo'
  BY <1>1, <1>3, <1>7 DEF Walked
<1> QED
  BY <1>1, <1>3, <1>4, <1>6, <1>8, <1>9, <1>10 DEF Walked

\* A file of the loop is decided, or stays at hand.
LEMMA WalkedDecided ==
    ASSUME Inv, Walked, pc = "files" \/ AtFile, pc' = "files", UNCHANGED <<stack, dirsTodo, retained>>,
           NEW f \in Files,
           With("listed") = filesTodo' \cup {f}, f \notin filesTodo',
           NEW o \in Outcomes \ {"unseen", "listed", "retained", "scanned"},
           outcome' = [outcome EXCEPT ![f] = o]
    PROVE  Walked'
<1> USE PathFacts
<1>1. outcome'[f] = o /\ \A p \in Paths : p # f => outcome'[p] = outcome[p]
  BY DEF Inv, TypeOK
<1>2. outcome[f] = "listed" /\ f # Root
  BY PathsAssumption DEF With
<1>3. \A p \in Paths \ {Root} : outcome'[p] # "unseen" => outcome'[Parent[p]] = "scanned"
  BY <1>1, <1>2 DEF Walked
<1>4. With("listed")' = filesTodo' /\ With("retained")' = With("retained")
  BY <1>2, WithChange DEF Inv, TypeOK, With
<1>5. Pending' = Pending /\ InLoop /\ InLoop' /\ ~AtFile' /\ dirsTodo' = {}
  BY <1>1, <1>2, <1>4 DEF Pending, InLoop, AtFile, Walked
<1> QED
  BY <1>3, <1>4, <1>5 DEF Walked, AtFile

LEMMA WalkedKept ==
    ASSUME Inv, Walked, pc = "files" \/ AtFile, AtFile',
           UNCHANGED <<stack, dirsTodo, retained, outcome>>,
           With("listed") = filesTodo' \cup {path'}
    PROVE  Walked'
<1>1. With("listed")' = With("listed") /\ With("retained")' = With("retained")
  BY DEF With
<1>2. Pending' = Pending /\ InLoop /\ InLoop' /\ dirsTodo' = {}
  BY <1>1 DEF Pending, InLoop, AtFile, Walked
<1> QED
  BY <1>1, <1>2 DEF Walked, AtFile

\* The steps of the files loop and of safe_read_text.
LEMMA WalkedFiles ==
    Inv /\ Walked /\ ((\E f \in Files : Lstat(f)) \/ Stat \/ Recheck \/ Open \/ Fstat \/ Read)
        => Walked'
<1> SUFFICES ASSUME Inv, Walked,
                    (\E f \in Files : Lstat(f)) \/ Stat \/ Recheck \/ Open \/ Fstat \/ Read
             PROVE  Walked'
  OBVIOUS
<1> USE PathFacts
<1>1. ASSUME NEW f \in Files, Lstat(f) PROVE Walked'
  <2>1. /\ pc = "files" /\ f \in filesTodo /\ filesTodo' = filesTodo \ {f}
        /\ UNCHANGED <<stack, dirsTodo, retained>>
    BY <1>1 DEF Lstat, IsFirst
  <2>2. With("listed") = filesTodo
    BY <2>1 DEF Walked, AtFile
  <2>3. CASE pc' = "stat" /\ path' = f /\ UNCHANGED outcome
    <3>1. AtFile' /\ With("listed") = filesTodo' \cup {path'}
      BY <2>1, <2>2, <2>3 DEF AtFile
    <3> QED
      BY <2>1, <2>3, <3>1, WalkedKept
  <2>4. CASE pc' = pc /\ (Skip(f, "permission") \/ Skip(f, "symlink") \/ Pass(f, "extension"))
    <3>1. \E o \in Outcomes \ {"unseen", "listed", "retained", "scanned"} :
              outcome' = [outcome EXCEPT ![f] = o]
      BY <2>4 DEF Skip, Pass, Outcomes, Counters
    <3>2. With("listed") = filesTodo' \cup {f} /\ f \notin filesTodo' /\ pc' = "files"
      BY <2>1, <2>2, <2>4
    <3> QED
      BY <2>1, <3>1, <3>2, WalkedDecided
  <2> QED
    BY <1>1, <2>3, <2>4 DEF Lstat
<1>2. CASE Stat \/ Recheck \/ Open \/ Fstat \/ Read
  <2>1. AtFile /\ path \in Files \ filesTodo
    BY <1>2 DEF Stat, Recheck, Open, Fstat, Read, Inv, Admission, AtFile
  <2>2. UNCHANGED <<stack, dirsTodo, retained, filesTodo, path>>
    BY <1>2 DEF Stat, Recheck, Open, Fstat, Read, walkVars
  <2>3. With("listed") = filesTodo \cup {path}
    BY <2>1 DEF Walked, AtFile
  <2>4. CASE AtFile' /\ UNCHANGED outcome
    BY <2>1, <2>2, <2>3, <2>4, WalkedKept
  <2>5. CASE pc' = "files" /\ \E o \in Outcomes \ {"unseen", "listed", "retained", "scanned"} :
                                  outcome' = [outcome EXCEPT ![path] = o]
    BY <2>1, <2>2, <2>3, <2>5, WalkedDecided
  <2>6. CASE Stat
    <3>1. Limit(file[path].size) \in {"none", "too_large", "file_limit", "byte_limit"}
      BY DEF Limit
    <3>2. \/ pc' = "recheck" /\ UNCHANGED outcome
          \/ pc' = "files" /\ (Skip(path, "permission") \/ Pass(path, "vanished"))
          \/ /\ pc' = "files" /\ Skip(path, Limit(file[path].size))
             /\ Limit(file[path].size) \in {"too_large", "file_limit", "byte_limit"}
      BY <2>6, <3>1 DEF Stat, StatFails, StatOk
    <3> QED
      BY <2>4, <2>5, <3>2 DEF Skip, Pass, AtFile, Outcomes, Counters
  <2>7. CASE Recheck \/ Open \/ Fstat
    <3>1. \/ pc' \in {"open", "fstat", "read"} /\ UNCHANGED outcome
          \/ pc' = "files" /\ (Skip(path, "permission") \/ Skip(path, "binary"))
      BY <2>7 DEF Recheck, Open, Fstat, GiveUp
    <3> QED
      BY <2>4, <2>5, <3>1 DEF Skip, AtFile, Outcomes, Counters
  <2>8. CASE Read
    <3>1. pc' = "files" /\ (Skip(path, "binary") \/ Pass(path, "selected"))
      BY <2>8 DEF Read, GiveUp
    <3> QED
      BY <2>5, <3>1 DEF Skip, Pass, Outcomes, Counters
  <2> QED
    BY <1>2, <2>6, <2>7, <2>8
<1> QED
  BY <1>1, <1>2

\* Nothing has been met at the start.
LEMMA WalkedInit == Init => Walked
<1> SUFFICES ASSUME Init PROVE Walked
  OBVIOUS
<1>1. \A p \in Paths : outcome[p] = "unseen"
  BY DEF Init
<1>2. With("listed") = {} /\ With("retained") = {}
  BY <1>1 DEF With
<1>3. /\ pc = "start" /\ stack = <<>> /\ dirsTodo = {} /\ filesTodo = {}
      /\ ToSet(<<>>) = {} /\ IsInjective(<<>>)
  BY DEF Init, ToSet, IsInjective
<1>4. Pending = {} /\ ~InLoop /\ ~AtFile
  BY <1>2, <1>3 DEF Pending, InLoop, AtFile
<1> QED
  BY <1>1, <1>2, <1>3, <1>4, PathFacts DEF Walked

\* Every step keeps the walk and its history together.
LEMMA WalkedStep == Inv /\ Walked /\ [Next]_vars => Walked'
<1> SUFFICES ASSUME Inv, Walked, [Next]_vars PROVE Walked'
  OBVIOUS
<1>1. CASE Scan
  BY <1>1, WalkedWalk, WalkedControl, WalkedClassify, WalkedFiles DEF Scan
<1>2. CASE UNCHANGED scanVars
  <2>1. With("listed")' = With("listed") /\ With("retained")' = With("retained")
    BY <1>2 DEF With, scanVars
  <2>2. Pending' = Pending /\ (InLoop' <=> InLoop) /\ (AtFile' <=> AtFile)
    BY <1>2, <2>1 DEF Pending, InLoop, AtFile, scanVars
  <2>3. UNCHANGED <<stack, retained, dirsTodo, filesTodo, pc, path, outcome>>
    BY <1>2 DEF scanVars, walkVars
  <2> HIDE DEF Walked
  <2> QED
    BY <2>1, <2>2, <2>3 DEF Walked
<1> QED
  BY <1>1, <1>2 DEF Next, Environment, Finished, vars, scanVars, walkVars

-----------------------------------------------------------------------------
(***************************************************************************)
(* The counters                                                            *)
(***************************************************************************)

\* The counters and the list count the paths of the history.
Counting ==
    /\ \A c \in Counters : skipped[c] = Cardinality(With(c))
    /\ Len(selected) = Cardinality(With("selected"))
    /\ {selected[i].path : i \in DOMAIN selected} = With("selected")

Counted == Counters \cup {"selected"}

\* The paths with one outcome are finitely many.
LEMMA WithFinite == \A o : IsFiniteSet(With(o)) /\ Cardinality(With(o)) \in Nat
<1> SUFFICES ASSUME NEW o PROVE IsFiniteSet(With(o)) /\ Cardinality(With(o)) \in Nat
  OBVIOUS
<1>1. With(o) \in SUBSET Paths
  BY DEF With
<1>2. IsFiniteSet(With(o))
  BY <1>1, PathsAssumption, FS_Subset
<1> QED
  BY <1>2, FS_CardinalityType

\* A step that counts nothing.
LEMMA CountNone ==
    ASSUME Inv, Counting, UNCHANGED <<skipped, selected>>,
           \A p \in Paths : outcome'[p] # outcome[p]
               => outcome[p] \notin Counted /\ outcome'[p] \notin Counted
    PROVE  Counting'
<1>1. \A c \in Counted : With(c)' = With(c)
  BY DEF With
<1> QED
  BY <1>1 DEF Counting, Counted

\* A step that counts one undecided path under one counter.
LEMMA CountSkip ==
    ASSUME Inv, Counting, NEW p \in Paths, NEW c \in Counters,
           outcome[p] \notin Counted, Skip(p, c), UNCHANGED selected
    PROVE  Counting'
<1>1. /\ With(c)' = With(c) \cup {p} /\ p \notin With(c)
      /\ \A o \in Counted \ {c} : With(o)' = With(o)
  BY WithChange DEF Skip, With, Inv, TypeOK, Counted
<1>2. Cardinality(With(c)') = Cardinality(With(c)) + 1
  BY <1>1, WithFinite, FS_AddElement
<1>3. skipped'[c] = skipped[c] + 1 /\ \A d \in Counters \ {c} : skipped'[d] = skipped[d]
  BY DEF Skip, Inv, TypeOK
<1>4. \A d \in Counters : skipped'[d] = Cardinality(With(d)')
  BY <1>1, <1>2, <1>3 DEF Counting, Counted
<1>5. With("selected")' = With("selected")
  BY <1>1 DEF Counted, Counters
<1> QED
  BY <1>4, <1>5 DEF Counting

\* A step that selects one undecided path.
LEMMA CountSelect ==
    ASSUME Inv, Counting, NEW p \in Paths, outcome[p] \notin Counted,
           Pass(p, "selected"), NEW item \in Selected, item.path = p,
           selected' = Append(selected, item)
    PROVE  Counting'
<1>1. /\ With("selected")' = With("selected") \cup {p} /\ p \notin With("selected")
      /\ \A c \in Counters : With(c)' = With(c)
  BY WithChange DEF Pass, With, Inv, TypeOK, Counted, Counters
<1>2. Cardinality(With("selected")') = Cardinality(With("selected")) + 1
  BY <1>1, WithFinite, FS_AddElement
<1>3. /\ selected \in Seq(Selected) /\ Len(selected') = Len(selected) + 1
      /\ DOMAIN selected = 1..Len(selected) /\ DOMAIN selected' = 1..(Len(selected) + 1)
      /\ selected'[Len(selected) + 1] = item
      /\ \A i \in 1..Len(selected) : selected'[i] = selected[i]
      /\ Len(selected) \in Nat
  BY AppendProperties DEF Inv, TypeOK
<1>4. {selected'[i].path : i \in DOMAIN selected'}
        = {selected[i].path : i \in DOMAIN selected} \cup {p}
  <2>1. \A i \in DOMAIN selected' : i = Len(selected) + 1 \/ i \in DOMAIN selected
    BY <1>3
  <2>2. /\ \A i \in DOMAIN selected : i \in DOMAIN selected' /\ selected'[i] = selected[i]
        /\ Len(selected) + 1 \in DOMAIN selected'
    BY <1>3
  <2> QED
    BY <1>3, <2>1, <2>2
<1> QED
  BY <1>1, <1>2, <1>3, <1>4 DEF Counting, Pass

\* Sorting the list loses none of its members.
LEMMA ReorderedCovers ==
    ASSUME NEW S, NEW s \in Seq(S), NEW order \in Injection(DOMAIN s, DOMAIN s)
    PROVE  \A j \in DOMAIN s : \E i \in DOMAIN s : Reordered(s, order)[i] = s[j]
<1>1. DOMAIN s = 1..Len(s) /\ Len(s) \in Nat
  OBVIOUS
<1>2. IsFiniteSet(DOMAIN s)
  BY <1>1, FS_Interval
<1>3. order \in Surjection(DOMAIN s, DOMAIN s)
  BY <1>2, FS_Injection
<1> QED
  BY <1>3 DEF Surjection, Reordered

\* Counting is inductive: every step decides at most one path, and that path was
\* undecided, because the loop or the walk still held it.
LEMMA CountingStep == Inv /\ Walked /\ Counting /\ [Next]_vars => Counting'
<1> SUFFICES ASSUME Inv, Walked, Counting, [Next]_vars PROVE Counting'
  OBVIOUS
<1> USE PathFacts
<1>1. CASE CheckRoot \/ DirsDone \/ FilesDone \/ Return \/ Resolve
  BY <1>1, CountNone DEF CheckRoot, DirsDone, FilesDone, Return, Resolve
<1>2. CASE Walk
  <2> DEFINE d == Head(stack)
  <2>1. /\ d \in Dirs /\ outcome[d] \notin Counted
        /\ \A p \in Paths \ {Root} : Parent[p] = d => outcome[p] = "unseen"
    BY <1>2, WalkHead DEF Walk, Counted, Counters
  <2>2. UNCHANGED selected /\ (ScandirOk(d) \/ ScandirFailed(d))
    BY <1>2 DEF Walk
  <2> HIDE DEF d
  <2>3. CASE ScandirOk(d)
    <3>1. /\ dirsTodo' \cup filesTodo' \subseteq Paths \ {Root} /\ UNCHANGED skipped
          /\ \A p \in dirsTodo' \cup filesTodo' : Parent[p] = d
      BY <2>3, PathsAssumption DEF ScandirOk
    <3>2. \A p \in Paths : outcome'[p] # outcome[p]
              => outcome[p] \notin Counted /\ outcome'[p] \notin Counted
      BY <2>1, <2>3, <3>1 DEF ScandirOk, Counted, Counters
    <3> QED
      BY <2>2, <3>1, <3>2, CountNone
  <2>4. CASE ScandirFailed(d)
    BY <2>1, <2>2, <2>4, CountSkip DEF ScandirFailed, Counters
  <2> QED
    BY <2>2, <2>3, <2>4
<1>3. CASE Sort
  <2>1. UNCHANGED <<skipped, outcome>>
    BY <1>3 DEF Sort
  <2>2. PICK order \in Injection(DOMAIN selected, DOMAIN selected) :
           selected' = Reordered(selected, order)
    BY <1>3 DEF Sort, SortOrders, Inv, TypeOK
  <2>3. selected \in Seq(Selected) /\ order \in [DOMAIN selected -> DOMAIN selected]
    BY DEF Inv, TypeOK, Injection
  <2>4. /\ Len(selected') = Len(selected) /\ DOMAIN selected' = DOMAIN selected
        /\ \A i \in DOMAIN selected : selected'[i] = selected[order[i]]
        /\ \A j \in DOMAIN selected : \E i \in DOMAIN selected : selected'[i] = selected[j]
    BY <2>2, <2>3, ReorderedType, ReorderedCovers DEF Reordered
  <2>5. {selected'[i].path : i \in DOMAIN selected'} = {selected[i].path : i \in DOMAIN selected}
    <3>1. \A i \in DOMAIN selected : order[i] \in DOMAIN selected
      BY <2>3
    <3> QED
      BY <2>4, <3>1
  <2>6. \A c : With(c)' = With(c)
    BY <2>1 DEF With
  <2> QED
    BY <2>1, <2>4, <2>5, <2>6 DEF Counting
<1>4. ASSUME NEW e \in Dirs, ClassifyDir(e) PROVE Counting'
  <2>1. e \in With("listed")
    BY <1>4 DEF ClassifyDir, IsFirst, Walked
  <2>2. outcome[e] \notin Counted /\ UNCHANGED selected
    BY <1>4, <2>1 DEF ClassifyDir, With, Counted, Counters
  <2>3. CASE Pass(e, "ignored") \/ Pass(e, "retained")
    <3>1. /\ \A p \in Paths : p # e => outcome'[p] = outcome[p]
          /\ outcome'[e] \notin Counted /\ UNCHANGED skipped
      BY <2>3 DEF Pass, Inv, TypeOK, Counted, Counters
    <3> QED
      BY <2>2, <3>1, CountNone
  <2>4. CASE Skip(e, "permission") \/ Skip(e, "symlink")
    BY <2>2, <2>4, CountSkip DEF Counters
  <2> QED
    BY <1>4, <2>3, <2>4 DEF ClassifyDir
<1>5. ASSUME NEW f \in Files, Lstat(f) PROVE Counting'
  <2>1. f \in With("listed")
    BY <1>5 DEF Lstat, IsFirst, Walked
  <2>2. outcome[f] \notin Counted /\ UNCHANGED selected
    BY <1>5, <2>1 DEF Lstat, With, Counted, Counters
  <2>3. CASE Pass(f, "extension")
    <3>1. /\ \A p \in Paths : p # f => outcome'[p] = outcome[p]
          /\ outcome'[f] \notin Counted /\ UNCHANGED skipped
      BY <2>3 DEF Pass, Inv, TypeOK, Counted, Counters
    <3> QED
      BY <2>2, <3>1, CountNone
  <2>4. CASE Skip(f, "permission") \/ Skip(f, "symlink")
    BY <2>2, <2>4, CountSkip DEF Counters
  <2>5. CASE UNCHANGED <<skipped, outcome>>
    BY <2>2, <2>5, CountNone
  <2> QED
    BY <1>5, <2>3, <2>4, <2>5 DEF Lstat
<1>6. CASE Stat \/ Recheck \/ Open \/ Fstat \/ Read
  <2>1. path \in Files /\ outcome[path] \notin Counted
    BY <1>6 DEF Stat, Recheck, Open, Fstat, Read, Inv, Admission, AtFile, Counted, Counters
  <2>2. CASE UNCHANGED <<skipped, outcome, selected>>
    BY <2>2, CountNone
  <2>3. ASSUME NEW c \in Counters, Skip(path, c), UNCHANGED selected PROVE Counting'
    BY <2>1, <2>3, CountSkip
  <2>4. CASE Stat
    <3>1. Limit(file[path].size) \in Counters \cup {"none"} /\ UNCHANGED selected
      BY <2>4 DEF Stat, Limit, Counters
    <3>2. CASE Pass(path, "vanished")
      <4>1. /\ \A p \in Paths : p # path => outcome'[p] = outcome[p]
            /\ outcome'[path] \notin Counted /\ UNCHANGED skipped
        BY <2>1, <3>2 DEF Pass, Inv, TypeOK, Counted, Counters
      <4> QED
        BY <2>1, <3>1, <4>1, CountNone
    <3> QED
      BY <2>2, <2>3, <2>4, <3>1, <3>2 DEF Stat, StatFails, StatOk, Counters
  <2>5. CASE Recheck \/ Open \/ Fstat
    BY <2>2, <2>3, <2>5 DEF Recheck, Open, Fstat, GiveUp, Counters
  <2>6. CASE Read
    <3>1. CASE fd.size > MaxFileBytes \/ ~fd.text
      BY <2>3, <2>6, <3>1 DEF Read, GiveUp, Counters
    <3>2. CASE ~(fd.size > MaxFileBytes \/ ~fd.text)
      <4> DEFINE item == [path |-> path, bytes |-> fd.size, kind |-> fd.kind]
      <4>1. selected' = Append(selected, item) /\ Pass(path, "selected")
        BY <2>6, <3>2 DEF Read
      <4>2. item \in Selected /\ item.path = path
        BY <2>1 DEF Inv, TypeOK, Descriptor, Selected
      <4> HIDE DEF item
      <4> QED
        BY <2>1, <4>1, <4>2, CountSelect
    <3> QED
      BY <3>1, <3>2
  <2> QED
    BY <1>6, <2>4, <2>5, <2>6
<1>7. CASE UNCHANGED <<skipped, outcome, selected>>
  BY <1>7, CountNone
<1> QED
  BY <1>1, <1>2, <1>3, <1>4, <1>5, <1>6, <1>7
     DEF Next, Scan, Environment, Finished, vars, scanVars

\* Nothing is counted or selected in the initial state.
LEMMA CountingInit == Init => Counting
<1> SUFFICES ASSUME Init PROVE Counting
  OBVIOUS
<1>1. \A p \in Paths : outcome[p] = "unseen"
  BY DEF Init
<1>2. \A c \in Counted : With(c) = {}
  BY <1>1 DEF With, Counted, Counters
<1>3. selected = <<>> /\ Len(<<>>) = 0 /\ DOMAIN <<>> = {} /\ \A c \in Counters : skipped[c] = 0
  BY DEF Init, ZeroCounters
<1> QED
  BY <1>2, <1>3, FS_EmptySet DEF Counting, Counted

\* The two hold at every step.
LEMMA CountingInvariance == Spec => [](Walked /\ Counting)
<1>1. Init => Walked /\ Counting
  BY WalkedInit, CountingInit
<1>2. Inv /\ (Walked /\ Counting) /\ [Next]_vars => (Walked /\ Counting)'
  BY WalkedStep, CountingStep
<1> QED
  BY <1>1, <1>2, Invariance, PTL DEF Spec

\* The counters of the result count every path once, and nothing the scan met
\* is dropped half-way, for every tree and whatever other processes do to it
\* (util.py:112-175).
THEOREM EveryPathCountedOnce == Spec => []CountersAgree
<1>1. Inv /\ Walked /\ Counting => CountersAgree
  <2> SUFFICES ASSUME Walked, Counting, pc = "done" PROVE With("listed") \cup With("retained") = {}
    BY DEF Counting, CountersAgree
  <2>1. ~InLoop /\ ~AtFile /\ stack = <<>> /\ ToSet(<<>>) = {}
    BY DEF InLoop, AtFile, Walked, ToSet
  <2>2. With("listed") = {} /\ Pending = {}
    BY <2>1 DEF Walked
  <2> QED
    BY <2>2 DEF Pending
<1> QED
  BY <1>1, Invariance, CountingInvariance, PTL

-----------------------------------------------------------------------------
(***************************************************************************)
(* A tree nobody touches: why each path is where it is                     *)
(***************************************************************************)

\* What the outcome o of a directory says about the tree.
DirReason(e, o) ==
    \/ o = "unseen"
    \/ o = "listed" /\ e # Root /\ dir[e].kind # "gone"
    \/ o = "ignored" /\ e # Root /\ e \in Ignored
    \/ o = "symlink" /\ e # Root /\ dir[e].kind = "link"
    \/ o = "walk_error" /\ dir[e].kind # "dir"
    \/ o = "permission" /\ (~dir[e].list \/ (e # Root /\ ~Searchable(e)))
    \/ o = "retained" /\ e # Root /\ e \in Reachable
    \/ o = "scanned" /\ e \in Reachable /\ dir[e].kind = "dir" /\ dir[e].list

\* A file the scan should select.
Fit(f) ==
    /\ f \in Sources /\ Searchable(f)
    /\ file[f].kind = "file" /\ file[f].readable /\ file[f].text
    /\ file[f].size <= MaxFileBytes

\* What the outcome o of a file says about it.
FileReason(f, o) ==
    \/ o \in {"unseen", "listed", "file_limit", "byte_limit"}
    \/ o = "selected" /\ Fit(f)
    \/ /\ o \in {"permission", "symlink", "extension", "too_large", "vanished", "binary"}
       /\ ~Fit(f)

Gone(p) == IF p \in Dirs THEN dir[p].kind = "gone" ELSE file[p].kind = "gone"

\* Every outcome has its reason, and nothing in a listed directory is unseen.
Explained ==
    /\ \A e \in Dirs : DirReason(e, outcome[e])
    /\ \A f \in Files : FileReason(f, outcome[f])
    /\ \A p \in Paths \ {Root} :
           (outcome[Parent[p]] = "scanned" /\ ~Gone(p)) => outcome[p] # "unseen"

\* What the steps before this one found out about the file at hand.
AtHand ==
    /\ pc \notin {"start", "raised"} => dir[Root].kind = "dir"
    /\ pc = "raised" => dir[Root].kind # "dir"
    /\ AtFile => path \in Sources /\ Searchable(path)
    /\ Admitted => file[path].size <= MaxFileBytes
    /\ pc \in {"open", "fstat", "read"} => file[path].kind = "file"
    /\ pc \in {"fstat", "read"} =>
           /\ fd.kind = "file" /\ file[path].readable
           /\ fd.size = file[path].size /\ fd.text = file[path].text

\* As long as nobody has changed the tree, what was found out is still so.
Undisturbed == edits = 0 => Explained /\ AtHand

\* What can be reached is a matter of the directories alone.
LEMMA SameReach == UNCHANGED dir => Reachable' = Reachable
<1> SUFFICES ASSUME UNCHANGED dir PROVE Reachable' = Reachable
  OBVIOUS
<1>1. \A d, e : Enters(d, e)' <=> Enters(d, e)
  BY DEF Enters
<1> DEFINE Closed_(S) == Root \in S /\ \A d \in S, e \in Dirs : Enters(d, e) => e \in S
<1>2. \A S : Closed_(S)' <=> Closed_(S)
  BY <1>1
<1>3. /\ Reachable = {r \in Dirs : \A S \in SUBSET Dirs : Closed_(S) => r \in S}
      /\ Reachable' = {r \in Dirs : \A S \in SUBSET Dirs : Closed_(S)' => r \in S}
  BY DEF Reachable
<1> HIDE DEF Closed_
<1> QED
  BY <1>2, <1>3

\* The root is reached, and from a reached directory those it leads into.
LEMMA ReachClosed ==
    /\ Root \in Reachable
    /\ \A d \in Reachable, e \in Dirs : Enters(d, e) => e \in Reachable
<1>1. Root \in Reachable
  BY PathsAssumption DEF Reachable
<1>2. ASSUME NEW d \in Reachable, NEW e \in Dirs, Enters(d, e) PROVE e \in Reachable
  <2> SUFFICES ASSUME NEW S \in SUBSET Dirs, Root \in S,
                      \A x \in S, y \in Dirs : Enters(x, y) => y \in S
               PROVE  e \in S
    BY DEF Reachable
  <2>1. d \in S
    BY DEF Reachable
  <2> QED
    BY <1>2, <2>1
<1> QED
  BY <1>1, <1>2

\* A step of the scanner leaves the tree alone: the reasons for the new outcomes
\* may be checked against the tree before it.
LEMMA ExplainedFrom ==
    ASSUME UNCHANGED <<file, dir>>,
           \A e \in Dirs : DirReason(e, outcome'[e]),
           \A f \in Files : FileReason(f, outcome'[f]),
           \A p \in Paths \ {Root} :
               (outcome'[Parent[p]] = "scanned" /\ ~Gone(p)) => outcome'[p] # "unseen"
    PROVE  Explained'
<1>1. Reachable' = Reachable
  BY SameReach
<1>2. \A e : Searchable(e)' <=> Searchable(e)
  BY DEF Searchable
<1>3. \A e \in Dirs : DirReason(e, outcome[e])'
  BY <1>1, <1>2 DEF DirReason
<1>4. \A f : Fit(f)' <=> Fit(f)
  BY <1>2 DEF Fit
<1>5. \A f \in Files : FileReason(f, outcome[f])'
  BY <1>4 DEF FileReason
<1>6. \A p : Gone(p)' <=> Gone(p)
  BY DEF Gone
<1>7. \A p \in Paths \ {Root} :
          (outcome[Parent[p]] = "scanned" /\ ~Gone(p))' => outcome'[p] # "unseen"
  BY <1>6
<1> QED
  BY <1>3, <1>5, <1>7 DEF Explained

\* The same when one path gets a new outcome, other than "unseen" and "scanned",
\* for a reason.
LEMMA ExplainedChange ==
    ASSUME Inv, Explained, UNCHANGED <<file, dir>>,
           NEW q \in Paths, NEW o, outcome' = [outcome EXCEPT ![q] = o],
           o # "unseen", o # "scanned",
           q \in Dirs => DirReason(q, o), q \in Files => FileReason(q, o)
    PROVE  Explained'
<1> USE PathFacts
<1>1. outcome'[q] = o /\ \A p \in Paths : p # q => outcome'[p] = outcome[p]
  BY DEF Inv, TypeOK
<1>2. \A e \in Dirs : DirReason(e, outcome'[e])
  BY <1>1 DEF Explained
<1>3. \A f \in Files : FileReason(f, outcome'[f])
  BY <1>1 DEF Explained
<1>4. \A p \in Paths \ {Root} :
          (outcome'[Parent[p]] = "scanned" /\ ~Gone(p)) => outcome'[p] # "unseen"
  BY <1>1 DEF Explained
<1> QED
  BY <1>2, <1>3, <1>4, ExplainedFrom

LEMMA ExplainedSame ==
    ASSUME Explained, UNCHANGED <<file, dir, outcome>>
    PROVE  Explained'
<1>1. /\ \A e \in Dirs : DirReason(e, outcome'[e])
      /\ \A f \in Files : FileReason(f, outcome'[f])
      /\ \A p \in Paths \ {Root} :
             (outcome'[Parent[p]] = "scanned" /\ ~Gone(p)) => outcome'[p] # "unseen"
  BY DEF Explained
<1> QED
  BY <1>1, ExplainedFrom

\* Listing a directory, or failing to.
LEMMA ExplainedWalk ==
    ASSUME Inv, Walked, Explained, AtHand, Walk
    PROVE  Explained' /\ AtHand'
<1> USE PathFacts
<1> DEFINE d == Head(stack)
<1>1. /\ pc = "walk" /\ UNCHANGED <<file, dir>>
      /\ ScandirOk(d) \/ ScandirFailed(d)
      /\ d \in Dirs /\ outcome[d] \in {"unseen", "retained"}
      /\ outcome[d] = "unseen" => d = Root
      /\ \A p \in Paths \ {Root} : Parent[p] = d => p # d /\ outcome[p] = "unseen"
  BY WalkHead DEF Walk, treeVars
<1>2. d \in Reachable
  BY <1>1, ReachClosed DEF Explained, DirReason
<1> HIDE DEF d
<1>3. AtHand'
  <2>1. pc' \in {"walk", "dirs"}
    BY <1>1 DEF ScandirOk, ScandirFailed
  <2> QED
    BY <1>1, <2>1 DEF AtHand, AtFile, Admitted
<1>4. CASE ScandirOk(d)
  <2> DEFINE E == dirsTodo' \cup filesTodo'
  <2>1. /\ dirsTodo' = {e \in Dirs \ {Root} : Parent[e] = d /\ dir[e].kind # "gone"}
        /\ filesTodo' = {f \in Files : Parent[f] = d /\ file[f].kind # "gone"}
        /\ outcome' = [p \in Paths |-> IF p = d THEN "scanned"
                                       ELSE IF p \in E THEN "listed" ELSE outcome[p]]
        /\ dir[d].kind = "dir" /\ dir[d].list
    BY <1>4 DEF ScandirOk
  <2>2. /\ \A e \in E : e # Root /\ e \in Paths /\ Parent[e] = d /\ outcome[e] = "unseen"
        /\ \A e \in E \cap Dirs : dir[e].kind # "gone"
        /\ \A p \in Paths \ {Root} : (Parent[p] = d /\ ~Gone(p)) => p \in E
    BY <1>1, <2>1, PathsAssumption DEF Gone, Paths
  <2> HIDE DEF E
  <2>3. \A e \in Dirs : DirReason(e, outcome'[e])
    <3> SUFFICES ASSUME NEW e \in Dirs PROVE DirReason(e, outcome'[e])
      OBVIOUS
    <3>1. CASE e = d
      BY <1>2, <2>1, <3>1 DEF DirReason
    <3>2. CASE e # d /\ e \in E
      BY <2>1, <2>2, <3>2 DEF DirReason
    <3>3. CASE e # d /\ e \notin E
      BY <2>1, <3>3 DEF Explained
    <3> QED
      BY <3>1, <3>2, <3>3
  <2>4. \A f \in Files : FileReason(f, outcome'[f])
    <3> SUFFICES ASSUME NEW f \in Files PROVE FileReason(f, outcome'[f])
      OBVIOUS
    <3>1. outcome'[f] = "listed" \/ outcome'[f] = outcome[f]
      BY <1>1, <2>1
    <3> QED
      BY <3>1 DEF Explained, FileReason
  <2>5. \A p \in Paths \ {Root} :
            (outcome'[Parent[p]] = "scanned" /\ ~Gone(p)) => outcome'[p] # "unseen"
    <3> SUFFICES ASSUME NEW p \in Paths \ {Root}, outcome'[Parent[p]] = "scanned", ~Gone(p)
                 PROVE  outcome'[p] # "unseen"
      OBVIOUS
    <3>1. CASE Parent[p] = d
      BY <2>1, <2>2, <3>1
    <3>2. CASE Parent[p] # d
      <4>1. outcome[Parent[p]] = "scanned"
        BY <2>1, <3>2
      <4>2. outcome[p] # "unseen"
        BY <4>1 DEF Explained
      <4> QED
        BY <2>1, <4>2
    <3> QED
      BY <3>1, <3>2
  <2> QED
    BY <1>1, <1>3, <2>3, <2>4, <2>5, ExplainedFrom
<1>5. CASE ScandirFailed(d)
  <2>1. /\ d \in Paths /\ d \notin Files
        /\ \/ Skip(d, "permission") /\ ~dir[d].list
           \/ Skip(d, "walk_error") /\ dir[d].kind # "dir"
    BY <1>1, <1>5 DEF ScandirFailed
  <2>2. \E o : /\ outcome' = [outcome EXCEPT ![d] = o]
               /\ o # "unseen" /\ o # "scanned" /\ DirReason(d, o)
    BY <2>1 DEF Skip, DirReason
  <2> QED
    BY <1>1, <1>3, <2>1, <2>2, ExplainedChange
<1> QED
  BY <1>1, <1>4, <1>5

\* Classifying a directory.  It was listed, so its own directory was read and is
\* reached; when it is kept, nothing of what Reachable asks for is missing.
LEMMA ExplainedClassify ==
    ASSUME Inv, Walked, Explained, AtHand, NEW e \in Dirs, ClassifyDir(e)
    PROVE  Explained' /\ AtHand'
<1> USE PathFacts
<1>1. /\ pc = "dirs" /\ pc' = pc /\ UNCHANGED <<file, dir>> /\ e \in dirsTodo
  BY DEF ClassifyDir, IsFirst, treeVars
<1>2. AtHand'
  BY <1>1 DEF AtHand, AtFile, Admitted
<1>3. outcome[e] = "listed" /\ e # Root /\ e \notin Files /\ e \in Paths
  BY <1>1 DEF Walked, With
<1>4. /\ dir[e].kind # "gone" /\ Parent[e] \in Reachable
      /\ dir[Parent[e]].kind = "dir" /\ dir[Parent[e]].list
  <2>1. outcome[Parent[e]] = "scanned"
    BY <1>3 DEF Walked
  <2> QED
    BY <1>3, <2>1 DEF Explained, DirReason
<1>5. dir[e].kind \in {"dir", "link", "gone"}
  BY DEF Inv, TypeOK, DirNode
<1>6. \/ e \in Ignored /\ Pass(e, "ignored")
      \/ ~Searchable(e) /\ Skip(e, "permission")
      \/ dir[e].kind = "link" /\ Skip(e, "symlink")
      \/ /\ e \notin Ignored /\ Searchable(e) /\ dir[e].kind # "link" /\ Pass(e, "retained")
  BY DEF ClassifyDir
<1>7. (e \notin Ignored /\ Searchable(e) /\ dir[e].kind # "link") => e \in Reachable
  BY <1>3, <1>4, <1>5, ReachClosed DEF Enters, Searchable
<1>8. \E o : /\ outcome' = [outcome EXCEPT ![e] = o]
             /\ o # "unseen" /\ o # "scanned" /\ DirReason(e, o)
  BY <1>3, <1>6, <1>7 DEF Skip, Pass, DirReason
<1> QED
  BY <1>1, <1>2, <1>3, <1>8, ExplainedChange

\* The steps that leave the history alone.
LEMMA ExplainedControl ==
    ASSUME Inv, Walked, Explained, AtHand,
           CheckRoot \/ DirsDone \/ FilesDone \/ Return \/ Sort
    PROVE  Explained' /\ AtHand'
<1>1. UNCHANGED <<file, dir, outcome>>
  BY DEF CheckRoot, DirsDone, FilesDone, Return, Sort, treeVars
<1>2. /\ pc' \in {"walk", "raised", "files", "sort", "done"}
      /\ pc' \notin {"start", "raised"} => dir[Root].kind = "dir"
      /\ pc' = "raised" => dir[Root].kind # "dir"
  BY DEF CheckRoot, DirsDone, FilesDone, Return, Sort, AtHand
<1> QED
  BY <1>1, <1>2, ExplainedSame DEF AtHand, AtFile, Admitted

\* Resolving a selected path finds the regular file that was selected.
LEMMA ExplainedResolve ==
    ASSUME Inv, Walked, Counting, Explained, AtHand, Resolve
    PROVE  Explained' /\ AtHand'
<1> USE PathFacts
<1> DEFINE f == selected[Len(keys) + 1].path
<1>1. /\ pc = "sort" /\ UNCHANGED <<file, dir, outcome>>
      /\ file[f].kind # "link" => pc' = pc
  BY DEF Resolve, treeVars
<1>2. Len(keys) + 1 \in DOMAIN selected
  BY DEF Resolve, Inv, TypeOK
<1>3. f \in Files /\ outcome[f] = "selected"
  <2>1. f \in With("selected")
    BY <1>2 DEF Counting
  <2>2. selected[Len(keys) + 1] \in Selected
    BY <1>2 DEF Inv, TypeOK
  <2> QED
    BY <2>1, <2>2 DEF With, Selected
<1> HIDE DEF f
<1>4. file[f].kind = "file"
  BY <1>3 DEF Explained, FileReason, Fit
<1>5. pc' = "sort"
  BY <1>1, <1>4
<1> QED
  BY <1>1, <1>5, ExplainedSame DEF AtHand, AtFile, Admitted

\* Taking the next file.
LEMMA ExplainedLstat ==
    ASSUME Inv, Walked, Explained, AtHand, NEW f \in Files, Lstat(f)
    PROVE  Explained' /\ AtHand'
<1> USE PathFacts
<1>1. pc = "files" /\ UNCHANGED <<file, dir>> /\ f \in Paths /\ f \notin Dirs
  BY DEF Lstat, treeVars
<1>2. CASE pc' = "stat" /\ path' = f /\ Searchable(f) /\ f \in Sources /\ UNCHANGED outcome
  <2>1. Searchable(path)'
    BY <1>1, <1>2 DEF Searchable
  <2>2. AtHand'
    BY <1>1, <1>2, <2>1 DEF AtHand, AtFile, Admitted
  <2> QED
    BY <1>1, <1>2, <2>2, ExplainedSame
<1>3. CASE /\ pc' = "files"
           /\ \/ ~Searchable(f) /\ Skip(f, "permission")
              \/ file[f].kind = "link" /\ Skip(f, "symlink")
              \/ f \notin Sources /\ Pass(f, "extension")
  <2>1. ~Fit(f)
    BY <1>3 DEF Fit
  <2>2. \E o : /\ outcome' = [outcome EXCEPT ![f] = o]
               /\ o # "unseen" /\ o # "scanned" /\ FileReason(f, o)
    BY <1>3, <2>1 DEF Skip, Pass, FileReason
  <2>3. AtHand'
    BY <1>1, <1>3 DEF AtHand, AtFile, Admitted
  <2> QED
    BY <1>1, <2>2, <2>3, ExplainedChange
<1> QED
  BY <1>1, <1>2, <1>3 DEF Lstat

\* A file at hand is decided for a reason.
LEMMA ExplainedDecided ==
    ASSUME Inv, Explained, AtHand, AtFile, UNCHANGED <<file, dir>>, pc' = "files",
           NEW o, outcome' = [outcome EXCEPT ![path] = o],
           o # "unseen", o # "scanned", FileReason(path, o)
    PROVE  Explained' /\ AtHand'
<1> USE PathFacts
<1>1. path \in Paths /\ path \notin Dirs
  BY DEF Inv, Admission
<1>2. Explained'
  BY <1>1, ExplainedChange
<1>3. AtHand'
  BY DEF AtHand, AtFile, Admitted
<1> QED
  BY <1>2, <1>3

\* The stat, and the steps of safe_read_text: a file is only given up for what
\* makes it unfit, and what was tested of it stays true until it is read.
LEMMA ExplainedFile ==
    ASSUME Inv, Walked, Explained, AtHand, Stat \/ Recheck \/ Open \/ Fstat \/ Read
    PROVE  Explained' /\ AtHand'
<1> USE PathFacts
<1>1. /\ AtFile /\ UNCHANGED <<file, dir, path>> /\ path \in Files
      /\ path \in Sources /\ Searchable(path)
  BY DEF Stat, Recheck, Open, Fstat, Read, treeVars, AtFile, AtHand, Inv, Admission
<1>2. Searchable(path)'
  BY <1>1 DEF Searchable
<1>3. ASSUME pc' = "files", NEW c \in {"permission", "too_large", "binary"},
             ~Fit(path), Skip(path, c)
      PROVE  Explained' /\ AtHand'
  <2>1. FileReason(path, c) /\ c # "unseen" /\ c # "scanned"
    BY <1>3 DEF FileReason
  <2> QED
    BY <1>1, <1>3, <2>1, ExplainedDecided DEF Skip
<1>4. file[path] \in FileNode
  BY <1>1 DEF Inv, TypeOK
<1>5. CASE Stat
  <2> DEFINE size == file[path].size
  <2>1. CASE StatFails
    <3>1. pc' = "files" /\ file[path].kind \in {"gone", "link"} /\ Pass(path, "vanished")
      BY <1>1, <2>1 DEF StatFails
    <3>2. FileReason(path, "vanished")
      BY <3>1 DEF FileReason, Fit
    <3> QED
      BY <1>1, <3>1, <3>2, ExplainedDecided DEF Pass
  <2>2. CASE StatOk /\ Limit(size) = "none"
    <3>1. size <= MaxFileBytes /\ pc' = "recheck" /\ UNCHANGED outcome
      BY <1>4, <2>2, LimitsAssumption DEF StatOk, Limit, FileNode
    <3>2. AtHand'
      BY <1>1, <1>2, <3>1 DEF AtHand, AtFile, Admitted
    <3> QED
      BY <1>1, <3>1, <3>2, ExplainedSame
  <2>3. CASE StatOk /\ Limit(size) # "none"
    <3>1. pc' = "files" /\ Skip(path, Limit(size))
      BY <2>3 DEF StatOk
    <3>2. CASE Limit(size) = "too_large"
      <4>1. ~Fit(path)
        BY <1>4, <3>2, LimitsAssumption DEF Limit, Fit, FileNode
      <4> QED
        BY <1>3, <3>1, <3>2, <4>1
    <3>3. CASE Limit(size) \in {"file_limit", "byte_limit"}
      <4>1. FileReason(path, Limit(size))
        BY <3>3 DEF FileReason
      <4> QED
        BY <1>1, <3>1, <3>3, <4>1, ExplainedDecided DEF Skip
    <3> QED
      BY <2>3, <3>2, <3>3 DEF Limit
  <2> QED
    BY <1>5, <2>1, <2>2, <2>3 DEF Stat
<1>6. CASE Recheck
  <2>1. CASE file[path].kind # "file"
    BY <1>1, <1>3, <1>6, <2>1 DEF Recheck, GiveUp, Fit
  <2>2. CASE file[path].kind = "file"
    <3>1. pc = "recheck" /\ pc' = "open" /\ UNCHANGED outcome
      BY <1>1, <1>6, <2>2 DEF Recheck
    <3>2. AtHand'
      BY <1>1, <1>2, <2>2, <3>1 DEF AtHand, AtFile, Admitted
    <3> QED
      BY <1>1, <3>1, <3>2, ExplainedSame
  <2> QED
    BY <2>1, <2>2
<1>7. CASE Open
  <2>1. file[path].kind = "file" /\ file[path].size <= MaxFileBytes
    BY <1>7 DEF Open, AtHand, Admitted
  <2>2. CASE ~file[path].readable
    BY <1>1, <1>3, <1>7, <2>1, <2>2 DEF Open, GiveUp, Fit
  <2>3. CASE file[path].readable
    <3>1. /\ pc = "open" /\ pc' = "fstat" /\ UNCHANGED outcome
          /\ fd' = [kind |-> file[path].kind, size |-> file[path].size,
                    text |-> file[path].text, linked |-> TRUE]
      BY <1>1, <1>7, <2>1, <2>3 DEF Open
    <3>2. AtHand'
      BY <1>1, <1>2, <2>1, <2>3, <3>1 DEF AtHand, AtFile, Admitted
    <3> QED
      BY <1>1, <3>1, <3>2, ExplainedSame
  <2> QED
    BY <2>2, <2>3
<1>8. CASE Fstat
  <2>1. /\ file[path].kind = "file" /\ file[path].size <= MaxFileBytes /\ file[path].readable
        /\ fd.kind = "file" /\ fd.size = file[path].size /\ fd.text = file[path].text
    BY <1>8 DEF Fstat, AtHand, Admitted
  <2>2. ~(fd.size > MaxFileBytes)
    BY <1>4, <2>1, LimitsAssumption DEF FileNode
  <2>3. pc = "fstat" /\ pc' = "read" /\ UNCHANGED <<outcome, fd>>
    BY <1>8, <2>1, <2>2 DEF Fstat
  <2>4. AtHand'
    BY <1>1, <1>2, <2>1, <2>3 DEF AtHand, AtFile, Admitted
  <2> QED
    BY <1>1, <2>3, <2>4, ExplainedSame
<1>9. CASE Read
  <2>1. /\ file[path].kind = "file" /\ file[path].size <= MaxFileBytes /\ file[path].readable
        /\ fd.kind = "file" /\ fd.size = file[path].size /\ fd.text = file[path].text
    BY <1>9 DEF Read, AtHand, Admitted
  <2>2. ~(fd.size > MaxFileBytes)
    BY <1>4, <2>1, LimitsAssumption DEF FileNode
  <2>3. CASE ~fd.text
    BY <1>3, <1>9, <2>1, <2>3 DEF Read, GiveUp, Fit
  <2>4. CASE fd.text
    <3>1. Pass(path, "selected") /\ pc' = "files"
      BY <1>9, <2>2, <2>4 DEF Read
    <3>2. FileReason(path, "selected")
      BY <1>1, <2>1, <2>4 DEF FileReason, Fit
    <3> QED
      BY <1>1, <3>1, <3>2, ExplainedDecided DEF Pass
  <2> QED
    BY <2>3, <2>4
<1> QED
  BY <1>5, <1>6, <1>7, <1>8, <1>9

\* Nothing has an outcome yet.
LEMMA UndisturbedInit == Init => Undisturbed
<1> SUFFICES ASSUME Init PROVE Undisturbed
  OBVIOUS
<1>1. pc = "start" /\ \A p \in Paths : outcome[p] = "unseen"
  BY DEF Init
<1>2. Explained
  BY <1>1, PathFacts DEF Explained, DirReason, FileReason
<1>3. AtHand
  BY <1>1 DEF AtHand, AtFile, Admitted
<1> QED
  BY <1>2, <1>3 DEF Undisturbed

\* A step of the scanner leaves the tree alone; after any other there is nothing
\* left to show.
LEMMA UndisturbedStep ==
    Inv /\ Walked /\ Counting /\ Undisturbed /\ [Next]_vars => Undisturbed'
<1> SUFFICES ASSUME Inv, Walked, Counting, Undisturbed, [Next]_vars, edits' = 0
             PROVE  Explained' /\ AtHand'
  BY DEF Undisturbed
<1>1. ~Environment
  BY EditsAssumption DEF Environment, Edit, Inv, TypeOK
<1>2. Scan \/ UNCHANGED vars
  BY <1>1 DEF Next, Finished
<1>3. edits = 0
  BY <1>2 DEF Scan, CheckRoot, Walk, Return, DirsDone, FilesDone, ClassifyDir, Lstat,
              Stat, Recheck, Open, Fstat, Read, Resolve, Sort, treeVars, vars
<1>4. Explained /\ AtHand
  BY <1>3 DEF Undisturbed
<1>5. CASE Scan
  BY <1>4, <1>5, ExplainedControl, ExplainedWalk, ExplainedClassify, ExplainedLstat,
     ExplainedFile, ExplainedResolve DEF Scan
<1>6. CASE UNCHANGED vars
  <2>1. Explained'
    BY <1>4, <1>6, ExplainedSame DEF vars
  <2>2. UNCHANGED <<pc, path, fd, file, dir>>
    BY <1>6 DEF vars
  <2>3. AtHand'
    BY <1>4, <2>2 DEF AtHand, AtFile, Admitted, Searchable
  <2> QED
    BY <2>1, <2>3
<1> QED
  BY <1>2, <1>5, <1>6

LEMMA UndisturbedInvariance == Spec => []Undisturbed
  BY UndisturbedInit, UndisturbedStep, Invariance, CountingInvariance, PTL DEF Spec

\* When the scan of such a tree is over, every directory that can be reached was
\* listed, or cannot be.
LEMMA ReachedAreListed ==
    ASSUME Inv, Walked, Explained, AtHand, pc = "done"
    PROVE  \A d \in Reachable : outcome[d] = "scanned" \/ ~dir[d].list
<1> USE PathFacts
<1> DEFINE S == {d \in Dirs : outcome[d] = "scanned" \/ ~dir[d].list}
<1>1. /\ With("listed") = {} /\ With("retained") = {} /\ outcome[Root] # "unseen"
  <2>1. ~InLoop /\ ~AtFile /\ stack = <<>> /\ ToSet(<<>>) = {}
    BY DEF InLoop, AtFile, Walked, ToSet
  <2>2. With("listed") = {} /\ Pending = {}
    BY <2>1 DEF Walked
  <2> QED
    BY <2>2 DEF Pending
<1>2. \A p \in Paths : outcome[p] # "listed" /\ outcome[p] # "retained"
  BY <1>1 DEF With
<1>3. Root \in S
  <2>1. Root \in Dirs /\ dir[Root].kind = "dir"
    BY PathsAssumption DEF AtHand
  <2>2. DirReason(Root, outcome[Root])
    BY <2>1 DEF Explained
  <2> QED
    BY <1>1, <1>2, <2>1, <2>2 DEF DirReason
<1>4. ASSUME NEW d \in S, NEW e \in Dirs, Enters(d, e) PROVE e \in S
  <2>1. /\ outcome[d] = "scanned" /\ dir[d].search /\ Parent[e] = d
        /\ e # Root /\ e \notin Ignored /\ dir[e].kind = "dir"
    BY <1>4 DEF Enters
  <2>2. outcome[e] # "unseen"
    BY <2>1 DEF Explained, Gone
  <2>3. DirReason(e, outcome[e]) /\ Searchable(e)
    BY <2>1 DEF Explained, Searchable
  <2> QED
    BY <1>2, <2>1, <2>2, <2>3 DEF DirReason
<1>5. Reachable \subseteq S
  <2>1. S \in SUBSET Dirs
    OBVIOUS
  <2> HIDE DEF S
  <2> QED
    BY <1>3, <1>4, <2>1 DEF Reachable
<1> QED
  BY <1>5

\* In a tree nobody touches, a scan of a directory is not lost to its sort, and one
\* that meets no limit selects exactly what it should: every readable text file of a selected suffix, and none beyond the size,
\* in the directories that lead there without an ignored name or a link, for every
\* tree (util.py:85-176).
THEOREM QuietScanIsComplete == Spec => []CompleteWhenQuiet
<1> USE PathFacts
<1>1. Inv /\ Walked /\ Counting /\ Undisturbed => CompleteWhenQuiet
  <2> SUFFICES ASSUME Inv, Walked, Counting, Explained, AtHand, pc = "done",
                      skipped["file_limit"] = 0, skipped["byte_limit"] = 0
               PROVE  With("selected") = Expected
    BY DEF Undisturbed, AtHand, CompleteWhenQuiet
  <2>1. With("file_limit") = {} /\ With("byte_limit") = {}
    BY WithFinite, FS_EmptySet DEF Counting, Counters
  <2>2. With("listed") = {}
    BY DEF Walked, AtFile, InLoop
  <2>3. \A f \in Files : Parent[f] \in Dirs /\ f # Root
    BY PathsAssumption
  <2>4. ASSUME NEW f \in With("selected") PROVE f \in Expected
    <3>1. f \in Paths /\ outcome[f] = "selected" /\ f \notin Dirs
      BY DEF With, Explained, DirReason
    <3>2. f \in Files /\ Fit(f)
      BY <3>1 DEF Paths, Explained, FileReason
    <3>3. outcome[Parent[f]] = "scanned"
      BY <2>3, <3>1, <3>2 DEF Walked
    <3>4. Parent[f] \in Reachable /\ dir[Parent[f]].list
      BY <2>3, <3>2, <3>3 DEF Explained, DirReason
    <3> QED
      BY <3>2, <3>4 DEF Expected, Fit, Searchable
  <2>5. ASSUME NEW f \in Expected PROVE f \in With("selected")
    <3>1. f \in Files /\ Fit(f) /\ Parent[f] \in Reachable /\ dir[Parent[f]].list
      BY DEF Expected, Fit, Searchable
    <3>2. outcome[Parent[f]] = "scanned"
      BY <3>1, ReachedAreListed
    <3>3. ~Gone(f)
      BY <3>1 DEF Gone, Fit
    <3>4. outcome[f] # "unseen"
      BY <2>3, <3>1, <3>2, <3>3 DEF Explained
    <3>5. outcome[f] \notin {"listed", "file_limit", "byte_limit"}
      BY <2>1, <2>2, <3>1 DEF With
    <3>6. outcome[f] = "selected"
      BY <3>1, <3>4, <3>5 DEF Explained, FileReason
    <3> QED
      BY <3>1, <3>6 DEF With
  <2> QED
    BY <2>4, <2>5
<1> QED
  BY <1>1, Invariance, CountingInvariance, UndisturbedInvariance, PTL

=============================================================================
