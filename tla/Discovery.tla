------------------------------ MODULE Discovery ------------------------------
(***************************************************************************)
(* The bounded source discovery of a scan: iter_source_files and           *)
(* safe_read_text (util.py), driven by os.walk, while other processes keep *)
(* changing the tree.  Every system call of the scanner is a step of its   *)
(* own, so the tree may change between the listing, the lstat, the stat,   *)
(* the second lstat, the open, the fstat and the read of one file, and     *)
(* between the resolutions of the final sort.                              *)
(*                                                                         *)
(* Names and contents are abstracted to what the code tests: whether a     *)
(* directory name is ignored, whether a suffix is selected, the rank of a  *)
(* path in the sorted order, a size, and whether the first bytes hold NUL. *)
(***************************************************************************)
EXTENDS Integers, FiniteSets, Sequences, SequencesExt

CONSTANTS
    Dirs,           \* paths of directories
    Files,          \* paths that are not directories
    Root,           \* the scan root, one of Dirs
    Parent,         \* the directory that holds a path
    Ignored,        \* the directories whose name is in ignored_dirs
    Sources,        \* the files whose suffix is in `extensions`
    Rank,           \* the position of a path in the order of sorted()
    InitTrees,      \* the trees a scan may start from
    MaxFiles, MaxFileBytes, MaxTotalBytes,  \* the limits of audit()
    Sizes,          \* sizes another process may write a file to
    MaxEdits        \* bound on the changes other processes make

Paths == Dirs \cup Files

FileNode == [kind : {"file", "link", "other", "gone"}, size : Nat,
             text : BOOLEAN, readable : BOOLEAN]
DirNode  == [kind : {"dir", "link", "gone"}, list : BOOLEAN, search : BOOLEAN]

ASSUME PathsAssumption ==
    /\ IsFiniteSet(Paths)
    /\ Root \in Dirs
    /\ Dirs \cap Files = {}
    /\ Parent \in [Paths -> Dirs]
    /\ Ignored \subseteq Dirs
    /\ Sources \subseteq Files
    /\ Rank \in [Paths -> Nat]
    /\ \A p, q \in Paths : Rank[p] = Rank[q] => p = q

ASSUME TreesAssumption ==
    InitTrees \subseteq [file : [Files -> FileNode], dir : [Dirs -> DirNode]]

ASSUME LimitsAssumption ==
    /\ MaxFiles \in Nat \ {0}
    /\ MaxFileBytes \in Nat \ {0}
    /\ MaxTotalBytes \in Nat \ {0}

ASSUME EditsAssumption == Sizes \subseteq Nat /\ MaxEdits \in Nat

Counters == {"symlink", "too_large", "binary", "permission",
             "file_limit", "byte_limit", "walk_error"}

\* What became of a path.  The counters are what the result reports; the
\* other outcomes leave no trace in it.
Outcomes == Counters \cup
    {"unseen", "listed", "retained", "scanned", "ignored", "extension",
     "vanished", "selected"}

VARIABLES
    file, dir,      \* the tree, shared with other processes
    edits,          \* how many changes they made
    pc,             \* the next step of the scanner
    stack,          \* directories os.walk has still to list
    dirsTodo,       \* entries of the current directory left in the dirs loop
    filesTodo,      \* entries left in the files loop
    retained,       \* retained_dirs
    path,           \* the file the loop is at
    measured,       \* the st_size each file had when the scanner asked
    fd,             \* the open descriptor of safe_read_text
    selected,       \* the list being built
    total,          \* the bytes accounted to it
    keys,           \* the sort keys of the selected paths resolved so far
    skipped,        \* the counters
    outcome,        \* history: what became of each path
    content         \* history: the bytes of the texts that were read

treeVars == <<file, dir, edits>>
walkVars == <<stack, dirsTodo, filesTodo, retained>>
vars == <<file, dir, edits, pc, stack, dirsTodo, filesTodo, retained, path,
          measured, fd, selected, total, keys, skipped, outcome, content>>

Closed == [kind |-> "closed", size |-> 0, text |-> FALSE, linked |-> FALSE]

Descriptor == [kind : {"closed", "file", "link", "other"}, size : Nat,
               text : BOOLEAN, linked : BOOLEAN]
Selected == [path : Files, bytes : Nat, kind : {"closed", "file", "link", "other"}]

ScanPC == {"start", "walk", "dirs", "files", "stat", "recheck", "open",
           "fstat", "read", "sort", "done", "raised"}

(***************************************************************************)
(* Helpers                                                                 *)
(***************************************************************************)

\* Definitions named Faulty... are plausible mistakes in the definition that
\* follows them; nothing uses them, and each breaks a property when it does.
FaultyZeroCounters == [c \in Counters \ {"walk_error"} |-> 0]
ZeroCounters == [c \in Counters |-> 0]

\* The entry a sorted loop takes next.
IsFirst(p, S) == p \in S /\ \A q \in S : Rank[p] <= Rank[q]

\* Count p under counter c and go on with the loop.
Skip(p, c) ==
    /\ skipped' = [skipped EXCEPT ![c] = @ + 1]
    /\ outcome' = [outcome EXCEPT ![p] = c]

\* Leave p without a trace in the result.
Pass(p, why) ==
    /\ outcome' = [outcome EXCEPT ![p] = why]
    /\ UNCHANGED skipped

Searchable(p) == dir[Parent[p]].search

-----------------------------------------------------------------------------
(***************************************************************************)
(* The initial state: any of the trees, nothing scanned.                   *)
(***************************************************************************)
Init ==
    /\ \E t \in InitTrees : file = t.file /\ dir = t.dir
    /\ edits = 0
    /\ pc = "start"
    /\ stack = <<>> /\ retained = <<>>
    /\ dirsTodo = {} /\ filesTodo = {}
    /\ path = Root      \* no file yet
    /\ measured = [f \in Files |-> 0]
    /\ fd = Closed
    /\ selected = <<>> /\ total = 0 /\ content = 0 /\ keys = <<>>
    /\ skipped = ZeroCounters
    /\ outcome = [p \in Paths |-> "unseen"]

\* A root that is a symlink or no directory raises ValueError.
CheckRoot ==
    /\ pc = "start"
    /\ IF dir[Root].kind = "dir"
       THEN pc' = "walk" /\ stack' = <<Root>>
       ELSE pc' = "raised" /\ UNCHANGED stack
    /\ UNCHANGED <<treeVars, dirsTodo, filesTodo, retained, path, measured,
                   fd, selected, total, keys, skipped, outcome, content>>

(***************************************************************************)
(* os.walk: list the next directory, or report it to on_walk_error.        *)
(***************************************************************************)
ScandirOk(d) ==
    /\ dir[d].kind = "dir" /\ dir[d].list
    /\ dirsTodo'  = {e \in Dirs \ {Root} : Parent[e] = d /\ dir[e].kind # "gone"}
    /\ filesTodo' = {f \in Files : Parent[f] = d /\ file[f].kind # "gone"}
    /\ outcome' = [p \in Paths |-> IF p = d THEN "scanned"
                                   ELSE IF p \in dirsTodo' \cup filesTodo'
                                        THEN "listed" ELSE outcome[p]]
    /\ pc' = "dirs"
    /\ UNCHANGED skipped

ScandirFailed(d) ==
    /\ \/ dir[d].kind = "dir" /\ ~dir[d].list /\ Skip(d, "permission")
       \/ dir[d].kind # "dir" /\ Skip(d, "walk_error")
    /\ UNCHANGED <<pc, dirsTodo, filesTodo>>

\* A directory that disappeared stays on the stack.
FaultyWalk ==
    /\ pc = "walk" /\ stack # <<>>
    /\ \/ ScandirOk(Head(stack)) /\ stack' = Tail(stack)
       \/ /\ dir[Head(stack)].kind # "gone" /\ ScandirFailed(Head(stack))
          /\ stack' = Tail(stack)
       \/ dir[Head(stack)].kind = "gone"
          /\ UNCHANGED <<pc, stack, dirsTodo, filesTodo, skipped, outcome>>
    /\ retained' = <<>>
    /\ UNCHANGED <<treeVars, path, measured, fd, selected, total, keys, content>>

Walk ==
    /\ pc = "walk" /\ stack # <<>>
    /\ ScandirOk(Head(stack)) \/ ScandirFailed(Head(stack))
    /\ stack' = Tail(stack)
    /\ retained' = <<>>
    /\ UNCHANGED <<treeVars, path, measured, fd, selected, total, keys, content>>

\* When no directory is left the selection is sorted.
Return ==
    /\ pc = "walk" /\ stack = <<>>
    /\ pc' = "sort"
    /\ UNCHANGED <<treeVars, walkVars, path, measured, fd, selected, total, keys,
                   skipped, outcome, content>>

(***************************************************************************)
(* The sort key of a path is relative_posix, which resolves it on the file *)
(* system again, one path after the other.  A file that has become a link  *)
(* gets the place of the link's target; a target outside the tree, or a    *)
(* loop of links, raises, and nothing catches it.                          *)
(***************************************************************************)
Resolve ==
    /\ pc = "sort" /\ Len(keys) < Len(selected)
    /\ LET f == selected[Len(keys) + 1].path IN
       \/ file[f].kind # "link" /\ keys' = Append(keys, Rank[f]) /\ UNCHANGED pc
       \/ file[f].kind = "link" /\ UNCHANGED pc
          /\ \E target \in Paths : keys' = Append(keys, Rank[target])
       \/ file[f].kind = "link" /\ pc' = "raised" /\ UNCHANGED keys
    /\ UNCHANGED <<treeVars, walkVars, path, measured, fd, selected, total,
                   skipped, outcome, content>>

\* s read in the order `order`, and the order of a stable sort by key.
Reordered(s, order) == [i \in DOMAIN s |-> s[order[i]]]

SortOrders(key) ==
    {order \in Injection(DOMAIN key, DOMAIN key) : \A i, j \in DOMAIN key :
        i < j => \/ key[order[i]] < key[order[j]]
                 \/ key[order[i]] = key[order[j]] /\ order[i] < order[j]}

Sort ==
    /\ pc = "sort" /\ Len(keys) = Len(selected)
    /\ pc' = "done"
    /\ \E order \in SortOrders(keys) : selected' = Reordered(selected, order)
    /\ UNCHANGED <<treeVars, walkVars, path, measured, fd, total, keys, skipped,
                   outcome, content>>

(***************************************************************************)
(* The dirs loop keeps what may be walked into.  os.walk reads the kept    *)
(* list only after the files loop, when the generator resumes.             *)
(***************************************************************************)
\* The names in ignored_dirs are not tested.
FaultyClassifyDir(e) ==
    /\ pc = "dirs" /\ IsFirst(e, dirsTodo)
    /\ dirsTodo' = dirsTodo \ {e}
    /\ Pass(e, "retained") /\ retained' = Append(retained, e)
    /\ UNCHANGED <<treeVars, pc, stack, filesTodo, path, measured, fd,
                   selected, total, keys, content>>

ClassifyDir(e) ==
    /\ pc = "dirs" /\ IsFirst(e, dirsTodo)
    /\ dirsTodo' = dirsTodo \ {e}
    /\ IF e \in Ignored
       THEN Pass(e, "ignored") /\ UNCHANGED retained
       ELSE IF ~Searchable(e)
       THEN Skip(e, "permission") /\ UNCHANGED retained
       ELSE IF dir[e].kind = "link"
       THEN Skip(e, "symlink") /\ UNCHANGED retained
       ELSE Pass(e, "retained") /\ retained' = Append(retained, e)
    /\ UNCHANGED <<treeVars, pc, stack, filesTodo, path, measured, fd,
                   selected, total, keys, content>>

DirsDone ==
    /\ pc = "dirs" /\ dirsTodo = {}
    /\ pc' = "files"
    /\ UNCHANGED <<treeVars, walkVars, path, measured, fd, selected, total,
                   keys, skipped, outcome, content>>

\* The retained directories are never walked into.
FilesDone ==
    /\ pc = "files" /\ filesTodo = {}
    /\ pc' = "walk"
    /\ stack' = retained \o stack
    /\ UNCHANGED <<treeVars, dirsTodo, filesTodo, retained, path, measured, fd,
                   selected, total, keys, skipped, outcome, content>>

(***************************************************************************)
(* The files loop.  Lstat: path.is_symlink(), then the suffix.             *)
(***************************************************************************)
Lstat(f) ==
    /\ pc = "files" /\ IsFirst(f, filesTodo)
    /\ filesTodo' = filesTodo \ {f}
    /\ IF ~Searchable(f)
       THEN Skip(f, "permission") /\ UNCHANGED <<pc, path>>
       ELSE IF file[f].kind = "link"
       THEN Skip(f, "symlink") /\ UNCHANGED <<pc, path>>
       ELSE IF f \notin Sources
       THEN Pass(f, "extension") /\ UNCHANGED <<pc, path>>
       ELSE pc' = "stat" /\ path' = f /\ UNCHANGED <<skipped, outcome>>
    /\ UNCHANGED <<treeVars, stack, dirsTodo, retained, measured, fd,
                   selected, total, keys, content>>

\* One byte too few.
FaultyLimitBytes(size) ==
    IF size > MaxFileBytes THEN "too_large"
    ELSE IF Len(selected) >= MaxFiles THEN "file_limit"
    ELSE IF total + size >= MaxTotalBytes THEN "byte_limit"
    ELSE "none"

\* The limits, tested in the order of the code against the st_size just read.
Limit(size) ==
    IF size > MaxFileBytes THEN "too_large"
    ELSE IF Len(selected) >= MaxFiles THEN "file_limit"
    ELSE IF total + size > MaxTotalBytes THEN "byte_limit"
    ELSE "none"

\* path.stat() follows a link that has replaced the file; the size is then
\* its target's, or the call fails when the target does not exist.
StatFails ==
    /\ \/ ~Searchable(path) /\ Skip(path, "permission")
       \/ /\ Searchable(path) /\ file[path].kind \in {"gone", "link"}
          /\ Pass(path, "vanished")
    /\ pc' = "files"
    /\ UNCHANGED measured

\* A skip is counted and the loop goes on with the same file.
FaultyStatOk ==
    LET size == file[path].size IN
    /\ Searchable(path) /\ file[path].kind # "gone"
    /\ measured' = [measured EXCEPT ![path] = size]
    /\ pc' = "recheck"
    /\ IF Limit(size) = "none" THEN UNCHANGED <<skipped, outcome>>
       ELSE Skip(path, Limit(size))

StatOk ==
    LET size == file[path].size IN
    /\ Searchable(path) /\ file[path].kind # "gone"
    /\ measured' = [measured EXCEPT ![path] = size]
    /\ IF Limit(size) = "none"
       THEN pc' = "recheck" /\ UNCHANGED <<skipped, outcome>>
       ELSE pc' = "files" /\ Skip(path, Limit(size))

Stat ==
    /\ pc = "stat"
    /\ StatFails \/ StatOk
    /\ UNCHANGED <<treeVars, walkVars, path, fd, selected, total, keys, content>>

(***************************************************************************)
(* safe_read_text.  Every way to return None is counted as "binary".       *)
(***************************************************************************)
GiveUp(c) == pc' = "files" /\ fd' = Closed /\ Skip(path, c)

Recheck ==
    /\ pc = "recheck"
    /\ IF ~Searchable(path) THEN GiveUp("permission")
       ELSE IF file[path].kind # "file" THEN GiveUp("binary")
       ELSE pc' = "open" /\ UNCHANGED <<fd, skipped, outcome>>
    /\ UNCHANGED <<treeVars, walkVars, path, measured, selected, total, keys, content>>

\* os.open with O_NOFOLLOW and O_NONBLOCK: a link fails, a FIFO opens.
Open ==
    /\ pc = "open"
    /\ IF ~Searchable(path) THEN GiveUp("permission")
       ELSE IF file[path].kind \in {"link", "gone"} THEN GiveUp("binary")
       ELSE IF ~file[path].readable THEN GiveUp("permission")
       ELSE /\ pc' = "fstat"
            /\ fd' = [kind |-> file[path].kind, size |-> file[path].size,
                      text |-> file[path].text, linked |-> TRUE]
            /\ UNCHANGED <<skipped, outcome>>
    /\ UNCHANGED <<treeVars, walkVars, path, measured, selected, total, keys, content>>

\* S_ISREG is not tested again on the open descriptor.
FaultyFstat ==
    /\ pc = "fstat"
    /\ IF fd.size > MaxFileBytes
       THEN GiveUp("binary")
       ELSE pc' = "read" /\ UNCHANGED <<fd, skipped, outcome>>
    /\ UNCHANGED <<treeVars, walkVars, path, measured, selected, total, keys, content>>

Fstat ==
    /\ pc = "fstat"
    /\ IF fd.kind # "file" \/ fd.size > MaxFileBytes
       THEN GiveUp("binary")
       ELSE pc' = "read" /\ UNCHANGED <<fd, skipped, outcome>>
    /\ UNCHANGED <<treeVars, walkVars, path, measured, selected, total, keys, content>>

\* The total is not advanced.
FaultyRead ==
    /\ pc = "read"
    /\ IF fd.size > MaxFileBytes \/ ~fd.text
       THEN GiveUp("binary") /\ UNCHANGED <<selected, content>>
       ELSE /\ selected' = Append(selected,
                  [path |-> path, bytes |-> fd.size, kind |-> fd.kind])
            /\ content' = content + fd.size
            /\ Pass(path, "selected")
            /\ pc' = "files" /\ fd' = Closed
    /\ UNCHANGED <<treeVars, walkVars, path, measured, total, keys>>

\* The read loop stops one byte above the limit.  The bytes accounted are
\* those of the stat, not those read.
Read ==
    /\ pc = "read"
    /\ IF fd.size > MaxFileBytes \/ ~fd.text
       THEN GiveUp("binary") /\ UNCHANGED <<selected, total, content>>
       ELSE /\ selected' = Append(selected,
                  [path |-> path, bytes |-> fd.size, kind |-> fd.kind])
            /\ total' = total + measured[path]
            /\ content' = content + fd.size
            /\ Pass(path, "selected")
            /\ pc' = "files" /\ fd' = Closed
    /\ UNCHANGED <<treeVars, walkVars, path, measured, keys>>

Scan ==
    \/ CheckRoot \/ Walk \/ Return \/ DirsDone \/ FilesDone
    \/ \E e \in Dirs : ClassifyDir(e)
    \/ \E f \in Files : Lstat(f)
    \/ Stat \/ Recheck \/ Open \/ Fstat \/ Read
    \/ Resolve \/ Sort

-----------------------------------------------------------------------------
(***************************************************************************)
(* Other processes.  A file is rewritten in place (an open descriptor sees *)
(* it), replaced or removed (the descriptor keeps the old inode), or loses *)
(* its permission; an emptied or moved directory disappears.               *)
(***************************************************************************)
Edit == edits < MaxEdits /\ edits' = edits + 1

scanVars == <<pc, walkVars, path, measured, selected, total, keys, skipped,
              outcome, content>>

Rewrite(f, size, text) ==
    /\ file[f].kind = "file"
    /\ file' = [file EXCEPT ![f].size = size, ![f].text = text]
    /\ fd' = IF fd.linked /\ path = f
             THEN [fd EXCEPT !.size = size, !.text = text] ELSE fd
    /\ UNCHANGED dir

Replace(f, kind) ==
    /\ dir[Parent[f]].kind = "dir" /\ file[f].kind # kind
    /\ file' = [file EXCEPT ![f].kind = kind]
    /\ fd' = IF path = f THEN [fd EXCEPT !.linked = FALSE] ELSE fd
    /\ UNCHANGED dir

Chmod(p) ==
    /\ \/ p \in Files /\ file[p].readable
          /\ file' = [file EXCEPT ![p].readable = FALSE] /\ UNCHANGED dir
       \/ p \in Dirs /\ dir[p].kind = "dir"
          /\ \/ dir[p].list /\ dir' = [dir EXCEPT ![p].list = FALSE]
             \/ dir[p].search /\ dir' = [dir EXCEPT ![p].search = FALSE]
          /\ UNCHANGED file
    /\ UNCHANGED fd

\* A directory without live sub-directories is moved away with its files.
RemoveDir(d) ==
    /\ d # Root /\ dir[d].kind = "dir"
    /\ \A e \in Dirs \ {Root} : Parent[e] = d => dir[e].kind = "gone"
    /\ dir' = [dir EXCEPT ![d].kind = "gone"]
    /\ file' = [f \in Files |-> IF Parent[f] = d
                                THEN [file[f] EXCEPT !.kind = "gone"] ELSE file[f]]
    /\ fd' = IF Parent[path] = d THEN [fd EXCEPT !.linked = FALSE] ELSE fd

Environment ==
    /\ Edit
    /\ \/ \E f \in Files, size \in Sizes, text \in BOOLEAN : Rewrite(f, size, text)
       \/ \E f \in Files, k \in {"file", "link", "other", "gone"} : Replace(f, k)
       \/ \E p \in Paths : Chmod(p)
       \/ \E d \in Dirs : RemoveDir(d)
    /\ UNCHANGED scanVars

\* The scan is over: the changes that follow it do not matter.
Finished == pc \in {"done", "raised"} /\ UNCHANGED vars

Next == Scan \/ (pc \notin {"done", "raised"} /\ Environment) \/ Finished

\* The scanner is one thread that never blocks; nobody promises an edit.
Fairness == WF_vars(Scan)

Spec == Init /\ [][Next]_vars /\ Fairness

-----------------------------------------------------------------------------
(***************************************************************************)
(* Properties                                                              *)
(***************************************************************************)

TypeOK ==
    /\ file \in [Files -> FileNode] /\ dir \in [Dirs -> DirNode]
    /\ edits \in 0..MaxEdits
    /\ pc \in ScanPC
    /\ stack \in Seq(Dirs) /\ retained \in Seq(Dirs)
    /\ dirsTodo \subseteq Dirs /\ filesTodo \subseteq Files
    /\ path \in Paths
    /\ measured \in [Files -> Nat]
    /\ fd \in Descriptor
    /\ selected \in Seq(Selected) /\ total \in Nat /\ content \in Nat
    /\ keys \in Seq(Nat)
    /\ skipped \in [Counters -> Nat]
    /\ outcome \in [Paths -> Outcomes]

\* Whatever happens to a file between its stat and its read, the selection
\* holds at most max_files files, none longer than max_file_bytes, and the
\* bytes it reports stay within max_total_bytes.  The content that was read
\* stays within it in a tree nobody touches; the code adds up the sizes it
\* got from stat (util.py:157-175), so the content may go above the total,
\* but each change made by others buys at most max_file_bytes of excess.
WithinLimits ==
    /\ Len(selected) <= MaxFiles
    /\ total <= MaxTotalBytes
    /\ \A i \in DOMAIN selected : selected[i].bytes <= MaxFileBytes
    /\ content <= MaxTotalBytes + edits * MaxFileBytes

\* Text is only ever taken from a descriptor of a regular file, though a link
\* or a FIFO may have taken the place of the file after it was tested
\* (O_NOFOLLOW and S_ISREG in safe_read_text).
RegularFilesOnly ==
    \A i \in DOMAIN selected : selected[i].kind = "file"

\* A limit is only reported of a file that cannot be added to the final
\* selection either: the loop goes on after a skip and still never leaves out
\* a file for a limit that the returned selection does not press against.
LimitSkipsJustified ==
    \A f \in Files :
        /\ outcome[f] = "file_limit" => Len(selected) = MaxFiles
        /\ outcome[f] = "byte_limit" => total + measured[f] > MaxTotalBytes
        /\ outcome[f] = "too_large"  => measured[f] > MaxFileBytes

\* The counters of the result count every path once: no path is both
\* selected and skipped, or skipped under two counters.  And when the scan
\* returns, nothing it listed was dropped half-way: each entry was selected,
\* counted, ignored by its name, or gone when it was measured.
With(o) == {p \in Paths : outcome[p] = o}

CountersAgree ==
    /\ \A c \in Counters : skipped[c] = Cardinality(With(c))
    /\ Len(selected) = Cardinality(With("selected"))
    /\ {selected[i].path : i \in DOMAIN selected} = With("selected")
    /\ pc = "done" => With("listed") \cup With("retained") = {}

\* In a tree nobody touches a scan that has begun is not lost to an exception
\* of its sort, and when no limit is met the selection is exactly the readable
\* regular source files of the directories that can be reached without an
\* ignored name or a link.
Enters(d, e) ==
    /\ dir[d].kind = "dir" /\ dir[d].list /\ dir[d].search
    /\ e # Root /\ Parent[e] = d /\ e \notin Ignored /\ dir[e].kind = "dir"

Reachable ==
    {r \in Dirs : \A S \in SUBSET Dirs :
        (Root \in S /\ \A d \in S, e \in Dirs : Enters(d, e) => e \in S) => r \in S}

Expected ==
    {f \in Sources :
        /\ Parent[f] \in Reachable
        /\ dir[Parent[f]].list /\ dir[Parent[f]].search
        /\ file[f].kind = "file" /\ file[f].readable /\ file[f].text
        /\ file[f].size <= MaxFileBytes}

CompleteWhenQuiet ==
    edits = 0 =>
        /\ pc = "raised" => dir[Root].kind # "dir"
        /\ (pc = "done" /\ skipped["file_limit"] = 0 /\ skipped["byte_limit"] = 0)
              => With("selected") = Expected

\* However often the tree changes under it, the scan comes to an end.
Terminates == <>(pc \in {"done", "raised"})

(***************************************************************************)
(* What the documentation says, and the code does not do.                  *)
(***************************************************************************)

\* docs/LIMITATIONS.md:23-25: a file that disappears during enumeration is
\* recorded.  A file gone before its stat has no counter (util.py:155-156).
DisappearanceRecorded ==
    pc = "done" => \A f \in Sources : outcome[f] # "vanished"
=============================================================================
