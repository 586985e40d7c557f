----------------------------- MODULE MCDiscovery -----------------------------
(***************************************************************************)
(* Small trees for Discovery.  The root holds two source files, a file of  *)
(* another suffix, a directory "pkg" with one source file, and "vendor",   *)
(* whose name is ignored.                                                  *)
(***************************************************************************)
EXTENDS Discovery

CONSTANTS root, pkg, vendor, a, b, c, v, readme

MCDirs  == {root, pkg, vendor}
MCFiles == {a, b, c, v, readme}
MCParent == [p \in MCDirs \cup MCFiles |->
                IF p = c THEN pkg ELSE IF p = v THEN vendor ELSE root]
MCIgnored == {vendor}
MCSources == {a, b, c, v}

\* root < root/a < root/pkg < root/pkg/c < root/readme < root/vendor < ... < root/z
MCRank == [p \in MCDirs \cup MCFiles |->
    CASE p = root -> 0 [] p = a -> 1 [] p = pkg -> 2 [] p = c -> 3
      [] p = readme -> 4 [] p = vendor -> 5 [] p = v -> 6 [] p = b -> 7]

Regular(n) == [kind |-> "file", size |-> n, text |-> TRUE, readable |-> TRUE]
Open_(k) == [kind |-> k, list |-> TRUE, search |-> TRUE]

Tree(fa, fb, fc, dpkg) ==
    [file |-> [f \in MCFiles |-> CASE f = a -> fa [] f = b -> fb [] f = c -> fc
                                   [] f = v -> Regular(1) [] f = readme -> Regular(2)],
     dir  |-> [d \in MCDirs |-> IF d = pkg THEN dpkg ELSE Open_("dir")]]

\* One tree within every limit and one that meets the file and byte limits.
RacedTrees ==
    {Tree(Regular(1), Regular(1), Regular(1), Open_("dir")),
     Tree(Regular(2), Regular(1), Regular(2), Open_("dir"))}

\* Every mixture of kinds, sizes, contents and permissions.
SomeNodes ==
    {[kind |-> k, size |-> n, text |-> t, readable |-> r] :
        k \in {"file", "link", "other"}, n \in 1..3, t \in BOOLEAN, r \in BOOLEAN}
FewNodes ==
    {Regular(1), Regular(2), Regular(3), [Regular(1) EXCEPT !.kind = "link"],
     [Regular(1) EXCEPT !.text = FALSE], [Regular(1) EXCEPT !.readable = FALSE]}
SomeDirs ==
    {Open_("dir"), Open_("link"), [Open_("dir") EXCEPT !.list = FALSE],
     [Open_("dir") EXCEPT !.search = FALSE]}

\* Nobody changes a tree whose readme, which no scan opens, has one byte.
Quiet(tree) == [tree EXCEPT !.file[readme] = Regular(1)]

QuietTrees ==
    {Tree(fa, fb, fc, d) : fa \in SomeNodes, fb \in FewNodes, fc \in FewNodes,
                           d \in SomeDirs}
    \cup {[Tree(Regular(1), Regular(1), Regular(1), Open_("dir"))
              EXCEPT !.dir[root] = r] :
            r \in SomeDirs \cup {Open_("gone")}}

MCTrees == RacedTrees \cup {Quiet(t) : t \in QuietTrees}

MCNext ==
    \/ Scan
    \/ pc \notin {"done", "raised"} /\ file[readme].size # 1 /\ Environment
    \/ Finished

MCSpec == Init /\ [][MCNext]_vars /\ Fairness
=============================================================================
