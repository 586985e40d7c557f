-------------------------- MODULE MCNamesAtRunTime --------------------------
(***************************************************************************)
(* Programs of up to four statements with one plain call and an import.    *)
(* jwt has the classes A and B; to make an A, and to call a sign of jwt or *)
(* of a class, is cryptography.                                            *)
(***************************************************************************)
EXTENDS NamesAtRunTime

Plain(o, n, f, t) ==
    [op |-> o, name |-> n, of |-> f, type |-> t, path |-> <<>>, whole |-> FALSE,
     within |-> {}]
With(s, path) == [s EXCEPT !.path = path]

MCNames == {"jwt", "key", "open"}
MCWords == MCNames \cup {"os", "A", "B", "generate", "sign"}
MCTargets == {<<"jwt">>, <<"os">>, <<"jwt", "A">>}
MCLibrary ==
    {<<"jwt", "A">>, <<"jwt", "A", "generate">>,
     <<"jwt", "sign">>, <<"jwt", "A", "sign">>, <<"jwt", "B", "sign">>}
MCPassed == {<<"jwt", "A">>, Other}

Bindings ==
    {Plain("import", "jwt", <<"jwt">>, NoName), Plain("import", "jwt", <<"os">>, NoName),
     [Plain("import", "jwt", <<"jwt", "A">>, NoName) EXCEPT !.whole = TRUE],
     Plain("import", "key", <<"jwt", "A">>, NoName),
     Plain("assign", "jwt", NoName, NoName), Plain("assign", "key", NoName, NoName),
     Plain("rebind", "jwt", NoName, NoName),
     With(Plain("make", "key", "jwt", NoName), <<"A">>),
     With(Plain("make", "key", "jwt", NoName), <<"B">>),
     With(Plain("make", "key", "jwt", NoName), <<"A", "generate">>),
     Plain("make", "jwt", "key", NoName), Plain("make", "key", "open", NoName),
     With(Plain("annotate", "key", NoName, "jwt"), <<"A">>),
     Plain("def", "jwt", NoName, NoName), Plain("def", "key", "jwt", NoName),
     With(Plain("def", "jwt", "key", "jwt"), <<"A">>),
     With(Plain("def", "open", "key", "jwt"), <<"A">>)}
    \cup {Plain("if", NoName, t, NoName) : t \in {"true", "false", "open"}}
Calls ==
    {With(Plain("use", n, NoName, NoName), <<"sign">>) : n \in {"jwt", "key"}}
    \cup {With(Plain("use", "jwt", NoName, NoName), <<"A", "sign">>)}

\* Where the next statement may stand after those of p: in the block of the last one,
\* further out, in the alternative of a test, or inside the last one, which an empty
\* test requires.
Places(p) ==
    IF p = <<>> THEN {{}}
    ELSE LET n == Len(p)
             here == p[n].within
             outer(k) == {e \in here : e[1] < k}
         IN  IF p[n].op = "if" THEN {here \cup {<<n, b>>} : b \in Branches}
             ELSE {outer(k) : k \in 1..(n + 1)}
                  \cup {outer(e[1]) \cup {<<e[1], "orelse">>} :
                           e \in {d \in here : p[d[1]].op = "if"}}
                  \cup {here \cup {<<k, "body">>} : k \in {j \in {n} : p[j].op = "def"}}

Nested == {w \in SUBSET ((1..3) \X Branches) : Cardinality(w) <= 2}
Sites(ps) == {e \in ps \X Nested : e[2] \in Places(e[1])}

Count(p, o) == Cardinality({i \in DOMAIN p : p[i].op = o})

\* Whether s may come next: there is one plain call, and no function in a function.
\* The last statement is the call or the import that is still missing.
Fits(p, w, s, last) ==
    /\ s.op = "use" => Count(p, "use") = 0
    /\ s.op = "def" => \A e \in w : p[e[1]].op # "def"
    /\ last => s.op = "use" \/ Count(p, "use") = 1
    /\ last => s.op = "import" \/ Count(p, "import") > 0

Longer(ps, last) ==
    {Append(c[1][1], [c[2] EXCEPT !.within = c[1][2]]) :
        c \in {d \in Sites(ps) \X (Bindings \cup Calls) : Fits(d[1][1], d[1][2], d[2], last)}}

Threes ==
    {p \in Longer(Longer(Longer({<<>>}, FALSE), FALSE), FALSE) :
        Count(p, "use") + Count(p, "import") > 0}
MCPrograms == Longer(Threes, TRUE)
=============================================================================
