---------------------------- MODULE NameResolution ----------------------------
(***************************************************************************)
(* How the Python analyzer decides what a called name means.  It reads the *)
(* whole file three times in the order of ast.walk, which is breadth first *)
(* and not the order of execution: once for what names are imported as and *)
(* which of them are shadowed, once for the types of variables, once for   *)
(* the calls.  A program is a sequence of statements in source order.      *)
(***************************************************************************)
EXTENDS Integers, FiniteSets, Sequences

CONSTANTS
    Names,          \* identifiers a program binds or uses
    Words,          \* those and the attributes: what dotted names are made of
    Targets,        \* dotted names of what can be imported
    Library,        \* dotted names that _classify_call takes for cryptography
    NoName,         \* not a name, neither plain nor dotted
    Programs        \* the files the analyzer may be given

Dotted == Seq(Words)
Blocks == {"def", "if"}
Branches == {"body", "orelse"}

\* within: the blocks around a statement, each with the branch it is in.
\* import of as name, or, when whole, import of, which binds its first word only;
\* name = constant;  name = of.path(...);  name: type.path = value;
\* def name(of: type.path);  name.path(...);  if of
\* rebind: the name is among several targets, or is that of a for, with or except.
WellFormed(s) ==
    /\ s.op \in {"import", "assign", "rebind", "make", "annotate", "def", "use", "if"}
    /\ s.op # "if" => s.name \in Names
    /\ s.path \in Dotted /\ s.whole \in BOOLEAN
    /\ s.op = "import" => s.of \in Targets /\ (s.whole => s.name = Head(s.of))
    /\ s.op = "make" => s.of \in Names
    /\ s.op = "annotate" => s.type \in Names
    /\ s.op = "def" => s.of \in Names \cup {NoName} /\ s.type \in Names \cup {NoName}
    /\ s.op = "if" => s.of \in {"true", "false", "open"}
    /\ IsFiniteSet(s.within)

\* Blocks nest; a function has no function inside.
ProgramsAssumption ==
    /\ Names \subseteq Words /\ Targets \subseteq Dotted \ {<<>>}
    /\ NoName \notin Names \cup Dotted
    /\ \A p \in Programs :
          /\ DOMAIN p = 1..Len(p)
          /\ \A i \in DOMAIN p :
                /\ WellFormed(p[i])
                /\ \A e \in p[i].within :
                      /\ e[1] \in 1..(i - 1) /\ e[2] \in Branches
                      /\ p[e[1]].op \in Blocks
                      /\ p[e[1]].op = "def" => p[i].op # "def"
                      /\ p[e[1]].within = {d \in p[i].within : d[1] < e[1]}

ASSUME ProgramsAssumption

VARIABLES
    prog,
    stage,          \* "imports", "types", "calls", "done"
    unvisited,      \* statements the first pass has still to meet
    aliases,        \* name -> what it was last imported as
    shadowed,       \* imported names that are assigned to or defined as well
    inferred,       \* name -> the one type it was given
    reported        \* calls that become findings

nameVars == <<prog, stage, unvisited, aliases, shadowed, inferred, reported>>

-----------------------------------------------------------------------------
\* The order of ast.walk.
Depth(i) == Cardinality(prog[i].within)
Before(i, j) == Depth(i) < Depth(j) \/ (Depth(i) = Depth(j) /\ i < j)

\* A name that is one of several targets, or bound by a for, a with or an except,
\* goes unnoticed.
Rebinds(i) == prog[i].op \in {"assign", "make", "annotate", "def"}

FaultyNoteBinding(i) ==         \* a function does not shadow an import
    LET s == prog[i]
    IN  /\ aliases' = IF s.op = "import" THEN [aliases EXCEPT ![s.name] = s.of] ELSE aliases
        /\ shadowed' = IF s.op \in {"assign", "make", "annotate"} /\ aliases[s.name] # NoName
                       THEN shadowed \cup {s.name} ELSE shadowed

NoteBinding(i) ==
    LET s == prog[i]
    IN  /\ aliases' = IF s.op = "import" THEN [aliases EXCEPT ![s.name] = s.of] ELSE aliases
        /\ shadowed' = IF Rebinds(i) /\ aliases[s.name] # NoName
                       THEN shadowed \cup {s.name} ELSE shadowed

\* _imports, one node.
Visit(i) ==
    /\ stage = "imports" /\ i \in unvisited
    /\ \A j \in unvisited \ {i} : Before(i, j)
    /\ unvisited' = unvisited \ {i}
    /\ NoteBinding(i)
    /\ stage' = IF unvisited' = {} THEN "types" ELSE "imports"
    /\ UNCHANGED <<prog, inferred, reported>>

\* _qualified_name, before types are known.
Imported(n) == IF aliases[n] # NoName THEN aliases[n] ELSE <<n>>

\* What a call of q returns goes by the name of q, or of the class whose constructor
\* q is.
Constructors == {"generate", "from_private_bytes", "from_public_bytes"}
Made(q) == IF Len(q) > 1 /\ q[Len(q)] \in Constructors THEN SubSeq(q, 1, Len(q) - 1) ELSE q

FaultyCandidates(n) ==          \* aliases are not looked through
    {Made(<<prog[i].of>> \o prog[i].path) : i \in {j \in DOMAIN prog :
        prog[j].op = "make" /\ prog[j].name = n /\ prog[j].of \notin shadowed}}

\* An annotation is taken at its word.
Annotates(i, n) ==
    \/ prog[i].op = "annotate" /\ prog[i].name = n
    \/ prog[i].op = "def" /\ prog[i].of = n /\ prog[i].type # NoName

Candidates(n) ==
    {Made(Imported(prog[i].of) \o prog[i].path) : i \in {j \in DOMAIN prog :
        prog[j].op = "make" /\ prog[j].name = n /\ prog[j].of \notin shadowed}}
    \cup
    {Imported(prog[i].type) \o prog[i].path : i \in {j \in DOMAIN prog :
        Annotates(j, n) /\ prog[j].type \notin shadowed}}

\* _inferred_types: a name given two types has none.
InferTypes ==
    /\ stage = "types" /\ stage' = "calls"
    /\ inferred' = [n \in Names |->
          IF Cardinality(Candidates(n)) = 1 THEN CHOOSE t \in Candidates(n) : TRUE ELSE NoName]
    /\ UNCHANGED <<prog, unvisited, aliases, shadowed, reported>>

-----------------------------------------------------------------------------
\* _qualified_name: a type goes before an import.
Qualified(n) == IF inferred[n] # NoName THEN inferred[n] ELSE Imported(n)

FaultyUnreachable(i) ==         \* the alternative of a false test is skipped
    \E e \in prog[i].within :
        /\ prog[e[1]].op = "if"
        /\ e[2] = IF prog[e[1]].of = "true" THEN "body" ELSE "orelse"

Unreachable(i) ==
    \E e \in prog[i].within :
        /\ prog[e[1]].op = "if"
        /\ \/ prog[e[1]].of = "false" /\ e[2] = "body"
           \/ prog[e[1]].of = "true" /\ e[2] = "orelse"

IsCall(i) == prog[i].op \in {"use", "make"}
Callee(i) == IF prog[i].op = "make" THEN prog[i].of ELSE prog[i].name

FaultyBecomesFinding(i) ==      \* a definition is taken for a call
    /\ prog[i].op \notin {"if", "import"} /\ ~Unreachable(i)
    /\ Callee(i) \notin shadowed
    /\ Qualified(Callee(i)) \o prog[i].path \in Library

BecomesFinding(i) ==
    /\ IsCall(i) /\ ~Unreachable(i)
    /\ Callee(i) \notin shadowed
    /\ Qualified(Callee(i)) \o prog[i].path \in Library

ReportCalls ==
    /\ stage = "calls" /\ stage' = "done"
    /\ reported' = {i \in DOMAIN prog : BecomesFinding(i)}
    /\ UNCHANGED <<prog, unvisited, aliases, shadowed, inferred>>

-----------------------------------------------------------------------------
NameInit ==
    /\ prog \in Programs
    /\ stage = IF prog = <<>> THEN "types" ELSE "imports"
    /\ unvisited = DOMAIN prog
    /\ aliases = [n \in Names |-> NoName]
    /\ shadowed = {}
    /\ inferred = [n \in Names |-> NoName]
    /\ reported = {}

Analyze == (\E i \in unvisited : Visit(i)) \/ InferTypes \/ ReportCalls

NameTypeOK ==
    /\ stage \in {"imports", "types", "calls", "done"}
    /\ unvisited \subseteq DOMAIN prog
    /\ aliases \in [Names -> Targets \cup {NoName}]
    /\ shadowed \subseteq Names
    /\ inferred \in [Names -> {NoName} \cup Dotted]
    /\ reported \subseteq {i \in DOMAIN prog : IsCall(i)}
=============================================================================
