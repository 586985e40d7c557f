---------------------------- MODULE NamesAtRunTime ----------------------------
(***************************************************************************)
(* An analyzed program is run, as Python runs it: statements in source     *)
(* order, names of a function local to it if it binds them anywhere.  What *)
(* each call meets is compared with what NameResolution made of it.  The   *)
(* interpreter is no part of the repository; the file it analyzes may be   *)
(* run by anybody in any way.                                              *)
(***************************************************************************)
EXTENDS NameResolution

CONSTANTS
    Other,          \* a value that was not imported
    Unbound,
    Passed,         \* what a function without annotations may be given
    MaxCalls        \* bound: calls of functions of the program

\* A value is the dotted name it goes by, or is no part of what was imported.
Values == {Other} \cup Dotted

RunAssumption ==
    /\ Other \notin Dotted /\ Unbound \notin Values
    /\ Passed \subseteq Values /\ MaxCalls \in Nat

ASSUME RunAssumption

VARIABLES
    globals, locals,
    frame,          \* 0 for the module, or the function that runs
    todo,           \* statements the frame has still to execute
    resume,         \* those of the module while a function runs
    defined,        \* functions that exist by now
    calls,
    met             \* what the callee of each call has been so far

runVars == <<globals, locals, frame, todo, resume, defined, calls, met>>
vars == <<nameVars, runVars>>

-----------------------------------------------------------------------------
In(i, f) == <<f, "body">> \in prog[i].within
InModule(i) == \A e \in prog[i].within : prog[e[1]].op # "def"

Binds(i, n) ==
    /\ prog[i].name = n
    /\ prog[i].op \in {"import", "assign", "rebind", "make", "annotate", "def"}
Parameter(f, n) == prog[f].op = "def" /\ prog[f].of = n

IsLocal(n) ==
    /\ frame # 0
    /\ Parameter(frame, n) \/ \E i \in DOMAIN prog : In(i, frame) /\ Binds(i, n)
Value(n) == IF IsLocal(n) THEN locals[n] ELSE globals[n]

Assign(n, v) ==
    IF frame = 0 THEN globals' = [globals EXCEPT ![n] = v] /\ UNCHANGED locals
                 ELSE locals' = [locals EXCEPT ![n] = v] /\ UNCHANGED globals

Current(i) == i \in todo /\ \A j \in todo : i <= j
Advance(i) == todo' = todo \ {i}

\* An exception ends the frame; whoever called the function goes on.
Raise == todo' = {} /\ UNCHANGED <<globals, locals, defined, met>>

\* import a.b binds a.
Loaded(s) == IF s.whole THEN <<Head(s.of)>> ELSE s.of

\* What v.path is.
Attribute(v, path) == IF v = Other THEN Other ELSE v \o path

\* The value a call returns.
Returned(v) == IF v = Other THEN Other ELSE Made(v)

Import(i) ==
    /\ prog[i].op = "import"
    /\ \/ Advance(i) /\ Assign(prog[i].name, Loaded(prog[i])) /\ UNCHANGED <<defined, met>>
       \/ Raise

AssignOther(i) ==
    /\ prog[i].op \in {"assign", "rebind"}
    /\ Advance(i) /\ Assign(prog[i].name, Other) /\ UNCHANGED <<defined, met>>

Make(i) ==
    /\ prog[i].op = "make"
    /\ LET v == Value(prog[i].of)
           callee == Attribute(v, prog[i].path)
       IN  \/ v = Unbound /\ Raise
           \/ /\ v # Unbound
              /\ Advance(i) /\ Assign(prog[i].name, Returned(callee))
              /\ met' = [met EXCEPT ![i] = @ \cup {callee}]
              /\ UNCHANGED defined

Use(i) ==
    /\ prog[i].op = "use"
    /\ LET v == Value(prog[i].name)
       IN  \/ v = Unbound /\ Raise
           \/ /\ v # Unbound
              /\ Advance(i)
              /\ met' = [met EXCEPT ![i] = @ \cup {Attribute(v, prog[i].path)}]
              /\ UNCHANGED <<globals, locals, defined>>

\* The value is what its annotation says, and is not to be had before that exists.
Annotate(i) ==
    /\ prog[i].op = "annotate"
    /\ LET v == Value(prog[i].type)
       IN  \/ v = Unbound /\ Raise
           \/ /\ v # Unbound
              /\ Advance(i) /\ Assign(prog[i].name, Attribute(v, prog[i].path))
              /\ UNCHANGED <<defined, met>>

\* The annotation is evaluated with the definition.
Define(i) ==
    /\ prog[i].op = "def"
    /\ \/ prog[i].type # NoName /\ Value(prog[i].type) = Unbound /\ Raise
       \/ /\ prog[i].type # NoName => Value(prog[i].type) # Unbound
          /\ Advance(i) /\ Assign(prog[i].name, Other)
          /\ defined' = defined \cup {i} /\ UNCHANGED met

Branch(i) ==
    /\ prog[i].op = "if"
    /\ \E b \in Branches :
          /\ prog[i].of = "true" => b = "body"
          /\ prog[i].of = "false" => b = "orelse"
          /\ todo' = {j \in todo \ {i} : \A e \in prog[j].within : e[1] = i => e[2] = b}
    /\ UNCHANGED <<globals, locals, defined, met>>

Execute(i) ==
    /\ Current(i)
    /\ \/ Import(i) \/ AssignOther(i) \/ Make(i) \/ Use(i)
       \/ Annotate(i) \/ Define(i) \/ Branch(i)
    /\ UNCHANGED <<frame, resume, calls>>

\* An argument is what its annotation says, or anything.
Argument(f) ==
    IF prog[f].type = NoName THEN Passed
    ELSE {Attribute(v, prog[f].path) : v \in {globals[prog[f].type]} \ {Unbound}}

Call(f) ==
    /\ frame = 0 /\ calls < MaxCalls /\ f \in defined
    /\ \E v \in Argument(f) :
          locals' = [n \in Names |-> IF n = prog[f].of THEN v ELSE Unbound]
    /\ frame' = f /\ calls' = calls + 1
    /\ todo' = {i \in DOMAIN prog : In(i, f)} /\ resume' = todo
    /\ UNCHANGED <<globals, defined, met>>

FunctionReturns ==
    /\ frame # 0 /\ todo = {}
    /\ frame' = 0 /\ todo' = resume /\ resume' = {}
    /\ locals' = [n \in Names |-> Unbound]
    /\ UNCHANGED <<globals, defined, calls, met>>

-----------------------------------------------------------------------------
Init ==
    /\ NameInit
    /\ globals = [n \in Names |-> Unbound] /\ locals = [n \in Names |-> Unbound]
    /\ frame = 0
    /\ todo = {i \in DOMAIN prog : InModule(i)} /\ resume = {}
    /\ defined = {} /\ calls = 0
    /\ met = [i \in DOMAIN prog |-> {}]

Run ==
    \/ \E i \in todo : Execute(i)
    \/ \E f \in defined : Call(f)
    \/ FunctionReturns

\* The module has run to its end; its functions may be called no more often.
Finished ==
    /\ stage = "done" /\ frame = 0 /\ todo = {}
    /\ UNCHANGED vars

Next ==
    \/ Analyze /\ UNCHANGED runVars
    \/ stage = "done" /\ Run /\ UNCHANGED nameVars
    \/ Finished

Spec == Init /\ [][Next]_vars

-----------------------------------------------------------------------------
RunTypeOK ==
    /\ globals \in [Names -> {Unbound} \cup Values]
    /\ locals \in [Names -> {Unbound} \cup Values]
    /\ frame \in {0} \cup DOMAIN prog
    /\ todo \subseteq DOMAIN prog /\ resume \subseteq DOMAIN prog
    /\ defined \subseteq {i \in DOMAIN prog : prog[i].op = "def"}
    /\ calls \in 0..MaxCalls
    /\ met \in [DOMAIN prog -> SUBSET Values]

\* The variables have their types.
TypeOK == NameTypeOK /\ RunTypeOK

\* A call that is skipped as statically unreachable is never executed, whatever
\* functions are called and whatever open tests decide (_statically_unreachable).
UnreachableNeverRuns ==
    \A i \in DOMAIN prog : met[i] # {} => ~Unreachable(i)

\* The name is bound somewhere in the file, and each time by an import of t that
\* binds it to t.
OnlyImportedAs(n, t) ==
    /\ \E i \in DOMAIN prog : Binds(i, n)
    /\ \A i \in DOMAIN prog :
          /\ Binds(i, n) => prog[i].op = "import" /\ prog[i].of = t /\ Loaded(prog[i]) = t
          /\ ~Parameter(i, n)

\* What a statement makes of a name that stands for t.
Base(i) == IF prog[i].op = "make" THEN prog[i].of ELSE prog[i].type
Result(i, t) ==
    IF prog[i].op = "make" THEN Made(t \o prog[i].path) ELSE t \o prog[i].path

\* Each binding of the name is a call's result, an annotation or an annotated argument,
\* and each time it is q, made of a name that stands for one thing only.
OnlyMadeFrom(n, q) ==
    \A i \in DOMAIN prog :
        /\ Binds(i, n) => prog[i].op \in {"make", "annotate"}
        /\ Parameter(i, n) => prog[i].type # NoName
        /\ Binds(i, n) \/ Parameter(i, n) =>
              \E t \in Targets : OnlyImportedAs(Base(i), t) /\ q = Result(i, t)

Clear(n) ==
    \/ \E t \in Targets : OnlyImportedAs(n, t)
    \/ \E i \in DOMAIN prog, t \in Targets : OnlyMadeFrom(n, Result(i, t))

\* A name that is bound in one way only is resolved exactly, wherever in the file
\* its imports are and whatever the order of execution: a call of it or of its
\* attributes is reported if and only if what it calls at run time is cryptography
\* (analyze, _qualified_name, _inferred_types).
ClearNamesExact ==
    \A i \in DOMAIN prog : \A v \in met[i] :
        Clear(Callee(i)) => (i \in reported <=> v \in Library)

\* Imported at top level above everything that binds the name otherwise, and nowhere
\* a parameter.
HeadImport(n) ==
    \E i \in DOMAIN prog :
        /\ prog[i].op = "import" /\ prog[i].name = n /\ prog[i].within = {}
        /\ \A j \in DOMAIN prog :
              /\ Binds(j, n) /\ prog[j].op # "import" => i < j
              /\ ~Parameter(j, n)

\* Every rebinding of the name is one _imports looks at.
Noticed(n) == \A j \in DOMAIN prog : Binds(j, n) => prog[j].op # "rebind"

\* docs/DETECTION_MODEL.md:14 for files that import at their head, and for assignments,
\* walrus operators, functions and classes: a call of an imported name that has been
\* rebound by the time of the call is not a finding.
ShadowedRejected ==
    \A i \in DOMAIN prog :
        Other \in met[i] /\ HeadImport(Callee(i)) /\ Noticed(Callee(i)) => i \notin reported
=============================================================================
