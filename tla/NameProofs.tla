------------------------------ MODULE NameProofs ------------------------------
(***************************************************************************)
(* Proofs about NamesAtRunTime, for every program, set of names and number *)
(* of calls: which statements can run (PathInv), what is noted of a name   *)
(* that is bound twice (ShadowInv), and what is made of one that is bound  *)
(* in one way only (ExactInv).                                             *)
(***************************************************************************)
EXTENDS NamesAtRunTime, FiniteSetTheorems, TLAPS

\* The program under analysis is one of the programs.
Typed == TypeOK /\ prog \in Programs

USE DEF Values

LEMMA Assumptions ==
    ASSUME prog \in Programs
    PROVE  /\ NoName \notin Names \cup Dotted /\ Targets \subseteq Dotted
           /\ DOMAIN prog \subseteq Nat \ {0}
           /\ \A i \in DOMAIN prog : WellFormed(prog[i])
           /\ \A i \in DOMAIN prog : \A e \in prog[i].within :
                 /\ e[1] \in DOMAIN prog /\ e[1] < i
                 /\ prog[e[1]].within = {d \in prog[i].within : d[1] < e[1]}
BY ProgramsAssumption DEF ProgramsAssumption

\* Dotted names stay dotted names.
LEMMA DottedNames ==
    /\ \A n \in Names : <<n>> \in Dotted
    /\ \A t \in Targets : <<Head(t)>> \in Dotted
    /\ \A q, r \in Dotted : q \o r \in Dotted
    /\ \A q \in Dotted : Made(q) \in Dotted
<1>1. \A n \in Names : <<n>> \in Seq(Words)
  BY ProgramsAssumption DEF ProgramsAssumption
<1>2. ASSUME NEW t \in Targets PROVE <<Head(t)>> \in Seq(Words)
  <2>1. t \in Seq(Words) /\ t # <<>>
    BY ProgramsAssumption DEF ProgramsAssumption, Dotted
  <2>2. Head(t) \in Words
    BY <2>1
  <2> QED
    BY <2>2
<1>3. \A q, r \in Seq(Words) : q \o r \in Seq(Words)
  OBVIOUS
<1>4. ASSUME NEW q \in Seq(Words) PROVE Made(q) \in Seq(Words)
  <2>1. CASE Len(q) > 1 /\ q[Len(q)] \in Constructors
    <3>1. Len(q) - 1 \in Nat /\ Len(q) - 1 <= Len(q)
      BY <2>1
    <3>2. SubSeq(q, 1, Len(q) - 1) \in Seq(Words)
      BY <3>1
    <3> QED
      BY <2>1, <3>2 DEF Made
  <2>2. CASE ~(Len(q) > 1 /\ q[Len(q)] \in Constructors)
    BY <2>2 DEF Made
  <2> QED
    BY <2>1, <2>2
<1> QED
  BY <1>1, <1>2, <1>3, <1>4 DEF Dotted

\* What is made of a value is a value, and not imported only if that was not.
LEMMA ValuesMade ==
    /\ \A v \in Values, path \in Dotted :
          Attribute(v, path) \in Values /\ (Attribute(v, path) = Other <=> v = Other)
    /\ \A v \in Values : Returned(v) \in Values /\ (Returned(v) = Other <=> v = Other)
BY DottedNames, RunAssumption DEF Attribute, Returned, RunAssumption

LEMMA LoadedTyped ==
    ASSUME NEW s, WellFormed(s), s.op = "import"
    PROVE  Loaded(s) \in Dotted
BY DottedNames, ProgramsAssumption DEF WellFormed, Loaded, ProgramsAssumption

LEMMA InitTyped == Init => Typed
<1> SUFFICES ASSUME Init PROVE Typed
  OBVIOUS
<1>1. prog \in Programs
  BY DEF Init, NameInit
<1>2. NameTypeOK
  BY DEF Init, NameInit, NameTypeOK
<1>3. RunTypeOK
  BY RunAssumption DEF Init, RunTypeOK, RunAssumption
<1> QED
  BY <1>1, <1>2, <1>3 DEF Typed, TypeOK

LEMMA AnalysisTyped ==
    ASSUME Typed, Analyze, UNCHANGED runVars
    PROVE  Typed'
<1> USE DEF Typed, TypeOK
<1>1. prog' = prog /\ RunTypeOK'
  BY DEF Analyze, Visit, InferTypes, ReportCalls, runVars, RunTypeOK
<1>2. ASSUME NEW i \in unvisited, Visit(i) PROVE NameTypeOK'
  <2>1. i \in DOMAIN prog
    BY DEF NameTypeOK
  <2>2. prog[i].op = "import" => prog[i].name \in Names /\ prog[i].of \in Targets
    BY <2>1, Assumptions DEF WellFormed
  <2>3. Rebinds(i) => prog[i].name \in Names
    BY <2>1, Assumptions DEF WellFormed, Rebinds
  <2>4. aliases' \in [Names -> Targets \cup {NoName}] /\ shadowed' \subseteq Names
    BY <1>2, <2>2, <2>3 DEF Visit, NoteBinding, NameTypeOK
  <2> QED
    BY <1>1, <1>2, <2>4 DEF Visit, NameTypeOK, IsCall
<1>3. CASE InferTypes
  <2>1. ASSUME NEW n \in Names, Cardinality(Candidates(n)) = 1
        PROVE  (CHOOSE t \in Candidates(n) : TRUE) \in Dotted
    <3>1. \A m \in Names : Imported(m) \in Dotted
      BY Assumptions, DottedNames DEF Imported, NameTypeOK
    <3>2. ASSUME NEW i \in DOMAIN prog, prog[i].op = "make"
          PROVE  Made(Imported(prog[i].of) \o prog[i].path) \in Dotted
      <4>1. prog[i].of \in Names /\ prog[i].path \in Dotted
        BY <3>2, Assumptions DEF WellFormed
      <4> QED
        BY <3>1, <4>1, DottedNames
    <3>4. ASSUME NEW i \in DOMAIN prog, Annotates(i, n)
          PROVE  Imported(prog[i].type) \o prog[i].path \in Dotted
      <4>1. prog[i].type \in Names /\ prog[i].path \in Dotted
        BY <3>4, Assumptions DEF WellFormed, Annotates
      <4> QED
        BY <3>1, <4>1, DottedNames
    <3>5. Candidates(n) \subseteq Dotted
      BY <3>2, <3>4 DEF Candidates
    <3>3. Candidates(n) # {}
      BY <2>1, FS_EmptySet
    <3> QED
      BY <3>5, <3>3
  <2>2. inferred' \in [Names -> {NoName} \cup Dotted]
    BY <1>3, <2>1 DEF InferTypes
  <2> QED
    BY <1>1, <1>3, <2>2 DEF InferTypes, NameTypeOK, IsCall
<1>4. CASE ReportCalls
  BY <1>1, <1>4 DEF ReportCalls, NameTypeOK, BecomesFinding, IsCall
<1> QED
  BY <1>1, <1>2, <1>3, <1>4 DEF Analyze

-----------------------------------------------------------------------------
(***************************************************************************)
(* The run has its types.                                                  *)
(***************************************************************************)
LEMMA ValueTyped ==
    ASSUME RunTypeOK, NEW n \in Names
    PROVE  Value(n) \in {Unbound} \cup Values
BY DEF RunTypeOK, Value

LEMMA AssignTyped ==
    ASSUME RunTypeOK, NEW n \in Names, NEW v \in Values, Assign(n, v)
    PROVE  /\ globals' \in [Names -> {Unbound} \cup Values]
           /\ locals' \in [Names -> {Unbound} \cup Values]
BY DEF RunTypeOK, Assign

LEMMA ExecuteTyped ==
    ASSUME Typed, NEW i \in todo, Execute(i), UNCHANGED nameVars
    PROVE  RunTypeOK'
<1> USE DEF Typed, TypeOK
<1>1. i \in DOMAIN prog /\ prog' = prog
  BY DEF RunTypeOK, nameVars
<1>2. WellFormed(prog[i])
  BY <1>1, Assumptions
<1>3. UNCHANGED <<frame, resume, calls>>
  BY DEF Execute
<1>4. ASSUME Raise PROVE RunTypeOK'
  BY <1>1, <1>3, <1>4 DEF Raise, RunTypeOK
<1>5. ASSUME Advance(i) PROVE todo' \subseteq DOMAIN prog
  BY <1>5 DEF Advance, RunTypeOK
<1>6. ASSUME NEW v \in Values, met' = [met EXCEPT ![i] = @ \cup {v}]
      PROVE  met' \in [DOMAIN prog -> SUBSET Values]
  BY <1>6 DEF RunTypeOK
<1>7. CASE Import(i)
  <2>1. CASE Raise
    BY <1>4, <2>1
  <2>2. CASE Advance(i) /\ Assign(prog[i].name, Loaded(prog[i])) /\ UNCHANGED <<defined, met>>
    <3>1. prog[i].name \in Names /\ Loaded(prog[i]) \in Values
      BY <1>2, <1>7, LoadedTyped DEF Import, WellFormed
    <3> QED
      BY <1>1, <1>3, <1>5, <2>2, <3>1, AssignTyped DEF RunTypeOK
  <2> QED
    BY <1>7, <2>1, <2>2 DEF Import
<1>8. CASE AssignOther(i)
  <2>1. prog[i].name \in Names
    BY <1>2, <1>8 DEF AssignOther, WellFormed
  <2> QED
    BY <1>1, <1>3, <1>5, <1>8, <2>1, AssignTyped DEF AssignOther, RunTypeOK
<1>9. CASE Make(i)
  <2> DEFINE callee == Attribute(Value(prog[i].of), prog[i].path)
  <2>1. prog[i].name \in Names /\ prog[i].of \in Names /\ prog[i].path \in Dotted
    BY <1>2, <1>9 DEF Make, WellFormed
  <2>2. CASE Raise
    BY <1>4, <2>2
  <2>3. CASE ~Raise
    <3>1. Value(prog[i].of) \in Values
      BY <1>9, <2>1, <2>3, ValueTyped DEF Make
    <3>2. /\ Advance(i) /\ Assign(prog[i].name, Returned(callee))
          /\ met' = [met EXCEPT ![i] = @ \cup {callee}]
          /\ UNCHANGED defined
      BY <1>9, <2>3 DEF Make
    <3>3. callee \in Values /\ Returned(callee) \in Values
      BY <2>1, <3>1, ValuesMade
    <3> HIDE DEF callee
    <3> QED
      BY <1>1, <1>3, <1>5, <1>6, <2>1, <3>2, <3>3, AssignTyped DEF RunTypeOK
  <2> QED
    BY <2>2, <2>3
<1>10. CASE Use(i)
  <2>1. prog[i].name \in Names /\ prog[i].path \in Dotted
    BY <1>2, <1>10 DEF Use, WellFormed
  <2>2. CASE Raise
    BY <1>4, <2>2
  <2>3. CASE ~Raise
    <3>1. Value(prog[i].name) \in Values
      BY <1>10, <2>1, <2>3, ValueTyped DEF Use
    <3>2. /\ Advance(i)
          /\ met' = [met EXCEPT ![i] = @ \cup {Attribute(Value(prog[i].name), prog[i].path)}]
          /\ UNCHANGED <<globals, locals, defined>>
      BY <1>10, <2>3 DEF Use
    <3>3. Attribute(Value(prog[i].name), prog[i].path) \in Values
      BY <2>1, <3>1, ValuesMade
    <3> QED
      BY <1>1, <1>3, <1>5, <1>6, <3>2, <3>3 DEF RunTypeOK
  <2> QED
    BY <2>2, <2>3
<1>11. CASE Define(i)
  <2>1. prog[i].name \in Names /\ prog[i].op = "def"
    BY <1>2, <1>11 DEF Define, WellFormed
  <2>2. CASE Raise
    BY <1>4, <2>2
  <2>3. CASE ~Raise
    <3>1. Advance(i) /\ Assign(prog[i].name, Other) /\ defined' = defined \cup {i} /\ met' = met
      BY <1>11, <2>3 DEF Define
    <3> QED
      BY <1>1, <1>3, <1>5, <2>1, <3>1, AssignTyped DEF RunTypeOK
  <2> QED
    BY <2>2, <2>3
<1>12. CASE Branch(i)
  BY <1>1, <1>3, <1>12 DEF Branch, RunTypeOK
<1>13. CASE Annotate(i)
  <2>1. prog[i].name \in Names /\ prog[i].type \in Names /\ prog[i].path \in Dotted
    BY <1>2, <1>13 DEF Annotate, WellFormed
  <2>2. CASE Raise
    BY <1>4, <2>2
  <2>3. CASE ~Raise
    <3> DEFINE w == Attribute(Value(prog[i].type), prog[i].path)
    <3>1. Value(prog[i].type) \in Values
      BY <1>13, <2>1, <2>3, ValueTyped DEF Annotate
    <3>2. Advance(i) /\ Assign(prog[i].name, w) /\ UNCHANGED <<defined, met>>
      BY <1>13, <2>3 DEF Annotate
    <3>3. w \in Values
      BY <2>1, <3>1, ValuesMade
    <3> HIDE DEF w
    <3> QED
      BY <1>1, <1>3, <1>5, <2>1, <3>2, <3>3, AssignTyped DEF RunTypeOK
  <2> QED
    BY <2>2, <2>3
<1> QED
  BY <1>7, <1>8, <1>9, <1>10, <1>11, <1>12, <1>13 DEF Execute

LEMMA CallTyped ==
    ASSUME Typed, NEW f \in defined, Call(f), UNCHANGED nameVars
    PROVE  RunTypeOK'
<1> USE DEF Typed, TypeOK
<1>1. prog' = prog /\ f \in DOMAIN prog
  BY DEF nameVars, RunTypeOK
<1>2. Argument(f) \subseteq Values
  <2>1. CASE prog[f].type = NoName
    BY <2>1, RunAssumption DEF Argument, RunAssumption
  <2>2. CASE prog[f].type # NoName
    <3>1. prog[f].type \in Names /\ prog[f].path \in Dotted
      BY <1>1, <2>2, Assumptions DEF RunTypeOK, WellFormed
    <3>2. {globals[prog[f].type]} \ {Unbound} \subseteq Values
      BY <3>1 DEF RunTypeOK
    <3> QED
      BY <2>2, <3>1, <3>2, ValuesMade DEF Argument
  <2> QED
    BY <2>1, <2>2
<1>3. locals' \in [Names -> {Unbound} \cup Values]
  BY <1>2 DEF Call
<1>4. calls' \in 0..MaxCalls
  BY RunAssumption DEF Call, RunTypeOK, RunAssumption
<1> QED
  BY <1>1, <1>3, <1>4 DEF Call, RunTypeOK

LEMMA ReturnTyped ==
    ASSUME Typed, FunctionReturns, UNCHANGED nameVars
    PROVE  RunTypeOK'
BY DEF Typed, TypeOK, FunctionReturns, RunTypeOK, nameVars

LEMMA NextTyped == Typed /\ [Next]_vars => Typed'
<1> SUFFICES ASSUME Typed, [Next]_vars PROVE Typed'
  OBVIOUS
<1>1. ASSUME UNCHANGED nameVars PROVE NameTypeOK' /\ prog' \in Programs
  BY <1>1 DEF Typed, TypeOK, NameTypeOK, nameVars, IsCall
<1>2. CASE Analyze /\ UNCHANGED runVars
  BY <1>2, AnalysisTyped
<1>3. CASE stage = "done" /\ Run /\ UNCHANGED nameVars
  <2>1. RunTypeOK'
    BY <1>3, ExecuteTyped, CallTyped, ReturnTyped DEF Run
  <2> QED
    BY <1>1, <1>3, <2>1 DEF Typed, TypeOK
<1>4. CASE UNCHANGED vars
  <2>1. RunTypeOK'
    BY <1>4 DEF Typed, TypeOK, RunTypeOK, vars, runVars, nameVars
  <2> QED
    BY <1>1, <1>4, <2>1 DEF Typed, TypeOK, vars
<1> QED
  BY <1>2, <1>3, <1>4 DEF Next, Finished

\* Type correctness, of the analyzer and of the run.
THEOREM NamesTyped == Spec => []TypeOK
<1>1. Typed => TypeOK
  BY DEF Typed
<1> QED
  BY <1>1, InitTyped, NextTyped, PTL DEF Spec

-----------------------------------------------------------------------------
(***************************************************************************)
(* What runs is reachable.  What is still to be executed lies, for every   *)
(* test above it that has been decided, in a branch the test allows.       *)
(***************************************************************************)
Allowed(e) ==
    prog[e[1]].op = "if" => /\ prog[e[1]].of = "false" => e[2] # "body"
                            /\ prog[e[1]].of = "true" => e[2] # "orelse"

OnPath(s) == \A j \in s : \A e \in prog[j].within : e[1] \notin s => Allowed(e)

PathInv ==
    /\ OnPath(todo) /\ OnPath(resume)
    /\ \A f \in defined : \A e \in prog[f].within : Allowed(e)
    /\ UnreachableNeverRuns

LEMMA AllowedReachable ==
    ASSUME NEW i \in DOMAIN prog, \A e \in prog[i].within : Allowed(e)
    PROVE  ~Unreachable(i)
BY DEF Allowed, Unreachable

LEMMA InitPath == Init => PathInv
<1> SUFFICES ASSUME Init PROVE PathInv
  OBVIOUS
<1>1. prog \in Programs
  BY DEF Init, NameInit
<1>2. OnPath(todo)
  <2> SUFFICES ASSUME NEW j \in todo, NEW e \in prog[j].within PROVE e[1] \in todo
    BY DEF OnPath
  <2>1. j \in DOMAIN prog /\ InModule(j)
    BY DEF Init
  <2>2. e[1] \in DOMAIN prog /\ prog[e[1]].within \subseteq prog[j].within
    BY <1>1, <2>1, Assumptions
  <2>3. InModule(e[1])
    BY <2>1, <2>2 DEF InModule
  <2> QED
    BY <2>2, <2>3 DEF Init
<1> QED
  BY <1>2 DEF Init, PathInv, OnPath, UnreachableNeverRuns

\* The statement that is executed next has no block above it still to execute.
LEMMA CurrentReachable ==
    ASSUME Typed, PathInv, NEW i \in todo, Current(i)
    PROVE  \A e \in prog[i].within : Allowed(e)
<1> SUFFICES ASSUME NEW e \in prog[i].within PROVE Allowed(e)
  OBVIOUS
<1>1. prog \in Programs /\ i \in DOMAIN prog
  BY DEF Typed, TypeOK, RunTypeOK
<1>2. e[1] \in Nat /\ i \in Nat /\ e[1] < i
  BY <1>1, Assumptions
<1>3. e[1] \notin todo
  BY <1>2 DEF Current
<1> QED
  BY <1>3 DEF PathInv, OnPath

LEMMA AdvancePath ==
    ASSUME OnPath(todo), NEW i \in todo, prog[i].op # "if"
    PROVE  OnPath(todo \ {i})
BY DEF OnPath, Allowed

LEMMA ExecutePath ==
    ASSUME Typed, PathInv, NEW i \in todo, Execute(i), UNCHANGED nameVars
    PROVE  PathInv'
<1>1. prog' = prog /\ i \in DOMAIN prog /\ prog \in Programs
  BY DEF nameVars, Typed, TypeOK, RunTypeOK
<1>2. \A e \in prog[i].within : Allowed(e)
  BY CurrentReachable DEF Execute
<1>3. ~Unreachable(i)
  BY <1>1, <1>2, AllowedReachable
<1>4. \/ todo' = {}
      \/ todo' = todo \ {i} /\ prog[i].op # "if"
      \/ Branch(i)
  BY DEF Execute, Import, AssignOther, Make, Use, Annotate, Define, Raise,
            Advance
<1>5. defined' = defined \/ defined' = defined \cup {i}
  BY DEF Execute, Import, AssignOther, Make, Use, Annotate, Define, Branch, Raise
<1>6. ASSUME NEW j \in DOMAIN prog, met'[j] # {} PROVE met[j] # {} \/ j = i
  BY <1>6 DEF Execute, Import, AssignOther, Make, Use, Annotate, Define, Branch, Raise, Typed,
              TypeOK, RunTypeOK
<1>7. ASSUME Branch(i) PROVE OnPath(todo')
  <2> SUFFICES ASSUME NEW j \in todo', NEW e \in prog[j].within, e[1] \notin todo'
               PROVE  Allowed(e)
    BY DEF OnPath
  <2>1. PICK b \in Branches :
           /\ prog[i].of = "true" => b = "body"
           /\ prog[i].of = "false" => b = "orelse"
           /\ todo' = {k \in todo \ {i} : \A d \in prog[k].within : d[1] = i => d[2] = b}
    BY <1>7 DEF Branch
  <2>2. CASE e[1] = i
    <3>1. e[2] = b
      BY <2>1, <2>2
    <3> QED
      BY <2>1, <2>2, <3>1 DEF Allowed, Branches
  <2>3. CASE e[1] # i /\ e[1] \in todo
    \* the test above e left e out, and would have left j out with it
    <3>1. PICK d \in prog[e[1]].within : d[1] = i /\ d[2] # b
      BY <2>1, <2>3
    <3>2. j \in DOMAIN prog
      BY <2>1 DEF Typed, TypeOK, RunTypeOK
    <3>3. d \in prog[j].within
      BY <1>1, <3>1, <3>2, Assumptions
    <3> QED
      BY <2>1, <3>1, <3>3
  <2>4. CASE e[1] \notin todo
    BY <2>1, <2>4 DEF PathInv, OnPath
  <2> QED
    BY <2>2, <2>3, <2>4
<1>8. OnPath(todo')
  BY <1>4, <1>7, AdvancePath DEF PathInv, OnPath
<1>9. resume' = resume
  BY DEF Execute
<1> QED
  BY <1>1, <1>2, <1>3, <1>5, <1>6, <1>8, <1>9
     DEF PathInv, OnPath, Allowed, UnreachableNeverRuns, Unreachable

LEMMA CallPath ==
    ASSUME Typed, PathInv, NEW f \in defined, Call(f), UNCHANGED nameVars
    PROVE  PathInv'
<1>1. prog' = prog /\ f \in DOMAIN prog /\ prog[f].op = "def" /\ prog \in Programs
  BY DEF nameVars, Typed, TypeOK, RunTypeOK
<1>2. todo' = {i \in DOMAIN prog : In(i, f)} /\ resume' = todo /\ UNCHANGED <<defined, met>>
  BY DEF Call
<1>3. ASSUME NEW j \in todo', NEW e \in prog[j].within, e[1] \notin todo'
      PROVE  Allowed(e)
  <2>1. j \in DOMAIN prog /\ <<f, "body">> \in prog[j].within
    BY <1>2 DEF In
  <2>2. /\ e[1] \in DOMAIN prog /\ e[1] \in Nat /\ f \in Nat
        /\ prog[e[1]].within = {d \in prog[j].within : d[1] < e[1]}
        /\ prog[f].within = {d \in prog[j].within : d[1] < f}
    BY <1>1, <2>1, Assumptions
  <2>3. CASE e[1] < f
    BY <2>2, <2>3 DEF PathInv
  <2>4. CASE e[1] = f
    BY <1>1, <2>4 DEF Allowed
  <2>5. CASE f < e[1]
    <3>1. <<f, "body">> \in prog[e[1]].within
      BY <2>1, <2>2, <2>5
    <3> QED
      BY <1>2, <1>3, <2>2, <3>1 DEF In
  <2> QED
    BY <2>2, <2>3, <2>4, <2>5
<1>4. OnPath(todo')
  BY <1>3 DEF OnPath
<1> QED
  BY <1>1, <1>2, <1>4 DEF PathInv, OnPath, Allowed, UnreachableNeverRuns, Unreachable

LEMMA NextPath == Typed /\ PathInv /\ [Next]_vars => PathInv'
<1> SUFFICES ASSUME Typed, PathInv, [Next]_vars PROVE PathInv'
  OBVIOUS
<1>1. CASE UNCHANGED runVars /\ prog' = prog
  BY <1>1 DEF runVars, PathInv, OnPath, Allowed, UnreachableNeverRuns, Unreachable
<1>2. CASE Run /\ UNCHANGED nameVars
  <2>1. CASE FunctionReturns
    BY <1>2, <2>1 DEF FunctionReturns, nameVars, PathInv, OnPath, Allowed,
                      UnreachableNeverRuns, Unreachable
  <2> QED
    BY <1>2, <2>1, ExecutePath, CallPath DEF Run
<1>3. Analyze => prog' = prog
  BY DEF Analyze, Visit, InferTypes, ReportCalls
<1> QED
  BY <1>1, <1>2, <1>3 DEF Next, Finished, vars, nameVars

\* No call that the analyzer skips as unreachable is ever executed.
THEOREM SkippedCallsNeverRun == Spec => []UnreachableNeverRuns
<1>1. PathInv => UnreachableNeverRuns
  BY DEF PathInv
<1> QED
  BY <1>1, InitTyped, NextTyped, InitPath, NextPath, PTL DEF Spec

-----------------------------------------------------------------------------
(***************************************************************************)
(* Shadowed names are rejected.  The first pass, in whatever order it      *)
(* meets the rest, has met an import at the head of the file before        *)
(* anything else that binds the name, and so notes what rebinds it.  At    *)
(* run time a name means something not imported only if it is rebound.     *)
(***************************************************************************)
RebindsName(j, n) == Rebinds(j) /\ prog[j].name = n

Rebound(n) == \E j \in DOMAIN prog : RebindsName(j, n)
Changed(n) == \E j \in DOMAIN prog : Binds(j, n) /\ prog[j].op # "import"
Argued(n) == \E f \in DOMAIN prog : Parameter(f, n)

ShadowsNoted ==
    \A i \in DOMAIN prog \ unvisited :
        /\ prog[i].op = "import" => aliases[prog[i].name] # NoName
        /\ \A n \in Names : RebindsName(i, n) /\ HeadImport(n) => n \in shadowed

NothingShadowedReported ==
    /\ stage # "imports" => unvisited = {}
    /\ stage # "done" => reported = {}
    /\ \A i \in reported : Callee(i) \notin shadowed

OthersBound ==
    /\ \A n \in Names : globals[n] = Other => Changed(n)
    /\ \A n \in Names : locals[n] = Other => Changed(n) \/ Argued(n)
    /\ \A i \in DOMAIN prog : Other \in met[i] =>
          Callee(i) \in Names /\ (Changed(Callee(i)) \/ Argued(Callee(i)))
    /\ stage # "done" => \A i \in DOMAIN prog : met[i] = {}

ShadowInv == ShadowsNoted /\ NothingShadowedReported /\ OthersBound

LEMMA ShadowRejects == Typed /\ ShadowInv => ShadowedRejected
<1> SUFFICES ASSUME Typed, ShadowInv, NEW i \in DOMAIN prog, Other \in met[i],
                    HeadImport(Callee(i)), Noticed(Callee(i))
             PROVE  i \notin reported
  BY DEF ShadowedRejected
<1> DEFINE n == Callee(i)
<1>1. n \in Names /\ (Changed(n) \/ Argued(n))
  BY DEF ShadowInv, OthersBound
<1>2. ~Argued(n)
  BY DEF HeadImport, Argued
<1>3. stage = "done" /\ unvisited = {}
  BY DEF ShadowInv, OthersBound, NothingShadowedReported
<1>4. PICK j \in DOMAIN prog : Binds(j, n) /\ prog[j].op # "import"
  BY <1>1, <1>2 DEF Changed
<1>5. RebindsName(j, n)
  BY <1>4 DEF RebindsName, Rebinds, Binds, Noticed
<1>6. n \in shadowed
  BY <1>1, <1>3, <1>5 DEF ShadowInv, ShadowsNoted
<1> QED
  BY <1>6 DEF ShadowInv, NothingShadowedReported

LEMMA InitShadow == Init => ShadowInv
<1> SUFFICES ASSUME Init PROVE ShadowInv
  OBVIOUS
<1>1. DOMAIN prog = {} => prog = <<>>
  BY ProgramsAssumption DEF Init, NameInit, ProgramsAssumption
<1>2. ShadowsNoted
  BY DEF Init, NameInit, ShadowsNoted
<1>3. NothingShadowedReported
  BY <1>1 DEF Init, NameInit, NothingShadowedReported
<1>4. OthersBound
  BY RunAssumption DEF Init, OthersBound, RunAssumption
<1> QED
  BY <1>2, <1>3, <1>4 DEF ShadowInv

\* An import at the head is visited before whatever stands below it.
LEMMA HeadFirst ==
    ASSUME prog \in Programs, NEW i \in DOMAIN prog, NEW j \in DOMAIN prog,
           prog[i].within = {}, i < j
    PROVE  ~Before(j, i)
<1>1. Depth(i) = 0
  BY FS_EmptySet DEF Depth
<1>2. Depth(j) \in Nat
  BY FS_CardinalityType, Assumptions DEF Depth, WellFormed
<1>3. i \in Nat /\ j \in Nat
  BY Assumptions
<1> QED
  BY <1>1, <1>2, <1>3 DEF Before

LEMMA VisitShadow ==
    ASSUME Typed, ShadowInv, NEW i \in unvisited, Visit(i), UNCHANGED runVars
    PROVE  ShadowInv'
<1>1. prog' = prog /\ prog \in Programs /\ i \in DOMAIN prog
  BY DEF Visit, Typed, TypeOK, NameTypeOK
<1>2. unvisited' = unvisited \ {i} /\ NoteBinding(i) /\ stage = "imports" /\ reported' = reported
  BY DEF Visit
<1>3. prog[i].op = "import" => prog[i].of # NoName /\ prog[i].name \in Names
  BY <1>1, Assumptions DEF WellFormed
<1>4. ASSUME NEW j \in DOMAIN prog \ unvisited', prog[j].op = "import"
      PROVE  aliases'[prog[j].name] # NoName
  <2>1. prog[j].name \in Names
    BY <1>1, <1>4, Assumptions DEF WellFormed
  <2>2. j = i \/ aliases[prog[j].name] # NoName
    BY <1>2, <1>4 DEF ShadowInv, ShadowsNoted
  <2> QED
    BY <1>2, <1>3, <1>4, <2>1, <2>2 DEF NoteBinding, Typed, TypeOK, NameTypeOK
<1>5. ASSUME NEW j \in DOMAIN prog \ unvisited', NEW n \in Names,
             RebindsName(j, n), HeadImport(n)
      PROVE  n \in shadowed'
  <2>1. CASE j # i
    <3>1. n \in shadowed
      BY <1>2, <1>5, <2>1 DEF ShadowInv, ShadowsNoted
    <3> QED
      BY <1>2, <3>1 DEF NoteBinding
  <2>2. CASE j = i
    <3>1. PICK k \in DOMAIN prog :
             /\ prog[k].op = "import" /\ prog[k].name = n /\ prog[k].within = {}
             /\ \A l \in DOMAIN prog : Binds(l, n) /\ prog[l].op # "import" => k < l
      BY <1>5 DEF HeadImport
    <3>2. k < i
      BY <1>1, <1>5, <2>2, <3>1 DEF RebindsName, Rebinds, Binds
    <3>3. ~Before(i, k) /\ k # i
      BY <1>1, <3>1, <3>2, HeadFirst, Assumptions
    <3>4. k \notin unvisited
      BY <3>3 DEF Visit
    <3>5. aliases[n] # NoName
      BY <3>1, <3>4 DEF ShadowInv, ShadowsNoted
    <3> QED
      BY <1>2, <1>5, <2>2, <3>5 DEF NoteBinding, RebindsName
  <2> QED
    BY <2>1, <2>2
<1>6. ShadowsNoted'
  BY <1>1, <1>4, <1>5 DEF ShadowsNoted, RebindsName, Rebinds, HeadImport, Binds, Parameter
<1>7. NothingShadowedReported'
  BY <1>1, <1>2 DEF Visit, ShadowInv, NothingShadowedReported
<1>8. OthersBound'
  BY <1>1, <1>2 DEF runVars, ShadowInv, OthersBound, Changed, Binds, Argued,
                    Parameter, Callee
<1> QED
  BY <1>6, <1>7, <1>8 DEF ShadowInv

LEMMA AnalysisShadow ==
    ASSUME Typed, ShadowInv, Analyze, UNCHANGED runVars
    PROVE  ShadowInv'
<1>1. CASE InferTypes \/ ReportCalls
  <2>1. UNCHANGED <<prog, unvisited, aliases, shadowed>> /\ stage \notin {"imports", "done"}
    BY <1>1 DEF InferTypes, ReportCalls
  <2>2. ShadowsNoted'
    BY <2>1 DEF ShadowInv, ShadowsNoted, RebindsName, Rebinds, HeadImport, Binds, Parameter
  <2>3. NothingShadowedReported'
    BY <1>1, <2>1 DEF ShadowInv, NothingShadowedReported, InferTypes, ReportCalls,
                      BecomesFinding, Callee
  <2>4. OthersBound'
    BY <2>1 DEF runVars, ShadowInv, OthersBound, Changed, Binds, Argued,
                Parameter, Callee
  <2> QED
    BY <2>2, <2>3, <2>4 DEF ShadowInv
<1> QED
  BY <1>1, VisitShadow DEF Analyze

LEMMA ValueBound ==
    ASSUME OthersBound, NEW n \in Names, Value(n) = Other
    PROVE  Changed(n) \/ Argued(n)
BY DEF OthersBound, Value

LEMMA AssignBound ==
    ASSUME RunTypeOK, OthersBound, NEW n \in Names, NEW v, Assign(n, v), v = Other => Changed(n)
    PROVE  \A m \in Names : /\ globals'[m] = Other => Changed(m)
                            /\ locals'[m] = Other => Changed(m) \/ Argued(m)
BY DEF OthersBound, Assign, RunTypeOK

LEMMA ExecuteBound ==
    ASSUME Typed, OthersBound, stage = "done", NEW i \in todo, Execute(i), UNCHANGED nameVars
    PROVE  OthersBound'
<1> DEFINE Bound == \A m \in Names : /\ globals'[m] = Other => Changed(m)
                                     /\ locals'[m] = Other => Changed(m) \/ Argued(m)
           Met == \A j \in DOMAIN prog : Other \in met'[j] =>
                     Callee(j) \in Names /\ (Changed(Callee(j)) \/ Argued(Callee(j)))
<1>1. prog' = prog /\ stage' = "done" /\ i \in DOMAIN prog /\ prog \in Programs /\ RunTypeOK
  BY DEF nameVars, Typed, TypeOK, RunTypeOK
<1>2. WellFormed(prog[i])
  BY <1>1, Assumptions
<1>3. UNCHANGED <<globals, locals>> => Bound
  BY DEF OthersBound
<1>4. met' = met => Met
  BY DEF OthersBound
<1>5. ASSUME NEW v, met' = [met EXCEPT ![i] = @ \cup {v}], Callee(i) \in Names,
             v = Other => Value(Callee(i)) = Other
      PROVE  Met
  <2>1. v = Other => Changed(Callee(i)) \/ Argued(Callee(i))
    BY <1>5, ValueBound
  <2>2. ASSUME NEW j \in DOMAIN prog, Other \in met'[j]
        PROVE  Other \in met[j] \/ (j = i /\ v = Other)
    BY <1>1, <1>5, <2>2 DEF RunTypeOK
  <2> QED
    BY <1>5, <2>1, <2>2 DEF OthersBound
<1>6. ASSUME Raise PROVE Bound /\ Met
  BY <1>3, <1>4, <1>6 DEF Raise
<1>7. Binds(i, prog[i].name) /\ prog[i].op # "import" => Changed(prog[i].name)
  BY <1>1 DEF Changed
<1> HIDE DEF Bound, Met
<1>8. ASSUME Import(i) PROVE Bound /\ Met
  <2>1. prog[i].name \in Names
    BY <1>2, <1>8 DEF Import, WellFormed
  <2>2. Loaded(prog[i]) # Other
    BY <1>2, <1>8, LoadedTyped, RunAssumption DEF Import, RunAssumption
  <2> QED
    BY <1>1, <1>4, <1>6, <1>8, <2>1, <2>2, AssignBound DEF Import, Bound
<1>9. ASSUME AssignOther(i) PROVE Bound /\ Met
  <2>1. prog[i].name \in Names /\ Changed(prog[i].name)
    BY <1>2, <1>7, <1>9 DEF AssignOther, WellFormed, Binds
  <2> QED
    BY <1>1, <1>4, <1>9, <2>1, AssignBound DEF AssignOther, Bound
<1>10. ASSUME Make(i) PROVE Bound /\ Met
  <2> DEFINE callee == Attribute(Value(Callee(i)), prog[i].path)
  <2>1. /\ prog[i].name \in Names /\ Changed(prog[i].name) /\ prog[i].path \in Dotted
        /\ Callee(i) = prog[i].of /\ Callee(i) \in Names
    BY <1>2, <1>7, <1>10 DEF Make, WellFormed, Binds, Callee
  <2>2. CASE ~Raise
    <3>1. /\ Value(Callee(i)) # Unbound /\ Assign(prog[i].name, Returned(callee))
          /\ met' = [met EXCEPT ![i] = @ \cup {callee}]
      BY <1>10, <2>1, <2>2 DEF Make
    <3>2. callee = Other => Value(Callee(i)) = Other
      BY <1>1, <2>1, <3>1, ValueTyped, ValuesMade
    <3> HIDE DEF callee
    <3>3. Bound
      BY <1>1, <2>1, <3>1, AssignBound DEF Bound
    <3> QED
      BY <1>5, <2>1, <3>1, <3>2, <3>3
  <2> QED
    BY <1>6, <2>2
<1>11. ASSUME Use(i) PROVE Bound /\ Met
  <2>1. Callee(i) = prog[i].name /\ Callee(i) \in Names /\ prog[i].path \in Dotted
    BY <1>2, <1>11 DEF Use, WellFormed, Callee
  <2>2. CASE ~Raise
    <3>1. /\ met' = [met EXCEPT ![i] = @ \cup {Attribute(Value(Callee(i)), prog[i].path)}]
          /\ UNCHANGED <<globals, locals>> /\ Value(Callee(i)) # Unbound
      BY <1>11, <2>1, <2>2 DEF Use
    <3>2. Attribute(Value(Callee(i)), prog[i].path) = Other => Value(Callee(i)) = Other
      BY <1>1, <2>1, <3>1, ValueTyped, ValuesMade
    <3> QED
      BY <1>3, <1>5, <2>1, <3>1, <3>2
  <2> QED
    BY <1>6, <2>2
<1>12. ASSUME Define(i) PROVE Bound /\ Met
  <2>1. prog[i].name \in Names /\ Changed(prog[i].name)
    BY <1>2, <1>7, <1>12 DEF Define, WellFormed, Binds
  <2>2. CASE ~Raise
    <3>1. Assign(prog[i].name, Other) /\ met' = met
      BY <1>12, <2>2 DEF Define
    <3> QED
      BY <1>1, <1>4, <2>1, <3>1, AssignBound DEF Bound
  <2> QED
    BY <1>6, <2>2
<1>13. ASSUME Branch(i) PROVE Bound /\ Met
  BY <1>3, <1>4, <1>13 DEF Branch
<1>14. ASSUME Annotate(i) PROVE Bound /\ Met
  <2>1. prog[i].name \in Names /\ Changed(prog[i].name)
    BY <1>2, <1>7, <1>14 DEF Annotate, WellFormed, Binds
  <2>2. CASE ~Raise
    <3>1. PICK w : Assign(prog[i].name, w) /\ met' = met
      BY <1>14, <2>2 DEF Annotate
    <3> QED
      BY <1>1, <1>4, <2>1, <3>1, AssignBound DEF Bound
  <2> QED
    BY <1>6, <2>2
<1>15. Bound /\ Met
  BY <1>8, <1>9, <1>10, <1>11, <1>12, <1>13, <1>14 DEF Execute
<1> QED
  BY <1>1, <1>15 DEF Bound, Met, OthersBound, Changed, Binds, Argued, Parameter,
                     Callee

LEMMA CallBound ==
    ASSUME Typed, OthersBound, stage = "done", NEW f \in defined, Call(f), UNCHANGED nameVars
    PROVE  OthersBound'
<1>1. prog' = prog /\ stage' = "done" /\ f \in DOMAIN prog /\ prog[f].op = "def"
  BY DEF nameVars, Typed, TypeOK, RunTypeOK
<1>2. UNCHANGED <<globals, met>>
  BY DEF Call
<1>3. ASSUME NEW n \in Names, locals'[n] = Other PROVE Argued(n)
  <2>1. n = prog[f].of
    BY <1>3, RunAssumption DEF Call, RunAssumption
  <2> QED
    BY <1>1, <2>1 DEF Argued, Parameter
<1> QED
  BY <1>1, <1>2, <1>3 DEF OthersBound, Changed, Binds, Argued, Parameter, Callee

LEMMA ReturnBound ==
    ASSUME Typed, OthersBound, stage = "done", FunctionReturns, UNCHANGED nameVars
    PROVE  OthersBound'
<1>1. /\ prog' = prog /\ stage' = "done" /\ UNCHANGED <<globals, met>>
      /\ \A n \in Names : locals'[n] # Other
  BY RunAssumption DEF FunctionReturns, nameVars, RunAssumption
<1> QED
  BY <1>1 DEF OthersBound, Changed, Binds, Argued, Parameter, Callee

LEMMA NextShadow == Typed /\ ShadowInv /\ [Next]_vars => ShadowInv'
<1> SUFFICES ASSUME Typed, ShadowInv, [Next]_vars PROVE ShadowInv'
  OBVIOUS
<1>1. ASSUME UNCHANGED nameVars PROVE ShadowsNoted' /\ NothingShadowedReported'
  BY <1>1 DEF nameVars, ShadowInv, ShadowsNoted, NothingShadowedReported, RebindsName, Rebinds,
              HeadImport, Binds, Parameter, Callee
<1>2. CASE UNCHANGED vars
  <2>1. OthersBound'
    BY <1>2 DEF vars, nameVars, runVars, ShadowInv, OthersBound, Changed, Binds, Argued,
                Parameter, Callee
  <2> QED
    BY <1>1, <1>2, <2>1 DEF vars, ShadowInv
<1>3. CASE stage = "done" /\ Run /\ UNCHANGED nameVars
  <2>1. OthersBound'
    BY <1>3, ExecuteBound, CallBound, ReturnBound DEF Run, ShadowInv
  <2> QED
    BY <1>1, <1>3, <2>1 DEF ShadowInv
<1> QED
  BY <1>2, <1>3, AnalysisShadow DEF Next, Finished

\* Whatever is imported at the head of the file, rebound anywhere in a way _imports
\* looks for, and called: a call that meets something not imported is not a finding.
THEOREM ReboundNeverReported == Spec => []ShadowedRejected
BY InitTyped, NextTyped, InitShadow, NextShadow, ShadowRejects, PTL DEF Spec

-----------------------------------------------------------------------------
(***************************************************************************)
(* Clear names are resolved exactly.  The tables of the analyzer, once it  *)
(* is past the pass that fills them, are functions of the file; a value    *)
(* the run holds under a clear name can only be what the name means.       *)
(***************************************************************************)
Imports(i, n) == prog[i].op = "import" /\ prog[i].name = n
Named(n) == \E i \in DOMAIN prog : Binds(i, n) \/ Parameter(i, n)
Means(n, q) == OnlyImportedAs(n, q) \/ OnlyMadeFrom(n, q)

TypeOf(n) ==
    IF Cardinality(Candidates(n)) = 1 THEN CHOOSE t \in Candidates(n) : TRUE ELSE NoName

Sourced ==
    /\ \A n \in Names : aliases[n] # NoName =>
          \E i \in DOMAIN prog : Imports(i, n) /\ prog[i].of = aliases[n]
    /\ \A n \in shadowed : /\ Rebound(n)
                          /\ \E i \in DOMAIN prog : Imports(i, n)

Resolved ==
    /\ Sourced
    /\ stage \in {"calls", "done"} => \A n \in Names : inferred[n] = TypeOf(n)
    /\ stage = "done" => reported = {i \in DOMAIN prog : BecomesFinding(i)}

\* What v tells of a name it is held under.
Held(v, n) == v # Unbound => /\ Named(n)
                             /\ \A q : Means(n, q) => v = q

RunExact ==
    /\ \A n \in Names : Held(globals[n], n) /\ Held(locals[n], n)
    /\ \A i \in DOMAIN prog : \A v \in met[i] :
          IsCall(i) /\ \E w : /\ w # Unbound /\ Held(w, Callee(i))
                             /\ v = Attribute(w, prog[i].path)

ExactInv == Resolved /\ RunExact

LEMMA ImportedExact ==
    ASSUME Typed, ShadowsNoted, Resolved, unvisited = {},
           NEW n \in Names, NEW t \in Targets, OnlyImportedAs(n, t)
    PROVE  aliases[n] = t /\ n \notin shadowed
<1>1. PICK i \in DOMAIN prog : Binds(i, n) /\ prog[i].op = "import"
  BY DEF OnlyImportedAs
<1>2. aliases[n] # NoName
  BY <1>1 DEF ShadowsNoted, Binds
<1>3. PICK j \in DOMAIN prog : Imports(j, n) /\ prog[j].of = aliases[n]
  BY <1>2 DEF Resolved, Sourced
<1>4. aliases[n] = t
  BY <1>3 DEF OnlyImportedAs, Imports, Binds
<1>5. ~Rebound(n)
  BY DEF OnlyImportedAs, Rebound, RebindsName, Rebinds, Binds
<1> QED
  BY <1>4, <1>5 DEF Resolved, Sourced

\* An imported name keeps its import, for no type is found for it.
LEMMA ImportQualified ==
    ASSUME Typed, ShadowsNoted, Resolved, unvisited = {}, stage = "done",
           NEW n \in Names, NEW t \in Targets, OnlyImportedAs(n, t)
    PROVE  Qualified(n) = t /\ n \notin shadowed
<1>1. Candidates(n) = {}
  <2>1. \A i \in DOMAIN prog : ~(prog[i].op = "make" /\ prog[i].name = n)
    BY DEF OnlyImportedAs, Binds
  <2>2. \A i \in DOMAIN prog : ~Annotates(i, n)
    BY DEF OnlyImportedAs, Parameter, Binds, Annotates
  <2> QED
    BY <2>1, <2>2 DEF Candidates
<1>2. inferred[n] = NoName
  <2>1. Cardinality(Candidates(n)) = 0
    BY <1>1, FS_EmptySet
  <2> QED
    BY <2>1 DEF Resolved, TypeOf
<1>3. t # NoName
  BY Assumptions DEF Typed
<1> QED
  BY <1>2, <1>3, ImportedExact DEF Qualified, Imported

\* What a clear name means is a dotted name.
LEMMA MeaningDotted ==
    ASSUME prog \in Programs, NEW n, NEW q, Named(n), Means(n, q)
    PROVE  q \in Dotted /\ q # NoName /\ q # Other
<1>1. ASSUME NEW i \in DOMAIN prog, NEW t \in Targets PROVE Result(i, t) \in Dotted
  <2>1. t \in Dotted /\ prog[i].path \in Dotted
    BY Assumptions DEF WellFormed
  <2> QED
    BY <2>1, DottedNames DEF Result
<1>2. CASE OnlyImportedAs(n, q)
  <2>1. PICK i \in DOMAIN prog : prog[i].op = "import" /\ prog[i].of = q
    BY <1>2 DEF OnlyImportedAs
  <2> QED
    BY <2>1, Assumptions, RunAssumption DEF WellFormed, RunAssumption
<1>3. CASE OnlyMadeFrom(n, q)
  <2>1. PICK i \in DOMAIN prog, t \in Targets : q = Result(i, t)
    BY <1>3 DEF Named, OnlyMadeFrom
  <2> QED
    BY <1>1, <2>1, Assumptions, RunAssumption DEF RunAssumption
<1> QED
  BY <1>2, <1>3 DEF Means

\* A name made from such a name, and from nothing else, has its type.
LEMMA MadeQualified ==
    ASSUME Typed, ShadowsNoted, Resolved, unvisited = {}, stage = "done",
           NEW n \in Names, NEW q, OnlyMadeFrom(n, q), Named(n)
    PROVE  Qualified(n) = q /\ n \notin shadowed
<1>1. prog \in Programs
  BY DEF Typed
<1>2. ASSUME NEW m \in Names, NEW t \in Targets, OnlyImportedAs(m, t)
      PROVE  Imported(m) = t /\ m \notin shadowed
  <2>1. t # NoName
    BY <1>1, Assumptions
  <2> QED
    BY <1>2, <2>1, ImportedExact DEF Imported
<1>3. ASSUME NEW i \in DOMAIN prog, prog[i].op = "make", prog[i].name = n
      PROVE  Made(Imported(prog[i].of) \o prog[i].path) = q /\ prog[i].of \notin shadowed
  <2>1. prog[i].of \in Names
    BY <1>1, <1>3, Assumptions DEF WellFormed
  <2>2. PICK t \in Targets : OnlyImportedAs(prog[i].of, t) /\ q = Made(t \o prog[i].path)
    BY <1>3 DEF OnlyMadeFrom, Binds, Base, Result
  <2> QED
    BY <1>2, <2>1, <2>2
<1>4. ASSUME NEW i \in DOMAIN prog, Annotates(i, n) \/ Parameter(i, n)
      PROVE  /\ Imported(prog[i].type) \o prog[i].path = q /\ prog[i].type \notin shadowed
             /\ Annotates(i, n)
  <2>1. prog[i].op \in {"annotate", "def"} /\ (Binds(i, n) \/ Parameter(i, n))
    BY <1>4 DEF Annotates, Binds, Parameter
  <2>2. prog[i].type \in Names
    BY <1>1, <1>4, Assumptions DEF WellFormed, Annotates, Parameter, OnlyMadeFrom
  <2>3. PICK t \in Targets : OnlyImportedAs(prog[i].type, t) /\ q = t \o prog[i].path
    BY <2>1 DEF OnlyMadeFrom, Base, Result
  <2>4. Annotates(i, n)
    BY <1>4 DEF OnlyMadeFrom, Annotates, Parameter
  <2> QED
    BY <1>2, <2>2, <2>3, <2>4
<1>5. Candidates(n) \subseteq {q}
  BY <1>3, <1>4 DEF Candidates
<1>6. q \in Candidates(n)
  <2>1. PICK i \in DOMAIN prog : Binds(i, n) \/ Parameter(i, n)
    BY DEF Named
  <2>2. CASE prog[i].op = "make" /\ prog[i].name = n
    BY <1>3, <2>2 DEF Candidates
  <2>3. CASE Annotates(i, n) \/ Parameter(i, n)
    BY <1>4, <2>3 DEF Candidates
  <2> QED
    BY <2>1, <2>2, <2>3 DEF OnlyMadeFrom, Binds, Annotates
<1>7. inferred[n] = q
  <2>1. Candidates(n) = {q}
    BY <1>5, <1>6
  <2>2. Cardinality({q}) = 1
    BY FS_Singleton
  <2> QED
    BY <2>1, <2>2 DEF Resolved, TypeOf
<1>8. n \notin shadowed
  BY DEF Resolved, Sourced, OnlyMadeFrom, Imports, Binds
<1>9. q # NoName
  BY <1>1, MeaningDotted DEF Means
<1> QED
  BY <1>7, <1>8, <1>9 DEF Qualified

LEMMA ExactResolution ==
    Typed /\ PathInv /\ ShadowInv /\ ExactInv => ClearNamesExact
<1> SUFFICES ASSUME Typed, PathInv, ShadowInv, ExactInv,
                    NEW i \in DOMAIN prog, NEW v \in met[i], Clear(Callee(i))
             PROVE  i \in reported <=> v \in Library
  BY DEF ClearNamesExact
<1> DEFINE n == Callee(i)
           path == prog[i].path
<1>1. prog \in Programs
  BY DEF Typed
<1>2. stage = "done" /\ unvisited = {} /\ ShadowsNoted /\ Resolved
  BY DEF ShadowInv, OthersBound, NothingShadowedReported, ExactInv
<1>3. IsCall(i) /\ ~Unreachable(i)
  BY DEF ExactInv, RunExact, PathInv, UnreachableNeverRuns
<1>4. n \in Names
  BY <1>1, <1>3, Assumptions DEF IsCall, Callee, WellFormed
<1>5. PICK w : w # Unbound /\ Held(w, n) /\ v = Attribute(w, path)
  BY DEF ExactInv, RunExact
<1>6. PICK q : Means(n, q) /\ (OnlyImportedAs(n, q) => q \in Targets)
  <2>1. ASSUME NEW t, OnlyImportedAs(n, t) PROVE t \in Targets
    <3>1. PICK j \in DOMAIN prog : prog[j].op = "import" /\ prog[j].of = t
      BY <2>1 DEF OnlyImportedAs
    <3> QED
      BY <1>1, <3>1, Assumptions DEF WellFormed
  <2> QED
    BY <2>1 DEF Clear, Means
<1>7. w = q /\ Named(n)
  BY <1>5, <1>6 DEF Held
<1> HIDE DEF n
<1>8. Qualified(n) = q /\ n \notin shadowed
  BY <1>2, <1>4, <1>6, <1>7, ImportQualified, MadeQualified DEF Means
<1>9. v = q \o path
  <2>1. q # Other
    BY <1>1, <1>6, <1>7, MeaningDotted
  <2> QED
    BY <1>5, <1>7, <2>1 DEF Attribute
<1>10. i \in reported <=> BecomesFinding(i)
  BY <1>2 DEF Resolved
<1> QED
  BY <1>3, <1>8, <1>9, <1>10 DEF BecomesFinding, n

LEMMA InitExact == Init => ExactInv
<1> SUFFICES ASSUME Init PROVE ExactInv
  OBVIOUS
<1>1. Resolved
  BY DEF Init, NameInit, Resolved, Sourced
<1>2. RunExact
  BY DEF Init, RunExact, Held
<1> QED
  BY <1>1, <1>2 DEF ExactInv

\* What does not depend on the variables that a step leaves alone.
LEMMA SameProgram ==
    ASSUME prog' = prog
    PROVE  /\ \A n : Named(n)' <=> Named(n)
           /\ \A n, q : Means(n, q)' <=> Means(n, q)
           /\ \A v, n : Held(v, n)' <=> Held(v, n)
           /\ \A i : (IsCall(i)' <=> IsCall(i)) /\ Callee(i)' = Callee(i)
           /\ \A i : BecomesFinding(i)' <=>
                 /\ IsCall(i) /\ ~Unreachable(i)
                 /\ Callee(i) \notin shadowed'
                 /\ Qualified(Callee(i))' \o prog[i].path \in Library
<1>1. /\ \A n : Named(n)' <=> Named(n)
      /\ \A n, q : Means(n, q)' <=> Means(n, q)
  BY DEF Named, Means, OnlyImportedAs, OnlyMadeFrom, Binds, Parameter, Base, Result
<1>2. \A i : (IsCall(i)' <=> IsCall(i)) /\ Callee(i)' = Callee(i)
  BY DEF IsCall, Callee
<1>3. \A i : Unreachable(i)' <=> Unreachable(i)
  BY DEF Unreachable
<1>4. \A v, n : Held(v, n)' <=> Held(v, n)
  BY <1>1 DEF Held
<1> QED
  BY <1>1, <1>2, <1>3, <1>4 DEF BecomesFinding, Qualified, Imported

LEMMA SameSources ==
    ASSUME Sourced, UNCHANGED <<prog, aliases, shadowed>>
    PROVE  Sourced'
BY DEF Sourced, Imports, Rebound, RebindsName, Rebinds

LEMMA AnalysisExact ==
    ASSUME Typed, ShadowInv, ExactInv, Analyze, UNCHANGED runVars
    PROVE  ExactInv'
<1>1. prog' = prog /\ UNCHANGED <<globals, locals, met>>
  BY DEF Analyze, Visit, InferTypes, ReportCalls, runVars
<1>2. RunExact'
  BY <1>1, SameProgram DEF ExactInv, RunExact
<1>3. ASSUME NEW i \in unvisited, Visit(i) PROVE Resolved'
  <2>1. /\ i \in DOMAIN prog /\ NoteBinding(i) /\ UNCHANGED <<inferred, reported>>
        /\ stage' \notin {"calls", "done"}
    BY <1>3 DEF Visit, Typed, TypeOK, NameTypeOK
  <2>2. prog[i].op = "import" => prog[i].name \in Names
    BY <2>1, Assumptions DEF Typed, WellFormed
  <2>3. ASSUME NEW n \in Names, aliases'[n] # NoName
        PROVE  \E j \in DOMAIN prog : Imports(j, n) /\ prog[j].of = aliases'[n]
    <3>1. CASE aliases'[n] = aliases[n]
      BY <2>3, <3>1 DEF ExactInv, Resolved, Sourced
    <3>2. CASE aliases'[n] # aliases[n]
      <4>1. Imports(i, n) /\ aliases'[n] = prog[i].of
        BY <2>1, <2>2, <3>2 DEF NoteBinding, Imports, Typed, TypeOK, NameTypeOK
      <4> QED
        BY <2>1, <4>1
    <3> QED
      BY <3>1, <3>2
  <2>4. ASSUME NEW n \in shadowed'
        PROVE  Rebound(n) /\ \E j \in DOMAIN prog : Imports(j, n)
    <3>1. CASE n \in shadowed
      BY <3>1 DEF ExactInv, Resolved, Sourced
    <3>2. CASE n \notin shadowed
      <4>1. Rebinds(i) /\ n = prog[i].name /\ aliases[n] # NoName
        BY <2>1, <2>4, <3>2 DEF NoteBinding
      <4>2. n \in Names
        BY <2>1, <4>1, Assumptions DEF Typed, WellFormed, Rebinds
      <4> QED
        BY <2>1, <4>1, <4>2 DEF ExactInv, Resolved, Sourced, Rebound, RebindsName
    <3> QED
      BY <3>1, <3>2
  <2> QED
    BY <1>1, <2>1, <2>3, <2>4 DEF Resolved, Sourced, Imports, Rebound, RebindsName, Rebinds
<1>4. CASE InferTypes
  <2>1. /\ UNCHANGED <<prog, aliases, shadowed, reported>> /\ stage' = "calls"
        /\ inferred' = [n \in Names |-> TypeOf(n)]
    BY <1>4 DEF InferTypes, TypeOf
  <2>2. \A n : TypeOf(n)' = TypeOf(n)
    BY <2>1 DEF TypeOf, Candidates, Annotates, Imported
  <2>3. /\ \A n \in Names : inferred'[n] = TypeOf(n)'
        /\ stage' # "done"
    BY <2>1, <2>2
  <2>4. Sourced'
    BY <2>1, SameSources DEF ExactInv, Resolved
  <2> QED
    BY <1>2, <2>3, <2>4 DEF ExactInv, Resolved
<1>5. CASE ReportCalls
  <2>1. /\ UNCHANGED <<prog, aliases, shadowed, inferred>> /\ stage = "calls"
        /\ reported' = {i \in DOMAIN prog : BecomesFinding(i)}
    BY <1>5 DEF ReportCalls
  <2>2. \A n : TypeOf(n)' = TypeOf(n)
    BY <2>1 DEF TypeOf, Candidates, Annotates, Imported
  <2>3. \A i : BecomesFinding(i)' <=> BecomesFinding(i)
    <3>1. \A n : Qualified(n)' = Qualified(n)
      BY <2>1 DEF Qualified, Imported
    <3>2. \A i : Callee(i)' = Callee(i) /\ (IsCall(i)' <=> IsCall(i))
                /\ (Unreachable(i)' <=> Unreachable(i))
      BY <2>1 DEF Callee, IsCall, Unreachable
    <3> QED
      BY <2>1, <3>1, <3>2 DEF BecomesFinding
  <2>4. /\ \A n \in Names : inferred'[n] = TypeOf(n)'
        /\ reported' = {i \in DOMAIN prog' : BecomesFinding(i)'}
    BY <2>1, <2>2, <2>3 DEF ExactInv, Resolved
  <2>5. Sourced'
    BY <2>1, SameSources DEF ExactInv, Resolved
  <2> QED
    BY <1>2, <2>4, <2>5 DEF ExactInv, Resolved
<1> QED
  BY <1>2, <1>3, <1>4, <1>5 DEF Analyze, ExactInv

LEMMA SameTables ==
    ASSUME Resolved, UNCHANGED nameVars
    PROVE  Resolved'
<1>1. \A n : TypeOf(n)' = TypeOf(n)
  BY DEF nameVars, TypeOf, Candidates, Annotates, Imported
<1>2. \A i : BecomesFinding(i)' <=> BecomesFinding(i)
  <2>1. /\ UNCHANGED <<prog, shadowed>>
        /\ \A n : Qualified(n)' = Qualified(n)
    BY DEF nameVars, Qualified, Imported
  <2>2. \A i : Callee(i)' = Callee(i) /\ (IsCall(i)' <=> IsCall(i))
              /\ (Unreachable(i)' <=> Unreachable(i))
    BY <2>1 DEF Callee, IsCall, Unreachable
  <2> QED
    BY <2>1, <2>2 DEF BecomesFinding
<1> QED
  BY <1>1, <1>2, SameSources DEF nameVars, Resolved

LEMMA ValueHeld ==
    ASSUME RunExact, NEW n \in Names
    PROVE  Held(Value(n), n)
BY DEF RunExact, Value

LEMMA AssignHeld ==
    ASSUME RunTypeOK, RunExact, NEW n \in Names, NEW v, Assign(n, v), Held(v, n)
    PROVE  \A m \in Names : Held(globals'[m], m) /\ Held(locals'[m], m)
BY DEF RunExact, Assign, RunTypeOK

LEMMA ExecuteExact ==
    ASSUME Typed, RunExact, NEW i \in todo, Execute(i), UNCHANGED nameVars
    PROVE  RunExact'
<1> DEFINE Store == \A n \in Names : Held(globals'[n], n) /\ Held(locals'[n], n)
           Calls(j, v) == IsCall(j) /\ \E w : /\ w # Unbound /\ Held(w, Callee(j))
                                             /\ v = Attribute(w, prog[j].path)
           Met == \A j \in DOMAIN prog : \A v \in met'[j] : Calls(j, v)
<1>1. prog' = prog /\ i \in DOMAIN prog /\ prog \in Programs /\ RunTypeOK
  BY DEF nameVars, Typed, TypeOK, RunTypeOK
<1>2. WellFormed(prog[i])
  BY <1>1, Assumptions
<1>3. UNCHANGED <<globals, locals>> => Store
  BY DEF RunExact
<1>4. met' = met => Met
  BY DEF RunExact
<1>5. ASSUME Raise PROVE Store /\ Met
  BY <1>3, <1>4, <1>5 DEF Raise
<1>6. ASSUME NEW v, met' = [met EXCEPT ![i] = @ \cup {v}], Calls(i, v)
      PROVE  Met
  <2>1. ASSUME NEW j \in DOMAIN prog, NEW w \in met'[j]
        PROVE  w \in met[j] \/ (j = i /\ w = v)
    BY <1>1, <1>6, <2>1 DEF RunTypeOK
  <2>2. \A j \in DOMAIN prog : \A w \in met[j] : Calls(j, w)
    BY DEF RunExact
  <2> HIDE DEF Calls
  <2> QED
    BY <1>6, <2>1, <2>2
<1>7. Binds(i, prog[i].name) => Named(prog[i].name)
  BY <1>1 DEF Named
<1> HIDE DEF Store, Met, Calls
<1>8. ASSUME Import(i) PROVE Store /\ Met
  <2>1. prog[i].name \in Names /\ Binds(i, prog[i].name) /\ prog[i].op = "import"
    BY <1>2, <1>8 DEF Import, WellFormed, Binds
  <2>2. Held(Loaded(prog[i]), prog[i].name)
    BY <1>1, <1>7, <2>1 DEF Held, Means, OnlyImportedAs, OnlyMadeFrom
  <2> QED
    BY <1>1, <1>4, <1>5, <1>8, <2>1, <2>2, AssignHeld DEF Import, Store
<1>9. ASSUME prog[i].op \in {"assign", "rebind", "def"}
      PROVE  prog[i].name \in Names /\ Held(Other, prog[i].name)
  <2>1. prog[i].name \in Names /\ Binds(i, prog[i].name)
    BY <1>2, <1>9 DEF WellFormed, Binds
  <2> QED
    BY <1>1, <1>7, <1>9, <2>1 DEF Held, Means, OnlyImportedAs, OnlyMadeFrom
<1>10. ASSUME AssignOther(i) PROVE Store /\ Met
  BY <1>1, <1>4, <1>9, <1>10, AssignHeld DEF AssignOther, Store
<1>11. ASSUME prog[i].op \in {"make", "annotate"}, Value(Base(i)) # Unbound,
              NEW q, Means(prog[i].name, q)
       PROVE  /\ Attribute(Value(Base(i)), prog[i].path) # Other
              /\ prog[i].op = "annotate" => Attribute(Value(Base(i)), prog[i].path) = q
              /\ prog[i].op = "make" => Made(Attribute(Value(Base(i)), prog[i].path)) = q
  <2>1. Binds(i, prog[i].name) /\ Base(i) \in Names /\ prog[i].path \in Dotted
    BY <1>2, <1>11 DEF WellFormed, Binds, Base
  <2>2. PICK t \in Targets : OnlyImportedAs(Base(i), t) /\ q = Result(i, t)
    BY <1>1, <1>11, <2>1 DEF Means, OnlyImportedAs, OnlyMadeFrom
  <2>3. Value(Base(i)) = t
    BY <1>11, <2>1, <2>2, ValueHeld DEF Held, Means
  <2>4. t \in Dotted /\ t \o prog[i].path \in Dotted
    BY <1>1, <2>1, <2>2, Assumptions, DottedNames
  <2>6. t # Other /\ t \o prog[i].path # Other
    BY <2>4, RunAssumption DEF RunAssumption, Values
  <2>5. Attribute(Value(Base(i)), prog[i].path) = t \o prog[i].path
    BY <2>3, <2>6 DEF Attribute
  <2> QED
    BY <1>11, <2>2, <2>6, <2>5 DEF Result
<1>12. ASSUME Make(i) PROVE Store /\ Met
  <2> DEFINE n == prog[i].name
             callee == Attribute(Value(Base(i)), prog[i].path)
  <2>1. /\ n \in Names /\ Base(i) \in Names /\ Binds(i, n) /\ prog[i].op = "make"
        /\ IsCall(i) /\ Callee(i) = Base(i) /\ Base(i) = prog[i].of
    BY <1>2, <1>12 DEF Make, WellFormed, Binds, IsCall, Callee, Base
  <2>2. CASE ~Raise
    <3>1. /\ Value(Base(i)) # Unbound /\ Assign(n, Returned(callee))
          /\ met' = [met EXCEPT ![i] = @ \cup {callee}]
      BY <1>12, <2>1, <2>2 DEF Make
    <3>2. Calls(i, callee)
      BY <2>1, <3>1, ValueHeld DEF Calls
    <3>3. ASSUME NEW q, Means(n, q) PROVE Returned(callee) = q
      BY <1>11, <2>1, <3>1, <3>3 DEF Returned
    <3>4. Held(Returned(callee), n)
      BY <1>7, <2>1, <3>3 DEF Held
    <3> HIDE DEF callee
    <3>5. Store
      BY <1>1, <2>1, <3>1, <3>4, AssignHeld DEF Store
    <3> QED
      BY <1>6, <3>1, <3>2, <3>5
  <2> QED
    BY <1>5, <2>2
<1>14. ASSUME Use(i) PROVE Store /\ Met
  <2>1. prog[i].name \in Names /\ IsCall(i) /\ Callee(i) = prog[i].name
    BY <1>2, <1>14 DEF Use, WellFormed, IsCall, Callee
  <2>2. CASE ~Raise
    <3> DEFINE callee == Attribute(Value(prog[i].name), prog[i].path)
    <3>1. /\ met' = [met EXCEPT ![i] = @ \cup {callee}]
          /\ UNCHANGED <<globals, locals>> /\ Value(prog[i].name) # Unbound
      BY <1>14, <2>2 DEF Use
    <3>2. Calls(i, callee)
      BY <2>1, <3>1, ValueHeld DEF Calls
    <3> HIDE DEF callee
    <3> QED
      BY <1>3, <1>6, <3>1, <3>2
  <2> QED
    BY <1>5, <2>2
<1>16. ASSUME Annotate(i) PROVE Store /\ Met
  <2> DEFINE n == prog[i].name
             w == Attribute(Value(Base(i)), prog[i].path)
  <2>1. /\ n \in Names /\ Base(i) \in Names /\ Binds(i, n) /\ prog[i].op = "annotate"
        /\ Base(i) = prog[i].type
    BY <1>2, <1>16 DEF Annotate, WellFormed, Binds, Base
  <2>2. CASE ~Raise
    <3>1. Value(Base(i)) # Unbound /\ Assign(n, w) /\ met' = met
      BY <1>16, <2>1, <2>2 DEF Annotate
    <3>2. Held(w, n)
      BY <1>7, <1>11, <2>1, <3>1 DEF Held
    <3> HIDE DEF w
    <3> QED
      BY <1>1, <1>4, <2>1, <3>1, <3>2, AssignHeld DEF Store
  <2> QED
    BY <1>5, <2>2
<1>13. ASSUME Define(i) PROVE Store /\ Met
  <2>1. CASE ~Raise
    <3>1. Assign(prog[i].name, Other) /\ met' = met /\ prog[i].op = "def"
      BY <1>13, <2>1 DEF Define
    <3> QED
      BY <1>1, <1>4, <1>9, <3>1, AssignHeld DEF Store
  <2> QED
    BY <1>5, <2>1
<1>17. ASSUME Branch(i) PROVE Store /\ Met
  BY <1>3, <1>4, <1>17 DEF Branch
<1>18. Store /\ Met
  BY <1>8, <1>10, <1>12, <1>13, <1>14, <1>16, <1>17 DEF Execute
<1> QED
  BY <1>1, <1>18, SameProgram DEF RunExact, Store, Met, Calls

\* An argument is held under a clear name only if its annotation is.
LEMMA CallExact ==
    ASSUME Typed, RunExact, NEW f \in defined, Call(f), UNCHANGED nameVars
    PROVE  RunExact'
<1>1. /\ prog' = prog /\ f \in DOMAIN prog /\ prog[f].op = "def" /\ prog \in Programs
      /\ UNCHANGED <<globals, met>>
  BY DEF Call, nameVars, Typed, TypeOK, RunTypeOK
<1>2. PICK v \in Argument(f) :
         locals' = [n \in Names |-> IF n = prog[f].of THEN v ELSE Unbound]
  BY DEF Call
<1>3. Held(v, prog[f].of)
  <2>1. Parameter(f, prog[f].of) /\ Named(prog[f].of)
    BY <1>1 DEF Parameter, Named
  <2>2. ASSUME NEW q, Means(prog[f].of, q) PROVE v = q
    <3>1. /\ prog[f].type # NoName
          /\ \E t \in Targets : OnlyImportedAs(prog[f].type, t) /\ q = t \o prog[f].path
      BY <1>1, <2>1, <2>2 DEF Means, OnlyImportedAs, OnlyMadeFrom, Base, Result
    <3>2. PICK t \in Targets : OnlyImportedAs(prog[f].type, t) /\ q = t \o prog[f].path
      BY <3>1
    <3>3. prog[f].type \in Names
      BY <1>1, <3>1, Assumptions DEF WellFormed
    <3>4. /\ v = Attribute(globals[prog[f].type], prog[f].path)
          /\ globals[prog[f].type] # Unbound
      BY <1>2, <3>1 DEF Argument
    <3>5. globals[prog[f].type] = t
      BY <3>2, <3>3, <3>4 DEF RunExact, Held, Means
    <3>6. t # Other
      BY <1>1, Assumptions, RunAssumption DEF RunAssumption
    <3> QED
      BY <3>2, <3>4, <3>5, <3>6 DEF Attribute
  <2> QED
    BY <2>1, <2>2 DEF Held
<1>4. \A n \in Names : Held(locals'[n], n)
  BY <1>2, <1>3 DEF Held
<1> QED
  BY <1>1, <1>4, SameProgram DEF RunExact

LEMMA ReturnExact ==
    ASSUME Typed, RunExact, FunctionReturns, UNCHANGED nameVars
    PROVE  RunExact'
<1>1. prog' = prog /\ UNCHANGED <<globals, met>>
  BY DEF FunctionReturns, nameVars
<1>2. \A n \in Names : Held(locals'[n], n)
  BY DEF FunctionReturns, Held
<1> QED
  BY <1>1, <1>2, SameProgram DEF RunExact

LEMMA NextExact == Typed /\ ShadowInv /\ ExactInv /\ [Next]_vars => ExactInv'
<1> SUFFICES ASSUME Typed, ShadowInv, ExactInv, [Next]_vars PROVE ExactInv'
  OBVIOUS
<1>1. CASE UNCHANGED vars
  <2>1. RunExact'
    BY <1>1, SameProgram DEF vars, nameVars, runVars, ExactInv, RunExact
  <2> QED
    BY <1>1, <2>1, SameTables DEF vars, ExactInv
<1>2. CASE stage = "done" /\ Run /\ UNCHANGED nameVars
  <2>1. RunExact'
    BY <1>2, ExecuteExact, CallExact, ReturnExact DEF Run, ExactInv
  <2> QED
    BY <1>2, <2>1, SameTables DEF ExactInv
<1> QED
  BY <1>1, <1>2, AnalysisExact DEF Next, Finished

\* A name that is bound in one way only is resolved exactly, to its full dotted name,
\* for every file and every run of it: a call of the name or of an attribute of it is
\* reported if and only if it calls cryptography.
THEOREM ClearNamesResolved == Spec => []ClearNamesExact
<1>1. Init => Typed /\ PathInv /\ ShadowInv /\ ExactInv
  BY InitTyped, InitPath, InitShadow, InitExact
<1>2. Typed /\ PathInv /\ ShadowInv /\ ExactInv /\ [Next]_vars
         => (Typed /\ PathInv /\ ShadowInv /\ ExactInv)'
  BY NextTyped, NextPath, NextShadow, NextExact
<1> QED
  BY <1>1, <1>2, ExactResolution, PTL DEF Spec
=============================================================================
