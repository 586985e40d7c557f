----------------------------- MODULE CommandProofs -----------------------------
(***************************************************************************)
(* CommandLine for every set of units and any number of commands, edits    *)
(* and faults: what an audit calls new has a cause, the documents in a     *)
(* directory are newer ones followed by older ones, and a verdict is       *)
(* documented.  That lines stay within their bound (Bounded) is what type  *)
(* correctness needs besides.                                              *)
(***************************************************************************)
EXTENDS CommandLine, TLAPS

Docs == 1..7

LEMMA DocumentsNumbered == DOMAIN Documents = Docs /\ Len(Documents) = 7 /\ Scanned \subseteq Docs
  BY DEF Documents, Docs, Scanned

Names == {Algorithm[u] : u \in Units}
Ids == ({"code"} \X Units \X Nat) \cup ({"document"} \X Docs \X Names)
Doc == [run : Nat, whole : BOOLEAN, algorithms : SUBSET Names]
Results == [all : SUBSET Ids, active : SUBSET Ids]
Baselines == [state : {"none", "torn", "whole"}, ids : SUBSET Ids,
              touched : SUBSET Units, wrote : SUBSET Docs]
Processes == [pc : Pcs, cmd : {"none", "audit", "baseline", "verify"}, against : BOOLEAN,
              dir : Dirs \cup {"none"}, gate : BOOLEAN, run : Nat, result : Results,
              new : SUBSET Ids, next : Nat, exit : Nat, touched : SUBSET Units]

Shape ==
    /\ code \in [Units -> Nat] /\ exempt \subseteq Units
    /\ out \in [Dirs -> [Docs -> Doc]]
    /\ baseline \in Baselines /\ proc \in Processes
    /\ commands \in Nat /\ proc.run = commands

\* Before the documents of a command are written, all are of earlier ones, and
\* it has compared nothing yet.
Before == {"scan", "scan_again", "load_baseline", "open_baseline", "fill_baseline"}
Looping == {"open", "fill", "print"}

\* In the loop, those before the next one are this command's, the others older.
Loop ==
    \A k \in Docs : LET d == out[proc.dir][k] IN
        /\ k < proc.next => d.run = proc.run /\ d.whole
        /\ k > proc.next => d.run < proc.run
        /\ k = proc.next => IF proc.pc = "fill" THEN d.run = proc.run ELSE d.run < proc.run

Progress ==
    /\ \A d \in Dirs : \A k \in Docs : out[d][k].run <= proc.run
    /\ proc.pc \in Before => /\ \A d \in Dirs : \A k \in Docs : out[d][k].run < proc.run
                             /\ proc.next = 1 /\ proc.new = {}
    /\ proc.pc \in {"open", "fill"} => proc.dir \in Dirs /\ proc.next \in 1..Last
    /\ proc.pc \in Looping /\ proc.dir \in Dirs => Loop
    /\ proc.pc = "print" /\ proc.dir \in Dirs => proc.next = Last + 1
    /\ proc.pc = "scan_again" => proc.cmd = "verify"
    /\ proc.pc \in {"open_baseline", "fill_baseline"} => proc.cmd = "baseline"

Recent(id) == IF id[1] = "code" THEN id[2] \in baseline.touched ELSE id[2] \in baseline.wrote
Known(S) == \A id \in S : id \in baseline.ids \/ Recent(id)

\* The argument for NewIsNews: whatever is found now is in the baseline or
\* recent, and so is what was found before the baseline is read; while a
\* baseline is made, what is found now was found then, or touched since.
News ==
    /\ baseline.state = "whole" => Known(Reading.active)
    /\ baseline.state = "whole" /\ proc.pc = "load_baseline" => Known(proc.result.active)
    /\ proc.pc \in {"open_baseline", "fill_baseline"} =>
          \A id \in Reading.active :
              id \in proc.result.active \/ (id[1] = "code" /\ id[2] \in proc.touched)
    /\ NewIsNews

Inv == Shape /\ Progress /\ NewerFirst /\ VerdictDocumented /\ News

-----------------------------------------------------------------------------
(***************************************************************************)
(* What a scan finds, and what a step can add to it.                       *)
(***************************************************************************)
LEMMA ReadingTyped == ASSUME Shape PROVE Reading \in Results
<1>1. CodeFindings \subseteq Ids BY DEF CodeFindings, Ids, Shape
<1>2. DocumentFindings \subseteq Ids
  <2> SUFFICES ASSUME NEW id \in DocumentFindings PROVE id \in Ids OBVIOUS
  <2>1. PICK k \in Scanned : /\ "inside" \in Dirs
                             /\ id \in {<<"document", k, a>> : a \in out["inside"][k].algorithms \cap Mentions}
      BY DEF DocumentFindings
  <2>2. PICK a \in out["inside"][k].algorithms : id = <<"document", k, a>> BY <2>1
  <2>3. k \in Docs BY DocumentsNumbered
  <2>4. out["inside"][k] \in Doc BY <2>1, <2>3 DEF Shape
  <2>5. a \in Names BY <2>2, <2>4 DEF Doc
  <2>. QED BY <2>2, <2>3, <2>5 DEF Ids
<1>. QED BY <1>1, <1>2 DEF Reading, Results

LEMMA AlgorithmTyped == ASSUME NEW id \in Ids PROVE AlgorithmOf(id) \in Names
  BY DEF Ids, AlgorithmOf, Names

\* An edit of one unit adds only findings of this unit.
LEMMA UnitTouched ==
    ASSUME Shape, NEW u \in Units, UNCHANGED out,
           \A v \in Units \ {u} : code'[v] = code[v] /\ (v \in exempt <=> v \in exempt'),
           NEW id \in Reading'.active
    PROVE  id \in Reading.active \/ (id[1] = "code" /\ id[2] = u)
<1>1. DocumentFindings' = DocumentFindings BY DEF DocumentFindings
<1>2. CASE id \in DocumentFindings
  <2>1. id[1] = "document" BY <1>2 DEF DocumentFindings
  <2>. QED BY <1>2, <2>1 DEF Reading
<1>3. CASE id \in CodeFindings'
  <2>1. PICK v \in Units : code'[v] # 0 /\ id = <<"code", v, code'[v]>>
      BY <1>3 DEF CodeFindings
  <2>2. CASE v = u BY <2>1, <2>2
  <2>3. CASE v # u
    <3>1. code'[v] = code[v] BY <2>3
    <3>2. v \notin exempt' BY <2>1 DEF Reading
    <3>3. v \notin exempt BY <2>3, <3>2
    <3>4. id \in CodeFindings BY <2>1, <3>1 DEF CodeFindings
    <3>5. id \notin {<<"code", w, code[w]>> : w \in exempt} BY <2>1, <3>3
    <3>. QED BY <3>4, <3>5 DEF Reading
  <2>. QED BY <2>2, <2>3
<1>. QED BY <1>1, <1>2, <1>3 DEF Reading

\* A document that is replaced adds only findings in this document, and a torn
\* one adds none.
LEMMA DocumentReplaced ==
    ASSUME Shape, UNCHANGED tree, NEW d \in Dirs, NEW k \in Docs, NEW x \in Doc,
           out' = [out EXCEPT ![d][k] = x],
           NEW id \in Reading'.active
    PROVE  id \in Reading.active \/ (id[1] = "document" /\ id[2] = k /\ d = "inside" /\ x.whole)
<1>1. code' = code /\ exempt' = exempt BY DEF tree
<1>2. CASE id \in CodeFindings'
  <2>1. id \in CodeFindings BY <1>1, <1>2 DEF CodeFindings
  <2>. QED BY <1>1, <2>1 DEF Reading
<1>3. CASE id \in DocumentFindings'
  <2>1. PICK j \in Scanned :
            /\ "inside" \in Dirs /\ out'["inside"][j].whole
            /\ id \in {<<"document", j, a>> : a \in out'["inside"][j].algorithms \cap Mentions}
      BY <1>3 DEF DocumentFindings
  <2>2. id[1] = "document" /\ id[2] = j BY <2>1
  <2>3. j \in Docs BY DocumentsNumbered
  <2>4. CASE d = "inside" /\ j = k
    <3>1. out'["inside"][j] = x BY <2>4 DEF Shape
    <3>. QED BY <2>1, <2>2, <2>4, <3>1
  <2>5. CASE ~(d = "inside" /\ j = k)
    <3>1. out'["inside"][j] = out["inside"][j] BY <2>1, <2>3, <2>5 DEF Shape
    <3>2. id \in DocumentFindings BY <2>1, <3>1 DEF DocumentFindings
    <3>. QED BY <2>2, <3>2 DEF Reading
  <2>. QED BY <2>4, <2>5
<1>. QED BY <1>2, <1>3 DEF Reading

LEMMA SameReading == ASSUME UNCHANGED <<tree, out>> PROVE Reading' = Reading
  BY DEF Reading, CodeFindings, DocumentFindings, tree

LEMMA Replaced ==
    ASSUME NEW f \in [Dirs -> [Docs -> Doc]], NEW d \in Dirs, NEW k \in Docs, NEW x \in Doc,
           NEW g, g = [f EXCEPT ![d][k] = x]
    PROVE  /\ g \in [Dirs -> [Docs -> Doc]]
           /\ \A e \in Dirs : \A j \in Docs : g[e][j] = IF e = d /\ j = k THEN x ELSE f[e][j]
<1>1. [f[d] EXCEPT ![k] = x] \in [Docs -> Doc] OBVIOUS
<1>. QED BY <1>1

-----------------------------------------------------------------------------
(***************************************************************************)
(* The command's record.                                                   *)
(***************************************************************************)
LEMMA CommandTyped ==
    ASSUME NEW cmd \in {"none", "audit", "baseline", "verify"}, NEW against \in BOOLEAN,
           NEW d \in Dirs \cup {"none"}, NEW gate \in BOOLEAN, NEW n \in Nat,
           NEW p, p = Command(cmd, against, d, gate, n)
    PROVE  /\ p \in Processes /\ p.pc = "scan" /\ p.cmd = cmd /\ p.run = n
           /\ p.next = 1 /\ p.new = {} /\ p.dir = d
<1>1. NoResult \in Results BY DEF NoResult, Results
<1>2. "scan" \in Pcs BY DEF Pcs
<1>. QED BY <1>1, <1>2 DEF Command, Processes

Codes == {0, 1, 3, 130, 137}

LEMMA EndsTyped ==
    ASSUME proc \in Processes, NEW c \in Codes, Ends(c)
    PROVE  /\ proc' \in Processes /\ proc'.pc = "idle" /\ proc'.exit = c
           /\ proc'.cmd = proc.cmd /\ proc'.run = proc.run /\ proc'.new = proc.new
           /\ proc'.dir = proc.dir /\ proc'.against = proc.against
<1>1. "idle" \in Pcs /\ c \in Nat BY DEF Pcs, Codes
<1>2. proc' = [proc EXCEPT !.pc = "idle", !.exit = c] BY DEF Ends
<1>. QED BY <1>1, <1>2 DEF Processes

LEMMA PcTyped ==
    ASSUME proc \in Processes, NEW c \in Pcs, proc' = [proc EXCEPT !.pc = c]
    PROVE  /\ proc' \in Processes /\ proc'.pc = c
           /\ proc'.cmd = proc.cmd /\ proc'.run = proc.run /\ proc'.new = proc.new
           /\ proc'.dir = proc.dir /\ proc'.against = proc.against /\ proc'.next = proc.next
           /\ proc'.result = proc.result /\ proc'.touched = proc.touched
  BY DEF Processes

LEMMA ScanTyped ==
    ASSUME proc \in Processes, NEW r \in Results, NEW c \in Pcs,
           proc' = [proc EXCEPT !.result = r, !.touched = {}, !.pc = c]
    PROVE  /\ proc' \in Processes /\ proc'.pc = c /\ proc'.result = r /\ proc'.touched = {}
           /\ proc'.cmd = proc.cmd /\ proc'.run = proc.run /\ proc'.new = proc.new
           /\ proc'.dir = proc.dir /\ proc'.against = proc.against /\ proc'.next = proc.next
  BY DEF Processes

LEMMA LoadTyped ==
    ASSUME proc \in Processes, NEW n \in SUBSET Ids, NEW c \in Pcs,
           proc' = [proc EXCEPT !.new = n, !.pc = c]
    PROVE  /\ proc' \in Processes /\ proc'.pc = c /\ proc'.new = n
           /\ proc'.cmd = proc.cmd /\ proc'.run = proc.run
           /\ proc'.dir = proc.dir /\ proc'.against = proc.against /\ proc'.next = proc.next
  BY DEF Processes

LEMMA FillTyped ==
    ASSUME proc \in Processes, NEW c \in Pcs,
           proc' = [proc EXCEPT !.next = @ + 1, !.pc = c]
    PROVE  /\ proc' \in Processes /\ proc'.pc = c /\ proc'.new = proc.new
           /\ proc'.cmd = proc.cmd /\ proc'.run = proc.run
           /\ proc'.dir = proc.dir /\ proc'.against = proc.against
           /\ proc'.next = proc.next + 1
<1>1. proc.next \in Nat /\ proc.next + 1 \in Nat BY DEF Processes
<1>2. proc' = [proc EXCEPT !.next = proc.next + 1, !.pc = c] OBVIOUS
<1>. QED BY <1>1, <1>2 DEF Processes

LEMMA TouchTyped ==
    ASSUME proc \in Processes, NEW u \in Units,
           proc' = [proc EXCEPT !.touched = @ \cup {u}]
    PROVE  /\ proc' \in Processes /\ proc'.pc = proc.pc /\ proc'.new = proc.new
           /\ proc'.cmd = proc.cmd /\ proc'.run = proc.run /\ proc'.exit = proc.exit
           /\ proc'.dir = proc.dir /\ proc'.against = proc.against /\ proc'.next = proc.next
           /\ proc'.result = proc.result /\ proc'.touched = proc.touched \cup {u}
  BY DEF Processes

LEMMA ShapeOfProc ==
    ASSUME Shape
    PROVE  /\ proc.pc \in Pcs /\ proc.run \in Nat /\ proc.next \in Nat
           /\ proc.against \in BOOLEAN /\ proc.dir \in Dirs \cup {"none"}
           /\ proc.result \in Results /\ proc.result.active \subseteq Ids
           /\ proc.result.all \subseteq Ids /\ Last \in {6, 7}
           /\ baseline.state \in {"none", "torn", "whole"}
           /\ \A d \in Dirs : \A k \in Docs : out[d][k] \in Doc /\ out[d][k].run \in Nat
<1>1. Last \in {6, 7} BY DocumentsNumbered DEF Last
<1>2. \A d \in Dirs : \A k \in Docs : out[d][k] \in Doc BY DEF Shape
<1>. QED BY <1>1, <1>2 DEF Shape, Processes, Results, Baselines, Doc

-----------------------------------------------------------------------------
LEMMA InvInit == Init => Inv
<1> SUFFICES ASSUME Init PROVE Inv OBVIOUS
<1>1. proc \in Processes /\ proc.pc = "idle" /\ proc.run = 0 /\ proc.new = {}
      /\ proc.cmd = "none"
  <2> DEFINE p == Command("none", FALSE, "none", FALSE, 0)
  <2>1. /\ p \in Processes /\ p.run = 0 /\ p.new = {} /\ p.cmd = "none"
    <3>1. NoResult \in Results BY DEF NoResult, Results
    <3>2. "scan" \in Pcs BY DEF Pcs
    <3>. QED BY <3>1, <3>2 DEF Command, Processes
  <2>2. proc = [p EXCEPT !.pc = "idle"] BY DEF Init
  <2>3. "idle" \in Pcs BY DEF Pcs
  <2>. QED
    <3> HIDE DEF p
    <3>. QED BY <2>1, <2>2, <2>3 DEF Processes
<1>2. NoDocument \in Doc /\ NoDocument.run = 0 BY DEF NoDocument, Doc
<1>3. /\ out \in [Dirs -> [Docs -> Doc]]
      /\ \A d \in Dirs : \A k \in Docs : out[d][k].run = 0
  <2>1. out = [d \in Dirs |-> [k \in Docs |-> NoDocument]] BY DocumentsNumbered DEF Init
  <2>. QED BY <1>2, <2>1
<1>4. baseline \in Baselines /\ baseline.state = "none"
    BY DEF Init, NoBaseline, Baselines
<1>5. Shape
  <2>1. code \in [Units -> Nat] BY DEF Init
  <2>2. exempt \subseteq Units /\ commands = 0 BY DEF Init
  <2>. QED BY <1>1, <1>3, <1>4, <2>1, <2>2 DEF Shape
<1>6. Progress BY <1>1, <1>3 DEF Progress, Before, Looping
<1>7. NewerFirst BY <1>3, DocumentsNumbered DEF NewerFirst
<1>8. VerdictDocumented BY <1>1 DEF VerdictDocumented
<1>9. News BY <1>1, <1>4 DEF News, NewIsNews
<1>. QED BY <1>5, <1>6, <1>7, <1>8, <1>9 DEF Inv

-----------------------------------------------------------------------------
(***************************************************************************)
(* Each action preserves the invariant.                                    *)
(***************************************************************************)
LEMMA StartKeepsInv == ASSUME Inv, Start PROVE Inv'
<1> USE DEF Inv
<1>1. UNCHANGED <<tree, code, exempt, out, baseline>> /\ commands' = commands + 1
      /\ proc.pc = "idle"
    BY DEF Start, tree
<1>2. commands' \in Nat BY <1>1 DEF Shape
<1>3. /\ proc' \in Processes /\ proc'.pc = "scan" /\ proc'.run = commands'
      /\ proc'.next = 1 /\ proc'.new = {}
  <2>1. CASE \E against, gate \in BOOLEAN, d \in Dirs \cup {"none"} :
               proc' = Command("audit", against, d, gate, commands')
      BY <1>2, <2>1, CommandTyped
  <2>2. CASE \E cmd \in {"baseline", "verify"} :
               proc' = Command(cmd, FALSE, "none", FALSE, commands')
    <3>1. NoResult \in Results BY DEF NoResult, Results
    <3>2. "scan" \in Pcs BY DEF Pcs
    <3>. QED BY <1>2, <2>2, <3>1, <3>2 DEF Command, Processes
  <2>. QED BY <2>1, <2>2 DEF Start
<1>4. Shape' BY <1>1, <1>2, <1>3 DEF Shape
<1>5. Progress'
  <2>1. \A d \in Dirs : \A k \in Docs : out[d][k].run < proc'.run
    <3>1. \A d \in Dirs : \A k \in Docs : out[d][k].run \in Nat /\ out[d][k].run <= commands
        BY ShapeOfProc DEF Progress, Shape
    <3>. QED BY <1>1, <1>3, <3>1 DEF Shape
  <2>2. \A d \in Dirs : \A k \in Docs : out[d][k].run <= proc'.run
    <3>1. \A d \in Dirs : \A k \in Docs : out[d][k].run \in Nat BY ShapeOfProc
    <3>. QED BY <1>2, <1>3, <2>1, <3>1
  <2>. QED BY <1>1, <1>3, <2>1, <2>2 DEF Progress, Before, Looping
<1>6. NewerFirst' BY <1>1 DEF NewerFirst
<1>7. VerdictDocumented' BY <1>3 DEF VerdictDocumented
<1>8. Reading' = Reading BY <1>1, SameReading
<1>9. News' BY <1>1, <1>3, <1>8 DEF News, NewIsNews, Known, Recent
<1>. QED BY <1>4, <1>5, <1>6, <1>7, <1>9

\* A command that ends without a verdict on an audit.
LEMMA EndKeepsInv ==
    ASSUME Inv, proc.pc # "idle", UNCHANGED <<tree, out, baseline, commands>>,
           NEW c \in Codes, Ends(c), proc.cmd # "audit" \/ c \notin {0, 1}
    PROVE  Inv'
<1> USE DEF Inv
<1>1. /\ proc' \in Processes /\ proc'.pc = "idle" /\ proc'.exit = c
      /\ proc'.cmd = proc.cmd /\ proc'.run = proc.run /\ proc'.new = proc.new
    BY EndsTyped DEF Shape
<1>2. Shape' BY <1>1 DEF Shape, tree
<1>3. Progress' BY <1>1 DEF Progress, Before, Looping
<1>4. NewerFirst' BY DEF NewerFirst
<1>5. VerdictDocumented' BY <1>1 DEF VerdictDocumented
<1>6. Reading' = Reading BY SameReading
<1>7. News' BY <1>1, <1>6 DEF News, NewIsNews, Known, Recent
<1>. QED BY <1>2, <1>3, <1>4, <1>5, <1>7

LEMMA StopKeepsInv == ASSUME Inv, Stop PROVE Inv'
<1>1. PICK c \in {3, 130, 137} : Ends(c) BY DEF Stop
<1>2. UNCHANGED <<tree, out, baseline, commands>> /\ proc.pc # "idle" BY DEF Stop
<1>. QED BY <1>1, <1>2, EndKeepsInv DEF Codes

LEMMA ScanAgainKeepsInv == ASSUME Inv, ScanAgain PROVE Inv'
<1>1. proc.pc = "scan_again" /\ UNCHANGED <<tree, out, baseline, commands>>
    BY DEF ScanAgain, Step
<1>2. proc.cmd # "audit" BY <1>1 DEF Inv, Progress
<1>3. PICK c \in {0, 3} : Ends(c) BY DEF ScanAgain
<1>. QED BY <1>1, <1>2, <1>3, EndKeepsInv DEF Codes

LEMMA ScanKeepsInv == ASSUME Inv, Scan PROVE Inv'
<1> USE DEF Inv
<1>1. proc.pc = "scan" /\ UNCHANGED <<tree, code, exempt, out, baseline, commands>>
    BY DEF Scan, Step, tree
<1>2. PICK c \in Pcs :
        /\ proc' = [proc EXCEPT !.result = Reading, !.touched = {}, !.pc = c]
        /\ c \in {"open_baseline", "scan_again", "load_baseline", "print", "open"}
        /\ c = "scan_again" => proc.cmd = "verify"
        /\ c = "open_baseline" => proc.cmd = "baseline"
        /\ c = "print" => proc.dir = "none"
        /\ c = "open" => proc.dir # "none"
    BY DEF Scan, Output, Pcs
<1>3. Reading \in Results BY ReadingTyped
<1>4. /\ proc' \in Processes /\ proc'.pc = c /\ proc'.result = Reading
      /\ proc'.touched = {} /\ proc'.cmd = proc.cmd /\ proc'.run = proc.run
      /\ proc'.new = proc.new /\ proc'.dir = proc.dir /\ proc'.against = proc.against
      /\ proc'.next = proc.next
  <2>1. proc \in Processes BY DEF Shape
  <2>2. proc' = [proc EXCEPT !.result = Reading, !.touched = {}, !.pc = c] BY <1>2
  <2>. QED BY <1>3, <2>1, <2>2, ScanTyped
<1>5. Shape' BY <1>1, <1>4 DEF Shape
<1>6. /\ proc.next = 1 /\ proc.new = {} /\ proc.run \in Nat
      /\ \A d \in Dirs : \A k \in Docs : out[d][k].run < proc.run
      /\ proc.dir \in Dirs \cup {"none"} /\ "none" \notin Dirs /\ Last \in {6, 7}
    BY <1>1, ShapeOfProc, CommandAssumption DEF Progress, Before
<1>7. Last' = Last BY <1>4 DEF Last
<1>8. Progress'
  <2>1. c = "open" => proc.dir \in Dirs /\ 1 \in 1..Last BY <1>2, <1>6
  <2>2. c = "open" => Loop' BY <1>1, <1>4, <1>6, <2>1 DEF Loop, Docs
  <2>3. c = "print" => proc'.dir \notin Dirs BY <1>2, <1>4, <1>6
  <2>. QED BY <1>1, <1>2, <1>4, <1>6, <1>7, <2>1, <2>2, <2>3 DEF Progress, Before, Looping
<1>9. NewerFirst' BY <1>1 DEF NewerFirst
<1>10. VerdictDocumented' BY <1>2, <1>4 DEF VerdictDocumented
<1>11. Reading' = Reading BY <1>1, SameReading
<1>12. News' BY <1>1, <1>2, <1>4, <1>6, <1>11 DEF News, NewIsNews, Known, Recent
<1>. QED BY <1>5, <1>8, <1>9, <1>10, <1>12

LEMMA OpenBaselineKeepsInv == ASSUME Inv, OpenBaseline PROVE Inv'
<1> USE DEF Inv
<1>1. proc.pc = "open_baseline" /\ UNCHANGED <<tree, code, exempt, out, commands>>
    BY DEF OpenBaseline, Step, tree
<1>2. baseline' = [baseline EXCEPT !.state = "torn"] /\ proc' = [proc EXCEPT !.pc = "fill_baseline"]
    BY DEF OpenBaseline
<1>3. /\ proc' \in Processes /\ proc'.pc = "fill_baseline" /\ proc'.new = proc.new
      /\ proc'.cmd = proc.cmd /\ proc'.run = proc.run /\ proc'.next = proc.next
      /\ proc'.result = proc.result /\ proc'.touched = proc.touched
    BY <1>2, PcTyped DEF Shape, Pcs
<1>4. baseline' \in Baselines /\ baseline'.state = "torn"
    BY <1>2 DEF Shape, Baselines
<1>5. Shape' BY <1>1, <1>3, <1>4 DEF Shape
<1>6. Progress' BY <1>1, <1>3 DEF Progress, Before, Looping
<1>7. NewerFirst' BY <1>1 DEF NewerFirst
<1>8. VerdictDocumented' BY <1>3 DEF VerdictDocumented
<1>9. Reading' = Reading BY <1>1, SameReading
<1>10. proc.new = {} BY <1>1 DEF Progress, Before
<1>11. News' BY <1>1, <1>3, <1>4, <1>9, <1>10 DEF News, NewIsNews
<1>. QED BY <1>5, <1>6, <1>7, <1>8, <1>11

LEMMA FillBaselineKeepsInv == ASSUME Inv, FillBaseline PROVE Inv'
<1> USE DEF Inv
<1>1. proc.pc = "fill_baseline" /\ UNCHANGED <<tree, code, exempt, out, commands>>
    BY DEF FillBaseline, Step, tree
<1>2. baseline' = [state |-> "whole", ids |-> proc.result.active,
                   touched |-> proc.touched, wrote |-> {}]
    BY DEF FillBaseline
<1>3. /\ proc' \in Processes /\ proc'.pc = "idle" /\ proc'.new = proc.new
      /\ proc'.cmd = proc.cmd /\ proc'.run = proc.run
    BY EndsTyped DEF FillBaseline, Shape, Codes
<1>4. baseline' \in Baselines
  <2>1. proc.result.active \subseteq Ids BY ShapeOfProc
  <2>2. proc.touched \subseteq Units BY DEF Shape, Processes
  <2>. QED BY <1>2, <2>1, <2>2 DEF Baselines
<1>5. Shape' BY <1>1, <1>3, <1>4 DEF Shape
<1>6. Progress' BY <1>1, <1>3 DEF Progress, Before, Looping
<1>7. NewerFirst' BY <1>1 DEF NewerFirst
<1>8. proc.cmd = "baseline" /\ proc.new = {} BY <1>1 DEF Progress, Before
<1>9. VerdictDocumented' BY <1>3, <1>8 DEF VerdictDocumented
<1>10. Reading' = Reading BY <1>1, SameReading
<1>11. Known(Reading.active)'
  <2> SUFFICES ASSUME NEW id \in Reading.active PROVE id \in baseline'.ids \/ Recent(id)'
      BY <1>10 DEF Known
  <2>. QED BY <1>1, <1>2 DEF News, Recent
<1>12. News' BY <1>3, <1>8, <1>11 DEF News, NewIsNews
<1>. QED BY <1>5, <1>6, <1>7, <1>9, <1>12

LEMMA LoadBaselineKeepsInv == ASSUME Inv, LoadBaseline PROVE Inv'
<1> USE DEF Inv
<1>1. proc.pc = "load_baseline" /\ UNCHANGED <<tree, code, exempt, out, baseline, commands>>
    BY DEF LoadBaseline, Step, tree
<1>2. CASE baseline.state # "whole"
  <2>1. Ends(3) BY <1>2 DEF LoadBaseline
  <2>. QED BY <1>1, <2>1, EndKeepsInv DEF Codes
<1>3. CASE baseline.state = "whole"
  <2> DEFINE n == proc.result.active \ baseline.ids
  <2>1. proc' = [proc EXCEPT !.new = n, !.pc = Output] BY <1>3 DEF LoadBaseline
  <2>2. n \in SUBSET Ids /\ Output \in Pcs BY ShapeOfProc DEF Output, Pcs
  <2>3. /\ proc' \in Processes /\ proc'.pc = Output /\ proc'.new = n
        /\ proc'.cmd = proc.cmd /\ proc'.run = proc.run /\ proc'.next = proc.next
        /\ proc'.dir = proc.dir /\ proc'.against = proc.against
    <3>1. proc \in Processes BY DEF Shape
    <3> HIDE DEF n
    <3>. QED BY <2>1, <2>2, <3>1, LoadTyped
  <2>4. Shape' BY <1>1, <2>3 DEF Shape
  <2>5. /\ proc.next = 1 /\ proc.run \in Nat
        /\ \A d \in Dirs : \A k \in Docs : out[d][k].run < proc.run
        /\ proc.dir \in Dirs \cup {"none"} /\ "none" \notin Dirs /\ Last \in {6, 7}
      BY <1>1, ShapeOfProc, CommandAssumption DEF Progress, Before
  <2>6. Last' = Last BY <2>3 DEF Last
  <2>7. Progress'
    <3>1. Output = "open" => proc.dir \in Dirs /\ 1 \in 1..Last BY <2>5 DEF Output
    <3>2. Output = "open" => Loop' BY <1>1, <2>3, <2>5, <3>1 DEF Loop, Docs
    <3>3. Output = "print" => proc'.dir \notin Dirs BY <2>3, <2>5 DEF Output
    <3>4. Output \in {"open", "print"} BY DEF Output
    <3> HIDE DEF n
    <3>. QED BY <1>1, <2>3, <2>5, <2>6, <3>1, <3>2, <3>3, <3>4 DEF Progress, Before, Looping
  <2>8. NewerFirst' BY <1>1 DEF NewerFirst
  <2>9. Output \in {"open", "print"} BY DEF Output
  <2>10. VerdictDocumented' BY <2>3, <2>9 DEF VerdictDocumented
  <2>11. Reading' = Reading BY <1>1, SameReading
  <2>12. NewIsNews' BY <1>1, <1>3, <2>3 DEF News, NewIsNews, Known, Recent
  <2>13. News' BY <1>1, <2>3, <2>9, <2>11, <2>12 DEF News, Known, Recent
  <2>. QED BY <2>4, <2>7, <2>8, <2>10, <2>13
<1>. QED BY <1>2, <1>3

\* The document at d, k is replaced, as Open and Fill do.
LEMMA NewsOfDocument ==
    ASSUME Inv, proc.pc \notin {"load_baseline", "open_baseline", "fill_baseline"},
           UNCHANGED tree, NEW d \in Dirs, NEW k \in Docs, NEW x \in Doc,
           out' = [out EXCEPT ![d][k] = x],
           baseline'.state = baseline.state, baseline'.ids = baseline.ids,
           baseline'.touched = baseline.touched, baseline.wrote \subseteq baseline'.wrote,
           x.whole /\ d = "inside" => k \in baseline'.wrote,
           proc'.pc \notin {"load_baseline", "open_baseline", "fill_baseline"},
           proc'.new = proc.new
    PROVE  News'
<1>1. baseline.state = "whole" => Known(Reading.active)'
  <2> SUFFICES ASSUME baseline.state = "whole", NEW id \in Reading'.active
               PROVE  id \in baseline'.ids \/ Recent(id)'
      BY DEF Known
  <2>1. id \in Reading.active \/ (id[1] = "document" /\ id[2] = k /\ d = "inside" /\ x.whole)
      BY DocumentReplaced DEF Inv
  <2>2. CASE id \in Reading.active BY <2>2 DEF Inv, News, Known, Recent
  <2>3. CASE id[1] = "document" /\ id[2] = k /\ d = "inside" /\ x.whole
      BY <2>3 DEF Recent
  <2>. QED BY <2>1, <2>2, <2>3
<1>2. NewIsNews' BY DEF Inv, News, NewIsNews
<1>. QED BY <1>1, <1>2 DEF News

\* Documents before the next one are newer than those after it.
LEMMA OpenKeepsInv == ASSUME Inv, Open PROVE Inv'
<1> USE DEF Inv
<1>1. proc.pc = "open" /\ UNCHANGED <<tree, code, exempt, baseline, commands>>
    BY DEF Open, Step, tree
<1> DEFINE d == proc.dir
           k == proc.next
           x == [run |-> proc.run, whole |-> FALSE, algorithms |-> {}]
<1>2. out' = [out EXCEPT ![d][k] = x] /\ proc' = [proc EXCEPT !.pc = "fill"] BY DEF Open
<1>3. /\ proc' \in Processes /\ proc'.pc = "fill" /\ proc'.new = proc.new
      /\ proc'.cmd = proc.cmd /\ proc'.run = proc.run /\ proc'.next = k
      /\ proc'.dir = d /\ proc'.against = proc.against
    BY <1>2, PcTyped DEF Shape, Pcs
<1>4. d \in Dirs /\ k \in 1..Last /\ Last \in {6, 7} BY <1>1, ShapeOfProc DEF Progress
<1>5. k \in Docs BY <1>4 DEF Docs
<1>6. proc.run \in Nat BY ShapeOfProc
<1>7. x \in Doc /\ x.run = proc.run /\ ~x.whole BY <1>6 DEF Doc
<1>8. /\ out' \in [Dirs -> [Docs -> Doc]]
      /\ \A e \in Dirs : \A j \in Docs : out'[e][j] = IF e = d /\ j = k THEN x ELSE out[e][j]
  <2>1. out \in [Dirs -> [Docs -> Doc]] BY DEF Shape
  <2> HIDE DEF d, k, x
  <2>. QED BY <1>2, <1>4, <1>5, <1>7, <2>1, Replaced
<1>9. Shape' BY <1>1, <1>3, <1>8 DEF Shape
<1>10. /\ Last' = Last /\ Loop
       /\ \A e \in Dirs : \A j \in Docs : out[e][j].run <= proc.run /\ out[e][j].run \in Nat
    BY <1>1, <1>3, <1>4, ShapeOfProc DEF Last, Progress, Looping
<1> HIDE DEF d, k, x
<1>11. Loop'
  <2> SUFFICES ASSUME NEW j \in Docs
               PROVE  LET y == out'[d][j] IN
                        /\ j < k => y.run = proc.run /\ y.whole
                        /\ j > k => y.run < proc.run
                        /\ j = k => y.run = proc.run
      BY <1>3 DEF Loop
  <2>1. /\ j < k => out[d][j].run = proc.run /\ out[d][j].whole
        /\ j > k => out[d][j].run < proc.run
      BY <1>10 DEF Loop, d, k
  <2>2. j \in Int /\ k \in Int BY <1>5 DEF Docs
  <2>. QED BY <1>4, <1>7, <1>8, <2>1, <2>2
<1>12. Progress'
  <2>1. \A e \in Dirs : \A j \in Docs : out'[e][j].run <= proc'.run
      BY <1>3, <1>6, <1>7, <1>8, <1>10
  <2>. QED BY <1>3, <1>4, <1>10, <1>11, <2>1 DEF Progress, Before
<1>13. NewerFirst'
  <2> SUFFICES ASSUME NEW e \in Dirs, NEW i \in Docs, NEW j \in Docs, i < j
               PROVE  out'[e][i].run >= out'[e][j].run
      BY DocumentsNumbered DEF NewerFirst
  <2>1. out[e][i].run >= out[e][j].run BY DocumentsNumbered DEF NewerFirst
  <2>2. e = d /\ i < k => out[e][i].run = proc.run BY <1>10 DEF Loop, d, k
  <2>. QED BY <1>5, <1>6, <1>7, <1>8, <1>10, <2>1, <2>2 DEF Docs
<1>14. VerdictDocumented' BY <1>3 DEF VerdictDocumented
<1>15. News'
  <2>1. baseline.wrote \subseteq baseline'.wrote BY <1>1
  <2>. QED BY <1>1, <1>2, <1>3, <1>4, <1>5, <1>7, <2>1, NewsOfDocument
<1>. QED BY <1>9, <1>12, <1>13, <1>14, <1>15

\* The document is whole, and the loop moves on, or ends after the last one.
LEMMA FillKeepsInv == ASSUME Inv, Fill PROVE Inv'
<1> USE DEF Inv
<1>1. proc.pc = "fill" /\ UNCHANGED <<tree, code, exempt, commands>>
    BY DEF Fill, Step, tree
<1> DEFINE d == proc.dir
           k == proc.next
           x == [run |-> proc.run, whole |-> TRUE,
                 algorithms |-> {AlgorithmOf(id) : id \in proc.result.all}]
<1>2. out' = [out EXCEPT ![d][k] = x] BY DEF Fill
<1>3. PICK c \in Pcs :
        /\ proc' = [proc EXCEPT !.next = @ + 1, !.pc = c]
        /\ c = IF k = Last THEN "print" ELSE "open"
    BY DEF Fill, Pcs
<1>4. /\ proc' \in Processes /\ proc'.pc = c /\ proc'.new = proc.new
      /\ proc'.cmd = proc.cmd /\ proc'.run = proc.run /\ proc'.next = k + 1
      /\ proc'.dir = d /\ proc'.against = proc.against
    BY <1>3, FillTyped DEF Shape
<1>5. d \in Dirs /\ k \in 1..Last /\ Last \in {6, 7} BY <1>1, ShapeOfProc DEF Progress
<1>6. k \in Docs BY <1>5 DEF Docs
<1>7. proc.run \in Nat BY ShapeOfProc
<1>8. x \in Doc /\ x.run = proc.run /\ x.whole
  <2>1. x.algorithms \subseteq Names BY ShapeOfProc, AlgorithmTyped
  <2>. QED BY <1>7, <2>1 DEF Doc
<1>9. /\ out' \in [Dirs -> [Docs -> Doc]]
      /\ \A e \in Dirs : \A j \in Docs : out'[e][j] = IF e = d /\ j = k THEN x ELSE out[e][j]
  <2>1. out \in [Dirs -> [Docs -> Doc]] BY DEF Shape
  <2> HIDE DEF d, k, x
  <2>. QED BY <1>2, <1>5, <1>6, <1>8, <2>1, Replaced
<1>10. /\ baseline' \in Baselines /\ baseline'.state = baseline.state
       /\ baseline'.ids = baseline.ids /\ baseline'.touched = baseline.touched
       /\ baseline.wrote \subseteq baseline'.wrote
       /\ d = "inside" => k \in baseline'.wrote
  <2>1. baseline' = IF d = "inside" THEN [baseline EXCEPT !.wrote = @ \cup {k}] ELSE baseline
      BY DEF Fill
  <2>2. baseline \in Baselines BY DEF Shape
  <2> HIDE DEF d, k
  <2>. QED BY <1>6, <2>1, <2>2 DEF Baselines
<1>11. Shape' BY <1>1, <1>4, <1>9, <1>10 DEF Shape
<1>12. /\ Last' = Last /\ Loop
       /\ \A e \in Dirs : \A j \in Docs : out[e][j].run <= proc.run /\ out[e][j].run \in Nat
    BY <1>1, <1>4, <1>5, ShapeOfProc DEF Last, Progress, Looping
<1> HIDE DEF d, k, x
<1>13. Loop'
  <2> SUFFICES ASSUME NEW j \in Docs
               PROVE  LET y == out'[d][j] IN
                        /\ j < k + 1 => y.run = proc.run /\ y.whole
                        /\ j > k + 1 => y.run < proc.run
                        /\ j = k + 1 => y.run < proc.run
      BY <1>3, <1>4 DEF Loop
  <2>1. /\ j < k => out[d][j].run = proc.run /\ out[d][j].whole
        /\ j > k => out[d][j].run < proc.run
      BY <1>12 DEF Loop, d, k
  <2>2. j \in Int /\ k \in Int BY <1>6 DEF Docs
  <2>. QED BY <1>5, <1>8, <1>9, <2>1, <2>2
<1>14. Progress'
  <2>1. \A e \in Dirs : \A j \in Docs : out'[e][j].run <= proc'.run
      BY <1>4, <1>7, <1>8, <1>9, <1>12
  <2>2. c = "open" => k + 1 \in 1..Last BY <1>3, <1>5
  <2>3. c = "print" => k + 1 = Last + 1 BY <1>3
  <2>4. c \in {"open", "print"} BY <1>3
  <2>. QED BY <1>4, <1>5, <1>12, <1>13, <2>1, <2>2, <2>3, <2>4 DEF Progress, Before
<1>15. NewerFirst'
  <2> SUFFICES ASSUME NEW e \in Dirs, NEW i \in Docs, NEW j \in Docs, i < j
               PROVE  out'[e][i].run >= out'[e][j].run
      BY DocumentsNumbered DEF NewerFirst
  <2>1. out[e][i].run >= out[e][j].run BY DocumentsNumbered DEF NewerFirst
  <2>2. out[d][k].run = proc.run BY <1>1, <1>6, <1>12 DEF Loop, d, k
  <2>. QED BY <1>5, <1>6, <1>7, <1>8, <1>9, <2>1, <2>2
<1>16. VerdictDocumented' BY <1>3, <1>4 DEF VerdictDocumented
<1>17. News'
  <2>1. c \notin {"load_baseline", "open_baseline", "fill_baseline"} BY <1>3
  <2>2. proc'.pc \notin {"load_baseline", "open_baseline", "fill_baseline"} BY <1>4, <2>1
  <2>. QED BY <1>1, <1>2, <1>4, <1>5, <1>6, <1>8, <1>10, <2>2, NewsOfDocument
<1>. QED BY <1>11, <1>14, <1>15, <1>16, <1>17

\* When the loop has ended, the documents before the next one are all of them.
LEMMA JudgeKeepsInv == ASSUME Inv, Judge PROVE Inv'
<1> USE DEF Inv
<1>1. proc.pc = "print" /\ UNCHANGED <<tree, code, exempt, out, baseline, commands>>
    BY DEF Judge, Step, tree
<1>2. PICK c \in {0, 1} : Ends(c) BY DEF Judge
<1>3. /\ proc' \in Processes /\ proc'.pc = "idle" /\ proc'.exit = c
      /\ proc'.cmd = proc.cmd /\ proc'.run = proc.run /\ proc'.new = proc.new
      /\ proc'.dir = proc.dir /\ proc'.against = proc.against
    BY <1>2, EndsTyped DEF Shape, Codes
<1>4. Shape' BY <1>1, <1>3 DEF Shape
<1>5. Progress' BY <1>1, <1>3 DEF Progress, Before, Looping
<1>6. NewerFirst' BY <1>1 DEF NewerFirst
<1>7. VerdictDocumented'
  <2> SUFFICES ASSUME proc.dir # "none", NEW k \in Docs
               PROVE  /\ out[proc.dir][k].run = proc.run <=> k \in 1..Last
                      /\ k \in 1..Last => out[proc.dir][k].whole
    <3>1. Last = (IF proc.against THEN 7 ELSE 6) BY DocumentsNumbered DEF Last
    <3>2. 1..Last \subseteq Docs BY <3>1 DEF Docs
    <3>3. \A k \in Docs : proc.dir # "none" =>
              /\ out[proc.dir][k].run = proc.run <=> k \in 1..Last
              /\ k \in 1..Last => out[proc.dir][k].whole
        OBVIOUS
    <3>. QED BY <1>1, <1>3, <3>1, <3>2, <3>3, DocumentsNumbered DEF VerdictDocumented
  <2>1. proc.dir \in Dirs /\ Last \in {6, 7} /\ proc.run \in Nat BY ShapeOfProc
  <2>2. proc.next = Last + 1 /\ Loop BY <1>1, <2>1 DEF Progress, Looping
  <2>3. out[proc.dir][k].run \in Nat BY <2>1, ShapeOfProc
  <2>4. /\ k < proc.next => out[proc.dir][k].run = proc.run /\ out[proc.dir][k].whole
        /\ k >= proc.next => out[proc.dir][k].run < proc.run
      BY <1>1, <2>1, <2>2 DEF Loop, Docs
  <2>. QED BY <2>1, <2>2, <2>3, <2>4 DEF Docs
<1>8. Reading' = Reading BY <1>1, SameReading
<1>9. News' BY <1>1, <1>3, <1>8 DEF News, NewIsNews, Known, Recent
<1>. QED BY <1>4, <1>5, <1>6, <1>7, <1>9

\* An edit of one unit.
LEMMA TouchKeepsInv ==
    ASSUME Inv, NEW u \in Units, Touch(u), code' \in [Units -> Nat], exempt' \subseteq Units,
           \A v \in Units \ {u} : code'[v] = code[v] /\ (v \in exempt <=> v \in exempt')
    PROVE  Inv'
<1> USE DEF Inv
<1>1. UNCHANGED <<out, commands>> BY DEF Touch
<1>2. /\ proc' \in Processes /\ proc'.pc = proc.pc /\ proc'.new = proc.new
      /\ proc'.cmd = proc.cmd /\ proc'.run = proc.run /\ proc'.exit = proc.exit
      /\ proc'.dir = proc.dir /\ proc'.against = proc.against /\ proc'.next = proc.next
      /\ proc'.result = proc.result /\ proc'.touched = proc.touched \cup {u}
    BY TouchTyped DEF Touch, Shape
<1>3. /\ baseline' \in Baselines /\ baseline'.state = baseline.state
      /\ baseline'.ids = baseline.ids /\ baseline'.wrote = baseline.wrote
      /\ baseline'.touched = baseline.touched \cup {u}
  <2>1. baseline' = [baseline EXCEPT !.touched = @ \cup {u}] BY DEF Touch
  <2>. QED BY <2>1 DEF Shape, Baselines
<1>4. Shape' BY <1>1, <1>2, <1>3 DEF Shape
<1>5. Last' = Last BY <1>2 DEF Last
<1>6. Progress' BY <1>1, <1>2, <1>5 DEF Progress, Before, Looping, Loop
<1>7. NewerFirst' BY <1>1 DEF NewerFirst
<1>8. VerdictDocumented' BY <1>1, <1>2 DEF VerdictDocumented
<1>9. ASSUME NEW id \in Reading'.active
      PROVE  id \in Reading.active \/ (id[1] = "code" /\ id[2] = u)
    BY <1>1, UnitTouched
<1>10. baseline.state = "whole" => Known(Reading.active)'
    BY <1>3, <1>9 DEF News, Known, Recent
<1>11. baseline.state = "whole" /\ proc.pc = "load_baseline" => Known(proc.result.active)'
    BY <1>2, <1>3 DEF News, Known, Recent
<1>12. proc.pc \in {"open_baseline", "fill_baseline"} =>
          \A id \in Reading'.active :
              id \in proc.result.active \/ (id[1] = "code" /\ id[2] \in proc'.touched)
    BY <1>2, <1>9 DEF News
<1>13. NewIsNews' BY <1>2, <1>3 DEF News, NewIsNews
<1>14. News' BY <1>2, <1>3, <1>10, <1>11, <1>12, <1>13 DEF News
<1>. QED BY <1>4, <1>6, <1>7, <1>8, <1>14

LEMMA EditCodeKeepsInv == ASSUME Inv, EditCode PROVE Inv'
<1>1. PICK u \in Units, n \in 0..MaxLine :
        code' = [code EXCEPT ![u] = n] /\ Touch(u) /\ UNCHANGED exempt
    BY DEF EditCode
<1>2. code \in [Units -> Nat] /\ exempt \subseteq Units BY DEF Inv, Shape
<1>3. n \in Nat BY CommandAssumption
<1>4. code' \in [Units -> Nat] BY <1>1, <1>2, <1>3
<1>5. \A v \in Units \ {u} : code'[v] = code[v] /\ (v \in exempt <=> v \in exempt')
    BY <1>1, <1>2
<1>. QED BY <1>1, <1>2, <1>4, <1>5, TouchKeepsInv

LEMMA SuppressKeepsInv == ASSUME Inv, Suppress \/ Expire PROVE Inv'
<1>1. PICK u \in Units : exempt' \in {exempt \cup {u}, exempt \ {u}} /\ Touch(u) /\ UNCHANGED code
    BY DEF Suppress, Expire, Inv, Shape
<1>2. code' \in [Units -> Nat] /\ exempt' \subseteq Units BY <1>1 DEF Inv, Shape
<1>3. \A v \in Units \ {u} : code'[v] = code[v] /\ (v \in exempt <=> v \in exempt')
    BY <1>1
<1>. QED BY <1>1, <1>2, <1>3, TouchKeepsInv

LEMMA StutterKeepsInv == ASSUME Inv, UNCHANGED vars PROVE Inv'
<1>1. UNCHANGED <<tree, code, exempt, out, baseline, proc, commands>> BY DEF vars, tree
<1>2. Reading' = Reading BY <1>1, SameReading
<1>3. News' BY <1>1, <1>2 DEF Inv, News, NewIsNews, Known, Recent
<1>4. Progress' BY <1>1 DEF Inv, Progress, Loop, Last
<1>. QED BY <1>1, <1>3, <1>4 DEF Inv, Shape, NewerFirst, VerdictDocumented

LEMMA InvInvariant == Spec => []Inv
<1>1. Inv /\ [Next]_vars => Inv'
    BY StartKeepsInv, ScanKeepsInv, ScanAgainKeepsInv, OpenBaselineKeepsInv,
       FillBaselineKeepsInv, LoadBaselineKeepsInv, OpenKeepsInv, FillKeepsInv, JudgeKeepsInv,
       StopKeepsInv, EditCodeKeepsInv, SuppressKeepsInv, StutterKeepsInv
    DEF Next, Run, Finished
<1>. QED BY <1>1, InvInit, PTL DEF Spec

-----------------------------------------------------------------------------
\* Whichever audits fail or are killed half-way, in whatever order, the
\* documents of a results directory are newer ones followed by older ones
\* (cli.py:176-188).
THEOREM DocumentsNewerFirst == Spec => []NewerFirst
<1>1. Inv => NewerFirst BY DEF Inv
<1>. QED BY <1>1, InvInvariant, PTL

\* An audit that ends with a verdict has left a whole and consistent set of
\* documents, and a baseline diff exactly when it compared (cli.py:173-215).
THEOREM VerdictsDocumented == Spec => []VerdictDocumented
<1>1. Inv => VerdictDocumented BY DEF Inv
<1>. QED BY <1>1, InvInvariant, PTL

\* What an audit calls new was touched, or written by an audit, since the scan
\* its baseline was made from (cli.py:308-322).
THEOREM NewHasACause == Spec => []NewIsNews
<1>1. Inv => NewIsNews BY DEF Inv, News
<1>. QED BY <1>1, InvInvariant, PTL

-----------------------------------------------------------------------------
(***************************************************************************)
(* Types: the bounds, and what the comparison takes from the result.       *)
(***************************************************************************)
Bounded ==
    /\ code \in [Units -> 0..MaxLine]
    /\ proc.exit \in Codes /\ proc.next \in 1..8
    /\ proc.result.active \subseteq proc.result.all
    /\ proc.new \subseteq proc.result.active
    /\ commands \in 0..MaxCommands /\ edits \in 0..MaxEdits /\ faults \in 0..MaxFaults

LEMMA TypeIsInv == Inv /\ Bounded => TypeOK
<1> SUFFICES ASSUME Inv, Bounded PROVE TypeOK OBVIOUS
<1>1. Shape /\ \A d \in Dirs : \A k \in Docs : out[d][k].run <= proc.run
    BY DEF Inv, Progress
<1>2. proc.run = commands /\ commands \in Nat BY <1>1 DEF Shape
<1>3. \A d \in Dirs : \A k \in Docs : out[d][k] \in Document
  <2> SUFFICES ASSUME NEW d \in Dirs, NEW k \in Docs PROVE out[d][k] \in Document OBVIOUS
  <2>1. out[d][k] \in Doc BY <1>1 DEF Shape
  <2>2. out[d][k].run \in 0..commands BY <1>1, <1>2, <2>1 DEF Doc
  <2>. QED BY <2>1, <2>2 DEF Doc, Document, Names
<1>4. out \in [Dirs -> [DOMAIN Documents -> Document]]
  <2>1. out \in [Dirs -> [Docs -> Doc]] BY <1>1 DEF Shape
  <2>. QED BY <1>3, <2>1, DocumentsNumbered
<1>5. /\ baseline.state \in {"none", "torn", "whole"} /\ baseline.touched \subseteq Units
      /\ baseline.wrote \subseteq DOMAIN Documents
    BY <1>1, DocumentsNumbered DEF Shape, Baselines
<1>6. /\ proc.pc \in Pcs /\ proc.dir \in Dirs \cup {"none"}
      /\ proc.run \in 0..commands
    BY <1>1, <1>2, ShapeOfProc
<1>7. /\ proc.next \in 1..Len(Documents) + 1
      /\ proc.exit \in {0, 1, 3, 130, 137}
    BY DocumentsNumbered DEF Bounded, Codes
<1>. QED BY <1>1, <1>4, <1>5, <1>6, <1>7 DEF TypeOK, Bounded, Shape

LEMMA BoundedInit == Init => Bounded
<1> SUFFICES ASSUME Init PROVE Bounded OBVIOUS
<1>1. code \in [Units -> 0..MaxLine]
  <2>1. MaxLine \in Nat /\ 0..1 \subseteq 0..MaxLine BY CommandAssumption
  <2>2. code \in [Units -> 0..1] BY DEF Init
  <2>. QED BY <2>1, <2>2
<1>2. /\ proc.exit = 0 /\ proc.next = 1 /\ proc.result = NoResult /\ proc.new = {}
    BY DEF Init, Command
<1>3. NoResult.active = {} BY DEF NoResult
<1>4. commands \in 0..MaxCommands /\ edits \in 0..MaxEdits /\ faults \in 0..MaxFaults
    BY CommandAssumption DEF Init
<1>. QED BY <1>1, <1>2, <1>3, <1>4 DEF Bounded, Codes

\* The start of a command, and its scan.
LEMMA BoundedStart == ASSUME Inv, Bounded, Start PROVE Bounded'
<1>1. UNCHANGED <<code, edits, faults>> /\ commands' \in 0..MaxCommands
    BY CommandAssumption DEF Start, tree, Bounded
<1>2. \E cmd, against, dir, gate : proc' = Command(cmd, against, dir, gate, commands')
    BY DEF Start
<1>3. proc'.exit = 0 /\ proc'.next = 1 /\ proc'.result = NoResult /\ proc'.new = {}
    BY <1>2 DEF Command
<1>4. NoResult.active = {} BY DEF NoResult
<1>. QED BY <1>1, <1>3, <1>4 DEF Bounded, Codes

LEMMA BoundedScan == ASSUME Inv, Bounded, Scan PROVE Bounded'
<1>1. UNCHANGED <<code, commands, edits, faults>> /\ proc.pc = "scan"
    BY DEF Scan, Step, tree
<1>2. PICK c : proc' = [proc EXCEPT !.result = Reading, !.touched = {}, !.pc = c]
    BY DEF Scan
<1>3. /\ proc'.exit = proc.exit /\ proc'.next = proc.next
      /\ proc'.result = Reading /\ proc'.new = proc.new
    BY <1>2 DEF Inv, Shape, Processes
<1>4. proc.new = {} BY <1>1 DEF Inv, Progress, Before
<1>5. Reading.active \subseteq Reading.all BY DEF Reading
<1>. QED BY <1>1, <1>3, <1>4, <1>5 DEF Bounded

\* The steps that change of the command's record at most where it is and how it
\* ends.
LEMMA BoundedOn ==
    ASSUME Inv, Bounded, ScanAgain \/ OpenBaseline \/ FillBaseline \/ Open \/ Judge \/ Stop
    PROVE  Bounded'
<1>1. UNCHANGED <<code, commands, edits>> /\ faults' \in 0..MaxFaults
    BY CommandAssumption
    DEF ScanAgain, OpenBaseline, FillBaseline, Open, Judge, Stop, Step, tree, Bounded
<1>2. \/ \E c \in Codes : Ends(c)
      \/ \E c : proc' = [proc EXCEPT !.pc = c]
    BY DEF ScanAgain, OpenBaseline, FillBaseline, Open, Judge, Stop, Codes
<1>3. /\ proc'.exit \in Codes /\ proc'.next = proc.next
      /\ proc'.result = proc.result /\ proc'.new = proc.new
    BY <1>2 DEF Ends, Bounded, Inv, Shape, Processes
<1>. QED BY <1>1, <1>3 DEF Bounded

\* What is new is taken from what is active.
LEMMA BoundedLoad == ASSUME Inv, Bounded, LoadBaseline PROVE Bounded'
<1>1. UNCHANGED <<code, commands, edits, faults>> BY DEF LoadBaseline, Step, tree
<1>2. CASE baseline.state = "whole"
  <2>1. proc' = [proc EXCEPT !.new = proc.result.active \ baseline.ids, !.pc = Output]
      BY <1>2 DEF LoadBaseline
  <2>2. /\ proc'.exit = proc.exit /\ proc'.next = proc.next /\ proc'.result = proc.result
        /\ proc'.new = proc.result.active \ baseline.ids
      BY <2>1 DEF Inv, Shape, Processes
  <2>. QED BY <1>1, <2>2 DEF Bounded
<1>3. CASE baseline.state # "whole"
  <2>1. Ends(3) BY <1>3 DEF LoadBaseline
  <2>2. /\ proc'.exit = 3 /\ proc'.next = proc.next
        /\ proc'.result = proc.result /\ proc'.new = proc.new
      BY <2>1 DEF Ends, Inv, Shape, Processes
  <2>. QED BY <1>1, <2>2 DEF Bounded, Codes
<1>. QED BY <1>2, <1>3

\* The loop over the documents ends behind the last one.
LEMMA BoundedFill == ASSUME Inv, Bounded, Fill PROVE Bounded'
<1>1. UNCHANGED <<code, commands, edits, faults>> /\ proc.pc = "fill" BY DEF Fill, Step, tree
<1>2. PICK c : proc' = [proc EXCEPT !.next = @ + 1, !.pc = c] BY DEF Fill
<1>3. /\ proc'.exit = proc.exit /\ proc'.next = proc.next + 1
      /\ proc'.result = proc.result /\ proc'.new = proc.new
    BY <1>2 DEF Inv, Shape, Processes
<1>4. proc.next \in 1..Last /\ Last \in {6, 7} BY <1>1, ShapeOfProc DEF Inv, Progress
<1>5. proc'.next \in 1..8 BY <1>3, <1>4
<1>. QED BY <1>1, <1>3, <1>5 DEF Bounded

LEMMA BoundedEdit == ASSUME Inv, Bounded, EditCode \/ Suppress \/ Expire PROVE Bounded'
<1>1. PICK u \in Units : Touch(u) BY DEF EditCode, Suppress, Expire, Inv, Shape
<1>2. code' \in [Units -> 0..MaxLine]
  <2>1. CASE EditCode
    <3>1. PICK v \in Units, n \in 0..MaxLine : code' = [code EXCEPT ![v] = n]
        BY <2>1 DEF EditCode
    <3>. QED BY <3>1 DEF Bounded
  <2>2. CASE Suppress \/ Expire BY <2>2 DEF Suppress, Expire, Bounded
  <2>. QED BY <2>1, <2>2
<1>3. UNCHANGED <<commands, faults>> /\ edits' \in 0..MaxEdits
    BY <1>1, CommandAssumption DEF Touch, Bounded
<1>4. /\ proc'.exit = proc.exit /\ proc'.next = proc.next
      /\ proc'.result = proc.result /\ proc'.new = proc.new
    BY <1>1 DEF Touch, Inv, Shape, Processes
<1>. QED BY <1>2, <1>3, <1>4 DEF Bounded

\* Every variable keeps to its type: every document names only algorithms of the
\* code, however often the results are scanned again, the loop stays within the
\* documents, and nothing is called new that is not active (cli.py:173-189,
\* 298-322).
THEOREM CommandLineTyped == Spec => []TypeOK
<1>1. Init => Bounded BY BoundedInit
<1>2. Inv /\ Bounded /\ [Next]_vars => Bounded'
  <2>1. UNCHANGED vars /\ Bounded => Bounded' BY DEF vars, tree, Bounded
  <2>. QED BY <2>1, BoundedStart, BoundedScan, BoundedOn, BoundedLoad, BoundedFill, BoundedEdit
           DEF Next, Run, Finished
<1>3. Inv /\ Bounded => TypeOK BY TypeIsInv
<1>. QED BY <1>1, <1>2, <1>3, InvInvariant, PTL DEF Spec
=============================================================================
