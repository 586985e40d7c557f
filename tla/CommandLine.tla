------------------------------ MODULE CommandLine ------------------------------
(***************************************************************************)
(* The command line over time: cli.py writes result documents and          *)
(* baselines that later commands read, one as its --baseline, the others   *)
(* because a results directory inside the scanned tree is scanned with it. *)
(*                                                                         *)
(* One command runs at a time, and a scan is one step (AuditPipeline and   *)
(* Discovery have its inside).  Each document is truncated and then        *)
(* written; a command may fail, be interrupted or be killed at any step;   *)
(* the developer edits the code meanwhile.                                 *)
(***************************************************************************)
EXTENDS Integers, Sequences

CONSTANTS
    Units,          \* calls and keys in the code, each one finding
    Algorithm,      \* of each unit
    Severe,         \* the units whose severity reaches --fail-on
    Mentions,       \* algorithms that ConfigAnalyzer reports when a document names one
    SevereMentions, \* those of them whose severity reaches --fail-on
    Dirs,           \* results directories; "inside" is in the scanned tree
    MaxLine, MaxCommands, MaxEdits, MaxFaults       \* bounds

ASSUME CommandAssumption ==
    /\ Severe \subseteq Units /\ SevereMentions \subseteq Mentions
    /\ Dirs \subseteq {"inside", "outside"}
    /\ {MaxLine, MaxCommands, MaxEdits, MaxFaults} \subseteq Nat
    /\ MaxLine # 0         \* a unit that is there is on a line

VARIABLES
    code,       \* the line each unit is on; 0 when it is not there
    exempt,     \* units with a suppression in force
    out,        \* the documents in each results directory
    baseline,   \* the file given to --baseline
    proc,       \* the command that runs, or ran last
    commands, edits, faults

tree == <<code, exempt>>
vars == <<tree, out, baseline, proc, commands, edits, faults>>

\* The documents in the order they are written; the last one only with a baseline.
Documents == <<"audit", "inventory", "cbom", "cbom.cdx", "migration-plan", "sarif",
               "baseline-diff">>
\* Those in which an algorithm is the value of a key that ConfigAnalyzer looks at.
Scanned == {1, 2, 3}

NoDocument == [run |-> 0, whole |-> TRUE, algorithms |-> {}]
\* `touched` and `wrote` are history: what has changed since the scan the
\* baseline was made from.
NoBaseline == [state |-> "none", ids |-> {}, touched |-> {}, wrote |-> {}]
NoResult == [all |-> {}, active |-> {}]
Command(cmd, against, dir, gate, run) ==
    [pc |-> "scan", cmd |-> cmd, against |-> against, dir |-> dir, gate |-> gate,
     run |-> run, result |-> NoResult, new |-> {}, next |-> 1, exit |-> 0, touched |-> {}]

Init ==
    /\ code \in [Units -> 0..1] /\ exempt \in SUBSET Units
    /\ out = [d \in Dirs |-> [k \in DOMAIN Documents |-> NoDocument]]
    /\ baseline = NoBaseline
    /\ proc = [Command("none", FALSE, "none", FALSE, 0) EXCEPT !.pc = "idle"]
    /\ commands = 0 /\ edits = 0 /\ faults = 0

-----------------------------------------------------------------------------
(***************************************************************************)
(* What a scan finds.  A finding is known by where it is: a unit and its   *)
(* line, or a document and the algorithm named there (whose line, the      *)
(* first that has the name, is left out).                                  *)
(***************************************************************************)
CodeFindings == {<<"code", u, code[u]>> : u \in {v \in Units : code[v] # 0}}

\* A torn document is no JSON, and nothing is found in it.
DocumentFindings ==
    UNION {{<<"document", k, a>> : a \in out["inside"][k].algorithms \cap Mentions} :
           k \in {j \in Scanned : "inside" \in Dirs /\ out["inside"][j].whole}}

Reading ==
    LET all == CodeFindings \cup DocumentFindings
    IN  [all |-> all, active |-> all \ {<<"code", u, code[u]>> : u \in exempt}]

Reaches(id) == IF id[1] = "code" THEN id[2] \in Severe ELSE id[3] \in SevereMentions
AlgorithmOf(id) == IF id[1] = "code" THEN Algorithm[id[2]] ELSE id[3]

-----------------------------------------------------------------------------
(***************************************************************************)
(* The commands.                                                           *)
(***************************************************************************)
Start ==
    /\ proc.pc = "idle" /\ commands < MaxCommands /\ commands' = commands + 1
    /\ \/ \E against, gate \in BOOLEAN, d \in Dirs \cup {"none"} :
             proc' = Command("audit", against, d, gate, commands')
       \/ \E cmd \in {"baseline", "verify"} :
             proc' = Command(cmd, FALSE, "none", FALSE, commands')
    /\ UNCHANGED <<tree, out, baseline, edits, faults>>

Step(from) ==
    proc.pc = from /\ UNCHANGED <<tree, commands, edits, faults>>

Ends(code_) == proc' = [proc EXCEPT !.pc = "idle", !.exit = code_]

\* Where an audit goes on when it needs no (more) baseline.
Output == IF proc.dir = "none" THEN "print" ELSE "open"

Scan ==
    /\ Step("scan")
    /\ proc' = [proc EXCEPT !.result = Reading, !.touched = {},
           !.pc = CASE proc.cmd = "baseline" -> "open_baseline"
                    [] proc.cmd = "verify" -> "scan_again"
                    [] OTHER -> IF proc.against THEN "load_baseline" ELSE Output]
    /\ UNCHANGED <<out, baseline>>

ScanAgain ==
    /\ Step("scan_again")
    /\ Ends(IF Reading = proc.result THEN 0 ELSE 3)
    /\ UNCHANGED <<out, baseline>>

OpenBaseline ==
    /\ Step("open_baseline")
    /\ baseline' = [baseline EXCEPT !.state = "torn"]
    /\ proc' = [proc EXCEPT !.pc = "fill_baseline"]
    /\ UNCHANGED out

FaultyFillBaseline ==       \* only findings that reach --fail-on are kept
    /\ Step("fill_baseline")
    /\ baseline' = [state |-> "whole", ids |-> {id \in proc.result.active : Reaches(id)},
                    touched |-> proc.touched, wrote |-> {}]
    /\ Ends(0)
    /\ UNCHANGED out

FillBaseline ==
    /\ Step("fill_baseline")
    /\ baseline' = [state |-> "whole", ids |-> proc.result.active,
                    touched |-> proc.touched, wrote |-> {}]
    /\ Ends(0)
    /\ UNCHANGED out

FaultyLoadBaseline ==       \* suppressed findings are compared too
    /\ Step("load_baseline")
    /\ IF baseline.state = "whole"
       THEN proc' = [proc EXCEPT !.new = proc.result.all \ baseline.ids, !.pc = Output]
       ELSE Ends(3)
    /\ UNCHANGED <<out, baseline>>

LoadBaseline ==
    /\ Step("load_baseline")
    /\ IF baseline.state = "whole"
       THEN proc' = [proc EXCEPT !.new = proc.result.active \ baseline.ids, !.pc = Output]
       ELSE Ends(3)
    /\ UNCHANGED <<out, baseline>>

FaultyOpen ==               \* documents that are there already are left alone
    /\ Step("open")
    /\ LET old == out[proc.dir][proc.next].run # 0
       IN  /\ out' = IF old THEN out ELSE [out EXCEPT ![proc.dir][proc.next] =
                         [run |-> proc.run, whole |-> FALSE, algorithms |-> {}]]
           /\ proc' = IF ~old THEN [proc EXCEPT !.pc = "fill"]
                      ELSE IF proc.next < 6 THEN [proc EXCEPT !.next = @ + 1]
                      ELSE [proc EXCEPT !.pc = "print"]
    /\ UNCHANGED baseline

Open ==
    /\ Step("open")
    /\ out' = [out EXCEPT ![proc.dir][proc.next] =
                  [run |-> proc.run, whole |-> FALSE, algorithms |-> {}]]
    /\ proc' = [proc EXCEPT !.pc = "fill"]
    /\ UNCHANGED baseline

FaultyLast == Len(Documents)    \* a diff is written even without a baseline

Last == IF proc.against THEN Len(Documents) ELSE Len(Documents) - 1

FaultyFill ==               \* the loop does not move on
    /\ Step("fill")
    /\ out' = [out EXCEPT ![proc.dir][proc.next].whole = TRUE]
    /\ proc' = [proc EXCEPT !.pc = "open"]
    /\ UNCHANGED baseline

Fill ==
    /\ Step("fill")
    /\ out' = [out EXCEPT ![proc.dir][proc.next] =
                  [run |-> proc.run, whole |-> TRUE,
                   algorithms |-> {AlgorithmOf(id) : id \in proc.result.all}]]
    /\ baseline' = IF proc.dir = "inside"
                   THEN [baseline EXCEPT !.wrote = @ \cup {proc.next}] ELSE baseline
    /\ proc' = [proc EXCEPT !.next = @ + 1,
                            !.pc = IF proc.next = Last THEN "print" ELSE "open"]

Candidates == IF proc.against THEN proc.result.active \cap proc.new ELSE proc.result.active

\* The report is printed and the exit code chosen.
Judge ==
    /\ Step("print")
    /\ Ends(IF proc.gate /\ \E id \in Candidates : Reaches(id) THEN 1 ELSE 0)
    /\ UNCHANGED <<out, baseline>>

Run ==
    \/ Scan \/ ScanAgain \/ OpenBaseline \/ FillBaseline \/ LoadBaseline
    \/ Open \/ Fill \/ Judge

\* A step raises, the user interrupts, or the process is killed.
Stop ==
    /\ proc.pc # "idle" /\ faults < MaxFaults /\ faults' = faults + 1
    /\ \E c \in {3, 130, 137} : Ends(c)
    /\ UNCHANGED <<tree, out, baseline, commands, edits>>

-----------------------------------------------------------------------------
(***************************************************************************)
(* The developer.  A suppression may also end by itself, on its date.      *)
(***************************************************************************)
Touch(u) ==
    /\ edits < MaxEdits /\ edits' = edits + 1
    /\ baseline' = [baseline EXCEPT !.touched = @ \cup {u}]
    /\ proc' = [proc EXCEPT !.touched = @ \cup {u}]
    /\ UNCHANGED <<out, commands, faults>>

EditCode ==
    \E u \in Units, n \in 0..MaxLine :
        n # code[u] /\ code' = [code EXCEPT ![u] = n] /\ Touch(u) /\ UNCHANGED exempt

Suppress == \E u \in Units \ exempt :
    exempt' = exempt \cup {u} /\ Touch(u) /\ UNCHANGED code

Expire == \E u \in exempt :
    exempt' = exempt \ {u} /\ Touch(u) /\ UNCHANGED code

Finished ==
    proc.pc = "idle" /\ commands = MaxCommands /\ UNCHANGED vars

Next == Start \/ Run \/ Stop \/ EditCode \/ Suppress \/ Expire \/ Finished

\* A command is one thread, and nothing it waits for takes forever.
Fairness == WF_vars(Run)

Spec == Init /\ [][Next]_vars /\ Fairness

-----------------------------------------------------------------------------
(***************************************************************************)
(* Properties                                                              *)
(***************************************************************************)
Document == [run : 0..commands, whole : BOOLEAN, algorithms : SUBSET {Algorithm[u] : u \in Units}]
Pcs == {"idle", "scan", "scan_again", "open_baseline", "fill_baseline", "load_baseline",
        "open", "fill", "print"}

\* Every document names only algorithms of the code, however many times the
\* results were scanned with it (cli.py:173-189).
TypeOK ==
    /\ code \in [Units -> 0..MaxLine] /\ exempt \subseteq Units
    /\ out \in [Dirs -> [DOMAIN Documents -> Document]]
    /\ baseline.state \in {"none", "torn", "whole"} /\ baseline.touched \subseteq Units
    /\ baseline.wrote \subseteq DOMAIN Documents
    /\ proc.pc \in Pcs /\ proc.dir \in Dirs \cup {"none"}
    /\ proc.run \in 0..commands /\ proc.exit \in {0, 1, 3, 130, 137}
    /\ proc.next \in 1..Len(Documents) + 1
    /\ proc.result.active \subseteq proc.result.all /\ proc.new \subseteq proc.result.active
    /\ commands \in 0..MaxCommands /\ edits \in 0..MaxEdits /\ faults \in 0..MaxFaults

\* Whichever audits failed or were killed half-way, the documents of a
\* directory are newer ones followed by older ones, so that what lies between
\* two documents of one audit is of that audit too (cli.py:176-188).
NewerFirst ==
    \A d \in Dirs : \A i, j \in DOMAIN Documents :
        i < j => out[d][i].run >= out[d][j].run

\* An audit that ends with a verdict has left six whole documents of its own,
\* whatever earlier ones left behind, and a baseline diff that is its own
\* exactly when it compared with a baseline (cli.py:173-215).
VerdictDocumented ==
    proc.pc = "idle" /\ proc.cmd = "audit" /\ proc.exit \in {0, 1} /\ proc.dir # "none" =>
        LET documents == 1..(IF proc.against THEN 7 ELSE 6)
            written == {k \in DOMAIN Documents : out[proc.dir][k].run = proc.run}
        IN  /\ written = documents
            /\ \A k \in written : out[proc.dir][k].whole

\* What an audit calls new was touched since the scan the baseline was made
\* from: its code was written or moved, its suppression ended, or it stands in
\* a result document that an audit has written since (cli.py:298-322).
NewIsNews ==
    \A id \in proc.new :
        IF id[1] = "code" THEN id[2] \in baseline.touched ELSE id[2] \in baseline.wrote

\* Every command comes to an end, whatever is edited under it.
CommandsEnd == proc.pc # "idle" ~> proc.pc = "idle"

(***************************************************************************)
(* What the repository says, and the code does not do.                     *)
(***************************************************************************)

\* tests/test_cli_commands.py:126: a baseline limits failures to new findings.
\* A results directory in the tree makes its own: an audit of code nobody
\* touched since the baseline fails once an audit before it has written its
\* documents there.
BaselineLimitsFailures ==
    proc.pc = "idle" /\ proc.against /\ proc.exit = 1 => baseline.touched # {}
=============================================================================
