---------------------------- MODULE AuditPipeline ----------------------------
(***************************************************************************)
(* api.audit after source discovery: analyzers, assessment, suppressions,  *)
(* migration plans and the HNDL status, over files that other processes    *)
(* edit and a clock that passes midnight while it runs.                    *)
(*                                                                         *)
(* The analyzers see the text that was read at the start.  Suppressions    *)
(* are decided afterwards, finding by finding: suppression.py reads the    *)
(* file again for each finding and asks the clock for each candidate.      *)
(* It counts lines as str.splitlines does, at a form feed or a U+2028 too; *)
(* the findings of the Python analyzer have the line numbers of ast, which *)
(* only a newline advances.  A text is a sequence of the former.           *)
(***************************************************************************)
EXTENDS Policy, Sequences

CONSTANTS
    Files,          \* the source files, numbered in the order of their paths
    TestFiles,      \* those of them test_only_path accepts
    PythonFiles,    \* those of them the Python analyzer reads
    Texts,          \* the contents a file may have: sequences of lines
    Configs,        \* what quantumguard.toml may hold: its form, and entries
    Contexts,       \* what the user may say of the system
    MaxDay,         \* the last day of the clock
    MaxChanges      \* bound on the edits and midnights during an audit

\* An expiry is the last day an entry holds: -1 is a day gone by, or for what
\* is no date, MaxDay + 1 stands for no expiry.
Past == -1
Never == MaxDay + 1
Expiries == Past..Never
NoMarker == [rule |-> "none", expires |-> Never, trailing |-> FALSE]

\* The calls of a line from left to right: what an analyzer makes of each, and
\* the library whose name its evidence shows; and whether the line ends for ast
\* as well.
Libraries == {"jwt", "Crypto", "cryptography", "other"}
CallType == [what : Observations, library : Libraries]
Lines == [calls : Seq(CallType), ends : BOOLEAN,
          marker : [rule : RuleIds \cup {"none"}, expires : Expiries, trailing : BOOLEAN]]
\* A document is TOML, or it is not or cannot be read, or it is TOML whose
\* `suppressions` is nothing to iterate over, like a number.
Forms == {"toml", "unreadable", "misshapen"}
Entries == [rule : RuleIds \cup {"ALL"}, paths : SUBSET Files, expires : Expiries]

ASSUME PipelineAssumption ==
    /\ Files \subseteq Nat \ {0} /\ Files # {} /\ TestFiles \subseteq Files
    /\ PythonFiles \subseteq Files
    /\ MaxDay \in Nat /\ MaxChanges \in Nat
    /\ Texts \subseteq Seq(Lines)
    /\ Configs \subseteq [form : Forms, entries : Seq(Entries)]

VARIABLES
    text, config, day,      \* the files, quantumguard.toml, the date
    context,                \* the arguments of audit
    pc, unread,             \* the next step, the files discovery has yet to read
    scanned,                \* source_texts
    findings,               \* by <<file, line, column>>, the line as in Texts
    configured,             \* what load_config_suppressions returned
    todo,                   \* the findings apply_suppressions has yet to decide
    log,                    \* audit_log
    configError,            \* quantumguard.toml is among the parser errors
    plans, hndl,
    changes

world == <<text, config, day, changes>>
result == <<configError, plans, hndl>>
vars == <<world, context, pc, unread, scanned, findings, configured, todo, log, result>>

\* Findings are sorted by path, line and column.
Earlier(p, q) ==
    \/ p[1] < q[1]
    \/ p[1] = q[1] /\ p[2] < q[2]
    \/ p[1] = q[1] /\ p[2] = q[2] /\ p[3] < q[3]
IsNext(p) == \A q \in todo \ {p} : Earlier(p, q)

CallsOf(s, f) == UNION {{<<f, l, c>> : c \in DOMAIN s[f][l].calls} : l \in DOMAIN s[f]}
Calls(s) == UNION {CallsOf(s, f) : f \in Files}
CallAt(s, p) == s[p[1]][p[2]].calls[p[3]]

\* A finding as the analyzers report it.
Finding(call, test) ==
    LET rule == MatchingRule(call.algorithm, call.purpose)
    IN  [algorithm |-> call.algorithm, purpose |-> call.purpose,
         confidence |-> call.confidence, test |-> test,
         rule |-> rule.id, targets |-> rule.targets,
         severity |-> DefaultSeverity(call.algorithm, call.purpose, test),
         status |-> "active"]

NoHndl == [status |-> "NO_STATIC_CONFIDENTIALITY_SIGNAL", affected |-> {}]

-----------------------------------------------------------------------------
Init ==
    /\ text \in [Files -> Texts] /\ config \in Configs /\ day = 0 /\ changes = 0
    /\ context \in Contexts
    /\ pc = "read" /\ unread = Files
    /\ scanned = [f \in Files |-> <<>>]
    /\ findings = [p \in {} |-> p] /\ configured = <<>> /\ todo = {} /\ log = {}
    /\ configError = FALSE /\ plans = {} /\ hndl = NoHndl

Step(from) == pc = from /\ UNCHANGED <<world, context>>

\* Discovery.tla says which files are read; here all of them are.
ReadSource ==
    /\ Step("read")
    /\ \E f \in unread :
        /\ scanned' = [scanned EXCEPT ![f] = text[f]]
        /\ unread' = unread \ {f}
        /\ pc' = IF unread' = {} THEN "analyze" ELSE "read"
    /\ UNCHANGED <<findings, configured, todo, log, result>>

Analyze ==
    /\ Step("analyze")
    /\ findings' = [p \in Calls(scanned) |->
                       Finding(CallAt(scanned, p).what, p[1] \in TestFiles)]
    /\ pc' = "assess"
    /\ UNCHANGED <<unread, scanned, configured, todo, log, result>>

Assess ==
    /\ Step("assess")
    /\ findings' = [p \in DOMAIN findings |->
                       [findings[p] EXCEPT !.severity = AssessedSeverity(findings[p], context)]]
    /\ pc' = "load"
    /\ UNCHANGED <<unread, scanned, configured, todo, log, result>>

LoadConfig ==
    /\ Step("load") /\ config.form # "misshapen"
    /\ configured' = IF config.form = "toml" THEN config.entries ELSE <<>>
    /\ configError' = (config.form = "unreadable")
    /\ todo' = DOMAIN findings
    /\ pc' = IF todo' = {} THEN "derive" ELSE "inline"
    /\ UNCHANGED <<unread, scanned, findings, log, plans, hndl>>

\* The loop over something that cannot be iterated raises TypeError, which
\* nothing catches.
ConfigRaises ==
    /\ Step("load") /\ config.form = "misshapen"
    /\ pc' = "raised"
    /\ UNCHANGED <<unread, scanned, findings, configured, todo, log, result>>

\* A suppression matches on the day it is asked; the day is the same for all the
\* candidates of a step.
Matches(rule, expires, p) == expires >= day /\ rule \in {"ALL", findings[p].rule}

\* Words after the date become part of the reason, and the date with them; so
\* does a date not written as YYYY-MM-DD.
Effective(marker) == IF marker.trailing THEN Never ELSE marker.expires

\* The number of its line a finding carries: ast counts the newlines before it.
LineOf(p) ==
    IF p[1] \in PythonFiles
    THEN 1 + Cardinality({l \in 1..(p[2] - 1) : scanned[p[1]][l].ends})
    ELSE p[2]

Candidates(p) == {LineOf(p), LineOf(p) - 1} \cap DOMAIN text[p[1]]

FaultyInlineMatches(p) ==       \* the first marker decides, active or not
    {l \in Candidates(p) :
        /\ Matches(text[p[1]][l].marker.rule, Effective(text[p[1]][l].marker), p)
        /\ \A k \in Candidates(p) : k < l => text[p[1]][k].marker = NoMarker}

InlineMatches(p) ==
    {l \in Candidates(p) :
        Matches(text[p[1]][l].marker.rule, Effective(text[p[1]][l].marker), p)}

ConfiguredMatches(p) ==
    {k \in DOMAIN configured :
        /\ Matches(configured[k].rule, configured[k].expires, p)
        /\ p[1] \in configured[k].paths}

First(S) == CHOOSE k \in S : \A l \in S : k <= l

\* The finding is decided; the next one follows.
FaultyDecided(p) ==             \* the list never gets shorter
    UNCHANGED todo /\ pc' = "inline"

Decided(p) ==
    /\ todo' = todo \ {p}
    /\ pc' = IF todo' = {} THEN "derive" ELSE "inline"

Suppress(p, rule, source, expires) ==
    /\ findings' = [findings EXCEPT ![p].status = "suppressed"]
    /\ log' = log \cup {[finding |-> p, rule |-> rule, source |-> source,
                         expires |-> expires]}

\* Source 0 is quantumguard.toml.
SuppressInline(p, line) ==
    LET m == text[p[1]][line].marker IN Suppress(p, m.rule, line, Effective(m))
SuppressConfigured(p, entry) ==
    LET c == configured[entry] IN Suppress(p, c.rule, 0, c.expires)

FaultyInline ==         \* the configuration is asked even after a match
    /\ Step("inline")
    /\ \E p \in todo :
        /\ IsNext(p)
        /\ IF InlineMatches(p) = {} THEN UNCHANGED <<findings, log>>
           ELSE SuppressInline(p, First(InlineMatches(p)))
    /\ pc' = "config"
    /\ UNCHANGED <<unread, scanned, configured, todo, result>>

Inline ==
    /\ Step("inline")
    /\ \E p \in todo :
        /\ IsNext(p)
        /\ IF InlineMatches(p) = {}
           THEN pc' = "config" /\ UNCHANGED <<findings, todo, log>>
           ELSE SuppressInline(p, First(InlineMatches(p))) /\ Decided(p)
    /\ UNCHANGED <<unread, scanned, configured, result>>

Configured ==
    /\ Step("config")
    /\ \E p \in todo :
        /\ IsNext(p) /\ Decided(p)
        /\ IF ConfiguredMatches(p) = {} THEN UNCHANGED <<findings, log>>
           ELSE SuppressConfigured(p, First(ConfiguredMatches(p)))
    /\ UNCHANGED <<unread, scanned, configured, result>>

Derive ==
    /\ Step("derive")
    /\ plans' = {[finding |-> p, targets |-> PlanTargets(findings[p].purpose),
                  urgency |-> findings[p].severity] :
                    p \in {q \in DOMAIN findings : NeedsPlan(findings[q])}}
    /\ LET affected == {p \in DOMAIN findings : HndlAffected(findings[p])}
       IN  hndl' = [status |-> HndlStatus(affected, context), affected |-> affected]
    /\ pc' = "done"
    /\ UNCHANGED <<unread, scanned, findings, configured, todo, log, configError>>

Audit ==
    \/ ReadSource \/ Analyze \/ Assess \/ LoadConfig \/ ConfigRaises
    \/ Inline \/ Configured \/ Derive

-----------------------------------------------------------------------------
(***************************************************************************)
(* Other processes and the clock, while the audit runs.  A file that is    *)
(* removed is one without lines.                                           *)
(***************************************************************************)
Change ==
    /\ pc \notin {"done", "raised"} /\ changes < MaxChanges /\ changes' = changes + 1
    /\ UNCHANGED <<context, pc, unread, scanned, findings, configured, todo, log, result>>

EditFile ==
    /\ Change
    /\ \E f \in Files, t \in Texts : text' = [text EXCEPT ![f] = t]
    /\ UNCHANGED <<config, day>>

EditConfig ==
    /\ Change
    /\ config' \in Configs /\ UNCHANGED <<text, day>>

Midnight ==
    /\ Change
    /\ day < MaxDay /\ day' = day + 1 /\ UNCHANGED <<text, config>>

Finished == pc \in {"done", "raised"} /\ UNCHANGED vars

Next == Audit \/ EditFile \/ EditConfig \/ Midnight \/ Finished

\* The audit is one thread that is never blocked.
Fairness == WF_vars(Audit)

Spec == Init /\ [][Next]_vars /\ Fairness

-----------------------------------------------------------------------------
(***************************************************************************)
(* Properties                                                              *)
(***************************************************************************)
Positions == Files \X (Nat \ {0}) \X (Nat \ {0})
Pcs == {"read", "analyze", "assess", "load", "inline", "config", "derive", "done",
        "raised"}
FindingType ==
    [algorithm : Algorithms, purpose : Purposes,
     confidence : {"HIGH", "MEDIUM", "LOW", "UNKNOWN"}, test : BOOLEAN,
     rule : RuleIds, targets : SUBSET (Kem \cup Signers),
     severity : Severities, status : {"active", "suppressed"}]

TypeOK ==
    /\ text \in [Files -> Texts] /\ config \in Configs /\ day \in 0..MaxDay
    /\ context \in Contexts /\ changes \in 0..MaxChanges
    /\ pc \in Pcs /\ unread \subseteq Files
    /\ scanned \in [Files -> Texts \cup {<<>>}]
    /\ DOMAIN findings \subseteq Positions
    /\ findings \in [DOMAIN findings -> FindingType]
    /\ configured \in Seq(Entries) /\ todo \subseteq DOMAIN findings
    /\ configError \in BOOLEAN

Suppressed == {p \in DOMAIN findings : findings[p].status = "suppressed"}

\* The audit log and the statuses tell the same story at every moment: one
\* entry for each suppressed finding, none for a finding still to be decided
\* (suppression.py:112-128).
LogAgrees ==
    /\ {e.finding : e \in log} = Suppressed
    /\ \A e, d \in log : e.finding = d.finding => e = d
    /\ todo \cap Suppressed = {}

\* Whether a finding is exempt, said without an order of candidates or
\* entries: an unexpired marker for its rule on its line or the line before, or
\* an unexpired entry for its rule and path.
Exempt(p) ==
    LET lines == scanned[p[1]]
    IN  \/ \E l \in DOMAIN lines :
              /\ l \in {p[2] - 1, p[2]}
              /\ lines[l].marker.rule = findings[p].rule
              /\ Effective(lines[l].marker) >= day
        \/ /\ config.form = "toml"
           /\ \E k \in DOMAIN config.entries :
                 /\ config.entries[k].rule \in {"ALL", findings[p].rule}
                 /\ config.entries[k].expires >= day
                 /\ p[1] \in config.entries[k].paths

\* A finding of the Python analyzer after a line that ends for splitlines only:
\* the number it carries is that of an earlier line.
Shifted(p) ==
    p[1] \in PythonFiles /\ \E l \in 1..(p[2] - 1) : ~scanned[p[1]][l].ends

\* When nothing changes during an audit, a finding is suppressed exactly when it
\* is exempt, although the file is read again for each of them and the markers
\* and entries are tried in turn (suppression.py:83-128).  Of a shifted finding
\* this is not so: the code looks for its marker on other lines (line 88).
QuietlyExact ==
    pc = "done" /\ changes = 0 =>
        \A p \in DOMAIN findings : ~Shifted(p) => (p \in Suppressed <=> Exempt(p))

\* Every finding ends in one place: in the log, with a plan, or out of Shor's
\* reach.  What HNDL lists has a plan, and the plan is for key establishment
\* (api.py:134-145, migration/engine.py:9-41, hndl.py:14-20).
EachFindingOnce ==
    pc = "done" =>
        LET logged == {e.finding : e \in log}
            planned == {m.finding : m \in plans}
        IN  /\ logged \cap planned = {}
            /\ \A p \in DOMAIN findings \ (logged \cup planned) :
                  findings[p].algorithm \notin Shor
            /\ \A p \in hndl.affected :
                  \E m \in plans : m.finding = p /\ m.targets = {"ML-KEM"}

\* What is written down twice agrees on everything an analyzer can report.  The
\* targets of a plan, which migration/engine.py chooses from the purpose, are
\* those the finding carries, which the analyzers take from the rules.  And where
\* HNDL is HIGH, the findings it is HIGH for are CRITICAL, unless in test code:
\* risk.py and hndl.py weigh the answers of the user each in its own way.
TablesAgree ==
    pc = "done" =>
        /\ \A m \in plans : m.targets = findings[m.finding].targets
        /\ hndl.status = "HIGH" =>
              \A p \in hndl.affected :
                  findings[p].test \/ findings[p].severity = Critical

(***************************************************************************)
(* What the repository says, and the code does not do.                     *)
(***************************************************************************)

\* docs/SUPPRESSIONS.md:19: expired entries are not silently accepted.  With
\* words after the date, the date is read as part of the reason
\* (suppression.py:12-15).
ExpiredNotAccepted ==
    pc = "done" /\ changes = 0 =>
        \A e \in log : e.source # 0 =>
            text[e.finding[1]][e.source].marker.expires >= day
=============================================================================
