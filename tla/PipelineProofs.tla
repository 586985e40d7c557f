---------------------------- MODULE PipelineProofs ----------------------------
(***************************************************************************)
(* Proofs about AuditPipeline and Inventory, for any files, manifests,     *)
(* contents, configurations and contexts and any number of changes while   *)
(* the audit runs.                                                         *)
(*                                                                         *)
(* EachFindingOnce speaks of the end of the audit.  It rests on the log    *)
(* agreeing with the statuses all along (LogAgrees), which rests on no     *)
(* finding being suppressed before the decisions start (Fresh), and on the *)
(* plans being made from the statuses that are final (Derived).            *)
(*                                                                         *)
(* While nothing changes, what has been decided so far is what the markers *)
(* and entries exempt (DecidedExactly).  What the tables say of a finding  *)
(* is in it once it is assessed (Rated), whatever changes.                 *)
(***************************************************************************)
EXTENDS Inventory, FiniteSetTheorems, WellFoundedInduction, TLAPS

\* Until the decisions start nothing is suppressed and nothing is logged.
Fresh ==
    pc \in {"read", "analyze", "assess", "load"} =>
        log = {} /\ todo = {} /\ Suppressed = {}

\* The plans and the HNDL list are those of the final statuses.
Derived ==
    pc = "done" =>
        /\ {m.finding : m \in plans} = {p \in DOMAIN findings : NeedsPlan(findings[p])}
        /\ \A m \in plans : m.targets = PlanTargets(findings[m.finding].purpose)
        /\ hndl.affected = {p \in DOMAIN findings : HndlAffected(findings[p])}

Inv == TypeOK /\ Fresh /\ LogAgrees /\ Derived

-----------------------------------------------------------------------------
(***************************************************************************)
(* The tables                                                              *)
(***************************************************************************)
Confidences == {"HIGH", "MEDIUM", "LOW", "UNKNOWN"}

\* What the analyzers report is made of known algorithms and purposes.
LEMMA ObservationsTyped ==
    Observations \subseteq [algorithm : Algorithms, purpose : Purposes, confidence : Confidences]
<1> DEFINE T == [algorithm : Algorithms, purpose : Purposes, confidence : Confidences]
           Typed(S) == S \subseteq T
<1>1. ASSUME NEW A, NEW p, NEW c, A \subseteq Algorithms, p \in Purposes, c \in Confidences
      PROVE  Typed(Observed(A, p, c))
  BY <1>1 DEF Observed
<1>2. /\ Algorithms = {"RSA", "ECDSA", "ECDH", "X25519", "X448", "finite-field DH", "EdDSA",
                       "ML-KEM", "ML-DSA", "SLH-DSA", "TLS-legacy", "TLS-insecure",
                       "SHA-2/SHA-3", "HMAC", "TLS"}
      /\ Purposes = {"SIGNATURE", "KEY_ESTABLISHMENT", "ENCRYPTION", "HASHING", "MAC",
                     "KDF", "CERTIFICATE", "UNKNOWN"}
      /\ Confidences = {"HIGH", "MEDIUM", "LOW", "UNKNOWN"}
      /\ Insecure \subseteq Algorithms
  BY DEF Algorithms, Shor, Pqc, Kem, Signers, Insecure, Symmetric, Purposes, Confidences
<1>3. \A S : (\A s \in S : Typed(s)) => Typed(UNION S)
  OBVIOUS
<1> HIDE DEF Typed
<1>4. Typed(PythonObservations)
  <2>1. Typed(Observed({"RSA", "ECDSA", "EdDSA", "ML-DSA", "SLH-DSA"}, "SIGNATURE", "HIGH"))
    BY <1>1, <1>2
  <2>2. Typed(Observed({"RSA"}, "SIGNATURE", "MEDIUM"))
    BY <1>1, <1>2
  <2>3. Typed(Observed({"RSA"}, "ENCRYPTION", "HIGH"))
    BY <1>1, <1>2
  <2>4. Typed(Observed({"RSA", "ECDH", "X25519", "X448", "finite-field DH", "ML-KEM"},
                       "KEY_ESTABLISHMENT", "HIGH"))
    BY <1>1, <1>2
  <2>5. Typed(Observed({"ECDH", "X25519"}, "KEY_ESTABLISHMENT", "MEDIUM"))
    BY <1>1, <1>2
  <2>6. Typed(Observed({"SHA-2/SHA-3"}, "HASHING", "HIGH"))
    BY <1>1, <1>2
  <2>7. Typed(Observed({"SHA-2/SHA-3"}, "KDF", "MEDIUM"))
    BY <1>1, <1>2
  <2>8. Typed(Observed({"HMAC"}, "MAC", "HIGH"))
    BY <1>1, <1>2
  <2>9. Typed(Observed(Insecure, "UNKNOWN", "HIGH"))
    BY <1>1, <1>2
  <2>10. Typed(Observed({"RSA", "ECDSA", "X25519", "X448", "TLS"}, "UNKNOWN", "MEDIUM"))
    BY <1>1, <1>2
  <2>11. Typed(Observed({"ECDSA", "TLS"}, "UNKNOWN", "LOW"))
    BY <1>1, <1>2
  <2> QED
    BY <1>3, <2>1, <2>2, <2>3, <2>4, <2>5, <2>6, <2>7, <2>8, <2>9,
       <2>10, <2>11 DEF PythonObservations
<1>5. Typed(ConfigObservations)
  <2>1. Typed(Observed({"RSA", "ECDSA", "EdDSA", "ML-DSA", "SLH-DSA"},
                       "SIGNATURE", "MEDIUM"))
    BY <1>1, <1>2
  <2>2. Typed(Observed({"ECDH", "X25519", "X448", "ML-KEM"}, "KEY_ESTABLISHMENT", "MEDIUM"))
    BY <1>1, <1>2
  <2>3. Typed(Observed({"RSA"}, "UNKNOWN", "MEDIUM"))
    BY <1>1, <1>2
  <2> QED
    BY <1>3, <2>1, <2>2, <2>3 DEF ConfigObservations
<1>6. Typed(TextObservations)
  <2>1. Typed(Observed({"ECDSA", "EdDSA", "ML-DSA"}, "SIGNATURE", "LOW"))
    BY <1>1, <1>2
  <2>2. Typed(Observed({"X25519", "ML-KEM"}, "KEY_ESTABLISHMENT", "LOW"))
    BY <1>1, <1>2
  <2>3. Typed(Observed({"RSA"}, "UNKNOWN", "LOW"))
    BY <1>1, <1>2
  <2> QED
    BY <1>3, <2>1, <2>2, <2>3 DEF TextObservations
<1> QED
  BY <1>4, <1>5, <1>6 DEF Observations, Typed

\* A rule, or the abstention, has an id and PQC targets.
LEMMA MatchingRuleTyped ==
    ASSUME NEW a, NEW p
    PROVE  MatchingRule(a, p).id \in RuleIds
           /\ MatchingRule(a, p).targets \in SUBSET (Kem \cup Signers)
<1>1. MatchingRule(a, p) \in Rules \cup {Abstention}
  BY DEF MatchingRule
<1>2. ASSUME NEW id, NEW algorithm, NEW purposes, NEW targets \in SUBSET (Kem \cup Signers)
      PROVE  Rule(id, algorithm, purposes, targets).targets \in SUBSET (Kem \cup Signers)
  BY DEF Rule
<1>3. Kem \in SUBSET (Kem \cup Signers) /\ Signers \in SUBSET (Kem \cup Signers)
      /\ {} \in SUBSET (Kem \cup Signers)
  OBVIOUS
<1>4. \A r \in Rules \cup {Abstention} : r.targets \in SUBSET (Kem \cup Signers)
  BY <1>2, <1>3 DEF Rules, Abstention
<1> QED
  BY <1>1, <1>4 DEF RuleIds

\* Severities, as reported and as assessed.
LEMMA SeverityTyped ==
    /\ \A a, p, test : DefaultSeverity(a, p, test) \in Severities
    /\ \A f, c : f.severity \in Severities => AssessedSeverity(f, c) \in Severities
  BY DEF DefaultSeverity, AssessedSeverity, Severities, Info, Low, Medium, High, Critical

\* A finding as an analyzer reports it.
LEMMA FindingTyped ==
    ASSUME NEW o \in Observations, NEW test \in BOOLEAN
    PROVE  Finding(o, test) \in FindingType /\ Finding(o, test).status = "active"
<1> DEFINE rule == MatchingRule(o.algorithm, o.purpose)
           severity == DefaultSeverity(o.algorithm, o.purpose, test)
<1>1. o.algorithm \in Algorithms /\ o.purpose \in Purposes /\ o.confidence \in Confidences
  BY ObservationsTyped
<1>2. rule.id \in RuleIds /\ rule.targets \in SUBSET (Kem \cup Signers)
  BY MatchingRuleTyped
<1>3. severity \in Severities
  BY SeverityTyped
<1> HIDE DEF rule, severity
<1>4. Finding(o, test) =
        [algorithm |-> o.algorithm, purpose |-> o.purpose, confidence |-> o.confidence,
         test |-> test, rule |-> rule.id, targets |-> rule.targets,
         severity |-> severity, status |-> "active"]
  BY DEF Finding, rule, severity
<1> QED
  BY <1>1, <1>2, <1>3, <1>4 DEF FindingType, Confidences

\* Assessment and suppression keep a finding a finding.
LEMMA FindingUpdated ==
    ASSUME NEW f \in FindingType
    PROVE  /\ \A s \in Severities : [f EXCEPT !.severity = s] \in FindingType
                                    /\ [f EXCEPT !.severity = s].status = f.status
           /\ [f EXCEPT !.status = "suppressed"] \in FindingType
           /\ [f EXCEPT !.status = "suppressed"].status = "suppressed"
  BY DEF FindingType

-----------------------------------------------------------------------------
(***************************************************************************)
(* Suppressing one finding                                                 *)
(***************************************************************************)

\* The statuses and the log after Suppress: p joins both, nothing else moves.
LEMMA SuppressEffect ==
    ASSUME NEW p \in todo, NEW rule, NEW source, NEW expires,
           findings \in [DOMAIN findings -> FindingType], todo \subseteq DOMAIN findings,
           LogAgrees, Suppress(p, rule, source, expires), todo' = todo \ {p}
    PROVE  /\ DOMAIN findings' = DOMAIN findings
           /\ findings' \in [DOMAIN findings -> FindingType]
           /\ LogAgrees'
<1> DEFINE entry == [finding |-> p, rule |-> rule, source |-> source, expires |-> expires]
           new == [findings[p] EXCEPT !.status = "suppressed"]
<1>1. p \in DOMAIN findings /\ p \notin Suppressed /\ findings[p] \in FindingType
  BY DEF LogAgrees
<1>2. findings' = [findings EXCEPT ![p] = new] /\ log' = log \cup {entry}
  BY DEF Suppress
<1>3. new \in FindingType /\ new.status = "suppressed"
  BY <1>1, FindingUpdated
<1>4. entry.finding = p
  OBVIOUS
<1> HIDE DEF new, entry
<1>5. /\ DOMAIN findings' = DOMAIN findings
      /\ findings' \in [DOMAIN findings -> FindingType]
      /\ \A q \in DOMAIN findings : q # p => findings'[q] = findings[q]
      /\ findings'[p] = new
  BY <1>1, <1>2, <1>3
<1>6. Suppressed' = Suppressed \cup {p}
  BY <1>1, <1>3, <1>5 DEF Suppressed
<1>7. {e.finding : e \in log'} = {e.finding : e \in log} \cup {p}
  BY <1>2, <1>4
<1>8. \A e \in log : e.finding # p
  BY <1>1 DEF LogAgrees
<1>9. \A e, d \in log' : e.finding = d.finding => e = d
  BY <1>2, <1>4, <1>8 DEF LogAgrees
<1> QED
  BY <1>5, <1>6, <1>7, <1>9 DEF LogAgrees

-----------------------------------------------------------------------------
(***************************************************************************)
(* The invariant, step by step                                             *)
(***************************************************************************)

\* An audit starts without findings.
LEMMA InvInit == Init => Inv
<1> SUFFICES ASSUME Init PROVE Inv
  OBVIOUS
<1>1. DOMAIN findings = {} /\ todo = {} /\ log = {} /\ pc = "read"
  BY DEF Init
<1>2. TypeOK
  <2>1. findings \in [DOMAIN findings -> FindingType]
    BY <1>1 DEF Init
  <2>2. scanned \in [Files -> Texts \cup {<<>>}] /\ configured \in Seq(Entries)
    BY DEF Init
  <2>3. configError \in BOOLEAN
    BY DEF Init
  <2>4. day \in 0..MaxDay /\ changes \in 0..MaxChanges
    BY PipelineAssumption DEF Init
  <2> QED
    BY <1>1, <2>1, <2>2, <2>3, <2>4 DEF Init, TypeOK, Pcs
<1> QED
  BY <1>1, <1>2 DEF Inv, Fresh, LogAgrees, Derived, Suppressed

\* While nothing is decided, active findings are all there is to show.
LEMMA StillFresh ==
    ASSUME Inv, pc \in {"read", "analyze", "assess", "load"}, log' = log, pc' # "done",
           pc' \in {"read", "analyze", "assess", "load"} => todo' = {},
           \A p \in DOMAIN findings' : findings'[p].status = "active"
    PROVE  Fresh' /\ LogAgrees' /\ Derived'
<1>1. log = {} /\ Suppressed' = {}
  BY DEF Inv, Fresh, Suppressed
<1> QED
  BY <1>1 DEF Fresh, LogAgrees, Derived

\* The findings that are there before the decisions start.
LEMMA ActiveFindings ==
    ASSUME Inv, pc \in {"read", "analyze", "assess", "load"}
    PROVE  \A p \in DOMAIN findings :
              findings[p] \in FindingType /\ findings[p].status = "active"
<1>1. Suppressed = {} /\ \A p \in DOMAIN findings : findings[p] \in FindingType
  BY DEF Inv, Fresh, TypeOK
<1>2. \A f \in FindingType : f.status \in {"active", "suppressed"}
  BY DEF FindingType
<1> QED
  BY <1>1, <1>2 DEF Suppressed

\* Reading a file.
LEMMA InvRead == Inv /\ ReadSource => Inv'
<1> SUFFICES ASSUME Inv, ReadSource PROVE Inv'
  OBVIOUS
<1>1. /\ UNCHANGED <<world, context, findings, configured, todo, log, result>>
      /\ pc = "read" /\ pc' \in {"read", "analyze"} /\ unread' \subseteq unread
  BY DEF ReadSource, Step
<1>2. PICK f \in unread : scanned' = [scanned EXCEPT ![f] = text[f]]
  BY DEF ReadSource
<1>3. scanned' \in [Files -> Texts \cup {<<>>}]
  BY <1>2 DEF Inv, TypeOK
<1>4. TypeOK'
  BY <1>1, <1>3 DEF Inv, TypeOK, world, result, Pcs
<1>5. Fresh' /\ LogAgrees' /\ Derived'
  BY <1>1, ActiveFindings, StillFresh DEF Inv, Fresh
<1> QED
  BY <1>4, <1>5 DEF Inv

\* The calls in what was read are observations at positions of files.
LEMMA CallsTyped ==
    ASSUME Inv, NEW p \in Calls(scanned)
    PROVE  /\ p \in Positions
           /\ CallAt(scanned, p) \in CallType
           /\ p[2] \in 1..Len(scanned[p[1]]) /\ Len(scanned[p[1]]) \in Nat
           /\ p[3] \in 1..Len(scanned[p[1]][p[2]].calls)
           /\ Len(scanned[p[1]][p[2]].calls) \in Nat
<1>1. PICK f \in Files : p \in CallsOf(scanned, f)
  BY DEF Calls
<1>2. PICK l \in DOMAIN scanned[f] : p \in {<<f, l, c>> : c \in DOMAIN scanned[f][l].calls}
  BY <1>1 DEF CallsOf
<1>3. PICK c \in DOMAIN scanned[f][l].calls : p = <<f, l, c>>
  BY <1>2
<1>4. p[1] = f /\ p[2] = l /\ p[3] = c
  BY <1>3
<1>5. scanned[f] \in Seq(Lines)
  <2>1. scanned[f] \in Texts \cup {<<>>}
    BY DEF Inv, TypeOK
  <2>2. <<>> \in Seq(Lines)
    OBVIOUS
  <2> QED
    BY <2>1, <2>2, PipelineAssumption
<1>6. /\ l \in Nat \ {0} /\ scanned[f][l] \in Lines
      /\ l \in 1..Len(scanned[f]) /\ Len(scanned[f]) \in Nat
  BY <1>2, <1>5
<1>7. scanned[f][l].calls \in Seq(CallType)
  BY <1>6 DEF Lines
<1> DEFINE calls == scanned[f][l].calls
<1>8. /\ c \in 1..Len(calls) /\ Len(calls) \in Nat
      /\ c \in Nat \ {0} /\ calls[c] \in CallType
  <2> HIDE DEF calls
  <2> QED
    BY <1>3, <1>7 DEF calls
<1> QED
  BY <1>1, <1>3, <1>4, <1>6, <1>8 DEF Positions, CallAt

\* The analyzers.
LEMMA InvAnalyze == Inv /\ Analyze => Inv'
<1> SUFFICES ASSUME Inv, Analyze PROVE Inv'
  OBVIOUS
<1>1. /\ UNCHANGED <<world, context, unread, scanned, configured, todo, log, result>>
      /\ pc = "analyze" /\ pc' = "assess"
      /\ findings' = [p \in Calls(scanned) |->
                         Finding(CallAt(scanned, p).what, p[1] \in TestFiles)]
  BY DEF Analyze, Step
<1>2. \A p \in Calls(scanned) :
        LET f == Finding(CallAt(scanned, p).what, p[1] \in TestFiles)
        IN  f \in FindingType /\ f.status = "active"
  <2> TAKE p \in Calls(scanned)
  <2>1. CallAt(scanned, p).what \in Observations
    BY CallsTyped DEF CallType
  <2>2. (p[1] \in TestFiles) \in BOOLEAN
    OBVIOUS
  <2> QED
    BY <2>1, <2>2, FindingTyped
<1>3. /\ DOMAIN findings' = Calls(scanned)
      /\ \A p \in Calls(scanned) : findings'[p] \in FindingType /\ findings'[p].status = "active"
  BY <1>1, <1>2
<1>4. findings' \in [DOMAIN findings' -> FindingType] /\ DOMAIN findings' \subseteq Positions
  BY <1>1, <1>3, CallsTyped
<1>5. todo = {}
  BY <1>1 DEF Inv, Fresh
<1>6. TypeOK'
  BY <1>1, <1>4, <1>5 DEF Inv, TypeOK, world, result, Pcs
<1>7. Fresh' /\ LogAgrees' /\ Derived'
  BY <1>1, <1>3, <1>5, StillFresh
<1> QED
  BY <1>6, <1>7 DEF Inv

\* The assessment changes severities only.
LEMMA InvAssess == Inv /\ Assess => Inv'
<1> SUFFICES ASSUME Inv, Assess PROVE Inv'
  OBVIOUS
<1>1. /\ UNCHANGED <<world, context, unread, scanned, configured, todo, log, result>>
      /\ pc = "assess" /\ pc' = "load"
      /\ findings' = [p \in DOMAIN findings |->
             [findings[p] EXCEPT !.severity = AssessedSeverity(findings[p], context)]]
  BY DEF Assess, Step
<1>2. \A p \in DOMAIN findings :
        findings[p] \in FindingType /\ findings[p].status = "active"
        /\ AssessedSeverity(findings[p], context) \in Severities
  BY <1>1, ActiveFindings, SeverityTyped DEF FindingType
<1>3. \A p \in DOMAIN findings :
        findings'[p] \in FindingType /\ findings'[p].status = "active"
  BY <1>1, <1>2, FindingUpdated
<1>4. DOMAIN findings' = DOMAIN findings /\ findings' \in [DOMAIN findings -> FindingType]
  BY <1>1, <1>3
<1>5. todo = {}
  BY <1>1 DEF Inv, Fresh
<1>6. TypeOK'
  BY <1>1, <1>4, <1>5 DEF Inv, TypeOK, world, result, Pcs
<1>7. Fresh' /\ LogAgrees' /\ Derived'
  BY <1>1, <1>3, <1>4, <1>5, StillFresh
<1> QED
  BY <1>6, <1>7 DEF Inv

\* Every finding is put up for a decision.
LEMMA InvLoad == Inv /\ LoadConfig => Inv'
<1> SUFFICES ASSUME Inv, LoadConfig PROVE Inv'
  OBVIOUS
<1>1. /\ UNCHANGED <<world, context, unread, scanned, findings, log, plans, hndl>>
      /\ pc = "load" /\ pc' \in {"derive", "inline"} /\ todo' = DOMAIN findings
      /\ configured' = IF config.form = "toml" THEN config.entries ELSE <<>>
      /\ configError' = (config.form = "unreadable")
  BY DEF LoadConfig, Step
<1>2. config \in [form : Forms, entries : Seq(Entries)]
  BY PipelineAssumption DEF Inv, TypeOK
<1>3. configured' \in Seq(Entries)
  BY <1>1, <1>2
<1>4. configError' \in BOOLEAN
  BY <1>1, <1>2
<1>5. TypeOK'
  BY <1>1, <1>3, <1>4 DEF Inv, TypeOK, world, Pcs
<1>6. Fresh' /\ LogAgrees' /\ Derived'
  BY <1>1, ActiveFindings, StillFresh
<1> QED
  BY <1>5, <1>6 DEF Inv

\* The exception of a misshapen configuration leaves everything as it is.
LEMMA InvConfigRaises == Inv /\ ConfigRaises => Inv'
<1> SUFFICES ASSUME Inv, ConfigRaises PROVE Inv'
  OBVIOUS
<1>1. /\ UNCHANGED <<world, context, unread, scanned, findings, configured, todo, log, result>>
      /\ pc' = "raised"
  BY DEF ConfigRaises, Step
<1>2. TypeOK'
  BY <1>1 DEF Inv, TypeOK, world, result, Pcs
<1>3. Fresh' /\ LogAgrees' /\ Derived'
  BY <1>1 DEF Inv, Fresh, LogAgrees, Derived, Suppressed
<1> QED
  BY <1>2, <1>3 DEF Inv

\* A decision moves at most the finding whose turn it is.
LEMMA InvDecide == Inv /\ (Inline \/ Configured) => Inv'
<1> SUFFICES ASSUME Inv, Inline \/ Configured PROVE Inv'
  OBVIOUS
<1>1. /\ pc' \in {"inline", "config", "derive"}
      /\ UNCHANGED <<world, context, unread, scanned, configured, result>>
  BY DEF Inline, Configured, Decided, Step
<1>2. /\ findings' \in [DOMAIN findings -> FindingType] /\ DOMAIN findings' = DOMAIN findings
      /\ todo' \subseteq todo /\ LogAgrees'
  <2>1. PICK p \in todo :
          \/ UNCHANGED <<findings, log>> /\ todo' \subseteq todo
          \/ SuppressInline(p, First(InlineMatches(p))) /\ todo' = todo \ {p}
          \/ SuppressConfigured(p, First(ConfiguredMatches(p))) /\ todo' = todo \ {p}
    BY DEF Inline, Configured, Decided
  <2>2. CASE UNCHANGED <<findings, log>> /\ todo' \subseteq todo
    BY <2>2 DEF Inv, TypeOK, LogAgrees, Suppressed
  <2>3. CASE SuppressInline(p, First(InlineMatches(p))) /\ todo' = todo \ {p}
    <3> DEFINE m == text[p[1]][First(InlineMatches(p))].marker
    <3>1. Suppress(p, m.rule, First(InlineMatches(p)), Effective(m))
      BY <2>3 DEF SuppressInline
    <3> QED
      BY <2>3, <3>1, SuppressEffect DEF Inv, TypeOK
  <2>4. CASE SuppressConfigured(p, First(ConfiguredMatches(p))) /\ todo' = todo \ {p}
    <3> DEFINE c == configured[First(ConfiguredMatches(p))]
    <3>1. Suppress(p, c.rule, 0, c.expires)
      BY <2>4 DEF SuppressConfigured
    <3> QED
      BY <2>4, <3>1, SuppressEffect DEF Inv, TypeOK
  <2> QED
    BY <2>1, <2>2, <2>3, <2>4
<1>3. TypeOK'
  BY <1>1, <1>2 DEF Inv, TypeOK, world, result, Pcs
<1> QED
  BY <1>1, <1>2, <1>3 DEF Inv, Fresh, Derived

\* The last step reads the statuses and leaves them alone.
LEMMA InvDerive == Inv /\ Derive => Inv'
<1> SUFFICES ASSUME Inv, Derive PROVE Inv'
  OBVIOUS
<1>1. /\ UNCHANGED <<world, context, unread, scanned, findings, configured, todo, log,
                       configError>>
      /\ pc' = "done"
  BY DEF Derive, Step
<1>2. TypeOK' /\ LogAgrees' /\ Fresh'
  BY <1>1 DEF Inv, TypeOK, LogAgrees, Fresh, Suppressed, world, Pcs
<1>3. plans' = {[finding |-> p, targets |-> PlanTargets(findings[p].purpose),
                 urgency |-> findings[p].severity] :
                   p \in {q \in DOMAIN findings : NeedsPlan(findings[q])}}
  BY DEF Derive
<1> DEFINE planned == {q \in DOMAIN findings : NeedsPlan(findings[q])}
           plan(p) == [finding |-> p, targets |-> PlanTargets(findings[p].purpose),
                       urgency |-> findings[p].severity]
<1>4. \A p : plan(p).finding = p /\ plan(p).targets = PlanTargets(findings[p].purpose)
  OBVIOUS
<1>5. plans' = {plan(p) : p \in planned}
  BY <1>3
<1> HIDE DEF plan, planned
<1>6. /\ {m.finding : m \in plans'} = planned
      /\ \A m \in plans' : m.targets = PlanTargets(findings[m.finding].purpose)
  BY <1>4, <1>5
<1>7. hndl'.affected = {p \in DOMAIN findings : HndlAffected(findings[p])}
  BY DEF Derive
<1> QED
  BY <1>1, <1>2, <1>6, <1>7 DEF Inv, Derived, planned

\* Edits, midnights and the end touch nothing the audit keeps.
LEMMA InvWorld ==
    Inv /\ (EditFile \/ EditConfig \/ Midnight \/ Finished \/ UNCHANGED vars) => Inv'
<1> SUFFICES ASSUME Inv, EditFile \/ EditConfig \/ Midnight \/ Finished \/ UNCHANGED vars
             PROVE  Inv'
  OBVIOUS
<1>1. UNCHANGED <<context, pc, unread, scanned, findings, configured, todo, log, result>>
  BY DEF EditFile, EditConfig, Midnight, Finished, Change, vars
<1>2. text' \in [Files -> Texts] /\ config' \in Configs
  BY DEF EditFile, EditConfig, Midnight, Finished, vars, world, Inv, TypeOK
<1>3. day' \in 0..MaxDay /\ changes' \in 0..MaxChanges
  BY PipelineAssumption DEF EditFile, EditConfig, Midnight, Finished, Change, vars, world,
     Inv, TypeOK
<1>4. TypeOK'
  BY <1>1, <1>2, <1>3 DEF Inv, TypeOK, result
<1> QED
  BY <1>1, <1>4 DEF Inv, Fresh, LogAgrees, Derived, Suppressed, result

\* The invariant holds in every state of every audit.
LEMMA Invariance == Init /\ [][Next]_vars => []Inv
<1>1. Inv /\ [Next]_vars => Inv'
  BY InvRead, InvAnalyze, InvAssess, InvLoad, InvConfigRaises, InvDecide, InvDerive, InvWorld
     DEF Next, Audit
<1> QED
  BY <1>1, InvInit, PTL

-----------------------------------------------------------------------------
(***************************************************************************)
(* The theorems                                                            *)
(***************************************************************************)

\* Every variable keeps to its type: what is assessed and suppressed is still a
\* finding with a severity and a rule of the tables.
THEOREM PipelineTyped == Spec => []TypeOK
<1>1. Inv => TypeOK
  BY DEF Inv
<1> QED
  BY <1>1, Invariance, PTL DEF Spec

\* The audit log and the statuses agree at every moment, whatever changes under
\* the audit (suppression.py:112-128).
THEOREM LogAlwaysAgrees == Spec => []LogAgrees
<1>1. Inv => LogAgrees
  BY DEF Inv
<1> QED
  BY <1>1, Invariance, PTL DEF Spec

\* The invariant says where each finding ends.
LEMMA OncePartitioned == Inv => EachFindingOnce
<1> SUFFICES ASSUME Inv, pc = "done" PROVE EachFindingOnce
  BY DEF EachFindingOnce
<1> DEFINE logged == {e.finding : e \in log}
           planned == {m.finding : m \in plans}
<1>1. logged = Suppressed
  BY DEF Inv, LogAgrees
<1>2. planned = {p \in DOMAIN findings : NeedsPlan(findings[p])}
  BY DEF Inv, Derived
<1>3. logged \cap planned = {}
  BY <1>1, <1>2 DEF Suppressed, NeedsPlan
<1>4. \A p \in DOMAIN findings \ (logged \cup planned) : findings[p].algorithm \notin Shor
  BY <1>1, <1>2 DEF Suppressed, NeedsPlan
<1>5. \A p \in hndl.affected : \E m \in plans : m.finding = p /\ m.targets = {"ML-KEM"}
  <2> SUFFICES ASSUME NEW p \in hndl.affected
               PROVE  \E m \in plans : m.finding = p /\ m.targets = {"ML-KEM"}
    OBVIOUS
  <2>1. p \in DOMAIN findings /\ HndlAffected(findings[p])
    BY DEF Inv, Derived
  <2>2. NeedsPlan(findings[p]) /\ findings[p].purpose \in Confidentiality
    BY <2>1 DEF HndlAffected, NeedsPlan
  <2>3. PICK m \in plans : m.finding = p
    BY <1>2, <2>1, <2>2
  <2>4. m.targets = PlanTargets(findings[p].purpose)
    BY <2>3 DEF Inv, Derived
  <2>5. PlanTargets(findings[p].purpose) = {"ML-KEM"}
    BY <2>2 DEF PlanTargets, Kem, Confidentiality, Authenticity
  <2> QED
    BY <2>3, <2>4, <2>5
<1> QED
  BY <1>3, <1>4, <1>5 DEF EachFindingOnce

\* At the end every finding is logged, planned or out of Shor's reach, never
\* two of them, and what HNDL lists has a plan for key establishment.
THEOREM FindingsPartitioned == Spec => []EachFindingOnce
  BY OncePartitioned, Invariance, PTL DEF Spec

-----------------------------------------------------------------------------
(***************************************************************************)
(* Who is exempt                                                           *)
(***************************************************************************)

\* What the statuses mean while nothing has changed: the files read are those on
\* disk, the entries loaded are those of the configuration, and every finding
\* already decided, unless it is shifted, is suppressed exactly when it is exempt.
\* A finding that is asked of the configuration has no marker of its own
\* (suppression.py:83-128).
Deciding == pc \in {"inline", "config", "derive", "done"}

DecidedExactly ==
    changes = 0 =>
        /\ \A f \in Files \ unread : scanned[f] = text[f]
        /\ pc # "read" => unread = {}
        /\ Deciding =>
              /\ configured = (IF config.form = "toml" THEN config.entries ELSE <<>>)
              /\ \A p \in DOMAIN findings \ todo :
                    ~Shifted(p) => (p \in Suppressed <=> Exempt(p))
        /\ pc = "config" => \A p \in todo : IsNext(p) => InlineMatches(p) = {}
        /\ pc \in {"derive", "done"} => todo = {}

\* No rule is called ALL, so a marker only ever names its own rule.
LEMMA NoRuleIsAll == "ALL" \notin RuleIds \cup {"none"}
<1>1. ASSUME NEW id, NEW a, NEW p, NEW t, id # "ALL" PROVE Rule(id, a, p, t).id # "ALL"
  BY <1>1 DEF Rule
<1>2. \A r \in Rules \cup {Abstention} : r.id # "ALL"
  BY <1>1 DEF Rules, Abstention
<1> QED
  BY <1>2 DEF RuleIds

\* One finding at a time comes next.
LEMMA NextIsOne ==
    ASSUME Inv, NEW p \in todo, NEW q \in todo, IsNext(p), IsNext(q)
    PROVE  p = q
<1>1. p \in Positions /\ q \in Positions
  BY DEF Inv, TypeOK
<1>2. /\ p[1] \in Nat /\ p[2] \in Nat /\ p[3] \in Nat
      /\ q[1] \in Nat /\ q[2] \in Nat /\ q[3] \in Nat
  BY <1>1, PipelineAssumption DEF Positions
<1>3. ~(Earlier(p, q) /\ Earlier(q, p))
  BY <1>2 DEF Earlier
<1> QED
  BY <1>3 DEF IsNext

\* Unless it is shifted, a finding has the number of the line it is on.
LEMMA OwnLine ==
    ASSUME Inv, NEW p \in DOMAIN findings, ~Shifted(p)
    PROVE  LineOf(p) = p[2]
<1>1. p[2] \in Nat \ {0}
  BY DEF Inv, TypeOK, Positions
<1>2. CASE p[1] \in PythonFiles
  <2>1. \A l \in 1..(p[2] - 1) : scanned[p[1]][l].ends
    BY <1>2 DEF Shifted
  <2>2. {l \in 1..(p[2] - 1) : scanned[p[1]][l].ends} = 1..(p[2] - 1)
    BY <2>1
  <2>3. Cardinality(1..(p[2] - 1)) = p[2] - 1
    <3>1. PICK n \in Int : n = p[2] - 1 /\ n >= 0
      BY <1>1
    <3>2. Cardinality(1..n) = n
      BY <3>1, FS_Interval
    <3> QED
      BY <3>1, <3>2
  <2>4. LineOf(p) = 1 + Cardinality(1..(p[2] - 1))
    BY <1>2, <2>2 DEF LineOf
  <2> QED
    BY <1>1, <2>3, <2>4
<1>3. CASE p[1] \notin PythonFiles
  BY <1>3 DEF LineOf
<1> QED
  BY <1>2, <1>3

\* While nothing has changed, a finding is exempt when a marker or an entry is
\* found for it, and only then.
LEMMA ExemptMatches ==
    ASSUME Inv, DecidedExactly, changes = 0, pc \in {"inline", "config"},
           NEW p \in DOMAIN findings, ~Shifted(p)
    PROVE  Exempt(p) <=> (InlineMatches(p) # {} \/ ConfiguredMatches(p) # {})
<1>1. p[1] \in Files /\ p[2] \in Nat /\ findings[p].rule \in RuleIds
  <2>1. p \in Positions /\ findings[p] \in FindingType
    BY DEF Inv, TypeOK
  <2> QED
    BY <2>1 DEF Positions, FindingType
<1>2. scanned[p[1]] = text[p[1]]
  BY <1>1 DEF DecidedExactly
<1>3. configured = IF config.form = "toml" THEN config.entries ELSE <<>>
  BY DEF DecidedExactly, Deciding
<1> DEFINE lines == text[p[1]]
<1>4. \A l \in DOMAIN lines : lines[l].marker.rule # "ALL"
  <2>1. lines \in Seq(Lines)
    BY <1>1, PipelineAssumption DEF Inv, TypeOK
  <2>2. \A l \in DOMAIN lines : lines[l] \in Lines
    <3> HIDE DEF lines
    <3> QED
      BY <2>1
  <2>3. \A line \in Lines : line.marker.rule \in RuleIds \cup {"none"}
    BY DEF Lines
  <2> HIDE DEF lines
  <2> QED
    BY <2>2, <2>3, NoRuleIsAll
<1>5. (\E l \in DOMAIN lines : /\ l \in {p[2] - 1, p[2]}
                               /\ lines[l].marker.rule = findings[p].rule
                               /\ Effective(lines[l].marker) >= day)
        <=> InlineMatches(p) # {}
  <2>1. InlineMatches(p) =
          {l \in {p[2], p[2] - 1} \cap DOMAIN lines :
              /\ Effective(lines[l].marker) >= day
              /\ lines[l].marker.rule \in {"ALL", findings[p].rule}}
    BY OwnLine DEF InlineMatches, Candidates, Matches
  <2> HIDE DEF lines
  <2> QED
    BY <1>4, <2>1
<1>6. (/\ config.form = "toml"
       /\ \E k \in DOMAIN config.entries :
             /\ config.entries[k].rule \in {"ALL", findings[p].rule}
             /\ config.entries[k].expires >= day
             /\ p[1] \in config.entries[k].paths)
        <=> ConfiguredMatches(p) # {}
  <2>1. CASE config.form = "toml"
    BY <1>3, <2>1 DEF ConfiguredMatches, Matches
  <2>2. CASE config.form # "toml"
    <3>1. configured = <<>> /\ DOMAIN <<>> = {}
      BY <1>3, <2>2
    <3>2. ConfiguredMatches(p) = {}
      BY <3>1 DEF ConfiguredMatches
    <3> QED
      BY <2>2, <3>2
  <2> QED
    BY <2>1, <2>2
<1> QED
  BY <1>2, <1>5, <1>6 DEF Exempt

\* The first of the matches is found among them.
LEMMA SuppressOne ==
    ASSUME Inv, NEW p \in todo, NEW rule, NEW source, NEW expires,
           Suppress(p, rule, source, expires)
    PROVE  /\ DOMAIN findings' = DOMAIN findings
           /\ Suppressed' = Suppressed \cup {p}
           /\ \A q \in DOMAIN findings :
                 /\ findings'[q].algorithm = findings[q].algorithm
                 /\ findings'[q].purpose = findings[q].purpose
                 /\ findings'[q].confidence = findings[q].confidence
                 /\ findings'[q].test = findings[q].test
                 /\ findings'[q].rule = findings[q].rule
                 /\ findings'[q].targets = findings[q].targets
                 /\ findings'[q].severity = findings[q].severity
<1> DEFINE new == [findings[p] EXCEPT !.status = "suppressed"]
<1>1. p \in DOMAIN findings /\ findings \in [DOMAIN findings -> FindingType]
      /\ findings[p] \in FindingType
  BY DEF Inv, TypeOK
<1>2. findings' = [findings EXCEPT ![p] = new]
  BY DEF Suppress
<1>3. /\ new.status = "suppressed" /\ new.algorithm = findings[p].algorithm
      /\ new.purpose = findings[p].purpose /\ new.confidence = findings[p].confidence
      /\ new.test = findings[p].test /\ new.rule = findings[p].rule
      /\ new.targets = findings[p].targets /\ new.severity = findings[p].severity
  BY <1>1 DEF FindingType
<1> HIDE DEF new
<1>4. /\ DOMAIN findings' = DOMAIN findings /\ findings'[p] = new
      /\ \A q \in DOMAIN findings : q # p => findings'[q] = findings[q]
  BY <1>1, <1>2
<1>5. Suppressed' = Suppressed \cup {p}
  BY <1>1, <1>3, <1>4 DEF Suppressed
<1> QED
  BY <1>3, <1>4, <1>5

\* What a decision does to the findings: the one whose turn it is joins the
\* suppressed, or none does, and nothing else of a finding changes.
LEMMA DecisionEffect ==
    ASSUME Inv, Inline \/ Configured
    PROVE  \E p \in todo :
        /\ IsNext(p)
        /\ \/ /\ Inline /\ InlineMatches(p) = {} /\ pc' = "config"
              /\ UNCHANGED <<findings, todo>>
           \/ /\ Inline /\ InlineMatches(p) # {} /\ Decided(p)
              /\ Suppressed' = Suppressed \cup {p}
           \/ /\ Configured /\ ConfiguredMatches(p) # {} /\ Decided(p)
              /\ Suppressed' = Suppressed \cup {p}
           \/ /\ Configured /\ ConfiguredMatches(p) = {} /\ Decided(p)
              /\ UNCHANGED findings
        /\ DOMAIN findings' = DOMAIN findings
        /\ \A q \in DOMAIN findings :
              /\ findings'[q].algorithm = findings[q].algorithm
              /\ findings'[q].purpose = findings[q].purpose
              /\ findings'[q].confidence = findings[q].confidence
              /\ findings'[q].test = findings[q].test
              /\ findings'[q].rule = findings[q].rule
              /\ findings'[q].targets = findings[q].targets
              /\ findings'[q].severity = findings[q].severity
<1>1. CASE Inline
  <2>1. PICK p \in todo :
          /\ IsNext(p)
          /\ \/ /\ InlineMatches(p) = {} /\ pc' = "config"
                /\ UNCHANGED <<findings, log, todo>>
             \/ /\ InlineMatches(p) # {} /\ Decided(p)
                /\ SuppressInline(p, First(InlineMatches(p)))
    BY <1>1 DEF Inline
  <2>2. CASE UNCHANGED findings /\ InlineMatches(p) = {}
    BY <1>1, <2>1, <2>2
  <2>3. CASE /\ InlineMatches(p) # {} /\ Decided(p)
             /\ SuppressInline(p, First(InlineMatches(p)))
    <3> DEFINE m == text[p[1]][First(InlineMatches(p))].marker
    <3>1. Suppress(p, m.rule, First(InlineMatches(p)), Effective(m))
      BY <2>3 DEF SuppressInline
    <3> QED
      BY <1>1, <2>1, <2>3, <3>1, SuppressOne
  <2> QED
    BY <2>1, <2>2, <2>3
<1>2. CASE Configured
  <2>1. PICK p \in todo :
          /\ IsNext(p) /\ Decided(p)
          /\ \/ ConfiguredMatches(p) = {} /\ UNCHANGED <<findings, log>>
             \/ /\ ConfiguredMatches(p) # {}
                /\ SuppressConfigured(p, First(ConfiguredMatches(p)))
    BY <1>2 DEF Configured
  <2>2. CASE UNCHANGED findings /\ ConfiguredMatches(p) = {}
    BY <1>2, <2>1, <2>2
  <2>3. CASE ConfiguredMatches(p) # {} /\ SuppressConfigured(p, First(ConfiguredMatches(p)))
    <3> DEFINE c == configured[First(ConfiguredMatches(p))]
    <3>1. Suppress(p, c.rule, 0, c.expires)
      BY <2>3 DEF SuppressConfigured
    <3> QED
      BY <1>2, <2>1, <2>3, <3>1, SuppressOne
  <2> QED
    BY <2>1, <2>2, <2>3
<1> QED
  BY <1>1, <1>2

\* Exemption depends on the rule of a finding, not on its status.
LEMMA SameExempt ==
    ASSUME UNCHANGED <<scanned, config, day>>,
           NEW q, findings'[q].rule = findings[q].rule
    PROVE  (Exempt(q)' <=> Exempt(q)) /\ (Shifted(q)' <=> Shifted(q))
  BY DEF Exempt, Shifted

\* What is found for a finding whose rule stays depends on the files and the day.
LEMMA SameMatches ==
    ASSUME UNCHANGED <<scanned, text, day>>,
           NEW q, findings'[q].rule = findings[q].rule
    PROVE  InlineMatches(q)' = InlineMatches(q)
<1>1. LineOf(q)' = LineOf(q)
  BY DEF LineOf
<1>2. Candidates(q)' = Candidates(q)
  BY <1>1 DEF Candidates
<1> QED
  BY <1>2 DEF InlineMatches, Matches

LEMMA ExactlyInit == Init => DecidedExactly
  BY DEF Init, DecidedExactly, Deciding

\* Before the decisions: the files are read, and the entries are loaded.
LEMMA ExactlyBefore ==
    Inv /\ DecidedExactly /\ (ReadSource \/ Analyze \/ Assess \/ LoadConfig \/ ConfigRaises)
        => DecidedExactly'
<1> SUFFICES ASSUME Inv, DecidedExactly, changes' = 0,
                    ReadSource \/ Analyze \/ Assess \/ LoadConfig \/ ConfigRaises
             PROVE  DecidedExactly'
  BY DEF DecidedExactly
<1>1. changes = 0 /\ UNCHANGED <<text, config, day>>
  BY DEF ReadSource, Analyze, Assess, LoadConfig, ConfigRaises, Step, world
<1>2. CASE ReadSource
  <2>1. PICK f \in unread : /\ scanned' = [scanned EXCEPT ![f] = text[f]]
                            /\ unread' = unread \ {f}
                            /\ pc' = IF unread' = {} THEN "analyze" ELSE "read"
    BY <1>2 DEF ReadSource
  <2>2. \A g \in Files \ unread' : scanned'[g] = text[g]
    BY <1>1, <2>1 DEF DecidedExactly, Inv, TypeOK
  <2>3. pc' \in {"read", "analyze"} /\ (pc' # "read" => unread' = {})
    BY <2>1
  <2> QED
    BY <1>1, <2>2, <2>3 DEF DecidedExactly, Deciding
<1>3. CASE Analyze \/ Assess \/ ConfigRaises
  <2>1. UNCHANGED <<scanned, unread>> /\ pc # "read" /\ pc' \in {"assess", "load", "raised"}
    BY <1>3 DEF Analyze, Assess, ConfigRaises, Step
  <2> QED
    BY <1>1, <2>1 DEF DecidedExactly, Deciding
<1>4. CASE LoadConfig
  <2>1. /\ UNCHANGED <<scanned, unread, findings>> /\ pc = "load" /\ todo' = DOMAIN findings
        /\ configured' = (IF config.form = "toml" THEN config.entries ELSE <<>>)
        /\ pc' = IF todo' = {} THEN "derive" ELSE "inline"
    BY <1>4 DEF LoadConfig, Step
  <2> QED
    BY <1>1, <2>1 DEF DecidedExactly, Deciding
<1> QED
  BY <1>2, <1>3, <1>4

\* A decision: the finding whose turn it is has a match exactly when it is exempt.
\* When the configuration is asked, the markers have been asked before.
LEMMA ExactlyDecide == Inv /\ DecidedExactly /\ (Inline \/ Configured) => DecidedExactly'
<1> SUFFICES ASSUME Inv, DecidedExactly, Inline \/ Configured, changes' = 0
             PROVE  DecidedExactly'
  BY DEF DecidedExactly
<1>1. /\ changes = 0 /\ UNCHANGED <<text, config, day, scanned, unread, configured>>
      /\ pc \in {"inline", "config"}
  BY DEF Inline, Configured, Step, world
<1>2. PICK p \in todo :
        /\ IsNext(p)
        /\ \/ /\ Inline /\ InlineMatches(p) = {} /\ pc' = "config"
              /\ UNCHANGED <<findings, todo>>
           \/ /\ Inline /\ InlineMatches(p) # {} /\ Decided(p)
              /\ Suppressed' = Suppressed \cup {p}
           \/ /\ Configured /\ ConfiguredMatches(p) # {} /\ Decided(p)
              /\ Suppressed' = Suppressed \cup {p}
           \/ /\ Configured /\ ConfiguredMatches(p) = {} /\ Decided(p)
              /\ UNCHANGED findings
        /\ DOMAIN findings' = DOMAIN findings
        /\ \A q \in DOMAIN findings : findings'[q].rule = findings[q].rule
  BY DecisionEffect
<1>3. /\ p \in DOMAIN findings /\ p \notin Suppressed
      /\ ~Shifted(p) => (Exempt(p) <=> (InlineMatches(p) # {} \/ ConfiguredMatches(p) # {}))
  BY <1>1, ExemptMatches DEF Inv, TypeOK, LogAgrees
<1>4. \A q \in DOMAIN findings : (Exempt(q)' <=> Exempt(q)) /\ (Shifted(q)' <=> Shifted(q))
  BY <1>1, <1>2, SameExempt
<1>5. pc' # "read" /\ unread' = {} /\ (\A f \in Files \ unread' : scanned'[f] = text'[f])
      /\ configured' = (IF config'.form = "toml" THEN config'.entries ELSE <<>>)
  <2>1. pc' \in {"inline", "config", "derive"}
    BY <1>2 DEF Decided
  <2> QED
    BY <1>1, <2>1 DEF DecidedExactly, Deciding
<1>6. CASE Inline /\ InlineMatches(p) = {} /\ pc' = "config" /\ UNCHANGED <<findings, todo>>
  <2>1. \A q \in todo : IsNext(q) => q = p
    BY <1>2, NextIsOne
  <2>2. \A q \in todo : IsNext(q)' <=> IsNext(q)
    BY <1>6 DEF IsNext
  <2>3. InlineMatches(p)' = InlineMatches(p)
    BY <1>1, <1>6, SameMatches
  <2>4. \A q \in todo' : IsNext(q)' => InlineMatches(q)' = {}
    BY <1>6, <2>1, <2>2, <2>3
  <2>5. \A q \in DOMAIN findings' \ todo' :
          ~Shifted(q)' => (q \in Suppressed' <=> Exempt(q)')
    BY <1>1, <1>4, <1>6 DEF DecidedExactly, Deciding, Suppressed
  <2> QED
    BY <1>5, <1>6, <2>4, <2>5 DEF DecidedExactly
<1>7. CASE Decided(p) /\ (~Shifted(p) => (p \in Suppressed' <=> Exempt(p)))
           /\ \A q \in DOMAIN findings \ {p} : q \in Suppressed' <=> q \in Suppressed
  <2>1. todo' = todo \ {p} /\ pc' = IF todo' = {} THEN "derive" ELSE "inline"
    BY <1>7 DEF Decided
  <2>2. \A q \in DOMAIN findings' \ todo' :
          ~Shifted(q)' => (q \in Suppressed' <=> Exempt(q)')
    BY <1>1, <1>2, <1>4, <1>7, <2>1 DEF DecidedExactly, Deciding
  <2> QED
    BY <1>5, <2>1, <2>2 DEF DecidedExactly
<1>8. CASE /\ InlineMatches(p) # {} \/ ConfiguredMatches(p) # {}
           /\ Decided(p)
           /\ Suppressed' = Suppressed \cup {p}
  BY <1>3, <1>7, <1>8
<1>9. CASE Configured /\ ConfiguredMatches(p) = {} /\ Decided(p) /\ UNCHANGED findings
  <2>1. pc = "config" /\ InlineMatches(p) = {}
    BY <1>1, <1>2, <1>9 DEF Configured, Step, DecidedExactly
  <2>2. Suppressed' = Suppressed
    BY <1>9 DEF Suppressed
  <2> QED
    BY <1>3, <1>7, <1>9, <2>1, <2>2
<1> QED
  BY <1>2, <1>6, <1>8, <1>9

\* Deriving, and whatever leaves the audit alone.
LEMMA ExactlyAfter ==
    Inv /\ DecidedExactly /\
        (Derive \/ EditFile \/ EditConfig \/ Midnight \/ Finished \/ UNCHANGED vars)
        => DecidedExactly'
<1> SUFFICES ASSUME Inv, DecidedExactly, changes' = 0,
                    Derive \/ EditFile \/ EditConfig \/ Midnight \/ Finished \/ UNCHANGED vars
             PROVE  DecidedExactly'
  BY DEF DecidedExactly
<1>1. ~(EditFile \/ EditConfig \/ Midnight)
  BY PipelineAssumption DEF EditFile, EditConfig, Midnight, Change, Inv, TypeOK
<1>2. /\ UNCHANGED <<world, unread, scanned, findings, configured, todo>>
      /\ pc' = pc \/ (pc = "derive" /\ pc' = "done")
  BY <1>1 DEF Derive, Finished, vars, Step
<1>3. changes = 0 /\ UNCHANGED <<text, config, day>>
  BY <1>2 DEF world
<1>4. /\ \A q \in DOMAIN findings : (Exempt(q)' <=> Exempt(q)) /\ (Shifted(q)' <=> Shifted(q))
      /\ Suppressed' = Suppressed /\ (Deciding' <=> Deciding)
  <2>1. \A q \in DOMAIN findings : (Exempt(q)' <=> Exempt(q)) /\ (Shifted(q)' <=> Shifted(q))
    BY <1>2, <1>3, SameExempt
  <2> QED
    BY <1>2, <2>1 DEF Suppressed, Deciding
<1>5. \A q \in todo : (IsNext(q)' <=> IsNext(q)) /\ InlineMatches(q)' = InlineMatches(q)
  BY <1>2, <1>3, SameMatches DEF IsNext
<1> QED
  BY <1>2, <1>3, <1>4, <1>5 DEF DecidedExactly

\* When nothing changes during an audit, a finding that no line before it has shifted
\* is suppressed exactly when it is exempt, however many markers and entries there are
\* and whatever becomes of the others (suppression.py:83-128).
THEOREM SuppressionsExact == Spec => []QuietlyExact
<1>1. Inv /\ DecidedExactly /\ [Next]_vars => DecidedExactly'
  BY ExactlyBefore, ExactlyDecide, ExactlyAfter DEF Next, Audit
<1>2. Inv /\ DecidedExactly => QuietlyExact
  <2> SUFFICES ASSUME Inv, DecidedExactly, pc = "done", changes = 0
               PROVE  \A p \in DOMAIN findings : ~Shifted(p) => (p \in Suppressed <=> Exempt(p))
    BY DEF QuietlyExact
  <2> QED
    BY DEF DecidedExactly, Deciding
<1> QED
  BY <1>1, <1>2, ExactlyInit, Invariance, PTL DEF Spec

-----------------------------------------------------------------------------
(***************************************************************************)
(* The tables, which are written down twice                                *)
(***************************************************************************)

\* The targets of a finding within Shor's reach are those its purpose calls for;
\* once assessed its severity is the one its context calls for, and the HNDL status
\* is that of the findings listed with it.
Rated ==
    /\ \A p \in DOMAIN findings : findings[p].algorithm \in Shor =>
           findings[p].targets = PlanTargets(findings[p].purpose)
    /\ pc \notin {"read", "analyze", "assess"} =>
           \A p \in DOMAIN findings : findings[p].algorithm \in Shor =>
               findings[p].severity = AssessedSeverity(findings[p], context)
    /\ pc = "done" => hndl.status = HndlStatus(hndl.affected, context)

\* What is reported of an algorithm within Shor's reach: nothing is known of the
\* purpose, or one of the rules is for it.
HasRule(a, p) ==
    \/ p \notin Confidentiality \cup Authenticity
    \/ p = "SIGNATURE" /\ a \in {"RSA", "ECDSA", "EdDSA"}
    \/ p = "ENCRYPTION" /\ a = "RSA"
    \/ /\ p = "KEY_ESTABLISHMENT"
       /\ a \in {"RSA", "ECDH", "X25519", "X448", "finite-field DH"}

\* Every analyzer keeps to that.
LEMMA ObservedHasRule ==
    \A o \in Observations : o.algorithm \in Shor => HasRule(o.algorithm, o.purpose)
<1> DEFINE Covered_(S) == \A o \in S : o.algorithm \in Shor => HasRule(o.algorithm, o.purpose)
<1>1. ASSUME NEW A, NEW p, NEW c, \A a \in A : a \in Shor => HasRule(a, p)
      PROVE  Covered_(Observed(A, p, c))
  BY <1>1 DEF Observed
<1>2. \A S : (\A s \in S : Covered_(s)) => Covered_(UNION S)
  OBVIOUS
<1> HIDE DEF Covered_
<1>3. \A A, c : /\ Covered_(Observed(A, "UNKNOWN", c)) /\ Covered_(Observed(A, "HASHING", c))
                /\ Covered_(Observed(A, "KDF", c)) /\ Covered_(Observed(A, "MAC", c))
  BY <1>1 DEF HasRule, Confidentiality, Authenticity
<1>4. \A A, c : A \subseteq {"RSA", "ECDSA", "EdDSA", "ML-DSA", "SLH-DSA"}
                  => Covered_(Observed(A, "SIGNATURE", c))
  <2>1. \A a \in {"RSA", "ECDSA", "EdDSA", "ML-DSA", "SLH-DSA"} :
            a \in Shor => HasRule(a, "SIGNATURE")
    BY DEF HasRule, Shor
  <2> QED
    BY <1>1, <2>1
<1>5. \A c : Covered_(Observed({"RSA"}, "ENCRYPTION", c))
  BY <1>1 DEF HasRule
<1>6. \A A, c : A \subseteq {"RSA", "ECDH", "X25519", "X448", "finite-field DH", "ML-KEM"}
                  => Covered_(Observed(A, "KEY_ESTABLISHMENT", c))
  <2>1. \A a \in {"RSA", "ECDH", "X25519", "X448", "finite-field DH", "ML-KEM"} :
            a \in Shor => HasRule(a, "KEY_ESTABLISHMENT")
    BY DEF HasRule, Shor
  <2> QED
    BY <1>1, <2>1
<1>7. Covered_(PythonObservations)
  <2>1. /\ Covered_(Observed({"RSA", "ECDSA", "EdDSA", "ML-DSA", "SLH-DSA"}, "SIGNATURE", "HIGH"))
        /\ Covered_(Observed({"RSA"}, "SIGNATURE", "MEDIUM"))
    BY <1>4
  <2>2. /\ Covered_(Observed({"RSA", "ECDH", "X25519", "X448", "finite-field DH", "ML-KEM"},
                             "KEY_ESTABLISHMENT", "HIGH"))
        /\ Covered_(Observed({"ECDH", "X25519"}, "KEY_ESTABLISHMENT", "MEDIUM"))
    BY <1>6
  <2>3. /\ Covered_(Observed({"RSA"}, "ENCRYPTION", "HIGH"))
        /\ Covered_(Observed({"SHA-2/SHA-3"}, "HASHING", "HIGH"))
        /\ Covered_(Observed({"SHA-2/SHA-3"}, "KDF", "MEDIUM"))
        /\ Covered_(Observed({"HMAC"}, "MAC", "HIGH"))
        /\ Covered_(Observed(Insecure, "UNKNOWN", "HIGH"))
        /\ Covered_(Observed({"RSA", "ECDSA", "X25519", "X448", "TLS"}, "UNKNOWN", "MEDIUM"))
        /\ Covered_(Observed({"ECDSA", "TLS"}, "UNKNOWN", "LOW"))
    BY <1>3, <1>5
  <2> QED
    BY <1>2, <2>1, <2>2, <2>3 DEF PythonObservations
<1>8. Covered_(ConfigObservations)
  <2>1. Covered_(Observed({"RSA", "ECDSA", "EdDSA", "ML-DSA", "SLH-DSA"}, "SIGNATURE", "MEDIUM"))
    BY <1>4
  <2>2. Covered_(Observed({"ECDH", "X25519", "X448", "ML-KEM"}, "KEY_ESTABLISHMENT", "MEDIUM"))
    BY <1>6
  <2>3. Covered_(Observed({"RSA"}, "UNKNOWN", "MEDIUM"))
    BY <1>3
  <2> QED
    BY <1>2, <2>1, <2>2, <2>3 DEF ConfigObservations
<1>9. Covered_(TextObservations)
  <2>1. Covered_(Observed({"ECDSA", "EdDSA", "ML-DSA"}, "SIGNATURE", "LOW"))
    BY <1>4
  <2>2. Covered_(Observed({"X25519", "ML-KEM"}, "KEY_ESTABLISHMENT", "LOW"))
    BY <1>6
  <2>3. Covered_(Observed({"RSA"}, "UNKNOWN", "LOW"))
    BY <1>3
  <2> QED
    BY <1>2, <2>1, <2>2, <2>3 DEF TextObservations
<1> QED
  BY <1>7, <1>8, <1>9 DEF Covered_, Observations

\* A rule for an algorithm within Shor's reach has the targets its purposes call for.
LEMMA RulesAgree ==
    \A r \in Rules : r.algorithm \in Shor =>
        \A p \in r.purposes : r.targets = PlanTargets(p)
<1> DEFINE Agrees(r) == r.algorithm \in Shor => \A p \in r.purposes : r.targets = PlanTargets(p)
<1>1. ASSUME NEW id, NEW a, NEW P, NEW T, a \notin Shor \/ \A p \in P : T = PlanTargets(p)
      PROVE  Agrees(Rule(id, a, P, T))
  BY <1>1 DEF Rule
<1>2. /\ \A p \in Confidentiality : Kem = PlanTargets(p)
      /\ \A p \in Authenticity : Signers = PlanTargets(p)
      /\ Kem = PlanTargets("KEY_ESTABLISHMENT") /\ Signers = PlanTargets("SIGNATURE")
  BY DEF PlanTargets, Confidentiality, Authenticity
<1>3. /\ "ML-KEM" \notin Shor /\ "ML-DSA" \notin Shor /\ "SLH-DSA" \notin Shor
      /\ "SHA-2/SHA-3" \notin Shor /\ "HMAC" \notin Shor
      /\ "TLS-legacy" \notin Shor /\ "TLS-insecure" \notin Shor
  BY DEF Shor
<1> HIDE DEF Agrees
<1>4. \A id, a : /\ Agrees(Rule(id, a, {"SIGNATURE"}, Signers))
                 /\ Agrees(Rule(id, a, Confidentiality, Kem))
                 /\ Agrees(Rule(id, a, Authenticity, Signers))
                 /\ Agrees(Rule(id, a, {"KEY_ESTABLISHMENT"}, Kem))
  BY <1>1, <1>2
<1>5. \A id, P, T : /\ Agrees(Rule(id, "ML-KEM", P, T)) /\ Agrees(Rule(id, "ML-DSA", P, T))
                    /\ Agrees(Rule(id, "SLH-DSA", P, T)) /\ Agrees(Rule(id, "SHA-2/SHA-3", P, T))
                    /\ Agrees(Rule(id, "HMAC", P, T)) /\ Agrees(Rule(id, "TLS-legacy", P, T))
                    /\ Agrees(Rule(id, "TLS-insecure", P, T))
  BY <1>1, <1>3
<1>6. \A r \in Rules : Agrees(r)
  BY <1>4, <1>5 DEF Rules
<1> QED
  BY <1>6 DEF Agrees

\* And where HasRule says so, there is one.
LEMMA RuleExists ==
    ASSUME NEW a, NEW p, HasRule(a, p), p \in Confidentiality \cup Authenticity
    PROVE  \E r \in Rules : r.algorithm = a /\ p \in r.purposes
<1>1. \A id, b, P, T : Rule(id, b, P, T).algorithm = b /\ Rule(id, b, P, T).purposes = P
  BY DEF Rule
<1>2. CASE p = "SIGNATURE"
  <2>1. /\ Rule("QG-RSA-SIGNATURE", "RSA", {"SIGNATURE"}, Signers) \in Rules
        /\ Rule("QG-ECDSA-SIGNATURE", "ECDSA", Authenticity, Signers) \in Rules
        /\ Rule("QG-EDDSA-SIGNATURE", "EdDSA", Authenticity, Signers) \in Rules
    BY DEF Rules
  <2>2. a \in {"RSA", "ECDSA", "EdDSA"} /\ p \in Authenticity
    BY <1>2 DEF HasRule, Confidentiality, Authenticity
  <2> QED
    BY <1>1, <1>2, <2>1, <2>2
<1>3. CASE p = "ENCRYPTION"
  <2>1. Rule("QG-RSA-KEY-TRANSPORT", "RSA", Confidentiality, Kem) \in Rules
    BY DEF Rules
  <2>2. a = "RSA" /\ p \in Confidentiality
    BY <1>3 DEF HasRule, Confidentiality, Authenticity
  <2> QED
    BY <1>1, <2>1, <2>2
<1>4. CASE p = "KEY_ESTABLISHMENT"
  <2> DEFINE Found(b) == \E r \in Rules : r.algorithm = b /\ p \in r.purposes
  <2>1. ASSUME NEW id, NEW b, NEW P, NEW T, Rule(id, b, P, T) \in Rules, p \in P
        PROVE  Found(b)
    BY <1>1, <2>1
  <2>2. p \in Confidentiality /\ p \in {"KEY_ESTABLISHMENT"}
    BY <1>4 DEF Confidentiality
  <2> HIDE DEF Found
  <2>3. Found("RSA")
    <3>1. Rule("QG-RSA-KEY-TRANSPORT", "RSA", Confidentiality, Kem) \in Rules
      BY DEF Rules
    <3> QED
      BY <2>1, <2>2, <3>1
  <2>4. Found("ECDH")
    <3>1. Rule("QG-ECDH-KEY-ESTABLISHMENT", "ECDH", {"KEY_ESTABLISHMENT"}, Kem) \in Rules
      BY DEF Rules
    <3> QED
      BY <2>1, <2>2, <3>1
  <2>5. Found("X25519")
    <3>1. Rule("QG-X25519-KEY-ESTABLISHMENT", "X25519", {"KEY_ESTABLISHMENT"}, Kem) \in Rules
      BY DEF Rules
    <3> QED
      BY <2>1, <2>2, <3>1
  <2>6. Found("X448")
    <3>1. Rule("QG-X448-KEY-ESTABLISHMENT", "X448", {"KEY_ESTABLISHMENT"}, Kem) \in Rules
      BY DEF Rules
    <3> QED
      BY <2>1, <2>2, <3>1
  <2>7. Found("finite-field DH")
    <3>1. Rule("QG-DH-KEY-ESTABLISHMENT", "finite-field DH", {"KEY_ESTABLISHMENT"}, Kem) \in Rules
      BY DEF Rules
    <3> QED
      BY <2>1, <2>2, <3>1
  <2>8. a \in {"RSA", "ECDH", "X25519", "X448", "finite-field DH"}
    BY <1>4 DEF HasRule, Confidentiality, Authenticity
  <2>9. Found(a)
    BY <2>3, <2>4, <2>5, <2>6, <2>7, <2>8
  <2> QED
    BY <2>9 DEF Found
<1> QED
  BY <1>2, <1>3, <1>4 DEF HasRule

\* So the rule an analyzer finds has the targets that migration/engine.py chooses.
LEMMA TargetsAgree ==
    ASSUME NEW o \in Observations, o.algorithm \in Shor
    PROVE  MatchingRule(o.algorithm, o.purpose).targets = PlanTargets(o.purpose)
<1> DEFINE own == {r \in Rules : r.algorithm = o.algorithm /\ o.purpose \in r.purposes}
<1>1. CASE own # {}
  <2>1. MatchingRule(o.algorithm, o.purpose) \in own
    BY <1>1 DEF MatchingRule
  <2> QED
    BY <2>1, RulesAgree
<1>2. CASE own = {}
  <2>1. MatchingRule(o.algorithm, o.purpose) = Abstention
    BY <1>2 DEF MatchingRule
  <2>2. Abstention.targets = {}
    BY DEF Abstention, Rule
  <2>3. o.purpose \notin Confidentiality \cup Authenticity
    BY <1>2, ObservedHasRule, RuleExists
  <2>4. PlanTargets(o.purpose) = {}
    BY <2>3 DEF PlanTargets
  <2> QED
    BY <2>1, <2>2, <2>4
<1> QED
  BY <1>1, <1>2

\* An assessment looks at neither the severity nor the status of such a finding.
LEMMA SameAssessment ==
    ASSUME NEW f, NEW g, NEW c, f.algorithm \in Shor,
           g.algorithm = f.algorithm, g.purpose = f.purpose,
           g.confidence = f.confidence, g.test = f.test
    PROVE  AssessedSeverity(g, c) = AssessedSeverity(f, c)
<1>1. Score(g, c) = Score(f, c)
  BY DEF Score
<1> QED
  BY <1>1 DEF AssessedSeverity

\* An assessed finding differs from the one assessed in its severity.
LEMMA AssessedFields ==
    ASSUME NEW f \in FindingType, NEW s
    PROVE  LET g == [f EXCEPT !.severity = s]
           IN  /\ g.algorithm = f.algorithm /\ g.purpose = f.purpose
               /\ g.confidence = f.confidence /\ g.test = f.test
               /\ g.targets = f.targets /\ g.severity = s
  BY DEF FindingType

LEMMA RatedInit == Init => Rated
  BY DEF Init, Rated

LEMMA RatedStep == Inv /\ Rated /\ [Next]_vars => Rated'
<1> SUFFICES ASSUME Inv, Rated, [Next]_vars PROVE Rated'
  OBVIOUS
<1>1. CASE /\ UNCHANGED <<findings, context, hndl>>
           /\ pc' \notin {"read", "analyze", "assess"} => pc \notin {"read", "analyze", "assess"}
           /\ pc' = "done" => pc = "done"
  BY <1>1 DEF Rated
<1>2. CASE ReadSource \/ LoadConfig \/ ConfigRaises \/ EditFile \/ EditConfig \/ Midnight \/ Finished
             \/ UNCHANGED vars
  BY <1>1, <1>2 DEF ReadSource, LoadConfig, ConfigRaises, EditFile, EditConfig, Midnight,
     Finished, Change, vars, Step, result
<1>3. CASE Analyze
  <2>1. /\ pc' = "assess"
        /\ findings' = [p \in Calls(scanned) |->
               Finding(CallAt(scanned, p).what, p[1] \in TestFiles)]
    BY <1>3 DEF Analyze, Step
  <2>2. ASSUME NEW p \in Calls(scanned),
               Finding(CallAt(scanned, p).what, p[1] \in TestFiles).algorithm \in Shor
        PROVE  LET f == Finding(CallAt(scanned, p).what, p[1] \in TestFiles)
               IN  f.targets = PlanTargets(f.purpose)
    <3>1. CallAt(scanned, p).what \in Observations
      BY CallsTyped DEF CallType
    <3>2. ASSUME NEW o \in Observations, NEW t, Finding(o, t).algorithm \in Shor
          PROVE  Finding(o, t).targets = PlanTargets(Finding(o, t).purpose)
      <4>1. /\ Finding(o, t).algorithm = o.algorithm /\ Finding(o, t).purpose = o.purpose
            /\ Finding(o, t).targets = MatchingRule(o.algorithm, o.purpose).targets
        BY DEF Finding
      <4> QED
        BY <3>2, <4>1, TargetsAgree
    <3> QED
      BY <2>2, <3>1, <3>2
  <2> QED
    BY <2>1, <2>2 DEF Rated
<1>4. CASE Assess
  <2>1. /\ pc = "assess" /\ pc' = "load" /\ UNCHANGED context
        /\ findings' = [p \in DOMAIN findings |->
               [findings[p] EXCEPT !.severity = AssessedSeverity(findings[p], context)]]
    BY <1>4 DEF Assess, Step
  <2>2. ASSUME NEW p \in DOMAIN findings
        PROVE  /\ findings'[p].algorithm = findings[p].algorithm
               /\ findings'[p].purpose = findings[p].purpose
               /\ findings'[p].confidence = findings[p].confidence
               /\ findings'[p].test = findings[p].test
               /\ findings'[p].targets = findings[p].targets
               /\ findings'[p].severity = AssessedSeverity(findings[p], context)
    <3>1. findings[p] \in FindingType
      BY DEF Inv, TypeOK
    <3> DEFINE s == AssessedSeverity(findings[p], context)
    <3>2. findings'[p] = [findings[p] EXCEPT !.severity = s]
      BY <2>1
    <3> HIDE DEF s
    <3> QED
      BY <3>1, <3>2, AssessedFields DEF s
  <2>3. DOMAIN findings' = DOMAIN findings
    BY <2>1
  <2>4. \A p \in DOMAIN findings' : findings'[p].algorithm \in Shor =>
            /\ findings'[p].targets = PlanTargets(findings'[p].purpose)
            /\ findings'[p].severity = AssessedSeverity(findings'[p], context')
    BY <2>1, <2>2, <2>3, SameAssessment DEF Rated
  <2> QED
    BY <2>1, <2>4 DEF Rated
<1>5. CASE Inline \/ Configured
  <2>1. /\ DOMAIN findings' = DOMAIN findings /\ UNCHANGED context
        /\ \A q \in DOMAIN findings :
              /\ findings'[q].algorithm = findings[q].algorithm
              /\ findings'[q].purpose = findings[q].purpose
              /\ findings'[q].confidence = findings[q].confidence
              /\ findings'[q].test = findings[q].test
              /\ findings'[q].targets = findings[q].targets
              /\ findings'[q].severity = findings[q].severity
    BY <1>5, DecisionEffect DEF Inline, Configured, Step
  <2>2. pc \notin {"read", "analyze", "assess"} /\ pc' # "done"
    BY <1>5 DEF Inline, Configured, Step, Decided
  <2>3. \A p \in DOMAIN findings' : findings'[p].algorithm \in Shor =>
            /\ findings'[p].targets = PlanTargets(findings'[p].purpose)
            /\ findings'[p].severity = AssessedSeverity(findings'[p], context')
    BY <2>1, <2>2, SameAssessment DEF Rated
  <2> QED
    BY <2>2, <2>3 DEF Rated
<1>6. CASE Derive
  <2>1. UNCHANGED <<findings, context>> /\ pc = "derive"
    BY <1>6 DEF Derive, Step
  <2> DEFINE affected == {p \in DOMAIN findings : HndlAffected(findings[p])}
  <2>2. hndl' = [status |-> HndlStatus(affected, context), affected |-> affected]
    BY <1>6 DEF Derive
  <2> HIDE DEF affected
  <2>3. hndl'.status = HndlStatus(hndl'.affected, context')
    BY <2>1, <2>2
  <2> QED
    BY <2>1, <2>3 DEF Rated
<1> QED
  BY <1>2, <1>3, <1>4, <1>5, <1>6 DEF Next, Audit

\* Where the answers of the user make HNDL HIGH, they also make a finding with a
\* confidentiality purpose critical.
LEMMA HighIsCritical ==
    ASSUME NEW f \in FindingType, NEW affected, NEW c,
           HndlStatus(affected, c) = "HIGH", HndlAffected(f), ~f.test
    PROVE  AssessedSeverity(f, c) = Critical
<1>1. HndlRelevant(c)
  BY DEF HndlStatus
<1>2. LongLived(c)
  BY <1>1 DEF HndlRelevant
<1>3. f.algorithm \in Shor /\ f.purpose \in Confidentiality
  BY DEF HndlAffected
<1>4. /\ Points(f.purpose \in Confidentiality, 2) = 2
      /\ Points(f.purpose \in Authenticity, 1) \in {0, 1}
      /\ Points(c.exposure = "public", 1) \in {0, 1}
      /\ Points(LongLived(c), 1) = 1 /\ Points(HndlRelevant(c), 1) = 1
      /\ Points(f.test, 2) = 0
      /\ Points(f.confidence \in {"LOW", "UNKNOWN"}, 1) \in {0, 1}
  BY <1>1, <1>2, <1>3 DEF Points
<1>5. Score(f, c) >= 5
  BY <1>4 DEF Score
<1> QED
  BY <1>3, <1>5 DEF AssessedSeverity

\* The targets of every plan are those of its finding, and HNDL is HIGH only where
\* the findings it lists are critical, for every program, configuration and context
\* (policy.py, migration/engine.py:9-41, risk.py, hndl.py).
THEOREM TablesAlwaysAgree == Spec => []TablesAgree
<1>1. Inv /\ Rated => TablesAgree
  <2> SUFFICES ASSUME Inv, Rated, pc = "done" PROVE TablesAgree
    BY DEF TablesAgree
  <2>1. ASSUME NEW m \in plans PROVE m.targets = findings[m.finding].targets
    <3>1. /\ m.finding \in DOMAIN findings /\ NeedsPlan(findings[m.finding])
          /\ m.targets = PlanTargets(findings[m.finding].purpose)
      BY DEF Inv, Derived
    <3> QED
      BY <3>1 DEF NeedsPlan, Rated
  <2>2. ASSUME hndl.status = "HIGH", NEW p \in hndl.affected
        PROVE  findings[p].test \/ findings[p].severity = Critical
    <3>1. p \in DOMAIN findings /\ HndlAffected(findings[p])
      BY DEF Inv, Derived
    <3>2. /\ findings[p] \in FindingType /\ findings[p].algorithm \in Shor
          /\ HndlStatus(hndl.affected, context) = "HIGH"
          /\ findings[p].severity = AssessedSeverity(findings[p], context)
      BY <2>2, <3>1 DEF Inv, TypeOK, HndlAffected, Rated
    <3> QED
      BY <3>1, <3>2, HighIsCritical
  <2> QED
    BY <2>1, <2>2 DEF TablesAgree
<1> QED
  BY <1>1, RatedInit, RatedStep, Invariance, PTL DEF Spec

-----------------------------------------------------------------------------
(***************************************************************************)
(* The inventory                                                           *)
(***************************************************************************)

\* The findings are those of the calls that were read.
Anchored == pc \notin {"read", "analyze"} => DOMAIN findings = Calls(scanned)

\* Manifests are read once all findings are decided, and an exception is the end.
Late ==
    /\ pc \notin {"derive", "done"} => unparsed = Manifests /\ ~lost
    /\ pc = "done" => unparsed = {} /\ ~lost
    /\ DOMAIN found \subseteq (Manifests \ unparsed) \X Names

\* While nothing changes, what was found is what the manifests so far declare.
FoundSoFar ==
    changes = 0 =>
        /\ lost => \E m \in Manifests : manifest[m].raises
        /\ \A m \in Manifests \ unparsed : ~manifest[m].raises
        /\ DOMAIN found = UNION {{m} \X Declared(manifest[m]) : m \in Manifests \ unparsed}
        /\ \A k \in DOMAIN found : found[k] = LastSpelling(manifest[k[1]], k[2])

\* AssetsCover, of any assets.
Covered(as) ==
    /\ \A p \in DOMAIN findings :
          \E id \in DOMAIN as :
             SameUse(p, as[id].finding) /\ (p = as[id].finding \/ Earlier(p, as[id].finding))
    /\ \A id \in DOMAIN as :
          /\ as[id].finding \in DOMAIN findings
          /\ WellAttributed(as[id].finding, as[id].dependency)
          /\ as[id].dependency # NoDependency =>
                /\ \E k \in DOMAIN found : Dependency(k) = as[id].dependency
                /\ Component(as[id].dependency) \in DOMAIN found
                /\ Component(as[id].dependency)[2] = as[id].dependency.name

InventoryInv ==
    /\ Inv /\ InventoryTypeOK
    /\ Anchored /\ Late /\ FoundSoFar /\ AssetsCover

\* A set of natural numbers has a least element,
LEMMA Least ==
    ASSUME NEW T, T \subseteq Nat, T # {}
    PROVE  \E x \in T : \A y \in T : x <= y
<1>1. PICK R : R = OpToRel(<, Nat)
  OBVIOUS
<1>2. IsWellFoundedOn(R, Nat)
  BY <1>1, NatLessThanWellFounded
<1>3. PICK x \in T : \A y \in T : ~ (<<y, x>> \in R)
  BY <1>2, WFMin
<1>4. ASSUME NEW y \in T PROVE ~ (y < x)
  <2>1. ~ (<<y, x>> \in R)
    BY <1>3
  <2>2. x \in Nat /\ y \in Nat /\ <<y, x>> \in Nat \X Nat
    BY <1>3
  <2>3. y < x => <<y, x>> \in R
    BY <1>1, <2>2 DEF OpToRel
  <2> QED
    BY <2>1, <2>3
<1>5. \A y \in T : x <= y
  BY <1>4
<1> QED
  BY <1>3, <1>5

\* and one of an interval a greatest.
LEMMA Greatest ==
    ASSUME NEW n \in Nat, NEW T, T \subseteq 1..n, T # {}
    PROVE  \E x \in T : \A y \in T : y <= x
<1> DEFINE D == {n - x : x \in T}
<1>1. D \subseteq Nat /\ D # {}
  <2>1. \A x \in T : x \in 1..n
    OBVIOUS
  <2>2. \A x \in 1..n : n - x \in Nat
    OBVIOUS
  <2> QED
    BY <2>1, <2>2
<1>2. PICK d \in D : \A e \in D : d <= e
  <2> HIDE DEF D
  <2> QED
    BY <1>1, Least
<1>3. PICK x \in T : d = n - x
  BY <1>2
<1>4. ASSUME NEW y \in T PROVE y <= x
  <2>1. n - y \in D
    OBVIOUS
  <2>2. n - x <= n - y
    BY <1>2, <1>3, <2>1
  <2>3. x \in 1..n /\ y \in 1..n
    OBVIOUS
  <2> QED
    BY <2>2, <2>3
<1> QED
  BY <1>4

\* The spelling of a declared name is one a manifest may hold.
LEMMA SpellingTyped ==
    ASSUME NEW content \in Contents, NEW name \in Declared(content)
    PROVE  LastSpelling(content, name) \in Spellings /\ name \in Names
<1> DEFINE items == content.items
           own == {i \in DOMAIN items : items[i].name = name}
<1>1. items \in Seq(Items)
  BY InventoryAssumption
<1>2. own \subseteq 1..Len(items) /\ Len(items) \in Nat /\ own # {}
  BY <1>1 DEF Declared
<1>3. \E i \in own : \A j \in own : j <= i
  <2> HIDE DEF own, items
  <2> QED
    BY <1>2, Greatest
<1> DEFINE i == CHOOSE i \in own : \A j \in own : j <= i
<1>4. i \in own
  BY <1>3
<1>5. items[i] \in Items /\ items[i].name = name
  <2> HIDE DEF i
  <2> QED
    BY <1>1, <1>4
<1>6. LastSpelling(content, name) = items[i].spelling
  BY DEF LastSpelling
<1> HIDE DEF items, i
<1> QED
  BY <1>5, <1>6 DEF Items

\* Of the dependencies a call may name, one is first.
LEMMA FirstNamedExists ==
    ASSUME NEW S, S \subseteq Manifests \X Names, S # {}
    PROVE  FirstNamed(S) \in S
<1> DEFINE names == {k[2] : k \in S}
<1>1. names \subseteq Nat /\ names # {}
  BY InventoryAssumption
<1>2. PICK n \in names : \A x \in names : n <= x
  <2> HIDE DEF names
  <2> QED
    BY <1>1, Least
<1> DEFINE rows == {k[1] : k \in {j \in S : j[2] = n}}
<1>3. rows \subseteq Nat /\ rows # {}
  BY <1>2, InventoryAssumption DEF Manifests
<1>4. PICK m \in rows : \A x \in rows : m <= x
  <2> HIDE DEF rows
  <2> QED
    BY <1>3, Least
<1>5. PICK k \in S : k[1] = m /\ k[2] = n
  BY <1>4
<1>6. ASSUME NEW j \in S PROVE k[2] < j[2] \/ (k[2] = j[2] /\ k[1] <= j[1])
  <2>1. j[2] \in names /\ (j[2] = n => j[1] \in rows)
    OBVIOUS
  <2>2. n <= j[2] /\ (j[2] = n => m <= j[1])
    BY <1>2, <1>4, <2>1
  <2>3. j[2] \in Nat /\ n \in Nat
    BY <1>1, <2>1
  <2> QED
    BY <1>5, <2>2, <2>3
<1> QED
  BY <1>5, <1>6 DEF FirstNamed

\* The last of several manifests that declare a name.
LEMMA ComponentExists ==
    ASSUME InventoryTypeOK, NEW k \in DOMAIN found
    PROVE  /\ Component(Dependency(k)) \in DOMAIN found
           /\ Component(Dependency(k))[2] = k[2]
<1> DEFINE name == Dependency(k).name
           own == {j \in DOMAIN found : j[2] = name}
           rows == {j[1] : j \in own}
<1>1. name = k[2] /\ k \in own
  BY DEF Dependency
<1>2. rows \subseteq 1..LastManifest /\ rows # {} /\ LastManifest \in Nat
  BY <1>1, InventoryAssumption DEF InventoryTypeOK, Manifests
<1>3. PICK m \in rows : \A x \in rows : x <= m
  <2> HIDE DEF rows
  <2> QED
    BY <1>2, Greatest
<1>4. \E c \in own : \A j \in own : j[1] <= c[1]
  BY <1>3
<1>5. (CHOOSE c \in own : \A j \in own : j[1] <= c[1]) \in own
  BY <1>4
<1>6. Component(Dependency(k)) \in own
  BY <1>5 DEF Component
<1> QED
  BY <1>1, <1>6

\* The last of the findings with one identity.
LEMMA MakerExists ==
    ASSUME InventoryInv, pc = "derive", NEW p \in DOMAIN findings
    PROVE  /\ Maker(Identity(p)) \in DOMAIN findings
           /\ Identity(Maker(Identity(p))) = Identity(p)
           /\ p = Maker(Identity(p)) \/ Earlier(p, Maker(Identity(p)))
<1> DEFINE id == Identity(p)
           own == {q \in DOMAIN findings : Identity(q) = id}
           f == p[1]
           pieces == {q[2] : q \in own}
<1>1. DOMAIN findings = Calls(scanned) /\ Inv
  BY DEF InventoryInv, Anchored
<1>2. \A q \in own : q[1] = f
  BY DEF Identity
<1>3. \A q \in DOMAIN findings :
        /\ q \in Positions
        /\ q[2] \in 1..Len(scanned[q[1]]) /\ Len(scanned[q[1]]) \in Nat
        /\ q[3] \in 1..Len(scanned[q[1]][q[2]].calls)
        /\ Len(scanned[q[1]][q[2]].calls) \in Nat
  BY <1>1, CallsTyped
<1>4. pieces \subseteq 1..Len(scanned[f]) /\ pieces # {} /\ Len(scanned[f]) \in Nat
  BY <1>2, <1>3
<1>5. PICK l \in pieces : \A x \in pieces : x <= l
  <2> HIDE DEF pieces
  <2> QED
    BY <1>4, Greatest
<1> DEFINE columns == {q[3] : q \in {r \in own : r[2] = l}}
<1>6. PICK c \in columns : \A x \in columns : x <= c
  <2>1. /\ columns \subseteq 1..Len(scanned[f][l].calls) /\ columns # {}
        /\ Len(scanned[f][l].calls) \in Nat
    BY <1>2, <1>3, <1>5
  <2> HIDE DEF columns
  <2> QED
    BY <2>1, Greatest
<1>7. \E m \in own : \A q \in own \ {m} : Earlier(q, m)
  <2>1. PICK m \in own : m[2] = l /\ m[3] = c
    BY <1>6
  <2>2. ASSUME NEW q \in own, q # m PROVE Earlier(q, m)
    <3>1. q[1] = m[1] /\ q \in Positions /\ m \in Positions
      BY <1>2, <1>3
    <3>2. q[2] <= m[2] /\ q[2] \in Nat /\ m[2] \in Nat
      BY <1>5, <2>1, <3>1 DEF Positions
    <3>3. CASE q[2] = m[2]
      <4>1. q[3] # m[3]
        BY <2>2, <3>1, <3>3 DEF Positions
      <4>2. q[3] <= m[3] /\ q[3] \in Nat /\ m[3] \in Nat
        BY <1>6, <2>1, <3>1, <3>3 DEF Positions
      <4> QED
        BY <3>1, <3>3, <4>1, <4>2 DEF Earlier
    <3>4. CASE q[2] # m[2]
      BY <3>1, <3>2, <3>4 DEF Earlier
    <3> QED
      BY <3>3, <3>4
  <2> QED
    BY <2>2
<1> DEFINE M == CHOOSE x \in own : \A q \in own \ {x} : Earlier(q, x)
<1>8. M \in own /\ \A q \in own \ {M} : Earlier(q, M)
  BY <1>7
<1>9. Maker(id) = M
  BY DEF Maker
<1>10. p \in own
  OBVIOUS
<1> QED
  BY <1>8, <1>9, <1>10

\* The dependency of a finding is declared, or there is none, and it is chosen as
\* WellAttributed says.
LEMMA AttributionGood ==
    ASSUME InventoryTypeOK, NEW p
    PROVE  /\ WellAttributed(p, Attribution(p))
           /\ Attribution(p) \in Dependencies
           /\ Attribution(p) # NoDependency =>
                 \E k \in DOMAIN found : Dependency(k) = Attribution(p)
<1> DEFINE called == CalledDependencies(p)
           library == CallAt(scanned, p).library
<1>1. /\ DOMAIN found \subseteq Manifests \X Names
      /\ \A k \in DOMAIN found : found[k] \in Spellings
  BY DEF InventoryTypeOK
<1>2. \A k \in DOMAIN found :
        /\ Dependency(k).name = k[2] /\ k[2] \in Names
        /\ Dependency(k) \in [name : Names, spelling : Spellings]
  BY <1>1 DEF Dependency
<1>3. called = {k \in DOMAIN found : library # "other" /\ LibraryOf[k[2]] = library}
  BY DEF CalledDependencies
<1>4. \A d \in [name : Names, spelling : Spellings] : d # NoDependency
  BY InventoryAssumption DEF NoDependency
<1>5. CASE called # {}
  <2> DEFINE k == FirstNamed(called)
  <2>1. called \subseteq Manifests \X Names
    BY <1>1, <1>3
  <2>2. k \in called
    <3> HIDE DEF called
    <3> QED
      BY <1>5, <2>1, FirstNamedExists
  <2>3. Attribution(p) = Dependency(k)
    BY <1>5 DEF Attribution
  <2>4. k \in DOMAIN found /\ LibraryOf[k[2]] = library
    BY <1>3, <2>2
  <2> HIDE DEF k
  <2>5. WellAttributed(p, Attribution(p))
    BY <1>2, <1>4, <1>5, <2>3, <2>4 DEF WellAttributed
  <2> QED
    BY <1>2, <2>3, <2>4, <2>5 DEF Dependencies
<1>6. CASE called = {} /\ \E d \in CryptoDependencies : CryptoDependencies = {d}
  <2>1. Attribution(p) = CHOOSE d \in CryptoDependencies : TRUE
    BY <1>6 DEF Attribution
  <2>2. Attribution(p) \in CryptoDependencies /\ CryptoDependencies \subseteq {Attribution(p)}
    BY <1>6, <2>1
  <2>3. PICK k \in DOMAIN found : Dependency(k) = Attribution(p)
    BY <2>2 DEF CryptoDependencies
  <2>4. WellAttributed(p, Attribution(p))
    BY <1>6 DEF WellAttributed
  <2> QED
    BY <1>2, <2>3, <2>4 DEF Dependencies
<1>7. CASE called = {} /\ ~ \E d \in CryptoDependencies : CryptoDependencies = {d}
  <2>1. Attribution(p) = NoDependency
    BY <1>7 DEF Attribution
  <2>2. \A e \in CryptoDependencies : \E f \in CryptoDependencies : f # e
    BY <1>7
  <2>3. WellAttributed(p, Attribution(p))
    BY <1>7, <2>1, <2>2 DEF WellAttributed
  <2> QED
    BY <2>1, <2>3 DEF Dependencies
<1> QED
  BY <1>5, <1>6, <1>7

\* The assets as they are made.
LEMMA AssetsGood ==
    ASSUME InventoryInv, pc = "derive"
    PROVE  /\ \A id \in DOMAIN Assets :
                 Assets[id] \in [finding : Positions, dependency : Dependencies]
           /\ \A p \in DOMAIN findings :
                 \E id \in DOMAIN Assets :
                    LET q == Assets[id].finding
                    IN  SameUse(p, q) /\ (p = q \/ Earlier(p, q))
           /\ \A id \in DOMAIN Assets :
                 LET a == Assets[id]
                 IN  /\ a.finding \in DOMAIN findings
                     /\ WellAttributed(a.finding, a.dependency)
                     /\ a.dependency # NoDependency =>
                          \E k \in DOMAIN found : Dependency(k) = a.dependency
<1> DEFINE ids == {Identity(p) : p \in DOMAIN findings}
           asset(id) == [finding |-> Maker(id), dependency |-> Attribution(Maker(id))]
<1>1. DOMAIN Assets = ids /\ \A id \in ids : Assets[id] = asset(id)
  BY DEF Assets
<1>2. ASSUME NEW id \in ids
      PROVE  /\ asset(id).finding \in DOMAIN findings /\ asset(id).finding \in Positions
             /\ asset(id).dependency = Attribution(asset(id).finding)
             /\ asset(id) \in [finding : Positions, dependency : Dependencies]
  <2>1. Maker(id) \in DOMAIN findings
    BY MakerExists
  <2>2. Maker(id) \in Positions
    BY <2>1 DEF InventoryInv, Inv, TypeOK
  <2>3. Attribution(Maker(id)) \in Dependencies
    BY AttributionGood DEF InventoryInv
  <2> QED
    BY <2>1, <2>2, <2>3
<1>3. ASSUME NEW p \in DOMAIN findings
      PROVE  LET q == asset(Identity(p)).finding
             IN  SameUse(p, q) /\ (p = q \/ Earlier(p, q))
  <2> DEFINE q == Maker(Identity(p))
  <2>1. Identity(q) = Identity(p) /\ (p = q \/ Earlier(p, q))
    BY MakerExists
  <2>2. SameUse(p, q)
    BY <2>1 DEF SameUse, Identity
  <2> QED
    BY <2>1, <2>2
<1>4. ASSUME NEW id \in ids
      PROVE  /\ WellAttributed(asset(id).finding, asset(id).dependency)
             /\ asset(id).dependency # NoDependency =>
                   \E k \in DOMAIN found : Dependency(k) = asset(id).dependency
  BY <1>2, AttributionGood DEF InventoryInv
<1>5. \A p \in DOMAIN findings : Identity(p) \in ids
  OBVIOUS
<1> HIDE DEF ids, asset
<1>6. \A id \in DOMAIN Assets :
        Assets[id] \in [finding : Positions, dependency : Dependencies]
  BY <1>1, <1>2
<1>7. \A p \in DOMAIN findings :
        \E id \in DOMAIN Assets :
            LET q == Assets[id].finding IN SameUse(p, q) /\ (p = q \/ Earlier(p, q))
  <2> TAKE p \in DOMAIN findings
  <2>1. Identity(p) \in DOMAIN Assets /\ Assets[Identity(p)] = asset(Identity(p))
    BY <1>1, <1>5
  <2> QED
    BY <1>3, <2>1
<1> QED
  BY <1>1, <1>2, <1>4, <1>6, <1>7

\* An audit starts with all its manifests before it.
LEMMA InventoryInvInit == InventoryInit => InventoryInv
<1> SUFFICES ASSUME InventoryInit PROVE InventoryInv
  OBVIOUS
<1>1. Inv /\ pc = "read"
  BY InvInit DEF InventoryInit, Init
<1>2. DOMAIN found = {} /\ DOMAIN assets = {} /\ unparsed = Manifests /\ lost = FALSE
  BY DEF InventoryInit
<1>3. InventoryTypeOK
  BY <1>1, <1>2 DEF Inv, InventoryTypeOK, InventoryInit
<1>4. Anchored /\ Late /\ AssetsCover
  BY <1>1, <1>2 DEF Anchored, Late, AssetsCover
<1>5. FoundSoFar
  BY <1>2 DEF FoundSoFar
<1> QED
  BY <1>1, <1>3, <1>4, <1>5 DEF InventoryInv

\* What the inventory says does not depend on the steps before it.
LEMMA InvEarliest == InventoryInv /\ Earliest => InventoryInv'
<1> SUFFICES ASSUME InventoryInv, Earliest PROVE InventoryInv'
  OBVIOUS
<1>1. UNCHANGED inventory /\ UNCHANGED <<world, context>>
      /\ pc \notin {"derive", "done"} /\ pc' # "done"
  BY DEF Earliest, ReadSource, Analyze, Assess, LoadConfig, ConfigRaises, Inline, Configured,
     Step, Decided
<1>2. Inv'
  BY InvRead, InvAnalyze, InvAssess, InvLoad, InvConfigRaises, InvDecide
     DEF InventoryInv, Earliest
<1>3. unparsed = Manifests /\ ~lost
  BY <1>1 DEF InventoryInv, Late
<1>4. InventoryTypeOK'
  BY <1>1, <1>2 DEF InventoryInv, InventoryTypeOK, inventory, Inv
<1>5. Anchored'
  <2>1. CASE ReadSource
    BY <2>1 DEF ReadSource, Anchored
  <2>2. CASE Analyze
    BY <2>2 DEF Analyze, Anchored, Calls, CallsOf
  <2>3. CASE Assess
    BY <2>3 DEF Assess, Step, InventoryInv, Anchored, Calls, CallsOf
  <2>4. CASE LoadConfig \/ ConfigRaises
    <3>1. UNCHANGED <<findings, scanned>> /\ pc = "load"
      BY <2>4 DEF LoadConfig, ConfigRaises, Step
    <3> QED
      BY <3>1 DEF InventoryInv, Anchored, Calls, CallsOf
  <2>5. CASE Inline \/ Configured
    <3>1. DOMAIN findings' = DOMAIN findings /\ UNCHANGED scanned /\ pc \in {"inline", "config"}
      BY <2>5 DEF Inline, Configured, Step, SuppressInline, SuppressConfigured, Suppress
    <3> QED
      BY <3>1 DEF InventoryInv, Anchored, Calls, CallsOf
  <2> QED
    BY <2>1, <2>2, <2>3, <2>4, <2>5 DEF Earliest
<1>6. Late'
  BY <1>1, <1>3 DEF InventoryInv, Late, inventory
<1>7. FoundSoFar'
  BY <1>1 DEF InventoryInv, FoundSoFar, inventory, world
<1>8. AssetsCover'
  BY <1>1 DEF AssetsCover
<1> QED
  BY <1>2, <1>4, <1>5, <1>6, <1>7, <1>8 DEF InventoryInv

\* A manifest adds what it declares, and touches nothing of the others.
LEMMA InvParse == InventoryInv /\ ParseManifest => InventoryInv'
<1> SUFFICES ASSUME InventoryInv, ParseManifest PROVE InventoryInv'
  OBVIOUS
<1>1. PICK m \in unparsed : ~manifest[m].raises /\ found' = Noted(m) /\ unparsed' = unparsed \ {m}
  BY DEF ParseManifest
<1>2. /\ pc = "derive" /\ UNCHANGED <<vars, manifest, assets, lost>> /\ ~lost
  BY DEF ParseManifest, Parse, Step, vars
<1> DEFINE own == {m} \X Declared(manifest[m])
<1>3. /\ m \in Manifests /\ manifest[m] \in Contents
      /\ DOMAIN found \subseteq (Manifests \ unparsed) \X Names
      /\ \A k \in DOMAIN found : found[k] \in Spellings /\ k[1] # m
  BY DEF InventoryInv, InventoryTypeOK, Late
<1>4. /\ DOMAIN found' = DOMAIN found \cup own
      /\ \A k \in DOMAIN found : found'[k] = found[k]
      /\ \A k \in own : found'[k] = LastSpelling(manifest[m], k[2])
  BY <1>1, <1>3 DEF Noted
<1>5. \A k \in own : LastSpelling(manifest[m], k[2]) \in Spellings /\ k \in {m} \X Names
  BY <1>3, SpellingTyped
<1>6. Inv'
  BY <1>2, InvWorld DEF InventoryInv
<1>7. InventoryTypeOK'
  <2>1. DOMAIN found' \subseteq Manifests \X Names
    BY <1>3, <1>4, <1>5
  <2>2. found' \in [DOMAIN found' -> Spellings]
    <3>1. \A k \in DOMAIN found' : found'[k] \in Spellings
      BY <1>3, <1>4, <1>5
    <3>2. found' = [k \in DOMAIN found' |-> found'[k]]
      BY <1>1 DEF Noted
    <3> QED
      BY <3>1, <3>2
  <2> QED
    BY <1>1, <1>2, <1>6, <2>1, <2>2 DEF InventoryInv, InventoryTypeOK, Inv
<1>8. Anchored' /\ AssetsCover'
  BY <1>2 DEF InventoryInv, Anchored, AssetsCover, Calls, CallsOf, vars
<1>9. Late'
  BY <1>1, <1>2, <1>3, <1>4, <1>5 DEF Late, vars
<1>10. FoundSoFar'
  <2> SUFFICES ASSUME changes' = 0 PROVE FoundSoFar'
    BY DEF FoundSoFar
  <2>1. changes = 0
    BY <1>2 DEF vars, world
  <2>2. /\ \A r \in Manifests \ unparsed : ~manifest[r].raises
        /\ DOMAIN found =
             UNION {{r} \X Declared(manifest[r]) : r \in Manifests \ unparsed}
        /\ \A k \in DOMAIN found : found[k] = LastSpelling(manifest[k[1]], k[2])
    BY <2>1 DEF InventoryInv, FoundSoFar
  <2>3. Manifests \ unparsed' = (Manifests \ unparsed) \cup {m} /\ manifest' = manifest
    BY <1>1, <1>2, <1>3
  <2>4. \A r \in Manifests \ unparsed' : ~manifest'[r].raises
    BY <1>1, <2>2, <2>3
  <2>5. DOMAIN found' =
          UNION {{r} \X Declared(manifest[r]) : r \in Manifests \ unparsed'}
    <3> DEFINE declared(S) == {{r} \X Declared(manifest[r]) : r \in S}
    <3>1. \A S : declared(S \cup {m}) = declared(S) \cup {own}
      OBVIOUS
    <3>2. \A A, x : UNION (A \cup {x}) = (UNION A) \cup x
      OBVIOUS
    <3>3. DOMAIN found = UNION declared(Manifests \ unparsed)
      BY <2>2
    <3> HIDE DEF declared, own
    <3>4. DOMAIN found' = UNION declared(Manifests \ unparsed')
      BY <1>4, <2>3, <3>1, <3>2, <3>3
    <3> QED
      BY <3>4 DEF declared
  <2>6. \A k \in DOMAIN found' : found'[k] = LastSpelling(manifest[k[1]], k[2])
    BY <1>4, <2>2
  <2> QED
    BY <1>2, <2>3, <2>4, <2>5, <2>6 DEF FoundSoFar
<1> QED
  BY <1>6, <1>7, <1>8, <1>9, <1>10 DEF InventoryInv

\* An exception ends the audit as it is.
LEMMA InvRaises == InventoryInv /\ ManifestRaises => InventoryInv'
<1> SUFFICES ASSUME InventoryInv, ManifestRaises PROVE InventoryInv'
  OBVIOUS
<1>1. PICK m \in unparsed : manifest[m].raises
  BY DEF ManifestRaises
<1>2. /\ pc = "derive" /\ UNCHANGED <<vars, manifest, unparsed, found, assets>> /\ lost' = TRUE
  BY DEF ManifestRaises, Parse, Step, vars
<1>3. Inv'
  BY <1>2, InvWorld DEF InventoryInv
<1>4. InventoryTypeOK'
  BY <1>2, <1>3 DEF InventoryInv, InventoryTypeOK, Inv
<1>5. Anchored' /\ AssetsCover' /\ Late'
  BY <1>2 DEF InventoryInv, Anchored, AssetsCover, Late, Calls, CallsOf, vars
<1>6. m \in Manifests
  BY DEF InventoryInv, InventoryTypeOK
<1>7. FoundSoFar'
  BY <1>1, <1>2, <1>6 DEF InventoryInv, FoundSoFar, vars, world
<1> QED
  BY <1>3, <1>4, <1>5, <1>7 DEF InventoryInv

\* As long as findings and dependencies stay, so does what is said of assets.
LEMMA CoverStays ==
    ASSUME UNCHANGED <<scanned, findings, found>>, NEW as, assets' = as, Covered(as)
    PROVE  AssetsCover'
<1>1. /\ CryptoDependencies' = CryptoDependencies
      /\ \A p : CalledDependencies(p)' = CalledDependencies(p)
      /\ \A p : CallAt(scanned, p)' = CallAt(scanned, p)
      /\ \A d : Component(d)' = Component(d)
      /\ \A k : Dependency(k)' = Dependency(k)
  BY DEF CryptoDependencies, CalledDependencies, CallAt, Dependency, Component
<1>2. ASSUME NEW p, NEW d, WellAttributed(p, d) PROVE WellAttributed(p, d)'
  BY <1>1, <1>2 DEF WellAttributed
<1>3. ASSUME NEW p \in DOMAIN findings'
      PROVE  \E id \in DOMAIN assets' :
                (LET q == assets[id].finding IN SameUse(p, q) /\ (p = q \/ Earlier(p, q)))'
  <2>1. \A q : LineOf(q)' = LineOf(q)
    BY DEF LineOf
  <2> QED
    BY <2>1 DEF Covered, SameUse, Earlier
<1>4. ASSUME NEW id \in DOMAIN assets'
      PROVE  (LET a == assets[id]
              IN  /\ a.finding \in DOMAIN findings
                  /\ WellAttributed(a.finding, a.dependency)
                  /\ a.dependency # NoDependency =>
                       /\ \E k \in DOMAIN found : Dependency(k) = a.dependency
                       /\ Component(a.dependency) \in DOMAIN found
                       /\ Component(a.dependency)[2] = a.dependency.name)'
  <2>1. PICK p, d : p = as[id].finding /\ d = as[id].dependency
    OBVIOUS
  <2>2. assets'[id].finding = p /\ assets'[id].dependency = d
    BY <2>1
  <2>3. /\ p \in DOMAIN findings /\ WellAttributed(p, d)
        /\ d # NoDependency =>
              /\ \E k \in DOMAIN found : Dependency(k) = d
              /\ Component(d) \in DOMAIN found /\ Component(d)[2] = d.name
    BY <2>1 DEF Covered
  <2>4. WellAttributed(p, d)'
    BY <1>2, <2>3
  <2>5. WellAttributed(assets[id].finding, assets[id].dependency)'
    BY <2>2, <2>4 DEF WellAttributed
  <2>6. d # NoDependency =>
          /\ \E k \in DOMAIN found' : Dependency(k)' = d
          /\ Component(d)' \in DOMAIN found' /\ Component(d)'[2] = d.name
    BY <1>1, <2>3
  <2>7. Component(assets[id].dependency)' = Component(d)'
    BY <2>2 DEF Component
  <2> QED
    BY <2>2, <2>3, <2>5, <2>6, <2>7
<1> QED
  BY <1>3, <1>4 DEF AssetsCover

\* The last step makes the assets.
LEMMA InvDeriveAll == InventoryInv /\ DeriveAll => InventoryInv'
<1> SUFFICES ASSUME InventoryInv, DeriveAll PROVE InventoryInv'
  OBVIOUS
<1>1. /\ pc = "derive" /\ pc' = "done" /\ unparsed = {} /\ ~lost /\ assets' = Assets
      /\ UNCHANGED <<world, scanned, findings, manifest, unparsed, found, lost>>
  BY DEF DeriveAll, Derive, Step
<1>2. Inv'
  BY InvDerive DEF InventoryInv, DeriveAll
<1>3. InventoryTypeOK'
  <2>1. \A id \in DOMAIN Assets :
           Assets[id] \in [finding : Positions, dependency : Dependencies]
    BY <1>1, AssetsGood
  <2>2. assets' = [id \in DOMAIN assets' |-> assets'[id]]
    BY <1>1 DEF Assets
  <2>3. assets' \in [DOMAIN assets' -> [finding : Positions, dependency : Dependencies]]
    BY <1>1, <2>1, <2>2
  <2> QED
    BY <1>1, <1>2, <2>3 DEF InventoryInv, InventoryTypeOK, Inv
<1>4. Anchored' /\ Late' /\ FoundSoFar'
  BY <1>1 DEF InventoryInv, Anchored, Late, FoundSoFar, Calls, CallsOf, world
<1>5. AssetsCover'
  <2>1. \A k \in DOMAIN found :
          Component(Dependency(k)) \in DOMAIN found /\ Component(Dependency(k))[2] = k[2]
    BY ComponentExists DEF InventoryInv
  <2>2. \A k : Dependency(k).name = k[2]
    BY DEF Dependency
  <2>3. Covered(Assets)
    BY <1>1, <2>1, <2>2, AssetsGood DEF Covered
  <2>4. PICK as : as = Assets
    OBVIOUS
  <2> QED
    BY <1>1, <2>3, <2>4, CoverStays
<1> QED
  BY <1>2, <1>3, <1>4, <1>5 DEF InventoryInv

\* What others do changes nothing the inventory is made of, once it is made.
LEMMA InvOutside ==
    InventoryInv /\ (Outside \/ EditManifest \/ Ended \/ UNCHANGED allVars) => InventoryInv'
<1> SUFFICES ASSUME InventoryInv, Outside \/ EditManifest \/ Ended \/ UNCHANGED allVars
             PROVE  InventoryInv'
  OBVIOUS
<1>1. CASE Ended \/ UNCHANGED allVars
  <2>1. UNCHANGED <<vars, inventory>>
    BY <1>1 DEF Ended, allVars
  <2>2. Inv'
    BY <2>1, InvWorld DEF InventoryInv
  <2>3. InventoryTypeOK' /\ Anchored' /\ Late' /\ FoundSoFar'
    BY <2>1, <2>2 DEF InventoryInv, InventoryTypeOK, Inv, Anchored, Late, FoundSoFar,
       Calls, CallsOf, vars, world, inventory
  <2>4. AssetsCover'
    <3>1. CASE pc # "done"
      BY <2>1, <3>1 DEF AssetsCover, vars
    <3>2. CASE pc = "done"
      <4>1. Covered(assets)
        BY <3>2 DEF InventoryInv, AssetsCover, Covered
      <4>2. PICK as : as = assets
        OBVIOUS
      <4> QED
        BY <2>1, <4>1, <4>2, CoverStays DEF vars, inventory
    <3> QED
      BY <3>1, <3>2
  <2> QED
    BY <2>2, <2>3, <2>4 DEF InventoryInv
<1>2. CASE Outside \/ EditManifest
  <2>1. /\ pc # "done" /\ changes' = changes + 1
        /\ UNCHANGED <<context, pc, unread, scanned, findings, configured, todo, log, result>>
        /\ UNCHANGED <<unparsed, found, assets, lost>>
    BY <1>2 DEF Outside, EditManifest, EditFile, EditConfig, Midnight, Change, inventory
  <2>2. changes \in Nat
    BY PipelineAssumption DEF InventoryInv, Inv, TypeOK
  <2>3. Inv'
    <3>1. CASE Outside
      BY <3>1, InvWorld DEF InventoryInv, Outside
    <3>2. CASE EditManifest
      <4>1. UNCHANGED <<text, config, day>> /\ changes < MaxChanges
        BY <3>2 DEF EditManifest, Change
      <4>2. changes' \in 0..MaxChanges
        BY <2>1, <2>2, <4>1, PipelineAssumption
      <4>3. TypeOK'
        BY <2>1, <4>1, <4>2 DEF InventoryInv, Inv, TypeOK, result
      <4> QED
        BY <2>1, <4>3 DEF InventoryInv, Inv, Fresh, LogAgrees, Derived, Suppressed, result
    <3> QED
      BY <1>2, <3>1, <3>2
  <2>4. manifest' \in [Manifests -> Contents]
    BY <1>2 DEF Outside, EditManifest, inventory, InventoryInv, InventoryTypeOK
  <2>5. InventoryTypeOK'
    BY <2>1, <2>3, <2>4 DEF InventoryInv, InventoryTypeOK, Inv
  <2>6. Anchored' /\ Late' /\ AssetsCover'
    BY <2>1 DEF InventoryInv, Anchored, Late, AssetsCover, Calls, CallsOf
  <2>7. FoundSoFar'
    BY <2>1, <2>2 DEF FoundSoFar
  <2> QED
    BY <2>3, <2>5, <2>6, <2>7 DEF InventoryInv
<1> QED
  BY <1>1, <1>2

\* The invariant of the inventory.
LEMMA InventoryInvariance == InventorySpec => []InventoryInv
<1>1. InventoryInv /\ [InventoryNext]_allVars => InventoryInv'
  BY InvEarliest, InvParse, InvRaises, InvDeriveAll, InvOutside DEF InventoryNext, FullAudit
<1> QED
  BY <1>1, InventoryInvInit, PTL DEF InventorySpec

\* With manifests and assets it is still the audit: every step is one of
\* AuditPipeline, where an edit of a manifest is one that leaves the text of a file
\* as it is, or changes nothing AuditPipeline speaks of.
THEOREM InventoryImplementsAudit == InventorySpec => Init /\ [][Next]_vars
<1>1. InventoryInit => Init
  BY DEF InventoryInit
<1>2. ASSUME InventoryInv, [InventoryNext]_allVars PROVE [Next]_vars
  <2>1. CASE Earliest \/ DeriveAll
    BY <2>1 DEF Earliest, DeriveAll, Next, Audit
  <2>2. CASE ParseManifest \/ ManifestRaises
    BY <2>2 DEF ParseManifest, ManifestRaises, Parse, Step, vars
  <2>3. CASE Outside
    BY <2>3 DEF Outside, Next
  <2>4. CASE EditManifest
    <3>1. Change /\ UNCHANGED <<text, config, day>>
      BY <2>4 DEF EditManifest
    <3>2. PICK f \in Files : TRUE
      BY PipelineAssumption
    <3>3. text \in [Files -> Texts]
      BY <1>2 DEF InventoryInv, Inv, TypeOK
    <3>4. text[f] \in Texts /\ text = [text EXCEPT ![f] = text[f]]
      BY <3>3
    <3>5. EditFile
      BY <3>1, <3>4 DEF EditFile
    <3> QED
      BY <3>5 DEF Next
  <2>5. CASE Ended \/ UNCHANGED allVars
    BY <2>5 DEF Ended, allVars
  <2> QED
    BY <1>2, <2>1, <2>2, <2>3, <2>4, <2>5 DEF InventoryNext, FullAudit
<1> QED
  BY <1>1, <1>2, InventoryInvariance, PTL DEF InventorySpec

\* Every variable of the whole audit keeps to its type: an asset is made of a
\* finding's position and of a declared dependency or none.
THEOREM InventoryTyped == InventorySpec => []InventoryTypeOK
<1>1. InventoryInv => InventoryTypeOK
  BY DEF InventoryInv
<1> QED
  BY <1>1, InventoryInvariance, PTL

\* While nothing changes, the configuration decides whether the audit gets past it.
Shaped ==
    changes = 0 =>
        /\ pc = "raised" => config.form = "misshapen"
        /\ Deciding => config.form # "misshapen"

LEMMA ShapedAlways == Init /\ [][Next]_vars => []Shaped
<1>1. Init => Shaped
  BY DEF Init, Shaped, Deciding
<1>2. Inv /\ Shaped /\ [Next]_vars => Shaped'
  <2> SUFFICES ASSUME Inv, Shaped, [Next]_vars PROVE Shaped'
    OBVIOUS
  <2>1. CASE EditFile \/ EditConfig \/ Midnight
    <3>1. changes' # 0
      BY <2>1, PipelineAssumption DEF EditFile, EditConfig, Midnight, Change, Inv, TypeOK
    <3> QED
      BY <3>1 DEF Shaped
  <2>2. CASE Audit
    <3>1. UNCHANGED <<config, changes>>
      BY <2>2 DEF Audit, ReadSource, Analyze, Assess, LoadConfig, ConfigRaises, Inline,
         Configured, Derive, Step, world
    <3>2. \/ pc' \notin {"raised", "inline", "config", "derive", "done"}
          \/ pc = "load" /\ pc' = "raised" /\ config.form = "misshapen"
          \/ pc = "load" /\ pc' # "raised" /\ config.form # "misshapen"
          \/ Deciding /\ pc' # "raised"
      BY <2>2 DEF Audit, ReadSource, Analyze, Assess, LoadConfig, ConfigRaises, Inline,
         Configured, Derive, Decided, Step, Deciding
    <3> QED
      BY <3>1, <3>2 DEF Shaped, Deciding
  <2>3. CASE Finished \/ UNCHANGED vars
    BY <2>3 DEF Finished, vars, world, Shaped, Deciding
  <2> QED
    BY <2>1, <2>2, <2>3 DEF Next
<1> QED
  BY <1>1, <1>2, Invariance, PTL

\* However the manifests follow each other, change or fail, no finding is without
\* an asset and no asset without a finding, and a call that names the library of a
\* declared dependency is attributed to that one; and an undisturbed audit misses no
\* dependency, or is lost through the fault of a manifest or of the configuration.
THEOREM InventoryAlwaysExact == InventorySpec => []InventoryExact
<1>1. InventoryInv /\ Shaped => InventoryExact
  <2> SUFFICES ASSUME InventoryInv, Shaped PROVE NoneMissed
    BY DEF InventoryInv, InventoryExact
  <2>1. pc = "done" => unparsed = {}
    BY DEF InventoryInv, Late
  <2> QED
    BY <2>1 DEF InventoryInv, FoundSoFar, NoneMissed, DeclaredNow, Shaped, Deciding
<1> QED
  BY <1>1, InventoryImplementsAudit, ShapedAlways, InventoryInvariance, PTL
=============================================================================
