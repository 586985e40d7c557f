-------------------------------- MODULE Policy --------------------------------
(***************************************************************************)
(* The tables and pure functions that rate a finding: policy.py with the   *)
(* rules of rules/quantumguard-rules.json, risk.py, the targets of         *)
(* migration/engine.py and the status of hndl.py.  Algorithms go by the    *)
(* names algorithm_display gives them.                                     *)
(***************************************************************************)
EXTENDS Integers, FiniteSets

Purposes == {"SIGNATURE", "KEY_ESTABLISHMENT", "ENCRYPTION", "HASHING", "MAC",
             "KDF", "CERTIFICATE", "UNKNOWN"}
Confidentiality == {"KEY_ESTABLISHMENT", "ENCRYPTION"}
Authenticity == {"SIGNATURE", "CERTIFICATE"}

\* Severities in the order of severity_rank.
Info == 0
Low == 1
Medium == 2
High == 3
Critical == 4
Severities == Info..Critical

Kem == {"ML-KEM"}
Signers == {"ML-DSA", "SLH-DSA"}

Shor == {"RSA", "ECDSA", "ECDH", "X25519", "X448", "finite-field DH", "EdDSA"}
Pqc == Kem \cup Signers
Insecure == {"TLS-legacy", "TLS-insecure"}
Symmetric == {"SHA-2/SHA-3", "HMAC"}
Algorithms == Shor \cup Pqc \cup Insecure \cup Symmetric \cup {"TLS"}

Rule(id, algorithm, purposes, targets) ==
    [id |-> id, algorithm |-> algorithm, purposes |-> purposes, targets |-> targets]

Abstention == Rule("QG-UNKNOWN-CRYPTO", "*", {"UNKNOWN"}, {})

Rules == {
    Rule("QG-RSA-SIGNATURE", "RSA", {"SIGNATURE"}, Signers),
    Rule("QG-RSA-KEY-TRANSPORT", "RSA", Confidentiality, Kem),
    Rule("QG-ECDSA-SIGNATURE", "ECDSA", Authenticity, Signers),
    Rule("QG-ECDH-KEY-ESTABLISHMENT", "ECDH", {"KEY_ESTABLISHMENT"}, Kem),
    Rule("QG-X25519-KEY-ESTABLISHMENT", "X25519", {"KEY_ESTABLISHMENT"}, Kem),
    Rule("QG-X448-KEY-ESTABLISHMENT", "X448", {"KEY_ESTABLISHMENT"}, Kem),
    Rule("QG-DH-KEY-ESTABLISHMENT", "finite-field DH", {"KEY_ESTABLISHMENT"}, Kem),
    Rule("QG-EDDSA-SIGNATURE", "EdDSA", Authenticity, Signers),
    Rule("QG-ML-KEM", "ML-KEM", Confidentiality, {}),
    Rule("QG-ML-DSA", "ML-DSA", Authenticity, {}),
    Rule("QG-SLH-DSA", "SLH-DSA", Authenticity, {}),
    Rule("QG-SYMMETRIC-HASH", "SHA-2/SHA-3", {"HASHING", "KDF"}, {}),
    Rule("QG-HMAC", "HMAC", {"MAC"}, {}),
    Rule("QG-TLS-LEGACY-PROTOCOL", "TLS-legacy", {"UNKNOWN"}, {}),
    Rule("QG-TLS-INSECURE-CONFIG", "TLS-insecure", {"UNKNOWN"}, {})}

RuleIds == {r.id : r \in Rules \cup {Abstention}}

\* The analyzers fall back on the abstention rule's id when no rule matches.
FaultyMatchingRule(a, p) ==     \* any rule of the algorithm will do
    LET own == {r \in Rules : r.algorithm = a}
    IN  IF own # {} THEN CHOOSE r \in own : TRUE ELSE Abstention

MatchingRule(a, p) ==
    LET own == {r \in Rules : r.algorithm = a /\ p \in r.purposes}
    IN  IF own # {} THEN CHOOSE r \in own : TRUE ELSE Abstention

FaultyDefaultSeverity(a, p, test) ==    \* production code rates one level up
    LET level == IF a \in Shor /\ p \in Confidentiality THEN Critical ELSE Medium
    IN  IF test THEN Medium ELSE level + 1

DefaultSeverity(a, p, test) ==
    LET level == IF a \in Insecure THEN High
                 ELSE IF a \in Shor THEN IF p \in Confidentiality THEN Critical
                                         ELSE IF p \in Authenticity THEN High ELSE Medium
                 ELSE IF a \in Pqc \cup Symmetric THEN Info ELSE Low
    IN  IF test /\ level >= High THEN Medium ELSE level

-----------------------------------------------------------------------------
(***************************************************************************)
(* What the user says of the system: exposure and lifetime may be unknown. *)
(***************************************************************************)
Unknown == "unknown"
NoLifetime == -1
External == {"public", "internet", "external"}
LongLived(c) == c.lifetime >= 10
HndlRelevant(c) == LongLived(c) /\ c.exposure \in External

Points(condition, n) == IF condition THEN n ELSE 0

Score(f, c) ==
    2 + Points(f.purpose \in Confidentiality, 2)
      + Points(f.purpose \in Authenticity, 1)
      + Points(c.exposure = "public", 1)
      + Points(LongLived(c), 1)
      + Points(HndlRelevant(c), 1)
      - Points(f.test, 2)
      - Points(f.confidence \in {"LOW", "UNKNOWN"}, 1)

AssessedSeverity(f, c) ==
    IF f.algorithm \notin Shor THEN f.severity
    ELSE LET score == Score(f, c)
         IN  IF score >= 5 THEN Critical
             ELSE IF score >= 3 THEN High
             ELSE IF score >= 1 THEN Medium ELSE Low

\* recommended_targets of a migration plan, chosen without the rules.
PlanTargets(p) ==
    CASE p \in Confidentiality -> Kem
      [] p \in Authenticity -> Signers
      [] OTHER -> {}

FaultyNeedsPlan(f) == f.algorithm \in Shor      \* suppressed or not

NeedsPlan(f) == f.status # "suppressed" /\ f.algorithm \in Shor

HndlAffected(f) ==
    f.status = "active" /\ f.purpose \in Confidentiality /\ f.algorithm \in Shor

HndlStatus(affected, c) ==
    IF affected = {} THEN "NO_STATIC_CONFIDENTIALITY_SIGNAL"
    ELSE IF \/ c.exposure = Unknown \/ c.lifetime = NoLifetime
            \/ ~c.sensitivity \/ ~c.system
    THEN "UNKNOWN"
    ELSE IF HndlRelevant(c) THEN "HIGH" ELSE "REVIEW"

-----------------------------------------------------------------------------
(***************************************************************************)
(* What the analyzers can report: algorithms with a purpose, and the       *)
(* confidence the analyzer gives them.                                     *)
(***************************************************************************)
Observed(algorithms, p, c) ==
    {[algorithm |-> a, purpose |-> p, confidence |-> c] : a \in algorithms}

PythonObservations == UNION {
    Observed({"RSA", "ECDSA", "EdDSA", "ML-DSA", "SLH-DSA"}, "SIGNATURE", "HIGH"),
    Observed({"RSA"}, "SIGNATURE", "MEDIUM"),
    Observed({"RSA"}, "ENCRYPTION", "HIGH"),
    Observed({"RSA", "ECDH", "X25519", "X448", "finite-field DH", "ML-KEM"},
             "KEY_ESTABLISHMENT", "HIGH"),
    Observed({"ECDH", "X25519"}, "KEY_ESTABLISHMENT", "MEDIUM"),
    Observed({"SHA-2/SHA-3"}, "HASHING", "HIGH"),
    Observed({"SHA-2/SHA-3"}, "KDF", "MEDIUM"),
    Observed({"HMAC"}, "MAC", "HIGH"),
    Observed(Insecure, "UNKNOWN", "HIGH"),
    Observed({"RSA", "ECDSA", "X25519", "X448", "TLS"}, "UNKNOWN", "MEDIUM"),
    Observed({"ECDSA", "TLS"}, "UNKNOWN", "LOW")}

\* config.py:119 and 121 look for capitals in a lowered key and never find them:
\* only the token names RS256 and the like tell that RSA signs.
ConfigObservations == UNION {
    Observed({"RSA", "ECDSA", "EdDSA", "ML-DSA", "SLH-DSA"}, "SIGNATURE", "MEDIUM"),
    Observed({"ECDH", "X25519", "X448", "ML-KEM"}, "KEY_ESTABLISHMENT", "MEDIUM"),
    Observed({"RSA"}, "UNKNOWN", "MEDIUM")}

TextObservations == UNION {
    Observed({"ECDSA", "EdDSA", "ML-DSA"}, "SIGNATURE", "LOW"),
    Observed({"X25519", "ML-KEM"}, "KEY_ESTABLISHMENT", "LOW"),
    Observed({"RSA"}, "UNKNOWN", "LOW")}

Observations == PythonObservations \cup ConfigObservations \cup TextObservations
=============================================================================
