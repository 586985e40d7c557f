---------------------------- MODULE EvidenceStore ----------------------------
(***************************************************************************)
(* What record_release_evidence.py promises about the evidence of a        *)
(* version: it is replaced as a whole, and only when replacing was asked   *)
(* for.  Only once an invocation has been killed may it disappear.         *)
(***************************************************************************)
CONSTANTS
    Evidence,       \* complete evidence: every benchmark passed, manifest written
    Absent          \* no evidence recorded, not one of Evidence

VARIABLES evidence, replacing, killed

storeVars == <<evidence, replacing, killed>>

StoreInit ==
    evidence \in Evidence \cup {Absent} /\ replacing \in BOOLEAN /\ killed = FALSE

\* An invocation, with or without --replace-existing.
Begin == replacing' \in BOOLEAN /\ UNCHANGED <<evidence, killed>>

Publish ==
    /\ evidence = Absent \/ replacing
    /\ evidence' \in Evidence
    /\ UNCHANGED <<replacing, killed>>

Kill == killed' = TRUE /\ UNCHANGED <<evidence, replacing>>

Lose == killed /\ evidence' = Absent /\ UNCHANGED <<replacing, killed>>

StoreNext == Begin \/ Publish \/ Kill \/ Lose

StoreSpec == StoreInit /\ [][StoreNext]_storeVars
=============================================================================
