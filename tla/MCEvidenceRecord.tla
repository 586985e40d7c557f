--------------------------- MODULE MCEvidenceRecord ---------------------------
(***************************************************************************)
(* EvidenceRecord with two contents of the source tree.                    *)
(***************************************************************************)
EXTENDS EvidenceRecord
=============================================================================
