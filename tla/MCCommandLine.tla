----------------------------- MODULE MCCommandLine -----------------------------
(***************************************************************************)
(* CommandLine with a signature and a key exchange in the code, as the     *)
(* scanner rates them: a document that names RSA does not reach --fail-on  *)
(* high, one that names X25519 does.                                       *)
(***************************************************************************)
EXTENDS CommandLine

MCUnits == {"sign", "exchange"}
MCAlgorithm == [u \in MCUnits |-> IF u = "sign" THEN "RSA" ELSE "X25519"]

\* The signature is suppressed at first.
MCInit == Init /\ code = [u \in Units |-> 1] /\ exempt = {"sign"}
MCSpec == MCInit /\ [][Next]_vars /\ Fairness
=============================================================================
