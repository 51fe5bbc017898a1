---------------------------- MODULE MCAuditTrail ----------------------------
(* AuditTrail for TLC; the sessions differ in nothing but their name. *)
EXTENDS AuditTrail, TLC

SessionSymmetry == Permutations(Session)
=============================================================================
