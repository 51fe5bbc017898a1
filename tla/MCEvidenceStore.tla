--------------------------- MODULE MCEvidenceStore ---------------------------
(* EvidenceStore for TLC; sessions and files differ in nothing but their name. *)
EXTENDS EvidenceStore, TLC

Symmetry == Permutations(Session) \cup Permutations(File)
=============================================================================
