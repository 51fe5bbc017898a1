--------------------------- MODULE MCCaseRecords ---------------------------
(* Instances of CaseRecords for TLC: an image whose ELA and DCT analyses    *)
(* are complete, and one more analysis that ends while requests are served. *)
EXTENDS CaseRecords, TLC

FourKinds == <<"ELA", "JPEG_DCT", "NOISE", "EXTENSION">>
Error5 == {"error", "residual", "anomaly"}
ReqSymmetry == Permutations(Req)
=============================================================================
