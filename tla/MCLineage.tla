----------------------------- MODULE MCLineage -----------------------------
(* Instances of Lineage for TLC: an image, a file that cannot be read, a    *)
(* version of the image, and a copy of it that may be uploaded later; with  *)
(* a fifth image the case is too large to be compared. Descriptors are      *)
(* matched from the first image to the second, so that the version matches  *)
(* the copy, which it is compared to the other way round, less well than    *)
(* the image itself.                                                        *)
EXTENDS Lineage, TLC

VersionAndCopy ==
  LET Alike == {"descriptors", "dhash", "aspect", "texture"} IN
  [p \in Pair |-> CASE p = <<1, 3>> -> Alike \cup {"matches", "inliers", "ratio"}
                    [] p = <<1, 4>> -> Alike \cup {"sha256"}
                    [] p = <<3, 4>> -> Alike
                    [] OTHER        -> {"descriptors", "dhash", "aspect"}]
UserSymmetry == Permutations(User)
=============================================================================
