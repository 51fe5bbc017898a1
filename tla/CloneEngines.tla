----------------------------- MODULE CloneEngines -----------------------------
(* The engines that look for a part of the image copied into another part.   *)
EXTENDS EngineContract

-----------------------------------------------------------------------------
(* clone_block_engine.py *)

CloneBlockGates(x) ==
  Through(<< NotApplicable(x, Raster, 32, 4096), Unreadable(x),
             BadParameter(x, Texts, "raised") >>)

(* The similar pairs of blocks, by displacement: the sizes of the bins.    *)
CloneBlockFacts == [bins : SUBSET {2, 3}]
CloneClusters(m) == {b \in m.bins : b >= 3}

CloneBlockFiles ==
  << File("clone_block_map.png", "nothing"), File("clone_block_analysis.png", "nothing"),
     File("clone_block_analysis.json", "nothing") >>
CloneBlockObserved(m) ==
  LET found == Elevated(CloneClusters(m) # {}) IN
  [BLOCK_MATCH_COUNT |-> found, MATCH_CLUSTER_COUNT |-> found, MAX_CLUSTER_SIZE |-> found,
   DISPLACEMENT_CONSISTENCY |-> found, CANDIDATE_REGION_COUNT |-> found]

-----------------------------------------------------------------------------
(* clone_keypoint_engine.py *)

(* The parameters are read before the file is looked for; there is no      *)
(* largest side, but a long image may be reduced below 32 pixels.          *)
CloneKeypointGates(x) ==
  Through(<< NotApplicable(x, Raster, 32, Unbounded), BadParameter(x, Texts, "raised"),
             Unreadable(x),
             Gate(\E s \in Reduced(x.real, 2048) : s < 32, "not_applicable") >>)

(* Descriptors, pairs that pass the ratio test, and the pairs that one     *)
(* affine transformation explains.                                         *)
CloneKeypointFacts ==
  {m \in [descriptors : {3, 4}, pairs : {3, 4}, fitting : {3, 4}] : m.fitting <= m.pairs}
Matched(m) == IF m.descriptors >= 4 THEN m.pairs ELSE 0
GeometricInliers(m) == IF Matched(m) >= 4 /\ m.fitting >= 4 THEN m.fitting ELSE 0

CloneKeypointFiles ==
  << File("clone_keypoint_map.png", "evidence"), File("clone_keypoint_analysis.png", "evidence"),
     File("clone_keypoint_data.json", "evidence") >>
CloneKeypointObserved(m) ==
  LET found == Elevated(GeometricInliers(m) >= 4) IN
  [KEYPOINT_COUNT |-> "informational", RAW_MATCH_COUNT |-> "informational",
   FILTERED_MATCH_COUNT |-> found, GEOMETRIC_INLIER_COUNT |-> found,
   GEOMETRIC_INLIER_RATIO |-> found, CANDIDATE_REGION_COUNT |-> found]
=============================================================================
