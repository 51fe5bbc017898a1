-------------------------- MODULE CompressionEngines --------------------------
(* The engines that look for traces of a second compression: block          *)
(* artifacts, JPEG ghosts, aligned and non-aligned double JPEG.             *)
EXTENDS EngineContract

-----------------------------------------------------------------------------
(* blocking_engine.py *)

BlockingGates(x) ==
  Through(<< NotApplicable(x, {"JPEG"}, 32, 8192), Unreadable(x), Smaller(x, 32, "failed"),
             BadParameter(x, Texts, "raised") >>)

(* flat: the strengths of the blocks deviate by no more than 1e-5; areas:  *)
(* the components of the blocks whose strength is extreme.                 *)
BlockingFacts == [flat : BOOLEAN, areas : SUBSET {3, 4}]
BlockingRegions(m) == IF m.flat THEN {} ELSE Regions(m.areas, 4)

BlockingFiles ==
  << File("blocking_artifact_map.png", "nothing"),
     File("blocking_artifact_analysis.json", "nothing") >>
BlockingObserved(m) ==
  [GLOBAL_BLOCKING_STRENGTH |-> Anomalous(BlockingRegions(m) # {})]

-----------------------------------------------------------------------------
(* ghost_engine.py *)

GhostGates(x) ==
  Through(<< NotApplicable(x, {"JPEG"}, 32, 8192), Unreadable(x), Smaller(x, 32, "failed"),
             BadParameter(x, Texts, "error") >>)

(* The components of blocks whose difference is least at another quality.  *)
GhostFacts == [areas : SUBSET {3, 4}]
GhostRegions(m) == Regions(m.areas, 4)

GhostFiles ==
  << File("jpeg_ghost_map.png", "evidence"), File("jpeg_ghost_analysis.json", "evidence") >>
GhostObserved(m) == [MINIMUM_RESPONSE_QUALITY |-> Anomalous(GhostRegions(m) # {})]

-----------------------------------------------------------------------------
(* adjpeg_engine.py *)

ADJPEGGates(x) ==
  Through(<< NotApplicable(x, {"JPEG"}, 32, 8192), Unreadable(x), Smaller(x, 32, "failed"),
             BadParameter(x, Texts, "error") >>)

(* The peak of the spectrum of each low AC mode over its median, in tenths.*)
ADJPEGFacts == {[ratios |-> <<10, 10>>], [ratios |-> <<32, 31>>], [ratios |-> <<32, 40>>]}
PeriodicModes(m) == {i \in DOMAIN m.ratios : m.ratios[i] >= 32}

ADJPEGFiles ==
  << File("adjpeg_spectrum.png", "evidence"), File("adjpeg_analysis.json", "evidence") >>
ADJPEGObserved(m) ==
  [PERIODICITY_STRENGTH |-> Anomalous(Cardinality(PeriodicModes(m)) >= 2)]

-----------------------------------------------------------------------------
(* nadjpeg_engine.py *)

NADJPEGGates(x) ==
  Through(<< NotApplicable(x, {"JPEG"}, 32, 8192), Unreadable(x), Smaller(x, 32, "failed"),
             BadParameter(x, {"dimension"}, "error"), BadParameter(x, {"other"}, "raised") >>)

(* The grid with the strongest blocking, and its contrast in hundredths.   *)
NADJPEGFacts == [contrast : {134, 135}, grid : {<<0, 0>>, <<3, 5>>}]
Misaligned(m) == m.contrast >= 135 /\ m.grid # <<0, 0>>

NADJPEGFiles ==
  << File("nadjpeg_matrix.png", "evidence"), File("nadjpeg_analysis.json", "evidence") >>
NADJPEGObserved(m) == [GRID_OFFSET_ENERGY |-> Anomalous(Misaligned(m))]
=============================================================================
