----------------------------- MODULE SceneEngines -----------------------------
(* The engines that look for lines and for light that do not fit one scene.  *)
(* Their requirements are declared and never asked.                          *)
EXTENDS EngineContract, FiniteSetsExt

-----------------------------------------------------------------------------
(* perspective_engine.py *)

PerspectiveGates(x) == Through(<< BadParameter(x, {"other"}, "raised"), Unreadable(x) >>)

(* The number of line segments, and the sizes of the best group of lines   *)
(* through one point in each round.                                        *)
PerspectiveFacts ==
  {[lines |-> 5, groups |-> <<>>], [lines |-> 6, groups |-> <<4>>],
   [lines |-> 10, groups |-> <<5, 4>>], [lines |-> 10, groups |-> <<5, 5>>],
   [lines |-> 20, groups |-> <<10, 6>>]}
TooFewLines(m) == m.lines < 6

(* At most three vanishing points, each with five lines or more; the first *)
(* round without one ends the search.                                      *)
VanishingPoints(m) ==
  {i \in DOMAIN m.groups : i <= 3 /\ \A j \in 1 .. i : m.groups[j] >= 5}
Outliers(m) == m.lines - MapThenSumSet(LAMBDA i : m.groups[i], VanishingPoints(m))

(* The score is 1.6 times the share of the outliers, or 0.5 if no point is *)
(* found: above a threshold in hundredths.                                 *)
PerspectiveAbove(m, limit) ==
  IF VanishingPoints(m) = {} THEN 50 > limit ELSE 160 * Outliers(m) > limit * m.lines

(* The name holds the second of the run; runs of one second share it.      *)
PerspectiveFiles(m) == IF TooFewLines(m) THEN <<>> ELSE << File("perspective.png", "evidence") >>
PerspectiveObserved(m) ==
  [PERSPECTIVE_INCONSISTENCY_SCORE |->
     CASE TooFewLines(m) -> "informational"
       [] ~TooFewLines(m) /\ PerspectiveAbove(m, 45) -> "anomalous"
       [] ~TooFewLines(m) /\ PerspectiveAbove(m, 25) /\ ~PerspectiveAbove(m, 45) -> "elevated"
       [] OTHER -> "consistent"]

-----------------------------------------------------------------------------
(* lighting_engine.py *)

LightingGates(x) == Through(<< BadParameter(x, {"other"}, "raised"), Unreadable(x) >>)

(* Patches with a gradient and those that diverge from the mean direction  *)
(* light; the directions of the shadows; where the sun casts them, if the  *)
(* file has a position and a time, or "none", or "night".                  *)
LightingFacts ==
  {[patches |-> 10, divergent |-> d, light |-> 0, rays |-> r, sun |-> s] :
     d \in {1, 2, 3}, r \in {<<>>, <<180>>, <<10, 350>>}, s \in {"none", "night", "east", "west"}}
  \cup {[patches |-> 0, divergent |-> 0, light |-> 0, rays |-> <<>>, sun |-> "none"]}
ShadowAzimuth == [east |-> 0, west |-> 180]

(* The arithmetic mean of the rays; without rays, opposite to the light.   *)
MeasuredAngle(m) ==
  IF m.rays = <<>> THEN (m.light + 180) % 360
  ELSE MapThenSumSet(LAMBDA i : m.rays[i], DOMAIN m.rays) \div Len(m.rays)

AngleBetween(a, b) ==
  LET d == IF a < b THEN b - a ELSE a - b IN IF d > 180 THEN 360 - d ELSE d

SolarConflict(m) ==
  CASE m.sun = "none"  -> FALSE
    [] m.sun = "night" -> TRUE
    [] OTHER -> AngleBetween(MeasuredAngle(m), ShadowAzimuth[m.sun]) > 35

(* The score is 1.5 times the share of the divergent patches, and 0.75 at  *)
(* least when the sun contradicts the scene.                               *)
LightingAbove(m, limit) ==
  \/ SolarConflict(m) /\ 75 > limit
  \/ 150 * m.divergent > limit * m.patches

LightingFiles == << File("lighting.png", "evidence") >>
LightingObserved(m) ==
  [LIGHTING_INCONSISTENCY_SCORE |->
     CASE LightingAbove(m, 40) -> "anomalous"
       [] LightingAbove(m, 20) /\ ~LightingAbove(m, 40) -> "elevated"
       [] OTHER -> "consistent"]
=============================================================================
