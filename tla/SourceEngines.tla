---------------------------- MODULE SourceEngines ----------------------------
(* The engines that compare the sensor noise of an image with the reference  *)
(* fingerprints of its case.                                                 *)
EXTENDS EngineContract

CONSTANTS Ref, NoRef

ASSUME RefAssumption == NoRef \notin Ref

-----------------------------------------------------------------------------
(* prnu_engine.py *)

PRNUGates(x) ==
  Through(<< NotApplicable(x, Raster, 32, Unbounded), BadParameter(x, Texts, "raised"),
             Unreadable(x), Smaller(x, 32, "not_applicable") >>)

(* Whether the fingerprint has the shape of the residual, and their        *)
(* correlation in hundred-thousandths.                                     *)
PRNUFacts == {m \in [fits : BOOLEAN, corr : {0, 1000, 3000, 4996}] : m.fits \/ m.corr = 0}

(* round() to one digit less.                                              *)
Rounded(v) == ((v + 5) \div 10) * 10

(* A reference is looked up when the request names it and its case.        *)
PRNUMatch(m, loaded) ==
  CASE ~loaded        -> "NOT_ESTIMATED"
    [] ~m.fits        -> "INCOMPATIBLE_DIMENSIONS"
    [] m.corr >= 3000 -> "CONSISTENT"
    [] m.corr >= 1000 -> "INCONCLUSIVE"
    [] OTHER          -> "INCONSISTENT"

PRNUFiles(loaded) ==
  << File("prnu_residual.png", "nothing") >>
  \o (IF loaded THEN << File("prnu_fingerprint.png", "nothing") >> ELSE <<>>)
  \o << File("prnu_analysis.png", "nothing"), File("prnu_analysis.json", "nothing") >>

PRNUObserved(m, loaded) ==
  LET correlated == loaded /\ m.fits
      always == {"PRNU_RESIDUAL_VARIANCE", "PRNU_RESIDUAL_ENERGY", "PRNU_SUITABILITY_INDEX",
                 "PRNU_MATCH_STATUS"}
  IN  [metric \in always \cup (IF correlated THEN {"PRNU_CORRELATION"} ELSE {}) |->
         CASE metric = "PRNU_MATCH_STATUS" -> Elevated(PRNUMatch(m, loaded) = "CONSISTENT")
           [] metric = "PRNU_CORRELATION"  -> Elevated(Rounded(m.corr) >= 5000)
           [] OTHER                        -> "informational"]

-----------------------------------------------------------------------------
(* camera_id_engine.py: the applicability is declared and never asked.       *)

CameraGates(x) == Through(<< BadParameter(x, {"other"}, "raised"), Unreadable(x) >>)

(* The suitability in hundredths, and for each reference the correlation   *)
(* in millionths and the peak-to-correlation energy in thousandths.        *)
Scores ==
  {<<0, 0>>, <<10500, 60000>>, <<14996, 60000>>, <<15000, 49996>>, <<15000, 50000>>, <<20000, 90000>>}
CameraFacts == [suitable : {19, 20}, score : [Ref -> Scores]]

Verdict(suitable, corr, pce) ==
  IF suitable < 20 THEN "INCONCLUSIVE"
  ELSE IF pce >= 50000 /\ corr >= 15000 THEN "CONSISTENT"
  ELSE IF pce >= 35000 /\ corr >= 10500 THEN "INCONCLUSIVE" ELSE "INCONSISTENT"

(* What is kept of a comparison: the numbers are rounded after the verdict.*)
Compared(m, ref) ==
  [ref     |-> ref,
   corr    |-> Rounded(m.score[ref][1]),
   pce     |-> Rounded(m.score[ref][2]),
   verdict |-> Verdict(m.suitable, m.score[ref][1], m.score[ref][2])]

(* The first of the comparisons with the highest energy.                   *)
Top(scores) ==
  CHOOSE i \in DOMAIN scores :
    /\ \A j \in DOMAIN scores : scores[j].pce <= scores[i].pce
    /\ \A j \in 1 .. i - 1 : scores[j].pce < scores[i].pce
Second(scores) ==
  CHOOSE p \in {scores[j].pce : j \in DOMAIN scores \ {Top(scores)}} \cup {0} :
    \A j \in DOMAIN scores \ {Top(scores)} : scores[j].pce <= p

NotCompared == [ref |-> NoRef, corr |-> 0, pce |-> 0, verdict |-> "NOT_ESTIMATED"]
Best(scores) == IF scores = <<>> THEN NotCompared ELSE scores[Top(scores)]
PceGap(scores) == IF scores = <<>> THEN 0 ELSE Best(scores).pce - Second(scores)

CameraFiles ==
  << File("camera_id_analysis.png", "nothing"), File("camera_id_comparison.png", "nothing"),
     File("camera_id_analysis.json", "nothing") >>
(* Mutant: any consistent comparison makes the candidate.                  *)
CameraObservedAny(scores) ==
  [REFERENCE_COUNT              |-> "informational",
   MAX_CORRELATION              |-> Elevated(Best(scores).corr >= 15000),
   PCE                          |-> Elevated(Best(scores).pce >= 50000),
   SECOND_BEST_CORRELATION      |-> "informational",
   CORRELATION_GAP              |-> Elevated(PceGap(scores) >= 30000),
   CANDIDATE_CAMERA_CONSISTENCY |->
     Elevated(\E i \in DOMAIN scores : scores[i].verdict = "CONSISTENT")]
CameraObserved(scores) ==
  [REFERENCE_COUNT              |-> "informational",
   MAX_CORRELATION              |-> Elevated(Best(scores).corr >= 15000),
   PCE                          |-> Elevated(Best(scores).pce >= 50000),
   SECOND_BEST_CORRELATION      |-> "informational",
   CORRELATION_GAP              |-> Elevated(PceGap(scores) >= 30000),
   CANDIDATE_CAMERA_CONSISTENCY |-> Elevated(Best(scores).verdict = "CONSISTENT")]
=============================================================================
