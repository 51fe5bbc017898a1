---------------------------- MODULE EngineContract ----------------------------
(***************************************************************************)
(* What every forensic engine is given and what it returns                 *)
(* (engine_extensions/contract.py, status.py, observation.py, artifact.py).*)
(* The model of an engine E is four operators:                             *)
(*   EGates(x)        which early return, if any, ends execute()           *)
(*   EFacts           what its signal processing can measure, reduced to   *)
(*                    what the rest of execute() tells apart               *)
(*   EFiles(x)        the files it writes, in order                        *)
(*   EObserved(m)     the metrics it stores and their directions           *)
(* x is the evidence and the request; m is a member of EFacts. Fractions   *)
(* are integers, in the unit that the comment on EFacts names.             *)
(***************************************************************************)
EXTENDS Integers, Sequences, FiniteSets

(* An image: the format and the sides in its row, and what is on the disk. *)
(* "garbled" is a file that no decoder reads.                              *)
Format == {"JPEG", "PNG", "GIF"}
FileState == {"fine", "missing", "empty", "garbled"}

Raster == {"JPEG", "PNG"}    \* JPG is JPEG; WEBP and TIFF are treated as PNG
Unbounded == 1000000

(* What a run of an engine ends with, if nothing is raised after execute():*)
(* "failed" is a result, "error" an exception, "raised" a ValueError.      *)
Outcome == {"applied", "not_applicable", "failed", "error", "raised"}

Gate(hit, outcome) == [hit |-> hit, outcome |-> outcome]

(* The early returns of an engine, in their order: the first that is hit.  *)
Through(gates) ==
  LET hits == {i \in DOMAIN gates : gates[i].hit}
  IN  IF hits = {} THEN "applied"
      ELSE gates[CHOOSE i \in hits : \A j \in hits : i <= j].outcome

(* check_applicability: only the row of the evidence is asked.             *)
Applicable(x, formats, least, most) ==
  /\ x.format \in formats
  /\ \A side \in x.row : least <= side /\ side <= most

NotApplicable(x, formats, least, most) ==
  Gate(~Applicable(x, formats, least, most), "not_applicable")
Unreadable(x) == Gate(x.file # "fine", "failed")
Smaller(x, least, outcome) == Gate(\E side \in x.real : side < least, outcome)

(* A text where a number belongs, in max_dimension or in another parameter.*)
Parameter == {"good", "dimension", "other"}
BadParameter(x, which, outcome) == Gate(x.param \in which, outcome)
Texts == {"dimension", "other"}

(* The longer side is reduced to most, and the shorter one in proportion.  *)
Longest(sides) == CHOOSE s \in sides : \A t \in sides : t <= s
Reduced(sides, most) ==
  IF Longest(sides) <= most THEN sides
  ELSE {(s * most) \div Longest(sides) : s \in sides}

(* A file is named after the evidence, after the run or, most often, after *)
(* nothing but what it shows.                                              *)
NamedAfter == {"evidence", "run", "nothing"}
File(name, after) == [name |-> name, after |-> after]

(* The two ways in which an engine states that it has found something.     *)
Elevated(found) == IF found THEN "elevated" ELSE "informational"
Anomalous(found) == IF found THEN "anomalous" ELSE "nominal"

(* Connected blocks or pixels form a region from a least area on.          *)
Regions(areas, least) == {a \in areas : a >= least}
=============================================================================
