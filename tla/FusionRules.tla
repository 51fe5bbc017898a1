---------------------------- MODULE FusionRules ----------------------------
(***************************************************************************)
(* What the analyzers store, what the fusion adapters and the rules of the *)
(* findings read of it, and the relations, assessment and findings that    *)
(* follow. An image is the set of the traits that its analyses measure:    *)
(*   "software"  EXIF names an editor     "error"  ELA mean above 5        *)
(*   "residual"  mean residual above 5    "flat"   DCT energy below 10     *)
(*   "clone"     4 or more inliers        "png"    the file is a PNG       *)
(*   "anomaly"   an extension engine's own indication is "elevated"        *)
(* structured_findings is the set of the paths that an analyzer writes; a  *)
(* reader that asks for another path gets its default.                     *)
(***************************************************************************)
EXTENDS Naturals, FiniteSets

Modality == {"METADATA", "ELA", "NOISE", "JPEG_DCT", "COPY_MOVE"}
Trait == {"software", "error", "residual", "flat", "clone", "png", "anomaly"}

Written ==
  [METADATA  |-> {"findings.software_detected", "extracted_metadata.exif"},
   ELA       |-> {"mean_error", "median_error", "std_error", "max_error", "percentiles"},
   NOISE     |-> {"global_statistics.mean_residual", "local_statistics"},
   JPEG_DCT  |-> {"quantization_tables", "dc_statistics", "ac_statistics",
                  "band_statistics.high_freq_energy"},
   COPY_MOVE |-> {"matching_statistics.geometric_inliers", "geometry", "candidate_regions"}]

(* What the adapter of each modality reads. *)
Seen(path, m, trait, image) == path \in Written[m] /\ trait \in image

MetadataDirection(image) ==
  IF Seen("metadata.Software", "METADATA", "software", image) THEN "present" ELSE "absent"
ELADirection(image) ==
  IF Seen("statistics.mean", "ELA", "error", image) THEN "elevated" ELSE "informational"
NoiseDirection(image) ==
  IF Seen("global_statistics.mean_residual", "NOISE", "residual", image)
  THEN "elevated" ELSE "informational"
JPEGDCTDirection(image) ==    \* an energy that is not found counts as 0
  IF "frequency_bands.high_freq_energy" \in Written["JPEG_DCT"] /\ "flat" \notin image
  THEN "informational" ELSE "suppressed"
CopyMoveDirection(image) ==
  IF Seen("matching_statistics.geometric_inliers", "COPY_MOVE", "clone", image)
  THEN "candidate" ELSE "absent"

(* An extension engine says itself what its observation indicates. *)
ExtensionDirection(image) == IF "anomaly" \in image THEN "elevated" ELSE "informational"

Direction(m, image) ==
  CASE m = "METADATA"  -> MetadataDirection(image)
    [] m = "ELA"       -> ELADirection(image)
    [] m = "NOISE"     -> NoiseDirection(image)
    [] m = "JPEG_DCT"  -> JPEGDCTDirection(image)
    [] m = "COPY_MOVE" -> CopyMoveDirection(image)
    [] OTHER           -> ExtensionDirection(image)
Shows == [METADATA |-> "software", ELA |-> "error", NOISE |-> "residual",
          JPEG_DCT |-> "flat", COPY_MOVE |-> "clone"]
Directions == {"present", "absent", "elevated", "informational", "suppressed", "candidate"}
Active == {"elevated", "suppressed", "present", "candidate"}

-----------------------------------------------------------------------------
(* Observations are records with an id, a modality and a direction *)

(* obs_by_modality keeps the last observation of each modality. *)
Newest(O, m) == {o \in O : o.modality = m /\ \A p \in O : p.modality = m => p.id <= o.id}

RelationKind == {"CONTEXTUAL", "INDEPENDENT"}
Link(kind, a, b) == [kind |-> kind, a |-> a.id, b |-> b.id]

(* evaluate_relations *)
Relations(O) ==
  {Link("CONTEXTUAL", a, b) : a \in Newest(O, "ELA"), b \in Newest(O, "JPEG_DCT")}
  \cup {Link("CONTEXTUAL", a, b) :
          a \in {o \in Newest(O, "METADATA") : o.direction = "present"},
          b \in {o \in Newest(O, "ELA") : o.direction = "elevated"}}
  \cup {Link("INDEPENDENT", a, b) :
          a \in {o \in Newest(O, "COPY_MOVE") : o.direction = "candidate"},
          b \in {o \in Newest(O, "METADATA") : o.direction = "absent"}}

Family == [METADATA |-> "File Context", ELA |-> "Compression", JPEG_DCT |-> "Compression",
           NOISE |-> "Residual", COPY_MOVE |-> "Spatial Correspondence"]
Families(O) == {Family[o.modality] : o \in {p \in O : p.modality \in Modality}}
Contributing(O) == {o \in O : o.direction \in Active}

(* determine_assessment *)
Levels == {"INSUFFICIENT_EVIDENCE", "LOW_FORENSIC_CONCERN", "MODERATE_FORENSIC_CONCERN",
           "ELEVATED_FORENSIC_CONCERN"}
Level(O) ==
  LET F == Families(Contributing(O)) IN
  CASE O = {} -> "INSUFFICIENT_EVIDENCE"
    [] F = {} \/ F = {"File Context"} -> "LOW_FORENSIC_CONCERN"
    [] Cardinality(F) = 1 /\ F # {"File Context"} -> "MODERATE_FORENSIC_CONCERN"
    [] F = {"Compression", "File Context"} -> "MODERATE_FORENSIC_CONCERN"
    [] OTHER -> "ELEVATED_FORENSIC_CONCERN"

-----------------------------------------------------------------------------
(* The rules of CorrelationEngine.evaluate_evidence. D holds the types of  *)
(* the analyses whose newest row is completed.                             *)

RuleOrder == <<"META-001", "COMP-002", "NOISE-003", "CLONE-004", "CONFLICT-005", "META-EMPTY">>
Rule == {"META-001", "COMP-002", "NOISE-003", "CLONE-004", "CONFLICT-005", "META-EMPTY"}

ExifRead == "exif" \in Written["METADATA"]

Triggered(rule, D, image) ==
  CASE rule = "META-001"   -> "METADATA" \in D /\ ExifRead /\ "software" \in image
    [] rule = "COMP-002"   -> /\ "ELA" \in D
                              /\ \/ Seen("mean_difference", "ELA", "error", image)
                                 \/ "JPEG_DCT" \in D
    [] rule = "NOISE-003"  -> "NOISE" \in D
    [] rule = "CLONE-004"  -> "COPY_MOVE" \in D
    [] rule = "CONFLICT-005" -> "png" \in image
    [] rule = "META-EMPTY" -> "METADATA" \in D /\ ~(ExifRead /\ "software" \in image)

(* The observations a finding cites; obs_by_modality has no "copy-move".   *)
Cites(rule, O) ==
  LET cited == [ r \in Rule |-> CASE r = "META-001"  -> {"METADATA"}
                                  [] r = "COMP-002"  -> {"ELA"}
                                  [] r = "NOISE-003" -> {"NOISE"}
                                  [] OTHER           -> {} ]
  IN {o.id : o \in {p \in O : p.modality \in cited[rule]}}

-----------------------------------------------------------------------------
(* VALID_STATUS_TRANSITIONS *)

Status == {"GENERATED", "REVIEW_REQUIRED", "ACKNOWLEDGED", "CONFIRMED_BY_ANALYST",
           "DISMISSED", "INCONCLUSIVE"}
Decided == {"ACKNOWLEDGED", "CONFIRMED_BY_ANALYST", "DISMISSED", "INCONCLUSIVE"}
ValidTransitions ==
  [GENERATED            |-> Decided \cup {"REVIEW_REQUIRED"},
   REVIEW_REQUIRED      |-> Decided,
   ACKNOWLEDGED         |-> {"CONFIRMED_BY_ANALYST", "DISMISSED", "INCONCLUSIVE", "REVIEW_REQUIRED"},
   CONFIRMED_BY_ANALYST |-> {"DISMISSED", "INCONCLUSIVE", "REVIEW_REQUIRED"},
   DISMISSED            |-> {"REVIEW_REQUIRED", "ACKNOWLEDGED", "CONFIRMED_BY_ANALYST"},
   INCONCLUSIVE         |-> {"REVIEW_REQUIRED", "ACKNOWLEDGED", "CONFIRMED_BY_ANALYST", "DISMISSED"}]
=============================================================================
