--------------------------- MODULE LegacyAnalyzers ---------------------------
(* The five analyzers under forensics/. They store no observations (the      *)
(* normalizer derives them later) and name their files after the run. Any    *)
(* exception of theirs becomes a failed row.                                 *)
EXTENDS EngineContract

Legacy == {"METADATA", "ELA", "NOISE", "JPEG_DCT", "COPY_MOVE"}

(* A file that is missing is noticed before a row is made, but by METADATA.*)
Refused(E, x) == E \in Legacy \ {"METADATA"} /\ x.file = "missing"

MetadataGates(x) == Through(<< Gate(x.file # "fine", "error") >>)
ELAGates(x) == Through(<< Gate(x.file # "fine", "error"), Gate(x.format # "JPEG", "error") >>)
ResidualGates(x) == Through(<< Gate(x.file # "fine", "error") >>)
JPEGDCTGates(x) ==
  Through(<< Gate(x.file # "fine", "error"), Gate(x.format # "JPEG", "error") >>)
CopyMoveGates(x) == Through(<< Gate(x.file # "fine", "error") >>)

LegacyGates(E, x) ==
  CASE E = "METADATA"  -> MetadataGates(x)
    [] E = "ELA"       -> ELAGates(x)
    [] E = "NOISE"     -> ResidualGates(x)
    [] E = "JPEG_DCT"  -> JPEGDCTGates(x)
    [] E = "COPY_MOVE" -> CopyMoveGates(x)

ELAFiles == << File("ela_recompressed.jpg", "run"), File("ela_map.jpg", "run") >>
ResidualFiles == << File("noise_residual.jpg", "run"), File("noise_local.jpg", "run") >>
JPEGDCTFiles == << File("dct_map.jpg", "run") >>
CopyMoveFiles == << File("copymove_map.jpg", "run") >>     \* also without any match

LegacyFiles(E) ==
  CASE E = "METADATA"  -> <<>>
    [] E = "ELA"       -> ELAFiles
    [] E = "NOISE"     -> ResidualFiles
    [] E = "JPEG_DCT"  -> JPEGDCTFiles
    [] E = "COPY_MOVE" -> CopyMoveFiles
=============================================================================
