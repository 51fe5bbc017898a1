-------------------------------- MODULE Engines --------------------------------
(* The registry: every analyzer and engine under the name a request gives it *)
(* (registry.py, api/analysis.py), and what it does with an image.           *)
EXTENDS CompressionEngines, SignalEngines, CloneEngines, JpegEngines, SourceEngines,
        SceneEngines, LegacyAnalyzers

StreamEngines == {"JPEG-STRUCTURE", "JPEG-QT", "JPEG-HUFFMAN"}
DoubleCompression == {"JPEG-GHOST", "ADJPEG", "NADJPEG", "BLOCKING-ARTIFACT"}
PixelEngines == {"HISTOGRAM", "COLOR-CHANNEL", "FOURIER", "ADVANCED-NOISE", "RESAMPLING"}
CopyEngines == {"CLONE-BLOCK", "CLONE-KEYPOINT"}
CaseEngines == {"PRNU", "CAMERA-ID"}       \* these are given the case of the evidence
PhysicalEngines == {"GEOMETRY-PERSPECTIVE", "PHYSICS-LIGHTING"}

Extension == StreamEngines \cup DoubleCompression \cup PixelEngines \cup CopyEngines
             \cup CaseEngines \cup PhysicalEngines
Engine == Legacy \cup Extension

Nothing == "nothing"
Facts(E) ==
  CASE E \in StreamEngines          -> JpegFacts
    [] E = "BLOCKING-ARTIFACT"      -> BlockingFacts
    [] E = "JPEG-GHOST"             -> GhostFacts
    [] E = "ADJPEG"                 -> ADJPEGFacts
    [] E = "NADJPEG"                -> NADJPEGFacts
    [] E = "ADVANCED-NOISE"         -> NoiseFacts
    [] E = "RESAMPLING"             -> ResamplingFacts
    [] E = "HISTOGRAM"              -> HistogramFacts
    [] E = "COLOR-CHANNEL"          -> ColorFacts
    [] E = "FOURIER"                -> FourierFacts
    [] E = "CLONE-BLOCK"            -> CloneBlockFacts
    [] E = "CLONE-KEYPOINT"         -> CloneKeypointFacts
    [] E = "PRNU"                   -> PRNUFacts
    [] E = "CAMERA-ID"              -> CameraFacts
    [] E = "GEOMETRY-PERSPECTIVE"   -> PerspectiveFacts
    [] E = "PHYSICS-LIGHTING"       -> LightingFacts
    [] E \in Legacy                 -> {Nothing}

Gates(E, x, m) ==
  CASE E = "JPEG-STRUCTURE"         -> StructureGates(x, m)
    [] E = "JPEG-QT"                -> QTGates(x, m)
    [] E = "JPEG-HUFFMAN"           -> HuffmanGates(x, m)
    [] E = "BLOCKING-ARTIFACT"      -> BlockingGates(x)
    [] E = "JPEG-GHOST"             -> GhostGates(x)
    [] E = "ADJPEG"                 -> ADJPEGGates(x)
    [] E = "NADJPEG"                -> NADJPEGGates(x)
    [] E = "ADVANCED-NOISE"         -> NoiseGates(x)
    [] E = "RESAMPLING"             -> ResamplingGates(x)
    [] E = "HISTOGRAM"              -> HistogramGates(x)
    [] E = "COLOR-CHANNEL"          -> ColorGates(x)
    [] E = "FOURIER"                -> FourierGates(x)
    [] E = "CLONE-BLOCK"            -> CloneBlockGates(x)
    [] E = "CLONE-KEYPOINT"         -> CloneKeypointGates(x)
    [] E = "PRNU"                   -> PRNUGates(x)
    [] E = "CAMERA-ID"              -> CameraGates(x)
    [] E = "GEOMETRY-PERSPECTIVE"   -> PerspectiveGates(x)
    [] E = "PHYSICS-LIGHTING"       -> LightingGates(x)
    [] E \in Legacy                 -> LegacyGates(E, x)

(* loaded: PRNU has read the reference it was asked for.                   *)
Files(E, m, loaded) ==
  CASE E = "JPEG-STRUCTURE"         -> StructureFiles
    [] E = "JPEG-QT"                -> QTFiles
    [] E = "JPEG-HUFFMAN"           -> HuffmanFiles
    [] E = "BLOCKING-ARTIFACT"      -> BlockingFiles
    [] E = "JPEG-GHOST"             -> GhostFiles
    [] E = "ADJPEG"                 -> ADJPEGFiles
    [] E = "NADJPEG"                -> NADJPEGFiles
    [] E = "ADVANCED-NOISE"         -> NoiseFiles
    [] E = "RESAMPLING"             -> ResamplingFiles
    [] E = "HISTOGRAM"              -> HistogramFiles
    [] E = "COLOR-CHANNEL"          -> ColorFiles
    [] E = "FOURIER"                -> FourierFiles
    [] E = "CLONE-BLOCK"            -> CloneBlockFiles
    [] E = "CLONE-KEYPOINT"         -> CloneKeypointFiles
    [] E = "PRNU"                   -> PRNUFiles(loaded)
    [] E = "CAMERA-ID"              -> CameraFiles
    [] E = "GEOMETRY-PERSPECTIVE"   -> PerspectiveFiles(m)
    [] E = "PHYSICS-LIGHTING"       -> LightingFiles
    [] E \in Legacy                 -> LegacyFiles(E)

(* scores: the comparisons of CAMERA-ID.                                   *)
NoMetrics == [metric \in {} |-> "none"]
Observed(E, m, loaded, scores) ==
  CASE E = "JPEG-STRUCTURE"         -> StructureObserved(m)
    [] E = "JPEG-QT"                -> QTObserved
    [] E = "JPEG-HUFFMAN"           -> HuffmanObserved(m)
    [] E = "BLOCKING-ARTIFACT"      -> BlockingObserved(m)
    [] E = "JPEG-GHOST"             -> GhostObserved(m)
    [] E = "ADJPEG"                 -> ADJPEGObserved(m)
    [] E = "NADJPEG"                -> NADJPEGObserved(m)
    [] E = "ADVANCED-NOISE"         -> NoiseObserved(m)
    [] E = "RESAMPLING"             -> ResamplingObserved(m)
    [] E = "HISTOGRAM"              -> HistogramObserved(m)
    [] E = "COLOR-CHANNEL"          -> ColorObserved(m)
    [] E = "FOURIER"                -> FourierObserved(m)
    [] E = "CLONE-BLOCK"            -> CloneBlockObserved(m)
    [] E = "CLONE-KEYPOINT"         -> CloneKeypointObserved(m)
    [] E = "PRNU"                   -> PRNUObserved(m, loaded)
    [] E = "CAMERA-ID"              -> CameraObserved(scores)
    [] E = "GEOMETRY-PERSPECTIVE"   -> PerspectiveObserved(m)
    [] E = "PHYSICS-LIGHTING"       -> LightingObserved(m)
    [] E \in Legacy                 -> NoMetrics

(* Every direction that an observation can have (observation.py names      *)
(* three of them).                                                         *)
Indicator == {"elevated", "consistent", "informational", "anomalous", "nominal",
              "custom_entropy", "standard_baseline"}

(* The files that cv2.imwrite writes: it returns False and raises nothing  *)
(* when it cannot.                                                         *)
ByOpenCV ==
  {"blocking_artifact_map.png", "jpeg_ghost_map.png", "clone_block_map.png",
   "advanced_noise_map.png", "resampling_map.png", "color_channel_analysis.png",
   "color_channel_maps.png", "perspective.png", "lighting.png", "copymove_map.jpg"}
=============================================================================
