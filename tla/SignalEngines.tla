----------------------------- MODULE SignalEngines -----------------------------
(* The engines that measure the noise, the interpolation, the histogram, the *)
(* color channels and the spectrum of an image.                              *)
EXTENDS EngineContract

-----------------------------------------------------------------------------
(* advanced_noise_engine.py *)

NoiseGates(x) ==
  Through(<< NotApplicable(x, Raster, 16, 8192), Unreadable(x),
             BadParameter(x, Texts, "raised") >>)

(* The components of the blocks whose variance is 2.5 robust deviations    *)
(* away from the median one.                                               *)
NoiseFacts == [areas : SUBSET {1, 2}]
NoiseRegions(m) == Regions(m.areas, 2)

NoiseFiles ==
  << File("advanced_noise_map.png", "nothing"), File("advanced_noise_analysis.png", "nothing"),
     File("advanced_noise_analysis.json", "nothing") >>
NoiseObserved(m) ==
  LET found == Elevated(NoiseRegions(m) # {}) IN
  [GLOBAL_NOISE_VARIANCE |-> found, GLOBAL_NOISE_MAD |-> found,
   GLOBAL_NOISE_ENTROPY |-> "informational", HIGH_FREQUENCY_NOISE_ENERGY |-> "informational",
   NOISE_INCONSISTENCY_REGION_COUNT |-> found, MAX_LOCAL_NOISE_DEVIATION |-> found]

-----------------------------------------------------------------------------
(* resampling_engine.py *)

ResamplingGates(x) ==
  Through(<< NotApplicable(x, Raster, 16, 8192), Unreadable(x),
             BadParameter(x, Texts, "raised") >>)

(* The strengths of the peaks of the two spectra, in tenths, and the       *)
(* components of the blocks with a peak of their own.                      *)
ResamplingFacts == [rows : {10, 20}, columns : {10, 20}, areas : SUBSET {1, 2}]
ResamplingFound(m) ==
  m.rows >= 20 \/ m.columns >= 20 \/ Regions(m.areas, 2) # {}

ResamplingFiles ==
  << File("resampling_map.png", "nothing"), File("resampling_analysis.png", "nothing"),
     File("resampling_analysis.json", "nothing") >>
ResamplingObserved(m) ==
  LET found == Elevated(ResamplingFound(m)) IN
  [HORIZONTAL_PERIODICITY |-> found, VERTICAL_PERIODICITY |-> found,
   DOMINANT_PERIOD |-> found, PERIODICITY_PEAK_STRENGTH |-> found,
   RESAMPLING_CANDIDATE_REGION_COUNT |-> found]

-----------------------------------------------------------------------------
(* histogram_engine.py *)

HistogramGates(x) ==
  Through(<< NotApplicable(x, Raster, 16, 8192), Unreadable(x), Smaller(x, 16, "failed"),
             BadParameter(x, {"dimension"}, "failed") >>)

(* Empty bins between filled ones; per cent of clipped pixels.             *)
HistogramFacts == [gaps : {15, 16}, shadow : {5, 6}, light : {5, 6}]
HistogramFound(m) == m.gaps > 15 \/ m.shadow > 5 \/ m.light > 5

HistogramFiles ==
  << File("histogram_analysis.json", "nothing"), File("histogram_analysis.png", "nothing") >>
HistogramObserved(m) == [LUMINANCE_ENTROPY |-> Elevated(HistogramFound(m))]

-----------------------------------------------------------------------------
(* color_channel_engine.py *)

ColorGates(x) ==
  Through(<< NotApplicable(x, Raster, 32, 8192), Unreadable(x), Smaller(x, 32, "failed"),
             BadParameter(x, {"dimension"}, "failed"), BadParameter(x, {"other"}, "error") >>)

(* flat: the correlations of the blocks deviate by no more than 1e-5.      *)
ColorFacts == [flat : BOOLEAN, areas : SUBSET {3, 4}]
ColorRegions(m) == IF m.flat THEN {} ELSE Regions(m.areas, 4)

ColorFiles ==
  << File("color_channel_analysis.json", "nothing"), File("color_channel_analysis.png", "nothing"),
     File("color_channel_maps.png", "nothing") >>
ColorObserved(m) == [CHANNEL_CORRELATION_RG |-> Elevated(ColorRegions(m) # {})]

-----------------------------------------------------------------------------
(* fourier_engine.py *)

FourierGates(x) ==
  Through(<< NotApplicable(x, Raster, 32, 8192), Unreadable(x), Smaller(x, 32, "failed"),
             BadParameter(x, {"dimension"}, "failed"), BadParameter(x, {"other"}, "error") >>)

(* The local maxima of the spectrum, in deviations above its mean.         *)
FourierFacts == [maxima : SUBSET {2, 3}]
FourierPeaks(m) == {p \in m.maxima : p >= 3}     \* the 20 strongest are reported

FourierFiles ==
  << File("fourier_analysis.json", "nothing"), File("fourier_spectrum.png", "nothing") >>
FourierObserved(m) == [HIGH_FREQUENCY_ENERGY_RATIO |-> Elevated(FourierPeaks(m) # {})]
=============================================================================
