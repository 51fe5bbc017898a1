----------------------------- MODULE JpegEngines -----------------------------
(* The engines that read the marker stream of a JPEG: its structure, its     *)
(* quantization tables and its Huffman tables. A ValueError of the parser    *)
(* leaves execute().                                                         *)
EXTENDS EngineContract, JpegStream

CONSTANTS
  Samples,      \* the streams that evidence files hold
  Qualities,    \* the qualities that they were written with
  Streams       \* the streams that the parser is compared with the format over

ASSUME StreamsAssumption == Samples \cup Streams \subseteq Seq(Token)

JpegFacts == [stream : Samples, quality : Qualities]

Parse(m) == Parsed(m.stream)

-----------------------------------------------------------------------------
(* structure_engine.py *)

StructureGates(x, m) ==
  Through(<< NotApplicable(x, {"JPEG"}, 1, Unbounded), Unreadable(x),
             Gate(Parse(m).raised, "raised") >>)
StructureFiles == << File("jpeg_structure_analysis.json", "evidence") >>
StructureObserved(m) == [ANOMALY_COUNT |-> Anomalous(Parse(m).odd # {})]

-----------------------------------------------------------------------------
(* qt_engine.py *)

QTGates(x, m) ==
  Through(<< NotApplicable(x, {"JPEG"}, 1, Unbounded), Unreadable(x),
             Gate(Parse(m).raised, "raised"), Gate(Parse(m).dqt = <<>>, "failed") >>)

(* The table of the luminance: table 0, or the one that component Y refers *)
(* to. Without one no quality is estimated.                                *)
HasLuminance(s) ==
  \E t \in ToSet(s.dqt) : t = 0 \/ (s.refs # <<>> /\ s.refs[1] = t)
EstimatedQuality(m) ==
  IF HasLuminance(Parse(m)) THEN Quality(WrittenAt(m.quality)) ELSE NotEstimated

QTFiles == << File("jpeg_qt_analysis.json", "evidence") >>
QTObserved == [TABLE_COUNT |-> "nominal"]

-----------------------------------------------------------------------------
(* huffman_engine.py *)

HuffmanGates(x, m) ==
  LET s == Parse(m) IN
  Through(<< NotApplicable(x, {"JPEG"}, 1, Unbounded), Unreadable(x), Gate(s.raised, "raised"),
             Gate(s.dht = <<>> /\ "DAC" \in s.names, "not_applicable"),
             Gate(s.dht = <<>>, "failed") >>)

CustomTables(s) == {i \in DOMAIN s.dht : s.dht[i]}

HuffmanFiles == << File("jpeg_huffman_analysis.json", "evidence") >>
HuffmanObserved(m) ==
  [TABLE_COUNT |-> IF CustomTables(Parse(m)) # {} THEN "custom_entropy" ELSE "standard_baseline"]

-----------------------------------------------------------------------------
(* The parser, which reads a file in two nested loops, against the format.  *)
JudgedSoundly ==
  \A stream \in Streams :
    /\ Nominal(stream) => Matching(stream)
    /\ Framed(stream) /\ SingleScan(stream) => Nominal(stream)

(* The estimate, whose scale is not a whole number, against libjpeg.        *)
QualitiesExact == \A q \in 1 .. 100 : Quality(WrittenAt(q)) = q
=============================================================================
