------------------------------ MODULE JpegStream ------------------------------
(***************************************************************************)
(* What the JPEG engines read out of a file: the marker parser             *)
(* (jpeg/parser.py) as a fold over the tokens that follow SOI, and the     *)
(* estimate of the quality a quantization table was written with           *)
(* (jpeg/qt_engine.py).                                                    *)
(*                                                                         *)
(* A token is a marker with its payload, or a run of bytes without marker: *)
(*   k     "bytes", "pad" (an 0xFF), "EOI", "RST", "short" (a marker whose *)
(*         length field is missing or below 2), or a segment               *)
(*   id    the table a DQT segment defines                                 *)
(*   refs  the tables the components of a SOF segment refer to             *)
(*   flaw  "none", "cut" (the payload runs into the end of the file),      *)
(*         "zero" (a frame without extent), "wide" (a quantization table   *)
(*         of undefined precision), "custom" (not a table of Annex K)      *)
(***************************************************************************)
EXTENDS Integers, Sequences, SequencesExt

Segments == {"DQT", "DHT", "DRI", "SOF", "SOS", "DAC", "APP"}
Kinds == Segments \cup {"bytes", "pad", "RST", "EOI", "short"}

(* A token has a flaw only if its kind can have it. *)
Token ==
  {t \in [k : Kinds, id : Nat, refs : Seq(Nat), flaw : {"none", "cut", "zero", "wide", "custom"}] :
     /\ t.flaw = "cut" => t.k \in Segments
     /\ t.flaw = "zero" => t.k = "SOF"
     /\ t.flaw = "wide" => t.k = "DQT"}

(* Every marker has a name but those the table does not list: DAC is one.  *)
MarkerName(t) == IF t.k = "DAC" THEN "UNK" ELSE t.k

Blank == [mode |-> "head", odd |-> {}, names |-> {}, sof |-> FALSE,
          refs |-> <<>>, dqt |-> <<>>, dht |-> <<>>, raised |-> FALSE]

Odd(s, a) == [s EXCEPT !.odd = @ \cup {a}]
Named(s, t) == [s EXCEPT !.names = @ \cup {MarkerName(t)}]
End(s) == [s EXCEPT !.mode = "end"]

(* EOI ends the parse; bytes behind it are an anomaly.                     *)
AtEOI(s, last) == End(IF last THEN s ELSE Odd(s, "trailing"))

(* A table that is cut short is not kept; one of undefined precision makes *)
(* bytes() raise a ValueError that nothing in the parser catches.          *)
ReadDQT(s, t) ==
  CASE t.flaw = "cut"  -> Odd(s, "table")
    [] t.flaw = "wide" -> [s EXCEPT !.raised = TRUE]
    [] OTHER           -> [s EXCEPT !.dqt = Append(@, t.id)]

ReadDHT(s, t) ==
  IF t.flaw = "cut" THEN Odd(s, "table") ELSE [s EXCEPT !.dht = Append(@, t.flaw = "custom")]

ReadDRI(s, t) == IF t.flaw = "cut" THEN Odd(s, "restart") ELSE s

(* The components of the last frame header replace those of the others.    *)
ReadSOF(s, t) ==
  LET seen == [(IF s.sof THEN Odd(s, "duplicate") ELSE s) EXCEPT !.sof = TRUE]
  IN  CASE t.flaw = "cut"  -> Odd(seen, "frame")
        [] t.flaw = "zero" -> [Odd(seen, "extent") EXCEPT !.refs = t.refs]
        [] OTHER           -> [seen EXCEPT !.refs = t.refs]

ReadSOS(s, t) == [(IF t.flaw = "cut" THEN Odd(s, "scan") ELSE s) EXCEPT !.mode = "scan"]

(* A payload that runs into the end of the file is parsed all the same,    *)
(* and ends the loop.                                                      *)
Segment(s, t) ==
  LET whole == CASE t.k = "DQT" -> ReadDQT(s, t)
                 [] t.k = "DHT" -> ReadDHT(s, t)
                 [] t.k = "DRI" -> ReadDRI(s, t)
                 [] t.k = "SOF" -> ReadSOF(s, t)
                 [] t.k = "SOS" -> ReadSOS(s, t)
                 [] OTHER       -> s
  IN  IF t.flaw # "cut" THEN whole
      ELSE IF t.k = "SOS" THEN Odd(whole, "truncated")
      ELSE End(Odd(whole, "truncated"))

(* The loop over the header: up to the first scan.                         *)
InHeader(s, t, last) ==
  CASE t.k = "bytes" -> Odd(s, "garbage")
    [] t.k = "pad"   -> IF last THEN End(Odd(s, "padding")) ELSE s
    [] t.k = "RST"   -> Named(s, t)
    [] t.k = "EOI"   -> AtEOI(Named(s, t), last)
    [] t.k = "short" -> End(Odd(Named(s, t), "length"))
    [] OTHER         -> Segment(Named(s, t), t)

(* Mutant: restart markers end the scan.                                   *)
InScanNoRestart(s, t, last) ==
  CASE t.k \in {"bytes", "pad"} -> s
    [] t.k = "EOI"              -> AtEOI(Named(s, t), last)
    [] OTHER                    -> End(s)

(* The loop over the entropy-coded data: any marker but RST and EOI leaves *)
(* it, and with it the loop over the header.                               *)
InScan(s, t, last) ==
  CASE t.k \in {"bytes", "pad"} -> s
    [] t.k = "RST"              -> Named(s, t)
    [] t.k = "EOI"              -> AtEOI(Named(s, t), last)
    [] OTHER                    -> End(s)

Step(s, t, last) ==
  IF s.mode = "end" \/ s.raised THEN s
  ELSE IF s.mode = "head" THEN InHeader(s, t, last) ELSE InScan(s, t, last)

(* The checks after the loop.                                              *)
CrossChecks(s) ==
  {a \in {"noEOI", "noSOF", "undefined"} :
     CASE a = "noEOI" -> "EOI" \notin s.names
       [] a = "noSOF" -> ~s.sof
       [] OTHER       -> \E c \in ToSet(s.refs) : c \notin ToSet(s.dqt)}

Parsed(stream) ==
  LET read[n \in 0 .. Len(stream)] ==
        IF n = 0 THEN Blank ELSE Step(read[n - 1], stream[n], n = Len(stream))
      s == read[Len(stream)]
  IN  [s EXCEPT !.odd = @ \cup CrossChecks(s)]

Nominal(stream) == LET s == Parsed(stream) IN s.odd = {} /\ ~s.raised

-----------------------------------------------------------------------------
(* What the parser has no objection to, told without its loops: one frame  *)
(* with its tables, no data outside a scan, at most one scan and nothing   *)
(* behind it but EOI, at the very end.                                     *)
Unobjected(stream) ==
  LET At(k) == {i \in 1 .. Len(stream) : stream[i].k = k}
      defined == {stream[i].id : i \in At("DQT")}
  IN  /\ At("EOI") = {Len(stream)}
      /\ At("short") = {}
      /\ \A i \in 1 .. Len(stream) : stream[i].flaw \notin {"cut", "zero", "wide"}
      /\ \E f \in At("SOF") : /\ At("SOF") = {f}
                              /\ \A s \in At("SOS") : f < s
                              /\ ToSet(stream[f].refs) \subseteq defined
      /\ \A b \in At("bytes") : \E s \in At("SOS") : s < b
      /\ \A s \in At("SOS") :
           \A i \in s + 1 .. Len(stream) - 1 : stream[i].k \in {"bytes", "pad", "RST"}

-----------------------------------------------------------------------------
(* The format (docs/JPEG_STRUCTURE_ANALYSIS.md:10-14 and :57, T.81 B.1 and  *)
(* B.2), told without the parser.                                          *)
Marks(stream, k) == {i \in 1 .. Len(stream) : stream[i].k = k}

(* One frame header with an extent and with its tables, no broken segment, *)
(* no data before the first scan, and EOI at the very end.                 *)
Matching(stream) ==
  /\ Marks(stream, "EOI") = {Len(stream)}
  /\ Marks(stream, "short") = {}
  /\ \A i \in 1 .. Len(stream) : stream[i].flaw \notin {"cut", "zero", "wide"}
  /\ \E f \in Marks(stream, "SOF") :
       /\ Marks(stream, "SOF") = {f}
       /\ ToSet(stream[f].refs) \subseteq {stream[i].id : i \in Marks(stream, "DQT")}
  /\ \A b \in Marks(stream, "bytes") : \E s \in Marks(stream, "SOS") : s < b

(* The entropy-coded data of a scan, the restart markers among it.         *)
InScanOf(stream, s, i) == s < i /\ \A j \in s + 1 .. i : stream[j].k \in {"bytes", "pad", "RST"}

(* The frame header comes before its scans, of which there are any number  *)
(* but none; each has data, what tables stand between belong to a scan that *)
(* follows, and data and restart markers are found in scans only.          *)
Framed(stream) ==
  LET scans == Marks(stream, "SOS") IN
  /\ Matching(stream)
  /\ scans # {}
  /\ \A s \in scans : stream[s + 1].k = "bytes" /\ \A f \in Marks(stream, "SOF") : f < s
  /\ \A i \in 1 .. Len(stream) :
       /\ stream[i].k \in {"bytes", "RST"} => \E s \in scans : InScanOf(stream, s, i)
       /\ stream[i].k \in Segments \ {"SOS"} => \E s \in scans : i < s

SingleScan(stream) == \A r, s \in Marks(stream, "SOS") : r = s

-----------------------------------------------------------------------------
(* The luminance table of the Independent JPEG Group.                      *)
Luminance == <<
  16, 11, 10, 16, 24, 40, 51, 61, 12, 12, 14, 19, 26, 58, 60, 55,
  14, 13, 16, 24, 40, 57, 69, 56, 14, 17, 22, 29, 51, 87, 80, 62,
  18, 22, 37, 56, 68, 109, 103, 77, 24, 35, 55, 64, 81, 104, 113, 92,
  49, 64, 78, 87, 103, 121, 120, 101, 72, 92, 95, 98, 112, 100, 103, 99>>

Clamped(v) == CASE v < 1 -> 1 [] v > 255 -> 255 [] OTHER -> v

(* The table libjpeg writes at quality q: the scale is a whole number.     *)
WrittenAt(q) ==
  LET scale == IF q < 50 THEN 5000 \div q ELSE 200 - 2 * q
  IN  [i \in 1 .. 64 |-> Clamped((Luminance[i] * scale + 50) \div 100)]

(* The table the engine compares with: its scale is 5000 / q.              *)
Scaled(q) ==
  IF q < 50 THEN [i \in 1 .. 64 |-> Clamped((Luminance[i] * 5000 + 50 * q) \div (100 * q))]
  ELSE [i \in 1 .. 64 |-> Clamped((Luminance[i] * (200 - 2 * q) + 50) \div 100)]

(* 64 times the mean deviation of two tables.                              *)
Deviation(a, b) ==
  LET sum[i \in 0 .. 64] ==
        IF i = 0 THEN 0
        ELSE sum[i - 1] + (IF a[i] < b[i] THEN b[i] - a[i] ELSE a[i] - b[i])
  IN  sum[64]

NotEstimated == 0
NoFit == [quality |-> NotEstimated, far |-> 64 * 255 + 1]
Accepted(best) == IF 2 * best.far <= 5 * 64 THEN best.quality ELSE NotEstimated

(* Mutant: a quality that fits is not compared with those after it.        *)
CloserFirstFit(far, best) == far < best.far /\ 2 * best.far > 5 * 64
Closer(far, best) == far < best.far

(* The first quality of least mean deviation, if that is at most 2.5.      *)
Quality(table) ==
  LET best[q \in 0 .. 100] ==
        IF q = 0 THEN NoFit
        ELSE LET so == best[q - 1]
                 far == Deviation(Scaled(q), table)
             IN  IF Closer(far, so) THEN [quality |-> q, far |-> far] ELSE so
  IN  Accepted(best[100])
=============================================================================
