----------------------------- MODULE MCEngineRuns -----------------------------
EXTENDS EngineRuns

CONSTANTS c1, c2, e1, e2, r1, r2

Image(format, row, real, file) == [format |-> format, row |-> row, real |-> real, file |-> file]
Photo == Image("JPEG", {1000, 800}, {1000, 800}, "fine")
MCImages ==
  {Photo,
   Image("PNG", {1000, 800}, {1000, 800}, "fine"),
   Image("GIF", {1000, 800}, {1000, 800}, "fine"),
   Image("JPEG", {1000, 800}, {1000, 800}, "missing"),
   Image("JPEG", {1000, 800}, {1000, 800}, "garbled"),
   Image("JPEG", {1000, 20}, {1000, 20}, "fine"),
   Image("JPEG", {1000, 800}, {12, 10}, "fine"),        \* the row is not the file's
   Image("JPEG", {5000, 40}, {5000, 40}, "fine"),
   Image("PNG", {9000, 8000}, {9000, 8000}, "fine")}
Pair(image) == e1 :> image @@ e2 :> Photo

(* One caller and an engine of any kind on an image of any kind; every     *)
(* engine next to a run of another item or of another engine; and the      *)
(* engines that read the references while those change.                    *)
MCScenes ==
  {[pic |-> Pair(image), asks |-> c1 :> Engine @@ c2 :> {}, moves |-> {}, runs |-> 1] : image \in MCImages}
  \cup {[pic |-> Pair(Photo), asks |-> c1 :> Extension \ {"CAMERA-ID"} @@ c2 :> {E}, moves |-> {}, runs |-> 2] :
           E \in {"BLOCKING-ARTIFACT", "JPEG-GHOST"}}
  \cup {[pic |-> Pair(Photo), asks |-> c1 :> {"CAMERA-ID"} @@ c2 :> {"PRNU"}, moves |-> {r1, r2}, runs |-> 1]}

T(k, id, refs, flaw) == [k |-> k, id |-> id, refs |-> refs, flaw |-> flaw]
Dqt == T("DQT", 0, <<>>, "none")
Chroma == T("DQT", 1, <<>>, "none")
Sof == T("SOF", 0, <<0>>, "none")
Color == T("SOF", 0, <<0, 1>>, "none")
Dht == T("DHT", 0, <<>>, "none")
Custom == T("DHT", 0, <<>>, "custom")
Sos == T("SOS", 0, <<>>, "none")
Rst == T("RST", 0, <<>>, "none")
Data == T("bytes", 0, <<>>, "none")
Eoi == T("EOI", 0, <<>>, "none")
Wide == T("DQT", 0, <<>>, "wide")
Dac == T("DAC", 0, <<>>, "none")

Scan == <<Dqt, Sof, Dht, Sos, Data, Rst, Data, Eoi>>
MCSamples ==
  {Scan, <<Dqt, Sof, Custom, Sos, Data, Eoi>>, <<Dqt, Sof, Dht, Sos, Data>>,
   <<Dqt, Sof, Dac, Sos, Data, Eoi>>, <<Sof, Dht, Sos, Data, Eoi>>, <<Wide, Sof, Sos, Data, Eoi>>}

(* Every stream of four tokens, and every change of one token, or two, in  *)
(* well-formed streams; and files of several scans, of which the last has   *)
(* a table of its own.                                                     *)
Tokens ==
  {Dqt, Chroma, Sof, Color, Dht, Sos, Rst, Data, Eoi, Wide, T("pad", 0, <<>>, "none"),
   T("short", 0, <<>>, "none"), T("SOF", 0, <<0>>, "zero"), T("DQT", 0, <<>>, "cut"),
   T("SOS", 0, <<>>, "cut"), T("APP", 0, <<>>, "cut")}
Baseline == {Scan, <<Dqt, Chroma, Color, Dht, Sos, Data, T("pad", 0, <<>>, "none"), Eoi>>}
Progressive ==
  {<<Dqt, Sof, Dht, Sos, Data, Sos, Data, Eoi>>,
   <<Dqt, Chroma, Color, Dht, Sos, Data, Dht, Sos, Data, Rst, Data, Eoi>>}
Changed(streams) ==
  {[s EXCEPT ![i] = t] : s \in streams, i \in 1 .. 8, t \in Tokens}
(* A length beyond the end of the file ends it, and fill bytes before a     *)
(* byte that is no marker are read as a marker's.                           *)
Possible(s) ==
  \A i \in 1 .. Len(s) - 1 : s[i].flaw # "cut" /\ ~(s[i].k = "pad" /\ s[i + 1].k = "bytes")
MCStreams ==
  {s \in [1 .. 4 -> Tokens] \cup Progressive \cup Changed(Changed(Baseline))
          \cup {SubSeq(w, 1, n) : w \in Baseline, n \in 0 .. 8} : Possible(s)}

(* Files without a scan, or with a restart marker outside of any. *)
Unscanned == {<<Dqt, Sof, Dht, Eoi>>, <<Dqt, Rst, Sof, Dht, Sos, Data, Eoi>>}

MCQualities == {50, 90}
=============================================================================
