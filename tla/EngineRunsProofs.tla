-------------------------- MODULE EngineRunsProofs --------------------------
(***************************************************************************)
(* For any number of callers, runs, evidence items and references, and for *)
(* whatever the engines measure: a row is running only while it is being   *)
(* worked on or after a fault that explains it, only completed rows carry  *)
(* observations and files, the files that they record exist, no run writes *)
(* to a row that has ended, and a camera is named only by a comparison     *)
(* that bears it out. And for streams of any length: what the marker       *)
(* parser objects to, and which well-formed streams that spoils.           *)
(***************************************************************************)
EXTENDS EngineRuns, FiniteSetTheorems, WellFoundedInduction, TLAPS

(* A row and the state of a caller are records with these fields. *)
IsRow(r) ==
  /\ DOMAIN r = {"engine", "evidence", "status", "left", "recorded", "metrics", "scores"}
  /\ r = [field \in DOMAIN r |-> r[field]]
IsRun(r) ==
  /\ DOMAIN r = {"pc", "row", "m", "refs", "scores", "todo", "recorded", "metrics", "ending"}
  /\ r = [field \in DOMAIN r |-> r[field]]

(* The table is a sequence of rows, and each caller has its state. *)
Shape ==
  /\ \E S : rows \in Seq(S)
  /\ \A i \in RowId : IsRow(rows[i])
  /\ run = [c \in Caller |-> run[c]]
  /\ \A c \in Caller : IsRun(run[c])

(* A row that has not ended has nothing stored yet. *)
Open(r) == r.status = "running" /\ r.left = "none" /\ DOMAIN r.metrics = {} /\ r.recorded = {}

(* What a caller and its row know of each other at each point of the run:  *)
(* it works on a row of its own, open until the commit.                    *)
Steps == {"execute", "compare", "write", "commit"}
Working ==
  /\ \A c \in Caller : run[c].pc \in Steps \cup {"idle", "refresh"}
  /\ \A c \in Caller : run[c].pc # "idle" => run[c].row \in RowId
  /\ \A c, d \in Caller : run[c].pc # "idle" /\ run[d].pc # "idle" /\ run[c].row = run[d].row => c = d
  /\ \A c \in Caller : run[c].pc \in Steps => Open(rows[run[c].row])
  /\ \A c \in Caller : run[c].pc = "refresh" =>
       rows[run[c].row].status \in {"completed", "not_applicable"} /\ rows[run[c].row].left = "none"
  /\ \A c \in Caller : run[c].pc = "commit" => run[c].ending \in {"completed", "failed", "not_applicable"}
  /\ \A c \in Caller : run[c].pc \in {"execute", "compare"} => run[c].recorded = {}

(* A row has none of the statuses but these. *)
Statuses == \A i \in RowId : rows[i].status \in Status /\ rows[i].engine \in Engine /\ rows[i].evidence \in Evidence

(* A file is on the disk because of a run; one that is named after an item *)
(* is of that item.                                                        *)
DiskHeld ==
  \A name \in DOMAIN disk :
    disk[name] \in RowId /\ (name.evidence # NoEvidence => rows[disk[name]].evidence = name.evidence)

(* What a caller has recorded so far it has found on the disk. *)
Recording ==
  \A c \in Caller : run[c].pc \in Steps /\ rows[run[c].row].engine \in Extension =>
    \A name \in run[c].recorded :
      name \in DOMAIN disk /\ name.evidence \in {NoEvidence, rows[run[c].row].evidence}

(* The scene is one of those given. *)
SceneGiven == scene \in Scenes

(* And so have the rows. *)
RowsBacked ==
  \A i \in RowId : rows[i].status = "completed" /\ rows[i].engine \in Extension =>
    \A name \in rows[i].recorded :
      name \in DOMAIN disk /\ name.evidence \in {NoEvidence, rows[i].evidence}

Inv ==
  /\ Shape /\ Working /\ Statuses /\ RunningExplained /\ ObservationsBacked
  /\ DiskHeld /\ Recording /\ RowsBacked /\ SceneGiven

-----------------------------------------------------------------------------
(* The table and the callers *)

(* A row is appended after those that there are. *)
LEMMA Appended ==
  ASSUME NEW S, rows \in Seq(S), NEW r, rows' = Append(rows, r)
  PROVE  /\ \E T : rows' \in Seq(T)
         /\ Len(rows) \in Nat /\ Len(rows') = Len(rows) + 1
         /\ \A i \in RowId : rows'[i] = rows[i]
         /\ rows'[Len(rows) + 1] = r
<1>1. rows \in Seq(S \cup {r})  OBVIOUS
<1>2. Append(rows, r) \in Seq(S \cup {r})  BY <1>1
<1>3. Len(rows) \in Nat /\ Len(rows') = Len(rows) + 1  BY <1>1
<1>4. \A i \in RowId : rows'[i] = rows[i]  BY <1>1 DEF RowId
<1>5. rows'[Len(rows) + 1] = r  BY <1>1
<1> QED  BY <1>2, <1>3, <1>4, <1>5

(* One row is replaced. *)
LEMMA Replaced ==
  ASSUME NEW S, rows \in Seq(S), NEW i \in RowId, NEW r, rows' = [rows EXCEPT ![i] = r]
  PROVE  /\ \E T : rows' \in Seq(T)
         /\ Len(rows) \in Nat /\ Len(rows') = Len(rows) /\ rows'[i] = r
         /\ \A j \in RowId \ {i} : rows'[j] = rows[j]
<1>1. rows \in Seq(S \cup {r}) /\ i \in 1 .. Len(rows)  BY DEF RowId
<1>2. rows' \in Seq(S \cup {r})  BY <1>1
<1>3. Len(rows) \in Nat /\ Len(rows') = Len(rows) /\ rows'[i] = r  BY <1>1
<1>4. \A j \in RowId \ {i} : rows'[j] = rows[j]  BY <1>1 DEF RowId
<1> QED  BY <1>2, <1>3, <1>4

(* A caller starts with nothing. *)
LEMMA IdleRun == IsRun(Idle) /\ Idle.pc = "idle" /\ Idle.recorded = {}
BY DEF IsRun, Idle

(* A step of one caller leaves the states of the others. *)
LEMMA Moved ==
  ASSUME Shape, NEW c \in Caller, NEW r, IsRun(r), run' = [run EXCEPT ![c] = r]
  PROVE  /\ run' = [d \in Caller |-> run'[d]] /\ run'[c] = r
         /\ \A d \in Caller \ {c} : run'[d] = run[d]
         /\ \A d \in Caller : IsRun(run'[d])
<1>1. run = [d \in Caller |-> run[d]]  BY DEF Shape
<1>2. run' = [d \in Caller |-> run'[d]] /\ run'[c] = r /\ \A d \in Caller \ {c} : run'[d] = run[d]
  BY <1>1
<1> QED  BY <1>2 DEF Shape

(* The files that were recorded stay on the disk. *)
LEMMA DiskGrows ==
  ASSUME Inv, UNCHANGED rows, DOMAIN disk \subseteq DOMAIN disk'
  PROVE  RowsBacked'
BY DEF Inv, RowsBacked, RowId

(* A step of a run before its end. *)
LEMMA Advance ==
  ASSUME Inv, NEW c \in Caller, NEW r, IsRun(r), run' = [run EXCEPT ![c] = r], UNCHANGED rows,
         UNCHANGED scene, run[c].pc \in Steps, r.pc \in Steps, r.row = run[c].row,
         r.pc = "commit" => r.ending \in {"completed", "failed", "not_applicable"},
         r.pc \in {"execute", "compare"} => r.recorded = {},
         DOMAIN disk \subseteq DOMAIN disk', DiskHeld',
         Row(c).engine \in Extension =>
           \A name \in r.recorded : name \in DOMAIN disk' /\ name.evidence \in {NoEvidence, Row(c).evidence}
  PROVE  Inv'
<1>1. /\ run' = [d \in Caller |-> run'[d]] /\ run'[c] = r
      /\ \A d \in Caller \ {c} : run'[d] = run[d]
      /\ \A d \in Caller : IsRun(run'[d])
  BY Moved DEF Inv
<1>2. Shape'
  <2>1. \E S : rows' \in Seq(S)  BY DEF Inv, Shape
  <2>2. \A i \in RowId' : IsRow(rows'[i])  BY DEF Inv, Shape, RowId
  <2> QED  BY <1>1, <2>1, <2>2 DEF Shape
<1>3. r.pc # "idle" /\ r.pc # "refresh" /\ run[c].pc # "idle"  BY DEF Steps
<1>4. Working'
  <2>1. \A d \in Caller : run'[d].pc \in Steps \cup {"idle", "refresh"}  BY <1>1 DEF Inv, Working
  <2>2. \A d \in Caller : run'[d].pc # "idle" => run[d].pc # "idle" /\ run'[d].row = run[d].row
    BY <1>1, <1>3
  <2>3. \A d \in Caller : run'[d].pc \in Steps => run[d].pc \in Steps /\ run'[d].row = run[d].row  BY <1>1
  <2>4. \A d \in Caller : run'[d].pc = "refresh" => run[d].pc = "refresh" /\ run'[d].row = run[d].row
    BY <1>1, <1>3
  <2>5. \A d \in Caller : run'[d].pc = "commit" => run'[d].ending \in {"completed", "failed", "not_applicable"}
    BY <1>1 DEF Inv, Working
  <2>6. \A d \in Caller : run'[d].pc \in {"execute", "compare"} => run'[d].recorded = {}
    BY <1>1 DEF Inv, Working
  <2> QED  BY <2>1, <2>2, <2>3, <2>4, <2>5, <2>6 DEF Inv, Working, RowId
<1>5. Statuses' /\ ObservationsBacked'  BY DEF Inv, Statuses, ObservationsBacked, RowId
<1>6. RunningExplained'
  <2>1. ASSUME NEW i \in RowId, Doing(i) PROVE Doing(i)'
    <3>1. PICK d \in Caller : run[d].pc # "idle" /\ run[d].row = i  BY <2>1 DEF Doing
    <3>2. run'[d].pc # "idle" /\ run'[d].row = i  BY <1>1, <1>3, <3>1
    <3> QED  BY <3>2 DEF Doing
  <2> QED  BY <2>1 DEF Inv, RunningExplained, RowId
<1>7. Recording'
  <2> SUFFICES ASSUME NEW d \in Caller, run'[d].pc \in Steps, rows[run'[d].row].engine \in Extension,
                      NEW name \in run'[d].recorded
               PROVE  name \in DOMAIN disk' /\ name.evidence \in {NoEvidence, rows[run'[d].row].evidence}
    BY DEF Recording
  <2>1. CASE d = c  BY <1>1, <2>1 DEF Row
  <2>2. CASE d # c
    <3>1. run'[d] = run[d]  BY <1>1, <2>2
    <3> QED  BY <3>1 DEF Inv, Recording
  <2> QED  BY <2>1, <2>2
<1>8. RowsBacked'  BY DiskGrows
<1>9. SceneGiven'  BY DEF Inv, SceneGiven
<1> QED  BY <1>2, <1>4, <1>5, <1>6, <1>7, <1>8, <1>9 DEF Inv

(* A step that writes the row, after which the caller rests or refreshes.  *)
LEMMA Close ==
  ASSUME Inv, NEW c \in Caller, run[c].pc # "idle", NEW r, IsRun(r), NEW q, IsRow(q),
         run' = [run EXCEPT ![c] = r], rows' = [rows EXCEPT ![run[c].row] = q], UNCHANGED <<scene, disk>>,
         q.engine = Row(c).engine, q.evidence = Row(c).evidence, q.status \in Status,
         \/ r.pc = "idle" /\ (q.status = "running" => q.left # "none")
         \/ r.pc = "refresh" /\ r.row = run[c].row /\ q.status \in {"completed", "not_applicable"} /\ q.left = "none",
         DOMAIN q.metrics # {} \/ q.recorded # {} => q.status = "completed" \/ q.left = "refresh",
         q.status = "completed" /\ q.engine \in Extension =>
           \A name \in q.recorded : name \in DOMAIN disk /\ name.evidence \in {NoEvidence, q.evidence}
  PROVE  Inv'
<1> DEFINE i == run[c].row
<1>1. i \in RowId  BY DEF Inv, Working
<1>2. /\ \E T : rows' \in Seq(T)
      /\ Len(rows) \in Nat /\ Len(rows') = Len(rows) /\ rows'[i] = q
      /\ \A j \in RowId \ {i} : rows'[j] = rows[j]
  <2>1. PICK S : rows \in Seq(S)  BY DEF Inv, Shape
  <2> QED  BY <1>1, <2>1, Replaced
<1>3. /\ run' = [d \in Caller |-> run'[d]] /\ run'[c] = r
      /\ \A d \in Caller \ {c} : run'[d] = run[d]
      /\ \A d \in Caller : IsRun(run'[d])
  BY Moved DEF Inv
<1>4. RowId' = RowId  BY <1>2 DEF RowId
<1>5. \A d \in Caller \ {c} : run'[d] = run[d] /\ (run[d].pc # "idle" =>
        run[d].row \in RowId /\ run[d].row # i /\ rows'[run[d].row] = rows[run[d].row])
  BY <1>1, <1>2, <1>3 DEF Inv, Working
<1>6. rows[i].engine = q.engine /\ rows[i].evidence = q.evidence  BY DEF Row
<1> HIDE DEF i
<1>7. \A j \in RowId : rows'[j].engine = rows[j].engine /\ rows'[j].evidence = rows[j].evidence
  BY <1>2, <1>6
<1>8. Shape'
  <2>1. \A j \in RowId' : IsRow(rows'[j])  BY <1>2, <1>4 DEF Inv, Shape
  <2> QED  BY <1>2, <1>3, <2>1 DEF Shape
<1>9. r.pc \in {"idle", "refresh"} /\ r.pc \notin Steps /\ r.pc \notin {"execute", "compare", "commit"}
  BY DEF Steps
<1>10. Working'
  <2>1. \A d \in Caller : run'[d].pc \in Steps \cup {"idle", "refresh"}
    BY <1>3, <1>9 DEF Inv, Working
  <2>2. \A d \in Caller : run'[d].pc # "idle" => run[d].pc # "idle" /\ run'[d].row = run[d].row
    BY <1>3, <1>9
  <2>3. ASSUME NEW d \in Caller, run'[d].pc \in Steps PROVE Open(rows'[run'[d].row])
    <3>1. d # c /\ run[d].pc \in Steps  BY <1>3, <1>9, <2>3
    <3>2. run[d].pc # "idle"  BY <3>1 DEF Steps
    <3>3. run'[d] = run[d] /\ rows'[run[d].row] = rows[run[d].row]  BY <1>5, <3>1, <3>2
    <3> QED  BY <3>1, <3>3 DEF Inv, Working
  <2>4. ASSUME NEW d \in Caller, run'[d].pc = "refresh"
        PROVE  rows'[run'[d].row].status \in {"completed", "not_applicable"} /\ rows'[run'[d].row].left = "none"
    <3>1. CASE d = c  BY <1>2, <1>3, <2>4, <3>1 DEF i
    <3>2. CASE d # c
      <4>1. run'[d] = run[d] /\ rows'[run[d].row] = rows[run[d].row]  BY <1>5, <2>4, <3>2
      <4> QED  BY <2>4, <4>1 DEF Inv, Working
    <3> QED  BY <3>1, <3>2
  <2>5. \A d \in Caller : run'[d].pc = "commit" => run'[d].ending \in {"completed", "failed", "not_applicable"}
    BY <1>3, <1>9 DEF Inv, Working
  <2>6. \A d \in Caller : run'[d].pc \in {"execute", "compare"} => run'[d].recorded = {}
    BY <1>3, <1>9 DEF Inv, Working
  <2> QED  BY <1>4, <2>1, <2>2, <2>3, <2>4, <2>5, <2>6 DEF Inv, Working
<1>11. Statuses'  BY <1>2, <1>4, <1>7 DEF Inv, Statuses
<1>12. RunningExplained'
  <2> SUFFICES ASSUME NEW j \in RowId, rows'[j].status = "running" PROVE Doing(j)' \/ rows'[j].left # "none"
    BY <1>4 DEF RunningExplained
  <2>1. CASE j = i  BY <1>2, <2>1
  <2>2. CASE j # i
    <3>1. rows'[j] = rows[j]  BY <1>2, <2>2
    <3>2. CASE rows[j].left # "none"  BY <3>1, <3>2
    <3>3. CASE Doing(j)
      <4>1. PICK d \in Caller : run[d].pc # "idle" /\ run[d].row = j  BY <3>3 DEF Doing
      <4>2. d # c  BY <2>2, <4>1 DEF i
      <4> QED  BY <1>3, <4>1, <4>2 DEF Doing
    <3> QED  BY <3>1, <3>2, <3>3 DEF Inv, RunningExplained
  <2> QED  BY <2>1, <2>2
<1>13. ObservationsBacked'  BY <1>2, <1>4 DEF Inv, ObservationsBacked
<1>14. DiskHeld'  BY <1>4, <1>7 DEF Inv, DiskHeld
<1>15. Recording'
  <2> SUFFICES ASSUME NEW d \in Caller, run'[d].pc \in Steps, rows'[run'[d].row].engine \in Extension,
                      NEW name \in run'[d].recorded
               PROVE  name \in DOMAIN disk /\ name.evidence \in {NoEvidence, rows'[run'[d].row].evidence}
    BY DEF Recording
  <2>1. d # c  BY <1>3, <1>9
  <2>2. run'[d] = run[d]  BY <1>5, <2>1
  <2>3. rows'[run[d].row] = rows[run[d].row]  BY <1>5, <2>1, <2>2 DEF Steps
  <2> QED  BY <2>2, <2>3 DEF Inv, Recording
<1>16. RowsBacked'  BY <1>2, <1>4 DEF Inv, RowsBacked
<1>17. SceneGiven'  BY DEF Inv, SceneGiven
<1> QED  BY <1>8, <1>10, <1>11, <1>12, <1>13, <1>14, <1>15, <1>16, <1>17 DEF Inv

(* A step that leaves the row as it is: the caller just rests. *)
LEMMA RestStep ==
  ASSUME Inv, NEW c \in Caller, run[c].pc = "refresh", Rests(c), UNCHANGED <<scene, rows, disk>>
  PROVE  Inv'
<1> DEFINE q == Row(c)
<1>1. run[c].row \in RowId  BY DEF Inv, Working
<1>2. rows = [rows EXCEPT ![run[c].row] = q]
  <2>1. PICK S : rows \in Seq(S)  BY DEF Inv, Shape
  <2> QED  BY <1>1, <2>1 DEF Row
<1>3. IsRow(q) /\ q.status \in Status /\ q.status # "running"
  BY <1>1 DEF Inv, Shape, Statuses, Working, Row
<1>4. DOMAIN q.metrics # {} \/ q.recorded # {} => q.status = "completed" \/ q.left = "refresh"
  BY <1>1 DEF Inv, ObservationsBacked, Row
<1>5. q.status = "completed" /\ q.engine \in Extension =>
        \A name \in q.recorded : name \in DOMAIN disk /\ name.evidence \in {NoEvidence, q.evidence}
  BY <1>1 DEF Inv, RowsBacked, Row
<1>6. IsRun(Idle) /\ Idle.pc = "idle" /\ run' = [run EXCEPT ![c] = Idle]  BY IdleRun DEF Rests
<1>7. rows' = [rows EXCEPT ![run[c].row] = q]  BY <1>2
<1>8. q.engine = Row(c).engine /\ q.evidence = Row(c).evidence  OBVIOUS
<1> HIDE DEF q
<1> QED  BY <1>3, <1>4, <1>5, <1>6, <1>7, <1>8, Close

-----------------------------------------------------------------------------
(* The steps of a run *)

(* What a caller at work and its row are. *)
LEMMA AtWork ==
  ASSUME Inv, NEW c \in Caller, run[c].pc # "idle"
  PROVE  /\ run[c].row \in RowId /\ IsRun(run[c]) /\ IsRow(Row(c))
         /\ Row(c).status \in Status
         /\ run[c].pc \in Steps => Open(Row(c))
BY DEF Inv, Working, Shape, Statuses, Row

(* The row is created open, and is the caller's alone. *)
LEMMA BeginStep == ASSUME Inv, NEW c \in Caller, Begin(c) PROVE Inv'
<1>1. PICK e \in Evidence, E \in scene.asks[c] : rows' = Append(rows, NewRow(E, e))  BY DEF Begin
<1>2. PICK S : rows \in Seq(S)  BY DEF Inv, Shape
<1> DEFINE r == NewRow(E, e)
           n == Len(rows) + 1
           s == [Idle EXCEPT !.pc = "execute", !.row = n]
<1>3. IsRow(r) /\ Open(r) /\ r.status = "running" /\ r.evidence = e /\ r.engine = E /\ r.status # "completed"
      /\ r.status \in Status /\ DOMAIN r.metrics = {} /\ r.recorded = {}
  BY DEF NewRow, IsRow, Open, NoMetrics, Status
<1>4. IsRun(s) /\ s.pc = "execute" /\ s.row = n /\ s.recorded = {}
  BY IdleRun DEF IsRun
<1>5. run' = [run EXCEPT ![c] = s] /\ run[c].pc = "idle" /\ UNCHANGED <<scene, disk>>
  <2>1. run' = [run EXCEPT ![c] = s]  BY Zenon DEF Begin
  <2>2. run[c].pc = "idle" /\ UNCHANGED <<scene, disk>>  BY Zenon DEF Begin
  <2> QED  BY <2>1, <2>2
<1>6. E \in Engine
  <2>1. scene \in Scenes  BY DEF Inv, SceneGiven
  <2>2. scene.asks \in [Caller -> SUBSET Engine]  BY <2>1, RunsAssumption
  <2> QED  BY <1>1, <2>2
<1>7. rows' = Append(rows, r)  BY <1>1
<1> HIDE DEF r, s
<1>8. /\ \E T : rows' \in Seq(T)
      /\ Len(rows) \in Nat /\ Len(rows') = n
      /\ \A i \in RowId : rows'[i] = rows[i]
      /\ rows'[n] = r
  BY <1>2, <1>7, Appended
<1>9. RowId' = RowId \cup {n} /\ n \notin RowId  BY <1>8 DEF RowId
<1> HIDE DEF n
<1>10. /\ run' = [d \in Caller |-> run'[d]] /\ run'[c] = s
       /\ \A d \in Caller \ {c} : run'[d] = run[d]
       /\ \A d \in Caller : IsRun(run'[d])
  BY <1>4, <1>5, Moved DEF Inv
<1>11. \A d \in Caller \ {c} : run[d].pc # "idle" => run[d].row \in RowId /\ rows'[run[d].row] = rows[run[d].row]
  BY <1>8 DEF Inv, Working
<1>12. Shape'
  <2>1. \A i \in RowId' : IsRow(rows'[i])  BY <1>3, <1>8, <1>9 DEF Inv, Shape
  <2> QED  BY <1>8, <1>10, <2>1 DEF Shape
<1>13. Working'
  <2>1. \A d \in Caller : run'[d].pc \in Steps \cup {"idle", "refresh"}
    BY <1>4, <1>10 DEF Inv, Working, Steps
  <2>2. \A d \in Caller : run'[d].pc # "idle" => run'[d].row \in RowId'
    BY <1>4, <1>9, <1>10, <1>11
  <2>3. ASSUME NEW d \in Caller, NEW f \in Caller, run'[d].pc # "idle", run'[f].pc # "idle",
               run'[d].row = run'[f].row
        PROVE  d = f
    BY <1>4, <1>9, <1>10, <1>11, <2>3 DEF Inv, Working
  <2>4. \A d \in Caller : run'[d].pc \in Steps => Open(rows'[run'[d].row])
    <3> TAKE d \in Caller
    <3>1. CASE d = c  BY <1>3, <1>4, <1>8, <1>10, <3>1
    <3>2. CASE d # c
      <4>1. run[d].pc \in Steps => run[d].pc # "idle"  BY DEF Steps
      <4> QED  BY <1>10, <1>11, <3>2, <4>1 DEF Inv, Working
    <3> QED  BY <3>1, <3>2
  <2>5. \A d \in Caller : run'[d].pc = "refresh" =>
          rows'[run'[d].row].status \in {"completed", "not_applicable"} /\ rows'[run'[d].row].left = "none"
    BY <1>4, <1>10, <1>11 DEF Inv, Working
  <2>6. \A d \in Caller : run'[d].pc = "commit" => run'[d].ending \in {"completed", "failed", "not_applicable"}
    BY <1>4, <1>10 DEF Inv, Working
  <2>7. \A d \in Caller : run'[d].pc \in {"execute", "compare"} => run'[d].recorded = {}
    BY <1>4, <1>10 DEF Inv, Working
  <2> QED  BY <2>1, <2>2, <2>3, <2>4, <2>5, <2>6, <2>7 DEF Working
<1>14. Statuses'  BY <1>3, <1>6, <1>8, <1>9 DEF Inv, Statuses
<1>15. RunningExplained'
  <2> SUFFICES ASSUME NEW i \in RowId', rows'[i].status = "running" PROVE Doing(i)' \/ rows'[i].left # "none"
    BY DEF RunningExplained
  <2>1. CASE i = n  BY <1>4, <1>10, <2>1 DEF Doing
  <2>2. CASE i \in RowId
    <3>1. CASE rows[i].left # "none"  BY <1>8, <2>2, <3>1
    <3>2. CASE Doing(i)
      <4>1. PICK d \in Caller : run[d].pc # "idle" /\ run[d].row = i  BY <3>2 DEF Doing
      <4>2. d # c  BY <1>5, <4>1
      <4> QED  BY <1>10, <4>1, <4>2 DEF Doing
    <3> QED  BY <1>8, <2>2, <3>1, <3>2 DEF Inv, RunningExplained
  <2> QED  BY <1>9, <2>1, <2>2
<1>16. ObservationsBacked'  BY <1>3, <1>8, <1>9 DEF Inv, ObservationsBacked
<1>17. DiskHeld'  BY <1>5, <1>8, <1>9 DEF Inv, DiskHeld
<1>18. Recording'
  <2> SUFFICES ASSUME NEW d \in Caller, run'[d].pc \in Steps, rows'[run'[d].row].engine \in Extension,
                      NEW name \in run'[d].recorded
               PROVE  name \in DOMAIN disk /\ name.evidence \in {NoEvidence, rows'[run'[d].row].evidence}
    BY <1>5 DEF Recording
  <2>1. d # c  BY <1>4, <1>10
  <2>2. run'[d] = run[d] /\ run[d].pc # "idle"  BY <1>10, <2>1 DEF Steps
  <2> QED  BY <1>11, <2>1, <2>2 DEF Inv, Recording
<1>19. RowsBacked'  BY <1>3, <1>5, <1>8, <1>9 DEF Inv, RowsBacked
<1>20. SceneGiven'  BY <1>5 DEF Inv, SceneGiven
<1> QED  BY <1>12, <1>13, <1>14, <1>15, <1>16, <1>17, <1>18, <1>19, <1>20 DEF Inv

(* Every file of an engine is named after the evidence, or after no item.  *)
LEMMA NamedAfterItem ==
  \A f, e, n : Name(f, e, n).evidence \in {NoEvidence, e}
BY DEF Name

(* The engine applies or ends the run early; a ValueError leaves the row.  *)
LEMMA ExecuteStep == ASSUME Inv, NEW c \in Caller, Execute(c) PROVE Inv'
<1>1. run[c].pc = "execute" /\ UNCHANGED <<scene, disk>>  BY Zenon DEF Execute
<1>2. run[c].recorded = {}  BY <1>1 DEF Inv, Working
<1>3. run[c].pc # "idle" /\ run[c].pc \in Steps  BY <1>1 DEF Steps
<1>4. IsRun(run[c]) /\ IsRow(Row(c)) /\ Open(Row(c)) /\ run[c].row \in RowId  BY <1>3, AtWork
<1>5. run = [d \in Caller |-> run[d]]  BY DEF Inv, Shape
<1>6. DiskHeld' \/ rows' # rows  BY <1>1 DEF Inv, DiskHeld, RowId
<1>7. CASE /\ \E status \in {"not_applicable", "failed"} :
                run' = [run EXCEPT ![c].pc = "commit", ![c].ending = status]
           /\ UNCHANGED rows
  <2>1. PICK status \in {"not_applicable", "failed"} :
          run' = [run EXCEPT ![c].pc = "commit", ![c].ending = status]
    BY <1>7
  <2> DEFINE r == [run[c] EXCEPT !.pc = "commit", !.ending = status]
  <2>2. run' = [run EXCEPT ![c] = r]  BY <1>4, <1>5, <2>1 DEF IsRun
  <2>3. IsRun(r) /\ r.pc = "commit" /\ r.row = run[c].row /\ r.ending = status /\ r.recorded = {}
    BY <1>2, <1>4 DEF IsRun
  <2> HIDE DEF r
  <2>4. r.pc \in Steps /\ r.pc \notin {"execute", "compare"}  BY <2>3 DEF Steps
  <2> QED  BY <1>1, <1>3, <1>6, <1>7, <2>2, <2>3, <2>4, Advance
<1>8. CASE SetRow(c, [Row(c) EXCEPT !.left = "raised"]) /\ Rests(c)
  <2> DEFINE q == [Row(c) EXCEPT !.left = "raised"]
  <2>1. IsRow(q) /\ q.status = "running" /\ q.left = "raised" /\ DOMAIN q.metrics = {} /\ q.recorded = {}
        /\ q.engine = Row(c).engine /\ q.evidence = Row(c).evidence
    BY <1>4 DEF IsRow, Open
  <2>2. rows' = [rows EXCEPT ![run[c].row] = q]  BY <1>8 DEF SetRow, OwnRow
  <2> HIDE DEF q
  <2>3. IsRun(Idle) /\ Idle.pc = "idle" /\ run' = [run EXCEPT ![c] = Idle]
    BY <1>8, IdleRun DEF Rests
  <2>4. q.status \in Status /\ q.status # "completed"  BY <2>1 DEF Status
  <2> QED  BY <1>1, <1>3, <2>1, <2>2, <2>3, <2>4, Close
<1>9. CASE /\ \E todo, metrics :
                run' = [run EXCEPT ![c].pc = "write", ![c].todo = todo, ![c].metrics = metrics]
           /\ UNCHANGED rows
  <2>1. PICK todo, metrics :
          run' = [run EXCEPT ![c].pc = "write", ![c].todo = todo, ![c].metrics = metrics]
    BY <1>9
  <2> DEFINE r == [run[c] EXCEPT !.pc = "write", !.todo = todo, !.metrics = metrics]
  <2>2. run' = [run EXCEPT ![c] = r]  BY <1>4, <1>5, <2>1 DEF IsRun
  <2>3. IsRun(r) /\ r.pc = "write" /\ r.row = run[c].row /\ r.recorded = {}
    BY <1>2, <1>4 DEF IsRun
  <2> HIDE DEF r
  <2>4. r.pc \in Steps  BY <2>3 DEF Steps
  <2> QED  BY <1>1, <1>3, <1>6, <1>9, <2>2, <2>3, <2>4, Advance
<1>10. CASE /\ \E m, refs : run' = [run EXCEPT ![c].pc = "compare", ![c].m = m, ![c].refs = refs]
            /\ UNCHANGED rows
  <2>1. PICK m, refs : run' = [run EXCEPT ![c].pc = "compare", ![c].m = m, ![c].refs = refs]
    BY <1>10
  <2> DEFINE r == [run[c] EXCEPT !.pc = "compare", !.m = m, !.refs = refs]
  <2>2. run' = [run EXCEPT ![c] = r]  BY <1>4, <1>5, <2>1 DEF IsRun
  <2>3. IsRun(r) /\ r.pc = "compare" /\ r.row = run[c].row /\ r.recorded = {}
    BY <1>2, <1>4 DEF IsRun
  <2> HIDE DEF r
  <2>4. r.pc \in Steps  BY <2>3 DEF Steps
  <2> QED  BY <1>1, <1>3, <1>6, <1>10, <2>2, <2>3, <2>4, Advance
<1> QED
  <2>1. PICK q \in Request(Row(c).engine), m \in Facts(Row(c).engine) :
          \/ run' = [run EXCEPT ![c].pc = "commit", ![c].ending = "not_applicable"] /\ UNCHANGED rows
          \/ run' = [run EXCEPT ![c].pc = "commit", ![c].ending = "failed"] /\ UNCHANGED rows
          \/ SetRow(c, [Row(c) EXCEPT !.left = "raised"]) /\ Rests(c)
          \/ /\ run' = [run EXCEPT ![c].pc = "write",
                                   ![c].todo = Files(Row(c).engine, m, Loaded(Row(c).engine, q)),
                                   ![c].metrics = Observed(Row(c).engine, m, Loaded(Row(c).engine, q), <<>>)]
             /\ UNCHANGED rows
          \/ run' = [run EXCEPT ![c].pc = "compare", ![c].m = m, ![c].refs = Listed(q)] /\ UNCHANGED rows
    BY Zenon DEF Execute
  <2> QED  BY <1>7, <1>8, <1>9, <1>10, <2>1, Zenon

(* The comparisons with the references. *)
LEMMA CompareStep == ASSUME Inv, NEW c \in Caller, Compare(c) \/ Judge(c) PROVE Inv'
<1>1. run[c].pc = "compare" /\ UNCHANGED <<scene, rows, disk>>  BY DEF Compare, Judge
<1>2. run[c].recorded = {}  BY <1>1 DEF Inv, Working
<1>3. run[c].pc # "idle" /\ run[c].pc \in Steps  BY <1>1 DEF Steps
<1>4. IsRun(run[c])  BY <1>3, AtWork
<1>5. run = [d \in Caller |-> run[d]]  BY DEF Inv, Shape
<1>6. DiskHeld'  BY <1>1 DEF Inv, DiskHeld, RowId
<1>7. CASE Compare(c)
  <2>1. PICK ref \in run[c].refs :
          run' = [run EXCEPT ![c].refs = @ \ {ref},
                             ![c].scores = IF Readable(ref)
                                           THEN Append(@, Compared(run[c].m, ref)) ELSE @]
    BY <1>7 DEF Compare
  <2>2. PICK scores : run' = [run EXCEPT ![c].refs = @ \ {ref}, ![c].scores = scores]
    BY <2>1
  <2> DEFINE r == [run[c] EXCEPT !.refs = @ \ {ref}, !.scores = scores]
  <2>3. run' = [run EXCEPT ![c] = r]  BY <1>4, <1>5, <2>2 DEF IsRun
  <2>4. IsRun(r) /\ r.pc = "compare" /\ r.row = run[c].row /\ r.recorded = {}
    BY <1>1, <1>2, <1>4 DEF IsRun
  <2> HIDE DEF r
  <2>5. r.pc \in Steps  BY <2>4 DEF Steps
  <2> QED  BY <1>1, <1>3, <1>6, <2>3, <2>4, <2>5, Advance
<1>8. CASE Judge(c)
  <2>1. PICK todo, metrics :
          run' = [run EXCEPT ![c].pc = "write", ![c].m = Nothing, ![c].todo = todo, ![c].metrics = metrics]
    BY <1>8, Zenon DEF Judge
  <2> DEFINE r == [run[c] EXCEPT !.pc = "write", !.m = Nothing, !.todo = todo, !.metrics = metrics]
  <2>2. run' = [run EXCEPT ![c] = r]  BY <1>4, <1>5, <2>1 DEF IsRun
  <2>3. IsRun(r) /\ r.pc = "write" /\ r.row = run[c].row /\ r.recorded = {}
    BY <1>2, <1>4 DEF IsRun
  <2> HIDE DEF r
  <2>4. r.pc \in Steps  BY <2>3 DEF Steps
  <2> QED  BY <1>1, <1>3, <1>6, <2>2, <2>3, <2>4, Advance
<1> QED  BY <1>7, <1>8

(* The name of a file that is written next. *)
LEMMA NextNamed ==
  ASSUME NEW c \in Caller
  PROVE  NextName(c).evidence \in {NoEvidence, Row(c).evidence}
BY NamedAfterItem DEF NextName

(* A caller that records a file which is on the disk. *)
LEMMA RecordStep ==
  ASSUME Inv, NEW c \in Caller, run[c].pc = "write", run' = Recorded(c), UNCHANGED <<scene, rows>>,
         DOMAIN disk \subseteq DOMAIN disk', DiskHeld',
         Row(c).engine \in Extension => NextName(c) \in DOMAIN disk'
  PROVE  Inv'
<1>1. run[c].pc # "idle" /\ run[c].pc \in Steps  BY DEF Steps
<1>2. IsRun(run[c])  BY <1>1, AtWork
<1>3. run = [d \in Caller |-> run[d]]  BY DEF Inv, Shape
<1> DEFINE files == run[c].recorded \cup {NextName(c)}
           r == [run[c] EXCEPT !.todo = Tail(@), !.recorded = files]
<1>4. run' = [run EXCEPT ![c] = r]  BY <1>2, <1>3 DEF IsRun, Recorded
<1>5. IsRun(r) /\ r.pc = "write" /\ r.row = run[c].row /\ r.recorded = files  BY <1>2 DEF IsRun
<1>6. \A name \in files : name \in run[c].recorded \/ name = NextName(c)  OBVIOUS
<1> HIDE DEF r, files
<1>7. Row(c).engine \in Extension =>
        \A name \in r.recorded : name \in DOMAIN disk' /\ name.evidence \in {NoEvidence, Row(c).evidence}
  BY <1>1, <1>5, <1>6, NextNamed DEF Inv, Recording, Row
<1>8. r.pc \in Steps /\ r.pc # "commit" /\ r.pc \notin {"execute", "compare"}  BY <1>5 DEF Steps
<1> QED  BY <1>1, <1>4, <1>5, <1>7, <1>8, Advance

(* A caller that goes to the commit. *)
LEMMA CommitNext ==
  ASSUME Inv, NEW c \in Caller, run[c].pc = "write", NEW ending \in {"completed", "failed"},
         run' = [run EXCEPT ![c].pc = "commit", ![c].ending = ending], UNCHANGED <<scene, rows, disk>>
  PROVE  Inv'
<1>1. run[c].pc # "idle" /\ run[c].pc \in Steps  BY DEF Steps
<1>2. IsRun(run[c])  BY <1>1, AtWork
<1>3. run = [d \in Caller |-> run[d]]  BY DEF Inv, Shape
<1> DEFINE r == [run[c] EXCEPT !.pc = "commit", !.ending = ending]
<1>4. run' = [run EXCEPT ![c] = r]  BY <1>2, <1>3 DEF IsRun
<1>5. IsRun(r) /\ r.pc = "commit" /\ r.row = run[c].row /\ r.ending = ending /\ r.recorded = run[c].recorded
  BY <1>2 DEF IsRun
<1> HIDE DEF r
<1>6. r.pc \in Steps /\ r.pc \notin {"execute", "compare"}  BY <1>5 DEF Steps
<1>7. DiskHeld'  BY DEF Inv, DiskHeld, RowId
<1>8. Row(c).engine \in Extension =>
        \A name \in r.recorded : name \in DOMAIN disk' /\ name.evidence \in {NoEvidence, Row(c).evidence}
  BY <1>1, <1>5 DEF Inv, Recording, Row
<1> QED  BY <1>1, <1>4, <1>5, <1>6, <1>7, <1>8, Advance

(* The files are written, or the run is given up. *)
LEMMA WriteStep ==
  ASSUME Inv, NEW c \in Caller, Write(c) \/ Written(c) \/ WriteFails(c) \/ WriteLost(c)
  PROVE  Inv'
<1>1. run[c].pc = "write" /\ UNCHANGED <<scene, rows>>
  BY DEF Write, Written, WriteFails, WriteLost
<1>2. run[c].row \in RowId /\ Row(c).engine \in Engine
  BY <1>1, AtWork DEF Inv, Statuses, Row
<1>3. CASE Write(c)
  <2> DEFINE name == NextName(c)
  <2>1. disk' = [f \in DOMAIN disk \cup {name} |-> IF f = name THEN run[c].row ELSE disk[f]]
        /\ run' = Recorded(c)
    BY <1>3 DEF Write
  <2>2. name.evidence \in {NoEvidence, Row(c).evidence}  BY NextNamed
  <2> HIDE DEF name
  <2>3. DOMAIN disk' = DOMAIN disk \cup {name} /\ disk'[name] = run[c].row
        /\ \A f \in DOMAIN disk \ {name} : disk'[f] = disk[f]
    BY <2>1
  <2>4. DiskHeld'
    <3> SUFFICES ASSUME NEW f \in DOMAIN disk'
                 PROVE  disk'[f] \in RowId /\ (f.evidence # NoEvidence => rows[disk'[f]].evidence = f.evidence)
      BY <1>1 DEF DiskHeld, RowId
    <3>1. CASE f = name  BY <1>2, <2>2, <2>3, <3>1 DEF Row
    <3>2. CASE f # name  BY <2>3, <3>2 DEF Inv, DiskHeld
    <3> QED  BY <3>1, <3>2
  <2> QED  BY <1>1, <2>1, <2>3, <2>4, RecordStep DEF name
<1>4. CASE Written(c)
  <2>1. run' = [run EXCEPT ![c].pc = "commit", ![c].ending = "completed"] /\ UNCHANGED disk
    BY <1>4 DEF Written
  <2> QED  BY <1>1, <2>1, CommitNext
<1>5. CASE Abandon(c) /\ UNCHANGED disk  BY <1>1, <1>5, CommitNext DEF Abandon
<1>6. CASE (ReadsBack(c) => NextName(c) \in DOMAIN disk) /\ run' = Recorded(c) /\ UNCHANGED disk
  <2>1. Row(c).engine \in Extension => Row(c).engine # "COPY_MOVE"
    BY DEF Extension, StreamEngines, DoubleCompression, PixelEngines, CopyEngines, CaseEngines, PhysicalEngines
  <2>2. DiskHeld'  BY <1>1, <1>6 DEF Inv, DiskHeld, RowId
  <2> QED  BY <1>1, <1>6, <2>1, <2>2, RecordStep DEF ReadsBack
<1> QED
  <2>1. WriteFails(c) => Abandon(c) /\ UNCHANGED disk  BY DEF WriteFails
  <2>2. WriteLost(c) => \/ Abandon(c) /\ UNCHANGED disk
                        \/ (ReadsBack(c) => NextName(c) \in DOMAIN disk) /\ run' = Recorded(c) /\ UNCHANGED disk
    BY DEF WriteLost
  <2> QED  BY <1>3, <1>4, <1>5, <1>6, <2>1, <2>2

-----------------------------------------------------------------------------
(* The end of a run *)

(* What the commit writes of a run that completed is what it recorded.     *)
LEMMA EndedRow ==
  ASSUME Inv, NEW c \in Caller, run[c].pc = "commit"
  PROVE  /\ IsRow(Ended(c)) /\ Ended(c).status = run[c].ending /\ Ended(c).left = "none"
         /\ Ended(c).engine = Row(c).engine /\ Ended(c).evidence = Row(c).evidence
         /\ Ended(c).status \in {"completed", "failed", "not_applicable"}
         /\ DOMAIN Ended(c).metrics # {} \/ Ended(c).recorded # {} => Ended(c).status = "completed"
         /\ Ended(c).status = "completed" => Ended(c).recorded = run[c].recorded
<1>1. IsRow(Row(c)) /\ Open(Row(c))  BY AtWork DEF Steps
<1>2. run[c].ending \in {"completed", "failed", "not_applicable"}  BY DEF Inv, Working
<1>3. CASE run[c].ending = "completed"
  <2> DEFINE q == [Row(c) EXCEPT !.status = "completed", !.recorded = run[c].recorded,
                                 !.metrics = run[c].metrics, !.scores = run[c].scores]
  <2>1. Ended(c) = q  BY <1>3 DEF Ended
  <2>2. IsRow(q) /\ q.status = "completed" /\ q.left = Row(c).left /\ q.engine = Row(c).engine
        /\ q.evidence = Row(c).evidence /\ q.recorded = run[c].recorded
    BY <1>1 DEF IsRow
  <2> QED  BY <1>1, <1>3, <2>1, <2>2 DEF Open
<1>4. CASE run[c].ending # "completed"
  <2> DEFINE q == [Row(c) EXCEPT !.status = run[c].ending]
  <2>1. Ended(c) = q  BY <1>4 DEF Ended
  <2>2. IsRow(q) /\ q.status = run[c].ending /\ q.left = Row(c).left /\ q.engine = Row(c).engine
        /\ q.evidence = Row(c).evidence /\ q.recorded = Row(c).recorded /\ q.metrics = Row(c).metrics
    BY <1>1 DEF IsRow
  <2> QED  BY <1>1, <1>2, <1>4, <2>1, <2>2 DEF Open
<1> QED  BY <1>3, <1>4

(* The commit ends the row; so does the handler of its error. *)
LEMMA CommitStep == ASSUME Inv, NEW c \in Caller, Commit(c) \/ CommitFails(c) PROVE Inv'
<1>1. run[c].pc = "commit" /\ UNCHANGED <<scene, disk>>  BY DEF Commit, CommitFails
<1>2. run[c].pc # "idle" /\ run[c].pc \in Steps  BY <1>1 DEF Steps
<1>3. IsRun(run[c]) /\ IsRow(Row(c)) /\ Open(Row(c))  BY <1>2, AtWork
<1>4. run = [d \in Caller |-> run[d]]  BY DEF Inv, Shape
<1>5. CASE Commit(c)
  <2> DEFINE q == Ended(c)
  <2>1. rows' = [rows EXCEPT ![run[c].row] = q]  BY <1>5 DEF Commit, SetRow, OwnRow
  <2>2. /\ IsRow(q) /\ q.status = run[c].ending /\ q.left = "none"
        /\ q.engine = Row(c).engine /\ q.evidence = Row(c).evidence
        /\ q.status \in {"completed", "failed", "not_applicable"}
        /\ DOMAIN q.metrics # {} \/ q.recorded # {} => q.status = "completed"
        /\ q.status = "completed" => q.recorded = run[c].recorded
    BY <1>1, EndedRow
  <2> HIDE DEF q
  <2>3. q.status \in Status /\ q.status # "running"  BY <2>2 DEF Status
  <2>4. q.status = "completed" /\ q.engine \in Extension =>
          \A name \in q.recorded : name \in DOMAIN disk /\ name.evidence \in {NoEvidence, q.evidence}
    BY <1>2, <2>2 DEF Inv, Recording, Row
  <2>5. CASE Rests(c)
    <3>1. run' = [run EXCEPT ![c] = Idle]  BY <2>5 DEF Rests
    <3> QED  BY <1>1, <1>2, <2>1, <2>2, <2>3, <2>4, <3>1, IdleRun, Close
  <2>6. CASE Goes(c, "refresh") /\ run[c].ending # "failed"
    <3> DEFINE r == [run[c] EXCEPT !.pc = "refresh"]
    <3>1. run' = [run EXCEPT ![c] = r]  BY <1>3, <1>4, <2>6 DEF IsRun, Goes
    <3>2. IsRun(r) /\ r.pc = "refresh" /\ r.row = run[c].row  BY <1>3 DEF IsRun
    <3> HIDE DEF r
    <3>3. q.status \in {"completed", "not_applicable"}  BY <2>2, <2>6
    <3> QED  BY <1>1, <1>2, <2>1, <2>2, <2>3, <2>4, <3>1, <3>2, <3>3, Close
  <2> QED  BY <1>5, <2>5, <2>6 DEF Commit
<1>6. CASE CommitFails(c)
  <2>1. PICK q : /\ rows' = [rows EXCEPT ![run[c].row] = q]
                 /\ \/ q = [Row(c) EXCEPT !.left = "commit"]
                    \/ q = [Row(c) EXCEPT !.status = "failed"]
    BY <1>6 DEF CommitFails, SetRow, OwnRow
  <2>2. /\ IsRow(q) /\ DOMAIN q.metrics = {} /\ q.recorded = {}
        /\ q.engine = Row(c).engine /\ q.evidence = Row(c).evidence
        /\ (q.status = "running" /\ q.left = "commit") \/ q.status = "failed"
    BY <1>3, <2>1 DEF IsRow, Open
  <2>3. q.status \in Status  BY <2>2 DEF Status
  <2>4. run' = [run EXCEPT ![c] = Idle]  BY <1>6 DEF CommitFails, Rests
  <2> QED  BY <1>1, <1>2, <2>1, <2>2, <2>3, <2>4, IdleRun, Close
<1> QED  BY <1>5, <1>6

(* The refresh reads the row, or fails and marks it. *)
LEMMA RefreshStep == ASSUME Inv, NEW c \in Caller, Refresh(c) \/ RefreshFails(c) PROVE Inv'
<1>1. run[c].pc = "refresh" /\ run[c].pc # "idle" /\ UNCHANGED <<scene, disk>> /\ Rests(c)
  BY DEF Refresh, RefreshFails
<1>2. CASE UNCHANGED rows  BY <1>1, <1>2, RestStep
<1>3. CASE SetRow(c, [Row(c) EXCEPT !.status = "failed", !.left = "refresh"])
  <2> DEFINE q == [Row(c) EXCEPT !.status = "failed", !.left = "refresh"]
  <2>1. rows' = [rows EXCEPT ![run[c].row] = q]  BY <1>3 DEF SetRow, OwnRow
  <2>2. IsRow(Row(c))  BY <1>1, AtWork
  <2>3. IsRow(q) /\ q.status = "failed" /\ q.left = "refresh" /\ q.engine = Row(c).engine /\ q.evidence = Row(c).evidence
    BY <2>2 DEF IsRow
  <2> HIDE DEF q
  <2>4. q.status \in Status  BY <2>3 DEF Status
  <2>5. run' = [run EXCEPT ![c] = Idle]  BY <1>1 DEF Rests
  <2> QED  BY <1>1, <2>1, <2>3, <2>4, <2>5, IdleRun, Close
<1> QED  BY <1>2, <1>3 DEF Refresh, RefreshFails

(* A crash leaves the row at the last commit. *)
LEMMA CrashStep == ASSUME Inv, NEW c \in Caller, Crash(c) PROVE Inv'
<1>1. run[c].pc # "idle" /\ UNCHANGED <<scene, disk>> /\ Rests(c)  BY DEF Crash
<1>2. IsRow(Row(c)) /\ (run[c].pc \in Steps => Open(Row(c)))  BY <1>1, AtWork
<1>3. run[c].pc \in Steps \/ run[c].pc = "refresh"  BY <1>1 DEF Inv, Working
<1>4. CASE run[c].pc = "refresh"
  <2>1. Row(c).status # "running"  BY <1>4 DEF Inv, Working, Row
  <2> QED  BY <1>1, <1>4, <2>1, RestStep DEF Crash
<1>5. CASE run[c].pc \in Steps
  <2> DEFINE q == [Row(c) EXCEPT !.left = "crash"]
  <2>1. IsRow(q) /\ q.status = "running" /\ q.left = "crash" /\ DOMAIN q.metrics = {} /\ q.recorded = {}
        /\ q.engine = Row(c).engine /\ q.evidence = Row(c).evidence
    BY <1>2, <1>5 DEF IsRow, Open
  <2>2. rows' = [rows EXCEPT ![run[c].row] = q]  BY <1>2, <1>5 DEF Crash, SetRow, OwnRow, Open
  <2> HIDE DEF q
  <2>3. q.status \in Status  BY <2>1 DEF Status
  <2>4. run' = [run EXCEPT ![c] = Idle]  BY <1>1 DEF Rests
  <2> QED  BY <1>1, <2>1, <2>2, <2>3, <2>4, IdleRun, Close
<1> QED  BY <1>3, <1>4, <1>5

-----------------------------------------------------------------------------
(* The invariant and what follows from it *)

(* A step of nobody's run: references come and go, or nothing happens. *)
LEMMA ElsewhereStep == ASSUME Inv, UNCHANGED <<scene, rows, disk, run>> PROVE Inv'
<1>1. Shape' /\ Working' /\ Statuses'  BY DEF Inv, Shape, Working, Statuses, RowId
<1>2. RunningExplained' /\ ObservationsBacked'
  BY DEF Inv, RunningExplained, ObservationsBacked, RowId, Doing
<1>3. DiskHeld' /\ Recording' /\ RowsBacked' /\ SceneGiven'
  BY DEF Inv, DiskHeld, Recording, RowsBacked, SceneGiven, RowId
<1> QED  BY <1>1, <1>2, <1>3 DEF Inv

(* At the start there is no row and nobody works. *)
LEMMA InitInv == Init => Inv
<1> SUFFICES ASSUME Init PROVE Inv  OBVIOUS
<1>1. rows = <<>> /\ disk = [name \in {} |-> 0] /\ run = [c \in Caller |-> Idle] /\ scene \in Scenes
  BY Zenon DEF Init
<1>2. RowId = {}
  <2>1. Len(rows) = 0  BY <1>1
  <2> QED  BY <2>1 DEF RowId
<1>3. \A c \in Caller : run[c] = Idle /\ run[c].pc = "idle" /\ run[c].recorded = {}  BY <1>1, IdleRun
<1>4. Shape
  <2>1. rows \in Seq({})  BY <1>1
  <2>2. run = [c \in Caller |-> run[c]]  BY <1>1
  <2> QED  BY <1>2, <1>3, <2>1, <2>2, IdleRun DEF Shape
<1>5. Working  BY <1>3 DEF Working, Steps
<1>6. Statuses /\ RunningExplained /\ ObservationsBacked /\ RowsBacked
  BY <1>2 DEF Statuses, RunningExplained, ObservationsBacked, RowsBacked
<1>7. DiskHeld /\ SceneGiven  BY <1>1 DEF DiskHeld, SceneGiven
<1>8. Recording  BY <1>3 DEF Recording, Steps
<1> QED  BY <1>4, <1>5, <1>6, <1>7, <1>8 DEF Inv

(* Every step keeps it. *)
LEMMA NextInv == Inv /\ [Next]_vars => Inv'
<1> SUFFICES ASSUME Inv, [Next]_vars PROVE Inv'  OBVIOUS
<1>1. CASE UNCHANGED vars  BY <1>1, ElsewhereStep DEF vars
<1>2. ASSUME NEW c \in Caller, Begin(c) \/ Execute(c) \/ Compare(c) \/ Judge(c) PROVE Inv'
  BY <1>2, BeginStep, ExecuteStep, CompareStep
<1>3. ASSUME NEW c \in Caller, Write(c) \/ Written(c) \/ WriteFails(c) \/ WriteLost(c) PROVE Inv'
  BY <1>3, WriteStep
<1>4. ASSUME NEW c \in Caller,
             Commit(c) \/ CommitFails(c) \/ Refresh(c) \/ RefreshFails(c) \/ Crash(c)
      PROVE Inv'
  BY <1>4, CommitStep, RefreshStep, CrashStep
<1>5. ASSUME NEW ref \in Ref, Library(ref) PROVE Inv'  BY <1>5, ElsewhereStep DEF Library
<1>6. CASE Finished  BY <1>6, ElsewhereStep DEF Finished, vars
<1> QED  BY <1>1, <1>2, <1>3, <1>4, <1>5, <1>6 DEF Next

(* It holds in every reachable state. *)
LEMMA SpecInv == Spec => []Inv
BY InitInv, NextInv, PTL DEF Spec

(* A row is running only while its engine runs, or after a crash, a commit *)
(* that failed or a ValueError that run_engine passes on.                  *)
THEOREM RunningIsExplained == Spec => []RunningExplained
<1>1. Inv => RunningExplained  BY DEF Inv
<1> QED  BY <1>1, SpecInv, PTL

(* Only completed rows, and those that lost the status when the refresh    *)
(* after the commit failed, have observations and artifacts (run_engine).  *)
THEOREM ObservationsAreBacked == Spec => []ObservationsBacked
<1>1. Inv => ObservationsBacked  BY DEF Inv
<1> QED  BY <1>1, SpecInv, PTL

(* The files that a completed run of an extension engine records are on    *)
(* the disk, and those that are named after an item are of its item,       *)
(* whatever other runs write or fail to write (cv2.imwrite).               *)
THEOREM ArtifactsAreBacked == Spec => []ArtifactsBacked
<1>1. Inv => ArtifactsBacked
  <2> SUFFICES ASSUME Inv, NEW i \in RowId, rows[i].status = "completed", rows[i].engine \in Extension,
                      NEW name \in rows[i].recorded
               PROVE  /\ name \in DOMAIN disk
                      /\ name.evidence # NoEvidence => rows[disk[name]].evidence = rows[i].evidence
    BY DEF ArtifactsBacked
  <2>1. name \in DOMAIN disk /\ name.evidence \in {NoEvidence, rows[i].evidence}  BY DEF Inv, RowsBacked
  <2>2. name.evidence # NoEvidence => rows[disk[name]].evidence = name.evidence
    BY <2>1 DEF Inv, DiskHeld
  <2> QED  BY <2>1, <2>2
<1> QED  BY <1>1, SpecInv, PTL

(* No run writes to a row that has ended, but its own when the refresh     *)
(* after the commit fails.                                                 *)
THEOREM RowsEndOnlyOnce == Spec => RowsEndOnce
<1> DEFINE Kept == \A i \in RowId :
             rows[i].status # "running" =>
               \/ rows'[i] = rows[i]
               \/ rows'[i] = [rows[i] EXCEPT !.status = "failed", !.left = "refresh"]
<1>1. Inv /\ [Next]_vars => [Kept]_vars
  <2> SUFFICES ASSUME Inv, Next, NEW i \in RowId, rows[i].status # "running"
               PROVE  \/ rows'[i] = rows[i]
                      \/ rows'[i] = [rows[i] EXCEPT !.status = "failed", !.left = "refresh"]
    OBVIOUS
  <2>1. PICK S : rows \in Seq(S)  BY DEF Inv, Shape
  <2>2. ASSUME NEW c \in Caller, Begin(c) PROVE rows'[i] = rows[i]
    <3>1. PICK e \in Evidence, E \in scene.asks[c] : rows' = Append(rows, NewRow(E, e))  BY <2>2 DEF Begin
    <3> QED  BY <2>1, <3>1, Appended
  <2>3. ASSUME NEW c \in Caller, run[c].pc \in Steps, NEW q, SetRow(c, q) PROVE rows'[i] = rows[i]
    <3>1. run[c].pc # "idle"  BY <2>3 DEF Steps
    <3>2. run[c].row \in RowId /\ rows[run[c].row].status = "running"  BY <2>3, <3>1, AtWork DEF Open, Row
    <3>3. rows' = [rows EXCEPT ![run[c].row] = q] /\ i # run[c].row  BY <2>3, <3>2 DEF SetRow, OwnRow
    <3> QED  BY <2>1, <3>2, <3>3, Replaced
  <2>4. ASSUME NEW c \in Caller, Execute(c) PROVE rows'[i] = rows[i]
    <3>1. run[c].pc \in Steps  BY <2>4, Zenon DEF Execute, Steps
    <3>2. UNCHANGED rows \/ SetRow(c, [Row(c) EXCEPT !.left = "raised"])  BY <2>4, Zenon DEF Execute
    <3> QED  BY <2>3, <3>1, <3>2
  <2>5. ASSUME NEW c \in Caller, Commit(c) \/ CommitFails(c) PROVE rows'[i] = rows[i]
    <3>1. run[c].pc \in Steps  BY <2>5 DEF Commit, CommitFails, Steps
    <3>2. \E q : SetRow(c, q)  BY <2>5 DEF Commit, CommitFails
    <3> QED  BY <2>3, <3>1, <3>2
  <2>6. ASSUME NEW c \in Caller, Crash(c) PROVE rows'[i] = rows[i]
    <3>1. CASE Row(c).status = "running" /\ SetRow(c, [Row(c) EXCEPT !.left = "crash"])
      <4>1. run[c].pc # "refresh" /\ run[c].pc # "idle"  BY <2>6, <3>1 DEF Crash, Inv, Working, Row
      <4>2. run[c].pc \in Steps  BY <4>1 DEF Inv, Working
      <4> QED  BY <2>3, <3>1, <4>2
    <3> QED  BY <2>6, <3>1 DEF Crash
  <2>7. ASSUME NEW c \in Caller, RefreshFails(c)
        PROVE  rows'[i] = rows[i] \/ rows'[i] = [rows[i] EXCEPT !.status = "failed", !.left = "refresh"]
    <3>1. CASE SetRow(c, [Row(c) EXCEPT !.status = "failed", !.left = "refresh"])
      <4>1. run[c].row \in RowId  BY <2>7, AtWork DEF RefreshFails
      <4> DEFINE q == [Row(c) EXCEPT !.status = "failed", !.left = "refresh"]
      <4>2. rows' = [rows EXCEPT ![run[c].row] = q]  BY <3>1 DEF SetRow, OwnRow
      <4> HIDE DEF q
      <4>3. rows'[run[c].row] = q /\ \A j \in RowId \ {run[c].row} : rows'[j] = rows[j]
        BY <2>1, <4>1, <4>2, Replaced
      <4> QED  BY <4>3 DEF q, Row
    <3> QED  BY <2>7, <3>1 DEF RefreshFails
  <2>8. ASSUME NEW c \in Caller, Compare(c) \/ Judge(c) \/ Write(c) \/ Written(c) \/ WriteFails(c) \/ WriteLost(c)
               \/ Refresh(c)
        PROVE  rows' = rows
    BY <2>8 DEF Compare, Judge, Write, Written, WriteFails, WriteLost, Refresh
  <2>9. ASSUME NEW ref \in Ref, Library(ref) PROVE rows' = rows  BY <2>9 DEF Library
  <2>10. Finished => rows' = rows  BY DEF Finished, vars
  <2> QED  BY <2>2, <2>4, <2>5, <2>6, <2>7, <2>8, <2>9, <2>10 DEF Next
<1> QED  BY <1>1, SpecInv, PTL DEF Spec, RowsEndOnce

-----------------------------------------------------------------------------
(* The table as a RunLedger *)

(* What a row counts as: its status, or a result withdrawn.                *)
Entry(r) == IF r.left = "refresh" THEN "withdrawn" ELSE r.status
Entries == [i \in RowId |-> Entry(rows[i])]

(* What is done to a row shows in its entry alone.                         *)
LEMMA EntryReplaced ==
  ASSUME Inv, NEW i \in RowId, NEW q, rows' = [rows EXCEPT ![i] = q]
  PROVE  Entries' = [Entries EXCEPT ![i] = Entry(q)]
<1>1. PICK S : rows \in Seq(S)  BY DEF Inv, Shape
<1>2. /\ RowId' = RowId /\ rows'[i] = q
      /\ \A j \in RowId \ {i} : rows'[j] = rows[j]
  BY <1>1, Replaced DEF RowId
<1>3. \A j \in RowId : Entries'[j] = IF j = i THEN Entry(q) ELSE Entries[j]
  BY <1>2 DEF Entries, Entry
<1>4. DOMAIN Entries' = RowId /\ DOMAIN Entries = RowId  BY <1>2 DEF Entries
<1>5. Entries' = [j \in RowId |-> Entries'[j]] /\ Entries = [j \in RowId |-> Entries[j]]
  BY <1>2 DEF Entries
<1> QED  BY <1>3, <1>4, <1>5

(* So a change that leaves the entry as it is changes nothing.             *)
LEMMA EntryKept ==
  ASSUME Inv, NEW c \in Caller, run[c].pc # "idle", NEW q, SetRow(c, q), Entry(q) = Entry(Row(c))
  PROVE  Entries' = Entries
<1>1. run[c].row \in RowId /\ rows' = [rows EXCEPT ![run[c].row] = q]
  BY AtWork DEF SetRow, OwnRow
<1>2. Entries[run[c].row] = Entry(q)  BY <1>1 DEF Entries, Row
<1>3. Entries = [j \in RowId |-> Entries[j]]  BY DEF Entries
<1>4. Entries' = [Entries EXCEPT ![run[c].row] = Entry(q)]  BY <1>1, EntryReplaced
<1> DEFINE new == Entry(q)
<1> HIDE DEF new
<1>5. ASSUME NEW f, NEW i, f = [j \in RowId |-> f[j]], f[i] = new PROVE [f EXCEPT ![i] = new] = f
  BY <1>5
<1> QED  BY <1>2, <1>3, <1>4, <1>5 DEF new

(* A new row is an entry after the others.                                 *)
LEMMA EntryAdded ==
  ASSUME Inv, NEW c \in Caller, Begin(c)
  PROVE  Entries' = Append(Entries, "running")
<1>1. PICK S : rows \in Seq(S)  BY DEF Inv, Shape
<1>2. PICK e \in Evidence, E \in scene.asks[c] : rows' = Append(rows, NewRow(E, e))  BY DEF Begin
<1>3. /\ Len(rows) \in Nat /\ Len(rows') = Len(rows) + 1
      /\ \A i \in RowId : rows'[i] = rows[i]
      /\ rows'[Len(rows) + 1] = NewRow(E, e)
  BY <1>1, <1>2, Appended
<1>4. Entry(NewRow(E, e)) = "running"  BY DEF Entry, NewRow
<1> DEFINE n == Len(rows)
<1> HIDE DEF n
<1>5. n \in Nat /\ RowId = 1 .. n /\ RowId' = 1 .. n + 1  BY <1>3 DEF n, RowId
<1>6. Entries' = [i \in 1 .. n + 1 |-> IF i = n + 1 THEN "running" ELSE Entries[i]]
  BY <1>3, <1>4, <1>5 DEF Entries, n
<1>7. PICK V : Entries \in [1 .. n -> V] /\ "running" \in V
  <2>1. Entries \in [1 .. n -> {Entry(rows[i]) : i \in RowId} \cup {"running"}]
    BY <1>5 DEF Entries
  <2> QED  BY <2>1
<1>8. Entries \in Seq(V) /\ Len(Entries) = n  BY <1>5, <1>7
<1>9. Append(Entries, "running") = [i \in 1 .. n + 1 |-> IF i = n + 1 THEN "running" ELSE Entries[i]]
  <2> DEFINE f == Entries
  <2> HIDE DEF f
  <2>1. f \in Seq(V) /\ Len(f) = n  BY <1>8 DEF f
  <2> DEFINE g == Append(f, "running")
  <2>2. /\ g \in Seq(V) /\ Len(g) = n + 1 /\ g[n + 1] = "running"
        /\ \A i \in 1 .. n : g[i] = f[i]
    BY <1>5, <1>7, <2>1
  <2> HIDE DEF g
  <2>3. g = [i \in 1 .. n + 1 |-> g[i]]  BY <1>5, <2>2
  <2>4. \A i \in 1 .. n + 1 : g[i] = IF i = n + 1 THEN "running" ELSE f[i]  BY <1>5, <2>2
  <2>5. g = [i \in 1 .. n + 1 |-> IF i = n + 1 THEN "running" ELSE f[i]]  BY <2>3, <2>4
  <2> QED  BY <2>5 DEF f, g
<1> QED  BY <1>6, <1>9

(* The runs of the engines, with all their faults, do to the table what    *)
(* the pipeline takes them to do: a row is ended once, and a result is     *)
(* withdrawn at most.                                                      *)
THEOREM RunsFormLedger == Spec => ImplementsLedger
<1> USE DEF Entries, Entry
<1>1. Init => Ledger!Init
  <2> SUFFICES ASSUME Init PROVE Ledger!Init  OBVIOUS
  <2>1. RowId = {}  BY DEF Init, RowId
  <2> QED  BY <2>1 DEF Ledger!Init
<1>2. Inv /\ [Next]_vars => [Ledger!Next]_Entries
  <2> SUFFICES ASSUME Inv, [Next]_vars PROVE Ledger!Next \/ Entries' = Entries
    OBVIOUS
  <2> HIDE DEF Entries, Entry
  <2>1. ASSUME NEW c \in Caller, Begin(c) PROVE Ledger!Next
    <3>1. Entries' = Append(Entries, "running")  BY <2>1, EntryAdded
    <3> QED  BY <3>1 DEF Ledger!Next, Ledger!Open, Entries, Entry
  <2>2. ASSUME rows' = rows PROVE Entries' = Entries  BY <2>2 DEF Entries, RowId
  <2>3. ASSUME NEW i \in RowId, NEW q, rows' = [rows EXCEPT ![i] = q],
               \/ Entries[i] = "running" /\ Entry(q) \in {"completed", "not_applicable", "failed"}
               \/ Entries[i] \in {"completed", "not_applicable"} /\ Entry(q) = "withdrawn"
        PROVE  Ledger!Next
    <3>1. Entries' = [Entries EXCEPT ![i] = Entry(q)]  BY <2>3, EntryReplaced
    <3>2. i \in 1 .. Len(Entries)
      <4>1. Len(rows) \in Nat  BY DEF Inv, Shape
      <4>2. DOMAIN Entries = 1 .. Len(rows)  BY DEF Entries, RowId
      <4> QED  BY <4>1, <4>2 DEF RowId
    <3> QED  BY <2>3, <3>1, <3>2
             DEF Ledger!Next, Ledger!End, Ledger!Withdraw, Ledger!Result, Entries, Entry
  <2>4. ASSUME NEW c \in Caller, Execute(c) PROVE Entries' = Entries
    <3>1. UNCHANGED rows \/ SetRow(c, [Row(c) EXCEPT !.left = "raised"])  BY <2>4, Zenon DEF Execute
    <3>2. run[c].pc = "execute" /\ run[c].pc # "idle" /\ run[c].pc \in Steps
      BY <2>4, Zenon DEF Execute, Steps
    <3>3. IsRow(Row(c)) /\ Open(Row(c))  BY <3>2, AtWork
    <3>4. Entry([Row(c) EXCEPT !.left = "raised"]) = Entry(Row(c))  BY <3>3 DEF Entry, IsRow, Open
    <3> QED  BY <2>2, <3>1, <3>2, <3>4, EntryKept
  <2>5. ASSUME NEW c \in Caller, Commit(c) PROVE Ledger!Next
    <3>1. run[c].pc = "commit" /\ run[c].pc # "idle" /\ run[c].pc \in Steps  BY <2>5 DEF Commit, Steps
    <3>2. IsRow(Row(c)) /\ Open(Row(c)) /\ run[c].row \in RowId  BY <3>1, AtWork
    <3>3. Ended(c).status \in {"completed", "not_applicable", "failed"} /\ Ended(c).left = "none"
      BY <3>1, EndedRow
    <3>4. Entry(Ended(c)) \in {"completed", "not_applicable", "failed"}  BY <3>3 DEF Entry
    <3>5. Entries[run[c].row] = "running"  BY <3>2 DEF Entries, Entry, Open, Row
    <3>6. rows' = [rows EXCEPT ![run[c].row] = Ended(c)]  BY <2>5 DEF Commit, SetRow, OwnRow
    <3> QED  BY <2>3, <3>2, <3>4, <3>5, <3>6
  <2>6. ASSUME NEW c \in Caller, CommitFails(c) PROVE Ledger!Next \/ Entries' = Entries
    <3>1. run[c].pc # "idle" /\ run[c].pc \in Steps  BY <2>6 DEF CommitFails, Steps
    <3>2. IsRow(Row(c)) /\ Open(Row(c)) /\ run[c].row \in RowId  BY <3>1, AtWork
    <3>3. CASE SetRow(c, [Row(c) EXCEPT !.left = "commit"])
      <4>1. Entry([Row(c) EXCEPT !.left = "commit"]) = Entry(Row(c))  BY <3>2 DEF Entry, IsRow, Open
      <4> QED  BY <3>1, <3>3, <4>1, EntryKept
    <3>4. CASE SetRow(c, [Row(c) EXCEPT !.status = "failed"])
      <4>1. Entry([Row(c) EXCEPT !.status = "failed"]) = "failed"  BY <3>2 DEF Entry, IsRow, Open
      <4>2. Entries[run[c].row] = "running"  BY <3>2 DEF Entries, Entry, Open, Row
      <4>3. rows' = [rows EXCEPT ![run[c].row] = [Row(c) EXCEPT !.status = "failed"]]
        BY <3>4 DEF SetRow, OwnRow
      <4> QED  BY <2>3, <3>2, <4>1, <4>2, <4>3
    <3> QED  BY <2>6, <3>3, <3>4 DEF CommitFails
  <2>7. ASSUME NEW c \in Caller, RefreshFails(c) PROVE Ledger!Next \/ Entries' = Entries
    <3>1. run[c].pc = "refresh" /\ run[c].pc # "idle"  BY <2>7 DEF RefreshFails
    <3>2. IsRow(Row(c)) /\ run[c].row \in RowId  BY <3>1, AtWork
    <3>3. Row(c).status \in {"completed", "not_applicable"} /\ Row(c).left = "none"
      BY <3>1 DEF Inv, Working, Row
    <3>4. CASE SetRow(c, [Row(c) EXCEPT !.status = "failed", !.left = "refresh"])
      <4> DEFINE q == [Row(c) EXCEPT !.status = "failed", !.left = "refresh"]
      <4>1. Entry(q) = "withdrawn"  BY <3>2 DEF Entry, IsRow
      <4>2. Entries[run[c].row] \in {"completed", "not_applicable"}
        BY <3>2, <3>3 DEF Entries, Entry, Row
      <4>3. rows' = [rows EXCEPT ![run[c].row] = q]  BY <3>4 DEF SetRow, OwnRow
      <4> QED  BY <2>3, <3>2, <4>1, <4>2, <4>3
    <3> QED  BY <2>2, <2>7, <3>4 DEF RefreshFails
  <2>8. ASSUME NEW c \in Caller, Crash(c) PROVE Entries' = Entries
    <3>1. run[c].pc # "idle"  BY <2>8 DEF Crash
    <3>2. IsRow(Row(c))  BY <3>1, AtWork
    <3>3. CASE Row(c).status = "running" /\ SetRow(c, [Row(c) EXCEPT !.left = "crash"])
      <4>1. run[c].pc # "refresh"  BY <3>3 DEF Inv, Working, Row
      <4>2. run[c].pc \in Steps  BY <3>1, <4>1 DEF Inv, Working
      <4>3. Open(Row(c))  BY <3>1, <4>2, AtWork
      <4>4. Entry([Row(c) EXCEPT !.left = "crash"]) = Entry(Row(c))  BY <3>2, <4>3 DEF Entry, IsRow, Open
      <4> QED  BY <3>1, <3>3, <4>4, EntryKept
    <3> QED  BY <2>2, <2>8, <3>3 DEF Crash
  <2>9. ASSUME NEW c \in Caller,
               Compare(c) \/ Judge(c) \/ Write(c) \/ Written(c) \/ WriteFails(c) \/ WriteLost(c)
               \/ Refresh(c)
        PROVE  rows' = rows
    BY <2>9 DEF Compare, Judge, Write, Written, WriteFails, WriteLost, Refresh
  <2>10. ASSUME NEW ref \in Ref, Library(ref) PROVE rows' = rows  BY <2>10 DEF Library
  <2>11. Finished \/ UNCHANGED vars => rows' = rows  BY DEF Finished, vars
  <2> QED  BY <2>1, <2>2, <2>4, <2>5, <2>6, <2>7, <2>8, <2>9, <2>10, <2>11 DEF Next
<1> QED  BY <1>1, <1>2, SpecInv, PTL DEF Spec, ImplementsLedger, Ledger!Spec

-----------------------------------------------------------------------------
(* What is stored of a run *)

(* A set of natural numbers has a least one. *)
LEMMA Least ==
  ASSUME NEW T \in SUBSET Nat, T # {}
  PROVE  \E x \in T : \A y \in T : x <= y
<1> DEFINE R == StrictSubsetOrdering(Nat)
           Upto == {1 .. i : i \in T}
<1>1. IsWellFoundedOn(R, FiniteSubsetsOf(Nat))  BY FS_StrictSubsetOrderingWellFounded
<1>2. Upto \subseteq FiniteSubsetsOf(Nat) /\ Upto # {}
  <2>1. \A i \in T : IsFiniteSet(1 .. i) /\ 1 .. i \in SUBSET Nat  BY FS_Interval
  <2> QED  BY <2>1 DEF FiniteSubsetsOf
<1>3. PICK X \in Upto : \A Y \in Upto : <<Y, X>> \notin R
  <2> HIDE DEF R, Upto
  <2> QED  BY <1>1, <1>2, WFMin
<1>4. PICK x \in T : X = 1 .. x  BY <1>3
<1>5. ASSUME NEW y \in T, y < x PROVE FALSE
  <2>1. 1 .. y \subseteq 1 .. x /\ x \in 1 .. x /\ x \notin 1 .. y  BY <1>5
  <2>2. 1 .. y \in SUBSET Nat /\ 1 .. x \in SUBSET Nat  OBVIOUS
  <2>3. <<1 .. y, 1 .. x>> \in R  BY <2>1, <2>2 DEF StrictSubsetOrdering
  <2> QED  BY <1>3, <1>4, <2>3
<1> QED  BY <1>5

(* The comparisons that CAMERA-ID can make. *)
Comparison == {Compared(m, ref) : m \in CameraFacts, ref \in Ref}

(* The verdict is given before the two numbers are rounded, and rounding   *)
(* takes neither of them below its threshold.                              *)
LEMMA RoundedUp ==
  ASSUME NEW x \in Comparison
  PROVE  /\ x.ref \in Ref /\ x.corr \in Nat /\ x.pce \in Nat /\ x.pce <= 90000
         /\ x.verdict = "CONSISTENT" => x.corr >= 15000 /\ x.pce >= 50000
<1>1. PICK m \in CameraFacts, ref \in Ref : x = Compared(m, ref)  BY DEF Comparison
<1>2. m.score[ref] \in Scores /\ m.suitable \in {19, 20}  BY DEF CameraFacts
<1> DEFINE s == m.score[ref]
<1>3. s[1] \in {0, 10500, 14996, 15000, 20000} /\ s[2] \in {0, 60000, 49996, 50000, 90000}
  BY <1>2 DEF Scores
<1>4. x.ref = ref /\ x.corr = Rounded(s[1]) /\ x.pce = Rounded(s[2])
      /\ x.verdict = Verdict(m.suitable, s[1], s[2])
  BY <1>1 DEF Compared
<1> HIDE DEF s
<1>5. Rounded(s[1]) \in Nat /\ (s[1] >= 15000 => Rounded(s[1]) >= 15000)  BY <1>3 DEF Rounded
<1>6. Rounded(s[2]) \in Nat /\ Rounded(s[2]) <= 90000 /\ (s[2] >= 50000 => Rounded(s[2]) >= 50000)
  <2>1. /\ Rounded(0) = 0 /\ Rounded(60000) = 60000 /\ Rounded(49996) = 50000
        /\ Rounded(50000) = 50000 /\ Rounded(90000) = 90000
    BY DEF Rounded
  <2> QED  BY <1>3, <2>1
<1>7. x.verdict = "CONSISTENT" => s[1] >= 15000 /\ s[2] >= 50000  BY <1>2, <1>4 DEF Verdict
<1> QED  BY <1>1, <1>4, <1>5, <1>6, <1>7

(* Of finitely many bounded numbers one is the first of the highest.       *)
LEMMA FirstHighest ==
  ASSUME NEW n \in Nat, n # 0, NEW f \in [1 .. n -> Nat],
         NEW most \in Nat, \A i \in 1 .. n : f[i] <= most
  PROVE  \E i \in 1 .. n : /\ \A j \in 1 .. n : f[j] <= f[i]
                           /\ \A j \in 1 .. i - 1 : f[j] < f[i]
<1> DEFINE Rooms == {most - f[i] : i \in 1 .. n}
<1>1. Rooms \in SUBSET Nat /\ Rooms # {}
  <2>1. \A i \in 1 .. n : f[i] \in Nat /\ f[i] <= most  OBVIOUS
  <2>2. \A i \in 1 .. n : most - f[i] \in Nat  BY <2>1
  <2>3. 1 \in 1 .. n  OBVIOUS
  <2> QED  BY <2>2, <2>3
<1>2. PICK room \in Rooms : \A y \in Rooms : room <= y
  <2> HIDE DEF Rooms
  <2> QED  BY <1>1, Least
<1>3. PICK k \in 1 .. n : room = most - f[k]  BY <1>2
<1>4. \A j \in 1 .. n : f[j] <= f[k]
  <2> TAKE j \in 1 .. n
  <2>1. most - f[k] <= most - f[j]  BY <1>2, <1>3
  <2> QED  BY <1>3, <2>1
<1> DEFINE Highest == {i \in 1 .. n : f[i] = f[k]}
<1>5. Highest \in SUBSET Nat /\ Highest # {}
  <2>1. k \in Highest  BY <1>3
  <2> QED  BY <2>1
<1>6. PICK i \in Highest : \A j \in Highest : i <= j
  <2> HIDE DEF Highest
  <2> QED  BY <1>5, Least
<1>7. i \in 1 .. n /\ \A j \in 1 .. n : f[j] <= f[i]  BY <1>4, <1>6
<1>8. ASSUME NEW j \in 1 .. i - 1 PROVE f[j] < f[i]
  <2>1. j \in 1 .. n /\ j < i  BY <1>7
  <2>2. f[j] # f[i]  BY <1>6, <2>1
  <2> QED  BY <1>7, <2>1, <2>2
<1> QED  BY <1>7, <1>8

(* One of the comparisons is the first with the highest energy. *)
LEMMA TopThere ==
  ASSUME NEW scores \in Seq(Comparison), scores # <<>>
  PROVE  Top(scores) \in DOMAIN scores
<1> DEFINE n == Len(scores)
           most == 90000
           f == [i \in 1 .. n |-> scores[i].pce]
<1>1. DOMAIN scores = 1 .. n /\ n \in Nat /\ n # 0 /\ most \in Nat  OBVIOUS
<1>2. f \in [1 .. n -> Nat] /\ \A i \in 1 .. n : f[i] <= most
  <2>1. \A i \in 1 .. n : scores[i] \in Comparison  OBVIOUS
  <2>2. \A i \in 1 .. n : scores[i].pce \in Nat /\ scores[i].pce <= 90000  BY <2>1, RoundedUp
  <2> HIDE DEF n
  <2> QED  BY <2>2
<1>3. \A i \in 1 .. n : f[i] = scores[i].pce  OBVIOUS
<1> HIDE DEF f, n, most
<1>4. PICK i \in 1 .. n : /\ \A j \in 1 .. n : f[j] <= f[i]
                         /\ \A j \in 1 .. i - 1 : f[j] < f[i]
  BY <1>1, <1>2, FirstHighest
<1>5. \A j \in 1 .. i - 1 : j \in 1 .. n  BY <1>1, <1>4
<1>6. /\ \A j \in DOMAIN scores : scores[j].pce <= scores[i].pce
      /\ \A j \in 1 .. i - 1 : scores[j].pce < scores[i].pce
  BY <1>1, <1>3, <1>4, <1>5
<1> QED  BY <1>1, <1>4, <1>6 DEF Top

(* So a consistent candidate has both measures elevated. *)
LEMMA CandidateBacked ==
  ASSUME NEW scores \in Seq(Comparison),
         CameraObserved(scores)["CANDIDATE_CAMERA_CONSISTENCY"] = "elevated"
  PROVE  /\ CameraObserved(scores)["MAX_CORRELATION"] = "elevated"
         /\ CameraObserved(scores)["PCE"] = "elevated"
<1>1. Elevated(Best(scores).verdict = "CONSISTENT") = "elevated"  BY DEF CameraObserved
<1>2. Best(scores).verdict = "CONSISTENT"  BY <1>1 DEF Elevated
<1>3. scores # <<>>  BY <1>2 DEF Best, NotCompared
<1>4. Best(scores) \in Comparison  BY <1>3, TopThere DEF Best
<1>5. Best(scores).corr >= 15000 /\ Best(scores).pce >= 50000  BY <1>2, <1>4, RoundedUp
<1> QED  BY <1>5 DEF CameraObserved, Elevated

(* The directions that a run stores. *)
Directed(metrics) == \A metric \in DOMAIN metrics : metrics[metric] \in Indicator

(* An observation has one of the directions, whatever the engine measures. *)
LEMMA ObservedDirected ==
  ASSUME NEW E \in Engine, NEW m, NEW loaded, NEW scores
  PROVE  Directed(Observed(E, m, loaded, scores))
<1> USE DEF Directed, Indicator
<1>1. \A found : Elevated(found) \in {"elevated", "informational"} /\ Anomalous(found) \in {"anomalous", "nominal"}
  BY DEF Elevated, Anomalous
<1> HIDE DEF Directed
<1>2. /\ Directed(StructureObserved(m)) /\ Directed(QTObserved) /\ Directed(HuffmanObserved(m))
      /\ Directed(BlockingObserved(m)) /\ Directed(GhostObserved(m)) /\ Directed(ADJPEGObserved(m))
      /\ Directed(NADJPEGObserved(m))
  BY <1>1 DEF Directed, StructureObserved, QTObserved, HuffmanObserved, BlockingObserved, GhostObserved,
              ADJPEGObserved, NADJPEGObserved
<1>3. /\ Directed(NoiseObserved(m)) /\ Directed(ResamplingObserved(m)) /\ Directed(HistogramObserved(m))
      /\ Directed(ColorObserved(m)) /\ Directed(FourierObserved(m))
  BY <1>1 DEF Directed, NoiseObserved, ResamplingObserved, HistogramObserved, ColorObserved, FourierObserved
<1>4. Directed(CloneBlockObserved(m)) /\ Directed(CloneKeypointObserved(m)) 
  BY <1>1 DEF Directed, CloneBlockObserved, CloneKeypointObserved
<1>5. Directed(PRNUObserved(m, loaded))  BY <1>1 DEF Directed, PRNUObserved
<1>6. Directed(CameraObserved(scores))  BY <1>1 DEF Directed, CameraObserved
<1>7. Directed(PerspectiveObserved(m)) /\ Directed(LightingObserved(m))
  BY DEF Directed, PerspectiveObserved, LightingObserved
<1>8. Directed(NoMetrics)  BY DEF Directed, NoMetrics
<1> HIDE DEF Indicator
<1> QED
  BY <1>2, <1>3, <1>4, <1>5, <1>6, <1>7, <1>8
  DEF Observed, Engine, Extension, StreamEngines, DoubleCompression, PixelEngines, CopyEngines, CaseEngines,
      PhysicalEngines

(* The scores come from references that had been stored completely.        *)
OnceWhole == {"whole", "metadata", "remains", "gone"}
Traced(scores, library) ==
  /\ scores \in Seq(Comparison)
  /\ \A k \in DOMAIN scores : library[scores[k].ref] \in OnceWhole

(* What a row holds; that of CAMERA-ID is what the scores say once the run *)
(* has completed.                                                          *)
RowStored(r, library) ==
  /\ r.left \in Left /\ Directed(r.metrics) /\ Traced(r.scores, library)
  /\ r.engine = "CAMERA-ID" /\ r.status = "completed" => r.metrics = CameraObserved(r.scores)

(* What a caller holds until then. *)
RunStored(r, library) ==
  /\ Directed(r.metrics) /\ Traced(r.scores, library)
  /\ r.pc = "compare" => r.m \in CameraFacts /\ r.refs \subseteq Ref
Judged(r) == r.pc = "write" \/ (r.pc = "commit" /\ r.ending = "completed")

Measured ==
  /\ \A i \in RowId : RowStored(rows[i], lib)
  /\ \A c \in Caller : RunStored(run[c], lib)
  /\ \A c \in Caller : Judged(run[c]) /\ rows[run[c].row].engine = "CAMERA-ID" =>
       run[c].metrics = CameraObserved(run[c].scores)

(* What bounds the scene and what the library is. *)
Bounded ==
  /\ Len(rows) <= scene.runs
  /\ lib \in [Ref -> Directory]
  /\ faults \in 0 .. MaxFaults

(* A step of one caller that writes no row. *)
LEMMA CallerStores ==
  ASSUME Inv, Measured, NEW c \in Caller, NEW r, IsRun(r), run' = [run EXCEPT ![c] = r], UNCHANGED <<rows, lib>>,
         RunStored(r, lib),
         Judged(r) /\ rows[r.row].engine = "CAMERA-ID" => r.metrics = CameraObserved(r.scores)
  PROVE  Measured'
<1>1. run'[c] = r /\ \A d \in Caller \ {c} : run'[d] = run[d]  BY Moved DEF Inv
<1>4. \A i \in RowId' : RowStored(rows'[i], lib')  BY DEF Measured, RowId
<1>5. \A d \in Caller : RunStored(run'[d], lib')  BY <1>1 DEF Measured
<1>6. \A d \in Caller : Judged(run'[d]) /\ rows'[run'[d].row].engine = "CAMERA-ID" =>
        run'[d].metrics = CameraObserved(run'[d].scores)
  BY <1>1 DEF Measured
<1> QED  BY <1>4, <1>5, <1>6 DEF Measured, Judged

(* A step of one caller that writes its row, after which it computes no    *)
(* more.                                                                   *)
LEMMA RowStores ==
  ASSUME Inv, Measured, NEW c \in Caller, run[c].pc # "idle", NEW r, IsRun(r), NEW q,
         run' = [run EXCEPT ![c] = r], rows' = [rows EXCEPT ![run[c].row] = q], UNCHANGED lib,
         RunStored(r, lib), ~Judged(r), q.engine = Row(c).engine, RowStored(q, lib)
  PROVE  Measured'
<1> DEFINE i == run[c].row
<1>1. run'[c] = r /\ \A d \in Caller \ {c} : run'[d] = run[d]  BY Moved DEF Inv
<1>2. i \in RowId  BY DEF Inv, Working
<1>3. Len(rows') = Len(rows) /\ rows'[i] = q /\ \A j \in RowId \ {i} : rows'[j] = rows[j]
  <2>1. PICK S : rows \in Seq(S)  BY DEF Inv, Shape
  <2> QED  BY <1>2, <2>1, Replaced
<1>4. RowId' = RowId  BY <1>3 DEF RowId
<1>6. \A j \in RowId' : RowStored(rows'[j], lib')  BY <1>3, <1>4 DEF Measured
<1>7. \A d \in Caller : RunStored(run'[d], lib')  BY <1>1 DEF Measured
<1>8. \A d \in Caller : Judged(run'[d]) /\ rows'[run'[d].row].engine = "CAMERA-ID" =>
        run'[d].metrics = CameraObserved(run'[d].scores)
  <2> TAKE d \in Caller
  <2> HAVE Judged(run'[d]) /\ rows'[run'[d].row].engine = "CAMERA-ID"
  <2>1. d # c /\ run'[d] = run[d]  BY <1>1
  <2>2. run[d].pc # "idle"  BY <2>1 DEF Judged
  <2>3. run[d].row \in RowId \ {i}  BY <2>1, <2>2 DEF Inv, Working
  <2>4. rows'[run[d].row] = rows[run[d].row]  BY <1>3, <2>3
  <2> QED  BY <2>1, <2>4 DEF Measured
<1> QED  BY <1>6, <1>7, <1>8 DEF Measured, Judged

(* A row has no score of its own before the commit.                        *)
LEMMA RowKeeps ==
  ASSUME Inv, Measured, NEW c \in Caller, run[c].pc # "idle"
  PROVE  /\ run[c].row \in RowId /\ RowStored(Row(c), lib) /\ RunStored(run[c], lib) /\ RunStored(Idle, lib) /\ ~Judged(Idle)
<1>1. run[c].row \in RowId  BY DEF Inv, Working
<1>2. RunStored(Idle, lib) /\ ~Judged(Idle)
  BY DEF RunStored, Judged, Idle, Directed, NoMetrics, Traced
<1> QED  BY <1>1, <1>2 DEF Measured, Row

(* A row is created with nothing. *)
LEMMA BeginStores == ASSUME Inv, Measured, NEW c \in Caller, Begin(c) PROVE Measured'
<1>1. PICK e \in Evidence, E \in scene.asks[c] : rows' = Append(rows, NewRow(E, e))  BY DEF Begin
<1>2. PICK S : rows \in Seq(S)  BY DEF Inv, Shape
<1> DEFINE n == Len(rows) + 1
           q == NewRow(E, e)
           r == [Idle EXCEPT !.pc = "execute", !.row = n]
<1>3. run' = [run EXCEPT ![c] = r] /\ lib' = lib /\ run[c].pc = "idle"
  <2>1. run' = [run EXCEPT ![c] = r]  BY Zenon DEF Begin
  <2>2. lib' = lib /\ run[c].pc = "idle"  BY Zenon DEF Begin
  <2> QED  BY <2>1, <2>2
<1>4. RowStored(q, lib)  BY DEF RowStored, NewRow, Left, Directed, NoMetrics, Traced
<1>5. IsRun(r) /\ RunStored(r, lib) /\ ~Judged(r)
  <2>1. IsRun(r)  BY IdleRun DEF IsRun
  <2> QED  BY <2>1 DEF RunStored, Judged, Idle, Directed, NoMetrics, Traced
<1>6. rows' = Append(rows, q)  BY <1>1
<1> HIDE DEF q, r
<1>7. Len(rows) \in Nat /\ Len(rows') = n /\ (\A i \in RowId : rows'[i] = rows[i]) /\ rows'[n] = q
  BY <1>2, <1>6, Appended
<1>8. RowId' = RowId \cup {n}  BY <1>7 DEF RowId
<1> HIDE DEF n
<1>9. run'[c] = r /\ \A d \in Caller \ {c} : run'[d] = run[d]  BY <1>3, <1>5, Moved DEF Inv
<1>11. \A j \in RowId' : RowStored(rows'[j], lib')  BY <1>3, <1>4, <1>7, <1>8 DEF Measured
<1>12. \A d \in Caller : RunStored(run'[d], lib')  BY <1>3, <1>5, <1>9 DEF Measured
<1>13. \A d \in Caller : Judged(run'[d]) /\ rows'[run'[d].row].engine = "CAMERA-ID" =>
        run'[d].metrics = CameraObserved(run'[d].scores)
  <2> TAKE d \in Caller
  <2> HAVE Judged(run'[d]) /\ rows'[run'[d].row].engine = "CAMERA-ID"
  <2>1. d # c /\ run'[d] = run[d]  BY <1>5, <1>9
  <2>2. run[d].pc # "idle"  BY <2>1 DEF Judged
  <2>3. run[d].row \in RowId  BY <2>1, <2>2 DEF Inv, Working
  <2>4. rows'[run[d].row] = rows[run[d].row]  BY <1>7, <2>3
  <2> QED  BY <2>1, <2>4 DEF Measured
<1> QED  BY <1>11, <1>12, <1>13 DEF Measured, Judged

(* The engine measures, and what it observes has its directions; that of   *)
(* CAMERA-ID starts to compare.                                            *)
LEMMA ExecuteStores == ASSUME Inv, Measured, NEW c \in Caller, Execute(c) PROVE Measured'
<1> DEFINE E == Row(c).engine
<1>1. run[c].pc = "execute" /\ UNCHANGED lib  BY Zenon DEF Execute
<1>2. run[c].pc # "idle"  BY <1>1
<1>3. IsRun(run[c]) /\ IsRow(Row(c))  BY <1>2, AtWork
<1>4. run = [d \in Caller |-> run[d]]  BY DEF Inv, Shape
<1>5. run[c].row \in RowId /\ RowStored(Row(c), lib) /\ RunStored(run[c], lib)  BY <1>2, RowKeeps
<1>6. E \in Engine /\ E = rows[run[c].row].engine  BY <1>5 DEF Inv, Statuses, Row
<1>7. PICK q \in Request(E), m \in Facts(E) :
          \/ run' = [run EXCEPT ![c].pc = "commit", ![c].ending = "not_applicable"] /\ UNCHANGED rows
          \/ run' = [run EXCEPT ![c].pc = "commit", ![c].ending = "failed"] /\ UNCHANGED rows
          \/ SetRow(c, [Row(c) EXCEPT !.left = "raised"]) /\ Rests(c)
          \/ /\ E # "CAMERA-ID"
             /\ run' = [run EXCEPT ![c].pc = "write", ![c].todo = Files(E, m, Loaded(E, q)),
                                   ![c].metrics = Observed(E, m, Loaded(E, q), <<>>)]
             /\ UNCHANGED rows
          \/ /\ E = "CAMERA-ID"
             /\ run' = [run EXCEPT ![c].pc = "compare", ![c].m = m, ![c].refs = Listed(q)]
             /\ UNCHANGED rows
  BY Zenon DEF Execute
<1> HIDE DEF E
<1>8. ASSUME NEW status \in {"not_applicable", "failed"},
             run' = [run EXCEPT ![c].pc = "commit", ![c].ending = status], UNCHANGED rows
      PROVE  Measured'
  <2> DEFINE r == [run[c] EXCEPT !.pc = "commit", !.ending = status]
  <2>1. run' = [run EXCEPT ![c] = r]  BY <1>3, <1>4, <1>8 DEF IsRun
  <2>2. IsRun(r) /\ r.pc = "commit" /\ r.ending = status /\ r.metrics = run[c].metrics /\ r.scores = run[c].scores
    BY <1>3 DEF IsRun
  <2> HIDE DEF r
  <2>3. RunStored(r, lib) /\ ~Judged(r)  BY <1>5, <2>2 DEF RunStored, Judged
  <2> QED  BY <1>1, <1>8, <2>1, <2>2, <2>3, CallerStores
<1>9. CASE SetRow(c, [Row(c) EXCEPT !.left = "raised"]) /\ Rests(c)
  <2> DEFINE p == [Row(c) EXCEPT !.left = "raised"]
  <2>1. rows' = [rows EXCEPT ![run[c].row] = p] /\ run' = [run EXCEPT ![c] = Idle]
    BY <1>9 DEF SetRow, OwnRow, Rests
  <2>2. p.left = "raised" /\ p.metrics = Row(c).metrics /\ p.scores = Row(c).scores /\ p.engine = Row(c).engine
        /\ p.status = Row(c).status
    BY <1>3 DEF IsRow
  <2> HIDE DEF p
  <2>3. RowStored(p, lib)  BY <1>5, <2>2 DEF RowStored, Left
  <2> QED  BY <1>1, <1>2, <2>1, <2>2, <2>3, IdleRun, RowKeeps, RowStores
<1>10. ASSUME E # "CAMERA-ID", NEW todo, NEW metrics, Directed(metrics), UNCHANGED rows,
              run' = [run EXCEPT ![c].pc = "write", ![c].todo = todo, ![c].metrics = metrics]
       PROVE  Measured'
  <2> DEFINE r == [run[c] EXCEPT !.pc = "write", !.todo = todo, !.metrics = metrics]
  <2>1. run' = [run EXCEPT ![c] = r]  BY <1>3, <1>4, <1>10 DEF IsRun
  <2>2. IsRun(r) /\ r.pc = "write" /\ r.metrics = metrics /\ r.scores = run[c].scores /\ r.row = run[c].row
    BY <1>3 DEF IsRun
  <2> HIDE DEF r
  <2>3. RunStored(r, lib)  BY <1>5, <1>10, <2>2 DEF RunStored
  <2> QED  BY <1>1, <1>6, <1>10, <2>1, <2>2, <2>3, CallerStores
<1>11. ASSUME E = "CAMERA-ID", UNCHANGED rows,
              run' = [run EXCEPT ![c].pc = "compare", ![c].m = m, ![c].refs = Listed(q)]
       PROVE  Measured'
  <2> DEFINE r == [run[c] EXCEPT !.pc = "compare", !.m = m, !.refs = Listed(q)]
  <2>1. run' = [run EXCEPT ![c] = r]  BY <1>3, <1>4, <1>11 DEF IsRun
  <2>2. IsRun(r) /\ r.pc = "compare" /\ r.metrics = run[c].metrics /\ r.scores = run[c].scores
        /\ r.m = m /\ r.refs = Listed(q)
    BY <1>3 DEF IsRun
  <2> HIDE DEF r
  <2>3. Facts("CAMERA-ID") = CameraFacts
    BY DEF Facts, StreamEngines, Legacy
  <2>4. m \in CameraFacts  BY <1>7, <1>11, <2>3
  <2>5. RunStored(r, lib) /\ ~Judged(r)  BY <1>5, <2>2, <2>4 DEF RunStored, Judged, Listed
  <2> QED  BY <1>1, <1>11, <2>1, <2>2, <2>5, CallerStores
<1>12. \A loaded : Directed(Observed(E, m, loaded, <<>>))  BY <1>6, ObservedDirected
<1> QED  BY <1>7, <1>8, <1>9, <1>10, <1>11, <1>12, Zenon

(* A comparison is stored if its reference can be read, which is then      *)
(* stored completely; the last step observes what the scores say.          *)
LEMMA CompareStores == ASSUME Inv, Measured, NEW c \in Caller, Compare(c) \/ Judge(c) PROVE Measured'
<1>1. run[c].pc = "compare" /\ UNCHANGED <<rows, lib>>  BY DEF Compare, Judge
<1>2. run[c].pc # "idle"  BY <1>1
<1>3. IsRun(run[c])  BY <1>2, AtWork
<1>4. run = [d \in Caller |-> run[d]]  BY DEF Inv, Shape
<1>5. RunStored(run[c], lib)  BY <1>2, RowKeeps
<1>6. CASE Compare(c)
  <2>1. PICK ref \in run[c].refs :
          run' = [run EXCEPT ![c].refs = @ \ {ref},
                             ![c].scores = IF Readable(ref)
                                           THEN Append(@, Compared(run[c].m, ref)) ELSE @]
    BY <1>6 DEF Compare
  <2> DEFINE scores == IF Readable(ref) THEN Append(run[c].scores, Compared(run[c].m, ref)) ELSE run[c].scores
             r == [run[c] EXCEPT !.refs = @ \ {ref}, !.scores = scores]
  <2>2. run' = [run EXCEPT ![c] = r]  BY <1>3, <1>4, <2>1 DEF IsRun
  <2>3. IsRun(r) /\ r.pc = "compare" /\ r.metrics = run[c].metrics /\ r.scores = scores
        /\ r.m = run[c].m /\ r.refs = run[c].refs \ {ref}
    BY <1>1, <1>3 DEF IsRun
  <2> HIDE DEF r
  <2>4. run[c].m \in CameraFacts /\ run[c].refs \subseteq Ref /\ ref \in Ref  BY <1>1, <1>5, <2>1 DEF RunStored
  <2>5. Traced(scores, lib)
    <3>1. Traced(run[c].scores, lib)  BY <1>5 DEF RunStored
    <3>2. CASE Readable(ref)
      <4> DEFINE old == run[c].scores
                 x == Compared(run[c].m, ref)
      <4>1. x \in Comparison /\ x.ref = ref  BY <2>4 DEF Comparison, Compared
      <4>2. old \in Seq(Comparison) /\ (\A k \in DOMAIN old : lib[old[k].ref] \in OnceWhole) /\ scores = Append(old, x)
        BY <3>1, <3>2 DEF Traced
      <4> HIDE DEF old, x, scores
      <4>3. /\ scores \in Seq(Comparison) /\ DOMAIN scores = DOMAIN old \cup {Len(old) + 1}
            /\ scores[Len(old) + 1] = x /\ \A k \in DOMAIN old : scores[k] = old[k]
        BY <4>1, <4>2
      <4>4. lib[ref] \in OnceWhole  BY <3>2 DEF Readable, OnceWhole
      <4> QED  BY <4>1, <4>2, <4>3, <4>4 DEF Traced
    <3> QED  BY <3>1, <3>2
  <2> HIDE DEF scores
  <2>6. RunStored(r, lib) /\ ~Judged(r)  BY <1>5, <2>3, <2>4, <2>5 DEF RunStored, Judged
  <2> QED  BY <1>1, <2>2, <2>3, <2>6, CallerStores
<1>7. CASE Judge(c)
  <2> DEFINE metrics == CameraObserved(run[c].scores)
             r == [run[c] EXCEPT !.pc = "write", !.m = Nothing, !.todo = CameraFiles, !.metrics = metrics]
  <2>1. run' = [run EXCEPT ![c].pc = "write", ![c].m = Nothing, ![c].todo = CameraFiles, ![c].metrics = metrics]
    BY <1>7, Zenon DEF Judge
  <2>2. run' = [run EXCEPT ![c] = r]  BY <1>3, <1>4, <2>1 DEF IsRun
  <2>3. IsRun(r) /\ r.pc = "write" /\ r.metrics = metrics /\ r.scores = run[c].scores  BY <1>3 DEF IsRun
  <2> HIDE DEF r
  <2>4. Directed(metrics)
    <3>1. "CAMERA-ID" \in Engine  BY DEF Engine, Extension, CaseEngines
    <3>2. Observed("CAMERA-ID", Nothing, FALSE, run[c].scores) = metrics
      BY DEF Observed, Legacy
    <3> QED  BY <3>1, <3>2, ObservedDirected
  <2>5. RunStored(r, lib)  BY <1>5, <2>3, <2>4 DEF RunStored
  <2> QED  BY <1>1, <2>2, <2>3, <2>5, CallerStores
<1> QED  BY <1>6, <1>7

(* Writing files changes nothing of what was measured. *)
LEMMA WriteStores ==
  ASSUME Inv, Measured, NEW c \in Caller, Write(c) \/ Written(c) \/ WriteFails(c) \/ WriteLost(c)
  PROVE  Measured'
<1>1. run[c].pc = "write" /\ UNCHANGED <<rows, lib>>  BY DEF Write, Written, WriteFails, WriteLost
<1>2. run[c].pc # "idle" /\ Judged(run[c])  BY <1>1 DEF Judged
<1>3. IsRun(run[c])  BY <1>2, AtWork
<1>4. run = [d \in Caller |-> run[d]]  BY DEF Inv, Shape
<1>5. RunStored(run[c], lib)  BY <1>2, RowKeeps
<1>6. PICK r : /\ run' = [run EXCEPT ![c] = r]
               /\ \/ r = [run[c] EXCEPT !.todo = Tail(@), !.recorded = @ \cup {NextName(c)}]
                  \/ r = [run[c] EXCEPT !.pc = "commit", !.ending = "completed"]
                  \/ r = [run[c] EXCEPT !.pc = "commit", !.ending = "failed"]
  <2>1. \/ run' = Recorded(c)
        \/ run' = [run EXCEPT ![c].pc = "commit", ![c].ending = "completed"]
        \/ run' = [run EXCEPT ![c].pc = "commit", ![c].ending = "failed"]
    BY DEF Write, Written, WriteFails, WriteLost, Abandon
  <2>2. CASE run' = Recorded(c)  BY <1>3, <1>4, <2>2 DEF Recorded, IsRun
  <2>3. CASE run' = [run EXCEPT ![c].pc = "commit", ![c].ending = "completed"]  BY <1>3, <1>4, <2>3 DEF IsRun
  <2>4. CASE run' = [run EXCEPT ![c].pc = "commit", ![c].ending = "failed"]  BY <1>3, <1>4, <2>4 DEF IsRun
  <2> QED  BY <2>1, <2>2, <2>3, <2>4
<1>7. IsRun(r) /\ r.pc # "compare" /\ r.metrics = run[c].metrics /\ r.scores = run[c].scores /\ r.row = run[c].row
  BY <1>1, <1>3, <1>6 DEF IsRun
<1>8. RunStored(r, lib)  BY <1>5, <1>7 DEF RunStored
<1>9. rows[r.row].engine = "CAMERA-ID" => r.metrics = CameraObserved(r.scores)  BY <1>2, <1>7 DEF Measured
<1> QED  BY <1>1, <1>6, <1>7, <1>8, <1>9, CallerStores

(* The commit stores what the run holds, or leaves the row without. *)
LEMMA CommitStores == ASSUME Inv, Measured, NEW c \in Caller, Commit(c) \/ CommitFails(c) PROVE Measured'
<1>1. run[c].pc = "commit" /\ UNCHANGED lib  BY DEF Commit, CommitFails
<1>2. run[c].pc # "idle" /\ run[c].pc \in Steps  BY <1>1 DEF Steps
<1>3. IsRun(run[c]) /\ IsRow(Row(c)) /\ Open(Row(c)) BY <1>2, AtWork
<1>4. run = [d \in Caller |-> run[d]]  BY DEF Inv, Shape
<1>5. RowStored(Row(c), lib) /\ RunStored(run[c], lib)  BY <1>2, RowKeeps
<1>6. PICK r : run' = [run EXCEPT ![c] = r] /\ (r = Idle \/ r = [run[c] EXCEPT !.pc = "refresh"])
  <2>1. CASE Rests(c)  BY <2>1 DEF Rests
  <2>2. CASE Goes(c, "refresh")  BY <1>3, <1>4, <2>2 DEF Goes, IsRun
  <2> QED  BY <2>1, <2>2 DEF Commit, CommitFails
<1>7. IsRun(r) /\ RunStored(r, lib) /\ ~Judged(r)
  <2>1. CASE r = Idle  BY <1>2, <2>1, IdleRun, RowKeeps
  <2>2. CASE r = [run[c] EXCEPT !.pc = "refresh"]
    <3>1. IsRun(r) /\ r.pc = "refresh" /\ r.metrics = run[c].metrics /\ r.scores = run[c].scores
      BY <1>3, <2>2 DEF IsRun
    <3> QED  BY <1>5, <3>1 DEF RunStored, Judged
  <2> QED  BY <1>6, <2>1, <2>2
<1>8. PICK q : /\ rows' = [rows EXCEPT ![run[c].row] = q]
               /\ \/ q = Ended(c)
                  \/ q = [Row(c) EXCEPT !.left = "commit"]
                  \/ q = [Row(c) EXCEPT !.status = "failed"]
  BY DEF Commit, CommitFails, SetRow, OwnRow
<1>9. q.engine = Row(c).engine /\ RowStored(q, lib)
  <2>1. CASE q = [Row(c) EXCEPT !.left = "commit"] \/ q = [Row(c) EXCEPT !.status = "failed"]
    <3>1. q.left \in {"commit", Row(c).left} /\ q.status # "completed" /\ q.metrics = Row(c).metrics
          /\ q.scores = Row(c).scores /\ q.engine = Row(c).engine
      BY <1>3, <2>1 DEF IsRow, Open
    <3> QED  BY <1>5, <3>1 DEF RowStored, Left
  <2>2. CASE q = Ended(c) /\ run[c].ending = "completed"
    <3>1. q.left = Row(c).left /\ q.metrics = run[c].metrics /\ q.scores = run[c].scores /\ q.engine = Row(c).engine
      BY <1>3, <2>2 DEF IsRow, Ended
    <3>2. Judged(run[c]) /\ Row(c).engine = rows[run[c].row].engine  BY <1>1, <2>2 DEF Judged, Row
    <3> QED  BY <1>5, <3>1, <3>2 DEF RowStored, RunStored, Measured
  <2>3. CASE q = Ended(c) /\ run[c].ending # "completed"
    <3>1. q.left = Row(c).left /\ q.metrics = Row(c).metrics /\ q.scores = Row(c).scores /\ q.engine = Row(c).engine
          /\ q.status = run[c].ending
      BY <1>3, <2>3 DEF IsRow, Ended
    <3> QED  BY <1>5, <2>3, <3>1 DEF RowStored
  <2> QED  BY <1>8, <2>1, <2>2, <2>3
<1> QED  BY <1>1, <1>2, <1>6, <1>7, <1>8, <1>9, RowStores

(* A caller that rests leaves its row, or marks why the row is left. *)
LEMMA RestStores ==
  ASSUME Inv, Measured, NEW c \in Caller, Refresh(c) \/ RefreshFails(c) \/ Crash(c)
  PROVE  Measured'
<1>1. run[c].pc # "idle" /\ UNCHANGED lib /\ run' = [run EXCEPT ![c] = Idle]
  BY DEF Refresh, RefreshFails, Crash, Rests
<1>2. IsRow(Row(c))  BY <1>1, AtWork
<1>3. RowStored(Row(c), lib) /\ RunStored(Idle, lib) /\ ~Judged(Idle)  BY <1>1, RowKeeps
<1>4. CASE UNCHANGED rows  BY <1>1, <1>3, <1>4, IdleRun, CallerStores
<1>5. ASSUME NEW q, SetRow(c, q), q.left \in Left, q.status = "failed" \/ q.status = Row(c).status,
             q.metrics = Row(c).metrics, q.scores = Row(c).scores, q.engine = Row(c).engine
      PROVE  Measured'
  <2>1. rows' = [rows EXCEPT ![run[c].row] = q]  BY <1>5 DEF SetRow, OwnRow
  <2>2. RowStored(q, lib)  BY <1>3, <1>5 DEF RowStored
  <2> QED  BY <1>1, <1>3, <1>5, <2>1, <2>2, IdleRun, RowStores
<1>6. CASE SetRow(c, [Row(c) EXCEPT !.status = "failed", !.left = "refresh"])
  <2> DEFINE q == [Row(c) EXCEPT !.status = "failed", !.left = "refresh"]
  <2>1. q.left = "refresh" /\ q.status = "failed" /\ q.metrics = Row(c).metrics /\ q.scores = Row(c).scores
        /\ q.engine = Row(c).engine
    BY <1>2 DEF IsRow
  <2>2. SetRow(c, q)  BY <1>6
  <2> HIDE DEF q
  <2> QED  BY <1>5, <2>1, <2>2 DEF Left
<1>7. CASE SetRow(c, [Row(c) EXCEPT !.left = "crash"])
  <2> DEFINE q == [Row(c) EXCEPT !.left = "crash"]
  <2>1. q.left = "crash" /\ q.status = Row(c).status /\ q.metrics = Row(c).metrics /\ q.scores = Row(c).scores
        /\ q.engine = Row(c).engine
    BY <1>2 DEF IsRow
  <2>2. SetRow(c, q)  BY <1>7
  <2> HIDE DEF q
  <2> QED  BY <1>5, <2>1, <2>2 DEF Left
<1> QED  BY <1>4, <1>6, <1>7 DEF Refresh, RefreshFails, Crash

(* A reference that was stored completely never looks like one that is     *)
(* being stored: it is deleted entry by entry, and not stored again.       *)
LEMMA LibraryStores == ASSUME Inv, Measured, Bounded, NEW ref \in Ref, Library(ref) PROVE Measured'
<1>1. UNCHANGED <<rows, run>>  BY DEF Library
<1>2. \A other \in Ref : lib[other] \in OnceWhole => lib'[other] \in OnceWhole
  BY DEF Library, SaveFingerprint, SaveMetadata, DeleteEntry, Bounded, OnceWhole
<1>3. \A scores : Traced(scores, lib) => Traced(scores, lib')
  <2> TAKE scores
  <2> HAVE Traced(scores, lib)
  <2>1. \A k \in DOMAIN scores : scores[k] \in Comparison  BY DEF Traced
  <2>2. \A k \in DOMAIN scores : scores[k].ref \in Ref  BY <2>1, RoundedUp
  <2> QED  BY <1>2, <2>2 DEF Traced
<1>4. \A r : (RowStored(r, lib) => RowStored(r, lib')) /\ (RunStored(r, lib) => RunStored(r, lib'))
  BY <1>3 DEF RowStored, RunStored
<1>5. \A i \in RowId' : RowStored(rows'[i], lib')  BY <1>1, <1>4 DEF Measured, RowId
<1>6. \A c \in Caller : RunStored(run'[c], lib')  BY <1>1, <1>4 DEF Measured
<1> QED  BY <1>1, <1>5, <1>6 DEF Measured, Judged

(* The bounds of the scene and the states of a reference. *)
LEMMA NextBounded == ASSUME Inv, Bounded, [Next]_vars PROVE Bounded'
<1>1. CASE UNCHANGED vars  BY <1>1 DEF vars, Bounded
<1>2. ASSUME NEW c \in Caller, Begin(c) PROVE Bounded'
  <2>1. PICK e \in Evidence, E \in scene.asks[c] : rows' = Append(rows, NewRow(E, e))  BY <1>2 DEF Begin
  <2>2. PICK S : rows \in Seq(S)  BY DEF Inv, Shape
  <2>3. scene.runs \in Nat  BY RunsAssumption DEF Inv, SceneGiven
  <2>4. Len(rows') = Len(rows) + 1 /\ Len(rows) \in Nat  BY <2>1, <2>2, Appended
  <2>5. Len(rows) < scene.runs /\ UNCHANGED <<scene, lib, faults>>
    <3>1. Len(rows) < scene.runs  BY <1>2, Zenon DEF Begin
    <3>2. UNCHANGED <<scene, lib, faults>>  BY <1>2, Zenon DEF Begin
    <3> QED  BY <3>1, <3>2
  <2> QED  BY <2>3, <2>4, <2>5 DEF Bounded
<1>3. ASSUME NEW c \in Caller, UNCHANGED <<scene, lib>>, faults' = faults \/ Fault,
             run[c].pc # "idle", UNCHANGED rows \/ \E q : SetRow(c, q)
      PROVE  Bounded'
  <2>1. Len(rows') = Len(rows)
    <3>1. CASE UNCHANGED rows  BY <3>1
    <3>2. CASE \E q : SetRow(c, q)
      <4>1. PICK q : rows' = [rows EXCEPT ![run[c].row] = q]  BY <3>2 DEF SetRow, OwnRow
      <4>2. PICK S : rows \in Seq(S)  BY DEF Inv, Shape
      <4>3. run[c].row \in RowId  BY <1>3 DEF Inv, Working
      <4> QED  BY <4>1, <4>2, <4>3, Replaced
    <3> QED  BY <1>3, <3>1, <3>2
  <2>2. faults' \in 0 .. MaxFaults  BY <1>3, RunsAssumption DEF Fault, Bounded
  <2> QED  BY <1>3, <2>1, <2>2 DEF Bounded
<1>4. ASSUME NEW c \in Caller, Execute(c) PROVE Bounded'
  <2>1. UNCHANGED <<scene, lib, faults>> /\ run[c].pc = "execute"  BY <1>4, Zenon DEF Execute
  <2>2. UNCHANGED rows \/ SetRow(c, [Row(c) EXCEPT !.left = "raised"])  BY <1>4, Zenon DEF Execute
  <2> QED  BY <1>3, <2>1, <2>2
<1>5. ASSUME NEW c \in Caller, Compare(c) \/ Judge(c) PROVE Bounded'
  BY <1>5 DEF Compare, Judge, Bounded
<1>6. ASSUME NEW c \in Caller, Write(c) \/ Written(c) \/ WriteFails(c) \/ WriteLost(c) PROVE Bounded'
  <2>1. run[c].pc = "write" /\ UNCHANGED <<scene, rows, lib>> /\ (faults' = faults \/ Fault)
    BY <1>6 DEF Write, Written, WriteFails, WriteLost
  <2> QED  BY <1>3, <2>1
<1>7. ASSUME NEW c \in Caller, Commit(c) \/ CommitFails(c) PROVE Bounded'
  <2>1. run[c].pc = "commit" /\ UNCHANGED <<scene, lib>> /\ (faults' = faults \/ Fault) /\ \E q : SetRow(c, q)
    BY <1>7 DEF Commit, CommitFails
  <2> QED  BY <1>3, <2>1
<1>8. ASSUME NEW c \in Caller, Refresh(c) \/ RefreshFails(c) \/ Crash(c) PROVE Bounded'
  <2>1. run[c].pc # "idle" /\ UNCHANGED <<scene, lib>> /\ (faults' = faults \/ Fault)
    BY <1>8 DEF Refresh, RefreshFails, Crash
  <2>2. UNCHANGED rows \/ \E q : SetRow(c, q)  BY <1>8 DEF Refresh, RefreshFails, Crash
  <2> QED  BY <1>3, <2>1, <2>2
<1>9. ASSUME NEW ref \in Ref, Library(ref) PROVE Bounded'
  <2>1. UNCHANGED <<scene, rows, faults>>  BY <1>9 DEF Library
  <2>2. PICK to \in Directory : lib' = [lib EXCEPT ![ref] = to]
    BY <1>9 DEF Library, SaveFingerprint, SaveMetadata, DeleteEntry, Directory
  <2> QED  BY <2>1, <2>2 DEF Bounded
<1>10. CASE Finished  BY <1>10 DEF Finished, vars, Bounded
<1> QED  BY <1>1, <1>2, <1>4, <1>5, <1>6, <1>7, <1>8, <1>9, <1>10 DEF Next

(* At first nothing is stored of any run. *)
LEMMA InitMeasured == Init => Measured /\ Bounded
<1> SUFFICES ASSUME Init PROVE Measured /\ Bounded  OBVIOUS
<1>1. rows = <<>> /\ run = [c \in Caller |-> Idle] /\ scene \in Scenes /\ faults = 0
      /\ lib = [ref \in Ref |-> IF ref \in Stored THEN "whole" ELSE "none"]
  BY Zenon DEF Init
<1>2. Len(rows) = 0 /\ RowId = {}
  <2>1. Len(rows) = 0  BY <1>1
  <2> QED  BY <2>1 DEF RowId
<1>3. RunStored(Idle, lib) /\ ~Judged(Idle)
  BY DEF RunStored, Judged, Idle, Directed, NoMetrics, Traced
<1>4. Measured  BY <1>1, <1>2, <1>3 DEF Measured
<1>5. scene.runs \in Nat /\ MaxFaults \in Nat  BY <1>1, RunsAssumption
<1> QED  BY <1>1, <1>2, <1>4, <1>5 DEF Bounded, Directory

(* Every step keeps what is stored. *)
LEMMA NextMeasured == Inv /\ Measured /\ Bounded /\ [Next]_vars => Measured' /\ Bounded'
<1> SUFFICES ASSUME Inv, Measured, Bounded, [Next]_vars PROVE Measured'  BY NextBounded
<1>1. CASE UNCHANGED vars  BY <1>1 DEF vars, Measured, RowId, Judged
<1>2. ASSUME NEW c \in Caller, Begin(c) \/ Execute(c) \/ Compare(c) \/ Judge(c) PROVE Measured'
  BY <1>2, BeginStores, ExecuteStores, CompareStores
<1>3. ASSUME NEW c \in Caller, Write(c) \/ Written(c) \/ WriteFails(c) \/ WriteLost(c) PROVE Measured'
  BY <1>3, WriteStores
<1>4. ASSUME NEW c \in Caller, Commit(c) \/ CommitFails(c) \/ Refresh(c) \/ RefreshFails(c) \/ Crash(c)
      PROVE Measured'
  BY <1>4, CommitStores, RestStores
<1>5. ASSUME NEW ref \in Ref, Library(ref) PROVE Measured'  BY <1>5, LibraryStores
<1>6. CASE Finished  BY <1>6 DEF Finished, vars, Measured, RowId, Judged
<1> QED  BY <1>1, <1>2, <1>3, <1>4, <1>5, <1>6 DEF Next

(* It holds in every reachable state. *)
LEMMA SpecMeasured == Spec => [](Inv /\ Measured /\ Bounded)
<1>1. Init => Inv /\ Measured /\ Bounded  BY InitInv, InitMeasured
<1>2. Inv /\ Measured /\ Bounded /\ [Next]_vars => (Inv /\ Measured /\ Bounded)'
  BY NextInv, NextMeasured
<1> QED  BY <1>1, <1>2, PTL DEF Spec

(* The state is well formed: what run_engine and the library keep, and     *)
(* that every direction an engine stores is one of the indicators.         *)
THEOREM RunsAreTyped == Spec => []RunsTypeOK
<1>1. Inv /\ Measured /\ Bounded => RunsTypeOK
  <2> SUFFICES ASSUME Inv, Measured, Bounded PROVE RunsTypeOK  OBVIOUS
  <2>1. scene \in Scenes /\ \A name \in DOMAIN disk : disk[name] \in RowId
    BY DEF Inv, SceneGiven, DiskHeld
  <2>2. \A i \in RowId : /\ rows[i].engine \in Engine /\ rows[i].evidence \in Evidence
                         /\ rows[i].status \in Status /\ rows[i].left \in Left
                         /\ \A metric \in DOMAIN rows[i].metrics : rows[i].metrics[metric] \in Indicator
    BY DEF Inv, Statuses, Measured, RowStored, Directed
  <2>3. \A c \in Caller :
          /\ run[c].pc \in {"idle", "execute", "compare", "write", "commit", "refresh"}
          /\ run[c].pc # "idle" => run[c].row \in RowId
          /\ run[c].pc = "commit" => run[c].ending # "running"
    BY DEF Inv, Working, Steps
  <2> QED  BY <2>1, <2>2, <2>3 DEF RunsTypeOK, Bounded
<1> QED  BY <1>1, SpecMeasured, PTL

(* CAMERA-ID names a camera only by a comparison with a reference that had *)
(* been stored completely (camera_reference_library.py writes the metadata *)
(* last), and both measures behind the name are elevated: the verdict is   *)
(* given before the rounding, which takes no measure below its threshold.  *)
THEOREM CamerasAreBacked == Spec => []CameraBacked
<1>1. Inv /\ Measured /\ Bounded => CameraBacked
  <2> SUFFICES ASSUME Measured, NEW i \in RowId, rows[i].engine = "CAMERA-ID", rows[i].status = "completed"
               PROVE  /\ \A k \in DOMAIN rows[i].scores : lib[rows[i].scores[k].ref] \notin {"none", "fingerprint"}
                      /\ rows[i].metrics["CANDIDATE_CAMERA_CONSISTENCY"] = "elevated" =>
                           /\ rows[i].metrics["MAX_CORRELATION"] = "elevated"
                           /\ rows[i].metrics["PCE"] = "elevated"
    BY DEF CameraBacked
  <2>1. Traced(rows[i].scores, lib) /\ rows[i].metrics = CameraObserved(rows[i].scores)
    BY DEF Measured, RowStored
  <2> QED  BY <2>1, CandidateBacked DEF Traced, OnceWhole
<1> QED  BY <1>1, SpecMeasured, PTL

-----------------------------------------------------------------------------
(* The marker parser *)

(* What the parser holds after n tokens. *)
Reading(stream) ==
  CHOOSE read : read = [n \in 0 .. Len(stream) |->
    IF n = 0 THEN Blank ELSE Step(read[n - 1], stream[n], n = Len(stream))]

(* There is such a function: what it holds after a token is made of what   *)
(* it held before.                                                         *)
LEMMA ReadingSteps ==
  ASSUME NEW S, NEW stream \in Seq(S)
  PROVE  /\ Reading(stream)[0] = Blank
         /\ \A n \in 1 .. Len(stream) :
              Reading(stream)[n] = Step(Reading(stream)[n - 1], stream[n], n = Len(stream))
<1> DEFINE L == Len(stream)
           After(v, n) == Step(v, stream[n], n = L)
           Reads(g, N) == g = [n \in 0 .. N |-> IF n = 0 THEN Blank ELSE After(g[n - 1], n)]
           Stuck == {N \in 0 .. L : ~ \E g : Reads(g, N)}
<1>1. L \in Nat  OBVIOUS
<1> HIDE DEF L, After
<1>2. Stuck = {}
  <2> SUFFICES ASSUME Stuck # {} PROVE FALSE  OBVIOUS
  <2>1. Stuck \in SUBSET Nat  BY <1>1
  <2>2. PICK N \in Stuck : \A M \in Stuck : N <= M
    <3> HIDE DEF Stuck
    <3> QED  BY <2>1, Least
  <2>3. CASE N = 0
    <3> DEFINE g == [n \in 0 .. 0 |-> Blank]
    <3>1. Reads(g, 0)  OBVIOUS
    <3> QED  BY <2>2, <2>3, <3>1
  <2>4. CASE N # 0
    <3>1. N - 1 \in 0 .. L /\ N - 1 \notin Stuck /\ N \in Nat
      <4>1. N \in 0 .. L  BY <2>2
      <4>2. N \in Nat /\ N - 1 \in 0 .. L /\ ~ (N <= N - 1)  BY <1>1, <2>4, <4>1
      <4> HIDE DEF Stuck
      <4> QED  BY <2>2, <4>2
    <3>2. PICK h : Reads(h, N - 1)  BY <3>1
    <3> DEFINE g == [n \in 0 .. N |-> IF n = N THEN After(h[N - 1], N) ELSE h[n]]
    <3>3. \A n \in 0 .. N - 1 : h[n] = IF n = 0 THEN Blank ELSE After(h[n - 1], n)  BY <3>2
    <3>4. \A n \in 0 .. N - 1 : g[n] = h[n]  BY <3>1
    <3>5. g[N] = After(g[N - 1], N)  BY <2>4, <3>1, <3>4
    <3>6. \A n \in 0 .. N - 1 : n # 0 => n - 1 \in 0 .. N - 1  BY <3>1
    <3>7. \A n \in 0 .. N : g[n] = IF n = 0 THEN Blank ELSE After(g[n - 1], n)
      <4> TAKE n \in 0 .. N
      <4>1. CASE n = N  BY <2>4, <3>5, <4>1
      <4>2. CASE n # N
        <5>1. n \in 0 .. N - 1  BY <3>1, <4>2
        <5> HIDE DEF g
        <5> QED  BY <3>3, <3>4, <3>6, <5>1
      <4> QED  BY <4>1, <4>2
    <3>8. DOMAIN g = 0 .. N /\ g = [n \in 0 .. N |-> g[n]]  OBVIOUS
    <3> HIDE DEF g
    <3>9. Reads(g, N)  BY <3>7, <3>8
    <3> QED  BY <2>2, <3>9
  <2> QED  BY <2>3, <2>4
<1>3. \E g : Reads(g, L)  BY <1>1, <1>2
<1>4. Reads(Reading(stream), L)
  BY <1>3 DEF Reading, L, After
<1> DEFINE r == Reading(stream)
<1>5. r = [n \in 0 .. L |-> IF n = 0 THEN Blank ELSE After(r[n - 1], n)]  BY <1>4
<1> HIDE DEF r
<1>6. r[0] = Blank  BY <1>1, <1>5
<1>7. \A n \in 1 .. L : r[n] = After(r[n - 1], n)  BY <1>1, <1>5
<1> QED  BY <1>6, <1>7 DEF r, L, After

(* The parser reads so. *)
LEMMA ParsedReads ==
  ASSUME NEW stream
  PROVE  Parsed(stream) = [Reading(stream)[Len(stream)] EXCEPT
                             !.odd = @ \cup CrossChecks(Reading(stream)[Len(stream)])]
BY Zenon DEF Parsed, Reading

(* What the parser holds is a record with these fields, and it is clean as *)
(* long as it has met no anomaly.                                          *)
IsHeld(s) ==
  /\ DOMAIN s = {"mode", "odd", "names", "sof", "refs", "dqt", "dht", "raised"}
  /\ s = [field \in DOMAIN s |-> s[field]]
Clean(s) == s.odd = {} /\ ~s.raised

(* No step takes an anomaly back. *)
Grown(u, s) == IsHeld(u) /\ s.odd \subseteq u.odd

(* What the operators of the parser do to the fields. *)
LEMMA Fields ==
  ASSUME NEW s, IsHeld(s)
  PROVE  /\ \A a : Grown(Odd(s, a), s) /\ Odd(s, a).odd # {} /\ Odd(s, a).mode = s.mode
                   /\ Odd(s, a).raised = s.raised
         /\ \A t : Grown(Named(s, t), s) /\ Named(s, t).odd = s.odd /\ Named(s, t).mode = s.mode
                   /\ Named(s, t).names = s.names \cup {MarkerName(t)} /\ Named(s, t).sof = s.sof
                   /\ Named(s, t).refs = s.refs /\ Named(s, t).dqt = s.dqt /\ Named(s, t).raised = s.raised
         /\ Grown(End(s), s) /\ End(s).odd = s.odd /\ End(s).mode = "end" /\ End(s).raised = s.raised
            /\ End(s).names = s.names /\ End(s).sof = s.sof /\ End(s).refs = s.refs /\ End(s).dqt = s.dqt
<1>1. \A a : Grown(Odd(s, a), s) /\ Odd(s, a).odd # {} /\ Odd(s, a).mode = s.mode /\ Odd(s, a).raised = s.raised
  BY DEF Grown, IsHeld, Odd
<1>2. \A t : Grown(Named(s, t), s) /\ Named(s, t).odd = s.odd /\ Named(s, t).mode = s.mode
             /\ Named(s, t).names = s.names \cup {MarkerName(t)} /\ Named(s, t).sof = s.sof
             /\ Named(s, t).refs = s.refs /\ Named(s, t).dqt = s.dqt /\ Named(s, t).raised = s.raised
  BY DEF Grown, IsHeld, Named
<1>3. Grown(End(s), s) /\ End(s).odd = s.odd /\ End(s).mode = "end" /\ End(s).raised = s.raised
      /\ End(s).names = s.names /\ End(s).sof = s.sof /\ End(s).refs = s.refs /\ End(s).dqt = s.dqt
  BY DEF Grown, IsHeld, End
<1> QED  BY <1>1, <1>2, <1>3

(* One after the other. *)
LEMMA GrownTwice ==
  ASSUME NEW s, NEW u, NEW v, Grown(u, s), Grown(v, u)
  PROVE  Grown(v, s)
BY DEF Grown

(* A segment as it is read before it is asked whether it was cut.          *)
Read(n, t) ==
  CASE t.k = "DQT" -> ReadDQT(n, t)
    [] t.k = "DHT" -> ReadDHT(n, t)
    [] t.k = "DRI" -> ReadDRI(n, t)
    [] t.k = "SOF" -> ReadSOF(n, t)
    [] t.k = "SOS" -> ReadSOS(n, t)
    [] OTHER       -> n

(* What is wrong with it is an anomaly, and else it is kept. *)
ReadsAs(u, n, t) ==
  /\ Grown(u, n)
  /\ t.flaw = "zero" => u.odd # {}
  /\ t.flaw = "wide" => u.raised
  /\ t.k = "SOF" /\ n.sof => u.odd # {}
  /\ t.flaw \in {"none", "custom"} =>
       /\ t.k \in {"DRI", "DAC", "APP"} => u = n
       /\ t.k = "DQT" => u = [n EXCEPT !.dqt = Append(@, t.id)]
       /\ t.k = "DHT" => u = [n EXCEPT !.dht = Append(@, t.flaw = "custom")]
       /\ t.k = "SOS" => u = [n EXCEPT !.mode = "scan"]
       /\ t.k = "SOF" /\ ~n.sof => u = [n EXCEPT !.sof = TRUE, !.refs = t.refs]

(* So it is with every segment. *)
LEMMA ReadStep ==
  ASSUME NEW n, IsHeld(n), NEW t \in Token, t.k \in Segments
  PROVE  ReadsAs(Read(n, t), n, t)
<1> DEFINE whole == Read(n, t)
<1>1. (t.flaw = "zero" => t.k = "SOF") /\ (t.flaw = "wide" => t.k = "DQT")
      /\ t.flaw \in {"none", "cut", "zero", "wide", "custom"}
  BY DEF Token
<1>3. Grown(n, n) /\ n \in {n}  BY DEF Grown
<1>4. CASE t.k = "DQT"
  <2>1. whole = ReadDQT(n, t)  BY <1>4 DEF Read
  <2>2. t.flaw \in {"none", "custom"} => whole = [n EXCEPT !.dqt = Append(@, t.id)]
    BY <2>1 DEF ReadDQT
  <2>3. t.flaw = "wide" => whole = [n EXCEPT !.raised = TRUE]  BY <2>1 DEF ReadDQT
  <2>4. t.flaw = "cut" => whole = Odd(n, "table")  BY <2>1 DEF ReadDQT
  <2>5. Grown(whole, n)
    <3>1. CASE t.flaw = "cut"  BY <2>4, <3>1, Fields
    <3>2. CASE t.flaw = "wide"  BY <2>3, <3>2 DEF Grown, IsHeld
    <3>3. CASE t.flaw \in {"none", "custom"}  BY <2>2, <3>3 DEF Grown, IsHeld
    <3> QED  BY <1>1, <1>4, <3>1, <3>2, <3>3
  <2>6. t.flaw = "wide" => whole.raised  BY <2>3 DEF IsHeld
  <2> QED  BY <1>1, <1>4, <2>2, <2>5, <2>6 DEF ReadsAs
<1>5. CASE t.k = "DHT"
  <2>1. whole = ReadDHT(n, t)  BY <1>5 DEF Read
  <2>2. t.flaw \in {"none", "custom"} => whole = [n EXCEPT !.dht = Append(@, t.flaw = "custom")]
    BY <2>1 DEF ReadDHT
  <2>3. t.flaw = "cut" => whole = Odd(n, "table")  BY <2>1 DEF ReadDHT
  <2>4. Grown(whole, n)
    <3>1. CASE t.flaw = "cut"  BY <2>3, <3>1, Fields
    <3>2. CASE t.flaw \in {"none", "custom"}  BY <2>2, <3>2 DEF Grown, IsHeld
    <3> QED  BY <1>1, <1>5, <3>1, <3>2
  <2> QED  BY <1>1, <1>5, <2>2, <2>4 DEF ReadsAs
<1>6. CASE t.k = "DRI"
  <2>1. whole = ReadDRI(n, t)  BY <1>6 DEF Read
  <2>2. IF t.flaw = "cut" THEN whole = Odd(n, "restart") ELSE whole = n  BY <2>1 DEF ReadDRI
  <2> QED  BY <1>1, <1>3, <1>6, <2>2, Fields DEF ReadsAs
<1>7. CASE t.k = "SOF"
  <2>1. whole = ReadSOF(n, t)  BY <1>7 DEF Read
  <2> DEFINE first == IF n.sof THEN Odd(n, "duplicate") ELSE n
             seen == [first EXCEPT !.sof = TRUE]
  <2>2. Grown(first, n) /\ (n.sof => first.odd # {})  BY <1>3, Fields
  <2>3. ~n.sof => first = n  OBVIOUS
  <2>4. whole = CASE t.flaw = "cut"  -> Odd(seen, "frame")
                  [] t.flaw = "zero" -> [Odd(seen, "extent") EXCEPT !.refs = t.refs]
                  [] OTHER           -> [seen EXCEPT !.refs = t.refs]
    BY <2>1, Zenon DEF ReadSOF
  <2> HIDE DEF first
  <2>5. IsHeld(seen) /\ seen.odd = first.odd  BY <2>2 DEF Grown, IsHeld
  <2>6. t.flaw \in {"none", "custom"} => whole = [seen EXCEPT !.refs = t.refs]  BY <2>4
  <2>7. t.flaw \in {"none", "custom"} /\ ~n.sof => whole = [n EXCEPT !.sof = TRUE, !.refs = t.refs]
    BY <2>3, <2>6
  <2> HIDE DEF seen
  <2>8. t.flaw = "cut" => IsHeld(whole) /\ whole.odd = seen.odd \cup {"frame"}
    BY <2>4, <2>5 DEF Odd, IsHeld
  <2>9. t.flaw = "zero" => IsHeld(whole) /\ whole.odd = seen.odd \cup {"extent"}
    BY <2>4, <2>5 DEF Odd, IsHeld
  <2>10. t.flaw \in {"none", "custom"} => IsHeld(whole) /\ whole.odd = seen.odd
    BY <2>5, <2>6 DEF IsHeld
  <2>11. Grown(whole, n) /\ (n.sof \/ t.flaw = "zero" => whole.odd # {})
    BY <1>1, <1>7, <2>2, <2>5, <2>8, <2>9, <2>10 DEF Grown
  <2> QED  BY <1>1, <1>7, <2>7, <2>11 DEF ReadsAs
<1>8. CASE t.k = "SOS"
  <2>1. whole = ReadSOS(n, t)  BY <1>8 DEF Read
  <2>2. t.flaw \in {"none", "custom"} => whole = [n EXCEPT !.mode = "scan"]  BY <2>1 DEF ReadSOS
  <2>3. t.flaw = "cut" => whole = [Odd(n, "scan") EXCEPT !.mode = "scan"]  BY <2>1 DEF ReadSOS
  <2>4. Grown(whole, n)
    <3>1. CASE t.flaw = "cut"  BY <2>3, <3>1 DEF Odd, Grown, IsHeld
    <3>2. CASE t.flaw \in {"none", "custom"}  BY <2>2, <3>2 DEF Grown, IsHeld
    <3> QED  BY <1>1, <1>8, <3>1, <3>2
  <2> QED  BY <1>1, <1>8, <2>2, <2>4 DEF ReadsAs
<1>9. CASE t.k \in {"DAC", "APP"}
  <2>1. whole = n  BY <1>9 DEF Read
  <2> QED  BY <1>1, <1>3, <1>9, <2>1 DEF ReadsAs
<1> QED  BY <1>4, <1>5, <1>6, <1>7, <1>8, <1>9 DEF Segments

(* And a segment that was cut is an anomaly. *)
LEMMA SegmentStep ==
  ASSUME NEW n, IsHeld(n), NEW t \in Token, t.k \in Segments
  PROVE  ReadsAs(Segment(n, t), n, t) /\ (t.flaw = "cut" => Segment(n, t).odd # {})
<1> DEFINE whole == Read(n, t)
           cut == Odd(whole, "truncated")
<1>1. Grown(whole, n)  BY ReadStep DEF ReadsAs
<1>2. Segment(n, t) = IF t.flaw # "cut" THEN whole ELSE IF t.k = "SOS" THEN cut ELSE End(cut)
  BY Zenon DEF Segment, Read
<1>3. t.flaw = "cut" => Grown(Segment(n, t), n) /\ Segment(n, t).odd # {}
  <2>1. IsHeld(whole) /\ Grown(cut, whole) /\ cut.odd # {}  BY <1>1, Fields DEF Grown
  <2>2. Grown(End(cut), cut) /\ End(cut).odd = cut.odd  BY <2>1, Fields DEF Grown
  <2>3. Grown(cut, n) /\ Grown(End(cut), n)  BY <1>1, <2>1, <2>2, GrownTwice
  <2> HIDE DEF whole, cut
  <2> QED  BY <1>2, <2>1, <2>2, <2>3
<1>4. CASE t.flaw = "cut"
  <2>1. Grown(Segment(n, t), n) /\ Segment(n, t).odd # {}  BY <1>3, <1>4
  <2> QED  BY <1>4, <2>1 DEF ReadsAs
<1>5. CASE t.flaw # "cut"
  <2>1. Segment(n, t) = Read(n, t)  BY <1>2, <1>5
  <2> QED  BY <1>5, <2>1, ReadStep
<1> QED  BY <1>4, <1>5

(* A parser that can go on has met no anomaly and no EOI. *)
Going(s) == IsHeld(s) /\ Clean(s) /\ s.mode \in {"head", "scan"} /\ "EOI" \notin s.names

(* What it can read without an anomaly. *)
Flawless(t) == t.k # "short" /\ t.flaw \notin {"cut", "zero", "wide"}
Accepts(s, t, last) ==
  /\ Flawless(t)
  /\ t.k = "EOI" => last
  /\ s.mode = "head" => /\ t.k # "bytes"
                        /\ t.k = "SOF" => ~s.sof
                        /\ t.k = "pad" => ~last
  /\ s.mode = "scan" => t.k \in {"bytes", "pad", "RST", "EOI"}

(* What it then holds. *)
Kept(u, s, t) ==
  /\ IsHeld(u)
  /\ Clean(u)
  /\ "EOI" \in u.names <=> t.k = "EOI"
  /\ u.mode = CASE t.k = "EOI" -> "end" [] t.k = "SOS" -> "scan" [] OTHER -> s.mode
  /\ u.sof <=> s.sof \/ t.k = "SOF"
  /\ u.refs = IF t.k = "SOF" THEN t.refs ELSE s.refs
  /\ u.dqt = IF t.k = "DQT" THEN Append(s.dqt, t.id) ELSE s.dqt

(* What is left of it otherwise. *)
Spoiled(s) == IsHeld(s) /\ (~Clean(s) \/ (s.mode = "end" /\ "EOI" \notin s.names))

(* EOI is the end of the parse. *)
LEMMA EOIStep ==
  ASSUME NEW s, Going(s), NEW t, t.k = "EOI", NEW last \in BOOLEAN
  PROVE  /\ last => Kept(AtEOI(Named(s, t), last), s, t)
         /\ ~last => Spoiled(AtEOI(Named(s, t), last))
<1> DEFINE n == Named(s, t)
           o == Odd(n, "trailing")
<1>1. MarkerName(t) = "EOI"  BY DEF MarkerName
<1>2. IsHeld(s) /\ s.odd = {} /\ ~s.raised  BY DEF Going, Clean
<1>3. IsHeld(n) /\ n.odd = {} /\ n.raised = s.raised /\ n.names = s.names \cup {"EOI"}
      /\ n.sof = s.sof /\ n.refs = s.refs /\ n.dqt = s.dqt
  BY <1>1, <1>2, Fields DEF Grown
<1>4. CASE last
  <2>1. AtEOI(n, last) = End(n)  BY <1>4 DEF AtEOI
  <2>2. IsHeld(End(n)) /\ End(n).odd = {} /\ End(n).mode = "end" /\ End(n).raised = s.raised
        /\ End(n).names = s.names \cup {"EOI"} /\ End(n).sof = s.sof /\ End(n).refs = s.refs /\ End(n).dqt = s.dqt
    BY <1>3, Fields DEF Grown
  <2> HIDE DEF n
  <2>3. Kept(End(n), s, t)  BY <1>2, <2>2 DEF Kept, Clean
  <2> QED  BY <1>4, <2>1, <2>3 DEF n
<1>5. CASE ~last
  <2>1. AtEOI(n, last) = End(o)  BY <1>5 DEF AtEOI
  <2>2. IsHeld(o) /\ o.odd # {}  BY <1>3, Fields DEF Grown
  <2>3. IsHeld(End(o)) /\ End(o).odd # {}  BY <2>2, Fields DEF Grown
  <2> HIDE DEF o
  <2>4. Spoiled(End(o))  BY <2>3 DEF Spoiled, Clean
  <2> QED  BY <1>5, <2>1, <2>4 DEF n
<1> QED  BY <1>4, <1>5

(* A token in the header. *)
LEMMA HeaderStep ==
  ASSUME NEW s, Going(s), s.mode = "head", NEW t \in Token, NEW last \in BOOLEAN
  PROVE  /\ Accepts(s, t, last) => Kept(InHeader(s, t, last), s, t)
         /\ ~Accepts(s, t, last) => Spoiled(InHeader(s, t, last))
<1> DEFINE n == Named(s, t)
           u == InHeader(s, t, last)
<1>1. IsHeld(s) /\ s.odd = {} /\ ~s.raised /\ "EOI" \notin s.names  BY DEF Going, Clean
<1>2. IsHeld(n) /\ n.odd = {} /\ n.raised = s.raised /\ n.names = s.names \cup {MarkerName(t)}
      /\ n.sof = s.sof /\ n.refs = s.refs /\ n.dqt = s.dqt /\ n.mode = "head"
  BY <1>1, Fields DEF Grown
<1>3. t.k \in Kinds /\ t.flaw \in {"none", "cut", "zero", "wide", "custom"}
      /\ (t.flaw = "cut" => t.k \in Segments) /\ (t.flaw = "zero" => t.k = "SOF") /\ (t.flaw = "wide" => t.k = "DQT")
  BY DEF Token
<1>4. CASE t.k = "bytes"
  <2>1. u = Odd(s, "garbage") /\ ~Accepts(s, t, last)  BY <1>4 DEF InHeader, Accepts, Going
  <2>2. IsHeld(u) /\ u.odd # {}  BY <1>1, <2>1, Fields DEF Grown
  <2> QED  BY <2>1, <2>2 DEF Spoiled, Clean
<1>5. CASE t.k = "pad"
  <2>1. CASE last
    <3>1. u = End(Odd(s, "padding")) /\ ~Accepts(s, t, last)  BY <1>5, <2>1 DEF InHeader, Accepts
    <3>2. IsHeld(Odd(s, "padding")) /\ Odd(s, "padding").odd # {}  BY <1>1, Fields DEF Grown
    <3>3. IsHeld(u) /\ u.odd # {}  BY <3>1, <3>2, Fields DEF Grown
    <3> QED  BY <3>1, <3>3 DEF Spoiled, Clean
  <2>2. CASE ~last
    <3>1. u = s  BY <1>5, <2>2 DEF InHeader
    <3>2. Accepts(s, t, last)  BY <1>3, <1>5, <2>2 DEF Accepts, Flawless, Segments
    <3>3. Kept(s, s, t)  BY <1>1, <1>5 DEF Kept, Clean
    <3> QED  BY <3>1, <3>2, <3>3
  <2> QED  BY <2>1, <2>2
<1>6. CASE t.k = "RST"
  <2>1. u = n  BY <1>6 DEF InHeader
  <2>2. Accepts(s, t, last)  BY <1>3, <1>6 DEF Accepts, Flawless, Segments
  <2>3. MarkerName(t) = "RST"  BY <1>6 DEF MarkerName
  <2> HIDE DEF n, u
  <2>4. Kept(n, s, t)  BY <1>1, <1>2, <1>6, <2>3 DEF Kept, Clean
  <2> QED  BY <2>1, <2>2, <2>4 DEF u
<1>7. CASE t.k = "EOI"
  <2>1. u = AtEOI(n, last)  BY <1>7 DEF InHeader
  <2>2. Accepts(s, t, last) <=> last  BY <1>3, <1>7 DEF Accepts, Flawless, Segments
  <2> QED  BY <1>7, <2>1, <2>2, EOIStep
<1>8. CASE t.k = "short"
  <2>1. u = End(Odd(n, "length")) /\ ~Accepts(s, t, last)  BY <1>8 DEF InHeader, Accepts, Flawless
  <2>2. IsHeld(Odd(n, "length")) /\ Odd(n, "length").odd # {}  BY <1>2, Fields DEF Grown
  <2>3. IsHeld(u) /\ u.odd # {}  BY <2>1, <2>2, Fields DEF Grown
  <2> QED  BY <2>1, <2>3 DEF Spoiled, Clean
<1>9. CASE t.k \in Segments
  <2>1. u = Segment(n, t)  BY <1>9 DEF InHeader, Segments
  <2>2. ReadsAs(u, n, t) /\ (t.flaw = "cut" => u.odd # {})  BY <1>2, <1>9, <2>1, SegmentStep
  <2>3. Accepts(s, t, last) <=> t.flaw \notin {"cut", "zero", "wide"} /\ (t.k = "SOF" => ~s.sof)
    BY <1>9 DEF Accepts, Flawless, Segments, Going
  <2>4. MarkerName(t) # "EOI" /\ t.k # "EOI"  BY <1>9 DEF MarkerName, Segments
  <2> HIDE DEF n, u
  <2>5. CASE ~Accepts(s, t, last)
    <3>1. IsHeld(u)  BY <2>2 DEF ReadsAs, Grown
    <3>2. u.odd # {} \/ u.raised  BY <1>2, <2>2, <2>3, <2>5 DEF ReadsAs
    <3> QED  BY <2>5, <3>1, <3>2 DEF Spoiled, Clean, u
  <2>6. CASE Accepts(s, t, last)
    <3>0. t.flaw \in {"none", "custom"} /\ (t.k = "SOF" => ~n.sof)  BY <1>2, <1>3, <2>3, <2>6
    <3>1. CASE t.k \in {"DRI", "DAC", "APP"}
      <4>1. u = n  BY <2>2, <3>0, <3>1 DEF ReadsAs
      <4> QED  BY <1>1, <1>2, <2>4, <2>6, <3>1, <4>1 DEF Kept, Clean, u
    <3>2. CASE t.k = "DQT"
      <4>1. u = [n EXCEPT !.dqt = Append(@, t.id)]  BY <2>2, <3>0, <3>2 DEF ReadsAs
      <4>2. IsHeld(u) /\ u.odd = n.odd /\ u.raised = n.raised /\ u.names = n.names /\ u.sof = n.sof
            /\ u.refs = n.refs /\ u.mode = n.mode /\ u.dqt = Append(n.dqt, t.id)
        BY <1>2, <4>1 DEF IsHeld
      <4> QED  BY <1>1, <1>2, <2>4, <2>6, <3>2, <4>2 DEF Kept, Clean, u
    <3>3. CASE t.k = "DHT"
      <4>1. u = [n EXCEPT !.dht = Append(@, t.flaw = "custom")]  BY <2>2, <3>0, <3>3 DEF ReadsAs
      <4>2. IsHeld(u) /\ u.odd = n.odd /\ u.raised = n.raised /\ u.names = n.names /\ u.sof = n.sof
            /\ u.refs = n.refs /\ u.mode = n.mode /\ u.dqt = n.dqt
        BY <1>2, <4>1 DEF IsHeld
      <4> QED  BY <1>1, <1>2, <2>4, <2>6, <3>3, <4>2 DEF Kept, Clean, u
    <3>4. CASE t.k = "SOS"
      <4>1. u = [n EXCEPT !.mode = "scan"]  BY <2>2, <3>0, <3>4 DEF ReadsAs
      <4>2. IsHeld(u) /\ u.odd = n.odd /\ u.raised = n.raised /\ u.names = n.names /\ u.sof = n.sof
            /\ u.refs = n.refs /\ u.mode = "scan" /\ u.dqt = n.dqt
        BY <1>2, <4>1 DEF IsHeld
      <4> QED  BY <1>1, <1>2, <2>4, <2>6, <3>4, <4>2 DEF Kept, Clean, u
    <3>5. CASE t.k = "SOF"
      <4>1. u = [n EXCEPT !.sof = TRUE, !.refs = t.refs]  BY <2>2, <3>0, <3>5 DEF ReadsAs
      <4>2. IsHeld(u) /\ u.odd = n.odd /\ u.raised = n.raised /\ u.names = n.names /\ u.sof = TRUE
            /\ u.refs = t.refs /\ u.mode = n.mode /\ u.dqt = n.dqt
        BY <1>2, <4>1 DEF IsHeld
      <4> QED  BY <1>1, <1>2, <2>4, <2>6, <3>5, <4>2 DEF Kept, Clean, u
    <3> QED  BY <1>9, <3>1, <3>2, <3>3, <3>4, <3>5 DEF Segments
  <2> QED  BY <2>5, <2>6 DEF u
<1> QED  BY <1>3, <1>4, <1>5, <1>6, <1>7, <1>8, <1>9 DEF Kinds

(* A token in the entropy-coded data. *)
LEMMA ScanStep ==
  ASSUME NEW s, Going(s), s.mode = "scan", NEW t \in Token, NEW last \in BOOLEAN
  PROVE  /\ Accepts(s, t, last) => Kept(InScan(s, t, last), s, t)
         /\ ~Accepts(s, t, last) => Spoiled(InScan(s, t, last))
<1> DEFINE n == Named(s, t)
           u == InScan(s, t, last)
<1>1. IsHeld(s) /\ s.odd = {} /\ ~s.raised /\ "EOI" \notin s.names  BY DEF Going, Clean
<1>2. IsHeld(n) /\ n.odd = {} /\ n.raised = s.raised /\ n.names = s.names \cup {MarkerName(t)}
      /\ n.sof = s.sof /\ n.refs = s.refs /\ n.dqt = s.dqt /\ n.mode = "scan"
  BY <1>1, Fields DEF Grown
<1>3. t.flaw \in {"none", "cut", "zero", "wide", "custom"}
      /\ (t.flaw = "cut" => t.k \in Segments) /\ (t.flaw = "zero" => t.k = "SOF") /\ (t.flaw = "wide" => t.k = "DQT")
  BY DEF Token
<1>4. CASE t.k \in {"bytes", "pad"}
  <2>1. u = s  BY <1>4 DEF InScan
  <2>2. Accepts(s, t, last)  BY <1>3, <1>4 DEF Accepts, Flawless, Segments
  <2>3. Kept(s, s, t)  BY <1>1, <1>4 DEF Kept, Clean
  <2> QED  BY <2>1, <2>2, <2>3
<1>5. CASE t.k = "RST"
  <2>1. u = n  BY <1>5 DEF InScan
  <2>2. Accepts(s, t, last)  BY <1>3, <1>5 DEF Accepts, Flawless, Segments
  <2>3. MarkerName(t) = "RST"  BY <1>5 DEF MarkerName
  <2> HIDE DEF n, u
  <2>4. Kept(n, s, t)  BY <1>1, <1>2, <1>5, <2>3 DEF Kept, Clean
  <2> QED  BY <2>1, <2>2, <2>4 DEF u
<1>6. CASE t.k = "EOI"
  <2>1. u = AtEOI(n, last)  BY <1>6 DEF InScan
  <2>2. Accepts(s, t, last) <=> last  BY <1>3, <1>6 DEF Accepts, Flawless, Segments
  <2> QED  BY <1>6, <2>1, <2>2, EOIStep
<1>7. CASE t.k \notin {"bytes", "pad", "RST", "EOI"}
  <2>1. u = End(s) /\ ~Accepts(s, t, last)  BY <1>7 DEF InScan, Accepts
  <2>2. IsHeld(u) /\ u.mode = "end" /\ u.names = s.names  BY <1>1, <2>1, Fields DEF Grown
  <2> QED  BY <1>1, <2>1, <2>2 DEF Spoiled
<1> QED  BY <1>4, <1>5, <1>6, <1>7

(* So a step of the parser keeps it going, ends it at EOI or spoils it. *)
LEMMA GoingStep ==
  ASSUME NEW s, Going(s), NEW t \in Token, NEW last \in BOOLEAN
  PROVE  /\ Accepts(s, t, last) => Kept(Step(s, t, last), s, t)
         /\ ~Accepts(s, t, last) => Spoiled(Step(s, t, last))
<1>1. s.mode \in {"head", "scan"} /\ ~s.raised  BY DEF Going, Clean
<1>2. CASE s.mode = "head"
  <2>1. Step(s, t, last) = InHeader(s, t, last)  BY <1>1, <1>2 DEF Step
  <2> QED  BY <1>2, <2>1, HeaderStep
<1>3. CASE s.mode = "scan"
  <2>1. Step(s, t, last) = InScan(s, t, last)  BY <1>1, <1>3 DEF Step
  <2> QED  BY <1>3, <2>1, ScanStep
<1> QED  BY <1>1, <1>2, <1>3

(* What is spoiled stays so. *)
LEMMA SpoiledStep ==
  ASSUME NEW s, Spoiled(s), NEW t \in Token, NEW last \in BOOLEAN
  PROVE  Spoiled(Step(s, t, last))
<1> DEFINE n == Named(s, t)
           u == Step(s, t, last)
<1>1. IsHeld(s) /\ IsHeld(n) /\ Grown(n, s)  BY Fields DEF Spoiled, Grown
<1>2. CASE s.mode = "end" \/ s.raised
  <2>1. u = s  BY <1>2 DEF Step
  <2> QED  BY <2>1
<1>3. CASE s.mode # "end" /\ ~s.raised
  <2>1. s.odd # {}  BY <1>3 DEF Spoiled, Clean
  <2>2. Grown(s, s)  BY <1>1 DEF Grown
  <2>3. \A a : Grown(Odd(s, a), s) /\ Grown(Odd(n, a), s) /\ Grown(End(Odd(s, a)), s) /\ Grown(End(Odd(n, a)), s)
    <3> TAKE a
    <3>1. Grown(Odd(s, a), s) /\ Grown(Odd(n, a), n)  BY <1>1, Fields
    <3>2. Grown(End(Odd(s, a)), Odd(s, a)) /\ Grown(End(Odd(n, a)), Odd(n, a))
      <4> DEFINE os == Odd(s, a)
                 on == Odd(n, a)
      <4>1. IsHeld(os) /\ IsHeld(on)  BY <3>1 DEF Grown
      <4> HIDE DEF os, on
      <4>2. Grown(End(os), os) /\ Grown(End(on), on)  BY <4>1, Fields
      <4> QED  BY <4>2 DEF os, on
    <3> HIDE DEF n
    <3> QED  BY <1>1, <3>1, <3>2, GrownTwice
  <2>4. Grown(End(s), s) /\ Grown(End(n), s)
    <3>1. Grown(End(s), s) /\ Grown(End(n), n)  BY <1>1, Fields
    <3> HIDE DEF n
    <3> QED  BY <1>1, <3>1, GrownTwice
  <2>5. t.k \in Segments => Grown(Segment(n, t), s)
    <3> SUFFICES ASSUME t.k \in Segments PROVE Grown(Segment(n, t), s)  OBVIOUS
    <3> HIDE DEF n
    <3>1. Grown(Segment(n, t), n)  BY <1>1, SegmentStep DEF ReadsAs
    <3> QED  BY <1>1, <3>1, GrownTwice
  <2>6. Grown(AtEOI(n, last), s)  BY <2>3, <2>4 DEF AtEOI
  <2>7. t.k \in Kinds  BY DEF Token
  <2>8. u = InHeader(s, t, last) \/ u = InScan(s, t, last)  BY <1>3 DEF Step
  <2>9. Grown(InHeader(s, t, last), s)
    <3>1. CASE t.k = "bytes"  BY <2>3, <3>1 DEF InHeader
    <3>2. CASE t.k = "pad"  BY <2>2, <2>3, <3>2 DEF InHeader
    <3>3. CASE t.k = "RST"  BY <1>1, <3>3 DEF InHeader
    <3>4. CASE t.k = "EOI"  BY <2>6, <3>4 DEF InHeader
    <3>5. CASE t.k = "short"  BY <2>3, <3>5 DEF InHeader
    <3>6. CASE t.k \in Segments
      <4>1. InHeader(s, t, last) = Segment(n, t)  BY <3>6 DEF InHeader, Segments
      <4> QED  BY <2>5, <3>6, <4>1
    <3> QED  BY <2>7, <3>1, <3>2, <3>3, <3>4, <3>5, <3>6 DEF Kinds
  <2>10. Grown(InScan(s, t, last), s)
    <3>1. CASE t.k \in {"bytes", "pad"}  BY <2>2, <3>1 DEF InScan
    <3>2. CASE t.k = "RST"  BY <1>1, <3>2 DEF InScan
    <3>3. CASE t.k = "EOI"  BY <2>6, <3>3 DEF InScan
    <3>4. CASE t.k \notin {"bytes", "pad", "RST", "EOI"}  BY <2>4, <3>4 DEF InScan
    <3> QED  BY <3>1, <3>2, <3>3, <3>4
  <2>11. Grown(u, s)
    <3> HIDE DEF u
    <3> QED  BY <2>8, <2>9, <2>10
  <2> HIDE DEF u
  <2>12. IsHeld(u) /\ u.odd # {}  BY <2>1, <2>11 DEF Grown
  <2> QED  BY <2>12 DEF Spoiled, Clean, u
<1> QED  BY <1>2, <1>3

(* The tokens of one kind among the first n. *)
Among(stream, n, k) == {i \in 1 .. n : stream[i].k = k}

(* What can be said of the first n tokens when none of them was an         *)
(* anomaly: what Unobjected asks of them.                                  *)
Sound(stream, n) ==
  /\ \A i \in 1 .. n : Flawless(stream[i])
  /\ \A f, g \in Among(stream, n, "SOF") : f = g
  /\ \A b \in Among(stream, n, "bytes") : \E q \in Among(stream, n, "SOS") : q < b
  /\ \A q \in Among(stream, n, "SOS") :
       \A i \in q + 1 .. n : stream[i].k \in {"bytes", "pad", "RST", "EOI"}

(* And what the parser holds of them. *)
Holds(stream, n, s) ==
  /\ s.sof <=> Among(stream, n, "SOF") # {}
  /\ \A f \in Among(stream, n, "SOF") : s.refs = stream[f].refs
  /\ s.dqt \in Seq(Nat)
  /\ ToSet(s.dqt) = {stream[i].id : i \in Among(stream, n, "DQT")}

(* After n tokens the parser is going on, has come to an EOI that is the   *)
(* last token, or is spoiled by a stream with an anomaly.                  *)
Live(stream, n, s) ==
  /\ Going(s)
  /\ Sound(stream, n)
  /\ Holds(stream, n, s)
  /\ Among(stream, n, "EOI") = {}
  /\ s.mode = "head" <=> Among(stream, n, "SOS") = {}
Done(stream, n, s) ==
  /\ n = Len(stream)
  /\ n # 0
  /\ IsHeld(s)
  /\ Clean(s)
  /\ "EOI" \in s.names
  /\ s.mode = "end"
  /\ Sound(stream, n)
  /\ Holds(stream, n, s)
  /\ Among(stream, n, "EOI") = {n}
Doomed(stream, s) == Spoiled(s) /\ ~Unobjected(stream)

(* One more token. *)
LEMMA OneMore ==
  ASSUME NEW stream \in Seq(Token), NEW n \in 1 .. Len(stream), NEW k
  PROVE  Among(stream, n, k) = Among(stream, n - 1, k) \cup (IF stream[n].k = k THEN {n} ELSE {})
<1>1. n \in Nat /\ 1 .. n = (1 .. n - 1) \cup {n}  OBVIOUS
<1> QED  BY <1>1 DEF Among

(* What the parser accepts of a sound stream leaves it sound. *)
LEMMA AcceptedSound ==
  ASSUME NEW stream \in Seq(Token), NEW n \in 1 .. Len(stream), NEW s,
         Live(stream, n - 1, s), Accepts(s, stream[n], n = Len(stream))
  PROVE  Sound(stream, n)
<1> DEFINE t == stream[n]
           A(m, k) == Among(stream, m, k)
<1>1. n \in Nat /\ n - 1 \in Nat /\ 1 .. n = (1 .. n - 1) \cup {n}  OBVIOUS
<1>2. \A k : A(n, k) = A(n - 1, k) \cup (IF t.k = k THEN {n} ELSE {})  BY OneMore
<1>3. \A i \in 1 .. n : Flawless(stream[i])  BY <1>1 DEF Live, Sound, Accepts
<1>4. s.mode \in {"head", "scan"} /\ (s.mode = "head" <=> A(n - 1, "SOS") = {})
      /\ (s.sof <=> A(n - 1, "SOF") # {})
  BY DEF Live, Going, Holds
<1>5. \A k : A(n - 1, k) \in SUBSET (1 .. n - 1)  BY DEF Among
<1>6. \A f, g \in A(n, "SOF") : f = g
  <2>1. \A f, g \in A(n - 1, "SOF") : f = g  BY DEF Live, Sound
  <2>2. CASE t.k = "SOF"
    <3>1. A(n - 1, "SOF") = {}  BY <1>4, <2>2 DEF Accepts
    <3> HIDE DEF A
    <3> QED  BY <1>2, <2>2, <3>1
  <2>3. CASE t.k # "SOF"
    <3>1. A(n, "SOF") = A(n - 1, "SOF")
      <4> HIDE DEF A
      <4> QED  BY <1>2, <2>3
    <3> QED  BY <2>1, <3>1
  <2> QED  BY <2>2, <2>3
<1>7. \A b \in A(n, "bytes") : \E q \in A(n, "SOS") : q < b
  <2>1. \A b \in A(n - 1, "bytes") : \E q \in A(n - 1, "SOS") : q < b  BY DEF Live, Sound
  <2>2. t.k = "bytes" => A(n - 1, "SOS") # {}  BY <1>4 DEF Accepts
  <2> HIDE DEF A
  <2>3. A(n - 1, "SOS") \subseteq A(n, "SOS")  BY <1>2
  <2> TAKE b \in A(n, "bytes")
  <2>4. CASE b \in A(n - 1, "bytes")  BY <2>1, <2>3, <2>4
  <2>5. CASE b \notin A(n - 1, "bytes")
    <3>1. b = n /\ t.k = "bytes"  BY <1>2, <2>5
    <3>2. PICK q \in A(n - 1, "SOS") : TRUE  BY <2>2, <3>1
    <3>3. q \in 1 .. n - 1  BY <1>5, <3>2
    <3>4. q < n  BY <1>1, <3>3
    <3> QED  BY <2>3, <3>1, <3>2, <3>4
  <2> QED  BY <2>4, <2>5
<1>8. \A q \in A(n, "SOS") : \A i \in q + 1 .. n : stream[i].k \in {"bytes", "pad", "RST", "EOI"}
  <2>1. \A q \in A(n - 1, "SOS") : \A i \in q + 1 .. n - 1 : stream[i].k \in {"bytes", "pad", "RST", "EOI"}
    BY DEF Live, Sound
  <2>2. A(n - 1, "SOS") # {} => t.k \in {"bytes", "pad", "RST", "EOI"}  BY <1>4 DEF Accepts
  <2> HIDE DEF A
  <2> TAKE q \in A(n, "SOS")
  <2> TAKE i \in q + 1 .. n
  <2>3. CASE q \in A(n - 1, "SOS")
    <3>0. q \in 1 .. n - 1  BY <1>5, <2>3
    <3>1. i \in q + 1 .. n - 1 \/ i = n  BY <1>1, <3>0
    <3> QED  BY <2>1, <2>2, <2>3, <3>1
  <2>4. CASE q \notin A(n - 1, "SOS")
    <3>1. q = n  BY <1>2, <2>4
    <3> QED  BY <1>1, <3>1
  <2> QED  BY <2>3, <2>4
<1> QED  BY <1>3, <1>6, <1>7, <1>8 DEF Sound

(* And what the parser keeps is what it holds of it. *)
LEMMA KeptHolds ==
  ASSUME NEW stream \in Seq(Token), NEW n \in 1 .. Len(stream), NEW s, NEW u,
         Live(stream, n - 1, s), Accepts(s, stream[n], n = Len(stream)), Kept(u, s, stream[n])
  PROVE  Holds(stream, n, u)
<1> DEFINE t == stream[n]
           A(m, k) == Among(stream, m, k)
           ids(m) == {stream[i].id : i \in A(m, "DQT")}
<1>1. n \in Nat /\ t \in Token /\ t.id \in Nat  BY DEF Token
<1>2. \A k : A(n, k) = A(n - 1, k) \cup (IF t.k = k THEN {n} ELSE {})  BY OneMore
<1>3. (s.sof <=> A(n - 1, "SOF") # {}) /\ (\A f \in A(n - 1, "SOF") : s.refs = stream[f].refs)
      /\ s.dqt \in Seq(Nat) /\ ToSet(s.dqt) = ids(n - 1)
  BY DEF Live, Holds
<1>4. (u.sof <=> s.sof \/ t.k = "SOF") /\ u.refs = (IF t.k = "SOF" THEN t.refs ELSE s.refs)
      /\ u.dqt = (IF t.k = "DQT" THEN Append(s.dqt, t.id) ELSE s.dqt)
  BY DEF Kept
<1>5. t.k = "SOF" => A(n - 1, "SOF") = {}
  BY <1>3 DEF Live, Going, Accepts, Holds
<1>6. u.sof <=> A(n, "SOF") # {}
  <2> HIDE DEF A, t
  <2> QED  BY <1>2, <1>3, <1>4
<1>7. \A f \in A(n, "SOF") : u.refs = stream[f].refs
  <2> HIDE DEF A
  <2>1. CASE t.k = "SOF"
    <3>1. A(n, "SOF") = {n}  BY <1>2, <1>5, <2>1
    <3> QED  BY <1>4, <2>1, <3>1
  <2>2. CASE t.k # "SOF"
    <3>1. A(n, "SOF") = A(n - 1, "SOF") /\ u.refs = s.refs  BY <1>2, <1>4, <2>2
    <3> QED  BY <1>3, <3>1
  <2> QED  BY <2>1, <2>2
<1>8. u.dqt \in Seq(Nat) /\ ToSet(u.dqt) = ids(n)
  <2>1. CASE t.k = "DQT"
    <3>1. u.dqt = Append(s.dqt, t.id)  BY <1>4, <2>1
    <3>2. A(n, "DQT") = A(n - 1, "DQT") \cup {n}
      <4> HIDE DEF A
      <4> QED  BY <1>2, <2>1
    <3>3. ids(n) = ids(n - 1) \cup {t.id}
      <4> HIDE DEF A
      <4> QED  BY <3>2
    <3>4. ToSet(Append(s.dqt, t.id)) = ToSet(s.dqt) \cup {t.id}
      <4>1. s.dqt \in Seq(Nat) /\ t.id \in Nat  BY <1>1, <1>3
      <4> DEFINE d == s.dqt
                 v == t.id
                 e == Append(d, v)
      <4> HIDE DEF d, v
      <4>2. d \in Seq(Nat) /\ v \in Nat  BY <4>1 DEF d, v
      <4>3. Len(e) = Len(d) + 1 /\ Len(d) \in Nat /\ (\A i \in 1 .. Len(d) : e[i] = d[i]) /\ e[Len(d) + 1] = v
            /\ DOMAIN e = 1 .. Len(e) /\ DOMAIN d = 1 .. Len(d)
        BY <4>2
      <4> HIDE DEF e
      <4>4. ToSet(e) = ToSet(d) \cup {v}
        <5>1. DOMAIN e = (DOMAIN d) \cup {Len(d) + 1}  BY <4>3
        <5>2. \A i \in DOMAIN d : e[i] = d[i]  BY <4>3
        <5> QED  BY <4>3, <5>1, <5>2 DEF ToSet
      <4> QED  BY <4>4 DEF d, v, e
    <3> HIDE DEF ids, t
    <3> QED  BY <1>1, <1>3, <3>1, <3>3, <3>4
  <2>2. CASE t.k # "DQT"
    <3>1. u.dqt = s.dqt  BY <1>4, <2>2
    <3>2. A(n, "DQT") = A(n - 1, "DQT")
      <4> HIDE DEF A
      <4> QED  BY <1>2, <2>2
    <3> QED  BY <1>3, <3>1, <3>2
  <2> QED  BY <2>1, <2>2
<1> QED  BY <1>6, <1>7, <1>8 DEF Holds

(* What the parser refuses of a sound stream, no stream without anomaly has. *)
LEMMA RefusedObjected ==
  ASSUME NEW stream \in Seq(Token), NEW n \in 1 .. Len(stream), NEW s,
         Live(stream, n - 1, s), ~Accepts(s, stream[n], n = Len(stream))
  PROVE  ~Unobjected(stream)
<1> SUFFICES ASSUME Unobjected(stream) PROVE FALSE  OBVIOUS
<1> DEFINE L == Len(stream)
           t == stream[n]
           At(k) == {i \in 1 .. L : stream[i].k = k}
<1>0. L \in Nat /\ n \in Nat /\ n <= L /\ 1 <= n  OBVIOUS
<1>1. At("EOI") = {L} /\ At("short") = {}
      /\ (\A i \in 1 .. L : stream[i].flaw \notin {"cut", "zero", "wide"})
  BY DEF Unobjected
<1>2. PICK f \in At("SOF") : At("SOF") = {f} /\ \A q \in At("SOS") : f < q  BY DEF Unobjected
<1>3. \A b \in At("bytes") : \E q \in At("SOS") : q < b  BY DEF Unobjected
<1>4. \A q \in At("SOS") : \A i \in q + 1 .. L - 1 : stream[i].k \in {"bytes", "pad", "RST"}  BY DEF Unobjected
<1>5. Flawless(t)  BY <1>0, <1>1 DEF Flawless
<1>6. t.k = "EOI" => n = L  BY <1>0, <1>1
<1>7. s.mode \in {"head", "scan"} /\ (s.mode = "head" <=> Among(stream, n - 1, "SOS") = {})
      /\ (s.sof <=> Among(stream, n - 1, "SOF") # {})
  BY DEF Live, Going, Holds
<1>8. \A k : Among(stream, n - 1, k) = {i \in At(k) : i < n}  BY <1>0 DEF Among
<1>9. CASE s.mode = "head"
  <2>1. \A q \in At("SOS") : ~ (q < n)  BY <1>7, <1>8, <1>9
  <2>2. t.k # "bytes"  BY <1>0, <1>3, <2>1
  <2>3. t.k = "SOF" => ~s.sof
    <3> SUFFICES ASSUME t.k = "SOF", s.sof PROVE FALSE  OBVIOUS
    <3>1. n \in At("SOF")  BY <1>0
    <3> HIDE DEF At
    <3>2. PICK g \in At("SOF") : g < n  BY <1>7, <1>8
    <3>3. g = n  BY <1>2, <3>1, <3>2
    <3> QED  BY <1>0, <3>2, <3>3
  <2>4. t.k = "pad" => n # L  BY <1>0, <1>1
  <2> QED  BY <1>5, <1>6, <1>9, <2>2, <2>3, <2>4 DEF Accepts
<1>10. CASE s.mode = "scan"
  <2>1. PICK q \in At("SOS") : q < n  BY <1>7, <1>8, <1>10
  <2>2. q \in Nat  BY <2>1
  <2>3. n = L \/ n \in q + 1 .. L - 1  BY <1>0, <2>1, <2>2
  <2>4. t.k \in {"bytes", "pad", "RST", "EOI"}
    <3>1. CASE n = L  BY <1>1, <3>1
    <3>2. CASE n # L  BY <1>4, <2>1, <2>3, <3>2
    <3> QED  BY <3>1, <3>2
  <2> QED  BY <1>5, <1>6, <1>10, <2>4 DEF Accepts
<1> QED  BY <1>7, <1>9, <1>10

(* One step of the parser. *)
LEMMA StreamStep ==
  ASSUME NEW stream \in Seq(Token), NEW n \in 1 .. Len(stream), NEW s, NEW u,
         u = Step(s, stream[n], n = Len(stream)),
         Live(stream, n - 1, s) \/ Doomed(stream, s)
  PROVE  Live(stream, n, u) \/ Done(stream, n, u) \/ Doomed(stream, u)
<1> DEFINE t == stream[n]
           last == n = Len(stream)
<1>1. t \in Token /\ last \in BOOLEAN /\ n \in Nat /\ n # 0  OBVIOUS
<1> HIDE DEF t, last
<1>2. u = Step(s, t, last)  BY DEF t, last
<1>3. CASE Doomed(stream, s)
  <2>1. Spoiled(u)  BY <1>1, <1>2, <1>3, SpoiledStep DEF Doomed
  <2> QED  BY <1>3, <2>1 DEF Doomed
<1>4. CASE Live(stream, n - 1, s) /\ ~Accepts(s, t, last)
  <2>1. Spoiled(u)  BY <1>1, <1>2, <1>4, GoingStep DEF Live
  <2>2. ~Unobjected(stream)  BY <1>4, RefusedObjected DEF t, last
  <2> QED  BY <2>1, <2>2 DEF Doomed
<1>5. CASE Live(stream, n - 1, s) /\ Accepts(s, t, last)
  <2>1. Kept(u, s, t)  BY <1>1, <1>2, <1>5, GoingStep DEF Live
  <2>2. Sound(stream, n)  BY <1>5, AcceptedSound DEF t, last
  <2>3. Holds(stream, n, u)  BY <1>5, <2>1, KeptHolds DEF t, last
  <2>4. \A k : Among(stream, n, k) = Among(stream, n - 1, k) \cup (IF t.k = k THEN {n} ELSE {})
    BY OneMore DEF t
  <2>5. Among(stream, n - 1, "EOI") = {} /\ (s.mode = "head" <=> Among(stream, n - 1, "SOS") = {})
        /\ s.mode \in {"head", "scan"}
    BY <1>5 DEF Live, Going
  <2>6. CASE t.k = "EOI"
    <3>1. last  BY <1>5, <2>6 DEF Accepts
    <3>2. Among(stream, n, "EOI") = {n}  BY <2>4, <2>5, <2>6
    <3>3. IsHeld(u) /\ Clean(u) /\ "EOI" \in u.names /\ u.mode = "end"  BY <2>1, <2>6 DEF Kept
    <3> QED  BY <1>1, <2>2, <2>3, <3>1, <3>2, <3>3 DEF Done, last
  <2>7. CASE t.k # "EOI"
    <3>1. Among(stream, n, "EOI") = {}  BY <2>4, <2>5, <2>7
    <3>2. IsHeld(u) /\ Clean(u) /\ "EOI" \notin u.names  BY <2>1, <2>7 DEF Kept
    <3>3. u.mode = IF t.k = "SOS" THEN "scan" ELSE s.mode  BY <2>1, <2>7 DEF Kept
    <3>4. u.mode \in {"head", "scan"} /\ (u.mode = "head" <=> Among(stream, n, "SOS") = {})
      <4>1. CASE t.k = "SOS"  BY <2>4, <3>3, <4>1
      <4>2. CASE t.k # "SOS"
        <5>1. Among(stream, n, "SOS") = Among(stream, n - 1, "SOS")  BY <2>4, <4>2
        <5> QED  BY <2>5, <3>3, <4>2, <5>1
      <4> QED  BY <4>1, <4>2
    <3>5. Going(u)  BY <3>2, <3>4 DEF Going
    <3> QED  BY <2>2, <2>3, <3>1, <3>4, <3>5 DEF Live
  <2> QED  BY <2>6, <2>7
<1> QED  BY <1>3, <1>4, <1>5

(* Before the first token. *)
LEMMA BlankLive == ASSUME NEW stream \in Seq(Token) PROVE Live(stream, 0, Blank)
<1>1. \A k : Among(stream, 0, k) = {} /\ 1 .. 0 = {}  BY DEF Among
<1>2. Going(Blank)  BY DEF Going, IsHeld, Clean, Blank
<1>3. Sound(stream, 0)  BY <1>1 DEF Sound
<1>4. Blank.dqt = <<>> /\ ToSet(<<>>) = {} /\ <<>> \in Seq(Nat)  BY DEF Blank, ToSet
<1>5. ~Blank.sof /\ Blank.mode = "head"  BY DEF Blank
<1>6. Holds(stream, 0, Blank)  BY <1>1, <1>4, <1>5 DEF Holds
<1> QED  BY <1>1, <1>2, <1>3, <1>5, <1>6 DEF Live

(* So after every token. *)
LEMMA ReadingLive ==
  ASSUME NEW stream \in Seq(Token), NEW n \in 0 .. Len(stream)
  PROVE  \/ Live(stream, n, Reading(stream)[n])
         \/ Done(stream, n, Reading(stream)[n])
         \/ Doomed(stream, Reading(stream)[n])
<1> DEFINE r == Reading(stream)
           L == Len(stream)
           Good(m) == Live(stream, m, r[m]) \/ Done(stream, m, r[m]) \/ Doomed(stream, r[m])
           Bad == {m \in 0 .. L : ~Good(m)}
<1>1. L \in Nat  OBVIOUS
<1>2. r[0] = Blank /\ \A m \in 1 .. L : r[m] = Step(r[m - 1], stream[m], m = L)  BY ReadingSteps
<1> HIDE DEF r
<1>3. Bad = {}
  <2> SUFFICES ASSUME Bad # {} PROVE FALSE  OBVIOUS
  <2>1. Bad \in SUBSET Nat  BY <1>1
  <2>2. PICK m \in Bad : \A o \in Bad : m <= o
    <3> HIDE DEF Bad
    <3> QED  BY <2>1, Least
  <2>3. m \in 0 .. L /\ ~Good(m)  BY <2>2
  <2>4. CASE m = 0  BY <1>2, <2>3, <2>4, BlankLive
  <2>5. CASE m # 0
    <3>1. m \in 1 .. L /\ m - 1 \in 0 .. L /\ ~ (m <= m - 1)  BY <1>1, <2>3, <2>5
    <3>2. Good(m - 1)
      <4> HIDE DEF Good
      <4>1. m - 1 \notin Bad
        <5> HIDE DEF Bad
        <5> QED  BY <2>2, <3>1
      <4> QED  BY <3>1, <4>1
    <3>3. ~Done(stream, m - 1, r[m - 1])  BY <1>1, <3>1 DEF Done
    <3>4. Live(stream, m - 1, r[m - 1]) \/ Doomed(stream, r[m - 1])  BY <3>2, <3>3
    <3>5. r[m] = Step(r[m - 1], stream[m], m = L)  BY <1>2, <3>1
    <3>6. Good(m)  BY <3>1, <3>4, <3>5, StreamStep
    <3> QED  BY <2>3, <3>6
  <2> QED  BY <2>4, <2>5
<1>4. Good(n)
  <2> HIDE DEF Good
  <2> QED  BY <1>3
<1> QED  BY <1>4 DEF r

(* The parser (parse_jpeg_stream) reports a stream of tokens of any length  *)
(* as nominal exactly if Unobjected says so of it, without any loop.       *)
THEOREM ParserExact ==
  ASSUME NEW stream \in Seq(Token)
  PROVE  Nominal(stream) <=> Unobjected(stream)
<1> DEFINE L == Len(stream)
           s == Reading(stream)[L]
           c == CrossChecks(s)
           At(k) == {i \in 1 .. L : stream[i].k = k}
<1>0. L \in Nat  OBVIOUS
<1>1. Live(stream, L, s) \/ Done(stream, L, s) \/ Doomed(stream, s)  BY <1>0, ReadingLive
<1>2. Parsed(stream) = [s EXCEPT !.odd = @ \cup c]  BY ParsedReads
<1> HIDE DEF s
<1>3. IsHeld(s)  BY <1>1 DEF Live, Going, Done, Doomed, Spoiled
<1>4. Parsed(stream).odd = s.odd \cup c /\ Parsed(stream).raised = s.raised
  <2> HIDE DEF c
  <2> QED  BY <1>2, <1>3 DEF IsHeld
<1>5. Nominal(stream) <=> Clean(s) /\ c = {}  BY <1>4 DEF Clean, Nominal
<1>6. "EOI" \notin s.names => "noEOI" \in c  BY DEF CrossChecks
<1>7. \A k : At(k) = Among(stream, L, k)  BY DEF Among
<1>8. CASE Doomed(stream, s)
  <2>1. ~ (Clean(s) /\ c = {})
    <3> HIDE DEF c
    <3> QED  BY <1>6, <1>8 DEF Doomed, Spoiled
  <2> QED  BY <1>5, <1>8, <2>1 DEF Doomed
<1>9. CASE Live(stream, L, s)
  <2>1. c # {}
    <3> HIDE DEF c
    <3> QED  BY <1>6, <1>9 DEF Live, Going
  <2>2. At("EOI") = {}  BY <1>7, <1>9 DEF Live
  <2>3. ~Unobjected(stream)  BY <2>2 DEF Unobjected
  <2> QED  BY <1>5, <2>1, <2>3
<1>10. CASE Done(stream, L, s)
  <2> DEFINE defined == {stream[i].id : i \in At("DQT")}
  <2>1. Clean(s) /\ "EOI" \in s.names /\ At("EOI") = {L}  BY <1>7, <1>10 DEF Done
  <2>2. Sound(stream, L) /\ Holds(stream, L, s)  BY <1>10 DEF Done
  <2>3. (s.sof <=> At("SOF") # {}) /\ (\A f \in At("SOF") : s.refs = stream[f].refs) /\ ToSet(s.dqt) = defined
    BY <1>7, <2>2 DEF Holds
  <2>4. c = {} <=> At("SOF") # {} /\ ToSet(s.refs) \subseteq ToSet(s.dqt)
    <3> DEFINE missing == \E d \in ToSet(s.refs) : d \notin ToSet(s.dqt)
    <3>1. c \subseteq {"noEOI", "noSOF", "undefined"}  BY DEF CrossChecks
    <3>2. "noEOI" \notin c  BY <2>1 DEF CrossChecks
    <3>3. "noSOF" \in c <=> ~s.sof  BY DEF CrossChecks
    <3>4. "undefined" \in c <=> missing  BY DEF CrossChecks
    <3>5. missing <=> ~ (ToSet(s.refs) \subseteq ToSet(s.dqt))  OBVIOUS
    <3> HIDE DEF c, missing
    <3>6. c = {} <=> s.sof /\ ~missing  BY <3>1, <3>2, <3>3, <3>4
    <3> QED  BY <2>3, <3>5, <3>6
  <2>5. \A f, g \in At("SOF") : f = g  BY <1>7, <2>2 DEF Sound
  <2>6. \A b \in At("bytes") : \E q \in At("SOS") : q < b  BY <1>7, <2>2 DEF Sound
  <2>7. \A q \in At("SOS") : \A i \in q + 1 .. L : stream[i].k \in {"bytes", "pad", "RST", "EOI"}
    BY <1>7, <2>2 DEF Sound
  <2>8. \A i \in 1 .. L : Flawless(stream[i])  BY <2>2 DEF Sound
  <2>9. At("short") = {} /\ \A i \in 1 .. L : stream[i].flaw \notin {"cut", "zero", "wide"}
    BY <2>8 DEF Flawless
  <2>10. \A f \in At("SOF") : \A q \in At("SOS") : f < q
    <3> TAKE f \in At("SOF")
    <3> TAKE q \in At("SOS")
    <3>1. f \in Nat /\ q \in Nat /\ f <= L /\ stream[f].k = "SOF" /\ stream[q].k = "SOS"  BY <1>0
    <3>2. f \in q + 1 .. L => stream[f].k \in {"bytes", "pad", "RST", "EOI"}  BY <2>7
    <3>3. f \notin q + 1 .. L /\ f # q  BY <3>1, <3>2
    <3> QED  BY <1>0, <3>1, <3>3
  <2>11. \A q \in At("SOS") : \A i \in q + 1 .. L - 1 : stream[i].k \in {"bytes", "pad", "RST"}
    <3> TAKE q \in At("SOS")
    <3> TAKE i \in q + 1 .. L - 1
    <3>1. q \in Nat /\ 1 <= q  BY <1>0
    <3>2. i \in q + 1 .. L /\ i \in 1 .. L /\ i # L  BY <1>0, <3>1
    <3>3. i \notin At("EOI")  BY <2>1, <3>2
    <3>4. stream[i].k # "EOI"  BY <3>2, <3>3
    <3> QED  BY <2>7, <3>2, <3>4
  <2>12. Unobjected(stream) <=> \E f \in At("SOF") : ToSet(stream[f].refs) \subseteq defined
    <3>1. Unobjected(stream) <=>
            \E f \in At("SOF") : /\ At("SOF") = {f}
                                 /\ \A q \in At("SOS") : f < q
                                 /\ ToSet(stream[f].refs) \subseteq defined
      BY <2>1, <2>6, <2>9, <2>11 DEF Unobjected
    <3> HIDE DEF At, defined
    <3> QED  BY <2>5, <2>10, <3>1
  <2>13. c = {} <=> \E f \in At("SOF") : ToSet(stream[f].refs) \subseteq defined
    <3> HIDE DEF At, defined, c
    <3> QED  BY <2>3, <2>4
  <2> QED  BY <1>5, <2>1, <2>12, <2>13
<1> QED  BY <1>1, <1>8, <1>9, <1>10

-----------------------------------------------------------------------------
(* The parser and the format                                               *)

(* A stream without objection has one frame with its tables, and its end.  *)
LEMMA UnobjectedMatches ==
  ASSUME NEW stream \in Seq(Token), Unobjected(stream)
  PROVE  Matching(stream)
BY DEF Unobjected, Matching, Marks

(* A well-formed stream of one scan has nothing behind the scan that the   *)
(* parser would object to.                                                 *)
LEMMA OneScanUnobjected ==
  ASSUME NEW stream \in Seq(Token), Framed(stream), SingleScan(stream)
  PROVE  Unobjected(stream)
<1> DEFINE L == Len(stream)
           scans == Marks(stream, "SOS")
<1>1. L \in Nat /\ \A k : \A i \in Marks(stream, k) : i \in 1 .. L /\ stream[i].k = k  BY DEF Marks
<1>2. Matching(stream) /\ (\A q \in scans : \A f \in Marks(stream, "SOF") : f < q)
      /\ \A i \in 1 .. L : stream[i].k \in Segments \ {"SOS"} => \E q \in scans : i < q
  BY DEF Framed
<1>3. Marks(stream, "EOI") = {L} /\ Marks(stream, "short") = {}  BY <1>2 DEF Matching
<1>4. ASSUME NEW q \in scans, NEW i \in q + 1 .. L - 1
      PROVE  stream[i].k \in {"bytes", "pad", "RST"}
  <2>1. q \in 1 .. L /\ i \in 1 .. L /\ i # L /\ q < i  BY <1>1, <1>4
  <2>2. stream[i].k \in Kinds  BY <2>1 DEF Token
  <2>3. stream[i].k # "EOI" /\ stream[i].k # "short"  BY <1>3, <2>1 DEF Marks
  <2>4. stream[i].k # "SOS"  BY <1>4, <2>1 DEF Marks, SingleScan
  <2>5. ASSUME stream[i].k \in Segments \ {"SOS"} PROVE FALSE
    <3>1. PICK r \in scans : i < r  BY <1>2, <2>1, <2>5
    <3>2. r = q  BY <1>4, <3>1 DEF SingleScan
    <3> QED  BY <2>1, <3>1, <3>2
  <2> QED  BY <2>2, <2>3, <2>4, <2>5 DEF Kinds
<1>5. \A k : Marks(stream, k) = {i \in 1 .. L : stream[i].k = k}  BY DEF Marks
<1>6. PICK f \in Marks(stream, "SOF") :
        /\ Marks(stream, "SOF") = {f}
        /\ ToSet(stream[f].refs) \subseteq {stream[i].id : i \in Marks(stream, "DQT")}
  BY <1>2 DEF Matching
<1>7. \A q \in scans : f < q  BY <1>2
<1>8. /\ \A i \in 1 .. L : stream[i].flaw \notin {"cut", "zero", "wide"}
      /\ \A b \in Marks(stream, "bytes") : \E q \in scans : q < b
  BY <1>2 DEF Matching
<1> QED  BY <1>3, <1>4, <1>5, <1>6, <1>7, <1>8 DEF Unobjected

(* The parser objects to a second scan. *)
LEMMA UnobjectedSingle ==
  ASSUME NEW stream \in Seq(Token), Unobjected(stream)
  PROVE  SingleScan(stream)
<1> DEFINE L == Len(stream)
           scans == {i \in 1 .. L : stream[i].k = "SOS"}
<1>1. L \in Nat /\ {i \in 1 .. L : stream[i].k = "EOI"} = {L}
      /\ \A q \in scans : \A i \in q + 1 .. L - 1 : stream[i].k \in {"bytes", "pad", "RST"}
  BY DEF Unobjected
<1>2. ASSUME NEW q \in scans, NEW r \in scans, q < r PROVE FALSE
  <2>1. q \in 1 .. L /\ r \in 1 .. L /\ stream[r].k = "SOS"  OBVIOUS
  <2>2. r # L  BY <1>1, <2>1
  <2>3. r \in q + 1 .. L - 1  BY <1>1, <1>2, <2>1, <2>2
  <2> QED  BY <1>1, <2>1, <2>3
<1>3. \A q, r \in scans : q \in Int /\ r \in Int  BY <1>1
<1>4. \A q, r \in scans : q = r  BY <1>2, <1>3
<1>5. Marks(stream, "SOS") = scans  BY DEF Marks
<1> QED  BY <1>4, <1>5 DEF SingleScan

(* Of the well-formed streams, of whatever length, the parser reports those *)
(* as nominal that have one scan, and those only: it leaves both its loops  *)
(* at the second one (parser.py:313-326).                                  *)
THEOREM ScansDecide ==
  ASSUME NEW stream \in Seq(Token), Framed(stream)
  PROVE  Nominal(stream) <=> SingleScan(stream)
BY ParserExact, OneScanUnobjected, UnobjectedSingle

(* StructureSound: before any run, a stream that the parser has nothing     *)
(* against has one frame with its tables and its end where it should be,   *)
(* and of a well-formed stream with one scan it finds nothing to report.    *)
THEOREM StructureIsSound == Spec => []StructureSound
<1>1. JudgedSoundly
  <2> SUFFICES ASSUME NEW stream \in Streams
               PROVE  /\ Nominal(stream) => Matching(stream)
                      /\ Framed(stream) /\ SingleScan(stream) => Nominal(stream)
    BY Zenon DEF JudgedSoundly
  <2>1. stream \in Seq(Token)  BY StreamsAssumption
  <2> QED  BY <2>1, ParserExact, UnobjectedMatches, ScansDecide
<1>2. StructureSound  BY <1>1 DEF StructureSound
<1> QED  BY <1>2, PTL
==============================================================================
