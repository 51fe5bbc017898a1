------------------------------- MODULE EngineRuns -------------------------------
(***************************************************************************)
(* Runs of the engines on the evidence of a case: the row that records a   *)
(* run (engine_extensions/runner.py and the analyzers of forensics/), the  *)
(* files the engines leave in the storage directory, and the library of    *)
(* camera references (camera_reference_library.py) that two engines read.  *)
(*                                                                         *)
(* A caller is a request thread or a Celery task; each runs one engine at  *)
(* a time. What it does between two accesses to something shared is one    *)
(* step: the commit that creates the row, the reads of the library, each   *)
(* file, the commit that ends the row, and the refresh that follows it.    *)
(***************************************************************************)
EXTENDS Engines

CONSTANTS
  Caller, Evidence, NoEvidence,
  Scenes,          \* bound: what the evidence is, who asks for what, how many runs
  Stored,          \* the references that the library holds at first
  MaxFaults        \* bound: crashes, database errors, failed writes

ASSUME RunsAssumption ==
  /\ NoEvidence \notin Evidence
  /\ Stored \subseteq Ref
  /\ \A s \in Scenes : /\ DOMAIN s.pic = Evidence
                        /\ s.asks \in [Caller -> SUBSET Engine]
                        /\ s.moves \subseteq Ref
                        /\ s.runs \in Nat
  /\ MaxFaults \in Nat

VARIABLES
  scene,    \* pic: the image of each evidence item; asks: the engines that
            \* each caller runs; moves: the references stored or deleted
            \* meanwhile; runs: how many runs there are
  rows,     \* the table analyses, with the observations of each row
  disk,     \* the files written, and the run that wrote each one last
  lib,      \* the directory of each reference
  run,      \* what each caller is doing
  faults    \* how many faults there have been

vars == <<scene, rows, disk, lib, run, faults>>

Status == {"running", "completed", "not_applicable", "failed"}

(* Why a row is left as it is, for the properties: it was never ended, or  *)
(* it was overwritten after it had ended.                                  *)
Left == {"none", "crash", "commit", "raised", "refresh"}

(* A reference is a directory with the fingerprint and, written last, the  *)
(* metadata; deleting removes the two in any order.                        *)
Directory == {"none", "fingerprint", "whole", "metadata", "remains", "gone"}

Idle == [pc |-> "idle", row |-> 0, m |-> Nothing, refs |-> {}, scores |-> <<>>,
         todo |-> <<>>, recorded |-> {}, metrics |-> NoMetrics, ending |-> "running"]

NewRow(E, e) ==
  [engine |-> E, evidence |-> e, status |-> "running", left |-> "none",
   recorded |-> {}, metrics |-> NoMetrics, scores |-> <<>>]

Init ==
  /\ scene \in Scenes
  /\ rows = <<>>
  /\ disk = [name \in {} |-> 0]
  /\ lib = [ref \in Ref |-> IF ref \in Stored THEN "whole" ELSE "none"]
  /\ run = [c \in Caller |-> Idle]
  /\ faults = 0

Row(c) == rows[run[c].row]

(* Mutant: the end of a run is written to the newest row.                  *)
OwnRowNewest(c) == Len(rows)
OwnRow(c) == run[c].row

SetRow(c, row) == rows' = [rows EXCEPT ![OwnRow(c)] = row]
Goes(c, pc) == run' = [run EXCEPT ![c].pc = pc]
Rests(c) == run' = [run EXCEPT ![c] = Idle]
Fault == faults < MaxFaults /\ faults' = faults + 1

(* Mutant: the name of the evidence is left out of the file's.             *)
NameUnowned(file, e, r) ==
  [file |-> file.name, run |-> IF file.after = "run" THEN r ELSE 0,
   evidence |-> IF file.after = "evidence" THEN CHOOSE d \in Evidence : TRUE ELSE NoEvidence]
Name(file, e, r) ==
  [file |-> file.name, run |-> IF file.after = "run" THEN r ELSE 0,
   evidence |-> IF file.after = "evidence" THEN e ELSE NoEvidence]

-----------------------------------------------------------------------------
(* A run                                                                   *)

(* The row is committed as running before the engine is executed.          *)
Begin(c) ==
  /\ run[c].pc = "idle"
  /\ Len(rows) < scene.runs
  /\ \E e \in Evidence, E \in scene.asks[c] :
       /\ ~Refused(E, scene.pic[e])
       /\ rows' = Append(rows, NewRow(E, e))
  /\ run' = [run EXCEPT ![c] = [Idle EXCEPT !.pc = "execute", !.row = Len(rows) + 1]]
  /\ UNCHANGED <<scene, disk, lib, faults>>

(* A request over HTTP has no parameters but the case; a job has any, and  *)
(* the case only if the client put it there.                               *)
Request(E) ==
  {q \in [param : Parameter, target : Ref \cup {NoRef}, cased : BOOLEAN] :
     /\ E \in Legacy \cup StreamEngines => q.param = "good"
     /\ E \notin CaseEngines => q.target = NoRef /\ q.cased}
Given(image, q) ==
  [format |-> image.format, row |-> image.row, real |-> image.real, file |-> image.file,
   param |-> q.param]

(* What list_references and get_reference find.                            *)
Listed(q) ==
  {ref \in Ref : /\ q.cased
                 /\ lib[ref] \in {"whole", "metadata"}
                 /\ q.target \in {ref, NoRef}}
Readable(ref) == lib[ref] = "whole"
Loaded(E, q) == E = "PRNU" /\ q.cased /\ q.target # NoRef /\ Readable(q.target)

(* The engine decides whether it applies, and measures; or it ends early.  *)
Execute(c) ==
  LET E == Row(c).engine IN
  /\ run[c].pc = "execute"
  /\ \E q \in Request(E), m \in Facts(E) :
       LET outcome == Gates(E, Given(scene.pic[Row(c).evidence], q), m)
           Ending(status) ==
             /\ run' = [run EXCEPT ![c].pc = "commit", ![c].ending = status]
             /\ UNCHANGED rows
       IN  \/ outcome = "not_applicable" /\ Ending("not_applicable")
           \/ outcome \in {"failed", "error"} /\ Ending("failed")
           \/ /\ outcome = "raised"
              /\ SetRow(c, [Row(c) EXCEPT !.left = "raised"])
              /\ Rests(c)
           \/ /\ outcome = "applied" /\ E # "CAMERA-ID"
              /\ run' = [run EXCEPT ![c].pc = "write",
                                    ![c].todo = Files(E, m, Loaded(E, q)),
                                    ![c].metrics = Observed(E, m, Loaded(E, q), <<>>)]
              /\ UNCHANGED rows
           \/ /\ outcome = "applied" /\ E = "CAMERA-ID"
              /\ run' = [run EXCEPT ![c].pc = "compare", ![c].m = m, ![c].refs = Listed(q)]
              /\ UNCHANGED rows
  /\ UNCHANGED <<scene, disk, lib, faults>>

(* Each listed reference is read again; one that cannot be is passed over. *)
Compare(c) ==
  /\ run[c].pc = "compare"
  /\ \E ref \in run[c].refs :
       run' = [run EXCEPT ![c].refs = @ \ {ref},
                          ![c].scores = IF Readable(ref)
                                        THEN Append(@, Compared(run[c].m, ref)) ELSE @]
  /\ UNCHANGED <<scene, rows, disk, lib, faults>>

Judge(c) ==
  /\ run[c].pc = "compare" /\ run[c].refs = {}
  /\ run' = [run EXCEPT ![c].pc = "write", ![c].m = Nothing, ![c].todo = CameraFiles,
                        ![c].metrics = CameraObserved(run[c].scores)]
  /\ UNCHANGED <<scene, rows, disk, lib, faults>>

NextName(c) == Name(run[c].todo[1], Row(c).evidence, run[c].row)
Recorded(c) == [run EXCEPT ![c].todo = Tail(@), ![c].recorded = @ \cup {NextName(c)}]

(* Mutant: the run is given up and its status forgotten.                   *)
AbandonUnended(c) == run' = [run EXCEPT ![c].pc = "commit"]
Abandon(c) == run' = [run EXCEPT ![c].pc = "commit", ![c].ending = "failed"]

Write(c) ==
  /\ run[c].pc = "write" /\ run[c].todo # <<>>
  /\ disk' = [name \in DOMAIN disk \cup {NextName(c)} |->
                IF name = NextName(c) THEN run[c].row ELSE disk[name]]
  /\ run' = Recorded(c)
  /\ UNCHANGED <<scene, rows, lib, faults>>

Written(c) ==
  /\ run[c].pc = "write" /\ run[c].todo = <<>>
  /\ run' = [run EXCEPT ![c].pc = "commit", ![c].ending = "completed"]
  /\ UNCHANGED <<scene, rows, disk, lib, faults>>

WriteFails(c) ==
  /\ run[c].pc = "write" /\ run[c].todo # <<>>
  /\ Fault /\ Abandon(c)
  /\ UNCHANGED <<scene, rows, disk, lib>>

(* Every engine reads its file back to hash it, COPY_MOVE does not.        *)
ReadsBack(c) == Row(c).engine # "COPY_MOVE"

(* cv2.imwrite returns False: the file that an earlier run left under the  *)
(* name is taken for the new one.                                          *)
WriteLost(c) ==
  /\ run[c].pc = "write" /\ run[c].todo # <<>>
  /\ run[c].todo[1].name \in ByOpenCV
  /\ Fault
  /\ \/ ReadsBack(c) /\ NextName(c) \notin DOMAIN disk /\ Abandon(c)
     \/ (ReadsBack(c) => NextName(c) \in DOMAIN disk) /\ run' = Recorded(c)
  /\ UNCHANGED <<scene, rows, disk, lib>>

-----------------------------------------------------------------------------
(* The end of a run                                                        *)

Ended(c) ==
  IF run[c].ending = "completed"
  THEN [Row(c) EXCEPT !.status = "completed", !.recorded = run[c].recorded,
                      !.metrics = run[c].metrics, !.scores = run[c].scores]
  ELSE [Row(c) EXCEPT !.status = run[c].ending]

(* Mutant: the ValueError of a failed run is raised before the commit.     *)
CommitUnfailed(c) ==
  /\ run[c].pc = "commit"
  /\ IF run[c].ending = "failed" THEN Rests(c) /\ UNCHANGED rows
     ELSE Goes(c, "refresh") /\ SetRow(c, Ended(c))
  /\ UNCHANGED <<scene, disk, lib, faults>>

(* Status, artifacts and observations are one transaction. A failed run    *)
(* raises a ValueError, which no handler turns into something else.        *)
Commit(c) ==
  /\ run[c].pc = "commit"
  /\ SetRow(c, Ended(c))
  /\ IF run[c].ending = "failed" THEN Rests(c) ELSE Goes(c, "refresh")
  /\ UNCHANGED <<scene, disk, lib, faults>>

(* The handler of the error marks the row failed, if it can.               *)
CommitFails(c) ==
  /\ run[c].pc = "commit" /\ Fault
  /\ \/ SetRow(c, [Row(c) EXCEPT !.left = "commit"])
     \/ run[c].ending # "failed" /\ SetRow(c, [Row(c) EXCEPT !.status = "failed"])
  /\ Rests(c)
  /\ UNCHANGED <<scene, disk, lib>>

Refresh(c) ==
  /\ run[c].pc = "refresh"
  /\ Rests(c)
  /\ UNCHANGED <<scene, rows, disk, lib, faults>>

(* The same handler covers the refresh after the commit: a row that has    *)
(* ended becomes failed and keeps its observations.                        *)
RefreshFails(c) ==
  /\ run[c].pc = "refresh" /\ Fault
  /\ \/ SetRow(c, [Row(c) EXCEPT !.status = "failed", !.left = "refresh"])
     \/ UNCHANGED rows
  /\ Rests(c)
  /\ UNCHANGED <<scene, disk, lib>>

Crash(c) ==
  /\ run[c].pc # "idle" /\ Fault
  /\ IF Row(c).status = "running" THEN SetRow(c, [Row(c) EXCEPT !.left = "crash"])
     ELSE UNCHANGED rows
  /\ Rests(c)
  /\ UNCHANGED <<scene, disk, lib>>

-----------------------------------------------------------------------------
(* The library of references                                               *)

SaveFingerprint(ref) == lib[ref] = "none" /\ lib' = [lib EXCEPT ![ref] = "fingerprint"]
SaveMetadata(ref) == lib[ref] = "fingerprint" /\ lib' = [lib EXCEPT ![ref] = "whole"]

(* shutil.rmtree: one entry after the other. A reference without metadata  *)
(* is not listed, but its directory can be deleted.                        *)
DeleteEntry(ref) ==
  \/ lib[ref] = "whole" /\ lib' = [lib EXCEPT ![ref] = "metadata"]
  \/ lib[ref] = "whole" /\ lib' = [lib EXCEPT ![ref] = "remains"]
  \/ lib[ref] = "fingerprint" /\ lib' = [lib EXCEPT ![ref] = "none"]
  \/ lib[ref] \in {"metadata", "remains"} /\ lib' = [lib EXCEPT ![ref] = "gone"]

Library(ref) ==
  /\ ref \in scene.moves
  /\ SaveFingerprint(ref) \/ SaveMetadata(ref) \/ DeleteEntry(ref)
  /\ UNCHANGED <<scene, rows, disk, run, faults>>

Finished ==
  /\ Len(rows) = scene.runs /\ \A c \in Caller : run[c].pc = "idle"
  /\ UNCHANGED vars

Next ==
  \/ \E c \in Caller : \/ Begin(c) \/ Execute(c) \/ Compare(c) \/ Judge(c)
                       \/ Write(c) \/ Written(c) \/ WriteFails(c) \/ WriteLost(c)
                       \/ Commit(c) \/ CommitFails(c) \/ Refresh(c) \/ RefreshFails(c)
                       \/ Crash(c)
  \/ \E ref \in Ref : Library(ref)
  \/ Finished

Spec == Init /\ [][Next]_vars

-----------------------------------------------------------------------------
(* Properties                                                              *)

RowId == 1 .. Len(rows)
Doing(i) == \E c \in Caller : run[c].pc # "idle" /\ run[c].row = i

(* The state is well formed (the tables, the directory of each reference,  *)
(* the step of each caller and the row it works on).                       *)
RunsTypeOK ==
  /\ scene \in Scenes
  /\ Len(rows) <= scene.runs
  /\ \A i \in RowId :
       /\ rows[i].engine \in Engine /\ rows[i].evidence \in Evidence
       /\ rows[i].status \in Status /\ rows[i].left \in Left
       /\ \A metric \in DOMAIN rows[i].metrics : rows[i].metrics[metric] \in Indicator
  /\ \A name \in DOMAIN disk : disk[name] \in RowId
  /\ lib \in [Ref -> Directory]
  /\ \A c \in Caller :
       /\ run[c].pc \in {"idle", "execute", "compare", "write", "commit", "refresh"}
       /\ run[c].pc # "idle" => run[c].row \in RowId
       /\ run[c].pc = "commit" => run[c].ending # "running"
  /\ faults \in 0 .. MaxFaults

(* A row is running while its engine runs; it stays so only after a crash, *)
(* a commit that failed, or an engine that raised a ValueError, which      *)
(* run_engine passes on without ending the row.                            *)
RunningExplained ==
  \A i \in RowId : rows[i].status = "running" => Doing(i) \/ rows[i].left # "none"

(* Observations and artifacts belong to completed rows, and to rows that   *)
(* were completed and lost that status when the refresh after the commit   *)
(* failed; a run that ended otherwise leaves none.                         *)
ObservationsBacked ==
  \A i \in RowId :
    (DOMAIN rows[i].metrics # {} \/ rows[i].recorded # {}) =>
      rows[i].status = "completed" \/ rows[i].left = "refresh"

(* What a completed run of an extension engine records is on the disk; a   *)
(* file that is named after an evidence item was written for that item.    *)
ArtifactsBacked ==
  \A i \in RowId :
    rows[i].status = "completed" /\ rows[i].engine \in Extension =>
      \A name \in rows[i].recorded :
        /\ name \in DOMAIN disk
        /\ name.evidence # NoEvidence => rows[disk[name]].evidence = rows[i].evidence

(* A camera is named only by a comparison with a reference that had been   *)
(* stored completely, and whose two measures are stored as elevated too.   *)
CameraBacked ==
  \A i \in RowId :
    rows[i].engine = "CAMERA-ID" /\ rows[i].status = "completed" =>
      /\ \A k \in DOMAIN rows[i].scores : lib[rows[i].scores[k].ref] \notin {"none", "fingerprint"}
      /\ rows[i].metrics["CANDIDATE_CAMERA_CONSISTENCY"] = "elevated" =>
           /\ rows[i].metrics["MAX_CORRELATION"] = "elevated"
           /\ rows[i].metrics["PCE"] = "elevated"

(* No run writes to a row that has ended, but its own when the refresh     *)
(* after the commit fails.                                                 *)
RowsEndOnce ==
  [][\A i \in RowId :
       rows[i].status # "running" =>
         \/ rows'[i] = rows[i]
         \/ rows'[i] = [rows[i] EXCEPT !.status = "failed", !.left = "refresh"]]_vars

(* Before any run: the marker parser, which reads a file in two nested     *)
(* loops, finds every flaw of a stream that has one (a missing or early    *)
(* EOI, a cut or malformed segment, a second frame, a missing table, data  *)
(* before the first scan), and none in a well-formed stream with one scan. *)
StructureSound == rows = <<>> => JudgedSoundly

(* "Nominal Output: All markers appear in canonical order with matching    *)
(* SOI/EOI, consistent frame headers, and zero trailing bytes"             *)
(* (docs/JPEG_STRUCTURE_ANALYSIS.md:57): where every file is well-formed,  *)
(* of however many scans, a completed run of JPEG-STRUCTURE says nominal.  *)
StructureNominal ==
  (\A stream \in Samples : Framed(stream)) =>
    \A i \in RowId :
      rows[i].engine = "JPEG-STRUCTURE" /\ rows[i].status = "completed" =>
        rows[i].metrics["ANOMALY_COUNT"] = "nominal"

(* "Evaluates boundary consistency, missing or misplaced markers" (:14):   *)
(* where no file is well-formed, no completed run says nominal.            *)
StructureObjects ==
  (\A stream \in Samples : ~Framed(stream)) =>
    \A i \in RowId :
      rows[i].engine = "JPEG-STRUCTURE" /\ rows[i].status = "completed" =>
        rows[i].metrics["ANOMALY_COUNT"] = "anomalous"

(* Before any run: the estimate finds the quality that libjpeg was asked   *)
(* for, although it scales the table without rounding the scale.           *)
QualityExact == rows = <<>> => QualitiesExact

(* A path that a completed row records leads to what that run wrote.       *)
ArtifactKept ==
  \A i \in RowId :
    rows[i].status = "completed" =>
      \A name \in rows[i].recorded : name \in DOMAIN disk => disk[name] = i

(* The rows are what those who wait for the runs take them for (and        *)
(* AnalysisJobs has its workers do).                                       *)
Ledger == INSTANCE RunLedger WITH
  ledger <- [i \in RowId |-> IF rows[i].left = "refresh" THEN "withdrawn" ELSE rows[i].status]
ImplementsLedger == Ledger!Spec
=============================================================================
