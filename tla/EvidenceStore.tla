---------------------------- MODULE EvidenceStore ----------------------------
(***************************************************************************)
(* The bitstreams in the storage directory, the database rows that point   *)
(* to them, and the audit trail: the upload of an evidence file            *)
(* (process_and_store_evidence followed by log_event) and the import of a  *)
(* case bundle, which commits its rows together with its audit events.     *)
(*                                                                         *)
(* A bitstream is named by its uuid, the files of an imported case by the  *)
(* identifier of that case, which is the name of their directory.          *)
(***************************************************************************)
EXTENDS AuditTrail

CONSTANTS
  File,     \* the uuids of uploaded files
  Faults    \* subset of {"error", "doubt", "crash"}: what may go wrong

ASSUME FilesAssumption == File \cap Case = {} /\ NoCase \notin File
ASSUME FaultsAssumption == Faults \subseteq {"error", "doubt", "crash"}

VARIABLES
  staging,   \* staged files and directories
  files,     \* files and directories in their final place
  rows,      \* the files and imported cases that have committed rows
  task,      \* what each session is doing
  seen       \* history: which of the Faults have happened

store == <<staging, files, rows, task, seen>>
storeVars == <<trail, store>>

Item == File \cup NewCase
NoItem == NoCase
TaskState == [pc : {"idle", "staged", "moved", "log", "import", "importLog"},
              item : Item \cup {NoItem}]
NoTask == [pc |-> "idle", item |-> NoItem]

StoreTypeOK == /\ staging \subseteq Item
               /\ files \subseteq Item
               /\ rows \subseteq Item
               /\ task \in [Session -> TaskState]
               /\ \A s \in Session : task[s].pc = "idle" => task[s].item = NoItem
               /\ seen \subseteq Faults

StoreInit == /\ Init
             /\ staging = {} /\ files = {} /\ rows = {}
             /\ task = [s \in Session |-> NoTask]
             /\ seen = {}

In(s, pcs) == task[s].pc \in pcs
Go(s, pc) == task' = [task EXCEPT ![s].pc = pc]
Fault(k) == k \in Faults /\ seen' = seen \cup {k}

End(s) == task' = [task EXCEPT ![s] = NoTask]

-----------------------------------------------------------------------------
(* process_and_store_evidence *)

Unused(f) == f \notin staging \cup files \cup rows /\ \A s \in Session : task[s].item # f

(* The upload is written to a staging file, synced and verified; one that  *)
(* is refused is removed again.                                            *)
Stage(s, f) ==
  /\ In(s, {"idle"}) /\ at[s] = "idle"
  /\ Unused(f)
  /\ staging' = staging \cup {f}
  /\ task' = [task EXCEPT ![s] = [pc |-> "staged", item |-> f]]
  /\ UNCHANGED <<trail, files, rows, seen>>

Refuse(s) ==
  /\ In(s, {"staged"})
  /\ staging' = staging \ {task[s].item}
  /\ End(s)
  /\ UNCHANGED <<trail, files, rows, seen>>

(* Mutant: the staged file is copied and stays where it is. *)
Copy(s) ==
  /\ In(s, {"staged"})
  /\ files' = files \cup {task[s].item}
  /\ Go(s, "moved")
  /\ UNCHANGED <<trail, staging, rows, seen>>

(* os.replace *)
Move(s) ==
  /\ In(s, {"staged"})
  /\ staging' = staging \ {task[s].item}
  /\ files' = files \cup {task[s].item}
  /\ Go(s, "moved")
  /\ UNCHANGED <<trail, rows, seen>>

StoreRow(s) ==
  /\ In(s, {"moved"})
  /\ rows' = rows \cup {task[s].item}
  /\ Go(s, "log")
  /\ UNCHANGED <<trail, staging, files, seen>>

(* The commit raises: the file is removed. In doubt, the row is stored.    *)
StoreRowFails(s) ==
  /\ In(s, {"moved"})
  /\ \/ Fault("error") /\ UNCHANGED rows
     \/ Fault("doubt") /\ rows' = rows \cup {task[s].item}
  /\ files' = files \ {task[s].item}
  /\ End(s)
  /\ UNCHANGED <<trail, staging>>

(* Mutant: the upload counts as committed only when the row is read back. *)
RefreshFailsUncommitted(s) ==
  /\ In(s, {"log"}) /\ at[s] = "idle"
  /\ Fault("error")
  /\ files' = files \ {task[s].item}
  /\ End(s)
  /\ UNCHANGED <<trail, staging, rows>>

(* The row cannot be read back: the upload fails, row and file stay. *)
RefreshFails(s) ==
  /\ In(s, {"log"}) /\ at[s] = "idle"
  /\ Fault("error")
  /\ End(s)
  /\ UNCHANGED <<trail, staging, files, rows>>

(* EVIDENCE_UPLOADED; also the event of any other handler. *)
LogUpload(s, c) ==
  /\ In(s, {"log", "idle"})
  /\ LogEvent(s, c)
  /\ Go(s, "log")
  /\ UNCHANGED <<staging, files, rows, seen>>

-----------------------------------------------------------------------------
(* import_bundle *)

StageImport(s, c) ==
  /\ In(s, {"idle"})
  /\ Unused(c)
  /\ StartImport(s, c)
  /\ staging' = staging \cup {c}
  /\ task' = [task EXCEPT ![s] = [pc |-> "import", item |-> c]]
  /\ UNCHANGED <<files, rows, seen>>

(* Mutant: the rows are committed before the audit event is appended. *)
MoveImportCommits(s) ==
  /\ In(s, {"import"})
  /\ EndHistory(s)
  /\ staging' = staging \ {task[s].item}
  /\ files' = files \cup {task[s].item}
  /\ rows' = rows \cup {task[s].item}
  /\ Go(s, "importLog")
  /\ UNCHANGED seen

(* Rows and history are flushed, the directory is moved into place. *)
MoveImport(s) ==
  /\ In(s, {"import"})
  /\ EndHistory(s)
  /\ staging' = staging \ {task[s].item}
  /\ files' = files \cup {task[s].item}
  /\ Go(s, "importLog")
  /\ UNCHANGED <<rows, seen>>

-----------------------------------------------------------------------------
(* Steps of log_event inside an upload or an import *)

AppendStep(s) ==
  /\ Acquire(s) \/ ReadLatest(s) \/ Draw(s) \/ AddHistory(s)
  /\ UNCHANGED store

(* The commit of the event is that of an import's rows. *)
CommitAll(s) ==
  /\ Commit(s)
  /\ rows' = IF In(s, {"importLog"}) THEN rows \cup {task[s].item} ELSE rows
  /\ UNCHANGED <<staging, files, task, seen>>

Finish(s) == Return(s) /\ End(s) /\ UNCHANGED <<staging, files, rows, seen>>

(* An import removes its directories, an upload leaves its file. *)
Cleanup(s) ==
  IF In(s, {"import", "importLog"})
  THEN staging' = staging \ {task[s].item} /\ files' = files \ {task[s].item}
  ELSE UNCHANGED <<staging, files>>

AppendFails(s) ==
  /\ \/ Fault("error") /\ Rollback(s)
     \/ Fault("doubt") /\ RaiseAfterCommit(s)
  /\ Cleanup(s)
  /\ End(s)
  /\ UNCHANGED rows

(* The process dies: the database rolls back and frees its locks, files    *)
(* stay where they are.                                                    *)
Crash(s) ==
  /\ Fault("crash")
  /\ ~In(s, {"idle"})
  /\ \/ Rollback(s) \/ RaiseAfterCommit(s)
     \/ at[s] = "idle" /\ UNCHANGED trail
  /\ End(s)
  /\ UNCHANGED <<staging, files, rows>>

-----------------------------------------------------------------------------
StoreNext == \E s \in Session :
  \/ \E f \in File : Stage(s, f)
  \/ Refuse(s) \/ Move(s) \/ StoreRow(s) \/ StoreRowFails(s) \/ RefreshFails(s)
  \/ \E c \in Case : LogUpload(s, c) \/ StageImport(s, c)
  \/ MoveImport(s) \/ AppendStep(s) \/ CommitAll(s) \/ Finish(s) \/ AppendFails(s) \/ Crash(s)

StoreSpec == StoreInit /\ [][StoreNext]_storeVars

-----------------------------------------------------------------------------
(* "evidence integrity must be verifiable from the instant of ingest       *)
(* through archival storage" (docs/EVIDENCE_INTEGRITY.md:5): whatever the  *)
(* database points to is on disk.                                          *)
FilesKept == rows \subseteq files

(* What the code achieves: files are in place before their rows are        *)
(* committed, and neither an error, nor a crash at any point, nor another  *)
(* session removes the file of a committed row. Only an error raised after *)
(* the commit does.                                                        *)
RowHasFile == "doubt" \notin seen => FilesKept

(* "A database failure removes the staged evidence file"                   *)
(* (docs/SECURITY.md:113): as long as no process dies, nothing is left     *)
(* behind by sessions that have ended.                                     *)
NoOrphans ==
  "crash" \notin seen => \A i \in staging \cup files : i \in rows \/ \E s \in Session : task[s].item = i

(* The rows of an imported case and its audit chain are stored together or *)
(* not at all, although log_event commits for both.                        *)
ImportComplete == \A c \in NewCase : c \in rows <=> Of(c, events) # {}
=============================================================================
