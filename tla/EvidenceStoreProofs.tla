------------------------ MODULE EvidenceStoreProofs ------------------------
(***************************************************************************)
(* What the rows point to is on disk, nothing is left behind, and imports  *)
(* are all or nothing, for any number of sessions, files and cases.        *)
(*                                                                         *)
(* No item is worked on by two sessions, so a session that removes the     *)
(* item of its own task disturbs nobody, and the place of its task in the  *)
(* code says whether the item is staged, in place or committed (Places).   *)
(***************************************************************************)
EXTENDS EvidenceStore, AuditTrailProofs

(* Where the append of a session is, by its task. *)
AtTask(s) ==
  /\ In(s, {"idle", "staged", "moved"}) => at[s] = "idle"
  /\ In(s, {"log"}) => at[s] # "import"
  /\ In(s, {"import"}) => at[s] = "import" /\ Mine(s) = task[s].item
  /\ In(s, {"importLog"}) => at[s] \in {"wait", "locked", "read", "drawn", "stored"}
                             /\ Mine(s) = task[s].item

(* Where the item of a session is, by its task. *)
Places(s) ==
  LET i == task[s].item IN
  /\ In(s, {"staged", "moved"}) => i \in File
  /\ In(s, {"import", "importLog"}) => i \in NewCase
  /\ In(s, {"log"}) => i \in File \cup {NoItem} /\ (i # NoItem => i \in rows)
  /\ In(s, {"staged", "import"}) => i \notin files /\ i \notin rows
  /\ In(s, {"moved", "importLog"}) => i \notin staging /\ i \in files
  /\ In(s, {"moved"}) => i \notin rows
  /\ In(s, {"importLog"}) => (i \in rows <=> at[s] = "stored")

OneTask == \A s, t \in Session : task[s].item = task[t].item /\ task[s].item # NoItem => s = t

(* Whoever appends to an imported case, other than its import, has found it. *)
Found(s) == at[s] \in {"wait", "locked", "read", "drawn"} /\ Mine(s) \in NewCase /\ ~In(s, {"importLog"})
            => Of(Mine(s), events) # {}

StoreInv == /\ ChainInv /\ StoreTypeOK /\ OneTask
            /\ \A s \in Session : AtTask(s) /\ Places(s) /\ Found(s)
            /\ RowHasFile /\ NoOrphans /\ ImportComplete

-----------------------------------------------------------------------------
(* The steps of a session. *)
StoreStep(s) ==
  \/ \E f \in File : Stage(s, f)
  \/ Refuse(s) \/ Move(s) \/ StoreRow(s) \/ StoreRowFails(s) \/ RefreshFails(s)
  \/ \E c \in Case : LogUpload(s, c) \/ StageImport(s, c)
  \/ MoveImport(s) \/ AppendStep(s) \/ CommitAll(s) \/ Finish(s) \/ AppendFails(s) \/ Crash(s)

(* A step of the store is one of the audit trail or leaves it alone. *)
LEMMA StoreIsTrail == ASSUME NEW s \in Session, StoreStep(s) PROVE StepOf(s) \/ UNCHANGED trail
BY DEF StoreStep, StepOf, Reads, Ends, Stage, Refuse, Move, StoreRow, StoreRowFails, RefreshFails,
       LogUpload, StageImport, MoveImport, AppendStep, CommitAll, Finish, AppendFails, Crash

(* A step of a session is a step of the trail. *)
LEMMA StepIsNext == ASSUME NEW s \in Session, StepOf(s) PROVE Next
BY DEF Next, StepOf, Reads, Ends

(* The handlers use the audit trail as AuditTrail says: the chains verify  *)
(* in the composed system as well.                                         *)
THEOREM StoreImplementsTrail == StoreSpec => Spec
<1>1. StoreInit => Init
  BY DEF StoreInit
<1>2. [StoreNext]_storeVars => [Next]_trail
  BY StoreIsTrail, StepIsNext DEF StoreNext, StoreStep, storeVars
<1> QED BY <1>1, <1>2, PTL DEF StoreSpec, Spec

-----------------------------------------------------------------------------
(* What a step does to other sessions and other items *)

(* What StoreTypeOK says of one session. *)
LEMMA TaskTypes ==
  ASSUME StoreTypeOK, NEW s \in Session
  PROVE  /\ task[s].item \in Item \cup {NoItem}
         /\ task[s].pc \in {"idle", "staged", "moved", "log", "import", "importLog"}
         /\ NoItem \notin Item /\ File \cap NewCase = {}
         /\ In(s, {"idle"}) => task[s].item = NoItem
BY FilesAssumption, CaseAssumption DEF StoreTypeOK, TaskState, Item, NoItem, In

(* Effect of Go. *)
LEMMA GoEffect ==
  ASSUME StoreTypeOK, NEW s \in Session, NEW label, Go(s, label)
  PROVE  task'[s].pc = label /\ task'[s].item = task[s].item
BY DEF Go, StoreTypeOK, TaskState

(* Effect of End. *)
LEMMA EndEffect ==
  ASSUME StoreTypeOK, NEW s \in Session, End(s)
  PROVE  task'[s].pc = "idle" /\ task'[s].item = NoItem
BY DEF End, StoreTypeOK, NoTask

(* A step changes the task of its session only. *)
LEMMA OtherTasksStay ==
  ASSUME StoreTypeOK, TypeOK, NEW s \in Session, StoreStep(s), NEW t \in Session, t # s
  PROVE  task'[t] = task[t] /\ at'[t] = at[t] /\ Mine(t)' = Mine(t)
<1>1. at'[t] = at[t] /\ draft'[t] = draft[t]
  BY StoreIsTrail, OthersStay DEF trail
<1>2. task'[t] = task[t]
  BY DEF StoreTypeOK, StoreStep, Stage, Refuse, Move, StoreRow, StoreRowFails, RefreshFails,
         LogUpload, StageImport, MoveImport, AppendStep, CommitAll, Finish, AppendFails, Crash,
         Go, End, store
<1> QED BY <1>1, <1>2 DEF Mine

(* The item of the session after the step, and what happens to the others. *)
LEMMA OwnItem ==
  ASSUME StoreTypeOK, NEW s \in Session, StoreStep(s)
  PROVE  /\ task'[s].item \in {task[s].item, NoItem} \/ Unused(task'[s].item)
         /\ \A i : i # task[s].item /\ i # task'[s].item =>
              /\ i \in staging' <=> i \in staging
              /\ i \in files' <=> i \in files
              /\ i \in rows' <=> i \in rows
<1>1. ASSUME NEW f \in File, Stage(s, f)
      PROVE  task'[s].item = f /\ Unused(f) /\ staging' = staging \cup {f} /\ files' = files /\ rows' = rows
  BY <1>1 DEF Stage, StoreTypeOK
<1>2. ASSUME NEW c \in Case, StageImport(s, c)
      PROVE  task'[s].item = c /\ Unused(c) /\ staging' = staging \cup {c} /\ files' = files /\ rows' = rows
  BY <1>2 DEF StageImport, StoreTypeOK
<1>3. CASE Refuse(s) \/ StoreRowFails(s) \/ RefreshFails(s) \/ Finish(s) \/ AppendFails(s) \/ Crash(s)
  <2>1. End(s)
    BY <1>3 DEF Refuse, StoreRowFails, RefreshFails, Finish, AppendFails, Crash
  <2>2. \A i : i # task[s].item => /\ i \in staging' <=> i \in staging
                                   /\ i \in files' <=> i \in files
                                   /\ i \in rows' <=> i \in rows
    BY <1>3 DEF Refuse, StoreRowFails, RefreshFails, Finish, AppendFails, Crash, Cleanup
  <2> QED BY <2>1, <2>2, EndEffect
<1>4. CASE Move(s) \/ StoreRow(s) \/ MoveImport(s) \/ \E c \in Case : LogUpload(s, c)
  <2>1. \E label : Go(s, label)
    BY <1>4 DEF Move, StoreRow, MoveImport, LogUpload
  <2>2. \A i : i # task[s].item => /\ i \in staging' <=> i \in staging
                                   /\ i \in files' <=> i \in files
                                   /\ i \in rows' <=> i \in rows
    BY <1>4 DEF Move, StoreRow, MoveImport, LogUpload
  <2> QED BY <2>1, <2>2, GoEffect
<1>5. CASE AppendStep(s) \/ CommitAll(s)
  BY <1>5 DEF AppendStep, CommitAll, store
<1> QED BY <1>1, <1>2, <1>3, <1>4, <1>5 DEF StoreStep

(* No item is in the hands of two sessions. *)
LEMMA OneTaskNext ==
  ASSUME StoreTypeOK, TypeOK, OneTask, NEW s \in Session, StoreStep(s)
  PROVE  OneTask'
BY OtherTasksStay, OwnItem DEF OneTask, Unused

-----------------------------------------------------------------------------
(* What a step does to its own session and item *)

(* An item that a session gives up is committed or gone, as long as no     *)
(* process has died; a committed item is in place.                         *)
Settled(s) ==
  LET i == task[s].item IN
  /\ i \in Item /\ task'[s].item # i /\ "crash" \notin seen' => i \in rows' \/ i \notin staging' \cup files'
  /\ \A j \in {i, task'[s].item} \cap Item : j \in rows' /\ "doubt" \notin seen' => j \in files'

Local(s) == AtTask(s)' /\ Places(s)' /\ Found(s)' /\ Settled(s)

(* Only a commit changes the table. *)
LEMMA ReadsEvents == ASSUME TypeOK, NEW s \in Session, Reads(s) \/ AddHistory(s) \/ Ends(s) PROVE events' = events
BY LogEventStep, StartImportStep, AcquireStep, ReadLatestStep, DrawStep, EndHistoryStep, AddHistoryStep, EndsStep DEF Reads

(* A session that has given up its task. *)
LEMMA EndLocal ==
  ASSUME StoreInv, NEW s \in Session, End(s), at'[s] = "idle"
  PROVE  AtTask(s)' /\ Places(s)' /\ Found(s)'
BY EndEffect DEF StoreInv, AtTask, Places, Found, In

(* The steps of an upload keep what StoreInv says of their session. *)
LEMMA UploadLocal ==
  ASSUME StoreInv, NEW s \in Session,
         (\E f \in File : Stage(s, f)) \/ Refuse(s) \/ Move(s) \/ StoreRow(s) \/ StoreRowFails(s) \/ RefreshFails(s)
  PROVE  Local(s)
<1> USE DEF StoreInv
<1>0. at' = at /\ draft' = draft /\ events' = events
  BY DEF Stage, Refuse, Move, StoreRow, StoreRowFails, RefreshFails, trail
<1>1. ASSUME NEW f \in File, Stage(s, f) PROVE Local(s)
  <2>1. task'[s].pc = "staged" /\ task'[s].item = f
    BY <1>1 DEF Stage, StoreTypeOK
  <2>2. AtTask(s)' /\ Found(s)'
    BY <1>0, <1>1, <2>1 DEF Stage, AtTask, Found, In, Mine
  <2>3. Places(s)'
    BY <1>1, <2>1 DEF Stage, Places, In, Unused
  <2>4. Settled(s)
    BY <1>1, <2>1, TaskTypes DEF Stage, Settled, Unused
  <2> QED BY <2>2, <2>3, <2>4 DEF Local
<1>2. CASE Refuse(s)
  <2>1. at'[s] = "idle" /\ End(s)
    BY <1>0, <1>2 DEF Refuse, AtTask, In
  <2>2. Settled(s)
    BY <1>2, <2>1, EndEffect, TaskTypes DEF Refuse, Settled, Places, In
  <2> QED BY <2>1, <2>2, EndLocal DEF Local
<1>3. CASE Move(s)
  <2>1. task'[s].pc = "moved" /\ task'[s].item = task[s].item
    BY <1>3, GoEffect DEF Move
  <2>2. AtTask(s)' /\ Found(s)'
    BY <1>0, <1>3, <2>1 DEF Move, AtTask, Found, In, Mine
  <2>3. Places(s)'
    BY <1>3, <2>1 DEF Move, Places, In
  <2>4. Settled(s)
    BY <1>3, <2>1 DEF Move, Settled
  <2> QED BY <2>2, <2>3, <2>4 DEF Local
<1>4. CASE StoreRow(s)
  <2>1. task'[s].pc = "log" /\ task'[s].item = task[s].item
    BY <1>4, GoEffect DEF StoreRow
  <2>2. AtTask(s)' /\ Found(s)'
    BY <1>0, <1>4, <2>1 DEF StoreRow, AtTask, Found, In, Mine
  <2>3. Places(s)'
    BY <1>4, <2>1 DEF StoreRow, Places, In
  <2>4. Settled(s)
    BY <1>4, <2>1 DEF StoreRow, Settled, Places, In
  <2> QED BY <2>2, <2>3, <2>4 DEF Local
<1>5. CASE StoreRowFails(s)
  <2>1. at'[s] = "idle" /\ End(s)
    BY <1>0, <1>5 DEF StoreRowFails, AtTask, In
  <2>2. Settled(s)
    BY <1>5, <2>1, EndEffect, TaskTypes DEF StoreRowFails, Settled, Places, In, Fault
  <2> QED BY <2>1, <2>2, EndLocal DEF Local
<1>6. CASE RefreshFails(s)
  <2>1. at'[s] = "idle" /\ End(s)
    BY <1>0, <1>6 DEF RefreshFails
  <2>2. Settled(s)
    BY <1>6, <2>1, EndEffect, TaskTypes DEF RefreshFails, Settled, Places, In, Fault, RowHasFile, FilesKept
  <2> QED BY <2>1, <2>2, EndLocal DEF Local
<1> QED BY <1>1, <1>2, <1>3, <1>4, <1>5, <1>6

(* The steps of an import keep what StoreInv says of their session. *)
LEMMA ImportLocal ==
  ASSUME StoreInv, NEW s \in Session,
         (\E c \in Case : LogUpload(s, c) \/ StageImport(s, c)) \/ MoveImport(s) \/ AppendStep(s)
  PROVE  Local(s)
<1> USE DEF StoreInv, ChainInv
<1>1. ASSUME NEW c \in Case, LogUpload(s, c) PROVE Local(s)
  <2>1. task'[s].pc = "log" /\ task'[s].item = task[s].item
    BY <1>1, GoEffect DEF LogUpload
  <2>2. at'[s] = "wait" /\ Mine(s)' = c /\ events' = events
    BY <1>1, LogEventStep, DraftFields DEF LogUpload, Mine
  <2>3. AtTask(s)'
    BY <2>1, <2>2 DEF AtTask, In
  <2>4. Found(s)'
    BY <1>1, <2>2 DEF Found, LogUpload, LogEvent, Of
  <2>5. Places(s)'
    BY <1>1, <2>1, TaskTypes DEF LogUpload, Places, In
  <2>6. Settled(s)
    BY <1>1, <2>1 DEF LogUpload, Settled, RowHasFile, FilesKept
  <2> QED BY <2>3, <2>4, <2>5, <2>6 DEF Local
<1>2. ASSUME NEW c \in Case, StageImport(s, c) PROVE Local(s)
  <2>1. task'[s].pc = "import" /\ task'[s].item = c /\ c \in NewCase
    BY <1>2 DEF StageImport, StartImport, StoreTypeOK
  <2>2. at'[s] = "import" /\ Mine(s)' = c
    BY <1>2, StartImportStep, DraftFields DEF StageImport, Mine
  <2>3. AtTask(s)' /\ Found(s)'
    BY <2>1, <2>2 DEF AtTask, In, Found
  <2>4. Places(s)'
    BY <1>2, <2>1 DEF StageImport, Places, In, Unused
  <2>5. Settled(s)
    BY <1>2, <2>1, TaskTypes DEF StageImport, Settled, Unused
  <2> QED BY <2>3, <2>4, <2>5 DEF Local
<1>3. CASE MoveImport(s)
  <2>1. task'[s].pc = "importLog" /\ task'[s].item = task[s].item
    BY <1>3, GoEffect DEF MoveImport
  <2>2. at'[s] = "wait" /\ Mine(s)' = Mine(s)
    BY <1>3, EndHistoryStep, DraftFields DEF MoveImport, Mine
  <2>3. AtTask(s)' /\ Found(s)'
    BY <1>3, <2>1, <2>2 DEF MoveImport, AtTask, In, Found
  <2>4. Places(s)'
    BY <1>3, <2>1, <2>2 DEF MoveImport, Places, In
  <2>5. Settled(s)
    BY <1>3, <2>1 DEF MoveImport, Settled
  <2> QED BY <2>3, <2>4, <2>5 DEF Local
<1>4. CASE AppendStep(s)
  <2>1. task' = task /\ staging' = staging /\ files' = files /\ rows' = rows /\ seen' = seen
    BY <1>4 DEF AppendStep, store
  <2>2. /\ at[s] # "idle" /\ at[s] # "stored" /\ at'[s] # "stored" /\ events' = events
        /\ at[s] = "import" <=> at'[s] = "import"
        /\ at'[s] \in {"locked", "read", "drawn", "import"}
    BY <1>4, AcquireStep, ReadLatestStep, DrawStep, AddHistoryStep DEF AppendStep
  <2>3. Mine(s)' = Mine(s)
    BY <1>4, <2>2, CaseStays, EndsStep DEF AppendStep, StepOf, Reads, Mine
  <2>4. at[s] \in {"import", "wait", "locked", "read"}
    BY <1>4, AcquireStep, ReadLatestStep, DrawStep, AddHistoryStep DEF AppendStep
  <2>5. AtTask(s)'
    BY <2>1, <2>2, <2>3, <2>4 DEF AtTask, In
  <2>6. Found(s)'
    BY <2>1, <2>2, <2>3, <2>4 DEF Found, In
  <2>7. Places(s)'
    BY <2>1, <2>2 DEF Places, In
  <2>8. Settled(s)
    BY <2>1 DEF Settled, RowHasFile, FilesKept
  <2> QED BY <2>5, <2>6, <2>7, <2>8 DEF Local
<1> QED BY <1>1, <1>2, <1>3, <1>4

(* The steps of log_event keep what StoreInv says of their session. *)
LEMMA AppendLocal ==
  ASSUME StoreInv, NEW s \in Session, CommitAll(s) \/ Finish(s) \/ AppendFails(s) \/ Crash(s)
  PROVE  Local(s)
<1> USE DEF StoreInv, ChainInv
<1>1. CASE CommitAll(s)
  <2>1. task' = task /\ staging' = staging /\ files' = files /\ seen' = seen
    BY <1>1 DEF CommitAll
  <2>2. at[s] = "drawn" /\ at'[s] = "stored" /\ Mine(s)' = Mine(s)
    BY <1>1, CommitStep DEF CommitAll, Mine
  <2>3. rows' = IF In(s, {"importLog"}) THEN rows \cup {task[s].item} ELSE rows
    BY <1>1 DEF CommitAll
  <2>4. AtTask(s)' /\ Found(s)'
    BY <2>1, <2>2 DEF AtTask, Found, In
  <2>5. Places(s)'
    BY <2>1, <2>2, <2>3 DEF Places, In
  <2>6. Settled(s)
    BY <2>1, <2>3 DEF Settled, RowHasFile, FilesKept, Places, In
  <2> QED BY <2>4, <2>5, <2>6 DEF Local
<1>2. CASE Finish(s)
  <2>1. End(s) /\ at'[s] = "idle" /\ at[s] = "stored"
    BY <1>2, EndsStep DEF Finish, Return, Ends
  <2>2. task[s].item \in Item => task[s].item \in rows
    BY <2>1, TaskTypes DEF AtTask, Places, In
  <2>3. Settled(s)
    BY <1>2, <2>1, <2>2, EndEffect, TaskTypes DEF Finish, Settled, RowHasFile, FilesKept
  <2> QED BY <2>1, <2>3, EndLocal DEF Local
<1>3. CASE AppendFails(s)
  <2>1. End(s) /\ at'[s] = "idle"
    BY <1>3, EndsStep DEF AppendFails, Ends
  <2>2. at[s] = "stored" => "doubt" \in seen'
    BY <1>3 DEF AppendFails, Rollback, Fault
  <2>3. In(s, {"log"}) \/ In(s, {"import", "importLog"})
    BY <1>3, TaskTypes DEF AppendFails, Rollback, RaiseAfterCommit, AtTask, In
  <2>4. rows' = rows /\ seen \subseteq seen'
    BY <1>3 DEF AppendFails, Fault
  <2>5. CASE In(s, {"log"})
    <3>1. files' = files /\ (task[s].item \in Item => task[s].item \in rows)
      BY <1>3, <2>5, TaskTypes DEF AppendFails, Cleanup, In, Places
    <3>2. Settled(s)
      BY <2>1, <2>4, <3>1, EndEffect, TaskTypes DEF Settled, RowHasFile, FilesKept
    <3> QED BY <2>1, <3>2, EndLocal DEF Local
  <2>6. CASE In(s, {"import", "importLog"})
    <3>1. staging' = staging \ {task[s].item} /\ files' = files \ {task[s].item}
      BY <1>3, <2>6 DEF AppendFails, Cleanup
    <3>2. at[s] # "stored" => task[s].item \notin rows
      BY <2>6 DEF Places, In
    <3>3. Settled(s)
      BY <2>1, <2>2, <2>4, <3>1, <3>2, EndEffect, TaskTypes DEF Settled
    <3> QED BY <2>1, <3>3, EndLocal DEF Local
  <2> QED BY <2>3, <2>5, <2>6
<1>4. CASE Crash(s)
  <2>1. End(s) /\ at'[s] = "idle"
    BY <1>4, EndsStep DEF Crash, Ends, trail
  <2>2. "crash" \in seen' /\ seen \subseteq seen' /\ files' = files /\ rows' = rows
    BY <1>4 DEF Crash, Fault
  <2>3. Settled(s)
    BY <2>1, <2>2, EndEffect, TaskTypes DEF Settled, RowHasFile, FilesKept
  <2> QED BY <2>1, <2>3, EndLocal DEF Local
<1> QED BY <1>1, <1>2, <1>3, <1>4

(* Every step keeps what StoreInv says of its session. *)
LEMMA StepLocal == ASSUME StoreInv, NEW s \in Session, StoreStep(s) PROVE Local(s)
BY UploadLocal, ImportLocal, AppendLocal DEF StoreStep

-----------------------------------------------------------------------------
(* The invariant *)

(* Every step keeps StoreTypeOK. *)
LEMMA StoreTypeNext ==
  ASSUME StoreInv, NEW s \in Session, StoreStep(s)
  PROVE  StoreTypeOK'
<1> USE DEF StoreInv
<1>1. ASSUME NEW i \in Item, NEW p \in {"staged", "import"},
             task' = [task EXCEPT ![s] = [pc |-> p, item |-> i]],
             staging' = staging \cup {i}, files' = files, rows' = rows, seen' = seen
      PROVE  StoreTypeOK'
  BY <1>1 DEF StoreTypeOK, TaskState
<1>2. CASE (\E f \in File : Stage(s, f)) \/ \E c \in Case : StageImport(s, c)
  BY <1>1, <1>2 DEF Stage, StageImport, StartImport, Item
<1>3. task[s].item \in Item \cup {NoItem}
  BY TaskTypes
<1>4. ASSUME NEW p \in {"moved", "log", "importLog"}, Go(s, p)
      PROVE  /\ task' \in [Session -> TaskState]
             /\ \A t \in Session : task'[t].pc = "idle" => task'[t].item = NoItem
  BY <1>4, GoEffect DEF Go, StoreTypeOK, TaskState
<1>5. ASSUME End(s)
      PROVE  /\ task' \in [Session -> TaskState]
             /\ \A t \in Session : task'[t].pc = "idle" => task'[t].item = NoItem
  BY <1>5, EndEffect DEF End, StoreTypeOK, TaskState, NoTask
<1>6. In(s, {"staged", "moved", "import", "importLog"}) => task[s].item \in Item
  BY DEF Places, In, Item
<1>7. CASE Move(s) \/ StoreRow(s) \/ MoveImport(s) \/ \E c \in Case : LogUpload(s, c)
  BY <1>4, <1>6, <1>7 DEF Move, StoreRow, MoveImport, LogUpload, StoreTypeOK, In
<1>8. CASE Refuse(s) \/ StoreRowFails(s) \/ RefreshFails(s) \/ Finish(s) \/ AppendFails(s) \/ Crash(s)
  BY <1>5, <1>6, <1>8 DEF Refuse, StoreRowFails, RefreshFails, Finish, AppendFails, Crash, Cleanup, Fault, StoreTypeOK, In
<1>9. CASE AppendStep(s) \/ CommitAll(s)
  BY <1>6, <1>9 DEF AppendStep, CommitAll, store, StoreTypeOK, In
<1> QED BY <1>2, <1>7, <1>8, <1>9 DEF StoreStep

(* The history of faults only grows. *)
LEMMA SeenGrows == ASSUME NEW s \in Session, StoreStep(s) PROVE seen \subseteq seen'
BY DEF StoreStep, Stage, Refuse, Move, StoreRow, StoreRowFails, RefreshFails, LogUpload, StageImport,
       MoveImport, AppendStep, CommitAll, Finish, AppendFails, Crash, Fault, store

(* What is said of another session stays true. *)
LEMMA OthersNext ==
  ASSUME StoreInv, NEW s \in Session, StoreStep(s), NEW t \in Session, t # s
  PROVE  AtTask(t)' /\ Places(t)' /\ Found(t)'
<1> USE DEF StoreInv, ChainInv
<1>1. task'[t] = task[t] /\ at'[t] = at[t] /\ Mine(t)' = Mine(t)
  BY OtherTasksStay
<1>2. AtTask(t)'
  BY <1>1 DEF AtTask, In
<1>3. events \subseteq events'
  BY StoreIsTrail, ReadsEvents, CommitStep DEF StepOf, trail
<1>4. Found(t)'
  BY <1>1, <1>3 DEF Found, In, Of
<1>5. task[t].item # NoItem => task[t].item # task[s].item /\ task[t].item # task'[s].item
  BY OwnItem DEF OneTask, Unused
<1>6. ASSUME task[t].item = NoItem PROVE Places(t)'
  <2>1. ~In(t, {"staged", "moved", "import", "importLog"})
    BY <1>6, TaskTypes DEF Places, In, Item
  <2> QED BY <1>1, <1>6, <2>1 DEF Places, In
<1>7. ASSUME task[t].item # NoItem PROVE Places(t)'
  <2>1. LET i == task[t].item
        IN  (i \in staging' <=> i \in staging) /\ (i \in files' <=> i \in files) /\ (i \in rows' <=> i \in rows)
    BY <1>5, <1>7, OwnItem
  <2> QED BY <1>1, <2>1 DEF Places, In
<1> QED BY <1>2, <1>4, <1>6, <1>7

(* Every step keeps RowHasFile and NoOrphans. *)
LEMMA FilesNext == ASSUME StoreInv, NEW s \in Session, StoreStep(s) PROVE RowHasFile' /\ NoOrphans'
<1> USE DEF StoreInv, ChainInv
<1>0. rows' \subseteq Item /\ staging' \subseteq Item /\ files' \subseteq Item
  BY StoreTypeNext DEF StoreTypeOK
<1>1. RowHasFile'
  <2> SUFFICES ASSUME NEW i \in Item, i \in rows', "doubt" \notin seen' PROVE i \in files'
    BY <1>0 DEF RowHasFile, FilesKept
  <2>1. CASE i = task[s].item \/ i = task'[s].item
    BY <2>1, StepLocal DEF Local, Settled
  <2>2. CASE i # task[s].item /\ i # task'[s].item
    BY <2>2, OwnItem, SeenGrows DEF RowHasFile, FilesKept
  <2> QED BY <2>1, <2>2
<1>2. NoOrphans'
  <2> SUFFICES ASSUME NEW i \in Item, i \in staging' \cup files', "crash" \notin seen',
                      \A t \in Session : task'[t].item # i
               PROVE  i \in rows'
    BY <1>0 DEF NoOrphans
  <2>1. CASE i = task[s].item
    BY <2>1, StepLocal DEF Local, Settled
  <2>2. CASE i # task[s].item
    <3>1. \A t \in Session : task[t].item # i
      BY <2>2, OtherTasksStay
    <3>2. i \in staging \cup files /\ "crash" \notin seen
      BY <2>2, OwnItem, SeenGrows
    <3>3. i \in rows
      BY <3>1, <3>2 DEF NoOrphans
    <3> QED BY <2>2, <3>3, OwnItem
  <2> QED BY <2>1, <2>2
<1> QED BY <1>1, <1>2

(* Every step keeps ImportComplete. *)
LEMMA ImportNext == ASSUME StoreInv, NEW s \in Session, StoreStep(s) PROVE ImportComplete'
<1> USE DEF StoreInv, ChainInv
<1>1. CASE CommitAll(s)
  <2>1. events' = events \cup own[s] \cup {draft[s]} /\ at[s] = "drawn" /\ draft[s].case = Mine(s)
    BY <1>1, CommitStep DEF CommitAll, Mine
  <2>2. \A e \in own[s] : e.case = Mine(s)
    BY DEF Private, Importing
  <2>3. \A c : Of(c, events') # {} <=> Of(c, events) # {} \/ c = Mine(s)
    BY <2>1, <2>2 DEF Of
  <2>4. CASE In(s, {"importLog"})
    <3>1. rows' = rows \cup {Mine(s)}
      BY <1>1, <2>4 DEF CommitAll, AtTask, In
    <3> QED BY <2>3, <3>1 DEF ImportComplete
  <2>5. CASE ~In(s, {"importLog"})
    <3>1. rows' = rows /\ (Mine(s) \in NewCase => Of(Mine(s), events) # {})
      BY <1>1, <2>1, <2>5 DEF CommitAll, Found
    <3> QED BY <2>3, <3>1 DEF ImportComplete
  <2> QED BY <2>4, <2>5
<1>2. CASE ~CommitAll(s)
  <2>1. events' = events
    BY <1>2, LogEventStep, StartImportStep, AcquireStep, ReadLatestStep, DrawStep, EndHistoryStep,
       AddHistoryStep, EndsStep
       DEF StoreStep, Stage, Refuse, Move, StoreRow, StoreRowFails, RefreshFails, LogUpload,
           StageImport, MoveImport, AppendStep, Finish, AppendFails, Crash, trail, Ends
  <2>2. rows' = rows \/ \E f \in File : rows' = rows \cup {f}
    BY <1>2 DEF StoreStep, Stage, Refuse, Move, StoreRow, StoreRowFails, RefreshFails, LogUpload,
           StageImport, MoveImport, AppendStep, Finish, AppendFails, Crash, store, Places, In
  <2> QED BY <2>1, <2>2, TaskTypes DEF ImportComplete
<1> QED BY <1>1, <1>2

(* The empty store satisfies the invariant. *)
LEMMA StoreInvInit == StoreInit => StoreInv
<1> SUFFICES ASSUME StoreInit PROVE StoreInv
  OBVIOUS
<1>1. ChainInv
  BY ChainInit DEF StoreInit
<1>2. \A s \in Session : task[s] = NoTask /\ at[s] = "idle"
  BY DEF StoreInit, Init
<1>3. StoreTypeOK
  BY <1>2 DEF StoreInit, StoreTypeOK, TaskState, NoTask
<1> QED BY <1>1, <1>2, <1>3 DEF StoreInit, Init, StoreInv, OneTask, AtTask, Places, Found, NoTask, In,
           RowHasFile, FilesKept, NoOrphans, ImportComplete, Of

(* The invariant is inductive. *)
LEMMA StoreInvNext == StoreInv /\ [StoreNext]_storeVars => StoreInv'
<1> SUFFICES ASSUME StoreInv, [StoreNext]_storeVars PROVE StoreInv'
  OBVIOUS
<1>1. ChainInv'
  <2>1. [Next]_trail
    BY StoreIsTrail, StepIsNext DEF StoreNext, StoreStep, storeVars
  <2> QED BY <2>1, ChainNext DEF StoreInv
<1>2. CASE UNCHANGED storeVars
  BY <1>1, <1>2 DEF storeVars, store, trail, StoreInv, StoreTypeOK, OneTask, AtTask, Places, Found, In, Mine,
                    RowHasFile, FilesKept, NoOrphans, ImportComplete, Of
<1>3. ASSUME NEW s \in Session, StoreStep(s) PROVE StoreInv'
  <2>1. \A t \in Session : AtTask(t)' /\ Places(t)' /\ Found(t)'
    BY <1>3, StepLocal, OthersNext DEF Local
  <2> QED BY <1>1, <1>3, <2>1, StoreTypeNext, OneTaskNext, FilesNext, ImportNext DEF StoreInv, ChainInv
<1> QED BY <1>2, <1>3 DEF StoreNext, StoreStep

(* Files, rows, audit events and what every session is doing are           *)
(* consistent at every moment: the invariant behind the theorems below.    *)
THEOREM StoreInvariant == StoreSpec => []StoreInv
BY StoreInvInit, StoreInvNext, PTL DEF StoreSpec

(* Staged and stored files, rows and the tasks of the sessions are well    *)
(* formed.                                                                 *)
THEOREM StoreTypeCorrect == StoreSpec => []StoreTypeOK
BY StoreInvariant, PTL DEF StoreInv

(* Neither an error, nor a crash, nor another session removes the file of  *)
(* a committed row, for any number of sessions, files and cases.           *)
THEOREM FilesInPlace == StoreSpec => []RowHasFile
BY StoreInvariant, PTL DEF StoreInv

(* Sessions that end leave nothing behind, as long as no process dies. *)
THEOREM NothingLeftBehind == StoreSpec => []NoOrphans
BY StoreInvariant, PTL DEF StoreInv

(* The rows and the audit chain of an imported case appear together. *)
THEOREM ImportsAtomic == StoreSpec => []ImportComplete
BY StoreInvariant, PTL DEF StoreInv
=============================================================================
