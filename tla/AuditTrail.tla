----------------------------- MODULE AuditTrail -----------------------------
(***************************************************************************)
(* The per-case, hash-chained audit log on PostgreSQL: AuditService.       *)
(* log_event, called by every handler at the end of its own transaction,   *)
(* and the import of a bundle, which writes the history of a new case      *)
(* without the lock and then calls log_event as well.                      *)
(*                                                                         *)
(* An event is known by its id, which is drawn from the sequence next to   *)
(* the timestamp; its hash covers the id and is taken to differ whenever   *)
(* the ids do, so prev holds the id of the event that previous_hash names. *)
(***************************************************************************)
EXTENDS Naturals

CONSTANTS
  Session,   \* database sessions: request threads, workers, import scripts
  Case,      \* case identifiers
  NewCase,   \* those that only an import creates
  NoCase,    \* the case of a session that is idle
  MaxIds     \* bound: ids ever drawn from the sequence of audit_events

ASSUME CaseAssumption == NewCase \subseteq Case /\ NoCase \notin Case
ASSUME MaxIdsAssumption == MaxIds \in Nat

VARIABLES
  events,   \* the committed AuditEvent rows
  at,       \* where the append of each session is
  draft,    \* the row that each session is making
  own,      \* the rows that each session has inserted but not committed
  nextId    \* the sequence of audit_events.id, never rolled back

trail == <<events, at, draft, own, nextId>>

Genesis == 0
Event == [case : Case, seq : Nat \ {0}, prev : Nat, id : Nat \ {0}]
Draft(c, n, p, i) == [case |-> c, seq |-> n, prev |-> p, id |-> i]
NoDraft == Draft(NoCase, 0, Genesis, 0)

TypeOK == /\ events \subseteq Event
          /\ at \in [Session -> {"idle", "import", "wait", "locked", "read", "drawn", "stored"}]
          /\ draft \in [Session -> [case : Case \cup {NoCase}, seq : Nat, prev : Nat, id : Nat]]
          /\ own \in [Session -> SUBSET Event]
          /\ \A s \in Session :
               /\ IF at[s] = "idle" THEN draft[s] = NoDraft /\ own[s] = {}
                                    ELSE draft[s].case \in Case
               /\ at[s] \in {"import", "read"} => draft[s].seq # 0
               /\ at[s] = "drawn" => draft[s] \in Event
          /\ nextId \in Nat \ {0}

Init == /\ events = {}
        /\ at = [s \in Session |-> "idle"]
        /\ draft = [s \in Session |-> NoDraft]
        /\ own = [s \in Session |-> {}]
        /\ nextId = 1

Of(c, E) == {e \in E : e.case = c}
Last(e, E) == e \in E /\ \A d \in E : d.seq <= e.seq

Mine(s) == draft[s].case
Visible(s) == Of(Mine(s), events \cup own[s])     \* what a query of s returns
Goto(s, label) == at' = [at EXCEPT ![s] = label]

-----------------------------------------------------------------------------
(* log_event *)

(* A handler calls log_event for a case that it has found in the database. *)
LogEvent(s, c) ==
  /\ at[s] = "idle"
  /\ c \in NewCase => Of(c, events) # {}
  /\ Goto(s, "wait")
  /\ draft' = [draft EXCEPT ![s] = Draft(c, 0, Genesis, 0)]
  /\ UNCHANGED <<events, own, nextId>>

Holds(s) == at[s] \in {"locked", "read", "drawn"}

(* Mutant: the lock is taken per session. *)
AcquireOwn(s) ==
  /\ at[s] = "wait"
  /\ Goto(s, "locked")
  /\ UNCHANGED <<events, draft, own, nextId>>

(* pg_advisory_xact_lock on the case, held until the end of the transaction. *)
Acquire(s) ==
  /\ at[s] = "wait"
  /\ \A t \in Session : Mine(t) = Mine(s) => ~Holds(t)
  /\ Goto(s, "locked")
  /\ UNCHANGED <<events, draft, own, nextId>>

(* Mutant: the latest event is looked up without the filter on the case. *)
ReadLatestAnyCase(s) ==
  /\ at[s] = "locked"
  /\ \/ events = {} /\ draft' = [draft EXCEPT ![s] = Draft(Mine(s), 1, Genesis, 0)]
     \/ \E e \in events :
          /\ Last(e, events)
          /\ draft' = [draft EXCEPT ![s] = Draft(Mine(s), e.seq + 1, e.id, 0)]
  /\ Goto(s, "read")
  /\ UNCHANGED <<events, own, nextId>>

(* The latest event of the case gives the number and the link. *)
ReadLatest(s) ==
  /\ at[s] = "locked"
  /\ \/ Visible(s) = {} /\ draft' = [draft EXCEPT ![s] = Draft(Mine(s), 1, Genesis, 0)]
     \/ \E e \in Visible(s) :
          /\ Last(e, Visible(s))
          /\ draft' = [draft EXCEPT ![s] = Draft(Mine(s), e.seq + 1, e.id, 0)]
  /\ Goto(s, "read")
  /\ UNCHANGED <<events, own, nextId>>

(* Mutant: ids come from the clocks of several hosts. *)
DrawUnordered(s) ==
  /\ at[s] = "read"
  /\ \E i \in 1..MaxIds :
       /\ \A e \in events : e.id # i
       /\ \A t \in Session : draft[t].id # i /\ \A e \in own[t] : e.id # i
       /\ draft' = [draft EXCEPT ![s].id = i]
  /\ Goto(s, "drawn")
  /\ UNCHANGED <<events, own, nextId>>

(* nextval and the timestamp. *)
Draw(s) ==
  /\ at[s] = "read"
  /\ nextId <= MaxIds
  /\ draft' = [draft EXCEPT ![s].id = nextId]
  /\ nextId' = nextId + 1
  /\ Goto(s, "drawn")
  /\ UNCHANGED <<events, own>>

(* uq_audit_case_sequence; the id is the primary key. *)
Collide(d, e) == d.id = e.id \/ (d.case = e.case /\ d.seq = e.seq)
Rejected(s) == \E d \in own[s] \cup {draft[s]}, e \in events : Collide(d, e)

(* The event is committed with whatever else the transaction holds. *)
Commit(s) ==
  /\ at[s] = "drawn"
  /\ ~Rejected(s)
  /\ events' = events \cup own[s] \cup {draft[s]}
  /\ own' = [own EXCEPT ![s] = {}]
  /\ Goto(s, "stored")
  /\ UNCHANGED <<draft, nextId>>

Release(s) ==
  /\ Goto(s, "idle")
  /\ draft' = [draft EXCEPT ![s] = NoDraft]
  /\ own' = [own EXCEPT ![s] = {}]
  /\ UNCHANGED <<events, nextId>>

(* The row is read back and log_event returns. *)
Return(s) == at[s] = "stored" /\ Release(s)

(* An exception before the commit: the transaction is rolled back. *)
Rollback(s) == at[s] \in {"import", "wait", "locked", "read", "drawn"} /\ Release(s)

(* The answer to the commit is lost or the row cannot be read back:        *)
(* log_event raises although the event is stored.                          *)
RaiseAfterCommit(s) == at[s] = "stored" /\ Release(s)

-----------------------------------------------------------------------------
(* import_bundle: the source events become the history of a new case *)

StartImport(s, c) ==
  /\ at[s] = "idle"
  /\ c \in NewCase
  /\ Of(c, events) = {}
  /\ \A t \in Session : Mine(t) # c
  /\ Goto(s, "import")
  /\ draft' = [draft EXCEPT ![s] = Draft(c, 1, Genesis, 0)]
  /\ UNCHANGED <<events, own, nextId>>

(* One source event is inserted and the next is drafted: the loop carries  *)
(* the number and the hash along.                                          *)
AddHistory(s) ==
  /\ at[s] = "import"
  /\ nextId <= MaxIds
  /\ own' = [own EXCEPT ![s] = @ \cup {Draft(Mine(s), draft[s].seq, draft[s].prev, nextId)}]
  /\ draft' = [draft EXCEPT ![s] = Draft(Mine(s), draft[s].seq + 1, nextId, 0)]
  /\ nextId' = nextId + 1
  /\ UNCHANGED <<events, at>>

(* All history is flushed and log_event is called. *)
EndHistory(s) ==
  /\ at[s] = "import"
  /\ Goto(s, "wait")
  /\ draft' = [draft EXCEPT ![s] = Draft(Mine(s), 0, Genesis, 0)]
  /\ UNCHANGED <<events, own, nextId>>

-----------------------------------------------------------------------------
Next == \E s \in Session :
  \/ \E c \in Case : LogEvent(s, c) \/ StartImport(s, c)
  \/ Acquire(s) \/ ReadLatest(s) \/ Draw(s) \/ Commit(s) \/ Return(s)
  \/ AddHistory(s) \/ EndHistory(s)
  \/ Rollback(s) \/ RaiseAfterCommit(s)

Spec == Init /\ [][Next]_trail

-----------------------------------------------------------------------------
(* audit_integrity.py verify-chain succeeds at every moment, and so does   *)
(* the check of the source chain by an import: the numbers of a case are   *)
(* unique and consecutive from 1, and every event links to the one before, *)
(* in whatever order sessions append, fail and import.                     *)
ChainVerifies ==
  /\ \A d, e \in events : Collide(d, e) => d = e
  /\ \A e \in events :
       \/ e.seq = 1 /\ e.prev = Genesis
       \/ \E d \in events : d.case = e.case /\ d.seq + 1 = e.seq /\ d.id = e.prev

(* No append fails because another session has taken its number: the       *)
(* advisory lock, and not the unique constraint, orders the appends.       *)
NeverRejected == \A s \in Session : at[s] = "drawn" => ~Rejected(s)

(* Along a chain the ids grow: an export, which sorts the events by id,    *)
(* lists a case in the order of its chain.                                 *)
IdsFollowChain ==
  \A d, e \in events : d.case = e.case /\ d.seq < e.seq => d.id < e.id
=============================================================================
