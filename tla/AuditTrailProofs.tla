-------------------------- MODULE AuditTrailProofs --------------------------
(***************************************************************************)
(* The audit chain of every case is whole at every moment, for any number  *)
(* of sessions, cases and events.                                          *)
(*                                                                         *)
(* The argument is about all rows inserted, committed or not (Written).    *)
(* The holder of the lock of a case is the only session that adds a row to *)
(* it, so the number and the link that it has read go on following the     *)
(* last row; an import owns its case alone and may do without the lock.    *)
(***************************************************************************)
EXTENDS AuditTrail, TLAPS

Written == events \cup UNION {own[s] : s \in Session}

(* The advisory lock of a case has one holder. *)
OneHolder == \A s, t \in Session : Holds(s) /\ Holds(t) /\ Mine(s) = Mine(t) => s = t

(* What is not committed belongs to an import, whose case nobody else has. *)
Importing(s) == at[s] = "import" \/ own[s] # {}
Private == \A s \in Session : Importing(s) =>
  /\ Mine(s) \in NewCase
  /\ Of(Mine(s), events) = {}
  /\ \A t \in Session : Mine(t) = Mine(s) => t = s
  /\ \A e \in own[s] : e.case = Mine(s)

(* No id is used twice. *)
IdsDrawn ==
  /\ \A e \in Written : e.id < nextId
  /\ \A d, e \in Written : d.id = e.id => d = e
  /\ \A s \in Session : at[s] = "drawn" =>
       /\ draft[s].id < nextId
       /\ \A e \in Written : e.id # draft[s].id
       /\ \A t \in Session : at[t] = "drawn" /\ draft[t].id = draft[s].id => t = s

(* The rows of a case form a chain. *)
Precedes(d, e) == d.case = e.case /\ d.seq + 1 = e.seq /\ d.id = e.prev
Numbered == \A d, e \in Written : d.case = e.case /\ d.seq = e.seq => d = e
Linked == \A e \in Written :
  \/ e.seq = 1 /\ e.prev = Genesis
  \/ \E d \in Written : Precedes(d, e)
Ordered == \A d, e \in Written : d.case = e.case /\ d.seq < e.seq => d.id < e.id

(* n and p are the number and the link of the next event of c. *)
Follows(c, n, p) ==
  \/ Of(c, Written) = {} /\ n = 1 /\ p = Genesis
  \/ \E e \in Of(c, Written) : Last(e, Of(c, Written)) /\ n = e.seq + 1 /\ p = e.id

(* What a session has read still holds. *)
ReadStands == \A s \in Session :
  /\ at[s] \in {"read", "drawn", "import"} => Follows(Mine(s), draft[s].seq, draft[s].prev)
  /\ at[s] = "drawn" => \A e \in Of(Mine(s), Written) : e.id < draft[s].id

ChainInv == TypeOK /\ OneHolder /\ Private /\ IdsDrawn /\ Numbered /\ Linked /\ Ordered /\ ReadStands

-----------------------------------------------------------------------------
(* What the steps of a session do *)

Ends(s) == Return(s) \/ Rollback(s) \/ RaiseAfterCommit(s)
HistoryRow(s) == Draft(Mine(s), draft[s].seq, draft[s].prev, nextId)

(* The steps that insert nothing. *)
Reads(s) == \/ \E c \in Case : LogEvent(s, c) \/ StartImport(s, c)
            \/ Acquire(s) \/ ReadLatest(s) \/ Draw(s) \/ EndHistory(s)
StepOf(s) == Reads(s) \/ Commit(s) \/ AddHistory(s) \/ Ends(s)

(* Every step is that of one session. *)
LEMMA NextIsStep == Next => \E s \in Session : StepOf(s)
BY DEF Next, StepOf, Reads, Ends

(* The fields of a row are what Draft puts there. *)
LEMMA DraftFields ==
  ASSUME NEW c, NEW n, NEW p, NEW i
  PROVE  /\ Draft(c, n, p, i).case = c /\ Draft(c, n, p, i).seq = n
         /\ Draft(c, n, p, i).prev = p /\ Draft(c, n, p, i).id = i
BY DEF Draft

(* When a drafted row is an event. *)
LEMMA DraftType ==
  ASSUME NEW c \in Case \cup {NoCase}, NEW n \in Nat, NEW p \in Nat, NEW i \in Nat
  PROVE  /\ Draft(c, n, p, i) \in [case : Case \cup {NoCase}, seq : Nat, prev : Nat, id : Nat]
         /\ c \in Case /\ n # 0 /\ i # 0 => Draft(c, n, p, i) \in Event
BY DEF Draft, Event

(* What TypeOK says of one session. *)
LEMMA Types ==
  ASSUME TypeOK, NEW s \in Session
  PROVE  /\ draft[s].case \in Case \cup {NoCase}
         /\ draft[s].seq \in Nat /\ draft[s].prev \in Nat /\ draft[s].id \in Nat
         /\ own[s] \subseteq Event /\ events \subseteq Event /\ nextId \in Nat \ {0}
         /\ at[s] # "idle" => draft[s].case \in Case
         /\ at[s] = "idle" => draft[s] = NoDraft /\ draft[s].case = NoCase /\ own[s] = {}
BY DEF TypeOK, NoDraft, Draft

(* The others keep their state. *)
LEMMA OthersStay ==
  ASSUME TypeOK, NEW s \in Session, StepOf(s), NEW t \in Session, t # s
  PROVE  at'[t] = at[t] /\ draft'[t] = draft[t] /\ own'[t] = own[t]
BY DEF TypeOK, StepOf, Reads, Ends, LogEvent, StartImport, Acquire, ReadLatest, Draw, Commit,
       AddHistory, EndHistory, Return, Rollback, RaiseAfterCommit, Release, Goto

(* Effect of LogEvent on its session. *)
LEMMA LogEventStep ==
  ASSUME TypeOK, NEW s \in Session, NEW c \in Case, LogEvent(s, c)
  PROVE  /\ at[s] = "idle" /\ at'[s] = "wait" /\ own'[s] = {}
         /\ draft'[s] = Draft(c, 0, Genesis, 0)
         /\ events' = events /\ own' = own /\ nextId' = nextId
BY DEF TypeOK, LogEvent, Goto

(* Effect of StartImport on its session. *)
LEMMA StartImportStep ==
  ASSUME TypeOK, NEW s \in Session, NEW c \in Case, StartImport(s, c)
  PROVE  /\ at[s] = "idle" /\ at'[s] = "import" /\ own'[s] = {}
         /\ draft'[s] = Draft(c, 1, Genesis, 0)
         /\ events' = events /\ own' = own /\ nextId' = nextId
BY DEF TypeOK, StartImport, Goto

(* Effect of Acquire on its session. *)
LEMMA AcquireStep ==
  ASSUME TypeOK, NEW s \in Session, Acquire(s)
  PROVE  /\ at[s] = "wait" /\ at'[s] = "locked" /\ draft' = draft
         /\ events' = events /\ own' = own /\ nextId' = nextId
BY DEF TypeOK, Acquire, Goto

(* Effect of ReadLatest on its session. *)
LEMMA ReadLatestStep ==
  ASSUME TypeOK, NEW s \in Session, ReadLatest(s)
  PROVE  /\ at[s] = "locked" /\ at'[s] = "read"
         /\ \/ Visible(s) = {} /\ draft'[s] = Draft(Mine(s), 1, Genesis, 0)
            \/ \E e \in Visible(s) : Last(e, Visible(s)) /\ draft'[s] = Draft(Mine(s), e.seq + 1, e.id, 0)
         /\ events' = events /\ own' = own /\ nextId' = nextId
BY DEF TypeOK, ReadLatest, Goto

(* Effect of Draw on its session. *)
LEMMA DrawStep ==
  ASSUME TypeOK, NEW s \in Session, Draw(s)
  PROVE  /\ at[s] = "read" /\ at'[s] = "drawn"
         /\ draft'[s] = [draft[s] EXCEPT !.id = nextId]
         /\ draft'[s].case = Mine(s) /\ draft'[s].seq = draft[s].seq
         /\ draft'[s].prev = draft[s].prev /\ draft'[s].id = nextId
         /\ events' = events /\ own' = own /\ nextId' = nextId + 1
BY DEF TypeOK, Draw, Goto, Mine

(* Effect of EndHistory on its session. *)
LEMMA EndHistoryStep ==
  ASSUME TypeOK, NEW s \in Session, EndHistory(s)
  PROVE  /\ at[s] = "import" /\ at'[s] = "wait"
         /\ draft'[s] = Draft(Mine(s), 0, Genesis, 0)
         /\ events' = events /\ own' = own /\ nextId' = nextId
BY DEF TypeOK, EndHistory, Goto

(* Effect of AddHistory on its session. *)
LEMMA AddHistoryStep ==
  ASSUME TypeOK, NEW s \in Session, AddHistory(s)
  PROVE  /\ at[s] = "import" /\ at' = at /\ at'[s] = "import"
         /\ draft'[s] = Draft(Mine(s), draft[s].seq + 1, nextId, 0)
         /\ own'[s] = own[s] \cup {HistoryRow(s)}
         /\ events' = events /\ nextId' = nextId + 1
BY DEF TypeOK, AddHistory, HistoryRow

(* Effect of Commit on its session and the table. *)
LEMMA CommitStep ==
  ASSUME TypeOK, NEW s \in Session, Commit(s)
  PROVE  /\ at[s] = "drawn" /\ at'[s] = "stored" /\ draft' = draft
         /\ own'[s] = {} /\ events' = events \cup own[s] \cup {draft[s]} /\ nextId' = nextId
BY DEF TypeOK, Commit, Goto

(* Effect of a return or a rollback on its session. *)
LEMMA EndsStep ==
  ASSUME TypeOK, NEW s \in Session, Ends(s)
  PROVE  /\ at'[s] = "idle" /\ draft'[s] = NoDraft /\ own'[s] = {}
         /\ events' = events /\ nextId' = nextId
BY DEF TypeOK, Ends, Return, Rollback, RaiseAfterCommit, Release, Goto

-----------------------------------------------------------------------------
(* Type correctness *)

(* Every step keeps TypeOK. *)
LEMMA TypeNext == TypeOK /\ [Next]_trail => TypeOK'
<1> SUFFICES ASSUME TypeOK, [Next]_trail PROVE TypeOK'
  OBVIOUS
<1> DEFINE Rows == [case : Case \cup {NoCase}, seq : Nat, prev : Nat, id : Nat]
           Places == {"idle", "import", "wait", "locked", "read", "drawn", "stored"}
<1>1. CASE UNCHANGED trail
  BY <1>1 DEF trail, TypeOK
<1>2. ASSUME NEW s \in Session, StepOf(s),
             at' \in [Session -> Places], draft' \in [Session -> Rows],
             own' \in [Session -> SUBSET Event], events' \subseteq Event, nextId' \in Nat \ {0},
             IF at'[s] = "idle" THEN draft'[s] = NoDraft /\ own'[s] = {}
             ELSE draft'[s].case \in Case,
             at'[s] \in {"import", "read"} => draft'[s].seq # 0,
             at'[s] = "drawn" => draft'[s] \in Event
      PROVE  TypeOK'
  BY <1>2, OthersStay DEF TypeOK
<1>3. ASSUME NEW s \in Session, NEW c \in Case, LogEvent(s, c) \/ StartImport(s, c) PROVE TypeOK'
  <2>1. Draft(c, 0, Genesis, 0) \in Rows /\ Draft(c, 1, Genesis, 0) \in Rows
    BY DraftType DEF Genesis
  <2>2. draft' \in [Session -> Rows] /\ at' \in [Session -> Places] /\ own' = own
        /\ events' = events /\ nextId' = nextId
    BY <1>3, <2>1 DEF LogEvent, StartImport, Goto, TypeOK
  <2>3. draft'[s].case = c /\ at'[s] \in {"wait", "import"} /\ (at'[s] = "import" => draft'[s].seq = 1)
    BY <1>3, LogEventStep, StartImportStep, DraftFields
  <2>4. StepOf(s)
    BY <1>3 DEF StepOf, Reads
  <2> QED BY <1>2, <2>2, <2>3, <2>4 DEF TypeOK
<1>4. ASSUME NEW s \in Session, Acquire(s) PROVE TypeOK'
  BY <1>4 DEF Acquire, Goto, TypeOK
<1>5. ASSUME NEW s \in Session, NEW n \in Nat, NEW p \in Nat,
             at[s] # "idle", StepOf(s),
             draft' = [draft EXCEPT ![s] = Draft(Mine(s), n, p, 0)],
             at'[s] \in {"import", "read", "wait"}, at'[s] = "wait" \/ n # 0,
             at' \in [Session -> Places],
             own' \in [Session -> SUBSET Event], events' = events, nextId' \in Nat \ {0}
      PROVE  TypeOK'
  <2>1. Draft(Mine(s), n, p, 0) \in Rows
    BY Types, DraftType DEF Mine
  <2>2. draft' \in [Session -> Rows] /\ draft'[s] = Draft(Mine(s), n, p, 0)
    BY <1>5, <2>1 DEF TypeOK
  <2>3. draft'[s].case \in Case /\ draft'[s].seq = n
    BY <1>5, <2>2, Types, DraftFields DEF Mine
  <2> QED BY <1>2, <1>5, <2>2, <2>3 DEF TypeOK
<1>6. ASSUME NEW s \in Session, ReadLatest(s) PROVE TypeOK'
  <2>1. Visible(s) \subseteq Event
    BY Types DEF Visible, Of
  <2>2. PICK n \in Nat \ {0}, p \in Nat : draft' = [draft EXCEPT ![s] = Draft(Mine(s), n, p, 0)]
    BY <1>6, <2>1 DEF ReadLatest, Event, Genesis
  <2>3. StepOf(s)
    BY <1>6 DEF StepOf, Reads
  <2> QED BY <1>5, <1>6, <2>2, <2>3 DEF ReadLatest, Goto, TypeOK
<1>7. ASSUME NEW s \in Session, EndHistory(s) PROVE TypeOK'
  <2>1. StepOf(s)
    BY <1>7 DEF StepOf, Reads
  <2> QED BY <1>5, <1>7, <2>1 DEF EndHistory, Goto, TypeOK, Genesis
<1>8. ASSUME NEW s \in Session, Draw(s) PROVE TypeOK'
  <2>1. StepOf(s)
    BY <1>8 DEF StepOf, Reads
  <2>2. draft' \in [Session -> Rows]
    BY <1>8 DEF Draw, TypeOK
  <2>3. draft'[s] \in Event /\ draft'[s].case \in Case
    BY <1>8, <2>2, Types, DrawStep DEF Event, Mine, TypeOK
  <2> QED BY <1>2, <1>8, <2>1, <2>2, <2>3 DEF Draw, Goto, TypeOK
<1>9. ASSUME NEW s \in Session, AddHistory(s) PROVE TypeOK'
  <2>1. HistoryRow(s) \in Event
    BY <1>9, Types, DraftType DEF HistoryRow, AddHistory, Mine, TypeOK
  <2>2. own' \in [Session -> SUBSET Event]
    BY <1>9, <2>1 DEF AddHistory, HistoryRow, TypeOK
  <2>3. draft' = [draft EXCEPT ![s] = Draft(Mine(s), draft[s].seq + 1, nextId, 0)]
    BY <1>9 DEF AddHistory
  <2>4. draft[s].seq + 1 \in Nat /\ nextId \in Nat /\ draft[s].seq + 1 # 0 /\ nextId' \in Nat \ {0}
    BY <1>9, Types DEF AddHistory
  <2>5. at[s] = "import" /\ at' = at /\ events' = events /\ StepOf(s)
    BY <1>9 DEF AddHistory, StepOf
  <2> QED BY <1>5, <2>2, <2>3, <2>4, <2>5 DEF TypeOK
<1>10. ASSUME NEW s \in Session, Commit(s) PROVE TypeOK'
  <2>1. draft[s] \in Event /\ StepOf(s)
    BY <1>10 DEF Commit, TypeOK, StepOf
  <2> QED BY <1>2, <1>10, <2>1, Types DEF Commit, Goto, TypeOK
<1>11. ASSUME NEW s \in Session, Ends(s) PROVE TypeOK'
  <2>1. NoDraft \in Rows
    BY DraftType DEF NoDraft, Genesis
  <2>2. Release(s) /\ StepOf(s)
    BY <1>11 DEF StepOf, Ends, Return, Rollback, RaiseAfterCommit
  <2>3. at' \in [Session -> Places] /\ draft' \in [Session -> Rows] /\ own' \in [Session -> SUBSET Event]
    BY <2>1, <2>2 DEF Release, Goto, TypeOK
  <2>4. events' \subseteq Event /\ nextId' \in Nat \ {0}
    BY <1>11, EndsStep DEF TypeOK
  <2>5. at'[s] = "idle" /\ draft'[s] = NoDraft /\ own'[s] = {}
    BY <1>11, EndsStep
  <2> HIDE DEF Rows, Places
  <2> QED BY <1>2, <2>2, <2>3, <2>4, <2>5
<1> QED
  BY <1>1, <1>3, <1>4, <1>6, <1>7, <1>8, <1>9, <1>10, <1>11, NextIsStep DEF StepOf, Reads

(* The state of the audit trail is well formed, for any number of sessions *)
(* and cases.                                                              *)
THEOREM TrailTypeCorrect == Spec => []TypeOK
<1>1. Init => TypeOK
  <2>1. NoDraft \in [case : Case \cup {NoCase}, seq : Nat, prev : Nat, id : Nat]
    BY DraftType DEF NoDraft, Genesis
  <2> QED BY <2>1 DEF Init, TypeOK
<1> QED BY <1>1, TypeNext, PTL DEF Spec

-----------------------------------------------------------------------------
(* Locks and imports *)

(* A step changes the case of its session only if the session was idle or  *)
(* becomes so.                                                             *)
LEMMA CaseStays ==
  ASSUME TypeOK, NEW s \in Session, StepOf(s)
  PROVE  \/ at[s] = "idle" /\ Reads(s)
         \/ Ends(s)
         \/ draft'[s].case = draft[s].case /\ at[s] # "idle"
<1>1. ASSUME NEW c \in Case, LogEvent(s, c) \/ StartImport(s, c) PROVE at[s] = "idle" /\ Reads(s)
  BY <1>1 DEF LogEvent, StartImport, Reads
<1>2. CASE Acquire(s) \/ Commit(s)
  BY <1>2, AcquireStep, CommitStep
<1>3. CASE ReadLatest(s)
  <2>1. \E n, p : draft'[s] = Draft(Mine(s), n, p, 0)
    BY <1>3, ReadLatestStep
  <2> QED BY <1>3, <2>1, ReadLatestStep, DraftFields DEF Mine
<1>4. CASE Draw(s)
  BY <1>4, DrawStep DEF Mine
<1>5. CASE EndHistory(s)
  BY <1>5, EndHistoryStep, DraftFields DEF Mine
<1>6. CASE AddHistory(s)
  BY <1>6, AddHistoryStep, DraftFields DEF Mine
<1> QED BY <1>1, <1>2, <1>3, <1>4, <1>5, <1>6 DEF StepOf, Reads

(* The advisory lock keeps one holder per case. *)
LEMMA HolderNext == TypeOK /\ OneHolder /\ [Next]_trail => OneHolder'
<1> SUFFICES ASSUME TypeOK, OneHolder, [Next]_trail PROVE OneHolder'
  OBVIOUS
<1>1. CASE UNCHANGED trail
  BY <1>1 DEF trail, OneHolder, Holds, Mine
<1>2. ASSUME NEW s \in Session, StepOf(s) PROVE OneHolder'
  <2>1. \A t \in Session : t # s => Holds(t)' = Holds(t) /\ Mine(t)' = Mine(t)
    BY <1>2, OthersStay DEF Holds, Mine
  <2>2. CASE Acquire(s)
    <3>1. \A t \in Session : Mine(t) = Mine(s) => ~Holds(t)
      BY <2>2 DEF Acquire
    <3>2. Mine(s)' = Mine(s)
      BY <2>2, AcquireStep DEF Mine
    <3> QED BY <2>1, <3>1, <3>2 DEF OneHolder
  <2>3. CASE ReadLatest(s) \/ Draw(s)
    <3>1. Holds(s) /\ at[s] # "idle" /\ ~Ends(s)
      BY <2>3, ReadLatestStep, DrawStep, EndsStep DEF Holds
    <3>2. Mine(s)' = Mine(s)
      BY <1>2, <3>1, CaseStays DEF Mine
    <3> QED BY <2>1, <3>1, <3>2 DEF OneHolder
  <2>4. CASE ~Acquire(s) /\ ~ReadLatest(s) /\ ~Draw(s)
    <3>1. ~Holds(s)'
      BY <1>2, <2>4, LogEventStep, StartImportStep, EndHistoryStep, AddHistoryStep, CommitStep, EndsStep
         DEF StepOf, Reads, Holds
    <3> QED BY <2>1, <3>1 DEF OneHolder
  <2> QED BY <2>2, <2>3, <2>4
<1> QED BY <1>1, <1>2, NextIsStep

(* The rows that s has not committed are all the rows of its case. *)
LEMMA Unshared ==
  ASSUME TypeOK, Private, NEW s \in Session, Importing(s), NEW e \in Written
  PROVE  e.case = Mine(s) <=> e \in own[s]
<1>1. e \in events => e.case # Mine(s)
  BY DEF Private, Of
<1>2. ASSUME NEW t \in Session, e \in own[t] PROVE e.case = Mine(s) <=> t = s
  BY <1>2 DEF Private, Importing
<1> QED BY <1>1, <1>2 DEF Written

(* What a lock holder sees of its case is all that has been inserted for   *)
(* it.                                                                     *)
LEMMA VisibleIsWritten ==
  ASSUME TypeOK, Private, NEW s \in Session, at[s] # "idle"
  PROVE  Visible(s) = Of(Mine(s), Written)
<1>1. ASSUME NEW t \in Session, NEW e \in own[t], e.case = Mine(s) PROVE t = s
  BY <1>1 DEF Private, Importing
<1> QED BY <1>1 DEF Visible, Of, Written

(* Uncommitted rows stay those of a case that only their session writes. *)
LEMMA PrivateNext == TypeOK /\ Private /\ [Next]_trail => Private'
<1> SUFFICES ASSUME TypeOK, Private, [Next]_trail PROVE Private'
  OBVIOUS
<1>1. CASE UNCHANGED trail
  BY <1>1 DEF trail, Private, Importing, Mine, Of
<1>2. ASSUME NEW s \in Session, StepOf(s) PROVE Private'
  <2> SUFFICES ASSUME NEW r \in Session, Importing(r)'
               PROVE  /\ Mine(r)' \in NewCase
                      /\ Of(Mine(r), events)' = {}
                      /\ \A t \in Session : Mine(t)' = Mine(r)' => t = r
                      /\ \A e \in own'[r] : e.case = Mine(r)'
    BY DEF Private
  <2>1. \A t \in Session : t # s => at'[t] = at[t] /\ Mine(t)' = Mine(t) /\ own'[t] = own[t]
    BY <1>2, OthersStay DEF Mine
  <2>2. CASE r = s
    <3>1. ASSUME NEW c \in Case, LogEvent(s, c) PROVE FALSE
      BY <2>2, <3>1, LogEventStep DEF Importing
    <3>2. ASSUME NEW c \in Case, StartImport(s, c)
          PROVE  /\ Mine(s)' \in NewCase
                 /\ Of(Mine(s), events)' = {}
                 /\ \A t \in Session : Mine(t)' = Mine(s)' => t = s
                 /\ own'[s] = {}
      <4>1. Mine(s)' = c /\ events' = events /\ own'[s] = {}
        BY <3>2, StartImportStep, DraftFields DEF Mine
      <4> QED BY <2>1, <3>2, <4>1 DEF StartImport, Of
    <3>3. CASE Commit(s) \/ Ends(s)
      BY <2>2, <3>3, CommitStep, EndsStep DEF Importing
    <3>4. CASE Acquire(s) \/ ReadLatest(s) \/ Draw(s) \/ EndHistory(s) \/ AddHistory(s)
      <4>1. at[s] # "idle" /\ events' = events
        BY <3>4, AcquireStep, ReadLatestStep, DrawStep, EndHistoryStep, AddHistoryStep
      <4>2. Importing(s)
        BY <2>2, <3>4, AcquireStep, ReadLatestStep, DrawStep, EndHistoryStep, AddHistoryStep DEF Importing
      <4>3. own'[s] = own[s] \/ own'[s] = own[s] \cup {HistoryRow(s)}
        BY <3>4, AcquireStep, ReadLatestStep, DrawStep, EndHistoryStep, AddHistoryStep
      <4>4. HistoryRow(s).case = Mine(s)
        BY DraftFields DEF HistoryRow
      <4>5. CASE Ends(s)
        BY <2>2, <4>5, EndsStep DEF Importing
      <4>6. CASE Mine(s)' = Mine(s)
        BY <2>1, <2>2, <4>1, <4>2, <4>3, <4>4, <4>6 DEF Private, Of
      <4> QED BY <1>2, <4>1, <4>5, <4>6, CaseStays DEF Mine
    <3> QED BY <1>2, <2>2, <3>1, <3>2, <3>3, <3>4 DEF StepOf, Reads
  <2>3. CASE r # s
    <3>1. Importing(r) /\ Mine(r)' = Mine(r) /\ own'[r] = own[r] /\ Mine(r) \in NewCase
      BY <2>1, <2>3 DEF Importing, Private
    <3>2. Mine(s) # Mine(r) /\ NoCase # Mine(r)
      BY <2>3, <3>1, CaseAssumption DEF Private
    <3>3. Mine(s)' # Mine(r)
      <4>1. ASSUME NEW c \in Case, LogEvent(s, c) PROVE Mine(s)' # Mine(r)
        <5>1. Mine(s)' = c
          BY <4>1, LogEventStep, DraftFields DEF Mine
        <5> QED BY <3>1, <4>1, <5>1 DEF LogEvent, Private
      <4>2. ASSUME NEW c \in Case, StartImport(s, c) PROVE Mine(s)' # Mine(r)
        <5>1. Mine(s)' = c
          BY <4>2, StartImportStep, DraftFields DEF Mine
        <5> QED BY <4>2, <5>1 DEF StartImport
      <4>3. CASE Ends(s)
        BY <3>2, <4>3, EndsStep, DraftFields DEF Mine, NoDraft
      <4>4. CASE Mine(s)' = Mine(s)
        BY <3>2, <4>4
      <4>5. Reads(s) /\ at[s] = "idle" => \E c \in Case : LogEvent(s, c) \/ StartImport(s, c)
        BY AcquireStep, ReadLatestStep, DrawStep, EndHistoryStep DEF Reads
      <4> QED BY <1>2, <4>1, <4>2, <4>3, <4>4, <4>5, CaseStays DEF Mine
    <3>4. Of(Mine(r), events') = {}
      <4>1. CASE Commit(s)
        <5>1. \A e \in own[s] : e.case = Mine(s)
          BY DEF Private, Importing
        <5> QED BY <3>1, <3>2, <4>1, <5>1, CommitStep DEF Private, Of, Mine
      <4>2. CASE events' = events
        BY <3>1, <4>2 DEF Private
      <4> QED BY <1>2, <4>1, <4>2, LogEventStep, StartImportStep, AcquireStep, ReadLatestStep, DrawStep,
                 EndHistoryStep, AddHistoryStep, EndsStep DEF StepOf, Reads
    <3> QED BY <2>1, <3>1, <3>3, <3>4 DEF Private, Of
  <2> QED BY <2>2, <2>3
<1> QED BY <1>1, <1>2, NextIsStep

-----------------------------------------------------------------------------
(* What a step does to the rows inserted *)

(* Reads, locks and drafts insert nothing. *)
LEMMA ReadsWrite == ASSUME NEW s \in Session, TypeOK, Reads(s) PROVE Written' = Written
<1>1. events' = events /\ own' = own
  BY LogEventStep, StartImportStep, AcquireStep, ReadLatestStep, DrawStep, EndHistoryStep DEF Reads
<1> QED BY <1>1 DEF Written

(* AddHistory inserts one row. *)
LEMMA AddHistoryWrites ==
  ASSUME NEW s \in Session, TypeOK, AddHistory(s)
  PROVE  Written' = Written \cup {HistoryRow(s)}
<1>1. events' = events /\ own'[s] = own[s] \cup {HistoryRow(s)}
  BY AddHistoryStep
<1>2. \A t \in Session : t # s => own'[t] = own[t]
  BY OthersStay DEF StepOf
<1>3. \A e : e \in Written' <=> e \in events \/ \E t \in Session : e \in own'[t]
  BY <1>1 DEF Written
<1>4. \A e : e \in Written <=> e \in events \/ \E t \in Session : e \in own[t]
  BY DEF Written
<1> HIDE DEF Written
<1> QED BY <1>1, <1>2, <1>3, <1>4

(* A commit inserts the drafted row. *)
LEMMA CommitWrites ==
  ASSUME NEW s \in Session, TypeOK, Commit(s)
  PROVE  Written' = Written \cup {draft[s]}
<1>1. events' = events \cup own[s] \cup {draft[s]} /\ own'[s] = {}
  BY CommitStep
<1>2. \A t \in Session : t # s => own'[t] = own[t]
  BY OthersStay DEF StepOf
<1>3. \A e : e \in Written' <=> e \in events' \/ \E t \in Session : e \in own'[t]
  BY DEF Written
<1>4. \A e : e \in Written <=> e \in events \/ \E t \in Session : e \in own[t]
  BY DEF Written
<1> HIDE DEF Written
<1> QED BY <1>1, <1>2, <1>3, <1>4

(* A rollback takes all rows of a case with it, or none. *)
LEMMA EndsWrite ==
  ASSUME NEW s \in Session, TypeOK, Private, Ends(s)
  PROVE  /\ Written' \subseteq Written
         /\ \A d, e \in Written : d.case = e.case => (d \in Written' <=> e \in Written')
         /\ \A e \in Written \ Written' : Importing(s) /\ e.case = Mine(s)
<1>1. events' = events /\ own'[s] = {}
  BY EndsStep
<1>2. \A t \in Session : t # s => own'[t] = own[t]
  BY OthersStay DEF StepOf
<1>3. \A e : e \in Written' <=> e \in events \/ \E t \in Session : e \in own'[t]
  BY <1>1 DEF Written
<1>4. \A e : e \in Written <=> e \in events \/ \E t \in Session : e \in own[t]
  BY DEF Written
<1>5. Written' \subseteq Written
  <2> HIDE DEF Written
  <2> QED BY <1>1, <1>2, <1>3, <1>4
<1>6. CASE own[s] = {}
  <2>1. Written' = Written
    <3> HIDE DEF Written
    <3> QED BY <1>1, <1>2, <1>3, <1>4, <1>6
  <2> QED BY <2>1
<1>7. CASE own[s] # {}
  <2>1. \A e \in Written : e.case = Mine(s) <=> e \in own[s]
    BY <1>7, Unshared DEF Importing
  <2>2. \A e \in Written : e \in own[s] => e \notin events /\ \A t \in Session : t # s => e \notin own[t]
    BY <1>7, <2>1 DEF Private, Importing, Of
  <2>3. \A e \in Written : e \in Written' <=> e \notin own[s]
    <3> HIDE DEF Written
    <3> QED BY <1>1, <1>2, <1>3, <1>4, <2>2
  <2>4. \A d, e \in Written : d.case = e.case => (d \in own[s] <=> e \in own[s])
    BY <2>1
  <2>5. \A e \in Written \ Written' : Importing(s) /\ e.case = Mine(s)
    BY <1>7, <2>1, <2>3 DEF Importing
  <2> HIDE DEF Written
  <2> QED BY <1>5, <2>3, <2>4, <2>5
<1> QED BY <1>5, <1>6, <1>7

-----------------------------------------------------------------------------
(* Ids *)

(* Inserted rows are events. *)
LEMMA WrittenTypes ==
  ASSUME TypeOK, NEW e \in Written
  PROVE  e \in Event /\ e.seq \in Nat \ {0} /\ e.id \in Nat \ {0} /\ e.case \in Case
<1>1. events \subseteq Event /\ \A s \in Session : own[s] \subseteq Event
  BY DEF TypeOK
<1>2. e \in Event
  BY <1>1 DEF Written
<1> QED BY <1>2 DEF Event

(* Ids drawn stay below the sequence and unique. *)
LEMMA IdsNext == TypeOK /\ Private /\ IdsDrawn /\ [Next]_trail => IdsDrawn'
<1> SUFFICES ASSUME TypeOK, Private, IdsDrawn, [Next]_trail PROVE IdsDrawn'
  OBVIOUS
<1>1. CASE UNCHANGED trail
  BY <1>1 DEF trail, IdsDrawn, Written
<1>2. ASSUME NEW s \in Session, StepOf(s) PROVE IdsDrawn'
  <2>1. \A t \in Session : t # s => at'[t] = at[t] /\ draft'[t] = draft[t]
    BY <1>2, OthersStay
  <2>2. nextId \in Nat /\ (\A e \in Written : e.id \in Nat) /\ \A t \in Session : draft[t].id \in Nat
    BY WrittenTypes, Types
  <2> HIDE DEF Written
  <2>3. ASSUME Written' \subseteq Written, nextId' = nextId, at'[s] # "drawn" PROVE IdsDrawn'
    BY <2>1, <2>3 DEF IdsDrawn
  <2>4. CASE Reads(s) /\ ~Draw(s)
    BY <1>2, <2>3, <2>4, ReadsWrite, LogEventStep, StartImportStep, AcquireStep, ReadLatestStep, EndHistoryStep
       DEF Reads
  <2>5. CASE Draw(s)
    <3>1. Written' = Written /\ at'[s] = "drawn" /\ draft'[s].id = nextId /\ nextId' = nextId + 1
      BY <2>5, ReadsWrite, DrawStep DEF Reads
    <3> QED BY <2>1, <2>2, <3>1 DEF IdsDrawn
  <2>6. CASE AddHistory(s)
    <3>1. /\ Written' = Written \cup {HistoryRow(s)} /\ HistoryRow(s).id = nextId
          /\ nextId' = nextId + 1 /\ at'[s] # "drawn"
      BY <2>6, AddHistoryWrites, AddHistoryStep, DraftFields DEF HistoryRow
    <3> HIDE DEF HistoryRow
    <3> QED BY <2>1, <2>2, <3>1 DEF IdsDrawn
  <2>7. CASE Commit(s)
    <3>1. /\ Written' = Written \cup {draft[s]} /\ nextId' = nextId
          /\ at'[s] # "drawn" /\ at[s] = "drawn"
      BY <2>7, CommitWrites, CommitStep
    <3> QED BY <2>1, <2>2, <3>1 DEF IdsDrawn
  <2>8. CASE Ends(s)
    BY <2>3, <2>8, EndsWrite, EndsStep
  <2> QED BY <1>2, <2>4, <2>5, <2>6, <2>7, <2>8 DEF StepOf, Reads
<1> QED BY <1>1, <1>2, NextIsStep

-----------------------------------------------------------------------------
(* The chain *)

Whole == Numbered /\ Linked /\ Ordered

(* A chain goes on with a row that has the number and the link that follow *)
(* and a larger id.                                                        *)
LEMMA Extend ==
  ASSUME TypeOK, Whole, NEW r, r.seq \in Nat, Follows(r.case, r.seq, r.prev),
         \A e \in Of(r.case, Written) : e.id < r.id,
         Written' = Written \cup {r}
  PROVE  Whole' /\ Follows(r.case, r.seq + 1, r.id)'
<1>1. \A e \in Written : e.case = r.case => e.seq \in Nat /\ e.seq < r.seq /\ e.id < r.id
  <2>1. ASSUME NEW l \in Of(r.case, Written), Last(l, Of(r.case, Written)), r.seq = l.seq + 1,
               NEW e \in Written, e.case = r.case
        PROVE  e.seq \in Nat /\ e.seq < r.seq
    <3>1. e.seq <= l.seq /\ e.seq \in Nat /\ l.seq \in Nat
      BY <2>1, WrittenTypes DEF Last, Of
    <3> QED BY <2>1, <3>1
  <2> QED BY <2>1 DEF Follows, Of
<1>2. \/ r.seq = 1 /\ r.prev = Genesis
      \/ \E d \in Written : Precedes(d, r)
  BY DEF Follows, Precedes, Of
<1> HIDE DEF Written
<1>3. Numbered'
  BY <1>1 DEF Whole, Numbered
<1>4. Linked'
  BY <1>2 DEF Whole, Linked
<1>5. Ordered'
  BY <1>1 DEF Whole, Ordered
<1>6. r \in Of(r.case, Written') /\ Last(r, Of(r.case, Written'))
  BY <1>1 DEF Last, Of
<1>7. Follows(r.case, r.seq + 1, r.id)'
  BY <1>6 DEF Follows
<1> QED BY <1>3, <1>4, <1>5, <1>7 DEF Whole

(* What a session adds to the chain. *)
LEMMA CommitExtends ==
  ASSUME ChainInv, NEW s \in Session, Commit(s) \/ AddHistory(s)
  PROVE  /\ Whole' /\ \E r : Written' = Written \cup {r} /\ r.case = Mine(s)
         /\ AddHistory(s) => Follows(Mine(s), draft[s].seq, draft[s].prev)'
<1> USE DEF ChainInv
<1>1. CASE Commit(s)
  <2>1. Follows(draft[s].case, draft[s].seq, draft[s].prev)
        /\ \A e \in Of(draft[s].case, Written) : e.id < draft[s].id
    BY <1>1, CommitStep DEF ReadStands, Mine
  <2>2. Written' = Written \cup {draft[s]}
    BY <1>1, CommitWrites
  <2>3. Whole'
    BY <2>1, <2>2, Types, Extend DEF Whole
  <2>4. ~AddHistory(s)
    BY <1>1, CommitStep, AddHistoryStep
  <2> QED BY <2>2, <2>3, <2>4 DEF Mine
<1>2. CASE AddHistory(s)
  <2>1. PICK r : r = HistoryRow(s)
    OBVIOUS
  <2>2. r.case = Mine(s) /\ r.seq = draft[s].seq /\ r.prev = draft[s].prev /\ r.id = nextId
    BY <2>1, DraftFields DEF HistoryRow
  <2>3. Written' = Written \cup {r}
    BY <1>2, <2>1, AddHistoryWrites
  <2>4. Follows(r.case, r.seq, r.prev) /\ r.seq \in Nat
    BY <1>2, <2>2, AddHistoryStep, Types DEF ReadStands
  <2>5. \A e \in Of(r.case, Written) : e.id < r.id
    BY <2>2 DEF IdsDrawn, Of
  <2>6. Whole' /\ Follows(r.case, r.seq + 1, r.id)'
    BY <2>3, <2>4, <2>5, Extend DEF Whole
  <2>7. Mine(s)' = r.case /\ draft'[s].seq = r.seq + 1 /\ draft'[s].prev = r.id
    BY <1>2, <2>2, AddHistoryStep, DraftFields DEF Mine
  <2>8. Follows(Mine(s), draft[s].seq, draft[s].prev)'
    BY <2>6, <2>7
  <2> QED BY <2>2, <2>3, <2>6, <2>8
<1> QED BY <1>1, <1>2

(* Every step keeps the chains whole. *)
LEMMA WholeNext == ChainInv /\ [Next]_trail => Whole'
<1> SUFFICES ASSUME ChainInv, [Next]_trail PROVE Whole'
  OBVIOUS
<1> USE DEF ChainInv
<1>1. ASSUME Written' = Written PROVE Whole'
  <2> HIDE DEF Written
  <2> QED BY <1>1 DEF Whole, Numbered, Linked, Ordered
<1>2. CASE UNCHANGED trail
  BY <1>1, <1>2 DEF trail, Written
<1>3. ASSUME NEW s \in Session, StepOf(s) PROVE Whole'
  <2>1. CASE Reads(s)
    BY <1>1, <2>1, ReadsWrite
  <2>2. CASE Commit(s) \/ AddHistory(s)
    BY <2>2, CommitExtends
  <2>3. CASE Ends(s)
    <3>1. /\ Written' \subseteq Written
          /\ \A d, e \in Written : d.case = e.case => (d \in Written' <=> e \in Written')
      BY <2>3, EndsWrite
    <3> HIDE DEF Written
    <3>2. Numbered' /\ Ordered'
      BY <3>1 DEF Numbered, Ordered
    <3>3. Linked'
      BY <3>1 DEF Linked, Precedes
    <3> QED BY <3>2, <3>3 DEF Whole
  <2> QED BY <1>3, <2>1, <2>2, <2>3 DEF StepOf
<1> QED BY <1>2, <1>3, NextIsStep

(* What follows the rows of a case depends on these rows only. *)
LEMMA FollowsSame ==
  ASSUME NEW c, NEW n, NEW p, Follows(c, n, p), Of(c, Written') = Of(c, Written)
  PROVE  Follows(c, n, p)'
BY DEF Follows

(* What a session has read stays the end of its chain. *)
LEMMA ReadNext == ChainInv /\ [Next]_trail => ReadStands'
<1> SUFFICES ASSUME ChainInv, [Next]_trail PROVE ReadStands'
  OBVIOUS
<1> USE DEF ChainInv
<1>1. CASE UNCHANGED trail
  <2>1. Written' = Written
    BY <1>1 DEF trail, Written
  <2>2. at' = at /\ draft' = draft
    BY <1>1 DEF trail
  <2> HIDE DEF Written
  <2> QED BY <2>1, <2>2 DEF ReadStands, Follows, Mine
<1>2. ASSUME NEW s \in Session, StepOf(s) PROVE ReadStands'
  <2> SUFFICES ASSUME NEW t \in Session, at'[t] \in {"read", "drawn", "import"}
               PROVE  /\ Follows(Mine(t), draft[t].seq, draft[t].prev)'
                      /\ at'[t] = "drawn" => \A e \in Of(Mine(t)', Written') : e.id < draft'[t].id
    BY DEF ReadStands
  <2> HIDE DEF Written
  <2>0. \A e \in Written : e.id < nextId
    BY DEF IdsDrawn
  <2>1. CASE t # s
    <3>1. at'[t] = at[t] /\ draft'[t] = draft[t] /\ Mine(t)' = Mine(t)
      BY <1>2, <2>1, OthersStay DEF Mine
    <3>2. CASE Of(Mine(t), Written') = Of(Mine(t), Written)
      <4>1. PICK c, n, p : c = Mine(t) /\ n = draft[t].seq /\ p = draft[t].prev
        OBVIOUS
      <4>2. Follows(c, n, p) /\ Of(c, Written') = Of(c, Written)
        BY <3>1, <3>2, <4>1 DEF ReadStands
      <4>3. Follows(c, n, p)'
        BY <4>2, FollowsSame
      <4>4. c = Mine(t)' /\ n = draft'[t].seq /\ p = draft'[t].prev
        BY <3>1, <4>1
      <4> QED BY <3>1, <3>2, <4>3, <4>4 DEF ReadStands
    <3>3. Of(Mine(t), Written') = Of(Mine(t), Written)
      <4>1. CASE Reads(s)
        BY <4>1, ReadsWrite
      <4>2. CASE Commit(s) \/ AddHistory(s)
        <5>1. Mine(t) # Mine(s)
          BY <2>1, <3>1, <4>2, CommitStep, AddHistoryStep DEF OneHolder, Holds, Private, Importing
        <5>2. PICK r : Written' = Written \cup {r} /\ r.case = Mine(s)
          BY <4>2, CommitExtends
        <5> QED BY <5>1, <5>2 DEF Of
      <4>3. CASE Ends(s)
        <5>1. Written' \subseteq Written /\ \A e \in Written \ Written' : Importing(s) /\ e.case = Mine(s)
          BY <4>3, EndsWrite
        <5>2. Importing(s) => Mine(t) # Mine(s)
          BY <2>1 DEF Private
        <5> QED BY <5>1, <5>2 DEF Of
      <4> QED BY <1>2, <4>1, <4>2, <4>3 DEF StepOf
    <3> QED BY <3>2, <3>3
  <2>2. CASE t = s
    <3>1. CASE ReadLatest(s)
      <4>1. Visible(s) = Of(Mine(s), Written) /\ Written' = Written /\ at'[s] = "read"
        BY <3>1, VisibleIsWritten, ReadLatestStep, ReadsWrite DEF Reads
      <4>2. PICK c, n, p : c = Mine(s) /\ Follows(c, n, p) /\ draft'[s] = Draft(c, n, p, 0)
        BY <3>1, <4>1, ReadLatestStep DEF Follows
      <4>3. Follows(c, n, p)'
        BY <4>1, <4>2, FollowsSame
      <4>4. c = Mine(s)' /\ n = draft'[s].seq /\ p = draft'[s].prev
        BY <4>2, DraftFields DEF Mine
      <4> QED BY <2>2, <4>1, <4>3, <4>4
    <3>2. CASE Draw(s)
      <4>1. PICK c, n, p : c = Mine(t) /\ n = draft[t].seq /\ p = draft[t].prev
        OBVIOUS
      <4>2. Follows(c, n, p) /\ Written' = Written
        BY <2>2, <3>2, <4>1, DrawStep, ReadsWrite DEF ReadStands, Reads
      <4>3. Follows(c, n, p)'
        BY <4>2, FollowsSame
      <4>4. c = Mine(t)' /\ n = draft'[t].seq /\ p = draft'[t].prev /\ draft'[t].id = nextId
        BY <2>2, <3>2, <4>1, DrawStep DEF Mine
      <4> QED BY <2>0, <4>2, <4>3, <4>4 DEF Of
    <3>3. ASSUME NEW c \in Case, StartImport(s, c)
          PROVE  Follows(Mine(s), draft[s].seq, draft[s].prev)' /\ at'[s] # "drawn"
      <4>1. \A t1 \in Session : own[t1] # {} => Mine(t1) # c /\ \A e \in own[t1] : e.case = Mine(t1)
        BY <3>3 DEF StartImport, Private, Importing
      <4>2. Of(c, Written) = {}
        BY <3>3, <4>1 DEF StartImport, Of, Written
      <4>3. Written' = Written /\ at'[s] = "import" /\ draft'[s] = Draft(c, 1, Genesis, 0)
        BY <3>3, StartImportStep, ReadsWrite DEF Reads
      <4>4. PICK n, p : n = 1 /\ p = Genesis
        OBVIOUS
      <4>5. Follows(c, n, p)'
        BY <4>2, <4>3, <4>4 DEF Follows
      <4>6. c = Mine(s)' /\ n = draft'[s].seq /\ p = draft'[s].prev
        BY <4>3, <4>4, DraftFields DEF Mine
      <4> QED BY <4>3, <4>5, <4>6
    <3>4. CASE AddHistory(s)
      BY <2>2, <3>4, CommitExtends, AddHistoryStep
    <3>5. CASE Commit(s) \/ Ends(s) \/ Acquire(s) \/ EndHistory(s) \/ \E c \in Case : LogEvent(s, c)
      BY <2>2, <3>5, CommitStep, EndsStep, AcquireStep, EndHistoryStep, LogEventStep
    <3> QED BY <1>2, <2>2, <3>1, <3>2, <3>3, <3>4, <3>5 DEF StepOf, Reads
  <2> QED BY <2>1, <2>2
<1> QED BY <1>1, <1>2, NextIsStep

(* The empty log satisfies the invariant. *)
LEMMA ChainInit == Init => ChainInv
<1> SUFFICES ASSUME Init PROVE ChainInv
  OBVIOUS
<1>1. TypeOK
  <2>1. NoDraft \in [case : Case \cup {NoCase}, seq : Nat, prev : Nat, id : Nat]
    BY DraftType DEF NoDraft, Genesis
  <2> QED BY <2>1 DEF Init, TypeOK
<1>2. Written = {}
  BY DEF Init, Written
<1>3. \A s \in Session : at[s] = "idle" /\ own[s] = {}
  BY DEF Init
<1> HIDE DEF Written
<1> QED BY <1>1, <1>2, <1>3 DEF ChainInv, OneHolder, Holds, Private, Importing, IdsDrawn,
                            Numbered, Linked, Ordered, ReadStands

(* The invariant is inductive. *)
LEMMA ChainNext == ChainInv /\ [Next]_trail => ChainInv'
BY TypeNext, HolderNext, PrivateNext, IdsNext, WholeNext, ReadNext DEF ChainInv, Whole

(* The chains, with what every appender holds and has read, are consistent *)
(* at every moment: the invariant behind the theorems below.               *)
THEOREM ChainInvariant == Spec => []ChainInv
BY ChainInit, ChainNext, PTL DEF Spec

(* The chains of all cases verify at every moment. *)
THEOREM ChainsVerify == Spec => []ChainVerifies
<1>1. ChainInv => ChainVerifies
  <2> SUFFICES ASSUME ChainInv PROVE ChainVerifies
    OBVIOUS
  <2> USE DEF ChainInv
  <2>1. events \subseteq Written
    BY DEF Written
  <2>2. \A d, e \in events : Collide(d, e) => d = e
    BY <2>1 DEF Collide, IdsDrawn, Numbered
  <2>3. ASSUME NEW e \in events, NEW d \in Written, Precedes(d, e) PROVE d \in events
    BY <2>3 DEF Written, Private, Importing, Precedes, Of
  <2>4. \A e \in events : \/ e.seq = 1 /\ e.prev = Genesis
                          \/ \E d \in events : Precedes(d, e)
    BY <2>1, <2>3 DEF Linked
  <2> QED BY <2>2, <2>4 DEF ChainVerifies, Precedes
<1> QED BY <1>1, ChainInvariant, PTL

(* No append ever meets the unique constraint: the lock alone orders the   *)
(* appends of a case.                                                      *)
THEOREM AppendsAccepted == Spec => []NeverRejected
<1>1. ChainInv => NeverRejected
  <2> SUFFICES ASSUME ChainInv, NEW s \in Session, at[s] = "drawn",
                      NEW d \in own[s] \cup {draft[s]}, NEW e \in events, Collide(d, e)
               PROVE  FALSE
    BY DEF NeverRejected, Rejected
  <2> USE DEF ChainInv
  <2>1. e \in Written /\ (d \in own[s] => d \in Written)
    BY DEF Written
  <2>2. CASE d \in own[s]
    <3>1. d = e
      BY <2>1, <2>2 DEF Collide, IdsDrawn, Numbered
    <3> QED BY <2>2, <3>1 DEF Private, Importing, Of
  <2>3. CASE d = draft[s]
    <3>1. e.case = Mine(s) /\ e.seq = draft[s].seq
      BY <2>1, <2>3 DEF Collide, IdsDrawn, Mine
    <3>2. e \in Of(Mine(s), Written)
      BY <2>1, <3>1 DEF Of
    <3>3. PICK l \in Of(Mine(s), Written) : Last(l, Of(Mine(s), Written)) /\ draft[s].seq = l.seq + 1
      BY <3>2 DEF ReadStands, Follows
    <3>4. e.seq <= l.seq /\ e.seq \in Nat /\ l.seq \in Nat
      BY <3>2, <3>3, WrittenTypes DEF Last, Of
    <3> QED BY <3>1, <3>3, <3>4
  <2> QED BY <2>2, <2>3
<1> QED BY <1>1, ChainInvariant, PTL

(* The order of the ids is the order of the chain. *)
THEOREM IdsFollow == Spec => []IdsFollowChain
<1>1. ChainInv => IdsFollowChain
  BY DEF ChainInv, Ordered, Written, IdsFollowChain
<1> QED BY <1>1, ChainInvariant, PTL
=============================================================================
