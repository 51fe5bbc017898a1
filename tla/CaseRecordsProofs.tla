------------------------- MODULE CaseRecordsProofs -------------------------
(***************************************************************************)
(* For any number of requests, analyses and rows: the records are well     *)
(* formed, a relation is never left without its observations, a finding is *)
(* never stored without its audit event, the references of an export are   *)
(* accounted for, requests that take turns leave one row of each kind, and *)
(* requests only ever wait for each other in pairs that the database ends. *)
(***************************************************************************)
EXTENDS CaseRecords, TLAPS

Memory == [done : SUBSET Analysis, rows : SUBSET Analysis, seen : SUBSET ObservationRow,
           links : SUBSET RelationRow, rated : SUBSET AssessmentRow, todo : Seq(Rule),
           draft : SUBSET FindingRow, expired : BOOLEAN, since : Nat, verdict : SUBSET Status]

TypeInv == RecordsTypeOK /\ mem \in [Req -> Memory]

-----------------------------------------------------------------------------
(* The rules yield rows *)

(* The ids of analyses are numbers. *)
LEMMA AnalysisNat == Analysis \subseteq Nat /\ Analyses \in Nat
BY CaseAssumption DEF Analysis

(* The ids of rows are numbers. *)
LEMMA IdsNat == ASSUME NEW R, \A r \in R : r.id \in Nat PROVE Ids(R) \subseteq Nat
BY DEF Ids

(* An adapter reports one of its directions. *)
LEMMA DirectionType == ASSUME NEW m, NEW image PROVE Direction(m, image) \in Directions
BY DEF Direction, MetadataDirection, ELADirection, NoiseDirection, JPEGDCTDirection, CopyMoveDirection,
       ExtensionDirection, Directions

(* What normalisation stores of an analysis is an observation. *)
LEMMA ObservedType == ASSUME NEW a \in Analysis, NEW n \in Nat
                      PROVE Observed(a, n) \in ObservationRow
<1>1. Kind[a] \in Modality \cup {"EXTENSION"}  BY CaseAssumption
<1>2. n + a \in Nat  BY AnalysisNat
<1>3. Direction(Kind[a], Image) \in Directions  BY DirectionType
<1> QED  BY <1>1, <1>2, <1>3 DEF Observed, ObservationRow

(* The same of a set of analyses. *)
LEMMA FreshType == ASSUME NEW A \in SUBSET Analysis, NEW n \in Nat
                   PROVE Fresh(A, n) \subseteq ObservationRow
BY ObservedType DEF Fresh

(* Relations are between the observations given to the rules. *)
LEMMA RelationsType == ASSUME NEW O \in SUBSET ObservationRow, NEW r \in Relations(O)
                       PROVE r.kind \in RelationKind /\ r.a \in Ids(O) /\ r.b \in Ids(O)
BY DEF Relations, Link, Newest, Ids, RelationKind

(* So the relations that a request stores are well formed. *)
LEMMA NewRelationsType == ASSUME NEW s, mem[s].seen \in SUBSET ObservationRow, nextId \in Nat
                          PROVE NewRelations(s) \subseteq RelationRow
<1>1. Ids(mem[s].seen) \subseteq Nat  BY IdsNat DEF ObservationRow
<1> QED  BY <1>1, RelationsType DEF NewRelations, RelationRow

(* A level is one of the names of levels. *)
LEMMA LevelType == ASSUME NEW O PROVE Level(O) \in Levels
BY DEF Level, Levels

(* A finding cites observations by their ids. *)
LEMMA CitesNat == ASSUME NEW rule, NEW O \in SUBSET ObservationRow PROVE Cites(rule, O) \subseteq Nat
BY DEF Cites, ObservationRow

(* Contributors are observations. *)
LEMMA ContributingNat == ASSUME NEW O \in SUBSET ObservationRow PROVE Ids(Contributing(O)) \subseteq Nat
BY DEF Contributing, Ids, ObservationRow

(* Updating findings keeps them findings, with the ids and rules they had. *)
LEMMA FlushedRows ==
  ASSUME find \subseteq FindingRow, NEW draft \in SUBSET FindingRow
  PROVE  /\ Flushed(draft) \subseteq FindingRow
         /\ Ids(Flushed(draft)) = Ids(find)
         /\ \A f \in find : \E g \in Flushed(draft) : g.id = f.id /\ g.rule = f.rule /\ g.status = f.status
         /\ (\A f, g \in find : f.id = g.id => f = g)
              => \A f, g \in Flushed(draft) : f.id = g.id => f = g
<1> DEFINE new(f) == IF f.id \in Ids(draft)
                     THEN [f EXCEPT !.obs = (CHOOSE d \in draft : d.id = f.id).obs] ELSE f
<1>1. ASSUME NEW f \in FindingRow
      PROVE new(f) \in FindingRow /\ new(f).id = f.id /\ new(f).rule = f.rule /\ new(f).status = f.status
  <2>1. CASE f.id \notin Ids(draft)  BY <2>1
  <2>2. CASE f.id \in Ids(draft)
    <3>1. PICK d \in draft : d.id = f.id  BY <2>2 DEF Ids
    <3>2. (CHOOSE e \in draft : e.id = f.id) \in draft  BY <3>1
    <3>3. (CHOOSE e \in draft : e.id = f.id).obs \in SUBSET Nat  BY <3>2 DEF FindingRow
    <3> QED  BY <2>2, <3>3 DEF FindingRow
  <2> QED  BY <2>1, <2>2
<1>2. Flushed(draft) = {new(f) : f \in find}  BY DEF Flushed
<1> HIDE DEF new
<1>3. \A f \in find : new(f) \in FindingRow /\ new(f).id = f.id /\ new(f).rule = f.rule /\ new(f).status = f.status
  BY <1>1
<1>4. Ids(Flushed(draft)) = Ids(find)  BY <1>2, <1>3 DEF Ids
<1>5. ASSUME \A f, g \in find : f.id = g.id => f = g, NEW p \in Flushed(draft), NEW q \in Flushed(draft), p.id = q.id
      PROVE p = q
  <2>1. PICK f \in find : p = new(f)  BY <1>2
  <2>2. PICK g \in find : q = new(g)  BY <1>2
  <2> QED  BY <1>3, <1>5, <2>1, <2>2
<1> QED  BY <1>2, <1>3, <1>4, <1>5

-----------------------------------------------------------------------------
(* Type correctness *)

(* A request starts with an empty memory. *)
LEMMA BlankType == Blank \in Memory
BY DEF Blank, Memory

(* What the sets of rows and the memory of a request hold. *)
LEMMA Typed == ASSUME TypeInv, NEW s \in Req
               PROVE  /\ mem[s] \in Memory
                      /\ Ids(obs) \subseteq Nat /\ Ids(rel) \subseteq Nat
                      /\ Ids(assess) \subseteq Nat /\ Ids(find) \subseteq Nat
                      /\ Ids(mem[s].draft) \subseteq Nat /\ held[s] \subseteq Nat
<1>1. mem[s] \in Memory  BY DEF TypeInv
<1>2. mem[s].draft \in SUBSET FindingRow  BY <1>1 DEF Memory
<1>3. held[s] \subseteq Nat  BY DEF TypeInv, RecordsTypeOK
<1> QED
  BY <1>1, <1>2, <1>3, IdsNat DEF TypeInv, RecordsTypeOK, ObservationRow, RelationRow, AssessmentRow, FindingRow

(* Each kind of statement keeps the types when what it is given has them.  *)
LEMMA BeginTyped ==
  ASSUME TypeInv, NEW s \in Req, NEW first \in Point, NEW m \in Memory, Begin(s, first, m)
  PROVE  TypeInv'
BY DEF TypeInv, RecordsTypeOK, Begin, records, history

(* A step that only reads keeps the state well formed.                     *)
LEMMA ReadTyped ==
  ASSUME TypeInv, NEW s \in Req, NEW from, NEW to \in Point, NEW m \in Memory, Read(s, from, to, m)
  PROVE  TypeInv'
BY DEF TypeInv, RecordsTypeOK, Read, records, history

(* So does a DELETE that finds its rows,                                   *)
LEMMA FindsTyped ==
  ASSUME TypeInv, NEW s \in Req, NEW from, NEW to \in Point, NEW rows, Ids(rows) \subseteq Nat,
         DeleteFinds(s, from, to, rows)
  PROVE  TypeInv'
<1> DEFINE ids == Ids(rows)
<1>1. ids \in SUBSET Nat /\ target' = [target EXCEPT ![s] = ids]  BY DEF DeleteFinds
<1> HIDE DEF ids
<1> QED  BY <1>1 DEF TypeInv, RecordsTypeOK, DeleteFinds, records, history

(* one that removes them,                                                  *)
LEMMA RemovesTyped ==
  ASSUME TypeInv, NEW s \in Req, NEW from, NEW to \in Point, NEW rows, DeleteRemoves(s, from, to, rows)
  PROVE  TypeInv'
<1> DEFINE ids == target[s] \cap Ids(rows)
<1>1. ids \in SUBSET Nat  BY DEF TypeInv, RecordsTypeOK
<1>2. held' = [held EXCEPT ![s] = @ \cup ids] /\ target' = [target EXCEPT ![s] = {}]
      /\ at' = [at EXCEPT ![s] = to]
  BY DEF DeleteRemoves
<1> HIDE DEF ids
<1>3. held' \in [Req -> SUBSET Nat] /\ target' \in [Req -> SUBSET Nat] /\ at' \in [Req -> Point]
  BY <1>1, <1>2 DEF TypeInv, RecordsTypeOK
<1> QED  BY <1>3 DEF TypeInv, RecordsTypeOK, DeleteRemoves, records, history

(* the end of a session,                                                   *)
LEMMA CloseTyped ==
  ASSUME TypeInv, NEW s \in Req, Close(s)
  PROVE  /\ at' \in [Req -> Point] /\ mem' \in [Req -> Memory]
         /\ target' \in [Req -> SUBSET Nat] /\ held' \in [Req -> SUBSET Nat]
BY BlankType DEF TypeInv, RecordsTypeOK, Close, Point

(* and a rollback.                                                         *)
LEMMA RollbackTyped ==
  ASSUME TypeInv, NEW s \in Req, Rollback(s), refused' \in BOOLEAN, fails' \in Nat, cut' \subseteq Nat
  PROVE  TypeInv'
BY CloseTyped DEF TypeInv, RecordsTypeOK, Rollback, records

(* What the review will append is a set of review events. *)
LEMMA EventsTyped ==
  ASSUME NEW m \in Memory
  PROVE  {[finding |-> f.id, old |-> f.status, new |-> n] : f \in m.draft, n \in m.verdict}
           \subseteq [finding : Nat, old : Status, new : Status]
BY DEF Memory, FindingRow

(* The steps of each handler keep the types. *)
LEMMA NormTyped ==
  ASSUME TypeInv, NEW s \in Req,
         Normalize(s) \/ NormSelect(s) \/ NormRemove(s) \/ NormCheck(s) \/ NormStore(s)
  PROVE  TypeInv'
<1>1. CASE Normalize(s)
  <2>1. [Blank EXCEPT !.done = Completed] \in Memory  BY BlankType DEF Memory, Completed
  <2> QED  BY <1>1, <2>1, BeginTyped DEF Point, Normalize
<1>2. CASE NormSelect(s)  BY <1>2, Typed, FindsTyped DEF Point, NormSelect
<1>3. CASE NormRemove(s)  BY <1>3, RemovesTyped DEF Point, NormRemove
<1>4. CASE NormCheck(s)
  <2>1. CASE UNCHANGED <<records, mem, target, held, history>> /\ at' = [at EXCEPT ![s] = "norm.store"]
    BY <2>1 DEF TypeInv, RecordsTypeOK, records, history, Point
  <2>2. CASE Rollback(s) /\ UNCHANGED <<fails, cut>> /\ refused' = TRUE
    BY <2>2, RollbackTyped DEF TypeInv, RecordsTypeOK
  <2> QED  BY <1>4, <2>1, <2>2 DEF NormCheck
<1>5. CASE NormStore(s)
  <2>1. Fresh(mem[s].done, nextId) \subseteq ObservationRow
    BY Typed, FreshType DEF TypeInv, RecordsTypeOK, Memory
  <2>2. obs' \subseteq ObservationRow
    BY <1>5, <2>1 DEF TypeInv, RecordsTypeOK, NormStore, Without
  <2>3. nextId' \in Nat  BY <1>5, AnalysisNat DEF TypeInv, RecordsTypeOK, NormStore
  <2>4. dropped' \subseteq Nat  BY <1>5, Typed DEF TypeInv, RecordsTypeOK, NormStore
  <2> QED  BY <1>5, <2>2, <2>3, <2>4, CloseTyped DEF TypeInv, RecordsTypeOK, NormStore
<1> QED  BY <1>1, <1>2, <1>3, <1>4, <1>5

(* The statements of run_correlation keep the state well formed,           *)
LEMMA CorrTyped ==
  ASSUME TypeInv, NEW s \in Req,
         \/ Correlate(s) \/ CorrSelect(s) \/ CorrRemove(s) \/ CorrNothing(s) \/ CorrStore(s)
         \/ CorrRefused(s) \/ Deadlock(s)
  PROVE  TypeInv'
<1>1. CASE Correlate(s)
  <2>1. [Blank EXCEPT !.seen = obs] \in Memory  BY BlankType DEF Memory, TypeInv, RecordsTypeOK
  <2> QED  BY <1>1, <2>1, BeginTyped DEF Point, Correlate
<1>2. CASE CorrSelect(s)  BY <1>2, Typed, FindsTyped DEF Point, CorrSelect
<1>3. CASE CorrRemove(s)  BY <1>3, RemovesTyped DEF Point, CorrRemove
<1>4. CASE CorrNothing(s)  BY <1>4, Typed, ReadTyped DEF Point, CorrNothing
<1>5. CASE CorrStore(s)
  <2>1. NewRelations(s) \subseteq RelationRow
    BY Typed, NewRelationsType DEF TypeInv, RecordsTypeOK, Memory
  <2>2. rel' \subseteq RelationRow
    BY <1>5, <2>1 DEF TypeInv, RecordsTypeOK, CorrStore, Without
  <2>4. nextId' \in Nat /\ dropped' \subseteq Nat
    <3>1. nextId' = nextId + 1 /\ dropped' \subseteq dropped \cup held[s]  BY <1>5 DEF CorrStore
    <3>2. nextId \in Nat /\ dropped \subseteq Nat  BY DEF TypeInv, RecordsTypeOK
    <3>3. held[s] \subseteq Nat  BY Typed
    <3> QED  BY <3>1, <3>2, <3>3
  <2>3. held' \in [Req -> SUBSET Nat] /\ at' \in [Req -> Point]
    BY <1>5 DEF TypeInv, RecordsTypeOK, CorrStore, Point
  <2> QED  BY <1>5, <2>2, <2>3, <2>4 DEF TypeInv, RecordsTypeOK, CorrStore
<1>6. CASE CorrRefused(s)  BY <1>6, RollbackTyped DEF CorrRefused, TypeInv, RecordsTypeOK
<1>7. CASE Deadlock(s)  BY <1>7, RollbackTyped DEF Deadlock, TypeInv, RecordsTypeOK
<1> QED  BY <1>1, <1>2, <1>3, <1>4, <1>5, <1>6, <1>7

(* those of run_assessment,                                                *)
LEMMA AssessTyped ==
  ASSUME TypeInv, NEW s \in Req,
         AssessObs(s) \/ AssessRel(s) \/ AssessSelect(s) \/ AssessRemove(s) \/ AssessStore(s)
  PROVE  TypeInv'
<1>1. CASE AssessObs(s)
  <2>1. [mem[s] EXCEPT !.seen = obs] \in Memory  BY Typed DEF Memory, TypeInv, RecordsTypeOK
  <2> QED  BY <1>1, <2>1, ReadTyped DEF Point, AssessObs
<1>2. CASE AssessRel(s)
  <2>1. Without(rel, held[s]) \in SUBSET RelationRow  BY DEF Without, TypeInv, RecordsTypeOK
  <2>2. [mem[s] EXCEPT !.links = Without(rel, held[s])] \in Memory  BY <2>1, Typed DEF Memory
  <2> QED  BY <1>2, <2>2, ReadTyped DEF Point, AssessRel
<1>3. CASE AssessSelect(s)  BY <1>3, Typed, FindsTyped DEF Point, AssessSelect
<1>4. CASE AssessRemove(s)  BY <1>4, RemovesTyped DEF Point, AssessRemove
<1>5. CASE AssessStore(s)
  <2>1. Ids(mem[s].links) \subseteq Nat  BY Typed, IdsNat DEF Memory, RelationRow
  <2>2. Ids(Contributing(mem[s].seen)) \subseteq Nat  BY Typed, ContributingNat DEF Memory
  <2>3. NewAssessment(s) \in AssessmentRow
    BY <2>1, <2>2, LevelType DEF NewAssessment, AssessmentRow, TypeInv, RecordsTypeOK
  <2>4. assess' \subseteq AssessmentRow /\ rel' \subseteq RelationRow
    BY <1>5, <2>3 DEF TypeInv, RecordsTypeOK, AssessStore, Without
  <2>5. nextId' \in Nat /\ dropped' \subseteq Nat
    <3>1. nextId' = nextId + 1 /\ dropped' \subseteq dropped \cup held[s]  BY <1>5 DEF AssessStore
    <3>2. nextId \in Nat /\ dropped \subseteq Nat  BY DEF TypeInv, RecordsTypeOK
    <3>3. held[s] \subseteq Nat  BY Typed
    <3> QED  BY <3>1, <3>2, <3>3
  <2> QED  BY <1>5, <2>4, <2>5, CloseTyped DEF TypeInv, RecordsTypeOK, AssessStore
<1> QED  BY <1>1, <1>2, <1>3, <1>4, <1>5

(* The rule that is due, and what is left of the rules. *)
LEMMA DueRule ==
  ASSUME TypeInv, NEW s \in Req, mem[s].todo # <<>>
  PROVE  Next1(s) \in Rule /\ Advance(s) \in Memory /\ Cites(Next1(s), mem[s].seen) \subseteq Nat
<1>1. mem[s].todo \in Seq(Rule)  BY Typed DEF Memory
<1>2. Next1(s) \in Rule /\ Tail(mem[s].todo) \in Seq(Rule)  BY <1>1 DEF Next1
<1>3. Advance(s) \in Memory  BY <1>2, Typed DEF Memory, Advance
<1> QED  BY <1>2, <1>3, Typed, CitesNat DEF Memory

(* those of evaluate_evidence,                                             *)
LEMMA EvalTyped ==
  ASSUME TypeInv, NEW s \in Req,
         \/ Evaluate(s) \/ EvalObs(s) \/ EvalSkip(s) \/ EvalUpdate(s) \/ EvalInsert(s)
         \/ EvalLost(s) \/ EvalEnd(s)
  PROVE  TypeInv'
<1>1. CASE Evaluate(s)
  <2>1. NewestCompleted(Rows) \in SUBSET Analysis /\ Rows \in SUBSET Analysis  BY DEF NewestCompleted, Rows
  <2>2. [Blank EXCEPT !.done = NewestCompleted(Rows), !.rows = Rows] \in Memory
    BY <2>1, BlankType DEF Memory
  <2> QED  BY <1>1, <2>2, BeginTyped DEF Point, Evaluate
<1>2. CASE EvalObs(s)
  <2>1. RuleOrder \in Seq(Rule)  BY DEF RuleOrder, Rule
  <2>2. [mem[s] EXCEPT !.seen = obs, !.todo = RuleOrder] \in Memory
    BY <2>1, Typed DEF Memory, TypeInv, RecordsTypeOK
  <2> QED  BY <1>2, <2>2, ReadTyped DEF Point, EvalObs
<1>3. CASE EvalSkip(s)  BY <1>3, DueRule, ReadTyped DEF Point, EvalSkip
<1>4. CASE EvalUpdate(s)
  <2>1. PICK f \in Existing(Next1(s)) :
          Read(s, "eval.rule", "eval.rule",
               [Advance(s) EXCEPT !.draft = @ \cup {[f EXCEPT !.obs = Cites(Next1(s), mem[s].seen)]}])
    BY <1>4 DEF EvalUpdate
  <2>2. f \in FindingRow  BY DEF Existing, TypeInv, RecordsTypeOK
  <2>3. Cites(Next1(s), mem[s].seen) \in SUBSET Nat /\ Advance(s) \in Memory
    BY <1>4, DueRule DEF EvalUpdate, Due
  <2>4. [f EXCEPT !.obs = Cites(Next1(s), mem[s].seen)] \in FindingRow  BY <2>2, <2>3 DEF FindingRow
  <2>5. [Advance(s) EXCEPT !.draft = @ \cup {[f EXCEPT !.obs = Cites(Next1(s), mem[s].seen)]}] \in Memory
    BY <2>3, <2>4 DEF Memory
  <2> QED  BY <2>1, <2>5, ReadTyped DEF Point
<1>5. CASE EvalInsert(s)
  <2>1. Next1(s) \in Rule /\ Cites(Next1(s), mem[s].seen) \in SUBSET Nat /\ Advance(s) \in Memory
    BY <1>5, DueRule DEF EvalInsert, Due
  <2>2. Flushed(mem[s].draft) \subseteq FindingRow
    BY Typed, FlushedRows DEF Memory, TypeInv, RecordsTypeOK
  <2>3. find' \subseteq FindingRow
    BY <1>5, <2>1, <2>2 DEF EvalInsert, FindingRow, TypeInv, RecordsTypeOK, Status
  <2>4. [Advance(s) EXCEPT !.expired = TRUE, !.draft = {}] \in Memory  BY <2>1 DEF Memory
  <2>5. mem' \in [Req -> Memory]  BY <1>5, <2>4 DEF EvalInsert, TypeInv
  <2>6. announced' \subseteq Nat /\ nextId' \in Nat  BY <1>5 DEF EvalInsert, Announced, TypeInv, RecordsTypeOK
  <2> QED  BY <1>5, <2>3, <2>5, <2>6 DEF EvalInsert, TypeInv, RecordsTypeOK, history
<1>6. CASE EvalLost(s)  BY <1>6, RollbackTyped DEF EvalLost, TypeInv, RecordsTypeOK
<1>7. CASE EvalEnd(s)
  <2>1. Flushed(mem[s].draft) \subseteq FindingRow
    BY Typed, FlushedRows DEF Memory, TypeInv, RecordsTypeOK
  <2> QED  BY <1>7, <2>1, CloseTyped DEF EvalEnd, TypeInv, RecordsTypeOK, history
<1> QED  BY <1>1, <1>2, <1>3, <1>4, <1>5, <1>6, <1>7

(* The transitions lead from a status to a status. *)
LEMMA TransitionsType == ASSUME NEW old \in Status PROVE ValidTransitions[old] \subseteq Status
BY DEF ValidTransitions, Status, Decided

(* those of review_finding,                                                *)
LEMMA ReviewTyped ==
  ASSUME TypeInv, NEW s \in Req, Review(s) \/ ReviewWrite(s) \/ ReviewAppend(s)
  PROVE  TypeInv'
<1>1. CASE Review(s)
  <2>1. PICK f \in find : Begin(s, "review.write", [Blank EXCEPT !.draft = {f}])  BY <1>1 DEF Review
  <2>2. [Blank EXCEPT !.draft = {f}] \in Memory  BY BlankType DEF Memory, TypeInv, RecordsTypeOK
  <2> QED  BY <2>1, <2>2, BeginTyped DEF Point
<1>2. CASE ReviewWrite(s)
  <2>8. PICK f \in mem[s].draft : \E new \in ValidTransitions[f.status] :
          /\ find' = {IF g.id = f.id THEN [g EXCEPT !.status = new] ELSE g : g \in find}
          /\ mem' = [mem EXCEPT ![s] = [@ EXCEPT !.draft = {f}, !.verdict = {new}]]
    BY <1>2 DEF ReviewWrite
  <2>1. PICK new \in ValidTransitions[f.status] :
          /\ find' = {IF g.id = f.id THEN [g EXCEPT !.status = new] ELSE g : g \in find}
          /\ mem' = [mem EXCEPT ![s] = [@ EXCEPT !.draft = {f}, !.verdict = {new}]]
    BY <2>8
  <2>2. f \in FindingRow  BY Typed DEF Memory
  <2>3. new \in Status  BY <2>2, TransitionsType DEF FindingRow
  <2>4. \A g \in find : [g EXCEPT !.status = new] \in FindingRow
    BY <2>3 DEF FindingRow, TypeInv, RecordsTypeOK
  <2>5. find' \subseteq FindingRow  BY <2>1, <2>4 DEF TypeInv, RecordsTypeOK
  <2>6. [mem[s] EXCEPT !.draft = {f}, !.verdict = {new}] \in Memory  BY <2>2, <2>3, Typed DEF Memory
  <2>7. mem' \in [Req -> Memory]  BY <2>1, <2>6 DEF TypeInv
  <2> QED  BY <1>2, <2>5, <2>7 DEF ReviewWrite, TypeInv, RecordsTypeOK, history, Point
<1>3. CASE ReviewAppend(s)
  <2>1. reviews' \subseteq [finding : Nat, old : Status, new : Status]
    BY <1>3, Typed, EventsTyped DEF ReviewAppend, TypeInv, RecordsTypeOK
  <2> QED  BY <1>3, <2>1, CloseTyped DEF ReviewAppend, TypeInv, RecordsTypeOK, history
<1> QED  BY <1>1, <1>2, <1>3

(* those of the export,                                                    *)
LEMMA ExportTyped ==
  ASSUME TypeInv, NEW s \in Req,
         Export(s) \/ ExportObs(s) \/ ExportRel(s) \/ ExportAssess(s) \/ ExportFind(s) \/ ExportEnd(s)
  PROVE  TypeInv'
<1>1. CASE Export(s)
  <2>1. [Blank EXCEPT !.since = nextId] \in Memory  BY BlankType DEF Memory, TypeInv, RecordsTypeOK
  <2> QED  BY <1>1, <2>1, BeginTyped DEF Export, Point
<1>2. /\ [mem[s] EXCEPT !.seen = obs] \in Memory /\ [mem[s] EXCEPT !.links = rel] \in Memory
      /\ [mem[s] EXCEPT !.rated = assess] \in Memory /\ [mem[s] EXCEPT !.draft = find] \in Memory
  BY Typed DEF Memory, TypeInv, RecordsTypeOK
<1>3. CASE ExportObs(s)  BY <1>2, <1>3, ReadTyped DEF ExportObs, Point
<1>4. CASE ExportRel(s)  BY <1>2, <1>4, ReadTyped DEF ExportRel, Point
<1>5. CASE ExportAssess(s)  BY <1>2, <1>5, ReadTyped DEF ExportAssess, Point
<1>6. CASE ExportFind(s)  BY <1>2, <1>6, ReadTyped DEF ExportFind, Point
<1>7. CASE ExportEnd(s)  BY <1>7, CloseTyped DEF ExportEnd, TypeInv, RecordsTypeOK, records, history
<1> QED  BY <1>1, <1>3, <1>4, <1>5, <1>6, <1>7

(* an error anywhere,                                                      *)
LEMMA ErrorTyped == ASSUME TypeInv, NEW s \in Req, Error(s) PROVE TypeInv'
<1>1. fails' \in Nat /\ refused' \in BOOLEAN  BY DEF Error, TypeInv, RecordsTypeOK
<1>2. cut' \subseteq Nat  BY Typed DEF Error, TypeInv, RecordsTypeOK
<1> QED  BY <1>1, <1>2, RollbackTyped DEF Error

(* and an analysis that starts or ends.                                    *)
LEMMA AnalysisTyped ==
  ASSUME TypeInv, NEW a \in Analysis, StartAnalysis(a) \/ EndAnalysis(a) PROVE TypeInv'
<1>1. CASE StartAnalysis(a)
  BY <1>1 DEF StartAnalysis, TypeInv, RecordsTypeOK, requests, history
<1>2. CASE EndAnalysis(a)
  <2>1. anl' \in [Analysis -> {"absent", "running", "completed", "failed"}]
    BY <1>2 DEF EndAnalysis, TypeInv, RecordsTypeOK
  <2>2. Observed(a, nextId) \in ObservationRow  BY ObservedType DEF TypeInv, RecordsTypeOK
  <2>3. obs' \subseteq ObservationRow /\ nextId' \in Nat
    BY <1>2, <2>2, AnalysisNat DEF EndAnalysis, TypeInv, RecordsTypeOK
  <2> QED  BY <1>2, <2>1, <2>3 DEF EndAnalysis, TypeInv, RecordsTypeOK, requests, history
<1> QED  BY <1>1, <1>2

(* The first state is well formed. *)
LEMMA InitTyped == Init => TypeInv
<1> SUFFICES ASSUME Init PROVE TypeInv  OBVIOUS
<1>1. Fresh(Settled, 1) \subseteq ObservationRow  BY FreshType, CaseAssumption
<1>2. obs \subseteq ObservationRow /\ nextId \in Nat  BY <1>1, AnalysisNat DEF Init
<1>3. mem \in [Req -> Memory]  BY BlankType DEF Init
<1> QED  BY <1>2, <1>3 DEF Init, TypeInv, RecordsTypeOK, Point

(* Every step keeps the types. *)
LEMMA NextTyped == TypeInv /\ [Next]_vars => TypeInv'
<1> SUFFICES ASSUME TypeInv, [Next]_vars PROVE TypeInv'  OBVIOUS
<1>1. ASSUME NEW s \in Req, Request(s) \/ Step(s) \/ Error(s) PROVE TypeInv'
  BY <1>1, NormTyped, CorrTyped, AssessTyped, EvalTyped, ReviewTyped, ExportTyped, ErrorTyped
     DEF Request, Step
<1>2. ASSUME NEW a \in Analysis, StartAnalysis(a) \/ EndAnalysis(a) PROVE TypeInv'
  BY <1>2, AnalysisTyped
<1>3. CASE UNCHANGED vars
  BY <1>3 DEF TypeInv, RecordsTypeOK, vars, records, requests, history
<1> QED  BY <1>1, <1>2, <1>3 DEF Next

(* The rows, the statements and the memory of every request have the types *)
(* that RecordsTypeOK states, for any number of requests and analyses.     *)
THEOREM RecordsTypeCorrect == Spec => []RecordsTypeOK
<1>1. TypeInv => RecordsTypeOK  BY DEF TypeInv
<1> QED  BY <1>1, InitTyped, NextTyped, PTL DEF Spec

-----------------------------------------------------------------------------
(* Steps that store nothing *)

(* A step of s leaves the other requests alone. *)
Local(s) == \A t \in Req \ {s} : at'[t] = at[t] /\ mem'[t] = mem[t] /\ held'[t] = held[t]

(* A step that stores nothing, and neither passes the check of a DELETE of *)
(* observations nor ends a review.                                         *)
Quiet(s) == /\ Local(s)
            /\ UNCHANGED <<obs, rel, find, announced, reviews, nextId, cut>>
            /\ at[s] # "review.append" /\ at'[s] # "norm.store"

(* The statements that read or wait are quiet, and so is a rollback. *)
LEMMA BeginQuiet ==
  ASSUME TypeInv, NEW s \in Req, NEW first, first # "norm.store", NEW m, Begin(s, first, m)
  PROVE  Quiet(s)
BY DEF TypeInv, RecordsTypeOK, Begin, Quiet, Local, records

(* A step that only reads leaves the rows of Quiet alone,                  *)
LEMMA ReadQuiet ==
  ASSUME TypeInv, NEW s \in Req, NEW from, NEW to, from # "review.append", to # "norm.store", NEW m,
         Read(s, from, to, m)
  PROVE  Quiet(s)
BY DEF TypeInv, RecordsTypeOK, Read, Quiet, Local, records, history

(* as do a DELETE that finds its rows,                                     *)
LEMMA FindsQuiet ==
  ASSUME TypeInv, NEW s \in Req, NEW from, NEW to, from # "review.append", to # "norm.store", NEW rows,
         DeleteFinds(s, from, to, rows)
  PROVE  Quiet(s)
BY DEF TypeInv, RecordsTypeOK, DeleteFinds, Quiet, Local, records, history

(* one that removes them,                                                  *)
LEMMA RemovesQuiet ==
  ASSUME TypeInv, NEW s \in Req, NEW from, NEW to, from # "review.append", to # "norm.store", NEW rows,
         DeleteRemoves(s, from, to, rows)
  PROVE  Quiet(s)
BY DEF TypeInv, RecordsTypeOK, DeleteRemoves, Quiet, Local, records, history

(* A request that is closed leaves the others alone. *)
LEMMA CloseLocal == ASSUME TypeInv, NEW s \in Req, Close(s)
                    PROVE  Local(s) /\ at'[s] = "idle"
BY DEF TypeInv, RecordsTypeOK, Close, Local

(* A rollback is quiet.                                                    *)
LEMMA RollbackQuiet ==
  ASSUME TypeInv, NEW s \in Req, Rollback(s), cut' = cut, at[s] # "review.append"
  PROVE  Quiet(s)
BY CloseLocal DEF Rollback, Quiet, records

QuietStep(s) ==
  \/ Request(s) \/ NormSelect(s) \/ NormRemove(s)
  \/ CorrSelect(s) \/ CorrRemove(s) \/ CorrNothing(s) \/ CorrRefused(s)
  \/ AssessObs(s) \/ AssessRel(s) \/ AssessSelect(s) \/ AssessRemove(s)
  \/ EvalObs(s) \/ EvalSkip(s) \/ EvalUpdate(s) \/ EvalLost(s)
  \/ ExportObs(s) \/ ExportRel(s) \/ ExportAssess(s) \/ ExportFind(s) \/ ExportEnd(s)
  \/ Deadlock(s)

(* These steps store nothing. *)
LEMMA QuietSteps == ASSUME TypeInv, NEW s \in Req, QuietStep(s) PROVE Quiet(s)
<1>1. CASE Request(s)  BY <1>1, BeginQuiet DEF Request, Normalize, Correlate, Evaluate, Review, Export
<1>2. CASE NormSelect(s) \/ CorrSelect(s) \/ AssessSelect(s)
  BY <1>2, FindsQuiet DEF NormSelect, CorrSelect, AssessSelect
<1>3. CASE NormRemove(s) \/ CorrRemove(s) \/ AssessRemove(s)
  BY <1>3, RemovesQuiet DEF NormRemove, CorrRemove, AssessRemove
<1>4. CASE CorrNothing(s) \/ AssessObs(s) \/ AssessRel(s) \/ EvalObs(s) \/ EvalSkip(s) \/ EvalUpdate(s)
  BY <1>4, ReadQuiet DEF CorrNothing, AssessObs, AssessRel, EvalObs, EvalSkip, EvalUpdate
<1>5. CASE ExportObs(s) \/ ExportRel(s) \/ ExportAssess(s) \/ ExportFind(s)
  BY <1>5, ReadQuiet DEF ExportObs, ExportRel, ExportAssess, ExportFind
<1>6. CASE ExportEnd(s)  BY <1>6, CloseLocal DEF ExportEnd, Quiet, records, history
<1>7. CASE CorrRefused(s) \/ EvalLost(s)  BY <1>7, RollbackQuiet DEF CorrRefused, EvalLost, Due
<1>8. CASE Deadlock(s)  BY <1>8, RollbackQuiet DEF Deadlock, Blocked
<1> QED  BY <1>1, <1>2, <1>3, <1>4, <1>5, <1>6, <1>7, <1>8 DEF QuietStep

(* The steps of a request, the quiet ones together. *)
LEMMA StepCases ==
  ASSUME NEW s \in Req, Request(s) \/ Step(s) \/ Error(s)
  PROVE  \/ QuietStep(s) \/ NormCheck(s) \/ NormStore(s) \/ CorrStore(s) \/ AssessStore(s)
         \/ EvalInsert(s) \/ EvalEnd(s) \/ ReviewWrite(s) \/ ReviewAppend(s) \/ Error(s)
BY DEF Step, QuietStep

-----------------------------------------------------------------------------
(* Relations keep their observations *)

(* Between the check of its DELETE and its commit, a normalisation holds   *)
(* the observations that it removed; no relation can come to refer to one. *)
AnchorInv == /\ TypeInv /\ RelationsAnchored
             /\ \A s \in Req : at[s] = "norm.store" => Referring(held[s]) = {}

(* A step that removes no observation and adds no relation keeps this. *)
LEMMA Kept ==
  ASSUME AnchorInv, TypeInv', Ids(obs) \subseteq Ids(obs'), rel' \subseteq rel,
         \A t \in Req : at'[t] = "norm.store" => at[t] = "norm.store" /\ held'[t] = held[t]
  PROVE  AnchorInv'
<1>1. RelationsAnchored'
  <2>1. Referred(rel) \subseteq Ids(obs)  BY DEF AnchorInv, RelationsAnchored
  <2>2. Referred(rel') \subseteq Referred(rel)  BY DEF Referred
  <2>3. Referred(rel') \subseteq Ids(obs')  BY <2>1, <2>2
  <2>4. (Referred(rel))' = Referred(rel') /\ (Ids(obs))' = Ids(obs')  BY DEF Referred, Ids
  <2> QED  BY <2>3, <2>4 DEF RelationsAnchored
<1>2. ASSUME NEW t \in Req, at'[t] = "norm.store" PROVE Referring(held[t])' = {}
  BY <1>2 DEF AnchorInv, Referring
<1> QED  BY <1>1, <1>2 DEF AnchorInv

(* Every step of a request keeps it. *)
LEMMA AnchorStep ==
  ASSUME AnchorInv, TypeInv', NEW s \in Req, Request(s) \/ Step(s) \/ Error(s)
  PROVE  AnchorInv'
<1> USE DEF AnchorInv
<1>1. CASE QuietStep(s)  BY <1>1, QuietSteps, Kept DEF Quiet, Local
<1>2. CASE NormCheck(s)
  <2>1. CASE Referring(held[s]) = {} /\ at' = [at EXCEPT ![s] = "norm.store"]
             /\ UNCHANGED <<records, mem, target, held, history>>
    BY <2>1 DEF RelationsAnchored, records, TypeInv, RecordsTypeOK, Referring, Referred, Ids
  <2>2. CASE Rollback(s)
    BY <2>2, CloseLocal, Kept DEF Rollback, records, Local
  <2> QED  BY <1>2, <2>1, <2>2 DEF NormCheck
<1>3. CASE NormStore(s)
  <2>1. Local(s) /\ at'[s] = "idle"  BY <1>3, CloseLocal DEF NormStore
  <2>2. CASE obs' = obs  BY <1>3, <2>1, <2>2, Kept DEF NormStore, Local
  <2>3. CASE obs' = Without(obs, held[s]) \cup Fresh(mem[s].done, nextId)
    <3>1. Referring(held[s]) = {} /\ rel' = rel  BY <1>3 DEF NormStore
    <3>2. ASSUME NEW r \in rel PROVE r.a \in Ids(obs') /\ r.b \in Ids(obs')
      <4>1. r.a \in Ids(obs) /\ r.b \in Ids(obs)  BY DEF RelationsAnchored, Referred
      <4>2. r.a \notin held[s] /\ r.b \notin held[s]  BY <3>1 DEF Referring
      <4> QED  BY <4>1, <4>2, <2>3 DEF Ids, Without
    <3>3. RelationsAnchored'  BY <3>1, <3>2 DEF RelationsAnchored, Referred, Ids
    <3>4. ASSUME NEW t \in Req, at'[t] = "norm.store" PROVE Referring(held[t])' = {}
      BY <3>1, <3>4, <2>1 DEF Local, Referring
    <3> QED  BY <3>3, <3>4
  <2> QED  BY <1>3, <2>2, <2>3 DEF NormStore
<1>4. CASE CorrStore(s)
  <2> DEFINE new == NewRelations(s)
  <2>1. /\ Referred(new) \cap HeldByOthers(s) = {} /\ Referred(new) \subseteq Ids(obs)
        /\ rel' = Without(rel, held[s]) \cup new /\ obs' = obs
        /\ held' = [held EXCEPT ![s] = {}] /\ at' = [at EXCEPT ![s] = "assess.obs"]
    BY <1>4 DEF CorrStore, Anchored
  <2> HIDE DEF new
  <2>2. RelationsAnchored'
    BY <2>1 DEF RelationsAnchored, Referred, Ids, Without
  <2>3. ASSUME NEW t \in Req, at'[t] = "norm.store" PROVE Referring(held[t])' = {}
    <3>1. t # s /\ at[t] = "norm.store" /\ held'[t] = held[t]
      BY <2>1, <2>3 DEF TypeInv, RecordsTypeOK
    <3>2. Referred(new) \cap held[t] = {}  BY <2>1, <3>1 DEF HeldByOthers
    <3>3. \A r \in rel' : r.a \notin held[t] /\ r.b \notin held[t]
      BY <2>1, <3>1, <3>2 DEF Referring, Referred, Without
    <3> QED  BY <3>1, <3>3 DEF Referring
  <2> QED  BY <2>2, <2>3
<1>5. CASE AssessStore(s)
  BY <1>5, CloseLocal, Kept DEF AssessStore, Without, Local
<1>6. CASE EvalInsert(s)
  BY <1>6, Kept DEF EvalInsert
<1>7. CASE EvalEnd(s) \/ ReviewAppend(s)
  <2>1. Local(s) /\ at'[s] = "idle" /\ obs' = obs /\ rel' = rel
    BY <1>7, CloseLocal DEF EvalEnd, ReviewAppend
  <2> QED  BY <2>1, Kept DEF Local
<1>8. CASE ReviewWrite(s)
  BY <1>8, Kept DEF ReviewWrite, TypeInv, RecordsTypeOK
<1>9. CASE Error(s)
  BY <1>9, CloseLocal, Kept DEF Error, Rollback, records, Local
<1> QED  BY <1>1, <1>2, <1>3, <1>4, <1>5, <1>6, <1>7, <1>8, <1>9, StepCases

(* No interleaving of normalisations, correlations, errors and deadlocks   *)
(* leaves a stored relation without one of its observations.               *)
THEOREM RelationsStayAnchored == Spec => []RelationsAnchored
<1>1. Init => AnchorInv
  BY InitTyped DEF Init, AnchorInv, RelationsAnchored, Referred
<1>2. AnchorInv /\ [Next]_vars => AnchorInv'
  <2> SUFFICES ASSUME AnchorInv, [Next]_vars PROVE AnchorInv'  OBVIOUS
  <2>1. TypeInv'  BY NextTyped DEF AnchorInv
  <2>2. ASSUME NEW s \in Req, Request(s) \/ Step(s) \/ Error(s) PROVE AnchorInv'
    BY <2>1, <2>2, AnchorStep
  <2>3. ASSUME NEW a \in Analysis, StartAnalysis(a) \/ EndAnalysis(a) PROVE AnchorInv'
    <3>1. obs \subseteq obs' /\ rel' = rel /\ at' = at /\ held' = held
      BY <2>3 DEF StartAnalysis, EndAnalysis, requests
    <3> QED  BY <2>1, <3>1, Kept DEF Ids
  <2>4. CASE UNCHANGED vars  BY <2>1, <2>4, Kept DEF vars, records, requests
  <2> QED  BY <2>2, <2>3, <2>4 DEF Next
<1>3. AnchorInv => RelationsAnchored  BY DEF AnchorInv
<1> QED  BY <1>1, <1>2, <1>3, PTL DEF Spec

-----------------------------------------------------------------------------
(* Findings and their events *)

(* Ids of findings are drawn from the counter and used once. *)
FindingInv == TypeInv /\ FindingAudited /\ \A i \in Ids(find) : i < nextId

(* A step that keeps the ids of the findings keeps this. *)
LEMMA SameFindings ==
  ASSUME FindingInv, TypeInv', Ids(find') = Ids(find), announced' = announced, nextId' >= nextId,
         \A f, g \in find' : f.id = g.id => f = g
  PROVE  FindingInv'
<1>1. (Ids(find))' = Ids(find')  BY DEF Ids
<1>2. \A i \in Ids(find) : i \in Nat /\ i < nextId  BY IdsNat DEF FindingInv, TypeInv, RecordsTypeOK, FindingRow
<1> QED  BY <1>1, <1>2 DEF FindingInv, FindingAudited, TypeInv, RecordsTypeOK

(* The steps that write findings, and all others. *)
LEMMA FindingStep ==
  ASSUME FindingInv, TypeInv', NEW s \in Req, Request(s) \/ Step(s) \/ Error(s)
  PROVE  FindingInv'
<1>1. nextId \in Nat /\ Analyses \in Nat  BY AnalysisNat DEF FindingInv, TypeInv, RecordsTypeOK
<1>2. \A f, g \in find : f.id = g.id => f = g  BY DEF FindingInv, FindingAudited
<1>3. mem[s].draft \in SUBSET FindingRow /\ find \subseteq FindingRow
  BY Typed DEF FindingInv, Memory, TypeInv, RecordsTypeOK
<1>4. CASE EvalInsert(s)
  <2> DEFINE new == [id |-> nextId, rule |-> Next1(s), status |-> "GENERATED",
                     obs |-> Cites(Next1(s), mem[s].seen)]
  <2>1. find' = Flushed(mem[s].draft) \cup {new} /\ announced' = announced \cup {nextId} /\ nextId' = nextId + 1
    BY <1>4 DEF EvalInsert, Announced
  <2>2. new.id = nextId  OBVIOUS
  <2> HIDE DEF new
  <2>3. Ids(Flushed(mem[s].draft)) = Ids(find)
        /\ \A f, g \in Flushed(mem[s].draft) : f.id = g.id => f = g
    BY <1>2, <1>3, FlushedRows
  <2>4. Ids(find') = Ids(find) \cup {nextId}  BY <2>1, <2>2, <2>3 DEF Ids
  <2>5. \A f \in Flushed(mem[s].draft) : f.id # nextId
    BY <2>3, <1>1 DEF Ids, FindingInv
  <2>6. \A f, g \in find' : f.id = g.id => f = g  BY <2>1, <2>2, <2>3, <2>5
  <2>7. \A i \in Ids(find) : i \in Nat /\ i < nextId
    BY IdsNat DEF FindingInv, TypeInv, RecordsTypeOK, FindingRow
  <2>8. \A i \in Ids(find') : i < nextId'  BY <2>1, <2>4, <2>7, <1>1
  <2>9. announced' = Ids(find')  BY <2>1, <2>4 DEF FindingInv, FindingAudited
  <2>10. (Ids(find))' = Ids(find')  BY DEF Ids
  <2> QED  BY <2>6, <2>8, <2>9, <2>10 DEF FindingInv, FindingAudited
<1>5. CASE EvalEnd(s)
  <2>1. find' = Flushed(mem[s].draft) /\ announced' = announced /\ nextId' = nextId
    BY <1>5 DEF EvalEnd
  <2> QED  BY <1>1, <1>2, <1>3, <2>1, FlushedRows, SameFindings
<1>6. CASE ReviewWrite(s)
  <2>1. PICK f \in mem[s].draft : \E new \in ValidTransitions[f.status] :
          find' = {IF g.id = f.id THEN [g EXCEPT !.status = new] ELSE g : g \in find}
    BY <1>6 DEF ReviewWrite
  <2>2. PICK new \in ValidTransitions[f.status] :
          find' = {IF g.id = f.id THEN [g EXCEPT !.status = new] ELSE g : g \in find}
    BY <2>1
  <2> DEFINE upd(g) == IF g.id = f.id THEN [g EXCEPT !.status = new] ELSE g
  <2>3. \A g \in find : upd(g).id = g.id  BY <1>3 DEF FindingRow
  <2>4. find' = {upd(g) : g \in find}  BY <2>2
  <2> HIDE DEF upd
  <2>5. Ids(find') = Ids(find)  BY <2>3, <2>4 DEF Ids
  <2>6. ASSUME NEW p \in find', NEW q \in find', p.id = q.id PROVE p = q
    BY <2>3, <2>4, <2>6, <1>2
  <2>7. announced' = announced /\ nextId' = nextId  BY <1>6 DEF ReviewWrite
  <2> QED  BY <1>1, <2>5, <2>6, <2>7, SameFindings
<1>7. ASSUME find' = find, announced' = announced, nextId' >= nextId PROVE FindingInv'
  BY <1>2, <1>7, SameFindings
<1>8. CASE QuietStep(s)  BY <1>1, <1>7, <1>8, QuietSteps DEF Quiet, FindingInv
<1>9. CASE NormCheck(s)  BY <1>1, <1>7, <1>9 DEF NormCheck, Rollback, records
<1>10. CASE NormStore(s)  BY <1>1, <1>7, <1>10 DEF NormStore
<1>11. CASE CorrStore(s) \/ AssessStore(s)  BY <1>1, <1>7, <1>11 DEF CorrStore, AssessStore
<1>12. CASE ReviewAppend(s) \/ Error(s)  BY <1>1, <1>7, <1>12 DEF ReviewAppend, Error, Rollback, records
<1> QED  BY <1>4, <1>5, <1>6, <1>8, <1>9, <1>10, <1>11, <1>12, StepCases

(* FindingInv is an invariant. *)
LEMMA FindingInvariant == Spec => [](FindingInv)
<1>1. Init => FindingInv
  BY InitTyped DEF Init, FindingInv, FindingAudited, Ids
<1>2. FindingInv /\ [Next]_vars => FindingInv'
  <2> SUFFICES ASSUME FindingInv, [Next]_vars PROVE FindingInv'  OBVIOUS
  <2>1. TypeInv'  BY NextTyped DEF FindingInv
  <2>2. ASSUME NEW s \in Req, Request(s) \/ Step(s) \/ Error(s) PROVE FindingInv'
    BY <2>1, <2>2, FindingStep
  <2>3. nextId \in Nat /\ Analyses \in Nat  BY AnalysisNat DEF FindingInv, TypeInv, RecordsTypeOK
  <2>4. \A f, g \in find : f.id = g.id => f = g  BY DEF FindingInv, FindingAudited
  <2>5. ASSUME NEW a \in Analysis, StartAnalysis(a) \/ EndAnalysis(a) PROVE FindingInv'
    BY <2>1, <2>3, <2>4, <2>5, SameFindings DEF StartAnalysis, EndAnalysis
  <2>6. CASE UNCHANGED vars  BY <2>1, <2>3, <2>4, <2>6, SameFindings DEF vars, records
  <2> QED  BY <2>2, <2>5, <2>6 DEF Next
<1> QED  BY <1>1, <1>2, PTL DEF Spec

(* However evaluations and reviews interleave and fail, the findings that  *)
(* are stored are exactly those that the audit trail announces.            *)
THEOREM EveryFindingAudited == Spec => []FindingAudited
<1>1. FindingInv => FindingAudited  BY DEF FindingInv
<1> QED  BY <1>1, FindingInvariant, PTL

(* No step takes a finding away or makes a reviewed one unreviewed. *)
LEMMA StaysStep ==
  ASSUME TypeInv, [Next]_vars
  PROVE  \A f \in find : \E g \in find' :
           /\ g.id = f.id /\ g.rule = f.rule
           /\ f.status # "GENERATED" => g.status # "GENERATED"
<1> SUFFICES ASSUME NEW f \in find
             PROVE \E g \in find' : /\ g.id = f.id /\ g.rule = f.rule
                                    /\ f.status # "GENERATED" => g.status # "GENERATED"
  OBVIOUS
<1>1. CASE find' = find  BY <1>1
<1>2. ASSUME NEW s \in Req, EvalInsert(s) \/ EvalEnd(s)
      PROVE \E g \in find' : g.id = f.id /\ g.rule = f.rule /\ g.status = f.status
  <2>1. Flushed(mem[s].draft) \subseteq find'  BY <1>2 DEF EvalInsert, EvalEnd
  <2>2. mem[s].draft \in SUBSET FindingRow /\ find \subseteq FindingRow
    BY Typed DEF Memory, TypeInv, RecordsTypeOK
  <2> QED  BY <2>1, <2>2, FlushedRows
<1>3. ASSUME NEW s \in Req, ReviewWrite(s)
      PROVE \E g \in find' : /\ g.id = f.id /\ g.rule = f.rule
                             /\ f.status # "GENERATED" => g.status # "GENERATED"
  <2>1. PICK h \in mem[s].draft : \E new \in ValidTransitions[h.status] :
          find' = {IF g.id = h.id THEN [g EXCEPT !.status = new] ELSE g : g \in find}
    BY <1>3 DEF ReviewWrite
  <2>2. PICK new \in ValidTransitions[h.status] :
          find' = {IF g.id = h.id THEN [g EXCEPT !.status = new] ELSE g : g \in find}
    BY <2>1
  <2>3. h.status \in Status  BY Typed DEF Memory, FindingRow
  <2>4. new # "GENERATED"  BY <2>3 DEF ValidTransitions, Decided, Status
  <2>5. f \in FindingRow  BY DEF TypeInv, RecordsTypeOK
  <2>6. [f EXCEPT !.status = new].id = f.id /\ [f EXCEPT !.status = new].rule = f.rule
        /\ [f EXCEPT !.status = new].status = new
    BY <2>5 DEF FindingRow
  <2> QED  BY <2>2, <2>4, <2>6
<1>4. ASSUME NEW s \in Req, Request(s) \/ Step(s) \/ Error(s),
             ~EvalInsert(s), ~EvalEnd(s), ~ReviewWrite(s)
      PROVE find' = find
  <2>1. CASE QuietStep(s)  BY <2>1, QuietSteps DEF Quiet
  <2>2. CASE NormCheck(s) \/ NormStore(s)  BY <2>2 DEF NormCheck, NormStore, Rollback, records
  <2>3. CASE CorrStore(s) \/ AssessStore(s) \/ ReviewAppend(s) \/ Error(s)
    BY <2>3 DEF CorrStore, AssessStore, ReviewAppend, Error, Rollback, records
  <2> QED  BY <1>4, <2>1, <2>2, <2>3, StepCases
<1>5. ASSUME NEW a \in Analysis, StartAnalysis(a) \/ EndAnalysis(a) PROVE find' = find
  BY <1>5 DEF StartAnalysis, EndAnalysis
<1>6. CASE UNCHANGED vars  BY <1>1, <1>6 DEF vars, records
<1> QED  BY <1>1, <1>2, <1>3, <1>4, <1>5, <1>6 DEF Next

(* Whatever copies of a finding evaluations hold while it is reviewed, its *)
(* review is not undone.                                                   *)
THEOREM ReviewsStay == Spec => ReviewStays
<1>1. TypeInv /\ [Next]_vars =>
        [\A f \in find : \E g \in find' :
           /\ g.id = f.id /\ g.rule = f.rule
           /\ f.status # "GENERATED" => g.status # "GENERATED"]_vars
  BY StaysStep
<1> QED  BY <1>1, InitTyped, NextTyped, PTL DEF Spec, ReviewStays

-----------------------------------------------------------------------------
(* Reviews and their events *)

(* A request that has written the status of a finding and has not appended *)
(* the event knows the status that it has written.                         *)
AboutToAppend(s, f) ==
  at[s] = "review.append" /\ f.id \in Ids(mem[s].draft) /\ f.status \in mem[s].verdict
Accounted(f) ==
  \/ f.status = "GENERATED"
  \/ \E e \in reviews : e.finding = f.id /\ e.new = f.status
  \/ \E s \in Req : AboutToAppend(s, f)
  \/ f.id \in cut
ReviewInv == TypeInv /\ \A f \in find : Accounted(f)

(* A step that gives no finding another status, and after which the        *)
(* requests that are about to append still are.                            *)
LEMMA SameStatuses ==
  ASSUME ReviewInv, TypeInv', reviews \subseteq reviews', cut \subseteq cut',
         \A g \in find' : g.status = "GENERATED" \/ \E f \in find : g.id = f.id /\ g.status = f.status,
         \A t \in Req : at[t] = "review.append" => at'[t] = at[t] /\ mem'[t] = mem[t]
  PROVE  ReviewInv'
<1> SUFFICES ASSUME NEW g \in find', g.status # "GENERATED"
             PROVE  Accounted(g)'
  BY DEF ReviewInv, Accounted
<1>1. PICK f \in find : g.id = f.id /\ g.status = f.status  OBVIOUS
<1>2. CASE \E e \in reviews : e.finding = f.id /\ e.new = f.status
  BY <1>1, <1>2 DEF Accounted
<1>3. ASSUME NEW t \in Req, AboutToAppend(t, f) PROVE Accounted(g)'
  BY <1>1, <1>3 DEF Accounted, AboutToAppend, Ids
<1>4. CASE f.id \in cut  BY <1>1, <1>4 DEF Accounted
<1>5. Accounted(f) /\ f.status # "GENERATED"  BY <1>1 DEF ReviewInv
<1> QED  BY <1>2, <1>3, <1>4, <1>5 DEF Accounted

(* A review accounts for the status it writes. *)
LEMMA ReviewStep ==
  ASSUME ReviewInv, TypeInv', NEW s \in Req, Request(s) \/ Step(s) \/ Error(s)
  PROVE  ReviewInv'
<1> USE DEF ReviewInv
<1>1. mem[s].draft \in SUBSET FindingRow /\ find \subseteq FindingRow
  BY Typed DEF Memory, TypeInv, RecordsTypeOK
<1>2. CASE QuietStep(s)  BY <1>2, QuietSteps, SameStatuses DEF Quiet, Local
<1>3. CASE NormCheck(s)
  <2>1. at[s] # "review.append" /\ find' = find /\ reviews' = reviews /\ cut' = cut
    BY <1>3 DEF NormCheck, Rollback, records, history
  <2>2. Local(s)  BY <1>3, CloseLocal DEF NormCheck, Rollback, Local, TypeInv, RecordsTypeOK
  <2> QED  BY <2>1, <2>2, SameStatuses DEF Local
<1>4. CASE NormStore(s) \/ CorrStore(s) \/ AssessStore(s)
  <2>1. at[s] # "review.append" /\ find' = find /\ reviews' = reviews /\ cut' = cut
    BY <1>4 DEF NormStore, CorrStore, AssessStore
  <2>2. \A t \in Req \ {s} : at'[t] = at[t] /\ mem'[t] = mem[t]
    BY <1>4, CloseLocal DEF NormStore, CorrStore, AssessStore, Local, TypeInv, RecordsTypeOK
  <2> QED  BY <2>1, <2>2, SameStatuses
<1>5. CASE EvalInsert(s) \/ EvalEnd(s)
  <2>1. at[s] # "review.append" /\ reviews' = reviews /\ cut' = cut
    BY <1>5 DEF EvalInsert, EvalEnd, Due, history
  <2>2. \A t \in Req \ {s} : at'[t] = at[t] /\ mem'[t] = mem[t]
    BY <1>5, CloseLocal DEF EvalInsert, EvalEnd, Local, TypeInv, RecordsTypeOK
  <2>3. \A g \in Flushed(mem[s].draft) : \E f \in find : g.id = f.id /\ g.status = f.status
    BY <1>1 DEF Flushed, FindingRow
  <2>4. \A g \in find' : g \in Flushed(mem[s].draft) \/ g.status = "GENERATED"
    BY <1>5 DEF EvalInsert, EvalEnd
  <2> QED  BY <2>1, <2>2, <2>3, <2>4, SameStatuses
<1>6. CASE ReviewWrite(s)
  <2>1. PICK f \in mem[s].draft : \E new \in ValidTransitions[f.status] :
          /\ find' = {IF g.id = f.id THEN [g EXCEPT !.status = new] ELSE g : g \in find}
          /\ mem' = [mem EXCEPT ![s] = [@ EXCEPT !.draft = {f}, !.verdict = {new}]]
    BY <1>6 DEF ReviewWrite
  <2>2. PICK new \in ValidTransitions[f.status] :
          /\ find' = {IF g.id = f.id THEN [g EXCEPT !.status = new] ELSE g : g \in find}
          /\ mem' = [mem EXCEPT ![s] = [@ EXCEPT !.draft = {f}, !.verdict = {new}]]
    BY <2>1
  <2>3. at' = [at EXCEPT ![s] = "review.append"] /\ at[s] = "review.write"
        /\ reviews' = reviews /\ cut' = cut
    BY <1>6 DEF ReviewWrite, history
  <2>4. mem'[s].draft = {f} /\ mem'[s].verdict = {new} /\ at'[s] = "review.append"
    BY <2>2, <2>3, Typed DEF TypeInv, RecordsTypeOK, Memory
  <2>5. \A t \in Req \ {s} : at'[t] = at[t] /\ mem'[t] = mem[t]
    BY <2>2, <2>3 DEF TypeInv, RecordsTypeOK
  <2>6. SUFFICES ASSUME NEW g \in find PROVE
          Accounted(IF g.id = f.id THEN [g EXCEPT !.status = new] ELSE g)'
    BY <2>2
  <2>7. CASE g.id = f.id
    <3>1. [g EXCEPT !.status = new].id = f.id /\ [g EXCEPT !.status = new].status = new
      BY <1>1, <2>7 DEF FindingRow
    <3>2. AboutToAppend(s, [g EXCEPT !.status = new])'
      BY <2>4, <3>1 DEF AboutToAppend, Ids
    <3> QED  BY <2>7, <3>2 DEF Accounted
  <2>8. CASE g.id # f.id
    <3>1. CASE \E t \in Req : AboutToAppend(t, g)
      BY <2>3, <2>5, <2>8, <3>1 DEF Accounted, AboutToAppend
    <3>2. CASE ~\E t \in Req : AboutToAppend(t, g)
      BY <2>3, <2>8, <3>2 DEF Accounted
    <3> QED  BY <3>1, <3>2
  <2> QED  BY <2>7, <2>8
<1>7. CASE ReviewAppend(s)
  <2>1. /\ reviews' = reviews \cup {[finding |-> f.id, old |-> f.status, new |-> n]
                                    : f \in mem[s].draft, n \in mem[s].verdict}
        /\ find' = find /\ cut' = cut /\ Local(s)
    BY <1>7, CloseLocal DEF ReviewAppend, history
  <2>2. SUFFICES ASSUME NEW g \in find PROVE Accounted(g)'  BY <2>1
  <2>3. CASE AboutToAppend(s, g)
    <3>1. PICK f \in mem[s].draft : f.id = g.id  BY <2>3 DEF AboutToAppend, Ids
    <3>2. g.status \in mem[s].verdict  BY <2>3 DEF AboutToAppend
    <3> DEFINE e == [finding |-> f.id, old |-> f.status, new |-> g.status]
    <3>3. e \in reviews'  BY <2>1, <3>1, <3>2
    <3> QED  BY <3>1, <3>3 DEF Accounted
  <2>4. CASE \E t \in Req \ {s} : AboutToAppend(t, g)
    BY <2>1, <2>4 DEF Accounted, AboutToAppend, Local
  <2>5. CASE ~\E t \in Req : AboutToAppend(t, g)
    BY <2>1, <2>5 DEF Accounted
  <2> QED  BY <2>3, <2>4, <2>5
<1>8. CASE Error(s)
  <2>1. find' = find /\ reviews' = reviews /\ Local(s) /\ cut \subseteq cut'
        /\ (at[s] = "review.append" => Ids(mem[s].draft) \subseteq cut')
    BY <1>8, CloseLocal DEF Error, Rollback, records
  <2>2. SUFFICES ASSUME NEW g \in find PROVE Accounted(g)'  BY <2>1
  <2>3. CASE AboutToAppend(s, g)  BY <2>1, <2>3 DEF AboutToAppend, Accounted
  <2>4. CASE \E t \in Req \ {s} : AboutToAppend(t, g)
    BY <2>1, <2>4 DEF Accounted, AboutToAppend, Local
  <2>5. CASE ~\E t \in Req : AboutToAppend(t, g)
    BY <2>1, <2>5 DEF Accounted
  <2> QED  BY <2>3, <2>4, <2>5
<1> QED  BY <1>2, <1>3, <1>4, <1>5, <1>6, <1>7, <1>8, StepCases

(* A status other than GENERATED is always accounted for by a review event *)
(* of that status, by a request that is about to append one, or by an      *)
(* append that failed, however reviews of one finding overlap              *)
(* (FindingService.review_finding).                                        *)
THEOREM StatusesAudited == Spec => []StatusAudited
<1>1. Init => ReviewInv  BY InitTyped DEF Init, ReviewInv
<1>2. ReviewInv /\ [Next]_vars => ReviewInv'
  <2> SUFFICES ASSUME ReviewInv, [Next]_vars PROVE ReviewInv'  OBVIOUS
  <2>1. TypeInv'  BY NextTyped DEF ReviewInv
  <2>2. ASSUME NEW s \in Req, Request(s) \/ Step(s) \/ Error(s) PROVE ReviewInv'
    BY <2>1, <2>2, ReviewStep
  <2>3. ASSUME NEW a \in Analysis, StartAnalysis(a) \/ EndAnalysis(a) PROVE ReviewInv'
    BY <2>1, <2>3, SameStatuses DEF StartAnalysis, EndAnalysis, requests, history
  <2>4. CASE UNCHANGED vars
    BY <2>1, <2>4, SameStatuses DEF vars, records, requests, history
  <2> QED  BY <2>2, <2>3, <2>4 DEF Next
<1>3. ReviewInv => StatusAudited
  BY DEF ReviewInv, Accounted, AboutToAppend, StatusAudited
<1> QED  BY <1>1, <1>2, <1>3, PTL DEF Spec

-----------------------------------------------------------------------------
(* What rows and requests cite *)

(* The ids of observations and relations that are stored or were dropped.  *)
KnownObs == Ids(obs) \cup dropped
KnownRel == Ids(rel) \cup dropped

(* Rows cite what is stored or was dropped, and so does a request.         *)
RowsKnown ==
  /\ Referred(rel) \subseteq KnownObs
  /\ \A x \in assess : x.obs \subseteq KnownObs /\ x.rel \subseteq KnownRel
  /\ \A f \in find : f.obs \subseteq KnownObs
Remembers(m) ==
  /\ Ids(m.seen) \subseteq KnownObs
  /\ Ids(m.links) \subseteq KnownRel /\ Referred(m.links) \subseteq KnownObs
  /\ \A x \in m.rated : x.obs \subseteq KnownObs /\ x.rel \subseteq KnownRel
  /\ \A f \in m.draft : f.obs \subseteq KnownObs

(* What an export has read of a table holds what is there now, but for the *)
(* rows that were stored since it began.                                   *)
PastObs == {"export.rel", "export.assess", "export.find", "export.done"}
PastRel == {"export.assess", "export.find", "export.done"}
Covers(point, m) ==
  /\ point \in {"export.obs"} \cup PastObs => m.since <= nextId
  /\ point \in PastObs => \A i \in Ids(obs) : i \in Ids(m.seen) \/ i >= m.since
  /\ point \in PastRel => \A i \in Ids(rel) : i \in Ids(m.links) \/ i >= m.since

CitedInv == TypeInv /\ RowsKnown /\ \A s \in Req : Remembers(mem[s]) /\ Covers(at[s], mem[s])

(* Rows are added with new ids, and recorded as dropped when they go.      *)
Grows ==
  /\ Ids(obs) \subseteq KnownObs' /\ Ids(rel) \subseteq KnownRel' /\ dropped \subseteq dropped'
  /\ \A i \in Ids(obs') : i \in Ids(obs) \/ i >= nextId
  /\ \A i \in Ids(rel') : i \in Ids(rel) \/ i >= nextId
  /\ nextId' >= nextId

(* What was known stays known, and what an export holds stays enough. *)
LEMMA StaysKnown ==
  ASSUME TypeInv, TypeInv', Grows, NEW m \in Memory, NEW point, Remembers(m), Covers(point, m)
  PROVE  Remembers(m)' /\ Covers(point, m)'
<1>1. KnownObs \subseteq KnownObs' /\ KnownRel \subseteq KnownRel'
  BY DEF Grows, KnownObs, KnownRel
<1>2. Remembers(m)'  BY <1>1 DEF Remembers
<1>3. nextId \in Nat /\ nextId' \in Nat /\ m.since \in Nat
  BY DEF TypeInv, RecordsTypeOK, Memory
<1>4. \A i \in Ids(obs') : i \in Nat  BY IdsNat DEF TypeInv, RecordsTypeOK, ObservationRow
<1>5. \A i \in Ids(rel') : i \in Nat  BY IdsNat DEF TypeInv, RecordsTypeOK, RelationRow
<1>6. (Ids(obs))' = Ids(obs') /\ (Ids(rel))' = Ids(rel')
      /\ (Ids(m.seen))' = Ids(m.seen) /\ (Ids(m.links))' = Ids(m.links)
  BY DEF Ids
<1>7. Covers(point, m)'
  BY <1>3, <1>4, <1>5, <1>6 DEF Covers, Grows, PastObs, PastRel
<1> QED  BY <1>2, <1>7

(* A step of one request, of which the rows and its memory are known. *)
LEMMA CitedStep ==
  ASSUME CitedInv, TypeInv', Grows, RowsKnown', NEW s \in Req,
         \A t \in Req \ {s} : at'[t] = at[t] /\ mem'[t] = mem[t],
         Remembers(mem[s])', Covers(at[s], mem[s])'
  PROVE  CitedInv'
<1>1. ASSUME NEW t \in Req, t # s PROVE Remembers(mem[t])' /\ Covers(at[t], mem[t])'
  <2>1. mem[t] \in Memory /\ Remembers(mem[t]) /\ Covers(at[t], mem[t])
    BY Typed DEF CitedInv
  <2> DEFINE m == mem[t]
             point == at[t]
  <2>2. Remembers(m) /\ Covers(point, m) /\ m \in Memory  BY <2>1
  <2>3. mem'[t] = m /\ at'[t] = point  BY <1>1
  <2> HIDE DEF m, point
  <2> QED  BY <2>2, <2>3, StaysKnown DEF CitedInv, Remembers, Covers, KnownObs, KnownRel, Ids, Referred
<1> QED  BY <1>1 DEF CitedInv

(* A step that stores nothing and leaves request s at `point` with memory m. *)
LEMMA StillCited ==
  ASSUME CitedInv, TypeInv', UNCHANGED <<obs, rel, assess, find, nextId, dropped>>, NEW s \in Req,
         \A t \in Req \ {s} : at'[t] = at[t] /\ mem'[t] = mem[t],
         NEW m, NEW point, mem'[s] = m, at'[s] = point, Remembers(m), Covers(point, m)
  PROVE  CitedInv'
<1>1. KnownObs' = KnownObs /\ KnownRel' = KnownRel /\ (Ids(obs))' = Ids(obs) /\ (Ids(rel))' = Ids(rel)
  BY DEF KnownObs, KnownRel, Ids
<1>2. Grows
  BY <1>1 DEF Grows, KnownObs, KnownRel, TypeInv, RecordsTypeOK, CitedInv
<1>3. RowsKnown'
  BY <1>1 DEF CitedInv, RowsKnown, Referred
<1>4. Remembers(m)'  BY <1>1 DEF Remembers, Ids, Referred
<1>5. Remembers(mem[s])'  BY <1>1, <1>4 DEF Remembers, Ids, Referred
<1>6. Covers(at[s], mem[s])'  BY <1>1 DEF Covers, Ids
<1> QED  BY <1>2, <1>3, <1>5, <1>6, CitedStep

(* A request that begins has read at most one table; one that has ended    *)
(* remembers nothing.                                                      *)
LEMMA StartCited ==
  ASSUME CitedInv, NEW m, m.seen \in {{}, obs}, m.links = {}, m.rated = {}, m.draft \subseteq find
  PROVE  Remembers(m)
BY DEF CitedInv, RowsKnown, Remembers, KnownObs, Referred, Ids

(* Only an export is checked for what it has read. *)
LEMMA NoExportCovers ==
  ASSUME NEW m, NEW point, point \notin {"export.obs"} \cup PastObs
  PROVE  Covers(point, m)
BY DEF Covers, PastObs, PastRel

(* Begin, Read and the two halves of a DELETE, given what s remembers. *)
LEMMA BeginCited ==
  ASSUME CitedInv, TypeInv', NEW s \in Req, NEW first, NEW m, Begin(s, first, m),
         Remembers(m), Covers(first, m)
  PROVE  CitedInv'
<1>1. mem'[s] = m /\ at'[s] = first /\ \A t \in Req \ {s} : at'[t] = at[t] /\ mem'[t] = mem[t]
  BY DEF Begin, CitedInv, TypeInv, RecordsTypeOK
<1> QED  BY <1>1, StillCited DEF Begin, records

(* A read of a request that then remembers m.                              *)
LEMMA ReadCited ==
  ASSUME CitedInv, TypeInv', NEW s \in Req, NEW from, NEW to, NEW m, Read(s, from, to, m),
         Remembers(m), Covers(to, m)
  PROVE  CitedInv'
<1>1. mem'[s] = m /\ at'[s] = to /\ \A t \in Req \ {s} : at'[t] = at[t] /\ mem'[t] = mem[t]
  BY DEF Read, CitedInv, TypeInv, RecordsTypeOK
<1> QED  BY <1>1, StillCited DEF Read, records, history

(* A DELETE that finds or removes its rows.                                *)
LEMMA DeleteCited ==
  ASSUME CitedInv, TypeInv', NEW s \in Req, NEW from, NEW to, NEW rows,
         DeleteFinds(s, from, to, rows) \/ DeleteRemoves(s, from, to, rows),
         to \notin {"export.obs"} \cup PastObs
  PROVE  CitedInv'
<1>1. mem' = mem /\ at'[s] = to /\ \A t \in Req \ {s} : at'[t] = at[t] /\ mem'[t] = mem[t]
  BY DEF DeleteFinds, DeleteRemoves, CitedInv, TypeInv, RecordsTypeOK
<1>2. Remembers(mem[s]) /\ Covers(to, mem[s])  BY NoExportCovers DEF CitedInv
<1> QED  BY <1>1, <1>2, StillCited DEF DeleteFinds, DeleteRemoves, records, history

(* What a closed session leaves behind.                                    *)
LEMMA ClosedCited ==
  ASSUME CitedInv, NEW s \in Req, Close(s)
  PROVE  /\ mem'[s] = Blank /\ at'[s] = "idle" /\ \A t \in Req \ {s} : at'[t] = at[t] /\ mem'[t] = mem[t]
         /\ Remembers(Blank) /\ Covers("idle", Blank)
<1>1. mem'[s] = Blank /\ at'[s] = "idle" /\ \A t \in Req \ {s} : at'[t] = at[t] /\ mem'[t] = mem[t]
  BY DEF Close, CitedInv, TypeInv, RecordsTypeOK
<1>2. Remembers(Blank)  BY StartCited DEF Blank
<1>3. Covers("idle", Blank)  BY NoExportCovers DEF PastObs
<1> QED  BY <1>1, <1>2, <1>3

(* The end of a session that stores nothing.                               *)
LEMMA CloseCited ==
  ASSUME CitedInv, TypeInv', NEW s \in Req, Close(s), UNCHANGED <<obs, rel, assess, find, nextId, dropped>>
  PROVE  CitedInv'
BY ClosedCited, StillCited

(* What the rules take from the observations read, they cite by their ids. *)
LEMMA CitesRead == ASSUME NEW rule, NEW O PROVE Cites(rule, O) \subseteq Ids(O)
BY DEF Cites, Ids

(* A draft of findings that cite what was read leaves findings that do.    *)
LEMMA FlushedCites ==
  ASSUME find \subseteq FindingRow, NEW draft \in SUBSET FindingRow, NEW K,
         \A f \in find : f.obs \subseteq K, \A f \in draft : f.obs \subseteq K
  PROVE  \A f \in Flushed(draft) : f.obs \subseteq K
<1> SUFFICES ASSUME NEW f \in find
             PROVE  (IF f.id \in Ids(draft)
                     THEN [f EXCEPT !.obs = (CHOOSE d \in draft : d.id = f.id).obs] ELSE f).obs \subseteq K
  BY DEF Flushed
<1>1. CASE f.id \notin Ids(draft)  BY <1>1
<1>2. CASE f.id \in Ids(draft)
  <2>1. PICK d \in draft : d.id = f.id  BY <1>2 DEF Ids
  <2>2. (CHOOSE e \in draft : e.id = f.id) \in draft  BY <2>1
  <2> DEFINE c == (CHOOSE e \in draft : e.id = f.id).obs
  <2>3. c \subseteq K  BY <2>2
  <2> HIDE DEF c
  <2>4. [f EXCEPT !.obs = c].obs = c  BY DEF FindingRow
  <2> QED  BY <1>2, <2>3, <2>4 DEF c
<1> QED  BY <1>1, <1>2

(* The statements that begin a request.                                    *)
LEMMA RequestCited == ASSUME CitedInv, TypeInv', NEW s \in Req, Request(s) PROVE CitedInv'
<1>1. CASE Normalize(s)
  <2> DEFINE m == [Blank EXCEPT !.done = Completed]
  <2>1. m.seen = {} /\ m.links = {} /\ m.rated = {} /\ m.draft = {}  BY DEF Blank
  <2>2. Begin(s, "norm.select", m)  BY <1>1 DEF Normalize
  <2> HIDE DEF m
  <2>3. Remembers(m) /\ Covers("norm.select", m)
    BY <2>1, StartCited, NoExportCovers DEF PastObs
  <2> QED  BY <2>2, <2>3, BeginCited
<1>2. CASE Correlate(s)
  <2> DEFINE m == [Blank EXCEPT !.seen = obs]
  <2>1. m.seen = obs /\ m.links = {} /\ m.rated = {} /\ m.draft = {}  BY DEF Blank
  <2>2. Begin(s, "corr.select", m)  BY <1>2 DEF Correlate
  <2> HIDE DEF m
  <2>3. Remembers(m) /\ Covers("corr.select", m)
    BY <2>1, StartCited, NoExportCovers DEF PastObs
  <2> QED  BY <2>2, <2>3, BeginCited
<1>3. CASE Evaluate(s)
  <2> DEFINE m == [Blank EXCEPT !.done = NewestCompleted(Rows), !.rows = Rows]
  <2>1. m.seen = {} /\ m.links = {} /\ m.rated = {} /\ m.draft = {}  BY DEF Blank
  <2>2. Begin(s, "eval.obs", m)  BY <1>3 DEF Evaluate
  <2> HIDE DEF m
  <2>3. Remembers(m) /\ Covers("eval.obs", m)
    BY <2>1, StartCited, NoExportCovers DEF PastObs
  <2> QED  BY <2>2, <2>3, BeginCited
<1>4. CASE Review(s)
  <2>1. PICK f \in find : Begin(s, "review.write", [Blank EXCEPT !.draft = {f}])  BY <1>4 DEF Review
  <2> DEFINE m == [Blank EXCEPT !.draft = {f}]
  <2>2. m.seen = {} /\ m.links = {} /\ m.rated = {} /\ m.draft = {f}  BY DEF Blank
  <2>3. Begin(s, "review.write", m)  BY <2>1
  <2> HIDE DEF m
  <2>4. Remembers(m) /\ Covers("review.write", m)
    BY <2>2, StartCited, NoExportCovers DEF PastObs
  <2> QED  BY <2>3, <2>4, BeginCited
<1>5. CASE Export(s)
  <2> DEFINE m == [Blank EXCEPT !.since = nextId]
  <2>1. m.seen = {} /\ m.links = {} /\ m.rated = {} /\ m.draft = {} /\ m.since = nextId  BY DEF Blank
  <2>2. Begin(s, "export.obs", m)  BY <1>5 DEF Export
  <2> HIDE DEF m
  <2>3. nextId \in Nat  BY DEF CitedInv, TypeInv, RecordsTypeOK
  <2>4. Remembers(m) /\ Covers("export.obs", m)
    BY <2>1, <2>3, StartCited DEF Covers, PastObs, PastRel
  <2> QED  BY <2>2, <2>4, BeginCited
<1> QED  BY <1>1, <1>2, <1>3, <1>4, <1>5 DEF Request

(* The statements that read.                                               *)
LEMMA ReadsCited ==
  ASSUME CitedInv, TypeInv', NEW s \in Req,
         \/ CorrNothing(s) \/ AssessObs(s) \/ AssessRel(s) \/ EvalObs(s) \/ EvalSkip(s) \/ EvalUpdate(s)
         \/ ExportObs(s) \/ ExportRel(s) \/ ExportAssess(s) \/ ExportFind(s)
  PROVE  CitedInv'
<1>1. mem[s] \in Memory /\ Remembers(mem[s]) /\ Covers(at[s], mem[s])  BY Typed DEF CitedInv
<1>2. CASE CorrNothing(s)
  <2>1. Covers("assess.obs", mem[s])  BY NoExportCovers DEF PastObs
  <2> QED  BY <1>1, <1>2, <2>1, ReadCited DEF CorrNothing
<1>3. CASE AssessObs(s) \/ EvalObs(s)
  <2> DEFINE m == IF at[s] = "assess.obs" THEN [mem[s] EXCEPT !.seen = obs]
                  ELSE [mem[s] EXCEPT !.seen = obs, !.todo = RuleOrder]
             to == IF at[s] = "assess.obs" THEN "assess.rel" ELSE "eval.rule"
  <2>1. /\ m.seen = obs /\ m.links = mem[s].links /\ m.rated = mem[s].rated /\ m.draft = mem[s].draft
    BY <1>1 DEF Memory
  <2>2. Read(s, at[s], to, m)  BY <1>3 DEF AssessObs, EvalObs, Read
  <2>3. Covers(to, m)  BY NoExportCovers DEF PastObs
  <2> HIDE DEF m, to
  <2>4. Remembers(m)  BY <1>1, <2>1 DEF Remembers, KnownObs
  <2> QED  BY <2>2, <2>3, <2>4, ReadCited
<1>4. CASE AssessRel(s)
  <2> DEFINE m == [mem[s] EXCEPT !.links = Without(rel, held[s])]
  <2>1. /\ m.seen = mem[s].seen /\ m.links = Without(rel, held[s])
        /\ m.rated = mem[s].rated /\ m.draft = mem[s].draft
    BY <1>1 DEF Memory
  <2>2. Read(s, "assess.rel", "assess.select", m)  BY <1>4 DEF AssessRel
  <2>3. Covers("assess.select", m)  BY NoExportCovers DEF PastObs
  <2> HIDE DEF m
  <2>4. Remembers(m)
    BY <1>1, <2>1 DEF Remembers, KnownRel, Without, Ids, Referred, CitedInv, RowsKnown
  <2> QED  BY <2>2, <2>3, <2>4, ReadCited
<1>5. CASE EvalSkip(s) \/ EvalUpdate(s)
  <2>1. PICK m : /\ Read(s, "eval.rule", "eval.rule", m)
                 /\ m.seen = mem[s].seen /\ m.links = mem[s].links /\ m.rated = mem[s].rated
                 /\ \A d \in m.draft : d.obs \subseteq KnownObs
    <3>1. CASE EvalSkip(s)
      <4> DEFINE m == Advance(s)
      <4>1. m.seen = mem[s].seen /\ m.links = mem[s].links /\ m.rated = mem[s].rated /\ m.draft = mem[s].draft
        BY <1>1 DEF Memory, Advance
      <4>2. Read(s, "eval.rule", "eval.rule", m)  BY <3>1 DEF EvalSkip
      <4> HIDE DEF m
      <4> QED  BY <1>1, <4>1, <4>2 DEF Remembers
    <3>2. CASE EvalUpdate(s)
      <4>1. PICK f \in Existing(Next1(s)) :
              Read(s, "eval.rule", "eval.rule",
                   [Advance(s) EXCEPT !.draft = @ \cup {[f EXCEPT !.obs = Cites(Next1(s), mem[s].seen)]}])
        BY <3>2 DEF EvalUpdate
      <4> DEFINE new == [f EXCEPT !.obs = Cites(Next1(s), mem[s].seen)]
                 m == [Advance(s) EXCEPT !.draft = @ \cup {new}]
      <4>2. new.obs = Cites(Next1(s), mem[s].seen)
        BY DEF CitedInv, TypeInv, RecordsTypeOK, Existing, FindingRow
      <4>3. Read(s, "eval.rule", "eval.rule", m)  BY <4>1
      <4> HIDE DEF new
      <4>4. /\ m.seen = mem[s].seen /\ m.links = mem[s].links /\ m.rated = mem[s].rated
            /\ m.draft = mem[s].draft \cup {new}
        BY <1>1 DEF Memory, Advance
      <4> HIDE DEF m
      <4>5. new.obs \subseteq KnownObs  BY <1>1, <4>2, CitesRead DEF Remembers
      <4> QED  BY <1>1, <4>3, <4>4, <4>5 DEF Remembers
    <3> QED  BY <1>5, <3>1, <3>2
  <2>2. Remembers(m)  BY <1>1, <2>1 DEF Remembers
  <2>3. Covers("eval.rule", m)  BY NoExportCovers DEF PastObs
  <2> QED  BY <2>1, <2>2, <2>3, ReadCited
<1>6. CASE ExportObs(s)
  <2> DEFINE m == [mem[s] EXCEPT !.seen = obs]
  <2>1. /\ m.seen = obs /\ m.links = mem[s].links /\ m.rated = mem[s].rated /\ m.draft = mem[s].draft
        /\ m.since = mem[s].since
    BY <1>1 DEF Memory
  <2>2. Read(s, "export.obs", "export.rel", m)  BY <1>6 DEF ExportObs
  <2> HIDE DEF m
  <2>3. Remembers(m)  BY <1>1, <2>1 DEF Remembers, KnownObs
  <2>4. Covers("export.rel", m)
    BY <1>1, <2>1, <2>2 DEF Covers, PastObs, PastRel, Read
  <2> QED  BY <2>2, <2>3, <2>4, ReadCited
<1>7. CASE ExportRel(s)
  <2> DEFINE m == [mem[s] EXCEPT !.links = rel]
  <2>1. /\ m.seen = mem[s].seen /\ m.links = rel /\ m.rated = mem[s].rated /\ m.draft = mem[s].draft
        /\ m.since = mem[s].since
    BY <1>1 DEF Memory
  <2>2. Read(s, "export.rel", "export.assess", m)  BY <1>7 DEF ExportRel
  <2> HIDE DEF m
  <2>3. Remembers(m)  BY <1>1, <2>1 DEF Remembers, KnownRel, CitedInv, RowsKnown
  <2>4. Covers("export.assess", m)
    BY <1>1, <2>1, <2>2 DEF Covers, PastObs, PastRel, Read
  <2> QED  BY <2>2, <2>3, <2>4, ReadCited
<1>8. CASE ExportAssess(s)
  <2> DEFINE m == [mem[s] EXCEPT !.rated = assess]
  <2>1. /\ m.seen = mem[s].seen /\ m.links = mem[s].links /\ m.rated = assess /\ m.draft = mem[s].draft
        /\ m.since = mem[s].since
    BY <1>1 DEF Memory
  <2>2. Read(s, "export.assess", "export.find", m)  BY <1>8 DEF ExportAssess
  <2> HIDE DEF m
  <2>3. Remembers(m)  BY <1>1, <2>1 DEF Remembers, CitedInv, RowsKnown
  <2>4. Covers("export.find", m)
    BY <1>1, <2>1, <2>2 DEF Covers, PastObs, PastRel, Read
  <2> QED  BY <2>2, <2>3, <2>4, ReadCited
<1>9. CASE ExportFind(s)
  <2> DEFINE m == [mem[s] EXCEPT !.draft = find]
  <2>1. /\ m.seen = mem[s].seen /\ m.links = mem[s].links /\ m.rated = mem[s].rated /\ m.draft = find
        /\ m.since = mem[s].since
    BY <1>1 DEF Memory
  <2>2. Read(s, "export.find", "export.done", m)  BY <1>9 DEF ExportFind
  <2> HIDE DEF m
  <2>3. Remembers(m)  BY <1>1, <2>1 DEF Remembers, CitedInv, RowsKnown
  <2>4. Covers("export.done", m)
    BY <1>1, <2>1, <2>2 DEF Covers, PastObs, PastRel, Read
  <2> QED  BY <2>2, <2>3, <2>4, ReadCited
<1> QED  BY <1>2, <1>3, <1>4, <1>5, <1>6, <1>7, <1>8, <1>9

(* New rows of a normalisation, and of an engine, have new ids.            *)
LEMMA FreshIds ==
  ASSUME NEW A \in SUBSET Analysis, NEW n \in Nat, NEW i \in Ids(Fresh(A, n)) PROVE i \in Nat /\ i >= n
<1>1. PICK a \in A : i = n + a  BY DEF Fresh, Observed, Ids
<1> QED  BY <1>1, AnalysisNat

(* The steps that replace observations or relations.                       *)
LEMMA StoreCited ==
  ASSUME CitedInv, TypeInv', NEW s \in Req, NormStore(s) \/ CorrStore(s) \/ AssessStore(s)
  PROVE  CitedInv'
<1>1. mem[s] \in Memory /\ Remembers(mem[s])  BY Typed DEF CitedInv
<1>2. nextId \in Nat /\ Analyses \in Nat /\ Ids(obs) \subseteq Nat /\ Ids(rel) \subseteq Nat
  BY AnalysisNat, Typed DEF CitedInv, TypeInv, RecordsTypeOK
<1>3. RowsKnown /\ TypeInv  BY DEF CitedInv
<1>4. (Ids(obs))' = Ids(obs') /\ (Ids(rel))' = Ids(rel')  BY DEF Ids
<1>5. CASE NormStore(s)
  <2>1. CASE UNCHANGED <<obs, nextId, dropped>>
    BY <1>5, <2>1, CloseCited DEF NormStore
  <2>2. CASE /\ obs' = Without(obs, held[s]) \cup Fresh(mem[s].done, nextId)
             /\ nextId' = nextId + Analyses + 1 /\ dropped' = dropped \cup held[s]
    <3>1. rel' = rel /\ assess' = assess /\ find' = find /\ Close(s)  BY <1>5 DEF NormStore
    <3>2. mem[s].done \in SUBSET Analysis  BY <1>1 DEF Memory
    <3>3. Ids(obs) \subseteq Ids(obs') \cup dropped'  BY <2>2 DEF Ids, Without
    <3>4. \A i \in Ids(obs') : i \in Ids(obs) \/ i >= nextId
      <4>1. Ids(obs') \subseteq Ids(obs) \cup Ids(Fresh(mem[s].done, nextId))
        BY <2>2 DEF Ids, Without
      <4> QED  BY <4>1, <3>2, <1>2, FreshIds
    <3>5. Grows
      <4>1. Ids(obs) \subseteq KnownObs' /\ Ids(rel) \subseteq KnownRel' /\ dropped \subseteq dropped'
        BY <1>4, <2>2, <3>1, <3>3 DEF KnownObs, KnownRel
      <4>2. \A i \in Ids(rel') : i \in Ids(rel)  BY <3>1
      <4>3. nextId' >= nextId  BY <1>2, <2>2
      <4> QED  BY <3>4, <4>1, <4>2, <4>3 DEF Grows
    <3>6. KnownObs \subseteq KnownObs' /\ KnownRel \subseteq KnownRel'
      BY <3>5 DEF Grows, KnownObs, KnownRel
    <3>7. RowsKnown'  BY <1>3, <3>1, <3>6 DEF RowsKnown, Referred
    <3>8. Remembers(mem[s])' /\ Covers(at[s], mem[s])'
      BY <3>1, ClosedCited DEF Remembers, Covers, PastObs, PastRel, Blank, Ids, Referred
    <3> QED  BY <3>1, <3>5, <3>7, <3>8, ClosedCited, CitedStep
  <2> QED  BY <1>5, <2>1, <2>2 DEF NormStore
<1>6. CASE CorrStore(s)
  <2> DEFINE new == NewRelations(s)
  <2>1. /\ Referred(new) \subseteq Ids(obs) /\ rel' = Without(rel, held[s]) \cup new
        /\ nextId' = nextId + 1 /\ dropped' = dropped \cup held[s]
        /\ obs' = obs /\ assess' = assess /\ find' = find /\ mem' = mem
        /\ at' = [at EXCEPT ![s] = "assess.obs"]
    BY <1>6 DEF CorrStore, Anchored
  <2>2. \A i \in Ids(new) : i = nextId  BY DEF NewRelations, Ids
  <2> HIDE DEF new
  <2>3. Ids(rel) \subseteq Ids(rel') \cup dropped'  BY <2>1 DEF Ids, Without
  <2>4. Ids(rel') \subseteq Ids(rel) \cup Ids(new)  BY <2>1 DEF Ids, Without
  <2>5. Grows
    <3>1. Ids(obs) \subseteq KnownObs' /\ Ids(rel) \subseteq KnownRel' /\ dropped \subseteq dropped'
      BY <1>4, <2>1, <2>3 DEF KnownObs, KnownRel
    <3>2. \A i \in Ids(obs') : i \in Ids(obs)  BY <2>1
    <3>3. \A i \in Ids(rel') : i \in Ids(rel) \/ i >= nextId  BY <1>2, <2>2, <2>4
    <3>4. nextId' >= nextId  BY <1>2, <2>1
    <3> QED  BY <3>1, <3>2, <3>3, <3>4 DEF Grows
  <2>6. KnownObs \subseteq KnownObs' /\ KnownRel \subseteq KnownRel'
    BY <2>5 DEF Grows, KnownObs, KnownRel
  <2>7. Referred(rel') \subseteq Referred(rel) \cup Referred(new)
    BY <2>1 DEF Referred, Without
  <2>8. (Referred(rel))' = Referred(rel')  BY DEF Referred
  <2>9. RowsKnown'
    BY <1>3, <2>1, <2>6, <2>7, <2>8 DEF RowsKnown, KnownObs
  <2>10. at'[s] = "assess.obs" /\ \A t \in Req \ {s} : at'[t] = at[t] /\ mem'[t] = mem[t]
    BY <1>3, <2>1 DEF TypeInv, RecordsTypeOK
  <2>11. Remembers(mem[s])'
    BY <1>1, <2>1, <2>6 DEF Remembers, Ids, Referred
  <2>12. Covers(at[s], mem[s])'  BY <2>10 DEF Covers, PastObs, PastRel
  <2> QED  BY <2>5, <2>9, <2>10, <2>11, <2>12, CitedStep
<1>7. CASE AssessStore(s)
  <2> DEFINE new == NewAssessment(s)
  <2>1. /\ assess' = Without(assess, held[s]) \cup {new} /\ rel' = Without(rel, held[s])
        /\ dropped' = dropped \cup (held[s] \cap Ids(rel)) /\ nextId' = nextId + 1
        /\ obs' = obs /\ find' = find /\ Close(s)
    BY <1>7 DEF AssessStore
  <2>2. new.obs = Ids(Contributing(mem[s].seen)) /\ new.rel = Ids(mem[s].links)
    BY DEF NewAssessment
  <2> HIDE DEF new
  <2>3. Ids(rel) \subseteq Ids(rel') \cup dropped'  BY <2>1 DEF Ids, Without
  <2>4. Ids(rel') \subseteq Ids(rel)  BY <2>1 DEF Ids, Without
  <2>5. Grows
    BY <1>2, <1>4, <2>1, <2>3, <2>4 DEF Grows, KnownObs, KnownRel
  <2>6. KnownObs \subseteq KnownObs' /\ KnownRel \subseteq KnownRel'
    BY <2>5 DEF Grows, KnownObs, KnownRel
  <2>7. (Referred(rel))' \subseteq Referred(rel)  BY <2>1 DEF Referred, Without
  <2>8. Ids(Contributing(mem[s].seen)) \subseteq Ids(mem[s].seen)  BY DEF Contributing, Ids
  <2>9. new.obs \subseteq KnownObs /\ new.rel \subseteq KnownRel
    BY <1>1, <2>2, <2>8 DEF Remembers
  <2>10. RowsKnown'
    BY <1>3, <2>1, <2>6, <2>7, <2>9 DEF RowsKnown, Without
  <2>11. Remembers(mem[s])' /\ Covers(at[s], mem[s])'
    BY <2>1, ClosedCited DEF Remembers, Covers, PastObs, PastRel, Blank, Ids, Referred
  <2> QED  BY <2>1, <2>5, <2>10, <2>11, ClosedCited, CitedStep
<1> QED  BY <1>5, <1>6, <1>7

(* A step that writes findings, of which what they cite is known. *)
LEMMA FindingsCited ==
  ASSUME CitedInv, TypeInv', UNCHANGED <<obs, rel, assess, dropped>>, nextId' \in {nextId, nextId + 1},
         \A f \in find' : f.obs \subseteq KnownObs, NEW s \in Req,
         \A t \in Req \ {s} : at'[t] = at[t] /\ mem'[t] = mem[t],
         NEW m, mem'[s] = m, Remembers(m), at'[s] \notin {"export.obs"} \cup PastObs
  PROVE  CitedInv'
<1>1. KnownObs' = KnownObs /\ KnownRel' = KnownRel  BY DEF KnownObs, KnownRel, Ids
<1>2. nextId \in Nat  BY DEF CitedInv, TypeInv, RecordsTypeOK
<1>3. (Ids(obs))' = Ids(obs) /\ (Ids(rel))' = Ids(rel)  BY DEF Ids
<1>4. Grows  BY <1>1, <1>2, <1>3 DEF Grows, KnownObs, KnownRel
<1>5. RowsKnown'  BY <1>1 DEF CitedInv, RowsKnown, Referred
<1>6. Remembers(mem[s])'  BY <1>1 DEF Remembers, Ids, Referred
<1>7. Covers(at[s], mem[s])'  BY DEF Covers, PastObs, PastRel
<1> QED  BY <1>4, <1>5, <1>6, <1>7, CitedStep

(* The steps that write findings.                                          *)
LEMMA WritesCited ==
  ASSUME CitedInv, TypeInv', NEW s \in Req, EvalInsert(s) \/ EvalEnd(s) \/ ReviewWrite(s)
  PROVE  CitedInv'
<1>1. mem[s] \in Memory /\ Remembers(mem[s])  BY Typed DEF CitedInv
<1>2. mem[s].draft \in SUBSET FindingRow /\ find \subseteq FindingRow
  BY <1>1 DEF Memory, CitedInv, TypeInv, RecordsTypeOK
<1>3. \A f \in find : f.obs \subseteq KnownObs  BY DEF CitedInv, RowsKnown
<1>4. \A f \in mem[s].draft : f.obs \subseteq KnownObs  BY <1>1 DEF Remembers
<1>5. \A f \in Flushed(mem[s].draft) : f.obs \subseteq KnownObs
  BY <1>2, <1>3, <1>4, FlushedCites
<1>6. CASE EvalInsert(s)
  <2> DEFINE new == [id |-> nextId, rule |-> Next1(s), status |-> "GENERATED",
                     obs |-> Cites(Next1(s), mem[s].seen)]
             m == [Advance(s) EXCEPT !.expired = TRUE, !.draft = {}]
  <2>1. /\ find' = Flushed(mem[s].draft) \cup {new} /\ nextId' = nextId + 1
        /\ mem' = [mem EXCEPT ![s] = m] /\ at' = at /\ at[s] = "eval.rule"
        /\ UNCHANGED <<obs, rel, assess, dropped>>
    BY <1>6 DEF EvalInsert, Due, history
  <2>2. new.obs \subseteq KnownObs  BY <1>1, CitesRead DEF Remembers
  <2>3. m.seen = mem[s].seen /\ m.links = mem[s].links /\ m.rated = mem[s].rated /\ m.draft = {}
    BY <1>1 DEF Memory, Advance
  <2> HIDE DEF new, m
  <2>4. Remembers(m)  BY <1>1, <2>3 DEF Remembers
  <2>5. mem'[s] = m /\ \A t \in Req \ {s} : at'[t] = at[t] /\ mem'[t] = mem[t]
    BY <2>1 DEF CitedInv, TypeInv
  <2>6. at'[s] \notin {"export.obs"} \cup PastObs  BY <2>1 DEF PastObs
  <2> QED  BY <1>5, <2>1, <2>2, <2>4, <2>5, <2>6, FindingsCited
<1>7. CASE EvalEnd(s)
  <2>1. find' = Flushed(mem[s].draft) /\ Close(s) /\ UNCHANGED <<obs, rel, assess, nextId, dropped>>
    BY <1>7 DEF EvalEnd, history
  <2>2. at'[s] \notin {"export.obs"} \cup PastObs  BY <2>1, ClosedCited DEF PastObs
  <2> QED  BY <1>5, <2>1, <2>2, ClosedCited, FindingsCited
<1>8. CASE ReviewWrite(s)
  <2>1. PICK f \in mem[s].draft : \E new \in ValidTransitions[f.status] :
          /\ find' = {IF g.id = f.id THEN [g EXCEPT !.status = new] ELSE g : g \in find}
          /\ mem' = [mem EXCEPT ![s] = [@ EXCEPT !.draft = {f}, !.verdict = {new}]]
    BY <1>8 DEF ReviewWrite
  <2>2. PICK new \in ValidTransitions[f.status] :
          /\ find' = {IF g.id = f.id THEN [g EXCEPT !.status = new] ELSE g : g \in find}
          /\ mem' = [mem EXCEPT ![s] = [@ EXCEPT !.draft = {f}, !.verdict = {new}]]
    BY <2>1
  <2> DEFINE m == [mem[s] EXCEPT !.draft = {f}, !.verdict = {new}]
  <2>3. m.seen = mem[s].seen /\ m.links = mem[s].links /\ m.rated = mem[s].rated /\ m.draft = {f}
    BY <1>1 DEF Memory
  <2>4. mem' = [mem EXCEPT ![s] = m]  BY <2>2
  <2> HIDE DEF m
  <2>5. Remembers(m)  BY <1>1, <2>3 DEF Remembers
  <2>6. at' = [at EXCEPT ![s] = "review.append"] /\ UNCHANGED <<obs, rel, assess, nextId, dropped>>
    BY <1>8 DEF ReviewWrite, history
  <2>7. at'[s] \notin {"export.obs"} \cup PastObs /\ mem'[s] = m
        /\ \A t \in Req \ {s} : at'[t] = at[t] /\ mem'[t] = mem[t]
    BY <2>4, <2>6 DEF CitedInv, TypeInv, RecordsTypeOK, PastObs
  <2>8. \A g \in find : [g EXCEPT !.status = new].obs = g.obs  BY <1>2 DEF FindingRow
  <2>9. \A g \in find' : g.obs \subseteq KnownObs  BY <1>3, <2>2, <2>8
  <2> QED  BY <2>5, <2>6, <2>7, <2>9, FindingsCited
<1> QED  BY <1>6, <1>7, <1>8

(* Whatever requests and workers do, rows cite what is stored or gone, and *)
(* an export holds what was there when it began and still is.              *)
LEMMA CitedNext == CitedInv /\ [Next]_vars => CitedInv'
<1> SUFFICES ASSUME CitedInv, [Next]_vars PROVE CitedInv'  OBVIOUS
<1>1. TypeInv'  BY NextTyped DEF CitedInv
<1>2. ASSUME NEW s \in Req, Request(s) \/ Step(s) \/ Error(s) PROVE CitedInv'
  <2>1. CASE Request(s)  BY <1>1, <2>1, RequestCited
  <2>2. CASE \/ CorrNothing(s) \/ AssessObs(s) \/ AssessRel(s) \/ EvalObs(s) \/ EvalSkip(s)
             \/ EvalUpdate(s) \/ ExportObs(s) \/ ExportRel(s) \/ ExportAssess(s) \/ ExportFind(s)
    BY <1>1, <2>2, ReadsCited
  <2>3. CASE \/ NormSelect(s) \/ NormRemove(s) \/ CorrSelect(s) \/ CorrRemove(s)
             \/ AssessSelect(s) \/ AssessRemove(s)
    BY <1>1, <2>3, DeleteCited
       DEF NormSelect, NormRemove, CorrSelect, CorrRemove, AssessSelect, AssessRemove, PastObs
  <2>4. CASE NormStore(s) \/ CorrStore(s) \/ AssessStore(s)  BY <1>1, <2>4, StoreCited
  <2>5. CASE EvalInsert(s) \/ EvalEnd(s) \/ ReviewWrite(s)  BY <1>1, <2>5, WritesCited
  <2>6. CASE ReviewAppend(s) \/ ExportEnd(s)
    BY <1>1, <2>6, CloseCited DEF ReviewAppend, ExportEnd, records, history
  <2>7. CASE CorrRefused(s) \/ EvalLost(s) \/ Deadlock(s) \/ Error(s)
    BY <1>1, <2>7, CloseCited DEF CorrRefused, EvalLost, Deadlock, Error, Rollback, records
  <2>8. CASE NormCheck(s)
    <3>1. CASE Rollback(s)  BY <1>1, <3>1, CloseCited DEF Rollback, records
    <3>2. CASE at' = [at EXCEPT ![s] = "norm.store"] /\ UNCHANGED <<records, mem, target, held, history>>
      <4>1. mem' = mem /\ at'[s] = "norm.store" /\ \A t \in Req \ {s} : at'[t] = at[t] /\ mem'[t] = mem[t]
        BY <3>2 DEF CitedInv, TypeInv, RecordsTypeOK
      <4>2. Remembers(mem[s]) /\ Covers("norm.store", mem[s])  BY NoExportCovers DEF CitedInv, PastObs
      <4> QED  BY <1>1, <3>2, <4>1, <4>2, StillCited DEF records, history
    <3> QED  BY <2>8, <3>1, <3>2 DEF NormCheck
  <2> QED  BY <1>2, <2>1, <2>2, <2>3, <2>4, <2>5, <2>6, <2>7, <2>8 DEF Step
<1>3. ASSUME Grows, UNCHANGED <<rel, assess, find, at, mem>> PROVE CitedInv'
  <2>1. KnownObs \subseteq KnownObs' /\ KnownRel \subseteq KnownRel'
    BY <1>3 DEF Grows, KnownObs, KnownRel
  <2>2. RowsKnown'  BY <1>3, <2>1 DEF CitedInv, RowsKnown, Referred
  <2>3. ASSUME NEW t \in Req PROVE Remembers(mem[t])' /\ Covers(at[t], mem[t])'
    <3> DEFINE m == mem[t]
               point == at[t]
    <3>1. Remembers(m) /\ Covers(point, m) /\ m \in Memory  BY Typed DEF CitedInv
    <3>2. mem'[t] = m /\ at'[t] = point  BY <1>3
    <3> HIDE DEF m, point
    <3> QED  BY <1>1, <1>3, <3>1, <3>2, StaysKnown
          DEF CitedInv, Remembers, Covers, KnownObs, KnownRel, Ids, Referred
  <2> QED  BY <1>1, <2>2, <2>3 DEF CitedInv
<1>4. ASSUME NEW a \in Analysis, StartAnalysis(a) \/ EndAnalysis(a) PROVE CitedInv'
  <2>1. UNCHANGED <<rel, assess, find, at, mem, dropped>>
    BY <1>4 DEF StartAnalysis, EndAnalysis, requests, history
  <2>2. nextId \in Nat /\ a \in Nat /\ Analyses \in Nat
    BY AnalysisNat DEF CitedInv, TypeInv, RecordsTypeOK
  <2>3. \/ obs' = obs /\ nextId' = nextId
        \/ obs' = obs \cup {Observed(a, nextId)} /\ nextId' = nextId + Analyses + 1
    BY <1>4 DEF StartAnalysis, EndAnalysis
  <2>4. Observed(a, nextId).id = nextId + a  BY DEF Observed
  <2>5. Ids(obs) \subseteq KnownObs' /\ Ids(rel) \subseteq KnownRel'
    BY <2>1, <2>3 DEF KnownObs, KnownRel, Ids
  <2>6. \A i \in Ids(obs') : i \in Ids(obs) \/ i >= nextId
    BY <2>2, <2>3, <2>4 DEF Ids
  <2>7. \A i \in Ids(rel') : i \in Ids(rel)  BY <2>1
  <2>8. nextId' >= nextId  BY <2>2, <2>3
  <2> QED  BY <1>3, <2>1, <2>5, <2>6, <2>7, <2>8 DEF Grows
<1>5. CASE UNCHANGED vars
  <2>1. nextId \in Nat  BY DEF CitedInv, TypeInv, RecordsTypeOK
  <2> QED  BY <1>3, <1>5, <2>1 DEF vars, records, requests, history, Grows, KnownObs, KnownRel, Ids
<1> QED  BY <1>2, <1>4, <1>5 DEF Next

(* Exports have no common snapshot (case_export.py:98). Even so, for any   *)
(* interleaving a reference that the import of the bundle would refuse is  *)
(* to a row that a request has dropped, or to one that was stored after    *)
(* the export began: a bundle made while nothing else runs has none.       *)
THEOREM BundlesExplained == Spec => []BundleExplained
<1>1. Init => CitedInv
  <2> SUFFICES ASSUME Init PROVE CitedInv  OBVIOUS
  <2>1. RowsKnown  BY DEF Init, RowsKnown, Referred
  <2>2. Remembers(Blank)  BY DEF Blank, Remembers, Ids, Referred
  <2>3. Covers("idle", Blank)  BY NoExportCovers DEF PastObs
  <2> QED  BY <2>1, <2>2, <2>3, InitTyped DEF Init, CitedInv
<1>2. CitedInv => BundleExplained
  <2> SUFFICES ASSUME CitedInv, NEW s \in Req, at[s] = "export.done", NEW i \in Dangling(mem[s])
               PROVE  i \in dropped \/ i >= mem[s].since
    BY DEF BundleExplained
  <2> DEFINE b == mem[s]
             cited == Referred(b.links) \cup (UNION {x.obs : x \in b.rated}) \cup (UNION {f.obs : f \in b.draft})
             linked == UNION {x.rel : x \in b.rated}
  <2>1. Remembers(b) /\ Covers(at[s], b)  BY DEF CitedInv
  <2>2. cited \subseteq KnownObs /\ linked \subseteq KnownRel  BY <2>1 DEF Remembers
  <2>3. i \in cited \ Ids(b.seen) \/ i \in linked \ Ids(b.links)
    <3>1. Dangling(b) = (cited \ Ids(b.seen)) \cup (linked \ Ids(b.links))  BY Zenon DEF Dangling
    <3> QED  BY <3>1
  <2>4. (\A j \in Ids(obs) : j \in Ids(b.seen) \/ j >= b.since)
        /\ (\A j \in Ids(rel) : j \in Ids(b.links) \/ j >= b.since)
    BY <2>1 DEF Covers, PastObs, PastRel
  <2> HIDE DEF b, cited, linked
  <2>5. i \in dropped \/ i >= b.since  BY <2>2, <2>3, <2>4 DEF KnownObs, KnownRel
  <2> QED  BY <2>5 DEF b
<1> QED  BY <1>1, <1>2, CitedNext, PTL DEF Spec

-----------------------------------------------------------------------------
(* Requests that never overlap *)

Lone == \A s, t \in Req : at[s] # "idle" /\ at[t] # "idle" => s = t

(* An observation is of a completed analysis; a request has read those that *)
(* were completed.                                                         *)
Sources == /\ \A o \in obs : anl[o.src] = "completed" /\ o.modality = Kind[o.src]
           /\ \A s \in Req : \A a \in mem[s].done : anl[a] = "completed"

(* Relations and assessments share no id, and the next one is new. *)
Numbered == /\ \A r \in rel : r.id < nextId
            /\ \A x \in assess : x.id < nextId
            /\ \A r \in rel : \A x \in assess : r.id # x.id

(* The observations that a normalisation makes again. *)
Measured == {o \in obs : o.modality \in Modality}

Assessing == {"assess.obs", "assess.rel", "assess.select", "assess.remove", "assess.store"}
Deleting == {"norm.remove", "norm.check", "norm.store", "corr.remove", "corr.store",
             "assess.select", "assess.remove", "assess.store"}

(* What a request is about to delete is all there is, and the relations     *)
(* that it assesses are those that it leaves.                              *)
Sure(s) ==
  /\ at[s] = "norm.remove" => Ids(Measured) \subseteq target[s]
  /\ at[s] \in {"norm.check", "norm.store"} => Ids(Measured) \subseteq held[s]
  /\ at[s] = "corr.remove" => Ids(rel) \subseteq target[s]
  /\ at[s] = "corr.store" => Ids(rel) \subseteq held[s]
  /\ at[s] = "assess.remove" => Ids(assess) \subseteq target[s]
  /\ at[s] = "assess.store" => Ids(assess) \subseteq held[s]
  /\ at[s] \in {"assess.select", "assess.remove", "assess.store"} => mem[s].links = Without(rel, held[s])

Single ==
  /\ \A f, g \in find : f.rule = g.rule => f = g
  /\ \A x, y \in assess : x = y
  /\ \A o, p \in obs : o.src = p.src => o = p
  /\ \A q, r \in rel : q.id = r.id

(* Only a request on its way to the assessment, or one that failed there,   *)
(* leaves relations that the assessment does not name.                     *)
Current == fails = 0 /\ (\A s \in Req : at[s] \notin Assessing) => \A x \in assess : x.rel = Ids(rel)

Alone == Lone /\ Single /\ Current /\ \A s \in Req : Sure(s)
AloneInv == TypeInv /\ Sources /\ Numbered /\ (overlapped \/ Alone)

(* A request that is not deleting anything is sure of what it deletes. *)
LEMMA SureElsewhere == ASSUME NEW s \in Req, at[s] \notin Deleting PROVE Sure(s)
BY DEF Sure, Deleting

(* While requests do not overlap, a step of one that is open finds the      *)
(* others idle.                                                            *)
LEMMA AloneFrame ==
  ASSUME AloneInv, TypeInv', NEW s \in Req, at[s] # "idle",
         \A t \in Req \ {s} : at'[t] = at[t], overlapped' = overlapped,
         Sources', Numbered', ~overlapped => Single' /\ Current' /\ Sure(s)'
  PROVE  AloneInv'
<1> SUFFICES ASSUME ~overlapped PROVE Alone'  BY DEF AloneInv
<1>1. Lone  BY DEF AloneInv, Alone
<1>2. \A t \in Req \ {s} : at'[t] = "idle"  BY <1>1 DEF Lone
<1>3. Lone'  BY <1>2 DEF Lone
<1>4. ASSUME NEW t \in Req \ {s} PROVE Sure(t)'  BY <1>2 DEF Sure
<1> QED  BY <1>3, <1>4 DEF Alone

SameRows == UNCHANGED <<obs, rel, assess, find>>

(* A step that writes no row keeps them single, and the assessment current. *)
LEMMA AloneRead ==
  ASSUME Alone, NEW s \in Req, SameRows, \A t \in Req \ {s} : at'[t] = at[t],
         fails' # 0 \/ (fails' = fails /\ (at[s] \in Assessing => at'[s] \in Assessing))
  PROVE  Single' /\ Current'
<1>1. Single'  BY DEF SameRows, Alone, Single
<1>2. Current'
  <2> SUFFICES ASSUME fails' = 0, \A t \in Req : at'[t] \notin Assessing, NEW x \in assess
               PROVE  x.rel = Ids(rel)
    BY DEF Current, SameRows, Ids
  <2>1. fails = 0 /\ \A t \in Req : at[t] \notin Assessing  OBVIOUS
  <2> QED  BY <2>1 DEF Alone, Current
<1> QED  BY <1>1, <1>2

(* Such a step and the sources. *)
LEMMA SourcesRead ==
  ASSUME Sources, NEW s \in Req, UNCHANGED <<obs, anl>>, \A t \in Req \ {s} : mem'[t] = mem[t],
         \A a \in mem'[s].done : anl[a] = "completed"
  PROVE  Sources'
BY DEF Sources

(* Such a step and the ids. *)
LEMMA NumberedRead ==
  ASSUME Numbered, UNCHANGED <<rel, assess, nextId>> PROVE Numbered'
BY DEF Numbered

(* So a step that stores nothing keeps the invariant when it keeps what its *)
(* request is sure of.                                                     *)
LEMMA AloneQuiet ==
  ASSUME AloneInv, TypeInv', NEW s \in Req, at[s] # "idle", UNCHANGED <<records, overlapped>>,
         \A t \in Req \ {s} : at'[t] = at[t] /\ mem'[t] = mem[t],
         mem'[s].done \subseteq mem[s].done,
         fails' # 0 \/ (fails' = fails /\ (at[s] \in Assessing => at'[s] \in Assessing)),
         Alone => Sure(s)'
  PROVE  AloneInv'
<1>1. UNCHANGED <<anl, obs, rel, assess, find, nextId>>  BY DEF records
<1>2. Sources'  BY <1>1, SourcesRead DEF AloneInv, Sources
<1>3. Numbered'  BY <1>1, NumberedRead DEF AloneInv
<1>4. ASSUME ~overlapped PROVE Single' /\ Current' /\ Sure(s)'
  <2>1. Alone  BY <1>4 DEF AloneInv
  <2> QED  BY <1>1, <2>1, AloneRead DEF SameRows
<1> QED  BY <1>2, <1>3, <1>4, AloneFrame

(* What a statement leaves of a request, *)
LEMMA ReadEffect ==
  ASSUME TypeInv, NEW s \in Req, NEW from, NEW to, NEW m, Read(s, from, to, m)
  PROVE  /\ at[s] = from /\ at'[s] = to /\ mem'[s] = m /\ held' = held /\ target' = target
         /\ \A t \in Req \ {s} : at'[t] = at[t] /\ mem'[t] = mem[t]
         /\ UNCHANGED <<records, overlapped, fails>>
BY DEF TypeInv, RecordsTypeOK, Read, history

(* of a DELETE that finds its rows, *)
LEMMA FindsEffect ==
  ASSUME TypeInv, NEW s \in Req, NEW from, NEW to, NEW rows, DeleteFinds(s, from, to, rows)
  PROVE  /\ at[s] = from /\ at'[s] = to /\ mem' = mem /\ held' = held /\ target'[s] = Ids(rows)
         /\ \A t \in Req \ {s} : at'[t] = at[t]
         /\ UNCHANGED <<records, overlapped, fails>>
<1> DEFINE ids == Ids(rows)
<1>1. target' = [target EXCEPT ![s] = ids]  BY DEF DeleteFinds
<1> HIDE DEF ids
<1>2. target'[s] = ids  BY <1>1 DEF TypeInv, RecordsTypeOK
<1> QED  BY <1>2 DEF ids, TypeInv, RecordsTypeOK, DeleteFinds, history

(* of one that removes them, *)
LEMMA RemovesEffect ==
  ASSUME TypeInv, NEW s \in Req, NEW from, NEW to, NEW rows, DeleteRemoves(s, from, to, rows)
  PROVE  /\ at[s] = from /\ at'[s] = to /\ mem' = mem /\ held'[s] = held[s] \cup (target[s] \cap Ids(rows))
         /\ \A t \in Req \ {s} : at'[t] = at[t]
         /\ UNCHANGED <<records, overlapped, fails>>
<1> DEFINE ids == target[s] \cap Ids(rows)
<1>1. held' = [held EXCEPT ![s] = @ \cup ids]  BY DEF DeleteRemoves
<1> HIDE DEF ids
<1>2. held'[s] = held[s] \cup ids  BY <1>1 DEF TypeInv, RecordsTypeOK
<1> QED  BY <1>2 DEF ids, TypeInv, RecordsTypeOK, DeleteRemoves, history

(* and of one that ends. *)
LEMMA CloseEffect ==
  ASSUME TypeInv, NEW s \in Req, Close(s)
  PROVE  /\ at'[s] = "idle" /\ mem'[s].done = {}
         /\ \A t \in Req \ {s} : at'[t] = at[t] /\ mem'[t] = mem[t]
BY DEF TypeInv, RecordsTypeOK, Close, Blank

(* A request that is rolled back leaves what it found. *)
LEMMA AloneRollback ==
  ASSUME AloneInv, TypeInv', NEW s \in Req, at[s] # "idle", Rollback(s),
         fails' # 0 \/ (fails' = fails /\ at[s] \notin Assessing)
  PROVE  AloneInv'
<1>1. at'[s] = "idle" /\ mem'[s].done = {} /\ \A t \in Req \ {s} : at'[t] = at[t] /\ mem'[t] = mem[t]
  BY CloseEffect DEF Rollback, AloneInv
<1>2. Sure(s)'  BY <1>1 DEF Sure
<1> QED  BY <1>1, <1>2, AloneQuiet DEF Rollback

(* The statements of the three deletions. *)
LEMMA AloneDelete ==
  ASSUME AloneInv, TypeInv', NEW s \in Req,
         \/ NormSelect(s) \/ NormRemove(s) \/ CorrSelect(s) \/ CorrRemove(s)
         \/ AssessSelect(s) \/ AssessRemove(s)
  PROVE  AloneInv'
<1>1. TypeInv  BY DEF AloneInv
<1>2. CASE NormSelect(s) \/ CorrSelect(s) \/ AssessSelect(s)
  <2>1. /\ at[s] # "idle" /\ mem' = mem /\ held' = held /\ UNCHANGED <<records, overlapped, fails>>
        /\ \A t \in Req \ {s} : at'[t] = at[t]
        /\ \/ at[s] = "norm.select" /\ at'[s] = "norm.remove" /\ target'[s] = Ids(obs)
           \/ at[s] = "corr.select" /\ at'[s] = "corr.remove" /\ target'[s] = Ids(rel)
           \/ at[s] = "assess.select" /\ at'[s] = "assess.remove" /\ target'[s] = Ids(assess)
    BY <1>1, <1>2, FindsEffect DEF NormSelect, CorrSelect, AssessSelect
  <2>2. ASSUME Alone PROVE Sure(s)'
    <3>1. Sure(s) /\ UNCHANGED <<obs, rel, assess>>  BY <2>1, <2>2 DEF Alone, records
    <3>2. Ids(Measured) \subseteq Ids(obs)  BY DEF Ids, Measured
    <3> QED  BY <2>1, <3>1, <3>2 DEF Sure, Measured, Ids, Without
  <2> QED  BY <2>1, <2>2, AloneQuiet DEF Assessing
<1>3. CASE NormRemove(s) \/ CorrRemove(s) \/ AssessRemove(s)
  <2>1. /\ at[s] # "idle" /\ mem' = mem /\ UNCHANGED <<records, overlapped, fails>>
        /\ \A t \in Req \ {s} : at'[t] = at[t]
        /\ \/ /\ at[s] = "norm.remove" /\ at'[s] = "norm.check"
              /\ held'[s] = held[s] \cup (target[s] \cap Ids(obs))
           \/ /\ at[s] = "corr.remove" /\ at'[s] = "corr.store"
              /\ held'[s] = held[s] \cup (target[s] \cap Ids(rel))
           \/ /\ at[s] = "assess.remove" /\ at'[s] = "assess.store"
              /\ held'[s] = held[s] \cup (target[s] \cap Ids(assess))
    BY <1>1, <1>3, RemovesEffect DEF NormRemove, CorrRemove, AssessRemove
  <2>2. ASSUME Alone PROVE Sure(s)'
    <3>1. Sure(s) /\ UNCHANGED <<obs, rel, assess>>  BY <2>1, <2>2 DEF Alone, records
    <3>2. Ids(Measured) \subseteq Ids(obs)  BY DEF Ids, Measured
    <3>3. CASE at[s] = "norm.remove"
      <4>1. Ids(Measured) \subseteq held'[s] /\ at'[s] = "norm.check"  BY <2>1, <3>1, <3>2, <3>3 DEF Sure
      <4> QED  BY <3>1, <4>1 DEF Sure, Measured, Ids
    <3>4. CASE at[s] = "corr.remove"
      <4>1. Ids(rel) \subseteq held'[s] /\ at'[s] = "corr.store"  BY <2>1, <3>1, <3>4 DEF Sure
      <4> QED  BY <3>1, <4>1 DEF Sure, Ids
    <3>5. CASE at[s] = "assess.remove"
      <4>1. Ids(assess) \subseteq held'[s] /\ at'[s] = "assess.store"  BY <2>1, <3>1, <3>5 DEF Sure
      <4>2. mem[s].links = Without(rel, held[s])  BY <3>1, <3>5 DEF Sure
      <4>3. \A r \in rel : r.id \in held'[s] <=> r.id \in held[s]
        BY <2>1, <3>5 DEF AloneInv, Numbered, Ids
      <4>4. Without(rel, held[s]) = Without(rel, held'[s])  BY <4>3 DEF Without
      <4> QED  BY <2>1, <3>1, <4>1, <4>2, <4>4 DEF Sure, Ids, Without
    <3> QED  BY <2>1, <3>3, <3>4, <3>5
  <2> QED  BY <2>1, <2>2, AloneQuiet DEF Assessing
<1> QED  BY <1>2, <1>3

(* The statements that read. *)
LEMMA AloneReads ==
  ASSUME AloneInv, TypeInv', NEW s \in Req,
         \/ CorrNothing(s) \/ AssessObs(s) \/ AssessRel(s) \/ EvalObs(s) \/ EvalSkip(s)
         \/ EvalUpdate(s) \/ ExportObs(s) \/ ExportRel(s) \/ ExportAssess(s) \/ ExportFind(s)
  PROVE  AloneInv'
<1>1. TypeInv /\ mem[s] \in Memory  BY DEF AloneInv, TypeInv
<1> DEFINE Moves(to) ==
      /\ at[s] # "idle" /\ at'[s] = to /\ mem'[s].done = mem[s].done
      /\ \A t \in Req \ {s} : at'[t] = at[t] /\ mem'[t] = mem[t]
      /\ UNCHANGED <<records, overlapped, fails>>
<1>2. ASSUME NEW to, to \notin Deleting, Moves(to), at[s] \in Assessing => to \in Assessing PROVE AloneInv'
  <2>1. Sure(s)'  BY <1>2 DEF Sure, Deleting
  <2> QED  BY <1>2, <2>1, AloneQuiet
<1>3. CASE CorrNothing(s) \/ AssessObs(s)
  <2>1. Moves("assess.obs") \/ Moves("assess.rel")
    BY <1>1, <1>3, ReadEffect DEF CorrNothing, AssessObs, Memory
  <2> HIDE DEF Moves
  <2> QED  BY <1>2, <2>1 DEF Deleting, Assessing
<1>4. CASE AssessRel(s)
  <2> DEFINE m == [mem[s] EXCEPT !.links = Without(rel, held[s])]
  <2>1. m.done = mem[s].done /\ m.links = Without(rel, held[s])  BY <1>1 DEF Memory
  <2>2. Read(s, "assess.rel", "assess.select", m)  BY <1>4 DEF AssessRel
  <2> HIDE DEF m
  <2>3. /\ at[s] = "assess.rel" /\ at'[s] = "assess.select" /\ mem'[s] = m /\ held' = held
        /\ \A t \in Req \ {s} : at'[t] = at[t] /\ mem'[t] = mem[t]
        /\ UNCHANGED <<records, overlapped, fails>>
    BY <1>1, <2>2, ReadEffect
  <2>4. Sure(s)'  BY <2>1, <2>3 DEF Sure, Without, records
  <2> QED  BY <2>1, <2>3, <2>4, AloneQuiet DEF Assessing
<1>5. CASE EvalObs(s) \/ EvalSkip(s) \/ EvalUpdate(s)
  <2>1. PICK m : m.done = mem[s].done /\ (Read(s, "eval.obs", "eval.rule", m) \/ Read(s, "eval.rule", "eval.rule", m))
    <3>1. CASE EvalObs(s)
      <4>1. [mem[s] EXCEPT !.seen = obs, !.todo = RuleOrder].done = mem[s].done  BY <1>1 DEF Memory
      <4> QED  BY <3>1, <4>1 DEF EvalObs
    <3>2. CASE EvalSkip(s)
      <4>1. Advance(s).done = mem[s].done  BY <1>1 DEF Memory, Advance
      <4> QED  BY <3>2, <4>1 DEF EvalSkip
    <3>3. CASE EvalUpdate(s)
      <4>1. PICK f \in Existing(Next1(s)) :
              Read(s, "eval.rule", "eval.rule",
                   [Advance(s) EXCEPT !.draft = @ \cup {[f EXCEPT !.obs = Cites(Next1(s), mem[s].seen)]}])
        BY <3>3 DEF EvalUpdate
      <4>2. [Advance(s) EXCEPT !.draft = @ \cup {[f EXCEPT !.obs = Cites(Next1(s), mem[s].seen)]}].done
              = mem[s].done
        BY <1>1 DEF Memory, Advance
      <4> QED  BY <4>1, <4>2
    <3> QED  BY <1>5, <3>1, <3>2, <3>3
  <2>2. Moves("eval.rule") /\ at[s] \notin Assessing  BY <1>1, <2>1, ReadEffect DEF Assessing
  <2> HIDE DEF Moves
  <2> QED  BY <1>2, <2>2 DEF Deleting
<1>6. CASE ExportObs(s) \/ ExportRel(s) \/ ExportAssess(s) \/ ExportFind(s)
  <2>1. [mem[s] EXCEPT !.seen = obs].done = mem[s].done /\ [mem[s] EXCEPT !.links = rel].done = mem[s].done
        /\ [mem[s] EXCEPT !.rated = assess].done = mem[s].done /\ [mem[s] EXCEPT !.draft = find].done = mem[s].done
    BY <1>1 DEF Memory
  <2> DEFINE From == {"export.obs", "export.rel", "export.assess", "export.find"}
             To == {"export.rel", "export.assess", "export.find", "export.done"}
             Reads(m) == m.done = mem[s].done /\ \E from \in From, to \in To : Read(s, from, to, m)
  <2>2. \/ Reads([mem[s] EXCEPT !.seen = obs]) \/ Reads([mem[s] EXCEPT !.links = rel])
        \/ Reads([mem[s] EXCEPT !.rated = assess]) \/ Reads([mem[s] EXCEPT !.draft = find])
    BY <1>6, <2>1 DEF ExportObs, ExportRel, ExportAssess, ExportFind
  <2>3. PICK m : Reads(m)
    <3> HIDE DEF Reads
    <3> QED  BY <2>2
  <2>4. PICK from \in From, to \in To : m.done = mem[s].done /\ Read(s, from, to, m)  BY <2>3
  <2>5. Moves(to) /\ at[s] \notin Assessing  BY <1>1, <2>4, ReadEffect DEF Assessing
  <2> HIDE DEF Moves
  <2> QED  BY <1>2, <2>4, <2>5 DEF Deleting
<1> QED  BY <1>3, <1>4, <1>5, <1>6

(* A request begins. *)
LEMMA AloneBegin == ASSUME AloneInv, TypeInv', NEW s \in Req, Request(s) PROVE AloneInv'
<1>1. PICK first \in {"norm.select", "corr.select", "eval.obs", "review.write", "export.obs"} :
        \E m : Begin(s, first, m) /\ m.done \subseteq Completed
  <2>1. NewestCompleted(Rows) \subseteq Completed  BY DEF NewestCompleted, Rows, Completed
  <2> DEFINE m1 == [Blank EXCEPT !.done = Completed]
             m2 == [Blank EXCEPT !.seen = obs]
             m3 == [Blank EXCEPT !.done = NewestCompleted(Rows), !.rows = Rows]
             m4(f) == [Blank EXCEPT !.draft = {f}]
             m5 == [Blank EXCEPT !.since = nextId]
  <2>2. m1.done \subseteq Completed /\ m2.done \subseteq Completed /\ m3.done \subseteq Completed
        /\ (\A f : m4(f).done \subseteq Completed) /\ m5.done \subseteq Completed
    BY <2>1 DEF Blank
  <2>3. \/ Begin(s, "norm.select", m1) \/ Begin(s, "corr.select", m2) \/ Begin(s, "eval.obs", m3)
        \/ (\E f \in find : Begin(s, "review.write", m4(f))) \/ Begin(s, "export.obs", m5)
    BY DEF Request, Normalize, Correlate, Evaluate, Review, Export
  <2> HIDE DEF m1, m2, m3, m4, m5
  <2> QED  BY <2>2, <2>3
<1>2. PICK m : Begin(s, first, m) /\ m.done \subseteq Completed  BY <1>1
<1>3. /\ UNCHANGED <<records, fails>> /\ at'[s] = first /\ mem'[s] = m
      /\ \A t \in Req \ {s} : at'[t] = at[t] /\ mem'[t] = mem[t]
      /\ overlapped' = (overlapped \/ \E t \in Req : at[t] # "idle")
  BY <1>2 DEF Begin, AloneInv, TypeInv, RecordsTypeOK
<1>4. UNCHANGED <<anl, obs, rel, assess, find, nextId>>  BY <1>3 DEF records
<1>5. Sources'  BY <1>2, <1>3, <1>4, SourcesRead DEF Completed, AloneInv
<1>6. Numbered'  BY <1>4, NumberedRead DEF AloneInv
<1> SUFFICES ASSUME ~overlapped' PROVE Alone'  BY <1>5, <1>6 DEF AloneInv
<1>7. Alone /\ \A t \in Req : at[t] = "idle"  BY <1>3 DEF AloneInv
<1>8. \A t \in Req \ {s} : at'[t] = "idle"  BY <1>3, <1>7
<1>9. Lone'  BY <1>8 DEF Lone
<1>10. \A t \in Req : Sure(t)'
  <2>1. \A t \in Req : at'[t] \notin Deleting  BY <1>3, <1>8 DEF Deleting
  <2> QED  BY <2>1 DEF Sure, Deleting
<1>11. at[s] \notin Assessing  BY <1>7 DEF Assessing
<1>12. Single' /\ Current'  BY <1>3, <1>4, <1>7, <1>11, AloneRead DEF SameRows
<1> QED  BY <1>9, <1>10, <1>12 DEF Alone

(* The check of the foreign keys, and the requests that end without storing *)
(* a row.                                                                  *)
LEMMA AloneEnds ==
  ASSUME AloneInv, TypeInv', NEW s \in Req,
         \/ NormCheck(s) \/ CorrRefused(s) \/ EvalLost(s) \/ Deadlock(s) \/ Error(s)
         \/ ReviewAppend(s) \/ ExportEnd(s)
  PROVE  AloneInv'
<1>1. TypeInv  BY DEF AloneInv
<1>2. CASE Rollback(s) /\ at[s] # "idle" /\ at[s] \notin Assessing /\ fails' = fails
  BY <1>2, AloneRollback
<1>3. CASE CorrRefused(s) \/ EvalLost(s) \/ Deadlock(s)
  BY <1>2, <1>3 DEF CorrRefused, EvalLost, Deadlock, Blocked, Due, Assessing
<1>4. CASE Error(s)
  <2>1. fails' = fails + 1 /\ fails \in Nat /\ at[s] # "idle" /\ Rollback(s)
    BY <1>1, <1>4 DEF Error, TypeInv, RecordsTypeOK
  <2>2. fails' # 0  BY <2>1
  <2> QED  BY <2>1, <2>2, AloneRollback
<1>5. CASE NormCheck(s)
  <2>1. CASE Rollback(s) /\ fails' = fails  BY <1>2, <1>5, <2>1 DEF NormCheck, Assessing
  <2>2. CASE at' = [at EXCEPT ![s] = "norm.store"] /\ UNCHANGED <<records, mem, target, held, history>>
    <3>1. /\ at[s] = "norm.check" /\ at'[s] = "norm.store" /\ \A t \in Req \ {s} : at'[t] = at[t]
          /\ UNCHANGED <<records, overlapped, fails, mem, held>>
      BY <1>1, <1>5, <2>2 DEF NormCheck, TypeInv, RecordsTypeOK, history
    <3>2. ASSUME Alone PROVE Sure(s)'
      <4>1. Ids(Measured) \subseteq held[s] /\ obs' = obs  BY <3>1, <3>2 DEF Alone, Sure, records
      <4> QED  BY <3>1, <4>1 DEF Sure, Measured, Ids
    <3> QED  BY <3>1, <3>2, AloneQuiet DEF Assessing
  <2> QED  BY <1>5, <2>1, <2>2 DEF NormCheck
<1>6. CASE ReviewAppend(s) \/ ExportEnd(s)
  <2>1. /\ at[s] # "idle" /\ at[s] \notin Assessing /\ Close(s)
        /\ UNCHANGED <<anl, obs, rel, assess, find, nextId, overlapped, fails>>
    BY <1>6 DEF ReviewAppend, ExportEnd, records, history, Assessing
  <2>2. at'[s] = "idle" /\ mem'[s].done = {} /\ \A t \in Req \ {s} : at'[t] = at[t] /\ mem'[t] = mem[t]
    BY <1>1, <2>1, CloseEffect
  <2>3. Sources' /\ Numbered'  BY <2>1, <2>2, SourcesRead, NumberedRead DEF AloneInv
  <2>4. Sure(s)'  BY <2>2 DEF Sure
  <2>5. Alone => Single' /\ Current'  BY <2>1, <2>2, AloneRead DEF SameRows
  <2> QED  BY <2>1, <2>2, <2>3, <2>4, <2>5, AloneFrame DEF AloneInv
<1> QED  BY <1>3, <1>4, <1>5, <1>6

(* A normalisation replaces every observation that it makes again. *)
LEMMA AloneNormStore == ASSUME AloneInv, TypeInv', NEW s \in Req, NormStore(s) PROVE AloneInv'
<1> DEFINE new == Fresh(mem[s].done, nextId)
<1>1. TypeInv /\ mem[s] \in Memory /\ nextId \in Nat  BY DEF AloneInv, TypeInv, RecordsTypeOK
<1>2. /\ at[s] = "norm.store" /\ Close(s)
      /\ UNCHANGED <<anl, rel, assess, find, overlapped, fails>>
      /\ \/ obs' = obs /\ nextId' = nextId
         \/ obs' = Without(obs, held[s]) \cup new /\ nextId' = nextId + Analyses + 1
  BY DEF NormStore
<1>3. at'[s] = "idle" /\ mem'[s].done = {} /\ \A t \in Req \ {s} : at'[t] = at[t] /\ mem'[t] = mem[t]
  BY <1>1, <1>2, CloseEffect
<1>4. ASSUME NEW o \in new
      PROVE  /\ o.src \in mem[s].done /\ o.modality = Kind[o.src] /\ o.modality \in Modality
             /\ o = Observed(o.src, nextId)
  BY DEF Fresh, Observed
<1> HIDE DEF new
<1>5. Sources'
  <2>1. ASSUME NEW o \in obs' PROVE anl[o.src] = "completed" /\ o.modality = Kind[o.src]
    <3>1. CASE o \in obs  BY <3>1 DEF AloneInv, Sources
    <3>2. CASE o \in new  BY <1>4, <3>2 DEF AloneInv, Sources
    <3> QED  BY <1>2, <3>1, <3>2 DEF Without
  <2> QED  BY <1>2, <1>3, <2>1 DEF AloneInv, Sources
<1>6. Numbered'
  <2>1. Analyses \in Nat /\ nextId' \in Nat /\ nextId' >= nextId  BY <1>1, <1>2, AnalysisNat
  <2>2. \A r \in rel : r.id \in Nat  BY <1>1 DEF TypeInv, RecordsTypeOK, RelationRow
  <2>3. \A x \in assess : x.id \in Nat  BY <1>1 DEF TypeInv, RecordsTypeOK, AssessmentRow
  <2> QED  BY <1>1, <1>2, <2>1, <2>2, <2>3 DEF AloneInv, Numbered
<1>7. ASSUME Alone PROVE Single' /\ Current'
  <2>1. \A o, p \in obs' : o.src = p.src => o = p
    <3>1. Ids(Measured) \subseteq held[s]  BY <1>2, <1>7 DEF Alone, Sure
    <3>2. \A o \in Without(obs, held[s]) : o \in obs /\ o.modality \notin Modality /\ o.modality = Kind[o.src]
      BY <3>1 DEF Without, Measured, Ids, AloneInv, Sources
    <3>3. \A o, p \in obs : o.src = p.src => o = p  BY <1>7 DEF Alone, Single
    <3> QED  BY <1>2, <1>4, <3>2, <3>3
  <2>2. Single'  BY <1>2, <1>7, <2>1 DEF Alone, Single
  <2>3. Current'
    <3>1. \A t \in Req : at[t] \in Assessing => at'[t] \in Assessing  BY <1>2, <1>3 DEF Assessing
    <3> QED  BY <1>2, <1>7, <3>1 DEF Alone, Current, Ids
  <2> QED  BY <2>2, <2>3
<1>8. Sure(s)'  BY <1>3 DEF Sure
<1> QED  BY <1>2, <1>3, <1>5, <1>6, <1>7, <1>8, AloneFrame DEF AloneInv

(* A correlation replaces every relation. *)
LEMMA AloneCorrStore == ASSUME AloneInv, TypeInv', NEW s \in Req, CorrStore(s) PROVE AloneInv'
<1> DEFINE new == NewRelations(s)
<1>1. TypeInv /\ nextId \in Nat  BY DEF AloneInv, TypeInv, RecordsTypeOK
<1>2. /\ at[s] = "corr.store" /\ UNCHANGED <<anl, obs, assess, find, mem, overlapped, fails>>
      /\ rel' = Without(rel, held[s]) \cup new /\ nextId' = nextId + 1
      /\ at' = [at EXCEPT ![s] = "assess.obs"]
  BY DEF CorrStore
<1>3. at'[s] = "assess.obs" /\ \A t \in Req \ {s} : at'[t] = at[t]
  BY <1>1, <1>2 DEF TypeInv, RecordsTypeOK
<1>4. \A r \in new : r.id = nextId  BY DEF NewRelations
<1> HIDE DEF new
<1>5. Sources'  BY <1>2, SourcesRead DEF AloneInv, Sources
<1>6. Numbered'
  <2>1. \A r \in rel : r.id \in Nat  BY <1>1 DEF TypeInv, RecordsTypeOK, RelationRow
  <2>2. \A x \in assess : x.id \in Nat  BY <1>1 DEF TypeInv, RecordsTypeOK, AssessmentRow
  <2>3. \A r \in rel' : r \in rel \/ r.id = nextId  BY <1>2, <1>4 DEF Without
  <2>4. Numbered  BY DEF AloneInv
  <2>5. \A r \in rel' : r.id < nextId'  BY <1>1, <1>2, <2>1, <2>3, <2>4 DEF Numbered
  <2>6. \A x \in assess : x.id < nextId' /\ x.id # nextId  BY <1>1, <1>2, <2>2, <2>4 DEF Numbered
  <2>7. \A r \in rel' : \A x \in assess : r.id # x.id  BY <2>3, <2>4, <2>6 DEF Numbered
  <2> QED  BY <1>2, <2>5, <2>6, <2>7 DEF Numbered
<1>7. ASSUME Alone PROVE Single' /\ Current'
  <2>1. Ids(rel) \subseteq held[s]  BY <1>2, <1>7 DEF Alone, Sure
  <2>2. rel' = new  BY <1>2, <2>1 DEF Without, Ids
  <2>3. Single'  BY <1>2, <1>4, <1>7, <2>2 DEF Alone, Single
  <2>4. Current'  BY <1>3 DEF Current, Assessing
  <2> QED  BY <2>3, <2>4
<1>8. Sure(s)'  BY <1>3 DEF Sure
<1> QED  BY <1>2, <1>3, <1>5, <1>6, <1>7, <1>8, AloneFrame DEF AloneInv

(* An assessment replaces every assessment and names the relations that its *)
(* request has left.                                                       *)
LEMMA AloneAssessStore == ASSUME AloneInv, TypeInv', NEW s \in Req, AssessStore(s) PROVE AloneInv'
<1> DEFINE new == NewAssessment(s)
<1>1. TypeInv /\ nextId \in Nat  BY DEF AloneInv, TypeInv, RecordsTypeOK
<1>2. /\ at[s] = "assess.store" /\ Close(s) /\ UNCHANGED <<anl, obs, find, overlapped, fails>>
      /\ assess' = Without(assess, held[s]) \cup {new} /\ rel' = Without(rel, held[s])
      /\ nextId' = nextId + 1
  BY DEF AssessStore
<1>3. at'[s] = "idle" /\ mem'[s].done = {} /\ \A t \in Req \ {s} : at'[t] = at[t] /\ mem'[t] = mem[t]
  BY <1>1, <1>2, CloseEffect
<1>4. new.id = nextId /\ new.rel = Ids(mem[s].links)  BY DEF NewAssessment
<1> HIDE DEF new
<1>5. Sources'  BY <1>2, <1>3, SourcesRead DEF AloneInv
<1>6. Numbered'
  <2>1. \A r \in rel : r.id \in Nat  BY <1>1 DEF TypeInv, RecordsTypeOK, RelationRow
  <2>2. \A x \in assess : x.id \in Nat  BY <1>1 DEF TypeInv, RecordsTypeOK, AssessmentRow
  <2>3. \A x \in assess' : x \in assess \/ x.id = nextId  BY <1>2, <1>4 DEF Without
  <2>4. \A r \in rel' : r \in rel  BY <1>2 DEF Without
  <2>5. Numbered  BY DEF AloneInv
  <2>6. \A x \in assess' : x.id < nextId'  BY <1>1, <1>2, <2>2, <2>3, <2>5 DEF Numbered
  <2>7. \A r \in rel' : r.id < nextId' /\ r.id # nextId  BY <1>1, <1>2, <2>1, <2>4, <2>5 DEF Numbered
  <2>8. \A r \in rel' : \A x \in assess' : r.id # x.id  BY <2>3, <2>4, <2>5, <2>7 DEF Numbered
  <2> QED  BY <2>6, <2>7, <2>8 DEF Numbered
<1>7. ASSUME Alone PROVE Single' /\ Current'
  <2>1. Ids(assess) \subseteq held[s] /\ mem[s].links = Without(rel, held[s])
    BY <1>2, <1>7 DEF Alone, Sure
  <2>2. assess' = {new}  BY <1>2, <2>1 DEF Without, Ids
  <2>3. \A q, r \in rel' : q.id = r.id  BY <1>2, <1>7 DEF Alone, Single, Without
  <2>4. Single'  BY <1>2, <1>7, <2>2, <2>3 DEF Alone, Single
  <2>5. new.rel = Ids(rel')  BY <1>2, <1>4, <2>1
  <2>6. Current'  BY <2>2, <2>5 DEF Current, Ids
  <2> QED  BY <2>4, <2>6
<1>8. Sure(s)'  BY <1>3 DEF Sure
<1> QED  BY <1>2, <1>3, <1>5, <1>6, <1>7, <1>8, AloneFrame DEF AloneInv

(* Writing drafts back leaves one finding of a rule. *)
LEMMA FlushedRules ==
  ASSUME find \subseteq FindingRow, NEW draft \in SUBSET FindingRow,
         \A f, g \in find : f.rule = g.rule => f = g
  PROVE  /\ \A p \in Flushed(draft) : \E f \in find : f.rule = p.rule
         /\ \A p, q \in Flushed(draft) : p.rule = q.rule => p = q
<1> DEFINE new(f) == IF f.id \in Ids(draft)
                     THEN [f EXCEPT !.obs = (CHOOSE d \in draft : d.id = f.id).obs] ELSE f
<1>1. \A f \in find : new(f).rule = f.rule  BY DEF FindingRow
<1>2. Flushed(draft) = {new(f) : f \in find}  BY DEF Flushed
<1> HIDE DEF new
<1> QED  BY <1>1, <1>2

(* So do evaluations and reviews. *)
LEMMA AloneFindings ==
  ASSUME AloneInv, TypeInv', NEW s \in Req, EvalInsert(s) \/ EvalEnd(s) \/ ReviewWrite(s)
  PROVE  AloneInv'
<1>1. TypeInv /\ nextId \in Nat /\ mem[s] \in Memory /\ find \subseteq FindingRow
      /\ mem[s].draft \in SUBSET FindingRow
  BY DEF AloneInv, TypeInv, RecordsTypeOK, Memory
<1>2. /\ UNCHANGED <<anl, obs, rel, assess, overlapped, fails>> /\ nextId' \in {nextId, nextId + 1}
      /\ at[s] \notin {"idle"} \cup Assessing
  BY DEF EvalInsert, EvalEnd, ReviewWrite, history, Due, Assessing
<1>3. /\ \A t \in Req \ {s} : at'[t] = at[t] /\ mem'[t] = mem[t]
      /\ mem'[s].done \subseteq mem[s].done /\ at'[s] \notin Deleting
  <2>1. CASE EvalInsert(s)
    <3> DEFINE m == [Advance(s) EXCEPT !.expired = TRUE, !.draft = {}]
    <3>1. m.done = mem[s].done  BY <1>1 DEF Memory, Advance
    <3>2. mem' = [mem EXCEPT ![s] = m] /\ at' = at /\ at[s] = "eval.rule"  BY <2>1 DEF EvalInsert, Due
    <3> HIDE DEF m
    <3> QED  BY <1>1, <3>1, <3>2 DEF TypeInv, Deleting
  <2>2. CASE EvalEnd(s)  BY <1>1, <2>2, CloseEffect DEF EvalEnd, Deleting
  <2>3. CASE ReviewWrite(s)
    <3>1. PICK f \in mem[s].draft : \E new \in ValidTransitions[f.status] :
            mem' = [mem EXCEPT ![s] = [@ EXCEPT !.draft = {f}, !.verdict = {new}]]
      BY <2>3 DEF ReviewWrite
    <3>2. PICK new \in ValidTransitions[f.status] :
            mem' = [mem EXCEPT ![s] = [@ EXCEPT !.draft = {f}, !.verdict = {new}]]
      BY <3>1
    <3> DEFINE m == [mem[s] EXCEPT !.draft = {f}, !.verdict = {new}]
    <3>3. m.done = mem[s].done /\ mem' = [mem EXCEPT ![s] = m]  BY <1>1, <3>2 DEF Memory
    <3>4. at' = [at EXCEPT ![s] = "review.append"]  BY <2>3 DEF ReviewWrite
    <3> HIDE DEF m
    <3> QED  BY <1>1, <3>3, <3>4 DEF TypeInv, RecordsTypeOK, Deleting
  <2> QED  BY <2>1, <2>2, <2>3
<1>4. Sources'  BY <1>2, <1>3, SourcesRead DEF AloneInv, Sources
<1>5. Numbered'
  <2>1. \A r \in rel : r.id \in Nat  BY <1>1 DEF TypeInv, RecordsTypeOK, RelationRow
  <2>2. \A x \in assess : x.id \in Nat  BY <1>1 DEF TypeInv, RecordsTypeOK, AssessmentRow
  <2> QED  BY <1>1, <1>2, <2>1, <2>2 DEF AloneInv, Numbered
<1>6. ASSUME Alone PROVE Single' /\ Current'
  <2>1. \A f, g \in find : f.rule = g.rule => f = g  BY <1>6 DEF Alone, Single
  <2>2. \A f, g \in find' : f.rule = g.rule => f = g
    <3>1. CASE EvalInsert(s)
      <4> DEFINE row == [id |-> nextId, rule |-> Next1(s), status |-> "GENERATED",
                         obs |-> Cites(Next1(s), mem[s].seen)]
      <4>1. find' = Flushed(mem[s].draft) \cup {row} /\ row.rule = Next1(s)
        BY <3>1 DEF EvalInsert
      <4> HIDE DEF row
      <4>2. \A f \in find : f.rule # Next1(s)  BY <3>1 DEF EvalInsert, Existing
      <4> QED  BY <1>1, <2>1, <4>1, <4>2, FlushedRules
    <3>2. CASE EvalEnd(s)  BY <1>1, <2>1, <3>2, FlushedRules DEF EvalEnd
    <3>3. CASE ReviewWrite(s)
      <4>1. PICK f \in mem[s].draft : \E n \in ValidTransitions[f.status] :
              find' = {IF g.id = f.id THEN [g EXCEPT !.status = n] ELSE g : g \in find}
        BY <3>3 DEF ReviewWrite
      <4>2. PICK n \in ValidTransitions[f.status] :
              find' = {IF g.id = f.id THEN [g EXCEPT !.status = n] ELSE g : g \in find}
        BY <4>1
      <4> DEFINE new(g) == IF g.id = f.id THEN [g EXCEPT !.status = n] ELSE g
      <4>3. \A g \in find : new(g).rule = g.rule  BY <1>1 DEF FindingRow
      <4>4. find' = {new(g) : g \in find}  BY <4>2
      <4> HIDE DEF new
      <4> QED  BY <2>1, <4>3, <4>4
    <3> QED  BY <3>1, <3>2, <3>3
  <2>3. Single'  BY <1>2, <1>6, <2>2 DEF Alone, Single
  <2>4. Current'
    <3>1. \A t \in Req : at[t] \in Assessing => at'[t] \in Assessing  BY <1>2, <1>3
    <3> QED  BY <1>2, <1>6, <3>1 DEF Alone, Current, Ids
  <2> QED  BY <2>3, <2>4
<1>7. Sure(s)'  BY <1>3 DEF Sure, Deleting
<1> QED  BY <1>2, <1>3, <1>4, <1>5, <1>6, <1>7, AloneFrame DEF AloneInv

(* A worker adds at most the observation of an analysis that had none. *)
LEMMA AloneWorker ==
  ASSUME AloneInv, TypeInv', NEW a \in Analysis, StartAnalysis(a) \/ EndAnalysis(a)
  PROVE  AloneInv'
<1> DEFINE new == Observed(a, nextId)
<1>1. TypeInv /\ nextId \in Nat /\ Analyses \in Nat /\ anl \in [Analysis -> {"absent", "running", "completed", "failed"}]
  BY AnalysisNat DEF AloneInv, TypeInv, RecordsTypeOK
<1>2. /\ UNCHANGED <<rel, assess, find, at, mem, target, held, overlapped, fails>>
      /\ anl[a] # "completed" /\ \A b \in Analysis \ {a} : anl'[b] = anl[b]
      /\ \/ obs' = obs /\ nextId' = nextId
         \/ /\ anl'[a] = "completed" /\ Kind[a] = "EXTENSION"
            /\ obs' = obs \cup {new} /\ nextId' = nextId + Analyses + 1
  BY <1>1 DEF StartAnalysis, EndAnalysis, requests, history
<1>3. new.src = a /\ new.modality = Kind[a]  BY DEF Observed
<1> HIDE DEF new
<1>4. \A o \in obs : o.src \in Analysis /\ o.src # a
  BY <1>1, <1>2 DEF AloneInv, Sources, TypeInv, RecordsTypeOK, ObservationRow
<1>5. Sources'
  <2>1. ASSUME NEW t \in Req, NEW b \in mem[t].done PROVE anl'[b] = "completed"
    <3>1. b \in Analysis  BY <1>1 DEF TypeInv, Memory
    <3> QED  BY <1>2, <3>1 DEF AloneInv, Sources
  <2>2. \A o \in obs' : anl'[o.src] = "completed" /\ o.modality = Kind[o.src]
    BY <1>2, <1>3, <1>4 DEF AloneInv, Sources
  <2> QED  BY <1>2, <2>1, <2>2 DEF Sources
<1>6. Numbered'
  <2>1. \A r \in rel : r.id \in Nat  BY <1>1 DEF TypeInv, RecordsTypeOK, RelationRow
  <2>2. \A x \in assess : x.id \in Nat  BY <1>1 DEF TypeInv, RecordsTypeOK, AssessmentRow
  <2> QED  BY <1>1, <1>2, <2>1, <2>2 DEF AloneInv, Numbered
<1>7. ASSUME Alone PROVE Alone'
  <2>1. \A o, p \in obs' : o.src = p.src => o = p  BY <1>2, <1>3, <1>4, <1>7 DEF Alone, Single
  <2>2. Lone' /\ Single' /\ Current'
    BY <1>2, <1>7, <2>1 DEF Alone, Lone, Single, Current, Ids
  <2>3. Measured' = Measured
    <3>1. "EXTENSION" \notin Modality  BY DEF Modality
    <3> QED  BY <1>2, <1>3, <3>1 DEF Measured
  <2>4. ASSUME NEW t \in Req PROVE Sure(t)'
    <3>1. Sure(t)  BY <1>7 DEF Alone
    <3> QED  BY <1>2, <2>3, <3>1 DEF Sure, Ids, Without
  <2> QED  BY <2>2, <2>4 DEF Alone
<1> QED  BY <1>2, <1>5, <1>6, <1>7 DEF AloneInv

(* Nothing is derived at the start but what one normalisation has made. *)
LEMMA AloneInit == Init => AloneInv
<1> SUFFICES ASSUME Init PROVE AloneInv  OBVIOUS
<1>1. TypeInv  BY InitTyped
<1>2. \A o \in obs : o.src \in Settled /\ o.modality = Kind[o.src] /\ o = Observed(o.src, 1)
  BY DEF Init, Fresh, Observed
<1>3. Sources  BY <1>2, CaseAssumption DEF Init, Sources, Blank
<1>4. Numbered  BY DEF Init, Numbered
<1>5. Single  BY <1>2 DEF Init, Single
<1>6. Lone /\ Current /\ \A s \in Req : Sure(s)  BY DEF Init, Lone, Current, Sure
<1> QED  BY <1>1, <1>3, <1>4, <1>5, <1>6 DEF AloneInv, Alone

(* Every step keeps it. *)
LEMMA AloneNext == AloneInv /\ [Next]_vars => AloneInv'
<1> SUFFICES ASSUME AloneInv, [Next]_vars PROVE AloneInv'  OBVIOUS
<1>1. TypeInv'  BY NextTyped DEF AloneInv
<1>2. ASSUME NEW s \in Req, Request(s) \/ Step(s) \/ Error(s) PROVE AloneInv'
  BY <1>1, <1>2, AloneBegin, AloneDelete, AloneReads, AloneEnds, AloneNormStore, AloneCorrStore,
     AloneAssessStore, AloneFindings
  DEF Step
<1>3. ASSUME NEW a \in Analysis, StartAnalysis(a) \/ EndAnalysis(a) PROVE AloneInv'
  BY <1>1, <1>3, AloneWorker
<1>4. CASE UNCHANGED vars
  <2>1. Sources' /\ Numbered'
    BY <1>4 DEF AloneInv, Sources, Numbered, vars, records, requests
  <2>2. Alone => Lone' /\ Single' /\ Current'
    BY <1>4 DEF Alone, Lone, Single, Current, Ids, vars, records, requests, history
  <2>3. Alone => \A s \in Req : Sure(s)'
    BY <1>4 DEF Alone, Sure, Ids, Measured, Without, vars, records, requests
  <2>4. overlapped' = overlapped  BY <1>4 DEF vars, history
  <2> QED  BY <1>1, <2>1, <2>2, <2>3, <2>4 DEF AloneInv, Alone
<1> QED  BY <1>2, <1>3, <1>4 DEF Next

(* "Generates or updates Finding records idempotently": while requests do   *)
(* not overlap there is one finding of a rule, one assessment, one          *)
(* observation of an analysis and one set of relations, for any number of   *)
(* requests, analyses and errors (normalizer.py, correlation/engine.py,     *)
(* assessment/engine.py, correlation_engine.py).                           *)
THEOREM RerunsIdempotent == Spec => []IdempotentAlone
<1>1. AloneInv => IdempotentAlone  BY DEF AloneInv, Alone, Single, IdempotentAlone
<1> QED  BY <1>1, AloneInit, AloneNext, PTL DEF Spec

(* Between requests that did not overlap and did not fail the assessment    *)
(* names the stored relations (assessment/engine.py): the relations are     *)
(* committed before the assessment reads them, and nothing else writes any. *)
THEOREM AssessmentsCurrent == Spec => []AssessmentCurrent
<1>1. AloneInv => AssessmentCurrent
  BY DEF AloneInv, Alone, Current, AssessmentCurrent, Assessing
<1> QED  BY <1>1, AloneInit, AloneNext, PTL DEF Spec

-----------------------------------------------------------------------------
(* Requests that wait for each other *)

Removing == {"norm.remove", "corr.remove", "assess.remove"}

(* A request waits for another to commit or to roll back: its DELETE has   *)
(* found rows that the other has removed, or a foreign key has to be looked *)
(* up in one of them.                                                      *)
Waits(s, t) == \/ at[s] \in Removing /\ target[s] \cap held[t] # {}
               \/ Blocked(s, t)

(* While requests are open, one of them waits for nobody, or is one of two *)
(* that wait for each other, of which the database ends one.               *)
WaitsEnd ==
  (\E s \in Req : at[s] # "idle") =>
    \E s \in Req : /\ at[s] # "idle"
                   /\ \/ \A t \in Req \ {s} : ~Waits(s, t)
                      \/ \E t \in Req \ {s} : Blocked(s, t) /\ Blocked(t, s)

(* Where a request holds observations, and where it holds relations. *)
HoldsObs == {"norm.check", "norm.store"}
HoldsRel == {"corr.store", "assess.obs", "assess.rel", "assess.select", "assess.remove"}
Holding == HoldsObs \cup HoldsRel \cup {"assess.store"}

(* An id is that of one row, of one kind, and the next one is new. *)
Distinct ==
  /\ \A i \in Ids(obs) \cup Ids(rel) \cup Ids(assess) : i < nextId
  /\ Ids(obs) \cap Ids(rel) = {} /\ Ids(obs) \cap Ids(assess) = {} /\ Ids(rel) \cap Ids(assess) = {}

(* What a request has found, holds and has seen are ids of the kind that   *)
(* its statements are about.                                               *)
Locks(s) ==
  /\ at[s] \in HoldsObs => held[s] \subseteq Ids(obs)
  /\ at[s] \in HoldsRel => held[s] \subseteq Ids(rel)
  /\ at[s] = "assess.store" => held[s] \subseteq Ids(rel) \cup Ids(assess)
  /\ at[s] \notin Holding => held[s] = {}
  /\ at[s] = "norm.remove" => target[s] \cap (Ids(rel) \cup Ids(assess)) = {}
  /\ at[s] = "corr.remove" => target[s] \cap (Ids(obs) \cup Ids(assess)) = {}
  /\ at[s] = "assess.remove" => target[s] \cap (Ids(obs) \cup Ids(rel)) = {}
  /\ \A i \in target[s] \cup Ids(mem[s].seen) : i < nextId
  /\ Ids(mem[s].seen) \cap (Ids(rel) \cup Ids(assess)) = {}

(* The observations that a normalisation is going to remove: of two, one   *)
(* has found every row that the other is going to remove, or has found one *)
(* that the other holds; so only one of them holds observations.           *)
Lives(s) == target[s] \cap Ids(obs)
Facing(s, t) ==
  /\ at[s] = "norm.remove" /\ at[t] = "norm.remove" => Lives(s) \subseteq target[t] \/ Lives(t) \subseteq target[s]
  /\ at[s] = "norm.remove" /\ at[t] \in HoldsObs =>
       Lives(s) = {} \/ held[t] = {} \/ Lives(s) \cap held[t] # {}
  /\ at[s] \in HoldsObs /\ at[t] \in HoldsObs => held[s] = {} \/ held[t] = {}

LockInv == /\ TypeInv /\ Distinct /\ \A s \in Req : Locks(s)
           /\ \A s, t \in Req : s # t => held[s] \cap held[t] = {} /\ Facing(s, t)

(* Rows come with new ids, and only those that are held go. *)
Moved(before, after, ids) ==
  /\ \A i \in Ids(after) : i \in Ids(before) \/ i >= nextId
  /\ \A i \in Ids(before) : i \in Ids(after) \/ i \in ids
RowsMove(ids) == /\ nextId <= nextId' /\ nextId \in Nat /\ nextId' \in Nat
                 /\ Moved(obs, obs', ids) /\ Moved(rel, rel', ids) /\ Moved(assess, assess', ids)

Untouched(t) == at'[t] = at[t] /\ held'[t] = held[t] /\ target'[t] = target[t] /\ mem'[t] = mem[t]

(* The rows of a request that is left alone stay what they are to it, *)
LEMMA LocksKept ==
  ASSUME LockInv, TypeInv', NEW ids, RowsMove(ids), NEW t \in Req, Untouched(t), held[t] \cap ids = {}
  PROVE  Locks(t)'
<1> DEFINE O == Ids(obs)
           R == Ids(rel)
           A == Ids(assess)
           P == Ids(obs')
           Q == Ids(rel')
           B == Ids(assess')
           S == Ids(mem[t].seen)
<1>1. (Ids(obs))' = P /\ (Ids(rel))' = Q /\ (Ids(assess))' = B /\ (Ids(mem[t].seen))' = S
  BY DEF Ids, Untouched
<1>2. Locks(t) /\ Distinct  BY DEF LockInv
<1>3. target[t] \subseteq Nat  BY DEF LockInv, TypeInv, RecordsTypeOK
<1>4. S \subseteq Nat
  <2>1. mem[t].seen \in SUBSET ObservationRow  BY DEF LockInv, TypeInv, Memory
  <2> QED  BY <2>1, IdsNat DEF ObservationRow
<1> HIDE DEF O, R, A, P, Q, B, S
<1>5. /\ nextId <= nextId' /\ nextId \in Nat /\ nextId' \in Nat
      /\ \A i \in P : i \in O \/ i >= nextId
      /\ \A i \in Q : i \in R \/ i >= nextId
      /\ \A i \in B : i \in A \/ i >= nextId
      /\ O \subseteq P \cup ids /\ R \subseteq Q \cup ids /\ A \subseteq B \cup ids
  BY DEF RowsMove, Moved, O, R, A, P, Q, B
<1>6. /\ at[t] \in HoldsObs => held[t] \subseteq O
      /\ at[t] \in HoldsRel => held[t] \subseteq R
      /\ at[t] = "assess.store" => held[t] \subseteq R \cup A
      /\ at[t] \notin Holding => held[t] = {}
      /\ at[t] = "norm.remove" => target[t] \cap (R \cup A) = {}
      /\ at[t] = "corr.remove" => target[t] \cap (O \cup A) = {}
      /\ at[t] = "assess.remove" => target[t] \cap (O \cup R) = {}
      /\ \A i \in target[t] \cup S : i < nextId
      /\ S \cap (R \cup A) = {}
  BY <1>2 DEF Locks, O, R, A, S
<1> DEFINE Found == target[t] \cup S
<1>7. /\ \A i \in Found : i < nextId'
      /\ Found \cap P \subseteq O /\ Found \cap Q \subseteq R /\ Found \cap B \subseteq A
  <2> HIDE DEF Found
  <2>1. Found \subseteq Nat /\ \A i \in Found : i < nextId  BY <1>3, <1>4, <1>6 DEF Found
  <2>2. nextId <= nextId' /\ nextId \in Nat /\ nextId' \in Nat  BY <1>5
  <2>3. \A i \in Found : i < nextId' /\ ~ (i >= nextId)  BY <2>1, <2>2
  <2>4. Found \cap P \subseteq O  BY <1>5, <2>3
  <2>5. Found \cap Q \subseteq R  BY <1>5, <2>3
  <2>6. Found \cap B \subseteq A  BY <1>5, <2>3
  <2> QED  BY <2>3, <2>4, <2>5, <2>6
<1>8. /\ at'[t] \in HoldsObs => held'[t] \subseteq P
      /\ at'[t] \in HoldsRel => held'[t] \subseteq Q
      /\ at'[t] = "assess.store" => held'[t] \subseteq Q \cup B
      /\ at'[t] \notin Holding => held'[t] = {}
  BY <1>5, <1>6 DEF Untouched
<1>9. target'[t] = target[t] /\ at'[t] = at[t]  BY DEF Untouched
<1>10. /\ at'[t] = "norm.remove" => target'[t] \cap (Q \cup B) = {}
       /\ at'[t] = "corr.remove" => target'[t] \cap (P \cup B) = {}
       /\ at'[t] = "assess.remove" => target'[t] \cap (P \cup Q) = {}
  <2>1. target[t] \cap (R \cup A) = {} => target[t] \cap (Q \cup B) = {}  BY <1>7
  <2>2. target[t] \cap (O \cup A) = {} => target[t] \cap (P \cup B) = {}  BY <1>7
  <2>3. target[t] \cap (O \cup R) = {} => target[t] \cap (P \cup Q) = {}  BY <1>7
  <2> QED  BY <1>6, <1>9, <2>1, <2>2, <2>3
<1>11. S \cap (Q \cup B) = {}  BY <1>6, <1>7
<1>12. \A i \in target'[t] \cup S : i < nextId'  BY <1>7, <1>9
<1> QED  BY <1>1, <1>8, <1>10, <1>11, <1>12 DEF Locks

(* and two that are left alone face each other as before. *)
LEMMA FacingKept ==
  ASSUME LockInv, NEW ids, RowsMove(ids), NEW t \in Req, Untouched(t), held[t] \cap ids = {},
         NEW u \in Req \ {t}, Untouched(u), held[u] \cap ids = {}
  PROVE  Facing(t, u)'
<1> DEFINE O == Ids(obs)
           P == Ids(obs')
<1>1. (Ids(obs))' = P  BY DEF Ids
<1>2. Facing(t, u) /\ Locks(t) /\ Locks(u)  BY DEF LockInv
<1>3. target[t] \subseteq Nat /\ target[u] \subseteq Nat  BY DEF LockInv, TypeInv, RecordsTypeOK
<1>4. (\A i \in target[t] : i < nextId) /\ (\A i \in target[u] : i < nextId)  BY <1>2 DEF Locks
<1>5. nextId \in Nat /\ \A i \in P : i \in O \/ i >= nextId  BY DEF RowsMove, Moved
<1>6. O \subseteq P \cup ids  BY DEF RowsMove, Moved
<1> HIDE DEF O, P
<1>7. target[t] \cap P \subseteq target[t] \cap O /\ target[u] \cap P \subseteq target[u] \cap O
  BY <1>3, <1>4, <1>5
<1>8. (target[t] \cap P) \cap held[u] = (target[t] \cap O) \cap held[u]
  BY <1>6, <1>7
<1>9. Lives(t) = target[t] \cap O /\ Lives(u) = target[u] \cap O
      /\ Lives(t)' = target[t] \cap P /\ Lives(u)' = target[u] \cap P
  BY <1>1 DEF Lives, Untouched, O
<1>10. Lives(t)' \subseteq Lives(t) /\ Lives(u)' \subseteq Lives(u) /\ Lives(t)' \cap held[u] = Lives(t) \cap held[u]
  BY <1>7, <1>8, <1>9
<1> QED  BY <1>2, <1>10 DEF Facing, Untouched

(* So what matters of a step is what becomes of its own request. *)
LEMMA LockFrame ==
  ASSUME LockInv, TypeInv', NEW s \in Req, RowsMove(held[s]), Distinct', Locks(s)',
         \A t \in Req \ {s} : Untouched(t) /\ held'[s] \cap held[t] = {} /\ Facing(s, t)' /\ Facing(t, s)'
  PROVE  LockInv'
<1>1. \A t \in Req \ {s} : held[t] \cap held[s] = {}  BY DEF LockInv
<1>2. ASSUME NEW t \in Req PROVE Locks(t)'  BY <1>1, LocksKept
<1>3. ASSUME NEW t \in Req, NEW u \in Req, t # u PROVE held'[t] \cap held'[u] = {} /\ Facing(t, u)'
  <2>1. CASE t = s  BY <1>3, <2>1 DEF Untouched
  <2>2. CASE u = s  BY <1>3, <2>2 DEF Untouched
  <2>3. CASE t # s /\ u # s
    <3>1. Facing(t, u)'  BY <1>1, <1>3, <2>3, FacingKept
    <3>2. held[t] \cap held[u] = {}  BY <1>3 DEF LockInv
    <3> QED  BY <2>3, <3>1, <3>2 DEF Untouched
  <2> QED  BY <2>1, <2>2, <2>3
<1> QED  BY <1>2, <1>3 DEF LockInv

(* Rows that stay. *)
LEMMA Stays ==
  ASSUME LockInv, UNCHANGED <<obs, rel, assess>>, nextId' \in {nextId, nextId + 1}
  PROVE  Distinct' /\ \A ids : RowsMove(ids)
<1>1. nextId \in Nat /\ Distinct  BY DEF LockInv, TypeInv, RecordsTypeOK
<1>2. Ids(obs) \subseteq Nat /\ Ids(rel) \subseteq Nat /\ Ids(assess) \subseteq Nat
  BY IdsNat DEF LockInv, TypeInv, RecordsTypeOK, ObservationRow, RelationRow, AssessmentRow
<1>3. Ids(obs)' = Ids(obs) /\ Ids(rel)' = Ids(rel) /\ Ids(assess)' = Ids(assess)  BY DEF Ids
<1>4. Distinct'
  <2> DEFINE O == Ids(obs)
             R == Ids(rel)
             A == Ids(assess)
  <2>1. (\A i \in O \cup R \cup A : i \in Nat /\ i < nextId)  BY <1>1, <1>2 DEF Distinct
  <2>2. \A i \in O \cup R \cup A : i < nextId'
    <3> HIDE DEF O, R, A
    <3> QED  BY <1>1, <2>1
  <2> QED  BY <1>1, <1>3, <2>2 DEF Distinct
<1>5. \A ids : RowsMove(ids)  BY <1>1 DEF RowsMove, Moved
<1> QED  BY <1>4, <1>5

(* A request that ends holds nothing. *)
LEMMA LockClosed ==
  ASSUME LockInv, TypeInv', NEW s \in Req, Close(s), RowsMove(held[s]), Distinct'
  PROVE  LockInv'
<1>1. TypeInv  BY DEF LockInv
<1>2. /\ at'[s] = "idle" /\ held'[s] = {} /\ target'[s] = {} /\ mem'[s].seen = {}
      /\ \A t \in Req \ {s} : Untouched(t)
  BY <1>1 DEF Close, TypeInv, RecordsTypeOK, Untouched, Blank
<1>3. Ids(mem[s].seen)' = {}  BY <1>2 DEF Ids
<1>4. Locks(s)'  BY <1>2, <1>3 DEF Locks, HoldsObs, HoldsRel, Holding
<1>5. \A t \in Req : Facing(s, t)' /\ Facing(t, s)'  BY <1>2 DEF Facing, HoldsObs
<1> QED  BY <1>2, <1>4, <1>5, LockFrame

(* A request that goes on with what it holds and has found. *)
LEMMA LockMoves ==
  ASSUME LockInv, TypeInv', NEW s \in Req, UNCHANGED <<obs, rel, assess, held, target>>,
         nextId' \in {nextId, nextId + 1},
         \A t \in Req \ {s} : at'[t] = at[t] /\ mem'[t] = mem[t],
         mem'[s].seen \in {mem[s].seen, obs, {}},
         \/ at[s] \notin Holding /\ at'[s] \notin Holding \cup Removing
         \/ at[s] \in HoldsRel /\ at'[s] \in HoldsRel \ {"assess.remove"}
         \/ at[s] = "norm.check" /\ at'[s] = "norm.store"
  PROVE  LockInv'
<1>1. TypeInv /\ Locks(s) /\ Distinct  BY DEF LockInv
<1>2. Distinct' /\ RowsMove(held[s])  BY Stays
<1>3. \A t \in Req \ {s} : Untouched(t)  BY DEF Untouched
<1>4. held'[s] = held[s] /\ target'[s] = target[s]  OBVIOUS
<1> DEFINE O == Ids(obs)
           R == Ids(rel)
           A == Ids(assess)
           S == Ids(mem[s].seen)
           S1 == Ids(mem'[s].seen)
<1>5. Ids(obs)' = O /\ Ids(rel)' = R /\ Ids(assess)' = A /\ Ids(mem[s].seen)' = S1  BY DEF Ids
<1>6. S1 \in {S, O, {}}  BY DEF Ids
<1>7. /\ at[s] \in HoldsObs => held[s] \subseteq O
      /\ at[s] \in HoldsRel => held[s] \subseteq R
      /\ at[s] \notin Holding => held[s] = {}
      /\ \A i \in target[s] \cup S : i < nextId
      /\ S \cap (R \cup A) = {}
  BY <1>1 DEF Locks
<1>8. (\A i \in O : i < nextId) /\ O \cap R = {} /\ O \cap A = {}  BY <1>1 DEF Distinct
<1>9. target[s] \subseteq Nat /\ S \subseteq Nat /\ O \subseteq Nat /\ nextId \in Nat
  <2>1. mem[s].seen \in SUBSET ObservationRow  BY <1>1 DEF TypeInv, Memory
  <2>2. S \subseteq Nat /\ O \subseteq Nat  BY <1>1, <2>1, IdsNat DEF TypeInv, RecordsTypeOK, ObservationRow
  <2> QED  BY <1>1, <2>2 DEF TypeInv, RecordsTypeOK
<1> HIDE DEF O, R, A, S, S1
<1>10. (\A i \in target[s] \cup S1 : i < nextId) /\ S1 \cap (R \cup A) = {}  BY <1>6, <1>7, <1>8
<1>11. target[s] \cup S1 \subseteq Nat  BY <1>6, <1>9
<1>12. \A i \in target[s] \cup S1 : i < nextId'  BY <1>9, <1>10, <1>11
<1>13. Locks(s)'
  BY <1>4, <1>5, <1>7, <1>10, <1>12 DEF Locks, HoldsObs, HoldsRel, Holding, Removing
<1>14. ASSUME NEW t \in Req \ {s} PROVE held'[s] \cap held[t] = {} /\ Facing(s, t)' /\ Facing(t, s)'
  <2>1. Facing(s, t) /\ Facing(t, s) /\ held[s] \cap held[t] = {}  BY DEF LockInv
  <2>2. CASE at'[s] \notin HoldsObs \cup {"norm.remove"}
    <3>1. Facing(s, t)' /\ Facing(t, s)'  BY <2>2 DEF Facing
    <3> QED  BY <1>4, <2>1, <3>1
  <2>3. CASE at[s] = "norm.check" /\ at'[s] = "norm.store"
    <3>1. Lives(t)' = Lives(t)  BY <1>3, <1>5 DEF Lives, Untouched, O
    <3>2. Facing(s, t)' /\ Facing(t, s)'  BY <1>3, <1>4, <2>1, <2>3, <3>1 DEF Facing, HoldsObs, Untouched
    <3> QED  BY <1>4, <2>1, <3>2
  <2> QED  BY <2>2, <2>3 DEF HoldsObs, HoldsRel, Holding, Removing
<1> QED  BY <1>2, <1>3, <1>13, <1>14, LockFrame

(* A DELETE that finds its rows. *)
LEMMA LockFinds ==
  ASSUME LockInv, TypeInv', NEW s \in Req, NormSelect(s) \/ CorrSelect(s) \/ AssessSelect(s)
  PROVE  LockInv'
<1>1. TypeInv /\ Locks(s) /\ Distinct  BY DEF LockInv
<1> DEFINE O == Ids(obs)
           R == Ids(rel)
           A == Ids(assess)
           S == Ids(mem[s].seen)
<1>2. /\ UNCHANGED <<records, mem, held>>
      /\ \A t \in Req \ {s} : at'[t] = at[t] /\ target'[t] = target[t]
      /\ \/ at[s] = "norm.select" /\ at'[s] = "norm.remove" /\ target'[s] = O
         \/ at[s] = "corr.select" /\ at'[s] = "corr.remove" /\ target'[s] = R
         \/ at[s] = "assess.select" /\ at'[s] = "assess.remove" /\ target'[s] = A
  <2>1. ASSUME NEW from, NEW to, NEW rows, DeleteFinds(s, from, to, rows)
        PROVE \A t \in Req \ {s} : target'[t] = target[t]
    <3> DEFINE ids == Ids(rows)
    <3>1. target' = [target EXCEPT ![s] = ids]  BY <2>1 DEF DeleteFinds
    <3> HIDE DEF ids
    <3> QED  BY <1>1, <3>1 DEF TypeInv, RecordsTypeOK
  <2> QED  BY <1>1, <2>1, FindsEffect DEF NormSelect, CorrSelect, AssessSelect
<1>3. Distinct' /\ RowsMove(held[s])  BY <1>2, Stays DEF records
<1>4. \A t \in Req \ {s} : Untouched(t)  BY <1>2 DEF Untouched
<1>5. Ids(obs)' = O /\ Ids(rel)' = R /\ Ids(assess)' = A /\ Ids(mem[s].seen)' = S /\ held'[s] = held[s]
      /\ nextId' = nextId
  BY <1>2 DEF Ids, records
<1>6. /\ at[s] \in HoldsRel => held[s] \subseteq R
      /\ at[s] \notin Holding => held[s] = {}
      /\ \A i \in S : i < nextId
      /\ S \cap (R \cup A) = {}
  BY <1>1 DEF Locks
<1>7. (\A i \in O \cup R \cup A : i < nextId) /\ O \cap R = {} /\ O \cap A = {} /\ R \cap A = {}  BY <1>1 DEF Distinct
<1> HIDE DEF O, R, A, S
<1>8. Locks(s)'
  <2>1. \A i \in target'[s] \cup S : i < nextId'  BY <1>2, <1>5, <1>6, <1>7
  <2>2. /\ at'[s] = "norm.remove" => target'[s] \cap (R \cup A) = {}
        /\ at'[s] = "corr.remove" => target'[s] \cap (O \cup A) = {}
        /\ at'[s] = "assess.remove" => target'[s] \cap (O \cup R) = {}
    BY <1>2, <1>7
  <2>3. /\ at'[s] \in HoldsRel => held'[s] \subseteq R
        /\ at'[s] \notin Holding => held'[s] = {}
        /\ at'[s] \notin HoldsObs /\ at'[s] # "assess.store"
    BY <1>2, <1>5, <1>6 DEF HoldsObs, HoldsRel, Holding
  <2> QED  BY <1>5, <1>6, <2>1, <2>2, <2>3 DEF Locks
<1>9. ASSUME NEW t \in Req \ {s} PROVE held'[s] \cap held[t] = {} /\ Facing(s, t)' /\ Facing(t, s)'
  <2>1. held[s] \cap held[t] = {} /\ Locks(t)  BY DEF LockInv
  <2>2. CASE at'[s] = "norm.remove"
    <3>1. Lives(s)' = O /\ Lives(t)' = target[t] \cap O  BY <1>2, <1>4, <1>5, <2>2 DEF Lives, Untouched
    <3>2. at[t] \in HoldsObs => held[t] \subseteq O  BY <2>1 DEF Locks, O
    <3>3. at'[t] = at[t] /\ target'[t] = target[t] /\ held'[t] = held[t] /\ at'[s] \notin HoldsObs /\ target'[s] = O
      BY <1>2, <1>4, <2>2 DEF Untouched, HoldsObs
    <3>4. Facing(s, t)' /\ Facing(t, s)'  BY <3>1, <3>2, <3>3 DEF Facing
    <3> QED  BY <1>5, <2>1, <3>4
  <2>3. CASE at'[s] \notin HoldsObs \cup {"norm.remove"}
    <3>1. Facing(s, t)' /\ Facing(t, s)'  BY <2>3 DEF Facing
    <3> QED  BY <1>5, <2>1, <3>1
  <2> QED  BY <1>2, <2>2, <2>3 DEF HoldsObs
<1> QED  BY <1>3, <1>4, <1>8, <1>9, LockFrame

(* A DELETE that removes what it finds free. *)
LEMMA LockRemoves ==
  ASSUME LockInv, TypeInv', NEW s \in Req, NormRemove(s) \/ CorrRemove(s) \/ AssessRemove(s)
  PROVE  LockInv'
<1>1. TypeInv /\ Locks(s) /\ Distinct  BY DEF LockInv
<1> DEFINE O == Ids(obs)
           R == Ids(rel)
           A == Ids(assess)
           S == Ids(mem[s].seen)
<1>2. /\ UNCHANGED <<records, mem>>
      /\ target'[s] = {}
      /\ \A t \in Req \ {s} : Untouched(t) /\ target[s] \cap held[t] = {}
      /\ \/ at[s] = "norm.remove" /\ at'[s] = "norm.check" /\ held'[s] = held[s] \cup (target[s] \cap O)
         \/ at[s] = "corr.remove" /\ at'[s] = "corr.store" /\ held'[s] = held[s] \cup (target[s] \cap R)
         \/ at[s] = "assess.remove" /\ at'[s] = "assess.store" /\ held'[s] = held[s] \cup (target[s] \cap A)
  <2>1. ASSUME NEW from, NEW to, NEW rows, DeleteRemoves(s, from, to, rows)
        PROVE /\ target'[s] = {} /\ UNCHANGED mem
              /\ \A t \in Req \ {s} : Untouched(t) /\ target[s] \cap held[t] = {}
    <3> DEFINE ids == target[s] \cap Ids(rows)
    <3>1. held' = [held EXCEPT ![s] = @ \cup ids] /\ target' = [target EXCEPT ![s] = {}]
          /\ at' = [at EXCEPT ![s] = to] /\ mem' = mem
      BY <2>1 DEF DeleteRemoves
    <3>2. \A t \in Req \ {s} : target[s] \cap held[t] = {}  BY <2>1 DEF DeleteRemoves, HeldByOthers
    <3> HIDE DEF ids
    <3> QED  BY <1>1, <3>1, <3>2 DEF TypeInv, RecordsTypeOK, Untouched
  <2> QED  BY <1>1, <2>1, RemovesEffect DEF NormRemove, CorrRemove, AssessRemove
<1>3. Distinct' /\ RowsMove(held[s])  BY <1>2, Stays DEF records
<1>4. Ids(obs)' = O /\ Ids(rel)' = R /\ Ids(assess)' = A /\ Ids(mem[s].seen)' = S /\ nextId' = nextId
  BY <1>2 DEF Ids, records
<1>5. /\ at[s] \in HoldsRel => held[s] \subseteq R
      /\ at[s] \notin Holding => held[s] = {}
      /\ \A i \in S : i < nextId
      /\ S \cap (R \cup A) = {}
  BY <1>1 DEF Locks
<1>6. \A t \in Req \ {s} : Facing(s, t) /\ Facing(t, s) /\ held[s] \cap held[t] = {}  BY DEF LockInv
<1>7. at[s] = "norm.remove" => held[s] = {} /\ Lives(s) = target[s] \cap O
  BY <1>5 DEF Holding, HoldsObs, HoldsRel, Lives
<1>8. at[s] = "corr.remove" => held[s] = {}  BY <1>5 DEF Holding, HoldsObs, HoldsRel
<1>9. \A t \in Req : Lives(t) = target[t] \cap O /\ Lives(t)' = target'[t] \cap O  BY <1>4 DEF Lives
<1> HIDE DEF O, R, A, S
<1>10. Locks(s)'
  <2>1. /\ at'[s] \in HoldsObs => held'[s] \subseteq O
        /\ at'[s] \in HoldsRel => held'[s] \subseteq R
        /\ at'[s] = "assess.store" => held'[s] \subseteq R \cup A
        /\ at'[s] \in Holding /\ at'[s] \notin Removing
    BY <1>2, <1>5, <1>7, <1>8 DEF HoldsObs, HoldsRel, Holding, Removing
  <2> QED  BY <1>2, <1>4, <1>5, <2>1 DEF Locks, Removing
<1>11. ASSUME NEW t \in Req \ {s} PROVE held'[s] \cap held[t] = {} /\ Facing(s, t)' /\ Facing(t, s)'
  <2>1. held'[s] \cap held[t] = {}  BY <1>2, <1>6
  <2>2. CASE at[s] = "norm.remove"
    <3>1. at'[s] = "norm.check" /\ held'[s] = Lives(s)  BY <1>2, <1>7, <2>2
    <3>2. at'[t] = at[t] /\ held'[t] = held[t] /\ target'[t] = target[t] /\ Lives(t)' = Lives(t)
      BY <1>2, <1>9 DEF Untouched
    <3>3. at[t] \in HoldsObs => Lives(s) = {} \/ held[t] = {}
      <4>1. Lives(s) \cap held[t] = {}  BY <1>2, <1>9
      <4> QED  BY <1>6, <2>2, <4>1 DEF Facing
    <3>4. at[t] = "norm.remove" => Lives(t) = {} \/ Lives(s) = {} \/ Lives(t) \cap Lives(s) # {}
      <4> SUFFICES ASSUME at[t] = "norm.remove", Lives(t) # {}, Lives(s) # {} PROVE Lives(t) \cap Lives(s) # {}
        OBVIOUS
      <4>1. Lives(s) \subseteq target[t] \/ Lives(t) \subseteq target[s]  BY <1>6, <2>2 DEF Facing
      <4> QED  BY <1>9, <4>1
    <3>5. Facing(s, t)' /\ Facing(t, s)'  BY <3>1, <3>2, <3>3, <3>4 DEF Facing, HoldsObs
    <3> QED  BY <2>1, <3>5
  <2>3. CASE at[s] # "norm.remove"
    <3>1. at'[s] \notin HoldsObs \cup {"norm.remove"}  BY <1>2, <2>3 DEF HoldsObs
    <3>2. Facing(s, t)' /\ Facing(t, s)'  BY <3>1 DEF Facing
    <3> QED  BY <2>1, <3>2
  <2> QED  BY <2>2, <2>3
<1>12. \A t \in Req \ {s} : Untouched(t)  BY <1>2
<1> QED  BY <1>3, <1>10, <1>11, <1>12, LockFrame

(* Numbers below one are below a greater one, and differ from what is not. *)
LEMMA Below ==
  ASSUME NEW S, S \subseteq Nat, NEW n \in Nat, NEW m \in Nat, n <= m, \A i \in S : i < n
  PROVE  /\ \A i \in S : i < m
         /\ \A i \in S : ~ (i >= n)
         /\ n \notin S
<1> SUFFICES ASSUME NEW i \in S PROVE i < m /\ ~ (i >= n) /\ n # i  OBVIOUS
<1>1. i \in Nat /\ i < n  OBVIOUS
<1> QED  BY <1>1

(* Rows that are committed under new ids in the place of those held.       *)
LEMMA NormStoreRows ==
  ASSUME LockInv, NEW s \in Req, NormStore(s)
  PROVE  RowsMove(held[s]) /\ Distinct'
<1> DEFINE new == Fresh(mem[s].done, nextId)
           O == Ids(obs)
           P == Ids(obs')
           R == Ids(rel)
           A == Ids(assess)
           N == Ids(new)
<1>1. TypeInv /\ Distinct /\ mem[s].done \in SUBSET Analysis /\ nextId \in Nat
  BY DEF LockInv, TypeInv, RecordsTypeOK, Memory
<1>2. /\ UNCHANGED <<rel, assess>>
      /\ \/ obs' = obs /\ nextId' = nextId
         \/ obs' = Without(obs, held[s]) \cup new /\ nextId' = nextId + Analyses + 1
  BY DEF NormStore
<1>3. O \subseteq Nat /\ R \subseteq Nat /\ A \subseteq Nat /\ Analyses \in Nat
  BY <1>1, Typed, AnalysisNat
<1>4. \A i \in N : i \in Nat /\ i > nextId /\ i < nextId + Analyses + 1
  <2> TAKE i \in N
  <2>1. PICK a \in Analysis : i = nextId + a  BY <1>1 DEF Fresh, Observed, Ids
  <2>2. a \in Nat /\ a >= 1 /\ a <= Analyses  BY AnalysisNat DEF Analysis
  <2> QED  BY <1>1, <1>3, <2>1, <2>2
<1>5. P = O \/ (nextId' = nextId + Analyses + 1 /\ P \subseteq O \cup N)
  BY <1>2 DEF Ids, Without
<1>6. \A i \in O : i \in P \/ i \in held[s]
  <2>1. \A o \in obs : o \in obs' \/ o.id \in held[s]  BY <1>2 DEF Without
  <2> QED  BY <2>1 DEF Ids
<1>7. Ids(obs)' = P /\ Ids(rel)' = R /\ Ids(assess)' = A  BY <1>2 DEF Ids
<1>8. Moved(rel, rel', held[s]) /\ Moved(assess, assess', held[s])  BY <1>2 DEF Moved
<1>9. (\A i \in O \cup R \cup A : i < nextId) /\ O \cap R = {} /\ O \cap A = {} /\ R \cap A = {}
  BY <1>1 DEF Distinct
<1>10. nextId <= nextId' /\ nextId' \in Nat /\ (nextId' = nextId \/ nextId' = nextId + Analyses + 1)  BY <1>1, <1>2, <1>3
<1> HIDE DEF new, O, P, R, A, N
<1>11. \A i \in P : i \in O \/ (i \in Nat /\ i >= nextId /\ i < nextId')
  BY <1>1, <1>3, <1>4, <1>5, <1>10
<1>12. Moved(obs, obs', held[s])  BY <1>6, <1>11 DEF Moved, O, P
<1>13. \A i \in P \cup R \cup A : i < nextId'
  <2>1. \A i \in O \cup R \cup A : i < nextId'
    <3>1. O \cup R \cup A \subseteq Nat /\ nextId \in Nat  BY <1>1, <1>3
    <3> QED  BY <1>9, <1>10, <3>1, Below
  <2> QED  BY <1>11, <2>1
<1>14. P \cap R = {} /\ P \cap A = {}
  <2>1. \A i \in R \cup A : ~ (i >= nextId)
    <3>1. R \cup A \subseteq Nat /\ nextId \in Nat /\ \A i \in R \cup A : i < nextId  BY <1>1, <1>3, <1>9
    <3> QED  BY <3>1, Below
  <2> QED  BY <1>9, <1>11, <2>1
<1> QED  BY <1>1, <1>7, <1>8, <1>9, <1>10, <1>12, <1>13, <1>14 DEF RowsMove, Distinct

(* The same of relations, *)
LEMMA CorrStoreRows ==
  ASSUME LockInv, NEW s \in Req, CorrStore(s)
  PROVE  RowsMove(held[s]) /\ Distinct'
<1> DEFINE O == Ids(obs)
           R == Ids(rel)
           Q == Ids(rel')
           A == Ids(assess)
<1>1. TypeInv /\ Distinct /\ nextId \in Nat  BY DEF LockInv, TypeInv, RecordsTypeOK
<1>2. UNCHANGED <<obs, assess>> /\ rel' = Without(rel, held[s]) \cup NewRelations(s) /\ nextId' = nextId + 1
  BY DEF CorrStore
<1>3. O \subseteq Nat /\ R \subseteq Nat /\ A \subseteq Nat  BY <1>1, Typed
<1>4. \A r \in NewRelations(s) : r.id = nextId  BY DEF NewRelations
<1>5. \A i \in Q : i \in R \/ i = nextId  BY <1>2, <1>4 DEF Ids, Without
<1>6. \A i \in R : i \in Q \/ i \in held[s]
  <2>1. \A r \in rel : r \in rel' \/ r.id \in held[s]  BY <1>2 DEF Without
  <2> QED  BY <2>1 DEF Ids
<1>7. Ids(obs)' = O /\ Ids(rel)' = Q /\ Ids(assess)' = A  BY <1>2 DEF Ids
<1>8. Moved(obs, obs', held[s]) /\ Moved(assess, assess', held[s])  BY <1>2 DEF Moved
<1>9. (\A i \in O \cup R \cup A : i < nextId) /\ O \cap R = {} /\ O \cap A = {} /\ R \cap A = {}
  BY <1>1 DEF Distinct
<1> HIDE DEF O, Q, R, A
<1>10. \A i \in Q : i \in R \/ i >= nextId  BY <1>1, <1>5
<1>11. Moved(rel, rel', held[s])  BY <1>6, <1>10 DEF Moved, Q, R
<1>12. \A i \in O \cup Q \cup A : i < nextId'
  <2>1. O \cup R \cup A \subseteq Nat /\ nextId \in Nat /\ nextId' \in Nat /\ nextId < nextId'
    BY <1>1, <1>2, <1>3
  <2>2. \A i \in O \cup R \cup A : i < nextId'  BY <1>9, <2>1, Below
  <2> QED  BY <1>5, <2>1, <2>2
<1>13. nextId \notin O \cup R \cup A
  <2>1. O \cup R \cup A \subseteq Nat /\ nextId \in Nat  BY <1>1, <1>3
  <2> QED  BY <1>9, <2>1, Below
<1>14. O \cap Q = {} /\ Q \cap A = {}  BY <1>5, <1>9, <1>13
<1>15. RowsMove(held[s])
  <2>1. nextId \in Nat /\ nextId' \in Nat /\ nextId <= nextId'  BY <1>1, <1>2
  <2> QED  BY <1>8, <1>11, <2>1 DEF RowsMove
<1>16. Distinct'  BY <1>2, <1>7, <1>9, <1>12, <1>14 DEF Distinct
<1> QED  BY <1>15, <1>16

(* and of assessments. *)
LEMMA AssessStoreRows ==
  ASSUME LockInv, NEW s \in Req, AssessStore(s)
  PROVE  RowsMove(held[s]) /\ Distinct'
<1> DEFINE O == Ids(obs)
           R == Ids(rel)
           Q == Ids(rel')
           A == Ids(assess)
           B == Ids(assess')
<1>1. TypeInv /\ Distinct /\ nextId \in Nat  BY DEF LockInv, TypeInv, RecordsTypeOK
<1>2. /\ UNCHANGED obs /\ rel' = Without(rel, held[s]) /\ nextId' = nextId + 1
      /\ assess' = Without(assess, held[s]) \cup {NewAssessment(s)}
  BY DEF AssessStore
<1>3. O \subseteq Nat /\ R \subseteq Nat /\ A \subseteq Nat  BY <1>1, Typed
<1>4. NewAssessment(s).id = nextId  BY DEF NewAssessment
<1>5. (\A i \in B : i \in A \/ i = nextId) /\ Q \subseteq R  BY <1>2, <1>4 DEF Ids, Without
<1>6. (\A i \in R : i \in Q \/ i \in held[s]) /\ (\A i \in A : i \in B \/ i \in held[s])
  <2>1. \A r \in rel : r \in rel' \/ r.id \in held[s]  BY <1>2 DEF Without
  <2>2. \A x \in assess : x \in assess' \/ x.id \in held[s]  BY <1>2 DEF Without
  <2> QED  BY <2>1, <2>2 DEF Ids
<1>7. Ids(obs)' = O /\ Ids(rel)' = Q /\ Ids(assess)' = B  BY <1>2 DEF Ids
<1>8. Moved(obs, obs', held[s])  BY <1>2 DEF Moved
<1>9. (\A i \in O \cup R \cup A : i < nextId) /\ O \cap R = {} /\ O \cap A = {} /\ R \cap A = {}
  BY <1>1 DEF Distinct
<1> HIDE DEF O, Q, R, A, B
<1>10. \A i \in B : i \in A \/ i >= nextId  BY <1>1, <1>5
<1>11. Moved(rel, rel', held[s]) /\ Moved(assess, assess', held[s])  BY <1>5, <1>6, <1>10 DEF Moved, Q, R, A, B
<1>12. \A i \in O \cup Q \cup B : i < nextId'
  <2>1. O \cup R \cup A \subseteq Nat /\ nextId \in Nat /\ nextId' \in Nat /\ nextId < nextId'
    BY <1>1, <1>2, <1>3
  <2>2. \A i \in O \cup R \cup A : i < nextId'  BY <1>9, <2>1, Below
  <2> QED  BY <1>5, <2>1, <2>2
<1>13. nextId \notin O \cup R \cup A
  <2>1. O \cup R \cup A \subseteq Nat /\ nextId \in Nat  BY <1>1, <1>3
  <2> QED  BY <1>9, <2>1, Below
<1>14. O \cap Q = {} /\ O \cap B = {} /\ Q \cap B = {}  BY <1>5, <1>9, <1>13
<1>15. RowsMove(held[s])
  <2>1. nextId \in Nat /\ nextId' \in Nat /\ nextId <= nextId'  BY <1>1, <1>2
  <2> QED  BY <1>8, <1>11, <2>1 DEF RowsMove
<1>16. Distinct'  BY <1>2, <1>7, <1>9, <1>12, <1>14 DEF Distinct
<1> QED  BY <1>15, <1>16

(* The steps of a request that begin, read or write findings. *)
LEMMA LockReads ==
  ASSUME LockInv, TypeInv', NEW s \in Req,
         \/ Request(s) \/ CorrNothing(s) \/ AssessObs(s) \/ AssessRel(s)
         \/ EvalObs(s) \/ EvalSkip(s) \/ EvalUpdate(s) \/ EvalInsert(s) \/ ReviewWrite(s)
         \/ ExportObs(s) \/ ExportRel(s) \/ ExportAssess(s) \/ ExportFind(s)
  PROVE  LockInv'
<1>1. TypeInv /\ mem[s] \in Memory  BY DEF LockInv, TypeInv
<1> DEFINE Goes(m) ==
      /\ UNCHANGED <<obs, rel, assess, held, target>> /\ nextId' \in {nextId, nextId + 1}
      /\ \A t \in Req \ {s} : at'[t] = at[t] /\ mem'[t] = mem[t]
      /\ mem'[s] = m
<1>2. ASSUME NEW from, NEW to, NEW m, Read(s, from, to, m) PROVE Goes(m) /\ at[s] = from /\ at'[s] = to
  BY <1>1, <1>2, ReadEffect DEF records
<1>3. ASSUME NEW first, NEW m, Begin(s, first, m) PROVE Goes(m) /\ at[s] = "idle" /\ at'[s] = first
  BY <1>1, <1>3 DEF Begin, records, TypeInv, RecordsTypeOK
<1> DEFINE Fits == \/ at[s] \notin Holding /\ at'[s] \notin Holding \cup Removing
                   \/ at[s] \in HoldsRel /\ at'[s] \in HoldsRel \ {"assess.remove"}
<1>4. ASSUME NEW m, Goes(m), m.seen \in {mem[s].seen, obs, {}}, Fits PROVE LockInv'
  BY <1>4, LockMoves
<1> HIDE DEF Goes
<1>5. CASE Request(s)
  <2>1. ASSUME NEW first, NEW m, Begin(s, first, m), first \notin Holding \cup Removing, m.seen \in {obs, {}}
        PROVE LockInv'
    BY <1>3, <1>4, <2>1 DEF Holding, HoldsObs, HoldsRel
  <2>2. CASE Normalize(s)
    <3> DEFINE m == [Blank EXCEPT !.done = Completed]
    <3>1. m.seen = {}  BY DEF Blank
    <3> QED  BY <2>1, <2>2, <3>1 DEF Normalize, Holding, HoldsObs, HoldsRel, Removing
  <2>3. CASE Correlate(s)
    <3> DEFINE m == [Blank EXCEPT !.seen = obs]
    <3>1. m.seen = obs  BY DEF Blank
    <3> QED  BY <2>1, <2>3, <3>1 DEF Correlate, Holding, HoldsObs, HoldsRel, Removing
  <2>4. CASE Evaluate(s)
    <3> DEFINE m == [Blank EXCEPT !.done = NewestCompleted(Rows), !.rows = Rows]
    <3>1. m.seen = {}  BY DEF Blank
    <3> QED  BY <2>1, <2>4, <3>1 DEF Evaluate, Holding, HoldsObs, HoldsRel, Removing
  <2>5. CASE Review(s)
    <3>1. PICK f \in find : Begin(s, "review.write", [Blank EXCEPT !.draft = {f}])  BY <2>5 DEF Review
    <3> DEFINE m == [Blank EXCEPT !.draft = {f}]
    <3>2. m.seen = {}  BY DEF Blank
    <3> QED  BY <2>1, <3>1, <3>2 DEF Holding, HoldsObs, HoldsRel, Removing
  <2>6. CASE Export(s)
    <3> DEFINE m == [Blank EXCEPT !.since = nextId]
    <3>1. m.seen = {}  BY DEF Blank
    <3> QED  BY <2>1, <2>6, <3>1 DEF Export, Holding, HoldsObs, HoldsRel, Removing
  <2> QED  BY <1>5, <2>2, <2>3, <2>4, <2>5, <2>6 DEF Request
<1>6. ASSUME NEW from, NEW to, NEW m, Read(s, from, to, m), m.seen \in {mem[s].seen, obs},
             \/ from \notin Holding /\ to \notin Holding \cup Removing
             \/ from \in HoldsRel /\ to \in HoldsRel \ {"assess.remove"}
      PROVE LockInv'
  BY <1>2, <1>4, <1>6
<1>7. CASE CorrNothing(s)  BY <1>6, <1>7 DEF CorrNothing, HoldsRel
<1>8. CASE AssessObs(s)
  <2> DEFINE m == [mem[s] EXCEPT !.seen = obs]
  <2>1. m.seen = obs  BY <1>1 DEF Memory
  <2> QED  BY <1>6, <1>8, <2>1 DEF AssessObs, HoldsRel
<1>9. CASE AssessRel(s)
  <2> DEFINE m == [mem[s] EXCEPT !.links = Without(rel, held[s])]
  <2>1. m.seen = mem[s].seen  BY <1>1 DEF Memory
  <2> QED  BY <1>6, <1>9, <2>1 DEF AssessRel, HoldsRel
<1>10. CASE EvalObs(s)
  <2> DEFINE m == [mem[s] EXCEPT !.seen = obs, !.todo = RuleOrder]
  <2>1. m.seen = obs  BY <1>1 DEF Memory
  <2> QED  BY <1>6, <1>10, <2>1 DEF EvalObs, Holding, HoldsObs, HoldsRel, Removing
<1>11. CASE EvalSkip(s)
  <2>1. Advance(s).seen = mem[s].seen  BY <1>1 DEF Memory, Advance
  <2> QED  BY <1>6, <1>11, <2>1 DEF EvalSkip, Holding, HoldsObs, HoldsRel, Removing
<1>12. CASE EvalUpdate(s)
  <2>1. PICK f \in Existing(Next1(s)) :
          Read(s, "eval.rule", "eval.rule",
               [Advance(s) EXCEPT !.draft = @ \cup {[f EXCEPT !.obs = Cites(Next1(s), mem[s].seen)]}])
    BY <1>12 DEF EvalUpdate
  <2> DEFINE row == [f EXCEPT !.obs = Cites(Next1(s), mem[s].seen)]
  <2> HIDE DEF row
  <2> DEFINE m == [Advance(s) EXCEPT !.draft = @ \cup {row}]
  <2>2. m.seen = mem[s].seen  BY <1>1 DEF Memory, Advance
  <2>3. Read(s, "eval.rule", "eval.rule", m)  BY <2>1 DEF row
  <2> QED  BY <1>6, <2>2, <2>3 DEF Holding, HoldsObs, HoldsRel, Removing
<1>13. CASE EvalInsert(s)
  <2> DEFINE m == [Advance(s) EXCEPT !.expired = TRUE, !.draft = {}]
  <2>1. m.seen = mem[s].seen  BY <1>1 DEF Memory, Advance
  <2>2. mem' = [mem EXCEPT ![s] = m] /\ UNCHANGED <<obs, rel, assess, at, target, held>> /\ nextId' = nextId + 1
        /\ at[s] = "eval.rule"
    BY <1>13 DEF EvalInsert, Due
  <2> HIDE DEF m
  <2>3. Goes(m)  BY <1>1, <2>2 DEF Goes, TypeInv
  <2> QED  BY <1>4, <2>1, <2>2, <2>3 DEF Holding, HoldsObs, HoldsRel, Removing
<1>14. CASE ReviewWrite(s)
  <2>0. PICK f \in mem[s].draft : \E new \in ValidTransitions[f.status] :
          mem' = [mem EXCEPT ![s] = [@ EXCEPT !.draft = {f}, !.verdict = {new}]]
    BY <1>14 DEF ReviewWrite
  <2>1. PICK new \in ValidTransitions[f.status] :
          mem' = [mem EXCEPT ![s] = [@ EXCEPT !.draft = {f}, !.verdict = {new}]]
    BY <2>0
  <2> DEFINE m == [mem[s] EXCEPT !.draft = {f}, !.verdict = {new}]
  <2>2. m.seen = mem[s].seen /\ mem' = [mem EXCEPT ![s] = m]  BY <1>1, <2>1 DEF Memory
  <2>3. /\ UNCHANGED <<obs, rel, assess, target, held, nextId>> /\ at[s] = "review.write"
        /\ at' = [at EXCEPT ![s] = "review.append"]
    BY <1>14 DEF ReviewWrite
  <2> HIDE DEF m
  <2>4. Goes(m) /\ at'[s] = "review.append"  BY <1>1, <2>2, <2>3 DEF Goes, TypeInv, RecordsTypeOK
  <2> QED  BY <1>4, <2>2, <2>3, <2>4 DEF Holding, HoldsObs, HoldsRel, Removing
<1>15. CASE ExportObs(s)
  <2> DEFINE m == [mem[s] EXCEPT !.seen = obs]
  <2>1. m.seen = obs  BY <1>1 DEF Memory
  <2> QED  BY <1>6, <1>15, <2>1 DEF ExportObs, Holding, HoldsObs, HoldsRel, Removing
<1>16. CASE ExportRel(s)
  <2> DEFINE m == [mem[s] EXCEPT !.links = rel]
  <2>1. m.seen = mem[s].seen  BY <1>1 DEF Memory
  <2> QED  BY <1>6, <1>16, <2>1 DEF ExportRel, Holding, HoldsObs, HoldsRel, Removing
<1>17. CASE ExportAssess(s)
  <2> DEFINE m == [mem[s] EXCEPT !.rated = assess]
  <2>1. m.seen = mem[s].seen  BY <1>1 DEF Memory
  <2> QED  BY <1>6, <1>17, <2>1 DEF ExportAssess, Holding, HoldsObs, HoldsRel, Removing
<1>18. CASE ExportFind(s)
  <2> DEFINE m == [mem[s] EXCEPT !.draft = find]
  <2>1. m.seen = mem[s].seen  BY <1>1 DEF Memory
  <2> QED  BY <1>6, <1>18, <2>1 DEF ExportFind, Holding, HoldsObs, HoldsRel, Removing
<1> QED  BY <1>5, <1>7, <1>8, <1>9, <1>10, <1>11, <1>12, <1>13, <1>14, <1>15, <1>16, <1>17, <1>18

(* The steps that end a request, or store relations. *)
LEMMA LockEnds ==
  ASSUME LockInv, TypeInv', NEW s \in Req,
         \/ NormCheck(s) \/ CorrRefused(s) \/ EvalLost(s) \/ Deadlock(s) \/ Error(s)
         \/ EvalEnd(s) \/ ReviewAppend(s) \/ ExportEnd(s) \/ NormStore(s) \/ CorrStore(s) \/ AssessStore(s)
  PROVE  LockInv'
<1>1. TypeInv  BY DEF LockInv
<1>2. CASE Close(s) /\ UNCHANGED <<obs, rel, assess, nextId>>  BY <1>2, Stays, LockClosed
<1>3. CASE CorrRefused(s) \/ EvalLost(s) \/ Deadlock(s) \/ Error(s)
  BY <1>2, <1>3 DEF CorrRefused, EvalLost, Deadlock, Error, Rollback, records
<1>4. CASE EvalEnd(s) \/ ReviewAppend(s) \/ ExportEnd(s)
  BY <1>2, <1>4 DEF EvalEnd, ReviewAppend, ExportEnd, records
<1>5. CASE NormCheck(s)
  <2>1. CASE Rollback(s)  BY <1>2, <2>1 DEF Rollback, records
  <2>2. CASE at' = [at EXCEPT ![s] = "norm.store"] /\ UNCHANGED <<records, mem, target, held, history>>
    <3>1. /\ at[s] = "norm.check" /\ at'[s] = "norm.store" /\ mem'[s].seen = mem[s].seen
          /\ \A t \in Req \ {s} : at'[t] = at[t] /\ mem'[t] = mem[t]
          /\ UNCHANGED <<obs, rel, assess, held, target, nextId>>
      BY <1>1, <1>5, <2>2 DEF NormCheck, TypeInv, RecordsTypeOK, records
    <3> QED  BY <3>1, LockMoves
  <2> QED  BY <1>5, <2>1, <2>2 DEF NormCheck
<1>6. CASE NormStore(s)
  <2>1. Close(s)  BY <1>6 DEF NormStore
  <2> QED  BY <1>6, <2>1, NormStoreRows, LockClosed
<1>7. CASE AssessStore(s)
  <2>1. Close(s)  BY <1>7 DEF AssessStore
  <2> QED  BY <1>7, <2>1, AssessStoreRows, LockClosed
<1>8. CASE CorrStore(s)
  <2>1. /\ at' = [at EXCEPT ![s] = "assess.obs"] /\ held' = [held EXCEPT ![s] = {}]
        /\ UNCHANGED <<obs, mem, target>> /\ at[s] = "corr.store" /\ nextId' = nextId + 1
        /\ rel' = Without(rel, held[s]) \cup NewRelations(s) /\ assess' = assess
    BY <1>8 DEF CorrStore
  <2>2. /\ at'[s] = "assess.obs" /\ held'[s] = {} /\ target'[s] = target[s]
        /\ \A t \in Req \ {s} : Untouched(t)
    BY <1>1, <2>1 DEF TypeInv, RecordsTypeOK, Untouched
  <2>3. RowsMove(held[s]) /\ Distinct'  BY <1>8, CorrStoreRows
  <2> DEFINE R == Ids(rel)
             Q == Ids(rel')
             A == Ids(assess)
             S == Ids(mem[s].seen)
  <2>4. Ids(rel)' = Q /\ Ids(assess)' = A /\ Ids(mem[s].seen)' = S  BY <2>1 DEF Ids
  <2>5. (\A i \in target[s] \cup S : i < nextId) /\ S \cap (R \cup A) = {}  BY DEF LockInv, Locks
  <2>6. \A r \in NewRelations(s) : r.id = nextId  BY DEF NewRelations
  <2>7. \A i \in Q : i \in R \/ i = nextId  BY <2>1, <2>6 DEF Ids, Without
  <2>8. target[s] \subseteq Nat /\ S \subseteq Nat /\ nextId \in Nat
    <3>1. mem[s].seen \in SUBSET ObservationRow  BY <1>1 DEF TypeInv, Memory
    <3>2. S \subseteq Nat  BY <3>1, IdsNat DEF ObservationRow
    <3> QED  BY <1>1, <3>2 DEF TypeInv, RecordsTypeOK
  <2> HIDE DEF R, Q, A, S
  <2>9. nextId \notin S  BY <2>5, <2>8
  <2>10. S \cap (Q \cup A) = {}  BY <2>5, <2>7, <2>9
  <2>11. \A i \in target[s] \cup S : i < nextId'
    <3>1. target[s] \cup S \subseteq Nat /\ nextId \in Nat  BY <2>8
    <3>2. nextId' \in Nat /\ nextId <= nextId'  BY <2>1, <3>1
    <3> QED  BY <2>5, <3>1, <3>2, Below
  <2>12. Locks(s)'  BY <2>2, <2>4, <2>10, <2>11 DEF Locks, HoldsObs, HoldsRel, Holding
  <2>13. \A t \in Req : Facing(s, t)' /\ Facing(t, s)'  BY <2>2 DEF Facing, HoldsObs
  <2> QED  BY <2>2, <2>3, <2>12, <2>13, LockFrame
<1> QED  BY <1>3, <1>4, <1>5, <1>6, <1>7, <1>8

(* A worker stores an observation with a new id. *)
LEMMA LockWorker ==
  ASSUME LockInv, TypeInv', NEW a \in Analysis, StartAnalysis(a) \/ EndAnalysis(a)
  PROVE  LockInv'
<1> DEFINE new == Observed(a, nextId)
           O == Ids(obs)
           P == Ids(obs')
           R == Ids(rel)
           A == Ids(assess)
<1>1. TypeInv /\ Distinct /\ nextId \in Nat /\ Analyses \in Nat /\ a \in Nat /\ a >= 1 /\ a <= Analyses
  BY AnalysisNat DEF LockInv, TypeInv, RecordsTypeOK, Analysis
<1>2. /\ UNCHANGED <<rel, assess, at, mem, target, held>>
      /\ \/ obs' = obs /\ nextId' = nextId
         \/ obs' = obs \cup {new} /\ nextId' = nextId + Analyses + 1
  BY DEF StartAnalysis, EndAnalysis, requests
<1>3. O \subseteq Nat /\ R \subseteq Nat /\ A \subseteq Nat
  BY <1>1, IdsNat DEF TypeInv, RecordsTypeOK, ObservationRow, RelationRow, AssessmentRow
<1>4. new.id = nextId + a  BY DEF Observed
<1>5. O \subseteq P /\ (P = O \/ (P \subseteq O \cup {nextId + a} /\ nextId' = nextId + Analyses + 1))
  <2> HIDE DEF new
  <2> QED  BY <1>2, <1>4 DEF Ids
<1>6. Ids(obs)' = P /\ Ids(rel)' = R /\ Ids(assess)' = A  BY <1>2 DEF Ids
<1>7. (\A i \in O \cup R \cup A : i < nextId) /\ O \cap R = {} /\ O \cap A = {} /\ R \cap A = {}
  BY <1>1 DEF Distinct
<1>8. nextId <= nextId' /\ nextId' \in Nat  BY <1>1, <1>2
<1>9. Moved(rel, rel', {}) /\ Moved(assess, assess', {})  BY <1>2 DEF Moved
<1> HIDE DEF new, O, P, R, A
<1>10. \A i \in P : i \in O \/ (i \in Nat /\ i >= nextId /\ i < nextId')  BY <1>1, <1>5
<1>11. Moved(obs, obs', {})  BY <1>5, <1>10 DEF Moved, O, P
<1>12. RowsMove({})  BY <1>1, <1>8, <1>9, <1>11 DEF RowsMove
<1>13. \A i \in P \cup R \cup A : i < nextId'
  <2>1. \A i \in O \cup R \cup A : i < nextId'
    <3>1. O \cup R \cup A \subseteq Nat /\ nextId \in Nat  BY <1>1, <1>3
    <3> QED  BY <1>7, <1>8, <3>1, Below
  <2> QED  BY <1>10, <2>1
<1>14. P \cap R = {} /\ P \cap A = {}
  <2>1. \A i \in R \cup A : ~ (i >= nextId)
    <3>1. R \cup A \subseteq Nat /\ nextId \in Nat /\ \A i \in R \cup A : i < nextId  BY <1>1, <1>3, <1>7
    <3> QED  BY <3>1, Below
  <2> QED  BY <1>7, <1>10, <2>1
<1>15. Distinct'  BY <1>6, <1>7, <1>13, <1>14 DEF Distinct
<1>16. \A t \in Req : Untouched(t) /\ held[t] \cap {} = {}  BY <1>2 DEF Untouched
<1>17. \A t \in Req : Locks(t)'  BY <1>12, <1>16, LocksKept
<1>18. ASSUME NEW t \in Req, NEW u \in Req, t # u PROVE held'[t] \cap held'[u] = {} /\ Facing(t, u)'
  <2>1. held[t] \cap held[u] = {}  BY <1>18 DEF LockInv
  <2>2. Facing(t, u)'  BY <1>12, <1>16, <1>18, FacingKept
  <2> QED  BY <1>2, <2>1, <2>2
<1> QED  BY <1>15, <1>17, <1>18 DEF LockInv

(* No row is held at the start. *)
LEMMA LockInit == Init => LockInv
<1> SUFFICES ASSUME Init PROVE LockInv  OBVIOUS
<1>1. TypeInv  BY InitTyped
<1>2. rel = {} /\ assess = {} /\ Ids(rel) = {} /\ Ids(assess) = {}  BY DEF Init, Ids
<1>3. \A i \in Ids(obs) : i < nextId
  <2>1. CASE obs = {}  BY <2>1 DEF Ids
  <2>2. CASE obs = Fresh(Settled, 1) /\ nextId = Analyses + 2
    <3> TAKE i \in Ids(obs)
    <3>1. PICK b \in Settled : i = 1 + b  BY <2>2 DEF Fresh, Observed, Ids
    <3>2. b \in Nat /\ b <= Analyses /\ Analyses \in Nat  BY <3>1, CaseAssumption DEF Analysis
    <3> QED  BY <2>2, <3>1, <3>2
  <2> QED  BY <2>1, <2>2 DEF Init
<1>4. Distinct  BY <1>2, <1>3 DEF Distinct
<1>5. ASSUME NEW s \in Req PROVE Locks(s)
  <2>1. at[s] = "idle" /\ held[s] = {} /\ target[s] = {} /\ mem[s].seen = {}  BY DEF Init, Blank
  <2>2. Ids(mem[s].seen) = {}  BY <2>1 DEF Ids
  <2> QED  BY <2>1, <2>2 DEF Locks, HoldsObs, HoldsRel, Holding
<1>6. \A s, t \in Req : held[s] \cap held[t] = {} /\ Facing(s, t)  BY DEF Init, Facing, HoldsObs
<1> QED  BY <1>1, <1>4, <1>5, <1>6 DEF LockInv

(* Every step keeps the locks in order. *)
LEMMA LockNext == LockInv /\ [Next]_vars => LockInv'
<1> SUFFICES ASSUME LockInv, [Next]_vars PROVE LockInv'  OBVIOUS
<1>1. TypeInv'  BY NextTyped DEF LockInv
<1>2. ASSUME NEW s \in Req, Request(s) \/ Step(s) \/ Error(s) PROVE LockInv'
  BY <1>1, <1>2, LockFinds, LockRemoves, LockReads, LockEnds DEF Step
<1>3. ASSUME NEW a \in Analysis, StartAnalysis(a) \/ EndAnalysis(a) PROVE LockInv'
  BY <1>1, <1>3, LockWorker
<1>4. CASE UNCHANGED vars
  <2>1. UNCHANGED <<obs, rel, assess, nextId, at, mem, held, target>>  BY <1>4 DEF vars, records, requests
  <2>2. Distinct' /\ RowsMove({})  BY <2>1, Stays
  <2>3. \A t \in Req : Untouched(t) /\ held[t] \cap {} = {}  BY <2>1 DEF Untouched
  <2>4. \A t \in Req : Locks(t)'  BY <1>1, <2>2, <2>3, LocksKept
  <2>5. \A t \in Req : \A u \in Req \ {t} : Facing(t, u)'  BY <2>2, <2>3, FacingKept
  <2>6. \A t, u \in Req : t # u => held'[t] \cap held'[u] = {}  BY <2>1 DEF LockInv
  <2> QED  BY <1>1, <2>2, <2>4, <2>5, <2>6 DEF LockInv
<1> QED  BY <1>2, <1>3, <1>4 DEF Next

(* Who waits for whom. *)
LEMMA WaitsFor ==
  ASSUME LockInv, NEW s \in Req, NEW t \in Req \ {s}, Waits(s, t)
  PROVE  /\ held[t] # {}
         /\ \/ at[s] = "norm.remove" /\ at[t] \in HoldsObs
            \/ at[s] = "norm.check" /\ at[t] \in HoldsRel \cup {"assess.store"} /\ Blocked(s, t)
            \/ at[s] = "corr.remove" /\ at[t] \in HoldsRel \cup {"assess.store"}
            \/ at[s] = "corr.store" /\ at[t] \in HoldsObs /\ Blocked(s, t)
            \/ at[s] = "assess.remove" /\ at[t] = "assess.store"
<1> DEFINE O == Ids(obs)
           R == Ids(rel)
           A == Ids(assess)
           S == Ids(mem[s].seen)
<1>1. Locks(s) /\ Locks(t) /\ Distinct  BY DEF LockInv
<1>2. /\ at[t] \in HoldsObs => held[t] \subseteq O
      /\ at[t] \in HoldsRel => held[t] \subseteq R
      /\ at[t] = "assess.store" => held[t] \subseteq R \cup A
      /\ at[t] \notin Holding => held[t] = {}
  BY <1>1 DEF Locks
<1>3. O \cap R = {} /\ O \cap A = {} /\ R \cap A = {}  BY <1>1 DEF Distinct
<1>4. /\ at[s] = "norm.remove" => target[s] \cap (R \cup A) = {}
      /\ at[s] = "corr.remove" => target[s] \cap (O \cup A) = {}
      /\ at[s] = "assess.remove" => target[s] \cap (O \cup R) = {}
      /\ S \cap (R \cup A) = {}
  BY <1>1 DEF Locks
<1>5. Ids(Referring(held[s])) \subseteq R  BY DEF Ids, Referring
<1>6. Referred(NewRelations(s)) \subseteq S
  <2>1. mem[s].seen \in SUBSET ObservationRow  BY DEF LockInv, TypeInv, Memory
  <2>2. \A r \in Relations(mem[s].seen) : r.a \in S /\ r.b \in S  BY <2>1, RelationsType
  <2>3. \A r \in NewRelations(s) : r.a \in S /\ r.b \in S  BY <2>2 DEF NewRelations
  <2> QED  BY <2>3 DEF Referred
<1> HIDE DEF O, R, A, S
<1>7. CASE at[s] \in Removing /\ target[s] \cap held[t] # {}
  <2>1. held[t] # {} /\ at[t] \in Holding  BY <1>2, <1>7
  <2>2. at[s] = "norm.remove" => at[t] \in HoldsObs
    BY <1>2, <1>4, <1>7, <2>1 DEF Holding
  <2>3. at[s] = "corr.remove" => at[t] \in HoldsRel \cup {"assess.store"}
    BY <1>2, <1>4, <1>7, <2>1 DEF Holding
  <2>4. at[s] = "assess.remove" => at[t] = "assess.store"
    BY <1>2, <1>4, <1>7, <2>1 DEF Holding
  <2> QED  BY <1>7, <2>1, <2>2, <2>3, <2>4 DEF Removing
<1>8. CASE Blocked(s, t)
  <2>1. CASE at[s] = "norm.check" /\ Ids(Referring(held[s])) \cap held[t] # {}
    <3>1. held[t] # {} /\ at[t] \in Holding /\ at[t] \notin HoldsObs  BY <1>2, <1>3, <1>5, <2>1
    <3> QED  BY <1>8, <2>1, <3>1 DEF Holding
  <2>2. CASE at[s] = "corr.store" /\ Referred(NewRelations(s)) \cap held[t] # {}
    <3>1. held[t] # {} /\ at[t] \in HoldsObs  BY <1>2, <1>4, <1>6, <2>2 DEF Holding
    <3> QED  BY <1>8, <2>2, <3>1
  <2> QED  BY <1>8, <2>1, <2>2 DEF Blocked
<1> QED  BY <1>7, <1>8 DEF Waits

(* A wait for observations is a wait for the one normalisation that holds   *)
(* some, and what that waits for waits for it in turn, or for an assessment *)
(* about to be stored, or for nobody.                                      *)
THEOREM WaitsResolve == Spec => []WaitsEnd
<1>1. LockInv => WaitsEnd
  <2> SUFFICES ASSUME LockInv, NEW s0 \in Req, at[s0] # "idle"
               PROVE  \E s \in Req : /\ at[s] # "idle"
                                     /\ \/ \A t \in Req \ {s} : ~Waits(s, t)
                                        \/ \E t \in Req \ {s} : Blocked(s, t) /\ Blocked(t, s)
    BY DEF WaitsEnd
  <2> DEFINE Free(s) == \A t \in Req \ {s} : ~Waits(s, t)
             Goal == \E s \in Req : /\ at[s] # "idle"
                                    /\ \/ Free(s)
                                       \/ \E t \in Req \ {s} : Blocked(s, t) /\ Blocked(t, s)
  <2> SUFFICES Goal  OBVIOUS
  <2>1. ASSUME NEW s \in Req, at[s] # "idle", ~Goal PROVE \E t \in Req \ {s} : Waits(s, t)
    BY <2>1
  <2>2. \A s \in Req : \A t \in Req \ {s} : Waits(s, t) =>
          /\ held[t] # {}
          /\ \/ at[s] = "norm.remove" /\ at[t] \in HoldsObs
             \/ at[s] = "norm.check" /\ at[t] \in HoldsRel \cup {"assess.store"} /\ Blocked(s, t)
             \/ at[s] = "corr.remove" /\ at[t] \in HoldsRel \cup {"assess.store"}
             \/ at[s] = "corr.store" /\ at[t] \in HoldsObs /\ Blocked(s, t)
             \/ at[s] = "assess.remove" /\ at[t] = "assess.store"
    BY WaitsFor
  <2>3. \A s, t \in Req : s # t /\ at[s] \in HoldsObs /\ at[t] \in HoldsObs => held[s] = {} \/ held[t] = {}
    BY DEF LockInv, Facing
  <2>4. \A s, t \in Req : Blocked(s, t) /\ Blocked(t, s) /\ s # t => at[s] # "idle"  BY DEF Blocked
  <2>5. ASSUME ~Goal PROVE FALSE
    <3> DEFINE Waited(s) == \E t \in Req \ {s} : Waits(s, t)
    <3>1. \A s \in Req : at[s] # "idle" => Waited(s)  BY <2>1, <2>5
    <3>2. \A s \in Req : at[s] \notin {"assess.store", "norm.store", "assess.obs", "assess.rel", "assess.select"}
      <4> SUFFICES ASSUME NEW s \in Req,
                          at[s] \in {"assess.store", "norm.store", "assess.obs", "assess.rel", "assess.select"}
                   PROVE  FALSE
        OBVIOUS
      <4>1. PICK t \in Req \ {s} : Waits(s, t)  BY <3>1
      <4> QED  BY <2>2, <4>1
    <3>3. \A s \in Req : at[s] # "assess.remove"
      <4> SUFFICES ASSUME NEW s \in Req, at[s] = "assess.remove" PROVE FALSE  OBVIOUS
      <4>1. PICK t \in Req \ {s} : Waits(s, t)  BY <3>1
      <4>2. at[t] = "assess.store"  BY <2>2, <4>1
      <4> QED  BY <3>2, <4>2
    <3>4. ASSUME NEW c \in Req, at[c] = "corr.store" PROVE FALSE
      <4>1. PICK n \in Req \ {c} : Waits(c, n)  BY <3>1, <3>4
      <4>2. held[n] # {} /\ at[n] = "norm.check" /\ Blocked(c, n)  BY <2>2, <3>2, <3>4, <4>1 DEF HoldsObs
      <4>3. PICK d \in Req \ {n} : Waits(n, d)  BY <3>1, <4>2
      <4>4. at[d] = "corr.store" /\ Blocked(n, d)  BY <2>2, <3>2, <3>3, <4>2, <4>3 DEF HoldsRel
      <4>5. PICK m \in Req \ {d} : Waits(d, m)  BY <3>1, <4>4
      <4>6. held[m] # {} /\ at[m] = "norm.check" /\ Blocked(d, m)  BY <2>2, <3>2, <4>4, <4>5 DEF HoldsObs
      <4>7. m = n  BY <2>3, <4>2, <4>6 DEF HoldsObs
      <4> QED  BY <2>5, <4>4, <4>6, <4>7
    <3>5. ASSUME NEW n \in Req, at[n] \in {"norm.check", "corr.remove"} PROVE FALSE
      <4>1. PICK c \in Req \ {n} : Waits(n, c)  BY <3>1, <3>5
      <4>2. at[c] = "corr.store"  BY <2>2, <3>2, <3>3, <3>5, <4>1 DEF HoldsRel
      <4> QED  BY <3>4, <4>2
    <3>6. PICK t \in Req \ {s0} : Waits(s0, t)  BY <3>1
    <3>7. at[s0] = "norm.remove" /\ at[t] \in HoldsObs  BY <2>2, <3>3, <3>4, <3>5, <3>6
    <3> QED  BY <3>2, <3>5, <3>7 DEF HoldsObs
  <2> QED  BY <2>5
<1>2. Spec => []LockInv  BY LockInit, LockNext, PTL DEF Spec
<1> QED  BY <1>1, <1>2, PTL
=============================================================================
