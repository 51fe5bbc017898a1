---------------------------- MODULE CaseRecords ----------------------------
(***************************************************************************)
(* The derived records of one evidence item - observations, relations,     *)
(* assessment, findings and their audit events - and the requests that     *)
(* read and rewrite them: normalise, correlate, evaluate, review, export.  *)
(* A request is cut at its database statements. PostgreSQL runs at READ    *)
(* COMMITTED: a statement sees what is committed when it starts; a DELETE  *)
(* finds its rows, waits until no other transaction holds one of them, and *)
(* removes those still there; the rows it removed stay held until commit.  *)
(*                                                                         *)
(* Ids of observations, relations, assessments and findings are drawn from *)
(* one counter, with gaps. The relations of one correlation are stored and *)
(* deleted together and share an id.                                       *)
(***************************************************************************)
EXTENDS FusionRules, Sequences

CONSTANTS Req,          \* the sessions that serve requests
          Analyses,     \* how many analyses of the evidence item there may be
          Kind,         \* Kind[a]: a Modality, or "EXTENSION" for a V4 engine
          Settled,      \* the analyses that are completed at the start
          Image,        \* the traits of the image
          MaxRequests,  \* bound on the requests served
          MaxFails      \* bound on the requests that end in an error

Analysis == 1..Analyses           \* in the order of their ids

ASSUME CaseAssumption ==
  /\ Analyses \in Nat /\ Settled \subseteq Analysis
  /\ Kind \in [Analysis -> Modality \cup {"EXTENSION"}]
  /\ Image \subseteq Trait
  /\ MaxRequests \in Nat /\ MaxFails \in Nat

VARIABLES
  anl,        \* status of each analysis row, "absent" before it is inserted
  obs, rel, assess, find,   \* the committed rows
  announced,  \* ids of the findings with a FINDING_GENERATED event
  reviews,    \* the review events: finding, old status, new status
  nextId,
  at,         \* the next statement of each request
  mem,        \* what each request has in memory
  target,     \* the rows that its DELETE found
  held,       \* the rows that it removed and has not committed
  served, fails,
  overlapped, \* two requests have been open at the same time
  refused,    \* a foreign key has refused a normalisation
  dropped,    \* ids of the observations and relations that are gone
  cut         \* the findings whose review event failed after the commit

records == <<anl, obs, rel, assess, find, announced, reviews, nextId>>
requests == <<at, mem, target, held>>
history == <<served, fails, overlapped, refused, dropped, cut>>
vars == <<records, requests, history>>

Ids(rows) == {r.id : r \in rows}
Without(rows, ids) == {r \in rows : r.id \notin ids}

(* The memory of a request: the completed analyses and all rows of them    *)
(* that it read, observations, relations, assessments, the rules it has    *)
(* not evaluated, the findings that it read or will update, whether its    *)
(* objects expired in a commit, when an export began, a reviewer's verdict *)
Blank == [done |-> {}, rows |-> {}, seen |-> {}, links |-> {}, rated |-> {}, todo |-> <<>>,
          draft |-> {}, expired |-> FALSE, since |-> 0, verdict |-> {}]

(* One observation of each analysis that has an adapter. *)
Observed(a, first) == [id |-> first + a, src |-> a, modality |-> Kind[a],
                       direction |-> Direction(Kind[a], Image)]
Fresh(done, first) == {Observed(a, first) : a \in {b \in done : Kind[b] \in Modality}}

Init ==
  /\ anl = [a \in Analysis |-> IF a \in Settled THEN "completed" ELSE "absent"]
  /\ \/ obs = {} /\ nextId = 1
     \/ obs = Fresh(Settled, 1) /\ nextId = Analyses + 2    \* normalised before
  /\ rel = {} /\ assess = {} /\ find = {} /\ announced = {} /\ reviews = {}
  /\ at = [s \in Req |-> "idle"]
  /\ mem = [s \in Req |-> Blank]
  /\ target = [s \in Req |-> {}]
  /\ held = [s \in Req |-> {}]
  /\ served = 0 /\ fails = 0 /\ overlapped = FALSE /\ refused = FALSE
  /\ dropped = {} /\ cut = {}

Completed == {a \in Analysis : anl[a] = "completed"}

-----------------------------------------------------------------------------
(* Requests and the locks of the database *)

HeldByOthers(s) == UNION {held[t] : t \in Req \ {s}}

Begin(s, first, memory) ==
  /\ at[s] = "idle" /\ served < MaxRequests
  /\ served' = served + 1
  /\ overlapped' = (overlapped \/ \E t \in Req : at[t] # "idle")
  /\ at' = [at EXCEPT ![s] = first]
  /\ mem' = [mem EXCEPT ![s] = memory]
  /\ UNCHANGED <<records, target, held, fails, refused, dropped, cut>>

Read(s, from, to, memory) ==
  /\ at[s] = from
  /\ at' = [at EXCEPT ![s] = to]
  /\ mem' = [mem EXCEPT ![s] = memory]
  /\ UNCHANGED <<records, target, held, history>>

DeleteFinds(s, from, to, rows) ==
  /\ at[s] = from
  /\ at' = [at EXCEPT ![s] = to]
  /\ target' = [target EXCEPT ![s] = Ids(rows)]
  /\ UNCHANGED <<records, mem, held, history>>

DeleteRemoves(s, from, to, rows) ==
  /\ at[s] = from
  /\ target[s] \cap HeldByOthers(s) = {}
  /\ at' = [at EXCEPT ![s] = to]
  /\ held' = [held EXCEPT ![s] = @ \cup (target[s] \cap Ids(rows))]
  /\ target' = [target EXCEPT ![s] = {}]
  /\ UNCHANGED <<records, mem, history>>

Close(s) ==                        \* the session ends; what it held is free
  /\ at' = [at EXCEPT ![s] = "idle"]
  /\ mem' = [mem EXCEPT ![s] = Blank]
  /\ target' = [target EXCEPT ![s] = {}]
  /\ held' = [held EXCEPT ![s] = {}]

Rollback(s) == Close(s) /\ UNCHANGED <<records, served, overlapped, dropped>>

Error(s) ==                        \* any statement of a request may fail
  /\ at[s] # "idle" /\ fails < MaxFails
  /\ fails' = fails + 1
  /\ cut' = IF at[s] = "review.append" THEN cut \cup Ids(mem[s].draft) ELSE cut
  /\ Rollback(s) /\ UNCHANGED refused

-----------------------------------------------------------------------------
(* EvidenceNormalizer.normalize_evidence *)

Normalize(s) == Begin(s, "norm.select", [Blank EXCEPT !.done = Completed])
NormSelect(s) == DeleteFinds(s, "norm.select", "norm.remove", obs)
NormRemove(s) == DeleteRemoves(s, "norm.remove", "norm.check", obs)

(* The foreign keys of the relations are checked when the DELETE ends. A   *)
(* relation that another transaction has removed is waited for.            *)
Referring(ids) == {r \in rel : r.a \in ids \/ r.b \in ids}
NormCheck(s) ==
  /\ at[s] = "norm.check"
  /\ Ids(Referring(held[s])) \cap HeldByOthers(s) = {}
  /\ \/ /\ Referring(held[s]) = {}
        /\ at' = [at EXCEPT ![s] = "norm.store"]
        /\ UNCHANGED <<records, mem, target, held, history>>
     \/ /\ Referring(held[s]) # {}
        /\ refused' = TRUE
        /\ Rollback(s) /\ UNCHANGED <<fails, cut>>

NormStore(s) ==
  /\ at[s] = "norm.store"
  /\ Close(s)
  /\ IF Fresh(mem[s].done, nextId) = {}        \* no commit: the DELETE is undone
     THEN UNCHANGED <<obs, nextId, dropped>>
     ELSE /\ obs' = Without(obs, held[s]) \cup Fresh(mem[s].done, nextId)
          /\ nextId' = nextId + Analyses + 1
          /\ dropped' = dropped \cup held[s]
  /\ UNCHANGED <<anl, rel, assess, find, announced, reviews>>
  /\ UNCHANGED <<served, fails, overlapped, refused, cut>>

-----------------------------------------------------------------------------
(* correlate_evidence: CorrelationEngine.run_correlation, then             *)
(* AssessmentEngine.run_assessment in the same session                     *)

Correlate(s) == Begin(s, "corr.select", [Blank EXCEPT !.seen = obs])
CorrSelect(s) == DeleteFinds(s, "corr.select", "corr.remove", rel)
CorrRemove(s) == DeleteRemoves(s, "corr.remove", "corr.store", rel)

NewRelations(s) == {[id |-> nextId, kind |-> r.kind, a |-> r.a, b |-> r.b]
                      : r \in Relations(mem[s].seen)}
Referred(rows) == {r.a : r \in rows} \cup {r.b : r \in rows}

(* Mutant: the foreign keys of the relations are not there. *)
AnchoredUnchecked(s) == s \in Req

Anchored(s) == Referred(NewRelations(s)) \subseteq Ids(obs)

CorrNothing(s) ==                      \* the DELETE stays uncommitted
  /\ NewRelations(s) = {}
  /\ Read(s, "corr.store", "assess.obs", mem[s])

CorrStore(s) ==
  /\ at[s] = "corr.store" /\ NewRelations(s) # {}
  /\ Referred(NewRelations(s)) \cap HeldByOthers(s) = {}
  /\ Anchored(s)
  /\ rel' = Without(rel, held[s]) \cup NewRelations(s)
  /\ nextId' = nextId + 1
  /\ dropped' = dropped \cup held[s]
  /\ held' = [held EXCEPT ![s] = {}]
  /\ at' = [at EXCEPT ![s] = "assess.obs"]
  /\ UNCHANGED <<anl, obs, assess, find, announced, reviews, mem, target>>
  /\ UNCHANGED <<served, fails, overlapped, refused, cut>>

(* Mutant: the missing observation is waited for. *)
CorrRefusedHeldOnly(s) ==
  /\ at[s] = "corr.store"
  /\ ~Anchored(s)
  /\ Referred(NewRelations(s)) \cap HeldByOthers(s) # {}
  /\ Rollback(s) /\ UNCHANGED <<fails, refused, cut>>

CorrRefused(s) ==                      \* an observation it read is gone
  /\ at[s] = "corr.store"
  /\ ~Anchored(s)
  /\ Rollback(s) /\ UNCHANGED <<fails, refused, cut>>

AssessObs(s) == Read(s, "assess.obs", "assess.rel", [mem[s] EXCEPT !.seen = obs])
AssessRel(s) == Read(s, "assess.rel", "assess.select",
                     [mem[s] EXCEPT !.links = Without(rel, held[s])])

(* Mutant: the previous assessment is not deleted. *)
AssessSelectNothing(s) == DeleteFinds(s, "assess.select", "assess.remove", {})

AssessSelect(s) == DeleteFinds(s, "assess.select", "assess.remove", assess)
AssessRemove(s) == DeleteRemoves(s, "assess.remove", "assess.store", assess)

NewAssessment(s) == [id |-> nextId, level |-> Level(mem[s].seen),
                     obs |-> Ids(Contributing(mem[s].seen)), rel |-> Ids(mem[s].links)]

AssessStore(s) ==
  /\ at[s] = "assess.store"
  /\ assess' = Without(assess, held[s]) \cup {NewAssessment(s)}
  /\ rel' = Without(rel, held[s])
  /\ dropped' = dropped \cup (held[s] \cap Ids(rel))
  /\ nextId' = nextId + 1
  /\ Close(s)
  /\ UNCHANGED <<anl, obs, find, announced, reviews>>
  /\ UNCHANGED <<served, fails, overlapped, refused, cut>>

-----------------------------------------------------------------------------
(* CorrelationEngine.evaluate_evidence of the findings. `done` holds the   *)
(* analyses whose row is the newest of its type and completed.             *)

NewestRow(A, a) == \A b \in A : Kind[b] = Kind[a] => b <= a
Rows == {a \in Analysis : anl[a] # "absent"}
NewestCompleted(A) == {a \in A : NewestRow(A, a) /\ anl[a] = "completed"}

Evaluate(s) == Begin(s, "eval.obs", [Blank EXCEPT !.done = NewestCompleted(Rows), !.rows = Rows])
EvalObs(s) == Read(s, "eval.obs", "eval.rule", [mem[s] EXCEPT !.seen = obs, !.todo = RuleOrder])

(* After a commit every object is read again when it is used. *)
Types(s) == LET A == IF mem[s].expired THEN NewestCompleted(mem[s].rows) ELSE mem[s].done
            IN {Kind[a] : a \in A}
Next1(s) == Head(mem[s].todo)
Due(s) == at[s] = "eval.rule" /\ mem[s].todo # <<>> /\ Triggered(Next1(s), Types(s), Image)
Citable(s) == ~mem[s].expired \/ Cites(Next1(s), mem[s].seen) \subseteq Ids(obs)

(* Mutant: only findings that were not reviewed are updated. *)
ExistingUnreviewed(rule) == {f \in find : f.rule = rule /\ f.status = "GENERATED"}

Existing(rule) == {f \in find : f.rule = rule}
Advance(s) == [mem[s] EXCEPT !.todo = Tail(@)]

EvalSkip(s) ==
  /\ mem[s].todo # <<>> /\ ~Triggered(Next1(s), Types(s), Image)
  /\ Read(s, "eval.rule", "eval.rule", Advance(s))

EvalUpdate(s) ==                       \* first() of the existing findings
  /\ Due(s) /\ Citable(s)
  /\ \E f \in Existing(Next1(s)) :
       Read(s, "eval.rule", "eval.rule",
            [Advance(s) EXCEPT !.draft = @ \cup {[f EXCEPT !.obs = Cites(Next1(s), mem[s].seen)]}])

(* Mutant: the whole row is written back. *)
FlushedRow(draft) == {IF f.id \in Ids(draft) THEN CHOOSE d \in draft : d.id = f.id ELSE f : f \in find}

(* Flushing writes the columns that were set: the status is not among them. *)
Flushed(draft) == {IF f.id \in Ids(draft)
                   THEN [f EXCEPT !.obs = (CHOOSE d \in draft : d.id = f.id).obs] ELSE f : f \in find}

(* Mutant: the event is not appended when a finding is generated. *)
AnnouncedNot(id) == {i \in announced : i # id}

Announced(id) == announced \cup {id}

EvalInsert(s) ==                       \* flush; log_event commits
  /\ Due(s) /\ Citable(s) /\ Existing(Next1(s)) = {}
  /\ find' = Flushed(mem[s].draft) \cup
               {[id |-> nextId, rule |-> Next1(s), status |-> "GENERATED",
                 obs |-> Cites(Next1(s), mem[s].seen)]}
  /\ announced' = Announced(nextId)
  /\ nextId' = nextId + 1
  /\ mem' = [mem EXCEPT ![s] = [Advance(s) EXCEPT !.expired = TRUE, !.draft = {}]]
  /\ UNCHANGED <<anl, obs, rel, assess, reviews, at, target, held, history>>

EvalLost(s) ==                         \* ObjectDeletedError
  /\ Due(s) /\ ~Citable(s)
  /\ Rollback(s) /\ UNCHANGED <<fails, refused, cut>>

EvalEnd(s) ==
  /\ at[s] = "eval.rule" /\ mem[s].todo = <<>>
  /\ find' = Flushed(mem[s].draft)
  /\ Close(s)
  /\ UNCHANGED <<anl, obs, rel, assess, announced, reviews, nextId, history>>

-----------------------------------------------------------------------------
(* FindingService.review_finding *)

Review(s) == \E f \in find : Begin(s, "review.write", [Blank EXCEPT !.draft = {f}])

ReviewWrite(s) ==
  /\ at[s] = "review.write"
  /\ \E f \in mem[s].draft : \E new \in ValidTransitions[f.status] :
       /\ find' = {IF g.id = f.id THEN [g EXCEPT !.status = new] ELSE g : g \in find}
       /\ mem' = [mem EXCEPT ![s] = [@ EXCEPT !.draft = {f}, !.verdict = {new}]]
  /\ at' = [at EXCEPT ![s] = "review.append"]
  /\ UNCHANGED <<anl, obs, rel, assess, announced, reviews, nextId, target, held, history>>

(* Mutant: the event has the statuses the wrong way round. *)
ReviewAppendSwapped(s) ==
  /\ at[s] = "review.append"
  /\ reviews' = reviews \cup {[finding |-> f.id, old |-> n, new |-> f.status]
                                : f \in mem[s].draft, n \in mem[s].verdict}
  /\ Close(s)
  /\ UNCHANGED <<anl, obs, rel, assess, find, announced, nextId, history>>

ReviewAppend(s) ==
  /\ at[s] = "review.append"
  /\ reviews' = reviews \cup {[finding |-> f.id, old |-> f.status, new |-> n]
                                : f \in mem[s].draft, n \in mem[s].verdict}
  /\ Close(s)
  /\ UNCHANGED <<anl, obs, rel, assess, find, announced, nextId, history>>

-----------------------------------------------------------------------------
(* CaseExportService.create_bundle: one statement per table. The bundle    *)
(* is what the request has in memory.                                      *)

Export(s) == Begin(s, "export.obs", [Blank EXCEPT !.since = nextId])
(* Mutant: only the observations that contribute are exported. *)
ExportObsActive(s) == Read(s, "export.obs", "export.rel", [mem[s] EXCEPT !.seen = Contributing(obs)])

ExportObs(s) == Read(s, "export.obs", "export.rel", [mem[s] EXCEPT !.seen = obs])
ExportRel(s) == Read(s, "export.rel", "export.assess", [mem[s] EXCEPT !.links = rel])
ExportAssess(s) == Read(s, "export.assess", "export.find", [mem[s] EXCEPT !.rated = assess])
ExportFind(s) == Read(s, "export.find", "export.done", [mem[s] EXCEPT !.draft = find])
ExportEnd(s) == at[s] = "export.done" /\ Close(s) /\ UNCHANGED <<records, history>>

(* The references that the import of the bundle maps to rows of the bundle *)
(* and refuses when they are not there: _map_id, _remap_id_list and        *)
(* _remap_contributors.                                                    *)
Dangling(b) ==
  LET cited == Referred(b.links) \cup (UNION {x.obs : x \in b.rated}) \cup (UNION {f.obs : f \in b.draft})
      linked == UNION {x.rel : x \in b.rated}
  IN (cited \ Ids(b.seen)) \cup (linked \ Ids(b.links))

-----------------------------------------------------------------------------
(* The analyses of the workers *)

StartAnalysis(a) ==
  /\ anl[a] = "absent" /\ \A b \in Analysis : anl[b] = "absent" => a <= b
  /\ anl' = [anl EXCEPT ![a] = "running"]
  /\ UNCHANGED <<obs, rel, assess, find, announced, reviews, nextId, requests, history>>

(* A V4 engine commits its observations with the completed row. *)
EndAnalysis(a) ==
  /\ anl[a] = "running"
  /\ \/ /\ anl' = [anl EXCEPT ![a] = "failed"]
        /\ UNCHANGED <<obs, nextId>>
     \/ /\ anl' = [anl EXCEPT ![a] = "completed"]
        /\ IF Kind[a] = "EXTENSION"
           THEN obs' = obs \cup {Observed(a, nextId)} /\ nextId' = nextId + Analyses + 1
           ELSE UNCHANGED <<obs, nextId>>
  /\ UNCHANGED <<rel, assess, find, announced, reviews, requests, history>>

-----------------------------------------------------------------------------
(* Two requests that wait for each other: the database ends one of them.   *)

Blocked(s, t) == \/ /\ at[s] = "norm.check"
                    /\ Ids(Referring(held[s])) \cap held[t] # {}
                 \/ /\ at[s] = "corr.store"
                    /\ Referred(NewRelations(s)) \cap held[t] # {}

Deadlock(s) ==
  /\ \E t \in Req \ {s} : Blocked(s, t) /\ Blocked(t, s)
  /\ Rollback(s) /\ UNCHANGED <<fails, refused, cut>>

Step(s) ==
  \/ NormSelect(s) \/ NormRemove(s) \/ NormCheck(s) \/ NormStore(s)
  \/ CorrSelect(s) \/ CorrRemove(s) \/ CorrNothing(s) \/ CorrStore(s) \/ CorrRefused(s)
  \/ AssessObs(s) \/ AssessRel(s) \/ AssessSelect(s) \/ AssessRemove(s) \/ AssessStore(s)
  \/ EvalObs(s) \/ EvalSkip(s) \/ EvalUpdate(s) \/ EvalInsert(s) \/ EvalLost(s) \/ EvalEnd(s)
  \/ ReviewWrite(s) \/ ReviewAppend(s)
  \/ ExportObs(s) \/ ExportRel(s) \/ ExportAssess(s) \/ ExportFind(s) \/ ExportEnd(s)
  \/ Deadlock(s)

Request(s) == Normalize(s) \/ Correlate(s) \/ Evaluate(s) \/ Review(s) \/ Export(s)

Next ==
  \/ \E s \in Req : Request(s) \/ Step(s) \/ Error(s)
  \/ \E a \in Analysis : StartAnalysis(a) \/ EndAnalysis(a)

Spec == Init /\ [][Next]_vars

-----------------------------------------------------------------------------
(* Properties *)

ObservationRow == [id : Nat, src : Analysis, modality : Modality \cup {"EXTENSION"}, direction : Directions]
RelationRow == [id : Nat, kind : RelationKind, a : Nat, b : Nat]
AssessmentRow == [id : Nat, level : Levels, obs : SUBSET Nat, rel : SUBSET Nat]
FindingRow == [id : Nat, rule : Rule, status : Status, obs : SUBSET Nat]

Point ==
  {"idle", "norm.select", "norm.remove", "norm.check", "norm.store",
   "corr.select", "corr.remove", "corr.store",
   "assess.obs", "assess.rel", "assess.select", "assess.remove", "assess.store",
   "eval.obs", "eval.rule", "review.write", "review.append",
   "export.obs", "export.rel", "export.assess", "export.find", "export.done"}

RecordsTypeOK ==
  /\ anl \in [Analysis -> {"absent", "running", "completed", "failed"}]
  /\ obs \subseteq ObservationRow /\ rel \subseteq RelationRow
  /\ assess \subseteq AssessmentRow /\ find \subseteq FindingRow
  /\ announced \subseteq Nat
  /\ reviews \subseteq [finding : Nat, old : Status, new : Status]
  /\ nextId \in Nat
  /\ at \in [Req -> Point]
  /\ target \in [Req -> SUBSET Nat] /\ held \in [Req -> SUBSET Nat]
  /\ served \in Nat /\ fails \in Nat
  /\ overlapped \in BOOLEAN /\ refused \in BOOLEAN
  /\ dropped \subseteq Nat /\ cut \subseteq Nat

(* Whatever normalisations and correlations run at the same time, fail or  *)
(* are aborted, a stored relation refers to two stored observations: the   *)
(* deletion of normalizer.py:19 and the insertion of correlation/engine.py *)
(* never miss each other.                                                  *)
RelationsAnchored == Referred(rel) \subseteq Ids(obs)

(* A finding is committed by log_event together with its FINDING_GENERATED *)
(* event: no finding without the event, no event without the finding, and  *)
(* no id twice.                                                            *)
FindingAudited == /\ announced = Ids(find)
                  /\ \A f, g \in find : f.id = g.id => f = g

(* "Generates or updates Finding records idempotently": as long as no two  *)
(* requests have been open at the same time there is one finding of a      *)
(* rule, one assessment, one observation of an analysis and one set of     *)
(* relations, also when requests in between ended in an error.             *)
IdempotentAlone ==
  ~overlapped =>
    /\ \A f, g \in find : f.rule = g.rule => f = g
    /\ \A x, y \in assess : x = y
    /\ \A o, p \in obs : o.src = p.src => o = p
    /\ \A q, r \in rel : q.id = r.id

(* The assessment is computed after the relations, in a transaction of its *)
(* own: between requests that never overlapped and never failed it names   *)
(* exactly the stored relations.                                           *)
AssessmentCurrent ==
  ~overlapped /\ fails = 0 /\ (\A s \in Req : at[s] = "idle") =>
    \A x \in assess : x.rel = Ids(rel)

(* The export has no common snapshot. A reference of the finished bundle   *)
(* that an import refuses is to a row that a later request had dropped, or *)
(* to one that was stored after the export began.                          *)
BundleExplained ==
  \A s \in Req : at[s] = "export.done" =>
    \A i \in Dangling(mem[s]) : i \in dropped \/ i >= mem[s].since

(* The status of a finding that was reviewed is the new status of a review *)
(* event, unless that event is about to be appended or its append failed.  *)
StatusAudited ==
  \A f \in find : f.status # "GENERATED" =>
    \/ \E e \in reviews : e.finding = f.id /\ e.new = f.status
    \/ \E s \in Req : at[s] = "review.append" /\ f.id \in Ids(mem[s].draft)
    \/ f.id \in cut

(* A finding that an analyst has reviewed never becomes an unreviewed one  *)
(* again and is never lost, whatever evaluations with older copies commit. *)
ReviewStays ==
  [][\A f \in find : \E g \in find' :
       /\ g.id = f.id /\ g.rule = f.rule
       /\ f.status # "GENERATED" => g.status # "GENERATED"]_vars

(* A statement that waits for rows of another transaction does not wait    *)
(* for ever: while requests are open one of them can go on, as the waits   *)
(* of normalise and correlate only ever form cycles of two.                *)
SomeoneGoesOn ==
  (\E s \in Req : at[s] # "idle") => \E s \in Req : ENABLED Step(s)

(* docs/forensics/evidence-fusion.md: "Rerunning the Normalizer safely     *)
(* deletes previous observations for the given evidence and creates fresh  *)
(* ones" - no rerun is turned down.                                        *)
NormalizeAccepted == ~refused

(* docs/forensics/evidence-fusion.md: "Each adapter knows how to unpack    *)
(* its specific Analysis.structured_findings" - an observation reports     *)
(* what the analysis of its modality measured.                             *)
ObservationsReport ==
  \A o \in obs : o.modality \in Modality =>
    (o.direction \in Active) = (Shows[o.modality] \in Image)
=============================================================================
