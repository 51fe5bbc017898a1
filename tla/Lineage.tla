------------------------------ MODULE Lineage ------------------------------
(***************************************************************************)
(* Candidate links between the images of a case: the refresh that compares *)
(* them and stores a row for each pair that matches, and the reviews of    *)
(* the rows by analysts. No row is locked between the statement that reads *)
(* it and the commit that writes it. The flush writes only the columns     *)
(* whose value differs from the one that was read, and an object is read   *)
(* again when it is used after a commit: the audit event of a review says  *)
(* what the row holds by then.                                             *)
(***************************************************************************)
EXTENDS Naturals, FiniteSets

CONSTANTS User,        \* the sessions; each serves one analyst
          LastImage,   \* the images are 1..LastImage, in the order of their ids
          Early,       \* those that are stored at the start
          Unreadable,  \* the images whose file cannot be decoded
          Measured,    \* Measured[p]: what holds of a pair of images
          MAX_CASE_IMAGES,
          MaxRequests, \* bound on the requests served
          MaxFails     \* bound on the requests that end in an error

Image == 1..LastImage
Pair == {p \in Image \X Image : p[1] < p[2]}
Trait == {"sha256", "descriptors", "matches", "inliers", "ratio", "dhash", "aspect", "texture"}

ASSUME LineageAssumption ==
  /\ LastImage \in Nat /\ Early \subseteq Image
  /\ Unreadable \subseteq Image
  /\ Measured \in [Pair -> SUBSET Trait]
  /\ MAX_CASE_IMAGES \in Nat /\ MaxRequests \in Nat /\ MaxFails \in Nat

VARIABLES
  stored,     \* the images of the case
  link,       \* the row of each pair; of kind "NONE" while there is none
  trail,      \* the IMAGE_LINEAGE_REVIEWED events
  refreshes,  \* the IMAGE_LINEAGE_REFRESHED events
  at,         \* the next statement of each request
  refresh,    \* the pairs that it has to look up, has found, and will insert
  review,     \* the decision that it carries out
  told,       \* the row as it was read again for the event
  served, fails,
  answered,   \* the decisions whose request has succeeded
  crossed,    \* the pairs that two requests have reviewed at the same time
  clashed,    \* two refreshes have been open at the same time
  refused,    \* the unique constraint has refused a refresh
  lost        \* the pairs of reviews that failed between commit and event

rows == <<stored, link, trail, refreshes>>
requests == <<at, refresh, review, told>>
history == <<answered, crossed, clashed, refused, lost>>
bounds == <<served, fails>>
vars == <<rows, requests, history, bounds>>

-----------------------------------------------------------------------------
(* LineageService._compare *)

Kind == {"NONE", "EXACT_BITSTREAM", "LIKELY_DERIVATIVE", "POSSIBLE_DERIVATIVE"}

GeometrySupported(m) == {"descriptors", "matches", "inliers", "ratio"} \subseteq m
LowFrequencySupported(m) == {"dhash", "aspect", "texture"} \subseteq m

Compare(m) == CASE "sha256" \in m             -> "EXACT_BITSTREAM"
                [] "sha256" \notin m /\ GeometrySupported(m) -> "LIKELY_DERIVATIVE"
                [] "sha256" \notin m /\ ~GeometrySupported(m) /\ LowFrequencySupported(m)
                                              -> "POSSIBLE_DERIVATIVE"
                [] OTHER                      -> "NONE"

Status == {"CANDIDATE", "CONFIRMED_RELATION", "REJECTED", "INCONCLUSIVE"}
Verdict == Status \ {"CANDIDATE"}
Row == [kind : Kind, status : Status, parent : {0} \cup Image, reviewer : SUBSET User]
NoRow == [kind |-> "NONE", status |-> "CANDIDATE", parent |-> 0, reviewer |-> {}]

Linked == {p \in Pair : link[p].kind # "NONE"}

NoRefresh == [todo |-> {}, found |-> {}, new |-> {}]

Init ==
  /\ stored = Early
  /\ link = [p \in Pair |-> NoRow]
  /\ trail = {} /\ refreshes = {}
  /\ at = [s \in User |-> "idle"]
  /\ refresh = [s \in User |-> NoRefresh]
  /\ review = [s \in User |-> {}]
  /\ told = [s \in User |-> {}]
  /\ served = 0 /\ fails = 0
  /\ answered = {} /\ crossed = {} /\ clashed = FALSE /\ refused = FALSE /\ lost = {}

Upload ==                           \* ids are drawn before the commit, so in any order
  /\ \E i \in Image \ stored : stored' = stored \cup {i}
  /\ UNCHANGED <<link, trail, refreshes, requests, history, bounds>>

Arrive(s) == at[s] = "idle" /\ served < MaxRequests /\ served' = served + 1

Close(s) ==                         \* the session ends
  /\ at' = [at EXCEPT ![s] = "idle"]
  /\ refresh' = [refresh EXCEPT ![s] = NoRefresh]
  /\ review' = [review EXCEPT ![s] = {}]
  /\ told' = [told EXCEPT ![s] = {}]

-----------------------------------------------------------------------------
(* LineageService.refresh_case *)

Comparable == {p \in Pair : {p[1], p[2]} \subseteq stored \ Unreadable}
Matching == {p \in Comparable : Compare(Measured[p]) # "NONE"}
Refreshing(t) == at[t] \in {"refresh.find", "refresh.log"}

RefreshBegin(s) ==                  \* more images are answered with 400
  /\ Arrive(s)
  /\ Cardinality(stored) <= MAX_CASE_IMAGES
  /\ at' = [at EXCEPT ![s] = "refresh.find"]
  /\ refresh' = [refresh EXCEPT ![s] = [NoRefresh EXCEPT !.todo = Matching]]
  /\ clashed' = (clashed \/ \E t \in User : Refreshing(t))
  /\ UNCHANGED <<rows, review, told, fails, answered, crossed, refused, lost>>

(* combinations() yields the pairs in this order. *)
Before(p, q) == p[1] < q[1] \/ (p[1] = q[1] /\ p[2] < q[2])

(* Mutant: the query looks for the pair the wrong way round. *)
ExistsReversed(p) == <<p[2], p[1]>> \in Linked

Exists(p) == p \in Linked

RefreshFind(s) ==
  /\ at[s] = "refresh.find"
  /\ \E p \in refresh[s].todo :
       /\ \A q \in refresh[s].todo : q = p \/ Before(p, q)
       /\ refresh' = [refresh EXCEPT ![s] =
            [todo  |-> @.todo \ {p},
             found |-> IF Exists(p) THEN @.found \cup {p} ELSE @.found,
             new   |-> IF Exists(p) THEN @.new ELSE @.new \cup {p}]]
  /\ UNCHANGED <<rows, at, review, told, history, bounds>>

NewRow(p) == [NoRow EXCEPT !.kind = Compare(Measured[p])]

(* Mutant: an existing row is replaced by a new one. *)
RefreshedReset(p) == NewRow(p)

Refreshed(p) == [link[p] EXCEPT !.kind = Compare(Measured[p])]

Inserted(s) == refresh[s].new

RefreshCommit(s) ==
  /\ at[s] = "refresh.find" /\ refresh[s].todo = {}
  /\ Inserted(s) \cap Linked = {}
  /\ link' = [p \in Pair |-> IF p \in Inserted(s) THEN NewRow(p)
                             ELSE IF p \in refresh[s].found THEN Refreshed(p) ELSE link[p]]
  /\ at' = [at EXCEPT ![s] = "refresh.log"]
  /\ UNCHANGED <<stored, trail, refreshes, refresh, review, told, history, bounds>>

RefreshRefused(s) ==                \* IntegrityError
  /\ at[s] = "refresh.find" /\ refresh[s].todo = {}
  /\ Inserted(s) \cap Linked # {}
  /\ refused' = TRUE
  /\ Close(s)
  /\ UNCHANGED <<rows, answered, crossed, clashed, lost, bounds>>

RefreshLog(s) ==                    \* the event has the number of the pairs
  /\ at[s] = "refresh.log"
  /\ refreshes' = refreshes \cup {[actor |-> s, pairs |-> refresh[s].found \cup refresh[s].new]}
  /\ Close(s)
  /\ UNCHANGED <<stored, link, trail, history, bounds>>

-----------------------------------------------------------------------------
(* review_lineage_relation *)

(* A CONFIRMED_RELATION names one of the two images as the parent, or none *)
(* when their bytes are the same.                                          *)
Acceptable(p, verdict, parent) ==
  verdict = "CONFIRMED_RELATION" =>
    parent \in {p[1], p[2]} \/ (parent = 0 /\ link[p].kind = "EXACT_BITSTREAM")

(* Mutant: the parent is not cleared. *)
DecidedParentKept(p, verdict, parent) ==
  IF verdict = "CONFIRMED_RELATION" THEN parent ELSE link[p].parent

DecidedParent(p, verdict, parent) == IF verdict = "CONFIRMED_RELATION" THEN parent ELSE 0

Reviewing(t, p) == /\ at[t] \in {"review.write", "review.reread", "review.log"}
                   /\ \E d \in review[t] : d.pair = p

ReviewBegin(s) ==
  /\ Arrive(s)
  /\ \E p \in Linked, verdict \in Verdict, parent \in {0} \cup Image :
       /\ Acceptable(p, verdict, parent)
       /\ review' = [review EXCEPT ![s] =
            {[pair |-> p, row |-> link[p], status |-> verdict,
              parent |-> DecidedParent(p, verdict, parent)]}]
       /\ crossed' = IF \E t \in User : Reviewing(t, p) THEN crossed \cup {p} ELSE crossed
  /\ at' = [at EXCEPT ![s] = "review.write"]
  /\ UNCHANGED <<rows, refresh, told, fails, answered, clashed, refused, lost>>

(* The flush of a decision, made on what was read, into the row of now. *)
Changed(now, read, decided) == IF decided = read THEN now ELSE decided
Written(d, s) ==
  LET now == link[d.pair] IN
  [kind     |-> now.kind,
   status   |-> Changed(now.status, d.row.status, d.status),
   parent   |-> Changed(now.parent, d.row.parent, d.parent),
   reviewer |-> Changed(now.reviewer, d.row.reviewer, {s})]

ReviewWrite(s) ==
  /\ at[s] = "review.write"
  /\ \E d \in review[s] : link' = [link EXCEPT ![d.pair] = Written(d, s)]
  /\ at' = [at EXCEPT ![s] = "review.reread"]
  /\ UNCHANGED <<stored, trail, refreshes, refresh, review, told, history, bounds>>

(* Mutant: the event says what the request has decided. *)
TellDecision(d) == [link[d.pair] EXCEPT !.status = d.status, !.parent = d.parent]

(* Mutant: the event says what the request has read first. *)
TellFirstRead(d) == d.row

Tell(d) == link[d.pair]

ReviewReread(s) ==
  /\ at[s] = "review.reread"
  /\ told' = [told EXCEPT ![s] = {Tell(d) : d \in review[s]}]
  /\ at' = [at EXCEPT ![s] = "review.log"]
  /\ UNCHANGED <<rows, refresh, review, history, bounds>>

Event(p, s, status, parent) == [pair |-> p, actor |-> s, status |-> status, parent |-> parent]

ReviewLog(s) ==
  /\ at[s] = "review.log"
  /\ trail' = trail \cup {Event(d.pair, s, r.status, r.parent) : d \in review[s], r \in told[s]}
  /\ answered' = answered \cup {Event(d.pair, s, d.status, d.parent) : d \in review[s]}
  /\ Close(s)
  /\ UNCHANGED <<stored, link, refreshes, crossed, clashed, refused, lost, bounds>>

Error(s) ==                         \* any statement of a request may fail
  /\ at[s] # "idle" /\ fails < MaxFails
  /\ fails' = fails + 1
  /\ lost' = IF at[s] \in {"review.reread", "review.log"}
             THEN lost \cup {d.pair : d \in review[s]} ELSE lost
  /\ Close(s)
  /\ UNCHANGED <<rows, served, answered, crossed, clashed, refused>>

Refresh(s) == RefreshBegin(s) \/ RefreshFind(s) \/ RefreshCommit(s) \/ RefreshRefused(s) \/ RefreshLog(s)
Review(s) == ReviewBegin(s) \/ ReviewWrite(s) \/ ReviewReread(s) \/ ReviewLog(s)

Next == Upload \/ \E s \in User : Refresh(s) \/ Review(s) \/ Error(s)

Spec == Init /\ [][Next]_vars

-----------------------------------------------------------------------------
(* Properties *)

Point == {"idle", "refresh.find", "refresh.log", "review.write", "review.reread", "review.log"}
Decision == [pair : Pair, row : Row, status : Verdict, parent : {0} \cup Image]
ReviewEvent == [pair : Pair, actor : User, status : Status, parent : {0} \cup Image]

LineageTypeOK ==
  /\ stored \subseteq Image
  /\ link \in [Pair -> Row]
  /\ trail \subseteq ReviewEvent
  /\ refreshes \subseteq [actor : User, pairs : SUBSET Pair]
  /\ at \in [User -> Point]
  /\ refresh \in [User -> [todo : SUBSET Pair, found : SUBSET Pair, new : SUBSET Pair]]
  /\ review \in [User -> SUBSET Decision]
  /\ told \in [User -> SUBSET Row]
  /\ served \in Nat /\ fails \in Nat
  /\ answered \subseteq ReviewEvent /\ crossed \subseteq Pair
  /\ clashed \in BOOLEAN /\ refused \in BOOLEAN /\ lost \subseteq Pair
  /\ \A p \in Pair : link[p].parent \in {0, p[1], p[2]}

(* What a reviewed link shows - the status and the parent, which two       *)
(* reviews may have written one column each of - is what some event of the *)
(* trail says of it, unless a review of it has still to append its event   *)
(* or failed in between: the trail is right about the row because the      *)
(* event is made of the row as read after the commit.                      *)
LinkAudited ==
  \A p \in Linked : link[p].status # "CANDIDATE" =>
    \/ \E e \in trail : e.pair = p /\ e.status = link[p].status /\ e.parent = link[p].parent
    \/ \E s \in User : Reviewing(s, p) /\ at[s] # "review.write"
    \/ p \in lost

(* A link on which no two reviews have met is directed as it was decided:  *)
(* it has a parent only if confirmed, and a confirmed link between         *)
(* different files has one.                                                *)
DirectionSound ==
  \A p \in Linked \ crossed :
    /\ link[p].parent # 0 => link[p].status = "CONFIRMED_RELATION"
    /\ link[p].status = "CONFIRMED_RELATION" /\ link[p].kind # "EXACT_BITSTREAM" => link[p].parent # 0

(* "Analyst decision recorded in the case audit trail": a review that was  *)
(* answered with success has an event with its analyst, its verdict and    *)
(* its parent - as long as no other review met it on the same link,        *)
DecisionRecordedAlone == \A a \in answered : a.pair \in crossed \/ a \in trail

(* and as the page of the frontend says it, always.                        *)
DecisionRecorded == answered \subseteq trail

(* A refresh that ended in an event has stored every pair it counted, also *)
(* those that it found or that another refresh was storing meanwhile.      *)
RefreshComplete == \A e \in refreshes : e.pairs \subseteq Linked

(* Only a refresh that meets another one is refused: run one after the     *)
(* other, refreshes are idempotent, whatever is uploaded, reviewed or      *)
(* fails between them.                                                     *)
RefusedOnlyInClash == refused => clashed

(* No refresh takes back what an analyst decided after it had read the     *)
(* row, and no link disappears or becomes a candidate again.               *)
ReviewedStays ==
  [][\A p \in Linked :
       /\ link'[p].kind = link[p].kind
       /\ link[p].status # "CANDIDATE" => link'[p].status # "CANDIDATE"]_vars
=============================================================================
