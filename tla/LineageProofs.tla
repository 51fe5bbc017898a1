--------------------------- MODULE LineageProofs ---------------------------
(***************************************************************************)
(* For any number of analysts, images and requests: rows are well formed,  *)
(* the trail accounts for what every reviewed link shows, links on which   *)
(* no two reviews met are directed and recorded as decided, and refreshes  *)
(* neither lose a pair, nor undo a review, nor are refused alone.          *)
(***************************************************************************)
EXTENDS Lineage, TLAPS

(* A request carries out one decision, which names a parent of the pair.   *)
OneDecision == \A s \in User : \A d, e \in review[s] : d = e
ParentOfPair == \A s \in User : \A d \in review[s] : d.parent \in {0, d.pair[1], d.pair[2]}
TypeInv == LineageTypeOK /\ OneDecision /\ ParentOfPair

(* A comparison yields a kind. *)
LEMMA CompareType == ASSUME NEW m PROVE Compare(m) \in Kind
BY DEF Compare, Kind

(* A pair is a pair of images. *)
LEMMA PairType == ASSUME NEW p \in Pair PROVE p[1] \in Image /\ p[2] \in Image
BY DEF Pair

(* New and refreshed rows are rows; refreshing keeps what was reviewed. *)
LEMMA RowsTyped ==
  ASSUME TypeInv, NEW p \in Pair
  PROVE  /\ NewRow(p) \in Row /\ NewRow(p).status = "CANDIDATE" /\ NewRow(p).parent = 0
         /\ NewRow(p).kind = Compare(Measured[p])
         /\ link[p] \in Row /\ Refreshed(p) \in Row /\ Refreshed(p).kind = Compare(Measured[p])
         /\ Refreshed(p).status = link[p].status /\ Refreshed(p).parent = link[p].parent
<1>1. Compare(Measured[p]) \in Kind  BY CompareType
<1>2. NoRow \in Row /\ NoRow.status = "CANDIDATE" /\ NoRow.parent = 0
  BY DEF NoRow, Row, Kind, Status
<1>3. link[p] \in Row  BY DEF TypeInv, LineageTypeOK
<1> QED  BY <1>1, <1>2, <1>3 DEF NewRow, Refreshed, Row

(* Each column of a written row is the one of now or the decided one.      *)
LEMMA WrittenTyped ==
  ASSUME TypeInv, NEW s \in User, NEW d \in review[s]
  PROVE  /\ Written(d, s) \in Row /\ Written(d, s).kind = link[d.pair].kind
         /\ Written(d, s).status \in {link[d.pair].status, d.status}
         /\ Written(d, s).parent \in {link[d.pair].parent, d.parent}
         /\ d \in Decision /\ d.pair \in Pair /\ link[d.pair] \in Row
<1>1. d \in Decision  BY DEF TypeInv, LineageTypeOK
<1>2. d.pair \in Pair /\ d.status \in Status /\ d.parent \in {0} \cup Image
  BY <1>1 DEF Decision, Verdict
<1>3. link[d.pair] \in Row  BY <1>2 DEF TypeInv, LineageTypeOK
<1> QED  BY <1>1, <1>2, <1>3 DEF Written, Changed, Row

(* The end of a session keeps the types of its variables.                  *)
LEMMA CloseTyped ==
  ASSUME TypeInv, NEW s \in User, Close(s)
  PROVE  /\ at' \in [User -> Point] /\ review' \in [User -> SUBSET Decision] /\ told' \in [User -> SUBSET Row]
         /\ refresh' \in [User -> [todo : SUBSET Pair, found : SUBSET Pair, new : SUBSET Pair]]
         /\ OneDecision' /\ ParentOfPair'
BY DEF TypeInv, LineageTypeOK, OneDecision, ParentOfPair, Close, NoRefresh, Point

(* The statements of a refresh keep the types,                             *)
LEMMA RefreshTyped == ASSUME TypeInv, NEW s \in User, Refresh(s) PROVE TypeInv'
<1>1. CASE RefreshBegin(s)
  <2> DEFINE m == [NoRefresh EXCEPT !.todo = Matching]
  <2>1. m \in [todo : SUBSET Pair, found : SUBSET Pair, new : SUBSET Pair]
    BY DEF NoRefresh, Matching, Comparable
  <2>2. refresh' = [refresh EXCEPT ![s] = m]  BY <1>1 DEF RefreshBegin
  <2> HIDE DEF m
  <2>3. clashed' \in BOOLEAN  BY <1>1 DEF RefreshBegin
  <2>4. /\ at' = [at EXCEPT ![s] = "refresh.find"] /\ served' = served + 1
        /\ UNCHANGED <<rows, review, told, fails, answered, crossed, refused, lost>>
    BY <1>1 DEF RefreshBegin, Arrive
  <2> QED  BY <2>1, <2>2, <2>3, <2>4
        DEF TypeInv, LineageTypeOK, OneDecision, ParentOfPair, rows, Point
<1>2. CASE RefreshFind(s)
  <2>1. PICK p \in refresh[s].todo : refresh' = [refresh EXCEPT ![s] =
            [todo  |-> @.todo \ {p},
             found |-> IF Exists(p) THEN @.found \cup {p} ELSE @.found,
             new   |-> IF Exists(p) THEN @.new ELSE @.new \cup {p}]]
    BY <1>2 DEF RefreshFind
  <2>2. refresh' \in [User -> [todo : SUBSET Pair, found : SUBSET Pair, new : SUBSET Pair]]
    BY <2>1 DEF TypeInv, LineageTypeOK
  <2> QED  BY <1>2, <2>2
        DEF RefreshFind, TypeInv, LineageTypeOK, OneDecision, ParentOfPair, rows, history, bounds
<1>3. CASE RefreshCommit(s)
  <2> DEFINE new(p) == IF p \in Inserted(s) THEN NewRow(p)
                       ELSE IF p \in refresh[s].found THEN Refreshed(p) ELSE link[p]
  <2>1. link' = [p \in Pair |-> new(p)]  BY <1>3 DEF RefreshCommit
  <2>2. ASSUME NEW p \in Pair PROVE new(p) \in Row /\ new(p).parent \in {0, link[p].parent}
    BY RowsTyped
  <2> HIDE DEF new
  <2>3. link' \in [Pair -> Row] /\ \A p \in Pair : link'[p].parent \in {0, p[1], p[2]}
    BY <2>1, <2>2 DEF TypeInv, LineageTypeOK
  <2> QED  BY <1>3, <2>3
        DEF RefreshCommit, TypeInv, LineageTypeOK, OneDecision, ParentOfPair, history, bounds, Point
<1>4. CASE RefreshRefused(s)
  BY <1>4, CloseTyped DEF RefreshRefused, TypeInv, LineageTypeOK, rows, bounds
<1>5. CASE RefreshLog(s)
  <2>1. refresh[s].found \cup refresh[s].new \subseteq Pair  BY DEF TypeInv, LineageTypeOK
  <2> DEFINE e == [actor |-> s, pairs |-> refresh[s].found \cup refresh[s].new]
  <2>2. e \in [actor : User, pairs : SUBSET Pair]  BY <2>1
  <2>3. refreshes' = refreshes \cup {e}  BY <1>5 DEF RefreshLog
  <2> HIDE DEF e
  <2> QED  BY <1>5, <2>2, <2>3, CloseTyped DEF RefreshLog, TypeInv, LineageTypeOK, history, bounds
<1> QED  BY <1>1, <1>2, <1>3, <1>4, <1>5 DEF Refresh

(* What a review appends is a review event. *)
LEMMA EventTyped ==
  ASSUME NEW p \in Pair, NEW s \in User, NEW status \in Status, NEW parent \in {0} \cup Image
  PROVE  Event(p, s, status, parent) \in ReviewEvent
BY DEF Event, ReviewEvent

(* those of a review,                                                      *)
LEMMA ReviewTyped == ASSUME TypeInv, NEW s \in User, Review(s) PROVE TypeInv'
<1>1. CASE ReviewBegin(s)
  <2>1. PICK p \in Linked, verdict \in Verdict, parent \in {0} \cup Image :
          /\ Acceptable(p, verdict, parent)
          /\ review' = [review EXCEPT ![s] =
               {[pair |-> p, row |-> link[p], status |-> verdict,
                 parent |-> DecidedParent(p, verdict, parent)]}]
          /\ crossed' = IF \E t \in User : Reviewing(t, p) THEN crossed \cup {p} ELSE crossed
    BY <1>1 DEF ReviewBegin
  <2> DEFINE d == [pair |-> p, row |-> link[p], status |-> verdict,
                   parent |-> DecidedParent(p, verdict, parent)]
  <2>2. p \in Pair /\ link[p] \in Row  BY RowsTyped DEF Linked
  <2>3. d \in Decision /\ d.parent \in {0, d.pair[1], d.pair[2]}
    BY <2>1, <2>2 DEF Decision, DecidedParent, Acceptable
  <2>4. review' = [review EXCEPT ![s] = {d}] /\ crossed' \subseteq Pair
    BY <2>1, <2>2 DEF TypeInv, LineageTypeOK
  <2> HIDE DEF d
  <2> QED  BY <1>1, <2>3, <2>4
        DEF ReviewBegin, Arrive, TypeInv, LineageTypeOK, OneDecision, ParentOfPair, rows, Point
<1>2. CASE ReviewWrite(s)
  <2>1. PICK d \in review[s] : link' = [link EXCEPT ![d.pair] = Written(d, s)]  BY <1>2 DEF ReviewWrite
  <2>2. d.parent \in {0, d.pair[1], d.pair[2]}  BY DEF TypeInv, ParentOfPair
  <2>3. link' \in [Pair -> Row] /\ \A p \in Pair : link'[p].parent \in {0, p[1], p[2]}
    BY <2>1, <2>2, WrittenTyped DEF TypeInv, LineageTypeOK
  <2> QED  BY <1>2, <2>3
        DEF ReviewWrite, TypeInv, LineageTypeOK, OneDecision, ParentOfPair, history, bounds, Point
<1>3. CASE ReviewReread(s)
  <2>1. {Tell(d) : d \in review[s]} \subseteq Row  BY WrittenTyped DEF Tell
  <2> QED  BY <1>3, <2>1
        DEF ReviewReread, TypeInv, LineageTypeOK, OneDecision, ParentOfPair, rows, history, bounds, Point
<1>4. CASE ReviewLog(s)
  <2>1. \A d \in review[s] : d.pair \in Pair /\ d.status \in Status /\ d.parent \in {0} \cup Image
    BY DEF TypeInv, LineageTypeOK, Decision, Verdict
  <2>2. \A r \in told[s] : r.status \in Status /\ r.parent \in {0} \cup Image
    BY DEF TypeInv, LineageTypeOK, Row
  <2>3. trail' \subseteq ReviewEvent /\ answered' \subseteq ReviewEvent
    BY <1>4, <2>1, <2>2, EventTyped DEF ReviewLog, TypeInv, LineageTypeOK
  <2> QED  BY <1>4, <2>3, CloseTyped DEF ReviewLog, TypeInv, LineageTypeOK, bounds
<1> QED  BY <1>1, <1>2, <1>3, <1>4 DEF Review

(* an error and an upload.                                                 *)
LEMMA OtherTyped == ASSUME TypeInv, Upload \/ \E s \in User : Error(s) PROVE TypeInv'
<1>1. CASE Upload
  <2>1. stored' \subseteq Image  BY <1>1 DEF Upload, TypeInv, LineageTypeOK
  <2> QED  BY <1>1, <2>1
        DEF Upload, TypeInv, LineageTypeOK, OneDecision, ParentOfPair, requests, history, bounds
<1>2. ASSUME NEW s \in User, Error(s) PROVE TypeInv'
  <2>1. \A d \in review[s] : d.pair \in Pair  BY WrittenTyped
  <2>2. lost' \subseteq Pair  BY <1>2, <2>1 DEF Error, TypeInv, LineageTypeOK
  <2> QED  BY <1>2, <2>2, CloseTyped DEF Error, TypeInv, LineageTypeOK, rows
<1> QED  BY <1>1, <1>2

(* The types hold at the start and are kept. *)
LEMMA InitTyped == Init => TypeInv
<1> SUFFICES ASSUME Init PROVE TypeInv  OBVIOUS
<1>1. NoRow \in Row  BY DEF NoRow, Row, Kind, Status
<1>2. stored \subseteq Image  BY LineageAssumption DEF Init
<1> QED  BY <1>1, <1>2 DEF Init, TypeInv, LineageTypeOK, OneDecision, ParentOfPair, NoRefresh, Point, NoRow

(* Every step keeps them. *)
LEMMA NextTyped == TypeInv /\ [Next]_vars => TypeInv'
<1> SUFFICES ASSUME TypeInv, [Next]_vars PROVE TypeInv'  OBVIOUS
<1>1. CASE UNCHANGED vars
  BY <1>1 DEF TypeInv, LineageTypeOK, OneDecision, ParentOfPair, vars, rows, requests, history, bounds
<1> QED  BY <1>1, RefreshTyped, ReviewTyped, OtherTyped DEF Next

(* Rows, events and requests have the types of LineageTypeOK, and a parent *)
(* is one of the two images of its pair.                                   *)
THEOREM LineageTypeCorrect == Spec => []LineageTypeOK
<1>1. TypeInv => LineageTypeOK  BY DEF TypeInv
<1> QED  BY <1>1, InitTyped, NextTyped, PTL DEF Spec

-----------------------------------------------------------------------------
(* What a step may touch *)

(* A step of s leaves the other requests alone. *)
Local(s) == \A t \in User \ {s} : /\ at'[t] = at[t] /\ refresh'[t] = refresh[t]
                                  /\ review'[t] = review[t] /\ told'[t] = told[t]

(* The end of a session is the session's own matter,                       *)
LEMMA CloseLocal ==
  ASSUME TypeInv, NEW s \in User, Close(s)
  PROVE  Local(s) /\ at'[s] = "idle" /\ review'[s] = {} /\ refresh'[s] = NoRefresh
BY DEF TypeInv, LineageTypeOK, Close, Local

(* and so is every step.                                                   *)
LEMMA StepLocal ==
  ASSUME TypeInv, NEW s \in User, Refresh(s) \/ Review(s) \/ Error(s) PROVE Local(s)
<1>1. CASE RefreshBegin(s) \/ RefreshFind(s) \/ RefreshCommit(s)
  BY <1>1 DEF TypeInv, LineageTypeOK, Local, RefreshBegin, RefreshFind, RefreshCommit
<1>2. CASE ReviewBegin(s) \/ ReviewWrite(s) \/ ReviewReread(s)
  BY <1>2 DEF TypeInv, LineageTypeOK, Local, ReviewBegin, ReviewWrite, ReviewReread
<1>3. CASE RefreshRefused(s) \/ RefreshLog(s) \/ ReviewLog(s) \/ Error(s)
  BY <1>3, CloseLocal DEF RefreshRefused, RefreshLog, ReviewLog, Error
<1> QED  BY <1>1, <1>2, <1>3 DEF Refresh, Review

(* Only a commit writes rows. *)
LEMMA LinkKept ==
  ASSUME NEW s \in User, Refresh(s) \/ Review(s) \/ Error(s), ~RefreshCommit(s), ~ReviewWrite(s)
  PROVE  link' = link
BY DEF Refresh, Review, RefreshBegin, RefreshFind, RefreshRefused, RefreshLog, ReviewBegin, ReviewReread,
       ReviewLog, Error, rows

(* What the commit of a refresh does to a row. *)
LEMMA CommittedRow ==
  ASSUME TypeInv, NEW s \in User, RefreshCommit(s), NEW p \in Pair
  PROVE  \/ p \in Inserted(s) /\ p \notin Linked /\ link'[p] = NewRow(p)
         \/ p \notin Inserted(s) /\ p \in refresh[s].found /\ link'[p] = Refreshed(p)
         \/ p \notin Inserted(s) /\ link'[p] = link[p]
BY DEF RefreshCommit

-----------------------------------------------------------------------------
(* The trail *)

(* Who has committed and not read again will; who has read again has what  *)
(* the row shows, or a later writer accounts for it.                       *)
Accounted(p) ==
  \/ link[p].status = "CANDIDATE"
  \/ \E e \in trail : e.pair = p /\ e.status = link[p].status /\ e.parent = link[p].parent
  \/ \E s \in User : at[s] = "review.reread" /\ \E d \in review[s] : d.pair = p
  \/ \E s \in User : /\ at[s] = "review.log"
                     /\ \E d \in review[s] : d.pair = p
                     /\ \E r \in told[s] : r.status = link[p].status /\ r.parent = link[p].parent
  \/ p \in lost
TrailInv == TypeInv /\ \A p \in Pair : Accounted(p)

(* A step that writes no status and no parent, and takes no request from   *)
(* between its commit and its event.                                       *)
LEMMA SameShown ==
  ASSUME TrailInv, TypeInv', trail \subseteq trail', lost \subseteq lost',
         \A p \in Pair : \/ link'[p].status = "CANDIDATE"
                         \/ link'[p].status = link[p].status /\ link'[p].parent = link[p].parent,
         \A t \in User : at[t] \in {"review.reread", "review.log"} =>
                           at'[t] = at[t] /\ review'[t] = review[t] /\ told'[t] = told[t]
  PROVE  TrailInv'
<1> SUFFICES ASSUME NEW p \in Pair, link'[p].status # "CANDIDATE" PROVE Accounted(p)'
  BY DEF TrailInv, Accounted
<1>1. link'[p].status = link[p].status /\ link'[p].parent = link[p].parent  OBVIOUS
<1>2. Accounted(p) /\ link[p].status # "CANDIDATE"  BY <1>1 DEF TrailInv
<1>3. CASE \E e \in trail : e.pair = p /\ e.status = link[p].status /\ e.parent = link[p].parent
  BY <1>1, <1>3 DEF Accounted
<1>4. CASE \E s \in User : at[s] = "review.reread" /\ \E d \in review[s] : d.pair = p
  BY <1>4 DEF Accounted
<1>5. ASSUME NEW s \in User, at[s] = "review.log", \E d \in review[s] : d.pair = p,
             \E r \in told[s] : r.status = link[p].status /\ r.parent = link[p].parent
      PROVE Accounted(p)'
  BY <1>1, <1>5 DEF Accounted
<1>6. CASE p \in lost  BY <1>6 DEF Accounted
<1> QED  BY <1>2, <1>3, <1>4, <1>5, <1>6 DEF Accounted

(* Every step of a request keeps the account. *)
LEMMA TrailStep ==
  ASSUME TrailInv, TypeInv', NEW s \in User, Refresh(s) \/ Review(s) \/ Error(s)
  PROVE  TrailInv'
<1>0. TypeInv /\ Local(s)  BY StepLocal DEF TrailInv
<1>1. CASE Refresh(s)
  <2>1. trail' = trail /\ lost' = lost /\ at[s] \notin {"review.reread", "review.log"}
    BY <1>1 DEF Refresh, RefreshBegin, RefreshFind, RefreshCommit, RefreshRefused, RefreshLog, Arrive,
                rows, history
  <2>2. CASE RefreshCommit(s)
    <3>1. ASSUME NEW p \in Pair
          PROVE \/ link'[p].status = "CANDIDATE"
                \/ link'[p].status = link[p].status /\ link'[p].parent = link[p].parent
      BY <1>0, <2>2, CommittedRow, RowsTyped
    <3> QED  BY <1>0, <2>1, <3>1, SameShown DEF Local
  <2>3. CASE ~RefreshCommit(s)
    <3>1. link' = link
      BY <1>1, <2>3 DEF Refresh, RefreshBegin, RefreshFind, RefreshRefused, RefreshLog, rows
    <3> QED  BY <1>0, <2>1, <3>1, SameShown DEF Local
  <2> QED  BY <2>2, <2>3
<1>2. CASE ReviewBegin(s)
  BY <1>0, <1>2, SameShown DEF ReviewBegin, Arrive, rows, Local
<1>3. CASE ReviewWrite(s)
  <2>1. PICK d \in review[s] : link' = [link EXCEPT ![d.pair] = Written(d, s)]  BY <1>3 DEF ReviewWrite
  <2>2. at[s] = "review.write" /\ at' = [at EXCEPT ![s] = "review.reread"]
        /\ UNCHANGED <<trail, review, told, lost>>
    BY <1>3 DEF ReviewWrite, history
  <2>3. SUFFICES ASSUME NEW p \in Pair PROVE Accounted(p)'  BY DEF TrailInv
  <2>4. CASE p = d.pair
    <3>1. at'[s] = "review.reread" /\ d \in review'[s]  BY <1>0, <2>2 DEF TypeInv, LineageTypeOK
    <3> QED  BY <2>4, <3>1 DEF Accounted
  <2>5. CASE p # d.pair
    <3>1. link'[p] = link[p]  BY <1>0, <2>1, <2>5 DEF TypeInv, LineageTypeOK
    <3>2. \A t \in User : at[t] \in {"review.reread", "review.log"} => at'[t] = at[t]
      BY <1>0, <2>2 DEF Local
    <3>3. Accounted(p)  BY DEF TrailInv
    <3> QED  BY <2>2, <3>1, <3>2, <3>3 DEF Accounted
  <2> QED  BY <2>4, <2>5
<1>4. CASE ReviewReread(s)
  <2>1. at[s] = "review.reread" /\ at'[s] = "review.log" /\ told'[s] = {Tell(d) : d \in review[s]}
        /\ UNCHANGED <<link, trail, review, lost>>
    BY <1>0, <1>4 DEF ReviewReread, rows, history, TypeInv, LineageTypeOK
  <2>2. SUFFICES ASSUME NEW p \in Pair PROVE Accounted(p)'  BY DEF TrailInv
  <2>3. CASE \E d \in review[s] : d.pair = p
    <3>1. link[p] \in told'[s]  BY <2>1, <2>3 DEF Tell
    <3> QED  BY <2>1, <2>3, <3>1 DEF Accounted
  <2>4. CASE ~\E d \in review[s] : d.pair = p
    <3>1. Accounted(p)  BY DEF TrailInv
    <3> QED  BY <1>0, <2>1, <2>4, <3>1 DEF Accounted, Local
  <2> QED  BY <2>3, <2>4
<1>5. CASE ReviewLog(s)
  <2>1. /\ trail' = trail \cup {Event(d.pair, s, r.status, r.parent) : d \in review[s], r \in told[s]}
        /\ at[s] = "review.log" /\ UNCHANGED <<link, lost>>
    BY <1>5 DEF ReviewLog
  <2>2. SUFFICES ASSUME NEW p \in Pair PROVE Accounted(p)'  BY DEF TrailInv
  <2>3. ASSUME NEW d \in review[s], d.pair = p, NEW r \in told[s],
               r.status = link[p].status, r.parent = link[p].parent
        PROVE Accounted(p)'
    <3>1. Event(d.pair, s, r.status, r.parent) \in trail'  BY <2>1
    <3>2. /\ Event(d.pair, s, r.status, r.parent).pair = p
          /\ Event(d.pair, s, r.status, r.parent).status = link'[p].status
          /\ Event(d.pair, s, r.status, r.parent).parent = link'[p].parent
      BY <2>1, <2>3 DEF Event
    <3> QED  BY <3>1, <3>2 DEF Accounted
  <2>4. Accounted(p)  BY DEF TrailInv
  <2> QED  BY <1>0, <2>1, <2>3, <2>4 DEF Accounted, Local
<1>6. CASE Error(s)
  <2>1. /\ at[s] \in {"review.reread", "review.log"} => lost' = lost \cup {d.pair : d \in review[s]}
        /\ lost \subseteq lost' /\ UNCHANGED <<link, trail>>
    BY <1>6 DEF Error, rows
  <2>2. SUFFICES ASSUME NEW p \in Pair PROVE Accounted(p)'  BY DEF TrailInv
  <2>3. CASE at[s] \in {"review.reread", "review.log"} /\ \E d \in review[s] : d.pair = p
    BY <2>1, <2>3 DEF Accounted
  <2>4. CASE ~(at[s] \in {"review.reread", "review.log"} /\ \E d \in review[s] : d.pair = p)
    <3>1. Accounted(p)  BY DEF TrailInv
    <3> QED  BY <1>0, <2>1, <2>4, <3>1 DEF Accounted, Local
  <2> QED  BY <2>3, <2>4
<1> QED  BY <1>1, <1>2, <1>3, <1>4, <1>5, <1>6 DEF Review

(* Whatever reviews of one link interleave, and whichever columns of which *)
(* of them the row ends up with: some event of the trail shows the row,    *)
(* unless one has still to be appended or was lost in a failure.           *)
THEOREM LinksAudited == Spec => []LinkAudited
<1>1. Init => TrailInv
  <2> SUFFICES ASSUME Init PROVE TrailInv  OBVIOUS
  <2>1. \A p \in Pair : link[p].status = "CANDIDATE"  BY DEF Init, NoRow
  <2> QED  BY <2>1, InitTyped DEF TrailInv, Accounted
<1>2. TrailInv /\ [Next]_vars => TrailInv'
  <2> SUFFICES ASSUME TrailInv, [Next]_vars PROVE TrailInv'  OBVIOUS
  <2>1. TypeInv'  BY NextTyped DEF TrailInv
  <2>2. CASE Upload  BY <2>1, <2>2, SameShown DEF Upload, requests, history
  <2>3. CASE UNCHANGED vars  BY <2>1, <2>3, SameShown DEF vars, rows, requests, history
  <2> QED  BY <2>1, <2>2, <2>3, TrailStep DEF Next
<1>3. TrailInv => LinkAudited
  BY DEF TrailInv, Accounted, LinkAudited, Linked, Reviewing
<1> QED  BY <1>1, <1>2, <1>3, PTL DEF Spec

-----------------------------------------------------------------------------
(* Refreshes *)

Matched == {p \in Pair : Compare(Measured[p]) # "NONE"}
Counted(s) == refresh[s].found \cup refresh[s].new

(* The kind of a row is what the comparison of its images yields; a        *)
(* refresh works on pairs that match, finds stored ones and, once it has   *)
(* committed, has stored the others.                                       *)
LinkInv ==
  /\ TypeInv
  /\ \A p \in Pair : link[p].kind \in {"NONE", Compare(Measured[p])}
  /\ \A s \in User : refresh[s].todo \cup Counted(s) \subseteq Matched
  /\ \A s \in User : refresh[s].found \subseteq Linked
  /\ \A s \in User : at[s] = "refresh.log" => Counted(s) \subseteq Linked
  /\ RefreshComplete

(* A step that keeps the kinds of the rows, and what every request has in  *)
(* hand unless the request is closed.                                      *)
LEMMA SameKinds ==
  ASSUME LinkInv, TypeInv', \A p \in Pair : link'[p].kind = link[p].kind,
         \A t \in User : \/ refresh'[t] = NoRefresh
                         \/ refresh'[t] = refresh[t] /\ (at'[t] = "refresh.log" => at[t] = "refresh.log"),
         \A e \in refreshes' : e \in refreshes \/ e.pairs \subseteq Linked
  PROVE  LinkInv'
<1>1. Linked' = Linked  BY DEF Linked
<1>2. ASSUME NEW t \in User
      PROVE  /\ (refresh[t].todo \cup Counted(t))' \subseteq Matched /\ (refresh[t].found)' \subseteq Linked
             /\ at'[t] = "refresh.log" => Counted(t)' \subseteq Linked
  <2>1. CASE refresh'[t] = NoRefresh  BY <2>1 DEF NoRefresh, Counted
  <2>2. CASE refresh'[t] = refresh[t] /\ (at'[t] = "refresh.log" => at[t] = "refresh.log")
    BY <2>2 DEF LinkInv, Counted
  <2> QED  BY <2>1, <2>2
<1>3. RefreshComplete'  BY <1>1 DEF LinkInv, RefreshComplete
<1>4. Matched' = Matched  BY DEF Matched
<1>5. \A p \in Pair : link'[p].kind \in {"NONE", Compare(Measured[p])}  BY DEF LinkInv
<1> QED  BY <1>1, <1>2, <1>3, <1>4, <1>5 DEF LinkInv

(* A commit of a refresh leaves the kind of a stored row as it is and      *)
(* stores the pairs that the refresh has counted.                          *)
LEMMA CommitStores ==
  ASSUME LinkInv, NEW s \in User, RefreshCommit(s)
  PROVE  /\ \A p \in Linked : link'[p].kind = link[p].kind
         /\ \A p \in Counted(s) : link'[p].kind # "NONE"
         /\ \A p \in Pair : link'[p].kind \in {"NONE", Compare(Measured[p])}
<1> USE DEF LinkInv
<1>1. ASSUME NEW p \in Pair
      PROVE  \/ p \in Inserted(s) /\ p \notin Linked /\ link'[p].kind = Compare(Measured[p])
             \/ p \notin Inserted(s) /\ p \in refresh[s].found /\ link'[p].kind = Compare(Measured[p])
             \/ p \notin Inserted(s) /\ link'[p].kind = link[p].kind
  BY <1>1, CommittedRow, RowsTyped
<1>2. Counted(s) \subseteq Matched /\ refresh[s].found \subseteq Linked  OBVIOUS
<1>3. \A p \in Pair : link[p].kind \in {"NONE", Compare(Measured[p])}  OBVIOUS
<1>4. ASSUME NEW p \in Linked PROVE link'[p].kind = link[p].kind
  BY <1>1, <1>3 DEF Linked
<1>5. ASSUME NEW p \in Counted(s) PROVE link'[p].kind # "NONE"
  <2>1. p \in Pair /\ Compare(Measured[p]) # "NONE"  BY <1>2 DEF Matched
  <2>2. p \in Inserted(s) \/ p \in Linked  BY <1>2 DEF Counted, Inserted
  <2> QED  BY <1>1, <2>1, <2>2 DEF Linked
<1>6. ASSUME NEW p \in Pair PROVE link'[p].kind \in {"NONE", Compare(Measured[p])}
  BY <1>1, <1>3
<1> QED  BY <1>4, <1>5, <1>6

(* A review writes no kind. *)
LEMMA WriteKeepsKinds ==
  ASSUME TypeInv, NEW s \in User, ReviewWrite(s) PROVE \A p \in Pair : link'[p].kind = link[p].kind
<1>1. PICK d \in review[s] : link' = [link EXCEPT ![d.pair] = Written(d, s)]  BY DEF ReviewWrite
<1> QED  BY <1>1, WrittenTyped DEF TypeInv, LineageTypeOK

(* Every step of a request keeps LinkInv. *)
LEMMA LinkStep ==
  ASSUME LinkInv, TypeInv', NEW s \in User, Refresh(s) \/ Review(s) \/ Error(s)
  PROVE  LinkInv'
<1>0. TypeInv /\ Local(s)  BY StepLocal DEF LinkInv
<1>1. CASE RefreshBegin(s)
  <2> DEFINE m == [NoRefresh EXCEPT !.todo = Matching]
  <2>1. m.todo \subseteq Matched /\ m.found = {} /\ m.new = {}
    BY DEF NoRefresh, Matching, Matched, Comparable
  <2> HIDE DEF m
  <2>2. refresh'[s] = m /\ at'[s] = "refresh.find" /\ UNCHANGED <<link, refreshes>>
    BY <1>0, <1>1 DEF RefreshBegin, TypeInv, LineageTypeOK, rows, m
  <2> QED  BY <1>0, <2>1, <2>2 DEF LinkInv, Local, Counted, Linked, Matched, RefreshComplete
<1>2. CASE RefreshFind(s)
  <2>1. PICK p \in refresh[s].todo : refresh' = [refresh EXCEPT ![s] =
            [todo  |-> @.todo \ {p},
             found |-> IF Exists(p) THEN @.found \cup {p} ELSE @.found,
             new   |-> IF Exists(p) THEN @.new ELSE @.new \cup {p}]]
    BY <1>2 DEF RefreshFind
  <2>2. /\ refresh'[s].todo \cup refresh'[s].found \cup refresh'[s].new \subseteq Matched
        /\ refresh'[s].found \subseteq Linked
    BY <1>0, <2>1 DEF LinkInv, Counted, TypeInv, LineageTypeOK, Exists
  <2>3. at' = at /\ at[s] = "refresh.find" /\ UNCHANGED <<link, refreshes>>
    BY <1>2 DEF RefreshFind, rows
  <2> QED  BY <1>0, <2>2, <2>3 DEF LinkInv, Local, Counted, Linked, Matched, RefreshComplete
<1>3. CASE RefreshCommit(s)
  <2>1. refresh' = refresh /\ refreshes' = refreshes  BY <1>3 DEF RefreshCommit
  <2>2. Linked \subseteq Linked'  BY <1>3, CommitStores DEF Linked
  <2>3. Counted(s) \subseteq Linked'
    <3>1. Counted(s) \subseteq Pair  BY <1>0 DEF Counted, TypeInv, LineageTypeOK
    <3> QED  BY <1>3, <3>1, CommitStores DEF Linked
  <2>4. \A t \in User \ {s} : at'[t] = at[t]  BY <1>0 DEF Local
  <2>5. \A p \in Pair : link'[p].kind \in {"NONE", Compare(Measured[p])}  BY <1>3, CommitStores
  <2>6. \A t \in User : at'[t] = "refresh.log" => Counted(t)' \subseteq Linked'
    BY <2>1, <2>2, <2>3, <2>4 DEF LinkInv, Counted
  <2>7. RefreshComplete'  BY <2>1, <2>2 DEF LinkInv, RefreshComplete
  <2>8. \A t \in User : (refresh[t].todo \cup Counted(t))' \subseteq Matched' /\ (refresh[t].found)' \subseteq Linked'
    BY <2>1, <2>2 DEF LinkInv, Counted, Matched
  <2> QED  BY <2>5, <2>6, <2>7, <2>8 DEF LinkInv
<1>4. CASE RefreshRefused(s) \/ ReviewLog(s) \/ Error(s)
  <2>1. UNCHANGED <<link, refreshes>> /\ Close(s)  BY <1>4 DEF RefreshRefused, ReviewLog, Error, rows
  <2> QED  BY <1>0, <2>1, CloseLocal, SameKinds DEF Local
<1>5. CASE RefreshLog(s)
  <2> DEFINE e == [actor |-> s, pairs |-> refresh[s].found \cup refresh[s].new]
  <2>1. link' = link /\ refreshes' = refreshes \cup {e} /\ Close(s) /\ at[s] = "refresh.log"
    BY <1>5 DEF RefreshLog
  <2>2. e.pairs \subseteq Linked  BY <2>1 DEF LinkInv, Counted
  <2> HIDE DEF e
  <2> QED  BY <1>0, <2>1, <2>2, CloseLocal, SameKinds DEF Local
<1>6. CASE ReviewBegin(s) \/ ReviewReread(s)
  <2>1. UNCHANGED <<link, refreshes, refresh>> /\ at'[s] # "refresh.log"
    BY <1>0, <1>6 DEF ReviewBegin, ReviewReread, rows, TypeInv, LineageTypeOK
  <2> QED  BY <1>0, <2>1, SameKinds DEF Local
<1>7. CASE ReviewWrite(s)
  <2>1. UNCHANGED <<refreshes, refresh>> /\ at'[s] # "refresh.log"
    BY <1>0, <1>7 DEF ReviewWrite, TypeInv, LineageTypeOK
  <2> QED  BY <1>0, <1>7, <2>1, WriteKeepsKinds, SameKinds DEF Local
<1> QED  BY <1>1, <1>2, <1>3, <1>4, <1>5, <1>6, <1>7 DEF Refresh, Review

(* LinkInv is an invariant. *)
LEMMA LinkInit == Init => LinkInv
<1> SUFFICES ASSUME Init PROVE LinkInv  OBVIOUS
<1>1. \A p \in Pair : link[p].kind = "NONE"  BY DEF Init, NoRow
<1>2. \A s \in User : refresh[s].todo = {} /\ Counted(s) = {} /\ refresh[s].found = {}
  BY DEF Init, NoRefresh, Counted
<1> QED  BY <1>1, <1>2, InitTyped DEF Init, LinkInv, RefreshComplete

(* Every step keeps it. *)
LEMMA LinkNext == LinkInv /\ [Next]_vars => LinkInv'
<1> SUFFICES ASSUME LinkInv, [Next]_vars PROVE LinkInv'  OBVIOUS
<1>1. TypeInv'  BY NextTyped DEF LinkInv
<1>2. CASE Upload  BY <1>1, <1>2, SameKinds DEF Upload, requests
<1>3. CASE UNCHANGED vars  BY <1>1, <1>3, SameKinds DEF vars, rows, requests
<1> QED  BY <1>1, <1>2, <1>3, LinkStep DEF Next

(* However refreshes overlap with each other and with reviews, one that    *)
(* says it has found a number of candidates has them all stored.           *)
THEOREM RefreshesComplete == Spec => []RefreshComplete
<1>1. LinkInv => RefreshComplete  BY DEF LinkInv
<1> QED  BY <1>1, LinkInit, LinkNext, PTL DEF Spec

(* No step takes a link away, changes its kind or undoes its review. *)
LEMMA StaysStep ==
  ASSUME LinkInv, [Next]_vars
  PROVE  \A p \in Linked : /\ link'[p].kind = link[p].kind
                           /\ link[p].status # "CANDIDATE" => link'[p].status # "CANDIDATE"
<1>1. CASE link' = link  BY <1>1
<1>2. ASSUME NEW s \in User, RefreshCommit(s), NEW p \in Linked
      PROVE  link'[p].kind = link[p].kind /\ (link[p].status # "CANDIDATE" => link'[p].status # "CANDIDATE")
  <2>1. p \in Pair  BY DEF Linked
  <2>2. link'[p] \in {Refreshed(p), link[p]}  BY <1>2, <2>1, CommittedRow DEF LinkInv
  <2> QED  BY <1>2, <2>1, <2>2, CommitStores, RowsTyped DEF LinkInv
<1>3. ASSUME NEW s \in User, ReviewWrite(s), NEW p \in Linked
      PROVE  link'[p].kind = link[p].kind /\ (link[p].status # "CANDIDATE" => link'[p].status # "CANDIDATE")
  <2>1. PICK d \in review[s] : link' = [link EXCEPT ![d.pair] = Written(d, s)]  BY <1>3 DEF ReviewWrite
  <2>2. d.status # "CANDIDATE" /\ d.pair \in Pair  BY WrittenTyped DEF LinkInv, Decision, Verdict
  <2>3. p \in Pair  BY DEF Linked
  <2> QED  BY <2>1, <2>2, <2>3, WrittenTyped DEF LinkInv, TypeInv, LineageTypeOK
<1>4. ASSUME NEW s \in User, Refresh(s) \/ Review(s) \/ Error(s), ~RefreshCommit(s), ~ReviewWrite(s)
      PROVE  link' = link
  BY <1>4, LinkKept
<1>5. CASE Upload \/ UNCHANGED vars  BY <1>1, <1>5 DEF Upload, vars, rows
<1> QED  BY <1>1, <1>2, <1>3, <1>4, <1>5 DEF Next

(* A refresh that read a link before its review does not undo the review:  *)
(* it flushes the kind only, and that has not changed.                     *)
THEOREM ReviewedLinksStay == Spec => ReviewedStays
<1>1. LinkInv /\ [Next]_vars =>
        [\A p \in Linked : /\ link'[p].kind = link[p].kind
                           /\ link[p].status # "CANDIDATE" => link'[p].status # "CANDIDATE"]_vars
  BY StaysStep
<1> QED  BY <1>1, LinkInit, LinkNext, PTL DEF Spec, ReviewedStays

-----------------------------------------------------------------------------
(* Refused refreshes *)

(* While no two refreshes have met, at most one is open, and what it is    *)
(* about to insert is not there.                                           *)
OneOpen == \A s, t \in User : Refreshing(s) /\ Refreshing(t) => s = t
StillNew == \A s \in User : at[s] = "refresh.find" => refresh[s].new \cap Linked = {}
ClashInv == LinkInv /\ RefusedOnlyInClash /\ (~clashed => OneOpen /\ StillNew)

(* A step that neither begins a refresh nor stores a row.                  *)
LEMMA NoClash ==
  ASSUME ClashInv, LinkInv', RefusedOnlyInClash', clashed' = clashed,
         \A p \in Pair : link'[p].kind = link[p].kind,
         \A t \in User : \/ at'[t] \notin {"refresh.find", "refresh.log"}
                         \/ at'[t] = at[t] /\ refresh'[t] = refresh[t]
  PROVE  ClashInv'
<1>1. Linked' = Linked  BY DEF Linked
<1>2. ASSUME NEW t \in User, Refreshing(t)' PROVE Refreshing(t)  BY <1>2 DEF Refreshing
<1>3. OneOpen => OneOpen'  BY <1>2 DEF OneOpen
<1>4. StillNew => StillNew'  BY <1>1 DEF StillNew
<1> QED  BY <1>3, <1>4 DEF ClashInv

(* Every step of a request keeps ClashInv. *)
LEMMA ClashStep ==
  ASSUME ClashInv, LinkInv', NEW s \in User, Refresh(s) \/ Review(s) \/ Error(s)
  PROVE  ClashInv'
<1>0. TypeInv /\ Local(s)  BY StepLocal DEF ClashInv, LinkInv
<1>1. CASE RefreshBegin(s)
  <2>1. /\ at'[s] = "refresh.find" /\ refresh'[s].new = {} /\ link' = link /\ refused' = refused
        /\ clashed' = (clashed \/ \E t \in User : Refreshing(t))
    BY <1>0, <1>1 DEF RefreshBegin, NoRefresh, rows, TypeInv, LineageTypeOK
  <2>2. SUFFICES ASSUME ~clashed, \A t \in User : ~Refreshing(t) PROVE OneOpen' /\ StillNew'
    BY <2>1 DEF ClashInv, RefusedOnlyInClash
  <2>3. \A t \in User \ {s} : ~Refreshing(t)'  BY <1>0, <2>2 DEF Local, Refreshing
  <2>4. OneOpen'  BY <2>3 DEF OneOpen
  <2>5. StillNew'  BY <2>1, <2>3 DEF StillNew, Refreshing
  <2> QED  BY <2>4, <2>5
<1>2. CASE RefreshFind(s)
  <2>1. PICK p \in refresh[s].todo : refresh' = [refresh EXCEPT ![s] =
            [todo  |-> @.todo \ {p},
             found |-> IF Exists(p) THEN @.found \cup {p} ELSE @.found,
             new   |-> IF Exists(p) THEN @.new ELSE @.new \cup {p}]]
    BY <1>2 DEF RefreshFind
  <2>2. UNCHANGED <<at, link, clashed, refused>> /\ at[s] = "refresh.find"
    BY <1>2 DEF RefreshFind, rows, history
  <2>3. SUFFICES ASSUME ~clashed PROVE OneOpen' /\ StillNew'
    BY <2>2 DEF ClashInv, RefusedOnlyInClash
  <2>4. OneOpen'  BY <2>2, <2>3 DEF ClashInv, OneOpen, Refreshing
  <2>5. refresh'[s].new \subseteq refresh[s].new \cup (Pair \ Linked)
    BY <1>0, <2>1 DEF TypeInv, LineageTypeOK, Exists
  <2>6. StillNew'  BY <1>0, <2>2, <2>3, <2>5 DEF ClashInv, StillNew, Local, Linked
  <2> QED  BY <2>4, <2>6
<1>3. CASE RefreshCommit(s)
  <2>1. /\ at' = [at EXCEPT ![s] = "refresh.log"] /\ at[s] = "refresh.find"
        /\ UNCHANGED <<refresh, clashed, refused>>
    BY <1>3 DEF RefreshCommit, history
  <2>2. SUFFICES ASSUME ~clashed PROVE OneOpen' /\ StillNew'
    BY <2>1 DEF ClashInv, RefusedOnlyInClash
  <2>3. \A t \in User : Refreshing(t)' => t = s
    BY <1>0, <2>1, <2>2 DEF ClashInv, OneOpen, Refreshing, Local
  <2>4. at'[s] = "refresh.log"  BY <1>0, <2>1 DEF TypeInv, LineageTypeOK
  <2>5. StillNew'  BY <2>3, <2>4 DEF StillNew, Refreshing
  <2> QED  BY <2>3, <2>5 DEF OneOpen
<1>4. CASE RefreshRefused(s)
  <2>1. clashed  BY <1>4 DEF ClashInv, StillNew, RefreshRefused, Inserted
  <2> QED  BY <1>4, <2>1 DEF ClashInv, RefusedOnlyInClash, RefreshRefused
<1>5. CASE RefreshLog(s) \/ ReviewLog(s) \/ Error(s)
  <2>1. UNCHANGED <<link, clashed, refused>> /\ Close(s)  BY <1>5 DEF RefreshLog, ReviewLog, Error, rows, history
  <2>2. RefusedOnlyInClash'  BY <2>1 DEF ClashInv, RefusedOnlyInClash
  <2> QED  BY <1>0, <2>1, <2>2, CloseLocal, NoClash DEF Local
<1>6. CASE ReviewBegin(s) \/ ReviewReread(s)
  <2>1. UNCHANGED <<link, clashed, refused>> /\ at'[s] \in {"review.write", "review.log"}
    BY <1>0, <1>6 DEF ReviewBegin, ReviewReread, rows, history, TypeInv, LineageTypeOK
  <2>2. RefusedOnlyInClash'  BY <2>1 DEF ClashInv, RefusedOnlyInClash
  <2> QED  BY <1>0, <2>1, <2>2, NoClash DEF Local
<1>7. CASE ReviewWrite(s)
  <2>1. UNCHANGED <<clashed, refused>> /\ at'[s] = "review.reread"
    BY <1>0, <1>7 DEF ReviewWrite, history, TypeInv, LineageTypeOK
  <2>2. RefusedOnlyInClash'  BY <2>1 DEF ClashInv, RefusedOnlyInClash
  <2> QED  BY <1>0, <1>7, <2>1, <2>2, WriteKeepsKinds, NoClash DEF Local
<1> QED  BY <1>1, <1>2, <1>3, <1>4, <1>5, <1>6, <1>7 DEF Refresh, Review

(* Refreshes that do not overlap are idempotent: the unique constraint     *)
(* refuses one only after two have been open together.                     *)
THEOREM RefusalsNeedAClash == Spec => []RefusedOnlyInClash
<1>1. Init => ClashInv
  BY LinkInit DEF Init, ClashInv, RefusedOnlyInClash, OneOpen, StillNew, Refreshing
<1>2. ClashInv /\ [Next]_vars => ClashInv'
  <2> SUFFICES ASSUME ClashInv, [Next]_vars PROVE ClashInv'  OBVIOUS
  <2>1. LinkInv'  BY LinkNext DEF ClashInv
  <2>2. CASE Upload \/ UNCHANGED vars
    <3>1. UNCHANGED <<link, clashed, refused, at, refresh>>
      BY <2>2 DEF Upload, vars, rows, requests, history
    <3>2. RefusedOnlyInClash'  BY <3>1 DEF ClashInv, RefusedOnlyInClash
    <3> QED  BY <2>1, <3>1, <3>2, NoClash
  <2> QED  BY <2>1, <2>2, ClashStep DEF Next
<1>3. ClashInv => RefusedOnlyInClash  BY DEF ClashInv
<1> QED  BY <1>1, <1>2, <1>3, PTL DEF Spec

-----------------------------------------------------------------------------
(* Links that one analyst at a time has reviewed *)

InReview == {"review.write", "review.reread", "review.log"}
Sound(kind, status, parent) ==
  /\ parent # 0 => status = "CONFIRMED_RELATION"
  /\ status = "CONFIRMED_RELATION" /\ kind # "EXACT_BITSTREAM" => parent # 0

(* What is true of a decision d of s on a link that no other review met:   *)
(* what it read is still there until its write, what it decided is there   *)
(* until it is read again, and the event will say what it decided.         *)
OnCourse(s, d) ==
  /\ Sound(link[d.pair].kind, d.status, d.parent)
  /\ at[s] = "review.write" =>
       d.row.status = link[d.pair].status /\ d.row.parent = link[d.pair].parent
  /\ at[s] = "review.reread" => link[d.pair].status = d.status /\ link[d.pair].parent = d.parent
  /\ at[s] = "review.log" => \E r \in told[s] : r.status = d.status /\ r.parent = d.parent

AtReview == \A s \in User : review[s] # {} => at[s] \in InReview
OnLinks == \A s \in User : \A d \in review[s] : d.pair \in Linked
Courses == \A s \in User : \A d \in review[s] : d.pair \notin crossed => OnCourse(s, d)
Apart == \A s, t \in User : \A p \in Pair \ crossed : Reviewing(s, p) /\ Reviewing(t, p) => s = t
AloneInv == LinkInv /\ AtReview /\ OnLinks /\ Courses /\ Apart /\ DirectionSound /\ DecisionRecordedAlone

(* DirectionSound says Sound of the rows. *)
LEMMA DirectionAsSound ==
  DirectionSound <=> \A p \in Linked \ crossed : Sound(link[p].kind, link[p].status, link[p].parent)
BY DEF DirectionSound, Sound

(* No statement takes a link away or changes its kind. *)
LEMMA LinkedKept ==
  ASSUME LinkInv, [Next]_vars
  PROVE  Linked \subseteq Linked' /\ \A p \in Linked : link'[p].kind = link[p].kind
BY StaysStep DEF Linked

(* A step that writes no status and no parent of a link, stores links      *)
(* without a parent, and starts, advances and ends no review but by        *)
(* closing it.                                                             *)
LEMMA AloneKept ==
  ASSUME AloneInv, LinkInv', crossed' = crossed, trail \subseteq trail',
         \A a \in answered' : a \in answered \/ a.pair \in crossed \/ a \in trail',
         \A p \in Linked : /\ link'[p].kind = link[p].kind /\ link'[p].status = link[p].status
                           /\ link'[p].parent = link[p].parent,
         \A p \in Pair \ Linked : \/ link'[p] = link[p]
                                  \/ link'[p].status = "CANDIDATE" /\ link'[p].parent = 0,
         \A t \in User : \/ review'[t] = {}
                         \/ review'[t] = review[t] /\ at'[t] = at[t] /\ told'[t] = told[t]
  PROVE  AloneInv'
<1>1. Linked \subseteq Linked'  BY DEF Linked
<1>2. AtReview' /\ OnLinks'  BY <1>1 DEF AloneInv, AtReview, OnLinks
<1>3. ASSUME NEW t \in User, NEW d \in review'[t], d.pair \notin crossed' PROVE OnCourse(t, d)'
  <2>1. d \in review[t] /\ review'[t] = review[t] /\ at'[t] = at[t] /\ told'[t] = told[t]
    BY <1>3
  <2>2. OnCourse(t, d) /\ d.pair \in Linked  BY <1>3, <2>1 DEF AloneInv, Courses, OnLinks
  <2> QED  BY <2>1, <2>2 DEF OnCourse
<1>4. ASSUME NEW t \in User, NEW p \in Pair, Reviewing(t, p)' PROVE Reviewing(t, p)
  BY <1>4 DEF Reviewing
<1>5. Apart'  BY <1>4 DEF AloneInv, Apart
<1>6. ASSUME NEW p \in Linked' \ crossed' PROVE Sound(link'[p].kind, link'[p].status, link'[p].parent)
  <2>1. CASE p \in Linked  BY <1>6, <2>1, DirectionAsSound DEF AloneInv
  <2>2. CASE p \notin Linked
    <3>1. p \in Pair /\ link'[p].kind # "NONE"  BY DEF Linked
    <3>2. link'[p] # link[p]  BY <2>2, <3>1 DEF Linked
    <3> QED  BY <2>2, <3>1, <3>2 DEF Sound
  <2> QED  BY <2>1, <2>2
<1>7. DirectionSound'  BY <1>6 DEF DirectionSound, Sound
<1>8. DecisionRecordedAlone'  BY DEF AloneInv, DecisionRecordedAlone
<1> QED  BY <1>2, <1>3, <1>5, <1>7, <1>8 DEF AloneInv, Courses

(* A review that begins has met every other on its link, *)
LEMMA AloneBegins == ASSUME AloneInv, LinkInv', NEW s \in User, ReviewBegin(s) PROVE AloneInv'
<1>0. TypeInv /\ Local(s)  BY StepLocal DEF AloneInv, LinkInv, Review
<1>1. PICK p \in Linked, verdict \in Verdict, parent \in {0} \cup Image :
          /\ Acceptable(p, verdict, parent)
          /\ review' = [review EXCEPT ![s] =
               {[pair |-> p, row |-> link[p], status |-> verdict,
                 parent |-> DecidedParent(p, verdict, parent)]}]
          /\ crossed' = IF \E t \in User : Reviewing(t, p) THEN crossed \cup {p} ELSE crossed
  BY DEF ReviewBegin
<1>d. PICK d : d = [pair |-> p, row |-> link[p], status |-> verdict,
                    parent |-> DecidedParent(p, verdict, parent)]
  OBVIOUS
<1>2. Sound(link[p].kind, d.status, d.parent)
  BY <1>1, <1>d DEF Sound, DecidedParent, Acceptable, Linked, Pair, Image
<1>3. d.pair = p /\ d.row = link[p]  BY <1>d
<1>4. review'[s] = {d} /\ at'[s] = "review.write" /\ UNCHANGED <<link, trail, answered, told>>
  BY <1>0, <1>1, <1>d DEF ReviewBegin, rows, TypeInv, LineageTypeOK
<1>5. crossed \subseteq crossed' /\ Linked' = Linked  BY <1>1, <1>4 DEF Linked
<1>6. AtReview' /\ OnLinks'
  BY <1>0, <1>3, <1>4, <1>5 DEF AloneInv, AtReview, OnLinks, InReview, Local
<1>7. Courses'
  <2>1. OnCourse(s, d)'  BY <1>2, <1>3, <1>4 DEF OnCourse
  <2>2. ASSUME NEW t \in User \ {s}, NEW e \in review'[t], e.pair \notin crossed' PROVE OnCourse(t, e)'
    <3>1. OnCourse(t, e)  BY <1>0, <1>5, <2>2 DEF Local, AloneInv, Courses
    <3> QED  BY <1>0, <1>4, <3>1 DEF Local, OnCourse
  <2> QED  BY <1>4, <2>1, <2>2 DEF Courses
<1>8. Apart'
  <2>1. SUFFICES ASSUME NEW t \in User, NEW u \in User, NEW q \in Pair \ crossed',
                        Reviewing(t, q)', Reviewing(u, q)'
                 PROVE t = u
    BY DEF Apart
  <2>2. ASSUME NEW v \in User \ {s}, Reviewing(v, q)' PROVE Reviewing(v, q)
    BY <1>0, <2>2 DEF Local, Reviewing
  <2>3. ASSUME NEW v \in User \ {s}, Reviewing(v, q), Reviewing(s, q)' PROVE FALSE
    <3>1. q = p  BY <1>3, <1>4, <2>3 DEF Reviewing
    <3> QED  BY <1>1, <2>3, <3>1
  <2> QED  BY <1>5, <2>1, <2>2, <2>3 DEF AloneInv, Apart
<1>9. DirectionSound' /\ DecisionRecordedAlone'
  BY <1>4, <1>5 DEF AloneInv, DirectionSound, DecisionRecordedAlone
<1> QED  BY <1>6, <1>7, <1>8, <1>9 DEF AloneInv

(* What it writes alone is what it decided, *)
LEMMA AloneWrites == ASSUME AloneInv, LinkInv', NEW s \in User, ReviewWrite(s) PROVE AloneInv'
<1>0. TypeInv /\ Local(s)  BY StepLocal DEF AloneInv, LinkInv, Review
<1>1. PICK d \in review[s] : link' = [link EXCEPT ![d.pair] = Written(d, s)]  BY DEF ReviewWrite
<1>2. /\ at[s] = "review.write" /\ at'[s] = "review.reread"
      /\ UNCHANGED <<trail, review, told, crossed, answered>>
  BY <1>0 DEF ReviewWrite, history, TypeInv, LineageTypeOK
<1>3. /\ d.pair \in Linked /\ d.pair \in Pair /\ review[s] = {d} /\ Reviewing(s, d.pair)
      /\ d.pair \notin crossed => OnCourse(s, d)
  BY <1>0, <1>2, WrittenTyped DEF AloneInv, OnLinks, Courses, TypeInv, OneDecision, Reviewing
<1>4. link'[d.pair] = Written(d, s) /\ \A p \in Pair \ {d.pair} : link'[p] = link[p]
  BY <1>0, <1>1, <1>3 DEF TypeInv, LineageTypeOK
<1>5. \A p \in Pair : link'[p].kind = link[p].kind  BY <1>0, WriteKeepsKinds
<1>6. Linked' = Linked  BY <1>5 DEF Linked
<1>7. d.pair \notin crossed => link'[d.pair].status = d.status /\ link'[d.pair].parent = d.parent
  BY <1>2, <1>3, <1>4 DEF Written, Changed, OnCourse
<1>8. AtReview' /\ OnLinks'
  BY <1>0, <1>2, <1>6 DEF AloneInv, AtReview, OnLinks, InReview, Local
<1>9. Courses'
  <2>1. d.pair \notin crossed => OnCourse(s, d)'
    BY <1>2, <1>3, <1>5, <1>7 DEF OnCourse
  <2>2. ASSUME NEW t \in User \ {s}, NEW e \in review'[t], e.pair \notin crossed' PROVE OnCourse(t, e)'
    <3>1. OnCourse(t, e) /\ e \in review[t] /\ e.pair \in Pair
      BY <1>0, <1>2, <2>2, WrittenTyped DEF AloneInv, Courses
    <3>2. at[t] \in InReview  BY <3>1 DEF AloneInv, AtReview
    <3>3. Reviewing(t, e.pair)  BY <3>1, <3>2 DEF Reviewing, InReview
    <3>4. e.pair # d.pair  BY <1>2, <1>3, <2>2, <3>1, <3>3 DEF AloneInv, Apart
    <3>5. link'[e.pair] = link[e.pair]  BY <1>4, <3>1, <3>4
    <3> QED  BY <1>0, <1>2, <3>1, <3>5 DEF Local, OnCourse
  <2> QED  BY <1>2, <1>3, <2>1, <2>2 DEF Courses
<1>10. Apart'
  <2>1. ASSUME NEW t \in User, NEW p \in Pair, Reviewing(t, p)' PROVE Reviewing(t, p)
    BY <1>0, <1>2, <2>1 DEF Local, Reviewing
  <2> QED  BY <1>2, <2>1 DEF AloneInv, Apart
<1>11. ASSUME NEW p \in Linked' \ crossed' PROVE Sound(link'[p].kind, link'[p].status, link'[p].parent)
  <2>1. CASE p = d.pair  BY <1>2, <1>3, <1>5, <1>7, <1>11, <2>1 DEF OnCourse
  <2>2. CASE p # d.pair
    <3>1. link'[p] = link[p] /\ p \in Linked \ crossed  BY <1>2, <1>4, <1>6, <1>11, <2>2 DEF Linked
    <3> QED  BY <3>1, DirectionAsSound DEF AloneInv
  <2> QED  BY <2>1, <2>2
<1>12. DirectionSound'  BY <1>11 DEF DirectionSound, Sound
<1>13. DecisionRecordedAlone'  BY <1>2 DEF AloneInv, DecisionRecordedAlone
<1> QED  BY <1>8, <1>9, <1>10, <1>12, <1>13 DEF AloneInv

(* and what it then reads again for its event.                             *)
LEMMA AloneRereads == ASSUME AloneInv, LinkInv', NEW s \in User, ReviewReread(s) PROVE AloneInv'
<1>0. TypeInv /\ Local(s)  BY StepLocal DEF AloneInv, LinkInv, Review
<1>1. /\ at[s] = "review.reread" /\ at'[s] = "review.log" /\ told'[s] = {Tell(d) : d \in review[s]}
      /\ UNCHANGED <<link, trail, review, crossed, answered>>
  BY <1>0 DEF ReviewReread, rows, history, TypeInv, LineageTypeOK
<1>2. Linked' = Linked  BY <1>1 DEF Linked
<1>3. AtReview' /\ OnLinks'  BY <1>0, <1>1, <1>2 DEF AloneInv, AtReview, OnLinks, InReview, Local
<1>4. Courses'
  <2>1. ASSUME NEW d \in review'[s], d.pair \notin crossed' PROVE OnCourse(s, d)'
    <3>1. OnCourse(s, d) /\ link[d.pair] \in told'[s]  BY <1>1, <2>1 DEF AloneInv, Courses, Tell
    <3> QED  BY <1>1, <3>1 DEF OnCourse
  <2>2. ASSUME NEW t \in User \ {s}, NEW e \in review'[t], e.pair \notin crossed' PROVE OnCourse(t, e)'
    <3>1. OnCourse(t, e)  BY <1>1, <2>2 DEF AloneInv, Courses
    <3> QED  BY <1>0, <1>1, <3>1 DEF Local, OnCourse
  <2> QED  BY <2>1, <2>2 DEF Courses
<1>5. Apart'
  <2>1. ASSUME NEW t \in User, NEW p \in Pair, Reviewing(t, p)' PROVE Reviewing(t, p)
    BY <1>0, <1>1, <2>1 DEF Local, Reviewing
  <2> QED  BY <1>1, <2>1 DEF AloneInv, Apart
<1>6. DirectionSound' /\ DecisionRecordedAlone'
  BY <1>1, <1>2 DEF AloneInv, DirectionSound, DecisionRecordedAlone
<1> QED  BY <1>3, <1>4, <1>5, <1>6 DEF AloneInv

(* Every step of a request keeps AloneInv. *)
LEMMA AloneStep ==
  ASSUME AloneInv, LinkInv', NEW s \in User, Refresh(s) \/ Review(s) \/ Error(s)
  PROVE  AloneInv'
<1>0. TypeInv /\ Local(s)  BY StepLocal DEF AloneInv, LinkInv
<1>1. CASE RefreshCommit(s)
  <2>1. at[s] = "refresh.find" /\ UNCHANGED <<trail, review, told, crossed, answered>>
    BY <1>1 DEF RefreshCommit, history
  <2>2. review[s] = {}  BY <2>1 DEF AloneInv, AtReview, InReview
  <2>3. ASSUME NEW p \in Linked
        PROVE  link'[p].kind = link[p].kind /\ link'[p].status = link[p].status /\ link'[p].parent = link[p].parent
    <3>1. p \in Pair  BY DEF Linked
    <3>2. link'[p] \in {Refreshed(p), link[p]}  BY <1>0, <1>1, <3>1, CommittedRow
    <3> QED  BY <1>0, <1>1, <3>1, <3>2, CommitStores, RowsTyped DEF AloneInv
  <2>4. ASSUME NEW p \in Pair \ Linked
        PROVE  link'[p] = link[p] \/ (link'[p].status = "CANDIDATE" /\ link'[p].parent = 0)
    <3>1. p \notin refresh[s].found  BY DEF AloneInv, LinkInv
    <3> QED  BY <1>0, <1>1, <3>1, CommittedRow, RowsTyped
  <2>5. \A t \in User : \/ review'[t] = {}
                        \/ review'[t] = review[t] /\ at'[t] = at[t] /\ told'[t] = told[t]
    BY <1>0, <2>1, <2>2 DEF Local
  <2> QED  BY <2>1, <2>3, <2>4, <2>5, AloneKept DEF AloneInv, DecisionRecordedAlone
<1>2. CASE RefreshBegin(s) \/ RefreshFind(s)
  <2>1. at[s] \in {"idle", "refresh.find"} /\ UNCHANGED <<link, trail, review, told, crossed, answered>>
    BY <1>2 DEF RefreshBegin, RefreshFind, Arrive, rows, history
  <2>2. review[s] = {}  BY <2>1 DEF AloneInv, AtReview, InReview
  <2>3. \A t \in User : \/ review'[t] = {}
                        \/ review'[t] = review[t] /\ at'[t] = at[t] /\ told'[t] = told[t]
    BY <1>0, <2>1, <2>2 DEF Local
  <2> QED  BY <2>1, <2>3, AloneKept DEF AloneInv, DecisionRecordedAlone
<1>3. CASE RefreshRefused(s) \/ RefreshLog(s) \/ Error(s)
  <2>1. UNCHANGED <<link, trail, crossed, answered>> /\ Close(s)
    BY <1>3 DEF RefreshRefused, RefreshLog, Error, rows, history
  <2>2. \A t \in User : \/ review'[t] = {}
                        \/ review'[t] = review[t] /\ at'[t] = at[t] /\ told'[t] = told[t]
    BY <1>0, <2>1, CloseLocal DEF Local
  <2> QED  BY <2>1, <2>2, AloneKept DEF AloneInv, DecisionRecordedAlone
<1>4. CASE ReviewLog(s)
  <2>1. /\ trail' = trail \cup {Event(d.pair, s, r.status, r.parent) : d \in review[s], r \in told[s]}
        /\ answered' = answered \cup {Event(d.pair, s, d.status, d.parent) : d \in review[s]}
        /\ at[s] = "review.log" /\ Close(s) /\ UNCHANGED <<link, crossed>>
    BY <1>4 DEF ReviewLog
  <2>2. ASSUME NEW d \in review[s]
        PROVE  LET e == Event(d.pair, s, d.status, d.parent) IN e.pair \in crossed \/ e \in trail'
    <3>1. Event(d.pair, s, d.status, d.parent).pair = d.pair  BY DEF Event
    <3>2. CASE d.pair \notin crossed
      <4>1. PICK r \in told[s] : r.status = d.status /\ r.parent = d.parent
        BY <2>1, <3>2 DEF AloneInv, Courses, OnCourse
      <4>2. Event(d.pair, s, r.status, r.parent) \in trail'  BY <2>1
      <4> QED  BY <4>1, <4>2
    <3> QED  BY <3>1, <3>2
  <2>3. \A a \in answered' : a \in answered \/ a.pair \in crossed \/ a \in trail'  BY <2>1, <2>2
  <2>4. \A t \in User : \/ review'[t] = {}
                        \/ review'[t] = review[t] /\ at'[t] = at[t] /\ told'[t] = told[t]
    BY <1>0, <2>1, CloseLocal DEF Local
  <2> QED  BY <2>1, <2>3, <2>4, AloneKept
<1> QED  BY <1>1, <1>2, <1>3, <1>4, AloneBegins, AloneWrites, AloneRereads DEF Refresh, Review

(* AloneInv is an invariant. *)
LEMMA AloneInvariant == Spec => []AloneInv
<1>1. Init => AloneInv
  <2> SUFFICES ASSUME Init PROVE AloneInv  OBVIOUS
  <2>1. Linked = {} /\ answered = {}  BY DEF Init, Linked, NoRow
  <2>2. \A s \in User : review[s] = {}  BY DEF Init
  <2> QED  BY <2>1, <2>2, LinkInit
       DEF AloneInv, AtReview, OnLinks, Courses, Apart, Reviewing, DirectionSound, DecisionRecordedAlone
<1>2. AloneInv /\ [Next]_vars => AloneInv'
  <2> SUFFICES ASSUME AloneInv, [Next]_vars PROVE AloneInv'  OBVIOUS
  <2>1. LinkInv'  BY LinkNext DEF AloneInv
  <2>2. CASE Upload \/ UNCHANGED vars
    <3>1. UNCHANGED <<link, trail, at, review, told, crossed, answered>>
      BY <2>2 DEF Upload, vars, rows, requests, history
    <3> QED  BY <2>1, <3>1, AloneKept DEF AloneInv, DecisionRecordedAlone
  <2> QED  BY <2>1, <2>2, AloneStep DEF Next
<1> QED  BY <1>1, <1>2, PTL DEF Spec

(* A link reviewed by one analyst at a time has a parent only if it is     *)
(* confirmed, and has one if it is confirmed between different files.      *)
THEOREM LinksDirected == Spec => []DirectionSound
<1>1. AloneInv => DirectionSound  BY DEF AloneInv
<1> QED  BY <1>1, AloneInvariant, PTL

(* A decision on such a link that was answered with success is in the      *)
(* trail with its analyst, its verdict and its parent.                     *)
THEOREM DecisionsRecordedAlone == Spec => []DecisionRecordedAlone
<1>1. AloneInv => DecisionRecordedAlone  BY DEF AloneInv
<1> QED  BY <1>1, AloneInvariant, PTL
=============================================================================
