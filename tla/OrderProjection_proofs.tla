----------------------- MODULE OrderProjection_proofs -----------------------
(***************************************************************************)
(* Proofs about OrderProjection, for every number of workers, deliveries,  *)
(* orders, intents and lines.                                              *)
(***************************************************************************)
EXTENDS OrderProjection, TLAPS

(***************************************************************************)
(* What a worker keeps between two awaits is about its own order, and a    *)
(* decision is only ever bound to the intent its order is correlated with. *)
(***************************************************************************)
Knows(r) ==
    /\ r.phase # "idle" => r.delivery \in Deliveries
    /\ r.phase = "finalizing" =>
          /\ r.status \in Decided
          /\ r.intent = IntentOf[OrderOf[r.delivery]] \/ r.intent = NoIntent
          /\ r.intent = NoIntent => r.status = "needs_review"

WorkersKnowTheirOrder == \A w \in Workers : Knows(work[w])

BoundWhenDecided ==
    \A o \in Orders :
        bound[o] # NoIntent => bound[o] = IntentOf[o] /\ decision[o] \in Decided

IInv == /\ TypeOK
        /\ WorkersKnowTheirOrder
        /\ BoundWhenDecided
        /\ ApprovedIffIssued
        /\ IntentFollowsItsOrder

-----------------------------------------------------------------------------
(***************************************************************************)
(* Type correctness.                                                       *)
(***************************************************************************)
LEMMA RestingIsRecord == Resting \in WorkRecords /\ Resting.phase = "idle"
BY DEF Resting, WorkRecords, Phases, Decided

LEMMA PhaseUpdate ==
    ASSUME NEW r \in WorkRecords, NEW p \in Phases,
           NEW q, q = [r EXCEPT !.phase = p]
    PROVE  q \in WorkRecords /\ q.phase = p /\ q.delivery = r.delivery
BY DEF WorkRecords

LEMMA WorkStep ==
    ASSUME work \in [Workers -> WorkRecords], WorkersKnowTheirOrder,
           NEW w \in Workers, NEW r \in WorkRecords, Knows(r), Holds(w, r)
    PROVE  work' \in [Workers -> WorkRecords] /\ WorkersKnowTheirOrder'
<1> HIDE DEF Knows
<1>1. work' = [work EXCEPT ![w] = r]
  BY DEF Holds
<1>2. \A v \in Workers : work'[v] = IF v = w THEN r ELSE work[v]
  BY <1>1
<1>3. work' \in [Workers -> WorkRecords]
  BY <1>1
<1>4. QED
  BY <1>2, <1>3 DEF WorkersKnowTheirOrder

LEMMA GoStep ==
    ASSUME work \in [Workers -> WorkRecords], WorkersKnowTheirOrder,
           NEW w \in Workers, ~At(w, "idle"),
           NEW p \in Phases \ {"finalizing"}, Go(w, p)
    PROVE  work' \in [Workers -> WorkRecords] /\ WorkersKnowTheirOrder'
<1> DEFINE r == [work[w] EXCEPT !.phase = p]
<1>1. work[w] \in WorkRecords
  OBVIOUS
<1>2. r \in WorkRecords /\ r.phase = p /\ r.delivery = work[w].delivery
  BY <1>1, PhaseUpdate
<1>3. work[w].delivery \in Deliveries
  BY DEF WorkersKnowTheirOrder, Knows, At
<1> HIDE DEF r
<1>4. Knows(r)
  BY <1>2, <1>3 DEF Knows
<1>5. Holds(w, r)
  BY DEF Go, r
<1>6. QED
  BY <1>2, <1>4, <1>5, WorkStep

LEMMA RestStep ==
    ASSUME work \in [Workers -> WorkRecords], WorkersKnowTheirOrder,
           NEW w \in Workers, Rest(w)
    PROVE  work' \in [Workers -> WorkRecords] /\ WorkersKnowTheirOrder'
<1>1. Knows(Resting)
  BY DEF Knows, Resting
<1>2. QED
  BY <1>1, RestingIsRecord, WorkStep DEF Rest

LEMMA HandlesDelivery ==
    ASSUME TypeOK, WorkersKnowTheirOrder, NEW w \in Workers, ~At(w, "idle")
    PROVE  Handles(w) \in Deliveries /\ OrderAt(w) \in Orders
BY ShapeOfOrders DEF TypeOK, WorkersKnowTheirOrder, Knows, At, Handles, OrderAt

LEMMA TypeInit == Init => TypeOK /\ WorkersKnowTheirOrder
<1> SUFFICES ASSUME Init PROVE TypeOK /\ WorkersKnowTheirOrder
  OBVIOUS
<1>1. work \in [Workers -> WorkRecords]
  BY RestingIsRecord DEF Init
<1>2. WorkersKnowTheirOrder
  BY RestingIsRecord DEF Init, WorkersKnowTheirOrder, Knows
<1>3. NotIssued \in Rows
  BY DEF NotIssued, Rows
<1>4. QED
  BY <1>1, <1>2, <1>3, FaultsAreCounted DEF Init, TypeOK, Decided

\* The steps that decide nothing.
Quiet == UNCHANGED <<decision, bound, intent, entitlement, audit>>

LEMMA DeliverySteps ==
    ASSUME TypeOK, WorkersKnowTheirOrder, NEW d \in Deliveries, NEW w \in Workers,
           \/ Receive(d) \/ LeaseExpires(d) \/ Claim(w, d)
           \/ Acknowledge(w) \/ Fail(w) \/ Throw(w)
    PROVE  TypeOK' /\ WorkersKnowTheirOrder' /\ Quiet
<1>1. CASE Receive(d)
  BY <1>1 DEF Receive, TypeOK, WorkersKnowTheirOrder, Quiet
<1>2. CASE LeaseExpires(d)
  BY <1>2, FaultsAreCounted DEF LeaseExpires, TypeOK, WorkersKnowTheirOrder, Quiet
<1>3. CASE Claim(w, d)
  <2>0. PICK r : r = [Resting EXCEPT !.phase = "claimed", !.delivery = d,
                                     !.retry = attempted[d]]
    OBVIOUS
  <2>1. attempted[d] \in BOOLEAN
    BY DEF TypeOK
  <2>2. r \in WorkRecords /\ r.phase = "claimed" /\ r.delivery = d
    <3>1. "claimed" \in Phases /\ Resting \in WorkRecords
      BY RestingIsRecord DEF Phases
    <3>2. QED
      BY <2>0, <2>1, <3>1 DEF WorkRecords
  <2>3. Holds(w, r)
    BY <1>3, <2>0 DEF Claim
  <2>4. Knows(r)
    BY <2>2 DEF Knows
  <2>5. work' \in [Workers -> WorkRecords] /\ WorkersKnowTheirOrder'
    BY <2>2, <2>3, <2>4, WorkStep DEF TypeOK
  <2>6. QED
    BY <1>3, <2>5 DEF Claim, TypeOK, Quiet
<1>4. CASE Acknowledge(w)
  <2>1. work' \in [Workers -> WorkRecords] /\ WorkersKnowTheirOrder'
    BY <1>4, RestStep DEF Acknowledge, TypeOK
  <2>2. Handles(w) \in Deliveries
    BY <1>4, HandlesDelivery DEF Acknowledge, At
  <2>3. QED
    BY <1>4, <2>1, <2>2 DEF Acknowledge, TypeOK, Quiet
<1>5. CASE Fail(w)
  <2>1. work' \in [Workers -> WorkRecords] /\ WorkersKnowTheirOrder'
    BY <1>5, RestStep DEF Fail, TypeOK
  <2>2. Handles(w) \in Deliveries
    BY <1>5, HandlesDelivery DEF Fail, At
  <2>3. QED
    BY <1>5, <2>1, <2>2 DEF Fail, TypeOK, Quiet
<1>6. CASE Throw(w)
  <2>1. work' \in [Workers -> WorkRecords] /\ WorkersKnowTheirOrder'
    BY <1>6, RestStep, GoStep DEF Throw, TypeOK, Phases
  <2>2. faults' \in 0..MaxFaults
    BY <1>6, FaultsAreCounted DEF Throw, TypeOK
  <2>3. UNCHANGED database
    BY <1>6 DEF Throw
  <2>4. QED
    BY <2>1, <2>2, <2>3 DEF database, TypeOK, Quiet
<1>7. QED
  BY <1>1, <1>2, <1>3, <1>4, <1>5, <1>6

LEMMA ReadingSteps ==
    ASSUME TypeOK, WorkersKnowTheirOrder, NEW w \in Workers,
           \/ FindNothing(w) \/ FindApproved(w) \/ Validate(w)
           \/ FinalizeExisting(w) \/ FinalizeConflict(w) \/ ProjectProfile(w)
    PROVE  TypeOK' /\ WorkersKnowTheirOrder' /\ Quiet
<1>1. /\ work[w] \in WorkRecords /\ Handles(w) \in Deliveries /\ OrderAt(w) \in Orders
      /\ ~At(w, "idle")
  BY HandlesDelivery
     DEF TypeOK, At, FindNothing, FindApproved, Validate, FinalizeExisting,
         FinalizeConflict, ProjectProfile
<1>2. CASE FindNothing(w)
  <2>0. PICK r : r = [work[w] EXCEPT !.phase = "finalizing",
                                     !.status = "needs_review", !.intent = NoIntent]
    OBVIOUS
  <2>1. /\ r \in WorkRecords /\ r.phase = "finalizing" /\ r.delivery = Handles(w)
        /\ r.status = "needs_review" /\ r.intent = NoIntent
    <3>1. /\ "finalizing" \in Phases /\ "needs_review" \in Decided
          /\ NoIntent \in Intents \cup {NoIntent}
      BY DEF Phases, Decided
    <3>2. QED
      BY <1>1, <2>0, <3>1 DEF Handles, WorkRecords
  <2>2. Holds(w, r)
    BY <1>2, <2>0 DEF FindNothing
  <2>3. Knows(r)
    BY <1>1, <2>1 DEF Knows, Decided
  <2>4. work' \in [Workers -> WorkRecords] /\ WorkersKnowTheirOrder'
    BY <2>1, <2>2, <2>3, WorkStep DEF TypeOK
  <2>5. QED
    BY <1>2, <2>4 DEF FindNothing, database, TypeOK, Quiet
<1>3. CASE FindApproved(w)
  <2> DEFINE i == IntentOf[OrderAt(w)]
  <2>0. PICK r : r = [work[w] EXCEPT !.phase = "projecting", !.intent = i]
    OBVIOUS
  <2>1. i \in Intents
    BY <1>1, <1>3, ShapeOfOrders DEF FindApproved
  <2>2. r \in WorkRecords /\ r.phase = "projecting" /\ r.delivery = Handles(w)
    <3>1. "projecting" \in Phases
      BY DEF Phases
    <3>2. QED
      BY <1>1, <2>0, <2>1, <3>1 DEF WorkRecords, Handles
  <2>3. Holds(w, r) \/ Go(w, "acknowledging")
    BY <1>3, <2>0 DEF FindApproved
  <2>4. Knows(r)
    BY <1>1, <2>2 DEF Knows
  <2>5. "acknowledging" \in Phases \ {"finalizing"}
    BY DEF Phases
  <2>6. work' \in [Workers -> WorkRecords] /\ WorkersKnowTheirOrder'
    BY <1>1, <2>2, <2>3, <2>4, <2>5, WorkStep, GoStep DEF TypeOK
  <2>7. QED
    BY <1>3, <2>6 DEF FindApproved, database, TypeOK, Quiet
<1>4. CASE Validate(w)
  <2>1. IntentOf[OrderAt(w)] \in Intents /\ IntentOf[OrderAt(w)] # NoIntent
    BY <1>1, <1>4, ShapeOfOrders DEF Validate
  <2>2. PICK verdict \in Decided :
          Holds(w, [work[w] EXCEPT !.phase = "finalizing", !.status = verdict,
                                   !.intent = IntentOf[OrderAt(w)]])
    BY <1>4 DEF Validate
  <2>0. PICK r : r = [work[w] EXCEPT !.phase = "finalizing", !.status = verdict,
                                     !.intent = IntentOf[OrderAt(w)]]
    OBVIOUS
  <2>3. /\ r \in WorkRecords /\ r.phase = "finalizing" /\ r.delivery = Handles(w)
        /\ r.status = verdict /\ r.intent = IntentOf[OrderAt(w)]
    <3>1. "finalizing" \in Phases
      BY DEF Phases
    <3>2. QED
      BY <1>1, <2>0, <2>1, <3>1 DEF WorkRecords, Handles
  <2>4. Knows(r)
    BY <1>1, <2>1, <2>3 DEF Knows, OrderAt
  <2>5. work' \in [Workers -> WorkRecords] /\ WorkersKnowTheirOrder'
    BY <2>0, <2>2, <2>3, <2>4, WorkStep DEF TypeOK
  <2>6. QED
    BY <1>4, <2>5 DEF Validate, database, TypeOK, Quiet
<1>5. CASE FinalizeExisting(w)
  <2>1. "projecting" \in Phases \ {"finalizing"}
    BY DEF Phases
  <2>2. work' \in [Workers -> WorkRecords] /\ WorkersKnowTheirOrder'
    BY <1>1, <1>5, <2>1, RestStep, GoStep DEF FinalizeExisting, Answer, TypeOK
  <2>3. QED
    BY <1>1, <1>5, <2>2 DEF FinalizeExisting, Answer, TypeOK, Quiet
<1>6. CASE FinalizeConflict(w)
  <2>1. "failing" \in Phases \ {"finalizing"}
    BY DEF Phases
  <2>2. work' \in [Workers -> WorkRecords] /\ WorkersKnowTheirOrder'
    BY <1>1, <1>6, <2>1, GoStep DEF FinalizeConflict, TypeOK
  <2>3. QED
    BY <1>6, <2>2 DEF FinalizeConflict, database, TypeOK, Quiet
<1>7. CASE ProjectProfile(w)
  <2>1. "acknowledging" \in Phases \ {"finalizing"}
    BY DEF Phases
  <2>2. work' \in [Workers -> WorkRecords] /\ WorkersKnowTheirOrder'
    BY <1>1, <1>7, <2>1, RestStep, GoStep DEF ProjectProfile, TypeOK
  <2>3. profiled' \in SUBSET Intents
    BY <1>7, ShapeOfIntents DEF ProjectProfile, TypeOK
  <2>4. QED
    BY <1>7, <2>2, <2>3 DEF ProjectProfile, TypeOK, Quiet
<1>8. QED
  BY <1>2, <1>3, <1>4, <1>5, <1>6, <1>7

LEMMA PendingStep ==
    ASSUME TypeOK, WorkersKnowTheirOrder, NEW w \in Workers, RecordPending(w)
    PROVE  /\ TypeOK' /\ WorkersKnowTheirOrder'
           /\ UNCHANGED <<bound, intent, entitlement>>
           /\ \A o \in Orders : decision'[o] # decision[o] =>
                 decision[o] = "none" /\ decision'[o] = "pending"
<1> DEFINE o == OrderAt(w)
           status == IF decision[o] = "none" THEN "pending" ELSE decision[o]
<1>0. PICK r : r = [work[w] EXCEPT !.phase = "reading", !.seen = status]
  OBVIOUS
<1>1. work[w] \in WorkRecords /\ Handles(w) \in Deliveries /\ o \in Orders /\ ~At(w, "idle")
  BY HandlesDelivery DEF TypeOK, At, RecordPending
<1>2. decision' = [decision EXCEPT ![o] = status]
  BY DEF RecordPending
<1>3. status \in Decided \cup {"pending"}
  BY <1>1 DEF TypeOK
<1>4. \/ status \in {"pending", "approved"} /\ Holds(w, r)
      \/ Go(w, "acknowledging")
  BY <1>0 DEF RecordPending
<1>5. work' \in [Workers -> WorkRecords] /\ WorkersKnowTheirOrder'
  <2>1. CASE status \in {"pending", "approved"} /\ Holds(w, r)
    <3>1. "reading" \in Phases
      BY DEF Phases
    <3>2. r \in WorkRecords /\ r.phase = "reading" /\ r.delivery = Handles(w)
      BY <1>0, <1>1, <2>1, <3>1 DEF WorkRecords, Handles
    <3>3. Knows(r)
      BY <1>1, <3>2 DEF Knows
    <3>4. QED
      BY <2>1, <3>2, <3>3, WorkStep DEF TypeOK
  <2>2. CASE Go(w, "acknowledging")
    <3>1. "acknowledging" \in Phases \ {"finalizing"}
      BY DEF Phases
    <3>2. QED
      BY <1>1, <2>2, <3>1, GoStep DEF TypeOK
  <2>3. QED
    BY <1>4, <2>1, <2>2
<1>6. TypeOK'
  BY <1>1, <1>2, <1>3, <1>5 DEF RecordPending, TypeOK
<1>7. QED
  BY <1>1, <1>2, <1>5, <1>6 DEF RecordPending, TypeOK

LEMMA CrashStep ==
    ASSUME TypeOK, WorkersKnowTheirOrder, Crash
    PROVE  TypeOK' /\ WorkersKnowTheirOrder' /\ Quiet
<1>1. work' \in [Workers -> WorkRecords]
  BY RestingIsRecord DEF Crash
<1>2. WorkersKnowTheirOrder'
  BY RestingIsRecord DEF Crash, WorkersKnowTheirOrder, Knows
<1>3. faults' \in 0..MaxFaults
  BY FaultsAreCounted DEF Crash, TypeOK
<1>4. UNCHANGED database
  BY DEF Crash
<1>5. QED
  BY <1>1, <1>2, <1>3, <1>4 DEF database, TypeOK, Quiet

LEMMA ChangeStep ==
    ASSUME TypeOK, WorkersKnowTheirOrder, NEW l \in Lines, ChangeEntitlement(l)
    PROVE  /\ TypeOK' /\ WorkersKnowTheirOrder'
           /\ UNCHANGED <<decision, bound, intent>>
           /\ \A k \in Lines : entitlement'[k].order = entitlement[k].order
           /\ \A k \in Lines : entitlement[k].status = "changed" =>
                 entitlement'[k] = entitlement[k]
<1>1. /\ entitlement' \in [Lines -> Rows]
      /\ \A k \in Lines : entitlement'[k].order = entitlement[k].order
      /\ \A k \in Lines : entitlement[k].status = "changed" =>
            entitlement'[k] = entitlement[k]
  BY DEF ChangeEntitlement, TypeOK, Rows
<1>2. WorkersKnowTheirOrder'
  BY DEF ChangeEntitlement, WorkersKnowTheirOrder
<1>3. QED
  BY <1>1, <1>2 DEF ChangeEntitlement, TypeOK

-----------------------------------------------------------------------------
(***************************************************************************)
(* The transactions that decide: a worker's and an administrator's.  Both  *)
(* write the decision of order o, bind it to intent i, give i its status   *)
(* and issue "lines", which is empty for anything but an approval.         *)
(***************************************************************************)
Decides(o, i, status, lines) ==
    /\ decision' = [decision EXCEPT ![o] = status]
    /\ bound' = [bound EXCEPT ![o] = i]
    /\ intent' = IF i = NoIntent THEN intent ELSE [intent EXCEPT ![i] = status]
    /\ entitlement' = [l \in Lines |->
                         IF l \in lines /\ entitlement[l] = NotIssued
                         THEN Issued(o) ELSE entitlement[l]]

\* Why it may: the order is not approved, an intent it leaves is not held by
\* it, the intent it takes is held by no other order, and the lines it issues
\* are all of them and belong to nobody else.
MayDecide(o, i, status, lines) ==
    /\ status \in Decided
    /\ i \in Intents \cup {NoIntent}
    /\ decision[o] # "approved"
    /\ i = IntentOf[o] \/ i = NoIntent
    /\ i = NoIntent => bound[o] = NoIntent
    /\ i # NoIntent => \A p \in Orders \ {o} : bound[p] # i
    /\ IF status = "approved"
       THEN /\ i # NoIntent /\ lines = LinesOf[i]
            /\ \A l \in lines : entitlement[l] = NotIssued \/ IssuedTo(l, o)
       ELSE lines = {}

LEMMA DecidesKeepsTypes ==
    ASSUME TypeOK, NEW o \in Orders, NEW i, NEW status, NEW lines \in SUBSET Lines,
           Decides(o, i, status, lines), MayDecide(o, i, status, lines)
    PROVE  /\ decision' \in [Orders -> Decided \cup {"none", "pending"}]
           /\ bound' \in [Orders -> Intents \cup {NoIntent}]
           /\ intent' \in [Intents -> Decided \cup {"open"}]
           /\ entitlement' \in [Lines -> Rows]
<1>1. Issued(o) \in Rows
  BY DEF Issued, Rows
<1>2. entitlement' \in [Lines -> Rows]
  BY <1>1 DEF Decides, TypeOK
<1>3. QED
  BY <1>2 DEF Decides, MayDecide, TypeOK

LEMMA DecidesKeepsApprovals ==
    ASSUME TypeOK, BoundWhenDecided, ApprovedIffIssued, IntentFollowsItsOrder,
           NEW o \in Orders, NEW i, NEW status, NEW lines \in SUBSET Lines,
           Decides(o, i, status, lines), MayDecide(o, i, status, lines)
    PROVE  /\ BoundWhenDecided'
           /\ ApprovedIffIssued'
           /\ IntentFollowsItsOrder'
           /\ \A p \in Orders : decision[p] = "approved" =>
                 decision'[p] = "approved" /\ bound'[p] = bound[p]
<1>1. /\ \A p \in Orders : /\ decision'[p] = IF p = o THEN status ELSE decision[p]
                           /\ bound'[p] = IF p = o THEN i ELSE bound[p]
      /\ \A j \in Intents : intent'[j] = IF j = i /\ i # NoIntent THEN status ELSE intent[j]
  BY ShapeOfOrders DEF Decides, TypeOK
<1>2. \A l \in Lines : ~IssuedTo(l, o)
  BY DEF ApprovedIffIssued, MayDecide
<1>3. \A l \in Lines, p \in Orders :
        entitlement'[l].order = p <=>
           \/ p = o /\ l \in lines
           \/ p # o /\ IssuedTo(l, p)
  <2> SUFFICES ASSUME NEW l \in Lines, NEW p \in Orders
               PROVE  entitlement'[l].order = p <=>
                         \/ p = o /\ l \in lines
                         \/ p # o /\ IssuedTo(l, p)
    OBVIOUS
  <2>1. lines # {} => \A k \in lines : entitlement[k] = NotIssued
    BY <1>2 DEF MayDecide
  <2>2. CASE l \in lines
    BY <2>1, <2>2, ShapeOfOrders DEF Decides, Issued, NotIssued, IssuedTo
  <2>3. CASE l \notin lines
    BY <1>2, <2>3 DEF Decides, IssuedTo
  <2>4. QED
    BY <2>2, <2>3
<1>4. BoundWhenDecided'
  BY <1>1 DEF BoundWhenDecided, MayDecide
<1>5. ApprovedIffIssued'
  <2> SUFFICES ASSUME NEW p \in Orders
               PROVE  /\ decision'[p] = "approved" =>
                           /\ bound'[p] # NoIntent
                           /\ \A l \in LinesOf[bound'[p]] : entitlement'[l].order = p
                      /\ \A l \in Lines : entitlement'[l].order = p =>
                           /\ decision'[p] = "approved"
                           /\ bound'[p] # NoIntent /\ l \in LinesOf[bound'[p]]
    BY DEF ApprovedIffIssued, IssuedTo
  <2>1. CASE p = o
    <3>1. CASE status = "approved"
      <4>1. i \in Intents /\ lines = LinesOf[i] /\ i # NoIntent
        BY <3>1 DEF MayDecide
      <4>2. decision'[p] = "approved" /\ bound'[p] = i
        BY <1>1, <2>1, <3>1
      <4>3. \A l \in Lines : entitlement'[l].order = p <=> l \in lines
        BY <1>3, <2>1
      <4>4. QED
        BY <4>1, <4>2, <4>3
    <3>2. CASE status # "approved"
      <4>1. lines = {} /\ decision'[p] # "approved"
        BY <1>1, <2>1, <3>2 DEF MayDecide
      <4>2. QED
        BY <1>3, <2>1, <4>1
    <3>3. QED
      BY <3>1, <3>2
  <2>2. CASE p # o
    <3>1. decision'[p] = decision[p] /\ bound'[p] = bound[p]
      BY <1>1, <2>2
    <3>2. \A l \in Lines : entitlement'[l].order = p <=> IssuedTo(l, p)
      BY <1>3, <2>2
    <3>3. bound[p] # NoIntent => LinesOf[bound[p]] \subseteq Lines
      BY ShapeOfIntents DEF TypeOK
    <3>4. QED
      BY <3>1, <3>2, <3>3 DEF ApprovedIffIssued
  <2>3. QED
    BY <2>1, <2>2
<1>6. IntentFollowsItsOrder'
  <2>1. ASSUME NEW p \in Orders, NEW q \in Orders, bound'[p] = bound'[q], bound'[p] # NoIntent
        PROVE  p = q
    BY <1>1, <2>1 DEF IntentFollowsItsOrder, MayDecide
  <2>2. ASSUME NEW j \in Intents, intent'[j] # "open"
        PROVE  \E p \in Orders : bound'[p] = j /\ decision'[p] = intent'[j]
    <3>1. CASE j = i /\ i # NoIntent
      BY <1>1, <3>1
    <3>2. CASE j # i
      <4>1. PICK p \in Orders : bound[p] = j /\ decision[p] = intent[j]
        BY <1>1, <2>2, <3>2 DEF IntentFollowsItsOrder
      <4>2. p # o
        <5>1. j # NoIntent
          BY ShapeOfOrders
        <5>2. bound[o] = j => i # NoIntent /\ i = IntentOf[o] /\ bound[o] = IntentOf[o]
          BY <5>1 DEF MayDecide, BoundWhenDecided
        <5>3. QED
          BY <3>2, <4>1, <5>2
      <4>3. QED
        BY <1>1, <3>2, <4>1, <4>2
    <3>3. QED
      BY <3>1, <3>2, ShapeOfOrders
  <2>3. ASSUME NEW p \in Orders, bound'[p] # NoIntent
        PROVE  intent'[bound'[p]] = decision'[p]
    <3>1. CASE p = o
      BY <1>1, <2>3, <3>1 DEF MayDecide
    <3>2. CASE p # o
      <4>1. bound'[p] = bound[p] /\ bound[p] \in Intents /\ bound[p] # i
        BY <1>1, <2>3, <3>2 DEF MayDecide, TypeOK
      <4>2. QED
        BY <1>1, <2>3, <3>2, <4>1 DEF IntentFollowsItsOrder
    <3>3. QED
      BY <3>1, <3>2
  <2>4. QED
    BY <2>1, <2>2, <2>3 DEF IntentFollowsItsOrder
<1>7. QED
  BY <1>1, <1>4, <1>5, <1>6 DEF MayDecide

LEMMA FinalizeDecides ==
    ASSUME IInv, NEW w \in Workers, FinalizeDecision(w)
    PROVE  \E status \in Decided, lines \in SUBSET Lines :
              /\ Decides(OrderAt(w), work[w].intent, status, lines)
              /\ MayDecide(OrderAt(w), work[w].intent, status, lines)
<1> DEFINE o == OrderAt(w)
           i == work[w].intent
<1>1. /\ work[w] \in WorkRecords /\ Handles(w) \in Deliveries /\ o \in Orders
      /\ ~At(w, "idle") /\ At(w, "finalizing")
  BY HandlesDelivery DEF IInv, TypeOK, At, FinalizeDecision
<1>2. /\ work[w].status \in Decided /\ i \in Intents \cup {NoIntent}
      /\ i = IntentOf[o] \/ i = NoIntent
      /\ i = NoIntent => work[w].status = "needs_review"
  BY <1>1 DEF IInv, WorkersKnowTheirOrder, Knows, At, WorkRecords, OrderAt, Handles
<1>3. /\ ~ReplayConflicts(w) /\ ~AlreadyDecided(w) /\ ~HeldByAnotherOrder(w)
  BY DEF FinalizeDecision
<1>4. i # NoIntent => \A p \in Orders \ {o} : bound[p] # i
  BY <1>3 DEF HeldByAnotherOrder
<1>5. decision[o] # "approved"
  <2> SUFFICES ASSUME decision[o] = "approved" PROVE AlreadyDecided(w)
    BY <1>3
  <2>1. bound[o] # NoIntent /\ \A l \in LinesOf[bound[o]] : IssuedTo(l, o)
    BY <1>1 DEF IInv, ApprovedIffIssued
  <2>2. bound[o] = IntentOf[o]
    BY <1>1, <2>1 DEF IInv, BoundWhenDecided
  <2>3. ASSUME NEW l \in ClassLinesAt(w) PROVE IssuedTo(l, o)
    <3>1. l \in LinesOf[i] /\ work[w].status = "approved"
      BY <2>3 DEF ClassLinesAt, LinesAt
    <3>2. i = IntentOf[o]
      BY <1>2, <3>1
    <3>3. QED
      BY <2>1, <2>2, <3>1, <3>2
  <2>4. QED
    BY <2>3 DEF AlreadyDecided, Decided
<1>6. i = NoIntent => bound[o] = NoIntent
  <2> SUFFICES ASSUME i = NoIntent, bound[o] # NoIntent PROVE AlreadyDecided(w)
    BY <1>3
  <2>1. decision[o] \in Decided
    BY <1>1 DEF IInv, BoundWhenDecided
  <2>2. ClassLinesAt(w) = {}
    BY <1>2 DEF ClassLinesAt, LinesAt
  <2>3. QED
    BY <2>1, <2>2 DEF AlreadyDecided
<1>7. CASE ~LineTaken(w) /\ Decide(w, work[w].status, LinesAt(w))
  <2>1. LinesAt(w) \in SUBSET Lines
    BY <1>2, ShapeOfIntents DEF LinesAt
  <2>2. Decides(o, i, work[w].status, LinesAt(w))
    BY <1>7 DEF Decide, Decides
  <2>3. \A l \in LinesAt(w) : entitlement[l] = NotIssued \/ IssuedTo(l, o)
    BY <1>7 DEF LineTaken
  <2>4. IF work[w].status = "approved"
        THEN i # NoIntent /\ LinesAt(w) = LinesOf[i]
        ELSE LinesAt(w) = {}
    BY <1>2 DEF LinesAt
  <2>5. MayDecide(o, i, work[w].status, LinesAt(w))
    BY <1>2, <1>4, <1>5, <1>6, <2>3, <2>4 DEF MayDecide
  <2>6. QED
    BY <1>2, <2>1, <2>2, <2>5
<1>8. CASE Decide(w, "needs_review", {})
  <2>1. Decides(o, i, "needs_review", {})
    BY <1>8 DEF Decide, Decides
  <2>2. "needs_review" \in Decided /\ "needs_review" # "approved"
    BY DEF Decided
  <2>3. MayDecide(o, i, "needs_review", {})
    BY <1>2, <1>4, <1>5, <1>6, <2>2 DEF MayDecide
  <2>4. {} \in SUBSET Lines
    OBVIOUS
  <2>5. QED
    BY <2>1, <2>2, <2>3, <2>4
<1>9. QED
  BY <1>7, <1>8 DEF FinalizeDecision

LEMMA FinalizeKeepsTypes ==
    ASSUME IInv, NEW w \in Workers, FinalizeDecision(w)
    PROVE  TypeOK' /\ WorkersKnowTheirOrder'
<1>1. /\ Handles(w) \in Deliveries /\ OrderAt(w) \in Orders /\ ~At(w, "idle")
  BY HandlesDelivery DEF IInv, At, FinalizeDecision
<1>2. PICK status \in Decided, lines \in SUBSET Lines :
        /\ Decides(OrderAt(w), work[w].intent, status, lines)
        /\ MayDecide(OrderAt(w), work[w].intent, status, lines)
  BY FinalizeDecides
<1>3. /\ decision' \in [Orders -> Decided \cup {"none", "pending"}]
      /\ bound' \in [Orders -> Intents \cup {NoIntent}]
      /\ intent' \in [Intents -> Decided \cup {"open"}]
      /\ entitlement' \in [Lines -> Rows]
  BY <1>1, <1>2, DecidesKeepsTypes DEF IInv
<1>4. Answer(w)
  BY DEF FinalizeDecision, Decide
<1>5. work' \in [Workers -> WorkRecords] /\ WorkersKnowTheirOrder'
  <2>1. "projecting" \in Phases \ {"finalizing"}
    BY DEF Phases
  <2>2. QED
    BY <1>1, <1>4, <2>1, RestStep, GoStep DEF Answer, IInv, TypeOK
<1>6. delivery' = [delivery EXCEPT ![Handles(w)] = "processed"]
  BY <1>4 DEF Answer
<1>7. QED
  BY <1>1, <1>3, <1>5, <1>6 DEF FinalizeDecision, IInv, TypeOK

LEMMA ResolveDecides ==
    ASSUME IInv, NEW o \in Orders, Decline(o) \/ Approve(o)
    PROVE  /\ TypeOK' /\ WorkersKnowTheirOrder'
           /\ \E i, status, lines :
                 /\ lines \in SUBSET Lines
                 /\ Decides(o, i, status, lines)
                 /\ MayDecide(o, i, status, lines)
<1>1. /\ decision[o] \in {"pending", "needs_review"}
      /\ \E i \in Intents \cup {NoIntent}, status \in {"approved", "rejected"} :
            Resolve(o, i, status)
  BY ShapeOfOrders DEF Decline, Approve, Resolvable, IInv, TypeOK
<1>2. \E i, status, lines : /\ lines \in SUBSET Lines
                            /\ Decides(o, i, status, lines)
                            /\ MayDecide(o, i, status, lines)
  <2>1. CASE Decline(o)
    <3>1. entitlement' = [l \in Lines |-> IF l \in {} /\ entitlement[l] = NotIssued
                                          THEN Issued(o) ELSE entitlement[l]]
      BY <2>1 DEF Decline, IInv, TypeOK
    <3>2. Decides(o, bound[o], "rejected", {})
      BY <2>1, <3>1 DEF Decline, Resolve, Decides
    <3>3. bound[o] # NoIntent => \A p \in Orders \ {o} : bound[p] # bound[o]
      BY DEF IInv, IntentFollowsItsOrder
    <3>4. MayDecide(o, bound[o], "rejected", {})
      BY <1>1, <3>3 DEF MayDecide, IInv, TypeOK, BoundWhenDecided, Decided
    <3>5. QED
      BY <3>2, <3>4
  <2>2. CASE Approve(o)
    <3> DEFINE i == IntentOf[o]
    <3>1. /\ i \in Intents /\ i # NoIntent /\ LinesOf[i] \in SUBSET Lines
          /\ \A l \in LinesOf[i] : entitlement[l] = NotIssued
      BY <2>2, ShapeOfOrders, ShapeOfIntents DEF Approve
    <3>2. entitlement' = [l \in Lines |-> IF l \in LinesOf[i] THEN Issued(o) ELSE entitlement[l]]
      BY <2>2 DEF Approve
    <3>3. entitlement' = [l \in Lines |-> IF l \in LinesOf[i] /\ entitlement[l] = NotIssued
                                          THEN Issued(o) ELSE entitlement[l]]
      BY <3>1, <3>2
    <3>4. Decides(o, i, "approved", LinesOf[i])
      BY <2>2, <3>3 DEF Approve, Resolve, Decides
    <3>5. MayDecide(o, i, "approved", LinesOf[i])
      BY <1>1, <2>2, <3>1 DEF Approve, MayDecide, Decided
    <3>6. QED
      BY <3>1, <3>4, <3>5
  <2>3. QED
    BY <2>1, <2>2
<1>3. PICK i, status, lines : /\ lines \in SUBSET Lines
                              /\ Decides(o, i, status, lines)
                              /\ MayDecide(o, i, status, lines)
  BY <1>2
<1>4. /\ decision' \in [Orders -> Decided \cup {"none", "pending"}]
      /\ bound' \in [Orders -> Intents \cup {NoIntent}]
      /\ intent' \in [Intents -> Decided \cup {"open"}]
      /\ entitlement' \in [Lines -> Rows]
  BY <1>3, DecidesKeepsTypes DEF IInv
<1>5. audit' \in [Orders -> {"none", "approved", "rejected"}]
  BY <1>1 DEF Resolve, IInv, TypeOK
<1>6. UNCHANGED <<delivery, attempted, profiled, work, faults>>
  BY <1>1 DEF Resolve
<1>7. TypeOK'
  BY <1>4, <1>5, <1>6 DEF IInv, TypeOK
<1>8. WorkersKnowTheirOrder'
  BY <1>6 DEF IInv, WorkersKnowTheirOrder
<1>9. QED
  BY <1>2, <1>7, <1>8

-----------------------------------------------------------------------------
(***************************************************************************)
(* The inductive invariant.                                                *)
(***************************************************************************)
LEMMA IInvInit == Init => IInv
<1> SUFFICES ASSUME Init PROVE IInv
  OBVIOUS
<1>1. TypeOK /\ WorkersKnowTheirOrder
  BY TypeInit
<1>2. BoundWhenDecided
  BY DEF Init, BoundWhenDecided
<1>3. ApprovedIffIssued
  BY ShapeOfOrders DEF Init, ApprovedIffIssued, IssuedTo, NotIssued
<1>4. IntentFollowsItsOrder
  BY DEF Init, IntentFollowsItsOrder
<1>5. QED
  BY <1>1, <1>2, <1>3, <1>4 DEF IInv

KeepsChanges ==
    \A l \in Lines : entitlement[l].status = "changed" => entitlement'[l] = entitlement[l]

\* What a step does to decisions, whichever it is: nothing that a decision or
\* an entitlement's order depends on, a first pending decision, or a decision
\* that may be taken.
KeepsDecisions ==
    /\ UNCHANGED <<bound, intent>>
    /\ \A l \in Lines : entitlement'[l].order = entitlement[l].order
    /\ KeepsChanges
    /\ \A o \in Orders : decision'[o] # decision[o] =>
          decision[o] = "none" /\ decision'[o] = "pending"

TakesDecision ==
    \E o \in Orders : \E i, status, lines :
        /\ lines \in SUBSET Lines
        /\ Decides(o, i, status, lines)
        /\ MayDecide(o, i, status, lines)

LEMMA EveryStep ==
    ASSUME IInv, [Next]_vars
    PROVE  /\ TypeOK' /\ WorkersKnowTheirOrder'
           /\ KeepsDecisions \/ TakesDecision
<1> USE DEF IInv
<1>0. Quiet => KeepsDecisions
  BY DEF Quiet, KeepsDecisions, KeepsChanges
<1>1. CASE UNCHANGED vars
  BY <1>1 DEF vars, database, TypeOK, WorkersKnowTheirOrder, KeepsDecisions, KeepsChanges
<1>2. ASSUME NEW d \in Deliveries, Receive(d) \/ LeaseExpires(d)
      PROVE  TypeOK' /\ WorkersKnowTheirOrder' /\ Quiet
  <2>1. CASE Receive(d)
    BY <2>1 DEF Receive, TypeOK, WorkersKnowTheirOrder, Quiet
  <2>2. CASE LeaseExpires(d)
    BY <2>2, FaultsAreCounted DEF LeaseExpires, TypeOK, WorkersKnowTheirOrder, Quiet
  <2>3. QED
    BY <1>2, <2>1, <2>2
<1>3. ASSUME NEW w \in Workers, NEW d \in Deliveries, Claim(w, d)
      PROVE  TypeOK' /\ WorkersKnowTheirOrder' /\ Quiet
  BY <1>3, DeliverySteps
<1>4. ASSUME NEW w \in Workers, Acknowledge(w) \/ Fail(w) \/ Throw(w)
      PROVE  TypeOK' /\ WorkersKnowTheirOrder' /\ Quiet
  <2>1. Handles(w) \in Deliveries
    BY <1>4, HandlesDelivery DEF Acknowledge, Fail, Throw, At
  <2>2. QED
    BY <1>4, <2>1, DeliverySteps
<1>5. ASSUME NEW w \in Workers,
             \/ FindNothing(w) \/ FindApproved(w) \/ Validate(w)
             \/ FinalizeExisting(w) \/ FinalizeConflict(w) \/ ProjectProfile(w)
      PROVE  TypeOK' /\ WorkersKnowTheirOrder' /\ Quiet
  BY <1>5, ReadingSteps
<1>6. ASSUME NEW w \in Workers, RecordPending(w)
      PROVE  TypeOK' /\ WorkersKnowTheirOrder' /\ KeepsDecisions
  BY <1>6, PendingStep DEF KeepsDecisions, KeepsChanges
<1>7. ASSUME NEW w \in Workers, FinalizeDecision(w)
      PROVE  TypeOK' /\ WorkersKnowTheirOrder' /\ TakesDecision
  <2>1. OrderAt(w) \in Orders
    BY <1>7, HandlesDelivery DEF FinalizeDecision, At
  <2>2. QED
    BY <1>7, <2>1, FinalizeDecides, FinalizeKeepsTypes DEF TakesDecision
<1>8. ASSUME NEW o \in Orders, Decline(o) \/ Approve(o)
      PROVE  TypeOK' /\ WorkersKnowTheirOrder' /\ TakesDecision
  BY <1>8, ResolveDecides DEF TakesDecision
<1>9. ASSUME NEW l \in Lines, ChangeEntitlement(l)
      PROVE  TypeOK' /\ WorkersKnowTheirOrder' /\ KeepsDecisions
  BY <1>9, ChangeStep DEF KeepsDecisions, KeepsChanges
<1>10. CASE Crash
  BY <1>0, <1>10, CrashStep
<1>11. QED
  BY <1>0, <1>1, <1>2, <1>3, <1>4, <1>5, <1>6, <1>7, <1>8, <1>9, <1>10 DEF Next, Step

LEMMA IInvStep ==
    ASSUME IInv, [Next]_vars
    PROVE  /\ IInv'
           /\ \A o \in Orders : decision[o] = "approved" =>
                 decision'[o] = "approved" /\ bound'[o] = bound[o]
<1>1. TypeOK' /\ WorkersKnowTheirOrder' /\ (KeepsDecisions \/ TakesDecision)
  BY EveryStep
<1>2. CASE KeepsDecisions
  <2>1. \A o \in Orders : decision[o] \in Decided => decision'[o] = decision[o]
    BY <1>2 DEF KeepsDecisions, Decided
  <2>2. \A o \in Orders : decision'[o] = "approved" => decision[o] = "approved"
    BY <1>2 DEF KeepsDecisions
  <2>3. BoundWhenDecided'
    BY <1>2, <2>1 DEF KeepsDecisions, BoundWhenDecided, IInv
  <2>4. ApprovedIffIssued'
    <3>1. \A o \in Orders, l \in Lines : IssuedTo(l, o)' <=> IssuedTo(l, o)
      BY <1>2 DEF KeepsDecisions, IssuedTo
    <3>2. \A o \in Orders : bound[o] # NoIntent => LinesOf[bound[o]] \subseteq Lines
      BY ShapeOfIntents DEF IInv, TypeOK
    <3>3. bound' = bound
      BY <1>2 DEF KeepsDecisions
    <3>4. \A o \in Orders : decision'[o] = "approved" <=> decision[o] = "approved"
      BY <2>1, <2>2 DEF Decided
    <3>5. QED
      BY <3>1, <3>2, <3>3, <3>4 DEF ApprovedIffIssued, IInv
  <2>5. IntentFollowsItsOrder'
    <3>1. bound' = bound /\ intent' = intent
      BY <1>2 DEF KeepsDecisions
    <3>2. \A i \in Intents : intent[i] # "open" => intent[i] \in Decided
      BY DEF IInv, TypeOK
    <3>3. \A o \in Orders : bound[o] # NoIntent => decision'[o] = decision[o]
      BY <2>1 DEF IInv, BoundWhenDecided
    <3>4. \A i \in Intents : i # NoIntent
      BY ShapeOfOrders
    <3>5. QED
      BY <3>1, <3>3, <3>4 DEF IntentFollowsItsOrder, IInv
  <2>6. QED
    BY <1>1, <1>2, <2>1, <2>3, <2>4, <2>5 DEF IInv, KeepsDecisions, Decided
<1>3. CASE TakesDecision
  BY <1>1, <1>3, DecidesKeepsApprovals DEF TakesDecision, IInv
<1>4. QED
  BY <1>1, <1>2, <1>3

\* Every reachable state has values of the declared types.
THEOREM ProjectionTypes == Spec => []TypeOK
<1>1. Init => IInv
  BY IInvInit
<1>2. IInv /\ [Next]_vars => IInv'
  BY IInvStep
<1>3. IInv => TypeOK
  BY DEF IInv
<1>4. QED
  BY <1>1, <1>2, <1>3, PTL DEF Spec

\* An order is approved exactly when every line of its intent was issued to
\* it, whatever workers, administrators, faults and crashes do.
THEOREM ApprovalIssuesAll == Spec => []ApprovedIffIssued
<1>1. Init => IInv
  BY IInvInit
<1>2. IInv /\ [Next]_vars => IInv'
  BY IInvStep
<1>3. IInv => ApprovedIffIssued
  BY DEF IInv
<1>4. QED
  BY <1>1, <1>2, <1>3, PTL DEF Spec

\* One order per intent, and the intent has the status of its decision.
THEOREM OneOrderPerIntent == Spec => []IntentFollowsItsOrder
<1>1. Init => IInv
  BY IInvInit
<1>2. IInv /\ [Next]_vars => IInv'
  BY IInvStep
<1>3. IInv => IntentFollowsItsOrder
  BY DEF IInv
<1>4. QED
  BY <1>1, <1>2, <1>3, PTL DEF Spec

\* No later verdict and no administrator takes an approval back.
THEOREM ApprovalStands == Spec => ApprovalIsFinal
<1>1. Init => IInv
  BY IInvInit
<1>2. IInv /\ [Next]_vars => IInv'
  BY IInvStep
<1>3. IInv /\ [Next]_vars =>
        [\A o \in Orders : decision[o] = "approved" =>
            decision'[o] = "approved" /\ bound'[o] = bound[o]]_vars
  BY IInvStep
<1>4. QED
  BY <1>1, <1>2, <1>3, PTL DEF Spec, ApprovalIsFinal

\* A worker finds an order decided and goes on only when it approves classes
\* that were not issued: AlreadyDecided leaves no other way past it.
LEMMA FinalizeOnDecided ==
    ASSUME IInv, NEW w \in Workers, FinalizeDecision(w), decision[OrderAt(w)] \in Decided
    PROVE  /\ decision[OrderAt(w)] # "approved"
           /\ decision' = [decision EXCEPT ![OrderAt(w)] = "approved"]
           /\ bound' = [bound EXCEPT ![OrderAt(w)] = work[w].intent]
           /\ work[w].intent \in ClassIntents
<1>1. PICK l \in ClassLinesAt(w) : ~IssuedTo(l, OrderAt(w))
  BY DEF FinalizeDecision, AlreadyDecided
<1>2. work[w].status = "approved" /\ work[w].intent \in ClassIntents
  BY <1>1 DEF ClassLinesAt, LinesAt
<1>3. Decide(w, "approved", LinesAt(w))
  BY <1>2 DEF FinalizeDecision
<1>4. decision[OrderAt(w)] # "approved"
  <2>1. OrderAt(w) \in Orders
    BY HandlesDelivery DEF IInv, FinalizeDecision, At
  <2>2. PICK status \in Decided, lines \in SUBSET Lines :
          MayDecide(OrderAt(w), work[w].intent, status, lines)
    BY FinalizeDecides
  <2>3. QED
    BY <2>2 DEF MayDecide
<1>5. QED
  BY <1>2, <1>3, <1>4 DEF Decide

\* How a decision changes once it is taken.
Revised(o) ==
    \/ decision'[o] = decision[o] /\ bound'[o] = bound[o]
    \/ decision[o] = "needs_review" /\ audit'[o] = decision'[o]
    \/ /\ decision[o] # "approved" /\ decision'[o] = "approved"
       /\ bound'[o] \in ClassIntents

LEMMA DecidedStep ==
    ASSUME IInv, [Next]_vars, NEW o \in Orders, decision[o] \in Decided
    PROVE  Revised(o)
<1>1. /\ decision \in [Orders -> Decided \cup {"none", "pending"}]
      /\ bound \in [Orders -> Intents \cup {NoIntent}]
      /\ audit \in [Orders -> {"none", "approved", "rejected"}]
  BY DEF IInv, TypeOK
<1>2. CASE decision' = decision /\ bound' = bound
  BY <1>2 DEF Revised
<1>3. ASSUME NEW w \in Workers, RecordPending(w)
      PROVE  Revised(o)
  <2>1. OrderAt(w) \in Orders
    BY <1>3, HandlesDelivery DEF IInv, RecordPending, At
  <2>2. decision'[o] = decision[o] /\ bound' = bound
    BY <1>1, <1>3, <2>1 DEF RecordPending, Decided
  <2>3. QED
    BY <2>2 DEF Revised
<1>4. ASSUME NEW w \in Workers, FinalizeDecision(w)
      PROVE  Revised(o)
  <2>1. CASE o = OrderAt(w)
    <3>1. /\ decision[o] # "approved" /\ decision'[o] = "approved"
          /\ bound'[o] \in ClassIntents
      BY <1>1, <1>4, <2>1, FinalizeOnDecided
    <3>2. QED
      BY <3>1 DEF Revised
  <2>2. CASE o # OrderAt(w)
    <3>1. decision'[o] = decision[o] /\ bound'[o] = bound[o]
      BY <1>1, <1>4, <2>2 DEF FinalizeDecision, Decide
    <3>2. QED
      BY <3>1 DEF Revised
  <2>3. QED
    BY <2>1, <2>2
<1>5. ASSUME NEW p \in Orders, Decline(p) \/ Approve(p)
      PROVE  Revised(o)
  <2>1. PICK i, status : Resolvable(p) /\ Resolve(p, i, status)
    BY <1>5 DEF Decline, Approve
  <2>2. CASE p = o
    <3>1. decision[o] = "needs_review" /\ audit'[o] = decision'[o]
      BY <1>1, <2>1, <2>2 DEF Resolvable, Resolve, Decided
    <3>2. QED
      BY <3>1 DEF Revised
  <2>3. CASE p # o
    <3>1. decision'[o] = decision[o] /\ bound'[o] = bound[o]
      BY <1>1, <2>1, <2>3 DEF Resolve
    <3>2. QED
      BY <3>1 DEF Revised
  <2>4. QED
    BY <2>2, <2>3
<1>6. QED
  BY <1>2, <1>3, <1>4, <1>5
     DEF Next, vars, database, Step, Throw, Receive, LeaseExpires, Claim, Acknowledge, Fail,
         FindNothing, FindApproved, Validate, FinalizeExisting, FinalizeConflict,
         ProjectProfile, ChangeEntitlement, Crash

\* A decision changes by an administrator's resolution of a review or by a
\* late approval of classes, and in no other way.
THEOREM DecisionsChangeOnTheRecord == Spec => DecisionsStand
<1>1. IInv /\ [Next]_vars =>
        [\A o \in Orders : decision[o] \in Decided => Revised(o)]_vars
  BY DecidedStep
<1>2. QED
  BY <1>1, IInvInit, IInvStep, PTL DEF Spec, DecisionsStand, Revised

\* A replay leaves what the customer dropped or transferred as it is: a
\* decision issues lines that were never issued, and nothing else writes
\* entitlements but the customer's own change.
THEOREM ChangesStand == Spec => ReplayKeepsChanges
<1>1. Init => IInv
  BY IInvInit
<1>2. IInv /\ [Next]_vars => IInv'
  BY IInvStep
<1>3. IInv /\ [Next]_vars => KeepsChanges
  <2> SUFFICES ASSUME IInv, [Next]_vars PROVE KeepsChanges
    OBVIOUS
  <2>1. CASE KeepsDecisions
    BY <2>1 DEF KeepsDecisions
  <2>2. CASE TakesDecision
    <3>1. PICK o \in Orders : \E i, status, lines : Decides(o, i, status, lines)
      BY <2>2 DEF TakesDecision
    <3>2. PICK lines :
            entitlement' = [l \in Lines |->
                              IF l \in lines /\ entitlement[l] = NotIssued
                              THEN Issued(o) ELSE entitlement[l]]
      BY <3>1 DEF Decides
    <3>3. QED
      BY <3>2 DEF KeepsChanges, NotIssued
  <2>3. QED
    BY <2>1, <2>2, EveryStep
<1>4. IInv /\ [Next]_vars =>
        [\A l \in Lines : entitlement[l].status = "changed" =>
            entitlement'[l] = entitlement[l]]_vars
  BY <1>3 DEF KeepsChanges
<1>5. QED
  BY <1>1, <1>2, <1>4, PTL DEF Spec, ReplayKeepsChanges

-----------------------------------------------------------------------------
(***************************************************************************)
(* A delivery is closed on the word of a worker that may have read the     *)
(* decision long ago.  It is right because what settles an order is never  *)
(* unsettled.                                                              *)
(***************************************************************************)
\* dec and bnd stand for the decisions and their intents before or after a step.
Settled(o, dec, bnd) ==
    \/ dec[o] \in Decided
    \/ \E p \in Orders : p # o /\ bnd[p] = IntentOf[o] /\ bnd[p] # NoIntent

Right(r, dec, bnd) ==
    LET o == OrderOf[r.delivery]
    IN /\ r.phase = "acknowledging" => Settled(o, dec, bnd)
       /\ r.phase # "idle" /\ r.seen = "approved" => dec[o] = "approved"

WorkersAreRight == \A w \in Workers : Right(work[w], decision, bound)

ClosingInv == IInv /\ WorkersAreRight /\ ClosedMeansDecided

LEMMA SettledStays ==
    ASSUME IInv, [Next]_vars
    PROVE  /\ \A o \in Orders : Settled(o, decision, bound) => Settled(o, decision', bound')
           /\ \A o \in Orders : decision[o] = "approved" => decision'[o] = "approved"
<1>1. CASE KeepsDecisions
  <2>1. bound' = bound /\ \A o \in Orders : decision[o] \in Decided => decision'[o] = decision[o]
    BY <1>1 DEF KeepsDecisions, Decided
  <2>2. QED
    BY <2>1 DEF Settled, Decided
<1>2. CASE TakesDecision
  <2>1. PICK q \in Orders : \E i, status, lines :
          Decides(q, i, status, lines) /\ MayDecide(q, i, status, lines)
    BY <1>2 DEF TakesDecision
  <2>2. PICK i, status, lines :
          Decides(q, i, status, lines) /\ MayDecide(q, i, status, lines)
    BY <2>1
  <2>3. \A o \in Orders : /\ decision'[o] = IF o = q THEN status ELSE decision[o]
                          /\ bound'[o] = IF o = q THEN i ELSE bound[o]
    BY <2>2 DEF Decides, IInv, TypeOK
  <2>4. \A p \in Orders : bound[p] # NoIntent => bound'[p] = bound[p]
    BY <2>2, <2>3 DEF MayDecide, IInv, BoundWhenDecided
  <2>5. status \in Decided /\ decision[q] # "approved"
    BY <2>2 DEF MayDecide
  <2>6. QED
    BY <2>3, <2>4, <2>5 DEF Settled
<1>3. QED
  BY <1>1, <1>2, EveryStep

\* A record that was right is right after any step, and so is one that goes
\* on to another phase, which must be backed when it is "acknowledging".
LEMMA RightStays ==
    ASSUME IInv, [Next]_vars, NEW r \in WorkRecords, Knows(r), Right(r, decision, bound)
    PROVE  /\ Right(r, decision', bound')
           /\ \A q \in WorkRecords :
                 /\ r.phase # "idle" /\ q.delivery = r.delivery /\ q.seen = r.seen
                 /\ q.phase = "acknowledging" =>
                       Settled(OrderOf[r.delivery], decision', bound')
                 => Right(q, decision', bound')
<1>1. r.phase # "idle" => OrderOf[r.delivery] \in Orders
  BY ShapeOfOrders DEF Knows
<1>2. r.phase # "idle" /\ r.seen = "approved" => decision'[OrderOf[r.delivery]] = "approved"
  BY <1>1, SettledStays DEF Right
<1>3. r.phase = "acknowledging" => Settled(OrderOf[r.delivery], decision', bound')
  BY <1>1, SettledStays DEF Right
<1>4. QED
  BY <1>2, <1>3 DEF Right

\* What a step does to the record of its worker.
LEMMA StepIsRight ==
    ASSUME IInv, [Next]_vars, WorkersAreRight, NEW w \in Workers,
           NEW q \in WorkRecords, Right(q, decision', bound'), Holds(w, q)
    PROVE  WorkersAreRight'
<1>1. \A v \in Workers : work'[v] = IF v = w THEN q ELSE work[v]
  BY DEF Holds, IInv, TypeOK
<1>2. \A v \in Workers : Right(work[v], decision', bound')
  <2> SUFFICES ASSUME NEW v \in Workers PROVE Right(work[v], decision', bound')
    OBVIOUS
  <2>1. work[v] \in WorkRecords /\ Knows(work[v]) /\ Right(work[v], decision, bound)
    BY DEF IInv, TypeOK, WorkersKnowTheirOrder, WorkersAreRight
  <2>2. QED
    BY <2>1, RightStays
<1> HIDE DEF Right
<1>3. QED
  BY <1>1, <1>2 DEF WorkersAreRight

LEMMA RestIsRight ==
    ASSUME IInv, [Next]_vars, WorkersAreRight, NEW w \in Workers, Rest(w)
    PROVE  WorkersAreRight'
<1>1. Right(Resting, decision', bound')
  BY DEF Right, Resting
<1>2. QED
  BY <1>1, StepIsRight, RestingIsRecord DEF Rest

LEMMA GoIsRight ==
    ASSUME IInv, [Next]_vars, WorkersAreRight, NEW w \in Workers, ~At(w, "idle"),
           NEW p \in Phases, Go(w, p),
           p = "acknowledging" => Settled(OrderAt(w), decision', bound')
    PROVE  WorkersAreRight'
<1>1. PICK q : q = [work[w] EXCEPT !.phase = p]
  OBVIOUS
<1>2. work[w] \in WorkRecords /\ Knows(work[w]) /\ Right(work[w], decision, bound)
  BY DEF IInv, TypeOK, WorkersKnowTheirOrder, WorkersAreRight
<1>3. /\ q \in WorkRecords /\ q.phase = p
      /\ q.delivery = work[w].delivery /\ q.seen = work[w].seen
  BY <1>1, <1>2 DEF WorkRecords
<1>4. Right(q, decision', bound')
  BY <1>2, <1>3, RightStays DEF At, OrderAt, Handles
<1>5. QED
  BY <1>1, <1>3, <1>4, StepIsRight DEF Go

LEMMA ReadsAreRight ==
    ASSUME ClosingInv, [Next]_vars, NEW w \in Workers,
           FindNothing(w) \/ FindApproved(w) \/ Validate(w) \/ RecordPending(w)
    PROVE  WorkersAreRight'
<1>1. /\ work[w] \in WorkRecords /\ Knows(work[w]) /\ Right(work[w], decision, bound)
      /\ ~At(w, "idle") /\ OrderAt(w) \in Orders
  BY HandlesDelivery
     DEF ClosingInv, IInv, TypeOK, WorkersKnowTheirOrder, WorkersAreRight, At,
         FindNothing, FindApproved, Validate, RecordPending
<1>2. ASSUME NEW p \in Phases \ {"acknowledging"}, NEW st \in Decided,
             NEW i \in Intents \cup {NoIntent},
             NEW q, q = [work[w] EXCEPT !.phase = p, !.status = st, !.intent = i],
             Holds(w, q)
      PROVE  WorkersAreRight'
  <2>1. /\ q \in WorkRecords /\ q.phase = p
        /\ q.delivery = work[w].delivery /\ q.seen = work[w].seen
    BY <1>1, <1>2 DEF WorkRecords
  <2>2. Right(q, decision', bound')
    BY <1>1, <2>1, RightStays DEF ClosingInv, At
  <2>3. QED
    BY <1>2, <2>1, <2>2, StepIsRight DEF ClosingInv
<1>3. CASE FindNothing(w)
  <2>1. "finalizing" \in Phases \ {"acknowledging"} /\ "needs_review" \in Decided
    BY DEF Phases, Decided
  <2>2. QED
    BY <1>2, <1>3, <2>1 DEF FindNothing
<1>4. CASE Validate(w)
  <2>1. "finalizing" \in Phases \ {"acknowledging"}
    BY DEF Phases
  <2>2. IntentOf[OrderAt(w)] \in Intents \cup {NoIntent}
    BY <1>1, ShapeOfOrders
  <2>3. QED
    BY <1>2, <1>4, <2>1, <2>2 DEF Validate
<1>5. CASE FindApproved(w)
  <2>1. IntentOf[OrderAt(w)] \in Intents \cup {NoIntent}
    BY <1>1, ShapeOfOrders
  <2>2. CASE Go(w, "acknowledging")
    <3>1. decision[OrderAt(w)] = "approved"
      BY <1>1, <1>5 DEF FindApproved, Right, At, OrderAt, Handles
    <3>2. Settled(OrderAt(w), decision', bound')
      BY <1>1, <3>1, SettledStays DEF ClosingInv, Settled, Decided
    <3>3. "acknowledging" \in Phases
      BY DEF Phases
    <3>4. QED
      BY <1>1, <2>2, <3>2, <3>3, GoIsRight DEF ClosingInv
  <2>3. CASE Holds(w, [work[w] EXCEPT !.phase = "projecting", !.intent = IntentOf[OrderAt(w)]])
    <3>1. PICK q : q = [work[w] EXCEPT !.phase = "projecting", !.intent = IntentOf[OrderAt(w)]]
      OBVIOUS
    <3>2. "projecting" \in Phases
      BY DEF Phases
    <3>3. /\ q \in WorkRecords /\ q.phase = "projecting"
          /\ q.delivery = work[w].delivery /\ q.seen = work[w].seen
      BY <1>1, <2>1, <3>1, <3>2 DEF WorkRecords
    <3>4. Right(q, decision', bound')
      BY <1>1, <3>3, RightStays DEF ClosingInv, At
    <3>5. QED
      BY <2>3, <3>1, <3>3, <3>4, StepIsRight DEF ClosingInv
  <2>4. QED
    BY <1>5, <2>2, <2>3 DEF FindApproved
<1>6. CASE RecordPending(w)
  <2> DEFINE o == OrderAt(w)
             status == IF decision[o] = "none" THEN "pending" ELSE decision[o]
  <2>1. decision'[o] = status /\ status \in Decided \cup {"pending"}
    BY <1>1, <1>6 DEF RecordPending, ClosingInv, IInv, TypeOK
  <2>2. CASE status \in {"pending", "approved"}
    <3>1. PICK q : q = [work[w] EXCEPT !.phase = "reading", !.seen = status]
      OBVIOUS
    <3>2. "reading" \in Phases
      BY DEF Phases
    <3>3. /\ q \in WorkRecords /\ q.phase = "reading"
          /\ q.delivery = work[w].delivery /\ q.seen = status
      BY <1>1, <2>2, <3>1, <3>2 DEF WorkRecords
    <3>4. Right(q, decision', bound')
      BY <2>1, <3>3 DEF Right, OrderAt, Handles
    <3>5. Holds(w, q)
      BY <1>6, <2>2, <3>1 DEF RecordPending
    <3>6. QED
      BY <3>3, <3>4, <3>5, StepIsRight DEF ClosingInv
  <2>3. CASE status \notin {"pending", "approved"}
    <3>1. Go(w, "acknowledging")
      BY <1>6, <2>3 DEF RecordPending
    <3>2. Settled(o, decision', bound')
      BY <2>1, <2>3 DEF Settled
    <3>3. "acknowledging" \in Phases
      BY DEF Phases
    <3>4. QED
      BY <1>1, <3>1, <3>2, <3>3, GoIsRight DEF ClosingInv
  <2>4. QED
    BY <2>2, <2>3
<1>7. QED
  BY <1>3, <1>4, <1>5, <1>6

\* What a step that does not close a delivery leaves behind.
ClosesNothing ==
    \A d \in Deliveries : delivery'[d] = "processed" => delivery[d] = "processed"

LEMMA ClosedStaysRight ==
    ASSUME ClosingInv, [Next]_vars, ClosesNothing
    PROVE  ClosedMeansDecided'
<1>1. ASSUME NEW d \in Deliveries, delivery'[d] = "processed"
      PROVE  Settled(OrderOf[d], decision', bound')
  <2>1. OrderOf[d] \in Orders
    BY ShapeOfOrders
  <2>2. delivery[d] = "processed"
    BY <1>1 DEF ClosesNothing
  <2>3. Settled(OrderOf[d], decision, bound)
    BY <2>2 DEF ClosingInv, ClosedMeansDecided, Settled
  <2>4. QED
    BY <2>1, <2>3, SettledStays DEF ClosingInv
<1>2. QED
  BY <1>1 DEF ClosedMeansDecided, Settled

LEMMA ClosingIsRight ==
    ASSUME ClosingInv, [Next]_vars, NEW e \in Deliveries,
           delivery' = [delivery EXCEPT ![e] = "processed"],
           Settled(OrderOf[e], decision', bound')
    PROVE  ClosedMeansDecided'
<1>1. ASSUME NEW d \in Deliveries, delivery'[d] = "processed"
      PROVE  Settled(OrderOf[d], decision', bound')
  <2>1. CASE d = e
    BY <2>1
  <2>2. CASE d # e
    <3>1. OrderOf[d] \in Orders
      BY ShapeOfOrders
    <3>2. delivery[d] = "processed"
      BY <1>1, <2>2 DEF ClosingInv, IInv, TypeOK
    <3>3. Settled(OrderOf[d], decision, bound)
      BY <3>2 DEF ClosingInv, ClosedMeansDecided, Settled
    <3>4. QED
      BY <3>1, <3>3, SettledStays DEF ClosingInv
  <2>3. QED
    BY <2>1, <2>2
<1>2. QED
  BY <1>1 DEF ClosedMeansDecided, Settled

LEMMA AnswerIsRight ==
    ASSUME ClosingInv, [Next]_vars, NEW w \in Workers,
           At(w, "finalizing"), Answer(w), Settled(OrderAt(w), decision', bound')
    PROVE  WorkersAreRight' /\ ClosedMeansDecided'
<1>1. ~At(w, "idle") /\ Handles(w) \in Deliveries
  BY HandlesDelivery DEF ClosingInv, IInv, At
<1>2. "projecting" \in Phases /\ "projecting" # "acknowledging"
  BY DEF Phases
<1>3. WorkersAreRight'
  BY <1>1, <1>2, GoIsRight, RestIsRight DEF Answer, ClosingInv
<1>4. ClosedMeansDecided'
  BY <1>1, ClosingIsRight DEF Answer, OrderAt
<1>5. QED
  BY <1>3, <1>4

LEMMA FinalStepsAreRight ==
    ASSUME ClosingInv, [Next]_vars, NEW w \in Workers,
           \/ FinalizeExisting(w) \/ FinalizeDecision(w) \/ FinalizeConflict(w)
           \/ ProjectProfile(w) \/ Acknowledge(w) \/ Fail(w) \/ Throw(w)
    PROVE  WorkersAreRight' /\ ClosedMeansDecided'
<1>1. /\ work[w] \in WorkRecords /\ Knows(work[w]) /\ Right(work[w], decision, bound)
      /\ ~At(w, "idle") /\ Handles(w) \in Deliveries /\ OrderAt(w) \in Orders
  BY HandlesDelivery
     DEF ClosingInv, IInv, TypeOK, WorkersKnowTheirOrder, WorkersAreRight, At,
         FinalizeExisting, FinalizeDecision, FinalizeConflict, ProjectProfile,
         Acknowledge, Fail, Throw
<1>2. CASE FinalizeExisting(w)
  <2>1. Settled(OrderAt(w), decision, bound)
    <3>1. CASE AlreadyDecided(w)
      BY <3>1 DEF AlreadyDecided, Settled
    <3>2. CASE HeldByAnotherOrder(w)
      <4>1. work[w].intent # NoIntent
        BY <3>2 DEF HeldByAnotherOrder
      <4>2. work[w].intent = IntentOf[OrderAt(w)]
        BY <1>1, <1>2, <4>1 DEF Knows, At, FinalizeExisting, OrderAt, Handles
      <4>3. QED
        BY <3>2, <4>2 DEF HeldByAnotherOrder, Settled
    <3>3. QED
      BY <1>2, <3>1, <3>2 DEF FinalizeExisting
  <2>2. Settled(OrderAt(w), decision', bound')
    BY <1>1, <2>1, SettledStays DEF ClosingInv
  <2>3. QED
    BY <1>2, <2>2, AnswerIsRight DEF FinalizeExisting
<1>3. CASE FinalizeDecision(w)
  <2>1. PICK status \in Decided, lines \in SUBSET Lines :
          Decides(OrderAt(w), work[w].intent, status, lines)
    BY <1>3, FinalizeDecides DEF ClosingInv
  <2>2. decision'[OrderAt(w)] \in Decided
    BY <1>1, <2>1 DEF Decides, ClosingInv, IInv, TypeOK
  <2>3. Settled(OrderAt(w), decision', bound')
    BY <2>2 DEF Settled
  <2>4. At(w, "finalizing") /\ Answer(w)
    BY <1>3 DEF FinalizeDecision, Decide
  <2>5. QED
    BY <2>3, <2>4, AnswerIsRight
<1>4. CASE FinalizeConflict(w)
  <2>1. "failing" \in Phases /\ "failing" # "acknowledging"
    BY DEF Phases
  <2>2. ClosesNothing
    BY <1>4 DEF FinalizeConflict, database, ClosesNothing
  <2>3. QED
    BY <1>1, <1>4, <2>1, <2>2, GoIsRight, ClosedStaysRight DEF FinalizeConflict, ClosingInv
<1>5. CASE ProjectProfile(w)
  <2>1. "acknowledging" \in Phases
    BY DEF Phases
  <2>2. work[w].seen = "approved" => Settled(OrderAt(w), decision', bound')
    <3>1. work[w].seen = "approved" => Settled(OrderAt(w), decision, bound)
      BY <1>1 DEF Right, At, OrderAt, Handles, Settled, Decided
    <3>2. QED
      BY <1>1, <3>1, SettledStays DEF ClosingInv
  <2>3. ClosesNothing
    BY <1>5 DEF ProjectProfile, ClosesNothing
  <2>4. WorkersAreRight'
    BY <1>1, <1>5, <2>1, <2>2, GoIsRight, RestIsRight DEF ProjectProfile, ClosingInv
  <2>5. QED
    BY <2>3, <2>4, ClosedStaysRight
<1>6. CASE Acknowledge(w)
  <2>1. Settled(OrderAt(w), decision, bound)
    BY <1>1, <1>6 DEF Acknowledge, At, Right, OrderAt, Handles
  <2>2. Settled(OrderAt(w), decision', bound')
    BY <1>1, <2>1, SettledStays DEF ClosingInv
  <2>3. ClosedMeansDecided'
    BY <1>1, <1>6, <2>2, ClosingIsRight DEF Acknowledge, OrderAt
  <2>4. WorkersAreRight'
    BY <1>6, RestIsRight DEF Acknowledge, ClosingInv
  <2>5. QED
    BY <2>3, <2>4
<1>7. CASE Fail(w)
  <2>1. ClosesNothing
    BY <1>1, <1>7 DEF Fail, ClosesNothing, ClosingInv, IInv, TypeOK
  <2>2. QED
    BY <1>7, <2>1, RestIsRight, ClosedStaysRight DEF Fail, ClosingInv
<1>8. CASE Throw(w)
  <2>1. "failing" \in Phases /\ "failing" # "acknowledging"
    BY DEF Phases
  <2>2. ClosesNothing
    BY <1>8 DEF Throw, database, ClosesNothing
  <2>3. WorkersAreRight'
    BY <1>1, <1>8, <2>1, GoIsRight, RestIsRight DEF Throw, ClosingInv
  <2>4. QED
    BY <2>2, <2>3, ClosedStaysRight
<1>9. QED
  BY <1>2, <1>3, <1>4, <1>5, <1>6, <1>7, <1>8

\* Steps that leave every worker where it is.
LEMMA StillIsRight ==
    ASSUME ClosingInv, [Next]_vars, work' = work
    PROVE  WorkersAreRight'
<1> SUFFICES ASSUME NEW w \in Workers PROVE Right(work[w], decision', bound')
  BY DEF WorkersAreRight
<1>1. work[w] \in WorkRecords /\ Knows(work[w]) /\ Right(work[w], decision, bound)
  BY DEF ClosingInv, IInv, TypeOK, WorkersKnowTheirOrder, WorkersAreRight
<1>2. QED
  BY <1>1, RightStays DEF ClosingInv

LEMMA ClosingStep == ClosingInv /\ [Next]_vars => ClosingInv'
<1> SUFFICES ASSUME ClosingInv, [Next]_vars PROVE WorkersAreRight' /\ ClosedMeansDecided'
  BY IInvStep DEF ClosingInv
<1>1. CASE UNCHANGED vars
  <2>1. work' = work /\ ClosesNothing
    BY <1>1 DEF vars, database, ClosesNothing
  <2>2. QED
    BY <2>1, StillIsRight, ClosedStaysRight
<1>2. ASSUME NEW d \in Deliveries, Receive(d) \/ LeaseExpires(d)
      PROVE  WorkersAreRight' /\ ClosedMeansDecided'
  <2>1. work' = work
    BY <1>2 DEF Receive, LeaseExpires
  <2>2. ClosesNothing
    BY <1>2 DEF Receive, LeaseExpires, ClosesNothing, ClosingInv, IInv, TypeOK
  <2>3. QED
    BY <2>1, <2>2, StillIsRight, ClosedStaysRight
<1>3. ASSUME NEW w \in Workers, NEW d \in Deliveries, Claim(w, d)
      PROVE  WorkersAreRight' /\ ClosedMeansDecided'
  <2>1. PICK q : q = [Resting EXCEPT !.phase = "claimed", !.delivery = d,
                                     !.retry = attempted[d]]
    OBVIOUS
  <2>2. attempted[d] \in BOOLEAN /\ "claimed" \in Phases
    BY DEF ClosingInv, IInv, TypeOK, Phases
  <2>3. q \in WorkRecords /\ q.phase = "claimed" /\ q.seen = "pending"
    BY <2>1, <2>2, RestingIsRecord DEF WorkRecords, Resting
  <2>4. Right(q, decision', bound')
    BY <2>3 DEF Right
  <2>5. Holds(w, q)
    BY <1>3, <2>1 DEF Claim
  <2>6. WorkersAreRight'
    BY <2>3, <2>4, <2>5, StepIsRight DEF ClosingInv
  <2>7. ClosesNothing
    BY <1>3 DEF Claim, ClosesNothing, ClosingInv, IInv, TypeOK
  <2>8. QED
    BY <2>6, <2>7, ClosedStaysRight
<1>4. ASSUME NEW w \in Workers,
             FindNothing(w) \/ FindApproved(w) \/ Validate(w) \/ RecordPending(w)
      PROVE  WorkersAreRight' /\ ClosedMeansDecided'
  <2>1. ClosesNothing
    BY <1>4 DEF FindNothing, FindApproved, Validate, RecordPending, database, ClosesNothing
  <2>2. QED
    BY <1>4, <2>1, ReadsAreRight, ClosedStaysRight
<1>5. ASSUME NEW w \in Workers,
             \/ FinalizeExisting(w) \/ FinalizeDecision(w) \/ FinalizeConflict(w)
             \/ ProjectProfile(w) \/ Acknowledge(w) \/ Fail(w) \/ Throw(w)
      PROVE  WorkersAreRight' /\ ClosedMeansDecided'
  BY <1>5, FinalStepsAreRight
<1>6. ASSUME NEW o \in Orders, Decline(o) \/ Approve(o)
      PROVE  WorkersAreRight' /\ ClosedMeansDecided'
  <2>1. work' = work /\ ClosesNothing
    BY <1>6 DEF Decline, Approve, Resolve, ClosesNothing
  <2>2. QED
    BY <2>1, StillIsRight, ClosedStaysRight
<1>7. ASSUME NEW l \in Lines, ChangeEntitlement(l)
      PROVE  WorkersAreRight' /\ ClosedMeansDecided'
  <2>1. work' = work /\ ClosesNothing
    BY <1>7 DEF ChangeEntitlement, ClosesNothing
  <2>2. QED
    BY <2>1, StillIsRight, ClosedStaysRight
<1>8. CASE Crash
  <2>1. WorkersAreRight'
    BY <1>8 DEF Crash, WorkersAreRight, Right, Resting
  <2>2. ClosesNothing
    BY <1>8 DEF Crash, database, ClosesNothing
  <2>3. QED
    BY <2>1, <2>2, ClosedStaysRight
<1>9. QED
  BY <1>1, <1>2, <1>3, <1>4, <1>5, <1>6, <1>7, <1>8 DEF Next, Step

\* A delivery is closed only when its order is decided or another order holds
\* its intent, however long ago the worker that closes it read anything.
THEOREM NothingIsClosedUndecided == Spec => []ClosedMeansDecided
<1>1. Init => ClosingInv
  <2> SUFFICES ASSUME Init PROVE ClosingInv
    OBVIOUS
  <2>1. WorkersAreRight
    BY DEF Init, WorkersAreRight, Right, Resting
  <2>2. ClosedMeansDecided
    BY DEF Init, ClosedMeansDecided
  <2>3. QED
    BY <2>1, <2>2, IInvInit DEF ClosingInv
<1>2. ClosingInv /\ [Next]_vars => ClosingInv'
  BY ClosingStep
<1>3. ClosingInv => ClosedMeansDecided
  BY DEF ClosingInv
<1>4. QED
  BY <1>1, <1>2, <1>3, PTL DEF Spec

-----------------------------------------------------------------------------
(***************************************************************************)
(* OrderProjection implements PurchaseDecision.                            *)
(***************************************************************************)
HoldingMatches ==
    \A o \in Orders :
        HandedOver(o) = IF decision[o] = "approved" THEN "everything" ELSE "nothing"

LEMMA HandedOverByDecision == IInv => HoldingMatches
<1> SUFFICES ASSUME IInv, NEW o \in Orders
             PROVE  HandedOver(o) = IF decision[o] = "approved" THEN "everything" ELSE "nothing"
  BY DEF HoldingMatches
<1> DEFINE issued == {l \in Lines : IssuedTo(l, o)}
<1>1. CASE decision[o] = "approved"
  <2>1. bound[o] # NoIntent /\ \A l \in LinesOf[bound[o]] : IssuedTo(l, o)
    BY <1>1 DEF IInv, ApprovedIffIssued
  <2>2. bound[o] \in Intents /\ LinesOf[bound[o]] \subseteq Lines /\ LinesOf[bound[o]] # {}
    BY <2>1, ShapeOfIntents DEF IInv, TypeOK
  <2>3. \A l \in issued : l \in LinesOf[bound[o]]
    BY DEF IInv, ApprovedIffIssued
  <2>4. issued = LinesOf[bound[o]]
    BY <2>1, <2>2, <2>3
  <2>5. QED
    BY <1>1, <2>1, <2>2, <2>4 DEF HandedOver
<1>2. CASE decision[o] # "approved"
  <2>1. issued = {}
    BY <1>2 DEF IInv, ApprovedIffIssued
  <2>2. QED
    BY <1>2, <2>1 DEF HandedOver
<1>3. QED
  BY <1>1, <1>2

LEMMA HandedOverAfter == IInv' => HoldingMatches'
BY HandedOverByDecision, PTL

\* The mapped variables of the promise, in a state and after a step.
Verdict == [o \in Orders |-> IF decision[o] \in Decided THEN decision[o] ELSE "pending"]
Holding == [o \in Orders |-> HandedOver(o)]

LEMMA PromiseInit == Init => Promise!Init
<1> SUFFICES ASSUME Init PROVE Promise!Init
  OBVIOUS
<1>1. IInv
  BY IInvInit
<1>2. \A o \in Orders : HandedOver(o) = "nothing"
  BY <1>1, HandedOverByDecision DEF Init, HoldingMatches
<1>3. QED
  BY <1>2 DEF Init, Promise!Init, Decided

LEMMA PromiseStep == IInv /\ [Next]_vars => [Promise!Next]_(Promise!vars)
<1> SUFFICES ASSUME IInv, [Next]_vars PROVE [Promise!Next]_(Promise!vars)
  OBVIOUS
<1>1. IInv'
  BY IInvStep
<1>2. \A o \in Orders :
        /\ HandedOver(o) = IF decision[o] = "approved" THEN "everything" ELSE "nothing"
        /\ HandedOver(o)' = IF decision'[o] = "approved" THEN "everything" ELSE "nothing"
  BY <1>1, HandedOverByDecision, HandedOverAfter DEF HoldingMatches
<1>3. CASE KeepsDecisions
  <2>1. \A o \in Orders :
          /\ (IF decision'[o] \in Decided THEN decision'[o] ELSE "pending")
               = (IF decision[o] \in Decided THEN decision[o] ELSE "pending")
          /\ decision'[o] = "approved" <=> decision[o] = "approved"
    BY <1>3 DEF KeepsDecisions, Decided
  <2>2. Verdict' = Verdict
    BY <2>1 DEF Verdict
  <2>3. Holding' = Holding
    BY <1>2, <2>1 DEF Holding
  <2>4. bound' = bound
    BY <1>3 DEF KeepsDecisions
  <2>5. QED
    BY <2>2, <2>3, <2>4 DEF Promise!vars, Verdict, Holding
<1>4. CASE TakesDecision
  <2>1. PICK o \in Orders : \E i, status, lines :
          Decides(o, i, status, lines) /\ MayDecide(o, i, status, lines)
    BY <1>4 DEF TakesDecision
  <2>2. PICK i, status, lines :
          Decides(o, i, status, lines) /\ MayDecide(o, i, status, lines)
    BY <2>1
  <2>3. /\ status \in Decided /\ i \in Intents \cup {NoIntent}
        /\ decision[o] # "approved"
        /\ i = NoIntent => bound[o] = NoIntent /\ status # "approved"
        /\ i # NoIntent => \A p \in Orders \ {o} : bound[p] # i
        /\ i # NoIntent => bound[o] \in {NoIntent, i}
    BY <2>2 DEF MayDecide, IInv, BoundWhenDecided
  <2>4. /\ \A p \in Orders : decision'[p] = IF p = o THEN status ELSE decision[p]
        /\ bound' = [bound EXCEPT ![o] = i]
    BY <2>2 DEF Decides, IInv, TypeOK
  <2>5. Verdict' = [Verdict EXCEPT ![o] = status]
    BY <2>3, <2>4 DEF Verdict
  <2>6. Holding' = [Holding EXCEPT ![o] = IF status = "approved" THEN "everything" ELSE "nothing"]
    BY <1>2, <2>4 DEF Holding
  <2>7. Verdict[o] # "approved"
    BY <2>3 DEF Verdict
  <2>8. i \in Intents \/ i = NoIntent
    BY <2>3
  <2>9. Promise!NamesNothing(o, i, status) \/ Promise!NamesItsOwn(o, i)
    BY <2>3 DEF Promise!NamesNothing, Promise!NamesItsOwn
  <2>10. Promise!Decide(o, i, status)
    BY <2>4, <2>5, <2>6, <2>7, <2>9 DEF Promise!Decide, Verdict, Holding
  <2>11. status \in Promise!Verdicts
    BY <2>3 DEF Promise!Verdicts, Decided
  <2>12. QED
    BY <2>3, <2>10, <2>11 DEF Promise!Next
<1>5. QED
  BY <1>3, <1>4, EveryStep

\* Seen from outside, orders are decided in single steps: an approval hands
\* over the whole purchase at once, is final, and shares its purchase with no
\* other order.
THEOREM ProjectionKeepsItsPromise == Spec => ImplementsPurchaseDecision
<1>1. Init => IInv /\ Promise!Init
  BY IInvInit, PromiseInit
<1>2. IInv /\ [Next]_vars => IInv'
  BY IInvStep
<1>3. IInv /\ [Next]_vars => [Promise!Next]_(Promise!vars)
  BY PromiseStep
<1>4. QED
  BY <1>1, <1>2, <1>3, PTL DEF Spec, ImplementsPurchaseDecision, Promise!Spec
-----------------------------------------------------------------------------
(***************************************************************************)
(* The rows of the deliveries live the life of DeliveryRow.  Closing one   *)
(* is not guarded by its status: the proof needs to know that a worker     *)
(* works on a delivery it has claimed, whatever became of the lease.       *)
(***************************************************************************)
OnceClaimed == {"processing", "failed", "processed"}

WorkersClaimed ==
    \A w \in Workers : ~At(w, "idle") => delivery[Handles(w)] \in OnceClaimed

\* What becomes of worker w when another steps, or itself, without a claim.
StaysOnDelivery(w) ==
    At(w, "idle")' \/ (~At(w, "idle") /\ Handles(w)' = Handles(w))

LEMMA HoldingStays ==
    ASSUME work \in [Workers -> WorkRecords], NEW v \in Workers, NEW r, Holds(v, r),
           r.phase = "idle" \/ (~At(v, "idle") /\ r.delivery = Handles(v))
    PROVE  \A w \in Workers : StaysOnDelivery(w)
<1>1. \A w \in Workers : work'[w] = IF w = v THEN r ELSE work[w]
  BY DEF Holds
<1>2. QED
  BY <1>1 DEF StaysOnDelivery, At, Handles

LEMMA GoStays ==
    ASSUME work \in [Workers -> WorkRecords], NEW v \in Workers, ~At(v, "idle"),
           NEW p \in Phases, Go(v, p)
    PROVE  \A w \in Workers : StaysOnDelivery(w)
<1> DEFINE r == [work[v] EXCEPT !.phase = p]
<1>1. r.delivery = Handles(v)
  BY PhaseUpdate DEF Handles
<1>2. Holds(v, r)
  BY DEF Go
<1> HIDE DEF r
<1>3. QED
  BY <1>1, <1>2, HoldingStays

LEMMA RestStays ==
    ASSUME work \in [Workers -> WorkRecords], NEW v \in Workers, Rest(v)
    PROVE  \A w \in Workers : StaysOnDelivery(w)
BY HoldingStays, RestingIsRecord DEF Rest

LEMMA StepsStay ==
    ASSUME IInv, [Next]_vars, \A w \in Workers, d \in Deliveries : ~Claim(w, d)
    PROVE  \A w \in Workers : StaysOnDelivery(w)
<1>1. work \in [Workers -> WorkRecords]
  BY DEF IInv, TypeOK
<1>2. CASE work' = work
  BY <1>2 DEF StaysOnDelivery, At, Handles
<1>3. {"reading", "projecting", "acknowledging", "failing"} \subseteq Phases
  BY DEF Phases
<1>4. ASSUME NEW v \in Workers, Step(v) \/ Throw(v)
      PROVE  \A w \in Workers : StaysOnDelivery(w)
  <2>0. ~At(v, "idle") /\ work[v] \in WorkRecords
    BY <1>1, <1>4 DEF Step, Throw, At, RecordPending, FindNothing, FindApproved, Validate,
              FinalizeExisting, FinalizeConflict, FinalizeDecision, ProjectProfile,
              Acknowledge, Fail
  <2>1. ASSUME NEW r, Holds(v, r), r.delivery = Handles(v)
        PROVE  \A w \in Workers : StaysOnDelivery(w)
    BY <1>1, <2>0, <2>1, HoldingStays
  <2>2. CASE RecordPending(v)
    <3>1. PICK status : \/ Holds(v, [work[v] EXCEPT !.phase = "reading", !.seen = status])
                        \/ Go(v, "acknowledging")
      BY <2>2 DEF RecordPending
    <3>2. [work[v] EXCEPT !.phase = "reading", !.seen = status].delivery = Handles(v)
      BY <2>0 DEF WorkRecords, Handles
    <3>3. QED
      BY <1>1, <1>3, <2>0, <2>1, <3>1, <3>2, GoStays
  <2>3. CASE FindNothing(v)
    <3>1. [work[v] EXCEPT !.phase = "finalizing", !.status = "needs_review",
                          !.intent = NoIntent].delivery = Handles(v)
      BY <2>0 DEF WorkRecords, Handles
    <3>2. QED
      BY <2>1, <2>3, <3>1 DEF FindNothing
  <2>4. CASE FindApproved(v)
    <3>1. [work[v] EXCEPT !.phase = "projecting",
                          !.intent = IntentOf[OrderAt(v)]].delivery = Handles(v)
      BY <2>0 DEF WorkRecords, Handles
    <3>2. QED
      BY <1>1, <1>3, <2>0, <2>1, <2>4, <3>1, GoStays DEF FindApproved
  <2>5. CASE Validate(v)
    <3>1. PICK verdict \in Decided :
            Holds(v, [work[v] EXCEPT !.phase = "finalizing", !.status = verdict,
                                     !.intent = IntentOf[OrderAt(v)]])
      BY <2>5 DEF Validate
    <3>2. [work[v] EXCEPT !.phase = "finalizing", !.status = verdict,
                          !.intent = IntentOf[OrderAt(v)]].delivery = Handles(v)
      BY <2>0 DEF WorkRecords, Handles
    <3>3. QED
      BY <2>1, <3>1, <3>2
  <2>6. CASE FinalizeExisting(v) \/ FinalizeDecision(v)
    BY <1>1, <1>3, <2>0, <2>6, GoStays, RestStays
       DEF FinalizeExisting, FinalizeDecision, Decide, Answer
  <2>7. CASE FinalizeConflict(v) \/ ProjectProfile(v)
    BY <1>1, <1>3, <2>0, <2>7, GoStays, RestStays DEF FinalizeConflict, ProjectProfile
  <2>8. CASE Acknowledge(v) \/ Fail(v) \/ Throw(v)
    BY <1>1, <1>3, <2>0, <2>8, GoStays, RestStays DEF Acknowledge, Fail, Throw
  <2>9. QED
    BY <1>4, <2>2, <2>3, <2>4, <2>5, <2>6, <2>7, <2>8 DEF Step
<1>5. CASE Crash
  BY <1>5, RestingIsRecord DEF Crash, StaysOnDelivery, At
<1>6. QED
  BY <1>2, <1>4, <1>5
     DEF Next, vars, Receive, LeaseExpires, Decline, Approve, Resolve, ChangeEntitlement

\* A claim of another delivery leaves w where it is; its own one makes the
\* row processing.
LEMMA ClaimsProcess ==
    ASSUME IInv, NEW v \in Workers, NEW d \in Deliveries, Claim(v, d), NEW w \in Workers
    PROVE  \/ StaysOnDelivery(w)
           \/ Handles(w)' = d /\ delivery'[d] = "processing"
<1> DEFINE r == [Resting EXCEPT !.phase = "claimed", !.delivery = d, !.retry = attempted[d]]
<1>1. delivery \in [Deliveries -> {"absent", "received", "processing", "failed", "processed"}]
  BY DEF IInv, TypeOK
<1>2. work'[w] = IF w = v THEN r ELSE work[w]
  BY DEF Claim, Holds, IInv, TypeOK
<1>3. r.delivery = d
  BY DEF Resting
<1> HIDE DEF r
<1>4. QED
  BY <1>1, <1>2, <1>3 DEF Claim, StaysOnDelivery, At, Handles

LEMMA RowOfClosing ==
    ASSUME IInv, NEW d \in Deliveries, delivery[d] \in OnceClaimed,
           delivery' = [delivery EXCEPT ![d] = "processed"]
    PROVE  [Row!Next]_RowStatus
<1>1. RowStatus' = [RowStatus EXCEPT ![d] = "processed"]
  BY DEF RowStatus, IInv, TypeOK
<1>2. RowStatus \in [Deliveries -> {"none", "received", "processing", "failed", "processed"}]
  BY DEF RowStatus, IInv, TypeOK
<1>3. CASE delivery[d] = "processed"
  BY <1>1, <1>2, <1>3 DEF RowStatus
<1>4. CASE delivery[d] \in {"processing", "failed"}
  <2>1. RowStatus[d] \in {"processing", "failed"}
    BY <1>4 DEF RowStatus
  <2>2. QED
    BY <1>1, <2>1 DEF Row!Next, Row!Close
<1>5. QED
  BY <1>3, <1>4 DEF OnceClaimed

LEMMA RowOfRelease ==
    ASSUME IInv, NEW d \in Deliveries, delivery[d] = "processing",
           delivery' = [delivery EXCEPT ![d] = "failed"]
    PROVE  Row!Next
<1>1. RowStatus' = [e \in Deliveries |-> IF e \in {d} THEN "failed" ELSE RowStatus[e]]
  BY DEF RowStatus, IInv, TypeOK
<1>2. Row!Release({d}) /\ {d} \in SUBSET Deliveries
  BY <1>1 DEF Row!Release, RowStatus
<1>3. QED
  BY <1>2 DEF Row!Next

LEMMA RowStep ==
    ASSUME IInv, WorkersClaimed, [Next]_vars
    PROVE  [Row!Next]_RowStatus
<1>1. delivery \in [Deliveries -> {"absent", "received", "processing", "failed", "processed"}]
  BY DEF IInv, TypeOK
<1>2. CASE delivery' = delivery
  BY <1>2 DEF RowStatus
<1>3. ASSUME NEW d \in Deliveries, Receive(d)
      PROVE  Row!Next
  <2>1. RowStatus' = [RowStatus EXCEPT ![d] = "received"] /\ RowStatus[d] = "none"
    BY <1>1, <1>3 DEF RowStatus, Receive
  <2>2. QED
    BY <2>1 DEF Row!Next, Row!Record
<1>4. ASSUME NEW d \in Deliveries, LeaseExpires(d)
      PROVE  Row!Next
  BY <1>4, RowOfRelease DEF LeaseExpires
<1>5. ASSUME NEW w \in Workers, NEW d \in Deliveries, Claim(w, d)
      PROVE  Row!Next
  <2>1. /\ RowStatus' = [RowStatus EXCEPT ![d] = "processing"]
        /\ RowStatus[d] \in {"received", "failed"}
    BY <1>1, <1>5 DEF RowStatus, Claim
  <2>2. QED
    BY <2>1 DEF Row!Next, Row!Claim
<1>6. ASSUME NEW w \in Workers,
             FinalizeExisting(w) \/ FinalizeDecision(w) \/ Acknowledge(w)
      PROVE  [Row!Next]_RowStatus
  <2>1. ~At(w, "idle")
    BY <1>6 DEF FinalizeExisting, FinalizeDecision, Acknowledge, At
  <2>2. Handles(w) \in Deliveries /\ delivery[Handles(w)] \in OnceClaimed
    BY <2>1, HandlesDelivery DEF IInv, WorkersClaimed
  <2>3. delivery' = [delivery EXCEPT ![Handles(w)] = "processed"]
    BY <1>6 DEF FinalizeExisting, FinalizeDecision, Acknowledge, Decide, Answer
  <2>4. QED
    BY <2>2, <2>3, RowOfClosing
<1>7. ASSUME NEW w \in Workers, Fail(w)
      PROVE  [Row!Next]_RowStatus
  <2>1. Handles(w) \in Deliveries
    BY <1>7, HandlesDelivery DEF Fail, At, IInv
  <2>2. QED
    BY <1>2, <1>7, <2>1, RowOfRelease DEF Fail
<1>8. QED
  BY <1>2, <1>3, <1>4, <1>5, <1>6, <1>7
     DEF Next, vars, database, Step, Throw, RecordPending, FindNothing, FindApproved, Validate,
         FinalizeConflict, ProjectProfile, Decline, Approve, Resolve, ChangeEntitlement, Crash

LEMMA ClaimedDeliveriesStay ==
    ASSUME [Row!Next]_RowStatus, NEW d \in Deliveries, delivery[d] \in OnceClaimed
    PROVE  delivery'[d] \in OnceClaimed
<1>1. RowStatus[d] \in OnceClaimed
  BY DEF RowStatus, OnceClaimed
<1>2. RowStatus \in [Deliveries -> {RowStatus[e] : e \in Deliveries}]
  BY DEF RowStatus
<1>3. RowStatus'[d] \in OnceClaimed
  BY <1>1, <1>2 DEF Row!Next, Row!Record, Row!Claim, Row!Close, Row!Release, OnceClaimed
<1>4. QED
  BY <1>3 DEF RowStatus, OnceClaimed

LEMMA WorkersClaimedStep == IInv /\ WorkersClaimed /\ [Next]_vars => WorkersClaimed'
<1> SUFFICES ASSUME IInv, WorkersClaimed, [Next]_vars, NEW w \in Workers, ~At(w, "idle")'
             PROVE  delivery'[Handles(w)'] \in OnceClaimed
  BY DEF WorkersClaimed, OnceClaimed
<1>1. CASE StaysOnDelivery(w)
  <2>1. ~At(w, "idle") /\ Handles(w)' = Handles(w)
    BY <1>1 DEF StaysOnDelivery
  <2>2. Handles(w) \in Deliveries /\ delivery[Handles(w)] \in OnceClaimed
    BY <2>1, HandlesDelivery DEF IInv, WorkersClaimed
  <2>3. QED
    BY <2>1, <2>2, RowStep, ClaimedDeliveriesStay
<1>2. CASE \E v \in Workers, d \in Deliveries : Claim(v, d)
  BY <1>1, <1>2, ClaimsProcess DEF OnceClaimed
<1>3. CASE \A v \in Workers, d \in Deliveries : ~Claim(v, d)
  BY <1>1, <1>3, StepsStay
<1>4. QED
  BY <1>2, <1>3

\* OrderProjection implements DeliveryRow, as WebhookIntake does: a row is
\* closed once, and only by a worker that claimed it.
THEOREM ProjectionKeepsTheRow == Spec => ImplementsDeliveryRow
<1>1. Init => Row!Init /\ WorkersClaimed
  BY RestingIsRecord DEF Init, Row!Init, RowStatus, WorkersClaimed, At
<1>2. QED
  BY <1>1, RowStep, IInvInit, IInvStep, WorkersClaimedStep, PTL
     DEF Spec, ImplementsDeliveryRow, Row!Spec
=============================================================================
