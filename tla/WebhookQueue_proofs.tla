------------------------ MODULE WebhookQueue_proofs ------------------------
(***************************************************************************)
(* WebhookQueue for every number of deliveries and every limit: types,     *)
(* limits, work conservation, and the separation of retained ids from the  *)
(* ones that are queued or active.                                         *)
(***************************************************************************)
EXTENDS WebhookQueue, FiniteSetTheorems, SequenceTheorems, TLAPS

-----------------------------------------------------------------------------
(***************************************************************************)
(* What the dispatch loop starts.                                          *)
(***************************************************************************)
LEMMA StartedStep ==
    ASSUME NEW backlog \in Seq(Deliveries), NEW n \in 1..Len(backlog)
    PROVE  Started(backlog, n) = Started(backlog, n - 1) \cup {backlog[n]}
BY DEF Started

LEMMA StartedIsFinite ==
    ASSUME NEW backlog \in Seq(Deliveries), NEW n \in 0..Len(backlog)
    PROVE  /\ Started(backlog, n) \subseteq Deliveries
           /\ IsFiniteSet(Started(backlog, n))
           /\ Cardinality(Started(backlog, n)) \in Nat
           /\ Cardinality(Started(backlog, n)) <= n
<1>1. Started(backlog, n) \subseteq Deliveries
  BY DEF Started
<1>2. IsFiniteSet(1..n) /\ Cardinality(1..n) = n
  BY FS_Interval
<1> DEFINE f == [i \in 1..n |-> backlog[i]]
<1>3. f \in [1..n -> Started(backlog, n)]
  BY DEF Started
<1>4. \A d \in Started(backlog, n) : \E i \in 1..n : f[i] = d
  BY DEF Started
<1>5. f \in Surjection(1..n, Started(backlog, n))
  BY <1>3, <1>4 DEF Surjection
<1>6. QED
  BY <1>1, <1>2, <1>5, FS_Surjection, FS_CardinalityType

(***************************************************************************)
(* One dispatch from any state with at most Concurrency slots taken: the   *)
(* slots stay within the limit, what is left waits only when they are all  *)
(* taken, and an id is left over only behind a full queue.                 *)
(***************************************************************************)
LEMMA DispatchResult ==
    ASSUME NEW slots \in SUBSET Deliveries, Cardinality(slots) <= Concurrency,
           NEW backlog \in Seq(Deliveries),
           NEW invocations \in [Deliveries -> Nat],
           Dispatch(slots, backlog, invocations)
    PROVE  \E n \in 0..Len(backlog) :
              /\ StopsAfter(slots, backlog, n)
              /\ queue' \in Seq(Deliveries)
              /\ pendingRecoveryIds' \in Seq(Deliveries)
              /\ activeIds' = slots \cup Started(backlog, n)
              /\ activeIds' \in SUBSET Deliveries
              /\ Cardinality(activeIds') \in Nat
              /\ Cardinality(activeIds') <= Concurrency
              /\ Len(queue') <= MaxBacklog
              /\ queue' # <<>> => Cardinality(activeIds') = Concurrency
              /\ pendingRecoveryIds' # <<>> => Len(queue') = MaxBacklog
              /\ Len(queue') + Len(pendingRecoveryIds') = Len(backlog) - n
              /\ \A i \in 1..Len(queue') : queue'[i] = backlog[n + i]
              /\ \A i \in 1..Len(pendingRecoveryIds') :
                    pendingRecoveryIds'[i] = backlog[n + Len(queue') + i]
<1>1. PICK n \in 0..Len(backlog) :
        /\ StopsAfter(slots, backlog, n)
        /\ LET rest == SubSeq(backlog, n + 1, Len(backlog))
               room == IF Len(rest) <= MaxBacklog THEN Len(rest) ELSE MaxBacklog
           IN /\ queue' = SubSeq(rest, 1, room)
              /\ pendingRecoveryIds' = SubSeq(rest, room + 1, Len(rest))
        /\ activeIds' = slots \cup Started(backlog, n)
  BY DEF Dispatch
<1> DEFINE rest == SubSeq(backlog, n + 1, Len(backlog))
           room == IF Len(rest) <= MaxBacklog THEN Len(rest) ELSE MaxBacklog
<1>2. /\ rest \in Seq(Deliveries)
      /\ Len(rest) = Len(backlog) - n
      /\ \A i \in 1..Len(rest) : rest[i] = backlog[n + i]
  OBVIOUS
<1>3. MaxBacklog \in Nat \ {0} /\ Concurrency \in Nat \ {0}
  BY LimitsArePositive
<1>4. room \in 0..Len(rest) /\ room <= MaxBacklog
  BY <1>2, <1>3
<1>5. queue' = SubSeq(rest, 1, room) /\ pendingRecoveryIds' = SubSeq(rest, room + 1, Len(rest))
  BY <1>1
<1> HIDE DEF rest, room
<1>6. /\ queue' \in Seq(Deliveries)
      /\ Len(queue') = room
      /\ \A i \in 1..room : queue'[i] = rest[i]
  BY <1>2, <1>4, <1>5
<1>7. /\ pendingRecoveryIds' \in Seq(Deliveries)
      /\ Len(pendingRecoveryIds') = Len(rest) - room
      /\ \A i \in 1..(Len(rest) - room) : pendingRecoveryIds'[i] = rest[room + i]
  BY <1>2, <1>4, <1>5
<1>8. /\ IsFiniteSet(slots)
      /\ Started(backlog, n) \subseteq Deliveries
      /\ activeIds' \in SUBSET Deliveries
      /\ IsFiniteSet(activeIds')
      /\ Cardinality(activeIds') \in Nat
      /\ Cardinality(slots) \in Nat
  BY <1>1, StartedIsFinite, DeliveriesAreFinite, FS_Subset, FS_CardinalityType
<1>9. Cardinality(activeIds') <= Concurrency
  <2>1. CASE n = 0
    <3>1. activeIds' = slots
      BY <1>1, <2>1 DEF Started
    <3>2. QED
      BY <3>1
  <2>2. CASE n # 0
    <3> DEFINE before == slots \cup Started(backlog, n - 1)
    <3>1. n \in 1..Len(backlog) /\ n - 1 \in 0..(n - 1)
      BY <2>2
    <3>2. Cardinality(before) < Concurrency
      BY <1>1, <3>1 DEF StopsAfter
    <3>3. activeIds' = before \cup {backlog[n]}
      BY <1>1, <3>1, StartedStep
    <3>4. IsFiniteSet(before) /\ Cardinality(before) \in Nat
      BY <1>8, <3>3, FS_Subset, FS_CardinalityType
    <3>5. \/ Cardinality(activeIds') = Cardinality(before)
          \/ Cardinality(activeIds') = Cardinality(before) + 1
      BY <3>3, <3>4, FS_AddElement
    <3>6. QED
      BY <3>2, <3>4, <3>5, <1>3, <1>8
  <2>3. QED
    BY <2>1, <2>2
<1>10. queue' # <<>> => Cardinality(activeIds') = Concurrency
  <2> SUFFICES ASSUME queue' # <<>> PROVE Cardinality(activeIds') = Concurrency
    OBVIOUS
  <2>1. n # Len(backlog)
    BY <1>2, <1>4, <1>6
  <2>2. Cardinality(activeIds') >= Concurrency
    BY <1>1, <2>1 DEF StopsAfter
  <2>3. QED
    BY <2>2, <1>3, <1>8, <1>9
<1>11. pendingRecoveryIds' # <<>> => Len(queue') = MaxBacklog
  BY <1>2, <1>3, <1>6, <1>7 DEF room
<1>12. Len(backlog) \in Nat /\ n \in Nat /\ room \in Nat /\ Len(rest) \in Nat
  BY <1>2, <1>4
<1>13. /\ Len(queue') + Len(pendingRecoveryIds') = Len(backlog) - n
       /\ \A i \in 1..Len(queue') : queue'[i] = backlog[n + i]
       /\ \A i \in 1..Len(pendingRecoveryIds') :
             pendingRecoveryIds'[i] = backlog[n + Len(queue') + i]
  <2>1. Len(queue') + Len(pendingRecoveryIds') = Len(backlog) - n
    BY <1>2, <1>6, <1>7, <1>12
  <2>2. ASSUME NEW i \in 1..Len(queue') PROVE queue'[i] = backlog[n + i]
    <3>1. i \in 1..room /\ i \in 1..Len(rest)
      BY <1>4, <1>6, <1>12
    <3>2. QED
      BY <3>1, <1>2, <1>6
  <2>3. ASSUME NEW i \in 1..Len(pendingRecoveryIds')
        PROVE  pendingRecoveryIds'[i] = backlog[n + Len(queue') + i]
    <3>1. i \in 1..(Len(rest) - room)
      BY <1>7
    <3>2. room + i \in 1..Len(rest)
      BY <3>1, <1>4, <1>12
    <3>3. pendingRecoveryIds'[i] = rest[room + i] /\ rest[room + i] = backlog[n + (room + i)]
      BY <3>1, <3>2, <1>2, <1>7
    <3>4. n + (room + i) = n + Len(queue') + i
      BY <3>1, <1>6, <1>12
    <3>5. QED
      BY <3>3, <3>4
  <2>4. QED
    BY <2>1, <2>2, <2>3
<1>14. Len(queue') <= MaxBacklog
  BY <1>4, <1>6
<1>15. QED
  BY <1>1, <1>6, <1>7, <1>8, <1>9, <1>10, <1>11, <1>13, <1>14

LEMMA DispatchCounts ==
    ASSUME NEW slots, NEW backlog \in Seq(Deliveries),
           NEW invocations \in [Deliveries -> Nat],
           Dispatch(slots, backlog, invocations)
    PROVE  running' \in [Deliveries -> Nat]
<1>1. PICK n \in 0..Len(backlog) :
        running' = [d \in Deliveries |->
              invocations[d] + Cardinality({i \in 1..n : backlog[i] = d})]
  BY DEF Dispatch
<1>2. ASSUME NEW d \in Deliveries
      PROVE  Cardinality({i \in 1..n : backlog[i] = d}) \in Nat
  <2>1. IsFiniteSet(1..n)
    BY FS_Interval
  <2>2. IsFiniteSet({i \in 1..n : backlog[i] = d})
    BY <2>1, FS_Subset
  <2>3. QED
    BY <2>2, FS_CardinalityType
<1>3. QED
  BY <1>1, <1>2

-----------------------------------------------------------------------------
(***************************************************************************)
(* The inductive invariant.  WorkConserving is what makes it inductive: a  *)
(* retained id implies a full queue and a full queue implies full slots,   *)
(* so enqueue() with room meets no retained id and a reclaim that frees    *)
(* slots meets an empty queue.                                             *)
(***************************************************************************)
Bounds == TypeOK /\ WithinLimits /\ WorkConserving

LEMMA BoundsInit == Init => Bounds
<1> SUFFICES ASSUME Init PROVE Bounds
  OBVIOUS
<1>1. Cardinality({}) = 0
  BY FS_EmptySet
<1>2. QED
  BY <1>1, LimitsArePositive DEF Init, Bounds, TypeOK, WithinLimits, WorkConserving

LEMMA RefusedKeepsBounds ==
    ASSUME Bounds, NEW d \in Deliveries, NEW retain \in BOOLEAN,
           EnqueueRefused(d, retain)
    PROVE  Bounds'
<1>1. CASE pendingRecoveryIds' = pendingRecoveryIds
  BY <1>1 DEF Bounds, EnqueueRefused, TypeOK, WithinLimits, WorkConserving
<1>2. CASE /\ pendingRecoveryIds' = Append(pendingRecoveryIds, d)
           /\ Len(pendingRecoveryIds) < MaxPendingRecovery
  <2>1. /\ pendingRecoveryIds' \in Seq(Deliveries)
        /\ Len(pendingRecoveryIds') = Len(pendingRecoveryIds) + 1
    BY <1>2 DEF Bounds, TypeOK
  <2>2. Len(pendingRecoveryIds') <= MaxPendingRecovery
    BY <1>2, <2>1, LimitsArePositive DEF Bounds, TypeOK
  <2>3. Len(queue) = MaxBacklog
    BY LimitsArePositive DEF EnqueueRefused, Bounds, TypeOK, WithinLimits
  <2>4. QED
    BY <2>1, <2>2, <2>3 DEF Bounds, EnqueueRefused, TypeOK, WithinLimits, WorkConserving
<1>3. QED
  BY <1>1, <1>2 DEF EnqueueRefused

LEMMA EmptyHasNoElements ==
    ASSUME NEW d PROVE Without(<<>>, d) = <<>>
BY DEF Without, Elements

LEMMA AcceptedKeepsBounds ==
    ASSUME Bounds, NEW d \in Deliveries, EnqueueAccepted(d)
    PROVE  Bounds' /\ pendingRecoveryIds' = <<>>
<1>1. pendingRecoveryIds = <<>>
  BY LimitsArePositive DEF EnqueueAccepted, Bounds, WorkConserving, TypeOK
<1> DEFINE backlog == Append(queue, d) \o Without(pendingRecoveryIds, d)
<1>2. backlog = Append(queue, d)
  BY <1>1, EmptyHasNoElements DEF Bounds, TypeOK
<1>3. backlog \in Seq(Deliveries) /\ Len(backlog) = Len(queue) + 1
  BY <1>2 DEF Bounds, TypeOK
<1>4. Dispatch(activeIds, backlog, running)
  BY DEF EnqueueAccepted
<1>5. /\ activeIds \in SUBSET Deliveries
      /\ Cardinality(activeIds) <= Concurrency
      /\ running \in [Deliveries -> Nat]
  BY DEF Bounds, TypeOK, WithinLimits
<1> HIDE DEF backlog
<1>6. PICK n \in 0..Len(backlog) :
        /\ queue' \in Seq(Deliveries) /\ pendingRecoveryIds' \in Seq(Deliveries)
        /\ activeIds' \in SUBSET Deliveries
        /\ Cardinality(activeIds') <= Concurrency
        /\ Len(queue') <= MaxBacklog
        /\ queue' # <<>> => Cardinality(activeIds') = Concurrency
        /\ pendingRecoveryIds' # <<>> => Len(queue') = MaxBacklog
        /\ Len(queue') + Len(pendingRecoveryIds') = Len(backlog) - n
  BY <1>3, <1>4, <1>5, DispatchResult
<1>7. Len(queue) + 1 <= MaxBacklog
  BY LimitsArePositive DEF EnqueueAccepted, Bounds, TypeOK
<1>8. Len(queue') + Len(pendingRecoveryIds') <= MaxBacklog
  BY <1>3, <1>6, <1>7, LimitsArePositive
<1>9. pendingRecoveryIds' = <<>>
  <2>1. Len(pendingRecoveryIds') = 0 => pendingRecoveryIds' = <<>>
    BY <1>6
  <2>2. QED
    BY <2>1, <1>6, <1>8, LimitsArePositive
<1>10. running' \in [Deliveries -> Nat]
  BY <1>3, <1>4, <1>5, DispatchCounts
<1>11. drainResolvers' \in Nat
  BY DEF EnqueueAccepted, Bounds, TypeOK
<1>12. QED
  BY <1>6, <1>9, <1>10, <1>11, LimitsArePositive
     DEF Bounds, TypeOK, WithinLimits, WorkConserving

LEMMA CompleteKeepsBounds ==
    ASSUME Bounds, NEW d \in Deliveries, Complete(d)
    PROVE  Bounds'
<1> DEFINE backlog == queue \o pendingRecoveryIds
           slots == activeIds \ {d}
           less == [running EXCEPT ![d] = @ - 1]
<1>1. /\ backlog \in Seq(Deliveries)
      /\ Len(backlog) = Len(queue) + Len(pendingRecoveryIds)
  BY DEF Bounds, TypeOK
<1>2. IsFiniteSet(activeIds) /\ slots \in SUBSET Deliveries
  BY DeliveriesAreFinite, FS_Subset DEF Bounds, TypeOK
<1>3. Cardinality(slots) <= Concurrency
  BY <1>2, FS_Subset, FS_CardinalityType, LimitsArePositive DEF Bounds, WithinLimits
<1>4. less \in [Deliveries -> Nat]
  BY DEF Complete, Bounds, TypeOK
<1>5. Dispatch(slots, backlog, less)
  BY DEF Complete
<1>6. drainResolvers' \in Nat
  BY DEF Complete, Bounds, TypeOK
<1>7. /\ Len(queue) \in Nat /\ Len(queue) <= MaxBacklog
      /\ Len(pendingRecoveryIds) \in Nat
      /\ Len(pendingRecoveryIds) <= MaxPendingRecovery
  BY DEF Bounds, TypeOK, WithinLimits
<1> HIDE DEF backlog, slots, less
<1>8. PICK n \in 0..Len(backlog) :
        /\ queue' \in Seq(Deliveries) /\ pendingRecoveryIds' \in Seq(Deliveries)
        /\ activeIds' \in SUBSET Deliveries
        /\ Cardinality(activeIds') <= Concurrency
        /\ Len(queue') <= MaxBacklog
        /\ queue' # <<>> => Cardinality(activeIds') = Concurrency
        /\ pendingRecoveryIds' # <<>> => Len(queue') = MaxBacklog
        /\ Len(queue') + Len(pendingRecoveryIds') = Len(backlog) - n
  BY <1>1, <1>2, <1>3, <1>4, <1>5, DispatchResult
<1>9. Len(pendingRecoveryIds') <= MaxPendingRecovery
  <2>1. CASE pendingRecoveryIds' = <<>>
    BY <2>1, LimitsArePositive
  <2>2. CASE pendingRecoveryIds' # <<>>
    BY <2>2, <1>1, <1>7, <1>8, LimitsArePositive
  <2>3. QED
    BY <2>1, <2>2
<1>10. running' \in [Deliveries -> Nat]
  BY <1>1, <1>4, <1>5, DispatchCounts
<1>11. QED
  BY <1>6, <1>8, <1>9, <1>10 DEF Bounds, TypeOK, WithinLimits, WorkConserving

LEMMA ReclaimKeepsBounds ==
    ASSUME Bounds, NEW ids \in ReclaimBatches, ReclaimLoop(ids),
           Len(queue) < MaxBacklog
    PROVE  Bounds' /\ pendingRecoveryIds' = <<>>
<1>1. pendingRecoveryIds = <<>>
  BY LimitsArePositive DEF Bounds, WorkConserving, TypeOK
<1> DEFINE taken(fresh) == IF Len(fresh) <= FreePlaces THEN Len(fresh) ELSE FreePlaces
<1>2. PICK fresh \in ReclaimBatches :
        Dispatch(activeIds,
                 queue \o SubSeq(fresh, 1, taken(fresh)) \o pendingRecoveryIds,
                 running)
  BY DEF ReclaimLoop
<1>3. fresh \in Seq(Deliveries)
  BY BatchesAreLists
<1>4. /\ IsFiniteSet(activeIds)
      /\ Cardinality(activeIds) \in Nat
      /\ Cardinality(activeIds) <= Concurrency
  BY DeliveriesAreFinite, FS_Subset, FS_CardinalityType DEF Bounds, TypeOK, WithinLimits
<1>5. /\ queue \in Seq(Deliveries) /\ Len(queue) \in Nat
      /\ activeIds \in SUBSET Deliveries
      /\ running \in [Deliveries -> Nat] /\ drainResolvers \in Nat
  BY DEF Bounds, TypeOK
<1>6. FreePlaces \in Nat
  BY <1>4, <1>5, LimitsArePositive DEF FreePlaces
<1>7. taken(fresh) \in 0..Len(fresh) /\ taken(fresh) <= FreePlaces
  BY <1>3, <1>6
<1> DEFINE backlog == queue \o SubSeq(fresh, 1, taken(fresh))
<1>8. Dispatch(activeIds, backlog, running)
  <2>1. backlog \in Seq(Deliveries)
    BY <1>3, <1>5, <1>7
  <2>2. backlog \o <<>> = backlog
    BY <2>1, ConcatEmptySeq
  <2>3. QED
    BY <1>1, <1>2, <2>2
<1>9. backlog \in Seq(Deliveries) /\ Len(backlog) = Len(queue) + taken(fresh)
  <2> DEFINE head == SubSeq(fresh, 1, taken(fresh))
  <2>1. head \in Seq(Deliveries) /\ Len(head) = taken(fresh)
    BY <1>3, <1>7
  <2> HIDE DEF head, taken
  <2>2. (queue \o head) \in Seq(Deliveries) /\ Len(queue \o head) = Len(queue) + Len(head)
    BY <2>1, <1>5, ConcatProperties
  <2>3. QED
    BY <2>1, <2>2 DEF head, taken
<1> HIDE DEF backlog, taken
<1>10. PICK n \in 0..Len(backlog) :
        /\ StopsAfter(activeIds, backlog, n)
        /\ queue' \in Seq(Deliveries) /\ pendingRecoveryIds' \in Seq(Deliveries)
        /\ activeIds' = activeIds \cup Started(backlog, n)
        /\ activeIds' \in SUBSET Deliveries
        /\ Cardinality(activeIds') \in Nat
        /\ Cardinality(activeIds') <= Concurrency
        /\ Len(queue') <= MaxBacklog
        /\ queue' # <<>> => Cardinality(activeIds') = Concurrency
        /\ pendingRecoveryIds' # <<>> => Len(queue') = MaxBacklog
        /\ Len(queue') + Len(pendingRecoveryIds') = Len(backlog) - n
  BY <1>4, <1>5, <1>8, <1>9, DispatchResult
<1>11. Cardinality(activeIds') <= Cardinality(activeIds) + n
  <2> DEFINE T == Started(backlog, n)
  <2>1. IsFiniteSet(T) /\ Cardinality(T) \in Nat /\ Cardinality(T) <= n
    BY <1>9, StartedIsFinite
  <2>2. IsFiniteSet(activeIds \cap T) /\ Cardinality(activeIds \cap T) \in Nat
    BY <1>4, FS_Subset, FS_CardinalityType
  <2>3. Cardinality(activeIds \cup T)
          = Cardinality(activeIds) + Cardinality(T) - Cardinality(activeIds \cap T)
    BY <1>4, <2>1, FS_Union
  <2> HIDE DEF T
  <2>4. Cardinality(activeIds \cup T) <= Cardinality(activeIds) + n
    BY <1>4, <2>1, <2>2, <2>3
  <2>5. QED
    BY <1>10, <2>4 DEF T
<1>12. Len(backlog) - n <= MaxBacklog
  <2>1. CASE queue' = <<>>
    <3>1. pendingRecoveryIds' = <<>>
      BY <2>1, <1>10, LimitsArePositive
    <3>2. QED
      BY <2>1, <3>1, <1>10, LimitsArePositive
  <2>2. CASE queue' # <<>>
    <3>1. n >= Concurrency - Cardinality(activeIds)
      BY <2>2, <1>4, <1>10, <1>11, LimitsArePositive
    <3>2. taken(fresh) <= (MaxBacklog - Len(queue)) + (Concurrency - Cardinality(activeIds))
      BY <1>7 DEF FreePlaces
    <3>3. taken(fresh) \in Nat
      BY <1>7, <1>3
    <3>4. QED
      BY <3>1, <3>2, <3>3, <1>4, <1>5, <1>9, LimitsArePositive
  <2>3. QED
    BY <2>1, <2>2
<1>13. pendingRecoveryIds' = <<>>
  <2>1. Len(pendingRecoveryIds') = 0 => pendingRecoveryIds' = <<>>
    BY <1>10
  <2>2. QED
    BY <2>1, <1>10, <1>12, LimitsArePositive
<1>14. running' \in [Deliveries -> Nat]
  BY <1>5, <1>8, <1>9, DispatchCounts
<1>15. drainResolvers' \in Nat
  BY <1>5 DEF ReclaimLoop
<1>16. QED
  BY <1>10, <1>13, <1>14, <1>15, LimitsArePositive
     DEF Bounds, TypeOK, WithinLimits, WorkConserving

LEMMA RestartKeepsBounds == ASSUME Restart PROVE Bounds'
<1>1. Cardinality({}) = 0
  BY FS_EmptySet
<1>2. QED
  BY <1>1, LimitsArePositive DEF Restart, Bounds, TypeOK, WithinLimits, WorkConserving

LEMMA BoundsStep == Bounds /\ [Next]_vars => Bounds'
<1> SUFFICES ASSUME Bounds, [Next]_vars PROVE Bounds'
  OBVIOUS
<1>1. CASE UNCHANGED vars
  BY <1>1 DEF vars, Bounds, TypeOK, WithinLimits, WorkConserving
<1>2. ASSUME NEW d \in Deliveries, NEW retain \in BOOLEAN, Enqueue(d, retain)
      PROVE  Bounds'
  BY <1>2, RefusedKeepsBounds, AcceptedKeepsBounds DEF Enqueue
<1>3. ASSUME NEW ids \in ReclaimBatches, ReclaimLoop(ids)
      PROVE  Bounds'
  <2>1. CASE Len(queue) < MaxBacklog
    BY <1>3, <2>1, ReclaimKeepsBounds
  <2>2. CASE ~(Len(queue) < MaxBacklog)
    BY <1>3, <2>2 DEF ReclaimLoop, vars, Bounds, TypeOK, WithinLimits, WorkConserving
  <2>3. QED
    BY <2>1, <2>2
<1>4. ASSUME NEW d \in Deliveries, Complete(d)
      PROVE  Bounds'
  BY <1>4, CompleteKeepsBounds
<1>5. CASE Drain
  BY <1>5 DEF Drain, Bounds, TypeOK, WithinLimits, WorkConserving
<1>6. CASE Restart
  BY <1>6, RestartKeepsBounds
<1>7. QED
  BY <1>1, <1>2, <1>3, <1>4, <1>5, <1>6 DEF Next

\* Every variable keeps its type and every size its limit, whatever ids
\* the callers of enqueue() and reclaimPending() hand over, twice included.
THEOREM QueueWithinLimits == Spec => [](TypeOK /\ WithinLimits)
<1>1. Bounds => TypeOK /\ WithinLimits
  BY DEF Bounds
<1>2. QED
  BY BoundsInit, BoundsStep, <1>1, PTL DEF Spec

\* dispatch() never leaves a slot free while an id waits, nor a queue place
\* free while an id is retained.
THEOREM QueueIsWorkConserving == Spec => []WorkConserving
<1>1. Bounds => WorkConserving
  BY DEF Bounds
<1>2. QED
  BY BoundsInit, BoundsStep, <1>1, PTL DEF Spec

-----------------------------------------------------------------------------
(***************************************************************************)
(* No caller of drain() is forgotten.                                      *)
(***************************************************************************)
LEMMA BusyHasSlot == ASSUME Bounds PROVE ~Idle <=> activeIds # {}
<1>1. Cardinality({}) = 0
  BY FS_EmptySet
<1>2. QED
  BY <1>1, LimitsArePositive DEF Bounds, WorkConserving, Idle, TypeOK

LEMMA DispatchKeepsSlots ==
    ASSUME NEW slots, NEW backlog \in Seq(Deliveries), NEW invocations,
           Dispatch(slots, backlog, invocations)
    PROVE  slots \subseteq activeIds'
BY DEF Dispatch

LEMMA DrainStep == Bounds /\ NoForgottenDrain /\ [Next]_vars => NoForgottenDrain'
<1> SUFFICES ASSUME Bounds, NoForgottenDrain, [Next]_vars, drainResolvers' > 0
             PROVE  ~Idle'
  BY DEF NoForgottenDrain
<1>0. Bounds'
  BY BoundsStep
<1>1. CASE UNCHANGED vars
  BY <1>1 DEF vars, NoForgottenDrain, Idle
<1>2. ASSUME NEW d \in Deliveries, NEW retain \in BOOLEAN, EnqueueRefused(d, retain)
      PROVE  ~Idle'
  BY <1>2, LimitsArePositive DEF EnqueueRefused, Idle, Bounds, TypeOK
<1>3. ASSUME NEW d \in Deliveries, EnqueueAccepted(d)
      PROVE  ~Idle'
  <2>1. activeIds # {}
    BY <1>3, BusyHasSlot DEF EnqueueAccepted, NoForgottenDrain
  <2>2. Append(queue, d) \o Without(pendingRecoveryIds, d) \in Seq(Deliveries)
    <3>1. pendingRecoveryIds = <<>>
      BY <1>3, LimitsArePositive DEF EnqueueAccepted, Bounds, WorkConserving, TypeOK
    <3>2. Append(queue, d) \in Seq(Deliveries)
      BY DEF Bounds, TypeOK
    <3>3. Without(pendingRecoveryIds, d) = <<>>
      BY <3>1, EmptyHasNoElements DEF Without
    <3>4. QED
      BY <3>2, <3>3
  <2>3. activeIds \subseteq activeIds'
    BY <1>3, <2>2, DispatchKeepsSlots DEF EnqueueAccepted
  <2>4. QED
    BY <2>1, <2>3 DEF Idle
<1>4. ASSUME NEW ids \in ReclaimBatches, ReclaimLoop(ids)
      PROVE  ~Idle'
  <2>1. drainResolvers > 0 /\ activeIds # {}
    BY <1>4, BusyHasSlot DEF ReclaimLoop, vars, NoForgottenDrain
  <2>2. activeIds \subseteq activeIds'
    BY <1>4 DEF ReclaimLoop, Dispatch, vars
  <2>3. QED
    BY <2>1, <2>2 DEF Idle
<1>5. ASSUME NEW d \in Deliveries, Complete(d)
      PROVE  ~Idle'
  BY <1>5 DEF Complete
<1>6. CASE Drain
  BY <1>6 DEF Drain, Idle
<1>7. CASE Restart
  BY <1>7 DEF Restart
<1>8. QED
  BY <1>1, <1>2, <1>3, <1>4, <1>5, <1>6, <1>7 DEF Next, Enqueue

\* Whoever called drain() is resolved at the end of the last invocation:
\* there is no state with nothing left to run and a promise left open.
THEOREM NoDrainIsForgotten == Spec => []NoForgottenDrain
<1>1. Init => NoForgottenDrain
  BY DEF Init, NoForgottenDrain
<1>2. QED
  BY <1>1, BoundsInit, BoundsStep, DrainStep, PTL DEF Spec

-----------------------------------------------------------------------------
(***************************************************************************)
(* A retained id is in one place only.                                     *)
(***************************************************************************)
LEMMA CompleteKeepsRetainedApart ==
    ASSUME Bounds, RetainedIsNowhereElse, NEW d \in Deliveries, Complete(d)
    PROVE  RetainedIsNowhereElse'
<1> DEFINE backlog == queue \o pendingRecoveryIds
           slots == activeIds \ {d}
           less == [running EXCEPT ![d] = @ - 1]
<1>1. /\ queue \in Seq(Deliveries) /\ pendingRecoveryIds \in Seq(Deliveries)
      /\ Len(queue) \in Nat /\ Len(pendingRecoveryIds) \in Nat
      /\ Len(queue) <= MaxBacklog
  BY DEF Bounds, TypeOK, WithinLimits
<1>2. /\ backlog \in Seq(Deliveries)
      /\ Len(backlog) = Len(queue) + Len(pendingRecoveryIds)
      /\ \A i \in 1..Len(queue) : backlog[i] = queue[i]
      /\ \A i \in 1..Len(pendingRecoveryIds) :
            backlog[Len(queue) + i] = pendingRecoveryIds[i]
  BY <1>1
<1>3. /\ slots \in SUBSET Deliveries
      /\ Cardinality(slots) <= Concurrency
      /\ less \in [Deliveries -> Nat]
  <2>1. IsFiniteSet(activeIds)
    BY DeliveriesAreFinite, FS_Subset DEF Bounds, TypeOK
  <2>2. QED
    BY <2>1, FS_Subset, FS_CardinalityType, LimitsArePositive
       DEF Complete, Bounds, TypeOK, WithinLimits
<1>4. Dispatch(slots, backlog, less)
  BY DEF Complete
<1>5. \A i \in 1..Len(backlog) : i > Len(queue) =>
         /\ backlog[i] \notin activeIds
         /\ \A j \in 1..Len(backlog) : backlog[j] = backlog[i] => j = i
  <2> SUFFICES ASSUME NEW i \in 1..Len(backlog), i > Len(queue),
                      NEW j \in 1..Len(backlog)
               PROVE  /\ backlog[i] \notin activeIds
                      /\ backlog[j] = backlog[i] => j = i
    OBVIOUS
  <2> DEFINE k == i - Len(queue)
  <2>1. k \in 1..Len(pendingRecoveryIds) /\ backlog[i] = pendingRecoveryIds[k]
    BY <1>1, <1>2
  <2>2. /\ backlog[i] \notin activeIds
        /\ \A m \in 1..Len(queue) : queue[m] # backlog[i]
    BY <2>1 DEF RetainedIsNowhereElse, IsQueuedOrActive, Elements
  <2>3. CASE j <= Len(queue)
    BY <2>2, <2>3, <1>1, <1>2
  <2>4. CASE j > Len(queue)
    <3>1. /\ j - Len(queue) \in 1..Len(pendingRecoveryIds)
          /\ backlog[j] = pendingRecoveryIds[j - Len(queue)]
      BY <2>4, <1>1, <1>2
    <3>2. backlog[j] = backlog[i] => j - Len(queue) = k
      BY <3>1, <2>1 DEF RetainedIsNowhereElse
    <3>3. QED
      BY <2>2, <3>2, <1>1
  <2>5. QED
    BY <2>3, <2>4, <1>1
<1> HIDE DEF backlog, slots, less
<1>6. PICK n \in 0..Len(backlog) :
        /\ queue' \in Seq(Deliveries) /\ pendingRecoveryIds' \in Seq(Deliveries)
        /\ activeIds' = slots \cup Started(backlog, n)
        /\ pendingRecoveryIds' # <<>> => Len(queue') = MaxBacklog
        /\ Len(queue') + Len(pendingRecoveryIds') = Len(backlog) - n
        /\ \A i \in 1..Len(queue') : queue'[i] = backlog[n + i]
        /\ \A i \in 1..Len(pendingRecoveryIds') :
              pendingRecoveryIds'[i] = backlog[n + Len(queue') + i]
  BY <1>2, <1>3, <1>4, DispatchResult
<1>7. Len(queue') \in Nat /\ Len(pendingRecoveryIds') \in Nat /\ n \in Nat
  BY <1>6
<1>8. ASSUME NEW i \in 1..Len(pendingRecoveryIds')
      PROVE  /\ n + Len(queue') + i \in 1..Len(backlog)
             /\ n + Len(queue') + i > Len(queue)
  <2>1. pendingRecoveryIds' # <<>>
    BY <1>6
  <2>2. Len(queue') = MaxBacklog
    BY <2>1, <1>6
  <2>3. QED
    BY <2>2, <1>1, <1>2, <1>6, <1>7
<1>9. ASSUME NEW i \in 1..Len(pendingRecoveryIds'), NEW j \in 1..Len(pendingRecoveryIds'),
             pendingRecoveryIds'[i] = pendingRecoveryIds'[j]
      PROVE  i = j
  <2>1. /\ backlog[n + Len(queue') + i] = backlog[n + Len(queue') + j]
        /\ n + Len(queue') + i \in 1..Len(backlog)
        /\ n + Len(queue') + i > Len(queue)
        /\ n + Len(queue') + j \in 1..Len(backlog)
    BY <1>6, <1>8, <1>9
  <2>2. n + Len(queue') + i = n + Len(queue') + j
    BY <2>1, <1>5
  <2>3. QED
    BY <2>2, <1>7
<1>10. ASSUME NEW i \in 1..Len(pendingRecoveryIds')
       PROVE  pendingRecoveryIds'[i] \notin activeIds' \cup Elements(queue')
  <2> DEFINE p == n + Len(queue') + i
  <2>1. /\ p \in 1..Len(backlog) /\ p > Len(queue)
        /\ pendingRecoveryIds'[i] = backlog[p]
    BY <1>6, <1>8
  <2>2. backlog[p] \notin slots
    BY <2>1, <1>5 DEF slots
  <2>3. backlog[p] \notin Started(backlog, n)
    <3>1. ASSUME NEW m \in 1..n PROVE backlog[m] # backlog[p]
      <4>1. m \in 1..Len(backlog) /\ m # p
        BY <1>2, <1>7
      <4>2. QED
        BY <4>1, <2>1, <1>5
    <3>2. QED
      BY <3>1 DEF Started
  <2>4. backlog[p] \notin Elements(queue')
    <3>1. ASSUME NEW m \in 1..Len(queue') PROVE queue'[m] # backlog[p]
      <4>1. /\ n + m \in 1..Len(backlog) /\ n + m # p
            /\ queue'[m] = backlog[n + m]
        BY <1>2, <1>6, <1>7
      <4>2. QED
        BY <4>1, <2>1, <1>5
    <3>2. QED
      BY <3>1 DEF Elements
  <2>5. QED
    BY <2>1, <2>2, <2>3, <2>4, <1>6
<1>11. QED
  BY <1>9, <1>10 DEF RetainedIsNowhereElse, IsQueuedOrActive, Elements

LEMMA RetainedStep ==
    Bounds /\ RetainedIsNowhereElse /\ [Next]_vars => RetainedIsNowhereElse'
<1> SUFFICES ASSUME Bounds, RetainedIsNowhereElse, [Next]_vars
             PROVE  RetainedIsNowhereElse'
  OBVIOUS
<1> USE DEF RetainedIsNowhereElse, IsQueuedOrActive, Elements
<1>1. CASE UNCHANGED vars
  BY <1>1 DEF vars
<1>2. ASSUME NEW d \in Deliveries, NEW retain \in BOOLEAN, EnqueueRefused(d, retain)
      PROVE  RetainedIsNowhereElse'
  <2>1. CASE UNCHANGED pendingRecoveryIds
    BY <1>2, <2>1 DEF EnqueueRefused
  <2>2. CASE /\ pendingRecoveryIds' = Append(pendingRecoveryIds, d)
             /\ ~IsQueuedOrActive(d)
             /\ d \notin Elements(pendingRecoveryIds)
    BY <1>2, <2>2 DEF EnqueueRefused, Bounds, TypeOK
  <2>3. QED
    BY <1>2, <2>1, <2>2 DEF EnqueueRefused
<1>3. ASSUME pendingRecoveryIds' = <<>>
      PROVE  RetainedIsNowhereElse'
  BY <1>3
<1>4. ASSUME NEW ids \in ReclaimBatches, ReclaimLoop(ids), ~(Len(queue) < MaxBacklog)
      PROVE  RetainedIsNowhereElse'
  BY <1>4 DEF ReclaimLoop, vars
<1>5. CASE Drain
  BY <1>5 DEF Drain
<1>6. CASE Restart
  BY <1>6, <1>3 DEF Restart
<1>7. QED
  BY <1>1, <1>2, <1>3, <1>4, <1>5, <1>6, AcceptedKeepsBounds, ReclaimKeepsBounds,
     CompleteKeepsRetainedApart DEF Next, Enqueue

\* The skip in promotePendingRecoveries() never fires: an id is not retained
\* while it is queued, running or already retained.
THEOREM RetainedOnce == Spec => []RetainedIsNowhereElse
<1>1. Init => RetainedIsNowhereElse
  BY DEF Init, RetainedIsNowhereElse
<1>2. QED
  BY <1>1, BoundsInit, BoundsStep, RetainedStep, PTL DEF Spec

-----------------------------------------------------------------------------
(***************************************************************************)
(* A slot belongs to an invocation that is still running.                  *)
(***************************************************************************)
LEMMA DispatchFillsSlots ==
    ASSUME NEW slots \in SUBSET Deliveries, NEW backlog \in Seq(Deliveries),
           NEW invocations \in [Deliveries -> Nat],
           \A d \in slots : invocations[d] > 0,
           Dispatch(slots, backlog, invocations)
    PROVE  SlotsAreRunning'
<1>1. PICK n \in 0..Len(backlog) :
        /\ activeIds' = slots \cup Started(backlog, n)
        /\ running' = [d \in Deliveries |->
              invocations[d] + Cardinality({i \in 1..n : backlog[i] = d})]
  BY DEF Dispatch
<1>2. ASSUME NEW d \in Deliveries
      PROVE  /\ {i \in 1..n : backlog[i] = d} \in SUBSET (1..n)
             /\ IsFiniteSet({i \in 1..n : backlog[i] = d})
             /\ Cardinality({i \in 1..n : backlog[i] = d}) \in Nat
  <2>1. IsFiniteSet(1..n)
    BY FS_Interval
  <2>2. {i \in 1..n : backlog[i] = d} \in SUBSET (1..n)
    OBVIOUS
  <2>3. IsFiniteSet({i \in 1..n : backlog[i] = d})
    BY <2>1, <2>2, FS_Subset
  <2>4. QED
    BY <2>2, <2>3, FS_CardinalityType
<1> DEFINE times(d) == Cardinality({i \in 1..n : backlog[i] = d})
<1>3. /\ running' = [d \in Deliveries |-> invocations[d] + times(d)]
      /\ \A d \in Deliveries : times(d) \in Nat
  BY <1>1, <1>2
<1>4. ASSUME NEW d \in Started(backlog, n)
      PROVE  d \in Deliveries /\ times(d) # 0
  <2>1. PICK k \in 1..n : backlog[k] = d
    BY DEF Started
  <2>2. d \in Deliveries
    BY <2>1
  <2>3. {i \in 1..n : backlog[i] = d} # {}
    BY <2>1
  <2>4. QED
    BY <1>2, <2>2, <2>3, FS_EmptySet
<1> HIDE DEF times
<1>5. \A d \in slots : running'[d] > 0
  BY <1>3
<1>6. \A d \in Started(backlog, n) : running'[d] > 0
  BY <1>3, <1>4
<1>7. QED
  BY <1>1, <1>5, <1>6 DEF SlotsAreRunning

LEMMA SlotsStep == Bounds /\ SlotsAreRunning /\ [Next]_vars => SlotsAreRunning'
<1> SUFFICES ASSUME Bounds, SlotsAreRunning, [Next]_vars
             PROVE  SlotsAreRunning'
  OBVIOUS
<1>0. /\ activeIds \in SUBSET Deliveries /\ running \in [Deliveries -> Nat]
      /\ queue \in Seq(Deliveries) /\ pendingRecoveryIds \in Seq(Deliveries)
      /\ \A d \in activeIds : running[d] > 0
  BY DEF Bounds, TypeOK, SlotsAreRunning
<1>1. CASE UNCHANGED <<activeIds, running>>
  BY <1>0, <1>1 DEF SlotsAreRunning
<1>2. ASSUME NEW d \in Deliveries, EnqueueAccepted(d)
      PROVE  SlotsAreRunning'
  <2>1. pendingRecoveryIds = <<>>
    BY <1>2, LimitsArePositive DEF EnqueueAccepted, Bounds, WorkConserving, TypeOK
  <2>2. Append(queue, d) \o Without(pendingRecoveryIds, d) \in Seq(Deliveries)
    <3>1. Without(pendingRecoveryIds, d) = <<>>
      BY <2>1, EmptyHasNoElements
    <3>2. Append(queue, d) \in Seq(Deliveries)
      BY <1>0
    <3>3. QED
      BY <3>1, <3>2
  <2>3. QED
    BY <1>0, <1>2, <2>2, DispatchFillsSlots DEF EnqueueAccepted
<1>3. ASSUME NEW ids \in ReclaimBatches, ReclaimLoop(ids), Len(queue) < MaxBacklog
      PROVE  SlotsAreRunning'
  <2> DEFINE taken(fresh) == IF Len(fresh) <= FreePlaces THEN Len(fresh) ELSE FreePlaces
             backlog(fresh) == queue \o SubSeq(fresh, 1, taken(fresh)) \o pendingRecoveryIds
  <2>1. PICK fresh \in ReclaimBatches : Dispatch(activeIds, backlog(fresh), running)
    BY <1>3 DEF ReclaimLoop
  <2>2. Cardinality(activeIds) \in Nat
    BY <1>0, DeliveriesAreFinite, FS_Subset, FS_CardinalityType
  <2>3. fresh \in Seq(Deliveries) /\ taken(fresh) \in Int /\ taken(fresh) <= Len(fresh)
    BY <1>0, <2>2, BatchesAreLists, LimitsArePositive DEF FreePlaces
  <2>4. SubSeq(fresh, 1, taken(fresh)) \in Seq(Deliveries)
    BY <2>3
  <2>5. backlog(fresh) \in Seq(Deliveries)
    BY <1>0, <2>4
  <2> HIDE DEF backlog
  <2>6. QED
    BY <1>0, <2>1, <2>5, DispatchFillsSlots
<1>4. ASSUME NEW d \in Deliveries, Complete(d)
      PROVE  SlotsAreRunning'
  <2> DEFINE less == [running EXCEPT ![d] = @ - 1]
  <2>1. /\ less \in [Deliveries -> Nat]
        /\ \A e \in activeIds \ {d} : less[e] > 0
        /\ queue \o pendingRecoveryIds \in Seq(Deliveries)
        /\ activeIds \ {d} \in SUBSET Deliveries
    BY <1>0, <1>4 DEF Complete
  <2>2. Dispatch(activeIds \ {d}, queue \o pendingRecoveryIds, less)
    BY <1>4 DEF Complete
  <2> HIDE DEF less
  <2>3. QED
    BY <2>1, <2>2, DispatchFillsSlots
<1>5. CASE Restart
  BY <1>5 DEF Restart, SlotsAreRunning
<1>6. QED
  BY <1>1, <1>2, <1>3, <1>4, <1>5
     DEF Next, vars, Enqueue, EnqueueRefused, ReclaimLoop, Drain

\* No slot leaks: an id in activeIds has an invocation whose finally block
\* will free it.
THEOREM NoSlotLeaks == Spec => []SlotsAreRunning
<1>1. Init => SlotsAreRunning
  BY DEF Init, SlotsAreRunning
<1>2. QED
  BY <1>1, BoundsInit, BoundsStep, SlotsStep, PTL DEF Spec

\* The limits, the retained ids, the slots and the drains together: each is
\* proved above with the invariant it needs.
THEOREM QueueBooksAgree == Spec => []BooksAgree
BY QueueWithinLimits, RetainedOnce, NoSlotLeaks, NoDrainIsForgotten, PTL DEF BooksAgree

-----------------------------------------------------------------------------
(***************************************************************************)
(* Queued and retained ids are one line.                                   *)
(***************************************************************************)
LEMMA LineOfTwoParts ==
    ASSUME queue \in Seq(Deliveries), pendingRecoveryIds \in Seq(Deliveries)
    PROVE  /\ Line \in Seq(Deliveries)
           /\ Len(Line) = Len(queue) + Len(pendingRecoveryIds)
           /\ \A i \in 1..Len(Line) :
                 Line[i] = IF i <= Len(queue) THEN queue[i]
                           ELSE pendingRecoveryIds[i - Len(queue)]
BY DEF Line

\* A dispatch over a backlog that begins with the line advances the line.
LEMMA DispatchAdvances ==
    ASSUME NEW slots \in SUBSET Deliveries, Cardinality(slots) <= Concurrency,
           NEW backlog \in Seq(Deliveries), NEW invocations \in [Deliveries -> Nat],
           queue \in Seq(Deliveries), pendingRecoveryIds \in Seq(Deliveries),
           Len(Line) <= Len(backlog),
           \A i \in 1..Len(Line) : backlog[i] = Line[i],
           Dispatch(slots, backlog, invocations)
    PROVE  LineAdvances
<1>1. PICK n \in 0..Len(backlog) :
        /\ queue' \in Seq(Deliveries) /\ pendingRecoveryIds' \in Seq(Deliveries)
        /\ activeIds' = slots \cup Started(backlog, n)
        /\ Len(queue') + Len(pendingRecoveryIds') = Len(backlog) - n
        /\ \A i \in 1..Len(queue') : queue'[i] = backlog[n + i]
        /\ \A i \in 1..Len(pendingRecoveryIds') :
              pendingRecoveryIds'[i] = backlog[n + Len(queue') + i]
  BY DispatchResult
<1>2. Len(Line) \in Nat /\ Len(backlog) \in Nat /\ n \in Nat
  BY LineOfTwoParts
<1>3. /\ Len(Line') = Len(backlog) - n
      /\ \A i \in 1..Len(Line') : Line'[i] = backlog[n + i]
  <2>1. /\ Line' = queue' \o pendingRecoveryIds'
        /\ Len(Line') = Len(queue') + Len(pendingRecoveryIds')
    BY <1>1 DEF Line
  <2>2. ASSUME NEW i \in 1..Len(Line') PROVE Line'[i] = backlog[n + i]
    <3>1. CASE i <= Len(queue')
      <4>1. i \in 1..Len(queue')
        BY <1>1, <2>1, <2>2, <3>1
      <4>2. Line'[i] = queue'[i]
        BY <1>1, <2>1, <4>1
      <4>3. QED
        BY <1>1, <4>1, <4>2
    <3>2. CASE i > Len(queue')
      <4>1. i - Len(queue') \in 1..Len(pendingRecoveryIds')
        BY <1>1, <2>1, <2>2, <3>2
      <4>2. Line'[i] = pendingRecoveryIds'[i - Len(queue')]
        BY <1>1, <2>1, <2>2, <3>2, <4>1
      <4>3. n + Len(queue') + (i - Len(queue')) = n + i
        BY <1>1, <1>2
      <4>4. QED
        BY <1>1, <4>1, <4>2, <4>3
    <3>3. QED
      BY <1>1, <2>2, <3>1, <3>2
  <2>3. QED
    BY <1>1, <2>1, <2>2
<1> DEFINE m == IF n <= Len(Line) THEN n ELSE Len(Line)
<1>4. m \in 0..Len(Line) /\ m <= n
  BY <1>2
<1>5. ASSUME NEW i \in 1..m PROVE Line[i] \in activeIds'
  <2>1. i \in 1..n /\ i \in 1..Len(Line)
    BY <1>2, <1>4
  <2>2. QED
    BY <1>1, <2>1 DEF Started
<1>6. ASSUME NEW i \in (m + 1)..Len(Line)
      PROVE  i - m <= Len(Line') /\ Line'[i - m] = Line[i]
  <2>1. m = n /\ i \in 1..Len(Line) /\ i - n \in 1..(Len(backlog) - n)
    BY <1>2, <1>4
  <2>2. i - n \in 1..Len(Line') /\ n + (i - n) = i
    BY <1>2, <1>3, <2>1
  <2>3. Line'[i - n] = backlog[n + (i - n)]
    BY <1>3, <2>2
  <2>4. Line'[i - n] = Line[i] /\ i - n <= Len(Line')
    <3>1. backlog[n + (i - n)] = Line[i]
      BY <2>1, <2>2
    <3>2. QED
      BY <2>2, <2>3, <3>1, <1>2
  <2>5. QED
    BY <2>1, <2>4
<1> HIDE DEF m
<1>7. QED
  BY <1>4, <1>5, <1>6 DEF LineAdvances

\* What an id is refused or retained leaves the line as it is, or longer.
LEMMA RefusalAdvances ==
    ASSUME Bounds, NEW d \in Deliveries, NEW retain \in BOOLEAN, EnqueueRefused(d, retain)
    PROVE  LineAdvances
<1>1. queue \in Seq(Deliveries) /\ pendingRecoveryIds \in Seq(Deliveries)
  BY DEF Bounds, TypeOK
<1>2. queue' = queue /\ pendingRecoveryIds' \in
         {pendingRecoveryIds, Append(pendingRecoveryIds, d)}
  BY DEF EnqueueRefused
<1>3. /\ Len(Line) \in Nat /\ Len(Line') \in Nat /\ Len(Line) <= Len(Line')
      /\ \A i \in 1..Len(Line) : Line'[i] = Line[i]
  <2>1. CASE pendingRecoveryIds' = pendingRecoveryIds
    BY <1>1, <1>2, <2>1 DEF Line
  <2>2. CASE pendingRecoveryIds' = Append(pendingRecoveryIds, d)
    BY <1>1, <1>2, <2>2 DEF Line
  <2>3. QED
    BY <1>2, <2>1, <2>2
<1>4. /\ \A i \in 1..0 : Line[i] \in activeIds'
      /\ \A i \in 1..Len(Line) : i - 0 <= Len(Line') /\ Line'[i - 0] = Line[i]
  BY <1>3
<1>5. QED
  BY <1>3, <1>4 DEF LineAdvances

LEMMA TurnAdvances ==
    ASSUME Bounds, Next, ~UNCHANGED <<queue, pendingRecoveryIds>>, ~Restart
    PROVE  LineAdvances
<1>0. /\ queue \in Seq(Deliveries) /\ pendingRecoveryIds \in Seq(Deliveries)
      /\ activeIds \in SUBSET Deliveries /\ running \in [Deliveries -> Nat]
      /\ IsFiniteSet(activeIds) /\ Cardinality(activeIds) <= Concurrency
      /\ Len(queue) < MaxBacklog => pendingRecoveryIds = <<>>
  BY DeliveriesAreFinite, FS_Subset, LimitsArePositive
     DEF Bounds, TypeOK, WithinLimits, WorkConserving
<1>1. ASSUME NEW d \in Deliveries, NEW retain \in BOOLEAN, EnqueueRefused(d, retain)
      PROVE  LineAdvances
  BY <1>1, RefusalAdvances
<1>2. ASSUME NEW d \in Deliveries, EnqueueAccepted(d)
      PROVE  LineAdvances
  <2> DEFINE backlog == Append(queue, d) \o Without(pendingRecoveryIds, d)
  <2>1. pendingRecoveryIds = <<>> /\ Dispatch(activeIds, backlog, running)
    BY <1>0, <1>2 DEF EnqueueAccepted
  <2>2. backlog = Append(queue, d) /\ Line = queue
    BY <1>0, <2>1, EmptyHasNoElements DEF Line
  <2>3. /\ backlog \in Seq(Deliveries) /\ Len(Line) <= Len(backlog)
        /\ \A i \in 1..Len(Line) : backlog[i] = Line[i]
    BY <1>0, <2>2
  <2> HIDE DEF backlog
  <2>4. QED
    BY <1>0, <2>1, <2>3, DispatchAdvances
<1>3. ASSUME NEW ids \in ReclaimBatches, ReclaimLoop(ids), Len(queue) < MaxBacklog
      PROVE  LineAdvances
  <2> DEFINE taken(fresh) == IF Len(fresh) <= FreePlaces THEN Len(fresh) ELSE FreePlaces
             more(fresh) == SubSeq(fresh, 1, taken(fresh))
             backlog(fresh) == queue \o more(fresh) \o pendingRecoveryIds
  <2>1. PICK fresh \in ReclaimBatches : Dispatch(activeIds, backlog(fresh), running)
    BY <1>3 DEF ReclaimLoop
  <2>2. Cardinality(activeIds) \in Nat
    BY <1>0, FS_CardinalityType
  <2>3. fresh \in Seq(Deliveries) /\ taken(fresh) \in Int /\ taken(fresh) <= Len(fresh)
    <3>1. fresh \in Seq(Deliveries)
      BY BatchesAreLists
    <3>2. FreePlaces \in Int
      BY <1>0, <2>2, LimitsArePositive DEF FreePlaces
    <3>3. Len(fresh) \in Nat
      BY <3>1
    <3>4. QED
      BY <3>1, <3>2, <3>3
  <2>4. more(fresh) \in Seq(Deliveries)
    BY <2>3
  <2> HIDE DEF more
  <2>5. /\ pendingRecoveryIds = <<>> /\ Line = queue
        /\ backlog(fresh) = queue \o more(fresh)
    BY <1>0, <1>3, <2>4 DEF Line
  <2>6. /\ backlog(fresh) \in Seq(Deliveries) /\ Len(Line) <= Len(backlog(fresh))
        /\ \A i \in 1..Len(Line) : backlog(fresh)[i] = Line[i]
    BY <1>0, <2>4, <2>5
  <2> HIDE DEF backlog
  <2>7. QED
    BY <1>0, <2>1, <2>6, DispatchAdvances
<1>4. ASSUME NEW d \in Deliveries, Complete(d)
      PROVE  LineAdvances
  <2> DEFINE slots == activeIds \ {d}
             less == [running EXCEPT ![d] = @ - 1]
  <2>1. slots \in SUBSET Deliveries /\ Cardinality(slots) <= Concurrency
    BY <1>0, FS_Subset, FS_CardinalityType, LimitsArePositive
  <2>2. less \in [Deliveries -> Nat]
    BY <1>0, <1>4 DEF Complete
  <2>3. Line \in Seq(Deliveries) /\ Dispatch(slots, Line, less)
    BY <1>0, <1>4, LineOfTwoParts DEF Complete, Line
  <2>4. Len(Line) <= Len(Line)
    BY <2>3
  <2> HIDE DEF slots, less
  <2>5. QED
    BY <1>0, <2>1, <2>2, <2>3, <2>4, DispatchAdvances
<1>5. QED
  BY <1>1, <1>2, <1>3, <1>4 DEF Next, vars, Enqueue, ReclaimLoop, Drain

LEMMA StillLineAdvances ==
    ASSUME Bounds, UNCHANGED <<queue, pendingRecoveryIds>>
    PROVE  LineAdvances
<1>1. Line' = Line /\ Len(Line) \in Nat
  BY LineOfTwoParts DEF Line, Bounds, TypeOK
<1>2. /\ \A i \in 1..0 : Line[i] \in activeIds'
      /\ \A i \in 1..Len(Line) : i - 0 <= Len(Line') /\ Line'[i - 0] = Line[i]
  BY <1>1
<1>3. QED
  BY <1>1, <1>2 DEF LineAdvances

\* First come, first served: no turn of the event loop drops an id that waits
\* or lets another pass it.  The limits of Bounds are what this rests on:
\* an id is appended to the queue only while nobody is retained.
THEOREM LineIsServedInOrder == Spec => FirstComeFirstServed
<1>1. Bounds /\ [Next]_vars => [Restart \/ LineAdvances]_vars
  BY TurnAdvances, StillLineAdvances DEF vars
<1>2. QED
  BY <1>1, BoundsInit, BoundsStep, PTL DEF Spec, FirstComeFirstServed
=============================================================================
