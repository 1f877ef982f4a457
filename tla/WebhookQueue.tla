---------------------------- MODULE WebhookQueue ----------------------------
(***************************************************************************)
(* The in-process queue that hands recorded webhook deliveries to a        *)
(* bounded number of handler invocations                                   *)
(* (packages/backend/src/commerce/webhook-worker-queue.ts).                *)
(*                                                                         *)
(* JavaScript runs each method without interruption up to its next await,  *)
(* so one action below is one such section, with the dispatch() loop at    *)
(* its end included.                                                       *)
(***************************************************************************)
EXTENDS Naturals, Sequences, FiniteSets

CONSTANTS
    Deliveries,          \* delivery ids
    Concurrency,         \* WebhookWorkerQueue.concurrency
    MaxBacklog,          \* WebhookWorkerQueue.maxBacklog
    MaxPendingRecovery,  \* WebhookWorkerQueue.maxPendingRecovery
    ReclaimBatches,      \* the id lists a reclaimPending() call may fetch, and their parts
    MaxCopies,           \* bound: invocations plus queue entries of one id
    MaxDrains            \* bound: unresolved drain() promises

\* clampPositiveInt gives every limit at least the value 1.
ASSUME LimitsArePositive ==
    /\ Concurrency \in Nat \ {0}
    /\ MaxBacklog \in Nat \ {0}
    /\ MaxPendingRecovery \in Nat \ {0}

ASSUME BatchesAreLists == ReclaimBatches \subseteq Seq(Deliveries)

ASSUME BoundsAreNaturals == MaxCopies \in Nat /\ MaxDrains \in Nat

ASSUME DeliveriesAreFinite == IsFiniteSet(Deliveries)

VARIABLES
    queue,               \* ids waiting for a slot, first in first out
    activeIds,           \* Set of the ids that hold a slot
    pendingRecoveryIds,  \* ids refused by a full queue, in the insertion order of the JavaScript Set
    running,             \* running[d]: invocations of the handler for d that have not returned
    drainResolvers       \* number of drain() promises not resolved yet

vars == <<queue, activeIds, pendingRecoveryIds, running, drainResolvers>>

Elements(s) == {s[i] : i \in 1..Len(s)}

Occurrences(s, d) == Cardinality({i \in 1..Len(s) : s[i] = d})

IsQueuedOrActive(d) == d \in activeIds \cup Elements(queue)

\* Set.prototype.delete: nothing changes when the value is absent.
Without(s, d) ==
    IF d \in Elements(s) THEN SelectSeq(s, LAMBDA x : x # d) ELSE s

-----------------------------------------------------------------------------
(***************************************************************************)
(* dispatch(), with promotePendingRecoveries() inside its loop.            *)
(*                                                                         *)
(* "slots" is activeIds and "backlog" the queue followed by the retained   *)
(* ids when the loop starts.  The loop takes ids from the front until the  *)
(* slots are full or nothing is left; because a slot is a member of a Set, *)
(* an id that already holds one is started again without using another.    *)
(* Every iteration also moves retained ids into the room it makes, so the  *)
(* loop leaves the first MaxBacklog of what it did not start in the queue  *)
(* and the rest retained.  The skip of a retained id that is already       *)
(* queued or active is not written out: RetainedIsNowhereElse, which this  *)
(* definition would break, says it never fires.                            *)
(***************************************************************************)
Started(backlog, n) == {backlog[i] : i \in 1..n}

StopsAfter(slots, backlog, n) ==
    /\ \A m \in 0..(n - 1) :
          Cardinality(slots \cup Started(backlog, m)) < Concurrency
    /\ \/ n = Len(backlog)
       \/ Cardinality(slots \cup Started(backlog, n)) >= Concurrency

Dispatch(slots, backlog, invocations) ==
    \E n \in 0..Len(backlog) :
        /\ StopsAfter(slots, backlog, n)
        /\ LET rest == SubSeq(backlog, n + 1, Len(backlog))
               room == IF Len(rest) <= MaxBacklog THEN Len(rest) ELSE MaxBacklog
           IN /\ queue' = SubSeq(rest, 1, room)
              /\ pendingRecoveryIds' = SubSeq(rest, room + 1, Len(rest))
        /\ activeIds' = slots \cup Started(backlog, n)
        /\ running' = [d \in Deliveries |->
              invocations[d]
                + Cardinality({i \in 1..n : backlog[i] = d})]

-----------------------------------------------------------------------------
Init ==
    /\ queue = <<>>
    /\ activeIds = {}
    /\ pendingRecoveryIds = <<>>
    /\ running = [d \in Deliveries |-> 0]
    /\ drainResolvers = 0

\* enqueue(d, retainForRecovery) when queue.length >= maxBacklog.
EnqueueRefused(d, retain) ==
    /\ Len(queue) >= MaxBacklog
    /\ pendingRecoveryIds' =
          IF /\ retain
             /\ ~IsQueuedOrActive(d)
             /\ d \notin Elements(pendingRecoveryIds)
             /\ Len(pendingRecoveryIds) < MaxPendingRecovery
          THEN Append(pendingRecoveryIds, d)
          ELSE pendingRecoveryIds
    /\ UNCHANGED <<queue, activeIds, running, drainResolvers>>

\* Mutant: enqueue() pushes and leaves dispatch() to the next completion.
PushOnly(d) ==
    /\ Len(queue) < MaxBacklog
    /\ queue' = Append(queue, d)
    /\ pendingRecoveryIds' = Without(pendingRecoveryIds, d)
    /\ UNCHANGED <<activeIds, running, drainResolvers>>

\* enqueue(d) with room in the queue.
EnqueueAccepted(d) ==
    /\ Len(queue) < MaxBacklog
    /\ Dispatch(activeIds, Append(queue, d) \o Without(pendingRecoveryIds, d), running)
    /\ UNCHANGED drainResolvers

Enqueue(d, retain) == EnqueueRefused(d, retain) \/ EnqueueAccepted(d)

(***************************************************************************)
(* The loop of reclaimPending() over the fetched ids.  It skips what is    *)
(* queued or active, enqueues the others in order and stops at the first   *)
(* refusal, and nothing runs between two iterations: together they append  *)
(* as many fresh ids as there are free slots and free queue places.  With  *)
(* a retained id the queue is full, so the first refusal ends the loop.    *)
(***************************************************************************)
FreePlaces ==
    (MaxBacklog - Len(queue)) + (Concurrency - Cardinality(activeIds))

Fresh(ids) == SelectSeq(ids, LAMBDA d : ~IsQueuedOrActive(d))

ReclaimLoop(ids) ==
    IF Len(queue) < MaxBacklog
    THEN \E fresh \in ReclaimBatches :
            /\ fresh = Fresh(ids)
            /\ LET taken == IF Len(fresh) <= FreePlaces THEN Len(fresh) ELSE FreePlaces
               IN Dispatch(activeIds,
                           queue \o SubSeq(fresh, 1, taken) \o pendingRecoveryIds,
                           running)
            /\ UNCHANGED drainResolvers
    ELSE UNCHANGED vars

Idle == queue = <<>> /\ activeIds = {} /\ pendingRecoveryIds = <<>>

\* Mutants of the finally block: it does not dispatch; it looks for an empty
\* queue before it has freed the slot; the retained ids go before the queue.
CompleteOnly(d) ==
    /\ running[d] > 0
    /\ activeIds' = activeIds \ {d}
    /\ running' = [running EXCEPT ![d] = @ - 1]
    /\ UNCHANGED <<queue, pendingRecoveryIds>>
    /\ drainResolvers' = IF Idle' THEN 0 ELSE drainResolvers

CheckDrainFirst(d) ==
    /\ running[d] > 0
    /\ Dispatch(activeIds \ {d}, queue \o pendingRecoveryIds,
                [running EXCEPT ![d] = @ - 1])
    /\ drainResolvers' = IF Idle THEN 0 ELSE drainResolvers

RetainedFirst(d) ==
    /\ running[d] > 0
    /\ Dispatch(activeIds \ {d}, pendingRecoveryIds \o queue,
                [running EXCEPT ![d] = @ - 1])
    /\ drainResolvers' = IF Idle' THEN 0 ELSE drainResolvers

\* The finally block of runWorker(d): free the slot, dispatch, checkDrain.
Complete(d) ==
    /\ running[d] > 0
    /\ Dispatch(activeIds \ {d},
                queue \o pendingRecoveryIds,
                [running EXCEPT ![d] = @ - 1])
    /\ drainResolvers' = IF Idle' THEN 0 ELSE drainResolvers

\* drain(): a promise that is resolved at once when everything is empty.
Drain ==
    /\ ~Idle
    /\ drainResolvers < MaxDrains
    /\ drainResolvers' = drainResolvers + 1
    /\ UNCHANGED <<queue, activeIds, pendingRecoveryIds, running>>

\* The process stops and starts again: all of this state is in memory.
Restart ==
    /\ queue' = <<>>
    /\ activeIds' = {}
    /\ pendingRecoveryIds' = <<>>
    /\ running' = [d \in Deliveries |-> 0]
    /\ drainResolvers' = 0

\* Callers hand one id over again while an earlier entry is still there
\* (see WebhookIntake); MaxCopies bounds how often.
Copies(d) == running[d] + Occurrences(queue, d)

Next ==
    \/ \E d \in Deliveries, retain \in BOOLEAN :
          Copies(d) < MaxCopies /\ Enqueue(d, retain)
    \/ \E ids \in ReclaimBatches : ReclaimLoop(ids)
    \/ \E d \in Deliveries : Complete(d)
    \/ Drain
    \/ Restart

Spec == Init /\ [][Next]_vars

\* A handler invocation returns or throws: processDelivery ends in one of
\* its returns, and its calls to Shopify and the database have timeouts.
FairSpec == Spec /\ \A d \in Deliveries : WF_vars(Complete(d))

-----------------------------------------------------------------------------
TypeOK ==
    /\ queue \in Seq(Deliveries)
    /\ activeIds \in SUBSET Deliveries
    /\ pendingRecoveryIds \in Seq(Deliveries)
    /\ running \in [Deliveries -> Nat]
    /\ drainResolvers \in Nat

\* No limit is exceeded, whatever sequence of calls arrives: the three
\* sizes enqueue(), dispatch() and promotePendingRecoveries() compare with
\* maxBacklog, maxPendingRecovery and concurrency.
WithinLimits ==
    /\ Len(queue) <= MaxBacklog
    /\ Len(pendingRecoveryIds) <= MaxPendingRecovery
    /\ Cardinality(activeIds) <= Concurrency

\* The queue never holds work back: an id waits only while every slot is
\* taken, and an id stays retained only while the queue is full.  Each
\* method must therefore end with dispatch(), and dispatch() must promote
\* after each id it starts.
WorkConserving ==
    /\ queue # <<>> => Cardinality(activeIds) = Concurrency
    /\ pendingRecoveryIds # <<>> => Len(queue) = MaxBacklog

\* A retained id is retained once and is neither queued nor active, so
\* promotePendingRecoveries() never starts a delivery a second time.
RetainedIsNowhereElse ==
    /\ \A i, j \in 1..Len(pendingRecoveryIds) :
          pendingRecoveryIds[i] = pendingRecoveryIds[j] => i = j
    /\ \A i \in 1..Len(pendingRecoveryIds) :
          ~IsQueuedOrActive(pendingRecoveryIds[i])

\* Every slot belongs to an invocation that has not returned, so no slot
\* leaks, however often an id was started.
SlotsAreRunning == \A d \in activeIds : running[d] > 0

\* checkDrain() leaves no caller of drain() waiting for an empty queue.
NoForgottenDrain == drainResolvers > 0 => ~Idle

\* What the queue keeps of its ids agrees, and with the invocations that run:
\* four books that six methods update by hand, in the middle of one another.
BooksAgree ==
    /\ WithinLimits
    /\ RetainedIsNowhereElse
    /\ SlotsAreRunning
    /\ NoForgottenDrain

\* First come, first served, and nobody is dropped: each turn starts the ids
\* at the front of what waits and leaves the others in their order, ahead of
\* whatever arrives.  Queued and retained ids are one line, although
\* enqueue(), the reclaim and the promotion each add to another part of it;
\* only a restart forgets them.
Line == queue \o pendingRecoveryIds

LineAdvances ==
    \E n \in 0..Len(Line) :
        /\ \A i \in 1..n : Line[i] \in activeIds'
        /\ \A i \in (n + 1)..Len(Line) : i - n <= Len(Line') /\ Line'[i - n] = Line[i]

FirstComeFirstServed == [][Restart \/ LineAdvances]_vars

\* Every id the queue took or retained gets its handler invocation (or is
\* forgotten by a restart), in spite of other ids arriving forever: queue
\* and retained ids are first in, first out.
Waiting(d) == d \in Elements(queue) \cup Elements(pendingRecoveryIds)

EveryAcceptedIdIsHandled ==
    \A d \in Deliveries : Waiting(d) ~> (running[d] > 0 \/ Idle)
=============================================================================
