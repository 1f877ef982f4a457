---------------------------- MODULE DropTransfer ----------------------------
(***************************************************************************)
(* Dropping, transferring and promoting registrations: DropTransferService *)
(* and its AsyncLock (registration/drop-transfer-service.ts), over the     *)
(* class_entitlements and refund_events tables.  The HTTP requests of one  *)
(* server process interleave at every await: between a read and the        *)
(* compare-and-set that follows it, between cancelling a registration and  *)
(* giving its seat to the first one waiting, while queueing for the lock.  *)
(*                                                                         *)
(* A request is identified by the slot it occupies and is never reused, so *)
(* |Requests| bounds a behaviour's length.  The whole registration row is  *)
(* its class and its status; the change log, which nothing reads back, is  *)
(* left out, though writing it can fail like any other query.              *)
(***************************************************************************)
EXTENDS Naturals, FiniteSets

CONSTANTS
    Registrations,  \* class entitlements
    Classes,        \* festival classes, all of one festival
    Capacity,       \* [Classes -> Nat], the configured seats
    StartClass,     \* [Registrations -> Classes], the class bought
    Rank,           \* [Registrations -> Nat], the order of created_at, id
    Requests,       \* HTTP requests, one shot each
    Nobody,         \* no registration and no request
    NoClass,        \* no class
    MaxFaults       \* failing queries in a behaviour

ASSUME RegistrationShape ==
    /\ IsFiniteSet(Registrations)
    /\ Capacity \in [Classes -> Nat]
    /\ StartClass \in [Registrations -> Classes]
    /\ Rank \in [Registrations -> Nat]
    /\ \A d, e \in Registrations : Rank[d] = Rank[e] => d = e
    /\ Nobody \notin Registrations \cup Requests
    /\ NoClass \notin Classes
    /\ MaxFaults \in Nat

VARIABLES
    class,     \* class[e]: festival_class_id
    status,    \* status[e]: "confirmed", "waitlisted" or "cancelled"
    refunds,   \* refunds[e]: how many refund events e has
    work,      \* work[r]: the request in slot r and what it has read
    tail,      \* tail[k]: AsyncLock.queues, the last to ask for lock k
    released,  \* requests whose lock promise is resolved
    faults     \* queries that have failed

vars == <<class, status, refunds, work, tail, released, faults>>
rows == <<class, status, refunds>>
locks == <<tail, released>>

\* Mutant: a cancelled registration can be dropped as well.
AnyStatus == {"confirmed", "waitlisted", "cancelled"}

\* The statuses that can be dropped or transferred.
Active == {"confirmed", "waitlisted"}

Confirmed(c) == {e \in Registrations : class[e] = c /\ status[e] = "confirmed"}
Waitlisted(c) == {e \in Registrations : class[e] = c /\ status[e] = "waitlisted"}

\* The first in line of a set of registrations.
First(S) == CHOOSE e \in S : \A d \in S : Rank[e] <= Rank[d]

-----------------------------------------------------------------------------
(* Requests *)

Kinds == {"none", "drop", "transfer", "promotion"}
Steps == {"free", "asking", "queued", "running", "cancelling", "counting",
          "moving", "listing", "promoting", "refunding", "ending", "done"}

\* seen is the status read, source the class read, awaits the requests queued
\* ahead, top the registration to promote, place the status a transfer gives.
Idle == [kind |-> "none", reg |-> Nobody, source |-> NoClass, target |-> NoClass,
         seen |-> "cancelled", place |-> "cancelled", top |-> Nobody,
         awaits |-> {}, step |-> "free"]

\* Each class starts with as many confirmed registrations as it has seats,
\* the earliest; the later ones wait.
Init ==
    /\ class = StartClass
    /\ status = [e \in Registrations |->
          IF Cardinality({d \in Registrations :
                StartClass[d] = StartClass[e] /\ Rank[d] < Rank[e]}) < Capacity[StartClass[e]]
          THEN "confirmed" ELSE "waitlisted"]
    /\ refunds = [e \in Registrations |-> 0]
    /\ work = [r \in Requests |-> Idle]
    /\ tail = [k \in Registrations \cup Classes |-> Nobody]
    /\ released = {}
    /\ faults = 0

At(r, step) == work[r].step = step
Go(r, step) == work' = [work EXCEPT ![r].step = step]

-----------------------------------------------------------------------------
(* AsyncLock *)

\* Mutant of transferRegistration: the capacities are not locked.
EntitlementKey(w) == {w.reg}

\* A drop locks the entitlement; a transfer locks it with the capacity of its
\* target and of the class it was first read in.
LockKeys(w) == {w.reg} \cup IF w.kind = "transfer" THEN {w.target, w.source} ELSE {}

\* Mutant of acquire: it waits for one of the queues only.
AcquireOne(r, w) ==
    /\ work' = [work EXCEPT ![r] =
          [w EXCEPT !.step = "queued", !.awaits = {tail[w.reg]} \ {Nobody}]]
    /\ tail' = [k \in DOMAIN tail |-> IF k \in LockKeys(w) THEN r ELSE tail[k]]
    /\ UNCHANGED released

\* AsyncLock.acquire: w takes the tail of all its queues in one go and awaits
\* those it found there.
Acquire(r, w) ==
    /\ work' = [work EXCEPT ![r] =
          [w EXCEPT !.step = "queued", !.awaits = {tail[k] : k \in LockKeys(w)} \ {Nobody}]]
    /\ tail' = [k \in DOMAIN tail |-> IF k \in LockKeys(w) THEN r ELSE tail[k]]
    /\ UNCHANGED released

\* Mutant of acquire: no finally, a request that throws keeps its locks.
FinishOnReturn(r) ==
    /\ Go(r, "done")
    /\ IF At(r, "ending")
       THEN /\ tail' = [k \in DOMAIN tail |-> IF tail[k] = r THEN Nobody ELSE tail[k]]
            /\ released' = released \cup {r}
       ELSE UNCHANGED locks

\* The end of a request, by return or by throw: the finally block of acquire
\* removes the queues it is still the tail of and resolves its promise.
Finish(r) ==
    /\ Go(r, "done")
    /\ tail' = [k \in DOMAIN tail |-> IF tail[k] = r THEN Nobody ELSE tail[k]]
    /\ released' = released \cup {r}

-----------------------------------------------------------------------------
(* Requests arrive *)

New(kind, e) == [Idle EXCEPT !.kind = kind, !.reg = e]

\* dropRegistration asks for the entitlement's lock.
Drop(r, e) ==
    /\ At(r, "free")
    /\ Acquire(r, New("drop", e))
    /\ UNCHANGED <<rows, faults>>

\* transferRegistration reads the entitlement before it holds any lock and
\* refuses the class it is already in and a dropped registration.
Transfer(r, e, c) ==
    /\ At(r, "free")
    /\ class[e] # c /\ status[e] \in Active
    /\ work' = [work EXCEPT ![r] = [New("transfer", e) EXCEPT
                    !.target = c, !.source = class[e], !.step = "asking"]]
    /\ UNCHANGED <<rows, locks, faults>>

\* The target's capacity is resolved, then the locks are asked for: those of
\* the class read above.
AskForLocks(r) ==
    /\ At(r, "asking")
    /\ Acquire(r, work[r])
    /\ UNCHANGED <<rows, faults>>

\* promoteRegistration, the administrator's promotion, takes no lock: it reads
\* the status here and writes it in Promote.
PromoteManually(r, e) ==
    /\ At(r, "free")
    /\ status[e] = "waitlisted"
    /\ work' = [work EXCEPT ![r] = [New("promotion", e) EXCEPT
                    !.seen = "waitlisted", !.top = e, !.step = "promoting"]]
    /\ UNCHANGED <<rows, locks, faults>>

-----------------------------------------------------------------------------
(* Under the lock *)

\* Promise.all of the tails found has resolved.
Enter(r) ==
    /\ At(r, "queued") /\ work[r].awaits \subseteq released
    /\ Go(r, "running")
    /\ UNCHANGED <<rows, locks, faults>>

\* Both operations read the entitlement again and refuse a dropped one.  A drop
\* takes the class from this read; a transfer keeps that of its first read.
ReadAgain(r) ==
    LET w == work[r] IN
    /\ At(r, "running")
    /\ IF status[w.reg] \notin Active
       THEN Finish(r)
       ELSE /\ work' = [work EXCEPT ![r] = [w EXCEPT
                  !.seen = status[w.reg],
                  !.source = IF w.kind = "drop" THEN class[w.reg] ELSE @,
                  !.step = IF w.kind = "drop" THEN "cancelling" ELSE "counting"]]
            /\ UNCHANGED locks
    /\ UNCHANGED <<rows, faults>>

\* A confirmed registration that leaves its class gives its seat to the next.
AfterLeaving(r) == Go(r, IF work[r].seen = "confirmed" THEN "listing" ELSE "ending")

\* updateClassEntitlement with the expected statuses: the row becomes
\* cancelled if it still is active.  A registration that was read as waitlisted
\* frees no seat and gets no refund.
Cancel(r) ==
    LET e == work[r].reg IN
    /\ At(r, "cancelling")
    /\ IF status[e] \in Active
       THEN /\ status' = [status EXCEPT ![e] = "cancelled"]
            /\ AfterLeaving(r)
            /\ UNCHANGED locks
       ELSE Finish(r) /\ UNCHANGED status
    /\ UNCHANGED <<class, refunds, faults>>

\* Mutant: "<=" for "<" in the comparison with the capacity.
CountOneMore(r) ==
    LET c == work[r].target IN
    /\ At(r, "counting")
    /\ work' = [work EXCEPT
          ![r].place = IF Cardinality(Confirmed(c)) <= Capacity[c] THEN "confirmed"
                       ELSE "waitlisted",
          ![r].step = "moving"]
    /\ UNCHANGED <<rows, locks, faults>>

\* The confirmed registrations of the target decide the status to move with.
Count(r) ==
    LET c == work[r].target IN
    /\ At(r, "counting")
    /\ work' = [work EXCEPT
          ![r].place = IF Cardinality(Confirmed(c)) < Capacity[c] THEN "confirmed"
                       ELSE "waitlisted",
          ![r].step = "moving"]
    /\ UNCHANGED <<rows, locks, faults>>

\* updateClassEntitlement: class and status together, if the row is active.
Move(r) ==
    LET w == work[r] IN
    /\ At(r, "moving")
    /\ IF status[w.reg] \in Active
       THEN /\ class' = [class EXCEPT ![w.reg] = w.target]
            /\ status' = [status EXCEPT ![w.reg] = w.place]
            /\ AfterLeaving(r)
            /\ UNCHANGED locks
       ELSE Finish(r) /\ UNCHANGED <<class, status>>
    /\ UNCHANGED <<refunds, faults>>

\* After the promotion: a drop may have been asked to refund.
AfterPromotion(r) == IF work[r].kind = "drop" THEN "refunding" ELSE "ending"

\* promoteTopWaitlisted, first query: the first in line of the class left.
List(r) ==
    LET line == Waitlisted(work[r].source) IN
    /\ At(r, "listing")
    /\ IF line = {}
       THEN Go(r, AfterPromotion(r))
       ELSE work' = [work EXCEPT ![r].top = First(line), ![r].step = "promoting"]
    /\ UNCHANGED <<rows, locks, faults>>

\* promoteTopWaitlisted, second query, and promoteRegistration: an update
\* without an expected status.
Promote(r) ==
    /\ At(r, "promoting")
    /\ status' = [status EXCEPT ![work[r].top] = "confirmed"]
    /\ Go(r, AfterPromotion(r))
    /\ UNCHANGED <<class, refunds, locks, faults>>

\* processDropRefund, if the drop asked for one: a refund event is recorded
\* whether or not the provider can carry it out.
Refund(r) ==
    /\ At(r, "refunding")
    /\ \/ refunds' = [refunds EXCEPT ![work[r].reg] = @ + 1]
       \/ UNCHANGED refunds
    /\ Go(r, "ending")
    /\ UNCHANGED <<class, status, locks, faults>>

Return(r) ==
    /\ At(r, "ending")
    /\ Finish(r)
    /\ UNCHANGED <<rows, faults>>

\* A query throws (or the amount to refund is refused, before the update):
\* what is done stays done and the locks are released.
Throw(r) ==
    /\ work[r].step \notin {"free", "queued", "done"} /\ faults < MaxFaults
    /\ Finish(r)
    /\ faults' = faults + 1
    /\ UNCHANGED rows

-----------------------------------------------------------------------------
(* The specification *)

Begin(r) ==
    \E e \in Registrations :
        \/ Drop(r, e)
        \/ \E c \in Classes : Transfer(r, e, c)
        \/ PromoteManually(r, e)

Continue(r) ==
    \/ AskForLocks(r)
    \/ Enter(r)
    \/ ReadAgain(r)
    \/ Cancel(r)
    \/ Count(r)
    \/ Move(r)
    \/ List(r)
    \/ Promote(r)
    \/ Refund(r)
    \/ Return(r)

Next == \E r \in Requests : Begin(r) \/ Continue(r) \/ Throw(r)

Spec == Init /\ [][Next]_vars

\* Whoever has an answer goes on.  That a request begins, and that a query
\* fails, is not fair.
FairSpec == Spec /\ \A r \in Requests : WF_vars(Continue(r))

-----------------------------------------------------------------------------
(* Properties *)

\* Every row has one of the schema's statuses, every request a known step.
TypeOK ==
    /\ class \in [Registrations -> Classes]
    /\ status \in [Registrations -> {"confirmed", "waitlisted", "cancelled"}]
    /\ refunds \in [Registrations -> Nat]
    /\ work \in [Requests ->
          [kind : Kinds, reg : Registrations \cup {Nobody},
           source : Classes \cup {NoClass}, target : Classes \cup {NoClass},
           seen : Active \cup {"cancelled"}, place : Active \cup {"cancelled"},
           top : Registrations \cup {Nobody}, awaits : SUBSET Requests, step : Steps]]
    /\ tail \in [Registrations \cup Classes -> Requests \cup {Nobody}]
    /\ released \subseteq Requests
    /\ faults \in 0..MaxFaults

\* r is inside the function it gave to acquire.
Inside(r) ==
    /\ work[r].kind \in {"drop", "transfer"}
    /\ work[r].step \notin {"free", "asking", "queued", "done"}

\* AsyncLock is a lock: two requests that ask for a common key are never both
\* inside, however many keys each asks for and in whatever order they came.
LockExcludes ==
    \A q, r \in Requests :
        /\ q # r /\ Inside(q) /\ Inside(r)
        => LockKeys(work[q]) \cap LockKeys(work[r]) = {}

Begun(kind) == {r \in Requests : work[r].kind = kind}
Overbooked(c) == Cardinality(Confirmed(c)) > Capacity[c]

\* While registrations are only dropped, no class gets more confirmed
\* registrations than seats, though drops of one class share no lock, may
\* pick the same registration to promote and may promote a dropped one.
DropsNeverOverbook ==
    Begun("transfer") \cup Begun("promotion") = {} =>
        \A c \in Classes : ~Overbooked(c)

\* While different registrations are transferred, the lock on both capacities
\* keeps every class within its seats.
TransfersNeverOverbook ==
    /\ Begun("drop") \cup Begun("promotion") = {}
    /\ \A q, r \in Begun("transfer") : work[q].reg = work[r].reg => q = r
    => \A c \in Classes : ~Overbooked(c)

\* Within its own kind, every change keeps the seats; drops beside transfers
\* do not (TransferTargetWithinCapacity).
ChangesKeepTheSeats == DropsNeverOverbook /\ TransfersNeverOverbook

\* Only a promotion, which holds no capacity lock, overbooks a class: without
\* the registrations that promotions have picked, no class has more than its
\* seats, however drops, transfers of the same and of other registrations,
\* administrators and failures interleave.
Picked == {work[r].top : r \in Requests}

OverbookedByPromotionOnly ==
    \A c \in Classes : Cardinality(Confirmed(c) \ Picked) <= Capacity[c]

\* A registration no promotion has picked is refunded at most once, however
\* often and by whoever it is dropped.
RefundedOnce ==
    \A e \in Registrations :
        (\A r \in Requests : work[r].top # e) => refunds[e] <= 1

\* Nobody waits for ever for a lock: whoever is queued awaits only requests
\* that have not finished, and they do not all await one another, though each
\* request takes up to three queues and any of them may throw.
NobodyWaitsInVain ==
    LET queued == {r \in Requests : At(r, "queued")} IN
    /\ \A r \in queued : \A q \in work[r].awaits \ released : q \in queued \/ Inside(q)
    /\ queued # {} =>
          \E r \in Requests : Inside(r) \/ (r \in queued /\ work[r].awaits \subseteq released)

\* AsyncLock does what its callers rely on, whatever keys they ask for and
\* whichever of them throw: it keeps them apart and lets all of them in.
LockServes == LockExcludes /\ NobodyWaitsInVain

\* Every request ends: it gets the locks it asks for, behind whatever drops and
\* transfers were queued before it, failed ones included.
EveryChangeEnds ==
    \A r \in Requests : ~At(r, "free") ~> At(r, "done")

\* "serializes concurrent transfers to enforce target class capacity limit
\* strictly without overbooking": no class that a finished transfer moved into
\* has more confirmed registrations than seats, unless an administrator
\* promoted somebody.
TransferTargetWithinCapacity ==
    Begun("promotion") = {} =>
        \A r \in Begun("transfer") : At(r, "done") => ~Overbooked(work[r].target)
=============================================================================
