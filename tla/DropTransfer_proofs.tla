------------------------ MODULE DropTransfer_proofs ------------------------
(***************************************************************************)
(* Proofs about DropTransfer, for any registrations, classes, capacities   *)
(* and faults and any number of requests at the same time.                 *)
(***************************************************************************)
EXTENDS DropTransfer, FiniteSetTheorems, TLAPS

(***************************************************************************)
(* What a request has read, and the steps of each kind of request.         *)
(***************************************************************************)
Knows(r) ==
    LET w == work[r] IN
    /\ w.step = "free" => w = Idle
    /\ w.step # "free" => w.kind # "none" /\ w.reg \in Registrations
    /\ w.kind = "transfer" => w.source \in Classes /\ w.target \in Classes /\ w.source # w.target
    /\ w.kind = "promotion" => w.step \in {"promoting", "ending", "done"}
    /\ w.step = "asking" => w.kind = "transfer"
    /\ w.step \in {"cancelling", "refunding"} => w.kind = "drop"
    /\ w.step \in {"counting", "moving"} => w.kind = "transfer"
    /\ w.step \in {"cancelling", "listing"} => w.source \in Classes
    /\ w.step = "promoting" => w.top \in Registrations
    /\ w.step \in {"free", "asking", "queued", "running", "cancelling", "counting", "moving", "listing"}
          => w.top = Nobody
    /\ w.step = "moving" => w.place \in Active
    /\ w.step = "done" <=> r \in released
RequestsKnow == \A r \in Requests : Knows(r)

IInv1 == TypeOK /\ RequestsKnow

Records ==
    [kind : Kinds, reg : Registrations \cup {Nobody},
     source : Classes \cup {NoClass}, target : Classes \cup {NoClass},
     seen : Active \cup {"cancelled"}, place : Active \cup {"cancelled"},
     top : Registrations \cup {Nobody}, awaits : SUBSET Requests, step : Steps]

-----------------------------------------------------------------------------
LEMMA SmallestExists ==
  ASSUME NEW T, T \subseteq Nat, T # {}
  PROVE  \E m \in T : \A n \in T : m <= n
<1> DEFINE R == OpToRel(<, Nat)
<1>1. PICK m \in T : \A n \in T : ~(<<n, m>> \in R)
  <2> HIDE DEF R
  <2> QED BY NatLessThanWellFounded, WFMin DEF R
<1>2. \A n \in T : ~(n < m)
  BY <1>1 DEF OpToRel
<1> QED BY <1>2

\* The first in line is one of the line.
LEMMA FirstIsInLine ==
  ASSUME NEW S, S \subseteq Registrations, S # {}
  PROVE  First(S) \in S
<1> DEFINE T == {Rank[e] : e \in S}
<1>1. T \subseteq Nat /\ T # {}
  BY RegistrationShape
<1>2. PICK m \in T : \A n \in T : m <= n
  <2> HIDE DEF T
  <2> QED BY <1>1, SmallestExists
<1>3. \E e \in S : \A d \in S : Rank[e] <= Rank[d]
  BY <1>2
<1> QED BY <1>3 DEF First

LEMMA IdleIsTyped == Idle \in Records /\ Idle.step = "free" /\ Idle.kind = "none" /\ Idle.top = Nobody
BY DEF Idle, Records, Kinds, Steps

\* An update of one slot.
LEMMA OneSlot ==
  ASSUME TypeOK, NEW r \in Requests, NEW w, work' = [work EXCEPT ![r] = w]
  PROVE  work'[r] = w /\ \A q \in Requests : q # r => work'[q] = work[q]
BY DEF TypeOK

LEMMA SlotsAreTyped == ASSUME TypeOK, NEW r \in Requests PROVE work[r] \in Records
BY DEF TypeOK, Records

LEMMA TypeRewritten ==
  TypeOK <=>
    /\ class \in [Registrations -> Classes]
    /\ status \in [Registrations -> {"confirmed", "waitlisted", "cancelled"}]
    /\ refunds \in [Registrations -> Nat]
    /\ work \in [Requests -> Records]
    /\ tail \in [Registrations \cup Classes -> Requests \cup {Nobody}]
    /\ released \subseteq Requests
    /\ faults \in 0..MaxFaults
BY DEF TypeOK, Records

(***************************************************************************)
(* Types and what requests know.                                           *)
(***************************************************************************)
\* Knows(r), spelled out for the record w that a step gives to r.
KnowsAs(r, w, done) ==
    /\ w.step = "free" => w = Idle
    /\ w.step # "free" => w.kind # "none" /\ w.reg \in Registrations
    /\ w.kind = "transfer" => w.source \in Classes /\ w.target \in Classes /\ w.source # w.target
    /\ w.kind = "promotion" => w.step \in {"promoting", "ending", "done"}
    /\ w.step = "asking" => w.kind = "transfer"
    /\ w.step \in {"cancelling", "refunding"} => w.kind = "drop"
    /\ w.step \in {"counting", "moving"} => w.kind = "transfer"
    /\ w.step \in {"cancelling", "listing"} => w.source \in Classes
    /\ w.step = "promoting" => w.top \in Registrations
    /\ w.step \in {"free", "asking", "queued", "running", "cancelling", "counting", "moving", "listing"}
          => w.top = Nobody
    /\ w.step = "moving" => w.place \in Active
    /\ w.step = "done" <=> r \in done

LEMMA KnowsIsKnowsAs ==
  ASSUME NEW r \in Requests
  PROVE  /\ Knows(r) <=> KnowsAs(r, work[r], released)
         /\ Knows(r)' <=> KnowsAs(r, work'[r], released')
BY DEF Knows, KnowsAs

LEMMA SlotStep ==
  ASSUME IInv1, NEW r \in Requests, NEW w \in Records, work' = [work EXCEPT ![r] = w],
         NEW done, released' = done, \A q \in Requests : q # r => (q \in done <=> q \in released),
         KnowsAs(r, w, done)
  PROVE  work' \in [Requests -> Records] /\ RequestsKnow'
<1>1. work'[r] = w /\ \A q \in Requests : q # r => work'[q] = work[q]
  BY OneSlot DEF IInv1
<1>2. ASSUME NEW q \in Requests PROVE Knows(q)'
  <2>1. CASE q = r
    BY <1>1, <2>1, KnowsIsKnowsAs
  <2>2. CASE q # r
    <3>1. KnowsAs(q, work[q], released)
      BY KnowsIsKnowsAs DEF IInv1, RequestsKnow
    <3>2. KnowsAs(q, work[q], released')
      BY <2>2, <3>1 DEF KnowsAs
    <3> QED BY <1>1, <2>2, <3>2, KnowsIsKnowsAs
  <2> QED BY <2>1, <2>2
<1>3. work' \in [Requests -> Records]
  BY TypeRewritten DEF IInv1
<1> QED BY <1>2, <1>3 DEF RequestsKnow

\* A step within the request: what w keeps and what it changes.
LEMMA InnerStep ==
  ASSUME IInv1, NEW r \in Requests, NEW w \in Records, work' = [work EXCEPT ![r] = w],
         released' = released, work[r].step # "done", w.step # "done", KnowsAs(r, w, {})
  PROVE  work' \in [Requests -> Records] /\ RequestsKnow'
<1>1. r \notin released
  BY DEF IInv1, RequestsKnow, Knows
<1>2. KnowsAs(r, w, released)
  BY <1>1 DEF KnowsAs
<1> QED BY <1>2, SlotStep

LEMMA FinishKnows ==
  ASSUME IInv1, NEW r \in Requests, Finish(r), work[r].step # "free"
  PROVE  /\ work' \in [Requests -> Records] /\ RequestsKnow'
         /\ tail' \in [Registrations \cup Classes -> Requests \cup {Nobody}]
         /\ released' \subseteq Requests
<1> DEFINE w == [work[r] EXCEPT !.step = "done"]
<1>1. work[r] \in Records
  BY SlotsAreTyped DEF IInv1
<1>2. w \in Records /\ w.step = "done" /\ w.kind = work[r].kind /\ w.reg = work[r].reg
      /\ w.source = work[r].source /\ w.target = work[r].target
  BY <1>1 DEF Records, Steps
<1>3. KnowsAs(r, work[r], released)
  BY KnowsIsKnowsAs DEF IInv1, RequestsKnow
<1>4. work' = [work EXCEPT ![r] = w] /\ released' = released \cup {r}
  BY DEF Finish, Go
<1> HIDE DEF w
<1>5. KnowsAs(r, w, released \cup {r})
  BY <1>2, <1>3 DEF KnowsAs
<1>6. work' \in [Requests -> Records] /\ RequestsKnow'
  BY <1>2, <1>4, <1>5, SlotStep
<1> QED BY <1>6, TypeRewritten DEF Finish, IInv1

\* Asking for the locks.
LEMMA AcquireKnows ==
  ASSUME IInv1, NEW r \in Requests, NEW w \in Records, Acquire(r, w), work[r].step # "done",
         w.kind \in {"drop", "transfer"}, w.reg \in Registrations, w.top = Nobody,
         w.kind = "transfer" => w.source \in Classes /\ w.target \in Classes /\ w.source # w.target
  PROVE  /\ work' \in [Requests -> Records] /\ RequestsKnow'
         /\ tail' \in [Registrations \cup Classes -> Requests \cup {Nobody}]
<1> DEFINE a == {tail[k] : k \in LockKeys(w)} \ {Nobody}
           v == [w EXCEPT !.step = "queued", !.awaits = a]
<1>1. LockKeys(w) \subseteq Registrations \cup Classes
  BY DEF LockKeys
<1>2. a \subseteq Requests
  BY <1>1 DEF IInv1, TypeOK
<1>3. work' = [work EXCEPT ![r] = v] /\ released' = released
  BY DEF Acquire
<1> HIDE DEF a
<1>4. v \in Records /\ v.step = "queued" /\ v.kind = w.kind /\ v.reg = w.reg /\ v.top = w.top
      /\ v.source = w.source /\ v.target = w.target
  BY <1>2 DEF Records, Steps
<1> HIDE DEF v
<1>5. KnowsAs(r, v, {})
  BY <1>4 DEF KnowsAs
<1>6. work' \in [Requests -> Records] /\ RequestsKnow'
  BY <1>3, <1>4, <1>5, InnerStep
<1>7. tail' \in [Registrations \cup Classes -> Requests \cup {Nobody}]
  BY DEF Acquire, IInv1, TypeOK
<1> QED BY <1>6, <1>7

LEMMA NewIsTyped ==
  ASSUME NEW kind \in {"drop", "transfer", "promotion"}, NEW e \in Registrations
  PROVE  /\ New(kind, e) \in Records /\ New(kind, e).kind = kind /\ New(kind, e).reg = e
         /\ New(kind, e).top = Nobody
<1>1. Idle.top = Nobody /\ Idle \in Records
  BY IdleIsTyped
<1> QED BY <1>1 DEF New, Records, Kinds

LEMMA TypesStep == IInv1 /\ [Next]_vars => IInv1'
<1> SUFFICES ASSUME IInv1, [Next]_vars PROVE IInv1'
  OBVIOUS
<1>t. TypeOK /\ RequestsKnow /\ \A r \in Requests : work[r] \in Records /\ KnowsAs(r, work[r], released)
  BY SlotsAreTyped, KnowsIsKnowsAs DEF IInv1, RequestsKnow
<1>a. ASSUME work' \in [Requests -> Records], RequestsKnow', UNCHANGED <<rows, locks, faults>>
      PROVE  IInv1'
  BY <1>a, <1>t, TypeRewritten DEF IInv1, TypeOK, Records, rows, locks
<1>b. ASSUME work' \in [Requests -> Records], RequestsKnow', TypeOK,
             class' \in [Registrations -> Classes],
             status' \in [Registrations -> {"confirmed", "waitlisted", "cancelled"}],
             refunds' \in [Registrations -> Nat],
             tail' \in [Registrations \cup Classes -> Requests \cup {Nobody}],
             released' \subseteq Requests, faults' \in 0..MaxFaults
      PROVE  IInv1'
  BY <1>b DEF IInv1, TypeOK, Records
<1>c. TypeOK => /\ class \in [Registrations -> Classes]
                /\ status \in [Registrations -> {"confirmed", "waitlisted", "cancelled"}]
                /\ refunds \in [Registrations -> Nat]
                /\ tail \in [Registrations \cup Classes -> Requests \cup {Nobody}]
                /\ released \subseteq Requests /\ faults \in 0..MaxFaults
  BY DEF TypeOK
\* A request that finishes, whatever row it has changed before.
<1>f. ASSUME NEW r \in Requests, Finish(r), work[r].step # "free", UNCHANGED rows,
             faults' \in 0..MaxFaults
      PROVE  IInv1'
  BY <1>b, <1>c, <1>f, <1>t, FinishKnows DEF rows, IInv1
\* A step within request r that leaves the locks alone.
<1>s. ASSUME NEW r \in Requests, NEW w \in Records, work' = [work EXCEPT ![r] = w],
             UNCHANGED <<locks, faults>>, work[r].step # "done", w.step # "done", KnowsAs(r, w, {}),
             class' \in [Registrations -> Classes],
             status' \in [Registrations -> {"confirmed", "waitlisted", "cancelled"}],
             refunds' \in [Registrations -> Nat]
      PROVE  IInv1'
  <2>1. released' = released /\ tail' = tail /\ faults' = faults
    BY <1>s DEF locks
  <2>2. work' \in [Requests -> Records] /\ RequestsKnow'
    BY <1>s, <2>1, InnerStep
  <2> QED BY <1>b, <1>c, <1>s, <1>t, <2>1, <2>2
<1>1. ASSUME NEW r \in Requests, NEW e \in Registrations, Drop(r, e) PROVE IInv1'
  <2>1. New("drop", e) \in Records /\ New("drop", e).kind = "drop" /\ New("drop", e).reg = e
        /\ New("drop", e).top = Nobody
    BY NewIsTyped
  <2>2. Acquire(r, New("drop", e)) /\ work[r].step = "free"
    BY <1>1 DEF Drop, At
  <2>3. /\ work' \in [Requests -> Records] /\ RequestsKnow'
        /\ tail' \in [Registrations \cup Classes -> Requests \cup {Nobody}]
    BY <2>1, <2>2, AcquireKnows
  <2> QED BY <1>1, <1>b, <1>c, <1>t, <2>3 DEF Drop, Acquire, rows
<1>2. ASSUME NEW r \in Requests, NEW e \in Registrations, NEW c \in Classes, Transfer(r, e, c)
      PROVE  IInv1'
  <2> DEFINE n == New("transfer", e)
             w == [n EXCEPT !.target = c, !.source = class[e], !.step = "asking"]
  <2>1. n \in Records /\ n.kind = "transfer" /\ n.reg = e /\ n.top = Nobody
    BY NewIsTyped
  <2> HIDE DEF n
  <2>2. class[e] \in Classes /\ class[e] # c
    BY <1>2, <1>t DEF Transfer, TypeOK
  <2>3. w \in Records /\ w.kind = "transfer" /\ w.reg = e /\ w.top = Nobody /\ w.target = c
        /\ w.source = class[e] /\ w.step = "asking"
    BY <2>1, <2>2 DEF Records, Steps
  <2>4. work' = [work EXCEPT ![r] = w] /\ UNCHANGED <<rows, locks, faults>> /\ work[r].step = "free"
    BY <1>2 DEF Transfer, n, At
  <2> HIDE DEF w
  <2>5. KnowsAs(r, w, {})
    BY <2>2, <2>3 DEF KnowsAs
  <2> QED BY <1>c, <1>s, <1>t, <2>3, <2>4, <2>5 DEF rows
<1>3. ASSUME NEW r \in Requests, AskForLocks(r) PROVE IInv1'
  <2>1. Acquire(r, work[r]) /\ work[r].step = "asking"
    BY <1>3 DEF AskForLocks, At
  <2>2. work[r] \in Records /\ KnowsAs(r, work[r], released)
    BY <1>t
  <2>3. /\ work' \in [Requests -> Records] /\ RequestsKnow'
        /\ tail' \in [Registrations \cup Classes -> Requests \cup {Nobody}]
    BY <2>1, <2>2, AcquireKnows DEF KnowsAs
  <2> QED BY <1>3, <1>b, <1>c, <1>t, <2>3 DEF AskForLocks, Acquire, rows
<1>4. ASSUME NEW r \in Requests, NEW e \in Registrations, PromoteManually(r, e) PROVE IInv1'
  <2> DEFINE n == New("promotion", e)
             w == [n EXCEPT !.seen = "waitlisted", !.top = e, !.step = "promoting"]
  <2>1. n \in Records /\ n.kind = "promotion" /\ n.reg = e
    BY NewIsTyped
  <2> HIDE DEF n
  <2>2. w \in Records /\ w.kind = "promotion" /\ w.reg = e /\ w.top = e /\ w.step = "promoting"
    BY <2>1 DEF Records, Steps, Active
  <2>3. work' = [work EXCEPT ![r] = w] /\ UNCHANGED <<rows, locks, faults>> /\ work[r].step = "free"
    BY <1>4 DEF PromoteManually, n, At
  <2> HIDE DEF w
  <2>4. KnowsAs(r, w, {})
    BY <2>2 DEF KnowsAs
  <2> QED BY <1>c, <1>s, <1>t, <2>2, <2>3, <2>4 DEF rows
<1>5. ASSUME NEW r \in Requests, Enter(r) PROVE IInv1'
  <2> DEFINE w == [work[r] EXCEPT !.step = "running"]
  <2>1. work' = [work EXCEPT ![r] = w] /\ UNCHANGED <<rows, locks, faults>> /\ work[r].step = "queued"
    BY <1>5 DEF Enter, Go, At
  <2>2. w \in Records /\ w.step = "running" /\ w.kind = work[r].kind /\ w.reg = work[r].reg
        /\ w.source = work[r].source /\ w.target = work[r].target /\ w.top = work[r].top
    BY <1>t DEF Records, Steps
  <2> HIDE DEF w
  <2>3. KnowsAs(r, w, {})
    BY <1>t, <2>1, <2>2 DEF KnowsAs
  <2> QED BY <1>c, <1>s, <1>t, <2>1, <2>2, <2>3 DEF rows
<1>6. ASSUME NEW r \in Requests, ReadAgain(r) PROVE IInv1'
  <2>1. CASE Finish(r)
    BY <1>6, <1>c, <1>f, <1>t, <2>1 DEF ReadAgain, At
  <2>2. CASE status[work[r].reg] \in Active
    <3> DEFINE s == IF work[r].kind = "drop" THEN class[work[r].reg] ELSE work[r].source
               step == IF work[r].kind = "drop" THEN "cancelling" ELSE "counting"
               w == [work[r] EXCEPT !.seen = status[work[r].reg], !.source = s, !.step = step]
    <3>1. work' = [work EXCEPT ![r] = w] /\ UNCHANGED <<rows, locks, faults>> /\ work[r].step = "running"
      BY <1>6, <2>2 DEF ReadAgain, locks, At
    <3>2. work[r].reg \in Registrations /\ work[r].kind \in {"drop", "transfer"}
      BY <1>t, <3>1 DEF KnowsAs, Records, Kinds
    <3>3. s \in Classes
      BY <1>t, <3>2 DEF KnowsAs, TypeOK
    <3>a. step \in {"cancelling", "counting"} /\ (step = "cancelling" <=> work[r].kind = "drop")
      OBVIOUS
    <3>b. work[r].kind = "transfer" => s = work[r].source
      OBVIOUS
    <3>c. work[r] \in Records /\ KnowsAs(r, work[r], released)
      BY <1>t
    <3> HIDE DEF s, step
    <3>4. w \in Records /\ w.step = step /\ w.kind = work[r].kind /\ w.reg = work[r].reg
          /\ w.source = s /\ w.target = work[r].target /\ w.top = work[r].top
      BY <2>2, <3>3, <3>a, <3>c DEF Records, Steps
    <3> HIDE DEF w
    <3>5. KnowsAs(r, w, {})
      BY <3>1, <3>2, <3>3, <3>4, <3>a, <3>b, <3>c DEF KnowsAs
    <3>6. step # "done"
      BY <3>a
    <3> QED BY <1>c, <1>s, <1>t, <3>1, <3>4, <3>5, <3>6 DEF rows
  <2> QED BY <1>6, <2>1, <2>2 DEF ReadAgain
\* The step after leaving a class.
<1>l. ASSUME NEW r \in Requests, AfterLeaving(r), work[r].step \in {"cancelling", "moving"}
      PROVE  \E w \in Records : /\ work' = [work EXCEPT ![r] = w]
                                /\ w.step # "done" /\ KnowsAs(r, w, {})
  <2> DEFINE step == IF work[r].seen = "confirmed" THEN "listing" ELSE "ending"
             w == [work[r] EXCEPT !.step = step]
  <2>1. work' = [work EXCEPT ![r] = w]
    BY <1>l DEF AfterLeaving, Go
  <2>2. w \in Records /\ w.step = step /\ w.kind = work[r].kind /\ w.reg = work[r].reg
        /\ w.source = work[r].source /\ w.target = work[r].target /\ w.top = work[r].top
    BY <1>t DEF Records, Steps
  <2> HIDE DEF w
  <2>3. KnowsAs(r, w, {})
    BY <1>l, <1>t, <2>2 DEF KnowsAs
  <2> QED BY <2>1, <2>2, <2>3
<1>7. ASSUME NEW r \in Requests, Cancel(r) PROVE IInv1'
  <2>1. CASE Finish(r) /\ UNCHANGED status
    BY <1>7, <1>c, <1>f, <1>t, <2>1 DEF Cancel, At, rows
  <2>2. CASE AfterLeaving(r) /\ UNCHANGED locks
             /\ status' = [status EXCEPT ![work[r].reg] = "cancelled"]
    <3>1. status' \in [Registrations -> {"confirmed", "waitlisted", "cancelled"}]
      BY <1>t, <2>2 DEF TypeOK
    <3>2. work[r].step = "cancelling" /\ UNCHANGED <<class, refunds, faults>>
      BY <1>7 DEF Cancel, At
    <3> QED BY <1>c, <1>l, <1>s, <1>t, <2>2, <3>1, <3>2
  <2> QED BY <1>7, <2>1, <2>2 DEF Cancel
<1>8. ASSUME NEW r \in Requests, Count(r) PROVE IInv1'
  <2> DEFINE p == IF Cardinality(Confirmed(work[r].target)) < Capacity[work[r].target]
                  THEN "confirmed" ELSE "waitlisted"
             w == [work[r] EXCEPT !.place = p, !.step = "moving"]
  <2>1. work' = [work EXCEPT ![r] = w] /\ UNCHANGED <<rows, locks, faults>> /\ work[r].step = "counting"
    BY <1>8 DEF Count, At
  <2>2. p \in Active
    BY DEF Active
  <2>a. work[r] \in Records
    BY <1>t
  <2> HIDE DEF p
  <2>3. w \in Records /\ w.step = "moving" /\ w.kind = work[r].kind /\ w.reg = work[r].reg /\ w.place = p
        /\ w.source = work[r].source /\ w.target = work[r].target /\ w.top = work[r].top
    BY <2>2, <2>a DEF Records, Steps, Active
  <2> HIDE DEF w
  <2>4. KnowsAs(r, w, {})
    BY <1>t, <2>1, <2>2, <2>3 DEF KnowsAs
  <2> QED BY <1>c, <1>s, <1>t, <2>1, <2>3, <2>4 DEF rows
<1>9. ASSUME NEW r \in Requests, Move(r) PROVE IInv1'
  <2>1. CASE Finish(r) /\ UNCHANGED <<class, status>>
    BY <1>9, <1>c, <1>f, <1>t, <2>1 DEF Move, At, rows
  <2>2. CASE /\ AfterLeaving(r) /\ UNCHANGED locks
             /\ class' = [class EXCEPT ![work[r].reg] = work[r].target]
             /\ status' = [status EXCEPT ![work[r].reg] = work[r].place]
    <3>1. work[r].step = "moving" /\ UNCHANGED <<refunds, faults>>
      BY <1>9 DEF Move, At
    <3>2. work[r].target \in Classes /\ work[r].place \in Active
      BY <1>t, <3>1 DEF KnowsAs
    <3>3. /\ status' \in [Registrations -> {"confirmed", "waitlisted", "cancelled"}]
          /\ class' \in [Registrations -> Classes]
      BY <1>t, <2>2, <3>2 DEF TypeOK, Active
    <3> QED BY <1>c, <1>l, <1>s, <1>t, <2>2, <3>1, <3>3
  <2> QED BY <1>9, <2>1, <2>2 DEF Move
<1>10. ASSUME NEW r \in Requests, NEW top \in Registrations \cup {Nobody},
              NEW step \in {"promoting", "refunding", "ending"},
              work' = [work EXCEPT ![r] = [work[r] EXCEPT !.top = top, !.step = step]],
              step = "promoting" => top \in Registrations, step = "refunding" => work[r].kind = "drop",
              work[r].step \in {"listing", "promoting", "refunding"},
              UNCHANGED <<class, locks, faults>>,
              status' \in [Registrations -> {"confirmed", "waitlisted", "cancelled"}],
              refunds' \in [Registrations -> Nat]
       PROVE  IInv1'
  <2> DEFINE w == [work[r] EXCEPT !.top = top, !.step = step]
  <2>1. w \in Records /\ w.step = step /\ w.kind = work[r].kind /\ w.reg = work[r].reg
        /\ w.source = work[r].source /\ w.target = work[r].target /\ w.top = top
    <3>1. work[r] \in Records /\ step \in Steps
      BY <1>t DEF Steps
    <3> QED BY <3>1 DEF Records
  <2>2. work' = [work EXCEPT ![r] = w]
    BY <1>10
  <2> HIDE DEF w
  <2>3. KnowsAs(r, w, {})
    BY <1>10, <1>t, <2>1 DEF KnowsAs
  <2> QED BY <1>10, <1>c, <1>s, <1>t, <2>1, <2>2, <2>3
\* A step that leaves the first in line alone.
<1>g. ASSUME NEW r \in Requests, NEW step, Go(r, step)
      PROVE  work' = [work EXCEPT ![r] = [work[r] EXCEPT !.top = work[r].top, !.step = step]]
  <2>1. [work[r] EXCEPT !.step = step] = [work[r] EXCEPT !.top = work[r].top, !.step = step]
    BY <1>t DEF Records
  <2> QED BY <1>g, <2>1 DEF Go
<1>11. ASSUME NEW r \in Requests, List(r) PROVE IInv1'
  <2> DEFINE line == Waitlisted(work[r].source)
  <2>1. work[r].step = "listing" /\ UNCHANGED <<rows, locks, faults>> /\ work[r].top = Nobody
    BY <1>11, <1>t DEF List, At, KnowsAs
  <2>2. CASE line = {}
    <3>1. Go(r, AfterPromotion(r))
      BY <1>11, <2>2 DEF List
    <3>2. AfterPromotion(r) \in {"refunding", "ending"}
          /\ (AfterPromotion(r) = "refunding" => work[r].kind = "drop")
      BY DEF AfterPromotion
    <3> QED BY <1>10, <1>c, <1>g, <1>t, <2>1, <3>1, <3>2 DEF rows
  <2>3. CASE line # {}
    <3>1. First(line) \in Registrations
      BY <2>3, FirstIsInLine DEF Waitlisted
    <3>2. work' = [work EXCEPT ![r] = [work[r] EXCEPT !.top = First(line), !.step = "promoting"]]
      BY <1>11, <2>3 DEF List
    <3> HIDE DEF line
    <3> QED BY <1>10, <1>c, <1>t, <2>1, <3>1, <3>2 DEF rows
  <2> QED BY <2>2, <2>3
<1>12. ASSUME NEW r \in Requests, Promote(r) PROVE IInv1'
  <2>1. work[r].step = "promoting" /\ UNCHANGED <<class, refunds, locks, faults>>
        /\ work[r].top \in Registrations /\ Go(r, AfterPromotion(r))
    BY <1>12, <1>t DEF Promote, At, KnowsAs
  <2>2. status' \in [Registrations -> {"confirmed", "waitlisted", "cancelled"}]
    BY <1>12, <1>t DEF Promote, TypeOK
  <2>3. AfterPromotion(r) \in {"refunding", "ending"}
        /\ (AfterPromotion(r) = "refunding" => work[r].kind = "drop")
    BY DEF AfterPromotion
  <2> QED BY <1>10, <1>c, <1>g, <1>t, <2>1, <2>2, <2>3
<1>13. ASSUME NEW r \in Requests, Refund(r) PROVE IInv1'
  <2>1. work[r].step = "refunding" /\ UNCHANGED <<class, status, locks, faults>> /\ Go(r, "ending")
        /\ work[r].top \in Registrations \cup {Nobody}
    BY <1>13, <1>t DEF Refund, At, Records
  <2>2. refunds' \in [Registrations -> Nat]
    BY <1>13, <1>t DEF Refund, TypeOK
  <2> QED BY <1>10, <1>c, <1>g, <1>t, <2>1, <2>2
<1>14. ASSUME NEW r \in Requests, Return(r) PROVE IInv1'
  BY <1>14, <1>c, <1>f, <1>t DEF Return, At
<1>15. ASSUME NEW r \in Requests, Throw(r) PROVE IInv1'
  <2>1. faults' \in 0..MaxFaults
    BY <1>15, <1>t, RegistrationShape DEF Throw, TypeOK
  <2> QED BY <1>15, <1>f, <2>1 DEF Throw
<1>16. CASE UNCHANGED vars
  <2>1. \A r \in Requests : Knows(r)'
    BY <1>16, <1>t, KnowsIsKnowsAs DEF vars
  <2> QED BY <1>16, <1>a, <1>t, <2>1, TypeRewritten DEF vars, rows, locks, RequestsKnow
<1> QED
  BY <1>1, <1>2, <1>3, <1>4, <1>5, <1>6, <1>7, <1>8, <1>9, <1>11, <1>12, <1>13, <1>14, <1>15, <1>16
  DEF Next, Begin, Continue
-----------------------------------------------------------------------------
(***************************************************************************)
(* The lock.  Requests that hold or await queues have an order: that in    *)
(* which they called acquire.  Nothing in the state records it, so the     *)
(* invariant says that there is one (rank) such that everybody awaits only *)
(* earlier requests or finished ones, and that of the requests with a key  *)
(* in common a later one awaits the one just before it.                    *)
(***************************************************************************)
Holding(r) == work[r].kind \in {"drop", "transfer"} /\ work[r].step \notin {"free", "asking", "done"}
Keyed(r, k) == Holding(r) /\ k \in LockKeys(work[r])
Keys == Registrations \cup Classes

AwaitsEarlier(rank) ==
    \A r \in Requests : Holding(r) =>
        \A q \in work[r].awaits : q \in released \/ (Holding(q) /\ rank[q] < rank[r])
AwaitsPredecessors(rank) ==
    \A k \in Keys : \A q, r \in Requests :
        Keyed(q, k) /\ Keyed(r, k) /\ rank[q] < rank[r] =>
            \E p \in work[r].awaits : Keyed(p, k) /\ rank[q] <= rank[p]
TailIsLast(rank) ==
    \A k \in Keys :
        /\ tail[k] = Nobody => \A r \in Requests : ~Keyed(r, k)
        /\ tail[k] # Nobody => /\ Keyed(tail[k], k)
                               /\ \A r \in Requests : Keyed(r, k) => rank[r] <= rank[tail[k]]
InOrder(n, rank) ==
    /\ \A r \in Requests : Holding(r) => rank[r] < n
    /\ \A q, r \in Requests : Holding(q) /\ Holding(r) /\ rank[q] = rank[r] => q = r
    /\ AwaitsEarlier(rank)
    /\ AwaitsPredecessors(rank)
    /\ TailIsLast(rank)

\* Whoever has left the queue has nobody left to wait for.
Entered == \A r \in Requests : Holding(r) /\ work[r].step # "queued" => work[r].awaits \subseteq released

LockInv == Entered /\ \E n \in Nat : \E rank \in [Requests -> Nat] : InOrder(n, rank)
IInv2 == IInv1 /\ LockInv

\* A step that the lock does not notice.
Quiet ==
    /\ tail' = tail /\ released' = released
    /\ \A q \in Requests :
          /\ Holding(q)' <=> Holding(q)
          /\ Holding(q) => work'[q].awaits = work[q].awaits /\ LockKeys(work'[q]) = LockKeys(work[q])
          /\ Holding(q) /\ work'[q].step # "queued" => work[q].awaits \subseteq released

Acquires(r) ==
    \E w \in Records :
        /\ Acquire(r, w)
        /\ work[r].step \in {"free", "asking"}
        /\ w.kind \in {"drop", "transfer"} /\ w.reg \in Registrations
        /\ w.kind = "transfer" => w.source \in Classes /\ w.target \in Classes

Finishes(r) == Finish(r) /\ work[r].step \notin {"free", "queued", "done"}

LEMMA HoldersKeys ==
  ASSUME IInv1, NEW r \in Requests, Holding(r)
  PROVE  LockKeys(work[r]) \subseteq Keys /\ r \notin released
<1>1. Knows(r)
  BY DEF IInv1, RequestsKnow
<1> QED BY <1>1 DEF Knows, Holding, LockKeys, Keys

\* One slot changes and keeps what the lock knows of it.
LEMMA QuietSlot ==
  ASSUME IInv1, LockInv, NEW r \in Requests, NEW w, work' = [work EXCEPT ![r] = w], UNCHANGED locks,
         Holding(r) <=> w.kind \in {"drop", "transfer"} /\ w.step \notin {"free", "asking", "done"},
         Holding(r) => /\ w.awaits = work[r].awaits /\ LockKeys(w) = LockKeys(work[r])
                       /\ work[r].step # "queued" \/ work[r].awaits \subseteq released
  PROVE  Quiet
<1>1. work'[r] = w /\ \A q \in Requests : q # r => work'[q] = work[q]
  BY OneSlot DEF IInv1
<1>2. ASSUME NEW q \in Requests
      PROVE  /\ Holding(q)' <=> Holding(q)
             /\ Holding(q) => work'[q].awaits = work[q].awaits /\ LockKeys(work'[q]) = LockKeys(work[q])
             /\ Holding(q) /\ work'[q].step # "queued" => work[q].awaits \subseteq released
  <2>1. CASE q = r
    BY <1>1, <2>1 DEF Holding, LockInv, Entered
  <2>2. CASE q # r
    BY <1>1, <2>2 DEF Holding, LockInv, Entered
  <2> QED BY <2>1, <2>2
<1> QED BY <1>2 DEF Quiet, locks

\* Moving on to another step does not change the lock.
LEMMA QuietGo ==
  ASSUME IInv1, LockInv, NEW r \in Requests, NEW step, Go(r, step), UNCHANGED locks,
         work[r].step \notin {"free", "asking", "done"}, step \notin {"free", "asking", "done"},
         work[r].step = "queued" => work[r].awaits \subseteq released
  PROVE  Quiet
<1> DEFINE w == [work[r] EXCEPT !.step = step]
<1>1. work[r] \in Records
  BY SlotsAreTyped DEF IInv1
<1>2. /\ w.step = step /\ w.kind = work[r].kind /\ w.awaits = work[r].awaits /\ w.reg = work[r].reg
      /\ w.target = work[r].target /\ w.source = work[r].source
  BY <1>1 DEF Records
<1>3. work' = [work EXCEPT ![r] = w]
  BY DEF Go
<1> HIDE DEF w
<1>4. LockKeys(w) = LockKeys(work[r])
  BY <1>2 DEF LockKeys
<1>5. Holding(r) <=> w.kind \in {"drop", "transfer"} /\ w.step \notin {"free", "asking", "done"}
  BY <1>2 DEF Holding
<1> QED BY <1>2, <1>3, <1>4, <1>5, QuietSlot

LEMMA LockMoves ==
  ASSUME IInv2, [Next]_vars
  PROVE  Quiet \/ \E r \in Requests : Acquires(r) \/ Finishes(r)
<1>t. IInv1 /\ LockInv /\ Entered
      /\ \A r \in Requests : work[r] \in Records /\ KnowsAs(r, work[r], released)
  BY SlotsAreTyped, KnowsIsKnowsAs DEF IInv1, IInv2, RequestsKnow, LockInv
<1>1. ASSUME NEW r \in Requests, NEW e \in Registrations, Drop(r, e) PROVE Acquires(r)
  BY <1>1, NewIsTyped DEF Drop, Acquires, At
<1>2. ASSUME NEW r \in Requests, NEW e \in Registrations, NEW c \in Classes, Transfer(r, e, c)
      PROVE  Quiet
  <2> DEFINE n == New("transfer", e)
             w == [n EXCEPT !.target = c, !.source = class[e], !.step = "asking"]
  <2>1. n \in Records
    BY NewIsTyped
  <2> HIDE DEF n
  <2>2. w.step = "asking"
    BY <2>1 DEF Records
  <2>3. work' = [work EXCEPT ![r] = w] /\ UNCHANGED locks /\ work[r].step = "free"
    BY <1>2 DEF Transfer, n, At
  <2> HIDE DEF w
  <2>4. ~Holding(r)
    BY <2>3 DEF Holding
  <2> QED BY <1>t, <2>2, <2>3, <2>4, QuietSlot
<1>3. ASSUME NEW r \in Requests, AskForLocks(r) PROVE Acquires(r)
  <2>1. work[r].step = "asking" /\ Acquire(r, work[r])
    BY <1>3 DEF AskForLocks, At
  <2> QED BY <1>t, <2>1 DEF Acquires, KnowsAs
<1>4. ASSUME NEW r \in Requests, NEW e \in Registrations, PromoteManually(r, e) PROVE Quiet
  <2> DEFINE n == New("promotion", e)
             w == [n EXCEPT !.seen = "waitlisted", !.top = e, !.step = "promoting"]
  <2>1. n \in Records /\ n.kind = "promotion"
    BY NewIsTyped
  <2> HIDE DEF n
  <2>2. w.kind = "promotion"
    BY <2>1 DEF Records
  <2>3. work' = [work EXCEPT ![r] = w] /\ UNCHANGED locks /\ work[r].step = "free"
    BY <1>4 DEF PromoteManually, n, At
  <2> HIDE DEF w
  <2>4. ~Holding(r)
    BY <2>3 DEF Holding
  <2> QED BY <1>t, <2>2, <2>3, <2>4, QuietSlot
<1>5. ASSUME NEW r \in Requests, Enter(r) PROVE Quiet
  BY <1>5, <1>t, QuietGo DEF Enter, At
<1>6. ASSUME NEW r \in Requests, ReadAgain(r) PROVE Quiet \/ Finishes(r)
  <2>1. CASE Finish(r)
    BY <1>6, <2>1 DEF ReadAgain, At, Finishes
  <2>2. CASE status[work[r].reg] \in Active
    <3> DEFINE s == IF work[r].kind = "drop" THEN class[work[r].reg] ELSE work[r].source
               step == IF work[r].kind = "drop" THEN "cancelling" ELSE "counting"
               w == [work[r] EXCEPT !.seen = status[work[r].reg], !.source = s, !.step = step]
    <3>1. work' = [work EXCEPT ![r] = w] /\ UNCHANGED locks /\ work[r].step = "running"
      BY <1>6, <2>2 DEF ReadAgain, At
    <3>2. work[r].kind = "transfer" => s = work[r].source
      OBVIOUS
    <3>3. step \in {"cancelling", "counting"}
      OBVIOUS
    <3> HIDE DEF s, step
    <3>4. work[r] \in Records
      BY <1>t
    <3>5. /\ w.step = step /\ w.kind = work[r].kind /\ w.awaits = work[r].awaits
          /\ w.reg = work[r].reg /\ w.target = work[r].target /\ w.source = s
      BY <3>4 DEF Records
    <3> HIDE DEF w
    <3>6. LockKeys(w) = LockKeys(work[r])
      BY <3>2, <3>5 DEF LockKeys
    <3>7. Holding(r) <=> w.kind \in {"drop", "transfer"} /\ w.step \notin {"free", "asking", "done"}
      BY <3>1, <3>3, <3>5 DEF Holding
    <3>8. work[r].step # "queued"
      BY <3>1
    <3> QED BY <1>t, <3>1, <3>5, <3>6, <3>7, <3>8, QuietSlot
  <2> QED BY <1>6, <2>1, <2>2 DEF ReadAgain
\* Going on after leaving a class, or after the promotion.
<1>g. ASSUME NEW r \in Requests, NEW step \in {"listing", "refunding", "ending"}, Go(r, step),
             UNCHANGED locks,
             work[r].step \in {"cancelling", "moving", "listing", "promoting", "refunding"}
      PROVE  Quiet
  <2>1. work[r].step \notin {"free", "asking", "done", "queued"} /\ step \notin {"free", "asking", "done"}
    BY <1>g
  <2> QED BY <1>g, <1>t, <2>1, QuietGo
<1>7. ASSUME NEW r \in Requests, Cancel(r) PROVE Quiet \/ Finishes(r)
  <2>1. CASE Finish(r)
    BY <1>7, <2>1 DEF Cancel, At, Finishes
  <2>2. CASE AfterLeaving(r) /\ UNCHANGED locks
    BY <1>7, <1>g, <2>2 DEF Cancel, At, AfterLeaving
  <2> QED BY <1>7, <2>1, <2>2 DEF Cancel
<1>e. ASSUME NEW r \in Requests, NEW w, work' = [work EXCEPT ![r] = w], UNCHANGED locks,
             work[r].step \in {"counting", "listing"},
             w.kind = work[r].kind, w.awaits = work[r].awaits, LockKeys(w) = LockKeys(work[r]),
             w.step \in {"moving", "promoting"}
      PROVE  Quiet
  <2>1. Holding(r) <=> w.kind \in {"drop", "transfer"} /\ w.step \notin {"free", "asking", "done"}
    BY <1>e DEF Holding
  <2>2. work[r].step # "queued"
    BY <1>e
  <2> QED BY <1>e, <1>t, <2>1, <2>2, QuietSlot
<1>8. ASSUME NEW r \in Requests, Count(r) PROVE Quiet
  <2> DEFINE p == IF Cardinality(Confirmed(work[r].target)) < Capacity[work[r].target]
                  THEN "confirmed" ELSE "waitlisted"
             w == [work[r] EXCEPT !.place = p, !.step = "moving"]
  <2>1. work' = [work EXCEPT ![r] = w] /\ UNCHANGED locks /\ work[r].step = "counting"
    BY <1>8 DEF Count, At
  <2> HIDE DEF p
  <2>2. work[r] \in Records
    BY <1>t
  <2>3. /\ w.step = "moving" /\ w.kind = work[r].kind /\ w.awaits = work[r].awaits
        /\ w.reg = work[r].reg /\ w.target = work[r].target /\ w.source = work[r].source
    BY <2>2 DEF Records
  <2> HIDE DEF w
  <2>4. LockKeys(w) = LockKeys(work[r])
    BY <2>3 DEF LockKeys
  <2> QED BY <1>e, <2>1, <2>3, <2>4
<1>9. ASSUME NEW r \in Requests, Move(r) PROVE Quiet \/ Finishes(r)
  <2>1. CASE Finish(r)
    BY <1>9, <2>1 DEF Move, At, Finishes
  <2>2. CASE AfterLeaving(r) /\ UNCHANGED locks
    BY <1>9, <1>g, <2>2 DEF Move, At, AfterLeaving
  <2> QED BY <1>9, <2>1, <2>2 DEF Move
<1>10. ASSUME NEW r \in Requests, List(r) PROVE Quiet
  <2>1. work[r].step = "listing" /\ UNCHANGED locks
    BY <1>10 DEF List, At
  <2>2. CASE Go(r, AfterPromotion(r))
    BY <1>g, <2>1, <2>2 DEF AfterPromotion
  <2>3. ASSUME NEW t, work' = [work EXCEPT ![r] = [work[r] EXCEPT !.top = t, !.step = "promoting"]]
        PROVE  Quiet
    <3> DEFINE w == [work[r] EXCEPT !.top = t, !.step = "promoting"]
    <3>1. work[r] \in Records
      BY <1>t
    <3>2. /\ w.step = "promoting" /\ w.kind = work[r].kind /\ w.awaits = work[r].awaits
          /\ w.reg = work[r].reg /\ w.target = work[r].target /\ w.source = work[r].source
      BY <3>1 DEF Records
    <3>3. work' = [work EXCEPT ![r] = w]
      BY <2>3
    <3> HIDE DEF w
    <3>4. LockKeys(w) = LockKeys(work[r])
      BY <3>2 DEF LockKeys
    <3> QED BY <1>e, <2>1, <3>2, <3>3, <3>4
  <2>4. Go(r, AfterPromotion(r))
        \/ work' = [work EXCEPT ![r] = [work[r] EXCEPT !.top = First(Waitlisted(work[r].source)),
                                                       !.step = "promoting"]]
    BY <1>10 DEF List
  <2> QED BY <2>2, <2>3, <2>4
<1>11. ASSUME NEW r \in Requests, Promote(r) PROVE Quiet
  BY <1>11, <1>g DEF Promote, At, AfterPromotion
<1>12. ASSUME NEW r \in Requests, Refund(r) PROVE Quiet
  BY <1>12, <1>g DEF Refund, At
<1>13. ASSUME NEW r \in Requests, Return(r) PROVE Finishes(r)
  BY <1>13 DEF Return, At, Finishes
<1>14. ASSUME NEW r \in Requests, Throw(r) PROVE Finishes(r)
  BY <1>14 DEF Throw, Finishes
<1>15. CASE UNCHANGED vars
  BY <1>15, <1>t DEF vars, Quiet, Holding, Entered
<1> QED
  BY <1>1, <1>2, <1>3, <1>4, <1>5, <1>6, <1>7, <1>8, <1>9, <1>10, <1>11, <1>12, <1>13, <1>14, <1>15
  DEF Next, Begin, Continue

\* A step that the lock does not notice keeps the order.
LEMMA QuietKeepsOrder == ASSUME IInv2, Quiet PROVE LockInv'
<1>1. PICK n \in Nat, rank \in [Requests -> Nat] : InOrder(n, rank)
  BY DEF IInv2, LockInv
<1>2. \A q \in Requests : /\ Holding(q)' <=> Holding(q)
                          /\ Holding(q) => work'[q].awaits = work[q].awaits
  BY DEF Quiet
<1>3. \A q \in Requests, k \in Keys : Keyed(q, k)' <=> Keyed(q, k)
  BY DEF Quiet, Keyed
<1>4. tail' = tail /\ released' = released
  BY DEF Quiet
<1>5. Entered'
  BY DEF Quiet, Entered
<1>6. \A q \in Requests : work[q].awaits \subseteq Requests
  BY SlotsAreTyped DEF IInv2, IInv1, Records
<1>7. \A k \in Keys : tail[k] \in Requests \cup {Nobody}
  BY DEF IInv2, IInv1, TypeOK, Keys
<1>8. AwaitsEarlier(rank)'
  BY <1>1, <1>2, <1>4, <1>6 DEF InOrder, AwaitsEarlier
<1>9. AwaitsPredecessors(rank)'
  <2> SUFFICES ASSUME NEW k \in Keys, NEW q \in Requests, NEW r \in Requests,
                      Keyed(q, k)', Keyed(r, k)', rank[q] < rank[r]
               PROVE  \E p \in work'[r].awaits : Keyed(p, k)' /\ rank[q] <= rank[p]
    BY DEF AwaitsPredecessors
  <2>1. Keyed(q, k) /\ Keyed(r, k) /\ work'[r].awaits = work[r].awaits
    BY <1>2, <1>3 DEF Keyed
  <2>2. PICK p \in work[r].awaits : Keyed(p, k) /\ rank[q] <= rank[p]
    BY <1>1, <2>1 DEF InOrder, AwaitsPredecessors
  <2> QED BY <1>3, <1>6, <2>1, <2>2
<1>10. TailIsLast(rank)'
  BY <1>1, <1>3, <1>4, <1>7 DEF InOrder, TailIsLast
<1>11. InOrder(n, rank)'
  BY <1>1, <1>2, <1>8, <1>9, <1>10 DEF InOrder
<1> QED BY <1>5, <1>11 DEF LockInv

\* Asking for the locks puts the request behind all others.
LEMMA AcquireKeepsOrder == ASSUME IInv2, NEW r \in Requests, Acquires(r) PROVE LockInv'
<1>1. PICK n \in Nat, rank \in [Requests -> Nat] : InOrder(n, rank)
  BY DEF IInv2, LockInv
<1>2. PICK w \in Records :
        /\ Acquire(r, w) /\ work[r].step \in {"free", "asking"}
        /\ w.kind \in {"drop", "transfer"} /\ w.reg \in Registrations
        /\ w.kind = "transfer" => w.source \in Classes /\ w.target \in Classes
  BY DEF Acquires
<1> DEFINE a == {tail[k] : k \in LockKeys(w)} \ {Nobody}
           v == [w EXCEPT !.step = "queued", !.awaits = a]
<1>3. /\ work' = [work EXCEPT ![r] = v] /\ released' = released
      /\ tail' = [k \in DOMAIN tail |-> IF k \in LockKeys(w) THEN r ELSE tail[k]]
  BY <1>2 DEF Acquire
<1>a. a = {tail[k] : k \in LockKeys(w)} \ {Nobody}
  OBVIOUS
<1> HIDE DEF a
<1>4. /\ v.step = "queued" /\ v.kind = w.kind /\ v.awaits = a /\ v.reg = w.reg
      /\ v.target = w.target /\ v.source = w.source
  BY DEF Records
<1> HIDE DEF v
<1>5. LockKeys(v) = LockKeys(w) /\ LockKeys(w) \subseteq Keys
  BY <1>2, <1>4 DEF LockKeys, Keys
<1>6. work'[r] = v /\ \A q \in Requests : q # r => work'[q] = work[q]
  BY <1>3, OneSlot DEF IInv2, IInv1
<1>7. ~Holding(r) /\ Holding(r)' /\ \A q \in Requests : q # r => (Holding(q)' <=> Holding(q))
  BY <1>2, <1>4, <1>6 DEF Holding
<1>8. \A k \in Keys : /\ ~Keyed(r, k) /\ (Keyed(r, k)' <=> k \in LockKeys(w))
                      /\ \A q \in Requests : q # r => (Keyed(q, k)' <=> Keyed(q, k))
  BY <1>5, <1>6, <1>7 DEF Keyed
<1>9. /\ \A k \in Keys : tail[k] \in Requests \cup {Nobody} /\ tail[k] # r
      /\ \A k \in Keys : tail'[k] = IF k \in LockKeys(w) THEN r ELSE tail[k]
      /\ Nobody \notin Requests
  <2>1. \A k \in Keys : tail[k] \in Requests \cup {Nobody}
    BY DEF IInv2, IInv1, TypeOK, Keys
  <2>2. DOMAIN tail = Keys
    BY DEF IInv2, IInv1, TypeOK, Keys
  <2>3. \A k \in Keys : tail[k] # r
    BY <1>1, <1>8, RegistrationShape DEF InOrder, TailIsLast
  <2> QED BY <1>3, <2>1, <2>2, <2>3, RegistrationShape
<1>b. PICK after \in [Requests -> Nat] :
         after[r] = n /\ \A q \in Requests : q # r => after[q] = rank[q]
  <2>1. [rank EXCEPT ![r] = n] \in [Requests -> Nat]
    OBVIOUS
  <2>2. [rank EXCEPT ![r] = n][r] = n /\ \A q \in Requests : q # r => [rank EXCEPT ![r] = n][q] = rank[q]
    OBVIOUS
  <2> QED BY <2>1, <2>2
<1>10. /\ after[r] = n /\ \A q \in Requests : q # r => after[q] = rank[q]
       /\ \A q \in Requests : Holding(q) => rank[q] \in Nat /\ rank[q] < n
  BY <1>1, <1>b DEF InOrder
<1>11. \A q \in Requests : work[q].awaits \subseteq Requests
  BY SlotsAreTyped DEF IInv2, IInv1, Records
\* What r finds at the tail of a queue is a request that holds it.
<1>12. \A p \in a : \E k \in LockKeys(w) : p = tail[k] /\ k \in Keys /\ Keyed(p, k) /\ p \in Requests /\ p # r
  BY <1>1, <1>5, <1>9, <1>a DEF InOrder, TailIsLast
<1>13. Entered'
  BY <1>3, <1>4, <1>6, <1>7 DEF IInv2, LockInv, Entered
<1>14. AwaitsEarlier(after)'
  <2> SUFFICES ASSUME NEW q \in Requests, Holding(q)', NEW p \in work'[q].awaits
               PROVE  p \in released' \/ (Holding(p)' /\ after[p] < after[q])
    BY DEF AwaitsEarlier
  <2>1. CASE q = r
    <3>1. PICK k \in LockKeys(w) : Keyed(p, k) /\ p \in Requests /\ p # r
      BY <1>4, <1>6, <1>12, <2>1
    <3>2. Holding(p)
      BY <3>1 DEF Keyed
    <3> QED BY <1>7, <1>10, <2>1, <3>1, <3>2
  <2>2. CASE q # r
    <3>1. Holding(q) /\ p \in work[q].awaits /\ p \in Requests
      BY <1>6, <1>7, <1>11, <2>2
    <3>2. p \in released \/ (Holding(p) /\ rank[p] < rank[q])
      BY <1>1, <3>1 DEF InOrder, AwaitsEarlier
    <3> QED BY <1>3, <1>7, <1>10, <2>2, <3>1, <3>2
  <2> QED BY <2>1, <2>2
<1>15. AwaitsPredecessors(after)'
  <2> SUFFICES ASSUME NEW k \in Keys, NEW q \in Requests, NEW s \in Requests,
                      Keyed(q, k)', Keyed(s, k)', after[q] < after[s]
               PROVE  \E p \in work'[s].awaits : Keyed(p, k)' /\ after[q] <= after[p]
    BY DEF AwaitsPredecessors
  <2>1. q # r
    <3> SUFFICES ASSUME q = r, s # r PROVE FALSE
      OBVIOUS
    <3>1. Holding(s)
      BY <1>8 DEF Keyed
    <3> QED BY <1>10, <3>1
  <2>2. Keyed(q, k) /\ Holding(q)
    BY <1>8, <2>1 DEF Keyed
  <2>3. CASE s = r
    <3>1. k \in LockKeys(w)
      BY <1>8, <2>3
    <3>2. PICK p \in Requests : p = tail[k] /\ p # Nobody /\ Keyed(p, k) /\ rank[q] <= rank[p]
      BY <1>1, <1>9, <2>2 DEF InOrder, TailIsLast
    <3>3. p \in a /\ p # r
      BY <1>9, <1>a, <3>1, <3>2
    <3>4. Keyed(p, k)' /\ after[q] <= after[p]
      BY <1>8, <1>10, <2>1, <3>2, <3>3
    <3> QED BY <1>4, <1>6, <2>3, <3>3, <3>4
  <2>4. CASE s # r
    <3>1. Keyed(s, k) /\ work'[s] = work[s] /\ rank[q] < rank[s]
      BY <1>6, <1>8, <1>10, <2>1, <2>4
    <3>2. PICK p \in work[s].awaits : Keyed(p, k) /\ rank[q] <= rank[p]
      BY <1>1, <2>2, <3>1 DEF InOrder, AwaitsPredecessors
    <3>3. p \in Requests /\ p # r
      BY <1>8, <1>11, <3>2
    <3> QED BY <1>8, <1>10, <2>1, <3>1, <3>2, <3>3
  <2> QED BY <2>3, <2>4
<1>16. TailIsLast(after)'
  <2> SUFFICES ASSUME NEW k \in Keys
               PROVE  /\ tail'[k] = Nobody => \A q \in Requests : ~Keyed(q, k)'
                      /\ \A t \in Requests : t = tail'[k] => Keyed(t, k)' /\ \A q \in Requests : Keyed(q, k)' => after[q] <= after[t]
    <3>1. \A j \in Keys : tail'[j] \in Requests \cup {Nobody}
      BY <1>9
    <3> QED BY <3>1 DEF TailIsLast, Keyed, Holding
  <2>1. CASE k \in LockKeys(w)
    <3>1. tail'[k] = r /\ Keyed(r, k)'
      BY <1>8, <1>9, <2>1
    <3>2. ASSUME NEW q \in Requests, Keyed(q, k)' PROVE after[q] <= after[r]
      <4>1. CASE q = r
        BY <1>10, <4>1
      <4>2. CASE q # r
        <5>1. Holding(q)
          BY <1>8, <3>2, <4>2 DEF Keyed
        <5> QED BY <1>10, <4>2, <5>1
      <4> QED BY <4>1, <4>2
    <3> QED BY <1>9, <3>1, <3>2
  <2>2. CASE k \notin LockKeys(w)
    <3>1. tail'[k] = tail[k] /\ ~Keyed(r, k)'
      BY <1>8, <1>9, <2>2
    <3>2. tail[k] = Nobody => \A q \in Requests : ~Keyed(q, k)
      BY <1>1 DEF InOrder, TailIsLast
    <3>3. ASSUME NEW t \in Requests, t = tail[k]
          PROVE  Keyed(t, k) /\ \A q \in Requests : Keyed(q, k) => rank[q] <= rank[t]
      BY <1>1, <1>9, <3>3 DEF InOrder, TailIsLast
    <3>4. ASSUME NEW t \in Requests, t = tail'[k]
          PROVE  Keyed(t, k)' /\ \A q \in Requests : Keyed(q, k)' => after[q] <= after[t]
      <4>1. t # r
        BY <1>9, <3>1, <3>4
      <4> QED BY <1>8, <1>10, <3>1, <3>3, <3>4, <4>1
    <3>5. tail'[k] = Nobody => \A q \in Requests : ~Keyed(q, k)'
      BY <1>8, <3>1, <3>2
    <3> QED BY <3>4, <3>5
  <2> QED BY <2>1, <2>2
<1>17. InOrder(n + 1, after)'
  <2>1. \A q \in Requests : Holding(q)' => after[q] < n + 1
    BY <1>7, <1>10
  <2>2. \A q, s \in Requests : Holding(q)' /\ Holding(s)' /\ after[q] = after[s] => q = s
    BY <1>1, <1>7, <1>10 DEF InOrder
  <2> QED BY <1>14, <1>15, <1>16, <2>1, <2>2 DEF InOrder
<1> QED BY <1>13, <1>17 DEF LockInv

\* A request that is inside has nobody before it with a key in common.
LEMMA InsideIsFirst ==
  ASSUME IInv2, NEW n \in Nat, NEW rank \in [Requests -> Nat], InOrder(n, rank),
         NEW r \in Requests, work[r].step # "queued", NEW k \in Keys, NEW q \in Requests,
         Keyed(q, k), Keyed(r, k), q # r
  PROVE  rank[r] < rank[q]
<1>1. Holding(q) /\ Holding(r)
  BY DEF Keyed
<1>2. ASSUME rank[q] < rank[r] PROVE FALSE
  <2>1. PICK p \in work[r].awaits : Keyed(p, k)
    BY <1>2 DEF InOrder, AwaitsPredecessors
  <2>2. p \in released /\ p \in Requests
    BY <1>1, <2>1, SlotsAreTyped DEF IInv2, IInv1, LockInv, Entered, Records
  <2> QED BY <2>1, <2>2, HoldersKeys DEF IInv2, Keyed
<1>3. rank[q] # rank[r]
  BY <1>1 DEF InOrder
<1> QED BY <1>2, <1>3

\* The end of a request takes it out of the order.
LEMMA FinishKeepsOrder == ASSUME IInv2, NEW r \in Requests, Finishes(r) PROVE LockInv'
<1>1. PICK n \in Nat, rank \in [Requests -> Nat] : InOrder(n, rank)
  BY DEF IInv2, LockInv
<1> DEFINE w == [work[r] EXCEPT !.step = "done"]
<1>2. /\ work' = [work EXCEPT ![r] = w] /\ released' = released \cup {r}
      /\ tail' = [k \in DOMAIN tail |-> IF tail[k] = r THEN Nobody ELSE tail[k]]
      /\ work[r].step \notin {"free", "queued", "done"}
  BY DEF Finishes, Finish, Go
<1>3. w.step = "done"
  BY SlotsAreTyped DEF IInv2, IInv1, Records
<1> HIDE DEF w
<1>4. work'[r].step = "done" /\ \A q \in Requests : q # r => work'[q] = work[q]
  BY <1>2, <1>3, OneSlot DEF IInv2, IInv1
<1>5. ~Holding(r)' /\ \A q \in Requests : q # r => (Holding(q)' <=> Holding(q))
  BY <1>4 DEF Holding
<1>6. \A k \in Keys : ~Keyed(r, k)' /\ \A q \in Requests : q # r => (Keyed(q, k)' <=> Keyed(q, k))
  BY <1>4, <1>5 DEF Keyed
<1>7. /\ \A k \in Keys : tail[k] \in Requests \cup {Nobody}
      /\ \A k \in Keys : tail'[k] = IF tail[k] = r THEN Nobody ELSE tail[k]
      /\ Nobody \notin Requests
  <2>1. DOMAIN tail = Keys /\ \A k \in Keys : tail[k] \in Requests \cup {Nobody}
    BY DEF IInv2, IInv1, TypeOK, Keys
  <2> QED BY <1>2, <2>1, RegistrationShape
<1>8. \A q \in Requests : work[q].awaits \subseteq Requests
  BY SlotsAreTyped DEF IInv2, IInv1, Records
<1>9. Entered'
  BY <1>2, <1>4, <1>5 DEF IInv2, LockInv, Entered
<1>10. AwaitsEarlier(rank)'
  <2> SUFFICES ASSUME NEW q \in Requests, Holding(q)', NEW p \in work'[q].awaits
               PROVE  p \in released' \/ (Holding(p)' /\ rank[p] < rank[q])
    BY DEF AwaitsEarlier
  <2>1. q # r /\ Holding(q) /\ p \in work[q].awaits /\ p \in Requests
    BY <1>4, <1>5, <1>8
  <2>2. p \in released \/ (Holding(p) /\ rank[p] < rank[q])
    BY <1>1, <2>1 DEF InOrder, AwaitsEarlier
  <2> QED BY <1>2, <1>5, <2>1, <2>2
<1>11. AwaitsPredecessors(rank)'
  <2> SUFFICES ASSUME NEW k \in Keys, NEW q \in Requests, NEW s \in Requests,
                      Keyed(q, k)', Keyed(s, k)', rank[q] < rank[s]
               PROVE  \E p \in work'[s].awaits : Keyed(p, k)' /\ rank[q] <= rank[p]
    BY DEF AwaitsPredecessors
  <2>1. q # r /\ s # r /\ Keyed(q, k) /\ Keyed(s, k) /\ work'[s] = work[s]
    BY <1>4, <1>6
  <2>2. PICK p \in work[s].awaits : Keyed(p, k) /\ rank[q] <= rank[p]
    BY <1>1, <2>1 DEF InOrder, AwaitsPredecessors
  <2>3. p \in Requests
    BY <1>8, <2>2
  <2>4. p # r
    <3> SUFFICES ASSUME p = r PROVE FALSE
      OBVIOUS
    <3>1. rank[r] < rank[q]
      BY <1>1, <1>2, <2>1, <2>2, InsideIsFirst
    <3> QED BY <2>2, <3>1
  <2> QED BY <1>6, <2>1, <2>2, <2>3, <2>4
<1>12. TailIsLast(rank)'
  <2> SUFFICES ASSUME NEW k \in Keys
               PROVE  /\ tail'[k] = Nobody => \A q \in Requests : ~Keyed(q, k)'
                      /\ \A t \in Requests : t = tail'[k] => Keyed(t, k)' /\ \A q \in Requests : Keyed(q, k)' => rank[q] <= rank[t]
    <3>1. \A j \in Keys : tail'[j] \in Requests \cup {Nobody}
      BY <1>7
    <3> QED BY <3>1 DEF TailIsLast, Keyed, Holding
  <2>1. ASSUME NEW t \in Requests, t = tail[k]
        PROVE  Keyed(t, k) /\ \A q \in Requests : Keyed(q, k) => rank[q] <= rank[t]
    BY <1>1, <1>7, <2>1 DEF InOrder, TailIsLast
  <2>2. tail[k] = Nobody => \A q \in Requests : ~Keyed(q, k)
    BY <1>1 DEF InOrder, TailIsLast
  <2>3. CASE tail[k] = r
    <3>1. \A q \in Requests : Keyed(q, k) => q = r
      <4> SUFFICES ASSUME NEW q \in Requests, Keyed(q, k), q # r PROVE FALSE
        OBVIOUS
      <4>1. Keyed(r, k) /\ rank[q] <= rank[r]
        BY <2>1, <2>3
      <4>2. rank[r] < rank[q]
        BY <1>1, <1>2, <4>1, InsideIsFirst
      <4> QED BY <4>1, <4>2
    <3>2. tail'[k] = Nobody
      BY <1>7, <2>3
    <3> QED BY <1>6, <1>7, <3>1, <3>2
  <2>4. CASE tail[k] # r
    <3>1. tail'[k] = tail[k]
      BY <1>7, <2>4
    <3>2. tail'[k] = Nobody => \A q \in Requests : ~Keyed(q, k)'
      BY <1>6, <2>2, <3>1
    <3>3. ASSUME NEW t \in Requests, t = tail'[k]
          PROVE  Keyed(t, k)' /\ \A q \in Requests : Keyed(q, k)' => rank[q] <= rank[t]
      BY <1>6, <2>1, <2>4, <3>1, <3>3
    <3> QED BY <3>2, <3>3
  <2> QED BY <2>3, <2>4
<1>13. InOrder(n, rank)'
  <2>1. \A q \in Requests : Holding(q)' => rank[q] < n
    BY <1>1, <1>5 DEF InOrder
  <2>2. \A q, s \in Requests : Holding(q)' /\ Holding(s)' /\ rank[q] = rank[s] => q = s
    BY <1>1, <1>5 DEF InOrder
  <2> QED BY <1>10, <1>11, <1>12, <2>1, <2>2 DEF InOrder
<1> QED BY <1>9, <1>13 DEF LockInv

LEMMA LockStep == IInv2 /\ [Next]_vars => IInv2'
<1> SUFFICES ASSUME IInv2, [Next]_vars PROVE IInv2'
  OBVIOUS
<1>1. LockInv'
  BY LockMoves, QuietKeepsOrder, AcquireKeepsOrder, FinishKeepsOrder
<1>2. IInv1'
  BY TypesStep DEF IInv2
<1> QED BY <1>1, <1>2 DEF IInv2

LEMMA InitTypes == Init => IInv1
<1> SUFFICES ASSUME Init PROVE IInv1
  OBVIOUS
<1>1. /\ class = StartClass /\ refunds = [e \in Registrations |-> 0]
      /\ work = [r \in Requests |-> Idle]
      /\ tail = [k \in Registrations \cup Classes |-> Nobody]
      /\ released = {} /\ faults = 0
  BY DEF Init
<1>2. status \in [Registrations -> {"confirmed", "waitlisted", "cancelled"}]
  <2> DEFINE earlier(e) == Cardinality({d \in Registrations :
                              StartClass[d] = StartClass[e] /\ Rank[d] < Rank[e]})
  <2>1. status = [e \in Registrations |-> IF earlier(e) < Capacity[StartClass[e]]
                                          THEN "confirmed" ELSE "waitlisted"]
    BY DEF Init
  <2> HIDE DEF earlier
  <2> QED BY <2>1
<1>3. TypeOK
  BY <1>1, <1>2, TypeRewritten, IdleIsTyped, RegistrationShape
<1>4. ASSUME NEW r \in Requests PROVE Knows(r)
  <2>1. work[r] = Idle /\ r \notin released
    BY <1>1
  <2>2. KnowsAs(r, Idle, released)
    BY <2>1, IdleIsTyped DEF KnowsAs
  <2> QED BY <2>1, <2>2, KnowsIsKnowsAs
<1> QED BY <1>3, <1>4 DEF IInv1, RequestsKnow

LEMMA InitLock == Init => IInv2
<1> SUFFICES ASSUME Init PROVE LockInv
  BY InitTypes DEF IInv2
<1>1. \A r \in Requests : ~Holding(r)
  BY IdleIsTyped DEF Init, Holding
<1>2. \A k \in Keys : tail[k] = Nobody /\ \A r \in Requests : ~Keyed(r, k)
  BY <1>1 DEF Init, Keys, Keyed
<1>3. [r \in Requests |-> 0] \in [Requests -> Nat]
  OBVIOUS
<1>4. ASSUME NEW rank \in [Requests -> Nat] PROVE InOrder(0, rank)
  BY <1>1, <1>2 DEF InOrder, AwaitsEarlier, AwaitsPredecessors, TailIsLast, Keyed
<1>5. Entered
  BY <1>1 DEF Entered
<1> QED BY <1>3, <1>4, <1>5 DEF LockInv

LEMMA LockAlways == Spec => []IInv2
BY InitLock, LockStep, PTL DEF Spec

\* Types: every row keeps one of the schema's statuses and every request is at
\* a step of its kind, for any number of registrations, classes and requests.
THEOREM DropTypes == Spec => []TypeOK
<1>1. IInv2 => TypeOK
  BY DEF IInv2, IInv1
<1> QED BY <1>1, LockAlways, PTL

LEMMA InsideHolds ==
  ASSUME NEW r
  PROVE  Inside(r) <=> Holding(r) /\ work[r].step # "queued"
BY DEF Inside, Holding

LEMMA Excludes == IInv2 => LockExcludes
<1> SUFFICES ASSUME IInv2, NEW q \in Requests, NEW r \in Requests, q # r, Inside(q), Inside(r),
                    NEW k \in LockKeys(work[q]) \cap LockKeys(work[r])
             PROVE  FALSE
  BY DEF LockExcludes
<1>1. PICK n \in Nat, rank \in [Requests -> Nat] : InOrder(n, rank)
  BY DEF IInv2, LockInv
<1>2. Holding(q) /\ Holding(r) /\ work[q].step # "queued" /\ work[r].step # "queued"
  BY InsideHolds
<1>3. k \in Keys /\ Keyed(q, k) /\ Keyed(r, k)
  BY <1>2, HoldersKeys DEF IInv2, Keyed
<1>4. rank[r] < rank[q] /\ rank[q] < rank[r]
  BY <1>1, <1>2, <1>3, InsideIsFirst
<1> QED BY <1>4

\* AsyncLock.acquire takes several queues at once; still no two requests with a
\* common key are inside, whatever keys the requests of a process ask for.
THEOREM LocksExclude == Spec => []LockExcludes
BY Excludes, LockAlways, PTL

LEMMA InVain == IInv2 => NobodyWaitsInVain
<1> SUFFICES ASSUME IInv2 PROVE NobodyWaitsInVain
  OBVIOUS
<1> DEFINE queued == {r \in Requests : work[r].step = "queued"}
<1>1. PICK n \in Nat, rank \in [Requests -> Nat] : InOrder(n, rank)
  BY DEF IInv2, LockInv
<1>2. \A r \in queued : Holding(r)
  <2> SUFFICES ASSUME NEW r \in Requests, work[r].step = "queued" PROVE Holding(r)
    OBVIOUS
  <2>1. Knows(r) /\ work[r] \in Records
    BY SlotsAreTyped DEF IInv2, IInv1, RequestsKnow
  <2> QED BY <2>1 DEF Knows, Holding, Records, Kinds
<1>3. ASSUME NEW r \in queued, NEW q \in work[r].awaits \ released
      PROVE  q \in Requests /\ Holding(q) /\ rank[q] < rank[r] /\ (q \in queued \/ Inside(q))
  <2>1. q \in Requests
    BY SlotsAreTyped DEF IInv2, IInv1, Records
  <2>2. Holding(q) /\ rank[q] < rank[r]
    BY <1>1, <1>2, <1>3 DEF InOrder, AwaitsEarlier
  <2> QED BY <2>1, <2>2, InsideHolds
<1>4. ASSUME queued # {}
      PROVE  \E r \in Requests : Inside(r) \/ (r \in queued /\ work[r].awaits \subseteq released)
  <2> DEFINE T == {rank[r] : r \in queued}
  <2>1. T \subseteq Nat /\ T # {}
    BY <1>4
  <2>2. PICK m \in T : \A i \in T : m <= i
    <3> HIDE DEF T
    <3> QED BY <2>1, SmallestExists
  <2>3. PICK r \in queued : \A s \in queued : rank[r] <= rank[s]
    BY <2>2
  <2>4. CASE work[r].awaits \subseteq released
    BY <2>3, <2>4
  <2>5. CASE ~(work[r].awaits \subseteq released)
    <3>1. PICK q \in work[r].awaits \ released : TRUE
      BY <2>5
    <3>2. q \in Requests /\ rank[q] < rank[r] /\ (q \in queued \/ Inside(q))
      BY <1>3, <3>1
    <3>3. q \notin queued
      BY <2>3, <3>2
    <3> QED BY <3>2, <3>3
  <2> QED BY <2>4, <2>5
<1> QED BY <1>3, <1>4 DEF NobodyWaitsInVain, At

\* Whoever is queued awaits requests that go on, and somebody always can go on:
\* queueing for several locks at once leads to no circle of requests.
THEOREM NobodyIsForgotten == Spec => []NobodyWaitsInVain
BY InVain, LockAlways, PTL

\* acquire() with any keys, callers and failures: a lock, and no deadlock.
THEOREM LockKeepsItsPromise == Spec => []LockServes
<1>1. LockExcludes /\ NobodyWaitsInVain => LockServes
  BY DEF LockServes
<1> QED BY <1>1, LocksExclude, NobodyIsForgotten, PTL

-----------------------------------------------------------------------------
(***************************************************************************)
(* What each step does to the record of its request.                       *)
(***************************************************************************)
Others(r) == \A q \in Requests : q # r => work'[q] = work[q]
KeepsWho(r) == /\ work'[r].kind = work[r].kind /\ work'[r].reg = work[r].reg
               /\ work'[r].target = work[r].target

LEMMA GoFields ==
  ASSUME IInv1, NEW r \in Requests, NEW step, Go(r, step)
  PROVE  /\ Others(r) /\ KeepsWho(r) /\ work'[r].step = step
         /\ work'[r].source = work[r].source /\ work'[r].seen = work[r].seen
         /\ work'[r].place = work[r].place /\ work'[r].top = work[r].top
<1> DEFINE w == [work[r] EXCEPT !.step = step]
<1>1. work[r] \in Records
  BY SlotsAreTyped DEF IInv1
<1>2. /\ w.step = step /\ w.kind = work[r].kind /\ w.reg = work[r].reg /\ w.target = work[r].target
      /\ w.source = work[r].source /\ w.seen = work[r].seen /\ w.place = work[r].place
      /\ w.top = work[r].top
  BY <1>1 DEF Records
<1>3. work' = [work EXCEPT ![r] = w]
  BY DEF Go
<1> HIDE DEF w
<1> QED BY <1>2, <1>3, OneSlot DEF Others, KeepsWho, IInv1

LEMMA AcquireFields ==
  ASSUME IInv1, NEW r \in Requests, NEW w \in Records, Acquire(r, w)
  PROVE  /\ Others(r) /\ work'[r].kind = w.kind /\ work'[r].reg = w.reg
         /\ work'[r].target = w.target /\ work'[r].step = "queued"
         /\ work'[r].source = w.source /\ work'[r].top = w.top
<1> DEFINE a == {tail[k] : k \in LockKeys(w)} \ {Nobody}
           v == [w EXCEPT !.step = "queued", !.awaits = a]
<1>1. work' = [work EXCEPT ![r] = v]
  BY DEF Acquire
<1> HIDE DEF a
<1>2. /\ v.step = "queued" /\ v.kind = w.kind /\ v.reg = w.reg /\ v.target = w.target
      /\ v.source = w.source /\ v.top = w.top
  BY DEF Records
<1> HIDE DEF v
<1> QED BY <1>1, <1>2, OneSlot DEF Others, IInv1

LEMMA TransferFields ==
  ASSUME IInv1, NEW r \in Requests, NEW e \in Registrations, NEW c \in Classes, Transfer(r, e, c)
  PROVE  /\ Others(r) /\ work'[r].kind = "transfer" /\ work'[r].reg = e /\ work'[r].target = c
         /\ work'[r].source = class[e] /\ work'[r].step = "asking" /\ work'[r].top = Nobody
<1> DEFINE n == New("transfer", e)
           w == [n EXCEPT !.target = c, !.source = class[e], !.step = "asking"]
<1>1. n \in Records /\ n.kind = "transfer" /\ n.reg = e /\ n.top = Nobody
  BY NewIsTyped
<1>2. work' = [work EXCEPT ![r] = w]
  BY DEF Transfer
<1> HIDE DEF n
<1>3. /\ w.kind = "transfer" /\ w.reg = e /\ w.target = c /\ w.source = class[e]
      /\ w.step = "asking" /\ w.top = Nobody
  BY <1>1 DEF Records
<1> HIDE DEF w
<1> QED BY <1>2, <1>3, OneSlot DEF Others, IInv1

LEMMA PromotionFields ==
  ASSUME IInv1, NEW r \in Requests, NEW e \in Registrations, PromoteManually(r, e)
  PROVE  /\ Others(r) /\ work'[r].kind = "promotion" /\ work'[r].step = "promoting"
<1> DEFINE n == New("promotion", e)
           w == [n EXCEPT !.seen = "waitlisted", !.top = e, !.step = "promoting"]
<1>1. n \in Records /\ n.kind = "promotion"
  BY NewIsTyped
<1>2. work' = [work EXCEPT ![r] = w]
  BY DEF PromoteManually
<1> HIDE DEF n
<1>3. w.kind = "promotion" /\ w.step = "promoting"
  BY <1>1 DEF Records
<1> HIDE DEF w
<1> QED BY <1>2, <1>3, OneSlot DEF Others, IInv1

\* The second read, of a registration that is still active.
Reads(r) ==
    /\ Others(r) /\ KeepsWho(r) /\ work'[r].top = work[r].top
    /\ work'[r].seen = status[work[r].reg]
    /\ work[r].kind = "drop" => work'[r].source = class[work[r].reg] /\ work'[r].step = "cancelling"
    /\ work[r].kind # "drop" => work'[r].source = work[r].source /\ work'[r].step = "counting"

LEMMA ReadFields ==
  ASSUME IInv1, NEW r \in Requests, ReadAgain(r)
  PROVE  Finish(r) \/ (Reads(r) /\ UNCHANGED locks)
<1>1. CASE status[work[r].reg] \in Active
  <2> DEFINE s == IF work[r].kind = "drop" THEN class[work[r].reg] ELSE work[r].source
             step == IF work[r].kind = "drop" THEN "cancelling" ELSE "counting"
             w == [work[r] EXCEPT !.seen = status[work[r].reg], !.source = s, !.step = step]
  <2>1. work' = [work EXCEPT ![r] = w] /\ UNCHANGED locks
    BY <1>1 DEF ReadAgain
  <2>2. /\ work[r].kind = "drop" => s = class[work[r].reg] /\ step = "cancelling"
        /\ work[r].kind # "drop" => s = work[r].source /\ step = "counting"
    OBVIOUS
  <2> HIDE DEF s, step
  <2>3. work[r] \in Records
    BY SlotsAreTyped DEF IInv1
  <2>4. /\ w.step = step /\ w.source = s /\ w.seen = status[work[r].reg] /\ w.kind = work[r].kind
        /\ w.reg = work[r].reg /\ w.target = work[r].target /\ w.top = work[r].top
    BY <2>3 DEF Records
  <2> HIDE DEF w
  <2> QED BY <2>1, <2>2, <2>4, OneSlot DEF Reads, Others, KeepsWho, IInv1
<1>2. CASE status[work[r].reg] \notin Active
  BY <1>2 DEF ReadAgain
<1> QED BY <1>1, <1>2

LEMMA CountFields ==
  ASSUME IInv1, NEW r \in Requests, Count(r)
  PROVE  /\ Others(r) /\ KeepsWho(r) /\ work'[r].step = "moving" /\ work'[r].top = work[r].top
         /\ work'[r].source = work[r].source /\ work'[r].seen = work[r].seen
         /\ work'[r].place = IF Cardinality(Confirmed(work[r].target)) < Capacity[work[r].target]
                             THEN "confirmed" ELSE "waitlisted"
<1> DEFINE p == IF Cardinality(Confirmed(work[r].target)) < Capacity[work[r].target]
                THEN "confirmed" ELSE "waitlisted"
           w == [work[r] EXCEPT !.place = p, !.step = "moving"]
<1>1. work' = [work EXCEPT ![r] = w]
  BY DEF Count
<1>2. p = IF Cardinality(Confirmed(work[r].target)) < Capacity[work[r].target]
          THEN "confirmed" ELSE "waitlisted"
  OBVIOUS
<1> HIDE DEF p
<1>3. work[r] \in Records
  BY SlotsAreTyped DEF IInv1
<1>4. /\ w.step = "moving" /\ w.place = p /\ w.source = work[r].source /\ w.seen = work[r].seen
      /\ w.kind = work[r].kind /\ w.reg = work[r].reg /\ w.target = work[r].target
      /\ w.top = work[r].top
  BY <1>3 DEF Records
<1> HIDE DEF w
<1> QED BY <1>1, <1>2, <1>4, OneSlot DEF Others, KeepsWho, IInv1

\* The first in line becomes the one to promote.
Picks(r) ==
    /\ Others(r) /\ KeepsWho(r) /\ work'[r].step = "promoting"
    /\ work'[r].source = work[r].source /\ work'[r].seen = work[r].seen
    /\ work'[r].top \in Waitlisted(work[r].source)

LEMMA ListFields ==
  ASSUME IInv1, NEW r \in Requests, List(r)
  PROVE  Go(r, AfterPromotion(r)) \/ Picks(r)
<1> DEFINE line == Waitlisted(work[r].source)
           top == First(line)
           w == [work[r] EXCEPT !.top = top, !.step = "promoting"]
<1>1. CASE line = {}
  BY <1>1 DEF List
<1>2. CASE line # {}
  <2>1. work' = [work EXCEPT ![r] = w]
    BY <1>2 DEF List
  <2>2. top \in Waitlisted(work[r].source)
    BY <1>2, FirstIsInLine DEF Waitlisted
  <2> HIDE DEF top
  <2>3. work[r] \in Records
    BY SlotsAreTyped DEF IInv1
  <2>4. /\ w.step = "promoting" /\ w.top = top /\ w.source = work[r].source /\ w.seen = work[r].seen
        /\ w.kind = work[r].kind /\ w.reg = work[r].reg /\ w.target = work[r].target
    BY <2>3 DEF Records
  <2> HIDE DEF w
  <2> QED BY <2>1, <2>2, <2>4, OneSlot DEF Picks, Others, KeepsWho, IInv1
<1> QED BY <1>1, <1>2

-----------------------------------------------------------------------------
(***************************************************************************)
(* Refunds.  Of a registration that no promotion has picked: only the      *)
(* request whose update cancelled it goes on to the refund, and from that  *)
(* update on it stays cancelled.                                           *)
(***************************************************************************)
Unpicked(e) == \A r \in Requests : work[r].top # e
Refunding(r, e) ==
    /\ work[r].kind = "drop" /\ work[r].reg = e
    /\ work[r].step \in {"listing", "promoting", "refunding"}
PaidAtMostOnce(e) ==
    /\ refunds[e] <= 1
    /\ refunds[e] = 1 => status[e] = "cancelled" /\ \A r \in Requests : ~Refunding(r, e)
    /\ \A r \in Requests : Refunding(r, e) => status[e] = "cancelled"
    /\ \A q, r \in Requests : Refunding(q, e) /\ Refunding(r, e) => q = r
RefundInv == \A e \in Registrations : Unpicked(e) => PaidAtMostOnce(e)

\* The three things a step can do to an unpicked registration e: nothing that
\* matters, unless e is active; cancel it, in request r; refund it, in request r.
LeavesAlone(e) ==
    /\ refunds'[e] = refunds[e]
    /\ status'[e] = status[e] \/ status[e] \in Active
    /\ \A q \in Requests : Refunding(q, e)' => Refunding(q, e)
Cancels(r, e) ==
    /\ refunds'[e] = refunds[e] /\ status[e] \in Active /\ status'[e] = "cancelled"
    /\ \A q \in Requests : q # r => (Refunding(q, e)' => Refunding(q, e))
Pays(r, e) ==
    /\ refunds'[e] = refunds[e] + 1 /\ status'[e] = status[e]
    /\ Refunding(r, e) /\ ~Refunding(r, e)'
    /\ \A q \in Requests : q # r => (Refunding(q, e)' => Refunding(q, e))

LEMMA OneRequestRefunds ==
  ASSUME NEW r \in Requests, NEW e, Others(r)
  PROVE  \A q \in Requests : q # r => (Refunding(q, e)' <=> Refunding(q, e))
BY DEF Others, Refunding

LEMMA RefundMoves ==
  ASSUME IInv1, Next, NEW e \in Registrations, Unpicked(e)
  PROVE  LeavesAlone(e) \/ \E r \in Requests : Cancels(r, e) \/ Pays(r, e)
<1>t. \A r \in Requests : work[r] \in Records /\ KnowsAs(r, work[r], released) /\ work[r].top # e
  BY SlotsAreTyped, KnowsIsKnowsAs DEF IInv1, RequestsKnow, Unpicked
<1>y. status \in [Registrations -> {"confirmed", "waitlisted", "cancelled"}]
      /\ refunds \in [Registrations -> Nat]
  BY DEF IInv1, TypeOK
\* Most steps change neither the status nor the refunds and take nobody to the refund.
<1>a. ASSUME NEW r \in Requests, Others(r), Refunding(r, e)' => Refunding(r, e),
             status'[e] = status[e] \/ status[e] \in Active, UNCHANGED refunds
      PROVE  LeavesAlone(e)
  BY <1>a, OneRequestRefunds DEF LeavesAlone
<1>f. ASSUME NEW r \in Requests, Finish(r) PROVE Others(r) /\ ~Refunding(r, e)'
  BY <1>f, GoFields DEF Finish, Refunding
<1>1. ASSUME NEW r \in Requests, NEW d \in Registrations, Drop(r, d) PROVE LeavesAlone(e)
  <2>1. Others(r) /\ work'[r].step = "queued"
    BY <1>1, NewIsTyped, AcquireFields DEF Drop
  <2> QED BY <1>1, <1>a, <2>1 DEF Drop, rows, Refunding
<1>2. ASSUME NEW r \in Requests, NEW d \in Registrations, NEW c \in Classes, Transfer(r, d, c)
      PROVE  LeavesAlone(e)
  BY <1>2, <1>a, TransferFields DEF Transfer, rows, Refunding
<1>3. ASSUME NEW r \in Requests, AskForLocks(r) PROVE LeavesAlone(e)
  <2>1. Others(r) /\ work'[r].step = "queued"
    BY <1>3, <1>t, AcquireFields DEF AskForLocks
  <2> QED BY <1>3, <1>a, <2>1 DEF AskForLocks, rows, Refunding
<1>4. ASSUME NEW r \in Requests, NEW d \in Registrations, PromoteManually(r, d) PROVE LeavesAlone(e)
  BY <1>4, <1>a, PromotionFields DEF PromoteManually, rows, Refunding
<1>5. ASSUME NEW r \in Requests, Enter(r) PROVE LeavesAlone(e)
  BY <1>5, <1>a, GoFields DEF Enter, rows, Refunding
<1>6. ASSUME NEW r \in Requests, ReadAgain(r) PROVE LeavesAlone(e)
  <2>1. UNCHANGED <<status, refunds>>
    BY <1>6 DEF ReadAgain, rows
  <2>2. Others(r) /\ ~Refunding(r, e)'
    BY <1>6, <1>f, ReadFields DEF Reads, Refunding
  <2> QED BY <1>a, <2>1, <2>2
<1>7. ASSUME NEW r \in Requests, Cancel(r) PROVE LeavesAlone(e) \/ Cancels(r, e)
  <2>1. UNCHANGED refunds /\ work[r].reg \in Registrations
    BY <1>7, <1>t DEF Cancel, At, KnowsAs
  <2>2. CASE Finish(r) /\ UNCHANGED status
    BY <1>a, <1>f, <2>1, <2>2
  <2>3. CASE status[work[r].reg] \in Active
    <3>1. status' = [status EXCEPT ![work[r].reg] = "cancelled"] /\ AfterLeaving(r)
      BY <1>7, <2>3 DEF Cancel
    <3>2. Others(r) /\ KeepsWho(r)
      BY <3>1, GoFields DEF AfterLeaving
    <3>3. CASE work[r].reg = e
      BY <1>y, <2>1, <2>3, <3>1, <3>2, <3>3, OneRequestRefunds DEF Cancels
    <3>4. CASE work[r].reg # e
      <4>1. status'[e] = status[e] /\ ~Refunding(r, e)'
        BY <1>y, <3>1, <3>2, <3>4 DEF KeepsWho, Refunding
      <4> QED BY <1>a, <2>1, <3>2, <4>1
    <3> QED BY <3>3, <3>4
  <2> QED BY <1>7, <2>2, <2>3 DEF Cancel
<1>8. ASSUME NEW r \in Requests, Count(r) PROVE LeavesAlone(e)
  BY <1>8, <1>a, CountFields DEF Count, rows, Refunding
<1>9. ASSUME NEW r \in Requests, Move(r) PROVE LeavesAlone(e)
  <2>1. UNCHANGED refunds /\ work[r].reg \in Registrations /\ work[r].kind = "transfer"
    BY <1>9, <1>t DEF Move, At, KnowsAs
  <2>2. CASE Finish(r) /\ UNCHANGED status
    BY <1>a, <1>f, <2>1, <2>2
  <2>3. CASE status[work[r].reg] \in Active
    <3>1. status' = [status EXCEPT ![work[r].reg] = work[r].place] /\ AfterLeaving(r)
      BY <1>9, <2>3 DEF Move
    <3>2. Others(r) /\ KeepsWho(r)
      BY <3>1, GoFields DEF AfterLeaving
    <3>3. ~Refunding(r, e)'
      BY <2>1, <3>2 DEF KeepsWho, Refunding
    <3>4. status'[e] = status[e] \/ status[e] \in Active
      BY <1>y, <2>1, <2>3, <3>1
    <3> QED BY <1>a, <2>1, <3>2, <3>3, <3>4
  <2> QED BY <1>9, <2>2, <2>3 DEF Move
<1>10. ASSUME NEW r \in Requests, List(r) PROVE LeavesAlone(e)
  <2>1. UNCHANGED <<status, refunds>> /\ work[r].step = "listing"
    BY <1>10 DEF List, At, rows
  <2>2. Others(r) /\ KeepsWho(r)
    BY <1>10, GoFields, ListFields DEF Picks
  <2>3. Refunding(r, e)' => Refunding(r, e)
    BY <2>1, <2>2 DEF KeepsWho, Refunding
  <2> QED BY <1>a, <2>1, <2>2, <2>3
<1>11. ASSUME NEW r \in Requests, Promote(r) PROVE LeavesAlone(e)
  <2>1. UNCHANGED refunds /\ work[r].step = "promoting" /\ Go(r, AfterPromotion(r))
    BY <1>11 DEF Promote, At
  <2>2. status'[e] = status[e]
    BY <1>11, <1>t, <1>y DEF Promote
  <2>3. Others(r) /\ KeepsWho(r)
    BY <2>1, GoFields
  <2>4. Refunding(r, e)' => Refunding(r, e)
    BY <2>1, <2>3 DEF KeepsWho, Refunding
  <2> QED BY <1>a, <2>1, <2>2, <2>3, <2>4
<1>12. ASSUME NEW r \in Requests, Refund(r) PROVE LeavesAlone(e) \/ Pays(r, e)
  <2>1. UNCHANGED status /\ work[r].step = "refunding" /\ Go(r, "ending") /\ work[r].kind = "drop"
    BY <1>12, <1>t DEF Refund, At, KnowsAs
  <2>2. Others(r) /\ ~Refunding(r, e)'
    BY <2>1, GoFields DEF Refunding
  <2>3. CASE UNCHANGED refunds
    BY <1>a, <2>1, <2>2, <2>3
  <2>4. CASE refunds' = [refunds EXCEPT ![work[r].reg] = refunds[work[r].reg] + 1]
    <3>1. CASE work[r].reg = e
      <4>1. Refunding(r, e) /\ refunds'[e] = refunds[e] + 1
        BY <1>y, <2>1, <2>4, <3>1 DEF Refunding
      <4> QED BY <2>1, <2>2, <4>1, OneRequestRefunds DEF Pays
    <3>2. CASE work[r].reg # e
      <4>1. refunds'[e] = refunds[e]
        BY <1>y, <2>4, <3>2
      <4> QED BY <2>1, <2>2, <4>1, OneRequestRefunds DEF LeavesAlone
    <3> QED BY <3>1, <3>2
  <2> QED BY <1>12, <2>3, <2>4 DEF Refund
<1>13. ASSUME NEW r \in Requests, Return(r) PROVE LeavesAlone(e)
  BY <1>13, <1>a, <1>f DEF Return, rows
<1>14. ASSUME NEW r \in Requests, Throw(r) PROVE LeavesAlone(e)
  BY <1>14, <1>a, <1>f DEF Throw, rows
<1> QED
  BY <1>1, <1>2, <1>3, <1>4, <1>5, <1>6, <1>7, <1>8, <1>9, <1>10, <1>11, <1>12, <1>13, <1>14
  DEF Next, Begin, Continue


\* Every step changes the record of one request only, and that says for ever
\* what was asked for.
LEMMA OneRequest ==
  ASSUME IInv1, NEW r \in Requests, Begin(r) \/ Continue(r) \/ Throw(r)
  PROVE  Others(r) /\ (work[r].step # "free" => KeepsWho(r))
<1> DEFINE goal == Others(r) /\ (work[r].step # "free" => KeepsWho(r))
<1>t. work[r] \in Records
  BY SlotsAreTyped DEF IInv1
<1>f. ASSUME Finish(r) PROVE goal
  BY <1>f, GoFields DEF Finish
<1>1. ASSUME NEW e \in Registrations, Drop(r, e) PROVE goal
  BY <1>1, NewIsTyped, AcquireFields DEF Drop, At
<1>2. ASSUME NEW e \in Registrations, NEW c \in Classes, Transfer(r, e, c) PROVE goal
  BY <1>2, TransferFields DEF Transfer, At
<1>3. ASSUME NEW e \in Registrations, PromoteManually(r, e) PROVE goal
  BY <1>3, PromotionFields DEF PromoteManually, At
<1>4. CASE AskForLocks(r)
  BY <1>4, <1>t, AcquireFields DEF AskForLocks, KeepsWho
<1>5. CASE Enter(r)
  BY <1>5, GoFields DEF Enter
<1>6. CASE ReadAgain(r)
  BY <1>6, <1>f, ReadFields DEF Reads
<1>7. CASE Cancel(r)
  BY <1>7, <1>f, GoFields DEF Cancel, AfterLeaving
<1>8. CASE Count(r)
  BY <1>8, CountFields
<1>9. CASE Move(r)
  BY <1>9, <1>f, GoFields DEF Move, AfterLeaving
<1>10. CASE List(r)
  BY <1>10, GoFields, ListFields DEF Picks
<1>11. CASE Promote(r)
  BY <1>11, GoFields DEF Promote
<1>12. CASE Refund(r)
  BY <1>12, GoFields DEF Refund
<1>13. CASE Return(r)
  BY <1>13, <1>f DEF Return
<1>14. CASE Throw(r)
  BY <1>14, <1>f DEF Throw
<1> QED
  BY <1>1, <1>2, <1>3, <1>4, <1>5, <1>6, <1>7, <1>8, <1>9, <1>10, <1>11, <1>12, <1>13, <1>14
  DEF Begin, Continue

\* Once picked, always picked.
LEMMA PickedStays ==
  ASSUME IInv1, Next, NEW e \in Registrations, Unpicked(e)'
  PROVE  Unpicked(e)
<1> SUFFICES ASSUME NEW r \in Requests, work[r].top = e PROVE FALSE
  BY DEF Unpicked
<1>1. Knows(r) /\ e # Nobody /\ work'[r].top # e /\ work[r] \in Records
  BY RegistrationShape, SlotsAreTyped DEF IInv1, RequestsKnow, Unpicked
<1>2. work[r].step \in {"promoting", "refunding", "ending", "done"}
  BY <1>1 DEF Knows, Records, Steps
<1>3. PICK q \in Requests : Begin(q) \/ Continue(q) \/ Throw(q)
  BY DEF Next
<1>4. CASE q # r
  BY <1>1, <1>3, <1>4, OneRequest DEF Others
<1>5. CASE q = r
  <2>1. Promote(r) \/ Refund(r) \/ Return(r) \/ Throw(r)
    BY <1>2, <1>3, <1>5
    DEF Begin, Continue, Drop, Transfer, PromoteManually, AskForLocks, Enter, ReadAgain, Cancel,
        Count, Move, List, At
  <2>2. \E step : Go(r, step)
    BY <2>1 DEF Promote, Refund, Return, Throw, Finish
  <2> QED BY <1>1, <2>2, GoFields
<1> QED BY <1>4, <1>5

LEMMA RefundStep == IInv1 /\ RefundInv /\ [Next]_vars => RefundInv'
<1> SUFFICES ASSUME IInv1, RefundInv, [Next]_vars, NEW e \in Registrations, Unpicked(e)'
             PROVE  PaidAtMostOnce(e)'
  BY DEF RefundInv
<1>1. CASE UNCHANGED vars
  BY <1>1 DEF vars, RefundInv, PaidAtMostOnce, Unpicked, Refunding
<1>2. CASE Next
  <2>1. PaidAtMostOnce(e) /\ Unpicked(e)
    BY <1>2, PickedStays DEF RefundInv
  <2>2. refunds[e] \in Nat /\ (status[e] \in Active => status[e] # "cancelled")
    BY DEF IInv1, TypeOK, Active
  <2>3. CASE LeavesAlone(e)
    BY <2>1, <2>2, <2>3 DEF LeavesAlone, PaidAtMostOnce
  <2>4. ASSUME NEW r \in Requests, Cancels(r, e) PROVE PaidAtMostOnce(e)'
    <3>1. refunds[e] = 0 /\ \A q \in Requests : ~Refunding(q, e)
      BY <2>1, <2>2, <2>4 DEF PaidAtMostOnce, Cancels
    <3>2. \A q \in Requests : Refunding(q, e)' => q = r
      BY <2>4, <3>1 DEF Cancels
    <3> QED BY <2>4, <3>1, <3>2 DEF Cancels, PaidAtMostOnce
  <2>5. ASSUME NEW r \in Requests, Pays(r, e) PROVE PaidAtMostOnce(e)'
    <3>1. refunds[e] = 0 /\ status[e] = "cancelled"
      BY <2>1, <2>2, <2>5 DEF PaidAtMostOnce, Pays
    <3>2. \A q \in Requests : ~Refunding(q, e)'
      BY <2>1, <2>5 DEF PaidAtMostOnce, Pays
    <3> QED BY <2>5, <3>1, <3>2 DEF Pays, PaidAtMostOnce
  <2> QED BY <1>2, <2>1, <2>3, <2>4, <2>5, RefundMoves
<1> QED BY <1>1, <1>2

\* However often and by whoever a registration is dropped, it is refunded at
\* most once unless a promotion has picked it, for any number of requests.
THEOREM RefundsHappenOnce == Spec => []RefundedOnce
<1>1. Init => RefundInv
  <2> SUFFICES ASSUME Init, NEW e \in Registrations PROVE PaidAtMostOnce(e)
    BY DEF RefundInv
  <2>1. refunds[e] = 0 /\ \A r \in Requests : ~Refunding(r, e)
    BY IdleIsTyped DEF Init, Refunding
  <2> QED BY <2>1 DEF PaidAtMostOnce
<1>2. Init => IInv1
  BY InitTypes
<1>3. RefundInv => RefundedOnce
  BY DEF RefundInv, RefundedOnce, Unpicked, PaidAtMostOnce
<1> QED BY <1>1, <1>2, <1>3, TypesStep, RefundStep, PTL DEF Spec

-----------------------------------------------------------------------------
(***************************************************************************)
(* Seats.                                                                  *)
(***************************************************************************)
LEMMA ConfirmedIsFinite ==
  ASSUME NEW c
  PROVE  IsFiniteSet(Confirmed(c)) /\ Cardinality(Confirmed(c)) \in Nat
         /\ IsFiniteSet(Confirmed(c)') /\ Cardinality(Confirmed(c)') \in Nat
<1>1. IsFiniteSet(Registrations)
  BY RegistrationShape
<1>2. Confirmed(c) \in SUBSET Registrations /\ Confirmed(c)' \in SUBSET Registrations
  BY DEF Confirmed
<1>3. IsFiniteSet(Confirmed(c)) /\ IsFiniteSet(Confirmed(c)')
  BY <1>1, <1>2, FS_Subset
<1> QED BY <1>3, FS_CardinalityType

\* Who is confirmed in a class after one registration's status has changed.
LEMMA OneConfirmed ==
  ASSUME TypeOK, UNCHANGED class, NEW e \in Registrations, NEW s, NEW c,
         status' = [status EXCEPT ![e] = s]
  PROVE  /\ class[e] # c => Confirmed(c)' = Confirmed(c)
         /\ s = "confirmed" => Confirmed(c)' \in SUBSET (Confirmed(c) \cup {e})
         /\ s # "confirmed" => Confirmed(c)' = Confirmed(c) \ {e}
<1>1. \A d \in Registrations : status'[d] = IF d = e THEN s ELSE status[d]
  BY DEF TypeOK
<1> QED BY <1>1 DEF Confirmed

LEMMA OneMore ==
  ASSUME NEW S, NEW T, NEW e, IsFiniteSet(S), T \in SUBSET (S \cup {e})
  PROVE  Cardinality(T) <= Cardinality(S) + 1
<1>1. IsFiniteSet(S \cup {e}) /\ Cardinality(S \cup {e}) <= Cardinality(S) + 1
      /\ Cardinality(S \cup {e}) \in Nat /\ Cardinality(S) \in Nat
  BY FS_AddElement, FS_CardinalityType
<1>2. IsFiniteSet(T) /\ Cardinality(T) <= Cardinality(S \cup {e})
  BY <1>1, FS_Subset
<1>3. Cardinality(T) \in Nat
  BY <1>2, FS_CardinalityType
<1> QED BY <1>1, <1>2, <1>3

\* At the start the earliest registrations of a class are confirmed, no more
\* than it has seats: the last of them has fewer than that before it.
LEMMA StartsWithinCapacity ==
  ASSUME Init, NEW c \in Classes
  PROVE  Cardinality(Confirmed(c)) <= Capacity[c]
<1> DEFINE before(e) == {d \in Registrations : StartClass[d] = StartClass[e] /\ Rank[d] < Rank[e]}
           S == {e \in Registrations : StartClass[e] = c /\ Cardinality(before(e)) < Capacity[c]}
<1>1. Confirmed(c) = S
  BY DEF Init, Confirmed
<1>2. Capacity[c] \in Nat /\ \A e \in Registrations : Rank[e] \in Nat
  BY RegistrationShape
<1>3. \A e \in Registrations : IsFiniteSet(before(e)) /\ Cardinality(before(e)) \in Nat
  <2>1. ASSUME NEW e \in Registrations PROVE IsFiniteSet(before(e))
    BY RegistrationShape, FS_Subset
  <2>2. ASSUME NEW e \in Registrations PROVE Cardinality(before(e)) \in Nat
    <3> HIDE DEF before
    <3> QED BY <2>1, FS_CardinalityType
  <2> QED BY <2>1, <2>2
<1>4. CASE S = {}
  <2> HIDE DEF S
  <2> QED BY <1>1, <1>2, <1>4, FS_EmptySet
<1>5. CASE S # {}
  <2> DEFINE room(e) == Capacity[c] - Cardinality(before(e))
             T == {room(e) : e \in S}
  <2>1. T \subseteq Nat /\ T # {}
    <3> HIDE DEF before
    <3> QED BY <1>2, <1>3, <1>5
  <2>2. PICK m \in T : \A i \in T : m <= i
    <3> HIDE DEF T
    <3> QED BY <2>1, SmallestExists
  <2>3. PICK e \in S : \A d \in S : Cardinality(before(d)) <= Cardinality(before(e))
    <3>1. PICK e \in S : m = room(e)
      BY <2>2
    <3>2. \A d \in S : room(e) <= room(d)
      BY <2>2, <3>1
    <3>3. \A d \in S : Cardinality(before(d)) <= Cardinality(before(e))
      <4> HIDE DEF before
      <4> QED BY <1>2, <1>3, <3>2
    <3> QED BY <3>3
  <2>4. ASSUME NEW d \in S, d # e PROVE d \in before(e)
    <3>1. Rank[d] # Rank[e] /\ Rank[d] \in Nat /\ Rank[e] \in Nat
      BY <2>4, RegistrationShape
    <3>2. ASSUME Rank[e] < Rank[d] PROVE FALSE
      <4>1. before(e) \cup {e} \in SUBSET before(d)
        BY <1>2, <3>2
      <4>2. e \notin before(e)
        BY <1>2
      <4> HIDE DEF before
      <4>3. Cardinality(before(e) \cup {e}) = Cardinality(before(e)) + 1
        BY <1>3, <4>2, FS_AddElement
      <4>4. Cardinality(before(e) \cup {e}) <= Cardinality(before(d))
        BY <1>3, <4>1, FS_Subset
      <4>5. Cardinality(before(d)) <= Cardinality(before(e))
        BY <2>3
      <4> QED BY <1>3, <4>3, <4>4, <4>5
    <3>3. Rank[d] < Rank[e]
      BY <3>1, <3>2
    <3> QED BY <3>3
  <2>5. S \in SUBSET (before(e) \cup {e})
    BY <2>4
  <2>6. Cardinality(before(e)) < Capacity[c] /\ e \in Registrations
    BY <2>3
  <2> HIDE DEF before, S
  <2>7. Cardinality(S) <= Cardinality(before(e)) + 1
    BY <1>3, <2>5, <2>6, OneMore
  <2>8. Cardinality(S) \in Nat
    BY <1>1, ConfirmedIsFinite
  <2> QED BY <1>1, <1>2, <1>3, <2>6, <2>7, <2>8
<1> QED BY <1>4, <1>5

(***************************************************************************)
(* Drops only.  A request that has cancelled a confirmed registration will *)
(* promote at most one, so it keeps a seat of the class it left.           *)
(***************************************************************************)
OnlyDrops == Begun("transfer") \cup Begun("promotion") = {}
Leaving(c) == {r \in Requests : work[r].step \in {"listing", "promoting"} /\ work[r].source = c}
DropKnows(r) ==
    LET w == work[r] IN
    /\ w.step = "cancelling" =>
          w.source = class[w.reg] /\ (w.seen = "confirmed" => status[w.reg] # "waitlisted")
    /\ w.step = "promoting" => class[w.top] = w.source
SeatsKept(c) == IsFiniteSet(Leaving(c)) /\ Cardinality(Confirmed(c)) + Cardinality(Leaving(c)) <= Capacity[c]
DropInv == OnlyDrops => (\A r \in Requests : DropKnows(r)) /\ \A c \in Classes : SeatsKept(c)

\* Who is leaving a class after a step of request r.
LEMMA LeavingChanges ==
  ASSUME NEW r \in Requests, Others(r), NEW c
  PROVE  /\ r \notin Leaving(c)' => Leaving(c)' = Leaving(c) \ {r}
         /\ r \in Leaving(c)' => Leaving(c)' = Leaving(c) \cup {r}
BY DEF Others, Leaving

\* A step after which at most the seat that r keeps has been taken.
LEMMA SeatStays ==
  ASSUME NEW r \in Requests, NEW c \in Classes, SeatsKept(c), Others(r),
         \/ /\ Confirmed(c)' \in SUBSET Confirmed(c)
            /\ r \in Leaving(c)' => r \in Leaving(c)
         \/ /\ \E e : Confirmed(c)' \in SUBSET (Confirmed(c) \cup {e})
            /\ r \in Leaving(c) /\ r \notin Leaving(c)'
         \/ \E e \in Confirmed(c) : Confirmed(c)' = Confirmed(c) \ {e}
  PROVE  SeatsKept(c)'
<1>1. /\ IsFiniteSet(Confirmed(c)) /\ Cardinality(Confirmed(c)) \in Nat
      /\ IsFiniteSet(Confirmed(c)') /\ Cardinality(Confirmed(c)') \in Nat
  BY ConfirmedIsFinite
<1>2. IsFiniteSet(Leaving(c)) /\ Cardinality(Leaving(c)) \in Nat
      /\ Cardinality(Confirmed(c)) + Cardinality(Leaving(c)) <= Capacity[c] /\ Capacity[c] \in Nat
  BY FS_CardinalityType, RegistrationShape DEF SeatsKept
<1>3. /\ IsFiniteSet(Leaving(c)')
      /\ Cardinality(Leaving(c)') <= Cardinality(Leaving(c)) + 1
      /\ r \in Leaving(c) \/ r \notin Leaving(c)' => Cardinality(Leaving(c)') <= Cardinality(Leaving(c))
      /\ r \in Leaving(c) /\ r \notin Leaving(c)' => Cardinality(Leaving(c)') = Cardinality(Leaving(c)) - 1
      /\ Cardinality(Leaving(c)') \in Nat
  <2>1. CASE r \in Leaving(c)'
    <3>1. Leaving(c)' = Leaving(c) \cup {r}
      BY <2>1, LeavingChanges
    <3>2. IsFiniteSet(Leaving(c)') /\ Cardinality(Leaving(c)') \in Nat
      BY <1>2, <3>1, FS_AddElement, FS_CardinalityType
    <3>3. Cardinality(Leaving(c)') = IF r \in Leaving(c) THEN Cardinality(Leaving(c))
                                     ELSE Cardinality(Leaving(c)) + 1
      BY <1>2, <3>1, FS_AddElement
    <3> QED BY <1>2, <2>1, <3>2, <3>3
  <2>2. CASE r \notin Leaving(c)'
    <3>1. Leaving(c)' = Leaving(c) \ {r}
      BY <2>2, LeavingChanges
    <3>2. IsFiniteSet(Leaving(c)') /\ Cardinality(Leaving(c)') \in Nat
      BY <1>2, <3>1, FS_RemoveElement, FS_CardinalityType
    <3> QED BY <1>2, <2>2, <3>1, <3>2, FS_RemoveElement
  <2> QED BY <2>1, <2>2
<1>4. CASE Confirmed(c)' \in SUBSET Confirmed(c) /\ (r \in Leaving(c)' => r \in Leaving(c))
  <2>1. Cardinality(Confirmed(c)') <= Cardinality(Confirmed(c))
    BY <1>1, <1>4, FS_Subset
  <2>2. Cardinality(Leaving(c)') <= Cardinality(Leaving(c))
    BY <1>3, <1>4
  <2> QED BY <1>1, <1>2, <1>3, <2>1, <2>2, RegistrationShape DEF SeatsKept
<1>5. ASSUME NEW e, Confirmed(c)' \in SUBSET (Confirmed(c) \cup {e}),
             r \in Leaving(c), r \notin Leaving(c)'
      PROVE  SeatsKept(c)'
  <2>1. Cardinality(Confirmed(c)') <= Cardinality(Confirmed(c)) + 1
    BY <1>1, <1>5, OneMore
  <2>2. Cardinality(Leaving(c)') = Cardinality(Leaving(c)) - 1
    BY <1>3, <1>5
  <2> QED BY <1>1, <1>2, <1>3, <2>1, <2>2 DEF SeatsKept
<1>6. ASSUME NEW e \in Confirmed(c), Confirmed(c)' = Confirmed(c) \ {e} PROVE SeatsKept(c)'
  <2>1. Cardinality(Confirmed(c)') = Cardinality(Confirmed(c)) - 1
    BY <1>1, <1>6, FS_RemoveElement
  <2> QED BY <1>1, <1>2, <1>3, <2>1 DEF SeatsKept
<1> QED BY <1>4, <1>5, <1>6

\* What has begun as one kind of request stays it, for the same registration.
LEMMA KindsStay ==
  ASSUME IInv1, Next, NEW r \in Requests, work[r].kind # "none"
  PROVE  work'[r].kind = work[r].kind /\ work'[r].reg = work[r].reg
<1>1. work[r].step # "free"
  BY IdleIsTyped DEF IInv1, RequestsKnow, Knows
<1>2. PICK q \in Requests : Begin(q) \/ Continue(q) \/ Throw(q)
  BY DEF Next
<1> QED BY <1>1, <1>2, OneRequest DEF Others, KeepsWho

LEMMA StillOnlyDrops == ASSUME IInv1, Next, OnlyDrops' PROVE OnlyDrops
BY KindsStay DEF OnlyDrops, Begun

LEMMA DropStep == IInv1 /\ DropInv /\ [Next]_vars => DropInv'
<1> SUFFICES ASSUME IInv1, DropInv, [Next]_vars, OnlyDrops'
             PROVE  (\A q \in Requests : DropKnows(q)') /\ \A c \in Classes : SeatsKept(c)'
  BY DEF DropInv
<1>1. CASE UNCHANGED vars
  <2>1. OnlyDrops
    BY <1>1 DEF OnlyDrops, Begun, vars
  <2> QED BY <1>1, <2>1 DEF DropInv, DropKnows, SeatsKept, Leaving, Confirmed, vars
<1>2. CASE Next
  <2>t. /\ \A r \in Requests : work[r] \in Records /\ KnowsAs(r, work[r], released) /\ DropKnows(r)
        /\ \A c \in Classes : SeatsKept(c)
        /\ \A r \in Requests : work[r].kind \in {"none", "drop"} /\ work'[r].kind \notin {"transfer", "promotion"}
    <3>1. OnlyDrops
      BY <1>2, StillOnlyDrops
    <3> QED BY <3>1, SlotsAreTyped, KnowsIsKnowsAs
            DEF DropInv, IInv1, RequestsKnow, OnlyDrops, Begun, Records, Kinds
  <2>y. TypeOK /\ status \in [Registrations -> {"confirmed", "waitlisted", "cancelled"}]
    BY DEF IInv1, TypeOK
  <2>o. ASSUME NEW r \in Requests, Begin(r) \/ Continue(r) \/ Throw(r) PROVE Others(r)
    BY <2>o, OneRequest
  \* The step of r keeps what the others know if it moves nobody and lets nobody wait.
  <2>q. ASSUME NEW r \in Requests, Others(r), UNCHANGED class, DropKnows(r)',
               \A d \in Registrations : status'[d] = "waitlisted" => status[d] = "waitlisted"
        PROVE  \A q \in Requests : DropKnows(q)'
    BY <2>q, <2>t DEF Others, DropKnows, KnowsAs
  <2>s. ASSUME NEW r \in Requests, Others(r), UNCHANGED <<class, status>>, DropKnows(r)',
               \A c \in Classes : r \in Leaving(c)' => r \in Leaving(c)
        PROVE  (\A q \in Requests : DropKnows(q)') /\ \A c \in Classes : SeatsKept(c)'
    <3>1. \A c \in Classes : Confirmed(c)' = Confirmed(c)
      BY <2>s DEF Confirmed
    <3> QED BY <2>q, <2>s, <2>t, <3>1, SeatStays
  <2> DEFINE goal == (\A q \in Requests : DropKnows(q)') /\ \A c \in Classes : SeatsKept(c)'
  \* A request at a step that the seats do not know of.
  <2>a. ASSUME NEW r \in Requests, Others(r), UNCHANGED <<class, status>>,
               work'[r].step \notin {"cancelling", "listing", "promoting"}
        PROVE  goal
    BY <2>a, <2>s DEF DropKnows, Leaving
  <2>f. ASSUME NEW r \in Requests, Finish(r), UNCHANGED <<class, status>> PROVE goal
    BY <2>a, <2>f, GoFields DEF Finish
  <2>1. ASSUME NEW r \in Requests, NEW e \in Registrations, Drop(r, e) PROVE goal
    BY <2>1, <2>a, NewIsTyped, AcquireFields DEF Drop, rows
  <2>2. ASSUME NEW r \in Requests, NEW e \in Registrations, NEW c \in Classes, Transfer(r, e, c)
        PROVE  FALSE
    BY <2>2, <2>t, TransferFields
  <2>3. ASSUME NEW r \in Requests, NEW e \in Registrations, PromoteManually(r, e) PROVE FALSE
    BY <2>3, <2>t, PromotionFields
  <2>4. ASSUME NEW r \in Requests, AskForLocks(r) \/ Count(r) \/ Move(r) PROVE FALSE
    BY <2>4, <2>t DEF AskForLocks, Count, Move, At, KnowsAs
  <2>5. ASSUME NEW r \in Requests, Enter(r) PROVE goal
    BY <2>5, <2>a, GoFields DEF Enter, rows
  <2>6. ASSUME NEW r \in Requests, ReadAgain(r) PROVE goal
    <3>1. UNCHANGED <<class, status>>
      BY <2>6 DEF ReadAgain, rows
    <3>2. CASE Finish(r)
      BY <2>f, <3>1, <3>2
    <3>3. CASE Reads(r)
      <4>1. work[r].kind = "drop"
        BY <2>6, <2>t DEF ReadAgain, At, KnowsAs
      <4>2. /\ work'[r].step = "cancelling" /\ work'[r].reg = work[r].reg
            /\ work'[r].source = class[work[r].reg] /\ work'[r].seen = status[work[r].reg]
        BY <3>3, <4>1 DEF Reads, KeepsWho
      <4>3. DropKnows(r)' /\ \A c \in Classes : r \notin Leaving(c)'
        BY <3>1, <4>2 DEF DropKnows, Leaving
      <4> QED BY <2>s, <3>1, <3>3, <4>3 DEF Reads
    <3> QED BY <2>6, <3>2, <3>3, ReadFields
  <2>7. ASSUME NEW r \in Requests, Cancel(r) PROVE goal
    <3>1. UNCHANGED class /\ work[r].step = "cancelling" /\ work[r].reg \in Registrations
      BY <2>7, <2>t DEF Cancel, At, KnowsAs
    <3>2. CASE Finish(r) /\ UNCHANGED status
      BY <2>f, <3>1, <3>2
    <3>3. CASE status[work[r].reg] \in Active
      <4>1. status' = [status EXCEPT ![work[r].reg] = "cancelled"] /\ AfterLeaving(r)
        BY <2>7, <3>3 DEF Cancel
      <4>2. /\ Others(r) /\ work'[r].source = work[r].source
            /\ work'[r].step = IF work[r].seen = "confirmed" THEN "listing" ELSE "ending"
        BY <4>1, GoFields DEF AfterLeaving
      <4>3. DropKnows(r)'
        BY <4>2 DEF DropKnows
      <4>4. \A d \in Registrations : status'[d] = "waitlisted" => status[d] = "waitlisted"
        BY <2>y, <4>1
      <4>5. ASSUME NEW c \in Classes PROVE SeatsKept(c)'
        <5>1. Confirmed(c)' = Confirmed(c) \ {work[r].reg}
          BY <2>y, <3>1, <4>1, OneConfirmed
        <5>2. CASE work[r].reg \in Confirmed(c)
          BY <2>t, <4>2, <5>1, <5>2, SeatStays
        <5>3. CASE work[r].reg \notin Confirmed(c)
          <6>1. r \notin Leaving(c)'
            <7> SUFFICES ASSUME r \in Leaving(c)' PROVE FALSE
              OBVIOUS
            <7>1. work[r].seen = "confirmed" /\ work[r].source = c
              BY <4>2 DEF Leaving
            <7>2. class[work[r].reg] = c /\ status[work[r].reg] = "confirmed"
              BY <2>t, <3>1, <3>3, <7>1 DEF DropKnows, Active
            <7> QED BY <3>1, <5>3, <7>2 DEF Confirmed
          <6>2. Confirmed(c)' \in SUBSET Confirmed(c)
            BY <5>1
          <6> QED BY <2>t, <4>2, <6>1, <6>2, SeatStays
        <5> QED BY <5>2, <5>3
      <4> QED BY <2>q, <3>1, <4>2, <4>3, <4>4, <4>5
    <3> QED BY <2>7, <3>2, <3>3 DEF Cancel
  <2>8. ASSUME NEW r \in Requests, List(r) PROVE goal
    <3>1. UNCHANGED <<class, status>> /\ work[r].step = "listing"
      BY <2>8 DEF List, At, rows
    <3>2. CASE Go(r, AfterPromotion(r))
      <4>1. Others(r) /\ work'[r].step \in {"refunding", "ending"}
        BY <3>2, GoFields DEF AfterPromotion
      <4> QED BY <2>a, <3>1, <4>1
    <3>3. CASE Picks(r)
      <4>1. DropKnows(r)' /\ \A c \in Classes : r \in Leaving(c)' => r \in Leaving(c)
        BY <3>1, <3>3 DEF Picks, DropKnows, Leaving, Waitlisted
      <4> QED BY <2>s, <3>1, <3>3, <4>1 DEF Picks
    <3> QED BY <2>8, <3>2, <3>3, ListFields
  <2>9. ASSUME NEW r \in Requests, Promote(r) PROVE goal
    <3>1. /\ UNCHANGED class /\ work[r].step = "promoting" /\ work[r].top \in Registrations
          /\ status' = [status EXCEPT ![work[r].top] = "confirmed"] /\ Go(r, AfterPromotion(r))
      BY <2>9, <2>t DEF Promote, At, KnowsAs
    <3>2. Others(r) /\ work'[r].step \in {"refunding", "ending"}
      BY <3>1, GoFields DEF AfterPromotion
    <3>3. DropKnows(r)' /\ \A c \in Classes : r \notin Leaving(c)'
      BY <3>2 DEF DropKnows, Leaving
    <3>4. \A d \in Registrations : status'[d] = "waitlisted" => status[d] = "waitlisted"
      BY <2>y, <3>1
    <3>5. ASSUME NEW c \in Classes PROVE SeatsKept(c)'
      <4>1. /\ class[work[r].top] # c => Confirmed(c)' = Confirmed(c)
            /\ Confirmed(c)' \in SUBSET (Confirmed(c) \cup {work[r].top})
        <5>1. class[work[r].top] # c => Confirmed(c)' = Confirmed(c)
          BY <2>y, <3>1 DEF Confirmed
        <5>2. Confirmed(c)' \in SUBSET (Confirmed(c) \cup {work[r].top})
          BY <2>y, <3>1, OneConfirmed
        <5> QED BY <5>1, <5>2
      <4>2. CASE class[work[r].top] # c
        <5>1. Confirmed(c)' \in SUBSET Confirmed(c)
          BY <4>1, <4>2
        <5> QED BY <2>t, <3>2, <3>3, <5>1, SeatStays
      <4>3. CASE class[work[r].top] = c
        <5>1. r \in Leaving(c)
          BY <2>t, <3>1, <4>3 DEF DropKnows, Leaving
        <5> QED BY <2>t, <3>2, <3>3, <4>1, <5>1, SeatStays
      <4> QED BY <4>2, <4>3
    <3> QED BY <2>q, <3>1, <3>2, <3>3, <3>4, <3>5
  <2>10. ASSUME NEW r \in Requests, Refund(r) PROVE goal
    BY <2>10, <2>a, GoFields DEF Refund
  <2>11. ASSUME NEW r \in Requests, Return(r) PROVE goal
    BY <2>11, <2>f DEF Return, rows
  <2>12. ASSUME NEW r \in Requests, Throw(r) PROVE goal
    BY <2>12, <2>f DEF Throw, rows
  <2> QED
    BY <1>2, <2>1, <2>2, <2>3, <2>4, <2>5, <2>6, <2>7, <2>8, <2>9, <2>10, <2>11, <2>12
    DEF Next, Begin, Continue
<1> QED BY <1>1, <1>2

\* Drops of one class share no lock and may promote the same registration, or
\* one dropped meanwhile; still no class gets more confirmed registrations than
\* seats, for any capacities, ranks and number of drops at the same time.
THEOREM DropsKeepSeats == Spec => []DropsNeverOverbook
<1>1. Init => DropInv
  <2> SUFFICES ASSUME Init PROVE (\A r \in Requests : DropKnows(r)) /\ \A c \in Classes : SeatsKept(c)
    BY DEF DropInv
  <2>1. \A r \in Requests : work[r].step = "free"
    BY IdleIsTyped DEF Init
  <2>2. ASSUME NEW c \in Classes PROVE SeatsKept(c)
    <3>1. Leaving(c) = {}
      BY <2>1 DEF Leaving
    <3>2. IsFiniteSet(Leaving(c)) /\ Cardinality(Leaving(c)) = 0
      BY <3>1, FS_EmptySet
    <3>3. Cardinality(Confirmed(c)) <= Capacity[c] /\ Cardinality(Confirmed(c)) \in Nat
      BY StartsWithinCapacity, ConfirmedIsFinite
    <3> QED BY <3>2, <3>3 DEF SeatsKept
  <2> QED BY <2>1, <2>2 DEF DropKnows
<1>2. DropInv => DropsNeverOverbook
  <2> SUFFICES ASSUME DropInv, OnlyDrops, NEW c \in Classes PROVE ~Overbooked(c)
    BY DEF DropsNeverOverbook, OnlyDrops
  <2>1. SeatsKept(c)
    BY DEF DropInv
  <2>2. Cardinality(Leaving(c)) \in Nat /\ Cardinality(Confirmed(c)) \in Nat /\ Capacity[c] \in Nat
    BY <2>1, ConfirmedIsFinite, FS_CardinalityType, RegistrationShape DEF SeatsKept
  <2> QED BY <2>1, <2>2 DEF SeatsKept, Overbooked
<1> QED BY <1>1, <1>2, InitTypes, TypesStep, DropStep, PTL DEF Spec

(***************************************************************************)
(* Transfers only, each of another registration.  Whoever holds the        *)
(* capacity locks of a class is the only one to change who is confirmed in *)
(* it, so what it has counted stays true until it uses it.                 *)
(***************************************************************************)
OnlyTransfers ==
    /\ Begun("drop") \cup Begun("promotion") = {}
    /\ \A q, r \in Begun("transfer") : work[q].reg = work[r].reg => q = r
\* r will add a confirmed registration to c.
Claims(r, c) ==
    \/ work[r].step = "moving" /\ work[r].place = "confirmed" /\ work[r].target = c
    \/ work[r].step \in {"listing", "promoting"} /\ work[r].source = c
TransferKnows(r) ==
    LET w == work[r] IN
    /\ w.step \in {"asking", "queued", "running", "counting", "moving"} => class[w.reg] = w.source
    /\ w.step \in {"counting", "moving"} /\ w.seen = "confirmed" => status[w.reg] = "confirmed"
    /\ w.step = "promoting" => class[w.top] = w.source
    /\ \A c \in Classes : Claims(r, c) => Cardinality(Confirmed(c)) < Capacity[c]
TransferInv ==
    OnlyTransfers => (\A r \in Requests : TransferKnows(r)) /\ \A c \in Classes : ~Overbooked(c)

LEMMA StillOnlyTransfers == ASSUME IInv1, Next, OnlyTransfers' PROVE OnlyTransfers
<1>1. \A r \in Requests : work[r].kind # "none" =>
        work'[r].kind = work[r].kind /\ work'[r].reg = work[r].reg
  BY KindsStay
<1> QED BY <1>1 DEF OnlyTransfers, Begun

\* Two requests inside never share a class to move from, to or promote in.
LEMMA ApartInside ==
  ASSUME LockExcludes, NEW q \in Requests, NEW r \in Requests, q # r,
         work[q].kind = "transfer", work[r].kind = "transfer",
         work[q].step \in {"moving", "listing", "promoting"},
         work[r].step \in {"moving", "listing", "promoting"}
  PROVE  {work[q].source, work[q].target} \cap {work[r].source, work[r].target} = {}
BY DEF LockExcludes, Inside, LockKeys

LEMMA TransferStep == IInv2 /\ TransferInv /\ [Next]_vars => TransferInv'
<1> SUFFICES ASSUME IInv2, TransferInv, [Next]_vars, OnlyTransfers'
             PROVE  (\A q \in Requests : TransferKnows(q)') /\ \A c \in Classes : ~Overbooked(c)'
  BY DEF TransferInv
<1>1. CASE UNCHANGED vars
  <2>1. OnlyTransfers
    BY <1>1 DEF OnlyTransfers, Begun, vars
  <2> QED BY <1>1, <2>1 DEF TransferInv, TransferKnows, Claims, Overbooked, Confirmed, vars
<1>2. CASE Next
  <2>i. IInv1 /\ LockExcludes /\ OnlyTransfers
    BY <1>2, StillOnlyTransfers, Excludes DEF IInv2
  <2>t. /\ \A r \in Requests : work[r] \in Records /\ KnowsAs(r, work[r], released) /\ TransferKnows(r)
        /\ \A c \in Classes : ~Overbooked(c)
        /\ \A r \in Requests : work[r].kind \in {"none", "transfer"} /\ work'[r].kind \notin {"drop", "promotion"}
    BY <2>i, SlotsAreTyped, KnowsIsKnowsAs
    DEF TransferInv, IInv1, RequestsKnow, OnlyTransfers, Begun, Records, Kinds
  <2>k. \A r \in Requests : work[r].step # "free" => work[r].kind = "transfer" /\ work[r].reg \in Registrations
    BY <2>t DEF KnowsAs
  <2>y. /\ TypeOK /\ status \in [Registrations -> {"confirmed", "waitlisted", "cancelled"}]
        /\ class \in [Registrations -> Classes]
    BY <2>i DEF IInv1, TypeOK
  <2>n. /\ \A c : Cardinality(Confirmed(c)) \in Nat /\ Cardinality(Confirmed(c)') \in Nat
        /\ \A c \in Classes : Capacity[c] \in Nat
    BY ConfirmedIsFinite, RegistrationShape
  <2> DEFINE goal == (\A q \in Requests : TransferKnows(q)') /\ \A c \in Classes : ~Overbooked(c)'
  \* A step that changes no row.
  <2>s. ASSUME NEW r \in Requests, Others(r), UNCHANGED <<class, status>>, TransferKnows(r)'
        PROVE  goal
    <3>1. \A c : Confirmed(c)' = Confirmed(c)
      BY <2>s DEF Confirmed
    <3>2. ASSUME NEW q \in Requests, q # r PROVE TransferKnows(q)'
      <4>1. work'[q] = work[q] /\ \A c : Claims(q, c)' <=> Claims(q, c)
        BY <2>s, <3>2 DEF Others, Claims
      <4> QED BY <2>s, <2>t, <3>1, <4>1 DEF TransferKnows
    <3>3. \A c \in Classes : ~Overbooked(c)'
      BY <2>t, <3>1 DEF Overbooked
    <3> QED BY <2>s, <3>2, <3>3
  <2>a. ASSUME NEW r \in Requests, Others(r), UNCHANGED <<class, status>>,
               work'[r].step \in {"asking", "queued", "running", "counting"} =>
                  class[work'[r].reg] = work'[r].source,
               work'[r].step = "counting" => work'[r].seen = status[work'[r].reg],
               work'[r].step \notin {"moving", "listing", "promoting"}
        PROVE  goal
    <3>1. TransferKnows(r)'
      BY <2>a DEF TransferKnows, Claims
    <3> QED BY <2>a, <2>s, <3>1
  <2>f. ASSUME NEW r \in Requests, Finish(r), UNCHANGED <<class, status>> PROVE goal
    <3>1. Others(r) /\ work'[r].step = "done"
      BY <2>f, <2>i, GoFields DEF Finish
    <3> QED BY <2>a, <2>f, <3>1
  <2>1. ASSUME NEW r \in Requests, NEW e \in Registrations, Drop(r, e) PROVE FALSE
    <3>1. work'[r].kind = "drop"
      BY <2>1, <2>i, NewIsTyped, AcquireFields DEF Drop
    <3> QED BY <2>t, <3>1
  <2>2. ASSUME NEW r \in Requests, NEW e \in Registrations, PromoteManually(r, e) PROVE FALSE
    BY <2>2, <2>i, <2>t, PromotionFields
  <2>3. ASSUME NEW r \in Requests, Cancel(r) \/ Refund(r) PROVE FALSE
    BY <2>3, <2>t DEF Cancel, Refund, At, KnowsAs
  <2>4. ASSUME NEW r \in Requests, NEW e \in Registrations, NEW c \in Classes, Transfer(r, e, c)
        PROVE  goal
    BY <2>4, <2>a, <2>i, TransferFields DEF Transfer, rows
  <2>5. ASSUME NEW r \in Requests, AskForLocks(r) PROVE goal
    <3>1. /\ Others(r) /\ work'[r].reg = work[r].reg /\ work'[r].step = "queued"
          /\ work'[r].source = work[r].source /\ work[r].step = "asking" /\ UNCHANGED <<class, status>>
      BY <2>5, <2>i, <2>t, AcquireFields DEF AskForLocks, At, rows
    <3> QED BY <2>a, <2>t, <3>1 DEF TransferKnows
  <2>6. ASSUME NEW r \in Requests, Enter(r) PROVE goal
    <3>1. /\ Others(r) /\ work'[r].reg = work[r].reg /\ work'[r].step = "running"
          /\ work'[r].source = work[r].source /\ work[r].step = "queued" /\ UNCHANGED <<class, status>>
      BY <2>6, <2>i, GoFields DEF Enter, At, rows, KeepsWho
    <3> QED BY <2>a, <2>t, <3>1 DEF TransferKnows
  <2>7. ASSUME NEW r \in Requests, ReadAgain(r) PROVE goal
    <3>1. UNCHANGED <<class, status>> /\ work[r].step = "running"
      BY <2>7 DEF ReadAgain, At, rows
    <3>2. CASE Finish(r)
      BY <2>f, <3>1, <3>2
    <3>3. CASE Reads(r)
      <4>1. work[r].kind # "drop" /\ class[work[r].reg] = work[r].source
        BY <2>t, <3>1 DEF TransferKnows
      <4> QED BY <2>a, <3>1, <3>3, <4>1 DEF Reads, KeepsWho
    <3> QED BY <2>7, <2>i, <3>2, <3>3, ReadFields
  <2>8. ASSUME NEW r \in Requests, Count(r) PROVE goal
    <3>1. UNCHANGED <<class, status>> /\ work[r].step = "counting"
      BY <2>8 DEF Count, At, rows
    <3>2. /\ Others(r) /\ KeepsWho(r) /\ work'[r].step = "moving"
          /\ work'[r].source = work[r].source /\ work'[r].seen = work[r].seen
          /\ work'[r].place = "confirmed" =>
                Cardinality(Confirmed(work[r].target)) < Capacity[work[r].target]
      BY <2>8, <2>i, CountFields
    <3>3. \A c : Confirmed(c)' = Confirmed(c)
      BY <3>1 DEF Confirmed
    <3>4. TransferKnows(r)'
      BY <2>t, <3>1, <3>2, <3>3 DEF TransferKnows, KeepsWho, Claims
    <3> QED BY <2>s, <3>1, <3>2, <3>4
  <2>9. ASSUME NEW r \in Requests, List(r) PROVE goal
    <3>1. UNCHANGED <<class, status>> /\ work[r].step = "listing"
      BY <2>9 DEF List, At, rows
    <3>2. CASE Go(r, AfterPromotion(r))
      <4>1. Others(r) /\ work'[r].step \in {"refunding", "ending"}
        BY <2>i, <3>2, GoFields DEF AfterPromotion
      <4> QED BY <2>a, <3>1, <4>1
    <3>3. CASE Picks(r)
      <4>1. \A c : Confirmed(c)' = Confirmed(c)
        BY <3>1 DEF Confirmed
      <4>2. \A c : Claims(r, c)' => Claims(r, c)
        BY <3>1, <3>3 DEF Picks, Claims
      <4>3. class'[work'[r].top] = work'[r].source
        BY <3>1, <3>3 DEF Picks, Waitlisted
      <4>4. TransferKnows(r)'
        BY <2>t, <3>3, <4>1, <4>2, <4>3 DEF Picks, TransferKnows
      <4> QED BY <2>s, <3>1, <3>3, <4>4 DEF Picks
    <3> QED BY <2>9, <2>i, <3>2, <3>3, ListFields
  \* A step that changes the row of e and only who is confirmed in source and target.
  <2>r. ASSUME NEW r \in Requests, NEW e \in Registrations, Others(r),
               work[r].step \in {"moving", "promoting"},
               \A d \in Registrations : d # e => class'[d] = class[d] /\ status'[d] = status[d],
               work[r].step = "moving" => work[r].reg = e,
               work[r].step = "promoting" => class'[e] = class[e] /\ status'[e] = "confirmed",
               class[e] = work[r].source,
               \A c \in Classes : c \notin {work[r].source, work[r].target} => Confirmed(c)' = Confirmed(c),
               TransferKnows(r)', \A c \in {work[r].source, work[r].target} : ~Overbooked(c)'
        PROVE  goal
    <3>1. ASSUME NEW q \in Requests, q # r PROVE TransferKnows(q)'
      <4>1. work'[q] = work[q] /\ \A c : Claims(q, c)' <=> Claims(q, c)
        BY <2>r, <3>1 DEF Others, Claims
      <4>2. work[r].kind = "transfer"
        BY <2>k, <2>r
      <4>3. ASSUME work[q].step \in {"asking", "queued", "running", "counting", "moving"}
            PROVE  /\ class'[work[q].reg] = work[q].source
                   /\ status[work[q].reg] = "confirmed" => status'[work[q].reg] = "confirmed"
        <5>1. work[q].kind = "transfer" /\ work[q].reg \in Registrations /\ class[work[q].reg] = work[q].source
          BY <2>k, <2>t, <4>3 DEF TransferKnows
        <5>2. work[r].step = "moving" => work[q].reg # e
          BY <2>i, <2>r, <3>1, <4>2, <5>1 DEF OnlyTransfers, Begun
        <5> QED BY <2>r, <5>1, <5>2
      <4>4. ASSUME work[q].step = "promoting" PROVE class'[work[q].top] = work[q].source
        <5>1. work[q].top \in Registrations /\ class[work[q].top] = work[q].source
              /\ work[q].kind = "transfer"
          BY <2>k, <2>t, <4>4 DEF TransferKnows, KnowsAs
        <5>2. work[q].source # work[r].source
          BY <2>i, <2>r, <3>1, <4>2, <4>4, <5>1, ApartInside
        <5> QED BY <2>r, <5>1, <5>2
      <4>5. ASSUME NEW c \in Classes, Claims(q, c) PROVE Cardinality(Confirmed(c)') < Capacity[c]
        <5>1. /\ work[q].step \in {"moving", "listing", "promoting"} /\ c \in {work[q].source, work[q].target}
              /\ work[q].kind = "transfer"
          BY <2>k, <4>5 DEF Claims
        <5>2. c \notin {work[r].source, work[r].target}
          BY <2>i, <2>r, <3>1, <4>2, <5>1, ApartInside
        <5>3. Confirmed(c)' = Confirmed(c)
          BY <2>r, <5>2
        <5> QED BY <2>t, <4>5, <5>3 DEF TransferKnows
      <4> QED BY <2>t, <4>1, <4>3, <4>4, <4>5 DEF TransferKnows
    <3>2. ASSUME NEW c \in Classes PROVE ~Overbooked(c)'
      <4>1. CASE c \in {work[r].source, work[r].target}
        BY <2>r, <4>1
      <4>2. CASE c \notin {work[r].source, work[r].target}
        BY <2>r, <2>t, <4>2 DEF Overbooked
      <4> QED BY <4>1, <4>2
    <3> QED BY <2>r, <3>1, <3>2
  <2>10. ASSUME NEW r \in Requests, Move(r) PROVE goal
    <3>1. work[r].step = "moving" /\ work[r].reg \in Registrations
      BY <2>10, <2>k DEF Move, At
    <3>2. CASE Finish(r) /\ UNCHANGED <<class, status>>
      BY <2>f, <3>2
    <3>3. CASE status[work[r].reg] \in Active
      <4>w. PICK e \in Registrations, s \in Classes, t \in Classes :
               work[r].reg = e /\ work[r].source = s /\ work[r].target = t
        BY <2>k, <2>t, <3>1 DEF KnowsAs
      <4>1. /\ class' = [class EXCEPT ![e] = t] /\ status' = [status EXCEPT ![e] = work[r].place]
            /\ AfterLeaving(r)
        BY <2>10, <3>3, <4>w DEF Move
      <4>2. /\ Others(r) /\ work'[r].source = s
            /\ work'[r].step = IF work[r].seen = "confirmed" THEN "listing" ELSE "ending"
        BY <2>i, <4>1, <4>w, GoFields DEF AfterLeaving
      <4>3. /\ class[e] = s /\ s # t /\ work[r].place \in Active
            /\ work[r].seen = "confirmed" => status[e] = "confirmed"
            /\ work[r].place = "confirmed" => Cardinality(Confirmed(t)) < Capacity[t]
        BY <2>k, <2>t, <3>1, <4>w DEF TransferKnows, KnowsAs, Claims
      <4>5. \A d \in Registrations : /\ class'[d] = IF d = e THEN t ELSE class[d]
                                     /\ status'[d] = IF d = e THEN work[r].place ELSE status[d]
        BY <2>y, <4>1
      <4>6. \A c \in Classes : c \notin {s, t} => Confirmed(c)' = Confirmed(c)
        BY <4>3, <4>5 DEF Confirmed
      <4>7. Confirmed(s)' = Confirmed(s) \ {e}
        BY <4>3, <4>5 DEF Confirmed
      <4>8. Confirmed(t)' \in SUBSET (Confirmed(t) \cup {e})
            /\ (work[r].place # "confirmed" => Confirmed(t)' \in SUBSET Confirmed(t))
        BY <4>3, <4>5 DEF Confirmed
      <4>9. ~Overbooked(s)'
        <5>1. Cardinality(Confirmed(s)') <= Cardinality(Confirmed(s))
          BY <4>7, ConfirmedIsFinite, FS_Subset
        <5> QED BY <2>n, <2>t, <4>3, <5>1 DEF Overbooked
      <4>10. ~Overbooked(t)'
        <5>1. CASE work[r].place = "confirmed"
          <6>1. Cardinality(Confirmed(t)') <= Cardinality(Confirmed(t)) + 1
            BY <4>8, ConfirmedIsFinite, OneMore
          <6> QED BY <2>n, <4>3, <5>1, <6>1 DEF Overbooked
        <5>2. CASE work[r].place # "confirmed"
          <6>1. Cardinality(Confirmed(t)') <= Cardinality(Confirmed(t))
            BY <4>8, <5>2, ConfirmedIsFinite, FS_Subset
          <6> QED BY <2>n, <2>t, <4>3, <6>1 DEF Overbooked
        <5> QED BY <5>1, <5>2
      <4>11. TransferKnows(r)'
        <5>1. CASE work[r].seen = "confirmed"
          <6>1. e \in Confirmed(s)
            BY <4>3, <5>1 DEF Confirmed
          <6>2. Cardinality(Confirmed(s)') = Cardinality(Confirmed(s)) - 1
            BY <4>7, <6>1, ConfirmedIsFinite, FS_RemoveElement
          <6>3. Cardinality(Confirmed(s)') < Capacity[s]
            BY <2>n, <2>t, <4>3, <6>2 DEF Overbooked
          <6> QED BY <4>2, <5>1, <6>3 DEF TransferKnows, Claims
        <5>2. CASE work[r].seen # "confirmed"
          BY <4>2, <5>2 DEF TransferKnows, Claims
        <5> QED BY <5>1, <5>2
      <4>12. \A d \in Registrations : d # e => class'[d] = class[d] /\ status'[d] = status[d]
        BY <4>5
      <4> QED BY <2>r, <3>1, <4>2, <4>3, <4>6, <4>9, <4>10, <4>11, <4>12, <4>w
    <3> QED BY <2>10, <3>2, <3>3 DEF Move
  <2>11. ASSUME NEW r \in Requests, Promote(r) PROVE goal
    <3>w. PICK e \in Registrations, s \in Classes : work[r].top = e /\ work[r].source = s
      BY <2>11, <2>k, <2>t DEF Promote, At, KnowsAs
    <3>1. /\ UNCHANGED class /\ work[r].step = "promoting" /\ work[r].top = e /\ work[r].source = s
          /\ status' = [status EXCEPT ![e] = "confirmed"] /\ Go(r, AfterPromotion(r))
      BY <2>11, <3>w DEF Promote, At
    <3>2. class[e] = s /\ Cardinality(Confirmed(s)) < Capacity[s]
      <4>1. class[e] = s
        BY <2>t, <3>1 DEF TransferKnows
      <4>2. Claims(r, s)
        BY <3>1 DEF Claims
      <4> QED BY <2>t, <4>1, <4>2 DEF TransferKnows
    <3>3. Others(r) /\ work'[r].step \in {"refunding", "ending"}
      BY <2>i, <3>1, GoFields DEF AfterPromotion
    <3>4. \A d \in Registrations : status'[d] = IF d = e THEN "confirmed" ELSE status[d]
      BY <2>y, <3>1, <3>2
    <3>5. \A c : c # s => Confirmed(c)' = Confirmed(c)
      BY <3>1, <3>2, <3>4 DEF Confirmed
    <3>6. Confirmed(s)' \in SUBSET (Confirmed(s) \cup {e})
      BY <3>1, <3>4 DEF Confirmed
    <3>7. Cardinality(Confirmed(s)') <= Cardinality(Confirmed(s)) + 1
      BY <3>6, ConfirmedIsFinite, OneMore
    <3>8. ~Overbooked(s)'
      BY <2>n, <3>2, <3>7 DEF Overbooked
    <3>9. TransferKnows(r)'
      BY <3>3 DEF TransferKnows, Claims
    <3>10. work[r].target \in Classes
      BY <2>k, <2>t, <3>1 DEF KnowsAs
    <3>11. \A c \in {s, work[r].target} : ~Overbooked(c)'
      BY <2>t, <3>5, <3>8, <3>10 DEF Overbooked
    <3>12. \A d \in Registrations : d # e => class'[d] = class[d] /\ status'[d] = status[d]
      BY <3>1, <3>4
    <3>13. class'[e] = class[e] /\ status'[e] = "confirmed"
      BY <3>1, <3>2, <3>4
    <3>14. \A c \in Classes : c \notin {s, work[r].target} => Confirmed(c)' = Confirmed(c)
      BY <3>5
    <3> QED BY <2>r, <3>1, <3>2, <3>3, <3>9, <3>11, <3>12, <3>13, <3>14
  <2>12. ASSUME NEW r \in Requests, Return(r) PROVE goal
    BY <2>12, <2>f DEF Return, rows
  <2>13. ASSUME NEW r \in Requests, Throw(r) PROVE goal
    BY <2>13, <2>f DEF Throw, rows
  <2> QED
    BY <1>2, <2>1, <2>2, <2>3, <2>4, <2>5, <2>6, <2>7, <2>8, <2>9, <2>10, <2>11, <2>12, <2>13
    DEF Next, Begin, Continue
<1> QED BY <1>1, <1>2

\* Different registrations transferred at the same time never overbook a class,
\* whatever the classes, capacities and number of transfers: the locks on both
\* capacities exclude every other change to who is confirmed there.
THEOREM TransfersKeepSeats == Spec => []TransfersNeverOverbook
<1>1. Init => TransferInv
  <2> SUFFICES ASSUME Init
               PROVE  (\A r \in Requests : TransferKnows(r)) /\ \A c \in Classes : ~Overbooked(c)
    BY DEF TransferInv
  <2>1. \A r \in Requests : work[r].step = "free"
    BY IdleIsTyped DEF Init
  <2>2. ASSUME NEW c \in Classes PROVE ~Overbooked(c)
    <3>1. Cardinality(Confirmed(c)) <= Capacity[c] /\ Cardinality(Confirmed(c)) \in Nat
          /\ Capacity[c] \in Nat
      BY StartsWithinCapacity, ConfirmedIsFinite, RegistrationShape
    <3> QED BY <3>1 DEF Overbooked
  <2> QED BY <2>1, <2>2 DEF TransferKnows, Claims
<1>2. TransferInv => TransfersNeverOverbook
  BY DEF TransferInv, OnlyTransfers, TransfersNeverOverbook
<1> QED BY <1>1, <1>2, InitLock, LockStep, TransferStep, PTL DEF Spec

\* Drops among themselves, and transfers of different registrations among
\* themselves, keep every class within its seats.
THEOREM ChangesKeepSeats == Spec => []ChangesKeepTheSeats
BY DropsKeepSeats, TransfersKeepSeats, PTL DEF ChangesKeepTheSeats

(***************************************************************************)
(* Every kind of request together.  Promotions write without a lock; all   *)
(* that can be said of a class is who is there beside those they picked.   *)
(* A transfer that has counted the class holds its lock until it has moved *)
(* there, so nobody else moves there meanwhile.                            *)
(***************************************************************************)
Seated(c) == Confirmed(c) \ Picked

MovesTo(r, c) ==
    work[r].step = "moving" /\ work[r].place = "confirmed" /\ work[r].target = c

RoomInv ==
    \A c \in Classes :
        /\ Cardinality(Seated(c)) <= Capacity[c]
        /\ \A r \in Requests : MovesTo(r, c) => Cardinality(Seated(c)) < Capacity[c]

LEMMA SeatedIsFinite ==
  ASSUME NEW c
  PROVE  /\ IsFiniteSet(Seated(c)) /\ Cardinality(Seated(c)) \in Nat
         /\ IsFiniteSet(Seated(c)') /\ Cardinality(Seated(c)') \in Nat
         /\ Cardinality(Seated(c)) <= Cardinality(Confirmed(c))
<1>1. Seated(c) \in SUBSET Confirmed(c) /\ Seated(c)' \in SUBSET Confirmed(c)'
  BY DEF Seated
<1>2. IsFiniteSet(Confirmed(c)) /\ IsFiniteSet(Confirmed(c)')
  BY ConfirmedIsFinite
<1>3. IsFiniteSet(Seated(c)) /\ IsFiniteSet(Seated(c)') /\ Cardinality(Seated(c)) <= Cardinality(Confirmed(c))
  BY <1>1, <1>2, FS_Subset
<1> QED BY <1>3, FS_CardinalityType

\* Whoever is newly seated in a class was moved there by a transfer.
LEMMA NewSeats ==
  ASSUME IInv1, Next, NEW c \in Classes, NEW e \in Registrations,
         e \in Seated(c)', e \notin Seated(c)
  PROVE  \E r \in Requests :
            /\ MovesTo(r, c) /\ work[r].reg = e
            /\ Others(r) /\ work'[r].step # "moving"
<1>1. Unpicked(e)' /\ Unpicked(e)
  <2>1. Unpicked(e)'
    BY DEF Seated, Picked, Unpicked
  <2> QED BY <2>1, PickedStays
<1>2. class'[e] = c /\ status'[e] = "confirmed" /\ ~(class[e] = c /\ status[e] = "confirmed")
  BY <1>1 DEF Seated, Confirmed, Picked, Unpicked
<1>y. /\ class \in [Registrations -> Classes]
      /\ status \in [Registrations -> {"confirmed", "waitlisted", "cancelled"}]
  BY DEF IInv1, TypeOK
<1>3. PICK r \in Requests : Begin(r) \/ Continue(r) \/ Throw(r)
  BY DEF Next
<1>4. Others(r)
  BY <1>3, OneRequest
<1>5. Cancel(r) \/ Move(r) \/ Promote(r)
  BY <1>2, <1>3
  DEF Begin, Continue, Drop, Transfer, PromoteManually, AskForLocks, Enter, ReadAgain, Count, List,
      Refund, Return, Throw, rows
<1>6. ~Cancel(r)
  <2> SUFFICES ASSUME Cancel(r) PROVE FALSE
    OBVIOUS
  <2>1. class' = class /\ status'[e] \in {status[e], "cancelled"}
    BY <1>y DEF Cancel
  <2> QED BY <1>2, <2>1
<1>7. ~Promote(r)
  <2> SUFFICES ASSUME Promote(r) PROVE FALSE
    OBVIOUS
  <2>1. class' = class /\ work[r].top # e
    BY <1>1 DEF Promote, Unpicked
  <2>2. status'[e] = status[e]
    BY <1>y, <2>1 DEF Promote
  <2> QED BY <1>2, <2>1, <2>2
<1>8. Move(r)
  BY <1>5, <1>6, <1>7
<1>9. /\ class' = [class EXCEPT ![work[r].reg] = work[r].target]
      /\ status' = [status EXCEPT ![work[r].reg] = work[r].place]
      /\ AfterLeaving(r)
  BY <1>2, <1>8 DEF Move
<1>10. work[r].reg = e
  BY <1>2, <1>9, <1>y
<1>11. MovesTo(r, c)
  BY <1>2, <1>8, <1>9, <1>10, <1>y DEF Move, At, MovesTo
<1>12. work'[r].step # "moving"
  BY <1>9, GoFields DEF AfterLeaving
<1> QED BY <1>4, <1>10, <1>11, <1>12

\* Whoever is about to move was so before, or has just counted.
LEMMA NewMovers ==
  ASSUME IInv1, Next, NEW c \in Classes, NEW r \in Requests, MovesTo(r, c)'
  PROVE  \/ MovesTo(r, c)
         \/ UNCHANGED <<class, status>> /\ Cardinality(Confirmed(c)) < Capacity[c]
<1>1. PICK q \in Requests : Begin(q) \/ Continue(q) \/ Throw(q)
  BY DEF Next
<1>2. CASE q # r
  BY <1>1, <1>2, OneRequest DEF Others, MovesTo
<1>3. CASE q = r
  <2>f. ASSUME Finish(r) PROVE FALSE
    BY <2>f, GoFields DEF Finish, MovesTo
  <2>g. ASSUME NEW step, step # "moving", Go(r, step) PROVE FALSE
    BY <2>g, GoFields DEF MovesTo
  <2>t. work[r] \in Records
    BY SlotsAreTyped DEF IInv1
  <2>1. Count(r)
    <3>1. ASSUME NEW e \in Registrations, Drop(r, e) PROVE FALSE
      BY <3>1, NewIsTyped, AcquireFields DEF Drop, MovesTo
    <3>2. ASSUME NEW e \in Registrations, NEW d \in Classes, Transfer(r, e, d) PROVE FALSE
      BY <3>2, TransferFields DEF MovesTo
    <3>3. ASSUME NEW e \in Registrations, PromoteManually(r, e) PROVE FALSE
      BY <3>3, PromotionFields DEF MovesTo
    <3>4. ~AskForLocks(r)
      BY <2>t, AcquireFields DEF AskForLocks, MovesTo
    <3>5. ~ReadAgain(r)
      BY <2>f, ReadFields DEF Reads, MovesTo
    <3>6. ~List(r)
      BY <2>g, ListFields DEF Picks, MovesTo, AfterPromotion
    <3>7. ~(Enter(r) \/ Cancel(r) \/ Move(r) \/ Promote(r) \/ Refund(r) \/ Return(r) \/ Throw(r))
      BY <2>f, <2>g DEF Enter, Cancel, Move, Promote, Refund, Return, Throw, AfterLeaving, AfterPromotion
    <3> QED BY <1>1, <1>3, <3>1, <3>2, <3>3, <3>4, <3>5, <3>6, <3>7 DEF Begin, Continue
  <2>2. UNCHANGED <<class, status>>
    BY <2>1 DEF Count, rows
  <2>3. work[r].target = c /\ Cardinality(Confirmed(work[r].target)) < Capacity[work[r].target]
    BY <2>1, CountFields DEF MovesTo, KeepsWho
  <2> QED BY <2>2, <2>3
<1> QED BY <1>2, <1>3

LEMMA RoomStep == IInv2 /\ RoomInv /\ [Next]_vars => RoomInv'
<1> SUFFICES ASSUME IInv2, RoomInv, [Next]_vars, NEW c \in Classes
             PROVE  /\ Cardinality(Seated(c)') <= Capacity[c]
                    /\ \A r \in Requests : MovesTo(r, c)' => Cardinality(Seated(c)') < Capacity[c]
  BY DEF RoomInv
<1>n. /\ Cardinality(Seated(c)) \in Nat /\ Cardinality(Seated(c)') \in Nat /\ Capacity[c] \in Nat
      /\ IsFiniteSet(Seated(c)) /\ Cardinality(Seated(c)) <= Cardinality(Confirmed(c))
      /\ Cardinality(Confirmed(c)) \in Nat
  BY SeatedIsFinite, ConfirmedIsFinite, RegistrationShape
<1>r. /\ Cardinality(Seated(c)) <= Capacity[c]
      /\ \A r \in Requests : MovesTo(r, c) => Cardinality(Seated(c)) < Capacity[c]
  BY DEF RoomInv
<1>i. IInv1 /\ LockExcludes
  BY Excludes DEF IInv2
<1>1. CASE UNCHANGED vars
  BY <1>1, <1>r DEF vars, Seated, Confirmed, Picked, MovesTo
<1>2. ASSUME Next, Seated(c)' \in SUBSET Seated(c)
      PROVE  /\ Cardinality(Seated(c)') <= Capacity[c]
             /\ \A r \in Requests : MovesTo(r, c)' => Cardinality(Seated(c)') < Capacity[c]
  <2>1. Cardinality(Seated(c)') <= Cardinality(Seated(c))
    BY <1>2, <1>n, FS_Subset
  <2>2. ASSUME NEW r \in Requests, MovesTo(r, c)'
        PROVE  Cardinality(Seated(c)) < Capacity[c]
    BY <1>2, <1>i, <1>n, <1>r, <2>2, NewMovers
  <2> QED BY <1>n, <1>r, <2>1, <2>2
<1>3. ASSUME Next, NEW e \in Seated(c)', e \notin Seated(c)
      PROVE  /\ Cardinality(Seated(c)') <= Capacity[c]
             /\ \A r \in Requests : MovesTo(r, c)' => Cardinality(Seated(c)') < Capacity[c]
  <2>1. e \in Registrations
    BY <1>3 DEF Seated, Confirmed
  <2>2. PICK m \in Requests : /\ MovesTo(m, c) /\ work[m].reg = e
                              /\ Others(m) /\ work'[m].step # "moving"
    BY <1>3, <1>i, <2>1, NewSeats
  <2>3. Seated(c)' \in SUBSET (Seated(c) \cup {e})
    <3> SUFFICES ASSUME NEW d \in Seated(c)', d \notin Seated(c) PROVE d = e
      OBVIOUS
    <3>1. d \in Registrations
      BY DEF Seated, Confirmed
    <3>2. PICK q \in Requests : MovesTo(q, c) /\ work[q].reg = d /\ work'[q].step # "moving"
      BY <1>3, <1>i, <3>1, NewSeats
    <3>3. q = m
      BY <2>2, <3>2 DEF Others, MovesTo
    <3> QED BY <2>2, <3>2, <3>3
  <2>4. Cardinality(Seated(c)') <= Cardinality(Seated(c)) + 1
    BY <1>n, <2>3, OneMore
  <2>5. Cardinality(Seated(c)) < Capacity[c]
    BY <1>r, <2>2
  <2>6. ASSUME NEW r \in Requests, MovesTo(r, c)' PROVE FALSE
    <3>1. r # m
      BY <2>2, <2>6 DEF MovesTo
    <3>2. MovesTo(r, c)
      BY <2>2, <2>6, <3>1 DEF Others, MovesTo
    <3>3. work[r].kind = "transfer" /\ work[m].kind = "transfer"
      BY <1>i, <2>2, <3>2, KnowsIsKnowsAs DEF IInv1, RequestsKnow, KnowsAs, MovesTo
    <3> QED BY <1>i, <2>2, <3>1, <3>2, <3>3, ApartInside DEF MovesTo
  <2> QED BY <1>n, <2>4, <2>5, <2>6
<1> QED BY <1>1, <1>2, <1>3

\* Only promotions overbook: beside the registrations that they picked no
\* class ever has more than its seats, for any mixture and number of requests.
THEOREM OnlyPromotionsOverbook == Spec => []OverbookedByPromotionOnly
<1>1. Init => RoomInv
  <2> SUFFICES ASSUME Init, NEW c \in Classes
               PROVE  /\ Cardinality(Seated(c)) <= Capacity[c]
                      /\ \A r \in Requests : ~MovesTo(r, c)
    BY DEF RoomInv
  <2>1. \A r \in Requests : work[r].step = "free"
    BY IdleIsTyped DEF Init
  <2>2. Cardinality(Confirmed(c)) <= Capacity[c]
    BY StartsWithinCapacity
  <2>3. Cardinality(Seated(c)) <= Capacity[c]
    BY <2>2, SeatedIsFinite, ConfirmedIsFinite, RegistrationShape
  <2> QED BY <2>1, <2>3 DEF MovesTo
<1>2. RoomInv => OverbookedByPromotionOnly
  BY DEF RoomInv, OverbookedByPromotionOnly, Seated
<1> QED BY <1>1, <1>2, InitLock, LockStep, RoomStep, PTL DEF Spec
=============================================================================
