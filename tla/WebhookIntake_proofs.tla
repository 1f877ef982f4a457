------------------------ MODULE WebhookIntake_proofs ------------------------
(***************************************************************************)
(* Proofs about WebhookIntake, for any deliveries, limits and bounds.      *)
(***************************************************************************)
EXTENDS WebhookIntake, SequenceTheorems, TLAPS

(***************************************************************************)
(* The inductive invariant.  A delivery whose lease runs may have one      *)
(* holder more than the leases that ran out under it account for; one      *)
(* that anybody may claim has none left to spare.                          *)
(***************************************************************************)
UnderLease(d) == status[d] = "processing" /\ d \notin expired

LeasesAccountForHolders ==
    \A d \in Deliveries : Holders(d) <= outlived[d] + (IF UnderLease(d) THEN 1 ELSE 0)

\* The reconciliation holds the first of its round, and only while it
\* processes one; what it hands to the queue is a list of the query.
RoundIsSound ==
    /\ holding => phase \in {"processing", "discovering"} /\ round # <<>>
    /\ phase = "enqueuing" => fetched \in ReclaimBatches

IInv == TypeOK /\ RoundIsSound /\ LeasesAccountForHolders

\* TypeOK in parts; the Boolean "holding" apart.
RowTypes ==
    /\ status \in [Deliveries -> Statuses]
    /\ expired \in SUBSET Deliveries
    /\ arrived \in Seq(Deliveries)
    /\ responding \in [Deliveries -> SUBSET {"accepted", "duplicate"}]
    /\ claimed \in [Deliveries -> Nat] /\ returning \in [Deliveries -> Nat]

RoundTypes ==
    /\ round \in Seq(Deliveries) /\ fetched \in Seq(Deliveries)
    /\ phase \in {"asleep", "processing", "discovering", "reclaiming", "enqueuing"}

CounterTypes ==
    /\ outlived \in [Deliveries -> Nat]
    /\ duplicates \in Nat /\ failures \in [Deliveries -> Nat]
    /\ restarts \in Nat

Typed == RowTypes /\ RoundTypes /\ CounterTypes

LEMMA TypeParts ==
    /\ TypeOK <=> Typed /\ holding \in BOOLEAN
    /\ TypeOK' <=> Typed' /\ holding' \in BOOLEAN
BY DEF TypeOK, Typed, RowTypes, RoundTypes, CounterTypes

LEMMA IInvInit == Init => IInv
<1> SUFFICES ASSUME Init PROVE IInv
  OBVIOUS
<1>1. RowTypes
  BY DEF Init, RowTypes, Statuses
<1>2. RoundTypes /\ CounterTypes
  BY DEF Init, RoundTypes, CounterTypes
<1>3. holding \in BOOLEAN /\ RoundIsSound
  BY DEF Init, RoundIsSound
<1>4. LeasesAccountForHolders
  BY DEF Init, LeasesAccountForHolders, Holders, UnderLease
<1>5. QED
  BY <1>1, <1>2, <1>3, <1>4, TypeParts DEF IInv, Typed

\* A first of a round is a delivery.
LEMMA HeadOfRound ==
    ASSUME TypeOK, round # <<>>
    PROVE  Head(round) \in Deliveries /\ Tail(round) \in Seq(Deliveries)
BY DEF TypeOK

LEMMA ReclaimableStatuses ==
    ASSUME TypeOK
    PROVE  /\ Reclaimable.statuses \in [Deliveries -> Statuses]
           /\ \A d \in Deliveries :
                 Reclaimable.statuses[d] =
                    IF status[d] = "processing" /\ d \in expired THEN "failed" ELSE status[d]
BY DEF TypeOK, Reclaimable, Statuses

-----------------------------------------------------------------------------
(***************************************************************************)
(* Types.                                                                  *)
(***************************************************************************)
LEMMA RowStepsKeepTypes ==
    ASSUME IInv, NEW d \in Deliveries,
           \/ Receive(d) \/ LeaseExpires(d) \/ Claim(d) \/ Finish(d) \/ Return(d)
           \/ \E kind \in {"accepted", "duplicate"} : Schedule(d, kind)
    PROVE  TypeOK' /\ RoundIsSound'
<1>1. Typed /\ holding \in BOOLEAN
  BY TypeParts DEF IInv
<1>2. UNCHANGED <<round, holding, fetched, phase>>
  BY DEF Receive, LeaseExpires, Claim, Finish, Return, Schedule, reconcileVars
<1>3. RowTypes'
  <2> USE <1>1 DEF Typed, RowTypes, Statuses
  <2>1. CASE Receive(d)
    <3>1. UNCHANGED <<expired, claimed, returning>>
      BY <2>1 DEF Receive
    <3>2. CASE status[d] = "none"
      <4>1. /\ status' = [status EXCEPT ![d] = "received"]
            /\ arrived' = Append(arrived, d)
            /\ responding' = [responding EXCEPT ![d] = responding[d] \cup {"accepted"}]
        BY <2>1, <3>2 DEF Receive
      <4>2. status' \in [Deliveries -> Statuses] /\ arrived' \in Seq(Deliveries)
        BY <4>1
      <4>3. responding' \in [Deliveries -> SUBSET {"accepted", "duplicate"}]
        BY <4>1
      <4>4. QED
        BY <3>1, <4>2, <4>3
    <3>3. CASE status[d] # "none"
      <4>1. UNCHANGED <<status, arrived>>
        BY <2>1, <3>3 DEF Receive
      <4>2. responding' = [responding EXCEPT ![d] =
                IF status[d] \in Claimable THEN responding[d] \cup {"duplicate"}
                ELSE responding[d]]
        BY <2>1, <3>3 DEF Receive
      <4>3. responding' \in [Deliveries -> SUBSET {"accepted", "duplicate"}]
        BY <4>2
      <4>4. QED
        BY <3>1, <4>1, <4>3
    <3>4. QED
      BY <3>2, <3>3
  <2>2. CASE LeaseExpires(d)
    BY <2>2 DEF LeaseExpires
  <2>3. CASE Claim(d)
    <3>1. UNCHANGED <<arrived, responding>>
      BY <2>3 DEF Claim
    <3>2. CASE status[d] \in Claimable
      <4>1. status' \in [Deliveries -> Statuses] /\ expired' \in SUBSET Deliveries
        BY <2>3, <3>2 DEF Claim, StartProcessing
      <4>2. claimed' \in [Deliveries -> Nat] /\ returning' = returning
        BY <2>3, <3>2 DEF Claim
      <4>3. QED
        BY <3>1, <4>1, <4>2
    <3>3. CASE status[d] \notin Claimable
      <4>1. UNCHANGED <<status, expired, claimed>>
        BY <2>3, <3>3 DEF Claim
      <4>2. returning' = [returning EXCEPT ![d] = returning[d] + 1]
        BY <2>3, <3>3 DEF Claim
      <4>3. returning' \in [Deliveries -> Nat]
        BY <4>2
      <4>4. QED
        BY <3>1, <4>1, <4>3
    <3>4. QED
      BY <3>2, <3>3
  <2>4. CASE Finish(d)
    <3>1. status' \in [Deliveries -> Statuses]
      <4>1. MarkProcessed(d) => status' \in [Deliveries -> Statuses]
        BY DEF MarkProcessed
      <4>2. MarkFailed(d) => status' \in [Deliveries -> Statuses]
        BY DEF MarkFailed
      <4>3. QED
        BY <2>4, <4>1, <4>2 DEF Finish
    <3>2. claimed' \in [Deliveries -> Nat] /\ returning' \in [Deliveries -> Nat]
      BY <2>4 DEF Finish
    <3>3. QED
      BY <2>4, <3>1, <3>2 DEF Finish
  <2>5. CASE Return(d)
    BY <2>5 DEF Return
  <2>6. ASSUME NEW kind \in {"accepted", "duplicate"}, Schedule(d, kind)
        PROVE  RowTypes'
    BY <2>6 DEF Schedule
  <2>7. QED
    BY <2>1, <2>2, <2>3, <2>4, <2>5, <2>6
<1>4. CounterTypes'
  <2> USE <1>1 DEF Typed, CounterTypes
  <2>1. CASE Receive(d)
    BY <2>1 DEF Receive
  <2>2. CASE LeaseExpires(d)
    BY <2>2 DEF LeaseExpires
  <2>3. CASE Finish(d)
    BY <2>3 DEF Finish
  <2>4. CASE UNCHANGED counters
    BY <2>4 DEF counters
  <2>5. QED
    BY <2>1, <2>2, <2>3, <2>4 DEF Claim, Return, Schedule
<1>5. RoundTypes' /\ RoundIsSound' /\ holding' \in BOOLEAN
  BY <1>1, <1>2 DEF IInv, Typed, RoundTypes, RoundIsSound
<1>6. QED
  BY <1>3, <1>4, <1>5, TypeParts DEF Typed

LEMMA RoundStepsKeepTypes ==
    ASSUME IInv, Reconcile \/ Restart
    PROVE  TypeOK' /\ RoundIsSound'
<1>1. Typed /\ holding \in BOOLEAN /\ TypeOK /\ RoundIsSound
  BY TypeParts DEF IInv
<1>2. RowTypes'
  <2> USE <1>1 DEF Typed, RowTypes, reconcileVars
  <2>1. CASE StartRound \/ ReclaimFetch
    BY <2>1, ReclaimableStatuses DEF StartRound, ReclaimFetch
  <2>2. CASE Discover \/ EndRound \/ ReclaimEnqueue
    BY <2>2 DEF Discover, EndRound, ReclaimEnqueue
  <2>3. CASE RoundRecord
    <3>1. Head(round) \in Deliveries
      BY <2>3, HeadOfRound DEF RoundRecord
    <3>2. QED
      BY <2>3, <3>1 DEF RoundRecord, Statuses
  <2>4. CASE RoundClaim
    <3>1. Head(round) \in Deliveries
      BY <2>4, HeadOfRound DEF RoundClaim
    <3>2. QED
      BY <2>4, <3>1 DEF RoundClaim, StartProcessing, Statuses
  <2>5. CASE RoundFinish
    BY <2>5 DEF RoundFinish, MarkProcessed, MarkFailed, Statuses
  <2>6. CASE Restart
    BY <2>6 DEF Restart
  <2>7. QED
    BY <2>1, <2>2, <2>3, <2>4, <2>5, <2>6 DEF Reconcile
<1>3. CounterTypes'
  <2> USE <1>1 DEF Typed, CounterTypes, counters
  <2>1. CASE RoundFinish
    BY <2>1 DEF RoundFinish
  <2>2. CASE Restart
    BY <2>2 DEF Restart
  <2>3. CASE Reconcile /\ ~RoundFinish
    BY <2>3 DEF Reconcile, StartRound, Discover, RoundRecord, RoundClaim, EndRound,
                ReclaimFetch, ReclaimEnqueue
  <2>4. QED
    BY <2>1, <2>2, <2>3
<1>4. RoundTypes'
  <2> USE <1>1 DEF Typed, RoundTypes, reconcileVars
  <2>0. <<>> \in Seq(Deliveries)
    OBVIOUS
  <2>1. CASE StartRound \/ Discover \/ ReclaimFetch
    BY <2>1, QueueLimits DEF StartRound, Discover, ReclaimFetch
  <2>2. CASE EndRound \/ ReclaimEnqueue \/ Restart
    <3>1. (round' = round \/ round' = <<>>) /\ (fetched' = fetched \/ fetched' = <<>>)
      BY <2>2 DEF EndRound, ReclaimEnqueue, Restart
    <3>2. phase' \in {"reclaiming", "asleep"}
      BY <2>2 DEF EndRound, ReclaimEnqueue, Restart
    <3>3. QED
      BY <2>0, <3>1, <3>2
  <2>3. CASE RoundRecord \/ RoundClaim \/ RoundFinish
    <3>1. Tail(round) \in Seq(Deliveries)
      BY <2>3, HeadOfRound DEF RoundRecord, RoundClaim, RoundFinish, RoundIsSound
    <3>2. (round' = round \/ round' = Tail(round) \/ round' = <<>>) /\ fetched' = fetched
      BY <2>3 DEF RoundRecord, RoundClaim, RoundFinish
    <3>3. phase' = phase \/ phase' = "asleep"
      BY <2>3 DEF RoundRecord, RoundClaim, RoundFinish
    <3>4. round' \in Seq(Deliveries) /\ fetched' \in Seq(Deliveries)
      BY <2>0, <3>1, <3>2
    <3>5. QED
      BY <3>3, <3>4
  <2>4. QED
    BY <2>1, <2>2, <2>3 DEF Reconcile
<1>5. holding' \in BOOLEAN
  BY <1>1, Zenon DEF Reconcile, StartRound, Discover, RoundRecord, RoundClaim, RoundFinish, EndRound,
              ReclaimFetch, ReclaimEnqueue, Restart, reconcileVars
<1>6. RoundIsSound'
  <2>1. CASE StartRound \/ Discover \/ EndRound \/ ReclaimFetch \/ ReclaimEnqueue
    BY <1>1, <2>1 DEF RoundIsSound, StartRound, Discover, EndRound, ReclaimFetch,
                      ReclaimEnqueue
  <2>2. CASE RoundRecord
    BY <1>1, <2>2 DEF RoundIsSound, RoundRecord, reconcileVars
  <2>3. CASE RoundClaim \/ RoundFinish \/ Restart
    BY <1>1, <2>3 DEF RoundIsSound, RoundClaim, RoundFinish, Restart
  <2>4. QED
    BY <2>1, <2>2, <2>3 DEF Reconcile
<1>7. QED
  BY <1>2, <1>3, <1>4, <1>5, <1>6, TypeParts DEF Typed

-----------------------------------------------------------------------------
(***************************************************************************)
(* Holders and leases.                                                     *)
(***************************************************************************)
LEMMA HoldersAreCounted ==
    ASSUME TypeOK, NEW d \in Deliveries
    PROVE  Holders(d) \in Nat /\ outlived[d] \in Nat
BY DEF TypeOK, Holders

LEMMA RowStepsKeepLeases ==
    ASSUME IInv, NEW d \in Deliveries,
           \/ Receive(d) \/ LeaseExpires(d) \/ Claim(d) \/ Finish(d) \/ Return(d)
           \/ \E kind \in {"accepted", "duplicate"} : Schedule(d, kind)
    PROVE  LeasesAccountForHolders'
<1> SUFFICES ASSUME NEW e \in Deliveries
             PROVE  Holders(e)' <= outlived'[e] + (IF UnderLease(e)' THEN 1 ELSE 0)
  BY DEF LeasesAccountForHolders
<1>1. /\ Holders(e) \in Nat /\ outlived[e] \in Nat
      /\ Holders(e) <= outlived[e] + (IF UnderLease(e) THEN 1 ELSE 0)
      /\ claimed \in [Deliveries -> Nat] /\ status \in [Deliveries -> Statuses]
      /\ outlived \in [Deliveries -> Nat]
  BY HoldersAreCounted DEF IInv, LeasesAccountForHolders, TypeOK
<1>2. CASE Receive(d)
  BY <1>1, <1>2 DEF Receive, reconcileVars, Holders, UnderLease
<1>3. CASE LeaseExpires(d)
  <2>1. Holders(e)' = Holders(e)
    BY <1>3 DEF LeaseExpires, reconcileVars, Holders
  <2>2. CASE e = d
    <3>1. ~UnderLease(e)' /\ UnderLease(e)
      BY <1>3, <2>2 DEF LeaseExpires, UnderLease
    <3>2. CASE HasHolder(d)
      BY <1>1, <1>3, <2>1, <2>2, <3>1, <3>2 DEF LeaseExpires
    <3>3. CASE ~HasHolder(d)
      <4>1. Holders(e) = 0
        BY <1>1, <2>2, <3>3 DEF HasHolder, Holders
      <4>2. outlived' = outlived
        BY <1>3, <3>3 DEF LeaseExpires
      <4>3. QED
        BY <1>1, <2>1, <3>1, <4>1, <4>2
    <3>4. QED
      BY <3>2, <3>3
  <2>3. CASE e # d
    <3>1. outlived'[e] = outlived[e]
      BY <1>1, <1>3, <2>3 DEF LeaseExpires
    <3>2. UnderLease(e)' = UnderLease(e)
      BY <1>3, <2>3 DEF LeaseExpires, UnderLease
    <3>3. QED
      BY <1>1, <2>1, <3>1, <3>2
  <2>4. QED
    BY <2>2, <2>3
<1>4. CASE Claim(d)
  <2>1. outlived' = outlived /\ holding' = holding /\ round' = round
    BY <1>4 DEF Claim, counters, reconcileVars
  <2>2. CASE status[d] \in Claimable /\ e = d
    <3>1. ~UnderLease(e) /\ UnderLease(e)'
      BY <1>1, <1>4, <2>2 DEF Claim, StartProcessing, UnderLease, Claimable
    <3>2. Holders(e)' = Holders(e) + 1
      BY <1>1, <1>4, <2>1, <2>2 DEF Claim, Holders
    <3>3. QED
      BY <1>1, <2>1, <3>1, <3>2
  <2>3. CASE ~(status[d] \in Claimable /\ e = d)
    <3>1. UnderLease(e)' = UnderLease(e)
      BY <1>1, <1>4, <2>3 DEF Claim, StartProcessing, UnderLease
    <3>2. Holders(e)' = Holders(e)
      BY <1>1, <1>4, <2>1, <2>3 DEF Claim, Holders
    <3>3. QED
      BY <1>1, <2>1, <3>1, <3>2
  <2>4. QED
    BY <2>2, <2>3
<1>5. CASE Finish(d)
  <2>1. outlived' = outlived /\ holding' = holding /\ round' = round /\ expired' = expired
    BY <1>5 DEF Finish, reconcileVars
  <2>2. CASE e = d
    <3>1. Holders(e)' = Holders(e) - 1
      BY <1>1, <1>5, <2>1, <2>2 DEF Finish, Holders
    <3>2. QED
      BY <1>1, <2>1, <3>1
  <2>3. CASE e # d
    <3>1. status'[e] = status[e] /\ claimed'[e] = claimed[e]
      BY <1>1, <1>5, <2>3 DEF Finish, MarkProcessed, MarkFailed
    <3>2. QED
      BY <1>1, <2>1, <3>1 DEF Holders, UnderLease
  <2>4. QED
    BY <2>2, <2>3
<1>6. CASE Return(d)
  BY <1>1, <1>6 DEF Return, counters, reconcileVars, Holders, UnderLease
<1>7. ASSUME NEW kind \in {"accepted", "duplicate"}, Schedule(d, kind)
      PROVE  Holders(e)' <= outlived'[e] + (IF UnderLease(e)' THEN 1 ELSE 0)
  BY <1>1, <1>7 DEF Schedule, counters, reconcileVars, Holders, UnderLease
<1>8. QED
  BY <1>2, <1>3, <1>4, <1>5, <1>6, <1>7

LEMMA RoundStepsKeepLeases ==
    ASSUME IInv, Reconcile \/ Restart
    PROVE  LeasesAccountForHolders'
<1> SUFFICES ASSUME NEW e \in Deliveries
             PROVE  Holders(e)' <= outlived'[e] + (IF UnderLease(e)' THEN 1 ELSE 0)
  BY DEF LeasesAccountForHolders
<1>1. /\ Holders(e) \in Nat /\ outlived[e] \in Nat
      /\ Holders(e) <= outlived[e] + (IF UnderLease(e) THEN 1 ELSE 0)
      /\ claimed \in [Deliveries -> Nat] /\ status \in [Deliveries -> Statuses]
  BY HoldersAreCounted DEF IInv, LeasesAccountForHolders, TypeOK
<1>2. ASSUME ~holding, ~holding', claimed' = claimed, outlived' = outlived, expired' = expired,
             \/ UnderLease(e)' = UnderLease(e)
             \/ ~UnderLease(e) /\ ~UnderLease(e)'
      PROVE  Holders(e)' <= outlived'[e] + (IF UnderLease(e)' THEN 1 ELSE 0)
  <2>1. Holders(e)' = Holders(e)
    BY <1>2 DEF Holders
  <2>2. QED
    BY <1>1, <1>2, <2>1
<1>3. CASE StartRound \/ ReclaimFetch
  <2>1. ~holding /\ ~holding'
    BY <1>3 DEF StartRound, ReclaimFetch, IInv, RoundIsSound
  <2>2. status'[e] = IF status[e] = "processing" /\ e \in expired THEN "failed" ELSE status[e]
    BY <1>3, ReclaimableStatuses DEF StartRound, ReclaimFetch, IInv
  <2>3. claimed' = claimed /\ outlived' = outlived /\ expired' = expired
    BY <1>3 DEF StartRound, ReclaimFetch, counters
  <2>4. UnderLease(e)' = UnderLease(e)
    BY <2>2, <2>3 DEF UnderLease
  <2>5. QED
    BY <1>2, <2>1, <2>3, <2>4
<1>4. CASE Discover \/ EndRound \/ ReclaimEnqueue
  <2>1. ~holding /\ ~holding'
    BY <1>4 DEF Discover, EndRound, ReclaimEnqueue, IInv, RoundIsSound
  <2>2. claimed' = claimed /\ outlived' = outlived /\ expired' = expired /\ status' = status
    BY <1>4 DEF Discover, EndRound, ReclaimEnqueue, counters
  <2>3. QED
    BY <1>2, <2>1, <2>2 DEF UnderLease
<1>5. CASE RoundRecord
  <2>1. Head(round) \in Deliveries
    BY <1>5, HeadOfRound DEF RoundRecord, IInv
  <2>2. /\ claimed' = claimed /\ outlived' = outlived /\ expired' = expired
        /\ holding' = holding /\ round' = round
    BY <1>5 DEF RoundRecord, counters, reconcileVars
  <2>3. UnderLease(e)' = UnderLease(e)
    BY <1>1, <1>5, <2>2 DEF RoundRecord, UnderLease
  <2>4. QED
    BY <1>1, <2>2, <2>3 DEF Holders
<1>6. CASE RoundClaim
  <2>1. Head(round) \in Deliveries
    BY <1>6, HeadOfRound DEF RoundClaim, IInv
  <2>2. claimed' = claimed /\ outlived' = outlived /\ ~holding
    BY <1>6 DEF RoundClaim, counters
  <2>3. CASE status[Head(round)] \in Claimable
    <3>1. holding' /\ round' = round /\ StartProcessing(Head(round))
      BY <1>6, <2>3 DEF RoundClaim
    <3>2. CASE e = Head(round)
      <4>1. ~UnderLease(e) /\ UnderLease(e)'
        BY <1>1, <2>3, <3>1, <3>2 DEF StartProcessing, UnderLease, Claimable
      <4>2. Holders(e)' = Holders(e) + 1
        BY <1>1, <2>2, <3>1, <3>2 DEF Holders
      <4>3. QED
        BY <1>1, <2>2, <4>1, <4>2
    <3>3. CASE e # Head(round)
      <4>1. UnderLease(e)' = UnderLease(e)
        BY <1>1, <3>1, <3>3 DEF StartProcessing, UnderLease
      <4>2. Holders(e)' = Holders(e)
        BY <2>2, <3>1, <3>3 DEF Holders
      <4>3. QED
        BY <1>1, <2>2, <4>1, <4>2
    <3>4. QED
      BY <3>2, <3>3
  <2>4. CASE status[Head(round)] \notin Claimable
    <3>1. ~holding' /\ status' = status /\ expired' = expired
      BY <1>6, <2>2, <2>4 DEF RoundClaim
    <3>2. QED
      BY <1>2, <2>2, <3>1 DEF UnderLease
  <2>5. QED
    BY <2>3, <2>4
<1>7. CASE RoundFinish
  <2>1. Head(round) \in Deliveries
    BY <1>7, HeadOfRound DEF RoundFinish, IInv, RoundIsSound
  <2>2. claimed' = claimed /\ outlived' = outlived /\ expired' = expired /\ ~holding' /\ holding
    BY <1>7 DEF RoundFinish
  <2>3. CASE e = Head(round)
    <3>1. Holders(e)' = Holders(e) - 1
      BY <1>1, <2>2, <2>3 DEF Holders
    <3>2. QED
      BY <1>1, <2>2, <3>1
  <2>4. CASE e # Head(round)
    <3>1. status'[e] = status[e]
      BY <1>1, <1>7, <2>4 DEF RoundFinish, MarkProcessed, MarkFailed
    <3>2. Holders(e)' = Holders(e)
      BY <2>2, <2>4 DEF Holders
    <3>3. QED
      BY <1>1, <2>2, <3>1, <3>2 DEF UnderLease
  <2>5. QED
    BY <2>3, <2>4
<1>8. CASE Restart
  <2>1. Holders(e)' = 0
    BY <1>8 DEF Restart, Holders
  <2>2. outlived'[e] \in Nat
    BY <1>1, <1>8 DEF Restart
  <2>3. QED
    BY <2>1, <2>2
<1>9. QED
  BY <1>3, <1>4, <1>5, <1>6, <1>7, <1>8 DEF Reconcile

LEMMA IInvStep == IInv /\ [Next]_vars => IInv'
<1> SUFFICES ASSUME IInv, [Next]_vars PROVE IInv'
  OBVIOUS
<1>1. CASE UNCHANGED vars
  BY <1>1 DEF vars, reconcileVars, counters, IInv, TypeOK, RoundIsSound,
              LeasesAccountForHolders, Holders, UnderLease
<1>2. ASSUME NEW d \in Deliveries,
             \/ Receive(d) \/ LeaseExpires(d) \/ Claim(d) \/ Finish(d) \/ Return(d)
             \/ \E kind \in {"accepted", "duplicate"} : Schedule(d, kind)
      PROVE  IInv'
  BY <1>2, RowStepsKeepTypes, RowStepsKeepLeases DEF IInv
<1>3. CASE Reconcile \/ Restart
  BY <1>3, RoundStepsKeepTypes, RoundStepsKeepLeases DEF IInv
<1>4. QED
  BY <1>1, <1>2, <1>3 DEF Next, Work

\* Every reachable state has values of the declared types.
THEOREM IntakeTypes == Spec => []TypeOK
<1>1. IInv => TypeOK
  BY DEF IInv
<1>2. QED
  BY <1>1, IInvInit, IInvStep, PTL DEF Spec

\* One holder per delivery, and one more for each lease that ran out under a
\* slow handler: with handlers faster than the lease, a claim is exclusive.
THEOREM ClaimsAreExclusive == Spec => []ClaimIsExclusive
<1>1. IInv => ClaimIsExclusive
  BY HoldersAreCounted DEF IInv, LeasesAccountForHolders, ClaimIsExclusive
<1>2. QED
  BY <1>1, IInvInit, IInvStep, PTL DEF Spec

-----------------------------------------------------------------------------
(***************************************************************************)
(* The rows live the life of DeliveryRow.  Closing a row is not guarded by *)
(* its status, so the proof needs to know that whoever is about to close   *)
(* one has claimed it.                                                     *)
(***************************************************************************)
OnceClaimed == {"processing", "failed", "processed"}

HeldRowsWereClaimed ==
    \A d \in Deliveries : HasHolder(d) => status[d] \in OnceClaimed

LEMMA RowOfClaim ==
    ASSUME NEW d \in Deliveries, status[d] \in Claimable, StartProcessing(d)
    PROVE  Row!Next /\ (status \in [Deliveries -> Statuses] => status'[d] = "processing")
BY DEF StartProcessing, Claimable, Row!Next, Row!Claim

LEMMA RowOfEnd ==
    ASSUME status \in [Deliveries -> Statuses], NEW d \in Deliveries,
           status[d] \in OnceClaimed, MarkProcessed(d) \/ MarkFailed(d)
    PROVE  [Row!Next]_status
<1>1. CASE MarkProcessed(d) /\ status[d] # "processed"
  BY <1>1 DEF MarkProcessed, OnceClaimed, Row!Next, Row!Close
<1>2. CASE MarkProcessed(d) /\ status[d] = "processed"
  BY <1>2 DEF MarkProcessed
<1>3. CASE MarkFailed(d) /\ status[d] = "processing"
  <2>1. status' = [e \in Deliveries |-> IF e \in {d} THEN "failed" ELSE status[e]]
    BY <1>3 DEF MarkFailed
  <2>2. Row!Release({d}) /\ {d} \in SUBSET Deliveries
    BY <1>3, <2>1 DEF Row!Release
  <2>3. QED
    BY <2>2 DEF Row!Next
<1>4. CASE MarkFailed(d) /\ status[d] # "processing"
  BY <1>4 DEF MarkFailed
<1>5. QED
  BY <1>1, <1>2, <1>3, <1>4

LEMMA RowOfReclaim ==
    ASSUME TypeOK, status' = Reclaimable.statuses
    PROVE  Row!Next
<1> DEFINE stale == {d \in Deliveries : status[d] = "processing" /\ d \in expired}
<1>1. status' = [d \in Deliveries |-> IF d \in stale THEN "failed" ELSE status[d]]
  BY DEF Reclaimable
<1>2. Row!Release(stale) /\ stale \in SUBSET Deliveries
  BY <1>1 DEF Row!Release
<1> HIDE DEF stale
<1>3. QED
  BY <1>2 DEF Row!Next

LEMMA RowStep ==
    ASSUME IInv, HeldRowsWereClaimed, [Next]_vars
    PROVE  [Row!Next]_status
<1>1. TypeOK /\ RoundIsSound /\ status \in [Deliveries -> Statuses] /\ claimed \in [Deliveries -> Nat]
  BY DEF IInv, TypeOK
<1>2. ASSUME NEW d \in Deliveries, Receive(d)
      PROVE  [Row!Next]_status
  BY <1>2 DEF Receive, Row!Next, Row!Record
<1>3. ASSUME NEW d \in Deliveries, Claim(d)
      PROVE  [Row!Next]_status
  BY <1>3, RowOfClaim DEF Claim
<1>4. ASSUME NEW d \in Deliveries, Finish(d)
      PROVE  [Row!Next]_status
  BY <1>1, <1>4, RowOfEnd DEF Finish, HeldRowsWereClaimed, HasHolder
<1>5. CASE StartRound \/ ReclaimFetch
  BY <1>1, <1>5, RowOfReclaim DEF StartRound, ReclaimFetch
<1>6. CASE RoundRecord \/ RoundClaim \/ RoundFinish
  <2>1. Head(round) \in Deliveries
    BY <1>1, <1>6, HeadOfRound DEF RoundRecord, RoundClaim, RoundFinish, RoundIsSound
  <2>2. CASE RoundRecord
    BY <2>1, <2>2 DEF RoundRecord, Row!Next, Row!Record
  <2>3. CASE RoundClaim
    BY <2>1, <2>3, RowOfClaim DEF RoundClaim
  <2>4. CASE RoundFinish
    BY <1>1, <2>1, <2>4, RowOfEnd DEF RoundFinish, HeldRowsWereClaimed, HasHolder
  <2>5. QED
    BY <1>6, <2>2, <2>3, <2>4
<1>7. QED
  BY <1>2, <1>3, <1>4, <1>5, <1>6
     DEF Next, vars, Work, Reconcile, Return, LeaseExpires, Schedule, Discover, EndRound,
         ReclaimEnqueue, Restart

LEMMA ClaimedRowsStayClaimed ==
    ASSUME [Row!Next]_status, NEW e \in Deliveries, status \in [Deliveries -> Statuses]
    PROVE  /\ status[e] \in OnceClaimed => status'[e] \in OnceClaimed
           /\ status[e] = "processed" => status'[e] = "processed"
BY DEF Row!Next, Row!Record, Row!Claim, Row!Close, Row!Release, OnceClaimed

\* A new holder has just claimed the row.
LEMMA NewHolders ==
    ASSUME IInv, [Next]_vars, NEW e \in Deliveries, HasHolder(e)'
    PROVE  HasHolder(e) \/ status'[e] = "processing"
<1>1. TypeOK /\ RoundIsSound /\ status \in [Deliveries -> Statuses] /\ claimed \in [Deliveries -> Nat]
  BY DEF IInv, TypeOK
<1>2. CASE UNCHANGED <<claimed, holding, round>>
  BY <1>2 DEF HasHolder
<1>3. ASSUME NEW d \in Deliveries, Claim(d)
      PROVE  HasHolder(e) \/ status'[e] = "processing"
  <2>1. UNCHANGED <<holding, round>>
    BY <1>3 DEF Claim, reconcileVars
  <2>2. CASE e = d /\ status[d] \in Claimable
    BY <1>1, <1>3, <2>2, RowOfClaim DEF Claim
  <2>3. CASE ~(e = d /\ status[d] \in Claimable)
    BY <1>1, <1>3, <2>1, <2>3 DEF Claim, HasHolder
  <2>4. QED
    BY <2>2, <2>3
<1>4. ASSUME NEW d \in Deliveries, Finish(d)
      PROVE  HasHolder(e)
  BY <1>1, <1>4 DEF Finish, HasHolder, reconcileVars
<1>5. CASE RoundClaim
  <2>1. Head(round) \in Deliveries /\ claimed' = claimed
    BY <1>1, <1>5, HeadOfRound DEF RoundClaim
  <2>2. CASE status[Head(round)] \in Claimable
    BY <1>1, <1>5, <2>1, <2>2, RowOfClaim DEF RoundClaim, HasHolder
  <2>3. CASE status[Head(round)] \notin Claimable
    BY <1>5, <2>1, <2>3 DEF RoundClaim, HasHolder
  <2>4. QED
    BY <2>2, <2>3
<1>6. CASE RoundFinish
  BY <1>6 DEF RoundFinish, HasHolder
<1>7. CASE StartRound \/ Discover
  BY <1>1, <1>7 DEF StartRound, Discover, HasHolder, RoundIsSound
<1>8. CASE Restart
  BY <1>8 DEF Restart, HasHolder
<1>9. QED
  BY <1>2, <1>3, <1>4, <1>5, <1>6, <1>7, <1>8
     DEF Next, vars, reconcileVars, Work, Reconcile, Receive, Return, LeaseExpires, Schedule,
         RoundRecord, EndRound, ReclaimFetch, ReclaimEnqueue

LEMMA HeldRowsInit == Init => HeldRowsWereClaimed
BY DEF Init, HeldRowsWereClaimed, HasHolder

LEMMA HeldRowsStep == IInv /\ HeldRowsWereClaimed /\ [Next]_vars => HeldRowsWereClaimed'
<1> SUFFICES ASSUME IInv, HeldRowsWereClaimed, [Next]_vars, NEW e \in Deliveries, HasHolder(e)'
             PROVE  status'[e] \in OnceClaimed
  BY DEF HeldRowsWereClaimed, OnceClaimed
<1>1. status \in [Deliveries -> Statuses]
  BY DEF IInv, TypeOK
<1>2. CASE status'[e] = "processing"
  BY <1>2 DEF OnceClaimed
<1>3. CASE HasHolder(e)
  BY <1>1, <1>3, RowStep, ClaimedRowsStayClaimed DEF HeldRowsWereClaimed
<1>4. QED
  BY <1>2, <1>3, NewHolders

\* WebhookIntake implements DeliveryRow: whatever handlers, reconciliation,
\* expired leases and restarts do, a row is closed by somebody who claimed
\* it, and once.
THEOREM IntakeKeepsTheRow == Spec => ImplementsDeliveryRow
<1>1. Init => Row!Init
  BY DEF Init, Row!Init
<1>2. QED
  BY <1>1, RowStep, IInvInit, IInvStep, HeldRowsInit, HeldRowsStep, PTL
     DEF Spec, ImplementsDeliveryRow, Row!Spec

\* "processed" is the last status of a delivery.
THEOREM ProcessedDeliveriesStayProcessed == Spec => ProcessedIsFinal
<1>1. IInv /\ HeldRowsWereClaimed /\ [Next]_vars =>
         [\A d \in Deliveries : status[d] = "processed" => status'[d] = "processed"]_vars
  BY RowStep, ClaimedRowsStayClaimed DEF IInv, TypeOK
<1>2. QED
  BY <1>1, IInvInit, IInvStep, HeldRowsInit, HeldRowsStep, PTL DEF Spec, ProcessedIsFinal

-----------------------------------------------------------------------------
(***************************************************************************)
(* The queue inside the intake is a WebhookQueue.                          *)
(***************************************************************************)
LEMMA QueueStep == IInv /\ [Next]_vars => [Q!Next]_(Q!vars)
<1> SUFFICES ASSUME IInv, [Next]_vars, ~UNCHANGED Q!vars PROVE Q!Next
  OBVIOUS
<1> USE DEF Q!vars, queueVars
<1>1. ASSUME NEW d \in Deliveries, NEW kind \in {"accepted", "duplicate"}, Schedule(d, kind)
      PROVE  Q!Next
  <2>1. Q!Copies(d) < MaxCopies /\ Q!Enqueue(d, TRUE)
    BY <1>1 DEF Schedule
  <2>2. QED
    BY <2>1 DEF Q!Next
<1>2. ASSUME NEW d \in Deliveries, Receive(d) \/ Work(d) \/ LeaseExpires(d)
      PROVE  Q!Next
  <2>1. Return(d)
    BY <1>2 DEF Receive, Work, Claim, Finish, LeaseExpires
  <2>2. QED
    BY <2>1 DEF Return, Q!Next
<1>3. CASE Reconcile
  <2>1. ReclaimEnqueue
    BY <1>3 DEF Reconcile, StartRound, Discover, RoundRecord, RoundClaim, RoundFinish, EndRound,
                ReclaimFetch
  <2>2. fetched \in ReclaimBatches
    BY <2>1 DEF ReclaimEnqueue, IInv, RoundIsSound
  <2>3. Q!ReclaimLoop(fetched)
    BY <2>1 DEF ReclaimEnqueue
  <2>4. QED
    BY <2>2, <2>3 DEF Q!Next
<1>4. CASE Restart
  BY <1>4 DEF Restart, Q!Next
<1>5. QED
  BY <1>1, <1>2, <1>3, <1>4 DEF Next, vars

\* Every behaviour of the intake is, for the queue's variables, a behaviour
\* of WebhookQueue: the theorems of WebhookQueue_proofs hold of it.
THEOREM IntakeDrivesTheQueue == Spec => DrivesTheQueue
<1>1. Init => Q!Init
  BY DEF Init
<1>2. QED
  BY <1>1, QueueStep, IInvInit, IInvStep, PTL DEF Spec, DrivesTheQueue, Q!Spec
=============================================================================
