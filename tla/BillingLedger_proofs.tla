--------------------------- MODULE BillingLedger_proofs ---------------------------
(***************************************************************************)
(* Proofs about BillingLedger, for any customers, requests and inputs.     *)
(***************************************************************************)
EXTENDS BillingLedger, TLAPS

(***************************************************************************)
(* The inductive invariant.                                                *)
(***************************************************************************)
Inside(r) == req[r].step \in InTransaction

\* A request at work has an input, and in its transaction it has the lock.
LocksAreHeld ==
    \A r \in Requests :
        /\ ~At(r, "rest") => Input(r) \in Inputs
        /\ Inside(r) => holder[Holder(r)] = r

\* Under the lock, what a transaction has read and looked for stays true.
ReadsHold ==
    \A r \in Requests :
        /\ Inside(r) => req[r].read = balance[Holder(r)]
        /\ req[r].step \in {"insert", "commit"} =>
              \A k \in 1..Len(ledger[Holder(r)]) :
                  ~Matches(Input(r), ledger[Holder(r)][k].input)

\* A transaction about to commit has its key for itself.
KeysHold ==
    \A r \in Requests : At(r, "commit") =>
        /\ NewBalance(r) \in 0..MaxCents
        /\ ~KeyTaken(Input(r))
        /\ \A q \in Requests : q # r /\ At(q, "commit") => ~SameKey(Input(r), Input(q))

IInv ==
    /\ TypeOK
    /\ LocksAreHeld
    /\ ReadsHold
    /\ KeysHold
    /\ LedgerRunsToTheBalance
    /\ ReferenceIsAppliedOnce

-----------------------------------------------------------------------------
LEMMA DeltaIsInt == ASSUME NEW i \in Inputs PROVE Delta(i) \in Int
  BY BillingInputs DEF InputRecords, Delta

LEMMA IInvInit == Init => IInv
<1> SUFFICES ASSUME Init PROVE IInv
  OBVIOUS
<1> USE DEF Init
<1>1. TypeOK
  <2>1. ledger \in [Customers -> Seq(EntryRecords)]
    <3>1. <<>> \in Seq(EntryRecords)
      OBVIOUS
    <3> QED BY <3>1
  <2>2. Rest \in RequestRecords
    BY BillingInputs DEF Rest, RequestRecords, InTransaction
  <2>3. 0 \in 0..MaxCents
    BY BillingInputs
  <2> QED BY <2>1, <2>2, <2>3 DEF TypeOK
<1>2. \A r \in Requests : req[r].step = "rest"
  BY DEF Rest
<1>3. LocksAreHeld /\ ReadsHold /\ KeysHold
  BY <1>2 DEF LocksAreHeld, ReadsHold, KeysHold, Inside, InTransaction, At
<1>4. \A c \in Customers : Len(ledger[c]) = 0
  OBVIOUS
<1>5. LedgerRunsToTheBalance
  <2>1. Len(<<>>) = 0 /\ 1..0 = {} /\ Previous(<<>>, 0 + 1) = 0
    BY DEF Previous
  <2>2. RunsTo(<<>>, 0)
    BY <2>1 DEF RunsTo
  <2> QED BY <2>2 DEF LedgerRunsToTheBalance
<1>6. ReferenceIsAppliedOnce
  BY <1>4 DEF ReferenceIsAppliedOnce
<1> QED BY <1>1, <1>3, <1>5, <1>6 DEF IInv

(***************************************************************************)
(* Types.                                                                  *)
(***************************************************************************)
LEMMA TypesStep == IInv /\ [Next]_vars => TypeOK'
<1> SUFFICES ASSUME IInv, [Next]_vars PROVE TypeOK'
  OBVIOUS
<1> USE BillingInputs DEF IInv, TypeOK
<1>0. Rest \in RequestRecords
  BY DEF Rest, RequestRecords, InTransaction
<1>1. CASE UNCHANGED vars
  BY <1>1 DEF vars
<1>2. ASSUME NEW r \in Requests, NEW step \in {"rest", "check", "lock"} \cup InTransaction,
             Go(r, step)
      PROVE  req' \in [Requests -> RequestRecords]
  BY <1>2 DEF Go, RequestRecords
<1>3. ASSUME NEW r \in Requests, Answer(r)
      PROVE  req' \in [Requests -> RequestRecords]
  BY <1>0, <1>3 DEF Answer
<1>4. ASSUME NEW r \in Requests, Release(r)
      PROVE  holder' \in [Customers -> Requests \cup {NoRequest}]
  BY <1>4 DEF Release
<1>5. ASSUME NEW r \in Requests, NEW i \in Inputs, Submit(r, i) PROVE TypeOK'
  <2>1. [step |-> IF i.reference # NoReference THEN "check" ELSE "lock",
         input |-> i, read |-> 0] \in RequestRecords
    BY DEF RequestRecords
  <2> QED BY <1>5, <2>1 DEF Submit
<1>6. ASSUME NEW r \in Requests, Check(r) PROVE TypeOK'
  BY <1>2, <1>3, <1>6 DEF Check
<1>7. ASSUME NEW r \in Requests, LockBalance(r) PROVE TypeOK'
  <2>1. Holder(r) \in Customers
    BY <1>7 DEF LockBalance, LocksAreHeld, At, Input, Holder, InputRecords
  <2>2. balance[Holder(r)] \in 0..MaxCents
    BY <2>1
  <2>3. req' \in [Requests -> RequestRecords]
    BY <1>7, <2>2 DEF LockBalance, RequestRecords, InTransaction
  <2> QED BY <1>7, <2>3 DEF LockBalance
<1>8. ASSUME NEW r \in Requests, Lookup(r) PROVE TypeOK'
  BY <1>2, <1>3, <1>4, <1>8 DEF Lookup, InTransaction
<1>9. ASSUME NEW r \in Requests, Refuse(r) PROVE TypeOK'
  BY <1>3, <1>4, <1>9 DEF Refuse
<1>10. ASSUME NEW r \in Requests, Insert(r) PROVE TypeOK'
  BY <1>2, <1>3, <1>4, <1>10 DEF Insert, InTransaction
<1>11. ASSUME NEW r \in Requests, Commit(r) PROVE TypeOK'
  <2>1. /\ Input(r) \in Inputs
        /\ NewBalance(r) \in 0..MaxCents
    BY <1>11 DEF Commit, LocksAreHeld, KeysHold, At
  <2>2. [input |-> Input(r), after |-> NewBalance(r)] \in EntryRecords
    BY <2>1 DEF EntryRecords
  <2>3. ledger' \in [Customers -> Seq(EntryRecords)]
    <3>1. \A c \in Customers :
              Append(ledger[c], [input |-> Input(r), after |-> NewBalance(r)]) \in Seq(EntryRecords)
      BY <2>2
    <3> QED BY <1>11, <3>1 DEF Commit
  <2>4. balance' \in [Customers -> 0..MaxCents]
    BY <1>11, <2>1 DEF Commit
  <2>5. req' \in [Requests -> RequestRecords]
    BY <1>3, <1>11 DEF Commit
  <2>6. holder' \in [Customers -> Requests \cup {NoRequest}]
    BY <1>4, <1>11 DEF Commit
  <2> QED BY <2>3, <2>4, <2>5, <2>6
<1>12. ASSUME NEW r \in Requests, Throw(r) PROVE TypeOK'
  BY <1>3, <1>4, <1>12 DEF Throw
<1>13. ASSUME Restart PROVE TypeOK'
  BY <1>0, <1>13 DEF Restart
<1> QED BY <1>1, <1>5, <1>6, <1>7, <1>8, <1>9, <1>10, <1>11, <1>12, <1>13 DEF Next, Progress

(***************************************************************************)
(* What a step does to the others.                                         *)
(***************************************************************************)
\* A step of a request leaves the other requests alone.
LEMMA StepsAreOnesOwn ==
    ASSUME TypeOK, NEW r \in Requests, Progress(r) \/ Throw(r) \/ (\E i \in Inputs : Submit(r, i))
    PROVE  \A q \in Requests : q # r => req'[q] = req[q]
<1> USE DEF TypeOK, Go, Answer
<1>1. CASE Check(r) BY <1>1 DEF Check
<1>2. CASE LockBalance(r) BY <1>2 DEF LockBalance
<1>3. CASE Lookup(r) BY <1>3 DEF Lookup
<1>4. CASE Refuse(r) BY <1>4 DEF Refuse
<1>5. CASE Insert(r) BY <1>5 DEF Insert
<1>6. CASE Commit(r) BY <1>6 DEF Commit
<1>7. CASE Throw(r) BY <1>7 DEF Throw
<1>8. CASE \E i \in Inputs : Submit(r, i) BY <1>8 DEF Submit
<1> QED BY <1>1, <1>2, <1>3, <1>4, <1>5, <1>6, <1>7, <1>8 DEF Progress

\* Two transactions are never inside for one customer.
LEMMA OneInside ==
    ASSUME LocksAreHeld, NEW r \in Requests, NEW q \in Requests, Inside(r), Inside(q),
           Holder(r) = Holder(q)
    PROVE  r = q
BY DEF LocksAreHeld

LEMMA LocksStep == IInv /\ [Next]_vars => LocksAreHeld'
<1> SUFFICES ASSUME IInv, [Next]_vars, NEW q \in Requests
             PROVE  /\ ~At(q, "rest")' => Input(q)' \in Inputs
                    /\ Inside(q)' => holder'[Holder(q)'] = q
  BY DEF LocksAreHeld
<1> DEFINE Goal == /\ ~At(q, "rest")' => Input(q)' \in Inputs
                   /\ Inside(q)' => holder'[Holder(q)'] = q
<1> HIDE DEF Goal
<1>0. /\ req \in [Requests -> RequestRecords]
      /\ holder \in [Customers -> Requests \cup {NoRequest}]
      /\ ~At(q, "rest") => Input(q) \in Inputs
      /\ Inside(q) => holder[Holder(q)] = q
  BY DEF IInv, TypeOK, LocksAreHeld
<1>1. ASSUME req'[q] = req[q], UNCHANGED holder PROVE Goal
  BY <1>0, <1>1 DEF Goal, At, Inside, Input, Holder
<1>2. ASSUME req'[q] = Rest PROVE Goal
  BY <1>2 DEF Goal, At, Inside, Rest, InTransaction
<1>3. ASSUME NEW r \in Requests, q # r, req'[q] = req[q], Inside(r), Release(r) PROVE Goal
  <2>1. Inside(q) => Holder(q) # Holder(r)
    BY <1>3, OneInside DEF IInv
  <2>2. Inside(q) => Holder(q) \in Customers
    BY <1>0, BillingInputs DEF Inside, At, InTransaction, Holder, InputRecords
  <2>3. Inside(q) => holder'[Holder(q)] = q
    BY <1>0, <1>3, <2>1, <2>2 DEF Release
  <2> QED BY <1>0, <1>3, <2>3 DEF Goal, At, Inside, Input, Holder
<1>4. ASSUME UNCHANGED vars PROVE Goal
  BY <1>1, <1>4 DEF vars
<1>5. ASSUME NEW r \in Requests, NEW i \in Inputs, Submit(r, i) PROVE Goal
  <2>1. CASE q # r
    BY <1>1, <1>5, <2>1, StepsAreOnesOwn DEF IInv, Submit
  <2>2. CASE q = r
    <3>1. req'[q].input = i /\ req'[q].step \in {"check", "lock"}
      BY <1>0, <1>5, <2>2 DEF Submit
    <3> QED BY <3>1 DEF Goal, Input, Inside, InTransaction
  <2> QED BY <2>1, <2>2
<1>6. ASSUME NEW r \in Requests, Check(r) PROVE Goal
  <2>1. CASE q # r
    BY <1>1, <1>6, <2>1, StepsAreOnesOwn DEF IInv, Check, Progress
  <2>2. CASE q = r
    <3>1. CASE Answer(r) BY <1>0, <1>2, <2>2, <3>1 DEF Answer
    <3>2. CASE Go(r, "lock")
      <4>1. req'[q].input = req[q].input /\ req'[q].step = "lock"
        BY <1>0, <2>2, <3>2 DEF Go
      <4>2. Input(q) \in Inputs
        BY <1>0, <1>6, <2>2 DEF Check, At
      <4> QED BY <4>1, <4>2 DEF Goal, Input, Inside, InTransaction
    <3> QED BY <1>6, <3>1, <3>2 DEF Check
  <2> QED BY <2>1, <2>2
<1>7. ASSUME NEW r \in Requests, LockBalance(r) PROVE Goal
  <2>1. Input(r) \in Inputs /\ Holder(r) \in Customers
    BY <1>7, BillingInputs DEF IInv, LockBalance, LocksAreHeld, At, Holder, InputRecords
  <2>2. CASE q # r
    <3>1. req'[q] = req[q]
      BY <1>7, <2>2, StepsAreOnesOwn DEF IInv, Progress
    <3>2. Inside(q) => Holder(q) # Holder(r)
      BY <1>0, <1>7, BillingInputs DEF LockBalance
    <3>3. Inside(q) => Holder(q) \in Customers
      BY <1>0, BillingInputs DEF Inside, At, InTransaction, Holder, InputRecords
    <3>4. Inside(q) => holder'[Holder(q)] = q
      BY <1>0, <1>7, <3>2, <3>3 DEF LockBalance
    <3> QED BY <1>0, <3>1, <3>4 DEF Goal, At, Inside, Input, Holder
  <2>3. CASE q = r
    <3>1. req'[q].input = Input(r)
      BY <1>0, <1>7, <2>3 DEF LockBalance, Input
    <3>2. holder'[Holder(r)] = r
      BY <1>0, <1>7, <2>1 DEF LockBalance
    <3> QED BY <2>1, <2>3, <3>1, <3>2 DEF Goal, Input, Holder
  <2> QED BY <2>2, <2>3
<1>8. ASSUME NEW r \in Requests, Inside(r), Answer(r), Release(r),
             Progress(r) \/ Throw(r)
      PROVE  Goal
  <2>1. CASE q # r
    BY <1>3, <1>8, <2>1, StepsAreOnesOwn DEF IInv
  <2>2. CASE q = r
    BY <1>0, <1>2, <1>8, <2>2 DEF Answer
  <2> QED BY <2>1, <2>2
<1>9. ASSUME NEW r \in Requests, NEW step \in InTransaction, Inside(r), Go(r, step),
             Progress(r), UNCHANGED holder
      PROVE  Goal
  <2>1. CASE q # r
    BY <1>1, <1>9, <2>1, StepsAreOnesOwn DEF IInv
  <2>2. CASE q = r
    <3>1. req'[q].input = req[q].input /\ req'[q].step = step
      BY <1>0, <1>9, <2>2 DEF Go
    <3>2. Input(q) \in Inputs /\ holder[Holder(q)] = q
      BY <1>0, <1>9, <2>2 DEF Inside, At, InTransaction
    <3> QED BY <1>9, <3>1, <3>2 DEF Goal, Input, Holder
  <2> QED BY <2>1, <2>2
<1>10. ASSUME NEW r \in Requests, Lookup(r) PROVE Goal
  <2>1. Inside(r)
    BY <1>10 DEF Lookup, At, Inside, InTransaction
  <2> QED BY <1>8, <1>9, <1>10, <2>1 DEF Lookup, Progress, InTransaction
<1>11. ASSUME NEW r \in Requests, Refuse(r) PROVE Goal
  <2>1. Inside(r)
    BY <1>11 DEF Refuse, At, Inside, InTransaction
  <2> QED BY <1>8, <1>11, <2>1 DEF Refuse, Progress
<1>12. ASSUME NEW r \in Requests, Insert(r) PROVE Goal
  <2>1. Inside(r)
    BY <1>12 DEF Insert, At, Inside, InTransaction
  <2> QED BY <1>8, <1>9, <1>12, <2>1 DEF Insert, Progress, InTransaction
<1>13. ASSUME NEW r \in Requests, Commit(r) PROVE Goal
  <2>1. Inside(r)
    BY <1>13 DEF Commit, At, Inside, InTransaction
  <2> QED BY <1>8, <1>13, <2>1 DEF Commit, Progress
<1>14. ASSUME NEW r \in Requests, Throw(r) PROVE Goal
  <2>1. CASE Inside(r)
    BY <1>8, <1>14, <2>1 DEF Throw, Inside
  <2>2. CASE ~Inside(r)
    <3>1. CASE q # r
      BY <1>1, <1>14, <2>2, <3>1, StepsAreOnesOwn DEF IInv, Throw, Inside
    <3>2. CASE q = r
      BY <1>0, <1>2, <1>14, <3>2 DEF Throw, Answer
    <3> QED BY <3>1, <3>2
  <2> QED BY <2>1, <2>2
<1>15. ASSUME Restart PROVE Goal
  BY <1>2, <1>15 DEF Restart
<1>16. Goal
  BY <1>4, <1>5, <1>6, <1>7, <1>10, <1>11, <1>12, <1>13, <1>14, <1>15 DEF Next, Progress
<1> QED BY <1>16 DEF Goal

(***************************************************************************)
(* What a transaction has read stays true.                                 *)
(***************************************************************************)
LEMMA OnlyCommitsWrite ==
    ASSUME [Next]_vars, ~\E r \in Requests : Commit(r)
    PROVE  UNCHANGED <<ledger, balance>>
BY DEF Next, Progress, vars, Submit, Check, LockBalance, Lookup, Refuse, Insert, Throw, Restart

\* A commit writes for one customer.
LEMMA CommitsAppend ==
    ASSUME IInv, NEW r \in Requests, Commit(r)
    PROVE  /\ Inside(r) /\ Input(r) \in Inputs /\ Holder(r) \in Customers
           /\ NewBalance(r) \in 0..MaxCents
           /\ ledger[Holder(r)] \in Seq(EntryRecords)
           /\ ledger'[Holder(r)] = Append(ledger[Holder(r)],
                                         [input |-> Input(r), after |-> NewBalance(r)])
           /\ balance'[Holder(r)] = NewBalance(r)
           /\ \A c \in Customers : c # Holder(r) =>
                  ledger'[c] = ledger[c] /\ balance'[c] = balance[c]
           /\ req'[r] = Rest
           /\ \A q \in Requests : q # r => req'[q] = req[q]
<1>1. Inside(r) /\ At(r, "commit")
  BY DEF Commit, Inside, InTransaction, At
<1>2. Input(r) \in Inputs
  BY <1>1 DEF IInv, LocksAreHeld, At
<1>3. Holder(r) \in Customers
  BY <1>2, BillingInputs DEF Holder, InputRecords
<1>4. NewBalance(r) \in 0..MaxCents
  BY <1>1 DEF IInv, KeysHold
<1>5. /\ ledger \in [Customers -> Seq(EntryRecords)]
      /\ balance \in [Customers -> 0..MaxCents]
      /\ req \in [Requests -> RequestRecords]
  BY DEF IInv, TypeOK
<1>6. /\ ledger' = [ledger EXCEPT ![Holder(r)] =
             Append(@, [input |-> Input(r), after |-> NewBalance(r)])]
      /\ balance' = [balance EXCEPT ![Holder(r)] = NewBalance(r)]
      /\ req' = [req EXCEPT ![r] = Rest]
  BY DEF Commit, Answer
<1>7. /\ ledger'[Holder(r)] = Append(ledger[Holder(r)],
                                    [input |-> Input(r), after |-> NewBalance(r)])
      /\ balance'[Holder(r)] = NewBalance(r)
  BY <1>3, <1>5, <1>6
<1>8. \A c \in Customers : c # Holder(r) => ledger'[c] = ledger[c] /\ balance'[c] = balance[c]
  BY <1>5, <1>6
<1>9. req'[r] = Rest /\ \A q \in Requests : q # r => req'[q] = req[q]
  BY <1>5, <1>6
<1> QED BY <1>1, <1>2, <1>3, <1>4, <1>5, <1>7, <1>8, <1>9

\* Nothing is said of a request at rest, or of one before its lock.
Outside(r) == req[r].step \in {"rest", "check", "lock"}

LEMMA ReadsStep == IInv /\ [Next]_vars => ReadsHold'
<1> SUFFICES ASSUME IInv, [Next]_vars, NEW q \in Requests
             PROVE  /\ Inside(q)' => req'[q].read = balance'[Holder(q)']
                    /\ req'[q].step \in {"insert", "commit"} =>
                          \A k \in 1..Len(ledger'[Holder(q)']) :
                              ~Matches(Input(q)', ledger'[Holder(q)'][k].input)
  BY DEF ReadsHold
<1> DEFINE Goal == /\ Inside(q)' => req'[q].read = balance'[Holder(q)']
                   /\ req'[q].step \in {"insert", "commit"} =>
                         \A k \in 1..Len(ledger'[Holder(q)']) :
                             ~Matches(Input(q)', ledger'[Holder(q)'][k].input)
<1> HIDE DEF Goal
<1>0. /\ Inside(q) => req[q].read = balance[Holder(q)] /\ Input(q) \in Inputs
                       /\ Holder(q) \in Customers
      /\ req[q].step \in {"insert", "commit"} =>
            \A k \in 1..Len(ledger[Holder(q)]) :
                ~Matches(Input(q), ledger[Holder(q)][k].input)
      /\ req \in [Requests -> RequestRecords]
  BY BillingInputs
  DEF IInv, TypeOK, ReadsHold, LocksAreHeld, Inside, InTransaction, At, Holder, InputRecords
<1>1. ASSUME req'[q] = req[q], UNCHANGED <<ledger, balance>> PROVE Goal
  BY <1>0, <1>1 DEF Goal, Inside, Input, Holder, Matches
<1>2. ASSUME req'[q].step \in {"rest", "check", "lock"} PROVE Goal
  BY <1>2 DEF Goal, Inside, InTransaction
<1>3. ASSUME Answer(q) PROVE Goal
  <2>1. req'[q].step = "rest"
    BY <1>0, <1>3 DEF Answer, Rest
  <2> QED BY <1>2, <2>1
<1>4. ASSUME UNCHANGED vars PROVE Goal
  BY <1>1, <1>4 DEF vars
<1>5. ASSUME NEW r \in Requests, Commit(r) PROVE Goal
  <2>1. CASE q = r
    <3>1. req'[q] = Rest /\ Rest.step = "rest"
      BY <1>5, <2>1, CommitsAppend DEF Rest
    <3> QED BY <1>2, <3>1
  <2>2. CASE q # r
    <3>1. req'[q] = req[q]
      BY <1>5, <2>2, CommitsAppend
    <3>2. Inside(q) => Holder(q) # Holder(r)
      BY <1>5, <2>2, CommitsAppend, OneInside DEF IInv
    <3>3. Inside(q) => /\ ledger'[Holder(q)] = ledger[Holder(q)]
                       /\ balance'[Holder(q)] = balance[Holder(q)]
      BY <1>0, <1>5, <3>2, CommitsAppend
    <3>4. req[q].step \in {"insert", "commit"} => Inside(q)
      BY DEF Inside, InTransaction
    <3> QED BY <1>0, <3>1, <3>3, <3>4 DEF Goal, Inside, Input, Holder, Matches
  <2> QED BY <2>1, <2>2
<1>6. ASSUME NEW r \in Requests, q # r, UNCHANGED <<ledger, balance>>,
             Progress(r) \/ Throw(r) \/ \E i \in Inputs : Submit(r, i)
      PROVE  Goal
  BY <1>1, <1>6, StepsAreOnesOwn DEF IInv
<1>7. ASSUME NEW i \in Inputs, Submit(q, i) PROVE Goal
  BY <1>0, <1>2, <1>7 DEF Submit
<1>8. ASSUME Check(q) PROVE Goal
  <2>1. ASSUME Go(q, "lock") PROVE Goal
    <3>1. req'[q].step = "lock"
      BY <1>0, <2>1 DEF Go
    <3> QED BY <1>2, <3>1
  <2> QED BY <1>3, <1>8, <2>1 DEF Check
<1>9. ASSUME LockBalance(q) PROVE Goal
  <2>1. /\ req'[q].input = req[q].input
        /\ req'[q].read = balance[Holder(q)]
        /\ req'[q].step \in {"insert", "commit"} => Input(q).reference = NoReference
        /\ UNCHANGED balance
    BY <1>0, <1>9 DEF LockBalance, Input, Holder
  <2> QED BY <2>1 DEF Goal, Input, Holder, Matches
<1>10. ASSUME Lookup(q) PROVE Goal
  <2>1. Inside(q) /\ UNCHANGED <<ledger, balance>>
    BY <1>10 DEF Lookup, At, Inside, InTransaction
  <2>2. CASE ~Found(Input(q)) /\ Go(q, "insert")
    <3>1. req'[q].input = req[q].input /\ req'[q].read = req[q].read
      BY <1>0, <2>2 DEF Go
    <3>2. \A k \in 1..Len(ledger[Holder(q)]) :
              ~Matches(Input(q), ledger[Holder(q)][k].input)
      BY <1>0, <2>1, <2>2 DEF Found
    <3> QED BY <1>0, <2>1, <3>1, <3>2 DEF Goal, Input, Holder, Matches
  <2> QED BY <1>3, <1>10, <2>2 DEF Lookup
<1>11. ASSUME Refuse(q) PROVE Goal
  BY <1>3, <1>11 DEF Refuse
<1>12. ASSUME Insert(q) PROVE Goal
  <2>1. Inside(q) /\ At(q, "insert") /\ UNCHANGED <<ledger, balance>>
    BY <1>12 DEF Insert, At, Inside, InTransaction
  <2>2. CASE Go(q, "commit")
    <3>1. req'[q].input = req[q].input /\ req'[q].read = req[q].read
      BY <1>0, <2>2 DEF Go
    <3>2. \A k \in 1..Len(ledger[Holder(q)]) :
              ~Matches(Input(q), ledger[Holder(q)][k].input)
      BY <1>0, <2>1 DEF At
    <3> QED BY <1>0, <2>1, <3>1, <3>2 DEF Goal, Input, Holder, Matches
  <2> QED BY <1>3, <1>12, <2>2 DEF Insert
<1>13. ASSUME Throw(q) PROVE Goal
  BY <1>3, <1>13 DEF Throw
<1>14. ASSUME Restart PROVE Goal
  BY <1>2, <1>14 DEF Restart, Rest
<1>15. ASSUME \E r \in Requests : Commit(r) PROVE Goal
  BY <1>5, <1>15
<1>16. ASSUME ~\E r \in Requests : Commit(r) PROVE Goal
  <2>1. UNCHANGED <<ledger, balance>>
    BY <1>16, OnlyCommitsWrite
  <2>2. ASSUME NEW r \in Requests,
               Progress(r) \/ Throw(r) \/ \E i \in Inputs : Submit(r, i)
        PROVE  Goal
    <3>1. CASE q # r
      BY <1>6, <2>1, <2>2, <3>1
    <3>2. CASE q = r
      BY <1>7, <1>8, <1>9, <1>10, <1>11, <1>12, <1>13, <1>16, <2>2, <3>2 DEF Progress
    <3> QED BY <3>1, <3>2
  <2> QED BY <1>4, <1>14, <2>2 DEF Next
<1> QED BY <1>15, <1>16 DEF Goal

(***************************************************************************)
(* The key of a transaction that is about to commit.                       *)
(***************************************************************************)
LEMMA KeysAreSymmetric ==
    ASSUME NEW i, NEW j PROVE SameKey(i, j) <=> SameKey(j, i)
BY DEF SameKey

LEMMA KeysStep == IInv /\ [Next]_vars => KeysHold'
<1> SUFFICES ASSUME IInv, [Next]_vars, NEW q \in Requests, At(q, "commit")'
             PROVE  /\ NewBalance(q)' \in 0..MaxCents
                    /\ ~KeyTaken(Input(q))'
                    /\ \A p \in Requests : p # q /\ At(p, "commit")' =>
                          ~SameKey(Input(q)', Input(p)')
  BY DEF KeysHold
<1> DEFINE Goal == /\ NewBalance(q)' \in 0..MaxCents
                   /\ ~KeyTaken(Input(q))'
                   /\ \A p \in Requests : p # q /\ At(p, "commit")' =>
                         ~SameKey(Input(q)', Input(p)')
<1> HIDE DEF Goal
<1>0. /\ req \in [Requests -> RequestRecords]
      /\ \A p \in Requests : At(p, "commit") =>
            /\ NewBalance(p) \in 0..MaxCents
            /\ ~KeyTaken(Input(p))
            /\ \A o \in Requests : o # p /\ At(o, "commit") => ~SameKey(Input(p), Input(o))
  BY DEF IInv, TypeOK, KeysHold
<1>1. ASSUME UNCHANGED vars PROVE Goal
  BY <1>0, <1>1 DEF Goal, vars, At, NewBalance, Input, KeyTaken
<1>2. ASSUME Restart PROVE Goal
  BY <1>2 DEF Restart, Rest, At
\* Whoever is about to commit after a step was so before, but for an insert.
<1>3. ASSUME NEW r \in Requests, NEW p \in Requests, At(p, "commit")', ~Insert(r),
             Progress(r) \/ Throw(r) \/ \E i \in Inputs : Submit(r, i)
      PROVE  At(p, "commit") /\ req'[p] = req[p] /\ p # r
  <2>1. p # r
    <3>1. Answer(r) => req'[r].step = "rest"
      BY <1>0 DEF Answer, Rest
    <3>2. ASSUME NEW step, Go(r, step) PROVE req'[r].step = step
      BY <1>0, <3>2 DEF Go
    <3>3. LockBalance(r) => req'[r].step # "commit"
      BY <1>0 DEF LockBalance
    <3>4. (\E i \in Inputs : Submit(r, i)) => req'[r].step # "commit"
      BY <1>0 DEF Submit
    <3>5. Check(r) => req'[r].step # "commit"
      BY <3>1, <3>2 DEF Check
    <3>6. Lookup(r) => req'[r].step # "commit"
      BY <3>1, <3>2 DEF Lookup
    <3>7. Refuse(r) \/ Commit(r) \/ Throw(r) => req'[r].step # "commit"
      BY <3>1 DEF Refuse, Commit, Throw
    <3>8. req'[r].step # "commit"
      BY <1>3, <3>3, <3>4, <3>5, <3>6, <3>7 DEF Progress
    <3> QED BY <1>3, <3>8 DEF At
  <2>2. req'[p] = req[p]
    BY <1>3, <2>1, StepsAreOnesOwn DEF IInv
  <2> QED BY <1>3, <2>1, <2>2 DEF At
<1>4. ASSUME NEW r \in Requests, Commit(r) PROVE Goal
  <2>1. ~Insert(r)
    BY <1>4 DEF Commit, Insert, At
  <2>2. \A p \in Requests : At(p, "commit")' => At(p, "commit") /\ req'[p] = req[p] /\ p # r
    BY <1>3, <1>4, <2>1 DEF Progress
  <2>3. At(q, "commit") /\ req'[q] = req[q] /\ q # r
    BY <2>2
  <2>4. NewBalance(q)' \in 0..MaxCents
    BY <1>0, <2>3 DEF NewBalance, Input
  <2>5. ~SameKey(Input(q), Input(r))
    BY <1>0, <1>4, <2>3 DEF Commit
  <2>6. ASSUME NEW c \in Customers, NEW k \in 1..Len(ledger'[c])
        PROVE  ~SameKey(Input(q), ledger'[c][k].input)
    <3>0. ~KeyTaken(Input(q))
      BY <1>0, <2>3
    <3>1. ASSUME c # Holder(r) PROVE ~SameKey(Input(q), ledger'[c][k].input)
      <4>1. ledger'[c] = ledger[c]
        BY <1>4, <3>1, CommitsAppend
      <4> QED BY <2>6, <3>0, <4>1 DEF KeyTaken
    <3>2. ASSUME c = Holder(r) PROVE ~SameKey(Input(q), ledger'[c][k].input)
      <4> DEFINE e == [input |-> Input(r), after |-> NewBalance(r)]
      <4>1. ledger[c] \in Seq(EntryRecords) /\ ledger'[c] = Append(ledger[c], e)
        BY <1>4, <3>2, CommitsAppend
      <4>2. e.input = Input(r)
        OBVIOUS
      <4> HIDE DEF e
      <4>3. \/ k \in 1..Len(ledger[c]) /\ ledger'[c][k] = ledger[c][k]
            \/ ledger'[c][k] = e
        BY <2>6, <4>1
      <4> QED BY <2>5, <3>0, <4>2, <4>3 DEF KeyTaken
    <3> QED BY <3>1, <3>2
  <2>7. ~KeyTaken(Input(q))'
    BY <2>3, <2>6 DEF KeyTaken, Input
  <2>8. \A p \in Requests : p # q /\ At(p, "commit")' => ~SameKey(Input(q)', Input(p)')
    BY <1>0, <2>2, <2>3 DEF Input
  <2> QED BY <2>4, <2>7, <2>8 DEF Goal
<1>5. ASSUME NEW r \in Requests, ~Insert(r), ~Commit(r), UNCHANGED <<ledger, balance>>,
             Progress(r) \/ Throw(r) \/ \E i \in Inputs : Submit(r, i)
      PROVE  Goal
  <2>1. \A p \in Requests : At(p, "commit")' => At(p, "commit") /\ req'[p] = req[p]
    BY <1>3, <1>5
  <2>2. At(q, "commit") /\ req'[q] = req[q]
    BY <2>1
  <2>3. NewBalance(q)' \in 0..MaxCents /\ ~KeyTaken(Input(q))'
    BY <1>0, <1>5, <2>2 DEF NewBalance, Input, KeyTaken
  <2>4. \A p \in Requests : p # q /\ At(p, "commit")' => ~SameKey(Input(q)', Input(p)')
    BY <1>0, <2>1, <2>2 DEF Input
  <2> QED BY <2>3, <2>4 DEF Goal
<1>6. ASSUME NEW r \in Requests, Insert(r) PROVE Goal
  <2>1. /\ UNCHANGED <<ledger, balance>>
        /\ \A p \in Requests : p # r => req'[p] = req[p]
        /\ \A p \in Requests : p # r => (At(p, "commit")' <=> At(p, "commit"))
    <3>1. \A p \in Requests : p # r => req'[p] = req[p]
      BY <1>6, StepsAreOnesOwn DEF IInv, Progress
    <3> QED BY <1>6, <3>1 DEF Insert, At
  <2>2. CASE Answer(r)
    <3>1. ~At(r, "commit")'
      BY <1>0, <2>2 DEF Answer, Rest, At
    <3>2. At(q, "commit") /\ req'[q] = req[q] /\ q # r
      BY <2>1, <3>1
    <3>3. NewBalance(q)' \in 0..MaxCents /\ ~KeyTaken(Input(q))'
      BY <1>0, <2>1, <3>2 DEF NewBalance, Input, KeyTaken
    <3>4. \A p \in Requests : p # q /\ At(p, "commit")' => ~SameKey(Input(q)', Input(p)')
      BY <1>0, <2>1, <3>1, <3>2 DEF Input
    <3> QED BY <3>3, <3>4 DEF Goal
  <2>3. CASE ~Answer(r)
    <3>1. /\ Go(r, "commit")
          /\ ~KeyTaken(Input(r))
          /\ NewBalance(r) >= 0 /\ ~(NewBalance(r) > MaxCents)
          /\ \A p \in Requests : At(p, "commit") => ~SameKey(Input(r), Input(p))
      BY <1>6, <2>3 DEF Insert
    <3>2. req'[r].input = req[r].input /\ req'[r].read = req[r].read
      BY <1>0, <3>1 DEF Go
    <3>3. NewBalance(r) \in Int
      <4>1. Input(r) \in Inputs
        BY <1>6 DEF Insert, IInv, LocksAreHeld, At
      <4>2. req[r].read \in Int
        BY <1>0, BillingInputs DEF RequestRecords
      <4> QED BY <4>1, <4>2, DeltaIsInt DEF NewBalance
    <3>4. NewBalance(r) \in 0..MaxCents
      BY <3>1, <3>3, BillingInputs
    <3>5. ASSUME q = r PROVE Goal
      <4>1. NewBalance(q)' \in 0..MaxCents
        BY <3>2, <3>4, <3>5 DEF NewBalance, Input
      <4>2. ~KeyTaken(Input(q))'
        BY <2>1, <3>1, <3>2, <3>5 DEF KeyTaken, Input
      <4>3. \A p \in Requests : p # q /\ At(p, "commit")' => ~SameKey(Input(q)', Input(p)')
        BY <2>1, <3>1, <3>2, <3>5 DEF Input
      <4> QED BY <4>1, <4>2, <4>3 DEF Goal
    <3>6. ASSUME q # r PROVE Goal
      <4>0. At(q, "commit") /\ req'[q] = req[q]
        BY <2>1, <3>6
      <4>1. NewBalance(q)' \in 0..MaxCents /\ ~KeyTaken(Input(q))'
        BY <1>0, <2>1, <4>0 DEF NewBalance, Input, KeyTaken
      <4>2. ~SameKey(Input(q), Input(r))
        BY <3>1, <4>0, KeysAreSymmetric
      <4>3. ASSUME NEW p \in Requests, p # q, At(p, "commit")'
            PROVE  ~SameKey(Input(q)', Input(p)')
        <5>1. CASE p = r BY <3>2, <4>0, <4>2, <5>1 DEF Input
        <5>2. CASE p # r BY <1>0, <2>1, <4>0, <4>3, <5>2 DEF Input
        <5> QED BY <5>1, <5>2
      <4> QED BY <4>1, <4>3 DEF Goal
    <3> QED BY <3>5, <3>6
  <2> QED BY <2>2, <2>3
<1>7. Goal
  <2>1. CASE \E r \in Requests : Commit(r)
    BY <1>4, <2>1
  <2>2. CASE ~\E r \in Requests : Commit(r)
    <3>1. UNCHANGED <<ledger, balance>>
      BY <2>2, OnlyCommitsWrite
    <3> QED BY <1>1, <1>2, <1>5, <1>6, <2>2, <3>1 DEF Next
  <2> QED BY <2>1, <2>2
<1> QED BY <1>7 DEF Goal

(***************************************************************************)
(* The ledger.                                                             *)
(***************************************************************************)
LEMMA AppendRuns ==
    ASSUME NEW s \in Seq(EntryRecords), NEW b, RunsTo(s, b),
           NEW i, b + Delta(i) \in 0..MaxCents
    PROVE  RunsTo(Append(s, [input |-> i, after |-> b + Delta(i)]), b + Delta(i))
<1> DEFINE e == [input |-> i, after |-> b + Delta(i)]
           t == Append(s, e)
           n == Len(s)
<1>1. e.input = i /\ e.after = b + Delta(i)
  OBVIOUS
<1> HIDE DEF e
<1>2. /\ n \in Nat /\ Len(t) = n + 1
      /\ t[n + 1] = e
      /\ \A k \in 1..n : t[k] = s[k]
  OBVIOUS
<1> HIDE DEF n, t
<1>3. \A k \in 1..(n + 1) : Previous(t, k) = Previous(s, k)
  <2> SUFFICES ASSUME NEW k \in 1..(n + 1) PROVE Previous(t, k) = Previous(s, k)
    OBVIOUS
  <2>1. k # 1 => k - 1 \in 1..n
    BY <1>2
  <2> QED BY <1>2, <2>1 DEF Previous
<1>4. /\ \A k \in 1..n : s[k].after = Previous(s, k) + Delta(s[k].input) /\ s[k].after \in 0..MaxCents
      /\ b = Previous(s, n + 1)
  BY DEF RunsTo, n
<1>5. ASSUME NEW k \in 1..(n + 1)
      PROVE  t[k].after = Previous(t, k) + Delta(t[k].input) /\ t[k].after \in 0..MaxCents
  <2>1. CASE k = n + 1
    <3>1. t[k] = e /\ Previous(t, k) = b
      BY <1>2, <1>3, <1>4, <2>1
    <3> QED BY <1>1, <3>1
  <2>2. CASE k # n + 1
    <3>1. k \in 1..n
      BY <1>2, <2>2
    <3>2. t[k] = s[k] /\ Previous(t, k) = Previous(s, k)
      BY <1>2, <1>3, <3>1
    <3> QED BY <1>4, <3>1, <3>2
  <2> QED BY <2>1, <2>2
<1>6. Previous(t, n + 2) = t[n + 1].after
  <2>1. n + 2 # 1 /\ (n + 2) - 1 = n + 1
    BY <1>2
  <2> QED BY <2>1 DEF Previous
<1>7. Len(t) = n + 1 /\ Len(t) + 1 = n + 2 /\ t[n + 1].after = b + Delta(i)
  BY <1>1, <1>2
<1>8. RunsTo(t, b + Delta(i))
  BY <1>5, <1>6, <1>7 DEF RunsTo
<1> QED BY <1>8 DEF t, e

LEMMA LedgerStep == IInv /\ [Next]_vars => LedgerRunsToTheBalance'
<1> SUFFICES ASSUME IInv, [Next]_vars, NEW c \in Customers
             PROVE  RunsTo(ledger'[c], balance'[c])
  BY DEF LedgerRunsToTheBalance, RunsTo, Previous, Delta, Direction
<1>0. RunsTo(ledger[c], balance[c])
  BY DEF IInv, LedgerRunsToTheBalance
<1>1. ASSUME NEW r \in Requests, Commit(r) PROVE RunsTo(ledger'[c], balance'[c])
  <2>1. ASSUME c # Holder(r) PROVE RunsTo(ledger'[c], balance'[c])
    BY <1>0, <1>1, <2>1, CommitsAppend
  <2>2. ASSUME c = Holder(r) PROVE RunsTo(ledger'[c], balance'[c])
    <3>1. req[r].read = balance[c]
      BY <1>1, <2>2, CommitsAppend DEF IInv, ReadsHold
    <3>2. NewBalance(r) = balance[c] + Delta(Input(r))
      BY <3>1 DEF NewBalance
    <3>3. /\ ledger[c] \in Seq(EntryRecords)
          /\ ledger'[c] = Append(ledger[c],
                                [input |-> Input(r), after |-> balance[c] + Delta(Input(r))])
          /\ balance'[c] = balance[c] + Delta(Input(r))
          /\ balance[c] + Delta(Input(r)) \in 0..MaxCents
      BY <1>1, <2>2, <3>2, CommitsAppend
    <3> QED BY <1>0, <3>3, AppendRuns
  <2> QED BY <2>1, <2>2
<1>2. ASSUME ~\E r \in Requests : Commit(r) PROVE RunsTo(ledger'[c], balance'[c])
  BY <1>0, <1>2, OnlyCommitsWrite
<1> QED BY <1>1, <1>2

LEMMA ReferencesStep == IInv /\ [Next]_vars => ReferenceIsAppliedOnce'
<1> SUFFICES ASSUME IInv, [Next]_vars PROVE ReferenceIsAppliedOnce'
  OBVIOUS
<1>1. ReferenceIsAppliedOnce
  BY DEF IInv
<1>2. ASSUME ~\E r \in Requests : Commit(r) PROVE ReferenceIsAppliedOnce'
  BY <1>1, <1>2, OnlyCommitsWrite DEF ReferenceIsAppliedOnce, Matches, SameKey
<1>3. ASSUME NEW r \in Requests, Commit(r) PROVE ReferenceIsAppliedOnce'
  <2> DEFINE h == Holder(r)
             e == [input |-> Input(r), after |-> NewBalance(r)]
             n == Len(ledger[h])
  <2>1. /\ h \in Customers
        /\ ledger[h] \in Seq(EntryRecords)
        /\ ledger'[h] = Append(ledger[h], e)
        /\ \A c \in Customers : c # h => ledger'[c] = ledger[c]
    BY <1>3, CommitsAppend
  <2>2. e.input = Input(r)
    OBVIOUS
  <2>3. \A k \in 1..n : ~Matches(Input(r), ledger[h][k].input)
    BY <1>3 DEF IInv, ReadsHold, Commit, At
  <2>4. \A c \in Customers : \A k \in 1..Len(ledger[c]) : ~SameKey(Input(r), ledger[c][k].input)
    BY <1>3 DEF IInv, KeysHold, KeyTaken, Commit
  <2> HIDE DEF h, e
  <2>5. /\ n \in Nat /\ Len(ledger'[h]) = n + 1
        /\ ledger'[h][n + 1] = e
        /\ \A k \in 1..n : ledger'[h][k] = ledger[h][k]
    BY <2>1
  <2> HIDE DEF n
  \* An entry after the step is one before it, or the new one.
  <2>6. ASSUME NEW c \in Customers, NEW k \in 1..Len(ledger'[c])
        PROVE  \/ k \in 1..Len(ledger[c]) /\ ledger'[c][k] = ledger[c][k]
               \/ c = h /\ k = n + 1 /\ ledger'[c][k] = e
    <3>1. CASE c # h BY <2>1, <2>6, <3>1
    <3>2. CASE c = h BY <2>5, <2>6, <3>2 DEF n
    <3> QED BY <3>1, <3>2
  <2>7. ASSUME NEW c \in Customers, NEW j \in 1..Len(ledger'[c]), NEW k \in 1..Len(ledger'[c]),
               j < k
        PROVE  ~Matches(ledger'[c][k].input, ledger'[c][j].input)
    <3>1. CASE k \in 1..Len(ledger[c]) /\ ledger'[c][k] = ledger[c][k]
      <4>1. j \in 1..Len(ledger[c]) /\ ledger'[c][j] = ledger[c][j]
        <5>1. c = h => k \in 1..n
          BY <3>1 DEF n
        <5> QED BY <2>5, <2>6, <2>7, <5>1
      <4> QED BY <1>1, <2>7, <3>1, <4>1 DEF ReferenceIsAppliedOnce
    <3>2. CASE c = h /\ k = n + 1 /\ ledger'[c][k] = e
      <4>1. j \in 1..n /\ ledger'[c][j] = ledger[h][j]
        BY <2>5, <2>7, <3>2
      <4> QED BY <2>2, <2>3, <3>2, <4>1
    <3> QED BY <2>6, <3>1, <3>2
  <2>8. ASSUME NEW c \in Customers, NEW d \in Customers, c # d,
               NEW j \in 1..Len(ledger'[c]), NEW k \in 1..Len(ledger'[d])
        PROVE  ~SameKey(ledger'[c][j].input, ledger'[d][k].input)
    <3>1. CASE c = h /\ j = n + 1 /\ ledger'[c][j] = e
      <4>1. k \in 1..Len(ledger[d]) /\ ledger'[d][k] = ledger[d][k]
        BY <2>6, <2>8, <3>1
      <4> QED BY <2>2, <2>4, <3>1, <4>1
    <3>2. CASE j \in 1..Len(ledger[c]) /\ ledger'[c][j] = ledger[c][j]
      <4>1. CASE d = h /\ k = n + 1 /\ ledger'[d][k] = e
        <5>1. ~SameKey(Input(r), ledger[c][j].input)
          BY <2>4, <3>2
        <5> QED BY <2>2, <3>2, <4>1, <5>1, KeysAreSymmetric
      <4>2. CASE k \in 1..Len(ledger[d]) /\ ledger'[d][k] = ledger[d][k]
        BY <1>1, <2>8, <3>2, <4>2 DEF ReferenceIsAppliedOnce
      <4> QED BY <2>6, <4>1, <4>2
    <3> QED BY <2>6, <3>1, <3>2
  <2> QED BY <2>7, <2>8 DEF ReferenceIsAppliedOnce, Matches, SameKey
<1> QED BY <1>2, <1>3

-----------------------------------------------------------------------------
LEMMA IInvStep == IInv /\ [Next]_vars => IInv'
<1> SUFFICES ASSUME IInv, [Next]_vars PROVE IInv'
  OBVIOUS
<1>1. TypeOK' /\ LocksAreHeld' /\ ReadsHold' /\ KeysHold'
  BY TypesStep, LocksStep, ReadsStep, KeysStep
<1>2. LedgerRunsToTheBalance' /\ ReferenceIsAppliedOnce'
  BY LedgerStep, ReferencesStep
<1> QED BY <1>1, <1>2 DEF IInv

LEMMA IInvAlways == Spec => []IInv
BY IInvInit, IInvStep, PTL DEF Spec

\* Entries, balances, locks and requests have their types; a balance is never
\* negative nor larger than its column.
THEOREM LedgerTypes == Spec => []TypeOK
<1>1. IInv => TypeOK
  BY DEF IInv
<1> QED BY <1>1, IInvAlways, PTL

\* createAdjustmentWithLedger() keeps a running balance for each customer,
\* whatever is applied, retried, refused or interrupted at the same time.
THEOREM LedgerIsARunningBalance == Spec => []LedgerRunsToTheBalance
<1>1. IInv => LedgerRunsToTheBalance
  BY DEF IInv
<1> QED BY <1>1, IInvAlways, PTL

\* A retried or repeated adjustment is applied once: by the lock and the lookup
\* for one customer, by the unique index for two.
THEOREM ReferencesAreAppliedOnce == Spec => []ReferenceIsAppliedOnce
<1>1. IInv => ReferenceIsAppliedOnce
  BY DEF IInv
<1> QED BY <1>1, IInvAlways, PTL

-----------------------------------------------------------------------------
(***************************************************************************)
(* BillingLedger implements CreditAccounts: Commit applies an adjustment,  *)
(* every other step changes nothing.                                       *)
(***************************************************************************)
LEMMA AccountsInit == Init => Accounts!Init
<1> SUFFICES ASSUME Init PROVE Accounts!Init
  OBVIOUS
<1>1. \A c \in Customers : Len(ledger[c]) = 0
  BY DEF Init
<1>2. 1..0 = {}
  OBVIOUS
<1>3. \A c \in Customers : EntriesOf(c) = {}
  BY <1>1, <1>2 DEF EntriesOf
<1> QED BY <1>3 DEF Init, Accounts!Init

\* The entries of a ledger that grew by one.
LEMMA EntriesGrow ==
    ASSUME NEW c \in Customers, NEW e,
           ledger[c] \in Seq(EntryRecords), ledger'[c] = Append(ledger[c], e)
    PROVE  EntriesOf(c)' = EntriesOf(c) \cup {e.input}
<1> DEFINE n == Len(ledger[c])
<1>1. n \in Nat /\ 1..(n + 1) = (1..n) \cup {n + 1}
  OBVIOUS
<1>2. /\ Len(ledger'[c]) = n + 1
      /\ ledger'[c][n + 1] = e
      /\ \A k \in 1..n : ledger'[c][k] = ledger[c][k]
  OBVIOUS
<1>3. EntriesOf(c)' = {ledger'[c][k].input : k \in 1..(n + 1)}
  BY <1>2 DEF EntriesOf
<1>4. EntriesOf(c) = {ledger[c][k].input : k \in 1..n}
  BY DEF EntriesOf
<1> HIDE DEF n
<1> QED BY <1>1, <1>2, <1>3, <1>4

LEMMA CommitApplies ==
    ASSUME IInv, NEW r \in Requests, Commit(r)
    PROVE  \E i \in Inputs : Accounts!Apply(i)
<1>1. PICK i \in Inputs, c \in Customers, cents \in 0..MaxCents :
          i = Input(r) /\ c = Holder(r) /\ cents = NewBalance(r)
  BY CommitsAppend
<1> DEFINE entry == [input |-> i, after |-> cents]
           held == [d \in Customers |-> EntriesOf(d)]
<1>2. /\ ledger[c] \in Seq(EntryRecords)
      /\ ledger'[c] = Append(ledger[c], entry)
      /\ \A d \in Customers : d # c => ledger'[d] = ledger[d]
      /\ At(r, "commit") /\ Inside(r)
  BY <1>1, CommitsAppend DEF Commit
<1>3. CustomerOf[i] = c /\ Effect[i] = Delta(i)
  BY <1>1 DEF CustomerOf, Effect, Holder
<1>4. cents = balance[c] + Effect[i]
  BY <1>1, <1>2, <1>3 DEF IInv, ReadsHold, NewBalance
<1>5. \A e \in EntriesOf(c) : <<i, e>> \notin Repeats
  <2>1. \A k \in 1..Len(ledger[c]) : ~Matches(i, ledger[c][k].input)
    BY <1>1, <1>2 DEF IInv, ReadsHold, At
  <2> QED BY <2>1 DEF EntriesOf, Repeats
<1>6. \A d \in Customers : \A e \in EntriesOf(d) : <<i, e>> \notin Duplicates
  <2>1. ~KeyTaken(i)
    BY <1>1, <1>2 DEF IInv, KeysHold
  <2> QED BY <2>1 DEF KeyTaken, EntriesOf, Duplicates
<1>7. balance' = [balance EXCEPT ![c] = balance[c] + Effect[i]]
  BY <1>1, <1>4 DEF Commit
<1>8. held' = [held EXCEPT ![c] = held[c] \cup {i}]
  <2>1. EntriesOf(c)' = EntriesOf(c) \cup {i}
    <3>1. entry.input = i
      OBVIOUS
    <3> HIDE DEF entry
    <3> QED BY <1>2, <3>1, EntriesGrow
  <2>2. \A d \in Customers : d # c => EntriesOf(d)' = EntriesOf(d)
    BY <1>2 DEF EntriesOf
  <2> QED BY <2>1, <2>2
<1>9. /\ \A e \in held[c] : <<i, e>> \notin Repeats
      /\ \A d \in Customers : \A e \in held[d] : <<i, e>> \notin Duplicates
      /\ balance[c] + Effect[i] \in 0..MaxCents
  BY <1>4, <1>5, <1>6
<1>10. Accounts!Apply(i)
  BY <1>3, <1>7, <1>8, <1>9 DEF Accounts!Apply
<1> QED BY <1>10

LEMMA AccountsStep == IInv /\ [Next]_vars => [Accounts!Next]_(Accounts!vars)
<1> SUFFICES ASSUME IInv, [Next]_vars PROVE [Accounts!Next]_(Accounts!vars)
  OBVIOUS
<1>1. ASSUME NEW r \in Requests, Commit(r) PROVE Accounts!Next
  BY <1>1, CommitApplies DEF Accounts!Next
<1>2. CASE ~\E r \in Requests : Commit(r)
  <2>1. UNCHANGED <<ledger, balance>>
    BY <1>2, OnlyCommitsWrite
  <2>2. [c \in Customers |-> EntriesOf(c)]' = [c \in Customers |-> EntriesOf(c)]
    BY <2>1 DEF EntriesOf
  <2> QED BY <2>1, <2>2 DEF Accounts!vars
<1> QED BY <1>1, <1>2

\* Seen from outside, createAdjustmentWithLedger() applies an adjustment in one
\* step, within the bounds and only once, or changes nothing.
THEOREM LedgerKeepsItsPromise == Spec => ImplementsCreditAccounts
<1>1. Init => Accounts!Init
  BY AccountsInit
<1>2. IInv /\ [Next]_vars => [Accounts!Next]_(Accounts!vars)
  BY AccountsStep
<1> QED BY <1>1, <1>2, IInvAlways, PTL DEF Spec, ImplementsCreditAccounts, Accounts!Spec

(***************************************************************************)
(* Nobody waits in a circle.                                               *)
(***************************************************************************)
\* Whoever has a lock is in a transaction for that customer.
HoldersAreInside ==
    \A c \in Customers : holder[c] # NoRequest =>
        Inside(holder[c]) /\ Holder(holder[c]) = c

LEMMA HoldersInit == Init => HoldersAreInside
BY DEF Init, HoldersAreInside

LEMMA HoldersStep == IInv /\ HoldersAreInside /\ [Next]_vars => HoldersAreInside'
<1> SUFFICES ASSUME IInv, HoldersAreInside, [Next]_vars,
                    NEW c \in Customers, holder'[c] # NoRequest
             PROVE  /\ req'[holder'[c]].step \in InTransaction
                    /\ req'[holder'[c]].input.customer = c
  BY DEF HoldersAreInside, Inside, Holder, Input
<1> DEFINE Goal == /\ req'[holder'[c]].step \in InTransaction
                   /\ req'[holder'[c]].input.customer = c
<1> HIDE DEF Goal
<1>0. /\ TypeOK
      /\ req \in [Requests -> RequestRecords]
      /\ holder \in [Customers -> Requests \cup {NoRequest}]
      /\ holder[c] # NoRequest =>
            holder[c] \in Requests /\ Inside(holder[c]) /\ Holder(holder[c]) = c
  BY DEF IInv, TypeOK, HoldersAreInside
\* A lock that a step leaves alone still belongs to its holder.
<1>1. ASSUME holder'[c] = holder[c],
             req'[holder[c]].input = req[holder[c]].input,
             req'[holder[c]].step \in InTransaction
      PROVE  Goal
  BY <1>0, <1>1 DEF Goal, Inside, Holder, Input
<1>2. ASSUME NEW r \in Requests, ~Inside(r), UNCHANGED holder,
             \A q \in Requests : q # r => req'[q] = req[q]
      PROVE  Goal
  BY <1>0, <1>1, <1>2 DEF Inside
<1>3. ASSUME NEW r \in Requests, Inside(r), Release(r),
             \A q \in Requests : q # r => req'[q] = req[q]
      PROVE  Goal
  <2>1. c # Holder(r) /\ holder'[c] = holder[c]
    BY <1>0, <1>3 DEF Release
  <2> QED BY <1>0, <1>1, <1>3, <2>1 DEF Inside
<1>4. ASSUME NEW r \in Requests, NEW step \in InTransaction, Go(r, step), UNCHANGED holder
      PROVE  Goal
  <2>1. \A q \in Requests : /\ req'[q].input = req[q].input
                            /\ req'[q].step = req[q].step \/ req'[q].step = step
    BY <1>0, <1>4 DEF Go
  <2> QED BY <1>0, <1>1, <1>4, <2>1 DEF Inside
<1>5. ASSUME UNCHANGED vars PROVE Goal
  BY <1>0, <1>1, <1>5 DEF vars, Inside
<1>6. ASSUME NEW r \in Requests, NEW i \in Inputs, Submit(r, i) PROVE Goal
  <2>1. ~Inside(r) /\ UNCHANGED holder
    BY <1>6 DEF Submit, At, Inside, InTransaction
  <2>2. \A q \in Requests : q # r => req'[q] = req[q]
    BY <1>0, <1>6, StepsAreOnesOwn
  <2> QED BY <1>2, <2>1, <2>2
<1>7. ASSUME NEW r \in Requests, Check(r) PROVE Goal
  <2>1. ~Inside(r) /\ UNCHANGED holder
    BY <1>7 DEF Check, At, Inside, InTransaction
  <2> QED BY <1>0, <1>2, <1>7, <2>1, StepsAreOnesOwn DEF Progress
<1>8. ASSUME NEW r \in Requests, LockBalance(r) PROVE Goal
  <2>1. CASE c = Holder(r)
    <3>1. holder'[c] = r
      BY <1>0, <1>8, <2>1 DEF LockBalance
    <3>2. req'[r].input = req[r].input /\ req'[r].step \in {"lookup", "insert"}
      BY <1>0, <1>8 DEF LockBalance
    <3> QED BY <2>1, <3>1, <3>2 DEF Goal, Inside, InTransaction, Holder, Input
  <2>2. CASE c # Holder(r)
    <3>1. holder'[c] = holder[c] /\ ~Inside(r)
      BY <1>0, <1>8, <2>2 DEF LockBalance, At, Inside, InTransaction
    <3>2. \A q \in Requests : q # r => req'[q] = req[q]
      BY <1>0, <1>8, StepsAreOnesOwn DEF Progress
    <3> QED BY <1>0, <1>1, <3>1, <3>2 DEF Inside
  <2> QED BY <2>1, <2>2
<1>9. ASSUME NEW r \in Requests, Lookup(r) PROVE Goal
  <2>1. Inside(r) /\ \A q \in Requests : q # r => req'[q] = req[q]
    BY <1>0, <1>9, StepsAreOnesOwn DEF Lookup, Progress, At, Inside, InTransaction
  <2> QED BY <1>3, <1>4, <1>9, <2>1 DEF Lookup, InTransaction
<1>10. ASSUME NEW r \in Requests, Refuse(r) PROVE Goal
  <2>1. Inside(r) /\ \A q \in Requests : q # r => req'[q] = req[q]
    BY <1>0, <1>10, StepsAreOnesOwn DEF Refuse, Progress, At, Inside, InTransaction
  <2> QED BY <1>3, <1>10, <2>1 DEF Refuse
<1>11. ASSUME NEW r \in Requests, Insert(r) PROVE Goal
  <2>1. Inside(r) /\ \A q \in Requests : q # r => req'[q] = req[q]
    BY <1>0, <1>11, StepsAreOnesOwn DEF Insert, Progress, At, Inside, InTransaction
  <2> QED BY <1>3, <1>4, <1>11, <2>1 DEF Insert, InTransaction
<1>12. ASSUME NEW r \in Requests, Commit(r) PROVE Goal
  <2>1. Inside(r) /\ \A q \in Requests : q # r => req'[q] = req[q]
    BY <1>0, <1>12, StepsAreOnesOwn DEF Commit, Progress, At, Inside, InTransaction
  <2> QED BY <1>3, <1>12, <2>1 DEF Commit
<1>13. ASSUME NEW r \in Requests, Throw(r) PROVE Goal
  <2>1. \A q \in Requests : q # r => req'[q] = req[q]
    BY <1>0, <1>13, StepsAreOnesOwn
  <2>2. \/ Inside(r) /\ Release(r)
        \/ ~Inside(r) /\ UNCHANGED holder
    BY <1>13 DEF Throw, Inside
  <2> QED BY <1>2, <1>3, <2>1, <2>2
<1>14. ASSUME Restart PROVE Goal
  BY <1>14 DEF Restart
<1>15. Goal
  BY <1>5, <1>6, <1>7, <1>8, <1>9, <1>10, <1>11, <1>12, <1>13, <1>14 DEF Next, Progress
<1> QED BY <1>15 DEF Goal

\* One that waits in the index waits for one that commits; one that waits for a
\* lock waits for a transaction.  Neither is what waits for it.
LEMMA WaitsAreShort == IInv /\ HoldersAreInside => WaitsEnd
<1> SUFFICES ASSUME IInv, HoldersAreInside, NEW r \in Requests, ~At(r, "rest")
             PROVE  \/ Proceeds(r)
                    \/ \E q \in Requests : Awaits(r, q) /\
                          (Proceeds(q) \/ \E p \in Requests : Awaits(q, p) /\ Proceeds(p))
  BY DEF WaitsEnd
<1>1. ASSUME NEW q \in Requests, Inside(q)
      PROVE  Proceeds(q) \/ \E p \in Requests : Awaits(q, p) /\ Proceeds(p)
  <2>1. CASE At(q, "insert")
    <3>1. CASE \E p \in Requests : AwaitsKey(q, p)
      <4>1. PICK p \in Requests : AwaitsKey(q, p)
        BY <3>1
      <4>2. Awaits(q, p) /\ Proceeds(p)
        BY <4>1 DEF Awaits, AwaitsKey, Proceeds
      <4> QED BY <4>2
    <3>2. CASE ~\E p \in Requests : AwaitsKey(q, p)
      BY <2>1, <3>2 DEF Proceeds
    <3> QED BY <3>1, <3>2
  <2>2. CASE At(q, "lookup") \/ At(q, "commit")
    BY <2>2 DEF Proceeds
  <2> QED BY <1>1, <2>1, <2>2 DEF Inside, InTransaction, At
<1>2. CASE Inside(r)
  BY <1>1, <1>2
<1>3. CASE At(r, "lock")
  <2>1. CASE holder[Holder(r)] = NoRequest
    BY <1>3, <2>1 DEF Proceeds
  <2>2. CASE holder[Holder(r)] # NoRequest
    <3>1. Holder(r) \in Customers
      BY BillingInputs DEF IInv, LocksAreHeld, Holder, InputRecords
    <3>2. holder[Holder(r)] \in Requests /\ Inside(holder[Holder(r)])
      BY <2>2, <3>1 DEF IInv, TypeOK, HoldersAreInside
    <3>3. Awaits(r, holder[Holder(r)])
      BY <1>3 DEF Awaits, AwaitsLock
    <3> QED BY <1>1, <3>2, <3>3
  <2> QED BY <2>1, <2>2
<1>4. CASE At(r, "check")
  BY <1>4 DEF Proceeds
<1>5. req[r].step \in {"rest", "check", "lock"} \cup InTransaction
  BY DEF IInv, TypeOK, RequestRecords
<1> QED BY <1>2, <1>3, <1>4, <1>5 DEF Inside, At

\* Of the requests that apply adjustments, some one goes on whenever any is at
\* work: the part of "every adjustment ends" that does not rest on fairness.
THEOREM WaitsNeverFormACircle == Spec => []WaitsEnd
<1>1. Init => IInv /\ HoldersAreInside
  BY IInvInit, HoldersInit
<1>2. (IInv /\ HoldersAreInside) /\ [Next]_vars => (IInv /\ HoldersAreInside)'
  BY IInvStep, HoldersStep
<1>3. IInv /\ HoldersAreInside => WaitsEnd
  BY WaitsAreShort
<1> QED BY <1>1, <1>2, <1>3, PTL DEF Spec
=============================================================================
