------------------------------ MODULE BillingLedger ------------------------------
(***************************************************************************)
(* Credit of the customers of one organization                             *)
(* (billing-reconciliation-service.ts, postgres-billing-repository.ts,     *)
(* admin-billing.routes.ts): adjustments, each with its ledger entry, and  *)
(* the balance of each customer.                                           *)
(*                                                                         *)
(* A step is one statement of the transaction that applies an adjustment,  *)
(* or one query before it.  What a transaction has written is visible to   *)
(* the others when it commits; until then the others see its row lock on   *)
(* the customer's balance and its key in the unique index.  An adjustment  *)
(* and its ledger entry are one record, as one transaction writes both.    *)
(* The names, the notes, the currency and the kind of entry are left out.  *)
(***************************************************************************)
EXTENDS Integers, Sequences

CONSTANTS
    Customers,
    Requests,       \* requests of administrators handled at the same time
    References,     \* what adjustments refer to: decisions, orders, referrals
    Inputs,         \* the adjustments that are asked for
    NoReference, NoInput, NoRequest,
    MaxCents,       \* the largest amount the integer columns hold
    MaxEntries      \* bounds the ledger a request is made on

AdjustmentTypes == {"refund", "credit_issue", "credit_apply", "manual_charge", "write_off"}

\* The kinds of reference the code tells apart; "none" is NULL.
ReferenceTypes == {"none", "order", "membership", "decision"}

InputRecords ==
    [customer : Customers, type : AdjustmentTypes, cents : Nat \ {0},
     reference : References \cup {NoReference}, referenceType : ReferenceTypes,
     direction : {"default", "inflow", "outflow"}, approved : BOOLEAN]

ASSUME BillingInputs ==
    /\ Inputs \subseteq InputRecords
    /\ MaxCents \in Nat
    /\ MaxEntries \in Nat
    /\ NoReference \notin References
    /\ NoInput \notin Inputs
    /\ NoRequest \notin Requests

VARIABLES
    ledger,     \* ledger[c]: the committed entries of customer c, in order
    balance,    \* balance[c]: cents of credit_balances, 0 if there is no row
    holder,     \* holder[c]: the transaction that holds the lock of that row
    req         \* req[r]: the request in progress and the balance it has read

vars == <<ledger, balance, holder, req>>

InTransaction == {"lookup", "insert", "commit"}
Rest == [step |-> "rest", input |-> NoInput, read |-> 0]

Init ==
    /\ ledger = [c \in Customers |-> <<>>]
    /\ balance = [c \in Customers |-> 0]
    /\ holder = [c \in Customers |-> NoRequest]
    /\ req = [r \in Requests |-> Rest]

-----------------------------------------------------------------------------
(* What an input asks for *)

\* isDecisionOrMembershipRefund()
NeedsDecision(i) ==
    \/ i.referenceType = "decision"
    \/ i.type = "refund" /\ i.referenceType = "membership"

Direction(i) ==
    IF i.direction # "default" THEN i.direction
    ELSE IF i.type \in {"credit_issue", "refund"} THEN "inflow"
    ELSE "outflow"

Delta(i) == IF Direction(i) = "inflow" THEN i.cents ELSE -i.cents

\* An adjustment e is in the way of i.  One with a type of reference does not
\* see those without, those without see all; the customer does not matter.
Matches(i, e) ==
    /\ i.reference # NoReference /\ e.reference = i.reference
    /\ i.referenceType = "none" \/ e.referenceType = i.referenceType

\* The unique index over organization, reference and type; NULLs differ.
SameKey(i, e) ==
    /\ i.reference # NoReference /\ e.reference = i.reference
    /\ i.referenceType # "none" /\ e.referenceType = i.referenceType
    /\ e.type = i.type

Found(i) == \E c \in Customers : \E k \in 1..Len(ledger[c]) : Matches(i, ledger[c][k].input)
KeyTaken(i) == \E c \in Customers : \E k \in 1..Len(ledger[c]) : SameKey(i, ledger[c][k].input)

-----------------------------------------------------------------------------
(* A request *)

At(r, step) == req[r].step = step
Input(r) == req[r].input
Holder(r) == Input(r).customer
Go(r, step) == req' = [req EXCEPT ![r].step = step]

\* A request is answered.  Which answer it was (created, a duplicate, too
\* little credit, an error) makes no difference to what follows.
Answer(r) == req' = [req EXCEPT ![r] = Rest]

\* The end of a transaction releases the lock, whichever way it ends.
Release(r) == holder' = [holder EXCEPT ![Holder(r)] = NoRequest]

\* applyAdjustment() with an input that is valid and has its decision.
Submit(r, i) ==
    /\ At(r, "rest")
    /\ NeedsDecision(i) => i.approved
    /\ Len(ledger[i.customer]) < MaxEntries
    /\ req' = [req EXCEPT ![r] =
           [step |-> IF i.reference # NoReference THEN "check" ELSE "lock",
            input |-> i, read |-> 0]]
    /\ UNCHANGED <<ledger, balance, holder>>

\* findAdjustmentByReference(), outside any transaction.
Check(r) ==
    /\ At(r, "check")
    /\ \/ ~Found(Input(r)) /\ Go(r, "lock")
       \/ Found(Input(r)) /\ Answer(r)
    /\ UNCHANGED <<ledger, balance, holder>>

\* Mutant: the balance is read without FOR UPDATE.
ReadBalance(r) ==
    /\ At(r, "lock")
    /\ holder' = [holder EXCEPT ![Holder(r)] = r]
    /\ req' = [req EXCEPT ![r].step = IF Input(r).reference # NoReference
                                      THEN "lookup" ELSE "insert",
                          ![r].read = balance[Holder(r)]]
    /\ UNCHANGED <<ledger, balance>>

\* The balance row is made if there is none, locked and read.
LockBalance(r) ==
    /\ At(r, "lock")
    /\ holder[Holder(r)] = NoRequest
    /\ holder' = [holder EXCEPT ![Holder(r)] = r]
    /\ req' = [req EXCEPT ![r].step = IF Input(r).reference # NoReference
                                      THEN "lookup" ELSE "insert",
                          ![r].read = balance[Holder(r)]]
    /\ UNCHANGED <<ledger, balance>>

\* The reference is looked for again, under the lock.
Lookup(r) ==
    /\ At(r, "lookup")
    /\ \/ ~Found(Input(r)) /\ Go(r, "insert") /\ UNCHANGED holder
       \/ Found(Input(r)) /\ Answer(r) /\ Release(r)
    /\ UNCHANGED <<ledger, balance>>

NewBalance(r) == req[r].read + Delta(Input(r))

\* Mutant: the answer is given in the middle of the transaction.
RefuseInPlace(r) ==
    /\ At(r, "insert")
    /\ NewBalance(r) < 0
    /\ Answer(r)
    /\ UNCHANGED <<ledger, balance, holder>>

\* InsufficientCreditBalanceError
Refuse(r) ==
    /\ At(r, "insert")
    /\ NewBalance(r) < 0
    /\ Answer(r)
    /\ Release(r)
    /\ UNCHANGED <<ledger, balance>>

\* Mutant: no unique index stands behind the lookup.
InsertAnyKey(r) ==
    /\ At(r, "insert")
    /\ NewBalance(r) >= 0
    /\ IF NewBalance(r) > MaxCents
       THEN Answer(r) /\ Release(r)
       ELSE Go(r, "commit") /\ UNCHANGED holder
    /\ UNCHANGED <<ledger, balance>>

\* The insert waits while another transaction has the key, fails if it is
\* taken or if the amount exceeds the column, and otherwise has the key.
Insert(r) ==
    /\ At(r, "insert")
    /\ NewBalance(r) >= 0
    /\ \A q \in Requests : At(q, "commit") => ~SameKey(Input(r), Input(q))
    /\ IF KeyTaken(Input(r)) \/ NewBalance(r) > MaxCents
       THEN Answer(r) /\ Release(r)
       ELSE Go(r, "commit") /\ UNCHANGED holder
    /\ UNCHANGED <<ledger, balance>>

\* The ledger entry and the balance are written and the transaction commits.
\* A caller whom the answer does not reach may ask again.
Commit(r) ==
    LET c == Holder(r) IN
    /\ At(r, "commit")
    /\ ledger' = [ledger EXCEPT ![c] = Append(@, [input |-> Input(r), after |-> NewBalance(r)])]
    /\ balance' = [balance EXCEPT ![c] = NewBalance(r)]
    /\ Release(r)
    /\ Answer(r)

\* A statement fails, and with it the transaction.
Throw(r) ==
    /\ ~At(r, "rest")
    /\ Answer(r)
    /\ IF req[r].step \in InTransaction THEN Release(r) ELSE UNCHANGED holder
    /\ UNCHANGED <<ledger, balance>>

\* The process stops; the database rolls back what it had begun.
Restart ==
    /\ holder' = [c \in Customers |-> NoRequest]
    /\ req' = [r \in Requests |-> Rest]
    /\ UNCHANGED <<ledger, balance>>

-----------------------------------------------------------------------------
Progress(r) ==
    Check(r) \/ LockBalance(r) \/ Lookup(r) \/ Refuse(r) \/ Insert(r) \/ Commit(r)

Next ==
    \/ \E r \in Requests, i \in Inputs : Submit(r, i)
    \/ \E r \in Requests : Progress(r) \/ Throw(r)
    \/ Restart

Spec == Init /\ [][Next]_vars

\* PostgreSQL answers every statement, and hands a lock or a key to one of
\* those that wait for it, to each in its turn.
FairSpec == Spec /\ \A r \in Requests : SF_vars(Progress(r))

-----------------------------------------------------------------------------
EntryRecords == [input : Inputs, after : 0..MaxCents]
RequestRecords ==
    [step : {"rest", "check", "lock"} \cup InTransaction,
     input : Inputs \cup {NoInput}, read : 0..MaxCents]

TypeOK ==
    /\ ledger \in [Customers -> Seq(EntryRecords)]
    /\ balance \in [Customers -> 0..MaxCents]
    /\ holder \in [Customers -> Requests \cup {NoRequest}]
    /\ req \in [Requests -> RequestRecords]

\* The ledger of a customer is a running balance: every entry follows from the
\* one before it, none is negative or too large, and the last is the balance,
\* whichever adjustments of the customer were applied at the same time.
Previous(s, k) == IF k = 1 THEN 0 ELSE s[k - 1].after
RunsTo(s, cents) ==
    /\ \A k \in 1..Len(s) :
          s[k].after = Previous(s, k) + Delta(s[k].input) /\ s[k].after \in 0..MaxCents
    /\ cents = Previous(s, Len(s) + 1)
LedgerRunsToTheBalance == \A c \in Customers : RunsTo(ledger[c], balance[c])

\* A reference is applied once.  For one customer, retries and concurrent
\* requests of any type find what was applied before them; across customers,
\* who share no lock, at least the same type of adjustment is not repeated.
ReferenceIsAppliedOnce ==
    /\ \A c \in Customers : \A j, k \in 1..Len(ledger[c]) :
          j < k => ~Matches(ledger[c][k].input, ledger[c][j].input)
    /\ \A c, d \in Customers : c # d =>
          \A j \in 1..Len(ledger[c]), k \in 1..Len(ledger[d]) :
              ~SameKey(ledger[c][j].input, ledger[d][k].input)

EntriesOf(c) == {ledger[c][k].input : k \in 1..Len(ledger[c])}
CustomerOf == [i \in Inputs |-> i.customer]
Effect == [i \in Inputs |-> Delta(i)]
Repeats == {p \in Inputs \X Inputs : Matches(p[1], p[2])}
Duplicates == {p \in Inputs \X Inputs : SameKey(p[1], p[2])}

Accounts == INSTANCE CreditAccounts WITH
    Adjustments <- Inputs, Limit <- MaxCents,
    credit <- balance, applied <- [c \in Customers |-> EntriesOf(c)]

\* Requests that check, lock, look up, insert and fail beside one another look
\* like adjustments that are applied in single steps, each once, and like
\* refused ones that change nothing.
ImplementsCreditAccounts == Accounts!Spec

\* A request waits for the one that has locked its customer's balance, or for
\* the one that has its key in the unique index.
AwaitsLock(r, q) == At(r, "lock") /\ holder[Holder(r)] = q
AwaitsKey(r, q) ==
    /\ At(r, "insert") /\ NewBalance(r) >= 0
    /\ At(q, "commit") /\ SameKey(Input(r), Input(q))
Awaits(r, q) == AwaitsLock(r, q) \/ AwaitsKey(r, q)

\* The next statement of r waits for nobody.
Proceeds(r) ==
    \/ At(r, "check") \/ At(r, "lookup") \/ At(r, "commit")
    \/ At(r, "lock") /\ holder[Holder(r)] = NoRequest
    \/ At(r, "insert") /\ ~\E q \in Requests : AwaitsKey(r, q)

\* Requests never wait for one another in a circle, although one transaction
\* waits first for a lock and then, holding it, for a key: a chain of those who
\* wait has at most two links, and at its end is one that goes on.  A lock left
\* behind by a transaction that is over would break it.
WaitsEnd ==
    \A r \in Requests : ~At(r, "rest") =>
        \/ Proceeds(r)
        \/ \E q \in Requests : Awaits(r, q) /\
              (Proceeds(q) \/ \E p \in Requests : Awaits(q, p) /\ Proceeds(p))

\* Every request ends, those that wait for the lock of a customer or for the
\* key of another transaction included.
EveryAdjustmentEnds ==
    \A r \in Requests : ~At(r, "rest") ~> At(r, "rest")
=============================================================================
