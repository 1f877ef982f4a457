---------------------------- MODULE OrganizationAccess ----------------------------
(***************************************************************************)
(* Who belongs to an organization, and what a person's Firebase token says *)
(* about it (organization-service.ts, postgres-organization-repository.ts, *)
(* custom-claims.ts, firebase-claims-reconciliation.ts and their routes):  *)
(* founding, invitations, memberships, volunteers, and the custom claims,  *)
(* which a request updates after it has answered and a scheduled round     *)
(* rebuilds from the database.                                             *)
(*                                                                         *)
(* A step is one statement, one call of Firebase, or what a handler does   *)
(* between two awaits.  An update and a rebuild hold an advisory lock per  *)
(* person in a transaction, which has a connection of the pool for itself. *)
(* Names, emails and tokens are the persons and the invitations they stand *)
(* for.  The administrators who invite and remove are not followed, nor is *)
(* users.disassociated, which nothing reads, nor the claims of other       *)
(* consumers, which both writers copy.                                     *)
(***************************************************************************)
EXTENDS Naturals, FiniteSets

CONSTANTS
    Users,          \* persons, by their Firebase uid and email
    Orgs,           \* organizations, by their slug
    Festivals,
    Roles,          \* what a member may be
    Offered,        \* what invitations are made for
    Admin,          \* the role that may invite and remove
    NoRole,
    Invites,        \* invitations, by their token
    Requests,       \* requests handled at the same time, each with its update
    Round,          \* the rebuild that the scheduled reconciliation runs
    NoJob, NoUser, NoOrg, NoInvite,
    Connections,    \* the size of the connection pool
    MaxAttempts,    \* how often an update is tried
    MaxFaults       \* bounds the failing calls and the restarts

Jobs == Requests \cup {Round}

ASSUME AccessAssumption ==
    /\ Admin \in Roles
    /\ Offered \subseteq Roles
    /\ NoRole \notin Roles
    /\ Round \notin Requests
    /\ NoJob \notin Jobs
    /\ NoUser \notin Users
    /\ NoOrg \notin Orgs
    /\ NoInvite \notin Invites
    /\ Connections \in Nat \ {0}
    /\ MaxAttempts \in Nat \ {0}
    /\ MaxFaults \in Nat

VARIABLES
    known,      \* the persons that have a row in users
    founded,    \* the organizations that exist
    member,     \* member[u][o]: the role of the membership row, or NoRole
    granted,    \* the roles that persons have had in organizations, as triples
    volunteer,  \* volunteer[u]: the festivals with a volunteers row for u
    invite,     \* invite[t]: the invitation
    req,        \* req[r]: the request in progress
    claims,     \* claims[u]: the claims Firebase has for u
    lock,       \* lock[u]: the job that holds the advisory lock of u
    job,        \* job[j]: the update or rebuild in progress
    todo,       \* the persons the round has still to rebuild
    lost,       \* the updates that were given up, as pairs of person and item
    faults

people == <<known, founded, member, granted, volunteer, invite>>
firebase == <<claims, lock, job>>
vars == <<known, founded, member, granted, volunteer, invite, req,
          claims, lock, job, todo, lost, faults>>

\* Claims, and equally what an update adds to them.
NoClaims == [roles |-> [o \in Orgs |-> NoRole], festivals |-> {}]
RoleIn(o, role) == [NoClaims EXCEPT !.roles[o] = role]
VolunteerFor(f) == [NoClaims EXCEPT !.festivals = {f}]

\* The organizations and festivals that claims name.
Items(c) == {o \in Orgs : c.roles[o] # NoRole} \cup c.festivals

NoRequest == [step |-> "rest", kind |-> "accept", user |-> NoUser,
              org |-> NoOrg, role |-> NoRole, invite |-> NoInvite, spent |-> FALSE,
              gain |-> NoClaims]
NoWork == [step |-> "rest", user |-> NoUser, gain |-> NoClaims, read |-> NoClaims, attempts |-> 0]

\* A try, the first or after some that failed.
Attempt(u, gain, failed) ==
    [step |-> "begin", user |-> u, gain |-> gain, read |-> NoClaims, attempts |-> failed]

Init ==
    /\ known = {} /\ founded = {} /\ granted = {}
    /\ member = [u \in Users |-> [o \in Orgs |-> NoRole]]
    /\ volunteer = [u \in Users |-> {}]
    /\ invite = [t \in Invites |->
                    [status |-> "unused", org |-> NoOrg, user |-> NoUser, role |-> NoRole]]
    /\ req = [r \in Requests |-> NoRequest]
    /\ claims = [u \in Users |-> NoClaims]
    /\ lock = [u \in Users |-> NoJob]
    /\ job = [j \in Jobs |-> NoWork]
    /\ todo = {} /\ lost = {} /\ faults = 0

-----------------------------------------------------------------------------
(* The pool *)

\* A job has a connection from BEGIN to the end of its transaction.
InTransaction(j) == job[j].step \in {"lock", "load", "get", "set"}

\* What a statement outside these transactions needs while it runs.
ConnectionIsFree == Cardinality({j \in Jobs : InTransaction(j)}) < Connections

-----------------------------------------------------------------------------
(* Requests *)

At(r, step) == req[r].step = step
Go(r, step) == req' = [req EXCEPT ![r].step = step]
Answer(r) == req' = [req EXCEPT ![r] = NoRequest]
Resting(r) == At(r, "rest") /\ job[r].step = "rest"

\* All that a request has left to do is to announce what it gained.
Announcing(u, gain) == [NoRequest EXCEPT !.step = "announce", !.user = u, !.gain = gain]
Tell(r, gain) == req' = [req EXCEPT ![r] = Announcing(req[r].user, gain)]

\* Any signed-in request that asks for the person's own memberships.
SignIn(u) ==
    /\ ConnectionIsFree
    /\ known' = known \cup {u}
    /\ UNCHANGED <<founded, member, granted, volunteer, invite, req, firebase, todo, lost, faults>>

\* createOrganization() up to the row of the organization.
Found(r, u, o) ==
    /\ Resting(r) /\ ConnectionIsFree
    /\ o \notin founded
    /\ known' = known \cup {u}
    /\ founded' = founded \cup {o}
    /\ req' = [req EXCEPT ![r] = [NoRequest EXCEPT
           !.step = "join", !.kind = "found", !.user = u, !.org = o, !.role = Admin]]
    /\ UNCHANGED <<member, granted, volunteer, invite, firebase, todo, lost, faults>>

\* createInviteForTenant().  That the email is new, neither of a member nor of
\* a pending invitation, and that the caller is an administrator, is read some
\* queries before, and nothing enforces it when the row is inserted.
CreateInvite(t, u, o, role) ==
    /\ ConnectionIsFree
    /\ o \in founded
    /\ invite[t].status = "unused"
    /\ invite' = [invite EXCEPT ![t] =
           [status |-> "pending", org |-> o, user |-> u, role |-> role]]
    /\ UNCHANGED <<known, founded, member, granted, volunteer, req, firebase, todo, lost, faults>>

\* cancelInviteForTenant(), deleteMembershipForTenant(): the list they read
\* gives them the id of a row, which goes if it is still there and, for an
\* invitation, still pending.
CancelInvite(t) ==
    /\ ConnectionIsFree
    /\ invite[t].status = "pending"
    /\ invite' = [invite EXCEPT ![t].status = "cancelled"]
    /\ UNCHANGED <<known, founded, member, granted, volunteer, req, firebase, todo, lost, faults>>

DeleteMembership(u, o) ==
    /\ ConnectionIsFree
    /\ member[u][o] # NoRole
    /\ member' = [member EXCEPT ![u][o] = NoRole]
    /\ UNCHANGED <<known, founded, granted, volunteer, invite, req, firebase, todo, lost, faults>>

\* acceptInvite() begins with the invitation.
FindInvite(r, t) ==
    /\ Resting(r) /\ ConnectionIsFree
    /\ invite[t].status \in {"pending", "accepted"}
    /\ req' = [req EXCEPT ![r] = [NoRequest EXCEPT
           !.step = "look", !.user = invite[t].user, !.org = invite[t].org,
           !.role = invite[t].role, !.invite = t, !.spent = (invite[t].status = "accepted")]]
    /\ UNCHANGED <<people, firebase, todo, lost, faults>>

\* Mutant: the invitation is marked before the membership is made.
FindAndMark(r) ==
    LET role == member[req[r].user][req[r].org] IN
    /\ At(r, "look") /\ ConnectionIsFree
    /\ known' = known \cup {req[r].user}
    /\ invite' = [invite EXCEPT ![req[r].invite].status = "accepted"]
    /\ \/ req[r].spent /\ Answer(r)
       \/ ~req[r].spent /\ role = NoRole /\ Go(r, "join")
       \/ ~req[r].spent /\ role # NoRole /\ Go(r, "mark")
    /\ UNCHANGED <<founded, member, granted, volunteer, firebase, todo, lost, faults>>

\* Mutant: a member who accepts an invitation is announced in the role it offers.
FindAnyRole(r) ==
    /\ At(r, "look") /\ ConnectionIsFree
    /\ known' = known \cup {req[r].user}
    /\ \/ req[r].spent /\ Answer(r)
       \/ ~req[r].spent /\ Go(r, IF member[req[r].user][req[r].org] = NoRole THEN "join" ELSE "mark")
    /\ UNCHANGED <<founded, member, granted, volunteer, invite, firebase, todo, lost, faults>>

\* upsertUser(), which SignIn allows before as well, and the membership.
FindMembership(r) ==
    LET role == member[req[r].user][req[r].org] IN
    /\ At(r, "look") /\ ConnectionIsFree
    /\ known' = known \cup {req[r].user}
    /\ \/ req[r].spent /\ Answer(r)
       \/ ~req[r].spent /\ role = NoRole /\ Go(r, "join")
       \/ /\ ~req[r].spent /\ role # NoRole
          /\ req' = [req EXCEPT ![r].step = "mark", ![r].role = role]
    /\ UNCHANGED <<founded, member, granted, volunteer, invite, firebase, todo, lost, faults>>

\* createMembership(): one row per person and organization, or an error.
Join(r) ==
    LET u == req[r].user  o == req[r].org IN
    /\ At(r, "join") /\ ConnectionIsFree
    /\ IF member[u][o] # NoRole
       THEN Answer(r) /\ UNCHANGED <<member, granted>>
       ELSE /\ member' = [member EXCEPT ![u][o] = req[r].role]
            /\ granted' = granted \cup {<<u, o, req[r].role>>}
            /\ \/ req[r].kind = "found" /\ Tell(r, RoleIn(o, req[r].role))
               \/ /\ req[r].kind = "accept"
                  /\ req' = [req EXCEPT ![r].step = "mark", ![r].gain = RoleIn(o, req[r].role)]
    /\ UNCHANGED <<known, founded, volunteer, invite, firebase, todo, lost, faults>>

\* markInviteAccepted(), for the invitation if it is still there.
Mark(r) ==
    LET t == req[r].invite IN
    /\ At(r, "mark") /\ ConnectionIsFree
    /\ invite' = IF invite[t].status = "cancelled" THEN invite
                 ELSE [invite EXCEPT ![t].status = "accepted"]
    /\ Tell(r, RoleIn(req[r].org, req[r].role))
    /\ UNCHANGED <<known, founded, member, granted, volunteer, firebase, todo, lost, faults>>

\* POST /enroll to the row of the volunteer.
Enroll(r, u, f) ==
    /\ Resting(r) /\ ConnectionIsFree
    /\ volunteer' = [volunteer EXCEPT ![u] = @ \cup {f}]
    /\ req' = [req EXCEPT ![r] = Announcing(u, VolunteerFor(f))]
    /\ UNCHANGED <<known, founded, member, granted, invite, firebase, todo, lost, faults>>

\* The answer goes out, and the update of the claims goes on by itself.
Announce(r) ==
    /\ At(r, "announce")
    /\ job' = [job EXCEPT ![r] = Attempt(req[r].user, req[r].gain, 0)]
    /\ Answer(r)
    /\ UNCHANGED <<people, claims, lock, todo, lost, faults>>

-----------------------------------------------------------------------------
(* Updates and rebuilds: withClaims() and replaceVolunteerIntentClaims() *)

Working(j, step) == job[j].step = step
Continue(j, step) == job' = [job EXCEPT ![j].step = step]

\* The transaction begins and waits for the lock.
Begin(j) ==
    /\ Working(j, "begin") /\ ConnectionIsFree
    /\ Continue(j, "lock")
    /\ UNCHANGED <<people, req, claims, lock, todo, lost, faults>>

\* Mutant: an update does not wait for the lock.
LockRebuilds(j) ==
    /\ Working(j, "lock")
    /\ j = Round => lock[job[j].user] = NoJob
    /\ lock' = [lock EXCEPT ![job[j].user] = j]
    /\ Continue(j, IF j = Round THEN "load" ELSE "get")
    /\ UNCHANGED <<people, req, claims, todo, lost, faults>>

Lock(j) ==
    /\ Working(j, "lock")
    /\ lock[job[j].user] = NoJob
    /\ lock' = [lock EXCEPT ![job[j].user] = j]
    /\ Continue(j, IF j = Round THEN "load" ELSE "get")
    /\ UNCHANGED <<people, req, claims, todo, lost, faults>>

\* What the database says about a person.
Truth(u) == [roles |-> member[u], festivals |-> volunteer[u]]

\* loadClaims() asks the pool, not the transaction that has the lock.
Load ==
    /\ Working(Round, "load") /\ ConnectionIsFree
    /\ job' = [job EXCEPT ![Round].step = "get", ![Round].gain = Truth(job[Round].user)]
    /\ UNCHANGED <<people, req, claims, lock, todo, lost, faults>>

Get(j) ==
    /\ Working(j, "get")
    /\ job' = [job EXCEPT ![j].step = "set", ![j].read = claims[job[j].user]]
    /\ UNCHANGED <<people, req, claims, lock, todo, lost, faults>>

\* setOrgRole() and addVolunteerFestival() add to the claims that were read.
Merge(read, gain) ==
    [roles |-> [o \in Orgs |-> IF gain.roles[o] # NoRole THEN gain.roles[o] ELSE read.roles[o]],
     festivals |-> read.festivals \cup gain.festivals]

\* Mutant: the rebuild keeps what it finds.
MergeAlways(j) == Merge(job[j].read, job[j].gain)

\* A rebuild replaces all claims of this application.
NewClaims(j) == IF j = Round THEN job[Round].gain ELSE Merge(job[j].read, job[j].gain)

\* Mutant: the lock belongs to the session and outlives the transaction.
KeepLock(j) == lock

\* The transaction ends, and with it the lock.
Unlock(j) == [u \in Users |-> IF lock[u] = j THEN NoJob ELSE lock[u]]

\* What has been written again is no longer missing.
StillLost(u, c) == lost \ ({u} \X Items(c))

Set(j) ==
    LET u == job[j].user IN
    /\ Working(j, "set")
    /\ claims' = [claims EXCEPT ![u] = NewClaims(j)]
    /\ lost' = StillLost(u, NewClaims(j))
    /\ lock' = Unlock(j)
    /\ job' = [job EXCEPT ![j] = NoWork]
    /\ UNCHANGED <<people, req, todo, faults>>

\* An update that is given up; a rebuild comes back with the next round.
GiveUp(j) == IF j = Round THEN lost ELSE lost \cup ({job[j].user} \X Items(job[j].gain))

\* A statement or a call of Firebase fails; a write may have been carried out.
\* The transaction ends, and after a pause the update is tried again.
Fail(j) ==
    LET again == job[j].attempts + 1 < MaxAttempts IN
    /\ job[j].step # "rest"
    /\ faults < MaxFaults
    /\ faults' = faults + 1
    /\ \/ UNCHANGED claims
       \/ Working(j, "set") /\ claims' = [claims EXCEPT ![job[j].user] = NewClaims(j)]
    /\ lock' = Unlock(j)
    /\ job' = [job EXCEPT ![j] =
           IF again THEN Attempt(job[j].user, job[j].gain, job[j].attempts + 1) ELSE NoWork]
    /\ lost' = IF again THEN lost ELSE GiveUp(j)
    /\ UNCHANGED <<people, req, todo>>

\* reconcile(): the uids of users, then one after the other, whatever the
\* outcome for each.
StartRound ==
    /\ Working(Round, "rest") /\ todo = {} /\ ConnectionIsFree
    /\ todo' = known
    /\ UNCHANGED <<people, req, firebase, lost, faults>>

RebuildNext(u) ==
    /\ Working(Round, "rest") /\ u \in todo
    /\ todo' = todo \ {u}
    /\ job' = [job EXCEPT ![Round] = Attempt(u, NoClaims, 0)]
    /\ UNCHANGED <<people, req, claims, lock, lost, faults>>

-----------------------------------------------------------------------------
(* Failures *)

\* Claims that the database has and nobody is going to announce.
Unannounced(r) ==
    IF req[r].step \in {"mark", "announce"}
    THEN {req[r].user} \X Items(req[r].gain)
    ELSE {}

Unwritten(r) == IF Working(r, "rest") THEN {} ELSE {job[r].user} \X Items(job[r].gain)

\* A query of a request fails.
Throw(r) ==
    /\ ~At(r, "rest")
    /\ faults < MaxFaults
    /\ faults' = faults + 1
    /\ lost' = lost \cup Unannounced(r)
    /\ Answer(r)
    /\ UNCHANGED <<people, firebase, todo>>

\* The process stops, with its requests, updates and round; the database ends
\* their transactions.
Restart ==
    /\ faults < MaxFaults
    /\ faults' = faults + 1
    /\ lost' = lost \cup UNION {Unannounced(r) \cup Unwritten(r) : r \in Requests}
    /\ req' = [r \in Requests |-> NoRequest]
    /\ lock' = [u \in Users |-> NoJob]
    /\ job' = [j \in Jobs |-> NoWork]
    /\ todo' = {}
    /\ UNCHANGED <<people, claims>>

-----------------------------------------------------------------------------
AdminStep ==
    \/ \E t \in Invites, u \in Users, o \in Orgs, role \in Offered : CreateInvite(t, u, o, role)
    \/ \E t \in Invites : CancelInvite(t)
    \/ \E u \in Users, o \in Orgs : DeleteMembership(u, o)

PersonStep(r) ==
    \/ \E u \in Users, o \in Orgs : Found(r, u, o)
    \/ \E u \in Users, f \in Festivals : Enroll(r, u, f)
    \/ \E t \in Invites : FindInvite(r, t)

RequestStep(r) ==
    \/ FindMembership(r) \/ Join(r) \/ Mark(r) \/ Announce(r)

JobStep(j) == Begin(j) \/ Lock(j) \/ Get(j) \/ Set(j)

RoundStep == StartRound \/ (\E u \in Users : RebuildNext(u)) \/ JobStep(Round) \/ Load

Next ==
    \/ \E u \in Users : SignIn(u)
    \/ AdminStep \/ RoundStep \/ Restart
    \/ \E r \in Requests : PersonStep(r) \/ RequestStep(r) \/ JobStep(r) \/ Throw(r)
    \/ \E j \in Jobs : Fail(j)

Spec == Init /\ [][Next]_vars

\* Queries and calls end, the pool and the locks are handed out in turn, and
\* the scheduler goes on calling the reconciliation.
FairSpec ==
    /\ Spec
    /\ \A r \in Requests : SF_vars(RequestStep(r) \/ JobStep(r))
    /\ SF_vars(RoundStep)

-----------------------------------------------------------------------------
ClaimRecords == [roles : [Orgs -> Roles \cup {NoRole}], festivals : SUBSET Festivals]

RequestRecords ==
    [step : {"rest", "look", "join", "mark", "announce"},
     kind : {"found", "accept"}, user : Users \cup {NoUser}, org : Orgs \cup {NoOrg},
     role : Roles \cup {NoRole}, invite : Invites \cup {NoInvite}, spent : BOOLEAN,
     gain : ClaimRecords]

JobRecords ==
    [step : {"rest", "begin", "lock", "load", "get", "set"}, user : Users \cup {NoUser},
     gain : ClaimRecords, read : ClaimRecords, attempts : Nat]

InviteRecords ==
    [status : {"unused", "pending", "accepted", "cancelled"}, org : Orgs \cup {NoOrg},
     user : Users \cup {NoUser}, role : Roles \cup {NoRole}]

TypeOK ==
    /\ known \subseteq Users
    /\ founded \subseteq Orgs
    /\ member \in [Users -> [Orgs -> Roles \cup {NoRole}]]
    /\ granted \subseteq Users \X Orgs \X Roles
    /\ volunteer \in [Users -> SUBSET Festivals]
    /\ invite \in [Invites -> InviteRecords]
    /\ req \in [Requests -> RequestRecords]
    /\ claims \in [Users -> ClaimRecords]
    /\ lock \in [Users -> Jobs \cup {NoJob}]
    /\ job \in [Jobs -> JobRecords]
    /\ todo \subseteq Users
    /\ lost \subseteq Users \X (Orgs \cup Festivals)
    /\ faults \in Nat

HasJoined(u, o) == \E role \in Roles : <<u, o, role>> \in granted

\* An invitation that counts as accepted, and cannot be used again, has made
\* the person a member, also when the acceptance failed half-way, was retried
\* or ran twice at the same time.
AcceptedInviteWasHonoured ==
    \A t \in Invites : invite[t].status = "accepted" => HasJoined(invite[t].user, invite[t].org)

\* A membership or an enrolment is announced when its own request is going to
\* update the claims.
Announced(u, i) ==
    \/ \E r \in Requests : req[r].user = u /\ i \in Items(req[r].gain)
    \/ \E r \in Requests : job[r].user = u /\ i \in Items(job[r].gain)

\* No update is lost to another, nor to a rebuild that read the database
\* before: what the database has is in the claims, or on its way there, or its
\* update was given up.
UpdatesAreNotLost ==
    \A u \in Users : \A i \in Items(Truth(u)) :
        i \in Items(claims[u]) \/ Announced(u, i) \/ <<u, i>> \in lost

\* The token gives a person no role that no membership of theirs ever had, be it
\* the one an invitation offers to a member, and no festival they do not help at.
Earned(u, c) ==
    /\ \A o \in Orgs : c.roles[o] # NoRole => <<u, o, c.roles[o]>> \in granted
    /\ c.festivals \subseteq volunteer[u]
ClaimsAreEarned == \A u \in Users : Earned(u, claims[u])

\* The next step of a job waits for nobody.
JobProceeds(j) ==
    \/ Working(j, "begin") /\ ConnectionIsFree
    \/ Working(j, "lock") /\ lock[job[j].user] = NoJob
    \/ Working(j, "load") /\ ConnectionIsFree
    \/ job[j].step \in {"get", "set"}

\* Jobs that wait, for a connection or for the lock of a person, wait for a job
\* that goes on.  One thing only can stop them all, in a pool of any size: the
\* rebuild, which has the lock, wants a second connection and others have the
\* rest.  No error and no number of attempts leaves a lock behind.
JobsGoOn ==
    \A j \in Jobs :
        \/ Working(j, "rest") \/ JobProceeds(j)
        \/ Working(Round, "load") /\ ~ConnectionIsFree
        \/ \E k \in Jobs : InTransaction(k) /\ JobProceeds(k)

\* In the end the claims of everybody who has signed in are what the database
\* says, after updates that were given up, memberships that were removed and
\* updates that arrived late.
ClaimsConverge == <>[](\A u \in known : claims[u] = Truth(u))
=============================================================================
