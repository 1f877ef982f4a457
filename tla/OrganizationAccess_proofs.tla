-------------------------- MODULE OrganizationAccess_proofs --------------------------
(***************************************************************************)
(* Proofs about OrganizationAccess, for any persons, organizations,        *)
(* festivals, requests, pool, number of attempts and of faults.            *)
(***************************************************************************)
EXTENDS OrganizationAccess, FiniteSetTheorems, TLAPS

(***************************************************************************)
(* The inductive invariant.                                                *)
(***************************************************************************)
Accepting(r) == req[r].step \in {"look", "mark"} \/ (At(r, "join") /\ req[r].kind # "found")

\* What a request has read stays true of the rows that never change it, and it
\* carries something to announce only when the database has it.
RequestKnows(r) ==
    /\ ~At(r, "rest") => req[r].user \in Users /\ job[r] = NoWork
    /\ req[r].step \in {"look", "join", "mark"} => req[r].org \in Orgs /\ req[r].role \in Roles
    /\ Accepting(r) => /\ req[r].invite \in Invites
                       /\ invite[req[r].invite].status # "unused"
                       /\ invite[req[r].invite].user = req[r].user
                       /\ invite[req[r].invite].org = req[r].org
    /\ At(r, "mark") => <<req[r].user, req[r].org, req[r].role>> \in granted
    /\ At(r, "mark") => Items(req[r].gain) \subseteq {req[r].org}
    /\ req[r].step \notin {"mark", "announce"} => req[r].gain = NoClaims
RequestsKnow == \A r \in Requests : RequestKnows(r)

\* An invitation that exists says who may join what, and members have the role
\* that they were given.
InvitesKnow ==
    \A t \in Invites : invite[t].status # "unused" =>
        invite[t].user \in Users /\ invite[t].org \in Orgs /\ invite[t].role \in Roles

MembersWereGranted ==
    \A u \in Users, o \in Orgs : member[u][o] # NoRole => <<u, o, member[u][o]>> \in granted

\* A job at work has a person and, from reading the claims to writing them,
\* their lock; so the claims it has read are still those of the person.
JobsKnow ==
    \A j \in Jobs :
        /\ job[j].step = "rest" => job[j] = NoWork
        /\ job[j].step # "rest" => job[j].user \in Users
        /\ job[j].step \in {"load", "get", "set"} => lock[job[j].user] = j
        /\ job[j].step = "set" => job[j].read = claims[job[j].user]

\* What is announced, and what is on its way to the claims, was earned.
GainsAreEarned ==
    /\ \A r \in Requests : ~At(r, "rest") => Earned(req[r].user, req[r].gain)
    /\ \A j \in Jobs : job[j].step # "rest" => Earned(job[j].user, job[j].gain)

\* Whatever the rebuild has not loaded, because it is younger, is on its way.
Covered(u, i) == Announced(u, i) \/ <<u, i>> \in lost
RebuildsHold ==
    job[Round].step \in {"get", "set"} =>
        \A i \in Items(Truth(job[Round].user)) :
            i \in Items(job[Round].gain) \/ Covered(job[Round].user, i)

IInv ==
    /\ TypeOK
    /\ RequestsKnow /\ InvitesKnow /\ MembersWereGranted /\ AcceptedInviteWasHonoured
    /\ JobsKnow
    /\ RebuildsHold /\ UpdatesAreNotLost
    /\ GainsAreEarned /\ ClaimsAreEarned

-----------------------------------------------------------------------------
(* Claims *)

LEMMA NoClaimsNameNothing == NoClaims \in ClaimRecords /\ Items(NoClaims) = {}
BY AccessAssumption DEF NoClaims, ClaimRecords, Items

LEMMA NoClaimsAreEarned == \A u : Earned(u, NoClaims)
BY DEF Earned, NoClaims

LEMMA RolesNameTheirOrg ==
  ASSUME NEW o \in Orgs, NEW role \in Roles
  PROVE  RoleIn(o, role) \in ClaimRecords /\ Items(RoleIn(o, role)) = {o}
<1>1. RoleIn(o, role) = [roles |-> [p \in Orgs |-> IF p = o THEN role ELSE NoRole], festivals |-> {}]
  BY DEF RoleIn, NoClaims
<1>2. role # NoRole
  BY AccessAssumption
<1> QED BY <1>1, <1>2 DEF ClaimRecords, Items

LEMMA VolunteersHaveNoRole ==
  ASSUME NEW f
  PROVE  VolunteerFor(f) = [roles |-> [p \in Orgs |-> NoRole], festivals |-> {f}]
<1> DEFINE none == [p \in Orgs |-> NoRole]
<1>1. VolunteerFor(f) = [[roles |-> none, festivals |-> {}] EXCEPT !.festivals = {f}]
  BY DEF VolunteerFor, NoClaims
<1>2. [[roles |-> none, festivals |-> {}] EXCEPT !.festivals = {f}] = [roles |-> none, festivals |-> {f}]
  <2> HIDE DEF none
  <2> QED OBVIOUS
<1> QED BY <1>1, <1>2

LEMMA VolunteersNameTheirFestival ==
  ASSUME NEW f \in Festivals
  PROVE  VolunteerFor(f) \in ClaimRecords /\ Items(VolunteerFor(f)) = {f}
BY VolunteersHaveNoRole DEF ClaimRecords, Items

\* setOrgRole() and addVolunteerFestival() keep what they find.
LEMMA MergesKeepBoth ==
  ASSUME NEW read \in ClaimRecords, NEW gain \in ClaimRecords
  PROVE  /\ Merge(read, gain) \in ClaimRecords
         /\ Items(Merge(read, gain)) = Items(read) \cup Items(gain)
<1>1. Merge(read, gain) \in ClaimRecords
  BY DEF Merge, ClaimRecords
<1>2. \A o \in Orgs : Merge(read, gain).roles[o] # NoRole <=>
                          read.roles[o] # NoRole \/ gain.roles[o] # NoRole
  BY DEF Merge
<1>3. Merge(read, gain).festivals = read.festivals \cup gain.festivals
  BY DEF Merge
<1> QED BY <1>1, <1>2, <1>3 DEF Items

LEMMA TruthIsClaims ==
  ASSUME TypeOK, NEW u \in Users
  PROVE  Truth(u) \in ClaimRecords
BY DEF TypeOK, Truth, ClaimRecords

LEMMA ItemsAreNamed ==
  ASSUME NEW c \in ClaimRecords
  PROVE  Items(c) \subseteq Orgs \cup Festivals
BY DEF Items, ClaimRecords

LEMMA NewClaimsAreClaims ==
  ASSUME TypeOK, NEW j \in Jobs
  PROVE  NewClaims(j) \in ClaimRecords
<1>1. job[j].gain \in ClaimRecords /\ job[j].read \in ClaimRecords
  BY DEF TypeOK, JobRecords
<1> QED BY <1>1, MergesKeepBoth DEF NewClaims

LEMMA RestIsTyped == NoRequest \in RequestRecords /\ NoWork \in JobRecords
BY NoClaimsNameNothing DEF NoRequest, RequestRecords, NoWork, JobRecords

LEMMA AnnouncersAreTyped ==
  ASSUME NEW u \in Users, NEW gain \in ClaimRecords
  PROVE  Announcing(u, gain) \in RequestRecords
BY RestIsTyped DEF Announcing, RequestRecords

\* An announcement, whatever it was made for.
LEMMA AnnouncersAnnounce ==
  ASSUME NEW u, NEW gain
  PROVE  /\ Announcing(u, gain).step = "announce"
         /\ Announcing(u, gain).user = u
         /\ Announcing(u, gain).gain = gain
BY DEF Announcing, NoRequest

LEMMA IInvInit == Init => IInv
<1> SUFFICES ASSUME Init PROVE IInv
  OBVIOUS
<1> USE AccessAssumption DEF Init
<1>1. TypeOK
  BY NoClaimsNameNothing, RestIsTyped DEF TypeOK, InviteRecords
<1>2. /\ \A r \in Requests : At(r, "rest") /\ req[r].gain = NoClaims /\ ~Accepting(r)
      /\ \A j \in Jobs : job[j] = NoWork /\ job[j].step = "rest"
  BY DEF At, NoRequest, NoWork, Accepting
<1>3. RequestsKnow /\ InvitesKnow /\ MembersWereGranted /\ AcceptedInviteWasHonoured
  BY <1>2 DEF RequestsKnow, RequestKnows, InvitesKnow, MembersWereGranted, AcceptedInviteWasHonoured, At
<1>4. JobsKnow /\ RebuildsHold
  BY <1>2 DEF JobsKnow, RebuildsHold, Jobs
<1>5. \A u \in Users : Items(Truth(u)) = {}
  BY DEF Truth, Items
<1>6. UpdatesAreNotLost
  BY <1>5 DEF UpdatesAreNotLost
<1>7. GainsAreEarned /\ ClaimsAreEarned
  BY <1>2, NoClaimsAreEarned DEF GainsAreEarned, ClaimsAreEarned
<1> QED BY <1>1, <1>3, <1>4, <1>6, <1>7 DEF IInv

(***************************************************************************)
(* Types.                                                                  *)
(***************************************************************************)
LEMMA TypesStep == IInv /\ [Next]_vars => TypeOK'
<1> SUFFICES ASSUME IInv, [Next]_vars PROVE TypeOK'
  OBVIOUS
<1> USE AccessAssumption DEF IInv
<1>1. CASE UNCHANGED vars
  BY <1>1 DEF vars, TypeOK
<1>2. ASSUME NEW u \in Users, SignIn(u) PROVE TypeOK'
  BY <1>2 DEF SignIn, TypeOK, firebase
<1>3. ASSUME NEW r \in Requests, NEW u \in Users, NEW o \in Orgs, Found(r, u, o) PROVE TypeOK'
  <2>1. [NoRequest EXCEPT !.step = "join", !.kind = "found", !.user = u, !.org = o, !.role = Admin]
            \in RequestRecords
    BY RestIsTyped DEF RequestRecords
  <2> QED BY <1>3, <2>1 DEF Found, TypeOK, firebase
<1>4. ASSUME NEW t \in Invites, NEW u \in Users, NEW o \in Orgs, NEW role \in Offered,
             CreateInvite(t, u, o, role)
      PROVE  TypeOK'
  <2>1. [status |-> "pending", org |-> o, user |-> u, role |-> role] \in InviteRecords
    BY DEF InviteRecords
  <2> QED BY <1>4, <2>1 DEF CreateInvite, TypeOK, firebase
<1>5. ASSUME NEW t \in Invites, CancelInvite(t) PROVE TypeOK'
  BY <1>5 DEF CancelInvite, TypeOK, firebase, InviteRecords
<1>6. ASSUME NEW u \in Users, NEW o \in Orgs, DeleteMembership(u, o) PROVE TypeOK'
  BY <1>6 DEF DeleteMembership, TypeOK, firebase
<1>7. ASSUME NEW r \in Requests, NEW t \in Invites, FindInvite(r, t) PROVE TypeOK'
  <2>1. invite[t] \in InviteRecords
    BY DEF TypeOK
  <2>2. [NoRequest EXCEPT !.step = "look", !.user = invite[t].user, !.org = invite[t].org,
            !.role = invite[t].role, !.invite = t, !.spent = (invite[t].status = "accepted")]
            \in RequestRecords
    BY <2>1, RestIsTyped DEF RequestRecords, InviteRecords
  <2> QED BY <1>7, <2>2 DEF FindInvite, TypeOK, firebase, people
<1>8. ASSUME NEW r \in Requests, Answer(r) PROVE req' \in [Requests -> RequestRecords]
  BY <1>8, RestIsTyped DEF Answer, TypeOK
<1>9. ASSUME NEW r \in Requests, FindMembership(r) PROVE TypeOK'
  <2>1. req[r].user \in Users /\ req[r].org \in Orgs
    BY <1>9 DEF FindMembership, At, RequestsKnow, RequestKnows
  <2>2. member[req[r].user][req[r].org] \in Roles \cup {NoRole}
    BY <2>1 DEF TypeOK
  <2>3. req' \in [Requests -> RequestRecords]
    <3>1. req[r] \in RequestRecords
      BY DEF TypeOK
    <3>2. /\ [req[r] EXCEPT !.step = "join"] \in RequestRecords
          /\ [req[r] EXCEPT !.step = "mark", !.role = member[req[r].user][req[r].org]]
                 \in RequestRecords
      BY <2>2, <3>1 DEF RequestRecords
    <3>3. \/ Answer(r)
          \/ req' = [req EXCEPT ![r] = [req[r] EXCEPT !.step = "join"]]
          \/ req' = [req EXCEPT ![r] = [req[r] EXCEPT !.step = "mark",
                                            !.role = member[req[r].user][req[r].org]]]
      BY <1>9 DEF FindMembership, Go
    <3> QED BY <1>8, <3>2, <3>3 DEF TypeOK
  <2> QED BY <1>9, <2>1, <2>3 DEF FindMembership, TypeOK, firebase
<1>10. ASSUME NEW r \in Requests, Join(r) PROVE TypeOK'
  <2>1. req[r].user \in Users /\ req[r].org \in Orgs /\ req[r].role \in Roles
    BY <1>10 DEF Join, At, RequestsKnow, RequestKnows
  <2>2. RoleIn(req[r].org, req[r].role) \in ClaimRecords
    BY <2>1, RolesNameTheirOrg
  <2>3. req' \in [Requests -> RequestRecords]
    <3> DEFINE g == RoleIn(req[r].org, req[r].role)
    <3>1. req[r] \in RequestRecords
      BY DEF TypeOK
    <3>2. [req[r] EXCEPT !.step = "mark", !.gain = g] \in RequestRecords
      BY <2>2, <3>1 DEF RequestRecords
    <3>3. Announcing(req[r].user, g) \in RequestRecords
      BY <2>1, <2>2, AnnouncersAreTyped
    <3>4. \/ Answer(r)
          \/ req' = [req EXCEPT ![r] = Announcing(req[r].user, g)]
          \/ req' = [req EXCEPT ![r] = [req[r] EXCEPT !.step = "mark", !.gain = g]]
      BY <1>10 DEF Join, Tell
    <3> QED BY <1>8, <3>2, <3>3, <3>4 DEF TypeOK
  <2>4. member' \in [Users -> [Orgs -> Roles \cup {NoRole}]]
    <3>1. [member[req[r].user] EXCEPT ![req[r].org] = req[r].role] \in [Orgs -> Roles \cup {NoRole}]
      BY <2>1 DEF TypeOK
    <3>2. \/ member' = member
          \/ member' = [member EXCEPT ![req[r].user] =
                           [member[req[r].user] EXCEPT ![req[r].org] = req[r].role]]
      BY <1>10 DEF Join
    <3> QED BY <3>1, <3>2 DEF TypeOK
  <2>5. granted' \subseteq Users \X Orgs \X Roles
    BY <1>10, <2>1 DEF Join, TypeOK
  <2> QED BY <1>10, <2>3, <2>4, <2>5 DEF Join, TypeOK, firebase
<1>11. ASSUME NEW r \in Requests, Mark(r) PROVE TypeOK'
  <2>1. /\ req[r].user \in Users /\ req[r].org \in Orgs /\ req[r].role \in Roles
        /\ req[r].invite \in Invites
    BY <1>11 DEF Mark, At, RequestsKnow, RequestKnows, Accepting
  <2>2. RoleIn(req[r].org, req[r].role) \in ClaimRecords
    BY <2>1, RolesNameTheirOrg
  <2>3. req' \in [Requests -> RequestRecords]
    <3>1. Announcing(req[r].user, RoleIn(req[r].org, req[r].role)) \in RequestRecords
      BY <2>1, <2>2, AnnouncersAreTyped
    <3> QED BY <1>11, <3>1 DEF Mark, Tell, TypeOK
  <2>4. invite' \in [Invites -> InviteRecords]
    <3> DEFINE row == [invite[req[r].invite] EXCEPT !.status = "accepted"]
    <3>1. row \in InviteRecords
      <4>1. invite[req[r].invite] \in InviteRecords
        BY <2>1 DEF TypeOK
      <4> QED BY <4>1 DEF InviteRecords
    <3>2. invite' = invite \/ invite' = [invite EXCEPT ![req[r].invite] = row]
      BY <1>11 DEF Mark
    <3> QED BY <3>1, <3>2 DEF TypeOK
  <2> QED BY <1>11, <2>3, <2>4 DEF Mark, TypeOK, firebase
<1>12. ASSUME NEW r \in Requests, NEW u \in Users, NEW f \in Festivals, Enroll(r, u, f) PROVE TypeOK'
  <2>1. Announcing(u, VolunteerFor(f)) \in RequestRecords
    BY VolunteersNameTheirFestival, AnnouncersAreTyped
  <2>2. volunteer' \in [Users -> SUBSET Festivals]
    BY <1>12 DEF Enroll, TypeOK
  <2> QED BY <1>12, <2>1, <2>2 DEF Enroll, TypeOK, firebase
<1>13. ASSUME NEW r \in Requests, Announce(r) PROVE TypeOK'
  <2>1. Attempt(req[r].user, req[r].gain, 0) \in JobRecords
    BY NoClaimsNameNothing DEF JobRecords, Attempt, TypeOK, RequestRecords
  <2>2. r \in Jobs
    BY DEF Jobs
  <2>3. job' \in [Jobs -> JobRecords]
    BY <1>13, <2>1, <2>2 DEF Announce, TypeOK
  <2> QED BY <1>8, <1>13, <2>3 DEF Announce, TypeOK, people
<1>14. ASSUME NEW j \in Jobs, NEW step \in {"rest", "begin", "lock", "load", "get", "set"},
              Continue(j, step)
       PROVE  job' \in [Jobs -> JobRecords]
  BY <1>14 DEF Continue, TypeOK, JobRecords
<1>15. ASSUME NEW j \in Jobs, Begin(j) PROVE TypeOK'
  BY <1>14, <1>15 DEF Begin, TypeOK, people
<1>16. ASSUME NEW j \in Jobs, Lock(j) PROVE TypeOK'
  BY <1>14, <1>16 DEF Lock, TypeOK, people
<1>17. ASSUME Load PROVE TypeOK'
  <2>1. Round \in Jobs /\ job[Round].user \in Users
    BY <1>17 DEF Load, Jobs, JobsKnow, Working
  <2>2. Truth(job[Round].user) \in ClaimRecords
    BY <2>1, TruthIsClaims
  <2>3. job' \in [Jobs -> JobRecords]
    <3> DEFINE k == [job[Round] EXCEPT !.step = "get", !.gain = Truth(job[Round].user)]
    <3>1. job[Round] \in JobRecords
      BY <2>1 DEF TypeOK
    <3>2. k \in JobRecords
      BY <2>2, <3>1 DEF JobRecords
    <3>3. job' = [job EXCEPT ![Round] = k]
      BY <1>17 DEF Load
    <3> QED BY <3>2, <3>3 DEF TypeOK
  <2> QED BY <1>17, <2>3 DEF Load, TypeOK, people
<1>18. ASSUME NEW j \in Jobs, Get(j) PROVE TypeOK'
  <2>1. job[j].user \in Users
    BY <1>18 DEF Get, JobsKnow, Working
  <2>2. job' \in [Jobs -> JobRecords]
    <3> DEFINE k == [job[j] EXCEPT !.step = "set", !.read = claims[job[j].user]]
    <3>1. job[j] \in JobRecords /\ claims[job[j].user] \in ClaimRecords
      BY <2>1 DEF TypeOK
    <3>2. k \in JobRecords
      BY <3>1 DEF JobRecords
    <3>3. job' = [job EXCEPT ![j] = k]
      BY <1>18 DEF Get
    <3> QED BY <3>2, <3>3 DEF TypeOK
  <2> QED BY <1>18, <2>2 DEF Get, TypeOK, people
<1>19. ASSUME NEW j \in Jobs PROVE Unlock(j) \in [Users -> Jobs \cup {NoJob}]
  BY DEF Unlock, TypeOK
<1>20. ASSUME NEW j \in Jobs, Set(j) PROVE TypeOK'
  <2>1. NewClaims(j) \in ClaimRecords
    BY NewClaimsAreClaims
  <2>2. claims' \in [Users -> ClaimRecords]
    BY <1>20, <2>1 DEF Set, TypeOK
  <2>3. lost' \subseteq Users \X (Orgs \cup Festivals)
    BY <1>20 DEF Set, StillLost, TypeOK
  <2>4. job' \in [Jobs -> JobRecords]
    BY <1>20, RestIsTyped DEF Set, TypeOK
  <2> QED BY <1>19, <1>20, <2>2, <2>3, <2>4 DEF Set, TypeOK, people
<1>21. ASSUME NEW j \in Jobs, Fail(j) PROVE TypeOK'
  <2>1. NewClaims(j) \in ClaimRecords
    BY NewClaimsAreClaims
  <2>2. claims' \in [Users -> ClaimRecords]
    BY <1>21, <2>1 DEF Fail, TypeOK
  <2>3. job[j].gain \in ClaimRecords /\ job[j].user \in Users /\ job[j].attempts \in Nat
    BY <1>21 DEF TypeOK, JobRecords, Fail, JobsKnow
  <2>4. Attempt(job[j].user, job[j].gain, job[j].attempts + 1) \in JobRecords
    BY <2>3, NoClaimsNameNothing DEF JobRecords, Attempt
  <2>5. job' \in [Jobs -> JobRecords]
    BY <1>21, <2>4, RestIsTyped DEF Fail, TypeOK
  <2>6. Items(job[j].gain) \subseteq Orgs \cup Festivals
    BY <2>3, ItemsAreNamed
  <2>7. GiveUp(j) \subseteq Users \X (Orgs \cup Festivals)
    BY <2>3, <2>6 DEF GiveUp, TypeOK
  <2>8. lost' \subseteq Users \X (Orgs \cup Festivals)
    BY <1>21, <2>7 DEF Fail, TypeOK
  <2>9. lock' \in [Users -> Jobs \cup {NoJob}] /\ faults' \in Nat
    BY <1>19, <1>21 DEF Fail, TypeOK
  <2> QED BY <1>21, <2>2, <2>5, <2>8, <2>9 DEF Fail, TypeOK, people
<1>22. ASSUME StartRound PROVE TypeOK'
  BY <1>22 DEF StartRound, TypeOK, people, firebase
<1>23. ASSUME NEW u \in Users, RebuildNext(u) PROVE TypeOK'
  <2>1. Attempt(u, NoClaims, 0) \in JobRecords
    BY NoClaimsNameNothing DEF JobRecords, Attempt
  <2> QED BY <1>23, <2>1 DEF RebuildNext, TypeOK, people
<1>24. ASSUME NEW r \in Requests PROVE Unannounced(r) \subseteq Users \X (Orgs \cup Festivals)
  <2>1. req[r].gain \in ClaimRecords
    BY DEF TypeOK, RequestRecords
  <2>2. req[r].step \in {"mark", "announce"} => req[r].user \in Users
    BY DEF RequestsKnow, RequestKnows, At
  <2> QED BY <2>1, <2>2, ItemsAreNamed DEF Unannounced
<1>25. ASSUME NEW r \in Requests, Throw(r) PROVE TypeOK'
  BY <1>8, <1>24, <1>25 DEF Throw, TypeOK, people, firebase
<1>26. ASSUME Restart PROVE TypeOK'
  <2>1. \A r \in Requests : ~Working(r, "rest") =>
            job[r].user \in Users /\ Items(job[r].gain) \subseteq Orgs \cup Festivals
    <3>1. \A r \in Requests : r \in Jobs /\ job[r].gain \in ClaimRecords
      BY DEF TypeOK, JobRecords, Jobs
    <3> QED BY <3>1, ItemsAreNamed DEF JobsKnow, Working
  <2>2. lost' \subseteq Users \X (Orgs \cup Festivals)
    <3>1. \A r \in Requests :
              Unannounced(r) \cup Unwritten(r) \subseteq Users \X (Orgs \cup Festivals)
      BY <1>24, <2>1 DEF Unwritten
    <3>2. UNION {Unannounced(r) \cup Unwritten(r) : r \in Requests}
              \subseteq Users \X (Orgs \cup Festivals)
      BY <3>1
    <3> QED BY <1>26, <3>2 DEF Restart, TypeOK
  <2> QED BY <1>26, <2>2, RestIsTyped DEF Restart, TypeOK, people
<1> QED
  BY <1>1, <1>2, <1>3, <1>4, <1>5, <1>6, <1>7, <1>9, <1>10, <1>11, <1>12, <1>13, <1>15, <1>16,
     <1>17, <1>18, <1>20, <1>21, <1>22, <1>23, <1>25, <1>26
  DEF Next, AdminStep, RoundStep, PersonStep, RequestStep, JobStep, Jobs

(***************************************************************************)
(* Requests, invitations and memberships.                                  *)
(***************************************************************************)
\* Invitations keep their person and organization for good.
InvitesStand ==
    \A t \in Invites : invite[t].status # "unused" =>
        /\ invite'[t].status # "unused"
        /\ invite'[t].user = invite[t].user
        /\ invite'[t].org = invite[t].org

LEMMA OthersKeepKnowing ==
  ASSUME NEW q \in Requests, RequestKnows(q), InvitesStand,
         req'[q] = req[q], At(q, "rest") \/ job'[q] = job[q], granted \subseteq granted'
  PROVE  RequestKnows(q)'
BY DEF RequestKnows, InvitesStand, At, Accepting

LEMMA RestingKnows ==
  ASSUME NEW q \in Requests, req'[q] = NoRequest
  PROVE  RequestKnows(q)'
BY DEF RequestKnows, At, Accepting, NoRequest

\* A request at work has no job, and so a job that moves belongs to a request
\* at rest, or to the round.
LEMMA WorkersRest ==
  ASSUME IInv, NEW r \in Requests, job[r].step # "rest"
  PROVE  At(r, "rest")
<1>1. RequestKnows(r)
  BY DEF IInv, RequestsKnow
<1>2. ~At(r, "rest") => job[r] = NoWork
  BY <1>1 DEF RequestKnows
<1>3. NoWork.step = "rest"
  BY DEF NoWork
<1> QED BY <1>2, <1>3

LEMMA RequestsStep == IInv /\ [Next]_vars => RequestsKnow'
<1> SUFFICES ASSUME IInv, [Next]_vars PROVE RequestsKnow'
  OBVIOUS
<1> USE AccessAssumption
<1>t. TypeOK /\ RequestsKnow
  BY DEF IInv
\* A step in which requests only come to rest, and jobs move of those at rest.
<1>1. ASSUME InvitesStand, granted \subseteq granted',
             \A q \in Requests : req'[q] = req[q] \/ req'[q] = NoRequest,
             \A q \in Requests : req'[q] = NoRequest \/ At(q, "rest") \/ job'[q] = job[q]
      PROVE  RequestsKnow'
  BY <1>1, <1>t, OthersKeepKnowing, RestingKnows DEF RequestsKnow
\* A step of request r.
<1>2. ASSUME NEW r \in Requests, InvitesStand, granted \subseteq granted', job' = job,
             \A q \in Requests : q # r => req'[q] = req[q], RequestKnows(r)'
      PROVE  RequestsKnow'
  <2>1. ASSUME NEW q \in Requests PROVE RequestKnows(q)'
    <3>1. CASE q = r
      BY <1>2, <3>1
    <3>2. CASE q # r
      BY <1>2, <1>t, <3>2, OthersKeepKnowing DEF RequestsKnow
    <3> QED BY <3>1, <3>2
  <2> QED BY <2>1 DEF RequestsKnow
<1>3. ASSUME invite' = invite PROVE InvitesStand
  BY <1>3 DEF InvitesStand
<1>4. ASSUME NEW r \in Requests, Answer(r)
      PROVE  \A q \in Requests : req'[q] = req[q] \/ req'[q] = NoRequest
  BY <1>4, <1>t DEF Answer, TypeOK
<1>5. ASSUME NEW r \in Requests, NEW k, req' = [req EXCEPT ![r] = k]
      PROVE  req'[r] = k /\ \A q \in Requests : q # r => req'[q] = req[q]
  BY <1>5, <1>t DEF TypeOK
<1>6. ASSUME NEW r \in Requests, Resting(r) PROVE job[r] = NoWork
  BY <1>6 DEF Resting, IInv, JobsKnow, Jobs
<1>7. CASE UNCHANGED vars
  BY <1>1, <1>3, <1>7 DEF vars
<1>8. ASSUME NEW u \in Users, SignIn(u) PROVE RequestsKnow'
  BY <1>1, <1>3, <1>8 DEF SignIn, firebase
<1>9. ASSUME NEW r \in Requests, NEW u \in Users, NEW o \in Orgs, Found(r, u, o) PROVE RequestsKnow'
  <2> DEFINE k == [NoRequest EXCEPT !.step = "join", !.kind = "found", !.user = u, !.org = o,
                                    !.role = Admin]
  <2>1. req'[r] = k /\ \A q \in Requests : q # r => req'[q] = req[q]
    BY <1>5, <1>9 DEF Found
  <2>2. job[r] = NoWork /\ job' = job
    BY <1>6, <1>9 DEF Found, firebase
  <2>3. k.step = "join" /\ k.kind = "found" /\ k.user = u /\ k.org = o /\ k.role = Admin
        /\ k.gain = NoClaims
    BY DEF NoRequest
  <2> HIDE DEF k
  <2>4. RequestKnows(r)'
    BY <2>1, <2>2, <2>3 DEF RequestKnows, At, Accepting
  <2> QED BY <1>2, <1>3, <1>9, <2>1, <2>2, <2>4 DEF Found
<1>10. ASSUME NEW t \in Invites, NEW u \in Users, NEW o \in Orgs, NEW role \in Offered,
              CreateInvite(t, u, o, role)
       PROVE  RequestsKnow'
  <2>1. InvitesStand
    BY <1>10, <1>t DEF CreateInvite, InvitesStand, TypeOK
  <2> QED BY <1>1, <1>10, <2>1 DEF CreateInvite, firebase
<1>11. ASSUME NEW t \in Invites, CancelInvite(t) PROVE RequestsKnow'
  <2>1. InvitesStand
    BY <1>11, <1>t DEF CancelInvite, InvitesStand, TypeOK, InviteRecords
  <2> QED BY <1>1, <1>11, <2>1 DEF CancelInvite, firebase
<1>12. ASSUME NEW u \in Users, NEW o \in Orgs, DeleteMembership(u, o) PROVE RequestsKnow'
  BY <1>1, <1>3, <1>12 DEF DeleteMembership, firebase
<1>13. ASSUME NEW r \in Requests, NEW t \in Invites, FindInvite(r, t) PROVE RequestsKnow'
  <2> DEFINE k == [NoRequest EXCEPT
             !.step = "look", !.user = invite[t].user, !.org = invite[t].org,
             !.role = invite[t].role, !.invite = t, !.spent = (invite[t].status = "accepted")]
  <2>1. req'[r] = k /\ \A q \in Requests : q # r => req'[q] = req[q]
    BY <1>5, <1>13 DEF FindInvite
  <2>2. job[r] = NoWork /\ job' = job /\ invite' = invite /\ granted' = granted
    BY <1>6, <1>13 DEF FindInvite, firebase, people
  <2>3. k.step = "look" /\ k.user = invite[t].user /\ k.org = invite[t].org
        /\ k.role = invite[t].role /\ k.invite = t /\ k.gain = NoClaims
    BY DEF NoRequest
  <2>4. /\ invite[t].status # "unused"
        /\ invite[t].user \in Users /\ invite[t].org \in Orgs /\ invite[t].role \in Roles
    BY <1>13 DEF FindInvite, IInv, InvitesKnow
  <2> HIDE DEF k
  <2>5. RequestKnows(r)'
    BY <2>1, <2>2, <2>3, <2>4 DEF RequestKnows, At, Accepting
  <2> QED BY <1>2, <1>3, <2>1, <2>2, <2>5
<1>14. ASSUME NEW r \in Requests, FindMembership(r) PROVE RequestsKnow'
  <2> DEFINE role == member[req[r].user][req[r].org]
  <2>1. invite' = invite /\ granted' = granted /\ job' = job /\ InvitesStand
    BY <1>3, <1>14 DEF FindMembership, firebase
  <2>2. CASE Answer(r)
    BY <1>1, <1>4, <2>1, <2>2
  <2>3. req[r].user \in Users /\ req[r].org \in Orgs /\ At(r, "look") /\ RequestKnows(r)
    BY <1>14, <1>t DEF FindMembership, RequestsKnow, RequestKnows, At
  <2>4. req[r] \in RequestRecords
    BY <1>t DEF TypeOK
  <2>5. CASE Go(r, "join")
    <3>1. req'[r] = [req[r] EXCEPT !.step = "join"] /\ \A q \in Requests : q # r => req'[q] = req[q]
      BY <1>5, <2>5 DEF Go
    <3>2. RequestKnows(r)'
      BY <2>1, <2>3, <2>4, <3>1 DEF RequestKnows, At, Accepting, RequestRecords
    <3> QED BY <1>2, <2>1, <3>1, <3>2
  <2>6. CASE role # NoRole /\ req' = [req EXCEPT ![r] = [req[r] EXCEPT !.step = "mark", !.role = role]]
    <3>1. req'[r] = [req[r] EXCEPT !.step = "mark", !.role = role]
          /\ \A q \in Requests : q # r => req'[q] = req[q]
      BY <1>5, <2>6
    <3>2. role \in Roles /\ <<req[r].user, req[r].org, role>> \in granted
      BY <1>t, <2>3, <2>6 DEF TypeOK, IInv, MembersWereGranted
    <3> HIDE DEF role
    <3>3. /\ req'[r].step = "mark" /\ req'[r].role = role /\ req'[r].user = req[r].user
          /\ req'[r].org = req[r].org /\ req'[r].invite = req[r].invite
          /\ req'[r].gain = req[r].gain
      BY <2>4, <3>1 DEF RequestRecords
    <3>4. req[r].gain = NoClaims
      BY <2>3 DEF RequestKnows, At
    <3>5. RequestKnows(r)'
      BY <2>1, <2>3, <3>2, <3>3, <3>4, NoClaimsNameNothing DEF RequestKnows, At, Accepting
    <3> QED BY <1>2, <2>1, <3>1, <3>5
  <2> QED BY <1>14, <2>2, <2>5, <2>6 DEF FindMembership
<1>15. ASSUME NEW r \in Requests, Join(r) PROVE RequestsKnow'
  <2> DEFINE g == RoleIn(req[r].org, req[r].role)
  <2>1. invite' = invite /\ granted \subseteq granted' /\ job' = job /\ InvitesStand
    BY <1>3, <1>15 DEF Join, firebase
  <2>2. CASE Answer(r)
    BY <1>1, <1>4, <2>1, <2>2
  <2>3. /\ req[r].user \in Users /\ req[r].org \in Orgs /\ req[r].role \in Roles
        /\ At(r, "join") /\ RequestKnows(r)
    BY <1>15, <1>t DEF Join, RequestsKnow, RequestKnows, At
  <2>4. req[r] \in RequestRecords
    BY <1>t DEF TypeOK
  <2>5. CASE req' = [req EXCEPT ![r] = Announcing(req[r].user, g)]
    <3>1. req'[r] = Announcing(req[r].user, g) /\ \A q \in Requests : q # r => req'[q] = req[q]
      BY <1>5, <2>5
    <3>2. RequestKnows(r)'
      BY <2>1, <2>3, <3>1, AnnouncersAnnounce DEF RequestKnows, At, Accepting
    <3> QED BY <1>2, <2>1, <3>1, <3>2
  <2>6. CASE /\ req[r].kind = "accept"
             /\ granted' = granted \cup {<<req[r].user, req[r].org, req[r].role>>}
             /\ req' = [req EXCEPT ![r] = [req[r] EXCEPT !.step = "mark", !.gain = g]]
    <3>1. req'[r] = [req[r] EXCEPT !.step = "mark", !.gain = g]
          /\ \A q \in Requests : q # r => req'[q] = req[q]
      BY <1>5, <2>6
    <3>2. Items(g) = {req[r].org}
      BY <2>3, RolesNameTheirOrg
    <3> HIDE DEF g
    <3>3. /\ req'[r].step = "mark" /\ req'[r].role = req[r].role /\ req'[r].user = req[r].user
          /\ req'[r].org = req[r].org /\ req'[r].invite = req[r].invite /\ req'[r].gain = g
      BY <2>4, <3>1 DEF RequestRecords
    <3>4. Accepting(r)
      BY <2>3, <2>6 DEF Accepting
    <3>5. RequestKnows(r)'
      BY <2>1, <2>3, <2>6, <3>2, <3>3, <3>4 DEF RequestKnows, At, Accepting
    <3> QED BY <1>2, <2>1, <3>1, <3>5
  <2> QED BY <1>15, <2>2, <2>5, <2>6 DEF Join, Tell
<1>16. ASSUME NEW r \in Requests, Mark(r) PROVE RequestsKnow'
  <2> DEFINE g == RoleIn(req[r].org, req[r].role)
  <2>1. granted' = granted /\ job' = job
    BY <1>16 DEF Mark, firebase
  <2>2. InvitesStand
    BY <1>16, <1>t DEF Mark, InvitesStand, TypeOK, InviteRecords
  <2>3. req[r].user \in Users /\ job[r] = NoWork /\ req[r] \in RequestRecords
    BY <1>16, <1>t DEF Mark, RequestsKnow, RequestKnows, At, TypeOK
  <2>4. req' = [req EXCEPT ![r] = Announcing(req[r].user, g)]
    BY <1>16 DEF Mark, Tell
  <2>5. req'[r] = Announcing(req[r].user, g) /\ \A q \in Requests : q # r => req'[q] = req[q]
    BY <1>5, <2>4
  <2>6. req'[r].step = "announce" /\ req'[r].user = req[r].user
    BY <2>5, AnnouncersAnnounce
  <2>7. RequestKnows(r)'
    BY <2>1, <2>3, <2>6 DEF RequestKnows, At, Accepting
  <2> QED BY <1>2, <2>1, <2>2, <2>5, <2>7
<1>17. ASSUME NEW r \in Requests, NEW u \in Users, NEW f \in Festivals, Enroll(r, u, f)
       PROVE  RequestsKnow'
  <2> DEFINE k == Announcing(u, VolunteerFor(f))
  <2>1. req'[r] = k /\ \A q \in Requests : q # r => req'[q] = req[q]
    BY <1>5, <1>17 DEF Enroll
  <2>2. job[r] = NoWork /\ job' = job /\ invite' = invite /\ granted' = granted
    BY <1>6, <1>17 DEF Enroll, firebase
  <2>3. k.step = "announce" /\ k.user = u
    BY AnnouncersAnnounce
  <2> HIDE DEF k
  <2>4. RequestKnows(r)'
    BY <2>1, <2>2, <2>3 DEF RequestKnows, At, Accepting
  <2> QED BY <1>2, <1>3, <2>1, <2>2, <2>4
<1>18. ASSUME NEW r \in Requests, Announce(r) PROVE RequestsKnow'
  <2>1. \A q \in Requests : q # r => job'[q] = job[q]
    BY <1>18, <1>t DEF Announce, TypeOK, Jobs
  <2>2. req'[r] = NoRequest
    BY <1>18, <1>t DEF Announce, Answer, TypeOK
  <2>3. invite' = invite /\ granted' = granted
    BY <1>18 DEF Announce, people
  <2>4. \A q \in Requests : req'[q] = req[q] \/ req'[q] = NoRequest
    BY <1>4, <1>18 DEF Announce
  <2> QED BY <1>1, <1>3, <2>1, <2>2, <2>3, <2>4
\* A step of job j changes nothing else that requests know.
<1>19. ASSUME NEW j \in Jobs, job[j].step # "rest", req' = req, invite' = invite, granted' = granted,
              NEW k, job' = [job EXCEPT ![j] = k]
       PROVE  RequestsKnow'
  <2>1. \A q \in Requests : At(q, "rest") \/ job'[q] = job[q]
    BY <1>19, <1>t, WorkersRest DEF TypeOK, Jobs
  <2> QED BY <1>1, <1>3, <1>19, <2>1
<1>20. ASSUME NEW j \in Jobs, Begin(j) \/ Lock(j) \/ Get(j) \/ Set(j) \/ Fail(j) PROVE RequestsKnow'
  <2>1. job[j].step # "rest" /\ req' = req /\ invite' = invite /\ granted' = granted
    BY <1>20 DEF Begin, Lock, Get, Set, Fail, Working, people
  <2>2. \E k : job' = [job EXCEPT ![j] = k]
    BY <1>20 DEF Begin, Lock, Get, Set, Fail, Continue
  <2> QED BY <1>19, <2>1, <2>2
<1>21. ASSUME Load PROVE RequestsKnow'
  <2>1. job[Round].step # "rest" /\ req' = req /\ invite' = invite /\ granted' = granted
    BY <1>21 DEF Load, Working, people
  <2>2. \E k : job' = [job EXCEPT ![Round] = k]
    BY <1>21 DEF Load
  <2> QED BY <1>19, <2>1, <2>2 DEF Jobs
<1>22. ASSUME StartRound PROVE RequestsKnow'
  BY <1>1, <1>3, <1>22 DEF StartRound, people, firebase
<1>23. ASSUME NEW u \in Users, RebuildNext(u) PROVE RequestsKnow'
  <2>1. \A q \in Requests : job'[q] = job[q]
    BY <1>23, <1>t DEF RebuildNext, TypeOK, Jobs
  <2> QED BY <1>1, <1>3, <1>23, <2>1 DEF RebuildNext, people
<1>24. ASSUME NEW r \in Requests, Throw(r) PROVE RequestsKnow'
  BY <1>1, <1>3, <1>4, <1>24 DEF Throw, people, firebase
<1>25. ASSUME Restart PROVE RequestsKnow'
  BY <1>25, RestingKnows DEF Restart, RequestsKnow
<1> QED
  BY <1>7, <1>8, <1>9, <1>10, <1>11, <1>12, <1>13, <1>14, <1>15, <1>16, <1>17, <1>18, <1>20,
     <1>21, <1>22, <1>23, <1>24, <1>25
  DEF Next, AdminStep, RoundStep, PersonStep, RequestStep, JobStep, Jobs

\* The rows: an invitation is marked by who has found the membership or made it.
LEMMA RowsStep == IInv /\ [Next]_vars => InvitesKnow' /\ MembersWereGranted' /\ AcceptedInviteWasHonoured'
<1> DEFINE Rows == InvitesKnow /\ MembersWereGranted /\ AcceptedInviteWasHonoured
<1> SUFFICES ASSUME IInv, [Next]_vars PROVE Rows'
  OBVIOUS
<1>t. TypeOK /\ RequestsKnow /\ Rows
  BY DEF IInv
<1>1. ASSUME invite' = invite, member' = member, granted' = granted PROVE Rows'
  BY <1>1, <1>t DEF InvitesKnow, MembersWereGranted, AcceptedInviteWasHonoured, HasJoined
<1>2. ASSUME NEW t \in Invites, NEW u \in Users, NEW o \in Orgs, NEW role \in Offered,
             CreateInvite(t, u, o, role)
      PROVE  Rows'
  <2>1. /\ invite'[t] = [status |-> "pending", org |-> o, user |-> u, role |-> role]
        /\ \A v \in Invites : v # t => invite'[v] = invite[v]
    BY <1>2, <1>t DEF CreateInvite, TypeOK
  <2>2. invite'[t].status = "pending" /\ invite'[t].org = o /\ invite'[t].user = u
        /\ invite'[t].role = role /\ role \in Roles /\ member' = member /\ granted' = granted
    BY <1>2, <2>1, AccessAssumption DEF CreateInvite
  <2>3. InvitesKnow'
    BY <1>t, <2>1, <2>2 DEF InvitesKnow
  <2>4. MembersWereGranted'
    BY <1>t, <2>2 DEF MembersWereGranted
  <2>5. AcceptedInviteWasHonoured'
    BY <1>t, <2>1, <2>2 DEF AcceptedInviteWasHonoured, HasJoined
  <2> QED BY <2>3, <2>4, <2>5
<1>3. ASSUME NEW t \in Invites, CancelInvite(t) PROVE Rows'
  <2>1. /\ invite'[t].status = "cancelled" /\ invite'[t].org = invite[t].org
        /\ invite'[t].user = invite[t].user /\ invite'[t].role = invite[t].role
        /\ \A v \in Invites : v # t => invite'[v] = invite[v]
        /\ member' = member /\ granted' = granted /\ invite[t].status = "pending"
    BY <1>3, <1>t DEF CancelInvite, TypeOK, InviteRecords
  <2>2. InvitesKnow'
    BY <1>t, <2>1 DEF InvitesKnow
  <2>3. MembersWereGranted'
    BY <1>t, <2>1 DEF MembersWereGranted
  <2>4. AcceptedInviteWasHonoured'
    BY <1>t, <2>1 DEF AcceptedInviteWasHonoured, HasJoined
  <2> QED BY <2>2, <2>3, <2>4
<1>4. ASSUME NEW u \in Users, NEW o \in Orgs, DeleteMembership(u, o) PROVE Rows'
  <2>1. invite' = invite /\ granted' = granted
        /\ \A v \in Users, p \in Orgs : member'[v][p] \in {member[v][p], NoRole}
    BY <1>4, <1>t DEF DeleteMembership, TypeOK
  <2> QED BY <1>t, <2>1 DEF InvitesKnow, MembersWereGranted, AcceptedInviteWasHonoured, HasJoined
<1>5. ASSUME NEW r \in Requests, Join(r) PROVE Rows'
  <2> DEFINE u == req[r].user  o == req[r].org
  <2>1. invite' = invite /\ granted \subseteq granted'
    BY <1>5 DEF Join
  <2>2. u \in Users /\ o \in Orgs
    BY <1>5, <1>t DEF Join, RequestsKnow, RequestKnows, At
  <2>3. \/ member' = member /\ granted' = granted
        \/ <<u, o, req[r].role>> \in granted' /\ member' = [member EXCEPT ![u][o] = req[r].role]
    BY <1>5 DEF Join
  <2> HIDE DEF u, o
  <2>4. \A v \in Users, p \in Orgs :
            \/ member'[v][p] = member[v][p]
            \/ v = u /\ p = o /\ <<v, p, member'[v][p]>> \in granted'
    <3>1. CASE member' = member
      BY <3>1
    <3>2. CASE /\ <<u, o, req[r].role>> \in granted'
               /\ member' = [member EXCEPT ![u][o] = req[r].role]
      <4>1. /\ member'[u][o] = req[r].role
            /\ \A v \in Users, p \in Orgs : v # u \/ p # o => member'[v][p] = member[v][p]
        BY <1>t, <2>2, <3>2 DEF TypeOK
      <4> QED BY <3>2, <4>1
    <3> QED BY <2>3, <3>1, <3>2
  <2>5. MembersWereGranted'
    BY <1>t, <2>1, <2>4 DEF MembersWereGranted
  <2> QED BY <1>t, <2>1, <2>5 DEF InvitesKnow, AcceptedInviteWasHonoured, HasJoined
<1>6. ASSUME NEW r \in Requests, Mark(r) PROVE Rows'
  <2> DEFINE t == req[r].invite
  <2>1. /\ t \in Invites /\ HasJoined(req[r].user, req[r].org)
        /\ invite[t].user = req[r].user /\ invite[t].org = req[r].org
        /\ invite[t].status # "unused"
    BY <1>6, <1>t DEF Mark, RequestsKnow, RequestKnows, Accepting, At, HasJoined
  <2>2. member' = member /\ granted' = granted
    BY <1>6 DEF Mark
  <2>3. invite' = invite \/ invite' = [invite EXCEPT ![t].status = "accepted"]
    BY <1>6 DEF Mark
  <2> HIDE DEF t
  <2>4. /\ \A v \in Invites : /\ invite'[v].user = invite[v].user
                               /\ invite'[v].org = invite[v].org
                               /\ invite'[v].role = invite[v].role
        /\ \A v \in Invites : v # t => invite'[v] = invite[v]
    BY <1>t, <2>1, <2>3 DEF TypeOK, InviteRecords
  <2>5. InvitesKnow'
    BY <1>t, <2>1, <2>4 DEF InvitesKnow
  <2>6. MembersWereGranted'
    BY <1>t, <2>2 DEF MembersWereGranted
  <2>7. AcceptedInviteWasHonoured'
    BY <1>t, <2>1, <2>2, <2>4 DEF AcceptedInviteWasHonoured, HasJoined
  <2> QED BY <2>5, <2>6, <2>7
<1>7. ASSUME \/ UNCHANGED vars
             \/ \E u \in Users : SignIn(u) \/ RebuildNext(u)
             \/ \E r \in Requests, u \in Users : \/ \E o \in Orgs : Found(r, u, o)
                                               \/ \E f \in Festivals : Enroll(r, u, f)
             \/ \E r \in Requests : \/ \E t \in Invites : FindInvite(r, t)
                                    \/ FindMembership(r) \/ Announce(r) \/ Throw(r)
             \/ \E j \in Jobs : Begin(j) \/ Lock(j) \/ Get(j) \/ Set(j) \/ Fail(j)
             \/ Load \/ StartRound \/ Restart
      PROVE  invite' = invite /\ member' = member /\ granted' = granted
  BY <1>7 DEF vars, people, SignIn, RebuildNext, Found, Enroll, FindInvite, FindMembership, Announce,
              Throw, Begin, Lock, Get, Set, Fail, Load, StartRound, Restart
<1> QED
  BY <1>1, <1>2, <1>3, <1>4, <1>5, <1>6, <1>7
  DEF Next, AdminStep, RoundStep, PersonStep, RequestStep, JobStep, Jobs

(***************************************************************************)
(* Jobs.                                                                   *)
(***************************************************************************)
JobKnows(j) ==
    /\ job[j].step = "rest" => job[j] = NoWork
    /\ job[j].step # "rest" => job[j].user \in Users
    /\ job[j].step \in {"load", "get", "set"} => lock[job[j].user] = j
    /\ job[j].step = "set" => job[j].read = claims[job[j].user]

\* A job that does not move keeps what it knows while its lock stays its own
\* and nobody else writes the claims of its person.
LEMMA OthersKeepWorking ==
  ASSUME TypeOK, NEW k \in Jobs, JobKnows(k), job'[k] = job[k],
         \A u \in Users : lock[u] = k => lock'[u] = k /\ claims'[u] = claims[u]
  PROVE  JobKnows(k)'
BY DEF JobKnows

LEMMA BeginnersKnow ==
  ASSUME NEW k \in Jobs, job'[k].step \in {"begin", "lock"}, job'[k].user \in Users
  PROVE  JobKnows(k)'
BY DEF JobKnows

LEMMA RestersKnow ==
  ASSUME NEW k \in Jobs, job'[k] = NoWork
  PROVE  JobKnows(k)'
BY DEF JobKnows, NoWork

LEMMA JobsStep == IInv /\ [Next]_vars => JobsKnow'
<1> SUFFICES ASSUME IInv, [Next]_vars PROVE JobsKnow'
  OBVIOUS
<1> USE AccessAssumption
<1>t. TypeOK /\ RequestsKnow /\ \A k \in Jobs : JobKnows(k)
  BY DEF IInv, JobsKnow, JobKnows
\* A step of job j.
<1>1. ASSUME NEW j \in Jobs, \A k \in Jobs : k # j => job'[k] = job[k], JobKnows(j)',
             \A u \in Users : lock[u] # j /\ lock[u] # NoJob =>
                 lock'[u] = lock[u] /\ claims'[u] = claims[u]
      PROVE  JobsKnow'
  <2>1. ASSUME NEW k \in Jobs PROVE JobKnows(k)'
    <3>1. CASE k = j
      BY <1>1, <3>1
    <3>2. CASE k # j
      BY <1>1, <1>t, <3>2, OthersKeepWorking
    <3> QED BY <3>1, <3>2
  <2> QED BY <2>1 DEF JobsKnow, JobKnows
<1>2. ASSUME job' = job, lock' = lock, claims' = claims PROVE JobsKnow'
  BY <1>2, <1>t, OthersKeepWorking DEF JobsKnow, JobKnows
<1>3. ASSUME NEW j \in Jobs, NEW k, job' = [job EXCEPT ![j] = k]
      PROVE  job'[j] = k /\ \A l \in Jobs : l # j => job'[l] = job[l]
  BY <1>3, <1>t DEF TypeOK
<1>4. ASSUME NEW j \in Jobs PROVE job[j] \in JobRecords
  BY <1>t DEF TypeOK
<1>5. ASSUME NEW j \in Jobs, lock' = Unlock(j)
      PROVE  \A u \in Users : lock[u] # j => lock'[u] = lock[u]
  BY <1>5 DEF Unlock
<1>6. ASSUME NEW r \in Requests, Announce(r) PROVE JobsKnow'
  <2>1. r \in Jobs /\ req[r].user \in Users /\ lock' = lock /\ claims' = claims
    BY <1>6, <1>t DEF Announce, Jobs, RequestsKnow, RequestKnows, At
  <2>2. job'[r] = Attempt(req[r].user, req[r].gain, 0) /\ \A l \in Jobs : l # r => job'[l] = job[l]
    BY <1>3, <1>6, <2>1 DEF Announce
  <2>3. JobKnows(r)'
    BY <2>1, <2>2, BeginnersKnow DEF Attempt
  <2> QED BY <1>1, <2>1, <2>2, <2>3
<1>7. ASSUME NEW j \in Jobs, Begin(j) PROVE JobsKnow'
  <2>1. job'[j] = [job[j] EXCEPT !.step = "lock"] /\ \A l \in Jobs : l # j => job'[l] = job[l]
    BY <1>3, <1>7 DEF Begin, Continue
  <2>2. lock' = lock /\ claims' = claims /\ job[j].user \in Users
    BY <1>7, <1>t DEF Begin, Working, JobKnows
  <2>3. JobKnows(j)'
    BY <1>4, <2>1, <2>2, BeginnersKnow DEF JobRecords
  <2> QED BY <1>1, <2>1, <2>2, <2>3
<1>8. ASSUME NEW j \in Jobs, Lock(j) PROVE JobsKnow'
  <2> DEFINE next == IF j = Round THEN "load" ELSE "get"
  <2>1. job'[j] = [job[j] EXCEPT !.step = next] /\ \A l \in Jobs : l # j => job'[l] = job[l]
    BY <1>3, <1>8 DEF Lock, Continue
  <2>2. job[j].user \in Users /\ lock[job[j].user] = NoJob /\ claims' = claims
        /\ lock' = [lock EXCEPT ![job[j].user] = j]
    BY <1>8, <1>t DEF Lock, Working, JobKnows
  <2>3. lock'[job[j].user] = j /\ \A u \in Users : u # job[j].user => lock'[u] = lock[u]
    BY <1>t, <2>2 DEF TypeOK
  <2>4. job'[j].user = job[j].user /\ job'[j].step \in {"load", "get"}
    BY <1>4, <2>1 DEF JobRecords
  <2>5. JobKnows(j)'
    BY <2>2, <2>3, <2>4 DEF JobKnows
  <2> QED BY <1>1, <2>1, <2>2, <2>3, <2>5
<1>9. ASSUME Load PROVE JobsKnow'
  <2> DEFINE g == Truth(job[Round].user)
  <2>1. Round \in Jobs
    BY DEF Jobs
  <2>2. job' = [job EXCEPT ![Round] = [job[Round] EXCEPT !.step = "get", !.gain = g]]
    BY <1>9 DEF Load
  <2>3. job'[Round] = [job[Round] EXCEPT !.step = "get", !.gain = g]
        /\ \A l \in Jobs : l # Round => job'[l] = job[l]
    BY <1>3, <2>1, <2>2
  <2> HIDE DEF g
  <2>4. job'[Round].step = "get" /\ job'[Round].user = job[Round].user
    BY <1>4, <2>1, <2>3 DEF JobRecords
  <2>5. lock' = lock /\ claims' = claims /\ job[Round].step = "load"
    BY <1>9 DEF Load, Working
  <2>6. JobKnows(Round)
    BY <1>t, <2>1
  <2>7. JobKnows(Round)'
    BY <2>4, <2>5, <2>6 DEF JobKnows
  <2> QED BY <1>1, <2>1, <2>3, <2>5, <2>7
<1>10. ASSUME NEW j \in Jobs, Get(j) PROVE JobsKnow'
  <2> DEFINE c == claims[job[j].user]
  <2>1. job' = [job EXCEPT ![j] = [job[j] EXCEPT !.step = "set", !.read = c]]
    BY <1>10 DEF Get
  <2>2. job'[j] = [job[j] EXCEPT !.step = "set", !.read = c] /\ \A l \in Jobs : l # j => job'[l] = job[l]
    BY <1>3, <2>1
  <2>3. lock' = lock /\ claims' = claims /\ job[j].step = "get" /\ c = claims[job[j].user]
    BY <1>10 DEF Get, Working
  <2> HIDE DEF c
  <2>4. job'[j].step = "set" /\ job'[j].user = job[j].user /\ job'[j].read = c
    BY <1>4, <2>2 DEF JobRecords
  <2>5. JobKnows(j)
    BY <1>t
  <2>6. JobKnows(j)'
    BY <2>3, <2>4, <2>5 DEF JobKnows
  <2> QED BY <1>1, <2>2, <2>3, <2>6
<1>11. ASSUME NEW j \in Jobs, Set(j) PROVE JobsKnow'
  <2>1. job'[j] = NoWork /\ \A l \in Jobs : l # j => job'[l] = job[l]
    BY <1>3, <1>11 DEF Set
  <2>2. job[j].user \in Users /\ lock[job[j].user] = j
    BY <1>11, <1>t DEF Set, Working, JobKnows
  <2>3. \A u \in Users : lock[u] # j => claims'[u] = claims[u]
    BY <1>11, <1>t, <2>2 DEF Set, TypeOK
  <2>4. \A u \in Users : lock[u] # j => lock'[u] = lock[u]
    BY <1>5, <1>11 DEF Set
  <2> QED BY <1>1, <2>1, <2>3, <2>4, RestersKnow
<1>12. ASSUME NEW j \in Jobs, Fail(j) PROVE JobsKnow'
  <2>1. \E k : job' = [job EXCEPT ![j] = k] /\ (k = NoWork
            \/ k = Attempt(job[j].user, job[j].gain, job[j].attempts + 1))
    BY <1>12 DEF Fail
  <2>2. /\ \/ job'[j] = NoWork
           \/ job'[j] = Attempt(job[j].user, job[j].gain, job[j].attempts + 1)
        /\ \A l \in Jobs : l # j => job'[l] = job[l]
    BY <1>3, <2>1
  <2>3. job[j].user \in Users
    BY <1>12, <1>t DEF Fail, JobKnows
  <2>4. JobKnows(j)'
    BY <2>2, <2>3, RestersKnow, BeginnersKnow DEF Attempt
  <2>5. claims' = claims
        \/ (job[j].step = "set" /\ claims' = [claims EXCEPT ![job[j].user] = NewClaims(j)])
    BY <1>12 DEF Fail, Working
  <2>6. job[j].step = "set" => lock[job[j].user] = j
    BY <1>t DEF JobKnows
  <2>7. \A u \in Users : lock[u] # j => claims'[u] = claims[u]
    BY <1>t, <2>3, <2>5, <2>6 DEF TypeOK
  <2>8. \A u \in Users : lock[u] # j => lock'[u] = lock[u]
    BY <1>5, <1>12 DEF Fail
  <2> QED BY <1>1, <2>2, <2>4, <2>7, <2>8
<1>13. ASSUME NEW u \in Users, RebuildNext(u) PROVE JobsKnow'
  <2>1. Round \in Jobs
    BY DEF Jobs
  <2>2. job'[Round] = Attempt(u, NoClaims, 0) /\ (\A l \in Jobs : l # Round => job'[l] = job[l])
        /\ lock' = lock /\ claims' = claims
    BY <1>3, <1>13, <2>1 DEF RebuildNext
  <2>3. JobKnows(Round)'
    BY <2>1, <2>2, BeginnersKnow DEF Attempt
  <2> QED BY <1>1, <2>1, <2>2, <2>3
<1>14. ASSUME Restart PROVE JobsKnow'
  BY <1>14, RestersKnow DEF Restart, JobsKnow, JobKnows
<1>15. ASSUME \/ UNCHANGED vars
              \/ \E u \in Users : SignIn(u)
              \/ AdminStep \/ StartRound
              \/ \E r \in Requests : PersonStep(r) \/ Throw(r)
              \/ \E r \in Requests : FindMembership(r) \/ Join(r) \/ Mark(r)
       PROVE  job' = job /\ lock' = lock /\ claims' = claims
  BY <1>15 DEF vars, people, firebase, SignIn, AdminStep, CreateInvite, CancelInvite,
               DeleteMembership, StartRound, PersonStep, Found, Enroll, FindInvite, Throw,
               FindMembership, Join, Mark
<1> QED
  BY <1>2, <1>6, <1>7, <1>8, <1>9, <1>10, <1>11, <1>12, <1>13, <1>14, <1>15
  DEF Next, RoundStep, RequestStep, JobStep, Jobs

(***************************************************************************)
(* Updates: what a request or its update owes to the claims is handed on   *)
(* until it is written or given up.                                        *)
(***************************************************************************)
Owes(r, u, i) ==
    \/ req[r].user = u /\ i \in Items(req[r].gain)
    \/ job[r].user = u /\ i \in Items(job[r].gain)

LEMMA DebtsAreKept ==
  ASSUME NEW u, NEW i, Covered(u, i), <<u, i>> \in lost => <<u, i>> \in lost',
         \A r \in Requests : Owes(r, u, i) => Owes(r, u, i)' \/ <<u, i>> \in lost'
  PROVE  Covered(u, i)'
BY DEF Covered, Announced, Owes

LEMMA OnlyAnnouncersOwe ==
  ASSUME IInv, NEW r \in Requests, req[r].step \notin {"mark", "announce"}
  PROVE  Items(req[r].gain) = {}
<1>1. req[r].gain = NoClaims
  BY DEF IInv, RequestsKnow, RequestKnows
<1> QED BY <1>1, NoClaimsNameNothing

LEMMA RestersOweNothing == Items(NoRequest.gain) = {} /\ Items(NoWork.gain) = {}
BY NoClaimsNameNothing DEF NoRequest, NoWork

\* Whatever is announced or given up stays so until it is written.
LEMMA CoverStays ==
  ASSUME IInv, [Next]_vars, NEW u, NEW i, Covered(u, i),
         \A j \in Jobs : Set(j) => job[j].user # u
  PROVE  Covered(u, i)'
<1> USE AccessAssumption
<1>t. TypeOK /\ RequestsKnow /\ JobsKnow
  BY DEF IInv
<1>1. ASSUME req' = req, \A r \in Requests : job'[r] = job[r], lost' = lost PROVE Covered(u, i)'
  BY <1>1, DebtsAreKept DEF Owes
<1>2. ASSUME NEW r \in Requests, NEW k, req' = [req EXCEPT ![r] = k], job' = job, lost' = lost,
             req[r].user = u /\ i \in Items(req[r].gain) => k.user = u /\ i \in Items(k.gain)
      PROVE  Covered(u, i)'
  <2>1. \A q \in Requests : Owes(q, u, i) => Owes(q, u, i)'
    <3>1. req'[r] = k /\ \A q \in Requests : q # r => req'[q] = req[q]
      BY <1>2, <1>t DEF TypeOK
    <3> QED BY <1>2, <3>1 DEF Owes
  <2> QED BY <1>2, <2>1, DebtsAreKept
<1>3. ASSUME NEW r \in Requests, NEW k, req' = [req EXCEPT ![r] = k], job' = job, lost' = lost,
             req[r].step \notin {"mark", "announce"}
      PROVE  Covered(u, i)'
  BY <1>2, <1>3, OnlyAnnouncersOwe
<1>4. ASSUME NEW r \in Requests,
             \/ \E v \in Users : \/ \E o \in Orgs : Found(r, v, o)
                               \/ \E f \in Festivals : Enroll(r, v, f)
             \/ \E t \in Invites : FindInvite(r, t)
             \/ FindMembership(r) \/ Join(r)
      PROVE  Covered(u, i)'
  <2>1. req[r].step \notin {"mark", "announce"}
    BY <1>4 DEF Found, Enroll, FindInvite, FindMembership, Join, Resting, At
  <2>2. job' = job /\ lost' = lost
    BY <1>4 DEF Found, Enroll, FindInvite, FindMembership, Join, firebase
  <2>3. \E k : req' = [req EXCEPT ![r] = k]
    BY <1>4 DEF Found, Enroll, FindInvite, FindMembership, Join, Go, Answer, Tell
  <2> QED BY <1>3, <2>1, <2>2, <2>3
<1>5. ASSUME NEW r \in Requests, Mark(r) PROVE Covered(u, i)'
  <2> DEFINE g == RoleIn(req[r].org, req[r].role)
             k == Announcing(req[r].user, g)
  <2>1. /\ req[r].org \in Orgs /\ req[r].role \in Roles /\ Items(req[r].gain) \subseteq {req[r].org}
        /\ req[r] \in RequestRecords
    BY <1>5, <1>t DEF Mark, RequestsKnow, RequestKnows, At, TypeOK
  <2>2. Items(g) = {req[r].org}
    BY <2>1, RolesNameTheirOrg
  <2>3. k.user = req[r].user /\ k.gain = g
    BY AnnouncersAnnounce
  <2>4. req' = [req EXCEPT ![r] = k] /\ job' = job /\ lost' = lost
    BY <1>5 DEF Mark, Tell, firebase
  <2> HIDE DEF k, g
  <2> QED BY <1>2, <2>1, <2>2, <2>3, <2>4
<1>6. ASSUME NEW r \in Requests, Announce(r) PROVE Covered(u, i)'
  <2>1. job[r] = NoWork
    BY <1>6, <1>t DEF Announce, RequestsKnow, RequestKnows, At
  <2>2. job'[r] = Attempt(req[r].user, req[r].gain, 0) /\ lost' = lost
    BY <1>6, <1>t DEF Announce, TypeOK, Jobs
  <2>3. \A q \in Requests : q # r => req'[q] = req[q] /\ job'[q] = job[q]
    BY <1>6, <1>t DEF Announce, Answer, TypeOK, Jobs
  <2>4. \A q \in Requests : Owes(q, u, i) => Owes(q, u, i)'
    BY <2>1, <2>2, <2>3, RestersOweNothing DEF Owes, Attempt
  <2> QED BY <2>2, <2>4, DebtsAreKept
<1>7. ASSUME NEW j \in Jobs, req' = req, lost' = lost, NEW k, job' = [job EXCEPT ![j] = k],
             j # Round => k.user = job[j].user /\ k.gain = job[j].gain
      PROVE  Covered(u, i)'
  <2>1. \A r \in Requests : job'[r].user = job[r].user /\ job'[r].gain = job[r].gain
    BY <1>7, <1>t DEF TypeOK, Jobs
  <2> QED BY <1>7, <2>1, DebtsAreKept DEF Owes
<1>8. ASSUME NEW j \in Jobs, Begin(j) \/ Lock(j) \/ Get(j) PROVE Covered(u, i)'
  <2>1. job[j] \in JobRecords /\ req' = req /\ lost' = lost
    BY <1>8, <1>t DEF TypeOK, Begin, Lock, Get
  <2>2. \E step, c : job' = [job EXCEPT ![j] = [job[j] EXCEPT !.step = step]]
                  \/ job' = [job EXCEPT ![j] = [job[j] EXCEPT !.step = step, !.read = c]]
    BY <1>8 DEF Begin, Lock, Get, Continue
  <2>3. \E k : job' = [job EXCEPT ![j] = k] /\ k.user = job[j].user /\ k.gain = job[j].gain
    BY <2>1, <2>2 DEF JobRecords
  <2> QED BY <1>7, <2>1, <2>3
<1>9. ASSUME Load \/ \E v \in Users : RebuildNext(v) PROVE Covered(u, i)'
  <2>1. req' = req /\ lost' = lost /\ \E k : job' = [job EXCEPT ![Round] = k]
    BY <1>9 DEF Load, RebuildNext
  <2> QED BY <1>7, <2>1 DEF Jobs
<1>10. ASSUME NEW j \in Jobs, Set(j) PROVE Covered(u, i)'
  <2>1. job[j].user # u /\ req' = req
    BY <1>10
    DEF Set
  <2>2. \A r \in Requests : r # j => job'[r] = job[r]
    BY <1>10, <1>t DEF Set, TypeOK, Jobs
  <2>3. <<u, i>> \in lost => <<u, i>> \in lost'
    BY <1>10, <2>1 DEF Set, StillLost
  <2> QED BY <2>1, <2>2, <2>3, DebtsAreKept DEF Owes
<1>11. ASSUME NEW j \in Jobs, Fail(j) PROVE Covered(u, i)'
  <2> DEFINE again == job[j].attempts + 1 < MaxAttempts
             a == Attempt(job[j].user, job[j].gain, job[j].attempts + 1)
  <2>1. req' = req /\ lost' = (IF again THEN lost ELSE GiveUp(j))
    BY <1>11 DEF Fail
  <2>2. \A r \in Requests : r # j => job'[r] = job[r]
    BY <1>11, <1>t DEF Fail, TypeOK, Jobs
  <2>3. again => job'[j] = a
    BY <1>11, <1>t DEF Fail, TypeOK
  <2>4. a.user = job[j].user /\ a.gain = job[j].gain
    BY DEF Attempt
  <2>5. lost \subseteq lost' /\ (~again /\ j # Round => {job[j].user} \X Items(job[j].gain) \subseteq lost')
    BY <2>1 DEF GiveUp
  <2> HIDE DEF again, a
  <2>6. ASSUME NEW r \in Requests, Owes(r, u, i) PROVE Owes(r, u, i)' \/ <<u, i>> \in lost'
    <3>1. CASE r # j
      BY <2>1, <2>2, <2>6, <3>1 DEF Owes
    <3>2. CASE r = j /\ again
      BY <2>1, <2>3, <2>4, <2>6, <3>2 DEF Owes
    <3>3. CASE r = j /\ ~again
      BY <2>1, <2>5, <2>6, <3>3 DEF Owes
    <3> QED BY <3>1, <3>2, <3>3
  <2> QED BY <2>5, <2>6, DebtsAreKept
<1>12. ASSUME NEW r \in Requests, req[r].user = u, i \in Items(req[r].gain)
       PROVE  <<u, i>> \in Unannounced(r)
  BY <1>12, OnlyAnnouncersOwe DEF Unannounced
<1>13. ASSUME NEW r \in Requests, job[r].user = u, i \in Items(job[r].gain)
       PROVE  <<u, i>> \in Unwritten(r)
  <2>1. ~Working(r, "rest")
    BY <1>13, <1>t, RestersOweNothing DEF JobsKnow, Working, Jobs
  <2> QED BY <1>13, <2>1 DEF Unwritten
<1>14. ASSUME NEW r \in Requests, Throw(r) PROVE Covered(u, i)'
  <2>1. job' = job /\ lost' = lost \cup Unannounced(r)
    BY <1>14 DEF Throw, firebase
  <2>2. \A q \in Requests : q # r => req'[q] = req[q]
    BY <1>14, <1>t DEF Throw, Answer, TypeOK
  <2> QED BY <1>12, <2>1, <2>2, DebtsAreKept DEF Owes
<1>15. ASSUME Restart PROVE Covered(u, i)'
  <2>1. lost' = lost \cup UNION {Unannounced(r) \cup Unwritten(r) : r \in Requests}
    BY <1>15 DEF Restart
  <2> QED BY <1>12, <1>13, <2>1, DebtsAreKept DEF Owes
<1>16. ASSUME \/ UNCHANGED vars
              \/ \E v \in Users : SignIn(v)
              \/ AdminStep \/ StartRound
       PROVE  Covered(u, i)'
  BY <1>1, <1>16 DEF vars, people, firebase, SignIn, AdminStep, CreateInvite, CancelInvite,
                     DeleteMembership, StartRound
<1> QED
  BY <1>4, <1>5, <1>6, <1>8, <1>9, <1>10, <1>11, <1>14, <1>15, <1>16
  DEF Next, PersonStep, RoundStep, RequestStep, JobStep, Jobs

\* Who has made a membership or a volunteer owes it to the claims.
LEMMA NewsIsCovered ==
  ASSUME IInv, [Next]_vars, NEW u \in Users, NEW i, i \in Items(Truth(u))', i \notin Items(Truth(u))
  PROVE  Covered(u, i)'
<1> USE AccessAssumption
<1>t. TypeOK /\ RequestsKnow
  BY DEF IInv
<1>1. \/ \E o \in Orgs : i = o /\ member'[u][o] # NoRole /\ member[u][o] = NoRole
      \/ i \in volunteer'[u] \ volunteer[u]
  BY DEF Items, Truth
<1>2. ASSUME NEW r \in Requests, req'[r].user = u, i \in Items(req'[r].gain) PROVE Covered(u, i)'
  BY <1>2 DEF Covered, Announced
<1>3. ASSUME NEW r \in Requests, Join(r) PROVE Covered(u, i)'
  <2> DEFINE v == req[r].user  p == req[r].org  g == RoleIn(req[r].org, req[r].role)
  <2>1. v \in Users /\ p \in Orgs /\ req[r].role \in Roles /\ req[r] \in RequestRecords
    BY <1>3, <1>t DEF Join, RequestsKnow, RequestKnows, At, TypeOK
  <2>2. Items(g) = {p}
    BY <2>1, RolesNameTheirOrg
  <2>3. volunteer' = volunteer
    BY <1>3 DEF Join
  <2>4. PICK o \in Orgs : i = o /\ member'[u][o] # NoRole /\ member[u][o] = NoRole
    BY <1>1, <2>3
  <2>5. member' # member
    BY <2>4
  <2>6. /\ member' = [member EXCEPT ![v][p] = req[r].role]
        /\ \/ req' = [req EXCEPT ![r] = Announcing(v, g)]
           \/ req' = [req EXCEPT ![r] = [req[r] EXCEPT !.step = "mark", !.gain = g]]
    BY <1>3, <2>5 DEF Join, Tell
  <2>7. req'[r].user = v /\ req'[r].gain = g
    <3> DEFINE k == Announcing(v, g)
               l == [req[r] EXCEPT !.step = "mark", !.gain = g]
    <3>1. k.user = v /\ k.gain = g /\ l.user = v /\ l.gain = g
      BY <2>1, AnnouncersAnnounce DEF RequestRecords
    <3>2. req'[r] = k \/ req'[r] = l
      BY <1>t, <2>6 DEF TypeOK
    <3> HIDE DEF k, l
    <3> QED BY <3>1, <3>2
  <2> HIDE DEF v, p, g
  <2>8. u = v /\ o = p
    BY <1>t, <2>1, <2>4, <2>6 DEF TypeOK
  <2> QED BY <1>2, <2>2, <2>4, <2>7, <2>8
<1>4. ASSUME NEW r \in Requests, NEW v \in Users, NEW f \in Festivals, Enroll(r, v, f)
      PROVE  Covered(u, i)'
  <2> DEFINE k == Announcing(v, VolunteerFor(f))
  <2>1. member' = member /\ volunteer' = [volunteer EXCEPT ![v] = volunteer[v] \cup {f}]
        /\ req' = [req EXCEPT ![r] = k]
    BY <1>4 DEF Enroll
  <2>2. i \in volunteer'[u] \ volunteer[u]
    BY <1>1, <2>1
  <2>3. u = v /\ i = f
    BY <1>t, <2>1, <2>2 DEF TypeOK
  <2>4. k.user = v /\ k.gain = VolunteerFor(f)
    BY AnnouncersAnnounce
  <2>5. req'[r] = k
    BY <1>t, <2>1 DEF TypeOK
  <2> HIDE DEF k
  <2> QED BY <1>2, <2>3, <2>4, <2>5, VolunteersNameTheirFestival
<1>5. ASSUME NEW v \in Users, NEW o \in Orgs, DeleteMembership(v, o) PROVE FALSE
  <2>1. volunteer' = volunteer /\ \A w \in Users, q \in Orgs :
            member'[w][q] # NoRole => member[w][q] # NoRole
    BY <1>5, <1>t DEF DeleteMembership, TypeOK
  <2> QED BY <1>1, <2>1
<1>6. ASSUME member' = member, volunteer' = volunteer PROVE FALSE
  BY <1>1, <1>6
<1>7. ASSUME \/ UNCHANGED vars
             \/ \E v \in Users : SignIn(v)
             \/ RoundStep \/ Restart
             \/ \E j \in Jobs : Fail(j)
      PROVE  FALSE
  BY <1>6, <1>7 DEF vars, people, SignIn, RoundStep, StartRound, RebuildNext,
                    JobStep, Load, Begin, Lock, Get, Set, Restart, Fail
<1>8. ASSUME AdminStep PROVE FALSE
  BY <1>5, <1>6, <1>8 DEF AdminStep, CancelInvite, CreateInvite
<1>9. ASSUME NEW r \in Requests, PersonStep(r) PROVE Covered(u, i)'
  BY <1>4, <1>6, <1>9 DEF PersonStep, Found, FindInvite, people
<1>10. ASSUME NEW r \in Requests, RequestStep(r) \/ JobStep(r) \/ Throw(r) PROVE Covered(u, i)'
  BY <1>3, <1>6, <1>10 DEF RequestStep, FindMembership, Mark, Announce, JobStep, Begin, Lock, Get,
                           Set, Throw, people
<1> QED
  BY <1>7, <1>8, <1>9, <1>10 DEF Next

\* Claims are written by who has the lock of their person.
LEMMA OnlyHoldersWrite ==
  ASSUME IInv, [Next]_vars, NEW u \in Users
  PROVE  \/ claims'[u] = claims[u]
         \/ \E j \in Jobs : /\ Set(j) \/ Fail(j)
                           /\ job[j].step = "set" /\ job[j].user = u
                           /\ claims'[u] = NewClaims(j)
<1>1. ASSUME NEW j \in Jobs, Set(j) \/ Fail(j)
      PROVE  \/ claims'[u] = claims[u]
             \/ job[j].step = "set" /\ job[j].user = u /\ claims'[u] = NewClaims(j)
  <2>1. \/ claims' = claims
        \/ job[j].step = "set" /\ claims' = [claims EXCEPT ![job[j].user] = NewClaims(j)]
    BY <1>1 DEF Set, Fail, Working
  <2> QED BY <2>1 DEF IInv, TypeOK
<1>2. ASSUME \/ UNCHANGED vars
             \/ \E v \in Users : SignIn(v) \/ RebuildNext(v)
             \/ AdminStep \/ Load \/ StartRound \/ Restart
             \/ \E j \in Jobs : Begin(j) \/ Lock(j) \/ Get(j)
             \/ \E r \in Requests : PersonStep(r) \/ RequestStep(r) \/ Throw(r)
      PROVE  claims' = claims
  BY <1>2 DEF vars, firebase, SignIn, RebuildNext, AdminStep, CreateInvite, CancelInvite,
              DeleteMembership, Load, StartRound, Restart, Begin, Lock, Get, PersonStep, Found,
              Enroll, FindInvite, RequestStep, FindMembership, Join, Mark, Announce, Throw
<1> QED BY <1>1, <1>2 DEF Next, RoundStep, JobStep, Jobs

\* The rebuild has its person's lock from before it loads until it has written,
\* so whatever is younger than what it loaded is not written in between.
LEMMA RebuildsStep == IInv /\ [Next]_vars => RebuildsHold'
<1> SUFFICES ASSUME IInv, [Next]_vars, job'[Round].step \in {"get", "set"},
                    NEW u, u = job'[Round].user, NEW i, i \in Items(Truth(u))'
             PROVE  i \in Items(job'[Round].gain) \/ Covered(u, i)'
  BY DEF RebuildsHold, Truth, Covered, Announced
<1> USE AccessAssumption
<1>t. TypeOK /\ JobsKnow /\ Round \in Jobs
  BY DEF IInv, Jobs
\* Either it has just loaded, or it has loaded before.
<1>1. \/ Load
      \/ /\ job[Round].step \in {"get", "set"}
         /\ job'[Round].user = job[Round].user /\ job'[Round].gain = job[Round].gain
  <2>1. job[Round] \in JobRecords
    BY <1>t DEF TypeOK
  <2>2. ASSUME NEW r \in Requests, PersonStep(r) \/ RequestStep(r) \/ Throw(r)
        PROVE  job'[Round] = job[Round]
    BY <1>t, <2>2 DEF PersonStep, Found, Enroll, FindInvite, RequestStep, FindMembership, Join,
                      Mark, Announce, Throw, firebase, TypeOK, Jobs
  <2>3. ASSUME NEW j \in Jobs, j # Round, JobStep(j) \/ Fail(j) PROVE job'[Round] = job[Round]
    BY <1>t, <2>3 DEF JobStep, Begin, Lock, Get, Set, Fail, Continue, TypeOK
  <2>4. ASSUME Begin(Round) \/ Lock(Round) \/ Set(Round) \/ Fail(Round) \/ Restart
               \/ \E v \in Users : RebuildNext(v)
        PROVE  job'[Round].step \in {"rest", "begin", "lock", "load"}
    BY <1>t, <2>1, <2>4 DEF Begin, Lock, Set, Fail, Restart, RebuildNext, Continue, NoWork,
                            Attempt, TypeOK, JobRecords
  <2>5. CASE Get(Round)
    <3>1. job' = [job EXCEPT ![Round] = [job[Round] EXCEPT !.step = "set",
                                              !.read = claims[job[Round].user]]]
      BY <2>5 DEF Get
    <3>2. job'[Round] = [job[Round] EXCEPT !.step = "set", !.read = claims[job[Round].user]]
      BY <1>t, <3>1 DEF TypeOK
    <3>3. job[Round].step = "get"
      BY <2>5 DEF Get, Working
    <3> QED BY <2>1, <3>2, <3>3 DEF JobRecords
  <2>6. ASSUME \/ UNCHANGED vars
               \/ \E v \in Users : SignIn(v)
               \/ AdminStep \/ StartRound
        PROVE  job' = job
    BY <2>6 DEF vars, firebase, SignIn, AdminStep, CreateInvite, CancelInvite, DeleteMembership,
                StartRound
  <2> QED BY <2>2, <2>3, <2>4, <2>5, <2>6 DEF Next, RoundStep, JobStep, Jobs
<1>2. CASE Load
  <2>1. /\ job' = [job EXCEPT ![Round] = [job[Round] EXCEPT !.step = "get",
                                              !.gain = Truth(job[Round].user)]]
        /\ member' = member /\ volunteer' = volunteer
    BY <1>2 DEF Load, people
  <2>2. job[Round] \in JobRecords
    BY <1>t DEF TypeOK
  <2>3. job'[Round].user = job[Round].user /\ job'[Round].gain = Truth(job[Round].user)
    BY <1>t, <2>1, <2>2 DEF TypeOK, JobRecords
  <2>4. Truth(u)' = Truth(u)
    BY <2>1 DEF Truth
  <2>5. Items(Truth(u))' = Items(Truth(u))
    BY <2>4 DEF Items
  <2> QED BY <2>3, <2>5
<1>3. CASE /\ job[Round].step \in {"get", "set"}
           /\ job'[Round].user = job[Round].user /\ job'[Round].gain = job[Round].gain
  <2>1. u = job[Round].user /\ u \in Users /\ lock[u] = Round
    BY <1>3, <1>t DEF JobsKnow
  <2>2. CASE i \notin Items(Truth(u))
    BY <2>1, <2>2, NewsIsCovered
  <2>3. CASE i \in Items(Truth(u))
    <3>1. i \in Items(job[Round].gain) \/ Covered(u, i)
      BY <1>3, <2>1, <2>3 DEF IInv, RebuildsHold
    <3>2. ASSUME NEW j \in Jobs, Set(j) PROVE job[j].user # u
      <4>1. job[j].step = "set" /\ lock[job[j].user] = j
        BY <1>t, <3>2 DEF Set, Working, JobsKnow
      <4>2. Set(Round) => job'[Round].step = "rest"
        BY <1>t DEF Set, NoWork, TypeOK
      <4> QED BY <2>1, <3>2, <4>1, <4>2
    <3>3. Covered(u, i) => Covered(u, i)'
      BY <3>2, CoverStays
    <3> QED BY <1>3, <3>1, <3>3
  <2> QED BY <2>2, <2>3
<1> QED BY <1>1, <1>2, <1>3

LEMMA UpdatesStep == IInv /\ [Next]_vars => UpdatesAreNotLost'
<1> SUFFICES ASSUME IInv, [Next]_vars, NEW u \in Users, NEW i, i \in Items(Truth(u))'
             PROVE  i \in Items(claims'[u]) \/ Covered(u, i)'
  BY DEF UpdatesAreNotLost, Covered
<1> USE AccessAssumption
<1>t. TypeOK /\ JobsKnow
  BY DEF IInv
<1>1. CASE i \notin Items(Truth(u))
  BY <1>1, NewsIsCovered
<1>2. CASE i \in Items(Truth(u))
  <2>1. i \in Items(claims[u]) \/ Covered(u, i)
    BY <1>2 DEF IInv, UpdatesAreNotLost, Covered
  \* Writing an update: it adds to what is there.
  <2>2. ASSUME NEW j \in Jobs, j # Round, job[j].step = "set", job[j].user = u,
               claims'[u] = NewClaims(j)
        PROVE  Items(claims'[u]) = Items(claims[u]) \cup Items(job[j].gain)
    <3>1. job[j].read = claims[u] /\ job[j].gain \in ClaimRecords /\ claims[u] \in ClaimRecords
      BY <1>t, <2>2 DEF JobsKnow, TypeOK, JobRecords
    <3> QED BY <2>2, <3>1, MergesKeepBoth DEF NewClaims
  \* Writing a rebuild: it has loaded what is there, or that is younger.
  <2>3. ASSUME job[Round].step = "set", job[Round].user = u, claims'[u] = NewClaims(Round)
        PROVE  i \in Items(claims'[u]) \/ Covered(u, i)
    BY <1>2, <2>3 DEF NewClaims, IInv, RebuildsHold
  <2>4. i \in Items(claims[u]) => i \in Items(claims'[u]) \/ Covered(u, i)
    BY <2>2, <2>3, OnlyHoldersWrite
  <2>5. ASSUME NEW j \in Jobs, Set(j), job[j].user = u, Covered(u, i)
        PROVE  i \in Items(claims'[u]) \/ Covered(u, i)'
    <3>1. claims'[u] = NewClaims(j) /\ lost' = StillLost(u, NewClaims(j)) /\ req' = req
      BY <1>t, <2>5 DEF Set, TypeOK
    <3>2. \A r \in Requests : r # j => job'[r] = job[r]
      BY <1>t, <2>5 DEF Set, TypeOK, Jobs
    <3>3. <<u, i>> \in lost => <<u, i>> \in lost' \/ i \in Items(claims'[u])
      BY <3>1 DEF StillLost
    <3>4. j # Round => Items(job[j].gain) \subseteq Items(claims'[u])
      BY <2>2, <2>5, <3>1 DEF Set, Working
    <3> QED BY <2>5, <3>1, <3>2, <3>3, <3>4 DEF Covered, Announced
  <2>6. Covered(u, i) => i \in Items(claims'[u]) \/ Covered(u, i)'
    BY <2>5, CoverStays
  <2> QED BY <2>1, <2>4, <2>6
<1> QED BY <1>1, <1>2

(***************************************************************************)
(* Claims say what the person was given.                                   *)
(***************************************************************************)
EarnedThen(u, c) ==
    /\ \A o \in Orgs : c.roles[o] # NoRole => <<u, o, c.roles[o]>> \in granted'
    /\ c.festivals \subseteq volunteer'[u]

\* Memberships go, but that there was one stays, and volunteers stay.
LEMMA RecordsGrow ==
  ASSUME IInv, [Next]_vars
  PROVE  granted \subseteq granted' /\ \A u \in Users : volunteer[u] \subseteq volunteer'[u]
<1> DEFINE Grown == granted \subseteq granted' /\ \A u \in Users : volunteer[u] \subseteq volunteer'[u]
<1>t. TypeOK
  BY DEF IInv
<1>1. ASSUME NEW r \in Requests, NEW u \in Users, NEW f \in Festivals, Enroll(r, u, f)
      PROVE  Grown
  BY <1>1, <1>t DEF Enroll, TypeOK
<1>2. ASSUME NEW r \in Requests, Join(r) PROVE Grown
  BY <1>2 DEF Join
<1>3. ASSUME \/ UNCHANGED vars
             \/ \E u \in Users : SignIn(u) \/ RebuildNext(u)
             \/ AdminStep \/ Load \/ StartRound \/ Restart
             \/ \E r \in Requests : \/ \E u \in Users, o \in Orgs : Found(r, u, o)
                                    \/ \E t \in Invites : FindInvite(r, t)
                                    \/ FindMembership(r) \/ Mark(r) \/ Announce(r) \/ Throw(r)
             \/ \E j \in Jobs : JobStep(j) \/ Fail(j)
      PROVE  Grown
  BY <1>3 DEF vars, people, SignIn, RebuildNext, AdminStep, CreateInvite, CancelInvite,
              DeleteMembership, Load, StartRound, Restart, Found, FindInvite, FindMembership, Mark,
              Announce, Throw, JobStep, Begin, Lock, Get, Set, Fail
<1> HIDE DEF Grown
<1>4. ASSUME NEW r \in Requests, PersonStep(r) \/ RequestStep(r) \/ Throw(r) PROVE Grown
  BY <1>1, <1>2, <1>3, <1>4 DEF PersonStep, RequestStep
<1>5. ASSUME RoundStep PROVE Grown
  <2>1. Round \in Jobs
    BY DEF Jobs
  <2> QED BY <1>3, <1>5, <2>1 DEF RoundStep
<1>6. Grown
  BY <1>3, <1>4, <1>5 DEF Next, Jobs
<1> QED BY <1>6 DEF Grown

LEMMA EarnedStays ==
  ASSUME IInv, [Next]_vars, NEW u \in Users, NEW c, Earned(u, c)
  PROVE  EarnedThen(u, c)
BY RecordsGrow DEF Earned, EarnedThen

LEMMA RolesAreEarned ==
  ASSUME NEW u, NEW o \in Orgs, NEW role, <<u, o, role>> \in granted'
  PROVE  EarnedThen(u, RoleIn(o, role))
<1>1. RoleIn(o, role) = [roles |-> [p \in Orgs |-> IF p = o THEN role ELSE NoRole], festivals |-> {}]
  BY DEF RoleIn, NoClaims
<1> QED BY <1>1 DEF EarnedThen

LEMMA HelpIsEarned ==
  ASSUME NEW u, NEW f, f \in volunteer'[u]
  PROVE  EarnedThen(u, VolunteerFor(f))
BY VolunteersHaveNoRole DEF EarnedThen

LEMMA NothingIsEarned == ASSUME NEW u PROVE EarnedThen(u, NoClaims)
BY DEF EarnedThen, NoClaims

\* A request announces what it has itself written or found.
LEMMA RequestsEarn ==
  ASSUME IInv, [Next]_vars, NEW r \in Requests, req'[r].step # "rest"
  PROVE  EarnedThen(req'[r].user, req'[r].gain)
<1> USE AccessAssumption
<1>t. TypeOK /\ RequestsKnow /\ RequestsKnow'
  BY RequestsStep DEF IInv
<1>u. req'[r].user \in Users
  BY <1>t DEF RequestsKnow, RequestKnows, At
<1>1. CASE /\ req[r].step # "rest"
           /\ req'[r].user = req[r].user /\ req'[r].gain = req[r].gain
  <2>1. Earned(req[r].user, req[r].gain) /\ req[r].user \in Users
    BY <1>1, <1>u DEF IInv, GainsAreEarned, At
  <2>2. EarnedThen(req[r].user, req[r].gain)
    BY <2>1, EarnedStays
  <2> QED BY <1>1, <2>2
<1>2. CASE req'[r].step \notin {"mark", "announce"}
  <2>1. req'[r].gain = NoClaims
    BY <1>2, <1>t DEF RequestsKnow, RequestKnows
  <2> QED BY <2>1, NothingIsEarned
<1>3. CASE Join(r)
  <2>1. req[r].org \in Orgs /\ req[r] \in RequestRecords /\ req[r].step # "rest"
    BY <1>3, <1>t DEF Join, RequestsKnow, RequestKnows, At, TypeOK
  <2>2. CASE Answer(r)
    BY <1>t, <2>2 DEF Answer, TypeOK, NoRequest
  <2>3. ASSUME NEW k, req' = [req EXCEPT ![r] = k], k.user = req[r].user,
               k.gain = RoleIn(req[r].org, req[r].role),
               <<req[r].user, req[r].org, req[r].role>> \in granted'
        PROVE  EarnedThen(req'[r].user, req'[r].gain)
    <3>1. req'[r] = k
      BY <1>t, <2>3 DEF TypeOK
    <3> QED BY <2>1, <2>3, <3>1, RolesAreEarned
  <2>4. CASE Tell(r, RoleIn(req[r].org, req[r].role))
             /\ <<req[r].user, req[r].org, req[r].role>> \in granted'
    <3> DEFINE k == Announcing(req[r].user, RoleIn(req[r].org, req[r].role))
    <3>1. k.user = req[r].user /\ k.gain = RoleIn(req[r].org, req[r].role)
      BY AnnouncersAnnounce
    <3>2. req' = [req EXCEPT ![r] = k]
      BY <2>4 DEF Tell
    <3> HIDE DEF k
    <3> QED BY <2>3, <2>4, <3>1, <3>2
  <2>5. CASE /\ req' = [req EXCEPT ![r] = [req[r] EXCEPT !.step = "mark",
                                               !.gain = RoleIn(req[r].org, req[r].role)]]
             /\ <<req[r].user, req[r].org, req[r].role>> \in granted'
    <3> DEFINE g == RoleIn(req[r].org, req[r].role)
    <3>1. [req[r] EXCEPT !.step = "mark", !.gain = g].user = req[r].user
      BY <2>1 DEF RequestRecords
    <3>2. [req[r] EXCEPT !.step = "mark", !.gain = g].gain = g
      BY <2>1 DEF RequestRecords
    <3> QED BY <2>3, <2>5, <3>1, <3>2
  <2> QED BY <1>3, <2>2, <2>4, <2>5 DEF Join
<1>4. CASE Mark(r)
  <2>1. /\ req[r].org \in Orgs /\ <<req[r].user, req[r].org, req[r].role>> \in granted
        /\ granted' = granted
    BY <1>4, <1>t DEF Mark, RequestsKnow, RequestKnows, At
  <2>2. req'[r] = Announcing(req[r].user, RoleIn(req[r].org, req[r].role))
    BY <1>4, <1>t DEF Mark, Tell, TypeOK
  <2> QED BY <2>1, <2>2, AnnouncersAnnounce, RolesAreEarned
<1>5. ASSUME NEW u \in Users, NEW f \in Festivals, Enroll(r, u, f)
      PROVE  EarnedThen(req'[r].user, req'[r].gain)
  <2>1. req'[r] = Announcing(u, VolunteerFor(f)) /\ f \in volunteer'[u]
    BY <1>5, <1>t DEF Enroll, TypeOK
  <2> QED BY <2>1, AnnouncersAnnounce, HelpIsEarned
<1>6. CASE FindMembership(r)
  <2>1. req[r] \in RequestRecords /\ req[r].step # "rest"
    BY <1>6, <1>t DEF FindMembership, At, TypeOK
  <2>2. CASE Answer(r)
    BY <1>t, <2>2 DEF Answer, TypeOK, NoRequest
  <2>3. ASSUME NEW k, req' = [req EXCEPT ![r] = k], k.user = req[r].user, k.gain = req[r].gain
        PROVE  EarnedThen(req'[r].user, req'[r].gain)
    BY <1>1, <1>t, <2>1, <2>3 DEF TypeOK
  <2>4. CASE Go(r, "join")
    <3> DEFINE k == [req[r] EXCEPT !.step = "join"]
    <3>1. k.user = req[r].user /\ k.gain = req[r].gain
      BY <2>1 DEF RequestRecords
    <3>2. req' = [req EXCEPT ![r] = k]
      BY <2>4 DEF Go
    <3> HIDE DEF k
    <3> QED BY <2>3, <3>1, <3>2
  <2>5. ASSUME NEW role, req' = [req EXCEPT ![r] = [req[r] EXCEPT !.step = "mark", !.role = role]]
        PROVE  EarnedThen(req'[r].user, req'[r].gain)
    <3> DEFINE k == [req[r] EXCEPT !.step = "mark", !.role = role]
    <3>1. k.user = req[r].user /\ k.gain = req[r].gain
      BY <2>1 DEF RequestRecords
    <3>2. req' = [req EXCEPT ![r] = k]
      BY <2>5
    <3> HIDE DEF k
    <3> QED BY <2>3, <3>1, <3>2
  <2> QED BY <1>6, <2>2, <2>4, <2>5 DEF FindMembership
<1>7. ASSUME \/ \E u \in Users, o \in Orgs : Found(r, u, o)
             \/ \E t \in Invites : FindInvite(r, t)
      PROVE  EarnedThen(req'[r].user, req'[r].gain)
  <2>1. ASSUME NEW u \in Users, NEW o \in Orgs, Found(r, u, o) PROVE req'[r].step = "join"
    BY <1>t, <2>1 DEF Found, NoRequest, TypeOK
  <2>2. ASSUME NEW t \in Invites, FindInvite(r, t) PROVE req'[r].step = "look"
    BY <1>t, <2>2 DEF FindInvite, NoRequest, TypeOK
  <2> QED BY <1>2, <1>7, <2>1, <2>2
<1>8. CASE Announce(r) \/ Throw(r)
  BY <1>8, <1>t DEF Announce, Throw, Answer, TypeOK, NoRequest
<1>9. CASE Restart
  BY <1>9 DEF Restart, NoRequest
<1>10. ASSUME NEW q \in Requests, q # r, PersonStep(q) \/ RequestStep(q) \/ Throw(q)
       PROVE  req'[r] = req[r]
  BY <1>10, <1>t DEF PersonStep, Found, Enroll, FindInvite, RequestStep, FindMembership, Join, Mark,
                     Announce, Throw, Go, Tell, Answer, TypeOK
<1>11. ASSUME \/ UNCHANGED vars
              \/ \E u \in Users : SignIn(u)
              \/ AdminStep \/ RoundStep
              \/ \E j \in Jobs : JobStep(j) \/ Fail(j)
       PROVE  req' = req
  BY <1>11 DEF vars, SignIn, AdminStep, CreateInvite, CancelInvite, DeleteMembership, RoundStep,
               StartRound, RebuildNext, Load, JobStep, Begin, Lock, Get, Set, Fail
<1>12. CASE req'[r] = req[r]
  BY <1>1, <1>12
<1> QED
  BY <1>3, <1>4, <1>5, <1>6, <1>7, <1>8, <1>9, <1>10, <1>11, <1>12
  DEF Next, PersonStep, RequestStep, Jobs

\* What the database says about a person, it has given them.
LEMMA TruthIsEarned ==
  ASSUME IInv, NEW u \in Users
  PROVE  Earned(u, Truth(u))
BY DEF IInv, MembersWereGranted, Earned, Truth

\* An update carries what its request announced, a rebuild what it has read.
LEMMA JobsEarn ==
  ASSUME IInv, [Next]_vars, NEW j \in Jobs, job'[j].step # "rest"
  PROVE  EarnedThen(job'[j].user, job'[j].gain)
<1> USE AccessAssumption
<1>t. TypeOK /\ JobsKnow /\ job[j] \in JobRecords
  BY DEF IInv, TypeOK
<1>1. CASE /\ job[j].step # "rest"
           /\ job'[j].user = job[j].user /\ job'[j].gain = job[j].gain
  <2>1. Earned(job[j].user, job[j].gain) /\ job[j].user \in Users
    BY <1>1, <1>t DEF IInv, GainsAreEarned, JobsKnow
  <2>2. EarnedThen(job[j].user, job[j].gain)
    BY <2>1, EarnedStays
  <2> QED BY <1>1, <2>2
<1>2. ASSUME NEW r \in Requests, Announce(r), r = j PROVE EarnedThen(job'[j].user, job'[j].gain)
  <2>1. req[r].user \in Users /\ Earned(req[r].user, req[r].gain)
    BY <1>2 DEF Announce, IInv, RequestsKnow, RequestKnows, GainsAreEarned, At
  <2>2. job'[j].user = req[r].user /\ job'[j].gain = req[r].gain
    BY <1>2, <1>t DEF Announce, Attempt, TypeOK
  <2>3. EarnedThen(req[r].user, req[r].gain)
    BY <2>1, EarnedStays
  <2> QED BY <2>2, <2>3
<1>3. ASSUME NEW u \in Users, RebuildNext(u), j = Round
      PROVE  EarnedThen(job'[j].user, job'[j].gain)
  <2>1. job'[j].gain = NoClaims
    BY <1>3, <1>t DEF RebuildNext, Attempt, TypeOK
  <2> QED BY <2>1, NothingIsEarned
<1>4. CASE Load /\ j = Round
  <2> DEFINE u == job[j].user  g == Truth(u)
  <2>1. job'[j] = [job[j] EXCEPT !.step = "get", !.gain = g] /\ job[j].step = "load"
    BY <1>4, <1>t DEF Load, Working, TypeOK
  <2>2. u \in Users
    BY <1>t, <2>1 DEF JobsKnow
  <2>3. EarnedThen(u, g)
    BY <2>2, TruthIsEarned, EarnedStays
  <2> HIDE DEF g
  <2>4. job'[j].user = u /\ job'[j].gain = g
    BY <1>t, <2>1 DEF JobRecords
  <2> QED BY <2>3, <2>4
<1>5. CASE Begin(j) \/ Lock(j) \/ Get(j)
  <2>1. ASSUME NEW step, Continue(j, step)
        PROVE  job'[j].user = job[j].user /\ job'[j].gain = job[j].gain
    <3>1. job'[j] = [job[j] EXCEPT !.step = step]
      BY <1>t, <2>1 DEF Continue, TypeOK
    <3> QED BY <1>t, <3>1 DEF JobRecords
  <2>2. CASE Get(j)
    <3>1. job'[j] = [job[j] EXCEPT !.step = "set", !.read = claims[job[j].user]]
      BY <1>t, <2>2 DEF Get, TypeOK
    <3> QED BY <1>t, <3>1, <1>1, <2>2 DEF JobRecords, Get, Working
  <2>3. CASE Begin(j) \/ Lock(j)
    <3>1. job'[j].user = job[j].user /\ job'[j].gain = job[j].gain
      BY <2>1, <2>3 DEF Begin, Lock
    <3> QED BY <1>1, <2>3, <3>1 DEF Begin, Lock, Working
  <2> QED BY <1>5, <2>2, <2>3
<1>6. CASE Set(j) \/ Restart
  BY <1>6, <1>t DEF Set, Restart, NoWork, TypeOK
<1>7. CASE Fail(j)
  <2>1. \/ job'[j] = NoWork
        \/ job'[j] = Attempt(job[j].user, job[j].gain, job[j].attempts + 1)
    BY <1>7, <1>t DEF Fail, TypeOK
  <2>2. job[j].step # "rest"
    BY <1>7 DEF Fail
  <2> QED BY <1>1, <2>1, <2>2 DEF NoWork, Attempt
<1>8. ASSUME \/ \E k \in Jobs : k # j /\ (JobStep(k) \/ Fail(k))
             \/ \E r \in Requests : r # j /\ Announce(r)
             \/ j # Round /\ (Load \/ \E u \in Users : RebuildNext(u))
      PROVE  job'[j] = job[j]
  BY <1>8, <1>t DEF JobStep, Begin, Lock, Get, Set, Fail, Continue, Announce, Load, RebuildNext,
                    TypeOK, Jobs
<1>9. ASSUME \/ UNCHANGED vars
             \/ \E u \in Users : SignIn(u)
             \/ AdminStep \/ StartRound
             \/ \E r \in Requests : \/ PersonStep(r) \/ Throw(r)
                                    \/ FindMembership(r) \/ Join(r) \/ Mark(r)
      PROVE  job' = job
  BY <1>9 DEF vars, firebase, SignIn, AdminStep, CreateInvite, CancelInvite, DeleteMembership,
              StartRound, PersonStep, Found, Enroll, FindInvite, Throw, FindMembership, Join, Mark
<1>10. CASE job'[j] = job[j]
  BY <1>1, <1>10
<1> QED
  BY <1>2, <1>3, <1>4, <1>5, <1>6, <1>7, <1>8, <1>9, <1>10
  DEF Next, RoundStep, RequestStep, JobStep, Jobs

LEMMA EarnedStep == IInv /\ [Next]_vars => GainsAreEarned' /\ ClaimsAreEarned'
<1> SUFFICES ASSUME IInv, [Next]_vars PROVE GainsAreEarned' /\ ClaimsAreEarned'
  OBVIOUS
<1>t. TypeOK /\ JobsKnow
  BY DEF IInv
<1>1. GainsAreEarned'
  BY RequestsEarn, JobsEarn DEF GainsAreEarned, Earned, EarnedThen, At
<1>2. ASSUME NEW u \in Users PROVE EarnedThen(u, claims'[u])
  <2>1. EarnedThen(u, claims[u])
    BY EarnedStays DEF IInv, ClaimsAreEarned
  <2>2. ASSUME NEW j \in Jobs, job[j].step = "set", job[j].user = u
        PROVE  EarnedThen(u, NewClaims(j))
    <3>1. job[j].read = claims[u] /\ Earned(u, job[j].gain)
      BY <1>t, <2>2 DEF JobsKnow, IInv, GainsAreEarned
    <3>2. EarnedThen(u, job[j].gain)
      BY <3>1, EarnedStays
    <3>3. EarnedThen(u, Merge(job[j].read, job[j].gain))
      BY <2>1, <3>1, <3>2 DEF EarnedThen, Merge
    <3> QED BY <3>2, <3>3 DEF NewClaims
  <2> QED BY <2>1, <2>2, OnlyHoldersWrite
<1>3. ClaimsAreEarned'
  BY <1>2 DEF ClaimsAreEarned, Earned, EarnedThen
<1> QED BY <1>1, <1>3

-----------------------------------------------------------------------------
LEMMA IInvAlways == Spec => []IInv
<1>1. IInv /\ [Next]_vars => IInv'
  BY TypesStep, RequestsStep, RowsStep, JobsStep, RebuildsStep, UpdatesStep, EarnedStep DEF IInv
<1> QED BY IInvInit, <1>1, PTL DEF Spec

\* Persons, organizations, invitations, requests, claims and jobs stay what
\* the code takes them for.
THEOREM AccessTypes == Spec => []TypeOK
<1>1. IInv => TypeOK
  BY DEF IInv
<1> QED BY IInvAlways, <1>1, PTL

\* acceptInvite() marks an invitation after the membership it is for was made,
\* by this acceptance, another one at the same time, or one that failed later.
THEOREM InvitesAreHonoured == Spec => []AcceptedInviteWasHonoured
<1>1. IInv => AcceptedInviteWasHonoured
  BY DEF IInv
<1> QED BY IInvAlways, <1>1, PTL

\* The advisory lock of withClaims() and replaceVolunteerIntentClaims() keeps
\* updates from overwriting each other and rebuilds from overwriting what is
\* younger than the rows they have read, with any number of each.
THEOREM UpdatesReachTheClaims == Spec => []UpdatesAreNotLost
<1>1. IInv => UpdatesAreNotLost
  BY DEF IInv
<1> QED BY IInvAlways, <1>1, PTL

\* setOrgRole() and addVolunteerFestival() are called with what the request has
\* written, or found in place of what its invitation offers, and a rebuild with
\* what it has loaded; merging and replacing add nothing to it.  Between the
\* two, rows may go and other requests may run.
THEOREM ClaimsWereGiven == Spec => []ClaimsAreEarned
<1>1. IInv => ClaimsAreEarned
  BY DEF IInv
<1> QED BY IInvAlways, <1>1, PTL

(***************************************************************************)
(* Waiting.                                                                *)
(***************************************************************************)
\* A lock belongs to a job that has it and works for that person; only a
\* rebuild loads.
HoldersWork ==
    /\ \A u \in Users : lock[u] # NoJob =>
          job[lock[u]].step \in {"load", "get", "set"} /\ job[lock[u]].user = u
    /\ \A j \in Jobs : Working(j, "load") => j = Round

LEMMA HoldersInit == Init => HoldersWork
BY DEF Init, HoldersWork, Working, NoWork

LEMMA HoldersStep == IInv /\ HoldersWork /\ [Next]_vars => HoldersWork'
<1> SUFFICES ASSUME IInv, HoldersWork, [Next]_vars PROVE HoldersWork'
  OBVIOUS
<1> USE AccessAssumption
<1>t. TypeOK /\ RequestsKnow /\ \A k \in Jobs : JobKnows(k)
  BY DEF IInv, JobsKnow, JobKnows
<1>j. /\ job \in [Jobs -> JobRecords] /\ lock \in [Users -> Jobs \cup {NoJob}]
      /\ NoJob \notin Jobs
  BY <1>t DEF TypeOK
\* A step of job j that has no lock now and none afterwards.
<1>1. ASSUME NEW j \in Jobs, \A k \in Jobs : k # j => job'[k] = job[k],
             job'[j].step # "load", \A u \in Users : lock[u] # j,
             \A u \in Users : lock'[u] = lock[u]
      PROVE  HoldersWork'
  BY <1>1, <1>j DEF HoldersWork, Working
\* A step after which j has no lock.
<1>2. ASSUME NEW j \in Jobs, \A k \in Jobs : k # j => job'[k] = job[k],
             job'[j].step # "load", lock' = Unlock(j)
      PROVE  HoldersWork'
  <2>1. \A u \in Users : lock'[u] # NoJob => lock'[u] # j /\ lock'[u] = lock[u]
    BY <1>2 DEF Unlock
  <2> QED BY <1>2, <1>j, <2>1 DEF HoldersWork, Working
\* A step of j under its lock.
<1>3. ASSUME NEW j \in Jobs, \A k \in Jobs : k # j => job'[k] = job[k],
             job'[j].step \in {"get", "set"}, job'[j].user = job[j].user, lock' = lock
      PROVE  HoldersWork'
  BY <1>3, <1>j DEF HoldersWork, Working
<1>4. ASSUME job' = job, lock' = lock PROVE HoldersWork'
  BY <1>4 DEF HoldersWork, Working
<1>5. ASSUME NEW j \in Jobs, NEW k, job' = [job EXCEPT ![j] = k]
      PROVE  job'[j] = k /\ \A l \in Jobs : l # j => job'[l] = job[l]
  BY <1>5, <1>j
<1>6. ASSUME NEW j \in Jobs, job[j].step \in {"rest", "begin", "lock"}
      PROVE  \A u \in Users : lock[u] # j
  BY <1>6, <1>j DEF HoldersWork
<1>7. ASSUME NEW r \in Requests, Announce(r) PROVE HoldersWork'
  <2>1. r \in Jobs /\ lock' = lock /\ job[r].step = "rest"
    <3>1. ~At(r, "rest")
      BY <1>7 DEF Announce, At
    <3>2. job[r] = NoWork
      BY <1>t, <3>1 DEF RequestsKnow, RequestKnows
    <3> QED BY <1>7, <3>2 DEF Announce, Jobs, NoWork
  <2>2. job'[r] = Attempt(req[r].user, req[r].gain, 0) /\ \A l \in Jobs : l # r => job'[l] = job[l]
    BY <1>5, <1>7, <2>1 DEF Announce
  <2>3. job'[r].step = "begin"
    BY <2>2 DEF Attempt
  <2>4. \A u \in Users : lock[u] # r
    BY <1>6, <2>1
  <2> QED BY <1>1, <2>1, <2>2, <2>3, <2>4
<1>8. ASSUME NEW j \in Jobs, Begin(j) PROVE HoldersWork'
  <2>1. job'[j] = [job[j] EXCEPT !.step = "lock"] /\ \A l \in Jobs : l # j => job'[l] = job[l]
    BY <1>5, <1>8 DEF Begin, Continue
  <2>2. job'[j].step = "lock"
    BY <1>j, <2>1 DEF JobRecords
  <2>3. lock' = lock /\ \A u \in Users : lock[u] # j
    BY <1>6, <1>8 DEF Begin, Working
  <2> QED BY <1>1, <2>1, <2>2, <2>3
<1>9. ASSUME NEW j \in Jobs, Lock(j) PROVE HoldersWork'
  <2> DEFINE u == job[j].user
  <2>1. /\ job'[j] = [job[j] EXCEPT !.step = IF j = Round THEN "load" ELSE "get"]
        /\ \A l \in Jobs : l # j => job'[l] = job[l]
    BY <1>5, <1>9 DEF Lock, Continue
  <2>2. /\ job'[j].step \in {"load", "get"} /\ job'[j].user = u
        /\ job'[j].step = "load" => j = Round
    BY <1>j, <2>1 DEF JobRecords
  <2>3. \A v \in Users : lock[v] # j
    BY <1>6, <1>9 DEF Lock, Working
  <2>4. \A v \in Users : lock'[v] = lock[v] \/ (v = u /\ lock'[v] = j)
    BY <1>9, <1>j DEF Lock
  <2> HIDE DEF u
  <2>5. ASSUME NEW v \in Users, lock'[v] # NoJob
        PROVE  job'[lock'[v]].step \in {"load", "get", "set"} /\ job'[lock'[v]].user = v
    <3>1. CASE v = u /\ lock'[v] = j
      BY <2>2, <3>1
    <3>2. CASE lock'[v] = lock[v]
      BY <1>j, <2>1, <2>3, <2>5, <3>2 DEF HoldersWork
    <3> QED BY <2>4, <3>1, <3>2
  <2>6. \A l \in Jobs : Working(l, "load")' => l = Round
    BY <2>1, <2>2 DEF HoldersWork, Working
  <2> QED BY <2>5, <2>6 DEF HoldersWork, Working
<1>10. ASSUME Load PROVE HoldersWork'
  <2> DEFINE g == Truth(job[Round].user)
  <2>1. Round \in Jobs
    BY DEF Jobs
  <2>2. job' = [job EXCEPT ![Round] = [job[Round] EXCEPT !.step = "get", !.gain = g]]
    BY <1>10 DEF Load
  <2>3. job'[Round] = [job[Round] EXCEPT !.step = "get", !.gain = g]
        /\ \A l \in Jobs : l # Round => job'[l] = job[l]
    BY <1>5, <2>1, <2>2
  <2> HIDE DEF g
  <2>4. job'[Round].step = "get" /\ job'[Round].user = job[Round].user
    BY <1>j, <2>1, <2>3 DEF JobRecords
  <2>5. lock' = lock
    BY <1>10 DEF Load
  <2> QED BY <1>3, <2>1, <2>3, <2>4, <2>5
<1>11. ASSUME NEW j \in Jobs, Get(j) PROVE HoldersWork'
  <2> DEFINE c == claims[job[j].user]
  <2>1. job' = [job EXCEPT ![j] = [job[j] EXCEPT !.step = "set", !.read = c]]
    BY <1>11 DEF Get
  <2>2. job'[j] = [job[j] EXCEPT !.step = "set", !.read = c] /\ \A l \in Jobs : l # j => job'[l] = job[l]
    BY <1>5, <2>1
  <2> HIDE DEF c
  <2>3. job'[j].step = "set" /\ job'[j].user = job[j].user /\ lock' = lock
    BY <1>11, <1>j, <2>2 DEF JobRecords, Get
  <2> QED BY <1>3, <2>2, <2>3
<1>12. ASSUME NEW j \in Jobs, Set(j) PROVE HoldersWork'
  <2>1. job'[j] = NoWork /\ \A l \in Jobs : l # j => job'[l] = job[l]
    BY <1>5, <1>12 DEF Set
  <2>2. job'[j].step # "load" /\ lock' = Unlock(j)
    BY <1>12, <2>1 DEF Set, NoWork
  <2> QED BY <1>2, <2>1, <2>2
<1>13. ASSUME NEW j \in Jobs, Fail(j) PROVE HoldersWork'
  <2>1. \E k : job' = [job EXCEPT ![j] = k] /\ (k = NoWork
            \/ k = Attempt(job[j].user, job[j].gain, job[j].attempts + 1))
    BY <1>13 DEF Fail
  <2>2. /\ \/ job'[j] = NoWork
           \/ job'[j] = Attempt(job[j].user, job[j].gain, job[j].attempts + 1)
        /\ \A l \in Jobs : l # j => job'[l] = job[l]
    BY <1>5, <2>1
  <2>3. job'[j].step # "load" /\ lock' = Unlock(j)
    BY <1>13, <2>2 DEF Fail, NoWork, Attempt
  <2> QED BY <1>2, <2>2, <2>3
<1>14. ASSUME NEW u \in Users, RebuildNext(u) PROVE HoldersWork'
  <2>1. Round \in Jobs
    BY DEF Jobs
  <2>2. job'[Round] = Attempt(u, NoClaims, 0) /\ (\A l \in Jobs : l # Round => job'[l] = job[l])
        /\ lock' = lock /\ job[Round].step = "rest"
    BY <1>5, <1>14, <2>1 DEF RebuildNext, Working
  <2>3. job'[Round].step = "begin"
    BY <2>2 DEF Attempt
  <2>4. \A v \in Users : lock[v] # Round
    BY <1>6, <2>1, <2>2
  <2> QED BY <1>1, <2>1, <2>2, <2>3, <2>4
<1>15. ASSUME Restart PROVE HoldersWork'
  BY <1>15 DEF Restart, HoldersWork, Working, NoWork
<1>16. ASSUME \/ UNCHANGED vars
              \/ \E u \in Users : SignIn(u)
              \/ AdminStep \/ StartRound
              \/ \E r \in Requests : PersonStep(r) \/ Throw(r)
              \/ \E r \in Requests : FindMembership(r) \/ Join(r) \/ Mark(r)
       PROVE  job' = job /\ lock' = lock
  BY <1>16 DEF vars, people, firebase, SignIn, AdminStep, CreateInvite, CancelInvite,
               DeleteMembership, StartRound, PersonStep, Found, Enroll, FindInvite, Throw,
               FindMembership, Join, Mark
<1> QED
  BY <1>4, <1>7, <1>8, <1>9, <1>10, <1>11, <1>12, <1>13, <1>14, <1>15, <1>16
  DEF Next, RoundStep, RequestStep, JobStep, Jobs

\* While the rebuild has its connection, whoever is in a transaction goes on or
\* waits for one that does.
LEMMA TransactionsGoOn ==
  ASSUME IInv, HoldersWork, ~(Working(Round, "load") /\ ~ConnectionIsFree),
         NEW j \in Jobs, InTransaction(j)
  PROVE  \E k \in Jobs : InTransaction(k) /\ JobProceeds(k)
<1>1. ASSUME NEW k \in Jobs, job[k].step \in {"load", "get", "set"}
      PROVE  InTransaction(k) /\ JobProceeds(k)
  <2>1. Working(k, "load") => k = Round
    BY DEF HoldersWork
  <2> QED BY <1>1, <2>1 DEF InTransaction, JobProceeds, Working
<1>2. CASE job[j].step \in {"load", "get", "set"}
  BY <1>1, <1>2
<1>3. CASE Working(j, "lock")
  <2> DEFINE u == job[j].user
  <2>1. u \in Users
    BY <1>3 DEF IInv, JobsKnow, Working
  <2>2. CASE lock[u] = NoJob
    BY <1>3, <2>2 DEF InTransaction, JobProceeds, Working
  <2>3. CASE lock[u] # NoJob
    <3>1. lock[u] \in Jobs /\ job[lock[u]].step \in {"load", "get", "set"}
      BY <2>1, <2>3 DEF IInv, TypeOK, HoldersWork
    <3> QED BY <1>1, <3>1
  <2> QED BY <2>2, <2>3
<1> QED BY <1>2, <1>3 DEF InTransaction, Working

LEMMA WaitersAreServed == IInv /\ HoldersWork => JobsGoOn
<1> SUFFICES ASSUME IInv, HoldersWork, NEW j \in Jobs,
                    ~Working(j, "rest"), ~JobProceeds(j),
                    ~(Working(Round, "load") /\ ~ConnectionIsFree)
             PROVE  \E k \in Jobs : InTransaction(k) /\ JobProceeds(k)
  BY DEF JobsGoOn
<1>1. CASE InTransaction(j)
  BY <1>1, TransactionsGoOn
<1>2. CASE Working(j, "begin")
  <2> DEFINE Busy == {k \in Jobs : InTransaction(k)}
  <2>1. ~(Cardinality(Busy) < Connections)
    BY <1>2 DEF JobProceeds, ConnectionIsFree
  <2>2. Busy # {}
    <3>1. Cardinality({}) = 0 /\ 0 < Connections
      BY FS_EmptySet, AccessAssumption
    <3> HIDE DEF Busy
    <3> QED BY <2>1, <3>1
  <2> QED BY <2>2, TransactionsGoOn
<1>3. job[j].step \in {"rest", "begin", "lock", "load", "get", "set"}
  BY DEF IInv, TypeOK, JobRecords
<1> QED BY <1>1, <1>2, <1>3 DEF InTransaction, Working

LEMMA HoldersAlways == Spec => [](IInv /\ HoldersWork)
<1>1. Init => HoldersWork
  BY HoldersInit
<1>2. IInv /\ HoldersWork /\ [Next]_vars => HoldersWork'
  BY HoldersStep
<1> QED BY <1>1, <1>2, IInvAlways, PTL DEF Spec

\* A pool blocks the updates only where the rebuild, with a lock and a
\* connection, asks for another connection and there is none.
THEOREM JobsWaitForThePoolOnly == Spec => []JobsGoOn
BY WaitersAreServed, HoldersAlways, PTL

LEMMA AmplePoolsAreFree ==
  ASSUME IsFiniteSet(Requests), Connections > Cardinality(Requests) + 1
  PROVE  ConnectionIsFree
<1> DEFINE Busy == {j \in Jobs : InTransaction(j)}
<1>1. IsFiniteSet(Jobs) /\ Cardinality(Jobs) = Cardinality(Requests) + 1
  BY AccessAssumption, FS_AddElement DEF Jobs
<1>2. Busy \subseteq Jobs
  OBVIOUS
<1>3. Cardinality(Busy) <= Cardinality(Jobs) /\ Cardinality(Busy) \in Nat
      /\ Cardinality(Requests) \in Nat
  <2> HIDE DEF Busy
  <2> QED BY <1>1, <1>2, FS_Subset, FS_CardinalityType
<1>4. Cardinality(Busy) < Connections
  <2> HIDE DEF Busy
  <2> QED BY <1>1, <1>3, AccessAssumption
<1> QED BY <1>4 DEF ConnectionIsFree

\* With two connections more than requests that update claims at one time, one
\* for the rebuild and one for what it loads, no job is ever blocked.
THEOREM AmplePoolsNeverBlock ==
  ASSUME IsFiniteSet(Requests), Connections > Cardinality(Requests) + 1
  PROVE  Spec => [](\A j \in Jobs : \/ Working(j, "rest") \/ JobProceeds(j)
                                    \/ \E k \in Jobs : InTransaction(k) /\ JobProceeds(k))
<1>1. JobsGoOn => \A j \in Jobs : \/ Working(j, "rest") \/ JobProceeds(j)
                                  \/ \E k \in Jobs : InTransaction(k) /\ JobProceeds(k)
  BY AmplePoolsAreFree DEF JobsGoOn
<1> QED BY <1>1, JobsWaitForThePoolOnly, PTL
=============================================================================
