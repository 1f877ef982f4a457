SPECIFICATION FairSpec
CONSTANTS
    u1 = u1
    o1 = o1
    f1 = f1
    t1 = t1
    r1 = r1
    r2 = r2
    round = round
    admin = admin
    other = other
    none = none
    Users = {u1}
    Orgs = {o1}
    Festivals = {f1}
    Roles = {admin, other}
    Admin = admin
    Offered = {other}
    NoRole = none
    Invites = {t1}
    Requests = {r1, r2}
    Round = round
    NoJob = none
    NoUser = none
    NoOrg = none
    NoInvite = none
    Connections = 5
    MaxAttempts = 2
    MaxFaults = 1
INVARIANTS
    AcceptedInviteWasHonoured
    UpdatesAreNotLost
    ClaimsAreEarned
    JobsGoOn
PROPERTIES
    ClaimsConverge
