SPECIFICATION Spec
CONSTANTS
    member1 = member1  link1 = link1  link2 = link2
    r1 = r1  r2 = r2  t1 = t1
    Keys = {member1, link1, link2}
    Memberships = {member1, link1, link2}
    NoKey = NoKey
    Requests = {r1, r2}
    Links = {t1}
    NoLink = NoLink
    LinkOf <- MCLinkOf
    SourceOf <- MCSourceOf
    MaxExpired = 1
    MaxFaults = 1
SYMMETRY Symmetry
INVARIANTS OneLiveIntent CartFollowsIntent NoDuplicateStorefrontCart NoOrphanedAttempt LinkIsSpentOnce
PROPERTIES NothingIsRevived
CHECK_DEADLOCK FALSE
