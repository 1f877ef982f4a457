SPECIFICATION FairSpec
CONSTANTS
    s1 = s1
    s2 = s2
    a1 = a1
    r1 = r1
    r2 = r2
    none = none
    Sessions = {s1, s2}
    States = {a1}
    Requests = {r1, r2}
    NoSession = none
    NoState = none
    MaxVersion = 2
    MaxTokens = 2
INVARIANTS
    StateMakesOneSession
    RefreshesAreAwaited
PROPERTIES
    RefreshTokenIsSentOnce
    
    EveryRequestEnds
