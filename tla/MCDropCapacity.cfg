SPECIFICATION Spec
CONSTANTS
    a = a
    b = b
    x1 = x1
    x2 = x2
    x3 = x3
    Registrations = {x1, x2, x3}
    Classes = {a, b}
    Capacity <- OneSeatEach
    StartClass <- Bought
    Rank <- Arrival
    Requests = {r1, r2, r3}
    Nobody = Nobody
    NoClass = NoClass
    MaxFaults = 0
SYMMETRY Slots
CHECK_DEADLOCK FALSE
INVARIANT TransferTargetWithinCapacity
