SPECIFICATION Spec
CONSTANTS
    w1 = w1  w2 = w2  d1 = d1  d2 = d2  d3 = d3  o1 = o1  o2 = o2
    class = class  member = member  l1 = l1  l2 = l2  l3 = l3
    Workers = {w1, w2}
    Deliveries = {d1, d2, d3}
    NoDelivery = NoDelivery
    Orders = {o1, o2}
    OrderOf <- ReplayedOrders
    Intents = {class}
    NoIntent = NoIntent
    IntentOf <- OneClassIntent
    ClassIntents = {class}
    Lines = {l1, l2}
    LinesOf <- TwoLines
    Consented = {class}
    NoOrder = NoOrder
    Crashes = TRUE
    MaxFaults = 1
SYMMETRY Symmetry
INVARIANTS ApprovedIffIssued  ClosedMeansDecided
PROPERTIES ImplementsDeliveryRow ReplayKeepsChanges ImplementsPurchaseDecision
CHECK_DEADLOCK FALSE
