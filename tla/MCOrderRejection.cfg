SPECIFICATION Spec
CONSTANTS
    w1 = w1  w2 = w2  d1 = d1  d2 = d2  d3 = d3  o1 = o1  o2 = o2
    class = class  member = member  l1 = l1  l2 = l2  l3 = l3
    Workers = {w1, w2}
    Deliveries = {d1, d2}
    NoDelivery = NoDelivery
    Orders = {o1}
    OrderOf <- OneOrder
    Intents = {class}
    NoIntent = NoIntent
    IntentOf <- ClassOrder
    ClassIntents = {class}
    Lines = {l1}
    LinesOf <- OneLine
    Consented = {}
    NoOrder = NoOrder
    Crashes = TRUE
    MaxFaults = 0
PROPERTIES RejectionIsFinal
CHECK_DEADLOCK FALSE
