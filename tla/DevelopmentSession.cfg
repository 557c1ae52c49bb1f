SPECIFICATION FairSpec
CONSTANTS
    Sessions = {s1}
    People = {a1, a2}
    Servers = {w1, w2}
    Ids = {x1, x2}
    None = None
    MaxRequests = 1
    MaxFaults = 2
INVARIANTS LogFaithful OneRunEach SecondHand Truthful
PROPERTIES ImplementsRevisionLog OnlyAbandonedCleaned InFlightEnds
