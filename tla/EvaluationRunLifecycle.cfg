SPECIFICATION FairSpec
CONSTANTS
    Runs = {r1, r2}
    Workers = {w1}
    None = None
    Gone = Gone
    QueueSize = 1
    MaxFaults = 2
INVARIANTS TypeOK GateAgrees
PROPERTIES Settles ImplementsLifecycle
