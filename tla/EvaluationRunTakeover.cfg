SPECIFICATION PatientSpec
CONSTANTS
    Runs = {r1}
    Workers = {w1, w2}
    None = None
    Gone = Gone
    QueueSize = 1
    MaxFaults = 2
INVARIANTS OneExecution
PROPERTIES SettledFrozen CancelStops
