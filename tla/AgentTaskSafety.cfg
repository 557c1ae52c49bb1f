SPECIFICATION Spec
CONSTANTS
    Tasks = {t1, t2}
    Workers = {w1, w2}
    None = None
    Gone = Gone
    QueueSize = 1
    MaxFaults = 1
SYMMETRY Symmetry
INVARIANTS FlagAgrees OneExecution
PROPERTIES SettledFrozen
