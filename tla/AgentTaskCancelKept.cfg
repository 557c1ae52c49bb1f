SPECIFICATION Spec
CONSTANTS
    Tasks = {t1}
    Workers = {w1, w2}
    None = None
    Gone = Gone
    QueueSize = 1
    MaxFaults = 0
PROPERTIES CancelKept
