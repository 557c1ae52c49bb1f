SPECIFICATION FairSpec
CONSTANTS
    Tasks = {t1, t2}
    Workers = {w1}
    None = None
    Gone = Gone
    QueueSize = 1
    MaxFaults = 2
PROPERTIES Settles ImplementsLifecycle
