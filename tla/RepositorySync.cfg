SPECIFICATION SyncSpec
CONSTANTS
    Documents = {d1, d2}
    Sources = {s1, s2}
    Contents = {c1, c2}
    Callers = {y1, y2, y3}
    People = {}
    None = None
    MaxVersion = 3
    MaxCommits = 3
    MaxEdits = 2
SYMMETRY Symmetry
INVARIANTS SyncTypeOK OnlyCommitted ReportTruthful BaselineUnbroken
CHECK_DEADLOCK FALSE
