SPECIFICATION FairSpec
CONSTANTS
    Staging = {s1}
    Production = {}
    People = {a1, a2}
    Digests = {d1}
    Copies = {n1}
    None = None
INVARIANTS AppliedOnce Authorised Truthful
PROPERTIES ImplementsRevisionLog NoRegress RunsSettle
