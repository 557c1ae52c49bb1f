SPECIFICATION Spec
CONSTANTS
    Staging = {s1}
    Production = {p1}
    People = {a1, a2}
    Digests = {d1, d2}
    Copies = {n1}
    None = None
SYMMETRY Symmetry
VIEW WithoutLog
CONSTRAINT Bound
INVARIANTS PromotionSound
