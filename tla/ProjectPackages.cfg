SPECIFICATION Spec
CONSTANTS
    Sources = {s1}
    Names = {n1}
    Artifacts = {1, 2}
    Documents = {api, test}
    Api = api
    Requirements = {q1, q2}
    Texts = {x1}
    Tasks = {t1}
    Works = {w1}
    None = None
    Window = 2
    Steps = 3
    MaxVersion = 2
    MaxReviews = 3
    MaxCalls = 2
    MaxGrants = 2
    MaxClaims = 2
INVARIANTS TypeOK TaskTruthful
PROPERTIES StandsOnReview
CHECK_DEADLOCK FALSE
