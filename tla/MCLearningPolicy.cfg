SPECIFICATION Spec
CONSTANTS
    a1 = a1
    a2 = a2
    r1 = r1
    Actor = {a1, a2}
    Run = {r1}
    MaxVersions = 3
    MaxObservations = 2
    MinSamples = 1
    MaxClaims = 2
SYMMETRY Sessions
INVARIANTS PolicyTypeOK
PROPERTIES StaysServed ExperimentOnce PromotionHealsRace
CHECK_DEADLOCK FALSE
