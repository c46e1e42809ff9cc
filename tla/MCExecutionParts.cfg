SPECIFICATION PartsSpec
CONSTANTS
    Draft <- MCDraft
    Correction <- MCCorrection
    PolicyCap = {2, 3}
    ModeCap = {1, 2, 3}
    Goals <- MCGoals
    Page = {"p1", "p2"}
    Claim = {"c1", "c2", "c3"}
    ClassOf <- MCClassOf
    On <- MCOn
    Supports <- MCSupports
    Shows <- MCShows
    Snapshot = {"s1", "s2", "s3"}
    Short = {"s3"}
    Passage = {"a", "b", "c"}
    Passages <- MCPassages
    Cost <- MCCost
    EmbeddingSpec = {"k1", "k2"}
    MaxIndexTokens = 4
    NoIndex = NoIndex
INVARIANTS PlanExecutable SoundPlanKept IndexSound
PROPERTIES EvidenceNeverHurts
CHECK_DEADLOCK FALSE
