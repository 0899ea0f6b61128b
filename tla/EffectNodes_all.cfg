\* Every effect node under crashes and lost keys; two branches that share a
\* budget too small for two dearest lots.
SPECIFICATION EffectsSpec
CONSTANTS
    Kids = {"self", "other"}
    Self = "self"
    Starts <- MCStarts
    MaxAttempts = 3
    MaxPages = 3
    Answers <- MCAnswers
    Allowed <- MCAllowed
    b1 = b1  b2 = b2
    Branches = {b1, b2}
    Forked = TRUE
    NLots = 2
    MaxPrice = 2
    Budget = 3
    MaxCrashes = 2
SYMMETRY Symmetry
INVARIANTS
    EffectsAreNotRepeated
    NoCallOutlivesItsStep
    InwardIsNeverReached
    OverrunIsBounded
    LedgerIsHonest
