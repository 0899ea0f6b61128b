SPECIFICATION Spec
CONSTANTS
    c1 = c1
    c2 = c2
    Clients = {c1, c2}
    NodeTypes <- MCNodeTypes
    BlockTypes <- MCBlockTypes
    Texts <- MCTexts
    TextFacts <- MCTextFacts
    MaxDepth = 2
    MaxKids = 2
    Starts <- MCStarts
INVARIANTS
    InliningKeepsTheGraph
    CompiledGraphsAreSound
    NothingBeyondWhatWasAsked
    NothingStaysBlocked
