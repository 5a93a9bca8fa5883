SPECIFICATION FairSpec
CONSTANTS
    Texts <- MCTexts
    MaxDepth <- MCDepth
    Flags = {TRUE, FALSE}
    MaxTokens = 5
INVARIANTS
    CutsDoNotMatter
    ParsesGrammar
PROPERTY CallsReturn
CHECK_DEADLOCK FALSE
