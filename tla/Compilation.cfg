SPECIFICATION Spec
CONSTANTS
    Literals <- MCLiterals
    CommonTokens <- MCCommonTokens
    ShortLine = 4
    MaxTokens = 7
    Width = 16
    IntBits = 4
    SmallBits = 3
    Unspecified = Unspecified
    Leaves <- MCLeaves
    Constructed <- MCConstructed
    MaxOperations = 2
    Called = {"abs", "sign", "floor", "sin", "min", "clamp", "pow"}
    MainTexts <- MCMainTexts
    Disks <- MCDisks
    Canonical <- MCCanonical
    NoPath = NoPath
    MaxIncludeDepth = 2
    KnownExtensions = {"E"}
    Clients = {c1}
    Stages = {"Vertex"}
    GlslStdlibText <- MCGlslStdlibText
    UserPreambles <- MCUserPreambles
    UserTexts <- MCUserTexts
    MaxCompilations = 2
INVARIANTS ValueIsMeaning FoldedIsMeant OutputIsInclusion DescribedByAdjacent NothingDangles CompiledAsOneText
