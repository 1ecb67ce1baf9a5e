CONSTANTS
    Programs <- MCPrograms
    EditTokens <- MCEditTokens

SPECIFICATION Spec
INVARIANTS
    ParserEnds
    GroupedByPrecedence
    SearchFindsNames
    NamesResolvedByScope
    NavigationAgrees
    CompletionOffersVisible
    ColouredOnce
    HintsNameArguments
PROPERTY ErrorsStayInBody
CHECK_DEADLOCK FALSE
