SPECIFICATION Spec
CONSTANTS
    Definitions <- MCDefinitions
    TextTokens = {"x", "(", ")", ",", "O", "F", "P"}
    Pasted <- MCPasted
    MaxTokens = 6
    MaxInterrupted = 3
INVARIANTS ExpansionMatchesLanguage
