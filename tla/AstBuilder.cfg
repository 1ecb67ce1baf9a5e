SPECIFICATION Spec
CONSTANTS
    LeafTypes <- MCLeafTypes
    Preambles <- MCPreambles
    Signatures <- MCSignatures
    MaxOverloads = 3
INVARIANTS CastsAreConversions ProductsAreLinearAlgebra OverloadOrderIrrelevant
CHECK_DEADLOCK FALSE
