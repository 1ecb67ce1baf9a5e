SPECIFICATION Spec
CONSTANT MaxLines = 6
INVARIANT SeenActiveBranchRemembered
