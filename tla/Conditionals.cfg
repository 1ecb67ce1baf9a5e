SPECIFICATION Spec
CONSTANT MaxLines = 7
INVARIANTS PassedTextIsSelected RegionsMatchDropped
