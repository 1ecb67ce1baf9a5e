SPECIFICATION Spec
CONSTANTS
    Data = {0, 1}
    MaxLength = 3
    MaxInFlight = 2
    MaxResponses = 4
INVARIANTS DeltaExactUnlessTruncated
