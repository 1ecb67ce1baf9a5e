SPECIFICATION Spec
CONSTANTS
    Workers = {w1}
    Main = main
    Nobody = Nobody
    Messages <- MCMessages
    Headings <- MCHeadings
    PayloadSize = 2
    MaxBufferSize = 3
    MaxFrames = 2
INVARIANT OutputOutlivesPushes
CHECK_DEADLOCK FALSE
