SPECIFICATION FairSpec
CONSTANTS
    Workers = {w1, w2}
    Main = main
    Nobody = Nobody
    Messages <- MCMessages
    Headings <- MCHeadings
    PayloadSize = 2
    MaxBufferSize = 3
    MaxFrames = 2
INVARIANTS OutputFramed AnsweredOnce PulledInStep
PROPERTY RequestsAnswered
CHECK_DEADLOCK FALSE
