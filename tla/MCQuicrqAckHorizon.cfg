CONSTANTS
    Media <- MCMedia
    MaxFragment = 2
    RepeatCaps = {1}
    ExtraRepeatOnNack = TRUE
    ExtraRepeatAfterDelayed = FALSE
    ExtraDelay = 1
    MaxLoss = 2
    MaxTime = 2
    CanClose = FALSE
SPECIFICATION Spec
INVARIANTS
    TypeOK
    ExtraQueueConsistent
    NoFailure
PROPERTY
    AllDelivered
    ImplementsWindow
