CONSTANTS
    Media <- MCMediaOneObject
    MaxFragment = 2
    RepeatCaps = {1}
    ExtraRepeatOnNack = FALSE
    ExtraRepeatAfterDelayed = TRUE
    ExtraDelay = 2
    MaxLoss = 2
    MaxTime = 3
    CanClose = TRUE
SPECIFICATION Spec
INVARIANTS
    HorizonSafe
    ExtraQueueConsistent
    NoFailure
