CONSTANTS
    Media <- MCMediaOneObject
    MaxFragment = 2
    RepeatCaps = {1}
    ExtraRepeatOnNack = FALSE
    ExtraRepeatAfterDelayed = TRUE
    ExtraDelay = 1
    MaxLoss = 2
    MaxTime = 3
    CanClose = FALSE
SPECIFICATION Spec
INVARIANT
    NoFailure
