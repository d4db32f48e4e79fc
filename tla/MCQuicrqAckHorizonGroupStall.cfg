CONSTANTS
    Media <- MCMedia
    MaxFragment = 2
    RepeatCaps = {1}
    ExtraRepeatOnNack = FALSE
    ExtraRepeatAfterDelayed = FALSE
    ExtraDelay = 0
    MaxLoss = 0
    MaxTime = 0
    CanClose = FALSE
SPECIFICATION Spec
INVARIANT
    HorizonMaximal
