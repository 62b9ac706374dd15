SPECIFICATION FairSpec
CONSTANTS
    PHASE_RANGE = 7
    SETTLE = 1
    PS_TIMEOUT = 3
    CMP_LENGTH = 1
    MODES = {"auto"}
    STEP_SIZES = {3}
    UPDOWNS = {TRUE}
    EYES <- MCFewEyes
    GIVES_UP = TRUE
    SLOW_PLL = TRUE
    MAX_STARTS = 2
INVARIANT SuccessIsInEye
PROPERTY Answered
CHECK_DEADLOCK FALSE
