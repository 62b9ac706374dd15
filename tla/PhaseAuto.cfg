SPECIFICATION Spec
CONSTANTS
    PHASE_RANGE = 16
    SETTLE = 1
    PS_TIMEOUT = 3
    CMP_LENGTH = 1
    MODES = {"auto", "manual"}
    STEP_SIZES = {1, 2, 5}
    UPDOWNS = {TRUE, FALSE}
    EYES <- MCEyes
    GIVES_UP = FALSE
    SLOW_PLL = FALSE
    MAX_STARTS = 2
INVARIANTS PhasesAreExact
PROPERTY StillWhileComparing
CHECK_DEADLOCK FALSE
