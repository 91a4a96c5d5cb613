SPECIFICATION FairSpec
CONSTANTS
    front = front
    left = left
    right = right
    Env <- MCEnv
    Extra <- MCExtra
INVARIANTS
    NoPullingInReplay
    PulledAsConfigured
PROPERTY FallsSilent
CHECK_DEADLOCK FALSE
