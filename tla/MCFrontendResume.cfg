SPECIFICATION Spec
CONSTANTS
    Protocol = {0}
    Domain = {1}
    WaitRounds = 2
    Prompt = TRUE
    MaxFaults = 0
INVARIANT
    ResumeSucceeds
CHECK_DEADLOCK FALSE
