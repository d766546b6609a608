SPECIFICATION MCSpec
CONSTANTS
    Parts = {"handoff", "gate", "engine"}
    StepSamples = 2
    WakeDepth = 1
    TurnDepth = 2
    PreRolls = {1, 3, 4}
    turnHandoffHistorySamples = 3
    MaxOffset = 4
    MaxFinishes = 1
    WakeConfigs <- MCWakeConfigs
    Window = 2
    MaxSteps = 4
    MaxDelay = 2
    MaxChanges = 1
    Chains <- MCChains
    Rows = 2
    EngineFrames = 2
    EngineSteps = 6
    Candidates <- MCCandidates
    NoConfig = NoConfig
    MaxScore = 2
    FrameLengths = {1, 2}
    TriggerPreRolls = {0, 1, 6}
CHECK_DEADLOCK FALSE
INVARIANTS
    HandoffInvariant
    RingHoldsLatest
    GateInvariant
    InferenceIsIncremental
