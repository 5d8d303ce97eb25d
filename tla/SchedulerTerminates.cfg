SPECIFICATION EitherSpec
CONSTANTS
    i1 = i1
    i2 = i2
    i3 = i3
    r1 = r1
    r2 = r2
    c1 = c1
    c2 = c2
    NoTrial = NoTrial
    NoCpuset = NoCpuset
    Trials <- ThreeTrials
    InitialTrials <- TwoInitial
    Cpusets = {}
    Local = FALSE
    Preemptible = TRUE
    MaxTotalTime = 1
    GraceTime = 2
    MaxPreemptions = 1
    Faults = {"create_fail", "delete_fail", "delete_raise"}
INVARIANTS
    LocalCoresFollowRunningTrials
    LocalTrialsHaveOneContainer
PROPERTY Terminates
