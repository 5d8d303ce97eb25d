SPECIFICATION Spec
CONSTANTS
    i1 = i1
    i2 = i2
    i3 = i3
    r1 = r1
    r2 = r2
    c1 = c1
    c2 = c2
    NoTrial = NoTrial
    NoCpuset = NoCpuset
    Trials <- FourTrials
    InitialTrials <- TwoInitial
    Cpusets = {}
    Local = FALSE
    Preemptible = TRUE
    MaxTotalTime = 1
    GraceTime = 2
    MaxPreemptions = 2
    Faults = {"create_fail"}
SYMMETRY TrialSymmetry
INVARIANT NonpreemptiblesBounded
