SPECIFICATION Spec
CONSTANTS
    i1 = i1
    i2 = i2
    i3 = i3
    r1 = r1
    r2 = r2
    c1 = c1
    c2 = c2
    NoTrial = NoTrial
    NoCpuset = NoCpuset
    Trials <- FiveTrials
    InitialTrials <- ThreeInitial
    Cpusets = {}
    Local = FALSE
    Preemptible = TRUE
    MaxTotalTime = 1
    GraceTime = 2
    MaxPreemptions = 2
    Faults = {"create_fail", "create_lost", "create_raise", "list_raise", "commit_fail"}
SYMMETRY TrialSymmetry
INVARIANTS
    SlotsLostOnlyByOmission
    EndedTrialsAreDeleted
    FinishedMeansEnded
