SPECIFICATION SharedSpec
CONSTANTS
    i1 = i1
    r1 = r1
    NoTrial = NoTrial
    NoCpuset = NoCpuset
    Trials <- OneWithReplacement
    InitialTrials <- OneInitial
    Cpusets = {}
    Local = FALSE
    Preemptible = TRUE
    MaxTotalTime = 1
    GraceTime = 2
    MaxPreemptions = 1
    Faults = {}
INVARIANT ReplacedTrialsAreMarked
