SPECIFICATION Spec
CONSTANTS
    i1 = i1
    i2 = i2
    Trials <- TwoInitial
    InitialTrials <- TwoInitial
    Preemptible = FALSE
    MaxFaults = 1
    MaxCycle = 2
    BatchSize = 2
    Faults = {"upload_gap"}
INVARIANT AllMeasuredWhenDone
