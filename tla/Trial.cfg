SPECIFICATION PartSpec
CONSTANTS
    seed = seed
    f1 = f1
    f2 = f2
    main = main
    i1 = i1
    r1 = r1
    u1 = u1
    u2 = u2
    NoFile = NoFile
    Files <- ThreeFiles
    Seeds <- OneSeed
    Dirs <- OneDir
    DirOf <- AllInOne
    MaxTime = 3
    MaxCycle = 2
    NumRetries = 1
    Disturbances = {"upload_fail", "upload_lost", "rewrite"}
    Trials <- OneWithReplacement
    InitialTrials <- OneInitial
    Preemptible = TRUE
    LastCycle = 1
    BatchSize = 2
    MaxFaults = 1
    Faults = {"upload_gap", "copy_fail", "measure_raise", "query_raise", "commit_fail", "late_put"}
    NoCrash = NoCrash
    Units <- TwoUnits
    Edges <- TwoEdges
    CrashKey <- OneCrash
    MaxMeasureFaults = 1
    MeasureFaults = {"raise", "run", "merge", "summary", "save"}
INVARIANTS
    TypesOK
    ArchivedOnce
    SkippedIsSavedWhileFuzzing
    MeasuredWhenDone
    SnapshotsContiguous
    OneWorkerPerTrial
    CoverageIsOfArchives
    CrashesAreOfCycle
PROPERTIES
    TrialsComeToAnEnd
    ImplementsArchives
CHECK_DEADLOCK FALSE
