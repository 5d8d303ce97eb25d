SPECIFICATION Spec
CONSTANTS
    seed = seed
    f1 = f1
    f2 = f2
    main = main
    crashes = crashes
    NoFile = NoFile
    Files <- ThreeFiles
    Seeds <- OneSeed
    Dirs <- OneDir
    DirOf <- AllInOne
    MaxTime = 3
    MaxCycle = 2
    NumRetries = 1
    Disturbances = {}
INVARIANT SkippedIsSaved
