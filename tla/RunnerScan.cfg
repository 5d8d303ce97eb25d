SPECIFICATION Spec
CONSTANTS
    seed = seed
    f1 = f1
    f2 = f2
    main = main
    crashes = crashes
    NoFile = NoFile
    Files <- ThreeFiles
    Seeds <- OneSeed
    Dirs <- TwoDirs
    DirOf <- OneApart
    MaxTime = 3
    MaxCycle = 2
    NumRetries = 1
    Disturbances = {}
INVARIANT SkippedIsSavedWhileFuzzing
