SPECIFICATION PartSpec
CONSTANTS
    MaxMutations = 3
    MutantTimes = {4, 7}
    MaxCpus = 7
INVARIANTS
    AcceptedIsComplete
    CpusAreDisjoint
    ChosenHaveOneType
    FuzzFindsItsFiles
    BuiltFromPristineSources
    CrashesAreDetected
    MutantsDifferByOneMutation
    TargetGetsItsTime
    LatestFindsReachTarget
CHECK_DEADLOCK FALSE
