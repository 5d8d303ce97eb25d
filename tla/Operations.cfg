SPECIFICATION PartSpec
CONSTANTS
    older = older
    newer = newer
    f1 = f1
    f2 = f2
    b1 = b1
    b2 = b2
    Requests <- TwoRequests
    Ids = {1}
    LongerNames <- NewerIsLonger
    UserStarts <- OlderOnly
    UserStops <- NewerOnly
    MaxUserActs = 1
    BatchSize = 2
    Faults = {"copy_raise", "create_fail", "build_raise", "report_fail", "report_raise", "end_fail", "list_raise", "delete_fail", "thread_dies"}
    MaxFailures = 1
    Tools = {"gcb", "make"}
    Builds = {"base", "coverage", "fuzzer"}
    Fuzzers <- TwoFuzzers
    Benchmarks <- TwoBenchmarks
    UnsupportedBenchmarks <- None
    AllowedBenchmarks <- None
    Languages <- LanguagesOf
    Language <- LanguageOf
    UnsupportedFuzzers <- NoFuzzers
    NumTrials = 2
    NUM_BUILD_ATTEMPTS = 2
    ConcurrentBuilds = 2
    BuildFaults = {"build_fail", "timeout", "store_raise", "raise"}
INVARIANTS
    TypesOK
    AllTrialsOrNone
    TrialsCanRun
    LeftOutAfterAllAttempts
    BuiltFromDependencies
    DispatcherFindsInput
    EndedIsReported
    NoOrphanRunners
    RunningHasDispatcher
    NothingIsLeft
PROPERTIES
    EveryPartGetsThere
CHECK_DEADLOCK FALSE
