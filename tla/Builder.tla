------------------------------ MODULE Builder ------------------------------
(***************************************************************************)
(* The builds of an experiment (experiment/build/builder.py): the          *)
(* dispatcher builds the base images, then the measurer of every           *)
(* benchmark, then every pair of a fuzzer and a benchmark whose measurer   *)
(* was built, and makes the trials of the pairs that were built            *)
(* (build_images_for_trials of experiment/dispatcher.py).                  *)
(*                                                                         *)
(* retry_build_loop calls the build function on all inputs in a pool of    *)
(* threads, and up to NUM_BUILD_ATTEMPTS times on those that failed.  With *)
(* experiment/build/gcb_build.py a build is one of Google Cloud Build: the *)
(* thread waits for the gcloud process, stores its output in the filestore *)
(* and then looks at its return code.  When gcloud is killed after         *)
(* GCB_BUILD_TIMEOUT the build it submitted may still go on.               *)
(***************************************************************************)
EXTENDS Naturals, FiniteSets

CONSTANTS
    Fuzzers, Benchmarks,    \* what is in the configuration of the experiment
    UnsupportedBenchmarks,  \* unsupported_benchmarks of a fuzzer.yaml
    AllowedBenchmarks,      \* allowed_benchmarks of it, {} for no such key
    Languages,              \* languages of it
    Language,               \* language of a benchmark.yaml
    UnsupportedFuzzers,     \* unsupported_fuzzers of it
    NumTrials,              \* trials of the configuration
    NUM_BUILD_ATTEMPTS,
    ConcurrentBuilds,       \* the CONCURRENT_BUILDS of the environment
    BuildFaults             \* what can go wrong, a subset of AllBuildFaults

(***************************************************************************)
(*   build_fail   a build ends with an error                               *)
(*   timeout      gcloud is killed, its build goes on                      *)
(*   store_raise  storing the output raises CalledProcessError             *)
(*   raise        something else raises, before anything is submitted      *)
(***************************************************************************)
AllBuildFaults == {"build_fail", "timeout", "store_raise", "raise"}

ASSUME BuilderAssumption ==
    /\ IsFiniteSet(Fuzzers) /\ IsFiniteSet(Benchmarks)
    /\ UnsupportedBenchmarks \in [Fuzzers -> SUBSET Benchmarks]
    /\ AllowedBenchmarks \in [Fuzzers -> SUBSET Benchmarks]
    /\ UnsupportedFuzzers \in [Benchmarks -> SUBSET Fuzzers]
    /\ DOMAIN Languages = Fuzzers /\ DOMAIN Language = Benchmarks
    /\ NumTrials \in Nat \ {0}
    /\ NUM_BUILD_ATTEMPTS \in Nat \ {0}
    /\ ConcurrentBuilds \in Nat \ {0}
    /\ BuildFaults \subseteq AllBuildFaults

\* get_fuzzer_benchmark_pairs.
Pairs(benchmarks) ==
    {p \in Fuzzers \X benchmarks :
        LET f == p[1]
            b == p[2]
        IN /\ b \notin UnsupportedBenchmarks[f]
           /\ AllowedBenchmarks[f] = {} \/ b \in AllowedBenchmarks[f]
           /\ Language[b] \in Languages[f]
           /\ f \notin UnsupportedFuzzers[b]}

\* What build_measurer and build_fuzzer_benchmark are called on.
MeasurerArgs == {<<b>> : b \in Benchmarks}
Args == MeasurerArgs \union Pairs(Benchmarks)

VARIABLES
    stage,     \* "base", "measurers", "fuzzers", "started" or "raised"
    attempt,   \* the attempt of retry_build_loop
    calls,     \* the inputs of this attempt, and where the call on each is
    successes, \* how often an input is in the successes of its loop
    builds,    \* the builds Google Cloud Build is at work on
    images,    \* the inputs whose images, or binaries, are there
    tries,     \* how often the build function was called on an input
    trials     \* how many trials were made of a pair

vars == <<stage, attempt, calls, successes, builds, images, tries, trials>>

Start(inputs) == [a \in inputs |-> "waiting"]

Init ==
    /\ stage = "base"
    /\ attempt = 1
    /\ calls = Start({})
    /\ successes = [a \in Args |-> 0]
    /\ builds = {}
    /\ images = {}
    /\ tries = [a \in Args |-> 0]
    /\ trials = [p \in Pairs(Benchmarks) |-> 0]

\* build_base_images raises when it fails: that ends the dispatcher.
BuildBaseImages ==
    /\ stage = "base"
    /\ \/ stage' = "measurers" /\ calls' = Start(MeasurerArgs)
       \/ /\ BuildFaults # {}
          /\ stage' = "raised" /\ UNCHANGED calls
    /\ UNCHANGED <<attempt, successes, builds, images, tries, trials>>

Calls(where) == {a \in DOMAIN calls : calls[a] = where}

Returns(a, where) == calls' = [calls EXCEPT ![a] = where]

\* A thread of the pool takes the next call and submits the build.
Submit(a) ==
    /\ a \in Calls("waiting")
    /\ Cardinality(Calls("building") \union Calls("built")) < ConcurrentBuilds
    /\ Returns(a, "building")
    /\ builds' = builds \union {<<a, attempt>>}
    /\ tries' = [tries EXCEPT ![a] = @ + 1]
    /\ UNCHANGED <<stage, attempt, successes, images, trials>>

\* build_measurer catches Exception, build_fuzzer_benchmark no more than
\* CalledProcessError.
Caught(a) == a \in MeasurerArgs

CallRaises(a) ==
    /\ "raise" \in BuildFaults
    /\ a \in Calls("waiting")
    /\ Returns(a, IF Caught(a) THEN "failed" ELSE "raised")
    /\ tries' = [tries EXCEPT ![a] = @ + 1]
    /\ UNCHANGED <<stage, attempt, successes, builds, images, trials>>

\* A build of this attempt that some call still waits for.
Awaited(a, n) == n = attempt /\ a \in Calls("building")

BuildSucceeds(a, n) ==
    /\ <<a, n>> \in builds
    /\ builds' = builds \ {<<a, n>>}
    /\ images' = images \union {a}
    /\ IF Awaited(a, n) THEN Returns(a, "built") ELSE UNCHANGED calls
    /\ UNCHANGED <<stage, attempt, successes, tries, trials>>

\* The output of a build that failed is stored, then its code is looked at:
\* it raises CalledProcessError either way.
BuildFails(a, n) ==
    /\ "build_fail" \in BuildFaults
    /\ <<a, n>> \in builds
    /\ builds' = builds \ {<<a, n>>}
    /\ IF Awaited(a, n) THEN Returns(a, "failed") ELSE UNCHANGED calls
    /\ UNCHANGED <<stage, attempt, successes, images, tries, trials>>

\* Mutant of AfterTimeout: a killed gcloud counts as a success.
AfterTimeout_Ok == "ok"

\* The return code of a killed process is not 0.
AfterTimeout == "failed"

TimesOut(a) ==
    /\ "timeout" \in BuildFaults
    /\ a \in Calls("building")
    /\ Returns(a, AfterTimeout)
    /\ UNCHANGED <<stage, attempt, successes, builds, images, tries, trials>>

\* store_build_logs.
StoresLogs(a) ==
    /\ a \in Calls("built")
    /\ \/ Returns(a, "ok")
       \/ "store_raise" \in BuildFaults /\ Returns(a, "failed")
    /\ UNCHANGED <<stage, attempt, successes, builds, images, tries, trials>>

Build ==
    \/ \E a \in Args :
         Submit(a) \/ CallRaises(a) \/ TimesOut(a) \/ StoresLogs(a)
    \/ \E a \in Args, n \in 1..NUM_BUILD_ATTEMPTS :
         BuildSucceeds(a, n) \/ BuildFails(a, n)

\* successes.extend(curr_successes).
Extended == [a \in Args |->
    successes[a] + (IF a \in Calls("ok") THEN 1 ELSE 0)]

\* Mutants of NextInputs: all inputs are built again; none are.
NextInputs_All == DOMAIN calls
NextInputs_None == {}

\* inputs = curr_failures.
NextInputs == Calls("failed")

\* starmap raises the first exception of a call when no call goes on; those
\* behind it in its chunk are never made.
StarmapRaises ==
    /\ Calls("raised") # {}
    /\ Calls("building") \union Calls("built") = {}
    /\ stage' = "raised"
    /\ calls' = Start({})
    /\ UNCHANGED <<attempt, successes, builds, images, tries, trials>>

\* Mutant of StarmapReturns: it waits for successes.
StarmapReturns_Ok ==
    /\ stage \in {"measurers", "fuzzers"}
    /\ DOMAIN calls = Calls("ok")

StarmapReturns ==
    /\ stage \in {"measurers", "fuzzers"}
    /\ DOMAIN calls = Calls("ok") \union Calls("failed")

\* Mutant of AttemptsLeft: off by one.
AttemptsLeft_OneMore == attempt <= NUM_BUILD_ATTEMPTS

AttemptsLeft == attempt < NUM_BUILD_ATTEMPTS

Retries ==
    /\ StarmapReturns
    /\ NextInputs # {}
    /\ AttemptsLeft
    /\ attempt' = attempt + 1
    /\ calls' = Start(NextInputs)
    /\ successes' = Extended
    /\ UNCHANGED <<stage, builds, images, tries, trials>>

\* What build_all_measurers returns.
Measured == {b \in Benchmarks : Extended[<<b>>] > 0}

\* The loop over the attempts is over: the fuzzers of the benchmarks that can
\* be measured are next, or the trials of the pairs that were built.
LoopReturns ==
    /\ StarmapReturns
    /\ NextInputs = {} \/ ~AttemptsLeft
    /\ successes' = Extended
    /\ \/ /\ stage = "measurers"
          /\ stage' = "fuzzers"
          /\ attempt' = 1
          /\ calls' = Start(Pairs(Measured))
          /\ UNCHANGED trials
       \/ /\ stage = "fuzzers"
          /\ stage' = "started"
          /\ calls' = Start({})
          /\ trials' = [p \in Pairs(Benchmarks) |-> NumTrials * Extended[p]]
          /\ UNCHANGED attempt
    /\ UNCHANGED <<builds, images, tries>>

Loop == StarmapRaises \/ Retries \/ LoopReturns

Next == BuildBaseImages \/ Build \/ Loop

Spec == Init /\ [][Next]_vars

\* The dispatcher and the threads of the pool go on; gcloud ends or is killed.
Fairness == WF_vars(Next)

FairSpec == Spec /\ Fairness

-----------------------------------------------------------------------------
(***************************************************************************)
(* Properties.                                                             *)
(***************************************************************************)
TypeOK ==
    /\ stage \in {"base", "measurers", "fuzzers", "started", "raised"}
    /\ attempt \in 1..NUM_BUILD_ATTEMPTS
    /\ DOMAIN calls \subseteq Args
    /\ \A a \in DOMAIN calls :
         calls[a] \in {"waiting", "building", "built", "ok", "failed", "raised"}
    /\ successes \in [Args -> 0..NUM_BUILD_ATTEMPTS]
    /\ builds \subseteq Args \X (1..NUM_BUILD_ATTEMPTS)
    /\ images \subseteq Args
    /\ tries \in [Args -> 0..NUM_BUILD_ATTEMPTS]
    /\ trials \in [Pairs(Benchmarks) -> 0..(NumTrials * NUM_BUILD_ATTEMPTS)]

\* A pair of a fuzzer and a benchmark has the trials the configuration asks
\* for or none, however many of its builds failed, were killed, or ended after
\* they were given up (retry_build_loop).
AllTrialsOrNone ==
    \A p \in Pairs(Benchmarks) : trials[p] \in {0, NumTrials}

\* Every trial can be run and measured: the images of its fuzzer and benchmark
\* and the coverage build of its benchmark are there.
TrialsCanRun ==
    \A p \in Pairs(Benchmarks) : trials[p] > 0 => {p, <<p[2]>>} \subseteq images

\* No pair is left out by an accident that a retry could have mended: one
\* without trials has a build, its own or its benchmark's coverage build, that
\* was tried NUM_BUILD_ATTEMPTS times.
LeftOutAfterAllAttempts ==
    stage = "started" =>
        \A p \in Pairs(Benchmarks) : trials[p] = 0 =>
            \E a \in {p, <<p[2]>>} : tries[a] = NUM_BUILD_ATTEMPTS

\* The builds come to an end: the experiment starts, or the dispatcher fails.
IsOver == stage \in {"started", "raised"}
BuildsEnd == <>IsOver
=============================================================================
