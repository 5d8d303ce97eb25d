---------------------------- MODULE PreparationMC ----------------------------
(***************************************************************************)
(* An instance for TLC of what happens before trials run: configurations,  *)
(* cpus and requests are accepted or not (ExperimentConfig, which computes *)
(* and has no steps), a benchmark is built for a fuzzer (FuzzerBuilds) and *)
(* a benchmark is built in mutated copies and fuzzed (MutantFuzzers).      *)
(* "part" chooses the one that is looked at; the other machine rests.      *)
(***************************************************************************)
EXTENDS FuzzerBuilds, Integers

CONSTANTS
    MaxMutations, MutantTimes,  \* of MutantFuzzers
    MaxCpus                     \* bound on the cpus of a machine

VARIABLES
    part,
    given,                      \* what ExperimentConfig is asked about
    variant, pc, mutations, ind, src, bins, out, others, mutantTime, todo_,
    used, input, storage, found

C == INSTANCE ExperimentConfig
M == INSTANCE MutantFuzzers WITH todo <- todo_

ASSUME PreparationAssumption == M!MutantAssumption /\ MaxCpus \in Nat

fuzzingMutants ==
    <<variant, pc, mutations, ind, src, bins, out, others, mutantTime, todo_,
      used, input, storage, found>>

-----------------------------------------------------------------------------
String(start) ==
    [type |-> "str", lower |-> TRUE, start |-> start, true |-> TRUE]
Number == [type |-> "int", lower |-> FALSE, start |-> "other", true |-> TRUE]
Flag(true) ==
    [type |-> "bool", lower |-> FALSE, start |-> "other", true |-> true]

\* A configuration with every parameter, for a local and a cloud experiment.
Complete(local) ==
    [param \in C!Params |->
        CASE param \in C!Filestores -> String(IF local THEN "/" ELSE "gs://")
          [] param \in C!Flags -> Flag(local)
          [] param \in C!Numbers -> Number
          [] OTHER -> String("other")]

\* One parameter of it has any value, and one is not there.
Configs ==
    {[param \in C!Params \ {missing} |->
        IF param = changed THEN value ELSE Complete(local)[param]] :
            local \in BOOLEAN, missing \in C!Params, changed \in C!Params,
            value \in C!Values}

NoConfig == [param \in {} |-> Number]

\* The cores of a runner may be no number of cores: see CpusAreDisjoint.
Cpus == [runners : 0..MaxCpus, measurers : 0..MaxCpus, cpus : 1..MaxCpus,
         cores : -1..3]
NoCpus == [runners |-> 0, measurers |-> 0, cpus |-> 1, cores |-> 1]

Benchmark == [type : C!Types, language : {"c++", "other"}, number : {1, 2}]
Request == [fuzzers : SUBSET {"valid", "invalid"},
            type : C!Types \union {"none"},
            benchmarks : SUBSET [type : C!Types, language : {"c++", "other"},
                                 number : {1}]]
NoRequest == [fuzzers |-> {}, type |-> "none", benchmarks |-> {}]

\* What is asked about; nothing for a part that rests.
Given(config, cpus, request) ==
    given = [config |-> config, cpus |-> cpus, request |-> request]

PartInit ==
    /\ part \in {"config", "cpus", "request", "builds", "mutants"}
    /\ CASE part = "config" ->
              \E config \in Configs : Given(config, NoCpus, NoRequest)
         [] part = "cpus" -> \E cpus \in Cpus : Given(NoConfig, cpus, NoRequest)
         [] part = "request" ->
              \E request \in Request : Given(NoConfig, NoCpus, request)
         [] OTHER -> Given(NoConfig, NoCpus, NoRequest)
    /\ IF part = "builds" THEN TRUE
       ELSE fuzzer = "afl" /\ benchmark = AnyBenchmark
    /\ IF part = "mutants" THEN TRUE
       ELSE /\ variant = M!honggfuzz_um_random
            /\ others = {} /\ input = M!EmptyCorpus
            /\ mutantTime = Min(MutantTimes)
    /\ Init
    /\ M!Init

PartNext ==
    /\ UNCHANGED <<part, given>>
    /\ \/ part = "builds" /\ Next /\ UNCHANGED fuzzingMutants
       \/ part = "mutants" /\ M!Next /\ UNCHANGED vars

PartSpec == PartInit /\ [][PartNext]_<<part, given, vars, fuzzingMutants>>

-----------------------------------------------------------------------------
\* The variables of both machines have their types.
TypesOK == TypeOK /\ M!TypeOK

\* An accepted configuration has everything an experiment reads, and
\* filestores of its kind.
AcceptedIsComplete == C!AcceptedIsComplete(given.config)

\* Accepted cpus are enough for disjoint sets of them, and for one set where a
\* runner has at least one core.
CpusAreDisjoint ==
    C!CpusAreDisjoint(given.cpus.runners, given.cpus.measurers,
                      given.cpus.cpus, given.cpus.cores)

\* The benchmarks of a request that is run have one type.
ChosenHaveOneType == C!ChosenHaveOneType(given.request, Benchmark)

\* Mutants differ from the original by one mutation.
MutantsDifferByOneMutation == M!MutantsDifferByOneMutation

\* The target has its share of the trial's time.
TargetGetsItsTime == M!TargetGetsItsTime

\* The target is handed what the latest mutant found.
LatestFindsReachTarget == M!LatestFindsReachTarget
=============================================================================
