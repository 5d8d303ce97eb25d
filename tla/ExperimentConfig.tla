--------------------------- MODULE ExperimentConfig ---------------------------
(***************************************************************************)
(* What is checked before an experiment is started, and what the           *)
(* experiment relies on: the configuration file                            *)
(* (read_and_validate_experiment_config of experiment/run_experiment.py),  *)
(* the cpus of the command line (run_experiment_main) and the requests of  *)
(* the automatic service (service/automatic_run_experiment.py).            *)
(*                                                                         *)
(* A configuration is a function from some of the parameters to values.    *)
(* Of a value the checks see its type, whether a string is lower case and  *)
(* what it starts with, and whether it is true as a condition.             *)
(***************************************************************************)
EXTENDS Integers, Sequences

Filestores == {"experiment_filestore", "report_filestore"}
CloudParams == {"cloud_compute_zone", "cloud_project", "worker_pool_name"}
Flags == {"local_experiment", "private", "merge_with_nonprivate",
          "preemptible_runners"}
Numbers == {"trials", "max_total_time", "snapshot_period",
            "runner_num_cpu_cores"}
Params == Filestores \union CloudParams \union Flags \union Numbers \union
    {"docker_registry", "cloud_sql_instance_connection_name",
     "runner_machine_type", "runner_memory"}

Values == [type : {"str", "int", "bool"}, lower : BOOLEAN,
           start : {"/", "gs://", "other"}, true : BOOLEAN]

Has(config, param) == param \in DOMAIN config

\* config.get('local_experiment', False), as a condition.
IsLocal(config) ==
    Has(config, "local_experiment") /\ config["local_experiment"].true

\* Mutant of Mandatory: the registry is optional.
Mandatory_Registry(local) ==
    Filestores \union {"trials", "max_total_time"}
        \union (IF local THEN {} ELSE CloudParams)

\* The table config_requirements: the parameters there must be ...
Mandatory(local) ==
    Filestores \union {"docker_registry", "trials", "max_total_time"}
        \union (IF local THEN {} ELSE CloudParams)

\* ... their types ...
TypeOf(param) ==
    CASE param \in Flags -> "bool"
      [] param \in Numbers -> "int"
      [] OTHER -> "str"

Lowercase == Filestores \union
    {"docker_registry", "cloud_compute_zone", "cloud_project",
     "cloud_sql_instance_connection_name", "runner_machine_type"}

\* ... and what they start with.
StartsWith(param, local) ==
    IF param \notin Filestores THEN {"/", "gs://", "other"}
    ELSE IF local THEN {"/"} ELSE {"gs://"}

\* A bool of Python is an int.
IsInstance(value, type) ==
    value.type = type \/ (value.type = "bool" /\ type = "int")

\* _validate_config_values, of one parameter.
ValueValid(param, value, local) ==
    /\ param \in Params
    /\ IsInstance(value, TypeOf(param))
    /\ value.type = "str" =>
         /\ param \in Lowercase => value.lower
         /\ value.start \in StartsWith(param, local)

\* _validate_config_parameters, then _validate_config_values.
ConfigValid(config) ==
    /\ Mandatory(IsLocal(config)) \subseteq DOMAIN config
    /\ \A param \in DOMAIN config :
         ValueValid(param, config[param], IsLocal(config))

\* The parameters that _set_default_config_values and start_experiment set
\* when they are not there ...
Defaults == {"local_experiment", "worker_pool_name", "snapshot_period",
             "private", "runner_machine_type", "runner_num_cpu_cores",
             "runner_memory"}

\* ... and those that start_experiment always sets.
Set == {"fuzzers", "benchmarks", "experiment", "git_hash", "no_seeds",
        "no_dictionaries", "oss_fuzz_corpus", "description",
        "concurrent_builds", "measurers_cpus", "runners_cpus",
        "region_coverage", "custom_seed_corpus_dir"}

FullConfig(config) == DOMAIN config \union Defaults \union Set

\* What is read as config[...] by everything that runs the experiment: the
\* dispatcher (its start, its loops, the reports) and the startup scripts.
ReadAlways ==
    Set \union Filestores \union
    {"docker_registry", "trials", "max_total_time", "snapshot_period",
     "private", "worker_pool_name", "runner_num_cpu_cores"}

ReadInCloud ==
    {"cloud_project", "cloud_compute_zone", "runner_machine_type",
     "runner_memory", "cloud_sql_instance_connection_name"}

Read(local) == ReadAlways \union (IF local THEN {} ELSE ReadInCloud)

-----------------------------------------------------------------------------
(***************************************************************************)
(* The cpus.  None stands for an argument that is not given.               *)
(***************************************************************************)
None == 0

\* Mutant of CpusValid: the sum may be one too many.
CpusValid_OneMore(runners, measurers, cpus, cores) ==
    /\ runners = None => measurers = None
    /\ runners + measurers <= cpus + 1
    /\ runners # None => runners >= cores

\* The checks of run_experiment_main, and the assertion of start_experiment.
CpusValid(runners, measurers, cpus, cores) ==
    /\ runners = None => measurers = None
    /\ runners + measurers <= cpus
    /\ runners # None => runners >= cores

\* The sets of cpus that schedule_loop allocates to trials (none where it
\* raises, for it divides by the cores of a runner, and makes a pool of as
\* many processes as that gives), ...
RunnerCpusets(runners, cores) ==
    IF cores < 1 THEN {}
    ELSE {(cores * i)..(cores * i + cores - 1) :
             i \in 0..((runners \div cores) - 1)}

\* ... and the cpus measure_loop pins its processes to.
MeasurerCpus(runners, measurers) ==
    IF runners = None \/ measurers = None THEN {}
    ELSE runners..(runners + measurers - 1)

-----------------------------------------------------------------------------
(***************************************************************************)
(* Requests.  A benchmark has a type and a language.                       *)
(***************************************************************************)
Types == {"code", "bug"}

\* request.get('type', 'code').
RequestType(request) == IF request.type = "none" THEN "code" ELSE request.type

\* _validate_individual_experiment_requests.
RequestValid(request) ==
    /\ request.fuzzers # {}
    /\ "invalid" \notin request.fuzzers
    /\ RequestType(request) \in Types
    /\ \A b \in request.benchmarks :
         b.type = "bug" => RequestType(request) = "bug"

\* Mutant of ValidBenchmarks: those of both types.
ValidBenchmarks_Any(request, all) == {b \in all : b.language = "c++"}

\* The benchmarks an experiment of the type of the request may have.
ValidBenchmarks(request, all) ==
    {b \in all : b.language = "c++" /\ b.type = RequestType(request)}

\* The benchmarks run_requested_experiment runs a request with ({} when it
\* refuses); a request without any is for all that are valid.
ChosenBenchmarks(request, all) ==
    IF request.benchmarks = {} THEN ValidBenchmarks(request, all)
    ELSE IF request.benchmarks \subseteq ValidBenchmarks(request, all)
         THEN request.benchmarks ELSE {}

\* validate_benchmarks of run_experiment.py: the types are not mixed.
TypesValid(benchmarks) == ~(Types \subseteq {b.type : b \in benchmarks})

\* get_experiment_type: the first type that all benchmarks have.
ExperimentTypes(benchmarks) ==
    {t \in Types : \A b \in benchmarks : b.type = t}

-----------------------------------------------------------------------------
(***************************************************************************)
(* Properties.                                                             *)
(***************************************************************************)
\* A configuration that is accepted has everything the experiment reads,
\* before anything was copied or created for it; all but
\* cloud_sql_instance_connection_name, which the table calls optional and the
\* startup script of the dispatcher reads.  Its filestores are where
\* filestore_utils looks for them, local ones exactly in local experiments.
AcceptedIsComplete(config) ==
    ConfigValid(config) =>
        /\ Read(IsLocal(config)) \ {"cloud_sql_instance_connection_name"}
              \subseteq FullConfig(config)
        /\ \A param \in Filestores :
              (config[param].start = "/") <=> IsLocal(config)

\* Accepted cpus can all be given away: there are runners, every runner has
\* cpus of its own, and the measurers have others, all of them cpus there are.
\* (runner_num_cpu_cores is only checked to be a number that is not more than
\* the cpus for runners: 0, false or less is accepted, and schedule_loop ends
\* before it starts a runner.)
CpusAreDisjoint(runners, measurers, cpus, cores) ==
    CpusValid(runners, measurers, cpus, cores) /\ runners # None =>
        LET sets == RunnerCpusets(runners, cores) IN
        /\ cores >= 1 => sets # {}
        /\ \A s \in sets :
             /\ s \subseteq 0..(cpus - 1)
             /\ s \intersect MeasurerCpus(runners, measurers) = {}
             /\ \A t \in sets : s # t => s \intersect t = {}
        /\ MeasurerCpus(runners, measurers) \subseteq 0..(cpus - 1)

\* The benchmarks a request is run with pass the checks of start_experiment,
\* and have one type for the measurer to go by (get_experiment_type).
ChosenHaveOneType(request, all) ==
    LET chosen == ChosenBenchmarks(request, all) IN
    RequestValid(request) /\ chosen # {} =>
        TypesValid(chosen) /\ ExperimentTypes(chosen) # {}
=============================================================================
