# FuzzBench in TLA+

FuzzBench runs fuzzing experiments: many *trials* of fuzzers on benchmarks, on
cloud instances or local containers, for a day or so, measuring the coverage of
what they find. These modules specify how an experiment is prepared, built, run,
measured and ended, and how the fuzzers it compares are integrated. They are
model-checked with TLC; about every component but the shared database session there
are theorems that TLAPS checks, for every value of the constants.
Every definition that models code is mapped to its lines in `PROJECT.json`.

## 1. The system

| component | source | state | operations | talks to |
|---|---|---|---|---|
| dispatcher | `experiment/dispatcher.py` | the experiment's row; a scheduler thread, a measurer process | register the experiment, build, create rows, start both loops, report until both end, record the end, stop itself | builder, scheduler, measurer, reporter |
| scheduler | `experiment/scheduler.py` | trial rows, `core_allocation`, `handle_preempted`, `TrialInstanceManager` | end expired trials, start pending ones on a process pool, mark and replace preempted ones | database, cloud |
| database session | `database/utils.py`, `models.py` | one SQLAlchemy session and a lock per process | query (flushes), add_all, bulk_save, rollback on an exception | all of the dispatcher's threads |
| cloud | `common/gcloud.py`, `gce.py` | instances | create, delete in batches, list | scheduler, start, stop |
| runner | `experiment/runner.py`, `common/retry.py` | cycle, `last_archive_time`, a fuzzer thread | archive the corpus and upload, every cycle | filestore, fuzzer |
| measurer | `experiment/measurer/measure_manager.py` | snapshot rows, a queue, a pool | find the next unmeasured snapshots, measure, save in batches | database, filestore |
| coverage, crashes | `experiment/measurer/coverage_utils.py`, `run_*.py` | the files of a trial's measurement directory | run binaries, merge profiles, summarise | measurer |
| builder | `experiment/build/builder.py`, `gcb_build.py`, `local_build.py` | inputs that succeeded and failed | build coverage binaries and fuzzer-benchmark images with retries | Google Cloud Build, docker, filestore |
| images | `docker/`, `experiment/build/generate_cloudbuild.py` | tags | order the builds of images that depend on each other | builder |
| start, stop | `experiment/run_experiment.py`, `stop_experiment.py` | none | validate, copy, create the dispatcher; delete instances | cloud, filestore |
| service | `service/automatic_run_experiment.py` | none (reads the database) | choose, check and run the oldest new request | run_experiment |
| processes | `common/new_process.py` | a process and its kill timer | execute with a timeout | everything |
| fuzzers | `fuzzers/` | the environment, `$SRC`, `$OUT` | `build()` in one image, `fuzz()` in another | builder, runner |
| reporter, analysis | `experiment/reporter.py`, `analysis/` | none of its own | query, compute, render, rsync | database, filestore |
| measure workers | `experiment/schedule_measure_workers.py`, `common/queue_utils.py` | an instance group | resize to the length of a queue | cloud, redis |
| filestore | `common/filestore_utils.py`, `gsutil.py`, `local_filestore.py` | files | cp, ls, rm, rsync, cat | runner, measurer, reporter |
| job queue | `fuzzbench/` | rq jobs with dependencies | enqueue builds, wait for results | redis |
| developer tools | `src_analysis/`, `presubmit.py`, `database/alembic/` | none | changes, checks, migrations | the source tree |

How they interact. A user or the service copies sources and configuration to the
filestore and creates the dispatcher's instance. The dispatcher builds images,
among them every fuzzer's `build()`, and puts one row per trial in the database and
starts
the scheduler (a thread) and the measurer (a process). The scheduler
turns pending rows into instances; on each a runner archives the corpus once per
cycle to the filestore; the measurer reads rows and archives and writes snapshot
rows. Nobody sends anybody a message: they communicate through rows, files and
the existence of instances. The scheduler stops when all rows have ended; the
measurer stops when it found nothing to measure although all rows had ended
before it looked; the dispatcher stops after both.

What is hard about it:

* *concurrency* - scheduler and reporter share one session; the runner archives a
  directory while a fuzzer writes to it; a pool fills a queue while batches of
  it are saved; trials end and archives arrive while the measurer looks.
* *failure* - instances are refused, or created and reported as failed;
  deletions fail in part; queries and commits raise, and a rollback undoes
  assignments made to row objects earlier; uploads fail and are retried.
* *ordering* - the session's view runs ahead of the committed one; a
  replacement and the mark on the trial it replaces must be committed
  together; "have all trials ended" must be asked before measuring.
* *time* - trials expire after `max_total_time` plus a grace time; preemptible
  replacements are allowed within a window that begins when the last initial
  trial starts; a build that timed out may still end, and a timer may fire
  while its process ends by itself.
* *files and names* - what one step leaves behind is what the next one works on:
  a profile of the cycle before, a tag of an earlier build, sources that were
  built in already, mutated sources that an alarm left half restored; `build()` and
  `fuzz()` agree by names of files only, and experiments are told apart by
  prefixes of instance names.

What makes each component correct: the scheduler keeps exactly one trial that
counts per fuzzer-benchmark slot or gives the slot up on purpose, leaves no
instance running behind a row that has ended, bounds its cost and ends; the
runner puts every corpus element in exactly one archive and ends; the measurer
measures every archive of every trial that counts, once, and ends, and a
snapshot is about the units up to its cycle; the builder makes all trials of a pair
or none; an image is built from the images it depends on and nothing older; an
experiment whose end is recorded is over and leaves no instance; an accepted
configuration has what the experiment will read; a fuzzer finds in `$OUT` what its
`fuzz()` takes from there.

## 2. Modules

| module | what it is |
|---|---|
| `Scheduler` | the scheduler, its session, the instances, the clock and what fails around them |
| `TrialTable` | abstract: what the committed trial rows promise to their readers |
| `SchedulerTable` | `Scheduler` with the refinement mapping to `TrialTable` |
| `SharedSession` | `Scheduler` composed with the reporter's thread of the dispatcher |
| `Runner` | a trial's runner, its retried uploads and the fuzzer that writes to the corpus |
| `TrialArchives` | abstract: what a runner's archives promise to the measurer |
| `Measurer` | the measurer beside the runners and beside a trial table that moves as `TrialTable` says |
| `TrialMeasurement` | a worker of the measurer inside one trial: files from cycle to cycle |
| `Builder` | the builds of an experiment and the trials made of them |
| `Images` | one build of images: a dependency graph, tags, and two tools |
| `Lifecycle` | experiments from request to end: starters, dispatchers, stops |
| `Processes` | one call of `new_process.execute` |
| `ExperimentConfig` | what is accepted before an experiment starts (operators only) |
| `FuzzerSteps`, `Fuzzers`, `FuzzerBuilds` | the vocabulary of an integration; every integration; its execution |
| `MutantFuzzers` | the integrations that fuzz mutants of the benchmark first |
| `SchedulerProofs`, `SchedulerFaultProofs` | theorems about `Scheduler` and `SchedulerTable` |
| `MeasurerProofs`, `TrialMeasurementProofs`, `LifecycleProofs` | theorems about the module of that name |
| `TrialProofs` | theorems about `Runner`, about `TrialMC` and about a runner beside the measurer |
| `OperationsProofs` | theorems about `Builder`, `Images`, `Processes` and about `OperationsMC` |
| `PreparationProofs` | theorems about `ExperimentConfig`, `MutantFuzzers`, `Fuzzers` and `FuzzerBuilds`, and about `PreparationMC` |
| `SchedulerMC`, `SchedulerTerminatesMC`, `SharedSessionMC`, `RunnerMC`, `MeasurerMC` | instances of one component for TLC |
| `TrialMC`, `OperationsMC`, `PreparationMC` | instances of several components for TLC |

In `TrialMC`, `OperationsMC` and `PreparationMC` a variable `part`, chosen initially,
says which component takes steps; the others rest where they begin, and the
properties of all are checked. One run so explores several state spaces side by
side (not their product: these components meet only through what their models
assume of each other, see below). Where a component has a module of theorems, its
instance there is of that module (`M == INSTANCE MeasurerProofs WITH ...`), so that the
theorems about the component can be cited for the composition.

### Scheduler

One action per stretch of code between two calls that may fail or be seen from
outside. `pc` follows `schedule_loop`: `LoopTest` (the `while`), `EndExpiredTrials`
(the head of the body and `end_expired_trials` up to the deletion),
`DeleteExpired`, `SaveExpired`, `StartTrials` (up to `pool.starmap`),
`InstanceCreated` / `InstanceNotCreated` / `StartRaises` (one `_start_trial` each,
in the pool's processes, in any order), `UpdateStartedTrials`,
`GetPreemptedTrials` (`handle_preempted_trials` up to the deletion),
`DeletePreempted`, `SavePreempted`, and `QueryRaises` / `HandlingRaises`, which the
`except` of the loop catches. `Tick`, `PreemptInstance` and `ContainerExits` are the
world.

Rows are kept twice. SQLAlchemy writes modified objects out before each query of
the same session, so within the dispatcher a query sees every assignment: `sess`.
What the measurer's process sees is committed: `db`. A commit makes `db` equal to
`sess`, whatever call it is made for; an exception inside `session_scope` makes `sess`
equal to `db`. `age` is the time since a row's `time_started` up to the limit beyond
which no comparison changes; the creation of an instance and `time_started` are
one instant. A row's `slot` is the initial trial it stands for: that is
what `replace_trial` copies (fuzzer and benchmark).

Abstracted: names, the order within the shuffled list (any choice), the startup
script, sleeps (any interleaving), log output. `known` is
`TrialInstanceManager.preempted_trials`; `num_preemptible_restarts` and
`preemptible_starts_futile` are written and never read.

### TrialTable and SchedulerTable

A row is *pending*, *running*, *finished* or *preempted*, read off its three columns
in the order in which the queries of `scheduler.py` test them. `TrialTable!Save` is
one committed transaction: rows move on, and a new row appears only together with
the mark on the running trial of the same slot that it replaces, one for each.
`ImplementsTable` says that `db` behaves so, under all faults.

### SharedSession

`session_scope` holds its lock for one query or commit, not for the transaction
that is open between them. `ReportFails` is a query of the main thread's report that
raises: it rolls back what the scheduler's thread has assigned and not committed.

### Runner

`pc` follows `conduct_trial`: `ListDirectory` (one directory of `os.walk`), `StatFile`
and `AddFile` (the two halves of the loop's body in `archive_corpus`: the fuzzer may
write or delete between them), `CloseArchive`, `Upload` / `UploadFails` (with
the retries of `retry.wrap` around *both* archiving and copying), `StartFuzzer`,
`NextCycle`, `WakeUp`, `FinalSync`. `WriteFile`, `DeleteFile` and `FuzzExits` are the
fuzzer. A version of a file is the pair of its name and modification time. `bucket` has
the archives that were saved, by cycle.

`ImplementsArchives` says what the measurer can rely on (`TrialArchives`): the
archive of a cycle appears before those of later cycles or never, and none
disappears. A cycle is `Synced` when its archive is saved, or given up on after the last
retry; uploads whose answer is lost are repeated and the final sync overwrites, which
the abstract specification sees as stuttering.

Abstracted: contents; directories are listed in one step each; every write has a
later time than the one before (equal times are a hazard listed in
`PROJECT.json`); `save_results` changes nothing that is modelled; the local copy
of an archive left behind by a failed upload is overwritten by the retry.

### Measurer

`pc` follows `measure_loop` and `measure_all_trials`: `LoopBegins` (reads
`all_trials_ended`), `MeasureBegins` (the two queries and `starmap_async`), `GetSnapshot`
/ `QueueIsEmpty` (the loop over the queue), `SaveSnapshots` / `SaveRaises`. `jobs` holds
the cycle each worker is at. When `add_all` raises, `measure_all_trials` is left and
its workers are not: they become `abandoned`, and what they put in the queue is
`stray` for the next call. The primary key of a snapshot row makes a duplicate in
a batch an exception.

The world moves the rows one at a time as `TrialTable` allows, and a runner syncs
while its row is pending or running: its instance exists before the row says
so, and is deleted before the row says that the trial ended, which is what
`EndedTrialsAreDeleted` says of the scheduler (`scheduler_delete_fails` shows when it is
not so). A local runner is not deleted; that its last upload is over when
`GRACE_TIME_SECONDS` have passed is assumed. Queue, batch and abandoned workers are sets: two identical stray snapshots,
or two abandoned workers at the same cycle of the same trial, count as one.
A worker ends at the first archive it cannot copy (`WorkerReturns`): `cp` returned something
else than 0 because the archive is missing, or for any other reason (`copy_fail`).
The trials of which the latter happened in the present call are `uncopied`. Each
fault happens at most once in a behaviour, except that a runner may give up on any
number of archives (`upload_gap`) and any number of copies may fail; at most
`MaxFaults` kinds of faults happen.
`late_put` is the time-out of `queue.get` with the last worker's `put` and return between
it and `result.ready()`. The measurement of one snapshot is one step.

`JointSpec(t)` of `TrialMC` puts `Runner` beside `Measurer` in place of the runner of one
trial `t`: the archives the measurer finds are the ones in the runner's `bucket`, the runner
takes steps while its row is pending or running, and giving up on an archive is
`upload_gap`. The other trials stay as nondeterministic as in `Measurer`.

### TrialMeasurement

What `Measurer` sees as one step. `step` follows `measure_snapshot_coverage`:
`CopiesArchive` (or the worker's end, if there is none or it cannot be copied),
`ExtractsCorpus`, `RunsCoverage`, `MergesProfdata`, `GeneratesSummary`, `ProcessesCrashes`,
`PutsSnapshot`. A profile is the set of branches it covers. `corpus_dir`, `crashes_dir` and the
`.profraw` files are emptied at each cycle, `.profdata` and `cov_summary.json` stay. Each of
the three tools may fail, the coverage run after any part of the units, the merge
with the `.profdata` file of the cycle before or an empty one, for which no summary
is made. Any step may raise (`Raises`): `measure_trial_coverage` catches it, there is no
snapshot of the cycle, and the next cycle works on the files as they are. A worker
that has ended is followed by another (`MeasuresAgain`), which begins after the latest
snapshot, and a batch of snapshots may be lost (`SaveFails`), so that cycles are measured
again although `.profdata` holds them already. `merged` and `kept` are history: the
cycles of which units came into `.profdata`, and those of which it has all.
Abstracted: the parsing of stack traces (a crash is its key), function and region
coverage, html reports. Which archives there are is chosen in the beginning and
one that comes late is one that cannot be copied yet: when they come is `Measurer`'s
subject.

### Builder

`stage` follows `build_images_for_trials`; `calls` is the pool of threads of one attempt of
`retry_build_loop` (`Submit`, `CallRaises`, `TimesOut`, `StoresLogs`), `builds` what Google
Cloud Build is at work on (`BuildSucceeds`, `BuildFails`), which goes on when `gcloud` was
killed. `Retries` and `LoopReturns` are the end of an attempt, `StarmapRaises` an
exception that is not caught: `build_measurer` catches all, `build_fuzzer_benchmark` only
`CalledProcessError`. `images` and `tries` are history that properties refer to.

### Images

The graph of `docker/image_types.yaml` with the tags that the Dockerfiles' `FROM` lines
name. A build reads its parents' tags when it starts and sets its own when it
ends, in any order that `wait_for` (cloud) or the rules (make) leave open. The
cloud build takes all images whose name begins with a prefix, which includes
`builder_debug`; it shares its tag with `builder`.

### Lifecycle

`starter` is at a line of `start_experiment` and `copy_resources_to_bucket`; `pc` of an experiment
follows `dispatcher_main` and `main`: `LooksForExperiment`, `Registers` (two transactions),
`StartsLoops`, `OutputsReport`, `RecordsTimeEnded`, `ListsItself`, `StopsItself`. `output_report`
catches what keeps it from writing (`report_fail`), and the loop goes on as if it had
written. `delete_instances` deletes `BatchSize` instances with one command, the dispatcher
with the first, and a command that fails may have deleted any part of its batch
(`DeletesBatch`, with `delete_fail`); the commands after it are given nevertheless. With its
instance goes the dispatcher, and with it what it had still to delete. The scheduler and the measurer
are reduced to being alive: `SchedulerEnds` and `MeasurerEnds` when `Scheduler` and `Measurer`
may end, `ThreadDies` when an exception leaves them. `ExperimentInstances` is the filter
of `stop_experiment.py`, which takes runners by a prefix: `LongerNames` says which
experiments have such names. Only cloud experiments have instances to be stopped.

### Processes

The thread that called `execute`, the timer's thread (`GetsGroup`, `KillsProcess`, `Marks`,
`KillsGroup` are the lines of `_end_process`), the process and its children,
for every combination of `timeout`, `kill_children`, `expect_zero` and a pipe.

### ExperimentConfig

The requirements table, the defaults and the parameters that are read later; the
arithmetic of cpus; the choice of benchmarks of a request. These are operators;
`PreparationMC` evaluates them on every input within bounds.

### FuzzerSteps, Fuzzers, FuzzerBuilds

`Fuzzers` has one definition per `fuzzer.py`: `build()` as a sequence of steps (set
variables, build the benchmark, copy a file, make a directory, restore sources)
and what `fuzz()` needs of files and programs. A program is what was compiled: its
directory, the kind of instrumentation, whether the sources were pristine and
whether it has sanitizers. `FuzzerBuilds` executes the steps, any of which the code may
raise at. Benchmarks differ in what the integrations look at: type, special names,
and whether a fuzzer has a focus for them. Flags, dictionaries, options of the
fuzzers and seeds are left out. What an integration takes over from another one and
changes is written `f ++ g`.

### MutantFuzzers

Ten integrations that differ in five choices (`Variant`). `build()` mutates `$SRC`, builds,
restores, until an alarm raises `TimeoutException` at any point; `fuzz()` divides its time
among mutants and copies corpora between them with `cp`, whose behaviour for an
empty glob and for a directory among the files is modelled (`CopyOntoNames`).

## 3. What is checked

| run | configuration | shows |
|---|---|---|
| `scheduler_unreliable` | 3 initial trials, 2 more ids, 2 preemptions, refused / lost / raising creations, listing and commit failures | `SlotsLostOnlyByOmission`, `EndedTrialsAreDeleted`, `FinishedMeansEnded` |
| `scheduler_faults` | 2 initial trials, 2 more ids, 2 preemptions, every fault | `SchedulerInvariant` (with `TypeOK`), `OneLiveTrialPerSlot`, `HandlingWaitsForInitialTrials`, `ImplementsTable` |
| `scheduler_terminates` | a cloud experiment of 2 initial trials, 1 preemption, creations and deletions that fail; a local one of 3 trials on 2 cpusets; fairness | `Terminates`, `LocalCoresFollowRunningTrials`, `LocalTrialsHaveOneContainer` |
| `trial` | a runner with 3 files, 3 times, 2 cycles, 1 retry, failing and lost uploads, rewritten files; a measurer with 1 initial trial and 1 replacement, cycles 0 and 1, batches of 2, each of six faults; the workers of a trial with 2 units, cycles 0 and 1, each of five faults, any number of times; fairness | `ArchivedOnce`, `SkippedIsSavedWhileFuzzing`; `MeasuredWhenDone`, `SnapshotsContiguous`, `OneWorkerPerTrial`; `CoverageIsOfArchives`, `CrashesAreOfCycle`; `ImplementsArchives`, `TrialsComeToAnEnd` |
| `operations` | builds of 3 pairs on 2 threads, 2 attempts, every fault; each of three image builds with both tools; 2 requested experiments, `newer` and `older`, where the name of one is a prefix of the other's: a user may start `older` or stop `newer`, batches of 2, one failure; one process with every option; fairness | `AllTrialsOrNone`, `TrialsCanRun`, `LeftOutAfterAllAttempts`; `BuiltFromDependencies`; `DispatcherFindsInput`, `EndedIsReported`, `NoOrphanRunners`, `RunningHasDispatcher`; `NothingIsLeft`; `EveryPartGetsThere` |
| `preparation` | configurations with one parameter missing and one of any value, up to 7 cpus and runners of -1 to 3 cores, every request over 2 fuzzers and 4 kinds of benchmarks; every integration on every kind of benchmark; every mutant variant with up to 3 mutations | `AcceptedIsComplete`, `CpusAreDisjoint`, `ChosenHaveOneType`; `FuzzFindsItsFiles`, `BuiltFromPristineSources`, `CrashesAreDetected`; `MutantsDifferByOneMutation`, `TargetGetsItsTime`, `LatestFindsReachTarget` |

`trial` and `operations` also check the type invariants of their components, as
`TypesOK`; those of `preparation` are proved (`BuildsAreTyped`, `PartsAreTyped`). `TrialsComeToAnEnd` is `RunnerEnds` and `MeasurerEnds`, `EveryPartGetsThere` is `BuildsEnd`,
`EverythingIsBuilt`, `EveryRequestRuns` and `ExecuteEnds`: a request is run in the end although
copies, creations and dispatchers fail, because the service looks again.

and where the code does not do what it says:

| run | the code says | and does |
|---|---|---|
| `scheduler_quota` | "Hard limit on the number of nonpreemptibles we will use" (`scheduler.py:206`) | counts only the started ones, so pending replacements come on top |
| `scheduler_delete_fails` | "If we failed to delete some instances, then don't update the status of expired trials" (`scheduler.py:149`) | the status is assigned to the row objects and committed by the next commit; the instances stay |
| `shared_session` | preempted trials are marked and replaced (`scheduler.py:454`) | an exception in the reporter's query rolls back the mark, not the replacement |
| `runner_final` | "We've saved this file already." (`runner.py:378`) | the final sync overwrites the archive of the last cycle |
| `runner_scan` | "new files will be archived in the next sync" (`runner.py:385`) | a file created after its directory was listed may be older than the time of the archive |
| `measurer_gap` | ends "when there is no corpus snapshot ... that hasn't been measured" (`how_it_works.md:101`) | a missing archive hides all later ones |

Why the bounds are enough. Two preemptions let the second be handled while
the first's replacement is pending, running or itself preempted; with two or three
initial trials `MaxNonpreemptibles` is 1, so both "replace" and "omit" happen. With
`MaxTotalTime = 1` and `GraceTime = 2` a trial can be inside the window, past it,
and expired. Trials beyond the ids are never needed: each preemption makes at
most one row. In `trial` three times allow a write before, during and after a
scan; two cycles and the final sync give three archives; one retry separates the
first, a middle and the last try. For the measurer two cycles and a batch of two let
a batch be saved while a worker goes on, and a trial be preempted before,
between and after its snapshots, and one kind of fault at a time
(`MaxFaults`, `MaxMeasureFaults`) comes as often as it may. Two units and two cycles
let a unit be new, covered already or crash in either, and a cycle be missing in
a later one. Two attempts and three pairs
of which one fails in each way let a stale build end during the retry, and a pair
fail alone, with its benchmark, or never be called. Two experiments are enough for
one to be stopped while the other runs, for a start to be repeated, and for
a service and a user to start the same one. A batch of two holds the dispatcher
and the runner of one experiment, and is one too few for `older` with both runners: its
stop takes two commands, of which the dispatcher sees the first only. With one
failure, a user's command fails in part; that a dispatcher's own does, with a
runner left behind, takes two (more than a million states) and is covered by the
proofs only. One process with one generation of
children shows every order of two threads; more children change no state of
theirs. Configurations vary one parameter at a time because the checks look at
each alone; only `local_experiment` is looked at with others, and both its values
are taken. Seven cpus hold two runners of three cores and a measurer; -1 and 0 are the
cores that `run_experiment.py` accepts and no runner can have. Three
mutations allow one to fail, one to be interrupted and one to be left. `SYMMETRY` is
used only for runs without liveness. Deadlock is checked in the runs of the scheduler,
where finished components stutter (`Done`) or the clock ticks on; it is not in
the runs whose components end (a build is over, a process is gone).

Conditions inside properties. `SkippedIsSavedWhileFuzzing` and `SkippedIsSaved` except
failed uploads and rewritten files; the measurer's invariants except the faults
after which they can fail (each exception was removed by hand once, and TLC
found a counterexample); `SlotsLostOnlyByOmission` is checked without `query_fail` and `delete_raise`, with
which it fails; `MeasurerEnds` asks for some archive, because `measure_all_trials`
answers True for ever while the filestore is empty. `MeasuredWhenDone` excepts trials of which
the measurer's last call could not copy an archive: it ends with the archive
unmeasured. `EndedIsReported` excepts the final report of an experiment for which a report
failed. `CpusAreDisjoint` asks for a cpuset only where a runner has at least one core:
0, false and negative numbers are accepted, and `schedule_loop` ends on them before it
starts a runner. `NothingIsLeft` excepts a process
that ends before its timer: its children are not killed. `NoOrphanRunners` excepts
experiments that a user stops while their scheduler creates instances, those whose
stop was of more than one batch, and those of which a command failed: their
dispatcher may be deleted while runners are left. `RunningHasDispatcher` excepts the
experiment that a user stops. It says what a stop spares; it does not spare the runners
of experiments whose names begin with that of the stopped one (a hazard that no
property covers, as the code deletes them).
`AcceptedIsComplete` excepts `cloud_sql_instance_connection_name`, `BuiltFromDependencies` the tag
that `builder_debug` shares, `CrashesAreDetected` four integrations that emulate the
target and `symcc_aflplusplus_single`, which does not and builds it without sanitizers, and `LatestFindsReachTarget` the variants whose `cp` fails when there are seeds. Where
an exception is a weakness of the code and not a choice, it is among the hazards
of `PROJECT.json` or stated at the property.

Fairness. `Scheduler`: the thread runs (weak fairness of `Iteration`), time passes,
each call on the pool returns, and a creation that is tried again and again
succeeds in the end (strong fairness of `InstanceCreated`): the loop retries it
every `FAIL_WAIT_SECONDS` and quota comes back as instances are deleted. `Runner`: the
main thread runs and the fuzzer is stopped (`new_process.execute` has a
timeout); uploads need not ever succeed. `Measurer`: the loop and the pool's
processes run; nothing is assumed of the scheduler and the runners. `Builder` and
`Images`: some thread goes on, and a cloud build ends or its `gcloud` is killed after
`GCB_BUILD_TIMEOUT`. `Lifecycle`: cron runs the service again and again, and dispatchers go
on; nothing is asked of users, schedulers or measurers. `Processes`: the two threads
run; the process and its children may go on for ever.

## 4. What is proved

`SchedulerProofs`, for every set of trials, every configuration and every set of
faults (assumptions `TrialsAssumption`, `ConfigAssumption`):

* `TypeCorrect`: `Spec => []TypeOK`.
* `InvariantHolds`: `Spec => []SchedulerInvariant`.
* `ReplacedOnce`: `Spec => []OneLiveTrialPerSlot`.
* `HandlingWaits`: `Spec => []HandlingWaitsForInitialTrials`.
* `SchedulerImplementsTable`: `Spec => ImplementsTable`.

`OneLiveTrialPerSlot` alone is not inductive: a commit copies `sess` to `db`, so one
must know what `sess` may hold. `SessionIsAhead` says it: an uncommitted change is the
end, as expired or preempted, of a trial that the database shows as running.
`ReplacementsInHand` ties the replacements to such trials: they are marked in the
session and not ended in the database, so the commit that adds a replacement
takes its original out of the count. A rollback between the two would leave a
replacement without a mark; in the scheduler's own thread every rollback also drops
the replacements, which is why the theorem holds for `Spec` and why
`SharedSession` breaks it. `JobsArePending` makes `time_started` be assigned only to
trials that had none, `EndsInOrder` keeps the columns consistent, and
`HandlingBegins` carries "every initial trial started" from the moment
`handle_preempted` is set. The refinement needs the same invariant and, for
each action that commits, that every row's status moves as `TrialTable!Moves` says.

`SchedulerFaultProofs` (the same assumptions), two theorems for a scheduler that some
faults do not meet; which ones is part of the statement, and with any of them
TLC finds a counterexample:

* `FinishedEnded`: without `query_fail`, `delete_fail` and `delete_raise`,
  `Spec => []FinishedMeansEnded`. The loop's condition reads `sess`, so one must know
  that no end stays in `sess` alone when the loop tests it: each is committed in
  the iteration that assigns it, or rolled back.
* `EndedDeleted`: without `delete_fail` and `delete_raise`, `Spec => []EndedTrialsAreDeleted`.
  Ends are committed after the deletion, so one must know of the trials whose end
  is in hand that their instances are gone.

* `LostByOmission`: without `query_fail` and `delete_raise`, `Spec => []SlotsLostOnlyByOmission`:
  instances, commits and deletions may fail. The
  property counts slots, and the count moves in two steps: an omission is counted
  when the trial is marked in the session, and the slot is lost when the mark is
  committed, together with the marks of trials that get replacements. So
  `SlotsInvariant` adds the two: the slots lost in the database and the marks without a
  replacement (`GivenUp`) are at most `omits`. With `query_fail` or `delete_raise` marks stay
  in the session without the replacements, and a later commit loses the slots:
  so run `scheduler_unreliable` leaves both out as well.

Local experiments, in `SchedulerProofs` for any trials, cpusets and times, and in
`SchedulerFaultProofs` for the instance that the runs check:

* `CoresFollow`: without `commit_fail`, `Spec => []CoresFollowRunningTrials`. The property is
  about the head of an iteration; `CoresAreExact` says it of the *session* at every
  step, which needs that trials being started hold free cpusets, each its own
  (`JobsOnFreeCores`), and that no instance is preempted (`LocalInvariant`). A commit
  that fails rolls the rows back and leaves `core_allocation` as it is.
  `LocalCoresFollow`: `EitherSpec => []LocalCoresFollowRunningTrials`.
* `OneContainer`: without `create_raise` and `commit_fail`, `Spec => []OneContainerPerTrial`:
  a container that was started is known to the session, or in the results of the pool
  that the next action reads (`ContainersAreKnown`). `LocalOneContainer`:
  `EitherSpec => []LocalTrialsHaveOneContainer`.

That the instance satisfies what `Scheduler` assumes of its constants is
`LocalAssumptions`, from `LocalAssumption` of `SchedulerTerminatesMC`.

`TrialProofs`, about `Runner` (assumption `RunnerAssumption`):

* `TypeCorrect`: `Spec => []TypeOK`, through `TypeInv`, which adds that what is listed,
  added or present has been written.
* `ArchivedApart`: `Spec => []ArchivedOnce`. The inductive `ArchiveInvariant` orders
  versions by time: what is in the bucket is not newer than `lastArchive` unless it
  was just uploaded (`BucketIsOld`, `UploadIsFresh`), what is being archived is
  newer (`ArchiveIsNew`, `AddingIsNew`), except for files that were rewritten.
* `SkippedAreSaved`: if the fuzzer keeps its files in one directory `d`
  (`FilesAreIn(d)`), `Spec => []SkippedIsSavedWhileFuzzing`, for any number of files, of cycles and
  retries, whatever is written and deleted while the corpus is scanned. The
  property is about the time between syncs; `ScanInvariant(d)` follows every file through
  one: after its directory was listed it is saved, still to be looked at, in the
  archive, or newer than everything that was listed (`EveryFileIsDealtWith`), so that the
  time the next sync compares with is not later than a file that was missed.
  With two directories the last alternative fails: a file may appear in a directory
  listed before while a newer one is listed in the next. Files rewritten, uploads
  that fail and the final sync are excluded by the property itself; what the last of
  these does is the finding of run `runner_final`.
* `SavesInOrder`: `Spec => ImplementsArchives`. Every step is one `Sync` of `TrialArchives` or
  a stutter, which needs that no archive is saved before its cycle (`NoneIsEarly`).

`TrialProofs`, about a runner beside the measurer, for any trial `t` and with the same
last cycle on both sides (`LastCycle = MaxCycle`):

* `JointIsEach`: `JointSpec(t) => Spec /\ M!Spec`: what `Measurer` assumes of the archives of a trial
  is no more than what `Runner` does, so every theorem about either holds of the two
  together. A `Sync` of the runner is the world's upload or its gap in `Measurer`, any
  other step of the runner a stutter, because the measurer's `runnerCycle` and `archives`
  are the runner's `Synced` and the saved cycles (`SeenAsSaved`).
* `WhatIsSavedIsMeasured`: `JointSpec(t) => []SavedIsMeasured(t)`: when the measurer stops, what the
  runner of a trial that counts has saved has its snapshots, unless something was lost for
  good or an archive of it could not be copied in the last call. `MeasuredAtTheEnd` gives this for the measurer's view of the archives.

`MeasurerProofs` (assumption `MeasurerAssumption`), with the world as nondeterministic as in
the module, and any number of faults:

* `InvariantHolds`: `Spec => []MeasurerInvariant`; `TypeCorrect`: `Spec => []TypeOK`.
* `MeasuredAtTheEnd`: `Spec => []MeasuredWhenDone`.
* `Contiguous`: `Spec => []SnapshotsContiguous`.
* `OneWorker`: `Spec => []OneWorkerPerTrial`.

A cycle is `Known` when its snapshot is a row, or in the batch or the queue. The
known cycles of a trial lie before the one its worker is at, those saved before
those in the batch and these before those in the queue (`InOrder`): so no save
meets the primary key, none raises, no worker is abandoned and the next call
begins with an empty queue. That nothing between them is missing (`NoHoles`) gives
`Contiguous`. `MeasuredAtTheEnd` also needs that `allEnded` was read *before* the call: when
it is true nobody is given an archive any more, so a trial without a worker has
nothing left to measure (`NothingLeft`), unless the worker ended because a copy failed.
Such a trial is in `uncopied` until the next call, which starts a worker for it again. Each part names the faults it excludes, as
the properties do. That the latest of some cycles exists (`MaxIsLatest`) is proved
from the well-foundedness of the naturals.

`TrialMeasurementProofs` (assumption `MeasurementAssumption`):

* `InvariantHolds`: `Spec => []MeasurementInvariant`; `TypeCorrect`: `Spec => []TypeOK`.
* `CoverageIsRight`: `Spec => []CoverageIsOfArchives`.
* `CrashesAreRight`: `Spec => []CrashesAreOfCycle`.

What a snapshot says was computed several steps earlier, so the invariant says of
each step what it finds: the directories are of this cycle (`DirsAreOfCycle`), the
merged profile holds no more than the cycles in `merged` and no less than those in
`kept` (`FilesAreOfArchives`), these are all cycles up to this one if nothing but
a summary failed (`NoneIsLost`), and the crashes in hand are of this cycle (`CrashesInHand`). So
`CoverageIsRight` bounds what a fault costs: a cycle that raised or failed before its
units were merged is missing in all later snapshots, and no other is, unless a merge
that failed left an empty profile.

`OperationsProofs`, about `Builder` (assumption `BuilderAssumption`):

* `InvariantHolds`: `Spec => []BuilderInvariant`; `TypeCorrect`: `Spec => []TypeOK`.
* `AllOrNone`: `Spec => []AllTrialsOrNone`.
* `CanRun`: `Spec => []TrialsCanRun`.
* `LeftOutLate`: `Spec => []LeftOutAfterAllAttempts`.

None of the three is inductive: a retry could build what had succeeded, so that a
pair gets its trials twice, unless what is called has not succeeded yet
(`CalledUntilSuccess`); a pair with trials needs a coverage build that was
made in an earlier stage (`SuccessesAreThere`); and what is no longer called has either
succeeded or been tried as often as possible (`GivenUpLate`).

`LifecycleProofs` (assumption `LifecycleAssumption`):

* `InvariantHolds`: `Spec => []LifecycleInvariant`; `TypeCorrect`: `Spec => []TypeOK`.
* `InputIsThere`: `Spec => []DispatcherFindsInput`, because every start copies in the same
  order and nothing is removed (`CopiedInOrder`), also when two start one experiment.
* `EndIsReported`: `Spec => []EndedIsReported`, because the row says how far the dispatcher
  came and a loop that ended does not begin again (`RowFollowsDispatcher`).
* `NoneIsOrphaned`: `Spec => []NoOrphanRunners`, from `RunsOnInstances` and because what a
  dispatcher listed has all runners of its experiment (`StopIsWhole`): no scheduler starts
  one any more.
* `DispatcherIsThere`: `Spec => []RunningHasDispatcher`: a dispatcher stops its experiment only
  after the row says that it ended, and what a stop has in hand has no dispatcher but
  its own, for any relation of prefixes between names.

`OperationsProofs`, about `Processes` and `Images`:

* `NothingLeft`: `ProcessInvariant` says where the timer is when a process was killed: its
  group is killed next, so a timer that finds no group has found a process that
  ended by itself.
* `FromDependencies`: `ImagesInvariant`. A tag is that of an image of this build once an
  image that has it is built (`TagsOfThisBuild`), and what an image waits for is built
  when its own build begins (`BegunInOrder`): the runner names the builder's tag in its
  Dockerfile and waits for the intermediate runner alone, so one needs that
  *its* build waited. The table of `image_types.yaml` enters by four lemmas
  (`TagsAreApart`, `ParentsAreDependencies`, `DependsOnHas`, `DependsOnlyOn`); that `make` never
  builds `builder_debug` is that no image depends on it.

`PreparationProofs` (assumption `PreparationAssumption`), in `PreparationMC`:

* `ConfigsAreComplete`, `ChosenAreOfOneType`: `PartSpec => []AcceptedIsComplete` and
  `[]ChosenHaveOneType`, from lemmas without any premise about the configuration, the
  request or the benchmarks (`AnyAcceptedIsComplete`, `AnyChosenHaveOneType`): the runs
  enumerate complete configurations with one change.
* `CpusAreApart`: `PartSpec => []CpusAreDisjoint`; `AnyCpusAreDisjoint` is for all naturals
  of cpus, runners and measurers and all integers of cores, by two lemmas about multiples (`SetsAreApart`, `SetsAreWithin`).
* `MutantsInvariantHolds`: `PartSpec => []MutantsInvariant`, and from it `OneMutation`
  (`[]MutantsDifferByOneMutation`), `TargetHasItsTime` (`[]TargetGetsItsTime`) and `FindsReachTarget`
  (`[]LatestFindsReachTarget`), for any number of mutations and any time. The sources have
  no mutation between two builds (`SourcesRestored`). The time used and the time of
  the programs left are the time of the programs chosen (`TimeIsShared`), and that is
  below the mutants' share and one timeout more, whichever of the two bounds
  of `Timeout` and `NumMutants` is met (`ShareIsKept`). What the latest mutant found is in the
  store until it is copied (`FindsAreKept`).
* `AllAreSound` and `AllFit`, of every integration of `Fuzzers` and *any* `b`, whatever
  benchmark it is: every build of `build()` has pristine directories, and
  what `build()` ends with is what `fuzz()` takes from `$OUT`.
* `SourcesArePristine`: `Spec => []BuiltFromPristineSources`; `FilesAreFound`:
  `Spec => []FuzzFindsItsFiles`; `CrashesAreReported`: `Spec => []CrashesAreDetected`; for the
  `Spec` of `FuzzerBuilds`, with `BuildsAreTyped` (`[]TypeOK`).

  None of these is inductive, as what a step does depends on all that is still to be
  done. `Leads(what, steps, a, b)` says that the steps, one after the other and none
  of them failing, go from `a` to `b`, where `what` is the state of the sources or that
  of `$OUT` and the environment. Sequences of steps that lead on compose (`LeadsOn`), a step
  is taken off the front (`LeadsFirst`), and there is a lemma per kind of step. So an
  integration is followed the way it is written: the lemmas about `afl.build()` or about the modes
  of `aflplusplus.build()` (`ModesNext`, by induction along the modes, one at a time) are cited for
  each that calls them. `SourcesAreKept` is then that what is left of `build()` leads
  somewhere from here; `OutIsKept`, that it leads to a state in which `fuzz()` finds its files,
  its programs of their kind and, unless it is one of `WithoutSanitizers`, with the sanitizers
  of the benchmark (`Owed`). Every step pays the first of what is owed (`StepIsOwed`), and when
  nothing is left the state is the one that was owed.

The compositions. `EveryPartIsOne` of `TrialProofs` and of `OperationsProofs`, and for the
builds of fuzzers `BuildsGoTheirWay` of `PreparationProofs`: a behaviour of `PartSpec` is a behaviour of each component's `Spec`, as every step is one component's and
leaves the variables of the others alone. So the theorems about the components are
theorems about what the runs check, with the constants free: `TypesCorrect` in both,
`MeasuredAtTheEnd`, `Contiguous`, `OneWorker`, `CoverageIsRight` and `CrashesAreRight` for `TrialMC`,
`InputIsThere`, `EndIsReported`, `NoneIsOrphaned`, `DispatcherIsThere`, `NothingLeft` and
`FromDependencies` for `OperationsMC`, and `BuildsDeliver` and `PartsAreTyped` for `PreparationMC`.

The assumptions of `Scheduler`, `Runner` and `Builder` are `ASSUME`s of those modules. Those of
`Lifecycle`, `Measurer` and `TrialMeasurement` are premises of their theorems;
`OperationsAssumption` and `TrialAssumption` let TLC evaluate them for the runs' constants.
Those of `Images` and `MutantFuzzers` are in `OperationsAssumption` and `PreparationAssumption`.
`MeasurerAssumption` and the others say of the constants that they are numbers, finite sets
and functions, and which faults exist.

Only model-checked: all liveness (`Terminates`, `TrialsComeToAnEnd`, `EveryPartGetsThere`) and
what the runs refute. `JointSpec` is no run of its own: TLC was run on it by hand, with one
file, no retry, two trials, archives given up and copies that fail (100,000 states,
`SavedIsMeasured` and `M!Spec` hold), before it was
proved about. Every invariant that a passing run checks is stated by a theorem.
Liveness under fairness, ENABLED and induction over data (what a recursive
definition computes for every input) are out of reach of TLAPS' backends. The
proofs are about the modules themselves, with the constants free; the runs
instantiate the same definitions.

## 5. Not modelled

* *Reporter and analysis*: reads the database and computes statistics and plots with
  pandas; no state of its own. What its queries do to the session it shares is
  `SharedSession`, when it is run and what of it may raise is `Lifecycle`.
* *Measure workers*: `schedule_measure_workers.py` resizes an instance group, but nothing in
  the repository starts it and the measurer does not read its queue.
* *Filestore*: wrappers of command line tools. That a copy fails, or fails after it
  was done, are steps of `Runner`, `Measurer`, `Builder` and `Lifecycle`.
* *Job queue*: `fuzzbench/` builds one fixed benchmark and prints; an unfinished
  alternative to the dispatcher.
* *Developer tools and migrations*: no state and no concurrency.
* Parts of modelled components: the html reports of `coverage_utils.py`, the parsing of
  stack traces, OSS-Fuzz and custom seed corpora beyond their copy, the docker command of
  a local dispatcher, instance templates, debug and test targets of the
  makefile, `record_stats` (never called), the generator wrapper of `retry.py` (nothing
  uses it). Delays between retries are not modelled: any interleaving is
  allowed.
* Of the fuzzers: flags, dictionaries and seeds. Benchmarks are their type,
  language and name; their build scripts either succeed or fail.
* A restart of a runner, which removes the trial's directory in the filestore: nothing
  in the repository restarts one, but the container's policy could.

## 6. What could follow

1. Restarts of the runner in `Runner` and in `JointSpec`: the archives then disappear.
2. `SkippedIsSavedWhileFuzzing` for several directories, under a condition on when files
   appear in them.
3. Measurements that two workers make in one directory after a batch was lost (the
   abandoned workers of `Measurer` meeting the files of `TrialMeasurement`).
