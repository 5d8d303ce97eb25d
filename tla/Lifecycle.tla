----------------------------- MODULE Lifecycle -----------------------------
(***************************************************************************)
(* The life of experiments: the automatic service                          *)
(* (service/automatic_run_experiment.py) or a user starts one              *)
(* (experiment/run_experiment.py), its dispatcher carries it out           *)
(* (experiment/dispatcher.py) and at the end, or when a user says so,      *)
(* stops its instances (experiment/stop_experiment.py).                    *)
(*                                                                         *)
(* A starter copies the sources and the configuration to the filestore     *)
(* and creates an instance; the dispatcher on it reads them, registers     *)
(* the experiment, builds, and runs the scheduler in a thread and the      *)
(* measurer in a process, which are modelled in Scheduler and Measurer     *)
(* and here only begin, end or die of an exception.                        *)
(***************************************************************************)
EXTENDS Naturals, Sequences, FiniteSets

CONSTANTS
    Requests,     \* experiment-requests.yaml: the names, the newest first
    Ids,          \* the ids trials may have
    LongerNames,  \* the other experiments whose name begins with that of e
    UserStarts,   \* the experiments a user starts by hand, once each
    UserStops,    \* the experiments a user may stop
    MaxUserActs,  \* bound on what users do in a behaviour
    BatchSize,    \* INSTANCE_BATCH_SIZE: how many one command deletes
    Faults,       \* what can fail, a subset of AllFaults
    MaxFailures   \* bound on how much fails in a behaviour

(***************************************************************************)
(*   copy_raise     filestore_utils.cp or rsync raises                     *)
(*   create_fail    gcloud fails to create the dispatcher                  *)
(*   build_raise    build_images_for_trials raises                         *)
(*   report_fail    there is no data or output_report catches an exception *)
(*   report_raise   output_report raises outside of its try                *)
(*   end_fail       the scheduler fails to delete the runner of a trial    *)
(*   list_raise     gce.get_instances raises in stop_experiment            *)
(*   delete_fail    a command of delete_instances fails, at least in part  *)
(*   thread_dies    an exception ends the scheduler or the measurer        *)
(***************************************************************************)
AllFaults == {"copy_raise", "create_fail", "build_raise", "report_fail",
              "report_raise", "end_fail", "list_raise", "delete_fail",
              "thread_dies"}

\* What failed for an experiment may fail for it as often as it is tried.
Recurring == {"report_fail", "delete_fail"}

Range(s) == {s[i] : i \in DOMAIN s}

Experiments == Range(Requests)

Starters == {"service", "user"}
NoStarter == "nobody"

LifecycleAssumption ==
    /\ Requests \in Seq(Experiments)
    /\ \A i, j \in DOMAIN Requests : Requests[i] = Requests[j] => i = j
    /\ IsFiniteSet(Ids)
    /\ NoStarter \notin Experiments
    /\ LongerNames \in [Experiments -> SUBSET Experiments]
    /\ \A e \in Experiments : e \notin LongerNames[e]
    /\ UserStarts \subseteq Experiments
    /\ UserStops \subseteq Experiments
    /\ BatchSize \in Nat \ {0}
    /\ Faults \subseteq AllFaults
    /\ MaxUserActs \in Nat
    /\ MaxFailures \in Nat

\* Users stop one experiment in a behaviour.
Nothing == [of |-> NoStarter, found |-> {}]

VARIABLES
    starter,   \* what each starter does, and with which experiment
    input,     \* what is in the experiment's input directory of the filestore
    instances, \* the instances there are: <<"d", experiment>>,
               \* <<"r", experiment, id>>
    pc,        \* where the dispatcher of an experiment is
    db,        \* the experiment's row: "none", "running" or "ended"
    scheduler, \* scheduler_loop_thread: "off", "alive", "ended" or "died"
    measurer,  \* measurer_main_process
    report,    \* the last report: "none", "in_progress" or "final"
    listed,    \* what stop_experiment listed on the dispatcher ...
    left,      \* ... and what of that no command was to delete yet
    stopping,  \* a user's stop: of what, and what is left to delete
    failures,  \* how much has failed
    hit        \* what has failed for which experiment

vars == <<starter, input, instances, pc, db, scheduler, measurer,
          report, listed, left, stopping, failures, hit>>

threads == <<scheduler, measurer>>
stops == <<listed, left, stopping>>
faults == <<failures, hit>>

Init ==
    /\ starter = [s \in Starters |->
                    [pc |-> "idle", experiment |-> NoStarter]]
    /\ input = [e \in Experiments |-> {}]
    /\ instances = {}
    /\ pc = [e \in Experiments |-> "off"]
    /\ db = [e \in Experiments |-> "none"]
    /\ scheduler = [e \in Experiments |-> "off"]
    /\ measurer = [e \in Experiments |-> "off"]
    /\ report = [e \in Experiments |-> "none"]
    /\ listed = [e \in Experiments |-> {}]
    /\ left = [e \in Experiments |-> {}]
    /\ stopping = Nothing
    /\ failures = 0
    /\ hit = {}

Dispatcher(e) == <<"d", e>>
Runner(e, i) == <<"r", e, i>>
RunnersOf(e) == {Runner(e, i) : i \in Ids} \intersect instances
Names == {Dispatcher(e) : e \in Experiments}
            \union {Runner(e, i) : e \in Experiments, i \in Ids}

-----------------------------------------------------------------------------
(***************************************************************************)
(* Starting an experiment.                                                 *)
(***************************************************************************)
\* No experiment of that name is in the database.
IsNewExperiment(e) == db[e] = "none"

\* The oldest requested experiment that hasn't been run yet.
IsRequested(i) ==
    /\ IsNewExperiment(Requests[i])
    /\ \A j \in DOMAIN Requests : j > i => ~IsNewExperiment(Requests[j])

GoTo(s, label) == starter' = [starter EXCEPT ![s].pc = label]

RunRequestedExperiment ==
    /\ starter["service"].pc = "idle"
    /\ \E i \in DOMAIN Requests :
         /\ IsRequested(i)
         /\ starter' = [starter EXCEPT !["service"] =
                          [pc |-> "copy_source", experiment |-> Requests[i]]]
    /\ UNCHANGED <<input, instances, pc, db, threads, report, stops,
                   faults>>

UserActs ==
    (IF starter["user"].experiment = NoStarter THEN 0 ELSE 1)
        + (IF stopping = Nothing THEN 0 ELSE 1)

\* run_experiment_main, of an experiment no one asked a user for before.
UserRunsExperiment(e) ==
    /\ e \in UserStarts /\ UserActs < MaxUserActs
    /\ starter["user"] = [pc |-> "idle", experiment |-> NoStarter]
    /\ starter' = [starter EXCEPT !["user"] =
                     [pc |-> "copy_source", experiment |-> e]]
    /\ UNCHANGED <<input, instances, pc, db, threads, report, stops,
                   faults>>

\* copy_resources_to_bucket: the sources ...
CopySource(s) ==
    LET e == starter[s].experiment IN
    /\ starter[s].pc = "copy_source"
    /\ input' = [input EXCEPT ![e] = @ \union {"source"}]
    /\ GoTo(s, "copy_config")
    /\ UNCHANGED <<instances, pc, db, threads, report, stops, faults>>

\* ... then the configuration; the seed corpora follow in the same way.
CopyConfig(s) ==
    LET e == starter[s].experiment IN
    /\ starter[s].pc = "copy_config"
    /\ input' = [input EXCEPT ![e] = @ \union {"config"}]
    /\ GoTo(s, "create")
    /\ UNCHANGED <<instances, pc, db, threads, report, stops, faults>>

\* GoogleCloudDispatcher.start; there is one instance of a name.
CreateDispatcher(s) ==
    LET e == starter[s].experiment IN
    /\ starter[s].pc = "create"
    /\ Dispatcher(e) \notin instances
    /\ instances' = instances \union {Dispatcher(e)}
    /\ pc' = [pc EXCEPT ![e] = "boot"]
    /\ GoTo(s, "idle")
    /\ UNCHANGED <<input, db, threads, report, stops, faults>>

\* Mutant of AfterFailure: what fails is not noticed.
AfterFailure_GoesOn(label) ==
    IF label = "copy_source" THEN "copy_config"
    ELSE IF label = "copy_config" THEN "create" ELSE "idle"

\* The exception ends the start; a later one begins anew.
AfterFailure(label) == "idle"

Strike(fault, e) ==
    /\ fault \in Faults
    /\ \/ /\ failures < MaxFailures
          /\ failures' = failures + 1
          /\ hit' = hit \union {<<fault, e>>}
       \/ /\ fault \in Recurring /\ <<fault, e>> \in hit
          /\ UNCHANGED faults

StartRaises(s) ==
    LET e == starter[s].experiment IN
    /\ \/ /\ starter[s].pc \in {"copy_source", "copy_config"}
          /\ Strike("copy_raise", e)
       \/ /\ starter[s].pc = "create"
          /\ \/ Strike("create_fail", e)
             \/ Dispatcher(e) \in instances /\ UNCHANGED faults
    /\ GoTo(s, AfterFailure(starter[s].pc))
    /\ UNCHANGED <<input, instances, pc, db, threads, report, stops>>

Start(s) ==
    CopySource(s) \/ CopyConfig(s) \/ CreateDispatcher(s) \/ StartRaises(s)

-----------------------------------------------------------------------------
(***************************************************************************)
(* The dispatcher.                                                         *)
(***************************************************************************)
Moves(e, from, to) ==
    /\ pc[e] = from
    /\ pc' = [pc EXCEPT ![e] = to]

\* _initialize_experiment_in_db: the query ...
LooksForExperiment(e) ==
    /\ Moves(e, "boot", IF db[e] = "none" THEN "register" ELSE "raised")
    /\ UNCHANGED <<starter, input, instances, db, threads, report, stops,
                   faults>>

\* ... and the new row, in a transaction of its own.
Registers(e) ==
    /\ Moves(e, "register", "build")
    /\ db' = [db EXCEPT ![e] = "running"]
    /\ UNCHANGED <<starter, input, instances, threads, report, stops,
                   faults>>

\* Images are built, trials saved, and the two loops begin.
StartsLoops(e) ==
    /\ Moves(e, "build", "loop")
    /\ scheduler' = [scheduler EXCEPT ![e] = "alive"]
    /\ measurer' = [measurer EXCEPT ![e] = "alive"]
    /\ UNCHANGED <<starter, input, instances, db, report, stops, faults>>

BuildRaises(e) ==
    /\ Strike("build_raise", e)
    /\ Moves(e, "build", "raised")
    /\ UNCHANGED <<starter, input, instances, db, threads, report, stops>>

IsAlive(thread) == thread = "alive"

\* Mutant of IsComplete: only the scheduler is asked for.
IsComplete_Scheduler(e) == ~IsAlive(scheduler[e])

IsComplete(e) == ~IsAlive(scheduler[e]) /\ ~IsAlive(measurer[e])

\* Every LOOP_WAIT_SECONDS is_complete is computed and output_report is
\* called, which keeps to itself that it wrote no report (reporter.py:93-96).
\* (What is complete stays complete, so the two are one step.)
OutputsReport(e) ==
    /\ Moves(e, "loop", IF IsComplete(e) THEN "record" ELSE "loop")
    /\ \/ /\ report' = [report EXCEPT ![e] =
                    IF IsComplete(e) THEN "final" ELSE "in_progress"]
          /\ UNCHANGED faults
       \/ UNCHANGED report /\ Strike("report_fail", e)
    /\ UNCHANGED <<starter, input, instances, db, threads, stops>>

ReportRaises(e) ==
    /\ Strike("report_raise", e)
    /\ Moves(e, "loop", "raised")
    /\ UNCHANGED <<starter, input, instances, db, threads, report, stops>>

RecordsTimeEnded(e) ==
    /\ Moves(e, "record", "stop")
    /\ db' = [db EXCEPT ![e] = "ended"]
    /\ UNCHANGED <<starter, input, instances, threads, report, stops,
                   faults>>

\* Mutants of ExperimentInstances: the runners are forgotten; dispatchers are
\* found by the prefix, too.
ExperimentInstances_Dispatcher(e) == {Dispatcher(e)} \intersect instances

ExperimentInstances_Prefix(e) ==
    UNION {RunnersOf(x) \union ({Dispatcher(x)} \intersect instances) :
              x \in {e} \union LongerNames[e]}

\* The instances stop_experiment finds: runners by the prefix of the name.
ExperimentInstances(e) ==
    ({Dispatcher(e)} \intersect instances)
        \union UNION {RunnersOf(x) : x \in {e} \union LongerNames[e]}

\* Nothing runs on an instance that was deleted.
Gone(deleted, e) == Dispatcher(e) \in deleted

Deletes(deleted) ==
    /\ instances' = instances \ deleted
    /\ pc' = [e \in Experiments |->
                IF Gone(deleted, e) THEN "off" ELSE pc[e]]
    /\ scheduler' = [e \in Experiments |->
                IF Gone(deleted, e) /\ scheduler[e] = "alive" THEN "died"
                ELSE scheduler[e]]
    /\ measurer' = [e \in Experiments |->
                IF Gone(deleted, e) /\ measurer[e] = "alive" THEN "died"
                ELSE measurer[e]]

\* delete_instances: what one command is to delete, the dispatcher with the
\* first of them.
Batches(e, names) ==
    IF Cardinality(names) <= BatchSize THEN {names}
    ELSE {batch \in SUBSET names :
            /\ Cardinality(batch) = BatchSize
            /\ Dispatcher(e) \in names => Dispatcher(e) \in batch}

\* A command that fails deletes any part of its batch; the next one follows.
DeletesBatch(e, batch) ==
    \/ Deletes(batch) /\ UNCHANGED faults
    \/ /\ \E part \in SUBSET batch : Deletes(part)
       /\ Strike("delete_fail", e)

\* stop_experiment, by the dispatcher about itself, lists what there is ...
ListsItself(e) ==
    /\ Moves(e, "stop", "delete")
    /\ listed' = [listed EXCEPT ![e] = ExperimentInstances(e)]
    /\ left' = [left EXCEPT ![e] = ExperimentInstances(e)]
    /\ UNCHANGED <<starter, input, instances, db, threads, report, stopping,
                   faults>>

\* ... then deletes that, as long as its own instance is there.
StopsItself(e) ==
    /\ pc[e] = "delete" /\ left[e] # {}
    /\ \E batch \in Batches(e, left[e]) :
         /\ DeletesBatch(e, batch)
         /\ left' = [left EXCEPT ![e] = @ \ batch]
    /\ UNCHANGED <<starter, input, db, report, listed, stopping>>

ListRaises(e) ==
    /\ Strike("list_raise", e)
    /\ Moves(e, "stop", "raised")
    /\ UNCHANGED <<starter, input, instances, db, threads, report, stops>>

\* The same, run by a user: first the listing ...
UserListsInstances(e) ==
    /\ e \in UserStops /\ UserActs < MaxUserActs
    /\ stopping = Nothing
    /\ ExperimentInstances(e) # {}
    /\ stopping' = [of |-> e, found |-> ExperimentInstances(e)]
    /\ UNCHANGED <<starter, input, instances, pc, db, threads, report,
                   listed, left, faults>>

\* ... then the commands.
UserStopsExperiment ==
    /\ stopping.found # {}
    /\ \E batch \in Batches(stopping.of, stopping.found) :
         /\ DeletesBatch(stopping.of, batch)
         /\ stopping' = [stopping EXCEPT !.found = @ \ batch]
    /\ UNCHANGED <<starter, input, db, report, listed, left>>

Dispatch(e) ==
    \/ LooksForExperiment(e)
    \/ Registers(e)
    \/ StartsLoops(e)
    \/ OutputsReport(e)
    \/ RecordsTimeEnded(e)
    \/ ListsItself(e)
    \/ StopsItself(e)

DispatchFails(e) == BuildRaises(e) \/ ReportRaises(e) \/ ListRaises(e)

-----------------------------------------------------------------------------
(***************************************************************************)
(* The two loops of an experiment.                                         *)
(***************************************************************************)
StartsRunner(e, i) ==
    /\ scheduler[e] = "alive"
    /\ Runner(e, i) \notin instances
    /\ instances' = instances \union {Runner(e, i)}
    /\ UNCHANGED <<starter, input, pc, db, threads, report, stops,
                   faults>>

EndsRunner(e, i) ==
    /\ scheduler[e] = "alive"
    /\ Runner(e, i) \in instances
    /\ instances' = instances \ {Runner(e, i)}
    /\ UNCHANGED <<starter, input, pc, db, threads, report, stops,
                   faults>>

\* schedule_loop returns when all trials ended.  Their instances have ended
\* with them, unless deleting some failed (see the property
\* EndedTrialsAreDeleted of Scheduler).
SchedulerEnds(e) ==
    /\ scheduler[e] = "alive"
    /\ \/ RunnersOf(e) = {} /\ UNCHANGED faults
       \/ RunnersOf(e) # {} /\ Strike("end_fail", e)
    /\ scheduler' = [scheduler EXCEPT ![e] = "ended"]
    /\ UNCHANGED <<starter, input, instances, pc, db, measurer, report, stops>>

\* measure_loop returns only after all trials ended.
MeasurerEnds(e) ==
    /\ measurer[e] = "alive"
    /\ scheduler[e] = "ended"
    /\ measurer' = [measurer EXCEPT ![e] = "ended"]
    /\ UNCHANGED <<starter, input, instances, pc, db, scheduler, report,
                   stops, faults>>

ThreadDies(e) ==
    /\ Strike("thread_dies", e)
    /\ \/ /\ scheduler[e] = "alive"
          /\ scheduler' = [scheduler EXCEPT ![e] = "died"]
          /\ measurer' = measurer
       \/ /\ measurer[e] = "alive"
          /\ measurer' = [measurer EXCEPT ![e] = "died"]
          /\ scheduler' = scheduler
    /\ UNCHANGED <<starter, input, instances, pc, db, report, stops>>

Loops(e) ==
    \/ \E i \in Ids : StartsRunner(e, i) \/ EndsRunner(e, i)
    \/ SchedulerEnds(e)
    \/ MeasurerEnds(e)

Next ==
    \/ RunRequestedExperiment
    \/ \E e \in Experiments : UserRunsExperiment(e) \/ UserListsInstances(e)
    \/ UserStopsExperiment
    \/ \E s \in Starters : Start(s)
    \/ \E e \in Experiments :
         Dispatch(e) \/ DispatchFails(e) \/ Loops(e) \/ ThreadDies(e)

Spec == Init /\ [][Next]_vars

\* The service, which cron runs again and again.
Service == RunRequestedExperiment \/ Start("service")

\* The service and the dispatchers go on.  (Nothing is asked of a user, of
\* the scheduler, or of the measurer.)
Fairness == WF_vars(Service) /\ \A e \in Experiments : WF_vars(Dispatch(e))

FairSpec == Spec /\ Fairness

-----------------------------------------------------------------------------
(***************************************************************************)
(* Properties.                                                             *)
(***************************************************************************)
TypeOK ==
    /\ starter \in [Starters ->
                      [pc : {"idle", "copy_source", "copy_config", "create"},
                       experiment : Experiments \union {NoStarter}]]
    /\ input \in [Experiments -> SUBSET {"source", "config"}]
    /\ instances \subseteq Names
    /\ pc \in [Experiments -> {"off", "boot", "register", "build", "loop",
                               "record", "stop", "delete", "raised"}]
    /\ db \in [Experiments -> {"none", "running", "ended"}]
    /\ scheduler \in [Experiments -> {"off", "alive", "ended", "died"}]
    /\ measurer \in [Experiments -> {"off", "alive", "ended", "died"}]
    /\ report \in [Experiments -> {"none", "in_progress", "final"}]
    /\ \A e \in Experiments :
          left[e] \subseteq listed[e] /\ listed[e] \subseteq Names
    /\ stopping.of \in UserStops \union {NoStarter}
    /\ \A e \in Experiments :
          Dispatcher(e) \in stopping.found => stopping.of = e
    /\ failures \in 0..MaxFailures
    /\ hit \subseteq Faults \X Experiments

\* A dispatcher finds its sources and its configuration in the filestore,
\* whichever copy was interrupted and however often a start was repeated.
DispatcherFindsInput ==
    \A e \in Experiments : Dispatcher(e) \in instances =>
        input[e] = {"source", "config"}

\* An experiment whose end is recorded is over: neither of its loops goes on,
\* and the report with everything that was measured is the last one written,
\* whatever died or was started a second time (dispatcher_main), unless
\* output_report failed to write one.
EndedIsReported ==
    \A e \in Experiments : db[e] = "ended" =>
        /\ ~IsAlive(scheduler[e]) /\ ~IsAlive(measurer[e])
        /\ report[e] = "final" \/ <<"report_fail", e>> \in hit

\* A runner's experiment has a dispatcher instance as long as the runner is
\* there: nothing goes on fuzzing for an experiment that ended, although its
\* scheduler died or left runners behind.  The dispatcher is deleted with the
\* first batch, so it is so only if all that stop_experiment listed was one
\* batch and the command did not fail.  (A user who stops an experiment whose
\* scheduler is at work may miss a runner that is created after the listing.)
NoOrphanRunners ==
    \A e \in Experiments :
        /\ Dispatcher(e) \notin instances /\ stopping.of # e
        /\ Cardinality(listed[e]) <= BatchSize
        /\ <<"delete_fail", e>> \notin hit
        => RunnersOf(e) = {}

\* An experiment that runs by its row has its dispatcher instance: a stop does
\* not come before the end is recorded, and the stop of another experiment,
\* whose name is the beginning of this one's, takes runners only.  A user who
\* stops this very experiment leaves the row as it is.
RunningHasDispatcher ==
    \A e \in Experiments :
        db[e] = "running" /\ stopping.of # e => Dispatcher(e) \in instances

\* Every requested experiment is run, although copies and creations fail,
\* users start some of them by hand, and dispatchers fail once registered.
AllWereRun == \A e \in Experiments : db[e] # "none"
EveryRequestRuns == <>AllWereRun
=============================================================================
