------------------------------ MODULE Measurer ------------------------------
(***************************************************************************)
(* The measurer of an experiment:                                          *)
(* src/experiment/measurer/measure_manager.py.                             *)
(*                                                                         *)
(* measure_loop asks, again and again, which snapshot of every trial is    *)
(* the next to measure, gives each trial to a pool of worker processes,    *)
(* and saves the snapshots the workers put in a queue.  It runs beside     *)
(* the scheduler, of which it sees the trial table (TrialTable), and       *)
(* beside the runners, of which it sees the corpus archives.               *)
(*                                                                         *)
(* A call of measure_all_trials that raises leaves its workers running.    *)
(* They are "abandoned": the next call neither waits for them nor knows    *)
(* the snapshots they put in the queue from its own.                       *)
(***************************************************************************)
EXTENDS Naturals, FiniteSets, FiniteSetsExt

CONSTANTS
    Trials,          \* every trial id that may be given out
    InitialTrials,   \* the trials the dispatcher puts in the database
    Preemptible,     \* experiment_config["preemptible_runners"]
    MaxCycle,        \* _time_to_cycle(max_total_time)
    BatchSize,       \* SNAPSHOTS_BATCH_SAVE_SIZE
    Faults,          \* what can go wrong, a subset of AllFaults
    MaxFaults        \* bound on how many kinds go wrong in one behaviour

(***************************************************************************)
(* Each happens once, the first two any number of times:                   *)
(*   upload_gap     a runner gives up on the archive of a cycle            *)
(*   copy_fail      an archive that exists cannot be copied to the worker  *)
(*   measure_raise  measuring a cycle raises in the worker                 *)
(*   query_raise    reading the snapshots to measure raises                *)
(*   commit_fail    saving a batch of snapshots raises                     *)
(*   late_put       a worker puts its last snapshot and returns after the  *)
(*                  queue was found empty and before result.ready()        *)
(***************************************************************************)
AllFaults == {"upload_gap", "copy_fail", "measure_raise", "query_raise",
              "commit_fail", "late_put"}

MeasurerAssumption ==
    /\ InitialTrials \subseteq Trials
    /\ IsFiniteSet(Trials)
    /\ Preemptible \in BOOLEAN
    /\ MaxCycle \in Nat
    /\ BatchSize \in Nat \ {0}
    /\ Faults \subseteq AllFaults
    /\ MaxFaults \in Nat

VARIABLES
    rows,        \* the trial rows committed to the database
    runnerCycle, \* the next cycle the runner of a trial syncs
    archives,    \* the cycles whose archive is in the filestore, per trial
    snapshots,   \* the cycles with a committed snapshot row, per trial
    pc,          \* where measure_loop is
    allEnded,    \* all_trials_ended
    jobs,        \* measure_trial_coverage of this call: trial -> cycle
    abandoned,   \* <<trial, cycle>> of the workers of calls that raised
    uncopied,    \* the trials of which this call could not copy an archive
    queue,       \* multiprocessing_queue, of Item
    batch,       \* "snapshots" of measure_all_trials, of Item
    saved,       \* snapshots_measured
    hit          \* the faults that have happened

vars == <<rows, runnerCycle, archives, snapshots, pc, allEnded, jobs,
          abandoned, uncopied, queue, batch, saved, hit>>

world == <<rows, runnerCycle, archives>>
pool == <<jobs, abandoned, uncopied>>

Cycles == 0..MaxCycle

\* A measured snapshot; "stray" if it is not one of the current call.
Item == [trial : Trials, cycle : Cycles, stray : BOOLEAN]

Table == INSTANCE TrialTable

-----------------------------------------------------------------------------
Init ==
    /\ Table!Init
    /\ runnerCycle = [t \in Trials |-> 0]
    /\ archives = [t \in Trials |-> {}]
    /\ snapshots = [t \in Trials |-> {}]
    /\ pc = "test"
    /\ allEnded = FALSE
    /\ jobs = [t \in {} |-> 0]
    /\ abandoned = {}
    /\ uncopied = {}
    /\ queue = {}
    /\ batch = {}
    /\ saved = FALSE
    /\ hit = {}

Strike(fault) ==
    /\ fault \in Faults \ hit
    /\ Cardinality(hit) < MaxFaults
    /\ hit' = hit \union {fault}

\* A fault that may come again.
Recurs(fault) == Strike(fault) \/ (fault \in hit /\ hit' = hit)

-----------------------------------------------------------------------------
(***************************************************************************)
(* The scheduler and the runners, as the measurer sees them.               *)
(***************************************************************************)
SetStatus(t, from, to) ==
    /\ rows[t].status = from
    /\ rows' = [rows EXCEPT ![t].status = to]

TrialStarts(t) == SetStatus(t, "pending", "running")

TrialEnds(t) == SetStatus(t, "running", "finished")

\* A preempted trial is replaced, or given up.
TrialIsPreempted(t) ==
    /\ Preemptible
    /\ \/ SetStatus(t, "running", "preempted")
       \/ /\ rows[t].status = "running"
          /\ \E u \in Trials \ DOMAIN rows :
               rows' = [v \in DOMAIN rows \union {u} |->
                          IF v = u THEN [rows[t] EXCEPT !.status = "pending"]
                          ELSE IF v = t
                          THEN [rows[t] EXCEPT !.status = "preempted"]
                          ELSE rows[v]]

SchedulerStep ==
    /\ \E t \in DOMAIN rows :
         TrialStarts(t) \/ TrialEnds(t) \/ TrialIsPreempted(t)
    /\ UNCHANGED <<runnerCycle, archives, snapshots, pc, allEnded, pool,
                   queue, batch, saved, hit>>

Gap == Recurs("upload_gap")

\* A runner syncs a cycle.  Its instance is there from before its row says
\* so until before the row says that the trial ended.
RunnerStep(t) ==
    /\ rows[t].status \in {"pending", "running"}
    /\ runnerCycle[t] <= MaxCycle
    /\ runnerCycle' = [runnerCycle EXCEPT ![t] = @ + 1]
    /\ \/ /\ archives' = [archives EXCEPT ![t] = @ \union {runnerCycle[t]}]
          /\ hit' = hit
       \/ Gap /\ archives' = archives
    /\ UNCHANGED <<rows, snapshots, pc, allEnded, pool, queue, batch, saved>>

-----------------------------------------------------------------------------
AllTrialsEnded ==
    \A t \in DOMAIN rows : rows[t].status \in {"finished", "preempted"}

\* all_trials_ended is read before measure_all_trials begins.
LoopBegins ==
    /\ pc = "test"
    /\ allEnded' = AllTrialsEnded
    /\ pc' = "measure"
    /\ UNCHANGED <<world, snapshots, pool, queue, batch, saved, hit>>

MeasuredTrials == {t \in DOMAIN rows : snapshots[t] # {}}

\* The first snapshot of every trial that started, was not preempted and has
\* none ...
FirstSnapshots ==
    {t \in DOMAIN rows \ MeasuredTrials :
        rows[t].status \in {"running", "finished"}}

\* ... and the one after the latest of every other trial.
LatestCycle(t) == Max(snapshots[t])

NextSnapshots == {t \in MeasuredTrials : LatestCycle(t) < MaxCycle}

\* Mutants of UnmeasuredSnapshots: cycles begin at 1; the latest snapshot is
\* asked for again.
UnmeasuredSnapshots_FromOne ==
    [t \in FirstSnapshots \union NextSnapshots |->
        IF t \in NextSnapshots THEN LatestCycle(t) + 1 ELSE 1]

UnmeasuredSnapshots_Again ==
    [t \in FirstSnapshots \union NextSnapshots |->
        IF t \in NextSnapshots THEN LatestCycle(t) ELSE 0]

\* get_unmeasured_snapshots
UnmeasuredSnapshots ==
    [t \in FirstSnapshots \union NextSnapshots |->
        IF t \in NextSnapshots THEN LatestCycle(t) + 1 ELSE 0]

\* exists_in_experiment_filestore(experiment_folders_dir)
FoldersExist == \E t \in Trials : archives[t] # {}

\* Mutant of AfterMeasuring: whether all trials ended is asked afterwards.
AfterMeasuring_Asks(measured) ==
    IF ~measured /\ AllTrialsEnded THEN "done" ELSE "test"

\* What measure_loop does with the answer of measure_all_trials.
AfterMeasuring(measured) ==
    IF ~measured /\ allEnded THEN "done" ELSE "test"

\* measure_all_trials up to the loop over the queue.
MeasureBegins ==
    /\ pc = "measure"
    /\ jobs' = IF FoldersExist THEN UnmeasuredSnapshots ELSE jobs
    /\ pc' = IF ~FoldersExist THEN AfterMeasuring(TRUE)
             ELSE IF DOMAIN UnmeasuredSnapshots = {} THEN AfterMeasuring(FALSE)
             ELSE "poll"
    /\ uncopied' = {}
    /\ batch' = {}
    /\ saved' = FALSE
    /\ UNCHANGED <<world, snapshots, allEnded, abandoned, queue, hit>>

QueryRaises ==
    /\ pc = "measure"
    /\ Strike("query_raise")
    /\ pc' = "test"
    /\ UNCHANGED <<world, snapshots, allEnded, pool, queue, batch, saved>>

-----------------------------------------------------------------------------
\* measure_trial_coverage at one cycle, and what comes of it: the snapshot is
\* put in the queue, or measuring raises and the next cycle's turn comes.
Measures(t, cycle) == cycle <= MaxCycle /\ cycle \in archives[t]

Put(t, cycle, stray) ==
    queue' = queue \union {[trial |-> t, cycle |-> cycle, stray |-> stray]}

WorkerMeasures(t) ==
    /\ t \in DOMAIN jobs
    /\ jobs[t] <= MaxCycle
    /\ \/ Measures(t, jobs[t]) /\ Put(t, jobs[t], FALSE) /\ hit' = hit
       \/ Strike("measure_raise") /\ queue' = queue
    /\ jobs' = [jobs EXCEPT ![t] = @ + 1]
    /\ UNCHANGED <<world, snapshots, pc, allEnded, abandoned, uncopied, batch,
                   saved>>

WithoutJob(t) == [u \in DOMAIN jobs \ {t} |-> jobs[u]]

\* The worker ends at the first archive that it cannot copy, be it missing or
\* not.
WorkerReturns(t) ==
    /\ t \in DOMAIN jobs
    /\ \/ ~Measures(t, jobs[t]) /\ UNCHANGED <<uncopied, hit>>
       \/ /\ Measures(t, jobs[t])
          /\ Recurs("copy_fail")
          /\ uncopied' = uncopied \union {t}
    /\ jobs' = WithoutJob(t)
    /\ UNCHANGED <<world, snapshots, pc, allEnded, abandoned, queue, batch,
                   saved>>

AbandonedMeasures(job) ==
    /\ job \in abandoned
    /\ job[2] <= MaxCycle
    /\ \/ /\ Measures(job[1], job[2])
          /\ Put(job[1], job[2], TRUE)
          /\ hit' = hit
       \/ Strike("measure_raise") /\ queue' = queue
    /\ abandoned' = (abandoned \ {job}) \union {<<job[1], job[2] + 1>>}
    /\ UNCHANGED <<world, snapshots, pc, allEnded, jobs, uncopied, batch,
                   saved>>

AbandonedReturns(job) ==
    /\ job \in abandoned
    /\ IF Measures(job[1], job[2]) THEN Recurs("copy_fail") ELSE hit' = hit
    /\ abandoned' = abandoned \ {job}
    /\ UNCHANGED <<world, snapshots, pc, allEnded, jobs, uncopied, queue,
                   batch, saved>>

-----------------------------------------------------------------------------
\* Full enough to be saved while nothing is in the queue.
BatchIsNearlyFull == 4 * Cardinality(batch) >= 3 * BatchSize

Ready == DOMAIN jobs = {}

\* What the queue holds when a call ends is not the next call's.
Strays(items) == {[item EXCEPT !.stray = TRUE] : item \in items}

\* queue.get: what one worker put comes in the order in which it put it.
GetSnapshot(item) ==
    /\ pc = "poll"
    /\ item \in queue
    /\ \A other \in queue :
         other.trial = item.trial /\ other.stray = item.stray
            => other.cycle >= item.cycle
    /\ queue' = queue \ {item}
    /\ batch' = batch \union {item}
    /\ pc' = IF Cardinality(batch') >= BatchSize /\ ~Ready
             THEN "save" ELSE "poll"
    /\ UNCHANGED <<world, snapshots, allEnded, pool, saved, hit>>

\* queue.get times out.
QueueIsEmpty ==
    /\ pc = "poll"
    /\ queue = {}
    /\ pc' = IF Ready THEN "last_save"
             ELSE IF BatchIsNearlyFull THEN "save" ELSE "poll"
    /\ UNCHANGED <<world, snapshots, allEnded, pool, queue, batch, saved, hit>>

\* The time out, with the last worker's put and return just behind it.
LatePut(t) ==
    /\ pc = "poll"
    /\ queue = {}
    /\ DOMAIN jobs = {t}
    /\ Measures(t, jobs[t])
    /\ ~Measures(t, jobs[t] + 1)
    /\ Strike("late_put")
    /\ Put(t, jobs[t], FALSE)
    /\ jobs' = WithoutJob(t)
    /\ pc' = "last_save"
    /\ UNCHANGED <<world, snapshots, allEnded, abandoned, uncopied, batch,
                   saved>>

\* (time, trial_id) is the primary key of a snapshot row.
HasDuplicates ==
    \/ \E item \in batch : item.cycle \in snapshots[item.trial]
    \/ \E item, other \in batch :
         /\ item # other
         /\ item.trial = other.trial
         /\ item.cycle = other.cycle

\* The rows of the batch are committed.
WithBatch ==
    [t \in Trials |-> snapshots[t] \union
                        {item.cycle : item \in {i \in batch : i.trial = t}}]

\* save_snapshots; after the last one, measure_all_trials returns.
SaveSnapshots ==
    /\ pc \in {"save", "last_save"}
    /\ ~HasDuplicates
    /\ snapshots' = WithBatch
    /\ saved' = (saved \/ batch # {})
    /\ batch' = {}
    /\ IF pc = "save" THEN pc' = "poll" /\ queue' = queue
       ELSE pc' = AfterMeasuring(saved') /\ queue' = Strays(queue)
    /\ UNCHANGED <<world, allEnded, pool, hit>>

\* add_all raises, and with it measure_all_trials: the batch is lost, the
\* pool goes on.
SaveRaises ==
    /\ pc \in {"save", "last_save"}
    /\ batch # {}
    /\ \/ HasDuplicates /\ hit' = hit
       \/ Strike("commit_fail")
    /\ pc' = "test"
    /\ abandoned' = abandoned \union {<<t, jobs[t]>> : t \in DOMAIN jobs}
    /\ jobs' = [t \in {} |-> 0]
    /\ queue' = Strays(queue)
    /\ batch' = {}
    /\ UNCHANGED <<world, snapshots, allEnded, uncopied, saved>>

-----------------------------------------------------------------------------
Loop ==
    \/ LoopBegins
    \/ MeasureBegins
    \/ QueryRaises
    \/ \E item \in queue : GetSnapshot(item)
    \/ QueueIsEmpty
    \/ SaveSnapshots
    \/ SaveRaises

Worker(t) ==
    \/ WorkerMeasures(t)
    \/ WorkerReturns(t)
    \/ LatePut(t)

Abandoned ==
    \E job \in abandoned : AbandonedMeasures(job) \/ AbandonedReturns(job)

World == SchedulerStep \/ \E t \in DOMAIN rows : RunnerStep(t)

Done == pc = "done" /\ UNCHANGED vars

Next ==
    \/ Loop
    \/ \E t \in DOMAIN jobs : Worker(t)
    \/ Abandoned
    \/ World
    \/ Done

Spec == Init /\ [][Next]_vars

\* The loop and the pool's processes run; nothing is asked of the world.
Fairness ==
    /\ WF_vars(Loop)
    /\ WF_vars(Abandoned)
    /\ \A t \in Trials : WF_vars(Worker(t))

FairSpec == Spec /\ Fairness

-----------------------------------------------------------------------------
TypeOK ==
    /\ DOMAIN rows \subseteq Trials
    /\ rows \in [DOMAIN rows -> Table!Trial]
    /\ runnerCycle \in [Trials -> 0..(MaxCycle + 1)]
    /\ archives \in [Trials -> SUBSET Cycles]
    /\ snapshots \in [Trials -> SUBSET Cycles]
    /\ \A t \in Trials : snapshots[t] \subseteq archives[t]
    /\ pc \in {"test", "measure", "poll", "save", "last_save", "done"}
    /\ allEnded \in BOOLEAN
    /\ DOMAIN jobs \subseteq DOMAIN rows
    /\ jobs \in [DOMAIN jobs -> 0..(MaxCycle + 1)]
    /\ abandoned \subseteq Trials \X (0..(MaxCycle + 1))
    /\ uncopied \subseteq Trials
    /\ queue \subseteq Item
    /\ batch \subseteq Item
    /\ saved \in BOOLEAN
    /\ hit \subseteq Faults

Counts(t) == rows[t].status # "preempted"

(***************************************************************************)
(* When measure_loop stops, the archives of every trial that was not       *)
(* preempted are measured up to the first that is missing, although        *)
(* runners go on syncing and trials go on ending while it looks.  A copy   *)
(* that failed is made up for by the next call, and a trial is left        *)
(* incomplete only if one failed in the very last call.                    *)
(***************************************************************************)
MeasuredWhenDone ==
    (pc = "done" /\ hit \subseteq {"upload_gap", "copy_fail", "query_raise"}) =>
        \A t \in DOMAIN rows \ uncopied : \A c \in Cycles :
            Counts(t) /\ 0..c \subseteq archives[t] => c \in snapshots[t]

(***************************************************************************)
(* "The measurer terminates when there is no corpus snapshot for this      *)
(* experiment that hasn't been measured": no matter which archives the     *)
(* runners could save.                                                     *)
(***************************************************************************)
AllMeasuredWhenDone ==
    pc = "done" =>
        \A t \in DOMAIN rows : Counts(t) => archives[t] \subseteq snapshots[t]

(***************************************************************************)
(* The snapshots of a trial have no holes, so that the latest one is a     *)
(* sound place to go on from: with batches saved while workers measure on, *)
(* with copies that fail and queries that raise, but not when a batch is   *)
(* lost or measuring raises.                                               *)
(***************************************************************************)
SnapshotsContiguous ==
    hit \subseteq {"upload_gap", "copy_fail", "query_raise"} =>
        \A t \in Trials : \A c \in snapshots[t] : 0..c \subseteq snapshots[t]

(***************************************************************************)
(* The measurement directory of a trial has one user: no two workers       *)
(* measure the same trial unless a save failed or a put came late.         *)
(***************************************************************************)
OneWorkerPerTrial ==
    hit \intersect {"commit_fail", "late_put"} = {} =>
        \A job \in abandoned : job[1] \notin DOMAIN jobs

(***************************************************************************)
(* Once all trials have ended and some runner has saved something, the     *)
(* measurer stops, unless a save fails or a put comes late: the strays     *)
(* these leave can make every later save fail.                             *)
(***************************************************************************)
MeasurerEnds ==
    [](AllTrialsEnded /\ FoldersExist =>
        <>(pc = "done" \/ hit \intersect {"commit_fail", "late_put"} # {}))
=============================================================================
