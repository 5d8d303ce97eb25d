----------------------------- MODULE Scheduler -----------------------------
(***************************************************************************)
(* The scheduler of an experiment: src/experiment/scheduler.py with the    *)
(* session layer it writes through (src/database/utils.py) and the         *)
(* instances it drives (src/common/gcloud.py, src/common/gce.py).          *)
(*                                                                         *)
(* One thread runs schedule_loop.  An iteration ends the trials that ran   *)
(* out of time, creates an instance for every pending trial (on a pool of  *)
(* worker processes), and, in a preemptible experiment, marks and replaces *)
(* the trials whose instance the cloud took back.  Around it the clock     *)
(* advances, instances are preempted and calls to the cloud and to the     *)
(* database fail.                                                          *)
(*                                                                         *)
(* Rows are kept twice.  "sess" is what a query of the dispatcher process  *)
(* returns: SQLAlchemy flushes modified objects before each query, so it   *)
(* holds every assignment made to a trial object.  "db" is what is         *)
(* committed, the only thing the measurer's process can read.              *)
(***************************************************************************)
EXTENDS Naturals, FiniteSets, Functions

CONSTANTS
    Trials,          \* every trial id that may be given out
    InitialTrials,   \* the trials the dispatcher puts in the database
    Cpusets,         \* the keys of core_allocation; {} when it is None
    NoCpuset,        \* "None" as a cpuset or as the trial of a cpuset
    NoTrial,
    Local,           \* is_local_experiment()
    Preemptible,     \* experiment_config["preemptible_runners"]
    MaxTotalTime,    \* experiment_config["max_total_time"], in clock ticks
    GraceTime,       \* GRACE_TIME_SECONDS, in clock ticks
    MaxPreemptions,  \* bound on the preemptions the cloud makes
    Faults           \* the failures that can happen, a subset of AllFaults

(***************************************************************************)
(* What can go wrong around the scheduler:                                 *)
(*   create_fail   gcloud refuses an instance (no quota): retcode # 0      *)
(*   create_lost   the instance is made but gcloud reports a failure       *)
(*   create_raise  _start_trial raises in its worker process               *)
(*   delete_fail   a batch of deletions fails: delete_instances is False   *)
(*   delete_raise  listing the instances raises inside delete_instances    *)
(*   list_raise    listing preempted instances still raises after retries  *)
(*   query_fail    a query of the database raises                          *)
(*   commit_fail   session.commit raises: session_scope rolls back         *)
(***************************************************************************)
AllFaults == {"create_fail", "create_lost", "create_raise", "delete_fail",
              "delete_raise", "list_raise", "query_fail", "commit_fail"}

ASSUME TrialsAssumption ==
    /\ IsFiniteSet(Trials)
    /\ InitialTrials \subseteq Trials
    /\ NoTrial \notin Trials

ASSUME ConfigAssumption ==
    /\ NoCpuset \notin Cpusets
    /\ IsFiniteSet(Cpusets)
    /\ Cpusets # {} => Local
    /\ Local \in BOOLEAN
    /\ Preemptible \in BOOLEAN
    /\ MaxTotalTime \in Nat
    /\ GraceTime \in Nat \ {0}
    /\ MaxPreemptions \in Nat
    /\ Faults \subseteq AllFaults

VARIABLES
    pc,              \* where schedule_loop is
    sess,            \* the trial rows the session sees
    db,              \* the trial rows committed to the database
    age,             \* time since a trial's time_started, up to AgeLimit
    inst,            \* the cloud's instance (or local container) of a trial
    cores,           \* core_allocation
    handlePreempted, \* handle_preempted
    known,           \* TrialInstanceManager.preempted_trials
    omits,           \* TrialInstanceManager.num_preemptible_omits
    jobs,            \* the calls of _start_trial in the current starmap
    doomed,          \* trials whose instances are about to be deleted
    replacing,       \* replacements made but not saved: trial -> preemptible
    preemptions      \* how often the cloud preempted an instance so far

vars == <<pc, sess, db, age, inst, cores, handlePreempted, known, omits, jobs,
          doomed, replacing, preemptions>>

-----------------------------------------------------------------------------
(***************************************************************************)
(* Rows.  The slot of a row stands for what replace_trial copies (fuzzer,  *)
(* benchmark): it is the initial trial the row stands in for.              *)
(***************************************************************************)
Row == [slot : InitialTrials, preemptible : BOOLEAN, started : BOOLEAN,
        ended : BOOLEAN, preempted : BOOLEAN]

NewRow(slot, preemptible) ==
    [slot |-> slot, preemptible |-> preemptible, started |-> FALSE,
     ended |-> FALSE, preempted |-> FALSE]

NonpreemptedTrials(rows) == {t \in DOMAIN rows : ~rows[t].preempted}

PendingTrials(rows) == {t \in NonpreemptedTrials(rows) : ~rows[t].started}

\* Mutant of RunningTrials: the ended ones too.
RunningTrials_EndedToo(rows) == {t \in NonpreemptedTrials(rows) : rows[t].started}

RunningTrials(rows) ==
    {t \in NonpreemptedTrials(rows) : rows[t].started /\ ~rows[t].ended}

ExpiredTrials(rows) ==
    {t \in RunningTrials(rows) : age[t] >= MaxTotalTime + GraceTime}

\* Mutant of AllTrialsEnded: none is running.
AllTrialsEnded_NoneRuns(rows) == RunningTrials(rows) = {}

AllTrialsEnded(rows) == \A t \in DOMAIN rows : rows[t].ended

NonpreemptibleStarts(rows) ==
    Cardinality({t \in DOMAIN rows : rows[t].started /\ ~rows[t].preemptible})

\* An age beyond this makes no difference to any comparison with the clock.
AgeLimit == MaxTotalTime + GraceTime

\* ceil(num_trials / 10), at most 500.
MaxNonpreemptibles ==
    LET tenth == (Cardinality(InitialTrials) + 9) \div 10
    IN  IF tenth < 500 THEN tenth ELSE 500

\* How many more nonpreemptibles can_start_nonpreemptible lets through.
NonpreemptiblesLeft(rows) ==
    LET starts == NonpreemptibleStarts(rows)
    IN  IF starts < MaxNonpreemptibles THEN MaxNonpreemptibles - starts ELSE 0

\* now > the last time_started of an initial trial + the window, which is
\* max_total_time long and does not begin before all of them are started.
PreemptibleWindowPassed(rows) ==
    \A t \in InitialTrials : rows[t].started /\ age[t] > MaxTotalTime

\* The rows with the trials of S changed: time_started or time_ended is set,
\* or time_ended and preempted are.
\* Mutant of WithStarted: nothing is marked.
WithStarted_Not(rows, S) == rows

WithStarted(rows, S) ==
    [t \in DOMAIN rows |-> IF t \in S THEN [rows[t] EXCEPT !.started = TRUE]
                          ELSE rows[t]]

WithEnded(rows, S) ==
    [t \in DOMAIN rows |-> IF t \in S THEN [rows[t] EXCEPT !.ended = TRUE]
                          ELSE rows[t]]

WithPreempted(rows, S) ==
    [t \in DOMAIN rows |->
        IF t \in S THEN [rows[t] EXCEPT !.ended = TRUE, !.preempted = TRUE]
        ELSE rows[t]]

Min2(a, b) == IF a < b THEN a ELSE b

Commit(rows) == sess' = rows /\ db' = rows

\* session_scope rolls back and raises; the loop catches the exception.
CommitFails ==
    /\ "commit_fail" \in Faults
    /\ sess' = db
    /\ db' = db
    /\ pc' = "test"

\* Mutant of Deleted: no instance matches the names.
Deleted_None(S) == inst

\* The instances of S no longer exist.
Deleted(S) == [t \in Trials |-> IF t \in S THEN "none" ELSE inst[t]]

-----------------------------------------------------------------------------
Init ==
    /\ pc = "test"
    /\ sess = [t \in InitialTrials |-> NewRow(t, Preemptible)]
    /\ db = sess
    /\ age = [t \in Trials |-> 0]
    /\ inst = [t \in Trials |-> "none"]
    /\ cores = [c \in Cpusets |-> NoTrial]
    /\ handlePreempted = FALSE
    /\ known = {}
    /\ omits = 0
    /\ jobs = [t \in {} |-> NoCpuset]
    /\ doomed = {}
    /\ replacing = [t \in {} |-> FALSE]
    /\ preemptions = 0

\* while not all_trials_ended(experiment): it catches only RuntimeError, and
\* no try is around it, so an error of the database ends the thread.
LoopTest ==
    /\ pc = "test"
    /\ \/ pc' = IF AllTrialsEnded(sess) THEN "finished" ELSE "schedule"
       \/ "query_fail" \in Faults /\ pc' = "dead"
    /\ UNCHANGED <<sess, db, age, inst, cores, handlePreempted, known, omits,
                   jobs, doomed, replacing, preemptions>>

\* Mutant of StartedInitialTrials: it does not ask for pending trials.
StartedInitialTrials_Always == ~Local

\* The condition under which schedule_loop sets handle_preempted.
StartedInitialTrials == ~Local /\ PendingTrials(sess) = {}

\* Mutant of CoresFreed: they are not.
CoresFreed_None(expired) == cores

\* core_allocation[trial_core] = None for the trials that ended.
CoresFreed(expired) ==
    [c \in Cpusets |-> IF cores[c] \in expired THEN NoTrial ELSE cores[c]]

\* The head of the loop's body, then schedule up to the call of
\* delete_instances (cloud) or bulk_save (local) in end_expired_trials.  The
\* assignment to time_ended reaches the session, whatever happens next.
EndExpiredTrials ==
    /\ pc = "schedule"
    /\ handlePreempted' = (handlePreempted \/ StartedInitialTrials)
    /\ LET expired == ExpiredTrials(sess)
       IN  /\ doomed' = expired
           /\ sess' = WithEnded(sess, expired)
           /\ cores' = CoresFreed(expired)
           /\ pc' = IF expired = {} THEN "start"
                    ELSE IF Local THEN "save_expired" ELSE "delete_expired"
    /\ UNCHANGED <<db, age, inst, known, omits, jobs, replacing, preemptions>>

\* delete_instances(expired_instances): if it is False the rows are not
\* saved, if it raises the rest of the iteration is skipped.
DeleteExpired ==
    /\ pc = "delete_expired"
    /\ \/ /\ inst' = Deleted(doomed)
          /\ pc' = "save_expired"
       \/ /\ "delete_fail" \in Faults
          /\ \E S \in SUBSET doomed : inst' = Deleted(S)
          /\ pc' = "start"
       \/ /\ "delete_raise" \in Faults
          /\ inst' = inst
          /\ pc' = "test"
    /\ doomed' = {}
    /\ UNCHANGED <<sess, db, age, cores, handlePreempted, known, omits, jobs,
                   replacing, preemptions>>

\* db_utils.bulk_save(trials_past_expiry)
SaveExpired ==
    /\ pc = "save_expired"
    /\ doomed' = {}
    /\ \/ Commit(sess) /\ pc' = "start"
       \/ CommitFails
    /\ UNCHANGED <<age, inst, cores, handlePreempted, known, omits, jobs,
                   replacing, preemptions>>

FreeCpusets == {c \in Cpusets : cores[c] = NoTrial}

\* The ways to hand the shuffled pending trials to _start_trial: each a
\* cpuset of its own, as many as are free; without core_allocation, all.
StartBatches ==
    LET pending == PendingTrials(sess)
        number == Min2(Cardinality(pending), Cardinality(FreeCpusets))
    IN  IF Cpusets = {} THEN {[t \in pending |-> NoCpuset]}
        ELSE UNION {Injection(S, FreeCpusets) :
                     S \in {R \in SUBSET pending : Cardinality(R) = number}}

\* start_trials up to pool.starmap.
StartTrials ==
    /\ pc = "start"
    /\ \E batch \in StartBatches :
         jobs' = [t \in DOMAIN batch |->
                    [cpuset |-> batch[t], state |-> "queued"]]
    /\ pc' = "creating"
    /\ UNCHANGED <<sess, db, age, inst, cores, handlePreempted, known, omits,
                   doomed, replacing, preemptions>>

JobEnds(t, outcome) ==
    /\ pc = "creating"
    /\ t \in DOMAIN jobs
    /\ jobs[t].state = "queued"
    /\ jobs' = [jobs EXCEPT ![t].state = outcome]
    /\ UNCHANGED <<pc, sess, db, cores, handlePreempted, known, omits, doomed,
                   replacing, preemptions>>

InstanceAppears(t) ==
    /\ Local \/ inst[t] = "none"
    /\ inst' = [inst EXCEPT ![t] = "running"]

\* _start_trial returns the proxy.  The cloud has no two instances of one
\* name; a local "instance" is a script started in the background.
InstanceCreated(t) ==
    /\ JobEnds(t, "started")
    /\ InstanceAppears(t)
    /\ age' = [age EXCEPT ![t] = 0]

\* _start_trial returns None.
InstanceNotCreated(t) ==
    /\ JobEnds(t, "failed")
    /\ ~Local
    /\ \/ ("create_fail" \in Faults \/ inst[t] # "none") /\ inst' = inst
       \/ "create_lost" \in Faults /\ InstanceAppears(t)
    /\ age' = age

\* _start_trial raises, or is not called because one before it in its chunk
\* of the starmap raised.
StartRaises(t) ==
    /\ JobEnds(t, "raised")
    /\ "create_raise" \in Faults
    /\ UNCHANGED <<age, inst>>

StartedJobs == {t \in DOMAIN jobs : jobs[t].state = "started"}

\* starmap returns when every call has; update_started_trials saves those
\* that were started.  One call that raised makes starmap raise.
UpdateStartedTrials ==
    /\ pc = "creating"
    /\ \A t \in DOMAIN jobs : jobs[t].state # "queued"
    /\ jobs' = [t \in {} |-> NoCpuset]
    /\ IF \E t \in DOMAIN jobs : jobs[t].state = "raised"
       THEN pc' = "test" /\ UNCHANGED <<sess, db, cores>>
       ELSE /\ cores' = [c \in Cpusets |->
                 IF \E t \in StartedJobs : jobs[t].cpuset = c
                 THEN CHOOSE t \in StartedJobs : jobs[t].cpuset = c
                 ELSE cores[c]]
            /\ \/ /\ IF StartedJobs = {} THEN UNCHANGED <<sess, db>>
                     ELSE Commit(WithStarted(sess, StartedJobs))
                  /\ pc' = IF handlePreempted /\ Preemptible
                           THEN "preempted" ELSE "test"
               \/ StartedJobs # {} /\ CommitFails
    /\ UNCHANGED <<age, inst, handlePreempted, known, omits, doomed,
                   replacing, preemptions>>

-----------------------------------------------------------------------------
\* The ways to replace the preempted trials: all by preemptibles while the
\* window is open, else by nonpreemptibles as far as their number allows (in
\* the order in which the cloud lists the instances), the rest not at all.
Replacements(rows, preempted) ==
    IF ~PreemptibleWindowPassed(rows)
    THEN {[t \in preempted |-> TRUE]}
    ELSE LET number == Min2(NonpreemptiblesLeft(rows), Cardinality(preempted))
         IN  {[t \in R |-> FALSE] :
               R \in {R \in SUBSET preempted : Cardinality(R) = number}}

\* The running trials whose instance is preempted, less those known.
NewlyPreempted ==
    {t \in RunningTrials(sess) : inst[t] = "preempted" /\ t \notin known}

\* handle_preempted_trials up to the call of delete_instances.
GetPreemptedTrials ==
    /\ pc = "preempted"
    /\ known' = known \union NewlyPreempted
    /\ \E choice \in Replacements(sess, NewlyPreempted) :
         /\ replacing' = choice
         /\ omits' = omits + Cardinality(NewlyPreempted \ DOMAIN choice)
    /\ doomed' = NewlyPreempted
    /\ sess' = WithPreempted(sess, NewlyPreempted)
    /\ pc' = IF NewlyPreempted = {} THEN "test" ELSE "delete_preempted"
    /\ UNCHANGED <<db, age, inst, cores, handlePreempted, jobs, preemptions>>

\* A query of the iteration raises, or _get_preempted_instances_with_retries
\* has run out of retries: the loop goes on with its next iteration.
QueryRaises ==
    /\ \/ /\ pc \in {"schedule", "start", "preempted"}
          /\ "query_fail" \in Faults
       \/ pc = "preempted" /\ "list_raise" \in Faults
    /\ pc' = "test"
    /\ UNCHANGED <<sess, db, age, inst, cores, handlePreempted, known, omits,
                   jobs, doomed, replacing, preemptions>>

\* A query raises after get_preempted_trials took note of the preempted
\* trials, at the latest when the first of them is marked and the initial
\* trials are read again for the window.
HandlingRaises ==
    /\ pc = "preempted"
    /\ "query_fail" \in Faults
    /\ known' = known \union NewlyPreempted
    /\ \E S \in SUBSET NewlyPreempted :
         Cardinality(S) <= 1 /\ sess' = WithPreempted(sess, S)
    /\ pc' = "test"
    /\ UNCHANGED <<db, age, inst, cores, handlePreempted, omits, jobs, doomed,
                   replacing, preemptions>>

\* delete_instances: False is only logged; an exception loses the
\* replacements, which only this call of handle_preempted_trials holds.
DeletePreempted ==
    /\ pc = "delete_preempted"
    /\ doomed' = {}
    /\ \/ /\ inst' = Deleted(doomed)
          /\ pc' = "save_preempted"
          /\ replacing' = replacing
       \/ /\ "delete_fail" \in Faults
          /\ \E S \in SUBSET doomed : inst' = Deleted(S)
          /\ pc' = "save_preempted"
          /\ replacing' = replacing
       \/ /\ "delete_raise" \in Faults
          /\ inst' = inst
          /\ pc' = "test"
          /\ replacing' = [t \in {} |-> FALSE]
    /\ UNCHANGED <<sess, db, age, cores, handlePreempted, known, omits, jobs,
                   preemptions>>

\* Mutant of WithReplacements: the new rows are not saved.
WithReplacements_Dropped(rows, newId) == rows

\* The rows with a new row for every trial of DOMAIN newId, which takes the
\* slot of the trial it replaces.
WithReplacements(rows, newId) ==
    [u \in DOMAIN rows \union Range(newId) |->
        IF u \in DOMAIN rows THEN rows[u]
        ELSE LET t == CHOOSE s \in DOMAIN newId : newId[s] = u
             IN  NewRow(rows[t].slot, replacing[t])]

\* db_utils.add_all(preempted_trials + replacements)
SavePreempted ==
    /\ pc = "save_preempted"
    /\ replacing' = [t \in {} |-> FALSE]
    /\ \/ /\ \E newId \in Injection(DOMAIN replacing, Trials \ DOMAIN sess) :
               Commit(WithReplacements(sess, newId))
          /\ pc' = "test"
       \/ CommitFails
    /\ UNCHANGED <<age, inst, cores, handlePreempted, known, omits, jobs,
                   doomed, preemptions>>

-----------------------------------------------------------------------------
(***************************************************************************)
(* Around the scheduler.                                                   *)
(***************************************************************************)
Tick ==
    /\ age' = [t \in Trials |->
                IF /\ age[t] < AgeLimit
                   /\ \/ inst[t] # "none"
                      \/ t \in DOMAIN sess /\ sess[t].started
                THEN age[t] + 1 ELSE age[t]]
    /\ UNCHANGED <<pc, sess, db, inst, cores, handlePreempted, known, omits,
                   jobs, doomed, replacing, preemptions>>

\* The cloud takes a preemptible instance back: its status is TERMINATED.
PreemptInstance(t) ==
    /\ preemptions < MaxPreemptions
    /\ ~Local
    /\ inst[t] = "running"
    /\ sess[t].preemptible
    /\ inst' = [inst EXCEPT ![t] = "preempted"]
    /\ preemptions' = preemptions + 1
    /\ UNCHANGED <<pc, sess, db, age, cores, handlePreempted, known, omits,
                   jobs, doomed, replacing>>

\* A local runner container exits some time after its max_total_time; a
\* cloud instance outlives its container.
ContainerExits(t) ==
    /\ Local
    /\ inst[t] = "running"
    /\ age[t] >= MaxTotalTime
    /\ inst' = [inst EXCEPT ![t] = "none"]
    /\ UNCHANGED <<pc, sess, db, age, cores, handlePreempted, known, omits,
                   jobs, doomed, replacing, preemptions>>

Iteration ==
    \/ LoopTest
    \/ EndExpiredTrials
    \/ DeleteExpired
    \/ SaveExpired
    \/ StartTrials
    \/ UpdateStartedTrials
    \/ GetPreemptedTrials
    \/ QueryRaises
    \/ HandlingRaises
    \/ DeletePreempted
    \/ SavePreempted

Worker(t) ==
    \/ InstanceCreated(t)
    \/ InstanceNotCreated(t)
    \/ StartRaises(t)

World ==
    \/ Tick
    \/ \E t \in DOMAIN sess : PreemptInstance(t) \/ ContainerExits(t)

Next == Iteration \/ World \/ \E t \in DOMAIN jobs : Worker(t)

Spec == Init /\ [][Next]_vars

(***************************************************************************)
(* The thread and the pool's workers run, time passes, and an instance     *)
(* that is asked for again and again is created in the end.                *)
(***************************************************************************)
Fairness ==
    /\ WF_vars(Iteration)
    /\ WF_vars(Tick)
    /\ \A t \in Trials : WF_vars(Worker(t)) /\ SF_vars(InstanceCreated(t))

FairSpec == Spec /\ Fairness

-----------------------------------------------------------------------------
(***************************************************************************)
(* Properties.                                                             *)
(***************************************************************************)
TypeOK ==
    /\ pc \in {"test", "schedule", "delete_expired", "save_expired", "start",
               "creating", "preempted", "delete_preempted", "save_preempted",
               "finished", "dead"}
    /\ DOMAIN sess \subseteq Trials
    /\ sess \in [DOMAIN sess -> Row]
    /\ DOMAIN db = DOMAIN sess
    /\ db \in [DOMAIN sess -> Row]
    /\ InitialTrials \subseteq DOMAIN sess
    /\ age \in [Trials -> 0..AgeLimit]
    /\ inst \in [Trials -> {"none", "running", "preempted"}]
    /\ cores \in [Cpusets -> Trials \union {NoTrial}]
    /\ handlePreempted \in BOOLEAN
    /\ known \subseteq DOMAIN sess
    /\ omits \in Nat
    /\ DOMAIN jobs \subseteq DOMAIN sess
    /\ jobs \in [DOMAIN jobs ->
                  [cpuset : Cpusets \union {NoCpuset},
                   state : {"queued", "started", "failed", "raised"}]]
    /\ doomed \subseteq DOMAIN sess
    /\ DOMAIN replacing \subseteq DOMAIN sess
    /\ replacing \in [DOMAIN replacing -> BOOLEAN]
    /\ preemptions \in 0..MaxPreemptions

\* At no time do two committed trials that were not preempted stand for the
\* same slot: a preempted trial is replaced once, however often its instance
\* shows up as preempted and whatever is rolled back in between
\* (get_preempted_trials' bookkeeping, add_all of both in one transaction).
OneLiveTrialPerSlot ==
    \A t, u \in NonpreemptedTrials(db) : db[t].slot = db[u].slot => t = u

\* "Only start handling preempted instances once every initial trial was
\* started" (schedule_loop): no row says preempted before that.
HandlingWaitsForInitialTrials ==
    (\E t \in DOMAIN db : db[t].preempted) =>
        \A i \in InitialTrials : db[i].started

\* What the session may hold that is not committed: an end, as expired or as
\* preempted, of a trial that the database shows as running.
AheadOf(new, old) ==
    \/ new = old
    \/ /\ old.started /\ ~old.ended /\ ~old.preempted
       /\ \/ new = [old EXCEPT !.ended = TRUE]
          \/ new = [old EXCEPT !.ended = TRUE, !.preempted = TRUE]

SessionIsAhead == \A t \in DOMAIN db : AheadOf(sess[t], db[t])

EndsInOrder(rows) ==
    \A t \in DOMAIN rows :
        /\ rows[t].preempted => rows[t].ended
        /\ rows[t].ended => rows[t].started

JobsArePending == \A t \in DOMAIN jobs : ~sess[t].started

\* What handle_preempted_trials has in hand: replacements only for trials
\* that it has just marked and that are still running in the database.
ReplacementsInHand ==
    /\ DOMAIN replacing # {} => pc \in {"delete_preempted", "save_preempted"}
    /\ \A t \in DOMAIN replacing : sess[t].preempted /\ ~db[t].ended

HandlingBegins ==
    /\ pc \in {"preempted", "delete_preempted", "save_preempted"} =>
          handlePreempted
    /\ (\E t \in DOMAIN sess : sess[t].preempted) => handlePreempted
    /\ handlePreempted => \A i \in InitialTrials : sess[i].started

\* The inductive invariant behind the two properties above.  Its heart: an
\* uncommitted change is only ever the end of a trial that was running, and
\* a starmap only has trials that are pending.
SchedulerInvariant ==
    /\ TypeOK
    /\ SessionIsAhead
    /\ EndsInOrder(sess)
    /\ EndsInOrder(db)
    /\ JobsArePending
    /\ ReplacementsInHand
    /\ HandlingBegins
    /\ OneLiveTrialPerSlot

\* "Hard limit on the number of nonpreemptibles we will use"
\* (TrialInstanceManager): a preemptible experiment never has more started
\* nonpreemptible trials than that.
NonpreemptiblesBounded ==
    Preemptible =>
        Cardinality({t \in DOMAIN db : db[t].started /\ ~db[t].preemptible})
            <= MaxNonpreemptibles

\* A slot that is left without a trial that counts was given up on purpose,
\* to cap the cost, and counted in num_preemptible_omits.
SlotsLostOnlyByOmission ==
    Cardinality({s \in InitialTrials :
        \A t \in NonpreemptedTrials(db) : db[t].slot # s}) <= omits

\* A trial that the database shows as run to its end has no instance that
\* still runs (end_expired_trials saves the rows after the deletion).
EndedTrialsAreDeleted ==
    \A t \in NonpreemptedTrials(db) :
        db[t].ended /\ ~Local => inst[t] # "running"

\* The scheduler stops after all trials finished, and what it leaves in the
\* database, which the measurer reads, says so.
FinishedMeansEnded ==
    pc = "finished" => \A t \in DOMAIN db : db[t].ended

\* Between iterations core_allocation is exact: every running trial has one
\* cpuset and every cpuset that is taken is taken by a running trial.
CoresFollowRunningTrials ==
    Cpusets # {} /\ pc = "test" =>
        /\ \A c \in Cpusets : cores[c] # NoTrial => cores[c] \in RunningTrials(sess)
        /\ \A t \in RunningTrials(sess) : \E c \in Cpusets :
              cores[c] = t /\ \A d \in Cpusets : cores[d] = t => d = c

\* No trial is started while a container of that trial is running: two
\* runners of one trial would write to one filestore directory.
OneContainerPerTrial ==
    \A t \in DOMAIN jobs : jobs[t].state = "queued" /\ Local => inst[t] = "none"

\* "Experiments are guaranteed to terminate" (handle_preempted_trials): the
\* scheduler's loop comes to its end.
Terminates == <>(pc = "finished")
=============================================================================
