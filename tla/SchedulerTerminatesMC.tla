------------------------ MODULE SchedulerTerminatesMC ------------------------
(***************************************************************************)
(* Two instances of Scheduler for TLC, one of them in a behaviour: a       *)
(* preemptible experiment in the cloud, with the constants of the cfg, and *)
(* a local one with three trials on two cpusets.                           *)
(***************************************************************************)
EXTENDS SchedulerMC

ASSUME LocalAssumption ==
    NoTrial \notin ThreeInitial /\ NoCpuset \notin TwoCpusets

VARIABLE isLocal

\* Scheduler and its theorems.
LocalScheduler ==
    INSTANCE SchedulerProofs
        WITH Trials <- ThreeInitial, InitialTrials <- ThreeInitial,
             Cpusets <- TwoCpusets, Local <- TRUE, Preemptible <- FALSE,
             MaxPreemptions <- 0, Faults <- {}

EitherInit ==
    /\ isLocal \in BOOLEAN
    /\ IF isLocal THEN LocalScheduler!Init ELSE Init

InCloud == ~isLocal /\ UNCHANGED isLocal
OnOneMachine == isLocal /\ UNCHANGED isLocal

EitherNext ==
    \/ InCloud /\ Next
    \/ OnOneMachine /\ LocalScheduler!Next

\* The fairness of Scheduler, for the one that is run.
EitherSpec ==
    /\ EitherInit /\ [][EitherNext]_<<isLocal, vars>>
    /\ WF_<<isLocal, vars>>(\/ InCloud /\ Iteration
                            \/ OnOneMachine /\ LocalScheduler!Iteration)
    /\ WF_<<isLocal, vars>>(\/ InCloud /\ Tick
                            \/ OnOneMachine /\ LocalScheduler!Tick)
    /\ \A t \in Trials \union ThreeInitial :
         /\ WF_<<isLocal, vars>>(\/ InCloud /\ Worker(t)
                                 \/ OnOneMachine /\ LocalScheduler!Worker(t))
         /\ SF_<<isLocal, vars>>(InCloud /\ InstanceCreated(t))

-----------------------------------------------------------------------------
\* Between iterations core_allocation of the local experiment is exact.
LocalCoresFollowRunningTrials ==
    isLocal => LocalScheduler!CoresFollowRunningTrials

\* A local trial has one container at a time.
LocalTrialsHaveOneContainer ==
    isLocal => LocalScheduler!OneContainerPerTrial
=============================================================================
