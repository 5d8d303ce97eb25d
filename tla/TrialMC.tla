------------------------------- MODULE TrialMC -------------------------------
(***************************************************************************)
(* An instance for TLC of what becomes of a trial: its runner (Runner),    *)
(* the measurer of the experiment (Measurer) and a worker that measures    *)
(* one trial (TrialMeasurement).  In a behaviour one of them takes steps,  *)
(* "part", and the others rest where they begin.                           *)
(***************************************************************************)
EXTENDS Runner, TLC

CONSTANTS
    Trials, InitialTrials, Preemptible, BatchSize, Faults, MaxFaults,
    Units, Edges, NoCrash, CrashKey, MeasureFaults, MaxMeasureFaults,
    LastCycle,                 \* MaxCycle of Measurer and TrialMeasurement
    seed, f1, f2, main, i1, r1, u1, u2

VARIABLES
    part,
    rows, runnerCycle, archives, snapshots, loop, allEnded, jobs, abandoned,
    uncopied, queue, batch, saved, hit,
    cycleArchives, is_bug, measured, step, corpus_dir, crashes_dir, profraw,
    profdata, summary, crashes, trialSnapshots, faulted, merged, kept

\* Measurer and TrialMeasurement, with their theorems.
M == INSTANCE MeasurerProofs WITH pc <- loop, MaxCycle <- LastCycle
T == INSTANCE TrialMeasurementProofs
         WITH archives <- cycleArchives, cycle <- measured,
              snapshots <- trialSnapshots, failed <- faulted,
              MaxCycle <- LastCycle

ASSUME TrialAssumption == M!MeasurerAssumption /\ T!MeasurementAssumption

-----------------------------------------------------------------------------
\* A corpus of one directory with a seed and two more files.
ThreeFiles == {seed, f1, f2}
OneSeed == {seed}
OneDir == {main}
AllInOne == [f \in ThreeFiles |-> main]

\* A trial and its replacement.
OneInitial == {i1}
OneWithReplacement == {i1, r1}

\* Two units, of which the second covers more and crashes.
TwoUnits == {u1, u2}
TwoEdges == (u1 :> {1}) @@ (u2 :> {1, 2})
OneCrash == (u1 :> NoCrash) @@ (u2 :> "key")

-----------------------------------------------------------------------------
Parts == {"runner", "measurer", "measurement"}

loops == <<rows, runnerCycle, archives, snapshots, loop, allEnded, jobs,
           abandoned, uncopied, queue, batch, saved, hit>>
measurement == <<cycleArchives, is_bug, measured, step, corpus_dir,
                 crashes_dir, profraw, profdata, summary, crashes,
                 trialSnapshots, faulted, merged, kept>>

PartInit ==
    /\ part \in Parts
    /\ IF part = "measurement" THEN TRUE
       ELSE cycleArchives = [c \in {0} |-> {}] /\ is_bug = FALSE
    /\ Init /\ M!Init /\ T!Init

RunnerOnly == part = "runner" /\ UNCHANGED <<part, loops, measurement>>
MeasurerOnly == part = "measurer" /\ UNCHANGED <<part, vars, measurement>>
MeasurementOnly == part = "measurement" /\ UNCHANGED <<part, vars, loops>>

PartNext ==
    \/ RunnerOnly /\ Next
    \/ MeasurerOnly /\ M!Next
    \/ MeasurementOnly /\ T!Next

\* The fairness of the part that takes steps.
PartSpec ==
    /\ PartInit /\ [][PartNext]_<<part, vars, loops, measurement>>
    /\ WF_<<part, vars, loops, measurement>>(
          (RunnerOnly /\ Main) \/ (MeasurerOnly /\ M!Loop))
    /\ WF_<<part, vars, loops, measurement>>(
          (RunnerOnly /\ FuzzExits) \/ (MeasurerOnly /\ M!Abandoned))
    /\ \A t \in Trials :
          WF_<<part, vars, loops, measurement>>(MeasurerOnly /\ M!Worker(t))

-----------------------------------------------------------------------------
(***************************************************************************)
(* The runner of trial t beside the measurer.  What the measurer sees of   *)
(* this trial's archives is what its runner has saved, while the trial's   *)
(* instance is there; the other trials are as in Measurer.                 *)
(***************************************************************************)
GivesUp == Synced' # Synced /\ DOMAIN bucket' = DOMAIN bucket

RunnerMoves(t) ==
    /\ t \in DOMAIN rows
    /\ rows[t].status \in {"pending", "running"}
    /\ Next
    /\ runnerCycle' = [runnerCycle EXCEPT ![t] = Synced']
    /\ archives' = [archives EXCEPT ![t] = DOMAIN bucket']
    /\ IF GivesUp THEN M!Gap ELSE hit' = hit
    /\ UNCHANGED <<rows, snapshots, loop, allEnded, jobs, abandoned, uncopied,
                   queue, batch, saved>>

OthersMove(t) ==
    /\ M!Next
    /\ UNCHANGED <<vars, runnerCycle[t], archives[t]>>

JointSpec(t) ==
    Init /\ M!Init /\ [][RunnerMoves(t) \/ OthersMove(t)]_<<vars, loops>>

\* What the runner saved is measured when the measurer stops, unless the
\* trial was preempted, something failed for good, or the measurer's last call
\* could not copy an archive.
SavedIsMeasured(t) ==
    (/\ loop = "done" /\ hit \subseteq {"copy_fail", "query_raise"}
     /\ t \in DOMAIN rows \ uncopied /\ M!Counts(t)) =>
        DOMAIN bucket \subseteq snapshots[t]

-----------------------------------------------------------------------------
\* The variables of the runner, the measurer and a worker have their types.
TypesOK == TypeOK /\ M!TypeOK /\ T!TypeOK

\* The runner's trial ends although every upload may fail, and the measurer
\* stops when the trials have ended.  (RunnerEnds and MeasurerEnds of the two
\* modules in one.)
TrialsComeToAnEnd ==
    /\ part = "runner" => RunnerEnds
    /\ part = "measurer" => M!MeasurerEnds

\* What the measurer has to measure is measured when it stops, unless a copy
\* failed in its last call.
MeasuredWhenDone == M!MeasuredWhenDone

\* The snapshots of a trial have no holes.
SnapshotsContiguous == M!SnapshotsContiguous

\* No two workers measure one trial.
OneWorkerPerTrial == M!OneWorkerPerTrial

\* The coverage of a snapshot is that of the archives up to its cycle, without
\* the cycles that failed.
CoverageIsOfArchives == T!CoverageIsOfArchives

\* The crashes of a snapshot are those of its cycle.
CrashesAreOfCycle == T!CrashesAreOfCycle
=============================================================================
