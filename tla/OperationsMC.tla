---------------------------- MODULE OperationsMC ----------------------------
(***************************************************************************)
(* An instance for TLC of the components around the trials: the builds of  *)
(* an experiment (Builder), the images of one build (Images), the life of  *)
(* experiments (Lifecycle) and a process (Processes).  In a behaviour one  *)
(* of them takes steps, "part", and the others rest where they begin.      *)
(***************************************************************************)
EXTENDS Builder, Sequences, TLC

CONSTANTS
    Requests, Ids, LongerNames, UserStarts, UserStops, MaxUserActs,
    BatchSize, Faults, MaxFailures, \* of Lifecycle
    Tools, Builds,                  \* of Images
    older, newer,                   \* experiments
    f1, f2, b1, b2                  \* fuzzers and benchmarks

VARIABLES
    part,
    starter, input, instances, pc, db, scheduler, measurer, report,
    listed, left, stopping, failures, hit,
    tool, build, state, tags, from, archive,
    options, process, reaped, child, timer, caller, timed_out

\* Lifecycle with its theorems.
L == INSTANCE LifecycleProofs
I == INSTANCE Images
P == INSTANCE Processes

ASSUME OperationsAssumption == L!LifecycleAssumption /\ I!ImagesAssumption

-----------------------------------------------------------------------------
\* Two requests; the runners of "newer" have the prefix of those of "older".
TwoRequests == <<newer, older>>
NewerIsLonger == (older :> {newer}) @@ (newer :> {})
OlderOnly == {older}
NewerOnly == {newer}

\* Three pairs: f1 does not know the language of b2.
TwoFuzzers == {f1, f2}
TwoBenchmarks == {b1, b2}
None == (f1 :> {}) @@ (f2 :> {})
NoFuzzers == (b1 :> {}) @@ (b2 :> {})
LanguagesOf == (f1 :> {"c++"}) @@ (f2 :> {"c++", "rust"})
LanguageOf == (b1 :> "c++") @@ (b2 :> "rust")

-----------------------------------------------------------------------------
Parts == {"builder", "images", "lifecycle", "processes"}

lifecycle == <<starter, input, instances, pc, db, scheduler, measurer, report,
               listed, left, stopping, failures, hit>>
oneBuild == <<tool, build, state, tags, from, archive>>
oneProcess == <<options, process, reaped, child, timer, caller, timed_out>>

allVars == <<part, vars, lifecycle, oneBuild, oneProcess>>

PartInit ==
    /\ part \in Parts
    /\ Init /\ L!Init /\ I!Init /\ P!Init
    /\ part # "images" => tool = "gcb" /\ build = "base"
    /\ part # "processes" => options = [o \in DOMAIN options |-> FALSE]

BuilderOnly ==
    part = "builder" /\ UNCHANGED <<part, lifecycle, oneBuild, oneProcess>>
ImagesOnly == part = "images" /\ UNCHANGED <<part, vars, lifecycle, oneProcess>>
LifecycleOnly ==
    part = "lifecycle" /\ UNCHANGED <<part, vars, oneBuild, oneProcess>>
ProcessOnly ==
    part = "processes" /\ UNCHANGED <<part, vars, lifecycle, oneBuild>>

PartNext ==
    \/ BuilderOnly /\ Next
    \/ ImagesOnly /\ I!Next
    \/ LifecycleOnly /\ L!Next
    \/ ProcessOnly /\ P!Next

\* The fairness of the part that takes steps.
PartSpec ==
    /\ PartInit /\ [][PartNext]_allVars
    /\ WF_allVars(\/ BuilderOnly /\ Next
                  \/ ImagesOnly /\ I!Next
                  \/ LifecycleOnly /\ L!Service
                  \/ ProcessOnly /\ P!Threads)
    /\ \A e \in {older, newer} : WF_allVars(LifecycleOnly /\ L!Dispatch(e))

\* The variables of every part have their types.
TypesOK == TypeOK /\ L!TypeOK /\ I!TypeOK /\ P!TypeOK

\* Every part gets where it should, with what can fail failing: the builds of
\* an experiment end, the images of a build are all built, every request is
\* run, and execute returns where it has a timeout and no pipe that is held
\* open.  (BuildsEnd, EverythingIsBuilt, EveryRequestRuns and ExecuteEnds of
\* the four modules in one.)
EveryPartGetsThere ==
    <>(/\ part = "builder" => IsOver
       /\ part = "images" => I!AllBuilt
       /\ part = "lifecycle" => L!AllWereRun
       /\ part = "processes" /\ P!MustEnd => P!IsOver)

\* A process that is over has left nothing behind that it started, unless it
\* ended by itself before the timer that kills its children.
NothingIsLeft == P!NothingIsLeft

\* A dispatcher finds its sources and its configuration in the filestore.
DispatcherFindsInput == L!DispatcherFindsInput

\* An experiment whose end is recorded is over and has its final report, if
\* output_report wrote it.
EndedIsReported == L!EndedIsReported

\* No runner goes on without the dispatcher of its experiment, if one command
\* was enough to stop it and did not fail.
NoOrphanRunners == L!NoOrphanRunners

\* An experiment that runs, by its row, has its dispatcher.
RunningHasDispatcher == L!RunningHasDispatcher

\* Images are built from, and coverage binaries archived of, the same build.
BuiltFromDependencies == I!BuiltFromDependencies
=============================================================================
