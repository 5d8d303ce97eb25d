-------------------------- MODULE LifecycleProofs --------------------------
(***************************************************************************)
(* Theorems about Lifecycle, for any requests, trials, users and faults.   *)
(***************************************************************************)
EXTENDS Lifecycle, TLAPS

(***************************************************************************)
(* The inductive invariant, one part for each property.                    *)
(***************************************************************************)
Labels == {"idle", "copy_source", "copy_config", "create"}

Types ==
    /\ starter \in [Starters -> [pc : Labels,
                                 experiment : Experiments \union {NoStarter}]]
    /\ \A s \in Starters :
         starter[s].pc # "idle" => starter[s].experiment \in Experiments
    /\ input \in [Experiments -> SUBSET {"source", "config"}]
    /\ instances \subseteq Names
    /\ pc \in [Experiments -> {"off", "boot", "register", "build", "loop",
                               "record", "stop", "delete", "raised"}]
    /\ db \in [Experiments -> {"none", "running", "ended"}]
    /\ scheduler \in [Experiments -> {"off", "alive", "ended", "died"}]
    /\ measurer \in [Experiments -> {"off", "alive", "ended", "died"}]
    /\ report \in [Experiments -> {"none", "in_progress", "final"}]
    /\ listed \in [Experiments -> SUBSET Names]
    /\ left \in [Experiments -> SUBSET Names]
    /\ \A e \in Experiments : left[e] \subseteq listed[e]
    /\ stopping \in [of : UserStops \union {NoStarter}, found : SUBSET Names]
    /\ stopping.found # {} => stopping.of \in Experiments
    /\ failures \in 0..MaxFailures
    /\ hit \subseteq Faults \X Experiments

\* A start copies in an order, and what was copied stays.
CopiedInOrder ==
    /\ \A s \in Starters :
         LET e == starter[s].experiment IN
         /\ starter[s].pc = "copy_config" => "source" \in input[e]
         /\ starter[s].pc = "create" => input[e] = {"source", "config"}
    /\ DispatcherFindsInput

\* The row of an experiment says how far its dispatcher came; the loops do not
\* begin again once they ended.
RowFollowsDispatcher ==
    /\ \A e \in Experiments :
         /\ pc[e] = "register" => db[e] = "none"
         /\ pc[e] \in {"build", "loop", "record"} => db[e] = "running"
         /\ pc[e] \in {"stop", "delete"} => db[e] = "ended"
         /\ pc[e] = "record" =>
              /\ IsComplete(e)
              /\ report[e] = "final" \/ <<"report_fail", e>> \in hit
    /\ EndedIsReported

\* Only its own dispatcher is among what is stopped with an experiment.
FoundByName ==
    /\ \A e \in Experiments :
         Dispatcher(e) \in stopping.found => e = stopping.of
    /\ \A e, x \in Experiments : Dispatcher(x) \in listed[e] => x = e

\* A dispatcher that stops itself has everything before it, if nothing failed.
StopIsWhole ==
    \A e \in Experiments : pc[e] = "delete" =>
        \/ <<"delete_fail", e>> \in hit
        \/ /\ left[e] = listed[e]
           /\ RunnersOf(e) \subseteq listed[e]
           /\ Dispatcher(e) \in listed[e]

\* Dispatchers and their loops run on instances.
RunsOnInstances ==
    /\ \A e \in Experiments :
         /\ pc[e] # "off" => Dispatcher(e) \in instances
         /\ IsAlive(scheduler[e]) => pc[e] # "off"
    /\ FoundByName
    /\ StopIsWhole
    /\ NoOrphanRunners
    /\ RunningHasDispatcher

LifecycleInvariant ==
    /\ Types
    /\ CopiedInOrder
    /\ RowFollowsDispatcher
    /\ RunsOnInstances

-----------------------------------------------------------------------------
(***************************************************************************)
(* Instances have different names.                                         *)
(***************************************************************************)
LEMMA NamesDiffer ==
    /\ \A e, x, i : Dispatcher(e) # Runner(x, i)
    /\ \A e, x : Dispatcher(e) = Dispatcher(x) => e = x
    /\ \A e, x, i, j : Runner(e, i) = Runner(x, j) => e = x /\ i = j
BY DEF Dispatcher, Runner

\* The runners of e are instances with such names.
LEMMA RunnersHaveNames ==
    ASSUME NEW e, NEW x
    PROVE  /\ x \in RunnersOf(e) <=>
                x \in instances /\ \E i \in Ids : x = Runner(e, i)
           /\ x \in RunnersOf(e)' <=>
                x \in instances' /\ \E i \in Ids : x = Runner(e, i)
BY DEF RunnersOf

\* stop_experiment takes the dispatcher, its runners, and those whose names
\* begin in the same way.
LEMMA FoundInstances ==
    ASSUME NEW e
    PROVE  /\ ExperimentInstances(e) \subseteq instances
           /\ \A x : Dispatcher(x) \in ExperimentInstances(e) => x = e
           /\ Dispatcher(e) \in instances =>
                Dispatcher(e) \in ExperimentInstances(e)
           /\ \A i \in Ids : Runner(e, i) \in instances =>
                Runner(e, i) \in ExperimentInstances(e)
<1> USE NamesDiffer
<1>1. \A y : y \in ExperimentInstances(e) <=>
        /\ y \in instances
        /\ \/ y = Dispatcher(e)
           \/ \E x \in {e} \union LongerNames[e], i \in Ids : y = Runner(x, i)
  BY DEF ExperimentInstances, RunnersOf
<1> QED BY <1>1

\* One more failure at the most, of the kind and the experiment it struck.
LEMMA StrikeCounts ==
    ASSUME LifecycleAssumption, Types, NEW e \in Experiments, NEW fault,
           Strike(fault, e)
    PROVE  /\ failures' \in 0..MaxFailures
           /\ hit' \subseteq Faults \X Experiments
           /\ <<fault, e>> \in hit' /\ hit \subseteq hit'
<1>1. CASE hit' = hit \union {<<fault, e>>} /\ failures' = failures + 1
           /\ failures < MaxFailures
  BY <1>1 DEF Strike, Types, LifecycleAssumption
<1>2. CASE <<fault, e>> \in hit /\ UNCHANGED faults
  BY <1>2 DEF Types, faults
<1> QED BY <1>1, <1>2 DEF Strike

\* A command deletes its batch, or a part of it and has failed.
LEMMA CommandDeletes ==
    ASSUME LifecycleAssumption, Types, NEW e \in Experiments, NEW batch,
           DeletesBatch(e, batch)
    PROVE  /\ failures' \in 0..MaxFailures
           /\ hit' \subseteq Faults \X Experiments /\ hit \subseteq hit'
           /\ \E gone \in SUBSET batch :
                /\ Deletes(gone)
                /\ gone = batch \/ <<"delete_fail", e>> \in hit'
<1>1. CASE Deletes(batch) /\ UNCHANGED faults
  BY <1>1 DEF Types, faults
<1>2. CASE (\E part \in SUBSET batch : Deletes(part))
           /\ Strike("delete_fail", e)
  BY <1>2, StrikeCounts
<1> QED BY <1>1, <1>2 DEF DeletesBatch

\* What fits one command is deleted by it; the dispatcher is with the first.
LEMMA BatchesHave ==
    ASSUME NEW e, NEW names, NEW batch \in Batches(e, names)
    PROVE  /\ batch \subseteq names
           /\ Cardinality(names) <= BatchSize => batch = names
           /\ Dispatcher(e) \in names => Dispatcher(e) \in batch
BY DEF Batches

\* An experiment that does not lose its instance goes on.
LEMMA DeletionStops ==
    ASSUME Types, NEW gone, Deletes(gone)
    PROVE  /\ instances' = instances \ gone
           /\ DOMAIN pc' = Experiments /\ DOMAIN scheduler' = Experiments
           /\ \A e \in Experiments :
                /\ Dispatcher(e) \in gone =>
                     /\ pc'[e] = "off" /\ ~IsAlive(scheduler'[e])
                     /\ ~IsAlive(measurer'[e])
                /\ Dispatcher(e) \notin gone =>
                     /\ pc'[e] = pc[e] /\ scheduler'[e] = scheduler[e]
                     /\ measurer'[e] = measurer[e]
BY DEF Deletes, Gone, Types, IsAlive

-----------------------------------------------------------------------------
(***************************************************************************)
(* Every step keeps the invariant.                                         *)
(***************************************************************************)
\* The types are kept.
LEMMA TypesStep ==
    ASSUME LifecycleAssumption, Types, [Next]_vars
    PROVE  Types'
<1> USE DEF Types, Labels
<1>1. CASE RunRequestedExperiment
  <2>1. PICK i \in DOMAIN Requests :
           starter' = [starter EXCEPT !["service"] =
                         [pc |-> "copy_source", experiment |-> Requests[i]]]
    BY <1>1 DEF RunRequestedExperiment
  <2>2. Requests[i] \in Experiments
    BY DEF Experiments, Range
  <2> QED BY <1>1, <2>1, <2>2 DEF RunRequestedExperiment, Starters, threads, stops, faults
<1>2. CASE \E e \in Experiments : UserRunsExperiment(e)
  BY <1>2 DEF UserRunsExperiment, Starters, threads, stops, faults
<1>3. CASE \E e \in Experiments : UserListsInstances(e)
  BY <1>3, FoundInstances DEF UserListsInstances, threads, stops, faults
<1>4. CASE UserStopsExperiment
  <2>1. stopping.of \in Experiments
    BY <1>4 DEF UserStopsExperiment
  <2>2. PICK batch \in Batches(stopping.of, stopping.found) :
           /\ DeletesBatch(stopping.of, batch)
           /\ stopping' = [stopping EXCEPT !.found = @ \ batch]
    BY <1>4 DEF UserStopsExperiment
  <2>3. PICK gone : Deletes(gone)
    BY <2>1, <2>2, CommandDeletes
  <2>4. failures' \in 0..MaxFailures /\ hit' \subseteq Faults \X Experiments
    BY <2>1, <2>2, CommandDeletes
  <2>5. UNCHANGED <<starter, input, db, report, listed, left>>
    BY <1>4 DEF UserStopsExperiment
  <2> QED BY <2>1, <2>2, <2>3, <2>4, <2>5 DEF Deletes
<1>5. CASE \E s \in Starters : CopySource(s)
  BY <1>5 DEF CopySource, GoTo, threads, stops, faults
<1>6. CASE \E s \in Starters : CopyConfig(s)
  BY <1>6 DEF CopyConfig, GoTo, threads, stops, faults
<1>7. CASE \E s \in Starters : CreateDispatcher(s)
  <2>1. PICK s \in Starters : CreateDispatcher(s)
    BY <1>7
  <2>2. Dispatcher(starter[s].experiment) \in Names
    BY <2>1 DEF CreateDispatcher, Names
  <2> QED BY <2>1, <2>2 DEF CreateDispatcher, GoTo, threads, stops, faults
<1>8. CASE \E s \in Starters : StartRaises(s)
  <2>1. PICK s \in Starters : StartRaises(s)
    BY <1>8
  <2>2. starter[s].experiment \in Experiments
    BY <2>1 DEF StartRaises
  <2>3. failures' \in 0..MaxFailures /\ hit' \subseteq Faults \X Experiments
    BY <2>1, <2>2, StrikeCounts DEF StartRaises, faults
  <2> QED BY <2>1, <2>3 DEF StartRaises, GoTo, AfterFailure, threads, stops
<1>9. CASE \E e \in Experiments : LooksForExperiment(e)
  BY <1>9 DEF LooksForExperiment, Moves, threads, stops, faults
<1>10. CASE \E e \in Experiments : Registers(e)
  BY <1>10 DEF Registers, Moves, threads, stops, faults
<1>11. CASE \E e \in Experiments : StartsLoops(e)
  BY <1>11 DEF StartsLoops, Moves, threads, stops, faults
<1>12. CASE \E e \in Experiments : OutputsReport(e)
  <2>1. failures' \in 0..MaxFailures /\ hit' \subseteq Faults \X Experiments
    BY <1>12, StrikeCounts DEF OutputsReport, faults
  <2> QED BY <1>12, <2>1 DEF OutputsReport, Moves, threads, stops
<1>13. CASE \E e \in Experiments : RecordsTimeEnded(e)
  BY <1>13 DEF RecordsTimeEnded, Moves, threads, stops, faults
<1>14. CASE \E e \in Experiments : ListsItself(e)
  BY <1>14, FoundInstances DEF ListsItself, Moves, threads, faults
<1>15. CASE \E e \in Experiments : StopsItself(e)
  <2>1. PICK e \in Experiments : StopsItself(e)
    BY <1>15
  <2>2. PICK batch \in Batches(e, left[e]) :
           DeletesBatch(e, batch) /\ left' = [left EXCEPT ![e] = @ \ batch]
    BY <2>1 DEF StopsItself
  <2>3. PICK gone : Deletes(gone)
    BY <2>2, CommandDeletes
  <2>4. failures' \in 0..MaxFailures /\ hit' \subseteq Faults \X Experiments
    BY <2>2, CommandDeletes
  <2>5. UNCHANGED <<starter, input, db, report, listed, stopping>>
    BY <2>1 DEF StopsItself
  <2> QED BY <2>2, <2>3, <2>4, <2>5 DEF Deletes
<1>16. CASE \E e \in Experiments : BuildRaises(e)
  <2>1. failures' \in 0..MaxFailures /\ hit' \subseteq Faults \X Experiments
    BY <1>16, StrikeCounts DEF BuildRaises
  <2> QED BY <1>16, <2>1 DEF BuildRaises, Moves, threads, stops
<1>17. CASE \E e \in Experiments : ReportRaises(e) \/ ListRaises(e)
  <2>1. failures' \in 0..MaxFailures /\ hit' \subseteq Faults \X Experiments
    BY <1>17, StrikeCounts DEF ReportRaises, ListRaises
  <2> QED BY <1>17, <2>1 DEF ReportRaises, ListRaises, Moves, threads, stops
<1>18. CASE \E e \in Experiments, i \in Ids : StartsRunner(e, i)
  BY <1>18 DEF StartsRunner, threads, stops, faults, Names
<1>19. CASE \E e \in Experiments, i \in Ids : EndsRunner(e, i)
  BY <1>19 DEF EndsRunner, threads, stops, faults
<1>20. CASE \E e \in Experiments : SchedulerEnds(e)
  <2>1. failures' \in 0..MaxFailures /\ hit' \subseteq Faults \X Experiments
    BY <1>20, StrikeCounts DEF SchedulerEnds, faults
  <2> QED BY <1>20, <2>1 DEF SchedulerEnds, stops
<1>21. CASE \E e \in Experiments : MeasurerEnds(e)
  BY <1>21 DEF MeasurerEnds, threads, stops, faults
<1>22. CASE \E e \in Experiments : ThreadDies(e)
  <2>1. failures' \in 0..MaxFailures /\ hit' \subseteq Faults \X Experiments
    BY <1>22, StrikeCounts DEF ThreadDies
  <2> QED BY <1>22, <2>1 DEF ThreadDies, stops
<1>23. CASE UNCHANGED vars
  BY <1>23 DEF vars, threads, stops, faults
<1> QED BY <1>1, <1>2, <1>3, <1>4, <1>5, <1>6, <1>7, <1>8, <1>9, <1>10,
           <1>11, <1>12, <1>13, <1>14, <1>15, <1>16, <1>17, <1>18, <1>19,
           <1>20, <1>21, <1>22, <1>23
           DEF Next, Start, Dispatch, DispatchFails, Loops

\* What was copied stays, and is copied before a dispatcher is created.
LEMMA CopiedStep ==
    ASSUME LifecycleAssumption, Types, CopiedInOrder, [Next]_vars
    PROVE  CopiedInOrder'
<1> USE NamesDiffer
   DEF CopiedInOrder, DispatcherFindsInput
<1>1. CASE RunRequestedExperiment
  BY <1>1 DEF RunRequestedExperiment, threads, stops, faults, Types
<1>2. CASE \E e \in Experiments : UserRunsExperiment(e)
  BY <1>2 DEF UserRunsExperiment, threads, stops, faults, Types
<1>3. CASE \E e \in Experiments : UserListsInstances(e)
  BY <1>3 DEF UserListsInstances, threads, stops, faults
<1>4. CASE UserStopsExperiment
  <2>1. PICK gone : Deletes(gone)
    BY <1>4, CommandDeletes DEF UserStopsExperiment, Types
  <2> QED BY <1>4, <2>1 DEF UserStopsExperiment, Deletes
<1>5. CASE \E s \in Starters : CopySource(s)
  BY <1>5 DEF CopySource, GoTo, threads, stops, faults, Types, Labels
<1>6. CASE \E s \in Starters : CopyConfig(s)
  BY <1>6 DEF CopyConfig, GoTo, threads, stops, faults, Types, Labels
<1>7. CASE \E s \in Starters : CreateDispatcher(s)
  BY <1>7 DEF CreateDispatcher, GoTo, threads, stops, faults, Types, Labels
<1>8. CASE \E s \in Starters : StartRaises(s)
  BY <1>8 DEF StartRaises, GoTo, AfterFailure, threads, stops, faults, Types, Labels
<1>9. CASE \E e \in Experiments : LooksForExperiment(e)
  BY <1>9 DEF LooksForExperiment, Moves, threads, stops, faults
<1>10. CASE \E e \in Experiments : Registers(e)
  BY <1>10 DEF Registers, Moves, threads, stops, faults
<1>11. CASE \E e \in Experiments : StartsLoops(e)
  BY <1>11 DEF StartsLoops, Moves, threads, stops, faults
<1>12. CASE \E e \in Experiments : OutputsReport(e)
  BY <1>12 DEF OutputsReport, Moves, threads, stops, faults
<1>13. CASE \E e \in Experiments : RecordsTimeEnded(e)
  BY <1>13 DEF RecordsTimeEnded, Moves, threads, stops, faults
<1>14. CASE \E e \in Experiments : ListsItself(e)
  BY <1>14 DEF ListsItself, Moves, threads
<1>15. CASE \E e \in Experiments : StopsItself(e)
  <2>1. PICK gone : Deletes(gone)
    BY <1>15, CommandDeletes DEF StopsItself
  <2> QED BY <1>15, <2>1 DEF StopsItself, Deletes
<1>16. CASE \E e \in Experiments : BuildRaises(e)
  BY <1>16 DEF BuildRaises, Moves, threads
<1>17. CASE \E e \in Experiments : ReportRaises(e) \/ ListRaises(e)
  BY <1>17 DEF ReportRaises, ListRaises, Moves, threads
<1>18. CASE \E e \in Experiments, i \in Ids : StartsRunner(e, i)
  BY <1>18 DEF StartsRunner, threads, stops, faults
<1>19. CASE \E e \in Experiments, i \in Ids : EndsRunner(e, i)
  BY <1>19 DEF EndsRunner, threads, stops, faults
<1>20. CASE \E e \in Experiments : SchedulerEnds(e)
  BY <1>20 DEF SchedulerEnds, threads, stops, faults
<1>21. CASE \E e \in Experiments : MeasurerEnds(e)
  BY <1>21 DEF MeasurerEnds, threads, stops, faults
<1>22. CASE \E e \in Experiments : ThreadDies(e)
  BY <1>22 DEF ThreadDies, threads, stops, faults
<1>23. CASE UNCHANGED vars
  BY <1>23 DEF vars, threads, stops, faults
<1> QED BY <1>1, <1>2, <1>3, <1>4, <1>5, <1>6, <1>7, <1>8, <1>9, <1>10,
           <1>11, <1>12, <1>13, <1>14, <1>15, <1>16, <1>17, <1>18, <1>19,
           <1>20, <1>21, <1>22, <1>23
           DEF Next, Start, Dispatch, DispatchFails, Loops

\* What has failed has failed.
LEMMA HitGrows ==
    ASSUME LifecycleAssumption, Types, [Next]_vars
    PROVE  hit \subseteq hit'
<1>1. CASE UserStopsExperiment
  BY <1>1, CommandDeletes DEF UserStopsExperiment, Types
<1>2. CASE \E e \in Experiments : StopsItself(e)
  BY <1>2, CommandDeletes DEF StopsItself
<1>3. CASE \E s \in Starters : StartRaises(s)
  BY <1>3 DEF StartRaises, Strike, faults
<1>4. CASE \E e \in Experiments : OutputsReport(e) \/ SchedulerEnds(e)
  BY <1>4 DEF OutputsReport, SchedulerEnds, Strike, faults
<1>5. CASE \E e \in Experiments : DispatchFails(e) \/ ThreadDies(e)
  BY <1>5 DEF DispatchFails, BuildRaises, ReportRaises, ListRaises,
              ThreadDies, Strike, faults
<1>6. CASE UNCHANGED faults
  BY <1>6 DEF faults
<1>7. CASE UNCHANGED vars
  BY <1>7 DEF vars
<1>8. CASE RunRequestedExperiment
           \/ \E e \in Experiments :
                UserRunsExperiment(e) \/ UserListsInstances(e)
  BY <1>6, <1>8 DEF RunRequestedExperiment, UserRunsExperiment,
                    UserListsInstances
<1>9. CASE \E s \in Starters :
             CopySource(s) \/ CopyConfig(s) \/ CreateDispatcher(s)
  BY <1>6, <1>9 DEF CopySource, CopyConfig, CreateDispatcher
<1>10. CASE \E e \in Experiments :
              \/ LooksForExperiment(e) \/ Registers(e) \/ StartsLoops(e)
              \/ RecordsTimeEnded(e) \/ ListsItself(e) \/ MeasurerEnds(e)
  BY <1>6, <1>10 DEF LooksForExperiment, Registers, StartsLoops,
                     RecordsTimeEnded, ListsItself, MeasurerEnds
<1>11. CASE \E e \in Experiments, i \in Ids :
              StartsRunner(e, i) \/ EndsRunner(e, i)
  BY <1>6, <1>11 DEF StartsRunner, EndsRunner
<1> QED BY <1>1, <1>2, <1>3, <1>4, <1>5, <1>7, <1>8, <1>9, <1>10, <1>11
           DEF Next, Start, Dispatch, Loops

\* The row follows the dispatcher.
LEMMA RowStep ==
    ASSUME LifecycleAssumption, Types, RowFollowsDispatcher, [Next]_vars
    PROVE  RowFollowsDispatcher'
<1>hit. hit \subseteq hit'
  BY HitGrows
<1> USE <1>hit
    DEF Types, RowFollowsDispatcher, EndedIsReported, IsComplete, IsAlive
<1>1. CASE RunRequestedExperiment
  BY <1>1 DEF RunRequestedExperiment, threads, stops, faults
<1>2. CASE \E e \in Experiments : UserRunsExperiment(e)
  BY <1>2 DEF UserRunsExperiment, threads, stops, faults
<1>3. CASE \E e \in Experiments : UserListsInstances(e)
  BY <1>3 DEF UserListsInstances, threads, stops, faults
<1>4. CASE UserStopsExperiment
  <2>1. PICK gone : Deletes(gone)
    BY <1>4, CommandDeletes DEF UserStopsExperiment
  <2> QED BY <1>4, <2>1, DeletionStops DEF UserStopsExperiment
<1>5. CASE \E s \in Starters : CopySource(s)
  BY <1>5 DEF CopySource, threads, stops, faults
<1>6. CASE \E s \in Starters : CopyConfig(s)
  BY <1>6 DEF CopyConfig, threads, stops, faults
<1>7. CASE \E s \in Starters : CreateDispatcher(s)
  BY <1>7 DEF CreateDispatcher, threads, stops, faults
<1>8. CASE \E s \in Starters : StartRaises(s)
  BY <1>8 DEF StartRaises, threads, stops, faults
<1>9. CASE \E e \in Experiments : LooksForExperiment(e)
  BY <1>9 DEF LooksForExperiment, Moves, threads, stops, faults
<1>10. CASE \E e \in Experiments : Registers(e)
  BY <1>10 DEF Registers, Moves, threads, stops, faults
<1>11. CASE \E e \in Experiments : StartsLoops(e)
  BY <1>11 DEF StartsLoops, Moves, threads, stops, faults
<1>12. CASE \E e \in Experiments : OutputsReport(e)
  <2>1. PICK e \in Experiments : OutputsReport(e)
    BY <1>12
  <2>2. \/ report'[e] = IF IsComplete(e) THEN "final" ELSE "in_progress"
        \/ <<"report_fail", e>> \in hit'
    BY <2>1, StrikeCounts DEF OutputsReport
  <2> QED BY <2>1, <2>2 DEF OutputsReport, Moves, threads, stops
<1>13. CASE \E e \in Experiments : RecordsTimeEnded(e)
  BY <1>13 DEF RecordsTimeEnded, Moves, threads, stops, faults
<1>14. CASE \E e \in Experiments : ListsItself(e)
  BY <1>14 DEF ListsItself, Moves, threads
<1>15. CASE \E e \in Experiments : StopsItself(e)
  <2>1. PICK gone : Deletes(gone)
    BY <1>15, CommandDeletes DEF StopsItself
  <2> QED BY <1>15, <2>1, DeletionStops DEF StopsItself
<1>16. CASE \E e \in Experiments : BuildRaises(e)
  BY <1>16 DEF BuildRaises, Moves, threads
<1>17. CASE \E e \in Experiments : ReportRaises(e) \/ ListRaises(e)
  BY <1>17 DEF ReportRaises, ListRaises, Moves, threads
<1>18. CASE \E e \in Experiments, i \in Ids : StartsRunner(e, i)
  BY <1>18 DEF StartsRunner, threads, stops, faults
<1>19. CASE \E e \in Experiments, i \in Ids : EndsRunner(e, i)
  BY <1>19 DEF EndsRunner, threads, stops, faults
<1>20. CASE \E e \in Experiments : SchedulerEnds(e)
  BY <1>20 DEF SchedulerEnds, threads, stops, faults
<1>21. CASE \E e \in Experiments : MeasurerEnds(e)
  BY <1>21 DEF MeasurerEnds, threads, stops, faults
<1>22. CASE \E e \in Experiments : ThreadDies(e)
  BY <1>22 DEF ThreadDies, threads, stops, faults
<1>23. CASE UNCHANGED vars
  BY <1>23 DEF vars, threads, stops, faults
<1> QED BY <1>1, <1>2, <1>3, <1>4, <1>5, <1>6, <1>7, <1>8, <1>9, <1>10,
           <1>11, <1>12, <1>13, <1>14, <1>15, <1>16, <1>17, <1>18, <1>19,
           <1>20, <1>21, <1>22, <1>23
           DEF Next, Start, Dispatch, DispatchFails, Loops

\* A command takes the dispatchers it takes from experiments that are over, or
\* that a user stops, and with the dispatcher its runners if nothing fails.
LEMMA DeletionKeeps ==
    ASSUME LifecycleAssumption, Types, RunsOnInstances,
           NEW gone, Deletes(gone), hit \subseteq hit',
           UNCHANGED <<listed, db>>,
           stopping'.of = stopping.of, stopping'.found \subseteq stopping.found,
           \A e \in Experiments :
             /\ Dispatcher(e) \in gone /\ stopping.of # e =>
                  /\ db[e] = "ended"
                  /\ \/ <<"delete_fail", e>> \in hit'
                     \/ ~(Cardinality(listed[e]) <= BatchSize)
                     \/ RunnersOf(e) \subseteq gone
             /\ pc[e] = "delete" /\ Dispatcher(e) \notin gone =>
                  \/ <<"delete_fail", e>> \in hit'
                  \/ left'[e] = left[e]
    PROVE  RunsOnInstances'
<1> USE NamesDiffer, DeletionStops DEF RunsOnInstances
<1>1. ASSUME NEW e \in Experiments
      PROVE  /\ pc'[e] # "off" => Dispatcher(e) \in instances'
             /\ IsAlive(scheduler'[e]) => pc'[e] # "off"
  BY DEF IsAlive
<1>2. FoundByName'
  BY DEF FoundByName
<1>3. \A e \in Experiments : RunnersOf(e)' \subseteq RunnersOf(e)
  BY RunnersHaveNames
<1>4. StopIsWhole'
  <2> SUFFICES ASSUME NEW e \in Experiments, pc'[e] = "delete",
                      <<"delete_fail", e>> \notin hit'
               PROVE  /\ left'[e] = listed'[e]
                      /\ RunnersOf(e)' \subseteq listed'[e]
                      /\ Dispatcher(e) \in listed'[e]
    BY DEF StopIsWhole
  <2>1. pc[e] = "delete" /\ Dispatcher(e) \notin gone
    OBVIOUS
  <2> QED BY <2>1, <1>3 DEF StopIsWhole
<1>5. NoOrphanRunners'
  <2> SUFFICES ASSUME NEW e \in Experiments, Dispatcher(e) \notin instances',
                      stopping'.of # e, Cardinality(listed[e]) <= BatchSize,
                      <<"delete_fail", e>> \notin hit'
               PROVE  RunnersOf(e)' = {}
    BY DEF NoOrphanRunners
  <2>1. CASE Dispatcher(e) \in gone
    BY <2>1, RunnersHaveNames
  <2>2. CASE Dispatcher(e) \notin instances
    BY <2>2, <1>3 DEF NoOrphanRunners
  <2> QED BY <2>1, <2>2
<1>6. RunningHasDispatcher'
  <2> SUFFICES ASSUME NEW e \in Experiments, db[e] = "running",
                      stopping.of # e
               PROVE  Dispatcher(e) \in instances'
    BY DEF RunningHasDispatcher
  <2>1. Dispatcher(e) \in instances
    BY DEF RunningHasDispatcher
  <2>2. instances' = instances \ gone
    BY DeletionStops
  <2>3. Dispatcher(e) \in gone => db[e] = "ended"
    OBVIOUS
  <2>4. Dispatcher(e) \notin gone
    BY <2>3
  <2> QED BY ONLY <2>1, <2>2, <2>4
<1> QED BY <1>1, <1>2, <1>4, <1>5, <1>6

\* What runs has its instance, and stops delete what they found.
LEMMA RunsStep ==
    ASSUME LifecycleAssumption, Types, RowFollowsDispatcher,
           RunsOnInstances, [Next]_vars
    PROVE  RunsOnInstances'
<1>hit. hit \subseteq hit'
  BY HitGrows
<1>4. CASE UserStopsExperiment
  <2>1. stopping.of \in Experiments
    BY <1>4 DEF UserStopsExperiment, Types
  <2>2. PICK batch \in Batches(stopping.of, stopping.found) :
           /\ DeletesBatch(stopping.of, batch)
           /\ stopping' = [stopping EXCEPT !.found = @ \ batch]
    BY <1>4 DEF UserStopsExperiment
  <2>3. PICK gone \in SUBSET batch : Deletes(gone)
    BY <2>1, <2>2, CommandDeletes
  <2>4. \A e \in Experiments : Dispatcher(e) \in gone => e = stopping.of
    BY <2>2, <2>3, BatchesHave DEF RunsOnInstances, FoundByName
  <2>5. UNCHANGED <<listed, left, db>> /\ stopping'.of = stopping.of
        /\ stopping'.found \subseteq stopping.found
    BY <1>4, <2>2 DEF UserStopsExperiment, Types
  <2> QED BY <2>3, <2>4, <2>5, <1>hit, DeletionKeeps
<1>15. CASE \E e \in Experiments : StopsItself(e)
  <2>1. PICK e \in Experiments : StopsItself(e)
    BY <1>15
  <2>2. PICK batch \in Batches(e, left[e]) :
           DeletesBatch(e, batch) /\ left' = [left EXCEPT ![e] = @ \ batch]
    BY <2>1 DEF StopsItself
  <2>3. PICK gone \in SUBSET batch :
           /\ Deletes(gone)
           /\ gone = batch \/ <<"delete_fail", e>> \in hit'
    BY <2>2, CommandDeletes
  <2>4. /\ pc[e] = "delete" /\ db[e] = "ended"
        /\ UNCHANGED <<listed, stopping, db>>
        /\ left[e] \subseteq listed[e]
    BY <2>1 DEF StopsItself, RowFollowsDispatcher, Types
  <2>5. \A x \in Experiments : Dispatcher(x) \in gone => x = e
    BY <2>3, <2>4, BatchesHave DEF RunsOnInstances, FoundByName
  <2>6. \/ <<"delete_fail", e>> \in hit'
        \/ /\ left[e] = listed[e] /\ RunnersOf(e) \subseteq listed[e]
           /\ Dispatcher(e) \in batch /\ gone = batch
    BY <2>3, <2>4, <1>hit, BatchesHave DEF RunsOnInstances, StopIsWhole
  <2>7. \/ <<"delete_fail", e>> \in hit'
        \/ ~(Cardinality(listed[e]) <= BatchSize)
        \/ RunnersOf(e) \subseteq gone
    BY <2>6, BatchesHave
  <2>8. \A x \in Experiments : x # e => left'[x] = left[x]
    BY <2>2 DEF Types
  <2> QED BY <2>3, <2>4, <2>5, <2>6, <2>7, <2>8, <1>hit, DeletionKeeps
<1>16. CASE \E e \in Experiments : ListsItself(e)
  <2>1. PICK e \in Experiments : ListsItself(e)
    BY <1>16
  <2>2. /\ pc[e] = "stop" /\ pc' = [pc EXCEPT ![e] = "delete"]
        /\ listed' = [listed EXCEPT ![e] = ExperimentInstances(e)]
        /\ left' = [left EXCEPT ![e] = ExperimentInstances(e)]
        /\ UNCHANGED <<instances, db, scheduler, stopping, hit>>
    BY <2>1 DEF ListsItself, Moves, threads, faults
  <2>3. Dispatcher(e) \in instances
    BY <2>2 DEF RunsOnInstances
  <2>4. FoundByName'
    BY <2>2, FoundInstances DEF Types, RunsOnInstances, FoundByName
  <2>5. RunnersOf(e) \subseteq ExperimentInstances(e)
    BY FoundInstances, RunnersHaveNames
  <2>6. StopIsWhole'
    BY <2>2, <2>3, <2>5, FoundInstances
    DEF Types, RunsOnInstances, StopIsWhole, RunnersOf
  <2>7. NoOrphanRunners' /\ RunningHasDispatcher'
    BY <2>2, <2>3 DEF Types, RunsOnInstances, NoOrphanRunners,
                      RunningHasDispatcher, RunnersOf
  <2>8. \A x \in Experiments :
           /\ pc'[x] # "off" => Dispatcher(x) \in instances'
           /\ IsAlive(scheduler'[x]) => pc'[x] # "off"
    BY <2>2, <2>3 DEF Types, RunsOnInstances, IsAlive
  <2> QED BY <2>4, <2>6, <2>7, <2>8 DEF RunsOnInstances
<1>3. CASE \E e \in Experiments : UserListsInstances(e)
  <2>1. PICK e \in Experiments : UserListsInstances(e)
    BY <1>3
  <2>2. /\ stopping = Nothing
        /\ stopping' = [of |-> e, found |-> ExperimentInstances(e)]
        /\ UNCHANGED <<instances, pc, db, scheduler, listed, left, hit>>
    BY <2>1 DEF UserListsInstances, threads, faults
  <2>3. FoundByName'
    BY <2>2, FoundInstances DEF RunsOnInstances, FoundByName
  <2>4. \A x \in Experiments : stopping.of # x
    BY <2>2 DEF LifecycleAssumption, Nothing
  <2> QED BY <2>2, <2>3, <2>4
          DEF RunsOnInstances, StopIsWhole, NoOrphanRunners, RunnersOf,
              RunningHasDispatcher
<1> USE <1>hit, NamesDiffer, RunnersHaveNames
   DEF Types, RunsOnInstances, NoOrphanRunners, FoundByName, IsAlive,
       StopIsWhole, RunningHasDispatcher, RowFollowsDispatcher,
       EndedIsReported
<1>1. CASE RunRequestedExperiment
  BY <1>1 DEF RunRequestedExperiment, threads, stops, faults, RunnersOf
<1>2. CASE \E e \in Experiments : UserRunsExperiment(e)
  BY <1>2 DEF UserRunsExperiment, threads, stops, faults, RunnersOf
<1>5. CASE \E s \in Starters : CopySource(s)
  BY <1>5 DEF CopySource, threads, stops, faults, RunnersOf
<1>6. CASE \E s \in Starters : CopyConfig(s)
  BY <1>6 DEF CopyConfig, threads, stops, faults, RunnersOf
<1>7. CASE \E s \in Starters : CreateDispatcher(s)
  BY <1>7 DEF CreateDispatcher, threads, stops, faults
<1>8. CASE \E s \in Starters : StartRaises(s)
  BY <1>8 DEF StartRaises, threads, stops, RunnersOf
<1>9. CASE \E e \in Experiments : LooksForExperiment(e)
  BY <1>9 DEF LooksForExperiment, Moves, threads, stops, faults, RunnersOf
<1>10. CASE \E e \in Experiments : Registers(e)
  BY <1>10 DEF Registers, Moves, threads, stops, faults, RunnersOf
<1>11. CASE \E e \in Experiments : StartsLoops(e)
  BY <1>11 DEF StartsLoops, Moves, threads, stops, faults, RunnersOf
<1>12. CASE \E e \in Experiments : OutputsReport(e)
  BY <1>12 DEF OutputsReport, Moves, threads, stops, RunnersOf
<1>13. CASE \E e \in Experiments : RecordsTimeEnded(e)
  BY <1>13 DEF RecordsTimeEnded, Moves, threads, stops, faults, RunnersOf
<1>14. CASE \E e \in Experiments : BuildRaises(e)
  BY <1>14 DEF BuildRaises, Moves, threads, stops, RunnersOf
<1>17. CASE \E e \in Experiments : ReportRaises(e) \/ ListRaises(e)
  BY <1>17 DEF ReportRaises, ListRaises, Moves, threads, stops, RunnersOf
<1>18. CASE \E e \in Experiments, i \in Ids : StartsRunner(e, i)
  <2>1. PICK e \in Experiments, i \in Ids : StartsRunner(e, i)
    BY <1>18
  <2>2. /\ instances' = instances \union {Runner(e, i)}
        /\ UNCHANGED <<pc, db, scheduler, listed, left, stopping, hit>>
        /\ IsAlive(scheduler[e])
    BY <2>1 DEF StartsRunner, threads, stops, faults
  <2>3. Dispatcher(e) \in instances /\ pc[e] # "delete"
    BY <2>2
  <2>4. \A x \in Experiments : x # e => RunnersOf(x)' = RunnersOf(x)
    BY <2>2 DEF RunnersOf
  <2>5. \A x \in Experiments :
           Dispatcher(x) \in instances' <=> Dispatcher(x) \in instances
    BY <2>2
  <2> QED BY <2>2, <2>3, <2>4, <2>5
<1>19. CASE \E e \in Experiments, i \in Ids : EndsRunner(e, i)
  <2>1. PICK e \in Experiments, i \in Ids : EndsRunner(e, i)
    BY <1>19
  <2>2. /\ instances' = instances \ {Runner(e, i)}
        /\ UNCHANGED <<pc, db, scheduler, listed, left, stopping, hit>>
    BY <2>1 DEF EndsRunner, threads, stops, faults
  <2>3. \A x \in Experiments : RunnersOf(x)' \subseteq RunnersOf(x)
    BY <2>2
  <2>4. \A x \in Experiments :
           Dispatcher(x) \in instances' <=> Dispatcher(x) \in instances
    BY <2>2
  <2> QED BY <2>2, <2>3, <2>4
<1>20. CASE \E e \in Experiments : SchedulerEnds(e)
  BY <1>20 DEF SchedulerEnds, stops, RunnersOf
<1>21. CASE \E e \in Experiments : MeasurerEnds(e)
  BY <1>21 DEF MeasurerEnds, stops, faults, RunnersOf
<1>22. CASE \E e \in Experiments : ThreadDies(e)
  BY <1>22 DEF ThreadDies, stops, RunnersOf
<1>23. CASE UNCHANGED vars
  BY <1>23 DEF vars, RunnersOf
<1> QED BY <1>1, <1>2, <1>3, <1>4, <1>5, <1>6, <1>7, <1>8, <1>9, <1>10,
           <1>11, <1>12, <1>13, <1>14, <1>15, <1>16, <1>17, <1>18, <1>19,
           <1>20, <1>21, <1>22, <1>23
           DEF Next, Start, Dispatch, DispatchFails, Loops

-----------------------------------------------------------------------------
(***************************************************************************)
(* Nothing was copied, started or stopped initially.                       *)
(***************************************************************************)
LEMMA InvariantInit ==
    ASSUME LifecycleAssumption, Init
    PROVE  LifecycleInvariant
<1>1. Types
  BY DEF Init, Types, Labels, Nothing, LifecycleAssumption
<1>2. CopiedInOrder
  BY DEF Init, CopiedInOrder, DispatcherFindsInput
<1>3. RowFollowsDispatcher
  BY DEF Init, RowFollowsDispatcher, EndedIsReported
<1>4. RunsOnInstances
  BY DEF Init, RunsOnInstances, FoundByName, StopIsWhole, NoOrphanRunners,
         RunnersOf, RunningHasDispatcher, Nothing, IsAlive
<1> QED BY <1>1, <1>2, <1>3, <1>4 DEF LifecycleInvariant

\* The inductive invariant holds, whatever fails and whoever starts or stops.
THEOREM InvariantHolds ==
    ASSUME LifecycleAssumption
    PROVE  Spec => []LifecycleInvariant
<1>1. Init => LifecycleInvariant
  BY InvariantInit
<1>2. LifecycleInvariant /\ [Next]_vars => LifecycleInvariant'
  BY TypesStep, CopiedStep, RowStep, RunsStep DEF LifecycleInvariant
<1> QED BY <1>1, <1>2, PTL DEF Spec

\* The variables keep their types; only the dispatcher of the experiment that
\* a user stops is among what was listed.
THEOREM TypeCorrect ==
    ASSUME LifecycleAssumption
    PROVE  Spec => []TypeOK
<1>1. LifecycleInvariant => TypeOK
  BY DEF LifecycleInvariant, Types, Labels, Names, RunsOnInstances,
         FoundByName, TypeOK
<1> QED BY <1>1, InvariantHolds, PTL

\* A dispatcher finds its sources and its configuration in the filestore.
THEOREM InputIsThere ==
    ASSUME LifecycleAssumption
    PROVE  Spec => []DispatcherFindsInput
<1>1. LifecycleInvariant => DispatcherFindsInput
  BY DEF LifecycleInvariant, CopiedInOrder
<1> QED BY <1>1, InvariantHolds, PTL

\* An experiment whose end is recorded is over and has its final report, if
\* output_report wrote it.
THEOREM EndIsReported ==
    ASSUME LifecycleAssumption
    PROVE  Spec => []EndedIsReported
<1>1. LifecycleInvariant => EndedIsReported
  BY DEF LifecycleInvariant, RowFollowsDispatcher
<1> QED BY <1>1, InvariantHolds, PTL

\* No runner goes on without the dispatcher of its experiment, if one command
\* was enough to stop it and did not fail, and no user stops it.
THEOREM NoneIsOrphaned ==
    ASSUME LifecycleAssumption
    PROVE  Spec => []NoOrphanRunners
<1>1. LifecycleInvariant => NoOrphanRunners
  BY DEF LifecycleInvariant, RunsOnInstances
<1> QED BY <1>1, InvariantHolds, PTL

\* An experiment that runs, by its row, has its dispatcher, unless a user
\* stops that experiment.
THEOREM DispatcherIsThere ==
    ASSUME LifecycleAssumption
    PROVE  Spec => []RunningHasDispatcher
<1>1. LifecycleInvariant => RunningHasDispatcher
  BY DEF LifecycleInvariant, RunsOnInstances
<1> QED BY <1>1, InvariantHolds, PTL
=============================================================================
