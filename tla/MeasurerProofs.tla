--------------------------- MODULE MeasurerProofs ---------------------------
(***************************************************************************)
(* Theorems about Measurer, for any trials, cycles, batches and faults.    *)
(***************************************************************************)
EXTENDS Measurer, WellFoundedInduction, TLAPS

(***************************************************************************)
(* The inductive invariant.                                                *)
(***************************************************************************)
\* What is put in the queue was measured of an archive.
Types ==
    /\ TypeOK
    /\ \A item \in queue \union batch : item.cycle \in archives[item.trial]

\* A cycle that has its snapshot, or will have it with the next save.
Known(t, c) ==
    \/ c \in snapshots[t]
    \/ \E item \in queue \union batch : item.trial = t /\ item.cycle = c

NothingLost == hit \intersect {"commit_fail", "late_put"} = {}
NoGaps == hit \subseteq {"upload_gap", "copy_fail", "query_raise"}

\* The snapshots of a trial are put, taken and saved in their order, so that
\* none is a duplicate, no save raises, and no worker is abandoned.
InOrder ==
    /\ abandoned = {}
    /\ \A item \in queue \union batch : ~item.stray
    /\ pc \in {"test", "measure", "done"} =>
         DOMAIN jobs = {} /\ queue = {} /\ batch = {}
    /\ pc = "last_save" => DOMAIN jobs = {} /\ queue = {}
    /\ \A t \in DOMAIN jobs : \A c \in Cycles : Known(t, c) => c < jobs[t]
    /\ \A item \in queue \union batch :
         \A c \in snapshots[item.trial] : c < item.cycle
    /\ \A b \in batch, q \in queue :
         b.trial = q.trial => b.cycle < q.cycle

\* Nothing between them is left out.
NoHoles ==
    /\ \A t \in DOMAIN jobs : \A c \in Cycles : c < jobs[t] => Known(t, c)
    /\ \A t \in Trials : \A c \in Cycles :
         Known(t, c) => \A d \in 0..c : Known(t, d)

\* What the runner saved without a gap is known.
Covered(t) == \A c \in Cycles : 0..c \subseteq archives[t] => Known(t, c)

\* When all trials had ended before a call began, nobody is given an archive
\* any more, and a trial without a worker has nothing left to measure, unless
\* that worker could not copy an archive.
NothingLeft ==
    /\ pc \in {"poll", "save", "last_save"} /\ allEnded =>
         \A t \in DOMAIN rows \ (DOMAIN jobs \union uncopied) :
           Counts(t) => Covered(t)
    /\ pc = "done" =>
         allEnded /\ \A t \in DOMAIN rows \ uncopied : Counts(t) => Covered(t)

MeasurerInvariant ==
    /\ Types
    /\ allEnded => AllTrialsEnded
    /\ NothingLost => InOrder
    /\ NoGaps => NoHoles /\ NothingLeft

-----------------------------------------------------------------------------
\* Items that agree in what they say are the same.
LEMMA SameItem ==
    ASSUME NEW a \in Item, NEW b \in Item,
           a.trial = b.trial, a.cycle = b.cycle, a.stray = b.stray
    PROVE  a = b
BY DEF Item

\* The latest of some cycles is one of them, and no other is later.
LEMMA MaxIsLatest ==
    ASSUME NEW n \in Nat, NEW S, S \subseteq 0..n, S # {}
    PROVE  Max(S) \in S /\ \A c \in S : c <= Max(S)
<1> DEFINE Left == {n - c : c \in S}
           Less == {p \in Nat \X Nat : p[1] < p[2]}
<1>1. Left \subseteq Nat
  <2>1. \A c \in S : n - c \in Nat
    OBVIOUS
  <2> QED BY <2>1
<1>2. Left # {}
  OBVIOUS
<1>3. \E x \in Left : \A y \in Left : <<y, x>> \notin Less
  <2>1. IsWellFoundedOn(Less, Nat)
    BY NatLessThanWellFounded DEF OpToRel
  <2> HIDE DEF Less, Left
  <2> QED BY <1>1, <1>2, <2>1, WFMin
<1>4. PICK m \in S : \A c \in S : ~(n - c < n - m)
  BY <1>1, <1>3
<1>5. \A c \in S : m >= c
  BY <1>4
<1>6. \E x \in S : \A c \in S : x >= c
  BY <1>5
<1> DEFINE top == CHOOSE x \in S : \A c \in S : x >= c
<1>7. top \in S /\ \A c \in S : top >= c
  BY <1>6
<1>8. Max(S) = top
  BY DEF Max
<1> HIDE DEF top
<1> QED BY <1>7, <1>8

-----------------------------------------------------------------------------
(***************************************************************************)
(* Every step keeps the invariant.                                         *)
(***************************************************************************)
\* Strays are snapshots of the same trials and cycles.
LEMMA StraysAreItems ==
    ASSUME NEW items, items \subseteq Item
    PROVE  /\ Strays(items) \subseteq Item
           /\ \A s \in Strays(items) :
                \E item \in items : /\ s.trial = item.trial
                                    /\ s.cycle = item.cycle
BY DEF Strays, Item

\* Every trial that is measured has a row, and a cycle is asked for.
LEMMA NextCycles ==
    ASSUME MeasurerAssumption, TypeOK
    PROVE  /\ DOMAIN UnmeasuredSnapshots \subseteq DOMAIN rows
           /\ \A t \in DOMAIN UnmeasuredSnapshots :
                /\ UnmeasuredSnapshots[t] \in Cycles
                /\ \A c \in snapshots[t] : c < UnmeasuredSnapshots[t]
                /\ UnmeasuredSnapshots[t] # 0 =>
                     UnmeasuredSnapshots[t] - 1 \in snapshots[t]
           /\ \A t \in DOMAIN rows \ DOMAIN UnmeasuredSnapshots :
                \/ rows[t].status \in {"pending", "preempted"}
                \/ MaxCycle \in snapshots[t]
<1> USE DEF MeasurerAssumption, TypeOK, Cycles
<1>1. ASSUME NEW t \in MeasuredTrials
      PROVE  /\ LatestCycle(t) \in snapshots[t]
             /\ LatestCycle(t) \in Cycles
             /\ \A c \in snapshots[t] : c <= LatestCycle(t)
  <2>1. snapshots[t] \subseteq 0..MaxCycle /\ snapshots[t] # {}
    BY DEF MeasuredTrials
  <2> QED BY <2>1, MaxIsLatest DEF LatestCycle
<1>2. /\ FirstSnapshots \subseteq DOMAIN rows
      /\ NextSnapshots \subseteq DOMAIN rows
      /\ NextSnapshots \subseteq MeasuredTrials
  BY DEF FirstSnapshots, NextSnapshots, MeasuredTrials
<1>3. DOMAIN UnmeasuredSnapshots = FirstSnapshots \union NextSnapshots
  BY DEF UnmeasuredSnapshots
<1>4. ASSUME NEW t \in NextSnapshots
      PROVE  /\ UnmeasuredSnapshots[t] \in Cycles
             /\ \A c \in snapshots[t] : c < UnmeasuredSnapshots[t]
             /\ UnmeasuredSnapshots[t] - 1 \in snapshots[t]
  <2>1. UnmeasuredSnapshots[t] = LatestCycle(t) + 1
    BY DEF UnmeasuredSnapshots
  <2>2. LatestCycle(t) < MaxCycle
    BY DEF NextSnapshots
  <2> QED BY <1>1, <1>2, <2>1, <2>2
<1>5. ASSUME NEW t \in FirstSnapshots
      PROVE  snapshots[t] = {} /\ UnmeasuredSnapshots[t] = 0
  BY DEF UnmeasuredSnapshots, FirstSnapshots, NextSnapshots, MeasuredTrials
<1>6. ASSUME NEW t \in DOMAIN rows, t \notin FirstSnapshots,
             t \notin NextSnapshots,
             rows[t].status \notin {"pending", "preempted"}
      PROVE  MaxCycle \in snapshots[t]
  <2>1. t \in MeasuredTrials
    BY <1>6 DEF FirstSnapshots, Table!Trial, Table!Status
  <2>2. ~(LatestCycle(t) < MaxCycle)
    BY <1>6, <2>1 DEF NextSnapshots
  <2> QED BY <1>1, <2>1, <2>2
<1> QED BY <1>2, <1>3, <1>4, <1>5, <1>6

\* The types are kept.
LEMMA TypesStep ==
    ASSUME MeasurerAssumption, Types, [Next]_vars
    PROVE  Types'
<1> USE DEF MeasurerAssumption, Types, TypeOK, Item, Cycles
<1>1. CASE LoopBegins
  BY <1>1 DEF LoopBegins, AllTrialsEnded, world, pool
<1>2. CASE MeasureBegins
  <2>1. /\ DOMAIN UnmeasuredSnapshots \subseteq DOMAIN rows
        /\ UnmeasuredSnapshots \in [DOMAIN UnmeasuredSnapshots -> Cycles]
    BY NextCycles DEF UnmeasuredSnapshots
  <2>2. /\ pc' \in {"test", "done", "poll"}
        /\ batch' = {} /\ saved' = FALSE /\ uncopied' = {}
        /\ UNCHANGED <<rows, runnerCycle, archives, snapshots, allEnded,
                       abandoned, queue, hit>>
    BY <1>2 DEF MeasureBegins, AfterMeasuring, world
  <2>3. jobs' = UnmeasuredSnapshots \/ jobs' = jobs
    BY <1>2 DEF MeasureBegins
  <2>4. /\ DOMAIN jobs' \subseteq DOMAIN rows
        /\ jobs' \in [DOMAIN jobs' -> 0..(MaxCycle + 1)]
    <3> HIDE DEF UnmeasuredSnapshots
    <3> QED BY <2>1, <2>3
  <2> QED BY <2>2, <2>4
<1>3. CASE QueryRaises
  BY <1>3 DEF QueryRaises, Strike, world, pool
<1>4. CASE \E item \in queue : GetSnapshot(item)
  BY <1>4 DEF GetSnapshot, pool, world
<1>5. CASE QueueIsEmpty
  BY <1>5 DEF QueueIsEmpty, world, pool
<1>6. CASE SaveSnapshots
  <2>1. /\ snapshots' = WithBatch /\ batch' = {}
        /\ pc' \in {"poll", "test", "done"}
        /\ queue' = queue \/ queue' = Strays(queue)
        /\ saved' \in BOOLEAN
        /\ UNCHANGED <<world, allEnded, pool, hit>>
    BY <1>6 DEF SaveSnapshots, AfterMeasuring
  <2>2. /\ snapshots' \in [Trials -> SUBSET Cycles]
        /\ \A t \in Trials : snapshots'[t] \subseteq archives[t]
    BY <2>1 DEF WithBatch
  <2>3. /\ queue' \subseteq Item
        /\ \A item \in queue' : item.cycle \in archives[item.trial]
    BY <2>1, StraysAreItems
  <2> QED BY <2>1, <2>2, <2>3 DEF pool, world
<1>7. CASE SaveRaises
  <2>1. /\ pc' = "test" /\ batch' = {} /\ queue' = Strays(queue)
        /\ uncopied' = uncopied
        /\ abandoned' = abandoned \union {<<t, jobs[t]>> : t \in DOMAIN jobs}
        /\ jobs' = [t \in {} |-> 0]
        /\ hit' \subseteq Faults
        /\ UNCHANGED <<world, snapshots, allEnded, saved>>
    BY <1>7 DEF SaveRaises, Strike
  <2>2. abandoned' \subseteq Trials \X (0..(MaxCycle + 1))
    BY <2>1
  <2>3. /\ queue' \subseteq Item
        /\ \A item \in queue' : item.cycle \in archives[item.trial]
    BY <2>1, StraysAreItems
  <2> QED BY <2>1, <2>2, <2>3 DEF world
<1>8. CASE \E t \in DOMAIN jobs : WorkerMeasures(t)
  <2>1. PICK t \in DOMAIN jobs : WorkerMeasures(t)
    BY <1>8
  <2>2. /\ jobs[t] \in Cycles /\ t \in Trials
        /\ jobs' = [jobs EXCEPT ![t] = @ + 1]
        /\ hit' \subseteq Faults
        /\ UNCHANGED <<world, snapshots, pc, allEnded, abandoned, uncopied,
                       batch, saved>>
    <3>1. jobs[t] <= MaxCycle
      BY <2>1 DEF WorkerMeasures
    <3>2. jobs[t] \in Cycles /\ t \in Trials
      BY <3>1
    <3>3. hit' = hit \/ \E fault \in Faults : hit' = hit \union {fault}
      BY <2>1 DEF WorkerMeasures, Strike
    <3> QED BY <2>1, <3>2, <3>3 DEF WorkerMeasures
  <2>3. /\ queue' \subseteq Item
        /\ \A item \in queue' : item.cycle \in archives[item.trial]
    <3> DEFINE new == [trial |-> t, cycle |-> jobs[t], stray |-> FALSE]
    <3>1. \/ queue' = queue
          \/ queue' = queue \union {new} /\ jobs[t] \in archives[t]
      BY <2>1 DEF WorkerMeasures, Put, Measures
    <3>2. new \in Item /\ new.trial = t /\ new.cycle = jobs[t]
      BY <2>2
    <3> HIDE DEF new
    <3> QED BY <3>1, <3>2
  <2>4. /\ DOMAIN jobs' = DOMAIN jobs
        /\ jobs' \in [DOMAIN jobs -> 0..(MaxCycle + 1)]
    BY <2>2
  <2> QED BY <2>2, <2>3, <2>4 DEF world
<1>9. CASE \E t \in DOMAIN jobs : WorkerReturns(t)
  BY <1>9 DEF WorkerReturns, pool, world, WithoutJob, Recurs, Strike
<1>10. CASE \E t \in DOMAIN jobs : LatePut(t)
  BY <1>10 DEF LatePut, pool, world, Put, Strike, Measures, WithoutJob
<1>11. CASE \E job \in abandoned : AbandonedMeasures(job)
  <2>1. PICK job \in abandoned : AbandonedMeasures(job)
    BY <1>11
  <2>2. /\ job[1] \in Trials /\ job[2] \in Cycles
        /\ abandoned' = (abandoned \ {job}) \union {<<job[1], job[2] + 1>>}
        /\ hit' \subseteq Faults
        /\ UNCHANGED <<world, snapshots, pc, allEnded, jobs, uncopied, batch,
                       saved>>
    <3>1. job \in Trials \X (0..(MaxCycle + 1)) /\ job[2] <= MaxCycle
      BY <2>1 DEF AbandonedMeasures
    <3>2. job[1] \in Trials /\ job[2] \in Cycles
      BY <3>1
    <3>3. hit' = hit \/ \E fault \in Faults : hit' = hit \union {fault}
      BY <2>1 DEF AbandonedMeasures, Strike
    <3> QED BY <2>1, <3>2, <3>3 DEF AbandonedMeasures
  <2>3. /\ queue' \subseteq Item
        /\ \A item \in queue' : item.cycle \in archives[item.trial]
    <3> DEFINE new == [trial |-> job[1], cycle |-> job[2], stray |-> TRUE]
    <3>1. \/ queue' = queue
          \/ queue' = queue \union {new} /\ job[2] \in archives[job[1]]
      BY <2>1 DEF AbandonedMeasures, Put, Measures
    <3>2. new \in Item /\ new.trial = job[1] /\ new.cycle = job[2]
      BY <2>2
    <3> HIDE DEF new
    <3> QED BY <3>1, <3>2
  <2>4. abandoned' \subseteq Trials \X (0..(MaxCycle + 1))
    BY <2>2
  <2> QED BY <2>2, <2>3, <2>4 DEF world
<1>12. CASE \E job \in abandoned : AbandonedReturns(job)
  BY <1>12 DEF AbandonedReturns, world, pool, Recurs, Strike
<1>13. CASE SchedulerStep
  <2>1. PICK t \in DOMAIN rows :
           TrialStarts(t) \/ TrialEnds(t) \/ TrialIsPreempted(t)
    BY <1>13 DEF SchedulerStep
  <2>2. /\ DOMAIN rows \subseteq DOMAIN rows' /\ DOMAIN rows' \subseteq Trials
        /\ rows' \in [DOMAIN rows' -> Table!Trial]
    <3> USE DEF Table!Trial, Table!Status
    <3>1. CASE \E to \in Table!Status : rows' = [rows EXCEPT ![t].status = to]
      BY <3>1
    <3>2. CASE \E u \in Trials \ DOMAIN rows :
                 rows' = [v \in DOMAIN rows \union {u} |->
                            IF v = u
                            THEN [rows[t] EXCEPT !.status = "pending"]
                            ELSE IF v = t
                            THEN [rows[t] EXCEPT !.status = "preempted"]
                            ELSE rows[v]]
      BY <3>2
    <3> QED BY <2>1, <3>1, <3>2
            DEF TrialStarts, TrialEnds, TrialIsPreempted, SetStatus
  <2> QED BY <1>13, <2>2 DEF SchedulerStep, pool
<1>14. CASE \E t \in DOMAIN rows : RunnerStep(t)
  BY <1>14 DEF RunnerStep, Gap, Recurs, pool, Strike
<1>15. CASE UNCHANGED vars
  BY <1>15 DEF vars, world, pool
<1> QED BY <1>1, <1>2, <1>3, <1>4, <1>5, <1>6, <1>7, <1>8, <1>9, <1>10,
           <1>11, <1>12, <1>13, <1>14, <1>15
           DEF Next, Loop, Worker, Abandoned, World, Done

\* What went wrong stays.
LEMMA FaultsStay ==
    ASSUME [Next]_vars
    PROVE  hit \subseteq hit'
BY DEF Next, Loop, Worker, Abandoned, World, Done, vars, LoopBegins,
       MeasureBegins, QueryRaises, GetSnapshot, QueueIsEmpty, SaveSnapshots,
       SaveRaises, WorkerMeasures, WorkerReturns, LatePut, AbandonedMeasures,
       AbandonedReturns, SchedulerStep, RunnerStep, Gap, Recurs, Strike

\* What is put and taken in order is saved once.
LEMMA NoDuplicates ==
    ASSUME MeasurerAssumption, Types, InOrder
    PROVE  ~HasDuplicates
<1> USE DEF MeasurerAssumption, Types, TypeOK, Cycles, InOrder, Item
<1>1. \A item, other \in batch :
        item.trial = other.trial /\ item.cycle = other.cycle => item = other
  OBVIOUS
<1>2. \A item \in batch : item.cycle \notin snapshots[item.trial]
  OBVIOUS
<1> QED BY <1>1, <1>2 DEF HasDuplicates

\* The order is kept as long as no batch is lost and no put comes late.
LEMMA OrderStep ==
    ASSUME MeasurerAssumption, Types, InOrder, NothingLost', [Next]_vars
    PROVE  InOrder'
<1> USE DEF MeasurerAssumption, Types, TypeOK, Cycles, InOrder, Known
<1>1. CASE LoopBegins
  BY <1>1 DEF LoopBegins, world, pool
<1>2. CASE MeasureBegins
  <2>1. /\ DOMAIN jobs = {} /\ queue = {} /\ batch = {}
        /\ batch' = {}
        /\ UNCHANGED <<snapshots, abandoned, queue>>
    BY <1>2 DEF MeasureBegins
  <2>2. CASE pc' = "poll"
    <3>1. jobs' = UnmeasuredSnapshots
      BY <1>2, <2>2 DEF MeasureBegins, AfterMeasuring
    <3>2. \A t \in DOMAIN jobs' : \A c \in snapshots[t] : c < jobs'[t]
      BY <3>1, NextCycles
    <3> QED BY <2>1, <2>2, <3>2
  <2>3. CASE pc' # "poll"
    <3>1. DOMAIN jobs' = {} /\ pc' \in {"test", "done"}
      BY <1>2, <2>1, <2>3 DEF MeasureBegins, AfterMeasuring
    <3> QED BY <2>1, <3>1
  <2> QED BY <2>2, <2>3
<1>3. CASE QueryRaises
  BY <1>3 DEF QueryRaises, world, pool
<1>4. CASE \E item \in queue : GetSnapshot(item)
  <2>1. PICK item \in queue : GetSnapshot(item)
    BY <1>4
  <2>2. /\ queue' = queue \ {item} /\ batch' = batch \union {item}
        /\ pc = "poll" /\ pc' \in {"poll", "save"}
        /\ UNCHANGED <<jobs, abandoned, snapshots>>
    BY <2>1 DEF GetSnapshot, pool
  <2>3. queue' \union batch' = queue \union batch
    BY <2>2
  <2>4. \A q \in queue' : q.trial = item.trial => item.cycle < q.cycle
    <3>1. SUFFICES ASSUME NEW q \in queue', q.trial = item.trial
                   PROVE  item.cycle < q.cycle
      OBVIOUS
    <3>2. q # item /\ q \in Item /\ item \in Item /\ ~q.stray /\ ~item.stray
      BY <2>2, <3>1
    <3>3. q.stray = item.stray
      BY <3>2 DEF Item
    <3>4. q.cycle >= item.cycle
      BY <2>1, <2>2, <3>1, <3>3 DEF GetSnapshot
    <3>5. q.cycle # item.cycle
      BY <3>1, <3>2, <3>3, SameItem
    <3> QED BY <3>2, <3>4, <3>5 DEF Item
  <2> QED BY <2>2, <2>3, <2>4
<1>5. CASE QueueIsEmpty
  BY <1>5 DEF QueueIsEmpty, Ready, world, pool
<1>6. CASE SaveSnapshots
  <2>1. /\ snapshots' = WithBatch /\ batch' = {}
        /\ queue' = queue
        /\ pc' # "last_save"
        /\ pc' # "poll" => DOMAIN jobs = {} /\ queue = {}
        /\ UNCHANGED <<jobs, abandoned>>
    BY <1>6 DEF SaveSnapshots, AfterMeasuring, Strays, pool
  <2>2. \A t \in Trials : \A c :
          c \in snapshots'[t] <=>
            \/ c \in snapshots[t]
            \/ \E item \in batch : item.trial = t /\ item.cycle = c
    BY <2>1 DEF WithBatch
  <2>3. \A t \in Trials : \A c \in Cycles : Known(t, c)' => Known(t, c)
    BY <2>1, <2>2
  <2>4. \A item \in queue : \A c \in snapshots'[item.trial] : c < item.cycle
    BY <2>2 DEF Item
  <2> QED BY <2>1, <2>3, <2>4
<1>7. CASE SaveRaises
  BY <1>7, NoDuplicates DEF SaveRaises, Strike, NothingLost
<1>8. CASE \E t \in DOMAIN jobs : WorkerMeasures(t)
  <2>1. PICK t \in DOMAIN jobs : WorkerMeasures(t)
    BY <1>8
  <2> DEFINE new == [trial |-> t, cycle |-> jobs[t], stray |-> FALSE]
  <2>2. new \in Item /\ new.trial = t /\ new.cycle = jobs[t] /\ ~new.stray
    BY <2>1 DEF WorkerMeasures, Item
  <2>3. /\ jobs' = [jobs EXCEPT ![t] = @ + 1]
        /\ queue' = queue \/ queue' = queue \union {new}
        /\ UNCHANGED <<snapshots, pc, abandoned, batch>>
    BY <2>1 DEF WorkerMeasures, Put
  <2> HIDE DEF new
  <2>4. ASSUME NEW u \in DOMAIN jobs', NEW c \in Cycles, Known(u, c)'
        PROVE  c < jobs'[u]
    <3>1. Known(u, c) \/ (u = t /\ c = jobs[t])
      BY <2>2, <2>3, <2>4
    <3> QED BY <2>3, <2>4, <3>1
  <2>5. ASSUME NEW item \in queue \union batch \union {new},
               NEW c \in snapshots[item.trial]
        PROVE  c < item.cycle
    BY <2>2, <2>5
  <2>6. \A b \in batch : b.trial = t => b.cycle < jobs[t]
    BY DEF Item
  <2> QED BY <2>2, <2>3, <2>4, <2>5, <2>6
<1>9. CASE \E t \in DOMAIN jobs : WorkerReturns(t)
  BY <1>9 DEF WorkerReturns, world, WithoutJob
<1>10. CASE \E t \in DOMAIN jobs : LatePut(t)
  BY <1>10 DEF LatePut, Strike, NothingLost
<1>11. CASE \E job \in abandoned : AbandonedMeasures(job)
  BY <1>11 DEF AbandonedMeasures
<1>12. CASE \E job \in abandoned : AbandonedReturns(job)
  BY <1>12 DEF AbandonedReturns
<1>13. CASE SchedulerStep
  BY <1>13 DEF SchedulerStep, pool
<1>14. CASE \E t \in DOMAIN rows : RunnerStep(t)
  BY <1>14 DEF RunnerStep, pool
<1>15. CASE UNCHANGED vars
  BY <1>15 DEF vars, world, pool
<1> QED BY <1>1, <1>2, <1>3, <1>4, <1>5, <1>6, <1>7, <1>8, <1>9, <1>10,
           <1>11, <1>12, <1>13, <1>14, <1>15
           DEF Next, Loop, Worker, Abandoned, World, Done

\* No hole appears as long as measuring does not raise either.
LEMMA NoHolesStep ==
    ASSUME MeasurerAssumption, Types, InOrder, NoHoles, NoGaps',
           [Next]_vars
    PROVE  NoHoles'
<1> USE DEF MeasurerAssumption, Types, TypeOK, Cycles, InOrder, NoHoles, Known
<1>1. CASE LoopBegins
  BY <1>1 DEF LoopBegins, world, pool
<1>2. CASE MeasureBegins
  <2>1. /\ queue' \union batch' = {} /\ queue \union batch = {}
        /\ snapshots' = snapshots
        /\ jobs' = UnmeasuredSnapshots \/ DOMAIN jobs' = {}
    BY <1>2 DEF MeasureBegins
  <2>2. ASSUME NEW t \in DOMAIN jobs', NEW c \in Cycles, c < jobs'[t]
        PROVE  c \in snapshots[t]
    <3>0. jobs' = UnmeasuredSnapshots
      BY <2>1, <2>2
    <3>1. /\ t \in Trials /\ jobs'[t] \in Cycles /\ jobs'[t] # 0
          /\ jobs'[t] # 0 => jobs'[t] - 1 \in snapshots[t]
      BY <3>0, <2>2, NextCycles
    <3>2. c \in 0..(jobs'[t] - 1) /\ jobs'[t] - 1 \in Cycles
      BY <2>2, <3>1
    <3> QED BY <2>1, <3>1, <3>2
  <2> QED BY <2>1, <2>2
<1>3. CASE QueryRaises
  BY <1>3 DEF QueryRaises, world, pool
<1>4. CASE \E item \in queue : GetSnapshot(item)
  <2>1. /\ queue' \union batch' = queue \union batch
        /\ UNCHANGED <<snapshots, jobs>>
    BY <1>4 DEF GetSnapshot, pool
  <2>2. \A t, c : Known(t, c)' <=> Known(t, c)
    BY <2>1
  <2> HIDE DEF Known
  <2> QED BY <2>1, <2>2
<1>5. CASE QueueIsEmpty
  BY <1>5 DEF QueueIsEmpty, world, pool
<1>6. CASE SaveSnapshots
  <2>1. /\ snapshots' = WithBatch /\ batch' = {} /\ queue' = queue
        /\ jobs' = jobs
    BY <1>6 DEF SaveSnapshots, Strays, pool
  <2>2. \A t \in Trials : \A c :
          c \in snapshots'[t] <=>
            \/ c \in snapshots[t]
            \/ \E item \in batch : item.trial = t /\ item.cycle = c
    BY <2>1 DEF WithBatch
  <2>3. \A t \in Trials : \A c : Known(t, c)' <=> Known(t, c)
    BY <2>1, <2>2
  <2> HIDE DEF Known
  <2> QED BY <2>1, <2>3
<1>7. CASE SaveRaises
  BY <1>7, NoDuplicates DEF SaveRaises, Strike, NoGaps
<1>8. CASE \E t \in DOMAIN jobs : WorkerMeasures(t)
  <2>1. PICK t \in DOMAIN jobs : WorkerMeasures(t)
    BY <1>8
  <2> DEFINE new == [trial |-> t, cycle |-> jobs[t], stray |-> FALSE]
  <2>2. new.trial = t /\ new.cycle = jobs[t]
    OBVIOUS
  <2>3. /\ jobs' = [jobs EXCEPT ![t] = @ + 1]
        /\ queue' = queue \union {new}
        /\ UNCHANGED <<snapshots, batch>>
    <3>1. ~Strike("measure_raise")
      BY DEF Strike, NoGaps
    <3> QED BY <2>1, <3>1 DEF WorkerMeasures, Put
  <2> HIDE DEF new
  <2>4. \A u, c : Known(u, c)' <=> Known(u, c) \/ (u = t /\ c = jobs[t])
    BY <2>2, <2>3
  <2> HIDE DEF Known
  <2>5. ASSUME NEW u \in DOMAIN jobs', NEW c \in Cycles, c < jobs'[u]
        PROVE  Known(u, c)'
    BY <2>3, <2>4, <2>5
  <2>6. ASSUME NEW u \in Trials, NEW c \in Cycles, Known(u, c)', NEW d \in 0..c
        PROVE  Known(u, d)'
    BY <2>3, <2>4, <2>6
  <2> QED BY <2>5, <2>6
<1>9. CASE \E t \in DOMAIN jobs : WorkerReturns(t)
  <2>1. PICK t \in DOMAIN jobs : jobs' = WithoutJob(t)
    BY <1>9 DEF WorkerReturns
  <2>2. \A u, c : Known(u, c)' <=> Known(u, c)
    BY <1>9 DEF WorkerReturns
  <2> HIDE DEF Known
  <2> QED BY <2>1, <2>2 DEF WithoutJob
<1>10. CASE \E t \in DOMAIN jobs : LatePut(t)
  BY <1>10 DEF LatePut, Strike, NoGaps
<1>11. CASE \E job \in abandoned : AbandonedMeasures(job)
  BY <1>11 DEF AbandonedMeasures
<1>12. CASE \E job \in abandoned : AbandonedReturns(job)
  BY <1>12 DEF AbandonedReturns
<1>13. CASE SchedulerStep
  BY <1>13 DEF SchedulerStep, pool
<1>14. CASE \E t \in DOMAIN rows : RunnerStep(t)
  BY <1>14 DEF RunnerStep, pool
<1>15. CASE UNCHANGED vars
  BY <1>15 DEF vars, world, pool
<1> QED BY <1>1, <1>2, <1>3, <1>4, <1>5, <1>6, <1>7, <1>8, <1>9, <1>10,
           <1>11, <1>12, <1>13, <1>14, <1>15
           DEF Next, Loop, Worker, Abandoned, World, Done

\* Trials that have ended stay so.
LEMMA EndedStep ==
    ASSUME allEnded => AllTrialsEnded, [Next]_vars
    PROVE  allEnded' => AllTrialsEnded'
<1>1. CASE LoopBegins
  BY <1>1 DEF LoopBegins, AllTrialsEnded, world
<1>2. CASE SchedulerStep
  BY <1>2 DEF SchedulerStep, AllTrialsEnded, TrialStarts, TrialEnds,
              TrialIsPreempted, SetStatus
<1>3. CASE ~LoopBegins /\ ~SchedulerStep
  <2>1. allEnded' = allEnded /\ rows' = rows
    BY <1>3 DEF Next, Loop, Worker, Abandoned, World, Done, vars,
           MeasureBegins, QueryRaises, GetSnapshot, QueueIsEmpty,
           SaveSnapshots, SaveRaises, WorkerMeasures, WorkerReturns, LatePut,
           AbandonedMeasures, AbandonedReturns, RunnerStep, world
  <2> QED BY <2>1 DEF AllTrialsEnded
<1> QED BY <1>1, <1>2, <1>3

\* A trial without a worker has nothing left to measure.
LEMMA NothingLeftStep ==
    ASSUME MeasurerAssumption, Types, InOrder, NoHoles, NothingLeft,
           allEnded => AllTrialsEnded, NoGaps', [Next]_vars
    PROVE  NothingLeft'
<1> USE DEF MeasurerAssumption, Types, TypeOK, Cycles, InOrder, NothingLeft,
            Counts
<1>1. CASE LoopBegins
  BY <1>1 DEF LoopBegins
<1>2. CASE MeasureBegins
  <2>1. /\ UNCHANGED <<archives, snapshots, rows, allEnded>>
        /\ queue' \union batch' = {} /\ queue \union batch = {}
    BY <1>2 DEF MeasureBegins, world
  <2>2. pc' = "poll" => jobs' = UnmeasuredSnapshots
    BY <1>2 DEF MeasureBegins, AfterMeasuring
  <2>3. pc' = "done" => allEnded /\ DOMAIN UnmeasuredSnapshots = {}
    BY <1>2 DEF MeasureBegins, AfterMeasuring
  <2>4. pc' \notin {"save", "last_save"}
    BY <1>2 DEF MeasureBegins, AfterMeasuring
  <2>5. ASSUME allEnded, NEW t \in DOMAIN rows \ DOMAIN UnmeasuredSnapshots,
               rows[t].status # "preempted"
        PROVE  Covered(t)'
    <3>1. MaxCycle \in snapshots[t]
      BY <2>5, NextCycles DEF AllTrialsEnded
    <3>2. \A d \in 0..MaxCycle : d \in snapshots[t]
      BY <2>1, <3>1 DEF NoHoles, Known
    <3> QED BY <2>1, <3>2 DEF Covered, Known
  <2> QED BY <2>1, <2>2, <2>3, <2>4, <2>5
<1>3. CASE QueryRaises
  BY <1>3 DEF QueryRaises
<1>4. CASE \E item \in queue : GetSnapshot(item)
  <2>1. /\ UNCHANGED <<archives, snapshots, rows, jobs, uncopied, allEnded>>
        /\ queue' \union batch' = queue \union batch
        /\ pc = "poll" /\ pc' # "done"
    BY <1>4 DEF GetSnapshot, world, pool
  <2>2. \A t : Covered(t)' <=> Covered(t)
    BY <2>1 DEF Covered, Known
  <2> QED BY <2>1, <2>2
<1>5. CASE QueueIsEmpty
  <2>1. /\ UNCHANGED <<archives, snapshots, rows, jobs, uncopied, allEnded>>
        /\ queue' \union batch' = queue \union batch
        /\ pc = "poll" /\ pc' # "done"
    BY <1>5 DEF QueueIsEmpty, world, pool
  <2>2. \A t : Covered(t)' <=> Covered(t)
    BY <2>1 DEF Covered, Known
  <2> QED BY <2>1, <2>2
<1>6. CASE SaveSnapshots
  <2>1. /\ UNCHANGED <<archives, rows, jobs, uncopied, allEnded>>
        /\ snapshots' = WithBatch
        /\ pc \in {"save", "last_save"}
        /\ pc' = "done" => allEnded /\ DOMAIN jobs = {}
    BY <1>6 DEF SaveSnapshots, AfterMeasuring, world, pool
  <2>2. \A t \in Trials : \A c : Known(t, c) => Known(t, c)'
    <3>1. queue' = queue /\ batch' = {}
      BY <1>6 DEF SaveSnapshots, Strays
    <3>2. \A t \in Trials : \A c :
            c \in snapshots'[t] <=>
              \/ c \in snapshots[t]
              \/ \E item \in batch : item.trial = t /\ item.cycle = c
      BY <2>1 DEF WithBatch
    <3> QED BY <3>1, <3>2 DEF Known
  <2>3. \A t \in Trials : Covered(t) => Covered(t)'
    BY <2>1, <2>2 DEF Covered
  <2> QED BY <2>1, <2>3
<1>7. CASE SaveRaises
  BY <1>7 DEF SaveRaises
<1>8. CASE \E t \in DOMAIN jobs : WorkerMeasures(t)
  <2>1. PICK t \in DOMAIN jobs : WorkerMeasures(t)
    BY <1>8
  <2>2. /\ UNCHANGED <<archives, snapshots, rows, allEnded, batch, pc,
                       uncopied>>
        /\ DOMAIN jobs' = DOMAIN jobs
        /\ queue \subseteq queue'
    BY <2>1 DEF WorkerMeasures, Put, world
  <2>3. \A u, c : Known(u, c) => Known(u, c)'
    BY <2>2 DEF Known
  <2>4. \A u : Covered(u) => Covered(u)'
    BY <2>2, <2>3 DEF Covered
  <2> QED BY <2>1, <2>2, <2>4
<1>9. CASE \E t \in DOMAIN jobs : WorkerReturns(t)
  <2>1. PICK t \in DOMAIN jobs : WorkerReturns(t)
    BY <1>9
  <2>2. /\ UNCHANGED <<archives, snapshots, rows, allEnded, batch, queue, pc>>
        /\ DOMAIN jobs' = DOMAIN jobs \ {t}
        /\ uncopied \subseteq uncopied'
        /\ ~Measures(t, jobs[t]) \/ t \in uncopied'
    BY <2>1 DEF WorkerReturns, WithoutJob, world
  <2>3. t \in uncopied' \/ Covered(t)
    <3>1. SUFFICES ASSUME ~Measures(t, jobs[t]),
                          NEW c \in Cycles, 0..c \subseteq archives[t]
                   PROVE  Known(t, c)
      BY <2>2 DEF Covered
    <3>2. c < jobs[t]
      BY <3>1 DEF Measures
    <3> QED BY <3>2 DEF NoHoles
  <2>4. \A u : Covered(u)' <=> Covered(u)
    BY <2>2 DEF Covered, Known
  <2> QED BY <2>1, <2>2, <2>3, <2>4
<1>10. CASE \E t \in DOMAIN jobs : LatePut(t)
  BY <1>10 DEF LatePut, Strike, NoGaps
<1>11. CASE \E job \in abandoned : AbandonedMeasures(job)
  BY <1>11 DEF AbandonedMeasures
<1>12. CASE \E job \in abandoned : AbandonedReturns(job)
  BY <1>12 DEF AbandonedReturns
<1>13. CASE SchedulerStep
  <2>1. ~AllTrialsEnded /\ allEnded' = allEnded /\ pc' = pc
    BY <1>13 DEF SchedulerStep, AllTrialsEnded, TrialStarts, TrialEnds,
            TrialIsPreempted, SetStatus
  <2> QED BY <2>1
<1>14. CASE \E t \in DOMAIN rows : RunnerStep(t)
  <2>1. ~AllTrialsEnded /\ allEnded' = allEnded /\ pc' = pc
    BY <1>14 DEF RunnerStep, AllTrialsEnded
  <2> QED BY <2>1
<1>15. CASE UNCHANGED vars
  BY <1>15 DEF vars, Covered, Known
<1> QED BY <1>1, <1>2, <1>3, <1>4, <1>5, <1>6, <1>7, <1>8, <1>9, <1>10,
           <1>11, <1>12, <1>13, <1>14, <1>15
           DEF Next, Loop, Worker, Abandoned, World, Done

-----------------------------------------------------------------------------
(***************************************************************************)
(* The invariant.                                                          *)
(***************************************************************************)
LEMMA InvariantInit ==
    ASSUME MeasurerAssumption, Init
    PROVE  MeasurerInvariant
<1>1. Types
  <2>1. DOMAIN rows = InitialTrials /\ rows \in [InitialTrials -> Table!Trial]
    <3> DEFINE row(t) == [slot |-> t, preemptible |-> Preemptible,
                          status |-> "pending"]
    <3>1. \A t \in InitialTrials : row(t) \in Table!Trial
      BY DEF Table!Trial, Table!Status, MeasurerAssumption
    <3>2. rows = [t \in InitialTrials |-> row(t)]
      BY DEF Init, Table!Init
    <3> HIDE DEF row
    <3> QED BY <3>1, <3>2
  <2>2. DOMAIN jobs = {} /\ jobs \in [{} -> 0..(MaxCycle + 1)]
    BY DEF Init
  <2>3. /\ runnerCycle \in [Trials -> 0..(MaxCycle + 1)]
        /\ archives \in [Trials -> SUBSET Cycles]
        /\ snapshots \in [Trials -> SUBSET Cycles]
        /\ \A t \in Trials : snapshots[t] \subseteq archives[t]
    BY DEF Init, MeasurerAssumption
  <2>4. /\ pc = "test" /\ allEnded = FALSE /\ saved = FALSE
        /\ abandoned = {} /\ uncopied = {}
        /\ queue = {} /\ batch = {} /\ hit = {}
    BY DEF Init
  <2> QED BY <2>1, <2>2, <2>3, <2>4 DEF MeasurerAssumption, Types, TypeOK
<1>2. InOrder /\ NoHoles /\ NothingLeft
  BY DEF Init, Table!Init, InOrder, NoHoles, NothingLeft, Known
<1> QED BY <1>1, <1>2 DEF MeasurerInvariant, Init

LEMMA InvariantStep ==
    ASSUME MeasurerAssumption, MeasurerInvariant, [Next]_vars
    PROVE  MeasurerInvariant'
<1> USE DEF MeasurerInvariant
<1>1. Types' /\ (allEnded' => AllTrialsEnded')
  BY TypesStep, EndedStep
<1>2. (NothingLost' => NothingLost) /\ (NoGaps' => NoGaps)
  BY FaultsStay DEF NothingLost, NoGaps
<1>3. NothingLost' => InOrder'
  BY <1>2, OrderStep
<1>4. NoGaps => NothingLost
  BY DEF NoGaps, NothingLost
<1>5. NoGaps' => NoHoles' /\ NothingLeft'
  BY <1>2, <1>4, NoHolesStep, NothingLeftStep
<1> QED BY <1>1, <1>3, <1>5

\* The inductive invariant holds, whatever fails: its parts say which faults
\* they exclude.
THEOREM InvariantHolds ==
    ASSUME MeasurerAssumption
    PROVE  Spec => []MeasurerInvariant
<1>1. Init => MeasurerInvariant
  BY InvariantInit
<1>2. MeasurerInvariant /\ [Next]_vars => MeasurerInvariant'
  BY InvariantStep
<1> QED BY <1>1, <1>2, PTL DEF Spec

\* The variables keep their types, and every snapshot is of an archive.
THEOREM TypeCorrect ==
    ASSUME MeasurerAssumption
    PROVE  Spec => []TypeOK
<1>1. MeasurerInvariant => TypeOK
  BY DEF MeasurerInvariant, Types
<1> QED BY <1>1, InvariantHolds, PTL

\* When the measurer stops, every trial that counts is measured up to the
\* first archive that is missing, unless a copy failed in its last call.
THEOREM MeasuredAtTheEnd ==
    ASSUME MeasurerAssumption
    PROVE  Spec => []MeasuredWhenDone
<1>1. MeasurerInvariant => MeasuredWhenDone
  <2>1. SUFFICES ASSUME MeasurerInvariant, pc = "done", NoGaps,
                        NEW t \in DOMAIN rows \ uncopied, Counts(t)
                 PROVE  \A c \in Cycles :
                          0..c \subseteq archives[t] => c \in snapshots[t]
    BY DEF MeasuredWhenDone, NoGaps
  <2>2. NothingLost
    BY <2>1 DEF NoGaps, NothingLost
  <2>3. Covered(t) /\ queue = {} /\ batch = {}
    BY <2>1, <2>2 DEF MeasurerInvariant, NothingLeft, InOrder
  <2> QED BY <2>3 DEF Covered, Known
<1> QED BY <1>1, InvariantHolds, PTL

\* The snapshots of a trial have no holes, unless a batch or a measurement is
\* lost.
THEOREM Contiguous ==
    ASSUME MeasurerAssumption
    PROVE  Spec => []SnapshotsContiguous
<1>1. MeasurerInvariant => SnapshotsContiguous
  <2>1. SUFFICES ASSUME MeasurerInvariant, NoGaps, NEW t \in Trials,
                        NEW c \in snapshots[t], NEW d \in 0..c
                 PROVE  d \in snapshots[t]
    BY DEF SnapshotsContiguous, NoGaps
  <2>2. InOrder /\ NoHoles /\ TypeOK
    BY <2>1 DEF MeasurerInvariant, NoGaps, NothingLost, Types
  <2>3. c \in Cycles /\ Known(t, c)
    BY <2>2 DEF TypeOK, Known
  <2>4. Known(t, d)
    BY <2>2, <2>3 DEF NoHoles
  <2>5. \A item \in queue \union batch : item.trial = t => item.cycle # d
    BY <2>2, <2>3 DEF InOrder, TypeOK, Item, Cycles
  <2> QED BY <2>4, <2>5 DEF Known
<1> QED BY <1>1, InvariantHolds, PTL

\* No two workers measure one trial, unless a batch is lost or a put comes
\* late.
THEOREM OneWorker ==
    ASSUME MeasurerAssumption
    PROVE  Spec => []OneWorkerPerTrial
<1>1. MeasurerInvariant => OneWorkerPerTrial
  BY DEF MeasurerInvariant, NothingLost, InOrder, OneWorkerPerTrial
<1> QED BY <1>1, InvariantHolds, PTL
=============================================================================
