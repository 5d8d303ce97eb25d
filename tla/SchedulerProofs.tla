--------------------------- MODULE SchedulerProofs ---------------------------
(***************************************************************************)
(* Proofs about Scheduler, for every number of trials, every configuration *)
(* and every set of faults.                                                *)
(***************************************************************************)
EXTENDS SchedulerTable, FiniteSetTheorems, TLAPS

USE DEF Commit, CommitFails

-----------------------------------------------------------------------------
(***************************************************************************)
(* Operators.                                                              *)
(***************************************************************************)

\* A set of trials is finite: its cardinality is a number.
LEMMA TrialSetsAreFinite ==
    ASSUME NEW S \in SUBSET Trials
    PROVE  IsFiniteSet(S) /\ Cardinality(S) \in Nat
BY TrialsAssumption, FS_Subset, FS_CardinalityType

\* What _get_preempted_replacements decides is a set of the preempted trials
\* with a kind of instance for each.
LEMMA ReplacementsType ==
    ASSUME NEW rows, NEW S \in SUBSET Trials, NEW c \in Replacements(rows, S)
    PROVE  /\ DOMAIN c \in SUBSET S
           /\ c \in [DOMAIN c -> BOOLEAN]
<1>1. CASE ~PreemptibleWindowPassed(rows)
  BY <1>1 DEF Replacements
<1>2. CASE PreemptibleWindowPassed(rows)
  <2>1. PICK R \in SUBSET S : c = [t \in R |-> FALSE]
    BY <1>2 DEF Replacements
  <2>2. QED
    BY <2>1
<1>3. QED
  BY <1>1, <1>2

\* A batch of start_trials only has pending trials.
LEMMA StartBatchesType ==
    ASSUME NEW b \in StartBatches
    PROVE  /\ DOMAIN b \in SUBSET PendingTrials(sess)
           /\ \A t \in DOMAIN b : b[t] \in Cpusets \union {NoCpuset}
<1>1. CASE Cpusets = {}
  BY <1>1 DEF StartBatches
<1>2. CASE Cpusets # {}
  <2>1. PICK S \in SUBSET PendingTrials(sess) : b \in Injection(S, FreeCpusets)
    BY <1>2 DEF StartBatches
  <2>2. QED
    BY <2>1 DEF Injection, FreeCpusets
<1>3. QED
  BY <1>1, <1>2

\* add_all of the replacements keeps the old rows and adds, for each new id,
\* a pending row in the slot of the trial it replaces.
LEMMA WithReplacementsRows ==
    ASSUME NEW rows, NEW newId, NEW R, NEW F,
           newId \in Injection(R, F), R \subseteq DOMAIN rows,
           F \intersect DOMAIN rows = {}
    PROVE  /\ DOMAIN WithReplacements(rows, newId) = DOMAIN rows \union Range(newId)
           /\ Range(newId) \subseteq F
           /\ \A t \in DOMAIN rows : WithReplacements(rows, newId)[t] = rows[t]
           /\ \A t \in R : WithReplacements(rows, newId)[newId[t]] =
                            NewRow(rows[t].slot, replacing[t])
           /\ \A u \in Range(newId) : \E t \in R : u = newId[t]
<1> DEFINE new == WithReplacements(rows, newId)
<1>1. newId \in [R -> F] /\ \A s, t \in R : newId[s] = newId[t] => s = t
  BY DEF Injection, IsInjective
<1>2. Range(newId) \subseteq F
  BY <1>1 DEF Range
<1>3. DOMAIN new = DOMAIN rows \union Range(newId)
  BY DEF WithReplacements
<1>4. \A t \in DOMAIN rows : new[t] = rows[t]
  BY DEF WithReplacements
<1>5. ASSUME NEW t \in R
      PROVE  new[newId[t]] = NewRow(rows[t].slot, replacing[t])
  <2>1. newId[t] \in Range(newId) /\ newId[t] \notin DOMAIN rows
    BY <1>1, <1>2 DEF Range
  <2>2. (CHOOSE s \in DOMAIN newId : newId[s] = newId[t]) = t
    BY <1>1
  <2>3. QED
    BY <2>1, <2>2 DEF WithReplacements
<1>6. \A u \in Range(newId) : \E t \in R : u = newId[t]
  BY <1>1, <1>3 DEF Range
<1>7. QED
  BY <1>2, <1>3, <1>4, <1>5, <1>6

\* The same for the rows and the new ids of SavePreempted.
SavedIn(new, newId) ==
    /\ DOMAIN new = DOMAIN sess \union Range(newId)
    /\ Range(newId) \subseteq Trials
    /\ \A t \in DOMAIN sess : new[t] = sess[t]
    /\ \A t \in DOMAIN replacing :
         new[newId[t]] = NewRow(sess[t].slot, replacing[t])
    /\ \A u \in Range(newId) :
         u \notin DOMAIN sess /\ \E t \in DOMAIN replacing : u = newId[t]

LEMMA SavedRows ==
    ASSUME TypeOK,
           NEW newId, newId \in Injection(DOMAIN replacing, Trials \ DOMAIN sess)
    PROVE  SavedIn(WithReplacements(sess, newId), newId)
<1> DEFINE F == Trials \ DOMAIN sess
           R == DOMAIN replacing
<1>1. R \subseteq DOMAIN sess /\ F \intersect DOMAIN sess = {}
  BY DEF TypeOK
<1>2. newId \in Injection(R, F)
  OBVIOUS
<1> HIDE DEF F, R
<1> DEFINE W == WithReplacements(sess, newId)
<1>3. /\ DOMAIN W = DOMAIN sess \union Range(newId)
      /\ Range(newId) \subseteq F
      /\ \A t \in DOMAIN sess : W[t] = sess[t]
      /\ \A t \in R : W[newId[t]] = NewRow(sess[t].slot, replacing[t])
      /\ \A u \in Range(newId) : \E t \in R : u = newId[t]
  BY <1>1, <1>2, WithReplacementsRows
<1>4. QED
  BY <1>3 DEF F, R, SavedIn

\* Marking trials as started, ended or preempted yields rows again.
LEMMA MarkedRows ==
    ASSUME NEW rows, rows \in [DOMAIN rows -> Row], NEW S
    PROVE  /\ WithStarted(rows, S) \in [DOMAIN rows -> Row]
           /\ WithEnded(rows, S) \in [DOMAIN rows -> Row]
           /\ WithPreempted(rows, S) \in [DOMAIN rows -> Row]
           /\ DOMAIN WithStarted(rows, S) = DOMAIN rows
           /\ DOMAIN WithEnded(rows, S) = DOMAIN rows
           /\ DOMAIN WithPreempted(rows, S) = DOMAIN rows
<1>1. \A t \in DOMAIN rows :
         /\ [rows[t] EXCEPT !.started = TRUE] \in Row
         /\ [rows[t] EXCEPT !.ended = TRUE] \in Row
         /\ [rows[t] EXCEPT !.ended = TRUE, !.preempted = TRUE] \in Row
  BY DEF Row
<1>2. QED
  BY <1>1 DEF WithStarted, WithEnded, WithPreempted

-----------------------------------------------------------------------------
(***************************************************************************)
(* Type correctness.                                                       *)
(***************************************************************************)
LEMMA TypeInit == Init => TypeOK
<1> SUFFICES ASSUME Init PROVE TypeOK
  OBVIOUS
<1> USE TrialsAssumption, ConfigAssumption
<1>1. \A t \in InitialTrials : NewRow(t, Preemptible) \in Row
  BY DEF Row, NewRow
<1>2. sess \in [InitialTrials -> Row] /\ DOMAIN sess = InitialTrials
  BY <1>1 DEF Init
<1>3. age \in [Trials -> 0..AgeLimit] /\ preemptions \in 0..MaxPreemptions
  BY DEF Init, AgeLimit
<1>4. jobs = [t \in {} |-> NoCpuset] /\ replacing = [t \in {} |-> FALSE]
  BY DEF Init
<1>5. handlePreempted \in BOOLEAN
  BY DEF Init
<1>6. QED
  BY <1>2, <1>3, <1>4, <1>5 DEF Init, TypeOK

LEMMA TypeStep == TypeOK /\ [Next]_vars => TypeOK'
<1> SUFFICES ASSUME TypeOK, [Next]_vars PROVE TypeOK'
  OBVIOUS
<1> USE TrialsAssumption, ConfigAssumption
<1>1. CASE LoopTest
  BY <1>1 DEF LoopTest, TypeOK
<1>2. CASE EndExpiredTrials
  <2>1. sess' \in [DOMAIN sess -> Row] /\ DOMAIN sess' = DOMAIN sess
    BY <1>2, MarkedRows DEF EndExpiredTrials, TypeOK
  <2>2. ExpiredTrials(sess) \subseteq DOMAIN sess
    BY DEF ExpiredTrials, RunningTrials, NonpreemptedTrials
  <2>3. QED
    BY <1>2, <2>1, <2>2 DEF EndExpiredTrials, CoresFreed, TypeOK
<1>3. CASE DeleteExpired
  BY <1>3 DEF DeleteExpired, Deleted, TypeOK
<1>4. CASE SaveExpired
  BY <1>4 DEF SaveExpired, TypeOK
<1>5. CASE StartTrials
  <2>1. PICK b \in StartBatches :
          jobs' = [t \in DOMAIN b |-> [cpuset |-> b[t], state |-> "queued"]]
    BY <1>5 DEF StartTrials
  <2>2. DOMAIN b \subseteq DOMAIN sess
    BY StartBatchesType DEF PendingTrials, NonpreemptedTrials
  <2>3. QED
    BY <1>5, <2>1, <2>2, StartBatchesType DEF StartTrials, TypeOK
<1>6. CASE UpdateStartedTrials
  <2>1. cores' \in [Cpusets -> Trials \union {NoTrial}]
    <3>1. \A c \in Cpusets : (\E t \in StartedJobs : jobs[t].cpuset = c) =>
             (CHOOSE t \in StartedJobs : jobs[t].cpuset = c) \in StartedJobs
      OBVIOUS
    <3>2. StartedJobs \subseteq Trials
      BY DEF StartedJobs, TypeOK
    <3>3. CASE UNCHANGED cores
      BY <3>3 DEF TypeOK
    <3>4. CASE cores' = [c \in Cpusets |->
                 IF \E t \in StartedJobs : jobs[t].cpuset = c
                 THEN CHOOSE t \in StartedJobs : jobs[t].cpuset = c
                 ELSE cores[c]]
      BY <3>1, <3>2, <3>4 DEF TypeOK
    <3>5. QED
      BY <1>6, <3>3, <3>4 DEF UpdateStartedTrials
  <2>2. /\ DOMAIN sess' = DOMAIN sess /\ DOMAIN db' = DOMAIN sess
        /\ sess' \in [DOMAIN sess -> Row] /\ db' \in [DOMAIN sess -> Row]
    BY <1>6, MarkedRows DEF UpdateStartedTrials, TypeOK
  <2>3. DOMAIN jobs' = {} /\ jobs' = [t \in {} |-> NoCpuset]
    BY <1>6 DEF UpdateStartedTrials
  <2>4. pc' \in {"test", "preempted"}
    BY <1>6 DEF UpdateStartedTrials
  <2>5. QED
    BY <1>6, <2>1, <2>2, <2>3, <2>4 DEF UpdateStartedTrials, TypeOK
<1>7. CASE GetPreemptedTrials
  <2>1. NewlyPreempted \subseteq DOMAIN sess /\ NewlyPreempted \in SUBSET Trials
    BY DEF NewlyPreempted, RunningTrials, NonpreemptedTrials, TypeOK
  <2>2. PICK c \in Replacements(sess, NewlyPreempted) :
          /\ replacing' = c
          /\ omits' = omits + Cardinality(NewlyPreempted \ DOMAIN c)
    BY <1>7 DEF GetPreemptedTrials
  <2>3. DOMAIN c \subseteq NewlyPreempted /\ c \in [DOMAIN c -> BOOLEAN]
    BY <2>1, ReplacementsType
  <2>4. omits' \in Nat
    BY <2>1, <2>2, TrialSetsAreFinite DEF TypeOK
  <2>5. DOMAIN sess' = DOMAIN sess /\ sess' \in [DOMAIN sess -> Row]
    BY <1>7, MarkedRows DEF GetPreemptedTrials, TypeOK
  <2>6. QED
    BY <1>7, <2>1, <2>2, <2>3, <2>4, <2>5 DEF GetPreemptedTrials, TypeOK
<1>8. CASE QueryRaises
  BY <1>8 DEF QueryRaises, TypeOK
<1>9. CASE DeletePreempted
  BY <1>9 DEF DeletePreempted, Deleted, TypeOK
<1>10. CASE SavePreempted
  <2>1. DOMAIN replacing' = {} /\ replacing' = [t \in {} |-> FALSE]
    BY <1>10 DEF SavePreempted
  <2>2. /\ DOMAIN sess' \subseteq Trials /\ DOMAIN db' = DOMAIN sess'
        /\ DOMAIN sess \subseteq DOMAIN sess'
        /\ sess' \in [DOMAIN sess' -> Row] /\ db' \in [DOMAIN sess' -> Row]
    <3>1. CASE CommitFails
      BY <3>1 DEF TypeOK
    <3>2. ASSUME NEW newId \in Injection(DOMAIN replacing, Trials \ DOMAIN sess),
                 Commit(WithReplacements(sess, newId))
          PROVE  <2>2
      <4> DEFINE new == WithReplacements(sess, newId)
      <4>s. SavedIn(new, newId)
        BY SavedRows
      <4>1. /\ DOMAIN new = DOMAIN sess \union Range(newId)
            /\ Range(newId) \subseteq Trials
            /\ \A t \in DOMAIN sess : new[t] = sess[t]
            /\ \A t \in DOMAIN replacing :
                 new[newId[t]] = NewRow(sess[t].slot, replacing[t])
            /\ \A u \in Range(newId) : \E t \in DOMAIN replacing : u = newId[t]
        BY <4>s DEF SavedIn
      <4>2. \A t \in DOMAIN replacing : NewRow(sess[t].slot, replacing[t]) \in Row
        BY DEF TypeOK, NewRow, Row
      <4>3. \A u \in DOMAIN new : new[u] \in Row
        BY <4>1, <4>2 DEF TypeOK
      <4>4. new = [u \in DOMAIN new |-> new[u]]
        BY DEF WithReplacements
      <4>5. sess' = new /\ db' = new
        BY <3>2
      <4>6. QED
        BY <4>1, <4>3, <4>4, <4>5 DEF TypeOK
    <3>3. QED
      BY <1>10, <3>1, <3>2 DEF SavePreempted
  <2>3. pc' = "test"
    BY <1>10 DEF SavePreempted
  <2>4. QED
    BY <1>10, <2>1, <2>2, <2>3 DEF SavePreempted, TypeOK
<1>11. CASE Tick
  BY <1>11 DEF Tick, TypeOK, AgeLimit
<1>12. ASSUME NEW t \in DOMAIN sess, PreemptInstance(t) PROVE TypeOK'
  BY <1>12 DEF PreemptInstance, TypeOK
<1>13. ASSUME NEW t \in DOMAIN sess, ContainerExits(t) PROVE TypeOK'
  BY <1>13 DEF ContainerExits, TypeOK
<1>14. ASSUME NEW t \in DOMAIN jobs, InstanceCreated(t) PROVE TypeOK'
  BY <1>14 DEF InstanceCreated, InstanceAppears, JobEnds, TypeOK, AgeLimit
<1>15. ASSUME NEW t \in DOMAIN jobs, InstanceNotCreated(t) PROVE TypeOK'
  BY <1>15 DEF InstanceNotCreated, InstanceAppears, JobEnds, TypeOK
<1>16. ASSUME NEW t \in DOMAIN jobs, StartRaises(t) PROVE TypeOK'
  BY <1>16 DEF StartRaises, JobEnds, TypeOK
<1>17. CASE UNCHANGED vars
  BY <1>17 DEF vars, TypeOK
<1>18. CASE HandlingRaises
  <2>1. NewlyPreempted \subseteq DOMAIN sess
    BY DEF NewlyPreempted, RunningTrials, NonpreemptedTrials
  <2>2. DOMAIN sess' = DOMAIN sess /\ sess' \in [DOMAIN sess -> Row]
    BY <1>18, MarkedRows DEF HandlingRaises, TypeOK
  <2>3. QED
    BY <1>18, <2>1, <2>2 DEF HandlingRaises, TypeOK
<1>19. QED
  BY <1>1, <1>2, <1>3, <1>4, <1>5, <1>6, <1>7, <1>8, <1>9, <1>10, <1>11,
     <1>12, <1>13, <1>14, <1>15, <1>16, <1>17, <1>18
     DEF Next, Iteration, World, Worker

\* Every variable keeps its type, whatever fails: in particular rows never
\* leave the database and the session always has the rows of the database.
THEOREM TypeCorrect == Spec => []TypeOK
BY TypeInit, TypeStep, PTL DEF Spec

-----------------------------------------------------------------------------
(***************************************************************************)
(* The inductive invariant.                                                *)
(***************************************************************************)

\* A commit makes the session and the database equal: what is left to show
\* is about one table of rows.
LEMMA EqualRowsAreAhead ==
    ASSUME TypeOK, sess = db PROVE SessionIsAhead
BY DEF SessionIsAhead, AheadOf, TypeOK

\* A trial the session shows as running is running in the database.
LEMMA RunningIsCommitted ==
    ASSUME TypeOK, SessionIsAhead, NEW t \in RunningTrials(sess)
    PROVE  sess[t] = db[t] /\ db[t].started /\ ~db[t].ended /\ ~db[t].preempted
<1>1. t \in DOMAIN db /\ ~sess[t].ended /\ ~sess[t].preempted /\ sess[t].started
  BY DEF RunningTrials, NonpreemptedTrials, TypeOK
<1>2. db[t] \in Row
  BY <1>1 DEF TypeOK
<1>3. [db[t] EXCEPT !.ended = TRUE].ended = TRUE
      /\ [db[t] EXCEPT !.ended = TRUE, !.preempted = TRUE].ended = TRUE
  BY <1>2 DEF Row
<1>4. QED
  BY <1>1, <1>2, <1>3 DEF SessionIsAhead, AheadOf

\* Before a commit, no two uncommitted rows count for one slot either.
LEMMA OneLiveInSession ==
    ASSUME TypeOK, SessionIsAhead, OneLiveTrialPerSlot,
           NEW t \in NonpreemptedTrials(sess), NEW u \in NonpreemptedTrials(sess),
           sess[t].slot = sess[u].slot
    PROVE  t = u
<1>1. ASSUME NEW v \in NonpreemptedTrials(sess)
      PROVE  v \in NonpreemptedTrials(db) /\ sess[v].slot = db[v].slot
  <2>1. v \in DOMAIN db /\ ~sess[v].preempted /\ db[v] \in Row
    BY DEF NonpreemptedTrials, TypeOK
  <2>2. AheadOf(sess[v], db[v])
    BY <2>1 DEF SessionIsAhead
  <2>3. QED
    BY <2>1, <2>2 DEF AheadOf, NonpreemptedTrials, Row
<1>2. QED
  BY <1>1 DEF OneLiveTrialPerSlot

\* Ending running trials, as expired or as preempted, keeps the session
\* ahead of the database and every end after a start.
LEMMA EndingKeepsAhead ==
    ASSUME TypeOK, SessionIsAhead, EndsInOrder(sess),
           NEW S, S \subseteq RunningTrials(sess), NEW new,
           new = WithEnded(sess, S) \/ new = WithPreempted(sess, S)
    PROVE  /\ \A t \in DOMAIN db : AheadOf(new[t], db[t])
           /\ EndsInOrder(new)
           /\ \A t \in DOMAIN sess : new[t].started = sess[t].started
<1>1. ASSUME NEW t \in DOMAIN sess, t \in S
      PROVE  /\ AheadOf(new[t], db[t])
             /\ new[t].ended /\ new[t].started /\ sess[t].started
  <2>1. /\ sess[t] = db[t] /\ db[t].started /\ ~db[t].ended /\ ~db[t].preempted
        /\ db[t] \in Row
    BY <1>1, RunningIsCommitted DEF TypeOK
  <2>2. CASE new[t] = [sess[t] EXCEPT !.ended = TRUE]
    BY <2>1, <2>2 DEF AheadOf, Row
  <2>3. CASE new[t] = [sess[t] EXCEPT !.ended = TRUE, !.preempted = TRUE]
    BY <2>1, <2>3 DEF AheadOf, Row
  <2>4. QED
    BY <1>1, <2>2, <2>3 DEF WithEnded, WithPreempted
<1>2. ASSUME NEW t \in DOMAIN sess, t \notin S PROVE new[t] = sess[t]
  BY <1>2 DEF WithEnded, WithPreempted
<1>3. DOMAIN new = DOMAIN sess /\ DOMAIN db = DOMAIN sess
  BY DEF WithEnded, WithPreempted, TypeOK
<1>4. \A t \in DOMAIN sess : new[t].started = sess[t].started
  <2>1. ASSUME NEW t \in DOMAIN sess, t \in S
        PROVE  new[t].started = sess[t].started
    <3>1. sess[t] \in Row
      BY DEF TypeOK
    <3>2. QED
      BY <2>1, <3>1 DEF WithEnded, WithPreempted, Row
  <2>2. QED
    BY <1>2, <2>1
<1>5. \A t \in DOMAIN db : AheadOf(new[t], db[t])
  BY <1>1, <1>2, <1>3 DEF SessionIsAhead
<1>6. EndsInOrder(new)
  BY <1>1, <1>2, <1>3 DEF EndsInOrder
<1>7. QED
  BY <1>4, <1>5, <1>6

\* What of a row is the same in the session and in the database.
LEMMA AheadKeeps ==
    ASSUME TypeOK, SessionIsAhead, NEW t \in DOMAIN sess
    PROVE  /\ sess[t].started = db[t].started
           /\ sess[t].slot = db[t].slot
           /\ db[t].preempted => sess[t].preempted
<1>1. t \in DOMAIN db /\ db[t] \in Row /\ AheadOf(sess[t], db[t])
  BY DEF TypeOK, SessionIsAhead
<1>2. QED
  BY <1>1 DEF AheadOf, Row

\* Rolling back the session loses nothing that the invariant speaks of.
LEMMA RollbackKeeps ==
    ASSUME SchedulerInvariant, TypeOK', sess' = db, db' = db, pc' = "test",
           DOMAIN replacing' = {}, handlePreempted' = handlePreempted,
           jobs' = jobs \/ DOMAIN jobs' = {}
    PROVE  SchedulerInvariant'
<1> USE DEF SchedulerInvariant
<1>1. SessionIsAhead'
  BY DEF SessionIsAhead, AheadOf, TypeOK
<1>2. EndsInOrder(sess)' /\ EndsInOrder(db)'
  BY DEF EndsInOrder
<1>3. JobsArePending'
  BY AheadKeeps DEF JobsArePending, TypeOK
<1>4. HandlingBegins'
  <2>1. (\E t \in DOMAIN db : db[t].preempted) => handlePreempted
    BY AheadKeeps DEF HandlingBegins, TypeOK
  <2>2. handlePreempted => \A i \in InitialTrials : db[i].started
    BY AheadKeeps DEF HandlingBegins, TypeOK
  <2>3. QED
    BY <2>1, <2>2 DEF HandlingBegins
<1>5. ReplacementsInHand' /\ OneLiveTrialPerSlot'
  BY DEF ReplacementsInHand, OneLiveTrialPerSlot, NonpreemptedTrials
<1>6. QED
  BY <1>1, <1>2, <1>3, <1>4, <1>5

\* A commit of rows that change nothing but time_started keeps the invariant,
\* provided the rows in hand are none.
LEMMA CommitKeeps ==
    ASSUME SchedulerInvariant, TypeOK', NEW S, S \subseteq DOMAIN jobs,
           Commit(WithStarted(sess, S)) \/ Commit(sess),
           DOMAIN replacing' = {}, handlePreempted' = handlePreempted,
           pc' = "preempted" => handlePreempted,
           pc' \notin {"delete_preempted", "save_preempted"},
           (jobs' = jobs /\ sess' = sess) \/ DOMAIN jobs' = {}
    PROVE  SchedulerInvariant'
<1> USE DEF SchedulerInvariant
<1>1. SessionIsAhead'
  BY EqualRowsAreAhead DEF SessionIsAhead, AheadOf, TypeOK
<1>2. /\ DOMAIN sess' = DOMAIN sess
      /\ \A t \in DOMAIN sess :
            /\ sess'[t].slot = sess[t].slot
            /\ sess'[t].preempted = sess[t].preempted
            /\ sess'[t].ended = sess[t].ended
            /\ sess[t].started => sess'[t].started
  <2>1. \A t \in DOMAIN sess : sess[t] \in Row
    BY DEF TypeOK
  <2>2. \A t \in DOMAIN sess :
           LET r == [sess[t] EXCEPT !.started = TRUE]
           IN  /\ r.slot = sess[t].slot
               /\ r.preempted = sess[t].preempted
               /\ r.ended = sess[t].ended
               /\ r.started
    BY <2>1 DEF Row
  <2>3. CASE Commit(sess)
    BY <2>3
  <2>4. CASE Commit(WithStarted(sess, S))
    <3>1. sess' = WithStarted(sess, S)
      BY <2>4
    <3>2. QED
      BY <2>2, <3>1 DEF WithStarted
  <2>5. QED
    BY <2>3, <2>4
<1>3. EndsInOrder(sess)' /\ EndsInOrder(db)'
  <2>1. EndsInOrder(sess)'
    BY <1>2 DEF EndsInOrder
  <2>2. QED
    BY <2>1
<1>4. JobsArePending'
  <2>1. CASE DOMAIN jobs' = {}
    BY <2>1 DEF JobsArePending
  <2>2. CASE jobs' = jobs /\ sess' = sess
    BY <2>2 DEF JobsArePending
  <2>3. QED
    BY <2>1, <2>2
<1>5. HandlingBegins'
  BY <1>2 DEF HandlingBegins, TypeOK
<1> HIDE DEF SchedulerInvariant
<1>6. OneLiveTrialPerSlot'
  <2>0. TypeOK /\ SessionIsAhead /\ OneLiveTrialPerSlot /\ sess' = db'
    BY DEF SchedulerInvariant
  <2> SUFFICES ASSUME NEW t \in NonpreemptedTrials(db)',
                      NEW u \in NonpreemptedTrials(db)',
                      db'[t].slot = db'[u].slot
               PROVE  t = u
    BY DEF OneLiveTrialPerSlot
  <2>1. t \in NonpreemptedTrials(sess) /\ u \in NonpreemptedTrials(sess)
    BY <1>2, <2>0 DEF NonpreemptedTrials
  <2>2. sess[t].slot = sess[u].slot
    BY <1>2, <2>0, <2>1 DEF NonpreemptedTrials
  <2>3. QED
    BY <2>0, <2>1, <2>2, OneLiveInSession
<1>7. ReplacementsInHand'
  BY DEF ReplacementsInHand
<1>8. QED
  BY <1>1, <1>3, <1>4, <1>5, <1>6, <1>7 DEF SchedulerInvariant

\* A step that touches neither the session nor the database.
LEMMA FrameKeeps ==
    ASSUME SchedulerInvariant, TypeOK', sess' = sess, db' = db,
           \A t \in DOMAIN jobs' : t \in DOMAIN jobs \/ ~sess[t].started,
           replacing' = replacing \/ DOMAIN replacing' = {},
           DOMAIN replacing' # {} => pc' \in {"delete_preempted", "save_preempted"},
           handlePreempted' = handlePreempted,
           pc' \in {"preempted", "delete_preempted", "save_preempted"} =>
              handlePreempted
    PROVE  SchedulerInvariant'
<1> USE DEF SchedulerInvariant
<1>1. SessionIsAhead' /\ EndsInOrder(sess)' /\ EndsInOrder(db)'
  BY DEF SessionIsAhead, AheadOf, EndsInOrder
<1>2. JobsArePending'
  BY DEF JobsArePending
<1>3. ReplacementsInHand'
  BY DEF ReplacementsInHand
<1>4. HandlingBegins'
  BY DEF HandlingBegins
<1>5. OneLiveTrialPerSlot'
  BY DEF OneLiveTrialPerSlot, NonpreemptedTrials
<1>6. QED
  BY <1>1, <1>2, <1>3, <1>4, <1>5

LEMMA EndExpiredKeeps ==
    ASSUME SchedulerInvariant, TypeOK', EndExpiredTrials
    PROVE  SchedulerInvariant'
<1> DEFINE E == ExpiredTrials(sess)
<1>1. /\ sess' = WithEnded(sess, E) /\ db' = db /\ jobs' = jobs
      /\ pc = "schedule" /\ pc' \in {"start", "save_expired", "delete_expired"}
      /\ replacing' = replacing
      /\ handlePreempted' = (handlePreempted \/ (~Local /\ PendingTrials(sess) = {}))
  BY DEF EndExpiredTrials, StartedInitialTrials
<1>2. E \subseteq RunningTrials(sess)
  BY DEF ExpiredTrials
<1>3. /\ \A t \in DOMAIN db : AheadOf(sess'[t], db[t])
      /\ EndsInOrder(sess')
      /\ \A t \in DOMAIN sess : sess'[t].started = sess[t].started
  BY <1>1, <1>2, EndingKeepsAhead DEF SchedulerInvariant
<1>4. DOMAIN sess' = DOMAIN sess
      /\ \A t \in DOMAIN sess : sess'[t].preempted = sess[t].preempted
  <2>1. \A t \in DOMAIN sess :
          [sess[t] EXCEPT !.ended = TRUE].preempted = sess[t].preempted
    BY DEF SchedulerInvariant, TypeOK, Row
  <2>2. QED
    BY <1>1, <2>1 DEF WithEnded
<1>5. SessionIsAhead'
  BY <1>1, <1>3 DEF SessionIsAhead
<1>6. JobsArePending' /\ ReplacementsInHand'
  <2>1. DOMAIN replacing = {}
    BY <1>1 DEF SchedulerInvariant, ReplacementsInHand
  <2>2. DOMAIN jobs \subseteq DOMAIN sess
    BY DEF SchedulerInvariant, TypeOK
  <2>3. QED
    BY <1>1, <1>3, <2>1, <2>2
       DEF SchedulerInvariant, JobsArePending, ReplacementsInHand
<1>7. HandlingBegins'
  <2>1. (\E t \in DOMAIN sess' : sess'[t].preempted) => handlePreempted
    BY <1>4 DEF SchedulerInvariant, HandlingBegins
  <2>2. ASSUME NEW i \in InitialTrials, handlePreempted' PROVE sess'[i].started
    <3>1. i \in DOMAIN sess
      BY DEF SchedulerInvariant, TypeOK
    <3>2. CASE handlePreempted
      BY <1>3, <3>1, <3>2 DEF SchedulerInvariant, HandlingBegins
    <3>3. CASE ~handlePreempted
      <4>1. PendingTrials(sess) = {}
        BY <1>1, <2>2, <3>3
      <4>2. ~sess[i].preempted
        BY <3>1, <3>3 DEF SchedulerInvariant, HandlingBegins
      <4>3. sess[i].started
        BY <3>1, <4>1, <4>2 DEF PendingTrials, NonpreemptedTrials
      <4>4. QED
        BY <1>3, <3>1, <4>3
    <3>4. QED
      BY <3>2, <3>3
  <2>3. handlePreempted => handlePreempted'
    BY <1>1
  <2>4. QED
    BY <1>1, <2>1, <2>2, <2>3 DEF HandlingBegins
<1>8. OneLiveTrialPerSlot' /\ EndsInOrder(db)'
  BY <1>1 DEF SchedulerInvariant, OneLiveTrialPerSlot, NonpreemptedTrials, EndsInOrder
<1>9. QED
  BY <1>3, <1>5, <1>6, <1>7, <1>8 DEF SchedulerInvariant

LEMMA GetPreemptedKeeps ==
    ASSUME SchedulerInvariant, TypeOK', GetPreemptedTrials
    PROVE  SchedulerInvariant'
<1> DEFINE P == NewlyPreempted
<1>1. /\ sess' = WithPreempted(sess, P) /\ db' = db /\ jobs' = jobs
      /\ pc = "preempted"
      /\ pc' = IF P = {} THEN "test" ELSE "delete_preempted"
      /\ handlePreempted' = handlePreempted
      /\ replacing' \in Replacements(sess, P)
  BY DEF GetPreemptedTrials
<1>2. P \subseteq RunningTrials(sess) /\ P \in SUBSET Trials
  BY DEF NewlyPreempted, RunningTrials, NonpreemptedTrials, SchedulerInvariant, TypeOK
<1>3. /\ \A t \in DOMAIN db : AheadOf(sess'[t], db[t])
      /\ EndsInOrder(sess')
      /\ \A t \in DOMAIN sess : sess'[t].started = sess[t].started
  BY <1>1, <1>2, EndingKeepsAhead DEF SchedulerInvariant
<1>4. SessionIsAhead' /\ EndsInOrder(sess)' /\ EndsInOrder(db)'
  BY <1>1, <1>3 DEF SessionIsAhead, SchedulerInvariant, EndsInOrder
<1>5. JobsArePending'
  BY <1>1, <1>3 DEF SchedulerInvariant, JobsArePending, TypeOK
<1>6. ReplacementsInHand'
  <2>1. DOMAIN replacing' \subseteq P
    BY <1>1, <1>2, ReplacementsType
  <2>2. ASSUME NEW t \in P PROVE sess'[t].preempted /\ ~db[t].ended
    <3>1. t \in DOMAIN sess /\ sess[t] \in Row
      BY <1>2 DEF RunningTrials, NonpreemptedTrials, SchedulerInvariant, TypeOK
    <3>2. ~db[t].ended
      BY <1>2, RunningIsCommitted DEF SchedulerInvariant
    <3>3. sess'[t] = [sess[t] EXCEPT !.ended = TRUE, !.preempted = TRUE]
      BY <1>1, <3>1 DEF WithPreempted
    <3>4. QED
      BY <3>1, <3>2, <3>3 DEF Row
  <2>3. QED
    BY <1>1, <2>1, <2>2 DEF ReplacementsInHand
<1>7. HandlingBegins'
  <2>1. handlePreempted
    BY <1>1 DEF SchedulerInvariant, HandlingBegins
  <2>2. \A i \in InitialTrials : sess'[i].started
    BY <1>3, <2>1 DEF SchedulerInvariant, HandlingBegins, TypeOK
  <2>3. QED
    BY <1>1, <2>1, <2>2 DEF HandlingBegins
<1>8. OneLiveTrialPerSlot'
  BY <1>1 DEF SchedulerInvariant, OneLiveTrialPerSlot, NonpreemptedTrials
<1>9. QED
  BY <1>4, <1>5, <1>6, <1>7, <1>8 DEF SchedulerInvariant

\* Giving up half way leaves marks on trials that were running.
LEMMA HandlingRaisesKeeps ==
    ASSUME SchedulerInvariant, TypeOK', HandlingRaises
    PROVE  SchedulerInvariant'
<1>1. PICK S \in SUBSET NewlyPreempted : sess' = WithPreempted(sess, S)
  BY DEF HandlingRaises
<1>2. /\ db' = db /\ jobs' = jobs /\ replacing' = replacing
      /\ pc = "preempted" /\ pc' = "test"
      /\ handlePreempted' = handlePreempted
  BY DEF HandlingRaises
<1>3. DOMAIN replacing = {}
  BY <1>2 DEF SchedulerInvariant, ReplacementsInHand
<1>4. S \subseteq RunningTrials(sess)
  BY DEF NewlyPreempted
<1>5. /\ \A t \in DOMAIN db : AheadOf(sess'[t], db[t])
      /\ EndsInOrder(sess')
      /\ \A t \in DOMAIN sess : sess'[t].started = sess[t].started
  BY <1>1, <1>4, EndingKeepsAhead DEF SchedulerInvariant
<1>6. SessionIsAhead' /\ EndsInOrder(sess)' /\ EndsInOrder(db)'
  BY <1>2, <1>5 DEF SessionIsAhead, SchedulerInvariant, EndsInOrder
<1>7. JobsArePending' /\ ReplacementsInHand'
  BY <1>2, <1>3, <1>5
     DEF SchedulerInvariant, JobsArePending, ReplacementsInHand, TypeOK
<1>8. HandlingBegins'
  <2>1. handlePreempted
    BY <1>2 DEF SchedulerInvariant, HandlingBegins
  <2>2. \A i \in InitialTrials : sess'[i].started
    BY <1>5, <2>1 DEF SchedulerInvariant, HandlingBegins, TypeOK
  <2>3. QED
    BY <1>2, <2>1, <2>2 DEF HandlingBegins
<1>9. OneLiveTrialPerSlot'
  BY <1>2 DEF SchedulerInvariant, OneLiveTrialPerSlot, NonpreemptedTrials
<1>10. QED
  BY <1>6, <1>7, <1>8, <1>9 DEF SchedulerInvariant

\* Saving the preempted trials with their replacements: a new row takes the
\* slot of a trial that was live and no longer is.
LEMMA SavePreemptedKeeps ==
    ASSUME SchedulerInvariant, TypeOK', SavePreempted
    PROVE  SchedulerInvariant'
<1>1. /\ pc = "save_preempted" /\ pc' = "test" /\ jobs' = jobs
      /\ DOMAIN replacing' = {} /\ handlePreempted' = handlePreempted
  BY DEF SavePreempted
<1>2. CASE CommitFails
  BY <1>1, <1>2, RollbackKeeps
<1>3. ASSUME NEW newId \in Injection(DOMAIN replacing, Trials \ DOMAIN sess),
             Commit(WithReplacements(sess, newId))
      PROVE  SchedulerInvariant'
  <2>1. /\ TypeOK /\ SessionIsAhead /\ EndsInOrder(sess) /\ EndsInOrder(db)
        /\ JobsArePending /\ ReplacementsInHand /\ HandlingBegins
        /\ OneLiveTrialPerSlot
    BY DEF SchedulerInvariant
  <2>2. /\ DOMAIN sess' = DOMAIN sess \union Range(newId)
        /\ \A t \in DOMAIN sess : sess'[t] = sess[t]
        /\ \A t \in DOMAIN replacing :
             sess'[newId[t]] = NewRow(sess[t].slot, replacing[t])
        /\ \A u \in Range(newId) :
             u \notin DOMAIN sess /\ \E t \in DOMAIN replacing : u = newId[t]
    <3> DEFINE new == WithReplacements(sess, newId)
    <3>s. SavedIn(new, newId)
      BY <2>1, SavedRows
    <3>1. /\ DOMAIN new = DOMAIN sess \union Range(newId)
          /\ \A t \in DOMAIN sess : new[t] = sess[t]
          /\ \A t \in DOMAIN replacing :
               new[newId[t]] = NewRow(sess[t].slot, replacing[t])
          /\ \A u \in Range(newId) :
               u \notin DOMAIN sess /\ \E t \in DOMAIN replacing : u = newId[t]
      BY <3>s DEF SavedIn
    <3>2. sess' = new
      BY <1>3
    <3> HIDE DEF new
    <3>3. QED
      BY <3>1, <3>2
  <2>3. ASSUME NEW u \in Range(newId)
        PROVE  ~sess'[u].started /\ ~sess'[u].ended /\ ~sess'[u].preempted
    <3>1. PICK t \in DOMAIN replacing : u = newId[t]
      BY <2>2, <2>3
    <3>2. sess'[newId[t]] = NewRow(sess[t].slot, replacing[t])
      BY <2>2
    <3>3. QED
      BY <3>1, <3>2 DEF NewRow
  <2>4. sess' = db'
    BY <1>3
  <2>5. EndsInOrder(sess)' /\ EndsInOrder(db)'
    BY <2>1, <2>2, <2>3, <2>4 DEF EndsInOrder
  <2>6. SessionIsAhead'
    BY <2>4 DEF SessionIsAhead, AheadOf, TypeOK
  <2>7. JobsArePending'
    BY <1>1, <2>1, <2>2 DEF JobsArePending, TypeOK
  <2>8. HandlingBegins'
    BY <1>1, <2>1, <2>2, <2>3 DEF HandlingBegins, TypeOK
  <2>9. OneLiveTrialPerSlot'
    <3>1. ASSUME NEW u \in Range(newId)
          PROVE  \E t \in DOMAIN replacing :
                   /\ u = newId[t] /\ sess'[u].slot = db[t].slot
                   /\ t \in NonpreemptedTrials(db) /\ sess[t].preempted
      <4>1. PICK t \in DOMAIN replacing : u = newId[t]
        BY <2>2
      <4>2. t \in DOMAIN sess /\ t \in DOMAIN db /\ sess[t].preempted /\ ~db[t].ended
        BY <2>1 DEF TypeOK, ReplacementsInHand
      <4>3. ~db[t].preempted
        BY <2>1, <4>2 DEF EndsInOrder
      <4>4. sess'[u].slot = sess[t].slot
        <5>1. sess'[newId[t]] = NewRow(sess[t].slot, replacing[t])
          BY <2>2
        <5>2. QED
          BY <4>1, <5>1 DEF NewRow
      <4>5. sess[t].slot = db[t].slot
        BY <2>1, <4>2, AheadKeeps
      <4>6. QED
        BY <4>1, <4>2, <4>3, <4>4, <4>5 DEF NonpreemptedTrials
    <3>2. ASSUME NEW v \in NonpreemptedTrials(db)', v \notin Range(newId)
          PROVE  /\ v \in NonpreemptedTrials(db) /\ v \in NonpreemptedTrials(sess)
                 /\ sess'[v].slot = db[v].slot /\ ~sess[v].preempted
      <4>1. v \in DOMAIN sess /\ v \in DOMAIN db /\ sess'[v] = sess[v]
            /\ ~sess[v].preempted
        BY <2>1, <2>2, <2>4, <3>2 DEF NonpreemptedTrials, TypeOK
      <4>2. sess[v].slot = db[v].slot /\ ~db[v].preempted
        BY <2>1, <4>1, AheadKeeps
      <4>3. QED
        BY <4>1, <4>2 DEF NonpreemptedTrials
    <3> SUFFICES ASSUME NEW v \in NonpreemptedTrials(db)',
                        NEW w \in NonpreemptedTrials(db)',
                        sess'[v].slot = sess'[w].slot
                 PROVE  v = w
      BY <2>4 DEF OneLiveTrialPerSlot
    <3>3. CASE v \in Range(newId) /\ w \in Range(newId)
      BY <2>1, <3>1, <3>3 DEF OneLiveTrialPerSlot
    <3>4. CASE v \in Range(newId) /\ w \notin Range(newId)
      BY <2>1, <3>1, <3>2, <3>4 DEF OneLiveTrialPerSlot
    <3>5. CASE v \notin Range(newId) /\ w \in Range(newId)
      BY <2>1, <3>1, <3>2, <3>5 DEF OneLiveTrialPerSlot
    <3>6. CASE v \notin Range(newId) /\ w \notin Range(newId)
      BY <2>1, <3>2, <3>6 DEF OneLiveTrialPerSlot
    <3>7. QED
      BY <3>3, <3>4, <3>5, <3>6
  <2>10. ReplacementsInHand'
    BY <1>1 DEF ReplacementsInHand
  <2>11. QED
    BY <2>5, <2>6, <2>7, <2>8, <2>9, <2>10 DEF SchedulerInvariant
<1>4. QED
  BY <1>2, <1>3 DEF SavePreempted

LEMMA InvariantInit == Init => SchedulerInvariant
<1> SUFFICES ASSUME Init PROVE SchedulerInvariant
  OBVIOUS
<1>1. TypeOK /\ sess = db /\ DOMAIN sess = InitialTrials
  BY TypeInit DEF Init
<1>2. \A t \in InitialTrials : /\ sess[t].slot = t /\ ~sess[t].started
                               /\ ~sess[t].ended /\ ~sess[t].preempted
  BY DEF Init, NewRow
<1>3. /\ DOMAIN jobs = {} /\ DOMAIN replacing = {} /\ pc = "test"
      /\ handlePreempted = FALSE
  BY DEF Init
<1>4. SessionIsAhead
  BY <1>1, EqualRowsAreAhead
<1>5. EndsInOrder(sess) /\ EndsInOrder(db)
  BY <1>1, <1>2 DEF EndsInOrder
<1>6. JobsArePending /\ ReplacementsInHand
  BY <1>3 DEF JobsArePending, ReplacementsInHand
<1>7. HandlingBegins
  BY <1>1, <1>2, <1>3 DEF HandlingBegins
<1>8. OneLiveTrialPerSlot
  BY <1>1, <1>2 DEF OneLiveTrialPerSlot, NonpreemptedTrials
<1>9. QED
  BY <1>1, <1>4, <1>5, <1>6, <1>7, <1>8 DEF SchedulerInvariant

\* A starmap is made of pending trials.
LEMMA StartTrialsKeeps ==
    ASSUME SchedulerInvariant, TypeOK', StartTrials
    PROVE  SchedulerInvariant'
<1>1. PICK b \in StartBatches :
        jobs' = [t \in DOMAIN b |-> [cpuset |-> b[t], state |-> "queued"]]
  BY DEF StartTrials
<1>2. \A t \in DOMAIN jobs' : ~sess[t].started
  BY <1>1, StartBatchesType DEF PendingTrials
<1>3. /\ pc = "start" /\ pc' = "creating" /\ sess' = sess /\ db' = db
      /\ replacing' = replacing /\ handlePreempted' = handlePreempted
  BY DEF StartTrials
<1>4. DOMAIN replacing = {}
  BY <1>3 DEF SchedulerInvariant, ReplacementsInHand
<1>5. QED
  BY <1>2, <1>3, <1>4, FrameKeeps

\* update_started_trials, in its three outcomes: the iteration is given up,
\* the started trials are committed, or the commit fails.
LEMMA UpdateStartedKeeps ==
    ASSUME SchedulerInvariant, TypeOK', UpdateStartedTrials
    PROVE  SchedulerInvariant'
<1>1. /\ pc = "creating" /\ DOMAIN jobs' = {}
      /\ replacing' = replacing /\ handlePreempted' = handlePreempted
  BY DEF UpdateStartedTrials
<1>2. DOMAIN replacing' = {}
  BY <1>1 DEF SchedulerInvariant, ReplacementsInHand
<1>3. CASE UNCHANGED <<sess, db>> /\ pc' \in {"test", "preempted"}
           /\ (pc' = "preempted" => handlePreempted)
  BY <1>1, <1>2, <1>3, FrameKeeps
<1>4. CASE Commit(WithStarted(sess, StartedJobs)) /\ pc' \in {"test", "preempted"}
           /\ (pc' = "preempted" => handlePreempted)
  <2>1. StartedJobs \subseteq DOMAIN jobs
    BY DEF StartedJobs
  <2>2. QED
    BY <1>1, <1>2, <1>4, <2>1, CommitKeeps
<1>5. CASE CommitFails
  BY <1>1, <1>2, <1>5, RollbackKeeps
<1>6. QED
  BY <1>3, <1>4, <1>5 DEF UpdateStartedTrials

LEMMA InvariantStep == SchedulerInvariant /\ [Next]_vars => SchedulerInvariant'
<1> SUFFICES ASSUME SchedulerInvariant, [Next]_vars PROVE SchedulerInvariant'
  OBVIOUS
<1>0. TypeOK'
  BY TypeStep DEF SchedulerInvariant
<1>1. CASE LoopTest
  <2>1. DOMAIN replacing = {}
    BY <1>1 DEF LoopTest, SchedulerInvariant, ReplacementsInHand
  <2>2. QED
    BY <1>0, <1>1, <2>1, FrameKeeps DEF LoopTest
<1>2. CASE EndExpiredTrials
  BY <1>0, <1>2, EndExpiredKeeps
<1>3. CASE DeleteExpired
  <2>1. DOMAIN replacing = {}
    BY <1>3 DEF DeleteExpired, SchedulerInvariant, ReplacementsInHand
  <2>2. QED
    BY <1>0, <1>3, <2>1, FrameKeeps DEF DeleteExpired
<1>4. CASE SaveExpired
  <2>1. DOMAIN replacing = {}
    BY <1>4 DEF SaveExpired, SchedulerInvariant, ReplacementsInHand
  <2>2. CASE Commit(sess) /\ pc' = "start"
    BY <1>0, <1>4, <2>1, <2>2, CommitKeeps DEF SaveExpired
  <2>3. CASE CommitFails
    BY <1>0, <1>4, <2>1, <2>3, RollbackKeeps DEF SaveExpired
  <2>4. QED
    BY <1>4, <2>2, <2>3 DEF SaveExpired
<1>5. CASE StartTrials
  BY <1>0, <1>5, StartTrialsKeeps
<1>6. CASE UpdateStartedTrials
  BY <1>0, <1>6, UpdateStartedKeeps
<1>7. CASE GetPreemptedTrials
  BY <1>0, <1>7, GetPreemptedKeeps
<1>8. CASE QueryRaises
  <2>1. DOMAIN replacing = {}
    BY <1>8 DEF QueryRaises, SchedulerInvariant, ReplacementsInHand
  <2>2. QED
    BY <1>0, <1>8, <2>1, FrameKeeps DEF QueryRaises
<1>9. CASE DeletePreempted
  <2>1. handlePreempted
    BY <1>9 DEF DeletePreempted, SchedulerInvariant, HandlingBegins
  <2>2. QED
    BY <1>0, <1>9, <2>1, FrameKeeps DEF DeletePreempted
<1>10. CASE SavePreempted
  BY <1>0, <1>10, SavePreemptedKeeps
<1>11. ASSUME \/ Tick
              \/ \E t \in DOMAIN sess : PreemptInstance(t) \/ ContainerExits(t)
       PROVE  SchedulerInvariant'
  <2>1. UNCHANGED <<pc, sess, db, handlePreempted, jobs, replacing>>
    BY <1>11 DEF Tick, PreemptInstance, ContainerExits
  <2>2. QED
    BY <1>0, <2>1, FrameKeeps DEF SchedulerInvariant, ReplacementsInHand, HandlingBegins
<1>12. ASSUME NEW t \in DOMAIN jobs, Worker(t)
       PROVE  SchedulerInvariant'
  <2>1. PICK outcome : JobEnds(t, outcome)
    BY <1>12 DEF Worker, InstanceCreated, InstanceNotCreated, StartRaises
  <2>2. DOMAIN jobs' = DOMAIN jobs
        /\ UNCHANGED <<pc, sess, db, handlePreempted, replacing>>
    BY <2>1 DEF JobEnds
  <2>3. QED
    BY <1>0, <2>2, FrameKeeps DEF SchedulerInvariant, ReplacementsInHand, HandlingBegins
<1>13. CASE UNCHANGED vars
  <2>1. UNCHANGED <<pc, sess, db, handlePreempted, jobs, replacing>>
    BY <1>13 DEF vars
  <2>2. QED
    BY <1>0, <2>1, FrameKeeps DEF SchedulerInvariant, ReplacementsInHand, HandlingBegins
<1>14. CASE HandlingRaises
  BY <1>0, <1>14, HandlingRaisesKeeps
<1>15. QED
  BY <1>1, <1>2, <1>3, <1>4, <1>5, <1>6, <1>7, <1>8, <1>9, <1>10, <1>11,
     <1>12, <1>13, <1>14 DEF Next, Iteration, World

\* Whatever interleaving of the scheduler, its workers, the clock and the
\* cloud, and whatever fails: the session is ahead of the database only by
\* ends of trials that were running, and replacements in hand belong to such
\* trials.
THEOREM InvariantHolds == Spec => []SchedulerInvariant
BY InvariantInit, InvariantStep, PTL DEF Spec

\* handle_preempted_trials and the transactions around it never leave two
\* committed trials that both count for one fuzzer and benchmark slot.
THEOREM ReplacedOnce == Spec => []OneLiveTrialPerSlot
<1>1. SchedulerInvariant => OneLiveTrialPerSlot
  BY DEF SchedulerInvariant
<1>2. QED
  BY <1>1, InvariantHolds, PTL

\* schedule_loop's handle_preempted: the database says "preempted" of no
\* trial before every initial trial was started.
THEOREM HandlingWaits == Spec => []HandlingWaitsForInitialTrials
<1>1. SchedulerInvariant => HandlingWaitsForInitialTrials
  <2> SUFFICES ASSUME SchedulerInvariant, NEW t \in DOMAIN db, db[t].preempted,
                      NEW i \in InitialTrials
               PROVE  db[i].started
    BY DEF HandlingWaitsForInitialTrials
  <2>1. TypeOK /\ SessionIsAhead /\ HandlingBegins
    BY DEF SchedulerInvariant
  <2>2. t \in DOMAIN sess /\ i \in DOMAIN sess
    BY <2>1 DEF TypeOK
  <2>3. sess[t].preempted /\ sess[i].started = db[i].started
    BY <2>1, <2>2, AheadKeeps
  <2>4. QED
    BY <2>1, <2>2, <2>3 DEF HandlingBegins
<1>2. QED
  BY <1>1, InvariantHolds, PTL

-----------------------------------------------------------------------------
(***************************************************************************)
(* Scheduler implements TrialTable.                                        *)
(***************************************************************************)

\* A row of the database may become the row of the session, and a pending
\* one may become running.
LEMMA RowMoves ==
    ASSUME SchedulerInvariant, NEW t \in DOMAIN db, NEW new,
           \/ new = sess[t]
           \/ ~sess[t].started /\ new = [sess[t] EXCEPT !.started = TRUE]
    PROVE  /\ TableRow(new).slot = TableRow(db[t]).slot
           /\ TableRow(new).preemptible = TableRow(db[t]).preemptible
           /\ <<TableRow(db[t]).status, TableRow(new).status>> \in Table!Moves
<1>1. /\ TypeOK /\ t \in DOMAIN sess /\ db[t] \in Row /\ sess[t] \in Row
      /\ AheadOf(sess[t], db[t]) /\ sess[t].started = db[t].started
      /\ sess[t].preempted => sess[t].ended
      /\ sess[t].ended => sess[t].started
  BY AheadKeeps DEF SchedulerInvariant, TypeOK, SessionIsAhead, EndsInOrder
<1>2. CASE new = db[t]
  <2>1. StatusOf(db[t]) \in Table!Status
    BY DEF StatusOf, Table!Status
  <2>2. QED
    BY <1>2, <2>1 DEF TableRow, Table!Moves
<1>3. CASE new = sess[t] /\ sess[t] # db[t]
  <2>1. db[t].started /\ ~db[t].ended /\ ~db[t].preempted
    BY <1>1, <1>3 DEF AheadOf
  <2>2. StatusOf(db[t]) = "running"
    BY <2>1 DEF StatusOf
  <2>3. CASE new = [db[t] EXCEPT !.ended = TRUE]
    <3>1. /\ new.slot = db[t].slot /\ new.preemptible = db[t].preemptible
          /\ new.ended /\ ~new.preempted
      BY <1>1, <2>1, <2>3 DEF Row
    <3>2. StatusOf(new) = "finished"
      BY <3>1 DEF StatusOf
    <3>3. QED
      BY <2>2, <3>1, <3>2 DEF TableRow, Table!Moves
  <2>4. CASE new = [db[t] EXCEPT !.ended = TRUE, !.preempted = TRUE]
    <3>1. /\ new.slot = db[t].slot /\ new.preemptible = db[t].preemptible
          /\ new.preempted
      BY <1>1, <2>4 DEF Row
    <3>2. StatusOf(new) = "preempted"
      BY <3>1 DEF StatusOf
    <3>3. QED
      BY <2>2, <3>1, <3>2 DEF TableRow, Table!Moves
  <2>5. QED
    BY <1>1, <1>3, <2>3, <2>4 DEF AheadOf
<1>4. CASE ~sess[t].started /\ new = [sess[t] EXCEPT !.started = TRUE]
  <2>1. sess[t] = db[t] /\ ~sess[t].ended /\ ~sess[t].preempted
    BY <1>1, <1>4 DEF AheadOf
  <2>2. /\ new.slot = db[t].slot /\ new.preemptible = db[t].preemptible
        /\ new.started /\ ~new.ended /\ ~new.preempted
    BY <1>1, <1>4, <2>1 DEF Row
  <2>3. StatusOf(db[t]) = "pending" /\ StatusOf(new) = "running"
    BY <1>4, <2>1, <2>2 DEF StatusOf
  <2>4. QED
    BY <2>2, <2>3 DEF TableRow, Table!Moves
<1>5. QED
  BY <1>2, <1>3, <1>4

\* A commit is a Save when every old row makes a legal move and every new
\* row is a pending one that replaces a row which was running.
LEMMA CommitIsSave ==
    ASSUME SchedulerInvariant, TypeOK', DOMAIN db \subseteq DOMAIN db',
           \A t \in DOMAIN db :
              \/ db'[t] = sess[t]
              \/ ~sess[t].started /\ db'[t] = [sess[t] EXCEPT !.started = TRUE],
           \A u \in DOMAIN db' \ DOMAIN db :
              \E t \in DOMAIN replacing :
                 /\ db'[t] = sess[t]
                 /\ db'[u] = NewRow(sess[t].slot, replacing[t]),
           OneLiveTrialPerSlot'
    PROVE  Table!Save
<1>1. DOMAIN TableRows = DOMAIN db /\ DOMAIN TableRows' = DOMAIN db'
  BY DEF TableRows
<1>2. /\ \A t \in DOMAIN db : TableRows[t] = TableRow(db[t])
      /\ \A t \in DOMAIN db' : TableRows'[t] = TableRow(db'[t])
  BY DEF TableRows
<1>3. TableRows' \in [DOMAIN TableRows' -> Table!Trial]
  <2>1. \A t \in DOMAIN db' : db'[t] \in Row
    BY DEF TypeOK
  <2>2. \A t \in DOMAIN db' : TableRow(db'[t]) \in Table!Trial
    BY <2>1 DEF TableRow, StatusOf, Table!Trial, Table!Status, Row
  <2>3. QED
    BY <2>2 DEF TableRows
<1>4. DOMAIN TableRows' \subseteq Trials
  BY <1>1 DEF TypeOK
<1>5. Table!OldRowsMoveOn
  <2>1. ASSUME NEW t \in DOMAIN db
        PROVE  /\ TableRow(db'[t]).slot = TableRow(db[t]).slot
               /\ TableRow(db'[t]).preemptible = TableRow(db[t]).preemptible
               /\ <<TableRow(db[t]).status, TableRow(db'[t]).status>> \in Table!Moves
    <3> DEFINE new == db'[t]
    <3>1. \/ new = sess[t]
          \/ ~sess[t].started /\ new = [sess[t] EXCEPT !.started = TRUE]
      OBVIOUS
    <3> HIDE DEF new
    <3>2. /\ TableRow(new).slot = TableRow(db[t]).slot
          /\ TableRow(new).preemptible = TableRow(db[t]).preemptible
          /\ <<TableRow(db[t]).status, TableRow(new).status>> \in Table!Moves
      BY <3>1, RowMoves
    <3>3. QED
      BY <3>2 DEF new
  <2>2. \A t \in DOMAIN db : t \in DOMAIN db'
    OBVIOUS
  <2>3. QED
    BY <1>1, <1>2, <2>1, <2>2 DEF Table!OldRowsMoveOn
<1>6. ASSUME NEW u \in Table!NewRows
      PROVE  /\ u \in DOMAIN db'
             /\ TableRows'[u].status = "pending"
             /\ ~db'[u].preempted
             /\ TableRows'[u].slot = db'[u].slot
             /\ \E t \in DOMAIN TableRows :
                  /\ TableRows[t].slot = TableRows'[u].slot
                  /\ TableRows[t].status = "running"
                  /\ TableRows'[t].status = "preempted"
  <2>1. u \in DOMAIN db' \ DOMAIN db
    BY <1>1, <1>6 DEF Table!NewRows
  <2>2. PICK t \in DOMAIN replacing :
          db'[t] = sess[t] /\ db'[u] = NewRow(sess[t].slot, replacing[t])
    BY <2>1
  <2>3. /\ t \in DOMAIN db /\ t \in DOMAIN sess /\ t \in DOMAIN db'
        /\ sess[t].preempted /\ ~db[t].ended /\ db[t] \in Row
        /\ TypeOK /\ SessionIsAhead
    BY DEF SchedulerInvariant, ReplacementsInHand, TypeOK
  <2>4. ~db[t].preempted /\ sess[t].started /\ sess[t].ended
    BY <2>3 DEF SchedulerInvariant, EndsInOrder
  <2>5. db[t].started /\ sess[t].slot = db[t].slot
    BY <2>3, <2>4, AheadKeeps
  <2>6. StatusOf(db[t]) = "running" /\ StatusOf(sess[t]) = "preempted"
    BY <2>3, <2>4, <2>5 DEF StatusOf
  <2>7. /\ db'[u].slot = sess[t].slot /\ ~db'[u].preempted
        /\ ~db'[u].ended /\ ~db'[u].started
    BY <2>2 DEF NewRow
  <2>8. StatusOf(db'[u]) = "pending"
    BY <2>7 DEF StatusOf
  <2>9. /\ TableRows'[u].status = "pending" /\ TableRows'[u].slot = db'[u].slot
        /\ TableRows[t].slot = db[t].slot /\ TableRows[t].status = "running"
        /\ TableRows'[t].status = "preempted"
    <3>1. TableRows'[u] = TableRow(db'[u])
      BY <1>2, <2>1
    <3>2. TableRows[t] = TableRow(db[t]) /\ TableRows'[t] = TableRow(sess[t])
      BY <1>2, <2>2, <2>3
    <3>3. QED
      BY <2>6, <2>8, <3>1, <3>2 DEF TableRow
  <2>10. QED
    BY <1>1, <2>1, <2>3, <2>5, <2>7, <2>9
<1>7. Table!NewRowsReplace
  <2>1. \A u \in Table!NewRows : TableRows'[u] \in Table!Trial
    BY <1>3, <1>1 DEF Table!NewRows
  <2>2. ASSUME NEW u \in Table!NewRows, NEW v \in Table!NewRows,
               TableRows'[u].slot = TableRows'[v].slot
        PROVE  u = v
    <3>1. u \in NonpreemptedTrials(db)' /\ v \in NonpreemptedTrials(db)'
      BY <1>6 DEF NonpreemptedTrials
    <3>2. db'[u].slot = db'[v].slot
      BY <1>6, <2>2
    <3>3. QED
      BY <3>1, <3>2 DEF OneLiveTrialPerSlot
  <2>3. QED
    BY <1>6, <2>1, <2>2 DEF Table!NewRowsReplace
<1>8. QED
  BY <1>3, <1>4, <1>5, <1>7 DEF Table!Save

LEMMA TableInit == Init => Table!Init
<1> SUFFICES ASSUME Init PROVE Table!Init
  OBVIOUS
<1>1. db = [t \in InitialTrials |-> NewRow(t, Preemptible)]
  BY DEF Init
<1>2. \A t \in InitialTrials :
         TableRow(NewRow(t, Preemptible)) =
            [slot |-> t, preemptible |-> Preemptible, status |-> "pending"]
  BY DEF TableRow, StatusOf, NewRow
<1>3. QED
  BY <1>1, <1>2 DEF TableRows, Table!Init

LEMMA TableStep ==
    SchedulerInvariant /\ SchedulerInvariant' /\ [Next]_vars
        => [Table!Save]_TableRows
<1> SUFFICES ASSUME SchedulerInvariant, SchedulerInvariant', [Next]_vars
             PROVE  Table!Save \/ UNCHANGED TableRows
  OBVIOUS
<1>0. TypeOK /\ TypeOK' /\ OneLiveTrialPerSlot'
  BY DEF SchedulerInvariant
<1>1. CASE db' = db
  BY <1>1 DEF TableRows
<1>2. CASE SaveExpired /\ db' = sess
  <2>1. DOMAIN db' = DOMAIN db
    BY <1>0, <1>2 DEF TypeOK
  <2>2. \A t \in DOMAIN db : db'[t] = sess[t]
    BY <1>2
  <2>3. QED
    BY <1>0, <2>1, <2>2, CommitIsSave
<1>3. CASE UpdateStartedTrials /\ db' = WithStarted(sess, StartedJobs)
  <2>1. DOMAIN db' = DOMAIN db
    BY <1>0, <1>3 DEF TypeOK, WithStarted
  <2>2. ASSUME NEW t \in DOMAIN db
        PROVE  \/ db'[t] = sess[t]
               \/ ~sess[t].started /\ db'[t] = [sess[t] EXCEPT !.started = TRUE]
    <3>1. t \in StartedJobs => ~sess[t].started
      BY DEF SchedulerInvariant, JobsArePending, StartedJobs
    <3>2. t \in DOMAIN sess
      BY <1>0 DEF TypeOK
    <3>3. QED
      BY <1>3, <3>1, <3>2 DEF WithStarted
  <2>3. QED
    BY <1>0, <2>1, <2>2, CommitIsSave
<1>4. CASE SavePreempted /\ db' # db
  <2>1. PICK newId \in Injection(DOMAIN replacing, Trials \ DOMAIN sess) :
          db' = WithReplacements(sess, newId)
    BY <1>4 DEF SavePreempted
  <2> DEFINE new == WithReplacements(sess, newId)
  <2>3. db' = new
    BY <2>1
  <2>s. SavedIn(new, newId)
    BY <1>0, SavedRows
  <2> HIDE DEF new
  <2>2. /\ DOMAIN new = DOMAIN sess \union Range(newId)
        /\ \A t \in DOMAIN sess : new[t] = sess[t]
        /\ \A t \in DOMAIN replacing :
             new[newId[t]] = NewRow(sess[t].slot, replacing[t])
        /\ \A u \in Range(newId) :
             u \notin DOMAIN sess /\ \E t \in DOMAIN replacing : u = newId[t]
    BY <2>s DEF SavedIn
  <2>4. DOMAIN db = DOMAIN sess /\ DOMAIN replacing \subseteq DOMAIN sess
    BY <1>0 DEF TypeOK
  <2>5. /\ DOMAIN db \subseteq DOMAIN db'
        /\ \A t \in DOMAIN db : db'[t] = sess[t]
    BY <2>2, <2>3, <2>4
  <2>6. ASSUME NEW u \in DOMAIN db' \ DOMAIN db
        PROVE  \E t \in DOMAIN replacing :
                 /\ db'[t] = sess[t]
                 /\ db'[u] = NewRow(sess[t].slot, replacing[t])
    <3>1. PICK t \in DOMAIN replacing : u = newId[t]
      BY <2>2, <2>3, <2>4
    <3>2. db'[newId[t]] = NewRow(sess[t].slot, replacing[t]) /\ db'[t] = sess[t]
      BY <2>2, <2>3, <2>4
    <3>3. QED
      BY <3>1, <3>2
  <2>7. QED
    BY <1>0, <2>5, <2>6, CommitIsSave
<1>5. QED
  <2>1. CASE SaveExpired
    BY <1>1, <1>2, <2>1 DEF SaveExpired
  <2>2. CASE UpdateStartedTrials
    BY <1>1, <1>3, <2>2 DEF UpdateStartedTrials
  <2>3. CASE SavePreempted
    BY <1>1, <1>4, <2>3
  <2>4. CASE /\ [Next]_vars
             /\ ~SaveExpired /\ ~UpdateStartedTrials /\ ~SavePreempted
    <3>1. db' = db
      BY <2>4 DEF Next, Iteration, World, Worker, vars, LoopTest,
         EndExpiredTrials, DeleteExpired, StartTrials, GetPreemptedTrials,
         QueryRaises, HandlingRaises, DeletePreempted, Tick, PreemptInstance, ContainerExits,
         InstanceCreated, InstanceNotCreated, StartRaises, JobEnds
    <3>2. QED
      BY <1>1, <3>1
  <2>5. QED
    BY <2>1, <2>2, <2>3, <2>4

\* What the scheduler commits, under every failure, is a behaviour of the
\* trial table that the measurer relies on.
THEOREM SchedulerImplementsTable == Spec => ImplementsTable
BY TableInit, TableStep, InvariantHolds, PTL DEF Spec, ImplementsTable, Table!Spec

-----------------------------------------------------------------------------
(***************************************************************************)
(* Local experiments.                                                      *)
(***************************************************************************)
\* On one machine no instance is preempted, and jobs are only there while the
\* pool works on them.
LocalInvariant ==
    /\ SchedulerInvariant
    /\ ~handlePreempted
    /\ pc # "creating" => DOMAIN jobs = {}

\* What a step does to rows on one machine, if no commit fails.
LEMMA LocalStep ==
    ASSUME Local, "commit_fail" \notin Faults, LocalInvariant, [Next]_vars
    PROVE  /\ LocalInvariant'
           /\ \/ sess' = sess
              \/ EndExpiredTrials
              \/ UpdateStartedTrials /\ sess' = WithStarted(sess, StartedJobs)
<1>0. /\ SchedulerInvariant /\ SchedulerInvariant' /\ TypeOK /\ TypeOK'
      /\ pc \notin {"preempted", "delete_preempted", "save_preempted"}
  BY InvariantStep DEF LocalInvariant, SchedulerInvariant, HandlingBegins
<1> USE DEF LocalInvariant
<1>1. CASE LoopTest \/ QueryRaises
  BY <1>0, <1>1 DEF LoopTest, QueryRaises
<1>2. CASE EndExpiredTrials
  BY <1>0, <1>2 DEF EndExpiredTrials, StartedInitialTrials
<1>3. CASE DeleteExpired \/ SaveExpired
  BY <1>0, <1>3 DEF DeleteExpired, SaveExpired
<1>4. CASE StartTrials
  BY <1>0, <1>4 DEF StartTrials
<1>5. CASE UpdateStartedTrials
  <2>1. DOMAIN jobs' = {} /\ handlePreempted' = handlePreempted
    BY <1>5 DEF UpdateStartedTrials
  <2>2. sess' = sess \/ sess' = WithStarted(sess, StartedJobs)
    BY <1>5 DEF UpdateStartedTrials
  <2> QED BY <1>0, <1>5, <2>1, <2>2
<1>6. CASE GetPreemptedTrials \/ HandlingRaises \/ DeletePreempted
           \/ SavePreempted
  BY <1>0, <1>6
     DEF GetPreemptedTrials, HandlingRaises, DeletePreempted, SavePreempted
<1>7. CASE World
  BY <1>0, <1>7 DEF World, Tick, PreemptInstance, ContainerExits
<1>8. CASE \E t \in DOMAIN jobs : Worker(t)
  BY <1>0, <1>8 DEF Worker, InstanceCreated, InstanceNotCreated, StartRaises,
     JobEnds
<1>9. CASE UNCHANGED vars
  BY <1>0, <1>9 DEF vars
<1> QED BY <1>1, <1>2, <1>3, <1>4, <1>5, <1>6, <1>7, <1>8, <1>9
        DEF Next, Iteration

-----------------------------------------------------------------------------
\* core_allocation is exact at any time: an end frees the cpuset, and a start
\* takes it, in the same step in which the session changes.
CoresAreExact ==
    /\ \A c \in Cpusets : cores[c] # NoTrial => cores[c] \in RunningTrials(sess)
    /\ \A t \in RunningTrials(sess) : \E c \in Cpusets :
          cores[c] = t /\ \A d \in Cpusets : cores[d] = t => d = c

\* Trials are being started on cpusets that are free, each on one of its own.
JobsOnFreeCores ==
    \A t \in DOMAIN jobs :
        /\ jobs[t].cpuset \in FreeCpusets
        /\ \A u \in DOMAIN jobs : jobs[u].cpuset = jobs[t].cpuset => u = t

CoresInvariant == LocalInvariant /\ CoresAreExact /\ JobsOnFreeCores

LEMMA StartedRun ==
    ASSUME SchedulerInvariant
    PROVE  RunningTrials(WithStarted(sess, StartedJobs)) =
             RunningTrials(sess) \union StartedJobs
<1>1. /\ StartedJobs \subseteq DOMAIN sess
      /\ \A t \in StartedJobs : ~sess[t].ended /\ ~sess[t].preempted
  BY DEF SchedulerInvariant, TypeOK, JobsArePending, EndsInOrder, StartedJobs,
     Row
<1>2. \A t \in DOMAIN sess : sess[t] \in Row
  BY DEF SchedulerInvariant, TypeOK
<1> HIDE DEF StartedJobs
<1>3. \A t \in DOMAIN sess \ StartedJobs :
         WithStarted(sess, StartedJobs)[t] = sess[t]
  BY DEF WithStarted
<1>4. \A t \in StartedJobs :
         LET row == WithStarted(sess, StartedJobs)[t]
         IN  row.started /\ ~row.ended /\ ~row.preempted
  BY <1>1, <1>2 DEF WithStarted, Row
<1>5. DOMAIN WithStarted(sess, StartedJobs) = DOMAIN sess
  BY DEF WithStarted
<1> QED BY <1>1, <1>3, <1>4, <1>5 DEF RunningTrials, NonpreemptedTrials

LEMMA CoresStep ==
    ASSUME Cpusets # {}, "commit_fail" \notin Faults, CoresInvariant,
           [Next]_vars
    PROVE  CoresInvariant'
<1>0. /\ LocalInvariant /\ LocalInvariant' /\ TypeOK /\ TypeOK'
      /\ NoTrial \notin Trials
      /\ \/ sess' = sess
         \/ EndExpiredTrials
         \/ UpdateStartedTrials /\ sess' = WithStarted(sess, StartedJobs)
  BY LocalStep, ConfigAssumption, TrialsAssumption
     DEF CoresInvariant, LocalInvariant, SchedulerInvariant
<1>1. CASE EndExpiredTrials
  <2> DEFINE E == ExpiredTrials(sess)
  <2>1. /\ sess' = WithEnded(sess, E) /\ cores' = CoresFreed(E) /\ jobs' = jobs
    BY <1>1 DEF EndExpiredTrials
  <2>2. E \subseteq RunningTrials(sess) /\ NoTrial \notin E
    BY <1>0 DEF ExpiredTrials, RunningTrials, NonpreemptedTrials, TypeOK
  <2>3. RunningTrials(sess') = RunningTrials(sess) \ E
    <3>1. \A t \in DOMAIN sess : sess[t] \in Row
      BY <1>0 DEF TypeOK
    <3> HIDE DEF E
    <3>2. /\ DOMAIN sess' = DOMAIN sess
          /\ \A t \in DOMAIN sess \ E : sess'[t] = sess[t]
          /\ \A t \in DOMAIN sess : t \in E => sess'[t].ended
      BY <2>1, <3>1 DEF WithEnded, Row
    <3> QED BY <2>2, <3>2 DEF RunningTrials, NonpreemptedTrials
  <2>4. \A c \in Cpusets :
           cores'[c] = IF cores[c] \in E THEN NoTrial ELSE cores[c]
    BY <2>1 DEF CoresFreed
  <2> HIDE DEF E
  <2>5. CoresAreExact'
    <3>1. \A c \in Cpusets :
             cores'[c] # NoTrial => cores'[c] \in RunningTrials(sess')
      BY <2>3, <2>4 DEF CoresInvariant, CoresAreExact
    <3>2. ASSUME NEW t \in RunningTrials(sess')
          PROVE  \E c \in Cpusets : /\ cores'[c] = t
                                    /\ \A d \in Cpusets : cores'[d] = t => d = c
      <4>1. t \in RunningTrials(sess) /\ t \notin E /\ t # NoTrial
        BY <1>0, <2>3, <3>2 DEF RunningTrials, NonpreemptedTrials, TypeOK
      <4>2. PICK c \in Cpusets : /\ cores[c] = t
                                 /\ \A d \in Cpusets : cores[d] = t => d = c
        BY <4>1 DEF CoresInvariant, CoresAreExact
      <4> QED BY <2>4, <4>1, <4>2
    <3> QED BY <3>1, <3>2 DEF CoresAreExact, RunningTrials, NonpreemptedTrials
  <2>6. JobsOnFreeCores'
    BY <2>1, <2>2, <2>4 DEF CoresInvariant, JobsOnFreeCores, FreeCpusets
  <2> QED BY <1>0, <2>5, <2>6 DEF CoresInvariant
<1>2. CASE UpdateStartedTrials /\ sess' = WithStarted(sess, StartedJobs)
  <2>1. DOMAIN jobs' = {}
    BY <1>2 DEF UpdateStartedTrials
  <2>2. JobsOnFreeCores'
    BY <2>1 DEF JobsOnFreeCores
  <2>3. RunningTrials(sess') = RunningTrials(sess) \union StartedJobs
    BY <1>0, <1>2, StartedRun DEF LocalInvariant
  <2>4. CASE cores' = cores /\ sess' = sess
    BY <1>0, <2>2, <2>4
       DEF CoresInvariant, CoresAreExact, RunningTrials, NonpreemptedTrials
  <2>5. CASE \A c \in Cpusets :
               cores'[c] = IF \E t \in StartedJobs : jobs[t].cpuset = c
                           THEN CHOOSE t \in StartedJobs : jobs[t].cpuset = c
                           ELSE cores[c]
    <3>1. /\ StartedJobs \subseteq DOMAIN jobs
          /\ \A t \in StartedJobs : t \in Trials /\ ~sess[t].started
      BY <1>0 DEF StartedJobs, TypeOK, LocalInvariant, SchedulerInvariant,
         JobsArePending
    <3>2. /\ \A t \in StartedJobs : /\ jobs[t].cpuset \in Cpusets
                                    /\ cores[jobs[t].cpuset] = NoTrial
                                    /\ cores'[jobs[t].cpuset] = t
          /\ \A c \in Cpusets :
               \/ cores'[c] = cores[c]
               \/ \E t \in StartedJobs : jobs[t].cpuset = c /\ cores'[c] = t
      BY <2>5, <3>1 DEF CoresInvariant, JobsOnFreeCores, FreeCpusets
    <3>3. \A t \in StartedJobs : t \notin RunningTrials(sess)
      BY <3>1 DEF RunningTrials
    <3> HIDE DEF StartedJobs
    <3>4. \A c \in Cpusets :
             cores'[c] # NoTrial => cores'[c] \in RunningTrials(sess')
      BY <2>3, <3>2 DEF CoresInvariant, CoresAreExact
    <3>5. ASSUME NEW t \in RunningTrials(sess')
          PROVE  \E c \in Cpusets : /\ cores'[c] = t
                                    /\ \A d \in Cpusets : cores'[d] = t => d = c
      <4>1. CASE t \in StartedJobs
        <5>1. \A d \in Cpusets : cores'[d] = t => d = jobs[t].cpuset
          <6> SUFFICES ASSUME NEW d \in Cpusets, cores'[d] = t
                       PROVE  d = jobs[t].cpuset
            OBVIOUS
          <6>1. cores[d] # t
            BY <1>0, <3>1, <3>3, <4>1 DEF CoresInvariant, CoresAreExact
          <6> QED BY <3>2, <6>1
        <5> QED BY <3>2, <4>1, <5>1
      <4>2. CASE t \in RunningTrials(sess) /\ t \notin StartedJobs
        <5>1. PICK c \in Cpusets : /\ cores[c] = t
                                   /\ \A d \in Cpusets : cores[d] = t => d = c
          BY <4>2 DEF CoresInvariant, CoresAreExact
        <5>2. t # NoTrial
          BY <1>0, <4>2 DEF RunningTrials, NonpreemptedTrials, TypeOK
        <5>3. cores'[c] = t
          BY <3>2, <5>1, <5>2
        <5>4. \A d \in Cpusets : cores'[d] = t => d = c
          BY <3>2, <4>2, <5>1
        <5> QED BY <5>3, <5>4
      <4> QED BY <2>3, <3>5, <4>1, <4>2
    <3> QED BY <1>0, <2>2, <3>4, <3>5
            DEF CoresInvariant, CoresAreExact, RunningTrials, NonpreemptedTrials
  <2> QED BY <1>2, <2>4, <2>5 DEF UpdateStartedTrials
<1>3. CASE sess' = sess
  <2>1. CASE EndExpiredTrials
    BY <1>1, <2>1
  <2>2. CASE UpdateStartedTrials
    <3>1. DOMAIN jobs' = {}
      BY <2>2 DEF UpdateStartedTrials
    <3>2. cores' = cores \/ sess' = WithStarted(sess, StartedJobs)
      <4>1. StartedJobs = {} => cores' = cores \/ UNCHANGED <<sess, db, cores>>
        BY <1>0, <2>2 DEF UpdateStartedTrials, TypeOK
      <4> QED BY <1>0, <2>2, <4>1 DEF UpdateStartedTrials
    <3>3. CASE cores' = cores
      BY <1>0, <1>3, <3>1, <3>3 DEF CoresInvariant, CoresAreExact,
         JobsOnFreeCores, RunningTrials, NonpreemptedTrials
    <3> QED BY <1>2, <2>2, <3>2, <3>3
  <2>3. CASE StartTrials
    <3>1. cores' = cores
      BY <2>3 DEF StartTrials
    <3>2. JobsOnFreeCores'
      <4>1. PICK batch \in StartBatches :
               jobs' = [t \in DOMAIN batch |->
                          [cpuset |-> batch[t], state |-> "queued"]]
        BY <2>3 DEF StartTrials
      <4>2. PICK S \in SUBSET PendingTrials(sess) :
               batch \in Injection(S, FreeCpusets)
        BY <4>1 DEF StartBatches
      <4>3. /\ DOMAIN batch = S /\ \A t \in S : batch[t] \in FreeCpusets
            /\ \A t, u \in S : batch[t] = batch[u] => t = u
        BY <4>2 DEF Injection, IsInjective
      <4>4. FreeCpusets' = FreeCpusets
        BY <3>1 DEF FreeCpusets
      <4> QED BY <4>1, <4>3, <4>4 DEF JobsOnFreeCores
    <3> QED BY <1>0, <1>3, <3>1, <3>2
            DEF CoresInvariant, CoresAreExact, RunningTrials, NonpreemptedTrials
  <2>4. CASE ~EndExpiredTrials /\ ~UpdateStartedTrials /\ ~StartTrials
    <3>1. /\ cores' = cores /\ DOMAIN jobs' = DOMAIN jobs
          /\ \A t \in DOMAIN jobs : jobs'[t].cpuset = jobs[t].cpuset
      <4>1. CASE Iteration
        BY <2>4, <4>1 DEF Iteration, LoopTest, DeleteExpired, SaveExpired,
           GetPreemptedTrials, QueryRaises, HandlingRaises, DeletePreempted,
           SavePreempted
      <4>2. CASE World \/ UNCHANGED vars
        BY <4>2 DEF World, Tick, PreemptInstance, ContainerExits, vars
      <4>3. CASE \E t \in DOMAIN jobs : Worker(t)
        <5>1. PICK t \in DOMAIN jobs,
                   outcome \in {"started", "failed", "raised"} :
                 JobEnds(t, outcome)
          BY <4>3
             DEF Worker, InstanceCreated, InstanceNotCreated, StartRaises
        <5>2. /\ cores' = cores
              /\ jobs' = [jobs EXCEPT ![t].state = outcome]
          BY <5>1 DEF JobEnds
        <5>3. \A u \in DOMAIN jobs :
                 jobs[u] \in [cpuset : Cpusets \union {NoCpuset},
                              state : {"queued", "started", "failed", "raised"}]
          BY <1>0 DEF TypeOK
        <5> QED BY <5>2, <5>3
      <4> QED BY <4>1, <4>2, <4>3 DEF Next
    <3> QED BY <1>0, <1>3, <3>1 DEF CoresInvariant, CoresAreExact,
            JobsOnFreeCores, FreeCpusets, RunningTrials, NonpreemptedTrials
  <2> QED BY <2>1, <2>2, <2>3, <2>4
<1> QED BY <1>0, <1>1, <1>2, <1>3

LEMMA LocalInit == Init => LocalInvariant
BY InvariantInit DEF Init, LocalInvariant

LEMMA CoresInit == Init => CoresInvariant
<1> SUFFICES ASSUME Init PROVE CoresInvariant
  OBVIOUS
<1>1. \A t \in DOMAIN sess : ~sess[t].started
  BY DEF Init, NewRow
<1>2. RunningTrials(sess) = {}
  BY <1>1 DEF RunningTrials, NonpreemptedTrials
<1>3. DOMAIN jobs = {}
  BY DEF Init
<1>4. \A c \in Cpusets : cores[c] = NoTrial
  BY DEF Init
<1> QED BY <1>2, <1>3, <1>4, LocalInit
        DEF CoresInvariant, CoresAreExact, JobsOnFreeCores

LEMMA ExactMeansFollow == CoresInvariant => CoresFollowRunningTrials
BY DEF CoresInvariant, CoresAreExact, CoresFollowRunningTrials

\* core_allocation of a local experiment is exact between iterations, unless a
\* commit fails: the rollback forgets an end or a start, but the cpusets stay
\* as they were set.
THEOREM CoresFollow ==
    ASSUME "commit_fail" \notin Faults
    PROVE  Spec => []CoresFollowRunningTrials
<1>1. CASE Cpusets = {}
  <2>1. CoresFollowRunningTrials
    BY <1>1 DEF CoresFollowRunningTrials
  <2> QED BY <2>1, PTL
<1>2. CASE Cpusets # {}
  <2>1. Init => CoresInvariant
    BY CoresInit
  <2>2. CoresInvariant /\ [Next]_vars => CoresInvariant'
    BY <1>2, CoresStep
  <2>3. CoresInvariant => CoresFollowRunningTrials
    BY ExactMeansFollow
  <2> QED BY <2>1, <2>2, <2>3, PTL DEF Spec
<1> QED BY <1>1, <1>2

-----------------------------------------------------------------------------
\* A container that runs is that of a trial that was started, or will be said
\* to be when starmap returns.
ContainersAreKnown ==
    /\ \A t \in DOMAIN jobs : jobs[t].state # "raised"
    /\ \A t \in Trials : inst[t] # "none" =>
         \/ t \in DOMAIN sess /\ sess[t].started
         \/ t \in DOMAIN jobs /\ jobs[t].state = "started"

ContainersInvariant == LocalInvariant /\ ContainersAreKnown

LEMMA ContainersStep ==
    ASSUME Local, Faults \intersect {"create_raise", "commit_fail"} = {},
           ContainersInvariant, [Next]_vars
    PROVE  ContainersInvariant'
<1>0. /\ LocalInvariant /\ LocalInvariant' /\ TypeOK /\ TypeOK'
      /\ \/ sess' = sess
         \/ EndExpiredTrials
         \/ UpdateStartedTrials /\ sess' = WithStarted(sess, StartedJobs)
  BY LocalStep DEF ContainersInvariant, LocalInvariant, SchedulerInvariant
<1>1. /\ DOMAIN sess \subseteq DOMAIN sess'
      /\ \A t \in DOMAIN sess : sess[t].started => sess'[t].started
  <2>1. \A t \in DOMAIN sess : sess[t] \in Row
    BY <1>0 DEF TypeOK
  <2>2. CASE EndExpiredTrials
    <3>1. sess' = WithEnded(sess, ExpiredTrials(sess))
      BY <2>2 DEF EndExpiredTrials
    <3> QED BY <2>1, <3>1 DEF WithEnded, Row
  <2>3. CASE sess' = WithStarted(sess, StartedJobs)
    BY <2>1, <2>3 DEF WithStarted, Row
  <2> QED BY <1>0, <2>2, <2>3
<1> SUFFICES ContainersAreKnown'
  BY <1>0 DEF ContainersInvariant
<1>2. CASE /\ jobs' = jobs
           /\ \A t \in Trials : inst'[t] \in {inst[t], "none"}
  BY <1>1, <1>2 DEF ContainersInvariant, ContainersAreKnown
<1>3. CASE UpdateStartedTrials
  <2>1. DOMAIN jobs' = {} /\ inst' = inst
    BY <1>3 DEF UpdateStartedTrials
  <2>2. \A t \in StartedJobs : t \in DOMAIN sess' /\ sess'[t].started
    <3>1. sess' = WithStarted(sess, StartedJobs) \/ StartedJobs = {}
      BY <1>3 DEF UpdateStartedTrials, ContainersInvariant, ContainersAreKnown
    <3>2. /\ StartedJobs \subseteq DOMAIN sess
          /\ \A t \in DOMAIN sess : sess[t] \in Row
      BY <1>0 DEF StartedJobs, TypeOK
    <3> HIDE DEF StartedJobs
    <3> QED BY <3>1, <3>2 DEF WithStarted, Row
  <2> QED BY <1>1, <2>1, <2>2
          DEF ContainersInvariant, ContainersAreKnown, StartedJobs
<1>4. CASE StartTrials
  <2>1. DOMAIN jobs = {} /\ inst' = inst
        /\ \A t \in DOMAIN jobs' : jobs'[t].state = "queued"
    BY <1>0, <1>4 DEF StartTrials, LocalInvariant
  <2> QED BY <1>1, <2>1 DEF ContainersInvariant, ContainersAreKnown
<1>5. CASE \E t \in DOMAIN jobs : Worker(t)
  <2>1. PICK t \in DOMAIN jobs : InstanceCreated(t)
    BY <1>5 DEF Worker, InstanceNotCreated, StartRaises
  <2>2. /\ jobs' = [jobs EXCEPT ![t].state = "started"]
        /\ inst' = [inst EXCEPT ![t] = "running"]
    BY <2>1 DEF InstanceCreated, JobEnds, InstanceAppears
  <2>3. /\ DOMAIN jobs' = DOMAIN jobs /\ jobs'[t].state = "started"
        /\ \A u \in DOMAIN jobs \ {t} : jobs'[u] = jobs[u]
        /\ \A u \in Trials \ {t} : inst'[u] = inst[u]
    <3>1. jobs[t] \in [cpuset : Cpusets \union {NoCpuset},
                       state : {"queued", "started", "failed", "raised"}]
      BY <1>0, <2>1 DEF TypeOK
    <3> QED BY <1>0, <2>2, <3>1 DEF TypeOK
  <2> QED BY <1>1, <2>3 DEF ContainersInvariant, ContainersAreKnown
<1>6. CASE /\ ~UpdateStartedTrials /\ ~StartTrials
           /\ ~\E t \in DOMAIN jobs : Worker(t)
  <2>1. jobs' = jobs
    BY <1>6 DEF Next, Iteration, LoopTest, EndExpiredTrials, DeleteExpired,
       SaveExpired, GetPreemptedTrials, QueryRaises, HandlingRaises,
       DeletePreempted, SavePreempted, World, Tick, PreemptInstance,
       ContainerExits, vars
  <2>2. \A t \in Trials : inst'[t] = inst[t] \/ inst'[t] = "none"
    <3>1. CASE Iteration
      BY <1>6, <3>1 DEF Iteration, LoopTest, EndExpiredTrials, DeleteExpired,
         SaveExpired, GetPreemptedTrials, QueryRaises, HandlingRaises,
         DeletePreempted, SavePreempted, Deleted
    <3>2. CASE World \/ UNCHANGED vars
      BY <1>0, <3>2 DEF World, Tick, PreemptInstance, ContainerExits, vars,
         TypeOK
    <3> QED BY <1>6, <3>1, <3>2 DEF Next
  <2> QED BY <1>2, <2>1, <2>2
<1> QED BY <1>3, <1>4, <1>5, <1>6

LEMMA ContainersInit == Init => ContainersInvariant
BY LocalInit DEF Init, ContainersInvariant, ContainersAreKnown

LEMMA KnownMeansOne == ContainersInvariant => OneContainerPerTrial
BY DEF ContainersInvariant, ContainersAreKnown, OneContainerPerTrial,
   LocalInvariant, SchedulerInvariant, JobsArePending, TypeOK

\* No trial of a local experiment is started while its container runs, unless
\* a commit fails or a call of the starmap raises: then what was started is
\* not said to be, and started again.
THEOREM OneContainer ==
    ASSUME Faults \intersect {"create_raise", "commit_fail"} = {}
    PROVE  Spec => []OneContainerPerTrial
<1>1. CASE ~Local
  <2>1. OneContainerPerTrial
    BY <1>1 DEF OneContainerPerTrial
  <2> QED BY <2>1, PTL
<1>2. CASE Local
  <2>1. Init => ContainersInvariant
    BY ContainersInit
  <2>2. ContainersInvariant /\ [Next]_vars => ContainersInvariant'
    BY <1>2, ContainersStep
  <2>3. ContainersInvariant => OneContainerPerTrial
    BY KnownMeansOne
  <2> QED BY <2>1, <2>2, <2>3, PTL DEF Spec
<1> QED BY <1>1, <1>2, ConfigAssumption
=============================================================================
