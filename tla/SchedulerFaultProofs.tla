------------------------ MODULE SchedulerFaultProofs ------------------------
(***************************************************************************)
(* Theorems about Scheduler that need some calls not to fail: which faults *)
(* a property excludes is part of what it says.                            *)
(***************************************************************************)
EXTENDS SchedulerProofs, SchedulerTerminatesMC

USE DEF Commit, CommitFails

-----------------------------------------------------------------------------
(***************************************************************************)
(* What the scheduler leaves in the database.                              *)
(***************************************************************************)
\* Where the session holds something that is not committed.
Unsaved == {"delete_expired", "save_expired", "delete_preempted",
            "save_preempted"}

\* Elsewhere it holds nothing of the kind, and the loop ends for what it sees.
SavedInvariant ==
    /\ TypeOK
    /\ pc \notin Unsaved => sess = db
    /\ pc = "finished" => AllTrialsEnded(sess)

\* Marking no trial changes no row.
LEMMA MarkingNone ==
    ASSUME TypeOK
    PROVE  WithEnded(sess, {}) = sess /\ WithPreempted(sess, {}) = sess
BY DEF TypeOK, WithEnded, WithPreempted

LEMMA SavedStep ==
    ASSUME Faults \intersect {"query_fail", "delete_fail", "delete_raise"} = {},
           SavedInvariant, [Next]_vars
    PROVE  SavedInvariant'
<1> USE DEF SavedInvariant, Unsaved
<1>0. TypeOK'
  BY TypeStep
<1>1. CASE LoopTest
  BY <1>0, <1>1 DEF LoopTest, AllTrialsEnded
<1>2. CASE EndExpiredTrials
  <2>1. CASE ExpiredTrials(sess) = {}
    BY <1>0, <1>2, <2>1, MarkingNone DEF EndExpiredTrials
  <2>2. CASE ExpiredTrials(sess) # {}
    BY <1>0, <1>2, <2>2 DEF EndExpiredTrials
  <2> QED BY <2>1, <2>2
<1>3. CASE DeleteExpired
  BY <1>0, <1>3 DEF DeleteExpired
<1>4. CASE SaveExpired
  BY <1>0, <1>4 DEF SaveExpired
<1>5. CASE StartTrials
  BY <1>0, <1>5 DEF StartTrials
<1>6. CASE UpdateStartedTrials
  BY <1>0, <1>6 DEF UpdateStartedTrials
<1>7. CASE GetPreemptedTrials
  <2>1. CASE NewlyPreempted = {}
    BY <1>0, <1>7, <2>1, MarkingNone DEF GetPreemptedTrials
  <2>2. CASE NewlyPreempted # {}
    BY <1>0, <1>7, <2>2 DEF GetPreemptedTrials
  <2> QED BY <2>1, <2>2
<1>8. CASE QueryRaises
  BY <1>0, <1>8 DEF QueryRaises
<1>9. CASE HandlingRaises
  BY <1>9 DEF HandlingRaises
<1>10. CASE DeletePreempted
  BY <1>0, <1>10 DEF DeletePreempted
<1>11. CASE SavePreempted
  BY <1>0, <1>11 DEF SavePreempted
<1>12. CASE \/ World
            \/ \E t \in DOMAIN jobs : Worker(t)
            \/ UNCHANGED vars
  <2>1. UNCHANGED <<pc, sess, db>>
    BY <1>12 DEF World, Tick, PreemptInstance, ContainerExits, Worker, vars,
       InstanceCreated, InstanceNotCreated, StartRaises, JobEnds
  <2> QED BY <1>0, <2>1 DEF AllTrialsEnded
<1> QED BY <1>1, <1>2, <1>3, <1>4, <1>5, <1>6, <1>7, <1>8, <1>9, <1>10, <1>11,
           <1>12 DEF Next, Iteration

\* When the scheduler stops, the rows that the measurer reads say that all
\* trials ended, unless queries or deletions fail: then an end may have stayed
\* in the session, where the loop's condition sees it.
THEOREM FinishedEnded ==
    ASSUME Faults \intersect {"query_fail", "delete_fail", "delete_raise"} = {}
    PROVE  Spec => []FinishedMeansEnded
<1>1. Init => SavedInvariant
  BY TypeInit DEF Init, SavedInvariant
<1>2. SavedInvariant /\ [Next]_vars => SavedInvariant'
  BY SavedStep
<1>3. SavedInvariant => FinishedMeansEnded
  BY DEF SavedInvariant, Unsaved, AllTrialsEnded, FinishedMeansEnded
<1> QED BY <1>1, <1>2, <1>3, PTL DEF Spec

-----------------------------------------------------------------------------
(***************************************************************************)
(* What the scheduler leaves in the cloud.                                 *)
(***************************************************************************)
\* An instance whose trial has ended in the session is about to be deleted,
\* and the database does not say yet that the trial ended.
DeletedInvariant ==
    /\ SchedulerInvariant
    /\ \A t \in DOMAIN sess :
         /\ ~Local /\ inst[t] = "running"
         /\ sess[t].ended /\ ~sess[t].preempted
         => /\ pc = "delete_expired" /\ t \in doomed
            /\ ~db[t].ended

\* Where the database says that a trial ended the session agrees.
LEMMA EndIsCommitted ==
    ASSUME SchedulerInvariant, NEW t \in DOMAIN sess, db[t].ended
    PROVE  sess[t] = db[t]
BY DEF SchedulerInvariant, SessionIsAhead, AheadOf, TypeOK

LEMMA DeletedStep ==
    ASSUME Faults \intersect {"delete_fail", "delete_raise"} = {},
           DeletedInvariant, [Next]_vars
    PROVE  DeletedInvariant'
<1> DEFINE Gone(t) == /\ ~Local /\ inst[t] = "running"
                      /\ sess[t].ended /\ ~sess[t].preempted
                      => /\ pc = "delete_expired" /\ t \in doomed
                         /\ ~db[t].ended
<1>0. SchedulerInvariant /\ SchedulerInvariant' /\ TypeOK /\ TypeOK'
  BY InvariantStep DEF DeletedInvariant, SchedulerInvariant
<1>a. \A t \in DOMAIN sess : Gone(t)
  BY DEF DeletedInvariant
<1>b. \A t \in DOMAIN sess : db[t].ended =>
        ~(~Local /\ inst[t] = "running" /\ ~db[t].preempted)
  BY <1>0, <1>a, EndIsCommitted
<1> SUFFICES ASSUME NEW t \in DOMAIN sess' PROVE Gone(t)'
  BY <1>0 DEF DeletedInvariant
<1>1. CASE LoopTest
  BY <1>a, <1>1 DEF LoopTest
<1>2. CASE EndExpiredTrials
  <2>1. t \in DOMAIN sess
    BY <1>2 DEF EndExpiredTrials, WithEnded
  <2>2. CASE t \in ExpiredTrials(sess)
    <3>1. sess[t].ended = FALSE
      BY <1>0, <2>1, <2>2 DEF ExpiredTrials, RunningTrials, TypeOK, Row
    <3>2. ~db[t].ended
      BY <1>0, <2>1, <3>1, EndIsCommitted
    <3> QED BY <1>2, <2>2, <3>2 DEF EndExpiredTrials
  <2>3. CASE t \notin ExpiredTrials(sess)
    <3>1. sess'[t] = sess[t] /\ inst' = inst /\ pc = "schedule"
      BY <1>2, <2>1, <2>3 DEF EndExpiredTrials, WithEnded
    <3> QED BY <1>a, <2>1, <3>1
  <2> QED BY <2>2, <2>3
<1>3. CASE DeleteExpired
  <2>1. sess' = sess /\ inst' = Deleted(doomed)
    BY <1>3 DEF DeleteExpired
  <2>2. inst'[t] = IF t \in doomed THEN "none" ELSE inst[t]
    BY <1>0, <2>1 DEF Deleted, TypeOK
  <2> QED BY <1>a, <2>1, <2>2
<1>4. CASE SaveExpired
  <2>1. inst' = inst /\ pc = "save_expired" /\ (sess' = sess \/ sess' = db)
    BY <1>4 DEF SaveExpired
  <2>2. t \in DOMAIN sess
    BY <1>0, <2>1 DEF TypeOK
  <2> QED BY <1>a, <1>b, <2>1, <2>2
<1>5. CASE StartTrials
  BY <1>a, <1>5 DEF StartTrials
<1>6. CASE UpdateStartedTrials
  <2>1. /\ inst' = inst /\ pc = "creating"
        /\ \/ sess' = sess \/ sess' = db
           \/ sess' = WithStarted(sess, StartedJobs)
    BY <1>6 DEF UpdateStartedTrials
  <2>2. CASE sess' = sess \/ sess' = db
    BY <1>0, <1>a, <1>b, <2>1, <2>2 DEF TypeOK
  <2>3. CASE sess' = WithStarted(sess, StartedJobs)
    <3>1. /\ t \in DOMAIN sess
          /\ sess'[t].ended = sess[t].ended
          /\ sess'[t].preempted = sess[t].preempted
      BY <1>0, <2>3 DEF WithStarted, TypeOK, Row
    <3> QED BY <1>a, <2>1, <3>1
  <2> QED BY <2>1, <2>2, <2>3
<1>7. CASE GetPreemptedTrials
  <2>1. /\ inst' = inst /\ pc = "preempted"
        /\ sess' = WithPreempted(sess, NewlyPreempted)
    BY <1>7 DEF GetPreemptedTrials
  <2>2. /\ t \in DOMAIN sess
        /\ sess'[t] = sess[t] \/ sess'[t].preempted
    <3>1. t \in DOMAIN sess /\ sess[t] \in Row
      BY <1>0, <2>1 DEF WithPreempted, TypeOK
    <3> QED BY <2>1, <3>1 DEF WithPreempted, Row
  <2> QED BY <1>a, <2>1, <2>2
<1>8. CASE QueryRaises
  BY <1>a, <1>8 DEF QueryRaises
<1>9. CASE HandlingRaises
  <2>1. PICK S \in SUBSET NewlyPreempted : sess' = WithPreempted(sess, S)
    BY <1>9 DEF HandlingRaises
  <2>2. /\ t \in DOMAIN sess
        /\ sess'[t] = sess[t] \/ sess'[t].preempted
    <3>1. t \in DOMAIN sess /\ sess[t] \in Row
      BY <1>0, <2>1 DEF WithPreempted, TypeOK
    <3> QED BY <2>1, <3>1 DEF WithPreempted, Row
  <2>3. inst' = inst /\ pc = "preempted"
    BY <1>9 DEF HandlingRaises
  <2> QED BY <1>a, <2>2, <2>3
<1>10. CASE DeletePreempted
  <2>1. sess' = sess /\ pc = "delete_preempted" /\ inst' = Deleted(doomed)
    BY <1>10 DEF DeletePreempted
  <2>2. inst'[t] = "none" \/ inst'[t] = inst[t]
    BY <1>0, <2>1 DEF Deleted, TypeOK
  <2> QED BY <1>a, <2>1, <2>2
<1>11. CASE SavePreempted
  <2>0. inst' = inst /\ pc = "save_preempted"
    BY <1>11 DEF SavePreempted
  <2>1. CASE sess' = db
    BY <1>0, <1>b, <2>0, <2>1 DEF TypeOK
  <2>2. CASE sess' # db
    <3>1. PICK newId \in Injection(DOMAIN replacing, Trials \ DOMAIN sess) :
             sess' = WithReplacements(sess, newId)
      BY <1>11, <2>2 DEF SavePreempted
    <3>s. /\ DOMAIN sess' = DOMAIN sess \union Range(newId)
          /\ \A u \in DOMAIN sess : sess'[u] = sess[u]
          /\ \A u \in DOMAIN replacing :
               sess'[newId[u]] = NewRow(sess[u].slot, replacing[u])
          /\ \A u \in Range(newId) :
               \E s \in DOMAIN replacing : u = newId[s]
      <4> DEFINE new == WithReplacements(sess, newId)
      <4>s. SavedIn(new, newId)
        BY <1>0, <3>1, SavedRows
      <4>1. /\ DOMAIN new = DOMAIN sess \union Range(newId)
            /\ \A u \in DOMAIN sess : new[u] = sess[u]
            /\ \A u \in DOMAIN replacing :
                 new[newId[u]] = NewRow(sess[u].slot, replacing[u])
            /\ \A u \in Range(newId) :
                 /\ u \notin DOMAIN sess
                 /\ \E s \in DOMAIN replacing : u = newId[s]
        BY <4>s DEF SavedIn
      <4>2. sess' = new
        BY <3>1
      <4> HIDE DEF new
      <4> QED BY <4>1, <4>2
    <3>2. CASE t \in DOMAIN sess
      <4>1. sess'[t] = sess[t]
        BY <3>s, <3>2
      <4> QED BY <1>a, <2>0, <3>2, <4>1
    <3>3. CASE t \notin DOMAIN sess
      <4>1. PICK s \in DOMAIN replacing : t = newId[s]
        BY <3>s, <3>3
      <4>2. sess'[t] = NewRow(sess[s].slot, replacing[s])
        BY <3>s, <4>1
      <4> QED BY <4>2 DEF NewRow
    <3> QED BY <3>2, <3>3
  <2> QED BY <2>1, <2>2
<1>12. CASE World
  <2>1. /\ UNCHANGED <<sess, db, pc, doomed>>
        /\ \A u \in Trials : inst'[u] = "running" => inst[u] = "running"
    BY <1>0, <1>12
       DEF World, Tick, PreemptInstance, ContainerExits, TypeOK
  <2>2. t \in Trials
    BY <1>0 DEF TypeOK
  <2> QED BY <1>a, <2>1, <2>2
<1>13. CASE \E u \in DOMAIN jobs : Worker(u)
  <2>1. PICK u \in DOMAIN jobs : Worker(u)
    BY <1>13
  <2>2. /\ UNCHANGED <<sess, db, doomed, pc>> /\ pc = "creating"
        /\ \A v \in Trials \ {u} : inst'[v] = inst[v]
    BY <1>0, <2>1 DEF Worker, InstanceCreated, InstanceNotCreated, StartRaises,
       JobEnds, InstanceAppears, TypeOK
  <2>3. ~sess[u].ended
    BY <1>0, <2>1 DEF SchedulerInvariant, JobsArePending, EndsInOrder, TypeOK
  <2>4. t \in DOMAIN sess /\ t \in Trials
    BY <1>0, <2>2 DEF TypeOK
  <2> QED BY <1>a, <2>2, <2>3, <2>4
<1>14. CASE UNCHANGED vars
  BY <1>a, <1>14 DEF vars
<1> QED BY <1>1, <1>2, <1>3, <1>4, <1>5, <1>6, <1>7, <1>8, <1>9, <1>10, <1>11,
           <1>12, <1>13, <1>14 DEF Next, Iteration

\* A trial that the database shows as run to its end has no instance that still
\* runs, however creations, queries and commits fail, as long as deletions do
\* not: the rows are saved after the instances were deleted.
THEOREM EndedDeleted ==
    ASSUME Faults \intersect {"delete_fail", "delete_raise"} = {}
    PROVE  Spec => []EndedTrialsAreDeleted
<1>1. Init => DeletedInvariant
  BY InvariantInit DEF Init, NewRow, DeletedInvariant
<1>2. DeletedInvariant /\ [Next]_vars => DeletedInvariant'
  BY DeletedStep
<1>3. DeletedInvariant => EndedTrialsAreDeleted
  <2> SUFFICES ASSUME DeletedInvariant, ~Local,
                      NEW t \in NonpreemptedTrials(db), db[t].ended
               PROVE  inst[t] # "running"
    BY DEF EndedTrialsAreDeleted
  <2>1. t \in DOMAIN sess /\ ~db[t].preempted
    BY DEF NonpreemptedTrials, DeletedInvariant, SchedulerInvariant, TypeOK
  <2>2. sess[t] = db[t]
    BY <2>1, EndIsCommitted DEF DeletedInvariant
  <2> QED BY <2>1, <2>2 DEF DeletedInvariant
<1> QED BY <1>1, <1>2, <1>3, PTL DEF Spec

-----------------------------------------------------------------------------
(***************************************************************************)
(* What the scheduler gives up.                                            *)
(***************************************************************************)
\* The slots for which the database has no trial that counts.
LostSlots(rows) ==
    {s \in InitialTrials : \A t \in NonpreemptedTrials(rows) : rows[t].slot # s}

\* The trials that are marked, not saved, and get no replacement.
GivenUp ==
    {t \in DOMAIN sess :
        sess[t].preempted /\ ~db[t].preempted /\ t \notin DOMAIN replacing}

\* A slot that is lost, or will be with the next transaction, was counted; a
\* mark is in the session alone only while handle_preempted_trials is at work.
SlotsInvariant ==
    /\ SchedulerInvariant
    /\ Cardinality(LostSlots(db)) + Cardinality(GivenUp) <= omits
    /\ pc \notin {"delete_preempted", "save_preempted"} => GivenUp = {}

LEMMA SlotsAreFinite ==
    ASSUME TypeOK
    PROVE  /\ IsFiniteSet(LostSlots(db)) /\ Cardinality(LostSlots(db)) \in Nat
           /\ IsFiniteSet(GivenUp) /\ Cardinality(GivenUp) \in Nat
           /\ omits \in Nat
<1>1. LostSlots(db) \in SUBSET Trials /\ GivenUp \in SUBSET Trials
  BY TrialsAssumption DEF TypeOK, LostSlots, GivenUp
<1> QED BY <1>1, TrialSetsAreFinite DEF TypeOK

\* Rows with the same slots and marks lose the same slots.
LEMMA SameMarks ==
    ASSUME NEW old, NEW new, DOMAIN new = DOMAIN old,
           \A t \in DOMAIN old : /\ new[t].slot = old[t].slot
                                 /\ new[t].preempted = old[t].preempted
    PROVE  LostSlots(new) = LostSlots(old)
BY DEF LostSlots, NonpreemptedTrials

\* A step that changes no mark, in the session or the database, and counts
\* nothing, loses nothing.
LEMMA UnmarkedKeeps ==
    ASSUME SlotsInvariant, SchedulerInvariant',
           LostSlots(db') = LostSlots(db), GivenUp' \subseteq GivenUp,
           omits' = omits,
           pc' \notin {"delete_preempted", "save_preempted"} => GivenUp' = {}
    PROVE  SlotsInvariant'
<1>1. TypeOK /\ TypeOK'
  BY DEF SlotsInvariant, SchedulerInvariant
<1>2. /\ IsFiniteSet(GivenUp)
      /\ Cardinality(GivenUp) \in Nat /\ Cardinality(LostSlots(db)) \in Nat
  BY <1>1, SlotsAreFinite
<1>3. /\ Cardinality(GivenUp') \in Nat
      /\ Cardinality(GivenUp') <= Cardinality(GivenUp)
  BY <1>2, FS_Subset, FS_CardinalityType
<1>4. omits \in Nat
  BY <1>1 DEF TypeOK
<1> QED BY <1>2, <1>3, <1>4 DEF SlotsInvariant

\* Saved replacements take the slots of the trials they replace: only what was
\* given up is lost with the marks on the preempted trials.
LEMMA SavedLosesGivenUp ==
    ASSUME SchedulerInvariant, SchedulerInvariant',
           NEW newId \in Injection(DOMAIN replacing, Trials \ DOMAIN sess),
           db' = WithReplacements(sess, newId)
    PROVE  LostSlots(db') \subseteq
             LostSlots(db) \union {db[t].slot : t \in GivenUp}
<1>0. TypeOK /\ TypeOK'
  BY DEF SchedulerInvariant
<1>1. /\ DOMAIN db' = DOMAIN sess \union Range(newId)
      /\ \A t \in DOMAIN sess : db'[t] = sess[t]
      /\ \A t \in DOMAIN replacing :
           db'[newId[t]] = NewRow(sess[t].slot, replacing[t])
  <2> DEFINE new == WithReplacements(sess, newId)
  <2>2. db' = new
    OBVIOUS
  <2>3. SavedIn(new, newId)
    BY <1>0, SavedRows
  <2> HIDE DEF new
  <2>1. /\ DOMAIN new = DOMAIN sess \union Range(newId)
        /\ \A t \in DOMAIN sess : new[t] = sess[t]
        /\ \A t \in DOMAIN replacing :
             new[newId[t]] = NewRow(sess[t].slot, replacing[t])
    BY <2>3 DEF SavedIn
  <2> QED BY <2>1, <2>2
<1> SUFFICES ASSUME NEW s \in LostSlots(db'), s \notin LostSlots(db)
             PROVE  \E t \in GivenUp : db[t].slot = s
  OBVIOUS
<1>2. PICK t \in DOMAIN db : ~db[t].preempted /\ db[t].slot = s
  BY DEF LostSlots, NonpreemptedTrials
<1>3. t \in DOMAIN sess /\ sess[t].slot = s /\ t \in DOMAIN db'
  BY <1>0, <1>1, <1>2, AheadKeeps DEF SchedulerInvariant, TypeOK
<1>4. sess[t].preempted
  <2>1. t \notin NonpreemptedTrials(db')
    BY <1>1, <1>3 DEF LostSlots
  <2> QED BY <1>1, <1>3, <2>1 DEF NonpreemptedTrials
<1>5. t \notin DOMAIN replacing
  <2> SUFFICES ASSUME t \in DOMAIN replacing PROVE FALSE
    OBVIOUS
  <2>1. newId[t] \in DOMAIN db'
    BY <1>1 DEF Injection, Range
  <2>2. db'[newId[t]] = NewRow(s, replacing[t])
    BY <1>1, <1>3
  <2>3. db'[newId[t]].slot = s /\ ~db'[newId[t]].preempted
    BY <2>2 DEF NewRow
  <2> QED BY <2>1, <2>3 DEF LostSlots, NonpreemptedTrials
<1> QED BY <1>2, <1>3, <1>4, <1>5 DEF GivenUp

\* A set of slots has no more elements than the trials that stand for them.
LEMMA SlotsOfTrials ==
    ASSUME NEW S, IsFiniteSet(S)
    PROVE  LET slots == {db[t].slot : t \in S}
           IN  IsFiniteSet(slots) /\ Cardinality(slots) <= Cardinality(S)
<1> DEFINE slots == {db[t].slot : t \in S}
           f == [t \in S |-> db[t].slot]
<1>1. f \in Surjection(S, slots)
  BY DEF Surjection
<1> QED BY <1>1, FS_Surjection

LEMMA SlotsStep ==
    ASSUME Faults \intersect {"query_fail", "delete_raise"} = {},
           SlotsInvariant, [Next]_vars
    PROVE  SlotsInvariant'
<1>0. /\ SchedulerInvariant /\ SchedulerInvariant' /\ TypeOK /\ TypeOK'
      /\ LostSlots(db)' = LostSlots(db')
  BY InvariantStep DEF SlotsInvariant, SchedulerInvariant, LostSlots
<1>u. ASSUME UNCHANGED <<sess, db, replacing, omits>>,
             pc \in {"delete_preempted", "save_preempted"} =>
               pc' \in {"delete_preempted", "save_preempted"}
      PROVE  SlotsInvariant'
  <2>1. GivenUp' = GivenUp /\ LostSlots(db)' = LostSlots(db)
    BY <1>u DEF GivenUp, LostSlots
  <2> QED BY <1>0, <1>u, <2>1, UnmarkedKeeps DEF SlotsInvariant
<1>n. pc \notin {"delete_preempted", "save_preempted"} =>
        GivenUp = {} /\ DOMAIN replacing = {}
  BY <1>0 DEF SlotsInvariant, SchedulerInvariant, ReplacementsInHand
<1>r. ASSUME sess' = db, db' = db, omits' = omits
      PROVE  SlotsInvariant'
  <2>1. GivenUp' = {} /\ LostSlots(db') = LostSlots(db)
    BY <1>r DEF GivenUp
  <2> QED BY <1>0, <1>r, <2>1, UnmarkedKeeps
\* A commit of what changed no mark.
<1>c. ASSUME pc \notin {"delete_preempted", "save_preempted"},
             DOMAIN db' = DOMAIN db, sess' = db', omits' = omits,
             \A t \in DOMAIN db : /\ db'[t].slot = sess[t].slot
                                  /\ db'[t].preempted = sess[t].preempted
      PROVE  SlotsInvariant'
  <2>1. GivenUp' = {}
    BY <1>c DEF GivenUp
  <2>2. \A t \in DOMAIN db : sess[t].preempted = db[t].preempted
    <3> SUFFICES ASSUME NEW t \in DOMAIN db
                 PROVE  sess[t].preempted = db[t].preempted
      OBVIOUS
    <3>1. t \in DOMAIN sess /\ t \notin GivenUp /\ t \notin DOMAIN replacing
      BY <1>0, <1>c, <1>n DEF TypeOK
    <3>2. db[t].preempted => sess[t].preempted
      BY <1>0, <3>1, AheadKeeps DEF SchedulerInvariant
    <3>3. sess[t].preempted \in BOOLEAN /\ db[t].preempted \in BOOLEAN
      BY <1>0, <3>1 DEF TypeOK, Row
    <3> QED BY <3>1, <3>2, <3>3 DEF GivenUp
  <2>3. \A t \in DOMAIN db : sess[t].slot = db[t].slot
    BY <1>0, AheadKeeps DEF SchedulerInvariant, TypeOK
  <2>4. LostSlots(db') = LostSlots(db)
    BY <1>c, <2>2, <2>3, SameMarks
  <2> QED BY <1>0, <1>c, <2>1, <2>4, UnmarkedKeeps
<1>1. CASE LoopTest
  BY <1>u, <1>1 DEF LoopTest
<1>2. CASE EndExpiredTrials
  <2>1. /\ sess' = WithEnded(sess, ExpiredTrials(sess)) /\ db' = db
        /\ replacing' = replacing /\ omits' = omits /\ pc = "schedule"
        /\ pc' \notin {"delete_preempted", "save_preempted"}
    BY <1>2 DEF EndExpiredTrials
  <2>2. /\ DOMAIN sess' = DOMAIN sess
        /\ \A t \in DOMAIN sess : sess'[t].preempted = sess[t].preempted
    BY <1>0, <2>1 DEF WithEnded, TypeOK, Row
  <2>3. GivenUp' = {}
    BY <1>n, <2>1, <2>2 DEF GivenUp
  <2> QED BY <1>0, <2>1, <2>3, UnmarkedKeeps
<1>3. CASE DeleteExpired
  BY <1>u, <1>3 DEF DeleteExpired
<1>4. CASE SaveExpired
  <2>1. /\ (sess' = sess /\ db' = sess) \/ (sess' = db /\ db' = db)
        /\ omits' = omits /\ pc = "save_expired"
    BY <1>4 DEF SaveExpired
  <2> QED BY <1>0, <1>c, <1>r, <2>1 DEF TypeOK
<1>5. CASE StartTrials
  BY <1>u, <1>5 DEF StartTrials
<1>6. CASE UpdateStartedTrials
  <2>1. /\ \/ sess' = sess /\ db' = db
           \/ sess' = db /\ db' = db
           \/ /\ sess' = WithStarted(sess, StartedJobs)
              /\ db' = WithStarted(sess, StartedJobs)
        /\ omits' = omits /\ pc = "creating" /\ replacing' = replacing
        /\ pc' \notin {"delete_preempted", "save_preempted"}
    BY <1>6 DEF UpdateStartedTrials
  <2>2. CASE sess' = sess /\ db' = db
    BY <1>u, <2>1, <2>2
  <2>3. CASE sess' = db /\ db' = db
    BY <1>r, <2>1, <2>3
  <2>4. CASE db' = WithStarted(sess, StartedJobs) /\ sess' = db'
    <3>1. /\ DOMAIN db' = DOMAIN db
          /\ \A t \in DOMAIN db : /\ db'[t].slot = sess[t].slot
                                  /\ db'[t].preempted = sess[t].preempted
      BY <1>0, <2>4 DEF WithStarted, TypeOK, Row
    <3> QED BY <1>c, <2>1, <2>4, <3>1
  <2> QED BY <2>1, <2>2, <2>3, <2>4
<1>7. CASE GetPreemptedTrials
  <2> DEFINE P == NewlyPreempted
             R == DOMAIN replacing'
  <2>1. /\ sess' = WithPreempted(sess, P) /\ db' = db /\ pc = "preempted"
        /\ pc' = IF P = {} THEN "test" ELSE "delete_preempted"
        /\ replacing' \in Replacements(sess, P)
        /\ omits' = omits + Cardinality(P \ R)
    BY <1>7 DEF GetPreemptedTrials
  <2>2. P \subseteq RunningTrials(sess)
    BY DEF NewlyPreempted
  <2>3. /\ P \in SUBSET DOMAIN sess /\ P \in SUBSET Trials
        /\ \A t \in P : ~db[t].preempted
    BY <1>0, <2>2, RunningIsCommitted
       DEF SchedulerInvariant, RunningTrials, NonpreemptedTrials, TypeOK
  <2>4. /\ DOMAIN sess' = DOMAIN sess
        /\ \A t \in P : sess'[t].preempted
        /\ \A t \in DOMAIN sess \ P : sess'[t] = sess[t]
    <3>1. \A t \in P : sess[t] \in Row
      BY <1>0, <2>3 DEF TypeOK
    <3> HIDE DEF P
    <3>2. \A t \in P : [sess[t] EXCEPT !.ended = TRUE,
                                      !.preempted = TRUE].preempted
      BY <3>1 DEF Row
    <3> QED BY <2>1, <2>3, <3>2 DEF WithPreempted
  <2>5. GivenUp' = P \ R
    <3>1. \A t \in DOMAIN sess \ P : sess[t].preempted => db[t].preempted
      BY <1>n, <2>1 DEF GivenUp
    <3> HIDE DEF P
    <3>2. db' = db
      BY <2>1
    <3>3. P \ R \subseteq GivenUp'
      BY <2>3, <2>4, <3>2 DEF GivenUp
    <3>4. GivenUp' \subseteq P \ R
      BY <2>4, <3>1, <3>2 DEF GivenUp
    <3> QED BY <3>3, <3>4
  <2>6. /\ Cardinality(P \ R) \in Nat /\ Cardinality(LostSlots(db)) \in Nat
        /\ omits \in Nat
    <3>1. P \ R \in SUBSET Trials
      BY <2>3
    <3> QED BY <1>0, <3>1, TrialSetsAreFinite, SlotsAreFinite
  <2>7. Cardinality(LostSlots(db)) <= omits
    <3>1. Cardinality(GivenUp) = 0
      BY <1>n, <2>1, FS_EmptySet
    <3> QED BY <2>6, <3>1 DEF SlotsInvariant
  <2>8. /\ Cardinality(LostSlots(db')) + Cardinality(GivenUp') <= omits'
    <3> HIDE DEF P, R
    <3> QED BY <2>1, <2>5, <2>6, <2>7
  <2>9. pc' \notin {"delete_preempted", "save_preempted"} => GivenUp' = {}
    BY <2>1, <2>5
  <2> QED BY <1>0, <2>8, <2>9 DEF SlotsInvariant
<1>8. CASE QueryRaises
  BY <1>u, <1>8 DEF QueryRaises
<1>9. CASE HandlingRaises
  BY <1>9 DEF HandlingRaises
<1>10. CASE DeletePreempted
  <2>1. /\ UNCHANGED <<sess, db, replacing, omits>>
        /\ pc' = "save_preempted"
    BY <1>10 DEF DeletePreempted
  <2> QED BY <1>u, <2>1
<1>11. CASE SavePreempted
  <2>0. /\ omits' = omits /\ DOMAIN replacing' = {} /\ pc' = "test"
    BY <1>11 DEF SavePreempted, CommitFails
  <2>1. CASE sess' = db /\ db' = db
    BY <1>r, <2>0, <2>1
  <2>2. ASSUME NEW newId \in Injection(DOMAIN replacing, Trials \ DOMAIN sess),
               db' = WithReplacements(sess, newId), sess' = db'
        PROVE  SlotsInvariant'
    <3> DEFINE slots == {db[t].slot : t \in GivenUp}
    <3>1. LostSlots(db') \subseteq LostSlots(db) \union slots
      BY <1>0, <2>2, SavedLosesGivenUp
    <3>2. /\ IsFiniteSet(LostSlots(db)) /\ Cardinality(LostSlots(db)) \in Nat
          /\ IsFiniteSet(GivenUp) /\ Cardinality(GivenUp) \in Nat
          /\ omits \in Nat
      BY <1>0, SlotsAreFinite
    <3>3. /\ IsFiniteSet(slots) /\ Cardinality(slots) \in Nat
          /\ Cardinality(slots) <= Cardinality(GivenUp)
      BY <3>2, SlotsOfTrials, FS_CardinalityType
    <3> DEFINE both == LostSlots(db) \union slots
    <3>4. /\ IsFiniteSet(both) /\ Cardinality(both) \in Nat
          /\ Cardinality(both) <=
               Cardinality(LostSlots(db)) + Cardinality(slots)
      <4>1. /\ IsFiniteSet(both)
            /\ Cardinality(both) =
                 Cardinality(LostSlots(db)) + Cardinality(slots)
                   - Cardinality(LostSlots(db) \intersect slots)
        BY <3>2, <3>3, FS_Union
      <4>2. Cardinality(LostSlots(db) \intersect slots) \in Nat
        BY <3>2, FS_Intersection, FS_CardinalityType
      <4> QED BY <3>2, <3>3, <4>1, <4>2, FS_CardinalityType
    <3>5. /\ Cardinality(LostSlots(db')) \in Nat
          /\ Cardinality(LostSlots(db')) <= Cardinality(both)
      BY <3>1, <3>4, FS_Subset, FS_CardinalityType
    <3>6. GivenUp' = {}
      BY <2>2 DEF GivenUp
    <3>7. Cardinality(LostSlots(db)) + Cardinality(GivenUp) <= omits
      BY DEF SlotsInvariant
    <3>8. Cardinality(LostSlots(db')) <= omits /\ Cardinality(GivenUp') = 0
      <4> HIDE DEF slots, both
      <4> QED BY <3>2, <3>3, <3>4, <3>5, <3>6, <3>7, FS_EmptySet
    <3> QED BY <1>0, <2>0, <3>2, <3>5, <3>6, <3>8 DEF SlotsInvariant
  <2> QED BY <1>11, <2>1, <2>2 DEF SavePreempted, Commit, CommitFails
<1>12. CASE World
  BY <1>u, <1>12 DEF World, Tick, PreemptInstance, ContainerExits
<1>13. CASE \E u \in DOMAIN jobs : Worker(u)
  BY <1>u, <1>13 DEF Worker, InstanceCreated, InstanceNotCreated, StartRaises,
     JobEnds
<1>14. CASE UNCHANGED vars
  BY <1>u, <1>14 DEF vars
<1> QED BY <1>1, <1>2, <1>3, <1>4, <1>5, <1>6, <1>7, <1>8, <1>9, <1>10, <1>11,
           <1>12, <1>13, <1>14 DEF Next, Iteration

\* Every slot without a trial that counts was given up to cap the cost and
\* counted in num_preemptible_omits, however instances, commits, deletions and
\* listings fail.  Not so if a query, or listing inside delete_instances,
\* raises: the marks on the preempted trials stay in the session then, and a
\* later commit saves them without the replacements.
THEOREM LostByOmission ==
    ASSUME Faults \intersect {"query_fail", "delete_raise"} = {}
    PROVE  Spec => []SlotsLostOnlyByOmission
<1>1. Init => SlotsInvariant
  <2> SUFFICES ASSUME Init PROVE SlotsInvariant
    OBVIOUS
  <2>1. SchedulerInvariant /\ TypeOK
    BY InvariantInit DEF SchedulerInvariant
  <2>2. \A s \in InitialTrials : /\ s \in NonpreemptedTrials(db)
                                 /\ db[s].slot = s
    BY DEF Init, NewRow, NonpreemptedTrials
  <2>3. LostSlots(db) = {} /\ GivenUp = {} /\ omits = 0
    BY <2>2 DEF LostSlots, Init, GivenUp
  <2> QED BY <2>1, <2>3, FS_EmptySet DEF SlotsInvariant
<1>2. SlotsInvariant /\ [Next]_vars => SlotsInvariant'
  BY SlotsStep
<1>3. SlotsInvariant => SlotsLostOnlyByOmission
  <2> SUFFICES ASSUME SlotsInvariant PROVE SlotsLostOnlyByOmission
    OBVIOUS
  <2>1. Cardinality(LostSlots(db)) <= omits
    BY SlotsAreFinite DEF SlotsInvariant, SchedulerInvariant
  <2> QED BY <2>1 DEF LostSlots, SlotsLostOnlyByOmission
<1> QED BY <1>1, <1>2, <1>3, PTL DEF Spec

-----------------------------------------------------------------------------
(***************************************************************************)
(* The local experiment next to the one in the cloud.                      *)
(***************************************************************************)
\* The instance satisfies what Scheduler assumes.
LEMMA LocalAssumptions ==
    LocalScheduler!TrialsAssumption /\ LocalScheduler!ConfigAssumption
<1>1. ASSUME NEW S
      PROVE  LocalScheduler!IsFiniteSet(S) <=> IsFiniteSet(S)
  BY DEF LocalScheduler!IsFiniteSet, IsFiniteSet
<1>2. IsFiniteSet({})
  BY FS_EmptySet
<1>3. IsFiniteSet(ThreeInitial)
  <2>1. ThreeInitial = (({} \union {i1}) \union {i2}) \union {i3}
    BY DEF ThreeInitial
  <2> QED BY <1>2, <2>1, FS_AddElement
<1>4. IsFiniteSet(TwoCpusets)
  <2>1. TwoCpusets = ({} \union {c1}) \union {c2}
    BY DEF TwoCpusets
  <2> QED BY <1>2, <2>1, FS_AddElement
<1>5. LocalScheduler!TrialsAssumption
  BY <1>1, <1>3, LocalAssumption DEF LocalScheduler!TrialsAssumption
<1>6. LocalScheduler!ConfigAssumption
  BY <1>1, <1>4, LocalAssumption, ConfigAssumption
     DEF LocalScheduler!ConfigAssumption
<1> QED BY <1>5, <1>6

\* While the local experiment is looked at, its scheduler takes the steps.
LEMMA LocalSteps ==
    ASSUME [EitherNext]_<<isLocal, vars>>, isLocal'
    PROVE  isLocal /\ [LocalScheduler!Next]_LocalScheduler!vars
BY DEF EitherNext, InCloud, OnOneMachine, vars, LocalScheduler!vars

\* Of a local experiment without faults: its core_allocation is exact.
THEOREM LocalCoresFollow == EitherSpec => []LocalCoresFollowRunningTrials
<1> DEFINE Inv == isLocal => LocalScheduler!CoresInvariant
<1>1. EitherInit => Inv
  BY LocalAssumptions, LocalScheduler!CoresInit DEF EitherInit
<1>2. Inv /\ [EitherNext]_<<isLocal, vars>> => Inv'
  <2> SUFFICES ASSUME Inv, [EitherNext]_<<isLocal, vars>>, isLocal'
               PROVE  LocalScheduler!CoresInvariant'
    OBVIOUS
  <2>1. TwoCpusets # {}
    BY DEF TwoCpusets
  <2> QED
    BY <2>1, LocalSteps, LocalAssumptions, LocalScheduler!CoresStep
<1>3. Inv => LocalCoresFollowRunningTrials
  BY LocalAssumptions, LocalScheduler!ExactMeansFollow
     DEF LocalCoresFollowRunningTrials
<1> QED
  BY <1>1, <1>2, <1>3, PTL DEF EitherSpec

\* ... and no trial of it is started twice.
THEOREM LocalOneContainer == EitherSpec => []LocalTrialsHaveOneContainer
<1> DEFINE Inv == isLocal => LocalScheduler!ContainersInvariant
<1>1. EitherInit => Inv
  BY LocalAssumptions, LocalScheduler!ContainersInit DEF EitherInit
<1>2. Inv /\ [EitherNext]_<<isLocal, vars>> => Inv'
  <2> SUFFICES ASSUME Inv, [EitherNext]_<<isLocal, vars>>, isLocal'
               PROVE  LocalScheduler!ContainersInvariant'
    OBVIOUS
  <2> QED
    BY LocalSteps, LocalAssumptions, LocalScheduler!ContainersStep
<1>3. Inv => LocalTrialsHaveOneContainer
  BY LocalAssumptions, LocalScheduler!KnownMeansOne
     DEF LocalTrialsHaveOneContainer
<1> QED
  BY <1>1, <1>2, <1>3, PTL DEF EitherSpec
=============================================================================
