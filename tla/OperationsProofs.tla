--------------------------- MODULE OperationsProofs ---------------------------
(***************************************************************************)
(* Theorems about the components around the trials: about the builds of an *)
(* experiment (Builder), for any fuzzers and benchmarks, any number of     *)
(* attempts and threads, and everything that can fail; about a process     *)
(* (Processes) and the images of a build (Images); and about OperationsMC, *)
(* where they are put side by side with the life of experiments            *)
(* (Lifecycle).                                                            *)
(***************************************************************************)
EXTENDS OperationsMC, TLAPS

PairArgs == Pairs(Benchmarks)

(***************************************************************************)
(* The inductive invariant.  AllTrialsOrNone is not inductive: one must    *)
(* know that an input that succeeded is not called again; TrialsCanRun     *)
(* that a pair is only called when its benchmark can be measured; and      *)
(* LeftOutAfterAllAttempts how often what is still called was tried.       *)
(***************************************************************************)
Outcomes == {"waiting", "building", "built", "ok", "failed", "raised"}

Types ==
    /\ stage \in {"base", "measurers", "fuzzers", "started", "raised"}
    /\ attempt \in 1..NUM_BUILD_ATTEMPTS
    /\ DOMAIN calls \subseteq Args
    /\ \A a \in DOMAIN calls : calls[a] \in Outcomes
    /\ successes \in [Args -> {0, 1}]
    /\ builds \subseteq Args \X (1..NUM_BUILD_ATTEMPTS)
    /\ images \subseteq Args
    /\ tries \in [Args -> 0..NUM_BUILD_ATTEMPTS]
    /\ trials \in [PairArgs -> {0, NumTrials}]

\* Each stage calls its own inputs; before a stage none of them succeeded.
CallsOfStage ==
    /\ stage \in {"base", "started"} => DOMAIN calls = {}
    /\ stage = "base" => attempt = 1
    /\ stage = "base" =>
         \A a \in MeasurerArgs : successes[a] = 0 /\ tries[a] = 0
    /\ stage = "measurers" => DOMAIN calls \subseteq MeasurerArgs
    /\ stage = "fuzzers" => DOMAIN calls \subseteq PairArgs
    /\ stage \in {"base", "measurers"} =>
         \A p \in PairArgs : successes[p] = 0 /\ tries[p] = 0

\* What is called has not succeeded, and was tried in every attempt.
CalledUntilSuccess ==
    \A a \in DOMAIN calls :
        /\ successes[a] = 0
        /\ tries[a] = IF calls[a] = "waiting" THEN attempt - 1 ELSE attempt

\* What succeeded is there; a pair is called, or has succeeded, only when its
\* benchmark's coverage build is there.
SuccessesAreThere ==
    /\ \A a \in DOMAIN calls : calls[a] \in {"built", "ok"} => a \in images
    /\ \A a \in Args : successes[a] = 1 => a \in images
    /\ \A p \in PairArgs :
         p \in DOMAIN calls \/ successes[p] = 1 => <<p[2]>> \in images
    /\ TrialsCanRun

\* What is neither called nor succeeded was tried as often as possible.
GivenUpLate ==
    /\ stage = "measurers" =>
         \A a \in MeasurerArgs : a \in DOMAIN calls \/ successes[a] = 1
    /\ stage = "fuzzers" =>
         \A p \in PairArgs :
            \/ p \in DOMAIN calls \/ successes[p] = 1
            \/ tries[<<p[2]>>] = NUM_BUILD_ATTEMPTS
    /\ LeftOutAfterAllAttempts

BuilderInvariant ==
    /\ Types /\ CallsOfStage /\ CalledUntilSuccess
    /\ SuccessesAreThere /\ GivenUpLate

-----------------------------------------------------------------------------
\* The arguments of build_measurer are not those of build_fuzzer_benchmark.
LEMMA ArgsApart ==
    /\ Args = MeasurerArgs \union PairArgs
    /\ MeasurerArgs \intersect PairArgs = {}
    /\ \A p \in PairArgs : p[2] \in Benchmarks /\ <<p[2]>> \in MeasurerArgs
<1>1. \A p \in PairArgs : p \in Fuzzers \X Benchmarks
  BY DEF PairArgs, Pairs
<1>2. \A p \in PairArgs : p[2] \in Benchmarks /\ <<p[2]>> \in MeasurerArgs
  BY <1>1 DEF MeasurerArgs
<1>3. ASSUME NEW b \in Benchmarks, NEW p \in PairArgs, <<b>> = p PROVE FALSE
  <2>1. PICK f \in Fuzzers, c \in Benchmarks : p = <<f, c>>
    BY <1>1
  <2>2. Len(<<b>>) = 1 /\ Len(<<f, c>>) = 2
    OBVIOUS
  <2> QED BY <2>1, <2>2, <1>3
<1> QED BY <1>2, <1>3 DEF Args, MeasurerArgs, PairArgs

\* Pairs of fewer benchmarks are those pairs whose benchmark is among them.
LEMMA PairsOfFewer ==
    ASSUME NEW B \in SUBSET Benchmarks
    PROVE  Pairs(B) = {p \in PairArgs : p[2] \in B}
BY DEF PairArgs, Pairs

\* successes' of the end of an attempt.
LEMMA ExtendedIsOnce ==
    ASSUME Types, CalledUntilSuccess
    PROVE  /\ Extended \in [Args -> {0, 1}]
           /\ \A a \in Args :
                Extended[a] = 1 <=>
                    successes[a] = 1 \/ (a \in DOMAIN calls /\ calls[a] = "ok")
BY DEF Types, CalledUntilSuccess, Extended, Calls

-----------------------------------------------------------------------------
(***************************************************************************)
(* The inductive steps.                                                    *)
(***************************************************************************)
LEMMA InitInvariant == Init => BuilderInvariant
<1> SUFFICES ASSUME Init PROVE BuilderInvariant
  OBVIOUS
<1> USE BuilderAssumption, ArgsApart DEF Init, Start
<1>1. Types
  BY DEF Types, PairArgs
<1>2. CallsOfStage /\ CalledUntilSuccess
  BY DEF CallsOfStage, CalledUntilSuccess
<1>3. SuccessesAreThere /\ GivenUpLate
  BY DEF SuccessesAreThere, GivenUpLate, TrialsCanRun, PairArgs,
         LeftOutAfterAllAttempts
<1> QED BY <1>1, <1>2, <1>3 DEF BuilderInvariant

LEMMA BaseInvariant ==
    ASSUME BuilderInvariant, BuildBaseImages
    PROVE  BuilderInvariant'
<1> USE BuilderAssumption, ArgsApart
<1> USE DEF BuilderInvariant, BuildBaseImages, Start
<1>1. Types'
  BY DEF Types, Outcomes
<1>2. CallsOfStage' /\ CalledUntilSuccess'
  BY DEF Types, CallsOfStage, CalledUntilSuccess
<1>3. SuccessesAreThere'
  BY DEF Types, CallsOfStage, SuccessesAreThere, TrialsCanRun, PairArgs
<1>4. GivenUpLate'
  BY DEF GivenUpLate, LeftOutAfterAllAttempts
<1> QED BY <1>1, <1>2, <1>3, <1>4

\* A build is submitted: its input is tried once more.
LEMMA SubmitInvariant ==
    ASSUME BuilderInvariant, NEW a \in Args, Submit(a)
    PROVE  BuilderInvariant'
<1> USE BuilderAssumption, ArgsApart
<1> USE DEF BuilderInvariant, Submit, Calls, Returns
<1>1. Types'
  BY DEF Types, CallsOfStage, CalledUntilSuccess, Outcomes
<1>2. CallsOfStage'
  BY DEF Types, CallsOfStage
<1>3. CalledUntilSuccess'
  BY DEF Types, CallsOfStage, CalledUntilSuccess
<1>4. SuccessesAreThere'
  BY DEF Types, CallsOfStage, SuccessesAreThere, TrialsCanRun, PairArgs
<1>5. GivenUpLate'
  BY DEF Types, CallsOfStage, CalledUntilSuccess, GivenUpLate,
         LeftOutAfterAllAttempts, PairArgs
<1> QED BY <1>1, <1>2, <1>3, <1>4, <1>5

\* A call raises before it submits anything.
LEMMA CallRaisesInvariant ==
    ASSUME BuilderInvariant, NEW a \in Args, CallRaises(a)
    PROVE  BuilderInvariant'
<1> USE BuilderAssumption, ArgsApart
<1> USE DEF BuilderInvariant, CallRaises, Calls, Returns
<1>1. Types'
  BY DEF Types, CallsOfStage, CalledUntilSuccess, Outcomes
<1>2. CallsOfStage'
  BY DEF Types, CallsOfStage
<1>3. CalledUntilSuccess'
  BY DEF Types, CallsOfStage, CalledUntilSuccess
<1>4. SuccessesAreThere'
  BY DEF Types, CallsOfStage, SuccessesAreThere, TrialsCanRun, PairArgs
<1>5. GivenUpLate'
  BY DEF Types, CallsOfStage, CalledUntilSuccess, GivenUpLate,
         LeftOutAfterAllAttempts, PairArgs
<1> QED BY <1>1, <1>2, <1>3, <1>4, <1>5

\* gcloud is killed.
LEMMA TimesOutInvariant ==
    ASSUME BuilderInvariant, NEW a \in Args, TimesOut(a)
    PROVE  BuilderInvariant'
<1> USE BuilderAssumption, ArgsApart
<1> USE DEF BuilderInvariant, TimesOut, Calls, Returns, AfterTimeout
<1>1. Types'
  BY DEF Types, CallsOfStage, CalledUntilSuccess, Outcomes
<1>2. CallsOfStage'
  BY DEF Types, CallsOfStage
<1>3. CalledUntilSuccess'
  BY DEF Types, CallsOfStage, CalledUntilSuccess
<1>4. SuccessesAreThere'
  BY DEF Types, CallsOfStage, SuccessesAreThere, TrialsCanRun, PairArgs
<1>5. GivenUpLate'
  BY DEF Types, CallsOfStage, CalledUntilSuccess, GivenUpLate,
         LeftOutAfterAllAttempts, PairArgs
<1> QED BY <1>1, <1>2, <1>3, <1>4, <1>5

\* The output is stored, or not.
LEMMA StoresLogsInvariant ==
    ASSUME BuilderInvariant, NEW a \in Args, StoresLogs(a)
    PROVE  BuilderInvariant'
<1> USE BuilderAssumption, ArgsApart
<1> USE DEF BuilderInvariant, StoresLogs, Calls, Returns
<1>1. Types'
  BY DEF Types, CallsOfStage, CalledUntilSuccess, Outcomes
<1>2. CallsOfStage'
  BY DEF Types, CallsOfStage
<1>3. CalledUntilSuccess'
  BY DEF Types, CallsOfStage, CalledUntilSuccess
<1>4. SuccessesAreThere'
  BY DEF Types, CallsOfStage, SuccessesAreThere, TrialsCanRun, PairArgs
<1>5. GivenUpLate'
  BY DEF Types, CallsOfStage, CalledUntilSuccess, GivenUpLate,
         LeftOutAfterAllAttempts, PairArgs
<1> QED BY <1>1, <1>2, <1>3, <1>4, <1>5

\* A build ends, awaited or not.
LEMMA BuildSucceedsInvariant ==
    ASSUME BuilderInvariant, NEW a \in Args, NEW n \in 1..NUM_BUILD_ATTEMPTS,
           BuildSucceeds(a, n)
    PROVE  BuilderInvariant'
<1> USE BuilderAssumption, ArgsApart
<1> USE DEF BuilderInvariant, BuildSucceeds, Calls, Returns, Awaited
<1>1. Types'
  BY DEF Types, CallsOfStage, CalledUntilSuccess, Outcomes
<1>2. CallsOfStage'
  BY DEF Types, CallsOfStage
<1>3. CalledUntilSuccess'
  BY DEF Types, CallsOfStage, CalledUntilSuccess
<1>4. SuccessesAreThere'
  BY DEF Types, CallsOfStage, SuccessesAreThere, TrialsCanRun, PairArgs
<1>5. GivenUpLate'
  BY DEF Types, CallsOfStage, CalledUntilSuccess, GivenUpLate,
         LeftOutAfterAllAttempts, PairArgs
<1> QED BY <1>1, <1>2, <1>3, <1>4, <1>5

\* A build fails, awaited or not.
LEMMA BuildFailsInvariant ==
    ASSUME BuilderInvariant, NEW a \in Args, NEW n \in 1..NUM_BUILD_ATTEMPTS,
           BuildFails(a, n)
    PROVE  BuilderInvariant'
<1> USE BuilderAssumption, ArgsApart
<1> USE DEF BuilderInvariant, BuildFails, Calls, Returns, Awaited
<1>1. Types'
  BY DEF Types, CallsOfStage, CalledUntilSuccess, Outcomes
<1>2. CallsOfStage'
  BY DEF Types, CallsOfStage
<1>3. CalledUntilSuccess'
  BY DEF Types, CallsOfStage, CalledUntilSuccess
<1>4. SuccessesAreThere'
  BY DEF Types, CallsOfStage, SuccessesAreThere, TrialsCanRun, PairArgs
<1>5. GivenUpLate'
  BY DEF Types, CallsOfStage, CalledUntilSuccess, GivenUpLate,
         LeftOutAfterAllAttempts, PairArgs
<1> QED BY <1>1, <1>2, <1>3, <1>4, <1>5

\* An exception ends the dispatcher.
LEMMA StarmapRaisesInvariant ==
    ASSUME BuilderInvariant, StarmapRaises
    PROVE  BuilderInvariant'
<1> USE BuilderAssumption, ArgsApart
<1> USE DEF BuilderInvariant, StarmapRaises, Calls, Start
<1>1. Types'
  BY DEF Types, CallsOfStage, CalledUntilSuccess, Outcomes
<1>2. CallsOfStage'
  BY DEF Types, CallsOfStage
<1>3. CalledUntilSuccess'
  BY DEF Types, CallsOfStage, CalledUntilSuccess
<1>4. SuccessesAreThere'
  BY DEF Types, CallsOfStage, SuccessesAreThere, TrialsCanRun, PairArgs
<1>5. GivenUpLate'
  BY DEF Types, CallsOfStage, CalledUntilSuccess, GivenUpLate,
         LeftOutAfterAllAttempts, PairArgs
<1> QED BY <1>1, <1>2, <1>3, <1>4, <1>5

\* The next attempt is on what failed, all of which was tried.
LEMMA RetriesInvariant ==
    ASSUME BuilderInvariant, Retries
    PROVE  BuilderInvariant'
<1> USE BuilderAssumption, ArgsApart
<1> USE DEF BuilderInvariant, Retries, StarmapReturns, NextInputs, AttemptsLeft,
            Calls, Start
<1>0. /\ Extended \in [Args -> {0, 1}]
      /\ \A a \in Args : Extended[a] = 1 <=>
            successes[a] = 1 \/ (a \in DOMAIN calls /\ calls[a] = "ok")
  BY ExtendedIsOnce
<1>1. Types'
  BY <1>0 DEF Types, Outcomes
<1>2. CallsOfStage'
  BY <1>0 DEF Types, CallsOfStage
<1>3. CalledUntilSuccess'
  BY <1>0 DEF Types, CalledUntilSuccess
<1>4. SuccessesAreThere'
  BY <1>0 DEF Types, SuccessesAreThere, TrialsCanRun, PairArgs
<1>5. GivenUpLate'
  BY <1>0 DEF Types, CalledUntilSuccess, GivenUpLate, LeftOutAfterAllAttempts
<1> QED BY <1>1, <1>2, <1>3, <1>4, <1>5

\* The loop over the attempts ends: what it gives up was tried in all of them.
LEMMA LoopReturnsInvariant ==
    ASSUME BuilderInvariant, LoopReturns
    PROVE  BuilderInvariant'
<1> USE BuilderAssumption, ArgsApart
<1> USE DEF BuilderInvariant, LoopReturns, StarmapReturns, NextInputs, Calls,
            Start
<1>0. /\ Extended \in [Args -> {0, 1}]
      /\ \A a \in Args : Extended[a] = 1 <=>
            successes[a] = 1 \/ (a \in DOMAIN calls /\ calls[a] = "ok")
  BY ExtendedIsOnce
<1>g. \A a \in DOMAIN calls :
        Extended[a] = 0 => tries[a] = NUM_BUILD_ATTEMPTS
  <2> SUFFICES ASSUME NEW a \in DOMAIN calls, Extended[a] = 0
               PROVE  tries[a] = NUM_BUILD_ATTEMPTS
    OBVIOUS
  <2>1. calls[a] = "failed"
    BY <1>0 DEF Types
  <2>2. attempt = NUM_BUILD_ATTEMPTS
    BY <2>1 DEF Types, AttemptsLeft
  <2> QED BY <2>1, <2>2 DEF CalledUntilSuccess
<1>h. ASSUME NEW a \in Args
      PROVE  Extended[a] > 0 <=> Extended[a] = 1
  <2>1. Extended[a] \in {0, 1}
    BY <1>0
  <2> QED BY <2>1
<1>m. CASE stage = "measurers"
  <2>0. /\ stage' = "fuzzers" /\ attempt' = 1 /\ trials' = trials
        /\ successes' = Extended
        /\ calls' = [p \in Pairs(Measured) |-> "waiting"]
        /\ UNCHANGED <<builds, images, tries>>
    BY <1>m
  <2>1. Pairs(Measured) = {p \in PairArgs : Extended[<<p[2]>>] = 1}
    <3>1. Pairs(Measured) = {p \in PairArgs : Extended[<<p[2]>>] > 0}
      BY PairsOfFewer DEF Measured
    <3> QED BY <1>h, <3>1
  <2>2. \A p \in PairArgs : Extended[p] = 0 /\ tries[p] = 0
    BY <1>0, <1>m DEF Types, CallsOfStage
  <2>3. Types'
    BY <1>0, <2>0, <2>1 DEF Types, Outcomes
  <2>4. CallsOfStage'
    BY <2>0, <2>1 DEF CallsOfStage
  <2>5. CalledUntilSuccess'
    <3> SUFFICES ASSUME NEW a \in DOMAIN calls'
                 PROVE  /\ successes'[a] = 0
                        /\ calls'[a] = "waiting"
                        /\ tries'[a] = attempt' - 1
      BY DEF CalledUntilSuccess
    <3>1. a \in PairArgs /\ calls'[a] = "waiting"
      BY <2>0, <2>1
    <3> QED BY <2>0, <2>2, <3>1
  <2>6. \A a \in Args : Extended[a] = 1 => a \in images
    BY <1>0 DEF Types, SuccessesAreThere
  <2>7. SuccessesAreThere'
    BY <1>0, <2>0, <2>1, <2>2, <2>6
       DEF Types, SuccessesAreThere, TrialsCanRun, PairArgs
  <2>8. ASSUME NEW p \in PairArgs, p \notin Pairs(Measured)
        PROVE  tries[<<p[2]>>] = NUM_BUILD_ATTEMPTS
    <3>1. Extended[<<p[2]>>] = 0
      BY <1>0, <2>1, <2>8
    <3>2. <<p[2]>> \in DOMAIN calls
      BY <1>0, <1>m, <3>1 DEF GivenUpLate
    <3> QED BY <1>g, <3>1, <3>2
  <2>9. GivenUpLate'
    BY <2>0, <2>8 DEF GivenUpLate, LeftOutAfterAllAttempts
  <2> QED BY <2>3, <2>4, <2>5, <2>7, <2>9
<1>f. CASE stage = "fuzzers"
  <2>0. /\ stage' = "started" /\ attempt' = attempt /\ DOMAIN calls' = {}
        /\ successes' = Extended
        /\ trials' = [p \in PairArgs |-> NumTrials * Extended[p]]
        /\ UNCHANGED <<builds, images, tries>>
    BY <1>f DEF PairArgs
  <2>1. \A p \in PairArgs :
          trials'[p] = IF Extended[p] = 1 THEN NumTrials ELSE 0
    BY <1>0, <2>0
  <2>2. trials' \in [PairArgs -> {0, NumTrials}]
    BY <2>0, <2>1
  <2>3. Types'
    BY <1>0, <2>0, <2>2 DEF Types
  <2>4. CallsOfStage' /\ CalledUntilSuccess'
    BY <2>0 DEF CallsOfStage, CalledUntilSuccess
  <2>5. \A a \in Args : Extended[a] = 1 => a \in images
    BY <1>0 DEF Types, SuccessesAreThere
  <2>6. \A p \in PairArgs : Extended[p] = 1 => <<p[2]>> \in images
    BY <1>0 DEF SuccessesAreThere
  <2>7. SuccessesAreThere'
    BY <1>0, <2>0, <2>1, <2>5, <2>6
       DEF SuccessesAreThere, TrialsCanRun, PairArgs
  <2>8. ASSUME NEW p \in PairArgs, trials'[p] = 0
        PROVE  \E a \in {p, <<p[2]>>} : tries[a] = NUM_BUILD_ATTEMPTS
    <3>1. Extended[p] = 0
      BY <1>0, <2>1, <2>8
    <3>2. \/ p \in DOMAIN calls
          \/ tries[<<p[2]>>] = NUM_BUILD_ATTEMPTS
      BY <1>0, <1>f, <3>1 DEF GivenUpLate
    <3> QED BY <1>g, <3>1, <3>2
  <2>9. GivenUpLate'
    BY <2>0, <2>8 DEF GivenUpLate, LeftOutAfterAllAttempts, PairArgs
  <2> QED BY <2>3, <2>4, <2>7, <2>9
<1> QED BY <1>m, <1>f

-----------------------------------------------------------------------------
(***************************************************************************)
(* The theorems.                                                           *)
(***************************************************************************)
LEMMA NextInvariant ==
    BuilderInvariant /\ [Next]_vars => BuilderInvariant'
<1> SUFFICES ASSUME BuilderInvariant, [Next]_vars PROVE BuilderInvariant'
  OBVIOUS
<1>1. CASE BuildBaseImages
  BY <1>1, BaseInvariant
<1>2. CASE Build
  BY <1>2, SubmitInvariant, CallRaisesInvariant, TimesOutInvariant,
     StoresLogsInvariant, BuildSucceedsInvariant, BuildFailsInvariant DEF Build
<1>3. CASE Loop
  BY <1>3, StarmapRaisesInvariant, RetriesInvariant, LoopReturnsInvariant
     DEF Loop
<1>4. CASE UNCHANGED vars
  BY <1>4 DEF vars, BuilderInvariant, Types, CallsOfStage, CalledUntilSuccess,
     SuccessesAreThere, GivenUpLate, TrialsCanRun, LeftOutAfterAllAttempts,
     Calls
<1> QED BY <1>1, <1>2, <1>3, <1>4 DEF Next

\* The inductive invariant holds.
THEOREM InvariantHolds == Spec => []BuilderInvariant
<1> QED BY InitInvariant, NextInvariant, PTL DEF Spec

\* The variables have their types: no input succeeds twice in a loop, and none
\* is tried more often than NUM_BUILD_ATTEMPTS.
THEOREM TypeCorrect == Spec => []TypeOK
<1>1. BuilderInvariant => TypeOK
  <2> SUFFICES ASSUME BuilderInvariant PROVE TypeOK
    OBVIOUS
  <2>1. {0, 1} \subseteq 0..NUM_BUILD_ATTEMPTS
    BY BuilderAssumption
  <2>2. NumTrials * NUM_BUILD_ATTEMPTS >= NumTrials
    <3>1. PICK k \in Nat : NUM_BUILD_ATTEMPTS = k + 1
      BY BuilderAssumption
    <3>2. /\ NumTrials * (k + 1) = NumTrials * k + NumTrials
          /\ NumTrials * k \in Nat
      BY BuilderAssumption
    <3> QED BY <3>1, <3>2, BuilderAssumption
  <2>3. {0, NumTrials} \subseteq 0..(NumTrials * NUM_BUILD_ATTEMPTS)
    BY <2>2, BuilderAssumption
  <2> QED BY <2>1, <2>3
          DEF BuilderInvariant, Types, TypeOK, Outcomes, PairArgs
<1> QED BY <1>1, InvariantHolds, PTL

\* A pair has all of its trials or none, whatever was built again.
THEOREM AllOrNone == Spec => []AllTrialsOrNone
<1>1. BuilderInvariant => AllTrialsOrNone
  BY DEF BuilderInvariant, Types, AllTrialsOrNone, PairArgs
<1> QED BY <1>1, InvariantHolds, PTL

\* The images of a trial and the coverage build of its benchmark are there.
THEOREM CanRun == Spec => []TrialsCanRun
<1>1. BuilderInvariant => TrialsCanRun
  BY DEF BuilderInvariant, SuccessesAreThere
<1> QED BY <1>1, InvariantHolds, PTL

\* A pair is only left out after all attempts at it, or at its benchmark.
THEOREM LeftOutLate == Spec => []LeftOutAfterAllAttempts
<1>1. BuilderInvariant => LeftOutAfterAllAttempts
  BY DEF BuilderInvariant, GivenUpLate
<1> QED BY <1>1, InvariantHolds, PTL

-----------------------------------------------------------------------------
(***************************************************************************)
(* Processes.                                                              *)
(***************************************************************************)
\* Nothing is left because the process that could start more has ended first,
\* and because the group of a process that was killed is killed next: a timer
\* that finds no group has found a process that had ended by itself.
ProcessInvariant ==
    /\ P!TypeOK
    /\ reaped => process # "running"
    /\ caller # "communicate" => process # "running"
    /\ timer = "kill_process" => reaped
    /\ (timer = "off") <=> ~options.timeout
    /\ options.kill_children /\ process = "killed" =>
         \/ timer \in {"mark_and_kill", "kill_group"}
         \/ timer = "done" /\ child # "running"
    /\ /\ options.kill_children /\ ~options.timeout
       /\ caller \in {"decide", "returned", "raised"}
       => child # "running"

LEMMA ProcessStep ==
    ASSUME ProcessInvariant, [P!Next]_P!vars
    PROVE  ProcessInvariant'
<1> USE DEF ProcessInvariant, P!TypeOK
<1>1. CASE P!StartsChild \/ P!ChildEnds \/ P!ProcessEnds
  BY <1>1 DEF P!StartsChild, P!ChildEnds, P!ProcessEnds
<1>2. CASE P!GetsGroup
  BY <1>2 DEF P!GetsGroup, P!Moves
<1>3. CASE P!KillsProcess
  BY <1>3 DEF P!KillsProcess, P!Killed, P!Moves
<1>4. CASE P!Marks
  BY <1>4 DEF P!Marks, P!Moves
<1>5. CASE P!KillsGroup
  BY <1>5 DEF P!KillsGroup, P!GroupAfterMark, P!GroupKilled, P!Moves
<1>6. CASE P!Communicates
  BY <1>6 DEF P!Communicates
<1>7. CASE P!Cancels
  BY <1>7 DEF P!Cancels, P!GroupAfterEnd, P!GroupKilled, P!Moves
<1>8. CASE P!Decides
  BY <1>8 DEF P!Decides
<1>9. CASE UNCHANGED P!vars
  BY <1>9 DEF P!vars
<1> QED
  BY <1>1, <1>2, <1>3, <1>4, <1>5, <1>6, <1>7, <1>8, <1>9
     DEF P!Next, P!Timer, P!Caller

LEMMA ProcessHolds == P!Spec => []ProcessInvariant
<1>1. P!Init => ProcessInvariant
  BY DEF P!Init, ProcessInvariant, P!TypeOK
<1> QED BY <1>1, ProcessStep, PTL DEF P!Spec

-----------------------------------------------------------------------------
(***************************************************************************)
(* Images.                                                                 *)
(***************************************************************************)
\* The images that a build of any kind may have; make has no rule that builds
\* builder_debug for one of its targets.
MadeNames == I!Names \ {"builder_debug"}

ImagesTyped ==
    /\ tool \in Tools /\ build \in Builds
    /\ state \in [I!BuiltImages(tool, build) ->
                    {"waiting", "building", "built"}]
    /\ tags \in [I!Tags -> I!Names \union {"old"}]
    /\ from \in [I!BuiltImages(tool, build) -> SUBSET (I!Names \union {"old"})]
    /\ archive \in {"none", "coverage_builder"}

\* A tag is that of an image of this build, or of the base image that was
\* built before it, if it is not left from another build; and it is not once
\* an image that has it is built.
TagsOfThisBuild ==
    /\ \A t \in I!Tags : tags[t] # "old" =>
         /\ tags[t] \in I!Names /\ I!Images[tags[t]].tag = t
         /\ tags[t] = "base_image" \/ tags[t] \in DOMAIN state
    /\ \A i \in DOMAIN state :
         state[i] = "built" => tags[I!Images[i].tag] # "old"
    /\ build # "base" => tags["base"] # "old"

\* What an image waits for is built when its own build begins; the builder of
\* a runner is, although the runner waits for the intermediate runner alone.
BegunInOrder ==
    \A i \in DOMAIN state : state[i] # "waiting" =>
        \A j \in I!WaitFor(tool, build, i) : I!IsBuilt(j)

BuiltFrom(i) ==
    from[i] \subseteq I!DependsOn(i)
        \union (IF tool = "gcb" THEN {"builder_debug"} ELSE {})

ImagesInvariant ==
    /\ ImagesTyped /\ TagsOfThisBuild /\ BegunInOrder
    /\ \A i \in DOMAIN state : BuiltFrom(i)

-----------------------------------------------------------------------------
\* The table, row by row.
LEMMA Table ==
    /\ I!Names = {"base_image", "dispatcher_image", "worker",
          "project_builder", "coverage_builder_intermediate",
          "coverage_builder", "builder_intermediate", "builder_debug",
          "builder", "intermediate_runner", "runner"}
    /\ I!Images["base_image"] = I!Image("base", "base", {}, {})
    /\ I!Images["dispatcher_image"] =
         I!Image("dispatcher", "dispatcher", {"base_image"}, {"base"})
    /\ I!Images["worker"] =
         I!Image("worker", "worker", {"base_image"}, {"base"})
    /\ I!Images["project_builder"] = I!Image("builder", "project", {}, {})
    /\ I!Images["coverage_builder_intermediate"] =
         I!Image("coverage", "coverage_intermediate",
                 {"project_builder"}, {"project"})
    /\ I!Images["coverage_builder"] =
         I!Image("coverage", "coverage",
                 {"coverage_builder_intermediate", "base_image"},
                 {"coverage_intermediate", "base"})
    /\ I!Images["builder_intermediate"] =
         I!Image("builder", "builders_intermediate",
                 {"project_builder"}, {"project"})
    /\ I!Images["builder_debug"] =
         I!Image("builder", "builders", {"builder_intermediate", "base_image"},
                 {"builders_intermediate", "base"})
    /\ I!Images["builder"] =
         I!Image("builder", "builders", {"builder_intermediate", "base_image"},
                 {"builders_intermediate", "base"})
    /\ I!Images["intermediate_runner"] =
         I!Image("runner", "runners_intermediate", {"builder", "base_image"},
                 {"base"})
    /\ I!Images["runner"] =
         I!Image("runner", "runners", {"intermediate_runner"},
                 {"builders", "runners_intermediate"})
BY DEF I!Images, I!Names

\* No two images have the same tag, but for the two builders.
LEMMA TagsAreApart ==
    ASSUME NEW i \in I!Names, NEW j \in I!Names,
           I!Images[i].tag = I!Images[j].tag
    PROVE  i = j \/ {i, j} \subseteq {"builder", "builder_debug"}
BY Table DEF I!Image

\* What an image is built from it depends on; the runner depends on the builder
\* by way of the intermediate runner.
LEMMA ParentsAreDependencies ==
    ASSUME NEW i \in I!Names, NEW t \in I!Images[i].parents
    PROVE  \E j \in I!Names :
             /\ I!Images[j].tag = t
             /\ \/ j \in I!Images[i].depends
                \/ /\ i = "runner" /\ j = "builder"
                   /\ "intermediate_runner" \in I!Images[i].depends
BY Table DEF I!Image

LEMMA Dependencies ==
    ASSUME NEW i \in I!Names
    PROVE  /\ I!Images[i].depends \subseteq MadeNames
           /\ "builder" \in I!Images["intermediate_runner"].depends
           /\ I!Images[i].tag \in I!Tags
           /\ "base" \in I!Tags
           /\ I!Images["base_image"].tag = "base"
           /\ I!Images[i].tag = "base" => i = "base_image"
<1>1. I!Images[i].tag \in I!Tags /\ I!Images["base_image"].tag \in I!Tags
    BY Table DEF I!Tags
<1> QED BY <1>1, Table DEF I!Image, MadeNames

\* The dependencies of an image are those it names and theirs, and so on; and
\* none is outside a set that has them all.
LEMMA DependsOnHas ==
    ASSUME NEW i
    PROVE  /\ I!Images[i].depends \subseteq I!DependsOn(i)
           /\ \A j \in I!Images[i].depends :
                I!Images[j].depends \subseteq I!DependsOn(i)
<1> DEFINE With(S) == S \union UNION {I!Images[j].depends : j \in S}
           D == I!Images[i].depends
<1>1. \A S : S \subseteq With(S)
    OBVIOUS
<1>2. \A j \in D : I!Images[j].depends \subseteq With(D)
    OBVIOUS
<1>3. I!DependsOn(i) = With(With(With(With(D))))
    BY DEF I!DependsOn
<1> HIDE DEF With
<1>4. With(D) \subseteq With(With(With(With(D))))
    BY <1>1
<1> QED BY <1>1, <1>2, <1>3, <1>4

LEMMA DependsOnlyOn ==
    ASSUME NEW i \in I!Names
    PROVE  I!DependsOn(i) \subseteq MadeNames
<1> DEFINE With(S) == S \union UNION {I!Images[j].depends : j \in S}
           D == I!Images[i].depends
<1>1. ASSUME NEW S \in SUBSET MadeNames PROVE With(S) \in SUBSET MadeNames
    <2>1. \A j \in S : I!Images[j].depends \subseteq MadeNames
        BY Dependencies DEF MadeNames
    <2> QED BY <2>1
<1>2. I!DependsOn(i) = With(With(With(With(D))))
    BY DEF I!DependsOn
<1>3. D \in SUBSET MadeNames
    BY Dependencies
<1> HIDE DEF With, D
<1>4. With(With(D)) \in SUBSET MadeNames
    BY <1>1, <1>3
<1>5. With(With(With(With(D)))) \in SUBSET MadeNames
    BY <1>1, <1>4
<1> QED BY <1>2, <1>5

\* What a build builds.
LEMMA ImagesBuilt ==
    ASSUME ImagesTyped
    PROVE  /\ tool \in {"gcb", "make"}
           /\ build \in {"base", "coverage", "fuzzer"}
           /\ DOMAIN state = I!BuiltImages(tool, build)
           /\ DOMAIN from = DOMAIN state
           /\ DOMAIN state \subseteq I!Names
           /\ tool # "gcb" => DOMAIN state \subseteq MadeNames
           /\ build = "coverage" => "coverage_builder" \in DOMAIN state
<1> USE DEF ImagesTyped
<1>1. /\ tool \in {"gcb", "make"} /\ build \in {"base", "coverage", "fuzzer"}
      /\ DOMAIN state = I!BuiltImages(tool, build) /\ DOMAIN from = DOMAIN state
    BY OperationsAssumption DEF I!ImagesAssumption
<1>2. CASE tool = "gcb"
    <2>1. DOMAIN state = I!CloudImages(build)
        BY <1>1, <1>2 DEF I!BuiltImages
    <2>2. I!CloudImages(build) \subseteq I!Names
        BY <1>1, Table DEF I!CloudImages
    <2>3. build = "coverage" => "coverage_builder" \in I!CloudImages(build)
        BY Table DEF I!CloudImages, I!Image
    <2> QED BY <1>1, <1>2, <2>1, <2>2, <2>3
<1>3. CASE tool # "gcb"
    <2>1. DOMAIN state = I!MadeImages(build)
        BY <1>1, <1>3 DEF I!BuiltImages
    <2>2. I!Target(build) \subseteq MadeNames
        BY <1>1, Table DEF I!Target, MadeNames
    <2>3. MadeNames \subseteq I!Names
        BY DEF MadeNames
    <2>4. I!MadeImages(build) \subseteq MadeNames
        BY <2>2, <2>3, DependsOnlyOn DEF I!MadeImages
    <2>5. build = "coverage" => "coverage_builder" \in I!MadeImages(build)
        BY DEF I!MadeImages, I!Target
    <2> QED BY <1>1, <1>3, <2>1, <2>3, <2>4, <2>5
<1> QED BY <1>1, <1>2, <1>3

\* The tags are resolved after the images that have them were built.
LEMMA TagsAreResolved ==
    ASSUME ImagesInvariant, NEW i \in DOMAIN state,
           \A j \in I!WaitFor(tool, build, i) : I!IsBuilt(j),
           NEW t \in I!Images[i].parents
    PROVE  tags[t] \in I!DependsOn(i)
               \union (IF tool = "gcb" THEN {"builder_debug"} ELSE {})
<1>1. /\ i \in I!Names /\ DOMAIN state \subseteq I!Names
      /\ tool # "gcb" => "builder_debug" \notin DOMAIN state
    BY ImagesBuilt DEF ImagesInvariant, MadeNames
<1>2. PICK j \in I!Names :
          /\ I!Images[j].tag = t
          /\ \/ j \in I!Images[i].depends
             \/ /\ i = "runner" /\ j = "builder"
                /\ "intermediate_runner" \in I!Images[i].depends
    BY <1>1, ParentsAreDependencies
<1>3. t \in I!Tags
    BY <1>2, Dependencies
<1>4. j \in I!DependsOn(i)
    <2>1. CASE j \in I!Images[i].depends
        BY <2>1, DependsOnHas
    <2>2. CASE /\ i = "runner" /\ j = "builder"
               /\ "intermediate_runner" \in I!Images[i].depends
        BY <1>1, <2>2, Dependencies, DependsOnHas
    <2> QED BY <1>2, <2>1, <2>2
<1>5. \A k \in I!Images[i].depends :
        I!IsBuilt(k) \/ (k = "base_image" /\ build # "base")
    BY DEF I!WaitFor
<1>6. tags[t] # "old"
    <2>1. CASE j = "base_image" /\ build # "base"
        BY <1>2, <2>1, Dependencies DEF ImagesInvariant, TagsOfThisBuild
    <2>2. CASE I!IsBuilt(j)
        BY <1>2, <2>2 DEF ImagesInvariant, TagsOfThisBuild, I!IsBuilt
    <2>3. CASE /\ j = "builder"
               /\ "intermediate_runner" \in I!Images[i].depends
        <3>1. I!IsBuilt("intermediate_runner")
            BY <1>5, <2>3
        <3>2. \A k \in I!WaitFor(tool, build, "intermediate_runner") :
                I!IsBuilt(k)
            BY <3>1 DEF I!IsBuilt, ImagesInvariant, BegunInOrder
        <3>3. "builder" \in I!WaitFor(tool, build, "intermediate_runner")
            BY <1>1, Dependencies DEF I!WaitFor
        <3> QED BY <2>2, <2>3, <3>2, <3>3
    <2> QED BY <1>2, <1>5, <2>1, <2>2, <2>3
<1>7. /\ tags[t] \in I!Names /\ I!Images[tags[t]].tag = t
      /\ tags[t] = "base_image" \/ tags[t] \in DOMAIN state
    BY <1>3, <1>6 DEF ImagesInvariant, TagsOfThisBuild
<1>8. tags[t] = j \/ {tags[t], j} \subseteq {"builder", "builder_debug"}
    BY <1>2, <1>7, TagsAreApart
<1>9. j # "builder_debug"
    BY <1>1, <1>2, Dependencies DEF MadeNames
<1> QED BY <1>1, <1>4, <1>7, <1>8, <1>9

LEMMA ImagesStart ==
    ASSUME ImagesInvariant, NEW i \in I!Names, I!StartsBuild(i)
    PROVE  ImagesInvariant'
<1>1. /\ i \in DOMAIN state /\ state[i] = "waiting"
      /\ \A j \in I!WaitFor(tool, build, i) : I!IsBuilt(j)
      /\ state' = [state EXCEPT ![i] = "building"]
      /\ from' = [from EXCEPT ![i] = {tags[t] : t \in I!Images[i].parents}]
      /\ UNCHANGED <<tool, build, tags, archive>>
    BY DEF I!StartsBuild
<1>2. DOMAIN state' = DOMAIN state /\ DOMAIN from = DOMAIN state
    BY <1>1, ImagesBuilt DEF ImagesInvariant
<1>3. \A j \in DOMAIN state :
        j # i => state'[j] = state[j] /\ from'[j] = from[j]
    BY <1>1, <1>2
<1>4. state'[i] = "building" /\ from'[i] = {tags[t] : t \in I!Images[i].parents}
    BY <1>1, <1>2
<1>5. \A j : I!IsBuilt(j) => I!IsBuilt(j)'
    BY <1>1, <1>2, <1>3 DEF I!IsBuilt
<1>6. I!Images[i].parents \subseteq I!Tags
    BY ParentsAreDependencies, Dependencies
<1>7. ImagesTyped'
    <2>1. {tags[t] : t \in I!Images[i].parents}
            \in SUBSET (I!Names \union {"old"})
        BY <1>6 DEF ImagesInvariant, ImagesTyped
    <2> QED BY <1>1, <2>1 DEF ImagesInvariant, ImagesTyped
<1>8. TagsOfThisBuild'
    BY <1>1, <1>2, <1>3, <1>4 DEF ImagesInvariant, TagsOfThisBuild
<1>9. BegunInOrder'
    <2> SUFFICES ASSUME NEW k \in DOMAIN state', state'[k] # "waiting",
                        NEW j \in I!WaitFor(tool, build, k)'
                 PROVE  I!IsBuilt(j)'
        BY DEF BegunInOrder
    <2>1. j \in I!WaitFor(tool, build, k)
        BY <1>1 DEF I!WaitFor
    <2>2. I!IsBuilt(j)
        BY <1>1, <1>2, <1>3, <2>1 DEF ImagesInvariant, BegunInOrder
    <2> QED BY <1>5, <2>2
<1>10. ASSUME NEW k \in DOMAIN state' PROVE BuiltFrom(k)'
    <2>1. CASE k = i
        BY <1>1, <1>4, <2>1, TagsAreResolved DEF BuiltFrom
    <2>2. CASE k # i
        BY <1>1, <1>2, <1>3, <2>2 DEF BuiltFrom, ImagesInvariant
    <2> QED BY <2>1, <2>2
<1> QED BY <1>7, <1>8, <1>9, <1>10 DEF ImagesInvariant

LEMMA ImagesEnd ==
    ASSUME ImagesInvariant, NEW i \in I!Names, I!EndsBuild(i)
    PROVE  ImagesInvariant'
<1>1. /\ i \in DOMAIN state /\ state[i] = "building"
      /\ state' = [state EXCEPT ![i] = "built"]
      /\ tags' = [tags EXCEPT ![I!Images[i].tag] = i]
      /\ UNCHANGED <<tool, build, from, archive>>
    BY DEF I!EndsBuild
<1>2. DOMAIN state' = DOMAIN state /\ i # "old"
    BY <1>1, Table
<1>3. \A j \in DOMAIN state : j # i => state'[j] = state[j]
    BY <1>1
<1>4. state'[i] = "built"
    BY <1>1
<1>5. \A j : I!IsBuilt(j) => I!IsBuilt(j)'
    BY <1>1, <1>2, <1>3, <1>4 DEF I!IsBuilt
<1>6. /\ I!Images[i].tag \in I!Tags
      /\ tags'[I!Images[i].tag] = i
      /\ \A t \in I!Tags : t # I!Images[i].tag => tags'[t] = tags[t]
    BY <1>1, Dependencies DEF ImagesInvariant, ImagesTyped
<1>7. ImagesTyped'
    BY <1>1 DEF ImagesInvariant, ImagesTyped
<1>8. TagsOfThisBuild'
    <2>1. \A k \in DOMAIN state : I!Images[k].tag \in I!Tags
        BY ImagesBuilt, Dependencies DEF ImagesInvariant
    <2> QED
        BY <1>1, <1>2, <1>3, <1>6, <2>1, Dependencies
        DEF ImagesInvariant, TagsOfThisBuild
<1>9. BegunInOrder'
    <2> SUFFICES ASSUME NEW k \in DOMAIN state', state'[k] # "waiting",
                        NEW j \in I!WaitFor(tool, build, k)'
                 PROVE  I!IsBuilt(j)'
        BY DEF BegunInOrder
    <2>1. j \in I!WaitFor(tool, build, k)
        BY <1>1 DEF I!WaitFor
    <2>2. I!IsBuilt(j)
        BY <1>1, <1>2, <1>3, <2>1 DEF ImagesInvariant, BegunInOrder
    <2> QED BY <1>5, <2>2
<1>10. \A k \in DOMAIN state' : BuiltFrom(k)'
    BY <1>1, <1>2 DEF ImagesInvariant, BuiltFrom
<1> QED BY <1>7, <1>8, <1>9, <1>10 DEF ImagesInvariant

LEMMA ImagesArchived ==
    ASSUME ImagesInvariant, I!ArchivesCoverage
    PROVE  ImagesInvariant'
<1>1. /\ archive' = tags["coverage"]
      /\ UNCHANGED <<tool, build, state, tags, from>>
      /\ build = "coverage" /\ I!AllBuilt
    BY DEF I!ArchivesCoverage, I!ArchiveReady
<1>2. tags["coverage"] = "coverage_builder"
    <2>1. /\ "coverage_builder" \in DOMAIN state
          /\ "coverage_builder" \in I!Names
          /\ I!Images["coverage_builder"].tag = "coverage"
        BY <1>1, ImagesBuilt, Table DEF ImagesInvariant, I!Image
    <2>2. tags["coverage"] # "old" /\ "coverage" \in I!Tags
        BY <1>1, <2>1, Dependencies
        DEF ImagesInvariant, TagsOfThisBuild, I!AllBuilt
    <2>3. /\ tags["coverage"] \in I!Names
          /\ I!Images[tags["coverage"]].tag = "coverage"
        BY <2>2 DEF ImagesInvariant, TagsOfThisBuild
    <2> QED BY <2>1, <2>3, TagsAreApart
<1>3. ImagesTyped'
    BY <1>1, <1>2 DEF ImagesInvariant, ImagesTyped
<1> QED
    BY <1>1, <1>3
    DEF ImagesInvariant, TagsOfThisBuild, BegunInOrder, BuiltFrom, I!WaitFor,
        I!IsBuilt

LEMMA ImagesBegin == I!Init => ImagesInvariant
<1> SUFFICES ASSUME I!Init PROVE ImagesInvariant
    OBVIOUS
<1>1. ImagesTyped
    <2>1. "base_image" \in I!Names
        BY Table
    <2> QED BY <2>1 DEF I!Init, ImagesTyped
<1>2. \A i \in DOMAIN state : state[i] = "waiting" /\ from[i] = {}
    BY DEF I!Init
<1>3. TagsOfThisBuild
    BY <1>2, Table, Dependencies DEF I!Init, TagsOfThisBuild
<1> QED BY <1>1, <1>2, <1>3 DEF ImagesInvariant, BegunInOrder, BuiltFrom

LEMMA ImagesHold == I!Spec => []ImagesInvariant
<1>1. ImagesInvariant /\ [I!Next]_I!vars => ImagesInvariant'
    <2>1. CASE I!Next
        BY <2>1, ImagesStart, ImagesEnd, ImagesArchived DEF I!Next
    <2>2. CASE UNCHANGED I!vars
        BY <2>2
        DEF I!vars, ImagesInvariant, ImagesTyped, TagsOfThisBuild,
            BegunInOrder, BuiltFrom, I!WaitFor, I!IsBuilt
    <2> QED BY <2>1, <2>2
<1> QED BY <1>1, ImagesBegin, PTL DEF I!Spec

-----------------------------------------------------------------------------
(***************************************************************************)
(* The parts side by side: each takes its own steps or none.               *)
(***************************************************************************)
THEOREM EveryPartIsOne ==
    PartSpec => Spec /\ L!Spec /\ I!Spec /\ P!Spec
<1>1. PartInit => Init /\ L!Init /\ I!Init /\ P!Init
  BY DEF PartInit
<1>2. [PartNext]_allVars =>
        [Next]_vars /\ [L!Next]_L!vars /\ [I!Next]_I!vars /\ [P!Next]_P!vars
  <2>1. UNCHANGED lifecycle => UNCHANGED L!vars
    BY DEF lifecycle, L!vars
  <2>2. UNCHANGED oneBuild => UNCHANGED I!vars
    BY DEF oneBuild, I!vars
  <2>3. UNCHANGED oneProcess => UNCHANGED P!vars
    BY DEF oneProcess, P!vars
  <2> QED
    BY <2>1, <2>2, <2>3 DEF PartNext, BuilderOnly, ImagesOnly, LifecycleOnly,
       ProcessOnly, allVars
<1> QED BY <1>1, <1>2, PTL DEF PartSpec, Spec, L!Spec, I!Spec, P!Spec

\* kill_children leaves no process behind, after a timeout or without one,
\* unless the process ended by itself before its timer.
THEOREM NothingLeft == PartSpec => []NothingIsLeft
<1>1. ProcessInvariant => NothingIsLeft
  BY DEF ProcessInvariant, P!TypeOK, NothingIsLeft, P!NothingIsLeft, P!IsOver
<1> QED BY <1>1, EveryPartIsOne, ProcessHolds, PTL

\* A dispatcher finds its sources and its configuration in the filestore.
THEOREM InputIsThere == PartSpec => []DispatcherFindsInput
<1>1. L!DispatcherFindsInput <=> DispatcherFindsInput
  BY DEF DispatcherFindsInput
<1> QED
  BY <1>1, EveryPartIsOne, L!InputIsThere, OperationsAssumption, PTL

\* An experiment whose end is recorded is over and has its final report, if
\* output_report wrote it.
THEOREM EndIsReported == PartSpec => []EndedIsReported
<1>1. L!EndedIsReported <=> EndedIsReported
  BY DEF EndedIsReported
<1> QED
  BY <1>1, EveryPartIsOne, L!EndIsReported, OperationsAssumption, PTL

\* No runner goes on without the dispatcher of its experiment, if one command
\* was enough to stop it and did not fail, and no user stops it.
THEOREM NoneIsOrphaned == PartSpec => []NoOrphanRunners
<1>1. L!NoOrphanRunners <=> NoOrphanRunners
  BY DEF NoOrphanRunners
<1> QED
  BY <1>1, EveryPartIsOne, L!NoneIsOrphaned, OperationsAssumption, PTL

\* An experiment that runs, by its row, has its dispatcher, unless a user
\* stops that experiment.
THEOREM DispatcherIsThere == PartSpec => []RunningHasDispatcher
<1>1. L!RunningHasDispatcher <=> RunningHasDispatcher
  BY DEF RunningHasDispatcher
<1> QED
  BY <1>1, EveryPartIsOne, L!DispatcherIsThere, OperationsAssumption, PTL

\* Images are built from images of the same build that they depend on, or in
\* a cloud build from the other image that has the builder's tag.
THEOREM FromDependencies == PartSpec => []BuiltFromDependencies
<1>1. ImagesInvariant => BuiltFromDependencies
  BY DEF ImagesInvariant, ImagesTyped, BuiltFrom, BuiltFromDependencies,
         I!BuiltFromDependencies
<1> QED BY <1>1, EveryPartIsOne, ImagesHold, PTL

\* The variables of every part have their types.
THEOREM TypesCorrect == PartSpec => []TypesOK
<1>1. ImagesInvariant => I!TypeOK
  <2>1. "coverage_builder" \in I!Names
    BY Table
  <2> QED BY <2>1 DEF ImagesInvariant, ImagesTyped, I!TypeOK
<1>2. ProcessInvariant => P!TypeOK
  BY DEF ProcessInvariant
<1>3. TypeOK /\ L!TypeOK /\ I!TypeOK /\ P!TypeOK => TypesOK
  BY DEF TypesOK
<1> QED
  BY <1>1, <1>2, <1>3, EveryPartIsOne, TypeCorrect, L!TypeCorrect,
     ImagesHold, ProcessHolds, OperationsAssumption, PTL
=============================================================================
