----------------------------- MODULE TrialTable -----------------------------
(***************************************************************************)
(* What the trial table of the database promises to those who only read    *)
(* it, the measurer and the reporter: a trial goes from pending to running *)
(* and from running to finished or preempted, never back, and a new row    *)
(* only ever appears in the transaction that marks the trial it replaces   *)
(* as preempted.  Scheduler implements this (src/database/models.py for    *)
(* the columns, src/experiment/scheduler.py for what is done to them).     *)
(***************************************************************************)
CONSTANTS
    Trials,          \* every trial id that may be given out
    InitialTrials,   \* the trials the dispatcher puts in the database
    Preemptible      \* experiment_config["preemptible_runners"]

VARIABLE rows        \* the committed rows, by trial id

Status == {"pending", "running", "finished", "preempted"}

Trial == [slot : InitialTrials, preemptible : BOOLEAN, status : Status]

\* The changes of status that a transaction may make.
Moves == {<<s, s>> : s \in Status} \union
         {<<"pending", "running">>, <<"running", "finished">>,
          <<"running", "preempted">>}

Init == rows = [t \in InitialTrials |->
                  [slot |-> t, preemptible |-> Preemptible,
                   status |-> "pending"]]

OldRowsMoveOn ==
    \A t \in DOMAIN rows :
        /\ t \in DOMAIN rows'
        /\ rows'[t].slot = rows[t].slot
        /\ rows'[t].preemptible = rows[t].preemptible
        /\ <<rows[t].status, rows'[t].status>> \in Moves

NewRows == DOMAIN rows' \ DOMAIN rows

NewRowsReplace ==
    /\ \A u \in NewRows :
         /\ rows'[u] \in Trial
         /\ rows'[u].status = "pending"
         /\ \E t \in DOMAIN rows : /\ rows[t].slot = rows'[u].slot
                                   /\ rows[t].status = "running"
                                   /\ rows'[t].status = "preempted"
    /\ \A u, v \in NewRows : rows'[u].slot = rows'[v].slot => u = v

\* One committed transaction of the scheduler.
Save ==
    /\ rows' \in [DOMAIN rows' -> Trial]
    /\ DOMAIN rows' \subseteq Trials
    /\ OldRowsMoveOn
    /\ NewRowsReplace

Spec == Init /\ [][Save]_rows
=============================================================================
