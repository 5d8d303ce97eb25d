--------------------------- MODULE SchedulerTable ---------------------------
(***************************************************************************)
(* The scheduler implements TrialTable: the status of a committed row is   *)
(* read off its columns.                                                   *)
(***************************************************************************)
EXTENDS Scheduler

\* The status that time_started, time_ended and preempted of a row encode,
\* in the order in which the queries of scheduler.py test them.
StatusOf(row) ==
    IF row.preempted THEN "preempted"
    ELSE IF row.ended THEN "finished"
    ELSE IF row.started THEN "running" ELSE "pending"

TableRow(row) == [slot |-> row.slot, preemptible |-> row.preemptible,
                  status |-> StatusOf(row)]

TableRows == [t \in DOMAIN db |-> TableRow(db[t])]

Table == INSTANCE TrialTable WITH rows <- TableRows

\* Whatever fails around the scheduler, what it commits is a behaviour of
\* the trial table: rows only move on, and replacements come with the mark
\* on the trial they replace, one for each (handle_preempted_trials).
ImplementsTable == Table!Spec
=============================================================================
