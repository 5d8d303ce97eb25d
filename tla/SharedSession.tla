--------------------------- MODULE SharedSession ---------------------------
(***************************************************************************)
(* The scheduler beside the dispatcher's main thread.                      *)
(*                                                                         *)
(* dispatcher_main runs schedule_loop in a thread of its process and       *)
(* writes reports in another.  Both use the one session of                 *)
(* src/database/utils.py.  Its lock is held for one query or one commit    *)
(* at a time, not for the transaction that is open in the session between  *)
(* them, so what one thread has changed another can roll back.             *)
(***************************************************************************)
EXTENDS Scheduler

\* output_report reads the experiment's description; the query raises,
\* session_scope rolls the session back, output_report logs the exception.
ReportFails ==
    /\ sess' = db
    /\ UNCHANGED <<pc, db, age, inst, cores, handlePreempted, known, omits,
                   jobs, doomed, replacing, preemptions>>

SharedNext == Next \/ ReportFails

SharedSpec == Init /\ [][SharedNext]_vars

\* "For every preempted trial, ensure that it was not handled before and if
\* it wasn't then mark the trials as finished and preempted and create
\* replacement trials" (handle_preempted_trials): a trial that has been
\* replaced is marked, so that one trial at a time counts for its slot.
ReplacedTrialsAreMarked == OneLiveTrialPerSlot
=============================================================================
