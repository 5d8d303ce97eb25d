------------------------------ MODULE Processes ------------------------------
(***************************************************************************)
(* One call of new_process.execute (common/new_process.py), as of the      *)
(* fuzzer by the runner, of a coverage run or of a build: the process may  *)
(* start others, which hold its output open; the thread that called waits  *)
(* for the process and, when there is a pipe, for the end of its output; a *)
(* timer kills the process and, if kill_children, its process group.       *)
(***************************************************************************)
EXTENDS Naturals

VARIABLES
    options,   \* the arguments of execute
    process,   \* "running", "ok", "failed" (by itself) or "killed"
    reaped,    \* whether communicate has waited for it: its id means nothing
    child,     \* its descendants: "none", "running" or "gone"
    timer,     \* "off", "set", "cancelled", or where _end_process is
    caller,    \* where execute is, "returned" or "raised"
    timed_out  \* wrapped_process.timed_out

vars == <<options, process, reaped, child, timer, caller, timed_out>>

\* timeout is not None, kill_children, expect_zero; and output_file is a PIPE.
Init ==
    /\ options \in [timeout : BOOLEAN, kill_children : BOOLEAN,
                    expect_zero : BOOLEAN, pipe : BOOLEAN]
    /\ process = "running"
    /\ reaped = FALSE
    /\ child = "none"
    /\ timer = IF options.timeout THEN "set" ELSE "off"
    /\ caller = "communicate"
    /\ timed_out = FALSE

-----------------------------------------------------------------------------
(***************************************************************************)
(* The process and what it starts: nothing says that they end.             *)
(***************************************************************************)
StartsChild ==
    /\ process = "running" /\ child = "none"
    /\ child' = "running"
    /\ UNCHANGED <<options, process, reaped, timer, caller, timed_out>>

ChildEnds ==
    /\ child = "running"
    /\ child' = "gone"
    /\ UNCHANGED <<options, process, reaped, timer, caller, timed_out>>

ProcessEnds ==
    /\ process = "running"
    /\ process' \in {"ok", "failed"}
    /\ UNCHANGED <<options, reaped, child, timer, caller, timed_out>>

Killed(state) == IF state = "running" THEN "killed" ELSE state
GroupKilled == IF child = "running" THEN "gone" ELSE child

-----------------------------------------------------------------------------
(***************************************************************************)
(* The thread of the timer.                                                *)
(***************************************************************************)
Moves(to) == timer' = to

\* getpgid knows no process that was waited for.
GetsGroup ==
    /\ timer = "set"
    /\ Moves(IF reaped THEN "kill_process" ELSE "kill_both")
    /\ UNCHANGED <<options, process, reaped, child, caller, timed_out>>

KillsProcess ==
    /\ timer \in {"kill_process", "kill_both"}
    /\ process' = Killed(process)
    /\ Moves(IF timer = "kill_both" /\ options.kill_children
             THEN "mark_and_kill" ELSE "mark")
    /\ UNCHANGED <<options, reaped, child, caller, timed_out>>

Marks ==
    /\ timer \in {"mark", "mark_and_kill"}
    /\ timed_out' = TRUE
    /\ Moves(IF timer = "mark" THEN "done" ELSE "kill_group")
    /\ UNCHANGED <<options, process, reaped, child, caller>>

GroupAfterMark == GroupKilled

KillsGroup ==
    /\ timer = "kill_group"
    /\ child' = GroupAfterMark
    /\ Moves("done")
    /\ UNCHANGED <<options, process, reaped, caller, timed_out>>

Timer == GetsGroup \/ KillsProcess \/ Marks \/ KillsGroup

-----------------------------------------------------------------------------
(***************************************************************************)
(* The thread that called.                                                 *)
(***************************************************************************)
\* communicate: a pipe ends when no one holds it open.
Communicates ==
    /\ caller = "communicate"
    /\ process # "running"
    /\ options.pipe => child # "running"
    /\ reaped' = TRUE
    /\ caller' = "ended"
    /\ UNCHANGED <<options, process, child, timer, timed_out>>

\* Mutant of GroupAfterEnd: nothing is killed then.
GroupAfterEnd_None == child

\* Without a timer the group is killed here, with one it is not.
GroupAfterEnd ==
    IF options.kill_children /\ ~options.timeout THEN GroupKilled ELSE child

\* A timer that has expired is not stopped by cancel.
Cancels ==
    /\ caller = "ended"
    /\ Moves(IF timer = "set" THEN "cancelled" ELSE timer)
    /\ child' = GroupAfterEnd
    /\ caller' = "decide"
    /\ UNCHANGED <<options, process, reaped, timed_out>>

Decides ==
    /\ caller = "decide"
    /\ caller' = IF options.expect_zero /\ process # "ok" /\ ~timed_out
                 THEN "raised" ELSE "returned"
    /\ UNCHANGED <<options, process, reaped, child, timer, timed_out>>

Caller == Communicates \/ Cancels \/ Decides

Next == StartsChild \/ ChildEnds \/ ProcessEnds \/ Timer \/ Caller

Spec == Init /\ [][Next]_vars

\* The threads go on; the process and its children need not.
Threads == Timer \/ Caller
Fairness == WF_vars(Threads)

FairSpec == Spec /\ Fairness

-----------------------------------------------------------------------------
(***************************************************************************)
(* Properties.                                                             *)
(***************************************************************************)
TypeOK ==
    /\ options \in [timeout : BOOLEAN, kill_children : BOOLEAN,
                    expect_zero : BOOLEAN, pipe : BOOLEAN]
    /\ process \in {"running", "ok", "failed", "killed"}
    /\ reaped \in BOOLEAN
    /\ child \in {"none", "running", "gone"}
    /\ timer \in {"off", "set", "cancelled", "kill_process", "kill_both",
                  "mark", "mark_and_kill", "kill_group", "done"}
    /\ caller \in {"communicate", "ended", "decide", "returned", "raised"}
    /\ timed_out \in BOOLEAN

IsOver == caller \in {"returned", "raised"}

\* With a timeout execute ends, however long the process and its children go
\* on: the trial, the coverage run or the build does not hang.  (Not when it
\* reads from a pipe that children hold and that it does not kill.)
MustEnd == options.timeout /\ (options.kill_children \/ ~options.pipe)
ExecuteEnds == MustEnd => <>IsOver

\* kill_children leaves no process behind: not after a timeout, and not when
\* there is none.  (A process that ends before its timer does leave its
\* children: the comment at the end of execute has them killed by the timer,
\* which is cancelled.)
NothingIsLeft ==
    options.kill_children /\ IsOver /\ timer \in {"off", "cancelled", "done"} =>
        \/ child # "running"
        \/ options.timeout /\ process # "killed"
=============================================================================
