---------------------------- MODULE TrialArchives ----------------------------
(***************************************************************************)
(* What the runner of a trial promises to the measurer, which takes its    *)
(* corpus archives from the filestore one cycle after the other            *)
(* (measure_trial_coverage in src/experiment/measurer/measure_manager.py): *)
(* the archive of a cycle appears before those of later cycles or never,   *)
(* and does not disappear.  Runner implements this, and Measurer assumes   *)
(* no more of the runners.                                                 *)
(***************************************************************************)
EXTENDS Naturals

CONSTANT MaxCycle    \* the last cycle of a trial

VARIABLES
    synced,          \* the next cycle whose archive can appear
    archives         \* the cycles whose archive is in the filestore

Init == synced = 0 /\ archives = {}

\* The archive of the next cycle is saved.
Saved == archives' = archives \union {synced}

\* The runner has given up on it.
GivenUp == archives' = archives

Sync ==
    /\ synced <= MaxCycle
    /\ synced' = synced + 1
    /\ Saved \/ GivenUp

Spec == Init /\ [][Sync]_<<synced, archives>>
=============================================================================
