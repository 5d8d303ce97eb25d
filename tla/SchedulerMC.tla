---------------------------- MODULE SchedulerMC ----------------------------
(***************************************************************************)
(* Instances of Scheduler for TLC.                                         *)
(***************************************************************************)
EXTENDS SchedulerTable, TLC

CONSTANTS i1, i2, i3, r1, r2, c1, c2

TwoInitial == {i1, i2}
ThreeInitial == {i1, i2, i3}

\* As many more ids as there may be preemptions.
ThreeTrials == {i1, i2, r1}
FourTrials == {i1, i2, r1, r2}
FiveTrials == {i1, i2, i3, r1, r2}

TwoCpusets == {c1, c2}

\* Initial trials are interchangeable, and so are the ids of replacements.
TrialSymmetry ==
    Permutations(InitialTrials) \union Permutations(Trials \ InitialTrials)
=============================================================================
