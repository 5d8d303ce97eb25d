------------------------------ MODULE RunnerMC ------------------------------
(***************************************************************************)
(* Instances of Runner for TLC.                                            *)
(***************************************************************************)
EXTENDS Runner

CONSTANTS seed, f1, f2, main, crashes

ThreeFiles == {seed, f1, f2}
OneSeed == {seed}

\* A corpus of one directory, and one of two with a file in the second.
OneDir == {main}
AllInOne == [f \in ThreeFiles |-> main]
TwoDirs == {main, crashes}
OneApart == [f \in ThreeFiles |-> IF f = f2 THEN crashes ELSE main]
=============================================================================
