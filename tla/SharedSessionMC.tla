-------------------------- MODULE SharedSessionMC --------------------------
(***************************************************************************)
(* An instance of SharedSession for TLC.                                   *)
(***************************************************************************)
EXTENDS SharedSession

CONSTANTS i1, r1

OneInitial == {i1}
OneWithReplacement == {i1, r1}
=============================================================================
