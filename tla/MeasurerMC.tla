----------------------------- MODULE MeasurerMC -----------------------------
(***************************************************************************)
(* An instance of Measurer for TLC.                                        *)
(***************************************************************************)
EXTENDS Measurer

CONSTANTS i1, i2

TwoInitial == {i1, i2}
=============================================================================
