------------------------------ MODULE MCElevation ------------------------------
(***************************************************************************)
(* The units of MCLayout, drawn.                                           *)
(***************************************************************************)
EXTENDS Elevation, MCLayout

MCOuterRowMm == mm(5)
MCOffsets == {mm(1), mm(-1), mm(50), mm(-50)}
================================================================================
