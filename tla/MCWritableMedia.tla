-------------------------- MODULE MCWritableMedia --------------------------
(***************************************************************************)
(* WritableMedia for TLC: one SRAM, two drives, two disk files, and the   *)
(* F6 list of one image or of both.                                        *)
(***************************************************************************)
EXTENDS WritableMedia

CONSTANTS f1, f2, s1

SramsDef == {1}
DrivesDef == {10, 11}
SramFileDef == [s \in {1} |-> s1]
OneImage == <<f1>>
TwoImages == <<f1, f2>>
=============================================================================
