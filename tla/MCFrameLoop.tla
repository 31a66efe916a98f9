---------------------------- MODULE MCFrameLoop ----------------------------
(* Three scanlines of less than two instructions each, two addresses.       *)
EXTENDS FrameLoop

CostsDef == {1, 2}
OneCost == {1}
PCsDef == {0, 1}
SPsDef == {0, 1}
SpRangeDef == {0}
CpusDef == {[pc |-> 0, sp |-> 0, hung |-> FALSE], [pc |-> 1, sp |-> 1, hung |-> FALSE],
            [pc |-> 1, sp |-> 0, hung |-> TRUE]}
OneSplit == {1}
TwoSplits == {0, 1}
BothKinds == {"TMS9918A", "V9938"}
V9938Only == {"V9938"}
=============================================================================
