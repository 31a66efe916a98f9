------------------------------ MODULE MCWd2793 ------------------------------
(* Wd2793 for TLC: two drives, a single-sided disk that can be written in   *)
(* the first, a double-sided one that cannot, sectors of two bytes.         *)
EXTENDS Wd2793

DiskSectors == [d \in Disks |-> 2]
TrackSectors == [d \in Disks |-> 1]
DiskSides == [d \in Disks |-> IF d \in Protected THEN 2 ELSE 1]
FirstDisks == [d \in Drives |-> IF d = 0 THEN CHOOSE x \in Disks : x \notin Protected
                                ELSE NoDisk]
=============================================================================
