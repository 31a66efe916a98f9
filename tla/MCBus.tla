------------------------------- MODULE MCBus -------------------------------
EXTENDS Bus

-----------------------------------------------------------------------------
(* The cartridges: one of every mapper, with a ROM that is a power of two  *)
(* of pages and one that is not, or the sizes the decoders single out.     *)

At(b)     == [block |-> b, last |-> FALSE]
LastOf(b) == [block |-> b, last |-> TRUE]

MCRoms == [k \in AllKinds |->
  CASE k \in Ascii8 \union {"game_master2", "konami"} ->
         {[full |-> 3, part |-> TRUE], [full |-> 4, part |-> FALSE]}
    [] k = "konami_scc" -> {[full |-> 5, part |-> FALSE], [full |-> 64, part |-> FALSE]}
    [] k = "r_type"  -> {[full |-> 4, part |-> FALSE], [full |-> 24, part |-> FALSE]}
    [] k = "halnote" -> {[full |-> 128, part |-> FALSE]}
    [] OTHER         -> {[full |-> 2, part |-> TRUE]}]

\* An address of each register, of the SRAM and beside them.
MCAddrs == [k \in AllKinds |->
  CASE k = "ascii8" -> {At(13), At(15)}
    [] k = "koei_sram32" -> {At(8), At(12), At(14)}
    [] k \in Ascii8Sram -> {At(8), At(12), At(14), At(16)}
    [] k \in Ascii16 -> {At(12), At(13), At(14), At(9), At(17), At(23)}
    [] k = "game_master2" -> {At(16), At(20), At(22)}
    [] k = "r_type" -> {At(8), At(16)}
    [] k \in Konami -> {At(10), At(12), At(23)}
    [] k = "konami_scc" -> {At(18), At(19), At(22)}
    [] k = "scc_i_cart" -> {At(18), At(22), LastOf(23)}
    [] k = "halnote" -> {LastOf(9), LastOf(13), LastOf(14), At(14), At(7)}]

\* Values with and without the bits that select SRAM, a half, the sound chip.
MCValues == [k \in AllKinds |->
  CASE k = "game_master2" -> {2, 16, 48}
    [] k \in Ascii16Sram  -> {1, 3, 16}
    [] k = "koei_sram32"  -> {1, 4, 5}
    [] k = "r_type" -> {3, 15, 23, 30}
    [] k \in Konami -> {1, 3, 35}
    [] k = "konami_scc" -> {4, 63, 191}
    [] k = "scc_i_cart" -> {63, 167}
    [] k = "halnote" -> {1, 129}
    [] OTHER -> {1, 3, 4, 5}]

-----------------------------------------------------------------------------
(* The machines: an MSX1 with 32 KB at the top; the HB-10, whose RAM is in *)
(* slot 0; an MSX2 with a RAM mapper of three segments and a disk          *)
(* interface; the HB-F1XD with a cartridge in an expanded slot 2; the      *)
(* FS-A1F, with its roles in four sub-slots.                               *)

Plain == [expanded |-> {}, carts |-> {<<1, 0>>, <<2, 0>>}, slot0Ram |-> -1,
          subRom |-> FALSE, subRomAt |-> 0, fdc |-> FALSE, fdcAt |-> 0,
          flatAt |-> -1, segments |-> 0, topPages |-> 2]

MCMachines ==
  {Plain,
   [Plain EXCEPT !.slot0Ram = 3, !.topPages = 0],
   [Plain EXCEPT !.expanded = {3}, !.subRom = TRUE, !.fdc = TRUE, !.fdcAt = 1, !.segments = 3],
   [Plain EXCEPT !.expanded = {2, 3}, !.carts = {<<1, 0>>, <<2, 1>>}, !.subRom = TRUE,
                 !.fdc = TRUE, !.flatAt = 3, !.topPages = 4],
   [Plain EXCEPT !.expanded = {3}, !.subRom = TRUE, !.subRomAt = 1, !.fdc = TRUE, !.fdcAt = 2,
                 !.flatAt = 0, !.topPages = 4]}

Reg(a, b, c, d) == [p \in Page |-> <<a, b, c, d>>[p + 1]]

MCRegisters    == {Reg(3, 3, 3, 3), Reg(0, 1, 2, 3), Reg(1, 2, 3, 2)}
MCSegmentBytes == {255}
=============================================================================
