------------------------------- MODULE Disasm -------------------------------
(***************************************************************************)
(* The disassembler (src/host/debugger/disasm.py): how many bytes it takes *)
(* for an instruction and the address it prints for a jump. The mnemonics  *)
(* are left out. It has tables of its own and shares no code with the CPU. *)
(***************************************************************************)
EXTENDS Integers

Word(lo, hi) == hi * 256 + lo

\* _MAIN_OPS: every byte but the four prefixes.
Prefixes == {203, 221, 237, 253}
ShowsWord ==
  {1, 17, 33, 49, 34, 42, 50, 58, 195, 205} \union {op \in 192..255 : op % 8 \in {2, 4}}
ShowsTarget == {16, 24, 32, 40, 48, 56}
ShowsByte == {op \in (0..63) \union (192..255) : op % 8 = 6} \union {211, 219}

MainSize(op) ==
  IF op \in ShowsWord THEN 3 ELSE IF op \in ShowsByte \union ShowsTarget THEN 2 ELSE 1

\* _ED_OPS; an unknown byte is shown with its prefix.
EdSize(op) == IF op \in {67, 75, 83, 91, 99, 107, 115, 123} THEN 4 ELSE 2

\* _build_xy. 0xC1 and 0xC5 are in the table too, as POP and PUSH.
XyShowsDisplacement ==
  {52, 53} \union {op \in 112..119 : op # 118}
    \union {op \in (64..111) \union (120..191) : op % 8 = 6}
XyOps ==
  {9, 25, 41, 57} \union (33..38) \union (42..46) \union {54} \union XyShowsDisplacement
    \union (96..111) \union {op \in 64..191 : op % 8 \in {4, 5} /\ op \notin 112..119}
    \union {193, 197, 225, 227, 229, 233, 249}

\* Mutant: LD (IX+d),n without its last byte.
XySizeShort(op) ==
  IF op \in {33, 34, 42} THEN 4
  ELSE IF op \in XyShowsDisplacement \union {38, 46, 54} THEN 3 ELSE 2

XySize(op) ==
  IF op \in {33, 34, 42, 54} THEN 4
  ELSE IF op \in XyShowsDisplacement \union {38, 46} THEN 3 ELSE 2

\* disassemble: byte[i] is the byte i places after the address.
Size(byte) ==
  CASE byte[0] = 203 -> 2
    [] byte[0] = 237 -> EdSize(byte[1])
    [] byte[0] \in {221, 253} ->
         IF byte[1] = 203 THEN 4
         ELSE IF byte[1] \in XyOps THEN XySize(byte[1])
         ELSE IF byte[1] \in Prefixes THEN 1
         ELSE MainSize(byte[1]) + 1
    [] OTHER -> MainSize(byte[0])

\* The address in the text: of a relative jump, or the word of an operand
\* (_apply_template, with one byte of prefix skipped where there is one).
Shown(byte, addr) ==
  LET skip == IF byte[0] \in {221, 253} THEN 1 ELSE 0
      op   == byte[skip]
      disp == byte[skip + 1]
  IN IF op \in ShowsTarget
       THEN (addr + skip + 2 + (IF disp < 128 THEN disp ELSE disp - 256)) % 65536
       ELSE Word(byte[skip + 1], byte[skip + 2])
=============================================================================
