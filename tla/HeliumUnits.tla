----------------------------- MODULE HeliumUnits -----------------------------
(***************************************************************************)
(* The combinational units of the helium CPU: the decoders of programs and *)
(* of microcode (decode.vhdl), which turn a word into control lines and    *)
(* fields, and the ALU (arithmetic.vhdl).  A row of a decode ROM is the    *)
(* set of the lines that are '1' in it.                                    *)
(***************************************************************************)
EXTENDS Words

Bits(w, high, low) == (w \div 2^low) % 2^(high - low + 1)
Bit(w, n)          == Bits(w, n, n) = 1

\* A bus that nobody drives.  Where a number is made of it, it counts as 0.
Floating == -1
AsNumber(w) == IF w = Floating THEN 0 ELSE w

\* A memory is a function of the addresses that were given a word.
WordAt(memory, a) == IF a \in DOMAIN memory THEN memory[a] ELSE 0

-----------------------------------------------------------------------------
(* Programs.                                                                 *)

RowOfImmediate(opcode) ==
    CASE opcode = 2                     -> {"iim", "jmp", "cal"}
      [] opcode = 3                     -> {"iim", "jmp"}
      [] opcode = 4                     -> {"iim", "jcc", "jmp"}
      [] opcode = 5                     -> {"iim", "sig", "jcc", "jmp"}
      [] opcode = 8                     -> {"rwr", "prd", "iim"}
      [] opcode = 9                     -> {"pwr", "iim"}
      [] opcode = 11                    -> {"xwr", "iim"}
      [] opcode = 12                    -> {"rwr", "mrd", "iim"}
      [] opcode = 13                    -> {"mwr", "iim"}
      [] opcode = 14                    -> {"rwr", "mrd", "off", "iim"}
      [] opcode = 15                    -> {"mwr", "off", "iim"}
      [] opcode \in {17, 19}            -> {"fwr", "iim", "alu"}
      [] opcode = 20                    -> {"rwr", "iim"}
      [] opcode \in 24 .. 31            -> {"rwr", "fwr", "iim", "alu"}
      [] OTHER                          -> {"inv"}

RowOfRegisters(opcode) ==
    CASE opcode = 2                     -> {"inv", "jmp", "cal"}
      [] opcode = 3                     -> {"inv", "jmp"}
      [] opcode = 4                     -> {"inv", "jcc", "jmp"}
      [] opcode = 5                     -> {"inv", "sig", "jcc", "jmp"}
      [] opcode = 10                    -> {"rwr", "xrd"}
      [] opcode \in {16, 18, 21, 22, 23} -> {}
      [] OTHER                          -> RowOfImmediate(opcode) \ {"iim"}

RowOfSystem(opcode) ==
    CASE opcode = 0                     -> {"iim", "int"}
      [] opcode = 1                     -> {"irt", "ien"}
      [] opcode = 2                     -> {"inv", "ien", "hlt"}
      [] opcode = 3                     -> {"hlt"}
      [] opcode = 6                     -> {"rwr", "pxr", "iim"}
      [] opcode = 7                     -> {"pxw", "iim"}
      [] OTHER                          -> {"inv"}

RowOfOneRegister(opcode) ==
    CASE opcode = 0                     -> {"rwr", "mrd", "pop"}
      [] opcode = 1                     -> {"mwr", "psh"}
      [] opcode = 2                     -> {"jmp", "cal"}
      [] opcode = 3                     -> {"jmp"}
      [] opcode = 4                     -> {"fwr", "ret"}
      [] opcode = 7                     -> {}
      [] OTHER                          -> {"inv"}

Major(w) == Bits(w, 15, 11)
Minor(w) == Bits(w, 4, 0)
Long(w)  == Bits(w, 10, 8)

\* An immediate has its highest bit in the lowest of the word.  The width of
\* the rest, and the rest, by format.
Width(w) ==
    CASE Major(w) = 1 /\ Long(w) \in {6, 7} -> 4
      [] Major(w) \in {2, 3}                -> 10
      [] OTHER                              -> 7
Rest(w) ==
    CASE Major(w) = 1 /\ Long(w) = 0        -> Bits(w, 7, 1)
      [] Major(w) = 1 /\ Long(w) \in {6, 7} -> Bits(w, 4, 1)
      [] Major(w) \in {2, 3}                -> Bits(w, 10, 1)
      [] Major(w) \in {4, 5}                -> Bits(w, 10, 4)
      [] OTHER                              -> (16 * Long(w)) + Bits(w, 4, 1)
ImmZe(w) == Rest(w) + (2^Width(w) * Bits(w, 0, 0))
ImmSe(w) == (Rest(w) - (2^Width(w) * Bits(w, 0, 0))) % 65536

Row(w) ==
    CASE Major(w) = 1  -> RowOfSystem(Long(w))
      [] Major(w) = 21 -> RowOfOneRegister(Long(w))
      [] Major(w) = 0  -> RowOfRegisters(Minor(w))
      [] OTHER         -> RowOfImmediate(Major(w))

\* The line for privileged instructions is made of two others, which are those
\* for fin and irt.
Prv(w) == "irt" \in Row(w) /\ Bits(ImmZe(w), 7, 6) = 0

-----------------------------------------------------------------------------
(* Microcode.                                                                *)

RowOfMicrocode(opcode) ==
    CASE opcode = 0         -> {"msw"}
      [] opcode = 1         -> {"iim", "int"}
      [] opcode = 3         -> {"rwr", "iim"}
      [] opcode = 4         -> {"rwr", "mrd"}
      [] opcode = 5         -> {"rwr", "mrd", "iim"}
      [] opcode = 6         -> {"mwr"}
      [] opcode = 9         -> {"iim", "sig", "jcc", "jmp"}
      [] opcode = 11        -> {"xwr", "iim"}
      [] opcode = 13        -> {"rwr", "ird", "iim"}
      [] opcode = 14        -> {"iwr"}
      [] opcode = 15        -> {"iwr", "iim"}
      [] opcode = 17        -> {"rwr", "prd", "iim"}
      [] opcode = 19        -> {"pwr", "iim"}
      [] opcode = 20        -> {"rwr", "pxr", "iim"}
      [] opcode = 24        -> {"rwr", "fwr", "alu"}
      [] opcode \in {25, 27} -> {"rwr", "fwr", "iim", "alu"}
      [] opcode = 31        -> {"fwr", "iim", "alu"}
      [] OTHER              -> {"inv"}

-----------------------------------------------------------------------------
(* What either decoder makes of a word.                                      *)

Controls(micro, w) == IF micro THEN RowOfMicrocode(Major(w))
                      ELSE Row(w) \union (IF Prv(w) THEN {"prv"} ELSE {})
Rf(micro, w)        == IF micro THEN Bits(w, 10, 8) ELSE Bits(w, 7, 5)
Rs(micro, w)        == IF micro THEN Bits(w, 2, 0) ELSE Bits(w, 10, 8)
Extended(micro, w)  == IF micro THEN Signed(w % 256, 8) % 65536 ELSE ImmSe(w)
Unextended(micro, w) == IF micro THEN w % 256 ELSE ImmZe(w)
JumpFlags(micro, w) == IF micro THEN Bits(w, 10, 8) ELSE Bits(w, 3, 1)
RetFlags(w)         == Bits(w, 7, 4)
AluOp(micro, w)     == IF micro THEN Bits(w, 13, 12) ELSE (IF Major(w) = 0 THEN Minor(w) ELSE Major(w)) % 8

-----------------------------------------------------------------------------
(* The ALU works on 17 bits, of which the highest is the carry.              *)

Result17(op, a, b) ==
    CASE op = 0 -> a + b
      [] op = 1 -> (a - b) % 131072
      [] op = 2 -> 131071 - b
      [] op = 3 -> BitAnd(a, b)
      [] op = 4 -> BitOr(a, b)
      [] op = 5 -> BitXor(a, b)
      [] op = 6 -> IF b > 16 THEN 0 ELSE (a * 2^b) % 131072
      [] op = 7 -> IF b > 16 THEN 0 ELSE a \div 2^b

\* Sign, overflow, carry and zero, from bit 3 on.  Only bit 0 of the operation
\* tells a subtraction.
FlagsOf17(op, a, b, r) ==
    LET issub    == Bit(op, 0)
        \* the signs of the operands differ, those of the second and the result do
        opposite == Bit(a, 15) # Bit(b, 15)
        turned   == Bit(b, 15) # Bit(r, 15)
        overflow == (issub <=> opposite) /\ (issub # turned)
    IN  (IF Bit(r, 15) THEN 8 ELSE 0) + (IF overflow THEN 4 ELSE 0)
            + (IF Bit(r, 16) THEN 2 ELSE 0) + (IF Low(r, 16) = 0 THEN 1 ELSE 0)

-----------------------------------------------------------------------------
(* Whether a jump is taken, by its condition and the flags.                  *)

ShouldJump(controls, condition, flags) ==
    LET s == Bit(flags, 3)
        o == Bit(flags, 2)
        c == Bit(flags, 1)
        z == Bit(flags, 0)
        below == IF "sig" \in controls THEN s # o ELSE c
    IN  "jcc" \in controls =>
        CASE condition = 0 -> FALSE
          [] condition = 1 -> ~below /\ ~z
          [] condition = 2 -> z
          [] condition = 3 -> ~below
          [] condition = 4 -> below
          [] condition = 5 -> ~z
          [] condition = 6 -> below \/ z
          [] condition = 7 -> TRUE
=============================================================================
