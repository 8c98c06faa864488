----------------------------- MODULE Disassembler -----------------------------
(***************************************************************************)
(* disassemble() (disassembler/src/disassemble.cpp): the instruction that  *)
(* dasm prints for a word.  What it prints of words without an instruction *)
(* is INVALID, RESERVED or nop/RESERVED.                                   *)
(***************************************************************************)
EXTENDS Encoding

Printed(note) == Ins(note, "none", <<>>)

CondNames == <<"aa", "be", "cc", "ge", "gg", "le", "ll", "nc",
               "no", "ns", "nz", "oo", "ss", "zz">>
Conditional(n, c, ops) == IF c < 14 THEN Ins(n, CondNames[c + 1], ops) ELSE Printed("INVALID")

\* By the last five bits of words that begin with 00000, from 01000 on.
RegisterNames ==
    <<"prd", "pwr", "xrd", "xwr", "mrd", "mwr", "RESERVED", "RESERVED",
      "mul", "cmp", "tst", "INVALID", "mov", "crd", "cwr", "s",
      "add", "sub", "and", "ann", "orr", "xor", "shl", "shr">>

\* By the first five bits, from 01000 on.
ImmediateNames ==
    <<"prd", "pwr", "jmp", "xwr", "mrd", "mwr", "srd", "swr",
      "mlu", "cmp", "tst", "mls", "mov", "cal", "m", "m",
      "add", "sub", "and", "RESERVED", "orr", "xor", "shl", "shr">>

\* Words that end in 00100, 00110 and 00111, by the register that follows the
\* opcode.
ControlNames == <<"irt", "hlt", "INVALID", "INVALID", "nop/RESERVED", "nop/RESERVED",
                  "INVALID", "INVALID">>
SingleNames  == <<"nop", "rng", "psh", "pop", "cal", "ret", "not", "neg">>
HintNames    == <<"prf", "nop/RESERVED", "nop/RESERVED", "nop/RESERVED", "nop/RESERVED",
                  "INVALID", "INVALID", "INVALID">>
SystemNames  == <<"int", "INVALID", "crd", "cwr", "INVALID", "INVALID", "INVALID", "INVALID">>

Top(w)   == w \div 2048
Tail5(w) == w % 32
F(w)     == (w \div 32) % 8
S(w)     == (w \div 256) % 8
Byte8(w)  == (S(w) * 32) + Tail5(w)

OneOf(w, names) ==
    LET n == names[S(w) + 1]
    IN  CASE n \in {"rng", "psh", "pop", "cal", "not", "neg", "prf"} -> Ins(n, "none", <<Reg(F(w))>>)
          [] OTHER -> Printed(n)

RegisterForm(w) ==
    LET low == Tail5(w)
        n   == RegisterNames[low - 7]
    IN CASE low = 1 -> Conditional("s", S(w), <<Reg(F(w))>>)
         [] low = 2 -> Ins("dvu", "none", <<Reg(F(w)), Reg(S(w))>>)
         [] low = 3 -> Ins("dvs", "none", <<Reg(F(w)), Reg(S(w))>>)
         [] low = 4 -> OneOf(w, ControlNames)
         [] low = 6 -> OneOf(w, SingleNames)
         [] low = 7 -> OneOf(w, HintNames)
         [] low \in {0, 5} -> Printed("INVALID")
         [] low >= 8 /\ n = "s" -> Conditional("s", 8 + S(w), <<Reg(F(w))>>)
         [] low >= 8 /\ n \in {"pwr", "mwr", "cwr"} -> Ins(n, "none", <<Reg(S(w)), Reg(F(w))>>)
         [] low >= 8 /\ n \in {"INVALID", "RESERVED"} -> Printed(n)
         [] OTHER -> Ins(n, "none", <<Reg(F(w)), Reg(S(w))>>)

SystemForm(w) ==
    LET n == SystemNames[S(w) + 1]
    IN CASE n = "int" -> Ins(n, "none", <<Imm(w % 256)>>)
         [] n = "crd" -> Ins(n, "none", <<Reg(F(w)), Imm(Signed(Tail5(w), 5))>>)
         [] n = "cwr" -> Ins(n, "none", <<Imm(Signed(Tail5(w), 5)), Reg(F(w))>>)
         [] OTHER     -> Printed(n)

\* The condition of a conditional move is in bits 1 to 3 and bit 11.
MoveCondNext(w) == (8 * (Top(w) % 2)) + (w % 8)     \* a fault of MoveCond
MoveCond(w)     == (8 * (Top(w) % 2)) + ((w \div 2) % 8)

ImmediateForm(w) ==
    LET n == ImmediateNames[Top(w) - 7]
        v == Imm(Signed(Byte8(w), 8))
    IN CASE n \in {"jmp", "cal"} -> Ins(n, "none", <<Imm(Signed(w % 2048, 11))>>)
         [] n = "m" -> Conditional(n, MoveCond(w), <<Reg(F(w)), Reg(S(w))>>)
         [] n \in {"pwr", "mwr", "swr"} -> Ins(n, "none", <<v, Reg(F(w))>>)
         [] n = "RESERVED" -> Printed(n)
         [] OTHER -> Ins(n, "none", <<Reg(F(w)), v>>)

Disassembled(w) ==
    CASE Top(w) = 0 -> RegisterForm(w)
      [] Top(w) = 1 -> Printed("INVALID (SW DEFINED)")
      [] Top(w) = 2 -> SystemForm(w)
      [] Top(w) = 3 /\ S(w) = 7 -> Ins("lop", "none", <<Imm(Signed(w % 256, 8))>>)
      [] Top(w) = 3 /\ S(w) < 7 -> Printed(IF S(w) < 5 THEN "nop/RESERVED" ELSE "INVALID")
      [] Top(w) \in {4, 5} -> Conditional("j", (w \div 256) % 16, <<Imm(Signed(w % 256, 8))>>)
      [] Top(w) \in {6, 7} -> Printed("INVALID")
      [] Top(w) >= 8 -> ImmediateForm(w)
=============================================================================
