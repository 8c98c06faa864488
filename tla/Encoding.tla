------------------------------- MODULE Encoding -------------------------------
(***************************************************************************)
(* The words of instructions as sasm encodes them: the opcodes of          *)
(* instruction_info.h and the formats that code_gen() (code_gen.cpp)       *)
(* chooses by instruction and by whether an operand is a register.         *)
(*                                                                         *)
(* An instruction has a name, the condition if it depends on one ("j" with *)
(* "ge" is jge, others have "none"), and operands: registers, also the     *)
(* auxiliary ones, and immediates.                                         *)
(***************************************************************************)
EXTENDS Words, Sequences

Reg(n) == [kind |-> "reg", val |-> n]
Imm(v) == [kind |-> "imm", val |-> v]
Ins(n, c, ops) == [name |-> n, cond |-> c, ops |-> ops]

\* The verifier lets only those through that name an instruction, not ann with an
\* immediate, nor srd and swr with two registers.
InstrImm ==
    [add |-> \hC000, and |-> \hD000, ann |-> \hD800, cal |-> \hA800, cmp |-> \h8800,
     crd |-> \h1200, cwr |-> \h1300, hlt |-> \h0104, int |-> \h1000, irt |-> \h0004,
     jmp |-> \h5000, lop |-> \h1F00, mov |-> \hA000, mrd |-> \h6000, mlu |-> \h8000,
     mls |-> \h9800, mwr |-> \h6800, nop |-> \h0006, orr |-> \hE000, prd |-> \h4000,
     pwr |-> \h4800, ret |-> \h0506, shl |-> \hF000, shr |-> \hF800, srd |-> \h7000,
     sub |-> \hC800, swr |-> \h7800, tst |-> \h9000, xor |-> \hE800, xwr |-> \h5800]

InstrReg ==
    [add |-> \h0018, and |-> \h001A, ann |-> \h001B, cal |-> \h0406, cmp |-> \h0011,
     crd |-> \h0015, cwr |-> \h0016, dvs |-> \h0003, dvu |-> \h0002, mov |-> \h0014,
     mrd |-> \h000C, mlu |-> \h0010, mls |-> \h0013, mwr |-> \h000D, neg |-> \h0706,
     not |-> \h0606, orr |-> \h001C, pop |-> \h0306, prd |-> \h0008, prf |-> \h0007,
     psh |-> \h0206, pwr |-> \h0009, rng |-> \h0106, shl |-> \h001E, shr |-> \h001F,
     srd |-> \h000E, sub |-> \h0019, swr |-> \h000F, tst |-> \h0012, xor |-> \h001D,
     xrd |-> \h000A, xwr |-> \h000B]

\* jcc, mcc and scc: some conditions have several names.
InstrCond ==
  [j |-> [aa |-> \h2000, be |-> \h2100, bz |-> \h2100, cc |-> \h2200, ae |-> \h2200, az |-> \h2200,
          ge |-> \h2300, gz |-> \h2300, gg |-> \h2400, le |-> \h2500, lz |-> \h2500, ll |-> \h2600,
          nc |-> \h2700, bb |-> \h2700, no |-> \h2800, ns |-> \h2900, nz |-> \h2A00, ne |-> \h2A00,
          oo |-> \h2B00, ss |-> \h2C00, zz |-> \h2D00, ee |-> \h2D00],
   m |-> [aa |-> \hB000, be |-> \hB002, bz |-> \hB002, cc |-> \hB004, ae |-> \hB004, az |-> \hB004,
          ge |-> \hB006, gz |-> \hB006, gg |-> \hB008, le |-> \hB00A, lz |-> \hB00A, ll |-> \hB00C,
          nc |-> \hB00E, bb |-> \hB00E, no |-> \hB800, ns |-> \hB802, nz |-> \hB804, ne |-> \hB804,
          oo |-> \hB806, ss |-> \hB808, zz |-> \hB80A, ee |-> \hB80A],
   s |-> [aa |-> \h0001, be |-> \h0101, bz |-> \h0101, cc |-> \h0201, ae |-> \h0201, az |-> \h0201,
          ge |-> \h0301, gz |-> \h0301, gg |-> \h0401, le |-> \h0501, lz |-> \h0501, ll |-> \h0601,
          nc |-> \h0701, bb |-> \h0701, no |-> \h0017, ns |-> \h0117, nz |-> \h0217, ne |-> \h0217,
          oo |-> \h0317, ss |-> \h0417, zz |-> \h0517, ee |-> \h0517]]

Conditions == DOMAIN InstrCond.j

\* A label as the operand of a jump or call at an address, or, where the
\* address is negative, as a plain value.
RelativeToThis(addr, v) == IF addr >= 0 THEN v - addr ELSE v    \* a fault of RelativeTo
RelativeTo(addr, v) == IF addr >= 0 THEN v - addr - 1 ELSE v

-----------------------------------------------------------------------------
(* The formats.                                                              *)

Rf(n)     == (n % 8) * 32
Rs(n)     == (n % 8) * 256
Split8(v) == ((v \div 32) % 8) * 256 + (v % 32)

\* With a register, or with an immediate, where they may have either.
ToFirst  == {"add", "and", "ann", "cmp", "mlu", "mls", "mov", "mrd", "orr", "prd",
             "shl", "shr", "srd", "sub", "tst", "xor", "xwr", "crd"}
ToSecond == {"mwr", "swr", "pwr", "cwr"}
Pairs    == {"dvu", "dvs", "m", "xrd"}
Bare     == {"hlt", "irt", "nop", "ret"}
Singles  == {"s", "neg", "not", "pop", "psh", "rng", "prf"}
Relative == {"cal", "jmp", "j", "lop"}

\* The operands that the verifier lets through (pattern_table), as they are when
\* constants, labels and expressions have got their values.
AsReg    == [kind : {"reg"}, val : 0 .. 7]
AsImm    == [kind : {"imm"}, val : Int]
AsEither == AsReg \union AsImm
PatternTable(n) ==
    CASE n \in Bare                          -> <<>>
      [] n \in Singles                       -> <<AsReg>>
      [] n = "cal"                           -> <<AsEither>>
      [] n \in {"jmp", "j", "lop", "int"}    -> <<AsImm>>
      [] n \in Pairs \union {"ann"}          -> <<AsReg, AsReg>>
      [] n = "srd"                           -> <<AsReg, AsImm>>
      [] n = "swr"                           -> <<AsImm, AsReg>>
      [] n \in ToFirst \ {"ann", "srd"}      -> <<AsReg, AsEither>>
      [] n \in ToSecond \ {"swr"}            -> <<AsEither, AsReg>>
InstrStrings == Bare \union Singles \union Pairs \union ToFirst \union ToSecond \union Relative \union {"int"}
WellFormed(i) ==
    /\ i.name \in InstrStrings
    /\ i.cond \in (IF i.name \in {"j", "m", "s"} THEN Conditions ELSE {"none"})
    /\ Len(i.ops) = Len(PatternTable(i.name))
    /\ \A k \in 1 .. Len(i.ops) : i.ops[k] \in PatternTable(i.name)[k]

\* Where an instruction has its immediate, 0 if it has none.
ImmediateOf(i) ==
    IF \E k \in 1 .. Len(i.ops) : i.ops[k].kind = "imm"
    THEN CHOOSE k \in 1 .. Len(i.ops) : i.ops[k].kind = "imm" ELSE 0

ImmediateBits(i) == CASE i.name \in {"cal", "jmp"} -> 11
                      [] i.name \in {"crd", "cwr"} -> 5
                      [] OTHER -> 8

BaseOf(i) ==
    CASE i.cond # "none"     -> InstrCond[i.name][i.cond]
      [] i.cond = "none" /\ (i.name \in Bare \/ ImmediateOf(i) # 0) -> InstrImm[i.name]
      [] OTHER               -> InstrReg[i.name]

\* What is written goes to the second operand, of mwr and its like to the first.
\* A fault of RegistersOf: all formats write to their first operand
RegistersOfFirst(i) ==
    CASE Len(i.ops) = 0 -> 0
      [] Len(i.ops) = 1 -> Rf(i.ops[1].val)
      [] OTHER          -> Rf(i.ops[1].val) + Rs(i.ops[2].val)
RegistersOf(i) ==
    CASE i.name \in Bare     -> 0
      [] i.name \in Singles \union {"cal"} -> Rf(i.ops[1].val)
      [] i.name \in ToSecond -> Rf(i.ops[2].val) + Rs(i.ops[1].val)
      [] OTHER               -> Rf(i.ops[1].val) + Rs(i.ops[2].val)

ImmediateFormat(i) ==
    LET v == i.ops[ImmediateOf(i)].val
    IN CASE i.name \in {"cal", "jmp"}      -> Low(v, 11)
         [] i.name \in {"j", "lop", "int"} -> Low(v, 8)
         [] i.name = "crd"                 -> Rf(i.ops[1].val) + Low(v, 5)
         [] i.name = "cwr"                 -> Rf(i.ops[2].val) + Low(v, 5)
         [] i.name \in ToSecond \ {"cwr"}  -> Rf(i.ops[2].val) + Split8(v)
         [] i.name \in ToFirst \ {"crd"}   -> Rf(i.ops[1].val) + Split8(v)

Encoded(i) == BaseOf(i) + (IF ImmediateOf(i) = 0 THEN RegistersOf(i) ELSE ImmediateFormat(i))
=============================================================================
