---------------------------- MODULE EncodingProofs ----------------------------
(***************************************************************************)
(* The words of the instructions that the verifier lets through: sasm and  *)
(* dasm agree on all of them, but for mlu and mls of registers.            *)
(***************************************************************************)
EXTENDS Disassembler, WordsProofs

-----------------------------------------------------------------------------
(* The fields of a word.                                                     *)

\* The formats by their fields: registers behind the first five bits and before
\* the last five, an immediate of 8 bits in two parts, one at the end, and one
\* of 11 bits.
RegisterWord(t, b, x, y) == 2048 * t + b + Rf(x) + Rs(y)
SplitWord(t, x, v)       == 2048 * t + Rf(x) + Split8(v)
ByteWord(c, v)           == 256 * c + Low(v, 8)
LongWord(t, v)           == 2048 * t + Low(v, 11)

\* A word, and what the fields are as dasm and cosi read it.
Reads(w, t, b, x, y) ==
    /\ w \in Int /\ 0 <= w /\ w <= 65535
    /\ Top(w) = t /\ Tail5(w) = b /\ F(w) = x /\ S(w) = y
    /\ w % 8 = b % 8 /\ (w \div 2) % 8 = (b \div 2) % 8

LEMMA RegisterFields ==
  ASSUME NEW t \in 0 .. 31, NEW b \in 0 .. 31, NEW x \in 0 .. 7, NEW y \in 0 .. 7
  PROVE  Reads(RegisterWord(t, b, x, y), t, b, x, y)
<1> DEFINE w == RegisterWord(t, b, x, y)
<1>1. w = 2048 * t + 256 * y + 32 * x + b
  BY DEF Rf, Rs, RegisterWord
<1> HIDE DEF w
<1>2. w \div 2048 = t /\ w % 32 = b /\ w % 8 = b % 8
  BY <1>1
<1>3. w \div 32 = 64 * t + 8 * y + x /\ w \div 256 = 8 * t + y
  BY <1>1
<1>4. (w \div 32) % 8 = x /\ (w \div 256) % 8 = y
  BY <1>3
<1>5. (w \div 2) % 8 = (b \div 2) % 8
  BY <1>1
<1>6. w \in Int /\ 0 <= w /\ w <= 65535
  BY <1>1
<1>7. Reads(w, t, b, x, y)
  BY <1>2, <1>4, <1>5, <1>6 DEF Reads, Top, Tail5, F, S
<1> QED
  BY <1>7 DEF w

LEMMA RegisterIsWord ==
  ASSUME NEW t \in 0 .. 31, NEW b \in 0 .. 31, NEW x \in 0 .. 7, NEW y \in 0 .. 7
  PROVE  RegisterWord(t, b, x, y) \in Word16
<1> DEFINE w == RegisterWord(t, b, x, y)
<1>1. Reads(w, t, b, x, y)
  BY RegisterFields
<1> HIDE DEF w
<1>2. w \in Word16
  BY <1>1, NumberIsWord DEF Reads
<1> QED
  BY <1>2 DEF w

LEMMA SplitFields ==
  ASSUME NEW t \in 0 .. 31, NEW x \in 0 .. 7, NEW v \in Int
  PROVE  /\ Reads(SplitWord(t, x, v), t, v % 32, x, (v \div 32) % 8)
         /\ Byte8(SplitWord(t, x, v)) = v % 256
<1> DEFINE y == (v \div 32) % 8
           b == v % 32
           w == SplitWord(t, x, v)
<1>1. y \in 0 .. 7 /\ b \in 0 .. 31
  OBVIOUS
<1>2. v % 256 = 32 * y + b
  OBVIOUS
<1>3. Split8(v) = 256 * y + b
  BY DEF Split8
<1> HIDE DEF y, b
<1>4. Rs(y) = 256 * y
  BY <1>1 DEF Rs
<1>5. Rf(x) \in Int
  BY DEF Rf
<1>6. w = RegisterWord(t, b, x, y)
  BY <1>1, <1>3, <1>4, <1>5 DEF RegisterWord, SplitWord
<1>7. Reads(w, t, b, x, y)
  BY <1>1, <1>6, RegisterFields
<1>8. Byte8(w) = v % 256
  BY <1>1, <1>2, <1>7 DEF Byte8, Reads
<1> QED
  BY <1>7, <1>8 DEF y, b

LEMMA SplitIsWord ==
  ASSUME NEW t \in 0 .. 31, NEW x \in 0 .. 7, NEW v \in Int
  PROVE  SplitWord(t, x, v) \in Word16
<1> DEFINE w == SplitWord(t, x, v)
<1>1. Reads(w, t, v % 32, x, (v \div 32) % 8)
  BY SplitFields
<1> HIDE DEF w
<1>2. w \in Word16
  BY <1>1, NumberIsWord DEF Reads
<1> QED
  BY <1>2 DEF w

ReadsByte(w, c, v) ==
    /\ w \in Int /\ 0 <= w /\ w <= 65535
    /\ Top(w) = c \div 8 /\ S(w) = c % 8 /\ w \div 256 = c /\ w % 256 = v % 256

ReadsLong(w, t, v) ==
    /\ w \in Int /\ 0 <= w /\ w <= 65535
    /\ Top(w) = t /\ w % 2048 = v % 2048

LEMMA ByteFields ==
  ASSUME NEW c \in 0 .. 255, NEW v \in Int
  PROVE  ReadsByte(ByteWord(c, v), c, v)
<1> DEFINE w == ByteWord(c, v)
<1>1. Low(v, 8) = v % 256
  BY DEF Low
<1>2. w = (256 * c) + (v % 256)
  BY <1>1 DEF ByteWord
<1> HIDE DEF w
<1>3. w \div 256 = c /\ w % 256 = v % 256 /\ w \div 2048 = c \div 8
  BY <1>2
<1>4. w \in Int /\ 0 <= w /\ w <= 65535
  BY <1>2
<1>5. Top(w) = c \div 8 /\ S(w) = c % 8
  BY <1>3 DEF Top, S
<1> QED
  BY <1>3, <1>4, <1>5 DEF w, ReadsByte

LEMMA LongFields ==
  ASSUME NEW t \in 0 .. 31, NEW v \in Int
  PROVE  ReadsLong(LongWord(t, v), t, v)
<1>1. Low(v, 11) = v % 2048
  BY DEF Low
<1> QED
  BY <1>1 DEF Top, LongWord, ReadsLong

\* An immediate that is read with its sign is written as it was.
LEMMA SignedByte ==
  ASSUME NEW v \in Int
  PROVE  /\ Signed(v % 256, 8) \in Int /\ Low(Signed(v % 256, 8), 8) = Low(v, 8)
         /\ Split8(Signed(v % 256, 8)) = Split8(v)
<1>1. Low(Signed(v % 256, 8), 8) = Low(v, 8) /\ Signed(v % 256, 8) \in Int
  BY DEF Low, Signed
<1>2. Split8(Signed(v % 256, 8)) = Split8(v)
  <2> DEFINE u == v % 256
  <2>1. u \in 0 .. 255 /\ (u \div 32) % 8 = (v \div 32) % 8 /\ u % 32 = v % 32
    OBVIOUS
  <2> HIDE DEF u
  <2>2. CASE u < 128
    BY <2>1, <2>2 DEF Signed, Split8, u
  <2>3. CASE u >= 128
    <3>1. Signed(u, 8) = u - 256
      BY <2>1, <2>3 DEF Signed
    <3>2. ((u - 256) \div 32) % 8 = (u \div 32) % 8 /\ (u - 256) % 32 = u % 32
      BY <2>1
    <3> QED
      BY <2>1, <3>1, <3>2 DEF Split8, u
  <2> QED
    BY <2>1, <2>2, <2>3
<1> QED
  BY <1>1, <1>2

LEMMA SignedShort ==
  ASSUME NEW v \in Int
  PROVE  Signed(v % 32, 5) \in Int /\ Low(Signed(v % 32, 5), 5) = Low(v, 5)
  BY DEF Low, Signed

LEMMA SignedLong ==
  ASSUME NEW v \in Int
  PROVE  Signed(v % 2048, 11) \in Int /\ Low(Signed(v % 2048, 11), 11) = Low(v, 11)
  BY DEF Low, Signed

LEMMA LastByte ==
  ASSUME NEW v \in Int
  PROVE  v % 256 \in Int /\ Low(v % 256, 8) = Low(v, 8)
  BY DEF Low

-----------------------------------------------------------------------------
(* Where the operands of an instruction are, and its word.                   *)

IsR(o) == o.kind = "reg" /\ o.val \in 0 .. 7
IsI(o) == o.kind = "imm" /\ o.val \in Int

LEMMA FieldsAreNumbers ==
  ASSUME NEW n \in Int
  PROVE  Rf(n) \in Int /\ Rs(n) \in Int /\ Split8(n) \in Int
  BY DEF Rf, Rs, Split8

LEMMA NoImmediate ==
  ASSUME NEW i, \/ Len(i.ops) = 0
                \/ Len(i.ops) = 1 /\ IsR(i.ops[1])
                \/ Len(i.ops) = 2 /\ IsR(i.ops[1]) /\ IsR(i.ops[2])
  PROVE  ImmediateOf(i) = 0
<1>1. \A k \in 1 .. Len(i.ops) : i.ops[k].kind # "imm"
  BY DEF IsR
<1> QED
  BY <1>1 DEF ImmediateOf

LEMMA FirstImmediate ==
  ASSUME NEW i, Len(i.ops) = 1 \/ (Len(i.ops) = 2 /\ IsR(i.ops[2])), IsI(i.ops[1])
  PROVE  ImmediateOf(i) = 1
<1>1. \A k \in 1 .. Len(i.ops) : i.ops[k].kind = "imm" <=> k = 1
  BY DEF IsR, IsI
<1> QED
  BY <1>1 DEF ImmediateOf

LEMMA SecondImmediate ==
  ASSUME NEW i, Len(i.ops) = 2, IsR(i.ops[1]), IsI(i.ops[2])
  PROVE  ImmediateOf(i) = 2
<1>1. \A k \in 1 .. Len(i.ops) : i.ops[k].kind = "imm" <=> k = 2
  BY DEF IsR, IsI
<1> QED
  BY <1>1 DEF ImmediateOf

\* Two registers.
RR(i) == Len(i.ops) = 2 /\ IsR(i.ops[1]) /\ IsR(i.ops[2])
RegToFirst  == {"add", "and", "ann", "cmp", "mlu", "mls", "mov", "mrd", "orr", "prd", "shl",
                "shr", "sub", "tst", "xor", "xwr", "crd", "dvu", "dvs", "xrd"}
RegToSecond == {"mwr", "pwr", "cwr"}

LEMMA BasesOfRegisters ==
  \A n \in RegToFirst \union RegToSecond : InstrReg[n] \in 0 .. 31
  BY DEF InstrReg, RegToFirst, RegToSecond

LEMMA NumbersOfRegisters ==
  ASSUME NEW o, IsR(o)
  PROVE  o.val \in Int /\ Rf(o.val) \in Int /\ Rs(o.val) \in Int
<1>1. o.val \in Int
  BY DEF IsR
<1> QED
  BY <1>1, FieldsAreNumbers

LEMMA WordOfRegisters ==
  ASSUME NEW i, RR(i), i.cond = "none", i.name \in RegToFirst \union RegToSecond
  PROVE  Encoded(i) = IF i.name \in RegToSecond
                      THEN RegisterWord(0, InstrReg[i.name], i.ops[2].val, i.ops[1].val)
                      ELSE RegisterWord(0, InstrReg[i.name], i.ops[1].val, i.ops[2].val)
<1>1. ImmediateOf(i) = 0
  BY NoImmediate DEF RR
<1>2. BaseOf(i) = InstrReg[i.name]
  BY <1>1 DEF BaseOf, Bare, RegToFirst, RegToSecond
<1> DEFINE b == InstrReg[i.name]
<1>3. b \in Int
  <2>1. b \in 0 .. 31
    BY BasesOfRegisters
  <2> HIDE DEF b
  <2> QED
    BY <2>1
<1>4. RegistersOf(i) = IF i.name \in RegToSecond
                       THEN Rf(i.ops[2].val) + Rs(i.ops[1].val)
                       ELSE Rf(i.ops[1].val) + Rs(i.ops[2].val)
  BY DEF RegistersOf, Bare, Singles, ToSecond, RegToFirst, RegToSecond
<1>5. /\ Rf(i.ops[1].val) \in Int /\ Rs(i.ops[1].val) \in Int
      /\ Rf(i.ops[2].val) \in Int /\ Rs(i.ops[2].val) \in Int
  BY NumbersOfRegisters DEF RR
<1>6. Encoded(i) = b + RegistersOf(i)
  BY <1>1, <1>2 DEF Encoded
<1> HIDE DEF b
<1>7. CASE i.name \in RegToSecond
  <2>1. Encoded(i) = b + (Rf(i.ops[2].val) + Rs(i.ops[1].val))
    BY <1>4, <1>6, <1>7
  <2>2. Encoded(i) = RegisterWord(0, b, i.ops[2].val, i.ops[1].val)
    BY <1>3, <1>5, <2>1 DEF RegisterWord
  <2> QED
    BY <1>7, <2>2 DEF b
<1>8. CASE i.name \notin RegToSecond
  <2>1. Encoded(i) = b + (Rf(i.ops[1].val) + Rs(i.ops[2].val))
    BY <1>4, <1>6, <1>8
  <2>2. Encoded(i) = RegisterWord(0, b, i.ops[1].val, i.ops[2].val)
    BY <1>3, <1>5, <2>1 DEF RegisterWord
  <2> QED
    BY <1>8, <2>2 DEF b
<1> QED
  BY <1>7, <1>8

\* The word is printed as an instruction of that name, which has that word.
Returns(i) == /\ Disassembled(Encoded(i)).name = i.name
              /\ Encoded(Disassembled(Encoded(i))) = Encoded(i)

LEMMA PrintedRegisters ==
  ASSUME NEW n \in (RegToFirst \union RegToSecond) \ {"mlu", "mls"},
         NEW x \in 0 .. 7, NEW y \in 0 .. 7
  PROVE  Disassembled(RegisterWord(0, InstrReg[n], x, y)) =
             Ins(n, "none", IF n \in RegToSecond THEN <<Reg(y), Reg(x)>> ELSE <<Reg(x), Reg(y)>>)
<1> DEFINE b == InstrReg[n]
           w == RegisterWord(0, b, x, y)
           d == Ins(n, "none", IF n \in RegToSecond THEN <<Reg(y), Reg(x)>> ELSE <<Reg(x), Reg(y)>>)
<1>1. b \in 0 .. 31
  BY BasesOfRegisters
<1>2. Reads(w, 0, b, x, y)
  <2>1. 0 \in 0 .. 31
    OBVIOUS
  <2> HIDE DEF b
  <2> QED
    BY <1>1, <2>1, RegisterFields
<1> HIDE DEF w
<1>3. Disassembled(w) = RegisterForm(w)
  BY <1>2 DEF Reads, Disassembled
<1>4. ASSUME n \in {"dvu", "dvs"} PROVE Disassembled(w) = d
  <2>1. (n = "dvu" => b = 2) /\ (n = "dvs" => b = 3) /\ n \notin RegToSecond
    BY <1>4 DEF InstrReg, RegToSecond
  <2> HIDE DEF b
  <2> QED
    BY <1>2, <1>3, <1>4, <2>1 DEF Reads, RegisterForm
<1>5. ASSUME n \notin {"dvu", "dvs"} PROVE Disassembled(w) = d
  <2>1. b \in 8 .. 31 /\ RegisterNames[b - 7] = n
    BY <1>5 DEF RegisterNames, InstrReg, RegToFirst, RegToSecond
  <2>2. n \in {"pwr", "mwr", "cwr"} <=> n \in RegToSecond
    BY DEF RegToSecond
  <2>3. n \notin {"s", "INVALID", "RESERVED"}
    BY DEF RegToFirst, RegToSecond
  <2> HIDE DEF b
  <2> QED
    BY <1>2, <1>3, <2>1, <2>2, <2>3 DEF Reads, RegisterForm
<1> QED
  BY <1>4, <1>5 DEF w

LEMMA RegistersReturn ==
  ASSUME NEW i, RR(i), i.cond = "none", i.name \in RegToFirst \union RegToSecond
  PROVE  Encoded(i) \in Word16 /\ (i.name \notin {"mlu", "mls"} => Returns(i))
<1> DEFINE n == i.name
           x == IF n \in RegToSecond THEN i.ops[2].val ELSE i.ops[1].val
           y == IF n \in RegToSecond THEN i.ops[1].val ELSE i.ops[2].val
           d == Ins(n, "none", IF n \in RegToSecond THEN <<Reg(y), Reg(x)>> ELSE <<Reg(x), Reg(y)>>)
<1>1. x \in 0 .. 7 /\ y \in 0 .. 7
  BY DEF RR, IsR
<1>2. Encoded(i) = RegisterWord(0, InstrReg[n], x, y)
  BY WordOfRegisters
<1>3. Encoded(i) \in Word16
  <2> DEFINE b == InstrReg[n]
  <2>1. 0 \in 0 .. 31 /\ b \in 0 .. 31
    BY BasesOfRegisters
  <2> HIDE DEF b, x, y
  <2>2. RegisterWord(0, b, x, y) \in Word16
    BY <1>1, <2>1, RegisterIsWord
  <2> QED
    BY <1>2, <2>2 DEF b
<1>4. RR(d) /\ d.cond = "none" /\ d.name = n
  BY <1>1 DEF RR, IsR, Ins, Reg
<1>5. /\ n \in RegToSecond => d.ops[2].val = x /\ d.ops[1].val = y
      /\ n \notin RegToSecond => d.ops[1].val = x /\ d.ops[2].val = y
  BY DEF Ins, Reg
<1> HIDE DEF d, x, y
<1>6. Encoded(d) = RegisterWord(0, InstrReg[n], x, y)
  BY <1>4, <1>5, WordOfRegisters
<1>7. n \notin {"mlu", "mls"} => Disassembled(Encoded(i)) = d
  BY <1>1, <1>2, PrintedRegisters DEF d
<1> QED
  BY <1>2, <1>3, <1>4, <1>6, <1>7 DEF Returns

-----------------------------------------------------------------------------
(* A register and an immediate of 8 bits.                                    *)

RI(i) == Len(i.ops) = 2 /\ IsR(i.ops[1]) /\ IsI(i.ops[2])
IR(i) == Len(i.ops) = 2 /\ IsI(i.ops[1]) /\ IsR(i.ops[2])
SplitToFirst  == {"add", "and", "cmp", "mlu", "mls", "mov", "mrd", "orr", "prd",
                  "shl", "shr", "srd", "sub", "tst", "xor", "xwr"}
SplitToSecond == {"mwr", "swr", "pwr"}

\* sasm begins a word with t for an instruction, and dasm reads it so.
Agree(n, t) == InstrImm[n] = 2048 * t /\ ImmediateNames[t - 7] = n

LEMMA BasesOfSplit ==
  \A n \in SplitToFirst \union SplitToSecond : \E t \in 8 .. 31 : Agree(n, t)
<1>1. \A n \in SplitToFirst \union SplitToSecond :
         \E t \in {8, 9, 11, 12, 13, 14, 15, 16, 17, 18, 19, 20, 24, 25, 26, 28, 29, 30, 31} :
             InstrImm[n] = 2048 * t /\ ImmediateNames[t - 7] = n
  BY DEF InstrImm, ImmediateNames, SplitToFirst, SplitToSecond
<1> QED
  BY <1>1 DEF Agree

LEMMA WordOfSplit ==
  ASSUME NEW i, i.cond = "none", NEW t \in 8 .. 31, InstrImm[i.name] = 2048 * t
  PROVE  /\ RI(i) /\ i.name \in SplitToFirst =>
                Encoded(i) = SplitWord(t, i.ops[1].val, i.ops[2].val)
         /\ IR(i) /\ i.name \in SplitToSecond =>
                Encoded(i) = SplitWord(t, i.ops[2].val, i.ops[1].val)
<1>1. ASSUME RI(i), i.name \in SplitToFirst
      PROVE  Encoded(i) = SplitWord(t, i.ops[1].val, i.ops[2].val)
  <2>1. ImmediateOf(i) = 2
    BY <1>1, SecondImmediate DEF RI
  <2>2. BaseOf(i) = 2048 * t
    BY <2>1 DEF BaseOf
  <2>3. ImmediateFormat(i) = Rf(i.ops[1].val) + Split8(i.ops[2].val)
    BY <1>1, <2>1 DEF ImmediateFormat, ToFirst, ToSecond, SplitToFirst
  <2>4. i.ops[1].val \in Int /\ i.ops[2].val \in Int
    BY <1>1 DEF RI, IsR, IsI
  <2>5. Rf(i.ops[1].val) \in Int /\ Split8(i.ops[2].val) \in Int
    BY <2>4, FieldsAreNumbers
  <2> QED
    BY <2>1, <2>2, <2>3, <2>5 DEF Encoded, SplitWord
<1>2. ASSUME IR(i), i.name \in SplitToSecond
      PROVE  Encoded(i) = SplitWord(t, i.ops[2].val, i.ops[1].val)
  <2>1. ImmediateOf(i) = 1
    BY <1>2, FirstImmediate DEF IR
  <2>2. BaseOf(i) = 2048 * t
    BY <2>1 DEF BaseOf
  <2>3. ImmediateFormat(i) = Rf(i.ops[2].val) + Split8(i.ops[1].val)
    <3>1. /\ i.name \in ToSecond \ {"cwr"} /\ i.name \notin ToFirst \ {"crd"}
          /\ i.name \notin {"cal", "jmp", "j", "lop", "int", "crd", "cwr"}
      BY <1>2 DEF ToSecond, ToFirst, SplitToSecond
    <3> QED
      BY <2>1, <3>1 DEF ImmediateFormat
  <2>4. i.ops[1].val \in Int /\ i.ops[2].val \in Int
    BY <1>2 DEF IR, IsR, IsI
  <2>5. Rf(i.ops[2].val) \in Int /\ Split8(i.ops[1].val) \in Int
    BY <2>4, FieldsAreNumbers
  <2> QED
    BY <2>1, <2>2, <2>3, <2>5 DEF Encoded, SplitWord
<1> QED
  BY <1>1, <1>2

SplitPrinted(n, x, v) ==
    LET u == Imm(Signed(v % 256, 8))
    IN  Ins(n, "none", IF n \in SplitToSecond THEN <<u, Reg(x)>> ELSE <<Reg(x), u>>)

LEMMA PrintedSplit ==
  ASSUME NEW n \in SplitToFirst \union SplitToSecond, NEW t \in 8 .. 31, Agree(n, t),
         NEW x \in 0 .. 7, NEW v \in Int
  PROVE  Disassembled(SplitWord(t, x, v)) = SplitPrinted(n, x, v)
<1> DEFINE w == SplitWord(t, x, v)
           u == Imm(Signed(v % 256, 8))
           d == Ins(n, "none", IF n \in SplitToSecond THEN <<u, Reg(x)>> ELSE <<Reg(x), u>>)
<1>1. t \in 0 .. 31
  OBVIOUS
<1>2. Reads(w, t, v % 32, x, (v \div 32) % 8) /\ Byte8(w) = v % 256
  BY <1>1, SplitFields
<1> HIDE DEF w
<1>3. Disassembled(w) = ImmediateForm(w)
  <2>1. Top(w) \in Int /\ Top(w) >= 8
    BY <1>2 DEF Reads
  <2> QED
    BY <2>1 DEF Disassembled
<1>4. n \in {"pwr", "mwr", "swr"} <=> n \in SplitToSecond
  BY DEF SplitToSecond
<1>5. n \notin {"jmp", "cal", "m", "RESERVED"}
  BY DEF SplitToFirst, SplitToSecond
<1>6. Imm(Signed(Byte8(w), 8)) = u
  BY <1>2
<1> HIDE DEF u
<1>7. ImmediateForm(w) = d
  BY <1>2, <1>4, <1>5, <1>6 DEF Reads, ImmediateForm, Agree
<1> QED
  BY <1>3, <1>7 DEF w, u, SplitPrinted

LEMMA SplitReturn ==
  ASSUME NEW i, i.cond = "none", \/ RI(i) /\ i.name \in SplitToFirst
                                 \/ IR(i) /\ i.name \in SplitToSecond
  PROVE  Encoded(i) \in Word16 /\ Returns(i)
<1> DEFINE n == i.name
<1>0. n \in SplitToFirst \union SplitToSecond /\ (n \in SplitToFirst <=> n \notin SplitToSecond)
  BY DEF SplitToFirst, SplitToSecond
<1>1. PICK t \in 8 .. 31 : Agree(n, t)
  BY BasesOfSplit
<1>2. PICK x \in 0 .. 7 : x = IF n \in SplitToSecond THEN i.ops[2].val ELSE i.ops[1].val
  BY <1>0 DEF RI, IR, IsR
<1>3. PICK v \in Int : v = IF n \in SplitToSecond THEN i.ops[1].val ELSE i.ops[2].val
  BY <1>0 DEF RI, IR, IsI
<1>4. Encoded(i) = SplitWord(t, x, v)
  BY <1>0, <1>1, <1>2, <1>3, WordOfSplit DEF Agree
<1>5. PICK u \in Int : u = Signed(v % 256, 8) /\ Split8(u) = Split8(v)
  BY SignedByte
<1> DEFINE d == Ins(n, "none", IF n \in SplitToSecond THEN <<Imm(u), Reg(x)>> ELSE <<Reg(x), Imm(u)>>)
<1>6. /\ d.cond = "none" /\ d.name = n
      /\ IF n \in SplitToSecond THEN IR(d) ELSE RI(d)
  BY DEF RI, IR, IsR, IsI, Ins, Reg, Imm
<1>7. /\ n \in SplitToSecond => d.ops[2].val = x /\ d.ops[1].val = u
      /\ n \notin SplitToSecond => d.ops[1].val = x /\ d.ops[2].val = u
  BY DEF Ins, Reg, Imm
<1>8. Disassembled(SplitWord(t, x, v)) = d
  <2>1. Disassembled(SplitWord(t, x, v)) = SplitPrinted(n, x, v)
    BY <1>0, <1>1, PrintedSplit
  <2> QED
    BY <1>5, <2>1 DEF SplitPrinted
<1> HIDE DEF d
<1>9. Encoded(d) = SplitWord(t, x, u)
  BY <1>0, <1>1, <1>6, <1>7, WordOfSplit DEF Agree
<1>10. Encoded(d) = SplitWord(t, x, v)
  BY <1>5, <1>9 DEF SplitWord
<1>11. SplitWord(t, x, v) \in Word16
  BY SplitIsWord
<1> QED
  BY <1>4, <1>6, <1>8, <1>10, <1>11 DEF Returns

-----------------------------------------------------------------------------
(* Control registers, with an immediate of 5 bits.                           *)

SystemPrinted(n, x, b) ==
    LET u == Imm(Signed(b, 5))
    IN  Ins(n, "none", IF n = "cwr" THEN <<u, Reg(x)>> ELSE <<Reg(x), u>>)
SystemRow(n) == IF n = "crd" THEN 2 ELSE 3

LEMMA WordOfSystem ==
  ASSUME NEW i, i.cond = "none", NEW x \in 0 .. 7, NEW v \in Int,
         \/ RI(i) /\ i.name = "crd" /\ i.ops[1].val = x /\ i.ops[2].val = v
         \/ IR(i) /\ i.name = "cwr" /\ i.ops[2].val = x /\ i.ops[1].val = v
  PROVE  Encoded(i) = RegisterWord(2, v % 32, x, SystemRow(i.name))
<1>1. Low(v, 5) = v % 32 /\ v % 32 \in Int /\ Rf(x) \in Int
  BY FieldsAreNumbers DEF Low
<1>2. Rs(2) = 512 /\ Rs(3) = 768
  BY DEF Rs
<1>3. CASE i.name = "crd"
  <2>1. ImmediateOf(i) = 2
    BY <1>3, SecondImmediate DEF RI
  <2>2. BaseOf(i) = 4608
    BY <1>3, <2>1 DEF BaseOf, InstrImm
  <2>3. ImmediateFormat(i) = Rf(x) + Low(v, 5)
    BY <1>3, <2>1 DEF ImmediateFormat, ToFirst, ToSecond
  <2> QED
    BY <1>1, <1>2, <1>3, <2>1, <2>2, <2>3 DEF Encoded, RegisterWord, SystemRow
<1>4. CASE i.name = "cwr"
  <2>1. ImmediateOf(i) = 1
    BY <1>4, FirstImmediate DEF IR
  <2>2. BaseOf(i) = 4864
    BY <1>4, <2>1 DEF BaseOf, InstrImm
  <2>3. ImmediateFormat(i) = Rf(x) + Low(v, 5)
    BY <1>4, <2>1 DEF ImmediateFormat, ToFirst, ToSecond
  <2> QED
    BY <1>1, <1>2, <1>4, <2>1, <2>2, <2>3 DEF Encoded, RegisterWord, SystemRow
<1> QED
  BY <1>3, <1>4

LEMMA PrintedSystem ==
  ASSUME NEW n \in {"crd", "cwr"}, NEW x \in 0 .. 7, NEW b \in 0 .. 31
  PROVE  Disassembled(RegisterWord(2, b, x, SystemRow(n))) = SystemPrinted(n, x, b)
<1> DEFINE y == SystemRow(n)
           w == RegisterWord(2, b, x, y)
<1>1. y \in 0 .. 7 /\ 2 \in 0 .. 31 /\ SystemNames[y + 1] = n
  BY DEF SystemRow, SystemNames
<1> HIDE DEF y
<1>2. Reads(w, 2, b, x, y)
  BY <1>1, RegisterFields
<1> HIDE DEF w
<1>3. Disassembled(w) = SystemForm(w)
  BY <1>2 DEF Reads, Disassembled
<1>4. SystemForm(w) = SystemPrinted(n, x, b)
  <2>1. Tail5(w) = b /\ F(w) = x /\ SystemNames[S(w) + 1] = n
    BY <1>1, <1>2 DEF Reads
  <2>2. CASE n = "crd"
    BY <2>1, <2>2 DEF SystemForm, SystemPrinted
  <2>3. CASE n = "cwr"
    BY <2>1, <2>3 DEF SystemForm, SystemPrinted
  <2> QED
    BY <2>2, <2>3
<1> QED
  BY <1>3, <1>4 DEF w, y

LEMMA SystemReturn ==
  ASSUME NEW i, i.cond = "none", \/ RI(i) /\ i.name = "crd"
                                 \/ IR(i) /\ i.name = "cwr"
  PROVE  Encoded(i) \in Word16 /\ Returns(i)
<1> DEFINE n == i.name
<1>1. PICK x \in 0 .. 7 : x = IF n = "cwr" THEN i.ops[2].val ELSE i.ops[1].val
  BY DEF RI, IR, IsR
<1>2. PICK v \in Int : v = IF n = "cwr" THEN i.ops[1].val ELSE i.ops[2].val
  BY DEF RI, IR, IsI
<1>3. PICK b \in 0 .. 31 : b = v % 32
  OBVIOUS
<1>4. PICK u \in Int : u = Signed(b, 5) /\ Low(u, 5) = Low(v, 5)
  <2>1. Signed(v % 32, 5) \in Int /\ Low(Signed(v % 32, 5), 5) = Low(v, 5)
    BY SignedShort
  <2> QED
    BY <1>3, <2>1
<1>5. u % 32 = b
  BY <1>3, <1>4 DEF Low
<1> DEFINE d == Ins(n, "none", IF n = "cwr" THEN <<Imm(u), Reg(x)>> ELSE <<Reg(x), Imm(u)>>)
<1>6. Encoded(i) = RegisterWord(2, b, x, SystemRow(n))
  BY <1>1, <1>2, <1>3, WordOfSystem
<1>7. /\ d.cond = "none" /\ d.name = n
      /\ \/ RI(d) /\ d.name = "crd" /\ d.ops[1].val = x /\ d.ops[2].val = u
         \/ IR(d) /\ d.name = "cwr" /\ d.ops[2].val = x /\ d.ops[1].val = u
  BY DEF RI, IR, IsR, IsI, Ins, Reg, Imm
<1>8. Disassembled(RegisterWord(2, b, x, SystemRow(n))) = d
  <2>1. Disassembled(RegisterWord(2, b, x, SystemRow(n))) = SystemPrinted(n, x, b)
    BY PrintedSystem
  <2> QED
    BY <1>4, <2>1 DEF SystemPrinted
<1> HIDE DEF d
<1>9. Encoded(d) = RegisterWord(2, b, x, SystemRow(n))
  BY <1>5, <1>7, WordOfSystem
<1>10. RegisterWord(2, b, x, SystemRow(n)) \in Word16
  <2>1. 2 \in 0 .. 31 /\ SystemRow(n) \in 0 .. 7
    BY DEF SystemRow
  <2> QED
    BY <2>1, RegisterIsWord
<1> QED
  BY <1>6, <1>7, <1>8, <1>9, <1>10 DEF Returns

-----------------------------------------------------------------------------
(* One register, or nothing.                                                 *)

OneRegister == {"neg", "not", "pop", "psh", "rng", "prf", "cal"}
R1(i) == Len(i.ops) = 1 /\ IsR(i.ops[1])

\* The last five bits, and the three that stand where a second register would.
Ending(n) == IF n \in {"hlt", "irt"} THEN 4 ELSE IF n = "prf" THEN 7 ELSE 6
Row(n)  == CASE n \in {"irt", "nop", "prf"} -> 0
             [] n \in {"hlt", "rng"} -> 1
             [] n = "psh" -> 2 [] n = "pop" -> 3 [] n = "cal" -> 4
             [] n = "ret" -> 5 [] n = "not" -> 6 [] n = "neg" -> 7

LEMMA RowsOfTables ==
  ASSUME NEW n \in OneRegister \union Bare
  PROVE  /\ Ending(n) \in {4, 6, 7} /\ Row(n) \in {0, 1, 2, 3, 4, 5, 6, 7}
         /\ n \in OneRegister => InstrReg[n] = Ending(n) + 256 * Row(n)
         /\ n \in Bare => InstrImm[n] = Ending(n) + 256 * Row(n)
         /\ Ending(n) = 4 => ControlNames[Row(n) + 1] = n
         /\ Ending(n) = 6 => SingleNames[Row(n) + 1] = n
         /\ Ending(n) = 7 => HintNames[Row(n) + 1] = n
<1>1. CASE n \in {"neg", "not", "pop"}
  BY <1>1 DEF Ending, Row, Bare, OneRegister, InstrReg, SingleNames
<1>2. CASE n \in {"psh", "rng", "prf", "cal"}
  BY <1>2 DEF Ending, Row, Bare, OneRegister, InstrReg, SingleNames, HintNames
<1>3. CASE n \in Bare
  BY <1>3 DEF Ending, Row, Bare, OneRegister, InstrImm, SingleNames, ControlNames
<1> QED
  BY <1>1, <1>2, <1>3 DEF OneRegister

OnePrinted(n, x) == Ins(n, "none", IF n \in Bare THEN <<>> ELSE <<Reg(x)>>)

LEMMA PrintedOne ==
  ASSUME NEW n \in OneRegister \union Bare, NEW x \in 0 .. 7
  PROVE  Disassembled(RegisterWord(0, Ending(n), x, Row(n))) = OnePrinted(n, x)
<1> DEFINE y == Row(n)
           b == Ending(n)
           w == RegisterWord(0, b, x, y)
<1>1. y \in 0 .. 7 /\ b \in 0 .. 31 /\ 0 \in 0 .. 31 /\ b \in {4, 6, 7}
  BY RowsOfTables
<1>2. /\ b = 4 => ControlNames[y + 1] = n
      /\ b = 6 => SingleNames[y + 1] = n
      /\ b = 7 => HintNames[y + 1] = n
  BY RowsOfTables
<1> HIDE DEF y, b
<1>3. Reads(w, 0, b, x, y)
  BY <1>1, RegisterFields
<1> HIDE DEF w
<1>4. Disassembled(w) = RegisterForm(w)
  BY <1>3 DEF Reads, Disassembled
<1>5. n \in {"rng", "psh", "pop", "cal", "not", "neg", "prf"} <=> n \notin Bare
  BY DEF OneRegister, Bare
<1>6. \A names : names[y + 1] = n => OneOf(w, names) = OnePrinted(n, x)
  BY <1>3, <1>5 DEF Reads, OneOf, OnePrinted, Printed
<1>7. \/ RegisterForm(w) = OneOf(w, ControlNames) /\ b = 4
      \/ RegisterForm(w) = OneOf(w, SingleNames) /\ b = 6
      \/ RegisterForm(w) = OneOf(w, HintNames) /\ b = 7
  BY <1>1, <1>3 DEF Reads, RegisterForm
<1>8. RegisterForm(w) = OnePrinted(n, x)
  BY <1>2, <1>6, <1>7
<1> QED
  BY <1>4, <1>8 DEF w, b, y

LEMMA WordOfOne ==
  ASSUME NEW i, i.cond = "none", NEW x \in 0 .. 7,
         \/ R1(i) /\ i.name \in OneRegister /\ i.ops[1].val = x
         \/ Len(i.ops) = 0 /\ i.name \in Bare /\ x = 0
  PROVE  Encoded(i) = RegisterWord(0, Ending(i.name), x, Row(i.name))
<1> DEFINE y == Row(i.name)
           b == Ending(i.name)
<1>1. y \in 0 .. 7 /\ b \in Int /\ Rf(x) \in Int
  <2>1. y \in {0, 1, 2, 3, 4, 5, 6, 7} /\ b \in {4, 6, 7}
    BY RowsOfTables
  <2>2. Rf(x) \in Int
    BY FieldsAreNumbers
  <2> HIDE DEF y, b
  <2> QED
    BY <2>1, <2>2
<1>2. ImmediateOf(i) = 0
  BY NoImmediate DEF R1
<1>3. BaseOf(i) = b + 256 * y
  <2>1. CASE i.name \in Bare
    BY <1>2, <2>1, RowsOfTables DEF BaseOf
  <2>2. CASE i.name \in OneRegister
    <3>1. i.name \notin Bare
      BY <2>2 DEF OneRegister, Bare
    <3> QED
      BY <1>2, <2>2, <3>1, RowsOfTables DEF BaseOf
  <2> QED
    BY <2>1, <2>2
<1>4. RegistersOf(i) = Rf(x)
  <2>1. CASE i.name \in Bare
    <3>1. i.name \notin OneRegister /\ i.name \notin Singles \union {"cal"} /\ i.name \notin ToSecond
      BY <2>1 DEF OneRegister, Bare, Singles, ToSecond
    <3>2. Rf(0) = 0 /\ x = 0
      BY <3>1 DEF Rf
    <3> QED
      BY <2>1, <3>1, <3>2 DEF RegistersOf
  <2>2. CASE i.name \in OneRegister
    <3>1. i.name \notin Bare /\ i.name \in Singles \union {"cal"} /\ i.name \notin ToSecond
      BY <2>2 DEF OneRegister, Bare, Singles, ToSecond
    <3> QED
      BY <3>1 DEF RegistersOf
  <2> QED
    BY <2>1, <2>2
<1>5. Encoded(i) = (b + 256 * y) + Rf(x)
  BY <1>2, <1>3, <1>4 DEF Encoded
<1> HIDE DEF y, b
<1>6. Rs(y) = 256 * y
  BY <1>1 DEF Rs
<1>7. Encoded(i) = RegisterWord(0, b, x, y)
  BY <1>1, <1>5, <1>6 DEF RegisterWord
<1> QED
  BY <1>7 DEF y, b

LEMMA OneReturn ==
  ASSUME NEW i, i.cond = "none", \/ R1(i) /\ i.name \in OneRegister
                                 \/ Len(i.ops) = 0 /\ i.name \in Bare
  PROVE  Encoded(i) \in Word16 /\ Returns(i)
<1> DEFINE n == i.name
<1>0. n \in OneRegister \union Bare /\ (n \in OneRegister <=> n \notin Bare)
  BY DEF OneRegister, Bare
<1>1. PICK x \in 0 .. 7 : x = IF n \in Bare THEN 0 ELSE i.ops[1].val
  BY <1>0 DEF R1, IsR
<1>2. Encoded(i) = RegisterWord(0, Ending(n), x, Row(n))
  BY <1>0, <1>1, WordOfOne
<1> DEFINE d == OnePrinted(n, x)
<1>3. /\ d.cond = "none" /\ d.name = n
      /\ n \notin Bare => R1(d) /\ d.ops[1].val = x
      /\ n \in Bare => Len(d.ops) = 0
  BY DEF OnePrinted, R1, IsR, Ins, Reg
<1>4. Disassembled(RegisterWord(0, Ending(n), x, Row(n))) = d
  BY <1>0, PrintedOne
<1> HIDE DEF d
<1>5. Encoded(d) = RegisterWord(0, Ending(n), x, Row(n))
  BY <1>0, <1>1, <1>3, WordOfOne
<1>6. RegisterWord(0, Ending(n), x, Row(n)) \in Word16
  <2>1. 0 \in 0 .. 31 /\ Ending(n) \in 0 .. 31 /\ Row(n) \in 0 .. 7
    BY <1>0, RowsOfTables
  <2> QED
    BY <2>1, RegisterIsWord
<1> QED
  BY <1>2, <1>3, <1>4, <1>5, <1>6 DEF Returns

-----------------------------------------------------------------------------
(* Conditions.                                                               *)

\* A condition has that number, and that is what dasm calls the number.
LEMMA NumberOfCondition ==
  ASSUME NEW c \in Conditions
  PROVE  \E k \in 0 .. 13 :
             /\ InstrCond.j[c] = 8192 + 256 * k
             /\ InstrCond.m[c] = 2048 * (22 + k \div 8) + 2 * (k % 8)
             /\ InstrCond.s[c] = (IF k < 8 THEN 1 ELSE 23) + 256 * (k % 8)
<1> DEFINE K == {0, 1, 2, 3, 4, 5, 6, 7, 8, 9, 10, 11, 12, 13}
<1>1. \E k \in K : InstrCond.j[c] = 8192 + 256 * k
                     /\ InstrCond.m[c] = 2048 * (22 + k \div 8) + 2 * (k % 8)
                     /\ InstrCond.s[c] = (IF k < 8 THEN 1 ELSE 23) + 256 * (k % 8)
  BY DEF Conditions, InstrCond
<1> QED
  BY <1>1

LEMMA NameOfCondition ==
  ASSUME NEW k \in 0 .. 13
  PROVE  /\ CondNames[k + 1] \in Conditions
         /\ InstrCond.j[CondNames[k + 1]] = 8192 + 256 * k
  BY DEF Conditions, InstrCond, CondNames

\* The word of an instruction that depends on condition k, without operands.
CondBase(n, k) == CASE n = "j" -> 8192 + 256 * k
                    [] n = "m" -> 2048 * (22 + (k \div 8)) + 2 * (k % 8)
                    [] n = "s" -> (IF k < 8 THEN 1 ELSE 23) + 256 * (k % 8)
HasNumber(c, k) == \A n \in {"j", "m", "s"} : InstrCond[n][c] = CondBase(n, k)

LEMMA ConditionNumbers ==
  /\ \A c \in Conditions : c # "none" /\ \E k \in 0 .. 13 : HasNumber(c, k)
  /\ \A k \in 0 .. 13 : HasNumber(CondNames[k + 1], k) /\ CondNames[k + 1] # "none"
<1>1. ASSUME NEW c \in Conditions, NEW k \in 0 .. 13,
             /\ InstrCond.j[c] = 8192 + 256 * k
             /\ InstrCond.m[c] = 2048 * (22 + k \div 8) + 2 * (k % 8)
             /\ InstrCond.s[c] = (IF k < 8 THEN 1 ELSE 23) + 256 * (k % 8)
      PROVE  HasNumber(c, k)
  BY <1>1 DEF HasNumber, CondBase
<1>2. \A c \in Conditions : \E k \in 0 .. 13 : HasNumber(c, k)
  BY <1>1, NumberOfCondition
<1>3. \A c \in Conditions : c # "none"
  BY DEF Conditions, InstrCond
<1>4. ASSUME NEW k \in 0 .. 13
      PROVE  HasNumber(CondNames[k + 1], k) /\ CondNames[k + 1] \in Conditions
  <2> DEFINE c == CondNames[k + 1]
  <2>1. c \in Conditions /\ InstrCond.j[c] = 8192 + 256 * k
    BY NameOfCondition
  <2> HIDE DEF c
  <2>2. PICK m \in 0 .. 13 : HasNumber(c, m)
    BY <1>2, <2>1
  <2>3. InstrCond.j[c] = 8192 + 256 * m
    BY <2>2 DEF HasNumber, CondBase
  <2>4. m = k
    BY <2>1, <2>3
  <2> QED
    BY <2>1, <2>2, <2>4 DEF c
<1> QED
  BY <1>2, <1>3, <1>4

LEMMA BaseOfCondition ==
  ASSUME NEW i, i.name \in {"j", "m", "s"}, i.cond # "none", NEW k \in 0 .. 13, HasNumber(i.cond, k)
  PROVE  BaseOf(i) = CondBase(i.name, k)
  BY DEF BaseOf, HasNumber

\* scc.
S1(i) == i.name = "s" /\ i.cond # "none" /\ R1(i)

LEMMA WordOfSet ==
  ASSUME NEW i, S1(i), NEW k \in 0 .. 13, HasNumber(i.cond, k), NEW x \in 0 .. 7, i.ops[1].val = x
  PROVE  Encoded(i) = RegisterWord(0, IF k < 8 THEN 1 ELSE 23, x, k % 8)
<1>1. ImmediateOf(i) = 0
  BY NoImmediate DEF S1, R1
<1>2. BaseOf(i) = (IF k < 8 THEN 1 ELSE 23) + 256 * (k % 8)
  BY BaseOfCondition DEF S1, CondBase
<1>3. RegistersOf(i) = Rf(x)
  BY DEF S1, RegistersOf, Bare, Singles, ToSecond
<1>4. Rf(x) \in Int /\ Rs(k % 8) = 256 * (k % 8)
  BY FieldsAreNumbers DEF Rs
<1> QED
  BY <1>1, <1>2, <1>3, <1>4 DEF Encoded, RegisterWord

LEMMA PrintedSet ==
  ASSUME NEW k \in 0 .. 13, NEW x \in 0 .. 7
  PROVE  Disassembled(RegisterWord(0, IF k < 8 THEN 1 ELSE 23, x, k % 8)) =
             Ins("s", CondNames[k + 1], <<Reg(x)>>)
<1> DEFINE b == IF k < 8 THEN 1 ELSE 23
           y == k % 8
           w == RegisterWord(0, b, x, y)
<1>1. 0 \in 0 .. 31 /\ b \in 0 .. 31 /\ y \in 0 .. 7
  OBVIOUS
<1>2. (b = 1 /\ y = k) \/ (b = 23 /\ 8 + y = k)
  OBVIOUS
<1> HIDE DEF b, y
<1>3. Reads(w, 0, b, x, y)
  BY <1>1, RegisterFields
<1> HIDE DEF w
<1>4. Disassembled(w) = RegisterForm(w)
  BY <1>3 DEF Reads, Disassembled
<1>5. RegisterNames[16] = "s" /\ 23 - 7 = 16
  BY DEF RegisterNames
<1>6. RegisterForm(w) = Conditional("s", k, <<Reg(x)>>)
  <2>1. CASE b = 1
    BY <1>2, <1>3, <2>1 DEF Reads, RegisterForm
  <2>2. CASE b = 23
    BY <1>2, <1>3, <1>5, <2>2 DEF Reads, RegisterForm
  <2> QED
    BY <1>2, <2>1, <2>2
<1>7. Conditional("s", k, <<Reg(x)>>) = Ins("s", CondNames[k + 1], <<Reg(x)>>)
  BY DEF Conditional
<1> QED
  BY <1>4, <1>6, <1>7 DEF w, b, y

LEMMA SetReturn ==
  ASSUME NEW i, S1(i), i.cond \in Conditions
  PROVE  Encoded(i) \in Word16 /\ Returns(i)
<1>1. PICK k \in 0 .. 13 : HasNumber(i.cond, k)
  BY ConditionNumbers
<1>2. PICK x \in 0 .. 7 : x = i.ops[1].val
  BY DEF S1, R1, IsR
<1> DEFINE w == RegisterWord(0, IF k < 8 THEN 1 ELSE 23, x, k % 8)
           d == Ins("s", CondNames[k + 1], <<Reg(x)>>)
<1>3. Encoded(i) = w
  BY <1>1, <1>2, WordOfSet
<1>4. w \in Word16
  <2> DEFINE b == IF k < 8 THEN 1 ELSE 23
             y == k % 8
  <2>1. 0 \in 0 .. 31 /\ b \in 0 .. 31 /\ y \in 0 .. 7
    OBVIOUS
  <2> HIDE DEF b, y
  <2>2. RegisterWord(0, b, x, y) \in Word16
    BY <2>1, RegisterIsWord
  <2> QED
    BY <2>2 DEF b, y
<1>5. Disassembled(w) = d
  BY PrintedSet
<1>6. S1(d) /\ d.ops[1].val = x /\ d.name = "s" /\ HasNumber(d.cond, k)
  BY ConditionNumbers DEF S1, R1, IsR, Ins, Reg
<1> HIDE DEF d
<1>7. Encoded(d) = w
  BY <1>6, WordOfSet
<1> HIDE DEF w
<1> QED
  BY <1>3, <1>4, <1>5, <1>6, <1>7 DEF Returns, S1

\* mcc.
M2(i) == i.name = "m" /\ i.cond # "none" /\ RR(i)

LEMMA WordOfMove ==
  ASSUME NEW i, M2(i), NEW k \in 0 .. 13, HasNumber(i.cond, k),
         NEW x \in 0 .. 7, i.ops[1].val = x, NEW y \in 0 .. 7, i.ops[2].val = y
  PROVE  Encoded(i) = RegisterWord(22 + (k \div 8), 2 * (k % 8), x, y)
<1>1. ImmediateOf(i) = 0
  BY NoImmediate DEF M2, RR
<1>2. BaseOf(i) = 2048 * (22 + (k \div 8)) + 2 * (k % 8)
  BY BaseOfCondition DEF M2, CondBase
<1>3. RegistersOf(i) = Rf(x) + Rs(y)
  BY DEF M2, RegistersOf, Bare, Singles, ToSecond
<1>4. Rf(x) \in Int /\ Rs(y) \in Int
  BY FieldsAreNumbers
<1> QED
  BY <1>1, <1>2, <1>3, <1>4 DEF Encoded, RegisterWord

LEMMA PrintedMove ==
  ASSUME NEW k \in 0 .. 13, NEW x \in 0 .. 7, NEW y \in 0 .. 7
  PROVE  Disassembled(RegisterWord(22 + (k \div 8), 2 * (k % 8), x, y)) =
             Ins("m", CondNames[k + 1], <<Reg(x), Reg(y)>>)
<1> DEFINE t == 22 + (k \div 8)
           b == 2 * (k % 8)
           w == RegisterWord(t, b, x, y)
<1>1. t \in {22, 23} /\ b \in 0 .. 31 /\ (8 * (t % 2)) + ((b \div 2) % 8) = k
  OBVIOUS
<1> HIDE DEF t, b
<1>2. t \in 0 .. 31
  BY <1>1
<1>3. Reads(w, t, b, x, y)
  BY <1>1, <1>2, RegisterFields
<1> HIDE DEF w
<1>4. Disassembled(w) = ImmediateForm(w)
  <2>1. Top(w) \in Int /\ Top(w) >= 8
    BY <1>1, <1>3 DEF Reads
  <2> QED
    BY <2>1 DEF Disassembled
<1>5. MoveCond(w) = k
  BY <1>1, <1>2, <1>3 DEF Reads, MoveCond
<1>6. ImmediateNames[Top(w) - 7] = "m"
  BY <1>1, <1>3 DEF Reads, ImmediateNames
<1>7. ImmediateForm(w) = Conditional("m", k, <<Reg(x), Reg(y)>>)
  BY <1>3, <1>5, <1>6 DEF Reads, ImmediateForm
<1>8. Conditional("m", k, <<Reg(x), Reg(y)>>) = Ins("m", CondNames[k + 1], <<Reg(x), Reg(y)>>)
  BY DEF Conditional
<1> QED
  BY <1>4, <1>7, <1>8 DEF w, b, t

LEMMA MoveReturn ==
  ASSUME NEW i, M2(i), i.cond \in Conditions
  PROVE  Encoded(i) \in Word16 /\ Returns(i)
<1>1. PICK k \in 0 .. 13 : HasNumber(i.cond, k)
  BY ConditionNumbers
<1>2. PICK x \in 0 .. 7 : x = i.ops[1].val
  BY DEF M2, RR, IsR
<1>3. PICK y \in 0 .. 7 : y = i.ops[2].val
  BY DEF M2, RR, IsR
<1> DEFINE w == RegisterWord(22 + (k \div 8), 2 * (k % 8), x, y)
           d == Ins("m", CondNames[k + 1], <<Reg(x), Reg(y)>>)
<1>4. Encoded(i) = w
  BY <1>1, <1>2, <1>3, WordOfMove
<1>5. w \in Word16
  <2> DEFINE t == 22 + (k \div 8)
             b == 2 * (k % 8)
  <2>1. t \in 0 .. 31 /\ b \in 0 .. 31
    OBVIOUS
  <2> HIDE DEF t, b
  <2>2. RegisterWord(t, b, x, y) \in Word16
    BY <2>1, RegisterIsWord
  <2> QED
    BY <2>2 DEF t, b
<1>6. Disassembled(w) = d
  BY PrintedMove
<1>7. M2(d) /\ d.ops[1].val = x /\ d.ops[2].val = y /\ d.name = "m" /\ HasNumber(d.cond, k)
  BY ConditionNumbers DEF M2, RR, IsR, Ins, Reg
<1> HIDE DEF d
<1>8. Encoded(d) = w
  BY <1>7, WordOfMove
<1> HIDE DEF w
<1> QED
  BY <1>4, <1>5, <1>6, <1>7, <1>8 DEF Returns, M2

-----------------------------------------------------------------------------
(* An immediate alone: jcc, lop, int, and jmp and cal.                       *)

I1(i) == Len(i.ops) = 1 /\ IsI(i.ops[1])

LEMMA WordOfByte ==
  ASSUME NEW i, I1(i), i.name \in {"j", "lop", "int"}, NEW c \in 0 .. 255, BaseOf(i) = 256 * c,
         NEW v \in Int, i.ops[1].val = v
  PROVE  Encoded(i) = ByteWord(c, v)
<1>1. ImmediateOf(i) = 1
  BY FirstImmediate DEF I1
<1>2. ImmediateFormat(i) = Low(v, 8)
  <2>1. i.name \notin ToFirst \union ToSecond \union {"cal", "jmp", "crd", "cwr"}
    BY DEF ToFirst, ToSecond
  <2> QED
    BY <1>1, <2>1 DEF ImmediateFormat
<1> QED
  BY <1>1, <1>2 DEF Encoded, ByteWord

LEMMA JumpReturn ==
  ASSUME NEW i, I1(i), i.name = "j", i.cond \in Conditions
  PROVE  Encoded(i) \in Word16 /\ Returns(i)
<1>1. PICK k \in 0 .. 13 : HasNumber(i.cond, k) /\ i.cond # "none"
  BY ConditionNumbers
<1>2. PICK v \in Int : v = i.ops[1].val
  BY DEF I1, IsI
<1>3. PICK c \in 0 .. 255 : c = 32 + k
  OBVIOUS
<1>4. PICK u \in Int : u = Signed(v % 256, 8) /\ Low(u, 8) = Low(v, 8)
  BY SignedByte
<1> DEFINE w == ByteWord(c, v)
           d == Ins("j", CondNames[k + 1], <<Imm(u)>>)
<1>5. \A e : e.name = "j" /\ e.cond # "none" /\ HasNumber(e.cond, k) => BaseOf(e) = 256 * c
  BY <1>3, BaseOfCondition DEF CondBase
<1>6. Encoded(i) = w
  BY <1>1, <1>2, <1>5, WordOfByte
<1>7. I1(d) /\ d.ops[1].val = u /\ d.name = "j" /\ d.cond # "none" /\ HasNumber(d.cond, k)
  BY ConditionNumbers DEF I1, IsI, Ins, Imm
<1> HIDE DEF d
<1>8. Encoded(d) = ByteWord(c, u)
  BY <1>5, <1>7, WordOfByte
<1>9. Encoded(d) = w
  BY <1>4, <1>8 DEF ByteWord
<1>10. ReadsByte(w, c, v)
  BY ByteFields
<1> HIDE DEF w
<1>11. w \in Word16
  BY <1>10, NumberIsWord DEF ReadsByte
<1>12. Top(w) \in {4, 5} /\ (w \div 256) % 16 = k
  BY <1>3, <1>10 DEF ReadsByte
<1>13. Disassembled(w) = Conditional("j", k, <<Imm(u)>>)
  <2>1. Imm(Signed(w % 256, 8)) = Imm(u)
    BY <1>4, <1>10 DEF ReadsByte
  <2>2. Disassembled(w) = Conditional("j", (w \div 256) % 16, <<Imm(Signed(w % 256, 8))>>)
    BY <1>12 DEF Disassembled
  <2> QED
    BY <1>12, <2>1, <2>2
<1>14. Disassembled(w) = d
  BY <1>13 DEF Conditional, d
<1> QED
  BY <1>6, <1>7, <1>9, <1>11, <1>14 DEF Returns

LEMMA LoopReturn ==
  ASSUME NEW i, I1(i), i.name = "lop", i.cond = "none"
  PROVE  Encoded(i) \in Word16 /\ Returns(i)
<1>1. PICK v \in Int : v = i.ops[1].val
  BY DEF I1, IsI
<1>2. PICK c \in 0 .. 255 : c = 31
  OBVIOUS
<1>3. PICK u \in Int : u = Signed(v % 256, 8) /\ Low(u, 8) = Low(v, 8)
  BY SignedByte
<1> DEFINE w == ByteWord(c, v)
           d == Ins("lop", "none", <<Imm(u)>>)
<1>4. \A e : I1(e) /\ e.name = "lop" /\ e.cond = "none" => BaseOf(e) = 256 * c
  BY <1>2, FirstImmediate DEF BaseOf, I1, InstrImm
<1>5. Encoded(i) = w
  BY <1>1, <1>4, WordOfByte
<1>6. I1(d) /\ d.ops[1].val = u /\ d.name = "lop" /\ d.cond = "none"
  BY DEF I1, IsI, Ins, Imm
<1> HIDE DEF d
<1>7. Encoded(d) = ByteWord(c, u)
  BY <1>4, <1>6, WordOfByte
<1>8. Encoded(d) = w
  BY <1>3, <1>7 DEF ByteWord
<1>9. ReadsByte(w, c, v)
  BY ByteFields
<1> HIDE DEF w
<1>10. w \in Word16
  BY <1>9, NumberIsWord DEF ReadsByte
<1>11. Top(w) = 3 /\ S(w) = 7
  BY <1>2, <1>9 DEF ReadsByte
<1>12. Disassembled(w) = d
  <2>1. Imm(Signed(w % 256, 8)) = Imm(u)
    BY <1>3, <1>9 DEF ReadsByte
  <2>2. Disassembled(w) = Ins("lop", "none", <<Imm(Signed(w % 256, 8))>>)
    BY <1>11 DEF Disassembled
  <2> QED
    BY <2>1, <2>2 DEF d
<1> QED
  BY <1>5, <1>6, <1>8, <1>10, <1>12 DEF Returns

LEMMA InterruptReturn ==
  ASSUME NEW i, I1(i), i.name = "int", i.cond = "none"
  PROVE  Encoded(i) \in Word16 /\ Returns(i)
<1>1. PICK v \in Int : v = i.ops[1].val
  BY DEF I1, IsI
<1>2. PICK c \in 0 .. 255 : c = 16
  OBVIOUS
<1>3. PICK u \in Int : u = v % 256 /\ Low(u, 8) = Low(v, 8)
  BY LastByte
<1> DEFINE w == ByteWord(c, v)
           d == Ins("int", "none", <<Imm(u)>>)
<1>4. \A e : I1(e) /\ e.name = "int" /\ e.cond = "none" => BaseOf(e) = 256 * c
  BY <1>2, FirstImmediate DEF BaseOf, I1, InstrImm
<1>5. Encoded(i) = w
  BY <1>1, <1>4, WordOfByte
<1>6. I1(d) /\ d.ops[1].val = u /\ d.name = "int" /\ d.cond = "none"
  BY DEF I1, IsI, Ins, Imm
<1> HIDE DEF d
<1>7. Encoded(d) = ByteWord(c, u)
  BY <1>4, <1>6, WordOfByte
<1>8. Encoded(d) = w
  BY <1>3, <1>7 DEF ByteWord
<1>9. ReadsByte(w, c, v)
  BY ByteFields
<1> HIDE DEF w
<1>10. w \in Word16
  BY <1>9, NumberIsWord DEF ReadsByte
<1>11. Top(w) = 2 /\ S(w) = 0
  BY <1>2, <1>9 DEF ReadsByte
<1>12. Disassembled(w) = SystemForm(w)
  BY <1>11 DEF Disassembled
<1>13. SystemForm(w) = d
  <2>1. Imm(w % 256) = Imm(u)
    BY <1>3, <1>9 DEF ReadsByte
  <2> QED
    BY <1>11, <2>1 DEF SystemForm, SystemNames, d
<1> QED
  BY <1>5, <1>6, <1>8, <1>10, <1>12, <1>13 DEF Returns

LEMMA WordOfLong ==
  ASSUME NEW i, I1(i), i.name \in {"jmp", "cal"}, i.cond = "none", NEW v \in Int, i.ops[1].val = v
  PROVE  Encoded(i) = LongWord(IF i.name = "jmp" THEN 10 ELSE 21, v)
<1>1. ImmediateOf(i) = 1
  BY FirstImmediate DEF I1
<1>2. ImmediateFormat(i) = Low(v, 11)
  <2>1. i.name \notin ToFirst \union ToSecond \union {"j", "lop", "int", "crd", "cwr"}
    BY DEF ToFirst, ToSecond
  <2> QED
    BY <1>1, <2>1 DEF ImmediateFormat
<1>3. BaseOf(i) = 2048 * (IF i.name = "jmp" THEN 10 ELSE 21)
  BY <1>1 DEF BaseOf, InstrImm
<1> QED
  BY <1>1, <1>2, <1>3 DEF Encoded, LongWord

LEMMA LongReturn ==
  ASSUME NEW i, I1(i), i.name \in {"jmp", "cal"}, i.cond = "none"
  PROVE  Encoded(i) \in Word16 /\ Returns(i)
<1> DEFINE n == i.name
<1>1. PICK v \in Int : v = i.ops[1].val
  BY DEF I1, IsI
<1>2. PICK t \in 0 .. 31 : t = IF n = "jmp" THEN 10 ELSE 21
  OBVIOUS
<1>3. PICK u \in Int : u = Signed(v % 2048, 11) /\ Low(u, 11) = Low(v, 11)
  BY SignedLong
<1> DEFINE w == LongWord(t, v)
           d == Ins(n, "none", <<Imm(u)>>)
<1>4. Encoded(i) = w
  BY <1>1, <1>2, WordOfLong
<1>5. I1(d) /\ d.ops[1].val = u /\ d.name = n /\ d.cond = "none"
  BY DEF I1, IsI, Ins, Imm
<1> HIDE DEF d
<1>6. Encoded(d) = LongWord(t, u)
  BY <1>2, <1>5, WordOfLong
<1>7. Encoded(d) = w
  BY <1>3, <1>6 DEF LongWord
<1>8. ReadsLong(w, t, v)
  BY LongFields
<1> HIDE DEF w
<1>9. w \in Word16
  BY <1>8, NumberIsWord DEF ReadsLong
<1>10. Disassembled(w) = ImmediateForm(w)
  <2>1. Top(w) \in Int /\ Top(w) >= 8
    BY <1>2, <1>8 DEF ReadsLong
  <2> QED
    BY <2>1 DEF Disassembled
<1>11. ImmediateNames[Top(w) - 7] = n
  BY <1>2, <1>8 DEF ImmediateNames, ReadsLong
<1>12. ImmediateForm(w) = d
  <2>1. Imm(Signed(w % 2048, 11)) = Imm(u)
    BY <1>3, <1>8 DEF ReadsLong
  <2>2. ImmediateForm(w) = Ins(n, "none", <<Imm(Signed(w % 2048, 11))>>)
    BY <1>11 DEF ImmediateForm
  <2> QED
    BY <2>1, <2>2 DEF d
<1> QED
  BY <1>4, <1>5, <1>7, <1>9, <1>10, <1>12 DEF Returns

-----------------------------------------------------------------------------
(* All of them.                                                              *)

\* The formats that an instruction which is let through may have.
Returning(i) == \/ i.cond = "none" /\ Len(i.ops) = 0 /\ i.name \in Bare
                \/ i.cond = "none" /\ R1(i) /\ i.name \in OneRegister
                \/ i.cond = "none" /\ RR(i) /\ i.name \in (RegToFirst \union RegToSecond) \ {"mlu", "mls"}
                \/ i.cond = "none" /\ RI(i) /\ i.name \in SplitToFirst \union {"crd"}
                \/ i.cond = "none" /\ IR(i) /\ i.name \in SplitToSecond \union {"cwr"}
                \/ i.cond = "none" /\ I1(i) /\ i.name \in {"lop", "int", "jmp", "cal"}
                \/ i.cond \in Conditions /\ S1(i)
                \/ i.cond \in Conditions /\ M2(i)
                \/ i.cond \in Conditions /\ I1(i) /\ i.name = "j"
OfRegisters(i) == i.cond = "none" /\ RR(i) /\ i.name \in {"mlu", "mls"}

LEMMA OperandsAre ==
  ASSUME NEW o
  PROVE  o \in AsReg => IsR(o)
  BY DEF AsReg, IsR

LEMMA ImmediatesAre ==
  ASSUME NEW o
  PROVE  o \in AsImm => IsI(o)
  BY DEF AsImm, IsI

\* The rows of pattern_table, which no two formats share.
LEMMA RowsOfPattern ==
  ASSUME NEW n
  PROVE  /\ n \in Bare => PatternTable(n) = <<>>
         /\ n \in Singles \/ n = "cal" =>
                PatternTable(n) = IF n = "cal" THEN <<AsEither>> ELSE <<AsReg>>
         /\ n \in {"jmp", "j", "lop", "int"} => PatternTable(n) = <<AsImm>>
         /\ n \in Pairs \union {"ann"} => PatternTable(n) = <<AsReg, AsReg>>
         /\ n \in ToFirst \ {"ann"} =>
                PatternTable(n) = IF n = "srd" THEN <<AsReg, AsImm>> ELSE <<AsReg, AsEither>>
         /\ n \in ToSecond =>
                PatternTable(n) = IF n = "swr" THEN <<AsImm, AsReg>> ELSE <<AsEither, AsReg>>
<1>1. n \in Bare => PatternTable(n) = <<>>
  <2>1. n \in Bare => /\ n \notin Singles \union Pairs \union ToFirst \union ToSecond
                      /\ n \notin {"cal", "jmp", "j", "lop", "int", "ann", "srd", "swr"}
    BY DEF Bare, Singles, Pairs, ToFirst, ToSecond
  <2> QED
    BY <2>1 DEF PatternTable
<1>2. n \in Singles \/ n = "cal" =>
         PatternTable(n) = IF n = "cal" THEN <<AsEither>> ELSE <<AsReg>>
  <2>1. n \in Singles => /\ n \notin Bare \union Pairs \union ToFirst \union ToSecond
                         /\ n \notin {"cal", "jmp", "j", "lop", "int", "ann", "srd", "swr"}
    BY DEF Bare, Singles, Pairs, ToFirst, ToSecond
  <2>2. "cal" \notin Bare \union Singles \union Pairs \union ToFirst \union ToSecond
    BY DEF Bare, Singles, Pairs, ToFirst, ToSecond
  <2> QED
    BY <2>1, <2>2 DEF PatternTable
<1>3. n \in {"jmp", "j", "lop", "int"} => PatternTable(n) = <<AsImm>>
  <2>1. n \in {"jmp", "j", "lop", "int"} =>
           n \notin Bare \union Singles \union Pairs \union ToFirst \union ToSecond
    BY DEF Bare, Singles, Pairs, ToFirst, ToSecond
  <2> QED
    BY <2>1 DEF PatternTable
<1>4. n \in Pairs \union {"ann"} => PatternTable(n) = <<AsReg, AsReg>>
  <2>1. n \in Pairs \union {"ann"} =>
           /\ n \notin Bare \union Singles \union (ToFirst \ {"ann", "srd"}) \union ToSecond
           /\ n \notin {"cal", "jmp", "j", "lop", "int", "srd", "swr"}
    BY DEF Bare, Singles, Pairs, ToFirst, ToSecond
  <2> QED
    BY <2>1 DEF PatternTable
<1>5. n \in ToFirst \ {"ann"} =>
         PatternTable(n) = IF n = "srd" THEN <<AsReg, AsImm>> ELSE <<AsReg, AsEither>>
  <2>1. n \in ToFirst \ {"ann"} => /\ n \notin Bare \union Singles \union Pairs \union ToSecond
                                   /\ n \notin {"cal", "jmp", "j", "lop", "int", "ann", "swr"}
    BY DEF Bare, Singles, Pairs, ToFirst, ToSecond
  <2> QED
    BY <2>1 DEF PatternTable
<1>6. n \in ToSecond =>
         PatternTable(n) = IF n = "swr" THEN <<AsImm, AsReg>> ELSE <<AsEither, AsReg>>
  <2>1. n \in ToSecond => /\ n \notin Bare \union Singles \union Pairs \union ToFirst
                          /\ n \notin {"cal", "jmp", "j", "lop", "int", "ann", "srd"}
    BY DEF Bare, Singles, Pairs, ToFirst, ToSecond
  <2> QED
    BY <2>1 DEF PatternTable
<1> QED
  BY <1>1, <1>2, <1>3, <1>4, <1>5, <1>6

LEMMA FormatsAre ==
  ASSUME NEW i, WellFormed(i)
  PROVE  Returning(i) \/ OfRegisters(i)
<1> DEFINE n == i.name
           P == PatternTable(n)
<1>1. i.cond = "none" \/ (i.cond \in Conditions /\ n \in {"j", "m", "s"})
  BY DEF WellFormed
<1>2. Len(i.ops) = Len(P) /\ \A k \in 1 .. Len(i.ops) : i.ops[k] \in P[k]
  BY DEF WellFormed
<1>3. n \in {"j", "m", "s"} => i.cond \in Conditions /\ i.cond # "none"
  BY DEF WellFormed, Conditions, InstrCond
<1>4. n \in InstrStrings
  BY DEF WellFormed
<1>5. AsEither = AsReg \union AsImm
  BY DEF AsEither
<1> HIDE DEF n
<1>6. CASE n \in Bare
  <2>1. P = <<>>
    BY <1>6, RowsOfPattern
  <2>2. n \notin {"j", "m", "s"}
    BY <1>6 DEF Bare
  <2> QED
    BY <1>1, <1>2, <1>6, <2>1, <2>2 DEF Returning, n
<1>7. CASE n \in Singles \/ n = "cal"
  <2>1. P = IF n = "cal" THEN <<AsEither>> ELSE <<AsReg>>
    BY <1>7, RowsOfPattern
  <2> HIDE DEF P
  <2>2. Len(i.ops) = 1 /\ i.ops[1] \in IF n = "cal" THEN AsEither ELSE AsReg
    BY <1>2, <2>1
  <2>3. R1(i) \/ (n = "cal" /\ I1(i))
    BY <1>5, <2>2, OperandsAre, ImmediatesAre DEF R1, I1
  <2>4. n \in OneRegister \/ n = "s"
    BY <1>7 DEF Singles, OneRegister
  <2>5. n # "s" => n \notin {"j", "m", "s"}
    BY <2>4 DEF OneRegister
  <2> QED
    BY <1>1, <1>3, <2>3, <2>4, <2>5 DEF Returning, S1, n
<1>8. CASE n \in {"jmp", "j", "lop", "int"}
  <2>1. P = <<AsImm>>
    BY <1>8, RowsOfPattern
  <2> HIDE DEF P
  <2>2. I1(i)
    BY <1>2, <2>1, ImmediatesAre DEF I1
  <2> QED
    BY <1>1, <1>3, <1>8, <2>2 DEF Returning, n
<1>9. CASE n \in Pairs \union {"ann"}
  <2>1. P = <<AsReg, AsReg>>
    BY <1>9, RowsOfPattern
  <2> HIDE DEF P
  <2>2. RR(i)
    BY <1>2, <2>1, OperandsAre DEF RR
  <2>3. n = "m" \/ n \in (RegToFirst \union RegToSecond) \ {"mlu", "mls"}
    BY <1>9 DEF Pairs, RegToFirst
  <2>4. n # "m" => n \notin {"j", "m", "s"}
    BY <1>9 DEF Pairs
  <2> QED
    BY <1>1, <1>3, <2>2, <2>3, <2>4 DEF Returning, M2, n
<1>10. CASE n \in ToFirst \ {"ann"}
  <2>1. P = IF n = "srd" THEN <<AsReg, AsImm>> ELSE <<AsReg, AsEither>>
    BY <1>10, RowsOfPattern
  <2> HIDE DEF P
  <2>2. /\ Len(i.ops) = 2 /\ i.ops[1] \in AsReg
        /\ i.ops[2] \in IF n = "srd" THEN AsImm ELSE AsEither
    BY <1>2, <2>1
  <2>3. (RR(i) /\ n # "srd") \/ RI(i)
    BY <1>5, <2>2, OperandsAre, ImmediatesAre DEF RR, RI
  <2>4. n \in SplitToFirst \union {"crd"} /\ (n # "srd" => n \in RegToFirst)
    BY <1>10 DEF ToFirst, SplitToFirst, RegToFirst
  <2>5. n \notin {"j", "m", "s"}
    BY <1>10 DEF ToFirst
  <2> QED
    BY <1>1, <2>3, <2>4, <2>5 DEF Returning, OfRegisters, n
<1>11. CASE n \in ToSecond
  <2>1. P = IF n = "swr" THEN <<AsImm, AsReg>> ELSE <<AsEither, AsReg>>
    BY <1>11, RowsOfPattern
  <2> HIDE DEF P
  <2>2. /\ Len(i.ops) = 2 /\ i.ops[2] \in AsReg
        /\ i.ops[1] \in IF n = "swr" THEN AsImm ELSE AsEither
    BY <1>2, <2>1
  <2>3. (RR(i) /\ n # "swr") \/ IR(i)
    BY <1>5, <2>2, OperandsAre, ImmediatesAre DEF RR, IR
  <2>4. n \in SplitToSecond \union {"cwr"} /\ (n # "swr" => n \in RegToSecond \ {"mlu", "mls"})
    BY <1>11 DEF ToSecond, SplitToSecond, RegToSecond
  <2>5. n \notin {"j", "m", "s"}
    BY <1>11 DEF ToSecond
  <2> QED
    BY <1>1, <2>3, <2>4, <2>5 DEF Returning, OfRegisters, n
<1> QED
  BY <1>4, <1>6, <1>7, <1>8, <1>9, <1>10, <1>11 DEF InstrStrings, Relative

LEMMA ReturningReturn ==
  ASSUME NEW i, Returning(i)
  PROVE  Encoded(i) \in Word16 /\ Returns(i)
<1>1. i.cond \in Conditions => i.cond # "none"
  BY DEF Conditions, InstrCond
<1>2. CASE \/ i.cond = "none" /\ Len(i.ops) = 0 /\ i.name \in Bare
           \/ i.cond = "none" /\ R1(i) /\ i.name \in OneRegister
  BY <1>2, OneReturn
<1>3. CASE i.cond = "none" /\ RR(i) /\ i.name \in (RegToFirst \union RegToSecond) \ {"mlu", "mls"}
  BY <1>3, RegistersReturn
<1>4. CASE \/ i.cond = "none" /\ RI(i) /\ i.name \in SplitToFirst \union {"crd"}
           \/ i.cond = "none" /\ IR(i) /\ i.name \in SplitToSecond \union {"cwr"}
  BY <1>4, SplitReturn, SystemReturn
<1>5. CASE i.cond = "none" /\ I1(i) /\ i.name \in {"lop", "int", "jmp", "cal"}
  BY <1>5, LoopReturn, InterruptReturn, LongReturn
<1>6. CASE i.cond \in Conditions /\ (S1(i) \/ M2(i) \/ (I1(i) /\ i.name = "j"))
  BY <1>6, SetReturn, MoveReturn, JumpReturn
<1> QED
  BY <1>2, <1>3, <1>4, <1>5, <1>6 DEF Returning

\* What the verifier lets through is encoded in a word of 16 bits: no field of it
\* reaches into another (code_gen()).
THEOREM EncodedIsWord ==
  ASSUME NEW i, WellFormed(i)
  PROVE  Encoded(i) \in Word16
<1>1. CASE Returning(i)
  BY <1>1, ReturningReturn
<1>2. CASE OfRegisters(i)
  BY <1>2, RegistersReturn DEF OfRegisters, RegToFirst
<1> QED
  BY <1>1, <1>2, FormatsAre

\* dasm prints the word of what the verifier lets through as an instruction of that
\* name, which sasm encodes in that same word, whatever values its operands
\* have; but for mlu and mls of registers (disassemble(), code_gen()).
THEOREM RoundTrip ==
  ASSUME NEW i, WellFormed(i), i.name \in {"mlu", "mls"} => ImmediateOf(i) # 0
  PROVE  /\ Disassembled(Encoded(i)).name = i.name
         /\ Encoded(Disassembled(Encoded(i))) = Encoded(i)
<1>1. CASE Returning(i)
  BY <1>1, ReturningReturn DEF Returns
<1>2. CASE OfRegisters(i)
  <2>1. ImmediateOf(i) = 0
    BY <1>2, NoImmediate DEF OfRegisters, RR
  <2> QED
    BY <1>2, <2>1 DEF OfRegisters
<1> QED
  BY <1>1, <1>2, FormatsAre
=============================================================================
