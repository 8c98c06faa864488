------------------------------ MODULE IsaProofs ------------------------------
(***************************************************************************)
(* Registers and memory hold words of 16 bits in every program that the    *)
(* verifier lets through; conditions decide what their names say, for all  *)
(* numbers; and dasm prints every word that sasm made as it was written.   *)
(* The invariant is the types with those of the disk: what cosi reads from *)
(* it are words although lines need not be numbers.                        *)
(***************************************************************************)
EXTENDS Isa, EncodingProofs

-----------------------------------------------------------------------------
(* The parts of the invariant.                                               *)

Words8   == [Registers16 -> Word16]
RegsOK   == regs \in Words8
AuxOK    == sp \in Word16 /\ lc \in Word16 /\ ar \in Word16
IpOK     == ip \in Word16
PrefixOK == ui \in Word16 /\ ui_modified \in BOOLEAN
MemOK    == DOMAIN mem \subseteq Word16 /\ \A a \in DOMAIN mem : mem[a] \in Word16
RaisedOK == raised \subseteq {"ins", "ina"}
CpuOK    == RegsOK /\ AuxOK /\ IpOK /\ PrefixOK /\ fl \in Flags /\ MemOK /\ RaisedOK /\ halt \in BOOLEAN
PortsOK  == disk_addr \in Word16 /\ catalyst_info_return \in Word16
DiskOK   == \A a \in DOMAIN disk : disk[a] \in Word16 \union {NotHex}
IoOK     == PortsOK /\ DiskOK
IsaInv   == CpuOK /\ IoOK /\ shown \in Seq(Word16)

LEMMA TypesOfInv == TypeOK <=> CpuOK /\ PortsOK /\ shown \in Seq(Word16)
  BY DEF TypeOK, CpuOK, PortsOK, RegsOK, Words8, AuxOK, IpOK, PrefixOK, MemOK, RaisedOK

LEMMA CutIsWord ==
  ASSUME NEW v \in Int
  PROVE  Cut(v) \in Word16
  BY DEF Cut, Word16

LEMMA BitIsWord == 0 \in Word16 /\ 1 \in Word16 /\ 257 \in Word16 /\ 32 \in Word16
  BY DEF Word16

-----------------------------------------------------------------------------
(* What is decoded.                                                          *)

LEMMA ReadIsWord ==
  ASSUME MemOK, NEW a
  PROVE  At(a) \in Word16
<1>1. CASE a \in DOMAIN mem
  BY <1>1 DEF At, MemOK
<1>2. CASE a \notin DOMAIN mem
  BY <1>2, BitIsWord DEF At
<1> QED
  BY <1>1, <1>2

LEMMA FieldsOfFetched ==
  ASSUME CpuOK
  PROVE  /\ Rd \in 0 .. 7 /\ Rsrc \in 0 .. 7 /\ Minor \in 0 .. 31 /\ Major \in 0 .. 31
         /\ Fetched \in Word16
<1>1. Fetched \in Word16
  BY ReadIsWord DEF Fetched, CpuOK
<1>2. Major \in 0 .. 31
  BY <1>1, WordIsNumber DEF Major
<1> QED
  BY <1>1, <1>2, WordIsNumber DEF Rd, Rsrc, Minor

LEMMA ExtendedIsWord ==
  ASSUME CpuOK, NEW v \in Int, NEW e \in Word16
  PROVE  ExtendedUi(v, e) \in Word16
<1>1. ui \in Int
  BY WordIsNumber DEF CpuOK, PrefixOK
<1>2. (256 * ui) + (v % 256) \in Int
  BY <1>1
<1>3. Cut((256 * ui) + (v % 256)) \in Word16
  BY <1>2, CutIsWord
<1> QED
  BY <1>3 DEF ExtendedUi

\* The operands of an instruction are words (instruction.cpp:57-84).
LEMMA OperandsAreWords ==
  ASSUME CpuOK
  PROVE  /\ regs[Rsrc] \in Word16 /\ regs[Rd] \in Word16
         /\ Imm8 \in Word16 /\ Imm11 \in Word16 /\ Imm8J \in Word16
<1>1. Rd \in 0 .. 7 /\ Rsrc \in 0 .. 7 /\ Minor \in 0 .. 31 /\ Fetched \in Int
  BY FieldsOfFetched, WordIsNumber
<1>2. regs[Rsrc] \in Word16 /\ regs[Rd] \in Word16
  BY <1>1 DEF CpuOK, RegsOK, Words8, Registers16
<1>3. Imm8 \in Word16
  <2> DEFINE v == (32 * Rsrc) + Minor
  <2>1. v \in Int /\ 0 <= v /\ v <= 65535
    BY <1>1
  <2> HIDE DEF v
  <2>2. ExtendedUi(v, v) \in Word16
    BY <2>1, NumberIsWord, ExtendedIsWord
  <2> QED
    BY <2>2 DEF Imm8, v
<1>4. Imm11 \in Word16
  <2> DEFINE v == Fetched % 2048
  <2>1. v \in Int
    BY <1>1
  <2>2. Signed(v, 11) \in Int
    BY <2>1 DEF Signed
  <2> HIDE DEF v
  <2>3. ExtendedUi(v, Cut(Signed(v, 11))) \in Word16
    BY <2>1, <2>2, CutIsWord, ExtendedIsWord
  <2> QED
    BY <2>3 DEF Imm11, v
<1>5. Imm8J \in Word16
  <2> DEFINE v == Fetched % 256
  <2>1. v \in Int
    BY <1>1
  <2>2. Signed(v, 8) \in Int
    BY <2>1 DEF Signed
  <2> HIDE DEF v
  <2>3. ExtendedUi(v, Cut(Signed(v, 8))) \in Word16
    BY <2>1, <2>2, CutIsWord, ExtendedIsWord
  <2> QED
    BY <2>3 DEF Imm8J, v
<1> QED
  BY <1>2, <1>3, <1>4, <1>5

-----------------------------------------------------------------------------
(* What is computed.                                                         *)

TwoTo(n) == 2^n
PowersOfTwo == {1, 2, 4, 8, 16, 32, 64, 128, 256, 512, 1024, 2048, 4096, 8192, 16384, 32768}

LEMMA Powers ==
  ASSUME NEW b \in 0 .. 15
  PROVE  TwoTo(b) \in PowersOfTwo
<1>1. b \in {0, 1, 2, 3, 4, 5, 6, 7, 8, 9, 10, 11, 12, 13, 14, 15}
  OBVIOUS
<1>2. /\ TwoTo(0) = 1 /\ TwoTo(1) = 2 /\ TwoTo(2) = 4 /\ TwoTo(3) = 8
      /\ TwoTo(4) = 16 /\ TwoTo(5) = 32 /\ TwoTo(6) = 64 /\ TwoTo(7) = 128
  BY DEF TwoTo
<1>3. /\ TwoTo(8) = 256 /\ TwoTo(9) = 512 /\ TwoTo(10) = 1024 /\ TwoTo(11) = 2048
      /\ TwoTo(12) = 4096 /\ TwoTo(13) = 8192 /\ TwoTo(14) = 16384 /\ TwoTo(15) = 32768
  BY DEF TwoTo
<1> QED
  BY <1>1, <1>2, <1>3 DEF PowersOfTwo

LEMMA ShiftsAreWords ==
  ASSUME NEW a \in Word16, NEW b \in Word16
  PROVE  /\ (IF b >= 16 THEN 0 ELSE Cut(a * 2^b)) \in Word16
         /\ (IF b >= 16 THEN 0 ELSE a \div 2^b) \in Word16
<1>1. CASE b >= 16
  BY <1>1, BitIsWord
<1>2. CASE ~(b >= 16)
  <2>1. b \in 0 .. 15
    BY <1>2, WordIsNumber
  <2> DEFINE p == 2^b
  <2>2. p \in PowersOfTwo
    <3>1. p = TwoTo(b)
      BY DEF TwoTo
    <3> HIDE DEF p
    <3> QED
      BY <2>1, <3>1, Powers
  <2> HIDE DEF p
  <2>3. a \in Int /\ 0 <= a /\ a <= 65535
    BY WordIsNumber
  <2>4. Cut(a * p) \in Word16
    <3>1. a * p \in Int
      BY <2>2, <2>3 DEF PowersOfTwo
    <3> QED
      BY <3>1, CutIsWord
  <2>5. a \div p \in Word16
    <3> DEFINE q == a \div p
               OK == q \in Int /\ 0 <= q /\ q <= 65535
    <3>1. CASE p \in {1, 2, 4, 8}
      <4>1. OK
        BY <2>3, <3>1
      <4> QED
        BY <4>1, NumberIsWord
    <3>2. CASE p \in {16, 32, 64, 128}
      <4>1. OK
        BY <2>3, <3>2
      <4> QED
        BY <4>1, NumberIsWord
    <3>3. CASE p \in {256, 512, 1024, 2048}
      <4>1. OK
        BY <2>3, <3>3
      <4> QED
        BY <4>1, NumberIsWord
    <3>4. CASE p \in {4096, 8192, 16384, 32768}
      <4>1. OK
        BY <2>3, <3>4
      <4> QED
        BY <4>1, NumberIsWord
    <3> QED
      BY <2>2, <3>1, <3>2, <3>3, <3>4 DEF PowersOfTwo
  <2> QED
    BY <1>2, <2>4, <2>5 DEF p
<1> QED
  BY <1>1, <1>2

Computing == {"mlu", "cmp", "tst", "mov", "add", "sub", "and", "ann", "orr", "xor", "shl", "shr"}

\* What an instruction computes is a word (instruction.cpp:285-403).
LEMMA ResultIsWord ==
  ASSUME NEW a \in Word16, NEW b \in Word16, NEW op \in Computing
  PROVE  ResultOf(op, a, b) \in Word16
<1>1. a \in Int /\ b \in Int /\ 0 <= b /\ b <= 65535
  BY WordIsNumber
<1>2. CASE op = "mlu"
  <2>1. ((a % 256) * b) + (256 * (((a \div 256) * b) % 256)) \in Int
    BY <1>1
  <2> QED
    BY <1>2, <2>1, CutIsWord DEF ResultOf, Product
<1>3. CASE op \in {"add", "sub", "cmp"}
  <2>1. Unlimited(op, a, b) \in Int
    BY <1>1 DEF Unlimited
  <2>2. ResultOf(op, a, b) = Cut(Unlimited(op, a, b))
    BY <1>3 DEF ResultOf
  <2> QED
    BY <2>1, <2>2, CutIsWord
<1>4. CASE op \in {"and", "tst", "ann", "orr", "xor"}
  <2>1. 65535 - b \in Word16
    BY <1>1, NumberIsWord
  <2>2. /\ BitAnd(a, b) \in Word16 /\ BitAnd(a, 65535 - b) \in Word16
        /\ BitOr(a, b) \in Word16 /\ BitXor(a, b) \in Word16
    BY <2>1, BitsOfWords
  <2> QED
    BY <1>4, <2>2 DEF ResultOf
<1>5. CASE op = "mov"
  BY <1>5 DEF ResultOf
<1>6. CASE op \in {"shl", "shr"}
  BY <1>6, ShiftsAreWords DEF ResultOf
<1> QED
  BY <1>2, <1>3, <1>4, <1>5, <1>6 DEF Computing

LEMMA FlagsAreFlags ==
  ASSUME fl \in Flags
  PROVE  /\ \A op, a, b : FlagsAfter(op, a, b) \in Flags
         /\ \A v : LogicFlags(v) \in Flags /\ FlagsOf(v) \in Flags
<1>1. \A v : LogicFlags(v) \in Flags
  <2>1. \A x, y \in BOOLEAN : [fl EXCEPT !.s = x, !.z = y] \in Flags
    BY DEF Flags
  <2>2. \A v : Bit15(v) \in BOOLEAN /\ (v = 0) \in BOOLEAN
    BY DEF Bit15
  <2> QED
    BY <2>1, <2>2, Zenon DEF LogicFlags
<1>2. \A res, a, b : ArithmeticFlags(res, a, b) \in Flags
  BY DEF ArithmeticFlags, Flags, Bit15, Bit16
<1>3. \A v : FlagsOf(v) \in Flags
  BY DEF FlagsOf, Flags, Bit
<1> QED
  BY <1>1, <1>2, <1>3 DEF FlagsAfter

LEMMA FlagsReadIsWord ==
  ASSUME fl \in Flags
  PROVE  FlagsRead \in Word16
<1>1. /\ FlagBit(fl.d, 4) \in {0, 16} /\ FlagBit(fl.s, 3) \in {0, 8} /\ FlagBit(fl.o, 2) \in {0, 4}
      /\ FlagBit(fl.c, 1) \in {0, 2} /\ FlagBit(fl.z, 0) \in {0, 1}
  BY DEF FlagBit
<1>2. FlagsRead \in Int /\ 0 <= FlagsRead /\ FlagsRead <= 65535
  BY <1>1 DEF FlagsRead
<1> QED
  BY <1>2, NumberIsWord

LEMMA OperationsCompute ==
  /\ \A m \in 16 .. 31 : m \notin {19, 21, 22, 23} => Operations[m - 15] \in Computing
  /\ \A m \in 16 .. 31 : m \notin {19, 21, 22, 23, 27} => Operations[m - 15] \in Computing
<1>1. \A m \in {16, 17, 18, 20, 24, 25, 26, 27, 28, 29, 30, 31} : Operations[m - 15] \in Computing
  BY DEF Operations, Computing
<1> QED
  BY <1>1

-----------------------------------------------------------------------------
(* What is kept by the parts of an instruction.                              *)

LEMMA SetKeeps ==
  ASSUME RegsOK, NEW r \in 0 .. 7, NEW v \in Word16
  PROVE  Set(r, v) => RegsOK'
  BY DEF Set, RegsOK, Words8, Registers16

LEMMA StoreKeeps ==
  ASSUME MemOK, NEW a \in Word16, NEW v \in Word16,
         mem' = [x \in DOMAIN mem \union {a} |-> IF x = a THEN v ELSE mem[x]]
  PROVE  MemOK'
<1>1. DOMAIN mem' = DOMAIN mem \union {a}
  OBVIOUS
<1>2. \A x \in DOMAIN mem' : mem'[x] \in Word16
  BY <1>1 DEF MemOK
<1> QED
  BY <1>1, <1>2 DEF MemOK

LEMMA NextKeeps ==
  ASSUME CpuOK, NextIp
  PROVE  IpOK'
<1>1. ip + 1 \in Int
  BY WordIsNumber DEF CpuOK, IpOK
<1> QED
  BY <1>1, CutIsWord DEF NextIp, IpOK

LEMMA GotoKeeps ==
  ASSUME NEW a \in Int, Goto(a)
  PROVE  IpOK'
  BY CutIsWord DEF Goto, IpOK

\* The address a jump ends at.
LEMMA TargetIsNumber ==
  ASSUME CpuOK, NEW v \in Word16
  PROVE  ip + v + 1 \in Int
<1>1. ip \in Int /\ v \in Int
  BY WordIsNumber DEF CpuOK, IpOK
<1> QED
  BY <1>1

LEMMA PrefixKeeps ==
  ASSUME CpuOK, PrefixUsed
  PROVE  PrefixOK'
  BY BitIsWord DEF CpuOK, PrefixOK, PrefixUsed

LEMMA SameAuxKeeps ==
  ASSUME CpuOK, SameAux
  PROVE  PrefixOK' /\ lc' \in Word16 /\ ar' \in Word16 /\ halt' \in BOOLEAN
  BY PrefixKeeps DEF CpuOK, SameAux, AuxOK

LEMMA SameControlKeeps ==
  ASSUME CpuOK, SameControl
  PROVE  PrefixOK' /\ AuxOK' /\ RaisedOK' /\ halt' \in BOOLEAN
  BY SameAuxKeeps DEF CpuOK, SameControl, AuxOK, RaisedOK

\* The stack, which grows downwards.
LEMMA StackPointers ==
  ASSUME CpuOK
  PROVE  Cut(sp - 1) \in Word16 /\ Cut(sp + 1) \in Word16 /\ Cut(ip + 1) \in Word16 /\ Cut(lc - 1) \in Word16
<1>1. sp \in Int /\ ip \in Int /\ lc \in Int
  BY WordIsNumber DEF CpuOK, AuxOK, IpOK
<1>2. sp - 1 \in Int /\ sp + 1 \in Int /\ ip + 1 \in Int /\ lc - 1 \in Int
  BY <1>1
<1> QED
  BY <1>2, CutIsWord

LEMMA ConditionKeeps ==
  ASSUME CpuOK, NEW cond, Condition(cond)
  PROVE  RaisedOK'
  BY DEF Condition, CpuOK, RaisedOK

LEMMA RaiseKeeps ==
  ASSUME CpuOK, Raise("ins") \/ Raise("ina")
  PROVE  CpuOK'
<1>1. IpOK' /\ PrefixOK' /\ lc' \in Word16 /\ ar' \in Word16 /\ halt' \in BOOLEAN
  BY NextKeeps, SameAuxKeeps DEF Raise
<1>2. RaisedOK'
  BY DEF Raise, CpuOK, RaisedOK
<1>3. RegsOK' /\ sp' \in Word16 /\ fl' \in Flags /\ MemOK'
  BY DEF Raise, CpuOK, RegsOK, AuxOK, MemOK
<1> QED
  BY <1>1, <1>2, <1>3 DEF CpuOK, AuxOK

-----------------------------------------------------------------------------
(* What is kept by the instructions.                                         *)

LEMMA OperateKeeps ==
  ASSUME CpuOK, NEW op \in Computing, NEW b \in Word16, Operate(op, b)
  PROVE  CpuOK'
<1>1. IpOK' /\ PrefixOK' /\ AuxOK' /\ RaisedOK' /\ halt' \in BOOLEAN
  BY NextKeeps, SameControlKeeps DEF Operate
<1>2. fl' \in Flags
  BY FlagsAreFlags DEF Operate, CpuOK
<1>3. MemOK'
  BY DEF Operate, CpuOK, MemOK
<1>4. RegsOK'
  <2>1. ResultOf(op, regs[Rd], b) \in Word16
    BY OperandsAreWords, ResultIsWord
  <2>2. Rd \in 0 .. 7 /\ RegsOK
    BY FieldsOfFetched DEF CpuOK
  <2>3. UNCHANGED regs \/ Set(Rd, ResultOf(op, regs[Rd], b))
    BY DEF Operate
  <2> QED
    BY <2>1, <2>2, <2>3, SetKeeps DEF RegsOK
<1> QED
  BY <1>1, <1>2, <1>3, <1>4 DEF CpuOK

LEMMA OperateOneKeeps ==
  ASSUME CpuOK, OperateOne
  PROVE  CpuOK' /\ regs'[Rd] \in Word16
<1> DEFINE v == IF Rsrc = 6 THEN 65535 - regs[Rd] ELSE Cut(-regs[Rd])
<1>1. v \in Word16
  <2>1. regs[Rd] \in Int /\ 0 <= regs[Rd] /\ regs[Rd] <= 65535
    BY OperandsAreWords, WordIsNumber
  <2>2. 65535 - regs[Rd] \in Word16
    BY <2>1, NumberIsWord
  <2>3. Cut(-regs[Rd]) \in Word16
    BY <2>1, CutIsWord
  <2> QED
    BY <2>2, <2>3
<1>2. Set(Rd, v) /\ fl' = LogicFlags(v)
  BY DEF OperateOne
<1> HIDE DEF v
<1>3. Rd \in 0 .. 7 /\ RegsOK
  BY FieldsOfFetched DEF CpuOK
<1>4. RegsOK' /\ regs'[Rd] \in Word16
  <2>1. RegsOK'
    BY <1>1, <1>2, <1>3, SetKeeps
  <2> QED
    BY <1>3, <2>1 DEF RegsOK, Words8, Registers16
<1>5. fl' \in Flags
  BY <1>2, FlagsAreFlags DEF CpuOK
<1>6. IpOK' /\ PrefixOK' /\ AuxOK' /\ RaisedOK' /\ halt' \in BOOLEAN
  BY NextKeeps, SameControlKeeps DEF OperateOne
<1>7. MemOK'
  BY DEF OperateOne, CpuOK, MemOK
<1> QED
  BY <1>4, <1>5, <1>6, <1>7 DEF CpuOK

\* scc and mcc.
LEMMA ConditionalKeep ==
  ASSUME CpuOK, SetCondition \/ MoveCondition
  PROVE  CpuOK'
<1>1. NextIp /\ SameAux /\ UNCHANGED <<sp, fl, mem>> /\ \E cond : Condition(cond)
  BY DEF SetCondition, MoveCondition
<1>2. IpOK' /\ PrefixOK' /\ lc' \in Word16 /\ ar' \in Word16 /\ halt' \in BOOLEAN /\ RaisedOK'
  BY <1>1, NextKeeps, SameAuxKeeps, ConditionKeeps
<1>3. sp' \in Word16 /\ fl' \in Flags /\ MemOK'
  BY <1>1 DEF CpuOK, AuxOK, MemOK
<1>4. RegsOK'
  <2>1. UNCHANGED regs \/ Set(Rd, 0) \/ Set(Rd, 1) \/ Set(Rd, regs[Rsrc])
    BY DEF SetCondition, MoveCondition
  <2>2. Rd \in 0 .. 7 /\ RegsOK
    BY FieldsOfFetched DEF CpuOK
  <2> QED
    BY <2>1, <2>2, OperandsAreWords, BitIsWord, SetKeeps DEF RegsOK
<1> QED
  BY <1>2, <1>3, <1>4 DEF CpuOK, AuxOK

\* Jumps.
LEMMA JumpsKeep ==
  ASSUME CpuOK, JumpCondition \/ Jump \/ Loop
  PROVE  CpuOK'
<1>1. ip + Imm8J + 1 \in Int /\ ip + Imm11 + 1 \in Int
  BY OperandsAreWords, TargetIsNumber
<1>2. IpOK'
  <2>1. NextIp \/ Goto(ip + Imm8J + 1) \/ Goto(ip + Imm11 + 1)
    BY DEF JumpCondition, Jump, Loop
  <2> QED
    BY <1>1, <2>1, NextKeeps, GotoKeeps
<1>3. RegsOK' /\ sp' \in Word16 /\ fl' \in Flags /\ MemOK'
  <2>1. UNCHANGED <<regs, sp, fl, mem>>
    BY DEF JumpCondition, Jump, Loop, SameControl
  <2> QED
    BY <2>1 DEF CpuOK, RegsOK, AuxOK, MemOK
<1>4. PrefixOK' /\ ar' \in Word16 /\ halt' \in BOOLEAN
  <2>1. PrefixUsed /\ UNCHANGED <<ar, halt>>
    BY DEF JumpCondition, Jump, Loop, SameControl, SameAux
  <2> QED
    BY <2>1, PrefixKeeps DEF CpuOK, AuxOK
<1>5. lc' \in Word16
  BY StackPointers DEF JumpCondition, Jump, Loop, SameControl, SameAux, CpuOK, AuxOK
<1>6. RaisedOK'
  <2>1. UNCHANGED raised \/ \E cond : Condition(cond)
    BY DEF JumpCondition, Jump, Loop, SameControl
  <2> QED
    BY <2>1, ConditionKeeps DEF CpuOK, RaisedOK
<1> QED
  BY <1>2, <1>3, <1>4, <1>5, <1>6 DEF CpuOK, AuxOK

\* Calls and psh store what they put on the stack.
LEMMA PushesKeep ==
  ASSUME CpuOK, CallRegister \/ Call \/ Push
  PROVE  CpuOK'
<1> DEFINE a == Cut(sp - 1)
           v == IF Push THEN regs[Rd] ELSE Cut(ip + 1)
<1>1. a \in Word16 /\ Cut(ip + 1) \in Word16 /\ regs[Rd] \in Word16
  BY StackPointers, OperandsAreWords
<1>2. /\ sp' = a /\ SameAux /\ UNCHANGED <<regs, fl, raised>>
      /\ \/ mem' = [x \in DOMAIN mem \union {a} |-> IF x = a THEN Cut(ip + 1) ELSE mem[x]]
         \/ mem' = [x \in DOMAIN mem \union {a} |-> IF x = a THEN regs[Rd] ELSE mem[x]]
  BY DEF CallRegister, Call, CallTo, Push, Store
<1> HIDE DEF a
<1>3. MemOK'
  BY <1>1, <1>2, StoreKeeps DEF CpuOK
<1>4. IpOK'
  <2>1. NextIp \/ Goto(regs[Rd]) \/ Goto(ip + Imm11 + 1)
    BY DEF CallRegister, Call, CallTo, Push
  <2>2. regs[Rd] \in Int /\ ip + Imm11 + 1 \in Int
    BY OperandsAreWords, TargetIsNumber, WordIsNumber
  <2> QED
    BY <2>1, <2>2, NextKeeps, GotoKeeps
<1>5. PrefixOK' /\ lc' \in Word16 /\ ar' \in Word16 /\ halt' \in BOOLEAN
  BY <1>2, SameAuxKeeps
<1>6. RegsOK' /\ sp' \in Word16 /\ fl' \in Flags /\ RaisedOK'
  BY <1>1, <1>2 DEF CpuOK, RegsOK, RaisedOK
<1> QED
  BY <1>3, <1>4, <1>5, <1>6 DEF CpuOK, AuxOK

\* ret and pop.
LEMMA PopsKeep ==
  ASSUME CpuOK, Return \/ Pop
  PROVE  CpuOK'
<1>1. At(sp) \in Word16 /\ Cut(sp + 1) \in Word16
  BY ReadIsWord, StackPointers DEF CpuOK
<1>2. sp' = Cut(sp + 1) /\ SameAux /\ UNCHANGED <<fl, mem, raised>>
  BY DEF Return, Pop
<1>3. IpOK'
  <2>1. NextIp \/ Goto(At(sp))
    BY DEF Return, Pop
  <2> QED
    BY <1>1, <2>1, NextKeeps, GotoKeeps, WordIsNumber
<1>4. RegsOK'
  <2>1. UNCHANGED regs \/ Set(Rd, At(sp))
    BY DEF Return, Pop
  <2>2. Rd \in 0 .. 7 /\ RegsOK
    BY FieldsOfFetched DEF CpuOK
  <2> QED
    BY <1>1, <2>1, <2>2, SetKeeps DEF RegsOK
<1>5. PrefixOK' /\ lc' \in Word16 /\ ar' \in Word16 /\ halt' \in BOOLEAN
  BY <1>2, SameAuxKeeps
<1>6. sp' \in Word16 /\ fl' \in Flags /\ RaisedOK' /\ MemOK'
  BY <1>1, <1>2 DEF CpuOK, RaisedOK, MemOK
<1> QED
  BY <1>3, <1>4, <1>5, <1>6 DEF CpuOK, AuxOK

\* Whatever sets one register and nothing else.
LEMMA SettingKeeps ==
  ASSUME CpuOK, NEW v \in Word16, Set(Rd, v), NextIp, SameControl, UNCHANGED <<fl, mem>>
  PROVE  CpuOK'
<1>1. RegsOK'
  <2>1. Rd \in 0 .. 7 /\ RegsOK
    BY FieldsOfFetched DEF CpuOK
  <2> QED
    BY <2>1, SetKeeps
<1>2. IpOK' /\ PrefixOK' /\ AuxOK' /\ RaisedOK' /\ halt' \in BOOLEAN
  BY NextKeeps, SameControlKeeps
<1>3. fl' \in Flags /\ MemOK'
  BY DEF CpuOK, MemOK
<1> QED
  BY <1>1, <1>2, <1>3 DEF CpuOK

LEMMA StackAddressIsWord ==
  ASSUME CpuOK
  PROVE  Cut(sp + Imm8) \in Word16
<1>1. sp \in Int /\ Imm8 \in Int
  BY OperandsAreWords, WordIsNumber DEF CpuOK, AuxOK
<1>2. sp + Imm8 \in Int
  BY <1>1
<1> QED
  BY <1>2, CutIsWord

LEMMA LoadKeeps ==
  ASSUME CpuOK, Load
  PROVE  CpuOK'
<1>1. \A a : At(a) \in Word16
  BY ReadIsWord DEF CpuOK
<1>2. Set(Rd, At(regs[Rsrc])) \/ Set(Rd, At(Imm8)) \/ Set(Rd, At(Cut(sp + Imm8)))
  BY DEF Load
<1>3. NextIp /\ SameControl /\ UNCHANGED <<fl, mem>>
  BY DEF Load
<1> QED
  BY <1>1, <1>2, <1>3, SettingKeeps

LEMMA WriteKeeps ==
  ASSUME CpuOK, Write
  PROVE  CpuOK'
<1>1. regs[Rd] \in Word16 /\ regs[Rsrc] \in Word16 /\ Imm8 \in Word16 /\ Cut(sp + Imm8) \in Word16
  BY OperandsAreWords, StackAddressIsWord
<1>2. PICK a \in Word16 : Store(a, regs[Rd])
  BY <1>1 DEF Write
<1>3. MemOK'
  BY <1>1, <1>2, StoreKeeps DEF Store, CpuOK
<1>4. IpOK' /\ PrefixOK' /\ AuxOK' /\ RaisedOK' /\ halt' \in BOOLEAN
  BY NextKeeps, SameControlKeeps DEF Write
<1>5. RegsOK' /\ fl' \in Flags
  BY DEF Write, CpuOK, RegsOK
<1> QED
  BY <1>3, <1>4, <1>5 DEF CpuOK

LEMMA ReadAuxiliaryKeeps ==
  ASSUME CpuOK, ReadAuxiliary
  PROVE  CpuOK'
<1>1. CASE Rsrc \in {0, 1, 3, 4, 5}
  <2> DEFINE v == CASE Rsrc = 0 -> Cut(ip + 1) [] Rsrc = 1 -> lc [] Rsrc = 3 -> sp
                    [] Rsrc = 4 -> FlagsRead [] Rsrc = 5 -> ar
  <2>1. Cut(ip + 1) \in Word16 /\ lc \in Word16 /\ sp \in Word16 /\ FlagsRead \in Word16 /\ ar \in Word16
    BY StackPointers, FlagsReadIsWord DEF CpuOK, AuxOK
  <2>2. v \in Word16
    BY <1>1, <2>1
  <2>3. Set(Rd, v) /\ NextIp /\ SameControl /\ UNCHANGED <<fl, mem>>
    BY <1>1 DEF ReadAuxiliary
  <2> HIDE DEF v
  <2> QED
    BY <2>2, <2>3, SettingKeeps
<1>2. CASE Rsrc \notin {0, 1, 3, 4, 5}
  BY <1>2, RaiseKeeps DEF ReadAuxiliary
<1> QED
  BY <1>1, <1>2

LEMMA AuxiliaryKeeps ==
  ASSUME CpuOK, NEW v \in Word16, Auxiliary(v)
  PROVE  CpuOK'
<1>1. CASE Rd > 5
  BY <1>1, RaiseKeeps DEF Auxiliary
<1>2. CASE ~(Rd > 5)
  <2>1. IpOK'
    <3>1. v \in Int
      BY WordIsNumber
    <3> QED
      BY <1>2, <3>1, NextKeeps, GotoKeeps DEF Auxiliary
  <2>2. AuxOK'
    BY <1>2 DEF Auxiliary, CpuOK, AuxOK
  <2>3. PrefixOK'
    <3>1. (ui' = v /\ ui_modified' = TRUE) \/ PrefixUsed
      BY <1>2 DEF Auxiliary
    <3> QED
      BY <3>1, PrefixKeeps DEF PrefixOK
  <2>4. fl' \in Flags
    BY <1>2, FlagsAreFlags DEF Auxiliary, CpuOK
  <2>5. RegsOK' /\ MemOK' /\ RaisedOK' /\ halt' \in BOOLEAN
    BY <1>2 DEF Auxiliary, CpuOK, RegsOK, MemOK, RaisedOK
  <2> QED
    BY <2>1, <2>2, <2>3, <2>4, <2>5 DEF CpuOK
<1> QED
  BY <1>1, <1>2

\* What changes nothing but the place, or what a random number sets.
LEMMA PlainKeeps ==
  ASSUME CpuOK, RandomNumber \/ DoNothing \/ Halt \/ Invalid
  PROVE  CpuOK'
<1>1. CASE RandomNumber
  <2>1. PICK r \in Random : Set(Rd, r)
    BY <1>1 DEF RandomNumber
  <2>2. r \in Word16
    BY RandomAssumption
  <2>3. NextIp /\ SameControl /\ UNCHANGED <<fl, mem>>
    BY <1>1 DEF RandomNumber
  <2> QED
    BY <2>1, <2>2, <2>3, SettingKeeps
<1>2. CASE DoNothing
  <2>1. IpOK' /\ PrefixOK' /\ AuxOK' /\ RaisedOK' /\ halt' \in BOOLEAN
    BY <1>2, NextKeeps, SameControlKeeps DEF DoNothing
  <2>2. RegsOK' /\ fl' \in Flags /\ MemOK'
    BY <1>2 DEF DoNothing, CpuOK, RegsOK, MemOK
  <2> QED
    BY <2>1, <2>2 DEF CpuOK
<1>3. CASE Halt
  <2>1. PrefixOK'
    BY <1>3, PrefixKeeps DEF Halt
  <2> QED
    BY <1>3, <2>1 DEF Halt, CpuOK, RegsOK, MemOK, RaisedOK, AuxOK, IpOK
<1>4. CASE Invalid
  BY <1>4, RaiseKeeps DEF Invalid
<1> QED
  BY <1>1, <1>2, <1>3, <1>4

-----------------------------------------------------------------------------
(* The ports.                                                                *)

LEMMA DiskReadIsWord ==
  ASSUME DiskOK, NEW a
  PROVE  DriveRead(a) \in Word16
  BY BitIsWord DEF DriveRead, DiskOK

LEMMA PortReadKeeps ==
  ASSUME CpuOK, IoOK, PortRead
  PROVE  CpuOK' /\ IoOK'
<1>1. \A pid : IoRead(pid) \in Word16
  <2>1. DriveRead(disk_addr) \in Word16
    BY DiskReadIsWord DEF IoOK
  <2> QED
    BY <2>1, BitIsWord DEF IoRead, IoOK, PortsOK
<1>2. Set(Rd, IoRead(regs[Rsrc])) \/ Set(Rd, IoRead(Imm8))
  BY DEF PortRead
<1>3. NextIp /\ SameControl /\ UNCHANGED <<fl, mem, ioVars>>
  BY DEF PortRead
<1>4. CpuOK'
  BY <1>1, <1>2, <1>3, SettingKeeps
<1> QED
  BY <1>3, <1>4 DEF ioVars, IoOK, PortsOK, DiskOK

LEMMA PortWriteKeeps ==
  ASSUME CpuOK, IoOK, PortWrite
  PROVE  CpuOK' /\ IoOK'
<1>1. regs[Rd] \in Word16
  BY OperandsAreWords
<1>2. PICK pid : IoWrite(pid, regs[Rd])
  BY DEF PortWrite
<1>3. disk_addr' \in Word16
  BY <1>1, <1>2 DEF IoWrite, IoOK, PortsOK
<1>4. catalyst_info_return' \in Word16
  BY <1>2, BitIsWord DEF IoWrite, InfoAfter, IoOK, PortsOK
<1>5. DiskOK'
  BY <1>2 DEF IoWrite, IoOK, DiskOK
<1>6. IpOK' /\ PrefixOK' /\ AuxOK' /\ RaisedOK' /\ halt' \in BOOLEAN
  BY NextKeeps, SameControlKeeps DEF PortWrite
<1>7. RegsOK' /\ fl' \in Flags /\ MemOK'
  BY DEF PortWrite, CpuOK, RegsOK, MemOK
<1> QED
  BY <1>3, <1>4, <1>5, <1>6, <1>7 DEF CpuOK, IoOK, PortsOK

-----------------------------------------------------------------------------
(* The instructions together.                                                *)

LEMMA ShownIsWords ==
  ASSUME CpuOK, shown \in Seq(Word16), NEW b \in Word16,
         NEW op \in 16 .. 31, Operations[op - 15] \in Computing
  PROVE  Shown(op, b) \in Seq(Word16)
<1> DEFINE n == Operations[op - 15]
           a == regs[Rd]
<1>1. a \in Word16
  BY OperandsAreWords
<1>2. ResultOf("sub", a, b) \in Word16 /\ ResultOf(n, a, b) \in Word16
  <2>1. "sub" \in Computing
    BY DEF Computing
  <2> HIDE DEF a, n
  <2> QED
    BY <1>1, <2>1, ResultIsWord DEF n
<1>3. Shown(op, b) \in {<<ResultOf("sub", a, b), a, b>>, <<ResultOf(n, a, b)>>, shown}
  BY DEF Shown
<1> HIDE DEF a, n
<1>4. \A x, y, z \in Word16 : <<x, y, z>> \in Seq(Word16) /\ <<x>> \in Seq(Word16)
  OBVIOUS
<1> QED
  BY <1>1, <1>2, <1>3, <1>4

LEMMA OperateStepKeeps ==
  ASSUME CpuOK, shown \in Seq(Word16), OperateStep
  PROVE  CpuOK' /\ shown' \in Seq(Word16)
<1>1. Minor \in 0 .. 31 /\ Major \in 0 .. 31
  BY FieldsOfFetched
<1>2. CASE OperateRegister /\ shown' = Shown(Minor, regs[Rsrc])
  <2>1. Minor \in 16 .. 31 /\ Minor \notin {19, 21, 22, 23}
    BY <1>1, <1>2 DEF OperateRegister
  <2>2. Operations[Minor - 15] \in Computing
    BY <2>1, OperationsCompute
  <2>3. Operate(Operations[Minor - 15], regs[Rsrc])
    BY <1>2 DEF OperateRegister
  <2> QED
    BY <1>2, <2>1, <2>2, <2>3, OperateKeeps, OperandsAreWords, ShownIsWords
<1>3. CASE OperateImmediate /\ shown' = Shown(Major, Imm8)
  <2>1. Major \in 16 .. 31 /\ Major \notin {19, 21, 22, 23, 27}
    BY <1>1, <1>3 DEF OperateImmediate
  <2>2. Operations[Major - 15] \in Computing
    BY <2>1, OperationsCompute
  <2>3. Operate(Operations[Major - 15], Imm8)
    BY <1>3 DEF OperateImmediate
  <2> QED
    BY <1>3, <2>1, <2>2, <2>3, OperateKeeps, OperandsAreWords, ShownIsWords
<1>4. CASE OperateOne /\ shown' = <<regs'[Rd]>>
  <2>1. CpuOK' /\ regs'[Rd] \in Word16
    BY <1>4, OperateOneKeeps
  <2> QED
    BY <1>4, <2>1
<1> QED
  BY <1>2, <1>3, <1>4 DEF OperateStep

LEMMA FlagStepKeeps ==
  ASSUME CpuOK, shown \in Seq(Word16), FlagStep
  PROVE  CpuOK' /\ shown' \in Seq(Word16)
<1>1. Auxiliary(regs[Rsrc]) \/ Auxiliary(Imm8)
  BY DEF FlagStep, WriteAuxiliary
<1>2. shown' \in Seq(Word16)
  BY DEF FlagStep
<1> QED
  BY <1>1, <1>2, OperandsAreWords, AuxiliaryKeeps

LEMMA OtherStepKeeps ==
  ASSUME CpuOK, OtherStep
  PROVE  CpuOK'
  BY ConditionalKeep, JumpsKeep, PushesKeep, PopsKeep, LoadKeeps, WriteKeeps,
     ReadAuxiliaryKeeps, PlainKeeps DEF OtherStep

LEMMA IsaInvNext ==
  ASSUME IsaInv, [Next]_vars
  PROVE  IsaInv'
<1>1. CpuOK /\ IoOK /\ shown \in Seq(Word16)
  BY DEF IsaInv
<1>2. CASE UNCHANGED ioVars /\ (OperateStep \/ FlagStep \/ OtherStep)
  <2>1. IoOK'
    BY <1>1, <1>2 DEF ioVars, IoOK, PortsOK, DiskOK
  <2>2. CpuOK' /\ shown' \in Seq(Word16)
    <3>1. CASE OtherStep
      BY <1>1, <3>1, OtherStepKeeps DEF OtherStep
    <3> QED
      BY <1>1, <1>2, <3>1, OperateStepKeeps, FlagStepKeeps
  <2> QED
    BY <2>1, <2>2 DEF IsaInv
<1>3. CASE PortStep
  <2>1. CpuOK' /\ IoOK' /\ UNCHANGED shown
    BY <1>1, <1>3, PortReadKeeps, PortWriteKeeps DEF PortStep
  <2> QED
    BY <1>1, <2>1 DEF IsaInv
<1>4. CASE UNCHANGED vars
  BY <1>1, <1>4 DEF vars, cpuVars, ioVars, IsaInv, CpuOK, IoOK, RegsOK, AuxOK, IpOK, PrefixOK,
                    MemOK, RaisedOK, PortsOK, DiskOK
<1> QED
  BY <1>2, <1>3, <1>4 DEF Next, Step, Stopped

-----------------------------------------------------------------------------
(* The start: what sasm makes of a program is a disk of words.               *)

LEMMA ImageIsDisk ==
  ASSUME NEW job \in Jobs
  PROVE  /\ DOMAIN Image(job.program) = 0 .. Len(job.program) - 1
         /\ \A a \in 0 .. Len(job.program) - 1 :
               Image(job.program)[a] \in Word16 \union {NotHex}
<1> DEFINE p == job.program
<1>1. Len(p) \in Nat /\ \A k \in 1 .. Len(p) : Assembles(Placed(p[k], k - 1))
  BY JobsAssumption
<1> HIDE DEF p
<1>2. ASSUME NEW a \in 0 .. Len(p) - 1
      PROVE  WordOf(Placed(p[a + 1], a)) \in Word16 \union {NotHex}
  <2> DEFINE i == Placed(p[a + 1], a)
  <2>1. a + 1 \in 1 .. Len(p) /\ (a + 1) - 1 = a
    BY <1>1
  <2>2. Assembles(i)
    BY <1>1, <2>1
  <2> HIDE DEF i
  <2>3. i.name = "ddw" => WordOf(i) \in Word16 \union {NotHex}
    BY <2>2 DEF WordOf, Assembles
  <2>4. i.name # "ddw" => WordOf(i) \in Word16
    BY <2>2, EncodedIsWord DEF WordOf, Assembles
  <2> QED
    BY <2>3, <2>4 DEF i
<1>3. Image(p) = [a \in 0 .. Len(p) - 1 |-> WordOf(Placed(p[a + 1], a))]
  BY DEF Image
<1>4. DOMAIN Image(p) = 0 .. Len(p) - 1
  BY <1>3
<1>5. \A a \in 0 .. Len(p) - 1 : Image(p)[a] = WordOf(Placed(p[a + 1], a))
  BY <1>3
<1>6. \A a \in 0 .. Len(p) - 1 : Image(p)[a] \in Word16 \union {NotHex}
  BY <1>2, <1>5
<1> QED
  BY <1>4, <1>6 DEF p

LEMMA IsaInvInit ==
  ASSUME Init
  PROVE  IsaInv
<1>1. PICK job \in Jobs : Start(job)
  BY DEF Init
<1>2. DiskOK /\ DOMAIN disk \subseteq Nat
  BY <1>1, ImageIsDisk, JobsAssumption DEF Start, DiskOK
<1>3. MemOK
  <2>1. mem = [a \in {x \in DOMAIN disk : x < BootLines} |-> DriveRead(a)]
    BY <1>1 DEF Start, Loaded
  <2>2. \A x \in DOMAIN disk : x < BootLines => x \in Word16
    <3> SUFFICES ASSUME NEW x \in DOMAIN disk, x < BootLines PROVE x \in Word16
      OBVIOUS
    <3>1. BootLines \in Int /\ BootLines <= 65536
      BY BootLinesAssumption
    <3>2. x \in Nat
      BY <1>2
    <3>3. x \in Int /\ 0 <= x /\ x <= 65535
      BY <3>1, <3>2
    <3> QED
      BY <3>3, NumberIsWord
  <2>3. DOMAIN mem \subseteq Word16
    BY <2>1, <2>2
  <2>4. \A a \in DOMAIN mem : mem[a] = DriveRead(a)
    BY <2>1
  <2> QED
    BY <1>2, <2>3, <2>4, DiskReadIsWord DEF MemOK
<1>4. RegsOK
  BY <1>1, JobsAssumption DEF Start, RegsOK, Words8
<1>5. AuxOK /\ IpOK /\ PrefixOK /\ RaisedOK /\ halt \in BOOLEAN /\ PortsOK
  BY BitIsWord DEF Init, AuxOK, IpOK, PrefixOK, RaisedOK, PortsOK
<1>6. fl \in Flags /\ shown \in Seq(Word16)
  BY DEF Init, Flags
<1> QED
  BY <1>2, <1>3, <1>4, <1>5, <1>6 DEF IsaInv, CpuOK, IoOK

\* Whatever a program does, registers, memory and ports hold words of 16 bits,
\* and flags and interrupts are those there are (instruction_execute(),
\* io_read(), io_write()).
THEOREM WordsStayWords == Spec => []TypeOK
<1>1. Init => IsaInv
  BY IsaInvInit
<1>2. IsaInv /\ [Next]_vars => IsaInv'
  BY IsaInvNext
<1>3. IsaInv => TypeOK
  BY TypesOfInv DEF IsaInv, IoOK
<1> QED
  BY <1>1, <1>2, <1>3, PTL DEF Spec

-----------------------------------------------------------------------------
(* What the conditions decide.  This invariant is inductive as it stands: a  *)
(* comparison sets flags and numbers together, and what writes one of them   *)
(* otherwise forgets the numbers.                                            *)

\* The conditions for signed numbers and equality, by flags
Decide(f, a, b) ==
    /\ f.s = f.o <=> Signed16(a) >= Signed16(b)
    /\ (~f.z /\ f.s = f.o) <=> Signed16(a) > Signed16(b)
    /\ (f.z \/ f.s # f.o) <=> Signed16(a) <= Signed16(b)
    /\ f.s # f.o <=> Signed16(a) < Signed16(b)
    /\ f.z <=> a = b
    /\ ~f.z <=> a # b

\* The sign bit of a word.
LEMMA SignOfWord ==
  ASSUME NEW a \in Word16
  PROVE  Bit15(a) <=> a >= 32768
  BY DEF Word16, Bit15

\* The sign bit of a difference.
LEMMA SignOfDifference ==
  ASSUME NEW d \in Int, -65536 < d, d < 65536
  PROVE  Bit15(d) <=> (d >= 32768 \/ (d < 0 /\ d >= -32768))
<1> DEFINE q == d \div 32768
<1>1. q \in Int /\ 32768 * q <= d /\ d < 32768 * q + 32768
  OBVIOUS
<1>2. q \in {-2, -1, 0, 1}
  BY <1>1
<1>3. Bit15(d) <=> q % 2 = 1
  BY DEF Bit15
<1> HIDE DEF q
<1>4. q % 2 = 1 <=> q \in {-1, 1}
  BY <1>2
<1> QED
  BY <1>1, <1>2, <1>3, <1>4

\* The zero flag of a difference.
LEMMA ZeroOfDifference ==
  ASSUME NEW d \in Int, -65536 < d, d < 65536
  PROVE  Cut(d) = 0 <=> d = 0
  BY DEF Cut

LEMMA DifferenceBounds ==
  ASSUME NEW a \in Word16, NEW b \in Word16
  PROVE  /\ a \in Int /\ b \in Int /\ a - b \in Int /\ -65536 < a - b /\ a - b < 65536
         /\ a >= 0 /\ a < 65536 /\ b >= 0 /\ b < 65536
<1>1. a \in Int /\ a >= 0 /\ a < 65536
  BY DEF Word16
<1>2. b \in Int /\ b >= 0 /\ b < 65536
  BY DEF Word16
<1>3. a - b \in Int
  BY <1>1, <1>2
<1>4. -65536 < a - b
  BY <1>1, <1>2
<1> QED
  BY <1>1, <1>2, <1>3, <1>4

\* The numbers behind the flags.
LEMMA SignedByFlags ==
  ASSUME NEW a \in Word16, NEW b \in Word16, NEW Sg \in BOOLEAN, NEW Ov \in BOOLEAN,
         Sg <=> (a - b >= 32768 \/ (a - b < 0 /\ a - b >= -32768)),
         Ov <=> /\ ~(a >= 32768 <=> b >= 32768)
                /\ b >= 32768 <=> (a - b >= 32768 \/ (a - b < 0 /\ a - b >= -32768))
  PROVE  /\ (Sg <=> Ov) <=> Signed16(a) >= Signed16(b)
         /\ Signed16(a) \in Int /\ Signed16(b) \in Int
         /\ Signed16(a) = Signed16(b) <=> a = b
  BY DifferenceBounds DEF Signed16

\* What the flags of a difference say (instruction.cpp:287-292).
LEMMA ComparisonDecides ==
  ASSUME NEW a \in Word16, NEW b \in Word16
  PROVE  Decide(ArithmeticFlags(a - b, a, b), a, b)
<1> DEFINE f == ArithmeticFlags(a - b, a, b)
           Zero     == Cut(a - b) = 0
           Sign     == Bit15(a - b)
           Overflow == Bit15(a) # Bit15(b) /\ Bit15(b) = Bit15(a - b)
<1>1. f.s = Sign /\ f.o = Overflow /\ f.z = Zero
  BY DEF ArithmeticFlags
<1> HIDE DEF f
<1>2. Zero <=> a = b
  BY DifferenceBounds, ZeroOfDifference
<1>3. Sign <=> (a - b >= 32768 \/ (a - b < 0 /\ a - b >= -32768))
  BY DifferenceBounds, SignOfDifference
<1>4. Overflow <=> /\ ~(a >= 32768 <=> b >= 32768)
                   /\ b >= 32768 <=> (a - b >= 32768 \/ (a - b < 0 /\ a - b >= -32768))
  <2>1. (Bit15(a) # Bit15(b)) <=> ~(Bit15(a) <=> Bit15(b))
    BY DEF Bit15
  <2>2. (Bit15(b) = Bit15(a - b)) <=> (Bit15(b) <=> Bit15(a - b))
    BY DEF Bit15
  <2> QED
    BY DifferenceBounds, <2>1, <2>2, SignOfDifference, SignOfWord
<1>5. Sign \in BOOLEAN /\ Overflow \in BOOLEAN /\ Zero \in BOOLEAN
  BY DEF Bit15
<1> HIDE DEF Sign, Overflow, Zero
<1>6. (Sign <=> Overflow) <=> Signed16(a) >= Signed16(b)
  BY <1>3, <1>4, <1>5, SignedByFlags
<1>7. Signed16(a) \in Int /\ Signed16(b) \in Int /\ (Signed16(a) = Signed16(b) <=> a = b)
  BY <1>3, <1>4, <1>5, SignedByFlags
<1>8. (f.z <=> Zero) /\ (f.s = f.o <=> (Sign <=> Overflow))
  BY <1>1, <1>5
<1>9. Decide(f, a, b)
  <2>1. f.s = f.o <=> Signed16(a) >= Signed16(b)
    BY <1>6, <1>8
  <2>2. f.z <=> Signed16(a) = Signed16(b)
    BY <1>2, <1>7, <1>8
  <2>3. f.z <=> a = b
    BY <1>2, <1>8
  <2> QED
    BY <2>1, <2>2, <2>3, <1>7 DEF Decide
<1> QED
  BY <1>9 DEF f

\* A comparison or subtraction sets the flags for its operands, and nothing
\* else that computes says it compared (instruction.cpp:285-403, 511-635).
LEMMA OperateDecides ==
  ASSUME SignedConditionsDecide, NEW op, NEW b \in Word16, regs[Rd] \in Word16,
         Operate(Operations[op - 15], b), shown' = Shown(op, b)
  PROVE  SignedConditionsDecide'
<1> DEFINE n == Operations[op - 15]
           a == regs[Rd]
<1>1. fl' = FlagsAfter(n, a, b)
  BY DEF Operate
<1>2. CASE n \in {"cmp", "sub"}
  <2>1. fl' = ArithmeticFlags(a - b, a, b)
    BY <1>1, <1>2 DEF FlagsAfter, Unlimited
  <2>2. shown' = <<ResultOf("sub", a, b), a, b>>
    BY <1>2 DEF Shown
  <2>3. Decide(fl', a, b)
    BY <2>1, ComparisonDecides
  <2>4. shown'[2] = a /\ shown'[3] = b
    BY <2>2
  <2> HIDE DEF a
  <2> QED
    BY <2>3, <2>4 DEF SignedConditionsDecide, Decide, CheckCond
<1>3. CASE n = "mov"
  <2>1. fl' = fl /\ shown' = shown
    BY <1>1, <1>3 DEF FlagsAfter, Shown
  <2> QED
    BY <2>1 DEF SignedConditionsDecide, CheckCond
<1>4. CASE n \notin {"cmp", "sub", "mov"}
  <2>1. Len(shown') = 1
    BY <1>4 DEF Shown
  <2> QED
    BY <2>1 DEF SignedConditionsDecide
<1> QED
  BY <1>2, <1>3, <1>4

\* Nothing else that leaves the memory of the comparison writes the flags.
LEMMA OthersKeepFlags ==
  ASSUME OtherStep
  PROVE  UNCHANGED <<fl, shown>>
<1>1. CASE SetCondition
  BY <1>1 DEF OtherStep, SetCondition
<1>2. CASE MoveCondition
  BY <1>2 DEF OtherStep, MoveCondition
<1>3. CASE JumpCondition
  BY <1>3 DEF OtherStep, JumpCondition
<1>4. CASE Jump
  BY <1>4 DEF OtherStep, Jump
<1>5. CASE Loop
  BY <1>5 DEF OtherStep, Loop
<1>6. CASE CallRegister \/ Call
  BY <1>6 DEF OtherStep, CallRegister, Call, CallTo
<1>7. CASE Return
  BY <1>7 DEF OtherStep, Return
<1>8. CASE Push \/ Pop
  BY <1>8 DEF OtherStep, Push, Pop
<1>9. CASE Load \/ Write
  BY <1>9 DEF OtherStep, Load, Write
<1>10. CASE ReadAuxiliary
  BY <1>10 DEF OtherStep, ReadAuxiliary, Raise
<1>11. CASE RandomNumber \/ DoNothing \/ Halt \/ Invalid
  BY <1>11 DEF OtherStep, RandomNumber, DoNothing, Halt, Invalid, Raise
<1> QED
  BY <1>1, <1>2, <1>3, <1>4, <1>5, <1>6, <1>7, <1>8, <1>9, <1>10, <1>11 DEF OtherStep

\* Every step keeps what the conditions decide.
LEMMA DecidedStays ==
  ASSUME CpuOK, SignedConditionsDecide, [Next]_vars
  PROVE  SignedConditionsDecide'
<1> USE OperandsAreWords
<1>1. CASE OperateRegister /\ shown' = Shown(Minor, regs[Rsrc])
  BY <1>1, OperateDecides DEF OperateRegister
<1>2. CASE OperateImmediate /\ shown' = Shown(Major, Imm8)
  BY <1>2, OperateDecides DEF OperateImmediate
<1>3. CASE OperateOne /\ shown' = <<regs'[Rd]>>
  <2>1. Len(shown') = 1
    BY <1>3
  <2> QED
    BY <2>1 DEF SignedConditionsDecide
<1>4. CASE FlagStep
  <2>1. Len(shown') = 0 \/ (fl' = fl /\ shown' = shown)
    BY <1>4 DEF FlagStep, WriteAuxiliary, Auxiliary, Raise
  <2> QED
    BY <2>1 DEF SignedConditionsDecide, CheckCond
<1>5. CASE OtherStep
  BY <1>5, OthersKeepFlags DEF SignedConditionsDecide, CheckCond
<1>6. CASE PortStep
  BY <1>6 DEF PortStep, PortRead, PortWrite, SameControl, SignedConditionsDecide, CheckCond
<1>7. CASE UNCHANGED vars
  BY <1>7 DEF vars, cpuVars, SignedConditionsDecide, CheckCond
<1> QED
  BY <1>1, <1>2, <1>3, <1>4, <1>5, <1>6, <1>7 DEF Next, Step, Stopped, OperateStep

\* In every program that the verifier lets through, with any words in the
\* registers, the conditions behind a comparison decide what they are named for
\* (check_cond(), the flags of CMP and SUB in instruction.cpp).
THEOREM ConditionsDecide == Spec => []SignedConditionsDecide
<1>1. Init => SignedConditionsDecide
  BY DEF Init, SignedConditionsDecide
<1>2. SignedConditionsDecide /\ IsaInv /\ [Next]_vars => SignedConditionsDecide'
  BY DecidedStays DEF IsaInv
<1>3. Init => IsaInv
  BY IsaInvInit
<1>4. IsaInv /\ [Next]_vars => IsaInv'
  BY IsaInvNext
<1> QED
  BY <1>1, <1>2, <1>3, <1>4, PTL DEF Spec

-----------------------------------------------------------------------------
(* What dasm prints of the words that cosi executes.                         *)

\* The program is one of those given, from beginning to end.
ProgramOK == \E job \in Jobs : program = job.program

LEMMA ProgramStays == Spec => []ProgramOK
<1>1. Init => ProgramOK
  BY DEF Init, Start, ProgramOK
<1>2. ProgramOK /\ [Next]_vars => ProgramOK'
  BY DEF ProgramOK, Next, Step, Stopped, vars
<1> QED
  BY <1>1, <1>2, PTL DEF Spec

\* The word at the instruction pointer is the one sasm wrote there: it was
\* loaded, and the program has not written over it.
Untouched == ip < Len(program) => Fetched = Image(program)[ip]

LEMMA PlacedOperand ==
  ASSUME NEW i, Len(i.ops) \in Nat, NEW address, WellFormed(Placed(i, address)),
         i.name \in {"mlu", "mls"}, ImmediateOf(Placed(i, address)) = 0
  PROVE  i.ops[2].kind = "reg"
<1> DEFINE q == Placed(i, address)
           o == [k \in 1 .. Len(i.ops) |->
                    IF i.ops[k].kind = "label"
                    THEN Imm(RelativeTo(IF i.name \in Relative THEN address ELSE -1, i.ops[k].val))
                    ELSE i.ops[k]]
<1>1. q.name = i.name /\ q.ops = o
  BY DEF Placed, Ins
<1>2. Len(o) = Len(i.ops)
  OBVIOUS
<1>3. i.ops[2].kind = "label" /\ 2 \in 1 .. Len(i.ops) => o[2].kind = "imm"
  BY DEF Imm
<1>4. i.ops[2].kind # "label" /\ 2 \in 1 .. Len(i.ops) => o[2] = i.ops[2]
  OBVIOUS
<1> HIDE DEF q, o
<1>5. PatternTable(i.name) = <<AsReg, AsEither>>
  <2>1. i.name \in ToFirst \ {"ann"} /\ i.name # "srd"
    BY DEF ToFirst
  <2> QED
    BY <2>1, RowsOfPattern
<1>6. Len(o) = 2 /\ o[2] \in AsEither
  BY <1>1, <1>5 DEF WellFormed, q
<1>7. o[2].kind # "imm"
  <2>1. ImmediateOf(q) = 0
    BY DEF q
  <2>2. Len(q.ops) = 2 /\ q.ops[2] = o[2]
    BY <1>1, <1>6
  <2>3. q.ops[2].kind = "imm" => ImmediateOf(q) \in 1 .. 2
    BY <2>2 DEF ImmediateOf
  <2> QED
    BY <2>1, <2>2, <2>3
<1>8. o[2].kind \in {"reg", "imm"}
  BY <1>6 DEF AsEither, AsReg, AsImm
<1> QED
  BY <1>2, <1>3, <1>4, <1>6, <1>7, <1>8

LEMMA PrintedAsWritten ==
  ASSUME CpuOK, ProgramOK, Untouched
  PROVE  DasmReassembles
<1> SUFFICES ASSUME ip < Len(program)
             PROVE  LET i == program[ip + 1]
                        d == Disassembled(Fetched)
                    IN  \/ i.name \in {"mlu", "mls"} /\ i.ops[2].kind = "reg"
                        \/ i.name = "ddw"
                        \/ d.name = i.name /\ Encoded(d) = Fetched
  BY DEF DasmReassembles
<1> DEFINE i == program[ip + 1]
           q == Placed(i, ip)
<1>1. ip \in Int /\ 0 <= ip /\ Len(program) \in Nat
  BY WordIsNumber, JobsAssumption DEF CpuOK, IpOK, ProgramOK
<1>2. ip \in 0 .. Len(program) - 1 /\ ip + 1 \in 1 .. Len(program) /\ (ip + 1) - 1 = ip
  BY <1>1
<1>3. Len(i.ops) \in Nat /\ Assembles(q)
  <2>1. \A k \in 1 .. Len(program) :
           Len(program[k].ops) \in Nat /\ Assembles(Placed(program[k], k - 1))
    BY JobsAssumption DEF ProgramOK
  <2> QED
    BY <1>2, <2>1
<1>4. Fetched = WordOf(q)
  <2>1. Image(program)[ip] = WordOf(q)
    BY <1>2 DEF Image
  <2> QED
    BY <2>1 DEF Untouched
<1>5. q.name = i.name
  BY DEF Placed, Ins
<1>6. i.name \in {"mlu", "mls"} /\ ImmediateOf(q) = 0 /\ WellFormed(q) => i.ops[2].kind = "reg"
  BY <1>3, PlacedOperand
<1> HIDE DEF i, q
<1>7. CASE i.name # "ddw" /\ ~(i.name \in {"mlu", "mls"} /\ i.ops[2].kind = "reg")
  <2>1. WellFormed(q) /\ Fetched = Encoded(q)
    BY <1>3, <1>4, <1>5, <1>7 DEF Assembles, WordOf
  <2>2. Disassembled(Encoded(q)).name = q.name /\ Encoded(Disassembled(Encoded(q))) = Encoded(q)
    BY <1>5, <1>6, <1>7, <2>1, RoundTrip
  <2> QED
    BY <1>5, <2>1, <2>2 DEF i
<1> QED
  BY <1>7 DEF i

\* Wherever cosi is about to execute a word as sasm wrote it, dasm prints that
\* word as the instruction of the program, which sasm turns into the word again;
\* but for mlu and mls of registers and words written out (code_gen(),
\* disassemble()).  For every program that the verifier lets through.
THEOREM WordsArePrinted == Spec => [](Untouched => DasmReassembles)
<1>1. IsaInv /\ ProgramOK => (Untouched => DasmReassembles)
  BY PrintedAsWritten DEF IsaInv
<1>2. Init => IsaInv
  BY IsaInvInit
<1>3. IsaInv /\ [Next]_vars => IsaInv'
  BY IsaInvNext
<1> QED
  BY <1>1, <1>2, <1>3, ProgramStays, PTL DEF Spec
=============================================================================
