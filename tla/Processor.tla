------------------------------ MODULE Processor ------------------------------
(***************************************************************************)
(* instruction_execute() of cosi (simulator/src/instruction.cpp), as far   *)
(* as it works on registers and memory: all privileges are there and       *)
(* translation is off, as reset leaves them.  What happens with control    *)
(* registers, privileges and interrupts is in Cosi; irt, int, crd and cwr  *)
(* have no step here.                                                      *)
(*                                                                         *)
(* Memory is the words that were loaded or written; the others are 0.      *)
(***************************************************************************)
EXTENDS Io

CONSTANT Random     \* what rand() may return
ASSUME RandomAssumption == Random \subseteq Word16 /\ Random # {}

VARIABLES regs, ip, sp, lc, ar, ui, ui_modified, fl, mem, halt,
          raised        \* the interrupt_ flags that instructions set

cpuVars == <<regs, ip, sp, lc, ar, ui, ui_modified, fl, mem, halt, raised>>

Registers16 == 0 .. 7
Flags == [d : BOOLEAN, s : BOOLEAN, o : BOOLEAN, c : BOOLEAN, z : BOOLEAN]
CutNothing(v) == v        \* a fault of Cut
Cut(v) == v % 65536

-----------------------------------------------------------------------------
(* Decoding.                                                                 *)

At(a)    == IF a \in DOMAIN mem THEN mem[a] ELSE 0
Fetched  == At(ip)
Major    == Fetched \div 2048
Minor    == Fetched % 32
Rd       == (Fetched \div 32) % 8
Rsrc     == (Fetched \div 256) % 8

\* A prefix replaces all bits above the lower 8, of every format.
ExtendedUi(v, else) == IF ui_modified THEN Cut((256 * ui) + (v % 256)) ELSE else
Imm8  == LET v == (32 * Rsrc) + Minor IN ExtendedUi(v, v)
Imm11 == LET v == Fetched % 2048 IN ExtendedUi(v, Cut(Signed(v, 11)))
Imm8J == LET v == Fetched % 256  IN ExtendedUi(v, Cut(Signed(v, 8)))

Bit(v, n) == (v \div 2^n) % 2 = 1
Bit15(v)  == (v \div 32768) % 2 = 1
Bit16(v)  == (v \div 65536) % 2 = 1
FlagBit(b, n) == IF b THEN 2^n ELSE 0
FlagsRead == FlagBit(fl.d, 4) + FlagBit(fl.s, 3) + FlagBit(fl.o, 2) + FlagBit(fl.c, 1) + FlagBit(fl.z, 0)
FlagsOf(v) == [d |-> Bit(v, 4), s |-> Bit(v, 3), o |-> Bit(v, 2), c |-> Bit(v, 1), z |-> Bit(v, 0)]

\* check_cond(), for conditions that do not raise
CheckCond(cond) ==
    CASE cond = 0  -> fl.c /\ ~fl.z
      [] cond = 1  -> ~fl.c \/ fl.z
      [] cond = 2  -> fl.c
      [] cond = 3  -> fl.s = fl.o
      [] cond = 4  -> ~fl.z /\ fl.s = fl.o
      [] cond = 5  -> fl.z \/ fl.s # fl.o
      [] cond = 6  -> fl.s # fl.o
      [] cond = 7  -> ~fl.c
      [] cond = 8  -> ~fl.o
      [] cond = 9  -> ~fl.s
      [] cond = 10 -> ~fl.z
      [] cond = 11 -> fl.o
      [] cond = 12 -> fl.s
      [] cond = 13 -> fl.z
      [] OTHER     -> FALSE
Condition(cond) == raised' = (IF cond > 13 THEN raised \union {"ina"} ELSE raised)

-----------------------------------------------------------------------------
(* Arithmetic, by the last four bits of the opcode, which are the same in    *)
(* both forms.                                                               *)

Operations == <<"mlu", "cmp", "tst", "none", "mov", "none", "none", "none",
                "add", "sub", "and", "ann", "orr", "xor", "shl", "shr">>

\* The products fit into the numbers of TLC.
Product(a, b) == Cut(((a % 256) * b) + (256 * (((a \div 256) * b) % 256)))

\* As uint32_t, of which the sign is behind bit 16.
Unlimited(op, a, b) == IF op = "add" THEN a + b ELSE a - b

ResultOf(op, a, b) ==
    CASE op = "mlu" -> Product(a, b)
      [] op \in {"add", "sub", "cmp"} -> Cut(Unlimited(op, a, b))
      [] op \in {"and", "tst"} -> BitAnd(a, b)
      [] op = "ann" -> BitAnd(a, 65535 - b)
      [] op = "orr" -> BitOr(a, b)
      [] op = "xor" -> BitXor(a, b)
      [] op = "mov" -> b
      [] op = "shl" -> IF b >= 16 THEN 0 ELSE Cut(a * 2^b)
      [] op = "shr" -> IF b >= 16 THEN 0 ELSE a \div 2^b

LogicFlags(v) == [fl EXCEPT !.s = Bit15(v), !.z = (v = 0)]

\* A fault of ArithmeticFlags: no overflow
ArithmeticFlagsNoOverflow(res, a, b) ==
    [d |-> fl.d, s |-> Bit15(res), o |-> FALSE, c |-> Bit16(res), z |-> Cut(res) = 0]
\* The overflow is where a and b differ in the sign, and b and the result do not.
ArithmeticFlags(res, a, b) ==
    [d |-> fl.d, s |-> Bit15(res),
     o |-> Bit15(a) # Bit15(b) /\ Bit15(b) = Bit15(res),
     c |-> Bit16(res), z |-> Cut(res) = 0]

FlagsAfter(op, a, b) ==
    CASE op = "mov" -> fl
      [] op \in {"add", "sub", "cmp"} -> ArithmeticFlags(Unlimited(op, a, b), a, b)
      [] OTHER -> LogicFlags(ResultOf(op, a, b))

-----------------------------------------------------------------------------
(* What instructions do: the prefix is used up, unless it is written.        *)

Ready == ~halt
Set(r, v)    == regs' = [regs EXCEPT ![r] = v]
Store(a, v)  == mem' = [x \in DOMAIN mem \union {a} |-> IF x = a THEN v ELSE mem[x]]
Goto(a)      == ip' = Cut(a)
NextIp       == ip' = Cut(ip + 1)
PrefixUsed   == ui' = (IF ui_modified THEN ui ELSE 0) /\ ui_modified' = FALSE
SameAux      == PrefixUsed /\ UNCHANGED <<lc, ar, halt>>
SameControl  == SameAux /\ UNCHANGED <<sp, raised>>

Operate(op, b) ==
    /\ LET a == regs[Rd]
       IN  /\ fl' = FlagsAfter(op, a, b)
           /\ IF op \in {"cmp", "tst"} THEN UNCHANGED regs ELSE Set(Rd, ResultOf(op, a, b))
    /\ NextIp /\ SameControl /\ UNCHANGED mem

OperateRegister ==
    /\ Ready /\ Major = 0 /\ Minor >= 16 /\ Minor \notin {19, 21, 22, 23}
    /\ Operate(Operations[Minor - 15], regs[Rsrc])

OperateImmediate ==
    /\ Ready /\ Major >= 16 /\ Major \notin {19, 21, 22, 23, 27}
    /\ Operate(Operations[Major - 15], Imm8)

\* not, neg
OperateOne ==
    /\ Ready /\ Major = 0 /\ Minor = 6 /\ Rsrc \in {6, 7}
    /\ LET v == IF Rsrc = 6 THEN 65535 - regs[Rd] ELSE Cut(-regs[Rd])
       IN  Set(Rd, v) /\ fl' = LogicFlags(v)
    /\ NextIp /\ SameControl /\ UNCHANGED mem

SetCondition ==
    /\ Ready /\ Major = 0 /\ Minor \in {1, 23}
    /\ LET cond == Rsrc + (IF Minor = 23 THEN 8 ELSE 0)
       IN  Set(Rd, IF CheckCond(cond) THEN 1 ELSE 0) /\ Condition(cond)
    /\ NextIp /\ SameAux /\ UNCHANGED <<sp, fl, mem>>

MoveCondition ==
    /\ Ready /\ Major \in {22, 23}
    /\ LET cond == (8 * (Major % 2)) + ((Fetched \div 2) % 8)
       IN  (IF CheckCond(cond) THEN Set(Rd, regs[Rsrc]) ELSE UNCHANGED regs) /\ Condition(cond)
    /\ NextIp /\ SameAux /\ UNCHANGED <<sp, fl, mem>>

JumpCondition ==
    /\ Ready /\ Major \in {4, 5}
    /\ LET cond == (Fetched \div 256) % 16
       IN  (IF CheckCond(cond) THEN Goto(ip + Imm8J + 1) ELSE NextIp) /\ Condition(cond)
    /\ SameAux /\ UNCHANGED <<regs, sp, fl, mem>>

Jump ==
    /\ Ready /\ Major = 10
    /\ Goto(ip + Imm11 + 1)
    /\ SameControl /\ UNCHANGED <<regs, fl, mem>>

\* A fault of Loop: the count is not kept
LoopForever ==
    /\ Ready /\ Major = 3 /\ Rsrc >= 5
    /\ IF Cut(lc - 1) # 0 THEN Goto(ip + Imm8J + 1) ELSE NextIp
    /\ SameAux /\ UNCHANGED <<regs, sp, fl, mem, raised>>
\* lop; the two opcodes before it, which are invalid, fall into it.
Loop ==
    /\ Ready /\ Major = 3 /\ Rsrc >= 5
    /\ lc' = Cut(lc - 1)
    /\ IF lc' # 0 THEN Goto(ip + Imm8J + 1) ELSE NextIp
    /\ PrefixUsed /\ UNCHANGED <<regs, sp, ar, fl, mem, halt, raised>>

CallTo(a) ==
    /\ sp' = Cut(sp - 1) /\ Store(sp', Cut(ip + 1)) /\ Goto(a)
    /\ SameAux /\ UNCHANGED <<regs, fl, raised>>

CallRegister == Ready /\ Major = 0 /\ Minor = 6 /\ Rsrc = 4 /\ CallTo(regs[Rd])
Call         == Ready /\ Major = 21 /\ CallTo(ip + Imm11 + 1)

Return ==
    /\ Ready /\ Major = 0 /\ Minor = 6 /\ Rsrc = 5
    /\ Goto(At(sp)) /\ sp' = Cut(sp + 1)
    /\ SameAux /\ UNCHANGED <<regs, fl, mem, raised>>

Push ==
    /\ Ready /\ Major = 0 /\ Minor = 6 /\ Rsrc = 2
    /\ sp' = Cut(sp - 1) /\ Store(sp', regs[Rd])
    /\ NextIp /\ SameAux /\ UNCHANGED <<regs, fl, raised>>

Pop ==
    /\ Ready /\ Major = 0 /\ Minor = 6 /\ Rsrc = 3
    /\ Set(Rd, At(sp)) /\ sp' = Cut(sp + 1)
    /\ NextIp /\ SameAux /\ UNCHANGED <<fl, mem, raised>>

\* mrd, srd
Load ==
    /\ Ready
    /\ \/ Major = 0 /\ Minor = 12 /\ Set(Rd, At(regs[Rsrc]))
       \/ Major = 12 /\ Set(Rd, At(Imm8))
       \/ Major = 14 /\ Set(Rd, At(Cut(sp + Imm8)))
    /\ NextIp /\ SameControl /\ UNCHANGED <<fl, mem>>

\* mwr, swr
Write ==
    /\ Ready
    /\ \/ Major = 0 /\ Minor = 13 /\ Store(regs[Rsrc], regs[Rd])
       \/ Major = 13 /\ Store(Imm8, regs[Rd])
       \/ Major = 15 /\ Store(Cut(sp + Imm8), regs[Rd])
    /\ NextIp /\ SameControl /\ UNCHANGED <<regs, fl>>

Raise(interrupt) ==
    /\ raised' = raised \union {interrupt}
    /\ NextIp /\ SameAux /\ UNCHANGED <<regs, sp, fl, mem>>

\* xrd; ui cannot be read.
ReadAuxiliary ==
    /\ Ready /\ Major = 0 /\ Minor = 10
    /\ IF Rsrc \in {0, 1, 3, 4, 5}
       THEN /\ Set(Rd, CASE Rsrc = 0 -> Cut(ip + 1) [] Rsrc = 1 -> lc [] Rsrc = 3 -> sp
                         [] Rsrc = 4 -> FlagsRead [] Rsrc = 5 -> ar)
            /\ NextIp /\ SameControl /\ UNCHANGED <<fl, mem>>
       ELSE Raise("ina")

\* xwr of a value.
Auxiliary(v) ==
    IF Rd > 5 THEN Raise("ina")
    ELSE /\ IF Rd = 0 THEN Goto(v) ELSE NextIp
         /\ lc' = (IF Rd = 1 THEN v ELSE lc)
         /\ IF Rd = 2 THEN ui' = v /\ ui_modified' = TRUE ELSE PrefixUsed
         /\ sp' = (IF Rd = 3 THEN v ELSE sp)
         /\ fl' = (IF Rd = 4 THEN FlagsOf(v) ELSE fl)
         /\ ar' = (IF Rd = 5 THEN v ELSE ar)
         /\ UNCHANGED <<regs, mem, halt, raised>>

WriteAuxiliary ==
    /\ Ready
    /\ \/ Major = 0 /\ Minor = 11 /\ Auxiliary(regs[Rsrc])
       \/ Major = 11 /\ Auxiliary(Imm8)

PortRead ==
    /\ Ready
    /\ \/ Major = 0 /\ Minor = 8 /\ Set(Rd, IoRead(regs[Rsrc]))
       \/ Major = 8 /\ Set(Rd, IoRead(Imm8))
    /\ NextIp /\ SameControl /\ UNCHANGED <<fl, mem, ioVars>>

PortWrite ==
    /\ Ready
    /\ \/ Major = 0 /\ Minor = 9 /\ IoWrite(regs[Rsrc], regs[Rd])
       \/ Major = 9 /\ IoWrite(Imm8, regs[Rd])
    /\ NextIp /\ SameControl /\ UNCHANGED <<regs, fl, mem>>

RandomNumber ==
    /\ Ready /\ Major = 0 /\ Minor = 6 /\ Rsrc = 1
    /\ \E r \in Random : Set(Rd, r)
    /\ NextIp /\ SameControl /\ UNCHANGED <<fl, mem>>

\* nop, prf and the opcodes reserved for hints
DoNothing ==
    /\ Ready
    /\ \/ Major = 0 /\ Minor = 4 /\ Rsrc \in {4, 5}
       \/ Major = 0 /\ Minor = 6 /\ Rsrc = 0
       \/ Major = 0 /\ Minor = 7 /\ Rsrc \in 0 .. 4
       \/ Major = 3 /\ Rsrc \in 0 .. 4
    /\ NextIp /\ SameControl /\ UNCHANGED <<regs, fl, mem>>

Halt ==
    /\ Ready /\ Major = 0 /\ Minor = 4 /\ Rsrc = 1
    /\ halt' = TRUE
    /\ PrefixUsed /\ UNCHANGED <<regs, ip, sp, lc, ar, fl, mem, raised>>

\* No instruction, or one of an extension that cosi does not have (dvu, dvs, mls).
Invalid ==
    /\ Ready
    /\ \/ Major = 0 /\ Minor \in {0, 2, 3, 5, 14, 15, 19}
       \/ Major = 0 /\ Minor = 4 /\ Rsrc \in {2, 3, 6, 7}
       \/ Major = 0 /\ Minor = 7 /\ Rsrc \in 5 .. 7
       \/ Major \in {1, 6, 7, 19, 27}
       \/ Major = 2 /\ Rsrc \notin {0, 2, 3}
    /\ Raise("ins")
=============================================================================
