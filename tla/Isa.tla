--------------------------------- MODULE Isa ---------------------------------
(***************************************************************************)
(* One instruction set in three programs: sasm encodes a program, cosi     *)
(* executes the words, dasm prints them.  The programs are compared with   *)
(* what the program means as it is written (WrittenProgram).               *)
(***************************************************************************)
EXTENDS Processor, Disassembler

CONSTANT Jobs       \* programs with what the registers are when they start

VARIABLES
    program,        \* the instructions, with labels as addresses
    shown           \* what flags are about: a result, and the operands if they were compared

vars == <<cpuVars, ioVars, program, shown>>

-----------------------------------------------------------------------------

Lab(a) == [kind |-> "label", val |-> a]

\* Labels as get_value() gives them to the instruction at that address.
Placed(i, address) ==
    Ins(i.name, i.cond, [k \in 1 .. Len(i.ops) |->
        IF i.ops[k].kind = "label"
        THEN Imm(RelativeTo(IF i.name \in Relative THEN address ELSE -1, i.ops[k].val))
        ELSE i.ops[k]])

\* The file that sasm writes is the disk of cosi.
WordOf(i) == IF i.name = "ddw" THEN i.ops[1].val ELSE Encoded(i)
Image(p)  == [a \in 0 .. Len(p) - 1 |-> WordOf(Placed(p[a + 1], a))]

\* The programs are those that the verifier lets through, and words written
\* out, of which lines that are no number are one more.
Assembles(i) == IF i.name = "ddw" THEN Len(i.ops) = 1 /\ i.ops[1].val \in Word16 \union {NotHex}
                ELSE WellFormed(i)
ASSUME JobsAssumption ==
    \A job \in Jobs :
        /\ job.regs \in [Registers16 -> Word16]
        /\ Len(job.program) \in Nat
        /\ \A k \in 1 .. Len(job.program) :
              Len(job.program[k].ops) \in Nat /\ Assembles(Placed(job.program[k], k - 1))

\* The registers may hold what instructions before these left in them.
Start(job) ==
    /\ program = job.program /\ regs = job.regs
    /\ disk = Image(job.program) /\ mem = Loaded

Init ==
    /\ \E job \in Jobs : Start(job)
    /\ ip = 0 /\ sp = 0 /\ lc = 0 /\ ar = 0 /\ ui = 0 /\ ui_modified = FALSE
    /\ fl = [d |-> FALSE, s |-> FALSE, o |-> FALSE, c |-> FALSE, z |-> FALSE]
    /\ disk_addr = 0 /\ catalyst_info_return = 0
    /\ halt = FALSE /\ raised = {} /\ shown = <<>>

\* What flags are about after an instruction that computes, by its last bits.
Shown(op, b) == IF Operations[op - 15] \in {"cmp", "sub"}
                THEN <<ResultOf("sub", regs[Rd], b), regs[Rd], b>>
                ELSE IF Operations[op - 15] = "mov" THEN shown
                ELSE <<ResultOf(Operations[op - 15], regs[Rd], b)>>

OperateStep ==
    \/ OperateRegister /\ shown' = Shown(Minor, regs[Rsrc])
    \/ OperateImmediate /\ shown' = Shown(Major, Imm8)
    \/ OperateOne /\ shown' = <<regs'[Rd]>>

FlagStep == WriteAuxiliary /\ shown' = IF Rd = 4 THEN <<>> ELSE shown

OtherStep ==
    /\ \/ SetCondition \/ MoveCondition \/ JumpCondition \/ Jump \/ Loop
       \/ CallRegister \/ Call \/ Return \/ Push \/ Pop
       \/ Load \/ Write \/ ReadAuxiliary
       \/ RandomNumber \/ DoNothing \/ Halt \/ Invalid
    /\ UNCHANGED shown

PortStep == (PortRead \/ PortWrite) /\ UNCHANGED shown

Step    == /\ \/ (OperateStep \/ FlagStep \/ OtherStep) /\ UNCHANGED ioVars
              \/ PortStep
           /\ UNCHANGED program
Stopped == halt /\ UNCHANGED vars
Next    == Step \/ Stopped

\* main() executes one instruction after the other.
Spec == Init /\ [][Next]_vars /\ WF_vars(Step)

-----------------------------------------------------------------------------
(* Properties.                                                               *)

\* Registers, ports and memory hold words of 16 bits.
TypeOK ==
    /\ regs \in [Registers16 -> Word16]
    /\ {ip, sp, lc, ar, ui} \subseteq Word16
    /\ ui_modified \in BOOLEAN /\ halt \in BOOLEAN
    /\ fl \in Flags
    /\ DOMAIN mem \subseteq Word16 /\ \A a \in DOMAIN mem : mem[a] \in Word16
    /\ {disk_addr, catalyst_info_return} \subseteq Word16
    /\ raised \subseteq {"ins", "ina"}
    /\ shown \in Seq(Word16)

\* After a comparison or subtraction, however many instructions that leave the
\* flags alone come between, the conditions for numbers with a sign and those
\* for equality decide what their names say of the two numbers, also where the
\* difference overflows (check_cond() and the flags of CMP and SUB).
SignedConditionsDecide ==
    Len(shown) = 3 =>
        LET a == Signed16(shown[2])
            b == Signed16(shown[3])
        IN  /\ CheckCond(3) <=> a >= b
            /\ CheckCond(4) <=> a > b
            /\ CheckCond(5) <=> a <= b
            /\ CheckCond(6) <=> a < b
            /\ CheckCond(13) <=> a = b
            /\ CheckCond(10) <=> a # b

\* So do those for numbers without a sign, says documentation/ISA.txt:1238-1245;
\* g30t01.sasm and os.sasm rely on it.
UnsignedConditionsDecide ==
    Len(shown) = 3 =>
        /\ CheckCond(0) <=> shown[2] > shown[3]
        /\ CheckCond(1) <=> shown[2] <= shown[3]
        /\ CheckCond(2) <=> shown[2] >= shown[3]
        /\ CheckCond(7) <=> shown[2] < shown[3]

\* What dasm prints of a word that sasm made and cosi is about to execute is an
\* instruction of that name, which sasm turns into that word again.  Not so for
\* mlu and mls of registers, which dasm calls mul and INVALID.
DasmReassembles ==
    ip < Len(program) =>
        LET i == program[ip + 1]
            d == Disassembled(Fetched)
        IN  \/ i.name \in {"mlu", "mls"} /\ i.ops[2].kind = "reg"
            \/ i.name = "ddw"
            \/ d.name = i.name /\ Encoded(d) = Fetched

\* What cosi does with the words of sasm is what the program says: operands in
\* the right places and of the right size, with and without a prefix, jumps and
\* calls to their labels, conditions that agree with the numbers compared.
Written == INSTANCE WrittenProgram WITH prefix <- IF ui_modified THEN ui ELSE -1,
               place <- disk_addr, answer <- catalyst_info_return
ImplementsWritten == Written!Spec

\* Every program of the instance comes to its hlt: loops count down and calls
\* come back.
Terminates == <>halt
=============================================================================
