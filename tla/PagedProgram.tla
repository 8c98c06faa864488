---------------------------- MODULE PagedProgram ----------------------------
(***************************************************************************)
(* What helium promises to a program: instructions are carried out one by  *)
(* one, on memory that is seen through the page table.  There is no tlb,   *)
(* no microcode, no cycle and no bus here.  The instructions are those of  *)
(* the decoder, and each action is a kind of them.  The stack, interrupts  *)
(* and privileges are as ISA.txt has them, with the numbers that helium    *)
(* gives to interrupts, handlers and registers for the system; calls keep  *)
(* their return address in LR, as the programs for helium expect.          *)
(*                                                                         *)
(* It promises this to programs that keep to the rules: they flush after   *)
(* a change of the page table, access what it allows, and have the pages   *)
(* of their handlers in it.                                                *)
(***************************************************************************)
EXTENDS HeliumUnits

CONSTANT Programs       \* contents of memory to start with: address -> word

VARIABLES
    started,            \* microcode has made the machine ready
    handling,           \* an interrupt handler is running
    pc,                 \* of the handler while it runs, else of the program
    ui,                 \* the prefix for each of them
    regs,
    ext,                \* LR (2), SP (3), OF (4) and FL (5)
    mem,                \* address -> word, the others are 0
    table,              \* where the page table is
    tag,                \* the pid that the program has chosen
    paging,
    privileged, int_en,
    cause, back,        \* of the last interrupt, where irt goes
    saved,              \* privilege and flags, that irt restores
    ports

vars == <<started, handling, pc, ui, regs, ext, mem, table, tag, paging, privileged, int_en,
          cause, back, saved, ports>>
system == <<table, tag, paging, privileged, int_en, cause, back, saved>>

At(a)   == WordAt(mem, a)
Entry(v) == At(Low(table + (v \div 2048), 16))
Place(v) == IF paging THEN (2048 * (Entry(v) % 32)) + (v % 2048) ELSE v
Absent(v) == paging /\ ~handling /\ ~Bit(Entry(v), 15)

Init ==
    /\ mem \in Programs
    /\ started = FALSE /\ handling = FALSE /\ pc = 0 /\ ui = [h \in BOOLEAN |-> 0]
    /\ regs = [r \in 0 .. 7 |-> 0] /\ ext = [r \in 2 .. 5 |-> 0]
    /\ table = 0 /\ tag = 0 /\ paging = FALSE
    /\ privileged = TRUE /\ int_en = FALSE
    /\ cause = 0 /\ back = 0 /\ saved = [privileged |-> TRUE, flags |-> 0]
    /\ ports = [p \in 0 .. 4 |-> 0]

\* Microcode shows the first word of memory on the LEDs and leaves it behind.
Start ==
    /\ ~started /\ started' = TRUE
    /\ regs' = [regs EXCEPT ![0] = 1, ![1] = At(0)]
    /\ ports' = [ports EXCEPT ![0] = At(0)]
    /\ UNCHANGED <<handling, pc, ui, ext, mem, system>>

-----------------------------------------------------------------------------
(* The instruction at pc and its operands.                                   *)

Word     == At(Place(pc))
On(line) == line \in Controls(FALSE, Word)
Dest     == Rf(FALSE, Word)
Source   == Rs(FALSE, Word)
Imm      == (256 * Low(ui[handling], 8)) + Low(Unextended(FALSE, Word), 8)
Op0      == regs[Dest]
Op1      == IF On("iim") THEN Imm ELSE regs[Source]
Result   == Result17(AluOp(FALSE, Word), Op0, Op1)
Asks(bit) == Low(Imm, 5) = 31 /\ Bit(Op0, bit)

\* SP points to the top of the stack, which grows down.
Pushed   == (ext[3] - 1) % 65536
Popped   == Low(ext[3] + 1, 16)

Address  == IF On("psh") THEN Pushed
            ELSE IF On("pop") THEN ext[3]
            ELSE IF On("off") THEN Low(Op1 + ext[4], 16) ELSE Op1
Touches  == On("mrd") \/ On("mwr")
Faults   == Absent(pc) \/ (Touches /\ Absent(Address))

\* The column of the decoder's ROMs for it, access to ports, and the interrupts
\* that are not there for programs to ask for.
NeedsPrivilege == \/ \E line \in {"irt", "pxr", "pxw", "prd", "pwr"} : On(line)
                  \/ On("int") /\ Low(Imm, 8) < 128
Violates == ~privileged /\ NeedsPrivilege

\* Registers 12 to 14 tell more of an interrupt, of which nothing is promised.
Unknown  == On("pxr") /\ Low(Imm, 5) \in 12 .. 14

Runs     == started /\ ~Faults /\ ~(On("hlt") /\ ~On("ien")) /\ ~Unknown
Kind(S)  == Runs /\ \A line \in {"mrd", "mwr", "pxw", "jmp", "ret", "xwr", "irt"} : On(line) <=> line \in S
Ordinary(S) == Kind(S) /\ ~Violates /\ ~((On("inv") \/ On("int")) /\ int_en)

Following == Low(pc + 1, 16)
Plain     == ui' = [ui EXCEPT ![handling] = 0]
Goes(to)  == pc' = to /\ UNCHANGED <<started, handling, system>>

-----------------------------------------------------------------------------

\* Registers from registers, immediates, the ALU and ports.
Compute ==
    /\ Ordinary({})
    /\ regs' = IF ~On("rwr") THEN regs
               ELSE [regs EXCEPT ![Dest] =
                        IF On("prd") THEN \hBEEF
                        ELSE IF On("pxr") THEN
                            CASE Low(Imm, 5) = 0 -> tag [] Low(Imm, 5) = 1 -> table
                              [] Low(Imm, 5) = 2 -> \h40 [] Low(Imm, 5) = 3 -> 1
                              [] Low(Imm, 5) = 10 -> cause [] Low(Imm, 5) = 11 -> back
                              [] OTHER -> 0
                        ELSE IF On("xrd") THEN
                            IF Source = 0 THEN Following ELSE IF Source \in 2 .. 5 THEN ext[Source] ELSE 0
                        ELSE IF On("alu") THEN Low(Result, 16)
                        ELSE Op1]
    /\ ext' = IF On("fwr") THEN [ext EXCEPT ![5] = FlagsOf17(AluOp(FALSE, Word), Op0, Op1, Result)] ELSE ext
    /\ ports' = IF On("pwr") /\ Op1 \in 0 .. 4 THEN [ports EXCEPT ![Op1] = Op0] ELSE ports
    /\ Plain /\ Goes(Following) /\ UNCHANGED mem

Load ==
    /\ Ordinary({"mrd"})
    /\ regs' = [regs EXCEPT ![Dest] = At(Place(Address))]
    /\ ext' = IF On("pop") THEN [ext EXCEPT ![3] = Popped] ELSE ext
    /\ Plain /\ Goes(Following) /\ UNCHANGED <<mem, ports>>

Store ==
    /\ Ordinary({"mwr"})
    /\ LET a == Place(Address)
       IN  mem' = [x \in DOMAIN mem \union {a} |-> IF x = a THEN Op0 ELSE mem[x]]
    /\ ext' = IF On("psh") THEN [ext EXCEPT ![3] = Pushed] ELSE ext
    /\ Plain /\ Goes(Following) /\ UNCHANGED <<regs, ports>>

\* A jump, a call when the line is on.
Jump ==
    /\ Ordinary({"jmp"})
    /\ Goes(IF ~ShouldJump(Controls(FALSE, Word), JumpFlags(FALSE, Word), ext[5]) THEN Following
            ELSE IF On("iim") THEN Low(Following + Extended(FALSE, Word), 16) ELSE Op0)
    /\ ext' = IF On("cal") THEN [ext EXCEPT ![2] = Following] ELSE ext
    /\ Plain /\ UNCHANGED <<regs, mem, ports>>

Return ==
    /\ Ordinary({"ret"})
    /\ Goes(ext[2])
    /\ ext' = [ext EXCEPT ![5] = RetFlags(Word)]
    /\ Plain /\ UNCHANGED <<regs, mem, ports>>

\* Register 0 is where to go on, 1 the prefix of the next instruction.
SetExternal ==
    /\ Ordinary({"xwr"})
    /\ Goes(IF Dest = 0 THEN Op1 ELSE Following)
    /\ ext' = IF Dest \in 2 .. 5 THEN [ext EXCEPT ![Dest] = Op1] ELSE ext
    /\ ui' = [ui EXCEPT ![handling] = IF Dest = 1 THEN Op1 ELSE 0]
    /\ UNCHANGED <<regs, mem, ports>>

-----------------------------------------------------------------------------
(* The system.                                                               *)

SetSystem ==
    /\ Ordinary({"pxw"})
    /\ tag'   = IF Low(Imm, 5) = 0 THEN Op0 ELSE tag
    /\ table' = IF Low(Imm, 5) = 1 THEN Op0 ELSE table
    /\ cause' = IF Low(Imm, 5) = 10 THEN Op0 ELSE cause
    /\ back'  = IF Low(Imm, 5) = 11 THEN Op0 ELSE back
    /\ paging' = (paging \/ Asks(0))
    /\ privileged' = (privileged /\ ~Asks(2))
    /\ int_en' = (~Asks(5) /\ (int_en \/ Asks(4)))
    \* a handler that enables interrupts is one no more
    /\ handling' = (handling /\ ~int_en')
    /\ pc' = Following /\ Plain
    /\ UNCHANGED <<started, regs, ext, mem, saved, ports>>

\* The handler of id is entered, to return to an address.
Enter(id, to) ==
    /\ cause' = id /\ back' = to /\ saved' = [privileged |-> privileged, flags |-> ext[5]]
    /\ pc' = \h0200 + (2 * id)
    /\ handling' = TRUE /\ int_en' = FALSE /\ privileged' = TRUE
    /\ UNCHANGED <<started, regs, ext, mem, table, tag, paging, ports>>

\* An instruction that asks for an interrupt, is none, or needs a privilege that
\* is not there.  The handler returns to the instruction after it.
Interrupt ==
    /\ Runs /\ int_en /\ (On("inv") \/ On("int") \/ Violates)
    /\ Enter(IF Violates THEN 2 ELSE IF On("inv") THEN 6 ELSE Low(Imm, 8), Following)
    /\ Plain

\* The page is not there.  The instruction leaves no trace, and is the one that
\* the handler returns to.
PageFault ==
    /\ started /\ Faults /\ int_en
    /\ Enter(1, pc)
    /\ UNCHANGED ui

InterruptReturn ==
    /\ Ordinary({"irt"}) /\ handling
    /\ handling' = FALSE /\ int_en' = TRUE /\ privileged' = saved.privileged
    /\ pc' = back /\ ext' = [ext EXCEPT ![5] = saved.flags] /\ Plain
    /\ UNCHANGED <<started, regs, mem, table, tag, paging, cause, back, saved, ports>>

Next == \/ Start \/ Compute \/ Load \/ Store \/ Jump \/ Return \/ SetExternal
        \/ SetSystem \/ Interrupt \/ PageFault \/ InterruptReturn
Spec == Init /\ [][Next]_vars
=============================================================================
