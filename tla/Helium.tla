------------------------------- MODULE Helium -------------------------------
(***************************************************************************)
(* The helium CPU (cpu.vhdl) with the ports of the board (main.vhdl) and   *)
(* its memory.  A step is a rising edge of the clock: the definitions      *)
(* before Edge are the wires, functions of the registers, and Edge gives   *)
(* every register its new value from them.  An instruction takes two       *)
(* cycles, each as long as the memory takes: it is fetched in cycle 0 and  *)
(* carried out in cycle 1.  Reset is never asserted and no interrupt comes *)
(* from outside, as main.vhdl ties both.                                   *)
(***************************************************************************)
EXTENDS Psram, Sequences

CONSTANT Programs       \* contents of memory to start with: address -> word
ASSUME ProgramsAssumption ==
    \A program \in Programs :
        DOMAIN program \subseteq Word16 /\ \A a \in DOMAIN program : program[a] \in Word16

VARIABLES
    cur_cycle, send_req, instr,
    mode,               \* "iu" microcode, "er" programs, "ei" interrupt handlers
    ip, ui,             \* of each mode
    regs,
    ext,                \* LR (2), SP (3), OF (4) and FL (5)
    imem_low,           \* the tlb: for each page its entry and the pid of that
    imem_high,          \* two registers saved by microcode (0, 1), the page missed (7)
    px,                 \* registers for the system, those that are not constant
    privileged, pid, paging_en,
    int_en, int_saved, int_saved_priv,
    ports               \* the last word that each of 0 .. 4 was written

cpuVars == <<cur_cycle, send_req, instr, mode, ip, ui, regs, ext, imem_low, imem_high, px,
             privileged, pid, paging_en, int_en, int_saved, int_saved_priv, ports>>
vars == <<cpuVars, psramVars>>

Modes == {"iu", "er", "ei"}
Zeros(S) == [x \in S |-> 0]

Init ==
    /\ \E program \in Programs : ram = [a \in DOMAIN program |-> Bytes(program[a])]
    /\ PsramInit
    /\ cur_cycle = 0 /\ send_req = TRUE /\ instr = \h4800
    /\ mode = "iu" /\ ip = [Zeros(Modes) EXCEPT !["iu"] = \h27] /\ ui = Zeros(Modes)
    /\ regs = Zeros(0 .. 7) /\ ext = Zeros(2 .. 5)
    /\ imem_low = Zeros(0 .. 63) /\ imem_high = Zeros(0 .. 7)
    /\ px = Zeros({0, 1} \union (10 .. 14))
    /\ privileged = TRUE /\ pid = 0 /\ paging_en = FALSE
    /\ int_en = TRUE /\ int_saved = FALSE /\ int_saved_priv = FALSE
    /\ ports = Zeros(0 .. 4)

-----------------------------------------------------------------------------
(* Microcode: boot from line 39, refill of a line of the tlb from 13, flush  *)
(* of the tlb from 31.                                                       *)

\* A fault of ucode_rom: the line of the tlb is marked with the page table
ucode_romTagged ==
    <<\hA003, \hF801, \h4D07, \h5901, \h18FF, \h9804, \h8905, \h3100, \hD801, \h4BFB,
      \h2900, \h9900, \h0000, \h78F8, \h79F9, \hA001, \h69FF, \hC001, \h2000, \h5980,
      \hF800, \h4D01, \h0801, \hC101, \h7001, \hC901, \hA001, \h7001, \h68F8, \h69F9,
      \h0000, \h78F8, \h182E, \h7000, \hD802, \h4BFD, \h68F8, \h0000, \h1801, \h9800,
      \h5800>>
ucode_rom ==
    <<\hA003, \hF801, \h4D07, \h5901, \h18FF, \h9804, \h8905, \h3100, \hD801, \h4BFB,
      \h2900, \h9900, \h0000, \h78F8, \h79F9, \hA001, \h69FF, \hC001, \h2000, \h5980,
      \hF800, \h4D01, \h0801, \hC101, \h7001, \hC901, \hA000, \h7001, \h68F8, \h69F9,
      \h0000, \h78F8, \h182E, \h7000, \hD802, \h4BFD, \h68F8, \h0000, \h1801, \h9800,
      \h5800>>
rom_data == LET line == Low(ip["iu"], 6) IN IF line < Len(ucode_rom) THEN ucode_rom[line + 1] ELSE 0

-----------------------------------------------------------------------------
(* The instruction and its operands.                                         *)

micro    == mode = "iu"
word     == AsNumber(instr)
controls == Controls(micro, word)
rf       == Rf(micro, word)
rs       == Rs(micro, word)
imm_ze   == (256 * Low(ui[mode], 8)) + Low(Unextended(micro, word), 8)
operand0 == regs[rf]
operand1 == IF "iim" \in controls THEN imm_ze ELSE regs[rs]

\* The state update that a write of px register 31 asks for, by its bit.
Update(bit) == "pxw" \in controls /\ Low(imm_ze, 5) = 31 /\ Bit(operand0, bit)
Writes(line, n) == line \in controls /\ rf = n

-----------------------------------------------------------------------------
(* Virtual memory.                                                           *)

instr_addr == ip[mode]
Accesses   == controls \intersect {"psh", "pop", "mwr", "mrd"} \in {{"mwr"}, {"mrd"}}
SpIn       == IF Writes("xwr", 3) THEN operand1 ELSE Low(ext[3] + 1, 16)

v_addr ==
    CASE cur_cycle = 1 /\ "psh" \in controls                -> SpIn
      [] cur_cycle = 1 /\ "pop" \in controls                -> ext[3]
      [] cur_cycle = 1 /\ Accesses /\ "off" \in controls    -> Low(operand1 + ext[4], 16)
      [] cur_cycle = 1 /\ Accesses /\ "off" \notin controls -> operand1
      [] OTHER                                              -> instr_addr

Page(v)   == v \div 2048
Frame(entry, v) == (2048 * (entry % 32)) + (v % 2048)
tlb_entry == imem_low[2 * Page(v_addr)]
tlb_pid   == imem_low[(2 * Page(v_addr)) + 1]

\* A fault of tlb_miss: a line is used whosever it is
tlb_missAnyPid == mode = "er" /\ paging_en /\ ~Bit(tlb_entry, 15)
tlb_miss  == mode = "er" /\ paging_en /\ (~Bit(tlb_entry, 15) \/ tlb_pid # pid)
p_addr    == IF mode # "iu" /\ paging_en THEN Frame(tlb_entry, v_addr) ELSE v_addr

-----------------------------------------------------------------------------
(* Requests to memory and ports, and the end of a cycle.                     *)

ctrl_mem_re == IF cur_cycle = 0 THEN mode # "iu" ELSE "mrd" \in controls
ctrl_mem_we == cur_cycle = 1 /\ "mwr" \in controls
\* A fault of mem_re: the request stays up until it is answered
mem_reHeld == ctrl_mem_re /\ ~tlb_miss
mem_re == ctrl_mem_re /\ send_req /\ ~tlb_miss
mem_we == ctrl_mem_we /\ send_req /\ ~tlb_miss
port_we == cur_cycle = 1 /\ "pwr" \in controls /\ send_req

\* Ports other than that of the flash are always ready.
advance == (ctrl_mem_re \/ ctrl_mem_we) => Ready(mem_re, mem_we)
finish  == cur_cycle = 1 /\ advance
state_update == finish /\ ~tlb_miss

\* The word bus, when the CPU reads from it.
mem_data == IF d_state = "read_read_1" THEN Joined(data_saved) ELSE Floating

-----------------------------------------------------------------------------
(* Interrupts.                                                               *)

Checked   == ~privileged /\ paging_en
Refused(line, bit) == Checked /\ line \in controls /\ ~Bit(tlb_entry, bit)
Unprivileged == ~privileged /\ "prv" \in controls

int_id ==
    CASE Unprivileged                            -> 2
      [] ~Unprivileged /\ (Refused("mrd", 14) \/ Refused("mwr", 13)
                             \/ (Checked /\ ~Bit(tlb_entry, 12))) -> 3
      [] OTHER -> IF "inv" \in controls THEN 6
                  ELSE IF "int" \in controls THEN Low(imm_ze, 8) ELSE 0
int_assert == \/ controls \intersect {"inv", "int"} # {}
              \/ Unprivileged \/ Refused("mrd", 14) \/ Refused("mwr", 13)
int == (int_saved \/ int_assert) /\ int_en

int_en_in == \/ "irt" \in controls
             \/ ~(finish /\ Update(5)) /\ ((finish /\ Update(4)) \/ (~(finish /\ int) /\ int_en))

-----------------------------------------------------------------------------
(* Where execution goes on, and in which mode.                               *)

instr_addr_p1 == Low(instr_addr + 1, 16)
Taken == "jmp" \in controls /\ ShouldJump(controls, JumpFlags(micro, word), ext[5])

instr_addr_next ==
    IF mode = "er" /\ tlb_miss THEN \h000D
    ELSE IF mode = "er" /\ Update(3) THEN \h001F
    ELSE IF "irt" \in controls THEN px[11]
    ELSE IF int THEN \h0200 + (2 * int_id)
    ELSE IF Writes("xwr", 0) THEN operand1
    ELSE IF "ret" \in controls THEN ext[2]
    ELSE IF Taken THEN IF "iim" \in controls THEN Low(instr_addr_p1 + Extended(micro, word), 16) ELSE operand0
    ELSE instr_addr_p1

execution_mode_in ==
    IF finish /\ int THEN "ei"
    ELSE IF tlb_miss THEN "iu"
    ELSE IF finish /\ mode = "er" /\ (Update(1) \/ Update(3)) THEN "iu"
    ELSE IF finish /\ mode = "ei" /\ int_en_in THEN "er"
    ELSE IF finish /\ mode = "iu" /\ "msw" \in controls THEN "er"
    ELSE mode

regular_IP_in ==
    CASE tlb_miss                                            -> ip["er"]
      [] mode = "er" /\ ~tlb_miss /\ "pxw" \in controls      -> Low(ip["er"] + 1, 16)
      [] OTHER                                               -> instr_addr_next

ips ==
    [iu |-> IF execution_mode_in = "iu" /\ (finish \/ tlb_miss) THEN instr_addr_next ELSE ip["iu"],
     er |-> IF (advance /\ tlb_miss) \/ (finish /\ mode = "er") \/ (int_en_in /\ mode = "ei")
                THEN regular_IP_in ELSE ip["er"],
     ei |-> IF finish THEN instr_addr_next ELSE ip["ei"]]

-----------------------------------------------------------------------------
(* What an instruction writes.                                               *)

res_alu == Result17(AluOp(micro, word), operand0, operand1)
res_xrd == CASE rs = 0      -> instr_addr_next
             [] rs \in 2 .. 5 -> ext[rs]
             [] OTHER               -> 0
px_out  == LET n == Low(imm_ze, 5)
           IN  IF n \in DOMAIN px THEN px[n] ELSE CASE n = 2 -> \h40 [] n = 3 -> 1 [] OTHER -> 0
\* Microcode names no line beyond the 64 there are.
imem_data == IF Bit(operand1, 7) THEN imem_high[Low(operand1, 3)] ELSE imem_low[Low(operand1, 7)]

reg_in ==
    IF "mrd" \in controls THEN mem_data
    ELSE IF "prd" \in controls THEN \hBEEF
    ELSE IF "pxr" \in controls THEN px_out
    ELSE IF "xrd" \in controls THEN res_xrd
    ELSE IF "alu" \in controls THEN Low(res_alu, 16)
    ELSE IF "ird" \in controls THEN imem_data
    ELSE operand1

\* The external registers that an instruction writes, with what.
ExtIn ==
    [n \in 2 .. 5 |->
        IF Writes("xwr", n) THEN operand1
        ELSE CASE n = 2 /\ "cal" \in controls                          -> instr_addr_p1
               [] n = 3 /\ controls \intersect {"pop", "psh"} # {}     -> Low(ext[3] + 1, 16)
               [] n = 5 /\ "fwr" \in controls                          ->
                     IF "ret" \in controls THEN RetFlags(word)
                     ELSE FlagsOf17(AluOp(micro, word), operand0, operand1, res_alu)
               [] OTHER                                                -> ext[n]]

\* What an interrupt tells its handler.
Told ==
    [n \in 10 .. 14 |->
        CASE n = 10 -> int_id
          [] n = 11 -> IF int_id = 1 THEN instr_addr ELSE instr_addr_next
          [] n = 12 -> CASE int_id \in {1, 3} -> v_addr
                         [] int_id \in {2, 6} -> AsNumber(instr)
                         [] OTHER             -> 0
          [] n = 13 -> CASE int_id = 3 -> IF "mrd" \in controls THEN 0 ELSE IF "mwr" \in controls THEN 1 ELSE 2
                         [] int_id = 2 -> 1
                         [] OTHER      -> 0
          [] n = 14 -> 0]

-----------------------------------------------------------------------------
(* The edge.  The program counters, the registers for the system and the     *)
(* internal memory do not wait for the cycle to end.                         *)

Control ==
    /\ cur_cycle' = IF advance THEN IF tlb_miss THEN 0 ELSE 1 - cur_cycle ELSE cur_cycle
    /\ send_req' = advance
    /\ instr' = IF cur_cycle = 1 /\ ~tlb_miss THEN instr
                ELSE IF mode = "iu" \/ tlb_miss THEN rom_data ELSE mem_data
    /\ mode' = IF advance THEN execution_mode_in ELSE mode
    /\ ip' = ips
    /\ ui' = IF finish /\ ~(mode = "er" /\ tlb_miss)
                THEN [ui EXCEPT ![mode] = IF Writes("xwr", 1) THEN operand1 ELSE 0] ELSE ui

Registers ==
    /\ regs' = IF state_update /\ "rwr" \in controls THEN [regs EXCEPT ![rf] = reg_in] ELSE regs
    /\ ext' = IF state_update THEN ExtIn ELSE ext
    /\ ports' = IF port_we /\ operand1 \in 0 .. 4 THEN [ports EXCEPT ![operand1] = operand0] ELSE ports

InternalMemory ==
    IF "iwr" \in controls
    THEN IF Bit(operand1, 7)
         THEN imem_high' = [imem_high EXCEPT ![Low(operand1, 3)] = operand0] /\ UNCHANGED imem_low
         ELSE imem_low' = [imem_low EXCEPT ![Low(operand1, 7)] = operand0] /\ UNCHANGED imem_high
    ELSE /\ imem_high' = IF tlb_miss THEN [imem_high EXCEPT ![7] = Page(v_addr)] ELSE imem_high
         /\ UNCHANGED imem_low

System ==
    /\ px' = [n \in DOMAIN px |-> IF "pxw" \in controls /\ Low(imm_ze, 5) = n THEN operand0
                                  ELSE IF n \in 10 .. 14 /\ int THEN Told[n] ELSE px[n]]
    /\ pid' = IF Update(0) THEN px[0] ELSE pid
    /\ paging_en' = (paging_en \/ Update(0))
    /\ privileged' = IF finish /\ (("irt" \in controls /\ int_saved_priv) \/ Update(2)) THEN FALSE
                     ELSE (finish /\ int) \/ privileged
    /\ int_en' = int_en_in
    /\ int_saved_priv' = IF int /\ finish THEN privileged ELSE int_saved_priv
    /\ int_saved' = (~finish /\ Checked /\ ~Bit(tlb_entry, 12))

Edge ==
    /\ Control /\ Registers /\ InternalMemory /\ System
    /\ PsramTick(mem_re, mem_we, p_addr, operand0)

\* hcf ends the simulation.
Halted == "hlt" \in controls /\ "ien" \notin controls

Tick  == ~Halted /\ Edge
Stays == Halted /\ UNCHANGED vars

Next == Tick \/ Stays
Spec == Init /\ [][Next]_vars /\ WF_vars(Tick)
-----------------------------------------------------------------------------
(* Properties.                                                               *)

\* Every register holds a value of its kind; the only floating word is that in
\* the place of an instruction not yet there, which is never carried out.
TypeOK ==
    /\ cur_cycle \in {0, 1} /\ send_req \in BOOLEAN /\ instr \in Word16 \union {Floating}
    /\ cur_cycle = 1 => instr # Floating
    /\ mode \in Modes /\ ip \in [Modes -> Word16] /\ ui \in [Modes -> Word16]
    /\ regs \in [0 .. 7 -> Word16] /\ ext \in [2 .. 5 -> Word16]
    /\ imem_low \in [0 .. 63 -> Word16] /\ imem_high \in [0 .. 7 -> Word16]
    /\ px \in [{0, 1} \union (10 .. 14) -> Word16]
    /\ privileged \in BOOLEAN /\ pid \in Word16 /\ paging_en \in BOOLEAN
    /\ int_en \in BOOLEAN /\ int_saved \in BOOLEAN /\ int_saved_priv \in BOOLEAN
    /\ ports \in [0 .. 4 -> Word16]
    /\ PsramTypeOK

\* The driver takes a request in its idle state only, and the CPU, which does
\* not see that state, makes none in another.
RequestsMeetIdle == mem_re \/ mem_we => d_state = "idle"

\* When a read is done, the two halves that came over the bus are the word at
\* the address asked for; when a write is, that is the word the CPU gave.
WordsArrive ==
    d_state \in {"read_read_1", "write_fin"} =>
        \A half \in {1, 2} : RamAt(Joined(addr_saved))[half] = data_saved[half]

\* Memory is the same for whoever asks, from the moment the driver takes a word:
\* only a store changes it, at its address, and what is fetched or loaded is the
\* word there, at the address that the instruction still has when it comes.
MemoryAsPromised ==
    [][/\ MemoryView' = IF mem_we
                        THEN [x \in DOMAIN MemoryView \union {p_addr} |->
                                  IF x = p_addr THEN operand0 ELSE MemoryView[x]]
                        ELSE MemoryView
       /\ mode # "iu" /\ cur_cycle = 0 /\ cur_cycle' = 1 => instr' = WordAt(MemoryView, p_addr)
       /\ "mrd" \in controls /\ cur_cycle = 1 /\ cur_cycle' = 0 /\ ~tlb_miss =>
              regs'[rf] = WordAt(MemoryView, p_addr)]_vars

\* A program that asks to end does: no wait for memory and no miss goes on for
\* ever.
Ends == <>Halted

\* A permission violation is raised where the page table does not let it.
PermissionByTable ==
    [][mode' = "ei" /\ mode = "er" /\ int_id = 3 /\ "mrd" \in controls =>
            ~Bit(WordAt(MemoryView, Low(px[1] + Page(v_addr), 16)), 14)]_vars
=============================================================================
