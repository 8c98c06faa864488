-------------------------- MODULE MemoryController --------------------------
(***************************************************************************)
(* The RAM module of the FPGA boards, one clock edge per step: the         *)
(* memory_controller state machine composed with the cache, the low level  *)
(* driver and the memory chip, driven by a client that follows the         *)
(* request protocol, with a reset that may come at any edge.               *)
(*                                                                         *)
(* A state is the settled state of one clock cycle: the registers and the  *)
(* client's wires; outputs and buses are operators of that state.          *)
(***************************************************************************)
EXTENDS Cache, SimRam

VARIABLES
  hl_state,  \* state of memory_controller
  req        \* the client's wires: i_read, i_write, i_addr, its io_data

vars == <<hl_state, req, g_enabled, entry, is_init, init_addr,
          ll_state, ll_addr, ll_data, ram, latch>>

HLStates == {"init", "idle", "mem_read_0", "mem_read_1",
             "mem_write_0", "mem_write_1", "mem_write_2", "mem_write_3"}

-----------------------------------------------------------------------------
(* The client.  It asks for one access at a time, only in a cycle whose    *)
(* ready is high, and holds its wires until the cycle of the answer.  A    *)
(* write may carry a raised i_read, since write takes precedence, and may  *)
(* be dropped within the answer cycle, as the test bench does.             *)

Wires == [read : BOOLEAN, write : BOOLEAN, addr : Addr, data : Word]

Quiet    == {r \in Wires : ~r.read /\ ~r.write /\ r.data = Zero}
Reads    == {r \in Wires : r.read /\ ~r.write /\ r.data = Zero}
Writes   == {r \in Wires : r.write}
Requests == Reads \cup Writes

Asking == req.read \/ req.write

ClientDrive == IF req.write THEN req.data ELSE Z

-----------------------------------------------------------------------------
(* Combinational outputs of memory_controller in each state.               *)

o_ready == hl_state = "idle"

IdleWriting == hl_state = "idle" /\ req.write
ReadHit  == hl_state = "idle" /\ ~req.write /\ req.read /\ CacheHit(req.addr)
ReadMiss == hl_state = "idle" /\ ~req.write /\ req.read /\ ~CacheHit(req.addr)
\* A fault of ReadDone: the driver's ready is not awaited
ReadDoneEager == hl_state = "mem_read_1"
ReadDone == hl_state = "mem_read_1" /\ LLReady

o_output == ReadHit \/ ReadDone \/ hl_state = "mem_write_2"

ll_read  == hl_state = "mem_read_0"
ll_write == \/ hl_state = "mem_write_0"
            \/ hl_state = "mem_read_1" /\ ~LLReady

cache_read  == ReadHit
cache_write == IdleWriting \/ ReadDone

\* memory_controller's drivers of its three inner and outer data buses.  In
\* the states that forward io_data inwards it does not drive io_data itself,
\* so what it forwards is what the client drives.
\* Faults of HLToLL: the word is offered a cycle late, or already a cycle early
HLToLLLate  == IF hl_state = "mem_write_2" THEN ClientDrive ELSE Z
HLToLLEarly == IF hl_state \in {"mem_write_0", "mem_write_1"}
               THEN ClientDrive ELSE Z

HLToLL    == IF hl_state = "mem_write_1" THEN ClientDrive ELSE Z
LLBus     == Resolve(HLToLL, LLDataDrive)
HLToCache == IF IdleWriting THEN ClientDrive
             ELSE IF ReadDone THEN LLBus ELSE Z
CacheOut  == CacheDrive(req.addr, cache_read, cache_write)
CacheBus  == Resolve(HLToCache, CacheOut)
HLToIO    == IF ReadHit THEN CacheBus
             ELSE IF ReadDone THEN LLBus ELSE Z
IOBus     == Resolve(ClientDrive, HLToIO)

-----------------------------------------------------------------------------
Init ==
  /\ hl_state = "init"
  /\ req \in Quiet
  /\ CacheInit /\ LLInit /\ RamInit

\* The client's wires in the next cycle
ClientTick ==
  \/ /\ Asking /\ ~o_output
     /\ req' = req
  \/ /\ ~Asking \/ o_output \/ hl_state' = "mem_write_2"
     /\ req' \in Quiet
  \/ /\ ~Asking \/ o_output
     /\ hl_state' = "idle"
     /\ req' \in Requests

\* A rising edge with i_nres high that takes the controller to state next
Cycle(next) ==
  /\ hl_state' = next
  /\ LLTick(req.addr, ll_write, ll_read, LLBus, MemBus)
  /\ RamFollow
  /\ CacheTick(req.addr, cache_write, CacheBus)
  /\ ClientTick

InitCycle   == /\ hl_state = "init"
               /\ Cycle(IF CacheReady THEN "idle" ELSE "init")
IdleCycle   == /\ hl_state = "idle" /\ ~Asking
               /\ Cycle("idle")
AcceptWrite == IdleWriting /\ Cycle("mem_write_0")
AnswerHit   == ReadHit /\ Cycle("idle")
AcceptRead  == ReadMiss /\ Cycle("mem_read_0")
StartRead   == hl_state = "mem_read_0" /\ Cycle("mem_read_1")
AwaitRead   == hl_state = "mem_read_1" /\ ~LLReady /\ Cycle("mem_read_1")
AnswerRead  == ReadDone /\ Cycle("idle")
StartWrite  == hl_state = "mem_write_0" /\ Cycle("mem_write_1")
PassData    == hl_state = "mem_write_1" /\ Cycle("mem_write_2")
\* A fault of AnswerWrite: the controller is ready before the driver is
AnswerWriteNoWait == hl_state = "mem_write_2" /\ Cycle("idle")
AnswerWrite == /\ hl_state = "mem_write_2"
               /\ Cycle(IF LLReady THEN "idle" ELSE "mem_write_3")
FinishWrite == /\ hl_state = "mem_write_3"
               /\ Cycle(IF LLReady THEN "idle" ELSE "mem_write_3")

Tick == \/ InitCycle \/ IdleCycle \/ AcceptWrite \/ AnswerHit \/ AcceptRead
        \/ StartRead \/ AwaitRead \/ AnswerRead
        \/ StartWrite \/ PassData \/ AnswerWrite \/ FinishWrite

\* A rising edge with i_nres low.  The chip has no reset; the client shares it.
Reset ==
  /\ hl_state' = "init"
  /\ LLReset /\ RamFollow /\ CacheReset
  /\ req' \in Quiet

Next == Tick \/ Reset

\* The clock runs, and the reset line is not held low for ever
Spec == Init /\ [][Next]_vars /\ WF_vars(Tick)

-----------------------------------------------------------------------------
(* Properties.                                                             *)

\* Types.  A register that latched a floating or contended bus, or took an
\* address for data, has no type here.
TypeOK ==
  /\ hl_state \in HLStates
  /\ req \in Wires
  /\ entry \in [Index -> [valid : BOOLEAN, tag : Tag, data : Word]]
  /\ g_enabled \in BOOLEAN /\ is_init \in BOOLEAN /\ init_addr \in Index
  /\ ll_state \in LLStates
  /\ ll_addr \in Addr \cup {X} /\ ll_data \in Word \cup {X}
  /\ ram \in [Addr -> Word]
  /\ latch \in Addr \cup {X}

\* No tristate bus is ever driven from both ends: the controller and the low
\* level driver hand ll_data over in step, and neither the cache, the chip nor
\* the client is ever answered over.
NoContention ==
  /\ ~Contended(LLBusDrive, RamBusDrive)
  /\ ~Contended(HLToLL, LLDataDrive)
  /\ ~Contended(HLToCache, CacheOut)
  /\ ~Contended(ClientDrive, HLToIO)

\* Whoever samples a bus samples a word: the answer of a read, the word the
\* cache stores, the word the driver takes for a write, and the address the
\* latches hold when the chip is strobed.
SampledIsDriven ==
  /\ o_output /\ ~req.write /\ hl_state # "mem_write_2" => IOBus \in Word
  /\ cache_write => CacheBus \in Word
  /\ ll_state = "wr_addr_set_0" => LLBus \in Word
  /\ ~MemNwe => latch \in Addr /\ MemBus \in Word

\* Whenever the controller is ready, every valid cache entry holds the word of
\* the chip: write-through, replacement and the sweep after a reset agree.
CacheCoherent ==
  g_enabled /\ o_ready =>
    \A i \in Index : entry[i].valid => entry[i].data = ram[<<entry[i].tag, i>>]

\* A read, cached or not, is answered with the word the chip holds.
ReadReturnsChipWord ==
  o_output /\ req.read /\ ~req.write => IOBus = ram[req.addr]

\* The chip stores nothing but the word of the write whose answer the client
\* has just had, at the address of that write, one cycle after the answer.
StoresOnlyAnswered ==
  [][ram' # ram =>
       /\ hl_state = "mem_write_3"
       /\ ram' = [ram EXCEPT ![ll_addr] = ll_data]]_vars

\* When resets stop, the controller keeps coming back to ready: the sweep ends
\* and every access ends.
ReadyAgain == (<>[][~Reset]_vars) => []<>o_ready

-----------------------------------------------------------------------------
(* The inductive invariant: in which states of the two machines the system *)
(* can be, and what the registers of each hold in them.                    *)

Reading == req.read /\ ~req.write

\* The two state machines in step, and what has been latched by then
InStep ==
  /\ hl_state \in {"init", "idle"} => ll_state = "idle"
  /\ hl_state = "init" => ~Asking
  /\ hl_state = "mem_read_0" => ll_state = "idle" /\ Reading
  /\ hl_state = "mem_read_1" =>
       /\ ll_state \in {"rd_addr_set_0", "rd_addr_set_1", "rd_data_read", "idle"}
       /\ Reading
       /\ ll_state = "rd_addr_set_0" => ll_addr = req.addr
       /\ ll_state = "rd_addr_set_1" => ll_addr = req.addr /\ latch = req.addr
       /\ ll_state = "rd_data_read" => latch = req.addr
       /\ ll_state = "idle" => ll_data = ram[req.addr]
  /\ hl_state = "mem_write_0" => ll_state = "idle" /\ req.write
  /\ hl_state = "mem_write_1" =>
       ll_state = "wr_addr_set_0" /\ req.write /\ ll_addr = req.addr
  /\ hl_state = "mem_write_2" =>
       /\ ll_state = "wr_addr_set_1"
       /\ ll_addr \in Addr /\ latch = ll_addr /\ ll_data \in Word
       /\ Asking => req.write /\ req.addr = ll_addr /\ req.data = ll_data
  /\ hl_state = "mem_write_3" =>
       /\ ll_state \in DataSet \cup {"idle"} /\ ~Asking
       /\ ll_state \in DataSet =>
            ll_addr \in Addr /\ latch = ll_addr /\ ll_data \in Word

\* The write on its way to the chip, if any: address and word
Writing == IdleWriting \/ hl_state \in {"mem_write_0", "mem_write_1"}
Landing == \/ hl_state = "mem_write_2"
           \/ hl_state = "mem_write_3" /\ ll_state = "wr_data_set_0"

\* What reads will return once that write has landed
MemoryView == IF Landing THEN [ram EXCEPT ![ll_addr] = ll_data] ELSE ram
CacheView  == IF Writing /\ ~IdleWriting
              THEN [ram EXCEPT ![req.addr] = req.data] ELSE MemoryView

\* The sweep runs only in init and leaves nothing valid behind it; outside it
\* every valid entry agrees with the chip and the write on its way there
Coherence ==
  /\ is_init => g_enabled /\ hl_state = "init"
  /\ is_init => \A i \in 0 .. init_addr - 1 : ~entry[i].valid
  /\ g_enabled /\ ~is_init =>
       \A i \in Index : entry[i].valid =>
         entry[i].data = CacheView[<<entry[i].tag, i>>]

\* The invariant the proofs carry through every clock edge.
IInv == TypeOK /\ InStep /\ Coherence

-----------------------------------------------------------------------------
(* The refinement: the whole module is an atomic memory.                   *)

\* Two tokens that are no words stand for no answer and for a write's answer
NoReq    == [op |-> "none"]
NoAnswer == Z
Done     == X

AskMap == IF req.write
          THEN [op |-> "write", addr |-> req.addr, data |-> req.data]
          ELSE IF req.read THEN [op |-> "read", addr |-> req.addr]
          ELSE NoReq

AnswerMap == IF ~o_output THEN NoAnswer
             ELSE IF hl_state = "mem_write_2" THEN Done ELSE IOBus

Atomic == INSTANCE AtomicMemory
            WITH mem <- MemoryView, chip <- ram,
                 ask <- AskMap, answer <- AnswerMap

\* The controller, its cache, its driver and the chip together implement the
\* atomic memory, resets included.
ImplementsAtomicMemory == Atomic!ASpec
AtomicMemorySafety == Atomic!AInit /\ [][Atomic!ANext]_(Atomic!avars)
=============================================================================
