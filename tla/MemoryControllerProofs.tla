------------------------ MODULE MemoryControllerProofs -----------------------
(***************************************************************************)
(* Proofs about MemoryController, for every set of words and tags, every   *)
(* cache size, and with the cache enabled or not.                          *)
(***************************************************************************)
EXTENDS MemoryController, TLAPS

LEMMA InitInv == Init => IInv
<1> SUFFICES ASSUME Init PROVE IInv
  OBVIOUS
<1> USE MemAssumption
<1>1. TypeOK
  <2>1. 0 \in Index
    BY DEF Index
  <2>2. entry \in [Index -> [valid : BOOLEAN, tag : Tag, data : Word]]
    <3>1. EntryEmpty \in [valid : BOOLEAN, tag : Tag, data : Word]
      BY DEF EntryEmpty
    <3>2. QED
      BY <3>1 DEF Init, CacheInit
  <2>3. ram \in [Addr -> Word]
    BY DEF Init, RamInit
  <2>4. QED
    BY <2>1, <2>2, <2>3
    DEF Init, TypeOK, CacheInit, LLInit, RamInit, HLStates, LLStates, Quiet
<1>2. InStep
  BY DEF Init, InStep, LLInit, Asking, Quiet
<1>3. Coherence
  BY DEF Init, Coherence, CacheInit, EntryEmpty
<1>4. QED
  BY <1>1, <1>2, <1>3 DEF IInv

-----------------------------------------------------------------------------
(* What one clock edge does, component by component.                       *)

LEMMA AddrParts ==
  ASSUME NEW a \in Addr
  PROVE  TagOf(a) \in Tag /\ IndexOf(a) \in Index /\ <<TagOf(a), IndexOf(a)>> = a
  BY DEF Addr, TagOf, IndexOf

\* The client holds its wires until it is answered, and starts only when ready
LEMMA ClientStep ==
  ASSUME TypeOK, ClientTick
  PROVE  /\ req' \in Wires
         /\ Asking /\ ~o_output /\ hl_state' # "mem_write_2" => req' = req
         /\ Asking /\ ~o_output => req' = req \/ ~Asking'
         /\ ~Asking \/ o_output => hl_state' = "idle" \/ ~Asking'
  BY DEF TypeOK, ClientTick, Quiet, Requests, Reads, Writes, Asking

\* The chip is written only on the edge into wr_data_set_1
LEMMA ChipStill ==
  ASSUME RamFollow, ll_state' # "wr_data_set_1"
  PROVE  ram' = ram
  BY DEF RamFollow, MemNwe

\* While the driver is idle it latches the client's address, and keeps its
\* data register
LEMMA IdleDriver ==
  ASSUME ll_state = "idle", NEW next, Cycle(next)
  PROVE  /\ ll_write => ll_state' = "wr_addr_set_0"
         /\ ~ll_write /\ ll_read => ll_state' = "rd_addr_set_0"
         /\ ~ll_write /\ ~ll_read => ll_state' = "idle"
         /\ ll_addr' = req.addr
         /\ UNCHANGED <<ll_data, latch, ram>>
<1>1. /\ ll_write => ll_state' = "wr_addr_set_0"
      /\ ~ll_write /\ ll_read => ll_state' = "rd_addr_set_0"
      /\ ~ll_write /\ ~ll_read => ll_state' = "idle"
  BY DEF Cycle, LLTick, LLStateIn
<1>2. ram' = ram
  BY <1>1, ChipStill DEF Cycle
<1>3. QED
  BY <1>1, <1>2 DEF Cycle, LLTick, RamFollow, MemAddrLoad, AddrSet0

\* The cache does nothing on an edge that neither sweeps nor fills
LEMMA CacheStill ==
  ASSUME NEW next, Cycle(next), ~is_init, ~cache_write
  PROVE  UNCHANGED <<g_enabled, entry, is_init, init_addr>>
  BY DEF Cycle, CacheTick, cachevars

-----------------------------------------------------------------------------
(* The effect of each action on the registers, under the invariant.        *)

LEMMA InitCycleEffect ==
  ASSUME IInv, InitCycle
  PROVE  /\ hl_state' = (IF CacheReady THEN "idle" ELSE "init")
         /\ ~Asking /\ (CacheReady \/ ~Asking')
         /\ ll_state' = "idle" /\ ll_addr' = req.addr
         /\ UNCHANGED <<ll_data, latch, ram>>
         /\ \/ is_init /\ Sweep
            \/ ~is_init /\ UNCHANGED cachevars
<1> USE DEF IInv, TypeOK, InStep, InitCycle, Cycle
<1>1. ~Asking /\ ll_state = "idle" /\ ~ll_read /\ ~ll_write /\ ~cache_write
      /\ ~o_output
  BY DEF ll_read, ll_write, cache_write, IdleWriting, ReadDone, o_output,
         ReadHit
<1>2. /\ ll_state' = "idle" /\ ll_addr' = req.addr
      /\ UNCHANGED <<ll_data, latch, ram>>
  BY <1>1, IdleDriver
<1>3. \/ is_init /\ Sweep
      \/ ~is_init /\ UNCHANGED cachevars
  BY <1>1 DEF CacheTick
<1>4. CacheReady \/ ~Asking'
  BY <1>1, ClientStep
<1>5. QED
  BY <1>1, <1>2, <1>3, <1>4

\* The edges of a ready controller that change no component's contents
LEMMA ReadyEffect ==
  ASSUME IInv, IdleCycle \/ AnswerHit \/ AcceptRead
  PROVE  /\ hl_state = "idle" /\ ~req.write
         /\ hl_state' = (IF AcceptRead THEN "mem_read_0" ELSE "idle")
         /\ AcceptRead => Reading /\ req' = req
         /\ ll_state' = "idle" /\ ll_addr' = req.addr
         /\ UNCHANGED <<ll_data, latch, ram, g_enabled, entry, is_init, init_addr>>
<1> USE DEF IInv, TypeOK, InStep, Cycle
<1>1. hl_state = "idle" /\ ~req.write /\ ll_state = "idle"
  BY DEF IdleCycle, AnswerHit, AcceptRead, ReadHit, ReadMiss, Asking, InStep
<1>2. ~ll_read /\ ~ll_write /\ ~cache_write /\ ~is_init
  BY <1>1 DEF ll_read, ll_write, cache_write, IdleWriting, ReadDone, Coherence
<1>3. \E s \in HLStates : Cycle(s) /\ s = hl_state'
  BY DEF IdleCycle, AnswerHit, AcceptRead, HLStates
<1>4. /\ ll_state' = "idle" /\ ll_addr' = req.addr
      /\ UNCHANGED <<ll_data, latch, ram>>
  BY <1>1, <1>2, <1>3, IdleDriver
<1>5. UNCHANGED <<g_enabled, entry, is_init, init_addr>>
  BY <1>2, <1>3, CacheStill DEF cachevars
<1>6. hl_state' = (IF AcceptRead THEN "mem_read_0" ELSE "idle")
  BY DEF IdleCycle, AnswerHit, AcceptRead, ReadHit, ReadMiss, Asking
<1>7. ASSUME AcceptRead PROVE Reading /\ req' = req
  <2>1. Asking /\ ~o_output /\ hl_state' = "mem_read_0"
    BY <1>7 DEF AcceptRead, ReadMiss, Asking, o_output, ReadHit, ReadDone
  <2>2. QED
    BY <1>3, <1>7, <2>1, ClientStep DEF AcceptRead, ReadMiss, Reading
<1>8. QED
  BY <1>1, <1>4, <1>5, <1>6, <1>7

LEMMA AcceptWriteEffect ==
  ASSUME IInv, AcceptWrite
  PROVE  /\ hl_state = "idle" /\ req.write /\ ~is_init
         /\ hl_state' = "mem_write_0" /\ req' = req
         /\ ll_state' = "idle" /\ ll_addr' = req.addr
         /\ UNCHANGED <<ll_data, latch, ram, g_enabled, is_init, init_addr>>
         /\ Fill(req.addr, req.data)
<1> USE DEF IInv, TypeOK, AcceptWrite
<1>1. /\ hl_state = "idle" /\ req.write /\ ll_state = "idle" /\ ~is_init
      /\ Cycle("mem_write_0")
  BY DEF InStep, Coherence, IdleWriting
<1>2. ~ll_read /\ ~ll_write /\ cache_write /\ ~o_output /\ Asking
  BY <1>1 DEF ll_read, ll_write, cache_write, IdleWriting, o_output, ReadHit,
              ReadDone, Asking
<1>3. /\ ll_state' = "idle" /\ ll_addr' = req.addr
      /\ UNCHANGED <<ll_data, latch, ram>>
  BY <1>1, <1>2, IdleDriver
<1>4. CacheBus = req.data
  <2>1. HLToCache = req.data
    BY <1>1 DEF HLToCache, IdleWriting, ClientDrive
  <2>2. CacheOut = Z
    BY <1>2 DEF CacheOut, CacheDrive
  <2>3. QED
    BY <2>1, <2>2 DEF CacheBus, Resolve
<1>5. Fill(req.addr, req.data) /\ UNCHANGED <<g_enabled, is_init, init_addr>>
  BY <1>1, <1>2, <1>4 DEF Cycle, CacheTick, Fill
<1>6. req' = req /\ hl_state' = "mem_write_0"
  BY <1>1, <1>2, ClientStep DEF Cycle
<1>7. QED
  BY <1>1, <1>3, <1>5, <1>6

\* Every edge inside a read or a write before its answer: the cache rests and
\* the client holds its wires
LEMMA HoldEffect ==
  ASSUME IInv, NEW next \in {"mem_read_1", "mem_write_1"}, Cycle(next), Asking,
         \/ hl_state \in {"mem_read_0", "mem_write_0"}
         \/ hl_state = "mem_read_1" /\ ~LLReady
  PROVE  /\ hl_state' = next /\ req' = req
         /\ UNCHANGED <<g_enabled, entry, is_init, init_addr>>
<1>1. ~o_output /\ ~cache_write /\ ~is_init
  BY DEF IInv, Coherence, o_output, cache_write, ReadHit, ReadDone, IdleWriting
<1>2. QED
  BY <1>1, CacheStill, ClientStep DEF IInv, Cycle

LEMMA StartReadEffect ==
  ASSUME IInv, StartRead
  PROVE  /\ hl_state = "mem_read_0" /\ Reading
         /\ hl_state' = "mem_read_1" /\ req' = req
         /\ ll_state' = "rd_addr_set_0" /\ ll_addr' = req.addr
         /\ UNCHANGED <<ll_data, latch, ram, g_enabled, entry, is_init, init_addr>>
<1>1. /\ hl_state = "mem_read_0" /\ Reading /\ ll_state = "idle"
      /\ Cycle("mem_read_1") /\ Asking
  BY DEF IInv, InStep, StartRead, Reading, Asking
<1>2. ll_read /\ ~ll_write
  BY <1>1 DEF ll_read, ll_write
<1>3. QED
  BY <1>1, <1>2, IdleDriver, HoldEffect

\* Waiting for the driver: the address reaches the latches, the word the
\* driver's register
LEMMA AwaitReadEffect ==
  ASSUME IInv, AwaitRead
  PROVE  /\ hl_state = "mem_read_1" /\ Reading
         /\ hl_state' = "mem_read_1" /\ req' = req
         /\ UNCHANGED <<ll_addr, ram, g_enabled, entry, is_init, init_addr>>
         /\ \/ /\ ll_state = "rd_addr_set_0" /\ ll_state' = "rd_addr_set_1"
               /\ latch' = ll_addr /\ ll_data' = ll_data
            \/ /\ ll_state = "rd_addr_set_1" /\ ll_state' = "rd_data_read"
               /\ latch' = latch /\ ll_data' = ll_data
            \/ /\ ll_state = "rd_data_read" /\ ll_state' = "idle"
               /\ latch' = latch /\ ll_data' = ram[latch]
<1> USE MemAssumption DEF IInv, TypeOK
<1>1. /\ hl_state = "mem_read_1" /\ Reading /\ Asking /\ ~LLReady
      /\ ll_state \in {"rd_addr_set_0", "rd_addr_set_1", "rd_data_read"}
      /\ Cycle("mem_read_1")
  BY DEF InStep, AwaitRead, Reading, Asking, LLReady
<1>2. hl_state' = "mem_read_1" /\ req' = req
      /\ UNCHANGED <<g_enabled, entry, is_init, init_addr>>
  BY <1>1, HoldEffect
<1>3. ll_addr' = ll_addr /\ ll_state' # "wr_data_set_1" /\ ram' = ram
  <2>1. ll_addr' = ll_addr /\ ll_state' # "wr_data_set_1"
    BY <1>1 DEF Cycle, LLTick, LLStateIn
  <2>2. QED
    BY <1>1, <2>1, ChipStill DEF Cycle
<1>4. CASE ll_state = "rd_addr_set_0"
  <2>1. LLBusDrive = ll_addr /\ RamBusDrive = Z
    BY <1>4 DEF LLBusDrive, RamBusDrive, MemNoe, AddrSet0
  <2>2. MemBus = ll_addr
    BY <2>1 DEF MemBus, Resolve
  <2>3. latch' = ll_addr
    BY <1>1, <1>4, <2>2 DEF Cycle, RamFollow, MemAddrLoad, AddrSet0
  <2>4. QED
    BY <1>1, <1>2, <1>3, <1>4, <2>3 DEF Cycle, LLTick, LLStateIn
<1>5. CASE ll_state = "rd_addr_set_1"
  <2>1. latch' = latch
    BY <1>1, <1>5 DEF Cycle, RamFollow, MemAddrLoad, AddrSet0
  <2>2. QED
    BY <1>1, <1>2, <1>3, <1>5, <2>1 DEF Cycle, LLTick, LLStateIn
<1>6. CASE ll_state = "rd_data_read"
  <2>1. latch' = latch
    BY <1>1, <1>6 DEF Cycle, RamFollow, MemAddrLoad, AddrSet0
  <2>2. LLBusDrive = Z /\ latch \in Addr /\ RamBusDrive = ram[latch]
    <3>1. LLBusDrive = Z
      BY <1>6 DEF LLBusDrive, AddrSet0, AddrSet1, DataSet
    <3>2. latch \in Addr
      BY <1>1, <1>6 DEF InStep, Wires
    <3>3. RamBusDrive = ram[latch]
      BY <1>6, <3>2 DEF RamBusDrive, MemNoe
    <3>4. QED
      BY <3>1, <3>2, <3>3
  <2>3. MemBus = ram[latch]
    BY <2>2 DEF MemBus, Resolve
  <2>4. QED
    BY <1>1, <1>2, <1>3, <1>6, <2>1, <2>3 DEF Cycle, LLTick, LLStateIn
<1>7. QED
  BY <1>1, <1>4, <1>5, <1>6

LEMMA AnswerReadEffect ==
  ASSUME IInv, AnswerRead
  PROVE  /\ hl_state = "mem_read_1" /\ Reading /\ ~is_init
         /\ ll_state = "idle" /\ ll_data = ram[req.addr] /\ IOBus = ll_data
         /\ hl_state' = "idle"
         /\ ll_state' = "idle" /\ ll_addr' = req.addr
         /\ UNCHANGED <<ll_data, latch, ram, g_enabled, is_init, init_addr>>
         /\ Fill(req.addr, ll_data)
<1> USE MemAssumption DEF IInv, TypeOK, AnswerRead, ReadDone, LLReady
<1>1. /\ hl_state = "mem_read_1" /\ Reading /\ ~is_init /\ ll_state = "idle"
      /\ ll_data = ram[req.addr] /\ Cycle("idle")
  BY DEF InStep, Coherence
<1>2. ~ll_read /\ ~ll_write /\ cache_write /\ ~ReadHit
  BY <1>1 DEF ll_read, ll_write, cache_write, ReadHit
<1>3. LLBus = ll_data
  BY <1>1 DEF LLBus, HLToLL, LLDataDrive, Resolve
<1>4. CacheBus = ll_data
  <2>1. HLToCache = ll_data
    BY <1>1, <1>3 DEF HLToCache, IdleWriting
  <2>2. CacheOut = Z
    BY <1>2 DEF CacheOut, CacheDrive
  <2>3. QED
    BY <2>1, <2>2 DEF CacheBus, Resolve
<1>5. IOBus = ll_data
  BY <1>1, <1>2, <1>3 DEF IOBus, ClientDrive, HLToIO, Resolve, Reading
<1>6. Fill(req.addr, ll_data) /\ UNCHANGED <<g_enabled, is_init, init_addr>>
  BY <1>1, <1>2, <1>4 DEF Cycle, CacheTick, Fill
<1>7. QED
  BY <1>1, <1>2, <1>5, <1>6, IdleDriver DEF Cycle

LEMMA StartWriteEffect ==
  ASSUME IInv, StartWrite
  PROVE  /\ hl_state = "mem_write_0" /\ req.write
         /\ hl_state' = "mem_write_1" /\ req' = req
         /\ ll_state' = "wr_addr_set_0" /\ ll_addr' = req.addr
         /\ UNCHANGED <<ll_data, latch, ram, g_enabled, entry, is_init, init_addr>>
<1>1. /\ hl_state = "mem_write_0" /\ req.write /\ ll_state = "idle"
      /\ Cycle("mem_write_1") /\ Asking
  BY DEF IInv, InStep, StartWrite, Asking
<1>2. ll_write
  BY <1>1 DEF ll_write
<1>3. QED
  BY <1>1, <1>2, IdleDriver, HoldEffect

\* The driver takes the client's word in the one cycle it is offered
LEMMA PassDataEffect ==
  ASSUME IInv, PassData
  PROVE  /\ hl_state = "mem_write_1" /\ req.write /\ ll_addr = req.addr
         /\ hl_state' = "mem_write_2" /\ (req' = req \/ ~Asking')
         /\ ll_state' = "wr_addr_set_1"
         /\ ll_data' = req.data /\ latch' = ll_addr
         /\ UNCHANGED <<ll_addr, ram, g_enabled, entry, is_init, init_addr>>
<1> USE MemAssumption DEF IInv, TypeOK, PassData
<1>1. /\ hl_state = "mem_write_1" /\ req.write /\ ll_addr = req.addr
      /\ ll_state = "wr_addr_set_0" /\ ~is_init /\ Cycle("mem_write_2")
  BY DEF InStep, Coherence
<1>2. ~o_output /\ ~cache_write /\ Asking
  BY <1>1 DEF o_output, cache_write, ReadHit, ReadDone, IdleWriting, Asking
<1>3. LLBus = req.data
  BY <1>1 DEF LLBus, HLToLL, LLDataDrive, LLReady, ClientDrive, Resolve
<1>4. /\ ll_state' = "wr_addr_set_1" /\ ll_data' = req.data
      /\ ll_addr' = ll_addr
  BY <1>1, <1>3 DEF Cycle, LLTick, LLStateIn
<1>5. MemBus = ll_addr
  BY <1>1 DEF MemBus, Resolve, LLBusDrive, RamBusDrive, MemNoe, AddrSet0
<1>6. latch' = ll_addr /\ ram' = ram
  <2>1. ram' = ram
    BY <1>1, <1>4, ChipStill DEF Cycle
  <2>2. QED
    BY <1>1, <1>5, <2>1 DEF Cycle, RamFollow, MemAddrLoad, AddrSet0
<1>7. hl_state' = "mem_write_2" /\ (req' = req \/ ~Asking')
  BY <1>1, <1>2, ClientStep DEF Cycle
<1>8. UNCHANGED <<g_enabled, entry, is_init, init_addr>>
  BY <1>1, <1>2, CacheStill
<1>9. QED
  BY <1>1, <1>4, <1>6, <1>7, <1>8

LEMMA AnswerWriteEffect ==
  ASSUME IInv, AnswerWrite
  PROVE  /\ hl_state = "mem_write_2" /\ ~is_init
         /\ hl_state' = "mem_write_3" /\ ~Asking'
         /\ ll_state = "wr_addr_set_1" /\ ll_state' = "wr_data_set_0"
         /\ UNCHANGED <<ll_addr, ll_data, latch, ram, g_enabled, entry, is_init, init_addr>>
<1> USE DEF IInv, TypeOK, AnswerWrite
<1>1. /\ hl_state = "mem_write_2" /\ ll_state = "wr_addr_set_1" /\ ~is_init
      /\ Cycle("mem_write_3")
  BY DEF InStep, Coherence, LLReady
<1>2. o_output /\ ~cache_write
  BY <1>1 DEF o_output, cache_write, ReadDone, IdleWriting
<1>3. ll_state' = "wr_data_set_0" /\ UNCHANGED <<ll_addr, ll_data>>
  BY <1>1 DEF Cycle, LLTick, LLStateIn
<1>4. ram' = ram
  BY <1>1, <1>3, ChipStill DEF Cycle
<1>5. latch' = latch
  BY <1>1 DEF Cycle, RamFollow, MemAddrLoad, AddrSet0
<1>6. hl_state' = "mem_write_3" /\ ~Asking'
  BY <1>1, <1>2, ClientStep DEF Cycle
<1>7. QED
  BY <1>1, <1>2, <1>3, <1>4, <1>5, <1>6, CacheStill

\* The strobe stores the word; then the driver comes back to rest
LEMMA FinishWriteEffect ==
  ASSUME IInv, FinishWrite
  PROVE  /\ hl_state = "mem_write_3" /\ ~is_init /\ ~Asking
         /\ UNCHANGED <<ll_data, latch, g_enabled, entry, is_init, init_addr>>
         /\ \/ /\ ll_state = "wr_data_set_0" /\ ll_state' = "wr_data_set_1"
               /\ hl_state' = "mem_write_3" /\ ~Asking'
               /\ ll_addr' = ll_addr /\ ram' = [ram EXCEPT ![ll_addr] = ll_data]
            \/ /\ ll_state = "wr_data_set_1" /\ ll_state' = "idle"
               /\ hl_state' = "mem_write_3" /\ ~Asking'
               /\ ll_addr' = ll_addr /\ ram' = ram
            \/ /\ ll_state = "idle" /\ ll_state' = "idle"
               /\ hl_state' = "idle"
               /\ ll_addr' = req.addr /\ ram' = ram
<1> USE MemAssumption DEF IInv, TypeOK, FinishWrite
<1>1. /\ hl_state = "mem_write_3" /\ ~is_init /\ ~Asking
      /\ ll_state \in DataSet \cup {"idle"}
      /\ \E s \in HLStates : Cycle(s)
  BY DEF InStep, Coherence, HLStates
<1>2. ~o_output /\ ~cache_write /\ ~ll_read /\ ~ll_write
  BY <1>1 DEF o_output, ReadHit, ReadDone, cache_write, IdleWriting, ll_read,
              ll_write
<1>3. UNCHANGED <<g_enabled, entry, is_init, init_addr>>
  BY <1>1, <1>2, CacheStill
<1>4. CASE ll_state = "wr_data_set_0"
  <2>1. /\ ll_state' = "wr_data_set_1" /\ UNCHANGED <<ll_addr, ll_data>>
        /\ hl_state' = "mem_write_3"
    BY <1>1, <1>4 DEF Cycle, LLTick, LLStateIn, LLReady
  <2>2. latch' = latch /\ latch = ll_addr /\ ll_addr \in Addr /\ ll_data \in Word
    BY <1>1, <1>4 DEF Cycle, RamFollow, MemAddrLoad, AddrSet0, InStep, DataSet
  <2>3. MemBus' = ll_data
    BY <2>1 DEF MemBus, Resolve, LLBusDrive, RamBusDrive, MemNoe, DataSet,
                AddrSet0, AddrSet1
  <2>4. ram' = [ram EXCEPT ![ll_addr] = ll_data]
    BY <1>1, <1>4, <2>1, <2>2, <2>3 DEF Cycle, RamFollow, MemNwe
  <2>5. ~Asking'
    BY <1>1, <1>2, <2>1, ClientStep DEF Cycle
  <2>6. QED
    BY <1>1, <1>3, <1>4, <2>1, <2>2, <2>4, <2>5
<1>5. CASE ll_state = "wr_data_set_1"
  <2>1. /\ ll_state' = "idle" /\ UNCHANGED <<ll_addr, ll_data>>
        /\ hl_state' = "mem_write_3"
    BY <1>1, <1>5 DEF Cycle, LLTick, LLStateIn, LLReady
  <2>2. ram' = ram /\ latch' = latch
    BY <1>1, <1>5, <2>1, ChipStill DEF Cycle, RamFollow, MemAddrLoad, AddrSet0
  <2>3. ~Asking'
    BY <1>1, <1>2, <2>1, ClientStep DEF Cycle
  <2>4. QED
    BY <1>1, <1>3, <1>5, <2>1, <2>2, <2>3
<1>6. CASE ll_state = "idle"
  BY <1>1, <1>2, <1>3, <1>6, IdleDriver DEF Cycle, LLReady
<1>7. QED
  BY <1>1, <1>4, <1>5, <1>6 DEF DataSet

LEMMA ResetEffect ==
  ASSUME IInv, Reset
  PROVE  /\ hl_state' = "init" /\ ~Asking' /\ req' \in Wires
         /\ ll_state' = "idle" /\ ll_addr' = ZeroAddr /\ ll_data' = Zero
         /\ ram' = ram /\ latch' \in Addr \cup {X}
         /\ CacheReset
<1> USE MemAssumption DEF IInv, TypeOK
<1>1. ll_state' = "idle" /\ ll_addr' = ZeroAddr /\ ll_data' = Zero
  BY DEF Reset, LLReset
<1>2. ram' = ram
  BY <1>1, ChipStill DEF Reset
<1>3. latch' \in Addr \cup {X}
  <2>1. CASE MemAddrLoad
    <3>1. MemBus = ll_addr
      BY <2>1 DEF MemAddrLoad, MemBus, Resolve, LLBusDrive, RamBusDrive, MemNoe,
                  AddrSet0
    <3>2. QED
      BY <2>1, <3>1 DEF Reset, RamFollow
  <2>2. CASE ~MemAddrLoad
    BY <2>2 DEF Reset, RamFollow
  <2>3. QED
    BY <2>1, <2>2
<1>4. QED
  BY <1>1, <1>2, <1>3 DEF Reset, Quiet, Asking

-----------------------------------------------------------------------------
(* Preservation of the invariant.                                          *)

\* A fill keeps the cache well typed
LEMMA FillType ==
  ASSUME TypeOK, NEW d \in Word, Fill(req.addr, d)
  PROVE  entry' \in [Index -> [valid : BOOLEAN, tag : Tag, data : Word]]
<1>1. req.addr \in Addr
  BY DEF TypeOK, Wires
<1>2. TagOf(req.addr) \in Tag /\ IndexOf(req.addr) \in Index
  BY <1>1, AddrParts
<1>3. [valid |-> TRUE, tag |-> TagOf(req.addr), data |-> d]
      \in [valid : BOOLEAN, tag : Tag, data : Word]
  BY <1>2
<1>4. QED
  BY <1>2, <1>3 DEF TypeOK, Fill

\* A fill with the word that view holds, or is changed to hold, at the filled
\* address keeps every valid entry in agreement with the view
LEMMA FillCoherent ==
  ASSUME TypeOK, NEW d \in Word, Fill(req.addr, d),
         NEW view \in [Addr -> Word],
         \A i \in Index : entry[i].valid =>
            entry[i].data = view[<<entry[i].tag, i>>]
  PROVE  \A i \in Index : entry'[i].valid =>
            entry'[i].data
              = [view EXCEPT ![req.addr] = d][<<entry'[i].tag, i>>]
<1> DEFINE a == req.addr
<1>1. a \in Addr /\ <<TagOf(a), IndexOf(a)>> = a
  BY AddrParts DEF TypeOK, Wires
<1>2. TAKE i \in Index
<1>3. CASE i = IndexOf(a)
  <2>1. entry'[i] = [valid |-> TRUE, tag |-> TagOf(a), data |-> d]
    BY <1>3 DEF Fill, TypeOK
  <2>2. QED
    BY <1>1, <1>3, <2>1
<1>4. CASE i # IndexOf(a)
  <2>1. entry'[i] = entry[i]
    BY <1>4 DEF Fill, TypeOK
  <2>2. <<entry[i].tag, i>> \in Addr /\ <<entry[i].tag, i>> # a
    BY <1>4 DEF TypeOK, Addr, IndexOf
  <2>3. QED
    BY <2>1, <2>2
<1>5. QED
  BY <1>3, <1>4

LEMMA TickInv == ASSUME IInv, Tick PROVE IInv'
<1> USE MemAssumption
<1>0. req' \in Wires
  BY ClientStep DEF IInv, Tick, InitCycle, IdleCycle, AcceptWrite, AnswerHit,
     AcceptRead, StartRead, AwaitRead, AnswerRead, StartWrite, PassData,
     AnswerWrite, FinishWrite, Cycle
<1>1. CASE InitCycle
  <2>1. /\ hl_state' \in {"init", "idle"} /\ (hl_state' = "init" => ~Asking')
        /\ (CacheReady => hl_state' = "idle")
        /\ ll_state' = "idle" /\ ll_addr' \in Addr /\ hl_state = "init"
        /\ UNCHANGED <<ll_data, latch, ram>>
        /\ (is_init /\ Sweep) \/ (~is_init /\ UNCHANGED cachevars)
        /\ (hl_state' = "idle" => ~is_init)
    <3>1. /\ hl_state = "init"
          /\ ll_state' = "idle" /\ ll_addr' \in Addr
          /\ UNCHANGED <<ll_data, latch, ram>>
          /\ (is_init /\ Sweep) \/ (~is_init /\ UNCHANGED cachevars)
      BY <1>1, InitCycleEffect DEF IInv, TypeOK, Wires, InitCycle
    <3>2. hl_state' = (IF CacheReady THEN "idle" ELSE "init")
          /\ (CacheReady \/ ~Asking')
      BY <1>1, InitCycleEffect
    <3>3. is_init => g_enabled
      BY DEF IInv, Coherence
    <3>4. QED
      BY <3>1, <3>2, <3>3 DEF CacheReady
  <2>2. TypeOK'
    <3>1. EntryEmpty \in [valid : BOOLEAN, tag : Tag, data : Word]
      BY DEF EntryEmpty
    <3>2. /\ entry' \in [Index -> [valid : BOOLEAN, tag : Tag, data : Word]]
          /\ init_addr' \in Index
      <4>1. CASE Sweep
        BY <3>1, <4>1 DEF Sweep, IInv, TypeOK, Index
      <4>2. CASE UNCHANGED cachevars
        BY <4>2 DEF cachevars, IInv, TypeOK
      <4>3. QED
        BY <2>1, <4>1, <4>2
    <3>3. is_init' \in BOOLEAN /\ g_enabled' \in BOOLEAN
      BY <2>1, Zenon DEF Sweep, cachevars, IInv, TypeOK
    <3>4. QED
      BY <1>0, <2>1, <3>2, <3>3 DEF IInv, TypeOK, HLStates, LLStates
  <2>3. InStep'
    BY <2>1 DEF InStep
  <2>4. Coherence'
    <3>1. CASE is_init /\ Sweep
      <4>1. g_enabled' /\ hl_state' = "init"
        BY <2>1, <3>1 DEF IInv, Coherence, Sweep
      <4>2. \A i \in 0 .. init_addr : ~entry'[i].valid
        BY <3>1 DEF IInv, TypeOK, Coherence, Sweep, EntryEmpty, Index
      <4>3. is_init' => init_addr' = init_addr + 1
        BY <3>1 DEF Sweep
      <4>4. ~is_init' => init_addr = High
        BY <3>1 DEF Sweep
      <4>5. QED
        BY <4>1, <4>2, <4>3, <4>4 DEF Coherence, Index, IInv, TypeOK
    <3>2. CASE ~is_init /\ UNCHANGED cachevars
      <4>1. CacheView = ram /\ CacheView' = ram'
        BY <2>1 DEF CacheView, MemoryView, Writing, IdleWriting, Landing
      <4>2. QED
        BY <2>1, <3>2, <4>1 DEF IInv, Coherence, cachevars
    <3>3. QED
      BY <2>1, <3>1, <3>2
  <2>5. QED
    BY <2>2, <2>3, <2>4 DEF IInv
<1>2. CASE IdleCycle \/ AnswerHit \/ AcceptRead
  <2>1. /\ hl_state = "idle" /\ ~req.write
        /\ hl_state' \in {"idle", "mem_read_0"}
        /\ hl_state' = "mem_read_0" => Reading'
        /\ ll_state' = "idle" /\ ll_addr' \in Addr
        /\ UNCHANGED <<ll_data, latch, ram, g_enabled, entry, is_init, init_addr>>
    BY <1>2, ReadyEffect DEF IInv, TypeOK, Wires, Reading
  <2>2. TypeOK'
    BY <1>0, <2>1 DEF IInv, TypeOK, HLStates, LLStates
  <2>3. InStep'
    BY <2>1 DEF InStep
  <2>4. Coherence'
    <3>1. CacheView = ram /\ CacheView' = ram'
      BY <2>1 DEF CacheView, MemoryView, Writing, IdleWriting, Landing
    <3>2. QED
      BY <2>1, <3>1 DEF IInv, Coherence
  <2>5. QED
    BY <2>2, <2>3, <2>4 DEF IInv
<1>3. CASE AcceptWrite
  <2>1. /\ hl_state = "idle" /\ req.write /\ ~is_init
        /\ hl_state' = "mem_write_0" /\ req' = req
        /\ ll_state' = "idle" /\ ll_addr' \in Addr /\ req.data \in Word
        /\ UNCHANGED <<ll_data, latch, ram, g_enabled, is_init, init_addr>>
        /\ Fill(req.addr, req.data)
    BY <1>3, AcceptWriteEffect DEF IInv, TypeOK, Wires
  <2>2. TypeOK'
    BY <1>0, <2>1, FillType DEF IInv, TypeOK, HLStates, LLStates
  <2>3. InStep'
    BY <2>1 DEF InStep
  <2>4. Coherence'
    <3>1. CacheView = ram
      BY <2>1 DEF CacheView, MemoryView, Landing, Writing, IdleWriting
    <3>2. CacheView' = [ram EXCEPT ![req.addr] = req.data]
      BY <2>1 DEF CacheView, Writing, IdleWriting
    <3>3. ram \in [Addr -> Word]
      BY DEF IInv, TypeOK
    <3>4. g_enabled => \A i \in Index : entry[i].valid =>
              entry[i].data = ram[<<entry[i].tag, i>>]
      BY <2>1, <3>1 DEF IInv, Coherence
    <3>5. g_enabled => \A i \in Index : entry'[i].valid =>
              entry'[i].data
                = [ram EXCEPT ![req.addr] = req.data][<<entry'[i].tag, i>>]
      BY <2>1, <3>3, <3>4, FillCoherent DEF IInv
    <3>6. QED
      BY <2>1, <3>2, <3>5 DEF Coherence
  <2>5. QED
    BY <2>2, <2>3, <2>4 DEF IInv
<1>4. CASE StartRead \/ AwaitRead
  <2>1. /\ hl_state \in {"mem_read_0", "mem_read_1"}
        /\ hl_state' = "mem_read_1" /\ Reading /\ req' = req
        /\ UNCHANGED <<ram, g_enabled, entry, is_init, init_addr>>
    BY <1>4, StartReadEffect, AwaitReadEffect
  <2>2. TypeOK' /\ InStep'
    <3>1. CASE StartRead
      BY <1>0, <3>1, StartReadEffect DEF IInv, TypeOK, InStep, HLStates,
         LLStates, AddrSet0, Reading, Wires
    <3>2. CASE AwaitRead
      <4>1. TypeOK'
        BY <1>0, <3>2, AwaitReadEffect DEF IInv, TypeOK, InStep, HLStates,
           LLStates, AddrSet1, Wires
      <4>2. InStep'
        BY <3>2, AwaitReadEffect DEF IInv, InStep, Reading
      <4>3. QED
        BY <4>1, <4>2
    <3>3. QED
      BY <1>4, <3>1, <3>2
  <2>3. Coherence'
    <3>1. CacheView = ram /\ CacheView' = ram'
      BY <2>1 DEF CacheView, MemoryView, Writing, IdleWriting, Landing
    <3>2. QED
      BY <2>1, <3>1 DEF IInv, Coherence
  <2>4. QED
    BY <2>2, <2>3 DEF IInv
<1>5. CASE AnswerRead
  <2>1. /\ hl_state = "mem_read_1" /\ ~is_init
        /\ ll_data = ram[req.addr] /\ ll_data \in Word
        /\ hl_state' = "idle" /\ ll_state' = "idle" /\ ll_addr' \in Addr
        /\ UNCHANGED <<ll_data, latch, ram, g_enabled, is_init, init_addr>>
        /\ Fill(req.addr, ll_data)
    BY <1>5, AnswerReadEffect DEF IInv, TypeOK, Wires
  <2>2. TypeOK'
    BY <1>0, <2>1, FillType DEF IInv, TypeOK, HLStates, LLStates
  <2>3. InStep'
    BY <2>1 DEF InStep
  <2>4. Coherence'
    <3>1. CacheView = ram /\ CacheView' = ram'
      BY <2>1 DEF CacheView, MemoryView, Writing, IdleWriting, Landing
    <3>2. ram \in [Addr -> Word] /\ [ram EXCEPT ![req.addr] = ll_data] = ram
      BY <2>1 DEF IInv, TypeOK
    <3>3. g_enabled => \A i \in Index : entry[i].valid =>
              entry[i].data = ram[<<entry[i].tag, i>>]
      BY <2>1, <3>1 DEF IInv, Coherence
    <3>4. g_enabled => \A i \in Index : entry'[i].valid =>
              entry'[i].data
                = [ram EXCEPT ![req.addr] = ll_data][<<entry'[i].tag, i>>]
      BY <2>1, <3>2, <3>3, FillCoherent DEF IInv
    <3>5. QED
      BY <2>1, <3>1, <3>2, <3>4 DEF Coherence
  <2>5. QED
    BY <2>2, <2>3, <2>4 DEF IInv
<1>6. CASE StartWrite
  <2>1. TypeOK' /\ InStep'
    BY <1>0, <1>6, StartWriteEffect DEF IInv, TypeOK, InStep, HLStates,
       LLStates, AddrSet0, Wires
  <2>2. Coherence'
    <3>1. CacheView' = CacheView
      BY <1>6, StartWriteEffect DEF CacheView, MemoryView, Writing,
         IdleWriting, Landing
    <3>2. QED
      BY <1>6, <3>1, StartWriteEffect DEF IInv, Coherence
  <2>3. QED
    BY <2>1, <2>2 DEF IInv
<1>7. CASE PassData
  <2>1. TypeOK'
    BY <1>0, <1>7, PassDataEffect DEF IInv, TypeOK, HLStates, LLStates,
       AddrSet1, Wires
  <2>2. InStep'
    BY <1>7, PassDataEffect DEF IInv, TypeOK, InStep, Wires
  <2>3. Coherence'
    <3>1. CacheView' = CacheView
      BY <1>7, PassDataEffect DEF CacheView, MemoryView, Writing,
         IdleWriting, Landing
    <3>2. QED
      BY <1>7, <3>1, PassDataEffect DEF IInv, Coherence
  <2>4. QED
    BY <2>1, <2>2, <2>3 DEF IInv
<1>8. CASE AnswerWrite
  <2>1. TypeOK' /\ InStep'
    BY <1>0, <1>8, AnswerWriteEffect DEF IInv, TypeOK, InStep, HLStates,
       LLStates, DataSet
  <2>2. Coherence'
    <3>1. CacheView' = CacheView
      BY <1>8, AnswerWriteEffect DEF CacheView, MemoryView, Writing,
         IdleWriting, Landing
    <3>2. QED
      BY <1>8, <3>1, AnswerWriteEffect DEF IInv, Coherence
  <2>3. QED
    BY <2>1, <2>2 DEF IInv
<1>9. CASE FinishWrite
  <2>1. TypeOK'
    BY <1>0, <1>9, FinishWriteEffect DEF IInv, TypeOK, InStep, HLStates,
       LLStates, DataSet, Wires
  <2>2. InStep'
    BY <1>9, FinishWriteEffect DEF IInv, InStep, DataSet
  <2>3. Coherence'
    <3>1. CacheView' = CacheView
      BY <1>9, FinishWriteEffect DEF CacheView, MemoryView, Writing,
         IdleWriting, Landing
    <3>2. QED
      BY <1>9, <3>1, FinishWriteEffect DEF IInv, Coherence
  <2>4. QED
    BY <2>1, <2>2, <2>3 DEF IInv
<1>10. QED
  BY <1>1, <1>2, <1>3, <1>4, <1>5, <1>6, <1>7, <1>8, <1>9 DEF Tick

LEMMA ResetInv == ASSUME IInv, Reset PROVE IInv'
<1> USE MemAssumption, ResetEffect
<1>1. TypeOK'
  <2>1. 0 \in Index /\ ZeroAddr \in Addr
    BY DEF Index, ZeroAddr, Addr
  <2>2. QED
    BY <2>1 DEF IInv, TypeOK, CacheReset, HLStates, LLStates
<1>2. InStep'
  BY DEF InStep
<1>3. Coherence'
  BY DEF IInv, TypeOK, Coherence, CacheReset
<1>4. QED
  BY <1>1, <1>2, <1>3 DEF IInv

LEMMA StutterInv == ASSUME IInv, UNCHANGED vars PROVE IInv'
<1> USE DEF vars
<1>1. TypeOK'
  BY DEF IInv, TypeOK
<1>2. InStep'
  BY DEF IInv, InStep, Asking, Reading
<1>3. Coherence'
  BY DEF IInv, Coherence, CacheView, MemoryView, Writing, IdleWriting, Landing
<1>4. QED
  BY <1>1, <1>2, <1>3 DEF IInv

\* The invariant holds in every reachable state of the RAM module.
THEOREM Invariance == Spec => []IInv
<1>1. IInv /\ [Next]_vars => IInv'
  BY TickInv, ResetInv, StutterInv DEF Next
<1>2. QED
  BY <1>1, InitInv, PTL DEF Spec

-----------------------------------------------------------------------------
(* Safety: what the invariant implies in each state.                       *)

\* The RAM module's registers always hold what they should.
THEOREM TypeCorrect == Spec => []TypeOK
  BY Invariance, PTL DEF IInv

\* With the cache enabled, a ready controller's cache agrees with the chip,
\* whatever resets came in between.
THEOREM Coherent == Spec => []CacheCoherent
<1>1. IInv => CacheCoherent
  <2> SUFFICES ASSUME IInv, g_enabled, o_ready
               PROVE  \A i \in Index : entry[i].valid =>
                        entry[i].data = ram[<<entry[i].tag, i>>]
    BY DEF CacheCoherent
  <2>1. hl_state = "idle" /\ ~is_init
    BY DEF o_ready, IInv, Coherence
  <2>2. CacheView = ram
    BY <2>1 DEF CacheView, MemoryView, Writing, IdleWriting, Landing
  <2>3. QED
    BY <2>1, <2>2 DEF IInv, Coherence
<1>2. QED
  BY <1>1, Invariance, PTL

LEMMA ReadAnswer == IInv => ReadReturnsChipWord
<1> SUFFICES ASSUME IInv, o_output, req.read, ~req.write
             PROVE  IOBus = ram[req.addr]
  BY DEF ReadReturnsChipWord
<1> USE MemAssumption DEF IInv, TypeOK
<1>1. CASE ReadHit
  <2>1. hl_state = "idle" /\ ~is_init /\ g_enabled
    BY <1>1 DEF ReadHit, Coherence, CacheHit
  <2>2. CacheView = ram
    BY <2>1 DEF CacheView, MemoryView, Writing, IdleWriting, Landing
  <2>3. req.addr \in Addr /\ IndexOf(req.addr) \in Index
        /\ <<TagOf(req.addr), IndexOf(req.addr)>> = req.addr
    BY AddrParts DEF Wires
  <2>4. entry[IndexOf(req.addr)].data = ram[req.addr]
    BY <1>1, <2>1, <2>2, <2>3 DEF ReadHit, CacheHit, Coherence
  <2>5. CacheBus = ram[req.addr]
    <3>1. HLToCache = Z
      BY <1>1, <2>1 DEF HLToCache, IdleWriting, ReadDone, ReadHit
    <3>2. CacheOut = entry[IndexOf(req.addr)].data
      BY <1>1, <2>1 DEF CacheOut, CacheDrive, ReadHit, cache_read, cache_write,
                        IdleWriting, ReadDone
    <3>3. QED
      BY <2>4, <3>1, <3>2 DEF CacheBus, Resolve
  <2>6. QED
    BY <1>1, <2>5 DEF IOBus, ClientDrive, HLToIO, Resolve
<1>2. CASE ReadDone
  <2>1. hl_state = "mem_read_1" /\ ll_state = "idle" /\ ll_data = ram[req.addr]
    BY <1>2 DEF ReadDone, LLReady, InStep
  <2>2. LLBus = ll_data
    BY <2>1 DEF LLBus, HLToLL, LLDataDrive, LLReady, Resolve
  <2>3. ~ReadHit
    BY <2>1 DEF ReadHit
  <2>4. QED
    BY <1>2, <2>1, <2>2, <2>3 DEF IOBus, ClientDrive, HLToIO, Resolve
<1>3. CASE hl_state = "mem_write_2"
  BY <1>3 DEF InStep, Asking
<1>4. QED
  BY <1>1, <1>2, <1>3 DEF o_output

\* Every read is answered with the word the chip holds at its address.
THEOREM ReadsReturnChipWord == Spec => []ReadReturnsChipWord
  BY ReadAnswer, Invariance, PTL

\* No bus is driven from both ends.
THEOREM BusesNeverContended == Spec => []NoContention
<1>1. IInv => NoContention
  <2> SUFFICES ASSUME IInv PROVE NoContention
    OBVIOUS
  <2>1. ~Contended(LLBusDrive, RamBusDrive)
    BY DEF Contended, LLBusDrive, RamBusDrive, MemNoe, AddrSet0, AddrSet1,
           DataSet
  <2>2. ~Contended(HLToLL, LLDataDrive)
    BY DEF Contended, HLToLL, LLDataDrive, LLReady, IInv, InStep
  <2>3. ~Contended(HLToCache, CacheOut)
    BY DEF Contended, HLToCache, CacheOut, CacheDrive, cache_write
  <2>4. ~Contended(ClientDrive, HLToIO)
    BY DEF Contended, ClientDrive, HLToIO, ReadHit, ReadDone, LLReady, IInv,
           InStep, Reading
  <2>5. QED
    BY <2>1, <2>2, <2>3, <2>4 DEF NoContention
<1>2. QED
  BY <1>1, Invariance, PTL

\* The chip stores only the write just answered, and stores it right.
THEOREM ChipStoresAnswered == Spec => StoresOnlyAnswered
<1>1. IInv /\ [Next]_vars =>
        [ram' # ram =>
           /\ hl_state = "mem_write_3"
           /\ ram' = [ram EXCEPT ![ll_addr] = ll_data]]_vars
  BY InitCycleEffect, ReadyEffect, AcceptWriteEffect, StartReadEffect,
     AwaitReadEffect, AnswerReadEffect, StartWriteEffect, PassDataEffect,
     AnswerWriteEffect, FinishWriteEffect, ResetEffect
  DEF Next, Tick, vars
<1>2. QED
  BY <1>1, Invariance, PTL DEF Spec, StoresOnlyAnswered

\* Nothing samples a floating bus or strobes the chip at an undefined address.
THEOREM OnlyDrivenSampled == Spec => []SampledIsDriven
<1>1. IInv => SampledIsDriven
  <2> SUFFICES ASSUME IInv PROVE SampledIsDriven
    OBVIOUS
  <2> USE MemAssumption DEF IInv, TypeOK
  <2>1. req.addr \in Addr /\ req.data \in Word
    BY DEF Wires
  <2>2. ASSUME o_output, ~req.write, hl_state # "mem_write_2"
        PROVE  IOBus \in Word
    <3>1. req.read
      BY <2>2 DEF o_output, ReadHit, ReadDone, LLReady, InStep, Reading
    <3>2. QED
      BY <2>1, <2>2, <3>1, ReadAnswer DEF ReadReturnsChipWord
  <2>3. ASSUME cache_write PROVE CacheBus \in Word
    <3>1. CacheOut = Z
      BY <2>3 DEF CacheOut, CacheDrive
    <3>2. HLToCache \in Word
      <4>1. CASE IdleWriting
        BY <2>1, <4>1 DEF HLToCache, ClientDrive, IdleWriting
      <4>2. CASE ReadDone
        <5>1. hl_state = "mem_read_1" /\ ll_state = "idle"
          BY <4>2 DEF ReadDone, LLReady
        <5>2. LLBus = ll_data /\ ll_data \in Word
          BY <2>1, <5>1 DEF LLBus, HLToLL, LLDataDrive, LLReady, Resolve, InStep
        <5>3. QED
          BY <4>2, <5>1, <5>2 DEF HLToCache, IdleWriting
      <4>3. QED
        BY <2>3, <4>1, <4>2 DEF cache_write
    <3>3. QED
      BY <3>1, <3>2 DEF CacheBus, Resolve
  <2>4. ASSUME ll_state = "wr_addr_set_0" PROVE LLBus \in Word
    <3>1. hl_state = "mem_write_1" /\ req.write
      BY <2>4 DEF InStep, HLStates, DataSet
    <3>2. QED
      BY <2>1, <2>4, <3>1 DEF LLBus, HLToLL, ClientDrive, LLDataDrive, LLReady,
                              Resolve
  <2>5. ASSUME ~MemNwe PROVE latch \in Addr /\ MemBus \in Word
    <3>1. ll_state = "wr_data_set_1"
      BY <2>5 DEF MemNwe
    <3>2. latch \in Addr /\ ll_data \in Word
      BY <3>1 DEF InStep, HLStates, DataSet
    <3>3. LLBusDrive = ll_data /\ RamBusDrive = Z
      BY <3>1 DEF LLBusDrive, RamBusDrive, MemNoe, DataSet, AddrSet0, AddrSet1
    <3>4. QED
      BY <3>2, <3>3 DEF MemBus, Resolve
  <2>6. QED
    BY <2>2, <2>3, <2>4, <2>5 DEF SampledIsDriven
<1>2. QED
  BY <1>1, Invariance, PTL

-----------------------------------------------------------------------------
(* The refinement: every step of the module is a step of the atomic memory *)
(* or leaves it unchanged.                                                 *)

\* Where the controller is ready the answer is that of a hit, if any
ReadyOutputs ==
  /\ MemoryView = ram
  /\ ~Asking => AskMap = NoReq /\ AnswerMap = NoAnswer
  /\ Asking => AskMap \in Atomic!Ask
  /\ \/ AnswerMap = NoAnswer
     \/ AskMap.op = "read" /\ AnswerMap = ram[AskMap.addr]

LEMMA ReadyAnswer == IInv /\ o_ready => ReadyOutputs
<1> SUFFICES ASSUME IInv, hl_state = "idle" PROVE ReadyOutputs
  BY DEF o_ready
<1> USE DEF IInv, TypeOK
<1>1. MemoryView = ram
  BY DEF MemoryView, Landing
<1>2. o_output <=> ReadHit
  BY DEF o_output, ReadDone
<1>3. ASSUME ~Asking PROVE AskMap = NoReq /\ AnswerMap = NoAnswer
  BY <1>2, <1>3 DEF Asking, AskMap, AnswerMap, ReadHit
<1>4. ASSUME Asking PROVE AskMap \in Atomic!Ask
  BY <1>4 DEF Asking, AskMap, Atomic!Ask, Wires
<1>5. AnswerMap = NoAnswer \/ (AskMap.op = "read" /\ AnswerMap = ram[AskMap.addr])
  BY <1>2, ReadAnswer DEF AnswerMap, ReadReturnsChipWord, AskMap, ReadHit
<1>6. QED
  BY <1>1, <1>3, <1>4, <1>5 DEF ReadyOutputs

\* Inside an access nothing is answered but in ReadDone and mem_write_2
LEMMA BusyAnswer ==
  ASSUME hl_state # "idle", hl_state # "mem_write_2", ~ReadDone
  PROVE  AnswerMap = NoAnswer
  BY DEF AnswerMap, o_output, ReadHit

\* An answer is never the token for no answer
LEMMA AnswerIsOne ==
  ASSUME IInv, o_output
  PROVE  AnswerMap # NoAnswer
<1> USE MemAssumption DEF IInv, TypeOK
<1>1. CASE hl_state = "mem_write_2"
  BY <1>1 DEF AnswerMap, Done, NoAnswer
<1>2. CASE hl_state # "mem_write_2"
  <2>1. req.read /\ ~req.write /\ req.addr \in Addr
    BY <1>2 DEF o_output, ReadHit, ReadDone, LLReady, InStep, Reading, Wires
  <2>2. IOBus \in Word
    BY <2>1, ReadAnswer DEF ReadReturnsChipWord
  <2>3. QED
    BY <1>2, <2>2 DEF AnswerMap, NoAnswer
<1>3. QED
  BY <1>1, <1>2

LEMMA RefineInit == Init => Atomic!AInit
  BY DEF Init, RamInit, Atomic!AInit, MemoryView, Landing, AskMap, AnswerMap,
         Quiet, o_output, ReadHit, ReadDone, NoReq, NoAnswer

\* The edges that end in a ready controller: a request withdrawn, issued, or
\* both
LEMMA RefineToReady ==
  ASSUME IInv, IInv', ClientTick, hl_state' = "idle",
         MemoryView = ram, ram' = ram,
         (~Asking /\ ~o_output) \/ o_output
  PROVE  [Atomic!ANext]_(Atomic!avars)
<1>1. /\ MemoryView' = ram'
      /\ ~Asking' => AskMap' = NoReq /\ AnswerMap' = NoAnswer
      /\ Asking' => AskMap' \in Atomic!Ask
      /\ \/ AnswerMap' = NoAnswer
         \/ AskMap'.op = "read" /\ AnswerMap' = ram'[AskMap'.addr]
  <2>1. o_ready'
    BY DEF o_ready
  <2>2. ReadyOutputs'
    BY <2>1, ReadyAnswer, PTL
  <2>3. QED
    BY <2>2 DEF ReadyOutputs
<1>2. o_output => AnswerMap # NoAnswer
  BY AnswerIsOne
<1>3. ~o_output => AnswerMap = NoAnswer
  BY DEF AnswerMap
<1>4. ~Asking => AskMap = NoReq
  BY DEF Asking, AskMap
<1>5. CASE Asking'
  <2>1. Atomic!Issue
    BY <1>1, <1>2, <1>4, <1>5 DEF Atomic!Issue
  <2>2. QED
    BY <2>1 DEF Atomic!ANext
<1>6. CASE ~Asking' /\ o_output
  <2>1. Atomic!Release
    BY <1>1, <1>2, <1>6 DEF Atomic!Release
  <2>2. QED
    BY <2>1 DEF Atomic!ANext
<1>7. CASE ~Asking' /\ ~o_output
  BY <1>1, <1>3, <1>4, <1>7 DEF Atomic!avars
<1>8. QED
  BY <1>5, <1>6, <1>7

\* The edges inside an access: accepted, on its way, answered, landed
LEMMA RefineInside ==
  ASSUME IInv, IInv',
         \/ AcceptWrite \/ AcceptRead \/ StartRead \/ AwaitRead
         \/ StartWrite \/ PassData \/ AnswerWrite
         \/ FinishWrite /\ hl_state' = "mem_write_3"
  PROVE  [Atomic!ANext]_(Atomic!avars)
<1>1. CASE AcceptWrite \/ AcceptRead \/ StartRead \/ StartWrite
  <2>1. /\ hl_state \in {"idle", "mem_read_0", "mem_write_0"} /\ ~o_output
        /\ hl_state' \in {"mem_read_0", "mem_read_1", "mem_write_0", "mem_write_1"}
        /\ (hl_state' = "mem_read_1" => ll_state' # "idle")
        /\ req' = req /\ ram' = ram
    BY <1>1, AcceptWriteEffect, ReadyEffect, StartReadEffect, StartWriteEffect
    DEF o_output, ReadHit, ReadDone, AcceptRead, ReadMiss
  <2>2. MemoryView' = MemoryView /\ AskMap' = AskMap
    BY <2>1 DEF MemoryView, Landing, AskMap
  <2>3. AnswerMap = NoAnswer /\ AnswerMap' = NoAnswer
    BY <2>1 DEF AnswerMap, o_output, ReadHit, ReadDone, LLReady
  <2>4. QED
    BY <2>1, <2>2, <2>3 DEF Atomic!avars
<1>2. CASE AwaitRead
  <2>1. /\ hl_state = "mem_read_1" /\ hl_state' = "mem_read_1" /\ Reading
        /\ req' = req /\ ram' = ram /\ ~ReadDone
    BY <1>2, AwaitReadEffect DEF AwaitRead, ReadDone
  <2>2. MemoryView' = ram /\ MemoryView = ram /\ AskMap' = AskMap
        /\ AskMap = [op |-> "read", addr |-> req.addr]
    BY <2>1 DEF MemoryView, Landing, AskMap, Reading
  <2>3. AnswerMap = NoAnswer
    BY <2>1, BusyAnswer
  <2>4. CASE ReadDone'
    <3>1. IOBus' = ram[req.addr]
      <4>1. ReadReturnsChipWord'
        BY ReadAnswer, PTL
      <4>2. QED
        BY <2>1, <2>4, <4>1 DEF ReadReturnsChipWord, o_output, Reading
    <3>2. AnswerMap' = ram[req.addr]
      BY <2>1, <2>4, <3>1 DEF AnswerMap, o_output
    <3>3. Atomic!AnswerRead
      BY <2>1, <2>2, <2>3, <3>2 DEF Atomic!AnswerRead, NoReq
    <3>4. QED
      BY <3>3 DEF Atomic!ANext
  <2>5. CASE ~ReadDone'
    <3>1. AnswerMap' = NoAnswer
      BY <2>1, <2>5 DEF AnswerMap, o_output, ReadHit
    <3>2. QED
      BY <2>1, <2>2, <2>3, <3>1 DEF Atomic!avars
  <2>6. QED
    BY <2>4, <2>5
<1>3. CASE PassData
  <2>1. /\ hl_state = "mem_write_1" /\ req.write /\ ll_addr' = req.addr
        /\ hl_state' = "mem_write_2" /\ (req' = req \/ ~Asking')
        /\ ll_data' = req.data /\ ram' = ram
    BY <1>3, PassDataEffect
  <2>2. /\ MemoryView = ram /\ MemoryView' = [ram EXCEPT ![req.addr] = req.data]
        /\ AskMap = [op |-> "write", addr |-> req.addr, data |-> req.data]
        /\ AskMap' \in {AskMap, NoReq}
    BY <2>1 DEF MemoryView, Landing, AskMap, Asking
  <2>3. AnswerMap = NoAnswer /\ AnswerMap' = Done
    BY <2>1, BusyAnswer DEF ReadDone, AnswerMap, o_output
  <2>4. Atomic!AnswerWrite
    BY <2>1, <2>2, <2>3 DEF Atomic!AnswerWrite, NoReq
  <2>5. QED
    BY <2>4 DEF Atomic!ANext
<1>4. CASE AnswerWrite
  <2>1. /\ hl_state = "mem_write_2" /\ hl_state' = "mem_write_3" /\ ~Asking'
        /\ ll_state' = "wr_data_set_0" /\ UNCHANGED <<ll_addr, ll_data, ram>>
    BY <1>4, AnswerWriteEffect
  <2>2. MemoryView' = MemoryView /\ AskMap' = NoReq
    BY <2>1 DEF MemoryView, Landing, AskMap, Asking
  <2>3. AnswerMap # NoAnswer /\ AnswerMap' = NoAnswer
    <3>1. o_output
      BY <2>1 DEF o_output
    <3>2. AnswerMap' = NoAnswer
      BY <2>1 DEF AnswerMap, o_output, ReadHit, ReadDone
    <3>3. QED
      BY <3>1, <3>2, AnswerIsOne
  <2>4. Atomic!Release
    BY <2>1, <2>2, <2>3 DEF Atomic!Release
  <2>5. QED
    BY <2>4 DEF Atomic!ANext
<1>5. CASE FinishWrite /\ hl_state' = "mem_write_3"
  <2>1. /\ hl_state = "mem_write_3" /\ hl_state' = "mem_write_3"
        /\ ~Asking /\ ~Asking'
    BY <1>5, FinishWriteEffect
  <2>2. /\ AskMap = NoReq /\ AskMap' = NoReq
        /\ AnswerMap = NoAnswer /\ AnswerMap' = NoAnswer
    BY <2>1 DEF AskMap, Asking, AnswerMap, o_output, ReadHit, ReadDone
  <2>3. CASE ll_state = "wr_data_set_0"
    <3>1. /\ ll_state' = "wr_data_set_1"
          /\ ram' = [ram EXCEPT ![ll_addr] = ll_data]
      BY <1>5, <2>3, FinishWriteEffect
    <3>2. ram' = MemoryView /\ MemoryView' = MemoryView
      BY <2>1, <2>3, <3>1 DEF MemoryView, Landing
    <3>3. CASE ram = MemoryView
      BY <2>2, <3>2, <3>3 DEF Atomic!avars
    <3>4. CASE ram # MemoryView
      <4>1. Atomic!Land
        BY <2>2, <3>2, <3>4 DEF Atomic!Land
      <4>2. QED
        BY <4>1 DEF Atomic!ANext
    <3>5. QED
      BY <3>3, <3>4
  <2>4. CASE ll_state # "wr_data_set_0"
    <3>1. ll_state' # "wr_data_set_0" /\ ram' = ram
      BY <1>5, <2>4, FinishWriteEffect
    <3>2. MemoryView = ram /\ MemoryView' = ram'
      BY <2>1, <2>4, <3>1 DEF MemoryView, Landing
    <3>3. QED
      BY <2>2, <3>1, <3>2 DEF Atomic!avars
  <2>5. QED
    BY <2>3, <2>4
<1>6. QED
  BY <1>1, <1>2, <1>3, <1>4, <1>5

LEMMA RefineTick == ASSUME IInv, IInv', Tick PROVE [Atomic!ANext]_(Atomic!avars)
<1>1. CASE InitCycle
  <2>1. /\ hl_state = "init" /\ ~Asking /\ ram' = ram /\ ~o_output /\ ClientTick
        /\ hl_state' = "idle" \/ (hl_state' = "init" /\ ~Asking')
    <3>1. /\ hl_state' = (IF CacheReady THEN "idle" ELSE "init")
          /\ ~Asking /\ (CacheReady \/ ~Asking') /\ ram' = ram
      BY <1>1, InitCycleEffect
    <3>2. hl_state = "init" /\ ClientTick
      BY <1>1 DEF InitCycle, Cycle
    <3>3. QED
      BY <3>1, <3>2 DEF o_output, ReadHit, ReadDone
  <2>2. MemoryView = ram
    BY <2>1 DEF MemoryView, Landing
  <2>3. CASE hl_state' = "idle"
    BY <2>1, <2>2, <2>3, RefineToReady
  <2>4. CASE hl_state' = "init" /\ ~Asking'
    <3>1. /\ AskMap = NoReq /\ AskMap' = NoReq
          /\ AnswerMap = NoAnswer /\ AnswerMap' = NoAnswer
          /\ MemoryView' = ram'
      BY <2>1, <2>4 DEF AskMap, Asking, AnswerMap, o_output, ReadHit, ReadDone,
                        MemoryView, Landing
    <3>2. QED
      BY <2>1, <2>2, <3>1 DEF Atomic!avars
  <2>5. QED
    BY <2>1, <2>3, <2>4
<1>2. CASE IdleCycle \/ AnswerHit
  <2>1. hl_state = "idle" /\ hl_state' = "idle" /\ ram' = ram
    BY <1>2, ReadyEffect DEF IdleCycle, AnswerHit, Cycle
  <2>2. ClientTick /\ ((~Asking /\ ~o_output) \/ o_output)
    BY <1>2, <2>1 DEF IdleCycle, AnswerHit, Cycle, Asking, o_output, ReadHit,
                      ReadDone
  <2>3. MemoryView = ram
    BY <2>1 DEF MemoryView, Landing
  <2>4. QED
    BY <2>1, <2>2, <2>3, RefineToReady
<1>3. CASE AnswerRead
  <2>1. hl_state = "mem_read_1" /\ hl_state' = "idle" /\ ram' = ram
    BY <1>3, AnswerReadEffect
  <2>2. ClientTick /\ o_output
    BY <1>3 DEF AnswerRead, Cycle, o_output
  <2>3. MemoryView = ram
    BY <2>1 DEF MemoryView, Landing
  <2>4. QED
    BY <2>1, <2>2, <2>3, RefineToReady
<1>4. CASE FinishWrite /\ hl_state' = "idle"
  <2>1. /\ hl_state = "mem_write_3" /\ ~Asking /\ ram' = ram
        /\ ll_state # "wr_data_set_0"
    BY <1>4, FinishWriteEffect
  <2>2. ClientTick /\ ~o_output
    BY <1>4, <2>1 DEF FinishWrite, Cycle, o_output, ReadHit, ReadDone
  <2>3. MemoryView = ram
    BY <2>1 DEF MemoryView, Landing
  <2>4. QED
    BY <1>4, <2>1, <2>2, <2>3, RefineToReady
<1>5. FinishWrite => hl_state' \in {"idle", "mem_write_3"}
  BY FinishWriteEffect
<1>6. QED
  BY <1>1, <1>2, <1>3, <1>4, <1>5, RefineInside DEF Tick

LEMMA RefineReset == ASSUME IInv, Reset PROVE [Atomic!ANext]_(Atomic!avars)
<1>1. hl_state' = "init" /\ ~Asking' /\ ram' = ram
  BY ResetEffect
<1>2. MemoryView' = ram /\ AskMap' = NoReq /\ AnswerMap' = NoAnswer
  BY <1>1 DEF MemoryView, Landing, AskMap, Asking, AnswerMap, o_output, ReadHit,
              ReadDone
<1>3. Atomic!Forget
  BY <1>1, <1>2 DEF Atomic!Forget
<1>4. QED
  BY <1>3 DEF Atomic!ANext

\* The RAM module, with its cache, its driver, the chip, and resets at any
\* edge, behaves as the atomic memory.
THEOREM RefinesAtomicMemory == Spec => AtomicMemorySafety
<1>1. IInv /\ [Next]_vars => [Atomic!ANext]_(Atomic!avars)
  <2> SUFFICES ASSUME IInv, [Next]_vars PROVE [Atomic!ANext]_(Atomic!avars)
    OBVIOUS
  <2>1. CASE Tick
    BY <2>1, TickInv, RefineTick
  <2>2. CASE Reset
    BY <2>2, RefineReset
  <2>3. CASE UNCHANGED vars
    <3>1. UNCHANGED <<MemoryView, ram, AskMap, AnswerMap>>
      <4>1. MemoryView' = MemoryView /\ ram' = ram /\ AskMap' = AskMap
        BY <2>3 DEF vars, MemoryView, Landing, AskMap
      <4>2. (o_output <=> o_output') /\ IOBus' = IOBus
        BY <2>3 DEF vars, o_output, ReadHit, ReadDone, LLReady, CacheHit, IOBus,
           ClientDrive, HLToIO, CacheBus, LLBus, HLToLL, LLDataDrive, HLToCache,
           CacheOut, CacheDrive, cache_read, cache_write, IdleWriting, Resolve
      <4>3. QED
        BY <2>3, <4>1, <4>2 DEF vars, AnswerMap
    <3>2. QED
      BY <3>1 DEF Atomic!avars
  <2>4. QED
    BY <2>1, <2>2, <2>3 DEF Next
<1>2. QED
  BY <1>1, RefineInit, Invariance, PTL DEF Spec, AtomicMemorySafety
=============================================================================
