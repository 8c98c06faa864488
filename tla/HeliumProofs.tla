---------------------------- MODULE HeliumProofs ----------------------------
(***************************************************************************)
(* The CPU and the driver of its memory keep in step, every register holds *)
(* a word, and memory is seen as if there were no driver: for any program. *)
(***************************************************************************)
EXTENDS Helium, WordsProofs, TLAPS

\* The cycle has an access to memory.
Access == ctrl_mem_re \/ ctrl_mem_we

States == {"idle", "read_wait_0", "write_wait_1"} \union DOMAIN Following

\* send_req, which the CPU goes by, is set exactly while the driver is idle.
\* While it is not, the cycle still has the access, and in cycle 1 the line of
\* the tlb for it.
InStep ==
    /\ mode \in Modes /\ cur_cycle \in {0, 1}
    /\ d_state \in States
    /\ send_req \in BOOLEAN
    /\ send_req <=> d_state = "idle"
    /\ ~send_req => Access /\ (cur_cycle = 1 => ~tlb_miss)

LEMMA InStepImplies == InStep => RequestsMeetIdle
  BY DEF InStep, RequestsMeetIdle, mem_re, mem_we

LEMMA InitInStep == Init => InStep
  BY DEF Init, PsramInit, InStep, States, Modes

-----------------------------------------------------------------------------
(* The driver.                                                               *)

LEMMA DriverMoves ==
    ASSUME NEW re \in BOOLEAN, NEW we \in BOOLEAN, d_state \in States,
           d_state' = StateIn(re, we)
    PROVE  /\ d_state' \in States
           /\ d_state = "idle" => (d_state' = "idle" <=> Ready(re, we))
           /\ d_state # "idle" => (d_state' = "idle" <=> Ready(re, we))
  BY DEF States, StateIn, Ready, Following, DeviceReady

-----------------------------------------------------------------------------
(* The CPU.                                                                  *)

\* An instruction that accesses memory changes nothing that translation uses.
LEMMA AccessIsPlain ==
    ASSUME NEW w, Controls(FALSE, w) \intersect {"mrd", "mwr"} # {}
    PROVE  "iwr" \notin Controls(FALSE, w) /\ "pxw" \notin Controls(FALSE, w)
  <1>1. ASSUME NEW o
        PROVE  /\ "iwr" \notin RowOfImmediate(o) /\ "pxw" \notin RowOfImmediate(o)
               /\ "iwr" \notin RowOfOneRegister(o) /\ "pxw" \notin RowOfOneRegister(o)
    BY DEF RowOfImmediate, RowOfOneRegister
  <1>2. ASSUME NEW o
        PROVE  "iwr" \notin RowOfRegisters(o) /\ "pxw" \notin RowOfRegisters(o)
    BY <1>1 DEF RowOfRegisters
  <1>3. ASSUME NEW o
        PROVE  /\ "iwr" \notin RowOfSystem(o)
               /\ "mrd" \notin RowOfSystem(o) /\ "mwr" \notin RowOfSystem(o)
    BY DEF RowOfSystem
  <1> QED BY <1>1, <1>2, <1>3 DEF Controls, Row

\* What a tick leaves alone while the cycle waits.
LEMMA WaitKeeps ==
    ASSUME mode \in Modes, Control, Registers, ~advance
    PROVE  /\ cur_cycle' = cur_cycle /\ mode' = mode
           /\ ui' = ui /\ regs' = regs /\ ext' = ext
           /\ cur_cycle = 1 /\ ~tlb_miss => instr' = instr /\ ip'[mode] = ip[mode]
  <1>1. ~finish /\ ~state_update
    BY DEF finish, state_update
  <1>2. /\ cur_cycle' = cur_cycle /\ mode' = mode
        /\ ui' = ui /\ regs' = regs /\ ext' = ext
    BY <1>1 DEF Control, Registers
  <1>3. ASSUME cur_cycle = 1, ~tlb_miss
        PROVE  instr' = instr /\ ip'[mode] = ip[mode]
    <2>1. instr' = instr
      BY <1>3 DEF Control
    <2>2. ip' = ips
      BY DEF Control
    <2>3. ips[mode] = ip[mode]
      BY <1>1, <1>3 DEF ips, Modes
    <2> QED BY <2>1, <2>2, <2>3
  <1> QED BY <1>2, <1>3

\* While a request waits in cycle 1, the access and its line stay.
LEMMA LineStays ==
    ASSUME mode \in Modes, Control, Registers, InternalMemory, System,
           ~advance, cur_cycle = 1, Access, ~tlb_miss
    PROVE  Access' /\ ~tlb_miss'
  <1>1. /\ cur_cycle' = cur_cycle /\ mode' = mode /\ ui' = ui /\ regs' = regs
        /\ ext' = ext /\ instr' = instr /\ ip'[mode] = ip[mode]
    BY WaitKeeps
  <1>2. micro' = micro /\ word' = word
    BY <1>1 DEF micro, word
  <1>3. controls' = controls /\ rf' = rf /\ imm_ze' = imm_ze
    BY <1>1, <1>2 DEF controls, rf, imm_ze
  <1>4. Access'
    BY <1>1, <1>3 DEF Access, ctrl_mem_re, ctrl_mem_we
  <1>5. CASE mode # "er"
    BY <1>1, <1>4, <1>5 DEF tlb_miss
  <1>6. CASE mode = "er"
    <2>1. controls \intersect {"mrd", "mwr"} # {}
      BY DEF Access, ctrl_mem_re, ctrl_mem_we
    <2>2. "iwr" \notin controls /\ "pxw" \notin controls
      <3>1. micro = FALSE
        BY <1>6 DEF micro
      <3>2. controls = Controls(FALSE, word)
        BY <3>1 DEF controls
      <3> QED BY <2>1, <3>2, AccessIsPlain
    <2>3. imem_low' = imem_low
      BY <2>2 DEF InternalMemory
    <2>4. pid' = pid /\ (paging_en' <=> paging_en)
      BY <2>2 DEF System, Update
    <2>5. rs' = rs /\ operand1' = operand1
      BY <1>1, <1>2, <1>3 DEF rs, operand1
    <2>6. v_addr' = v_addr
      BY <1>1, <1>3, <2>5 DEF v_addr, SpIn, Writes, Accesses, instr_addr
    <2>7. tlb_miss' <=> tlb_miss
      BY <1>1, <2>3, <2>4, <2>6 DEF tlb_miss, tlb_entry, tlb_pid
    <2> QED BY <1>4, <2>7
  <1> QED BY <1>5, <1>6

\* The requests, by what the driver and the translation say.
LEMMA Requests ==
    ASSUME InStep
    PROVE  /\ mem_re \in BOOLEAN /\ mem_we \in BOOLEAN
           /\ ~send_req => ~mem_re /\ ~mem_we
           /\ send_req => (mem_re \/ mem_we <=> Access /\ ~tlb_miss)
  BY DEF InStep, mem_re, mem_we, Access, ctrl_mem_re, ctrl_mem_we, tlb_miss

\* The cycle ends exactly where the driver becomes idle; while it does not, it
\* has the access and its line.
LEMMA Waits ==
    ASSUME InStep, Edge
    PROVE  /\ d_state' \in States /\ (advance <=> d_state' = "idle")
           /\ ~advance => Access /\ (cur_cycle = 1 => ~tlb_miss)
  <1>1. /\ mem_re \in BOOLEAN /\ mem_we \in BOOLEAN
        /\ ~send_req => ~mem_re /\ ~mem_we
        /\ send_req => (mem_re \/ mem_we <=> Access /\ ~tlb_miss)
    BY Requests
  <1>2. d_state' = StateIn(mem_re, mem_we)
    BY DEF Edge, PsramTick, DriverTick
  <1>3. /\ d_state' \in States
        /\ d_state' = "idle" <=> Ready(mem_re, mem_we)
    BY <1>1, <1>2, DriverMoves DEF InStep
  <1>4. advance <=> (Access => Ready(mem_re, mem_we))
    BY DEF advance, Access
  <1>5. ~Access => Ready(mem_re, mem_we)
    BY <1>1 DEF InStep, Ready
  <1>6. ~advance => Access /\ (cur_cycle = 1 => ~tlb_miss)
    BY <1>1, <1>4 DEF InStep, Ready
  <1> QED BY <1>3, <1>4, <1>5, <1>6

LEMMA InStepKept == InStep /\ [Next]_vars => InStep'
  <1> SUFFICES ASSUME InStep, [Next]_vars PROVE InStep'
    OBVIOUS
  <1>1. CASE Edge
    <2> USE <1>1
    <2>1. /\ d_state' \in States /\ (advance <=> d_state' = "idle")
          /\ ~advance => Access /\ (cur_cycle = 1 => ~tlb_miss)
      BY Waits
    <2>2. send_req' = advance
      BY DEF Edge, Control
    <2>3. mode' \in Modes /\ cur_cycle' \in {0, 1}
      BY DEF Edge, Control, execution_mode_in, Modes, InStep
    <2>4. ASSUME ~advance
          PROVE  Access' /\ (cur_cycle' = 1 => ~tlb_miss')
      <3>1. Access /\ (cur_cycle = 1 => ~tlb_miss)
        BY <2>1, <2>4
      <3>2. cur_cycle' = cur_cycle /\ mode' = mode
        BY <2>4, WaitKeeps DEF Edge, InStep
      <3>3. CASE cur_cycle = 1
        BY <2>4, <3>1, <3>3, LineStays DEF Edge, InStep
      <3>4. CASE cur_cycle = 0
        BY <3>1, <3>2, <3>4 DEF Access, ctrl_mem_re, ctrl_mem_we
      <3> QED BY <3>3, <3>4 DEF InStep
    <2> QED BY <2>1, <2>2, <2>3, <2>4 DEF InStep, advance
  <1>2. CASE UNCHANGED vars
    <2>1. /\ UNCHANGED <<cur_cycle, send_req, mode, instr, ip, ui, regs, ext>>
          /\ UNCHANGED <<imem_low, pid, paging_en, d_state>>
      BY <1>2 DEF vars, cpuVars, psramVars, driverVars
    <2>2. micro' = micro /\ word' = word
      BY <2>1 DEF micro, word
    <2>3. controls' = controls /\ rf' = rf /\ rs' = rs /\ imm_ze' = imm_ze
      BY <2>1, <2>2 DEF controls, rf, rs, imm_ze
    <2>4. v_addr' = v_addr
      BY <2>1, <2>3 DEF v_addr, SpIn, Writes, Accesses, instr_addr, operand1
    <2>5. (Access' <=> Access) /\ (tlb_miss' <=> tlb_miss)
      BY <2>1, <2>3, <2>4 DEF Access, ctrl_mem_re, ctrl_mem_we, tlb_miss, tlb_entry, tlb_pid
    <2> QED BY <2>1, <2>5 DEF InStep
  <1> QED BY <1>1, <1>2 DEF Next, Tick, Stays

\* Whatever program memory holds, the CPU asks for memory only when the driver
\* is idle and takes the request: none is lost, and none breaks into another.
THEOREM RequestsMeet == Spec => []RequestsMeetIdle
  <1>1. Spec => []InStep
    BY InitInStep, InStepKept, PTL DEF Spec
  <1> QED BY <1>1, InStepImplies, PTL

-----------------------------------------------------------------------------
(* The driver and the device.                                                *)

\* The device was told the address, and has a half of the word.
Asked  == m_addr[1] = addr_saved[1] /\ m_addr[2] = addr_saved[2]
Stored1 == RamAt(Joined(addr_saved))[1] = data_saved[1]
Stored2 == RamAt(Joined(addr_saved))[2] = data_saved[2]

\* The state of the device in each of the driver's, and what has gone over the
\* bus by then.
InPhase ==
    /\ \A a \in DOMAIN ram : DOMAIN ram[a] = {1, 2}
    /\ d_state \in {"idle", "read_addr_0", "write_addr_0", "read_read_1", "write_fin"} =>
            m_state = "start" /\ m_drive = Floating
    /\ d_state \in {"read_addr_1", "read_addr_2"} =>
            m_state = "read_addr" /\ m_drive = Floating /\ m_addr[1] = addr_saved[1]
    /\ d_state = "read_addr_3" => m_state = "read_wait_0" /\ m_drive = Floating /\ Asked
    /\ d_state = "read_wait_0" =>
            /\ Asked
            /\ \/ m_state = "read_wait_0"
               \/ m_state = "read_read_0" /\ m_drive = RamAt(Joined(addr_saved))[1]
    /\ d_state = "read_wait_1" => m_state = "read_wait_1" /\ Asked
    /\ d_state = "read_read_0" =>
            m_state = "read_read_1" /\ m_drive = RamAt(Joined(addr_saved))[2] /\ Stored1
    /\ d_state \in {"write_addr_1", "write_addr_2"} =>
            m_state = "write_addr" /\ m_drive = Floating /\ m_addr[1] = addr_saved[1]
    /\ d_state \in {"write_addr_3", "write_write_0"} =>
            m_state = "write_write_0" /\ m_drive = Floating /\ Asked
    /\ d_state \in {"write_write_1", "write_write_2"} =>
            m_state = "write_write_1" /\ m_drive = Floating /\ Asked /\ Stored1
    /\ d_state \in {"write_write_3", "write_wait_0"} => m_state = "write_wait_0" /\ Stored1 /\ Stored2
    /\ d_state = "write_wait_1" => m_state = "write_wait_1" /\ Stored1 /\ Stored2
    /\ d_state \in {"read_read_1", "write_fin"} => Stored1 /\ Stored2

LEMMA InitInPhase == Init => InPhase
  BY DEF Init, PsramInit, InPhase, Bytes

LEMMA OnBus == \A x : Resolve(x, Floating) = x /\ Resolve(Floating, x) = x
  BY DEF Resolve

LEMMA SamePlace == Asked => Joined(m_addr) = Joined(addr_saved)
  BY DEF Asked, Joined

\* A half of a word that is stored leaves the other half alone.
LEMMA HalfStored ==
    ASSUME InPhase, Asked, NEW half \in {1, 2}, StoreHalf(half), addr_saved' = addr_saved
    PROVE  /\ RamAt(Joined(addr_saved))'[half] = BusAtEdge
           /\ \A other \in {1, 2} \ {half} :
                RamAt(Joined(addr_saved))'[other] = RamAt(Joined(addr_saved))[other]
           /\ \A a \in DOMAIN ram' : DOMAIN ram'[a] = {1, 2}
  <1> DEFINE place == Joined(addr_saved)
             new   == [RamAt(place) EXCEPT ![half] = BusAtEdge]
  <1>1. ram' = [x \in DOMAIN ram \union {place} |-> IF x = place THEN new ELSE ram[x]]
    BY SamePlace DEF StoreHalf
  <1>2. DOMAIN RamAt(place) = {1, 2}
    BY DEF RamAt, InPhase
  <1>3. /\ DOMAIN new = {1, 2} /\ new[half] = BusAtEdge
        /\ \A other \in {1, 2} \ {half} : new[other] = RamAt(place)[other]
    BY <1>2
  <1>4. Joined(addr_saved)' = place
    OBVIOUS
  <1>5. RamAt(Joined(addr_saved))' = new
    BY <1>1, <1>4 DEF RamAt
  <1>6. \A a \in DOMAIN ram' : DOMAIN ram'[a] = {1, 2}
    BY <1>1, <1>3 DEF InPhase
  <1> QED BY <1>3, <1>5, <1>6

\* The driver is idle, and takes a request or none.
LEMMA PhaseBegins ==
    ASSUME InPhase, NEW re \in BOOLEAN, NEW we \in BOOLEAN, NEW addr, NEW data,
           d_state = "idle", PsramTick(re, we, addr, data)
    PROVE  InPhase'
  BY DEF InPhase, PsramTick, DriverTick, StateIn, DeviceEdge, deviceVars, ClockHigh

\* It is not, and there is no request.
LEMMA PhaseGoesOn ==
    ASSUME InPhase, NEW re, NEW we, NEW addr, NEW data, d_state \in States,
           d_state # "idle", re = FALSE, we = FALSE, PsramTick(re, we, addr, data)
    PROVE  InPhase'
  <1>a. d_state' = StateIn(re, we) /\ addr_saved' = addr_saved /\ data_saved' = DataIn(we, data)
    BY DEF PsramTick, DriverTick
  <1>b. Joined(addr_saved)' = Joined(addr_saved)
    BY <1>a
  <1>2. CASE d_state = "read_addr_0"
    BY <1>a, <1>2, OnBus DEF InPhase, PsramTick, StateIn, DataIn, Following, DeviceEdge, deviceVars,
        ClockHigh, AfterEdge, BusAtEdge, DriverByte, Asked, Stored1, Stored2, RamAt
  <1>3. CASE d_state = "read_addr_1"
    BY <1>a, <1>3, OnBus DEF InPhase, PsramTick, StateIn, DataIn, Following, DeviceEdge, deviceVars,
        ClockHigh, AfterEdge, BusAtEdge, DriverByte, Asked, Stored1, Stored2, RamAt
  <1>4. CASE d_state = "read_addr_2"
    BY <1>a, <1>4, OnBus DEF InPhase, PsramTick, StateIn, DataIn, Following, DeviceEdge, deviceVars,
        ClockHigh, AfterEdge, BusAtEdge, DriverByte, Asked, Stored1, Stored2, RamAt
  <1>5. CASE d_state = "read_addr_3"
    BY <1>a, <1>5, OnBus DEF InPhase, PsramTick, StateIn, DataIn, Following, DeviceEdge, deviceVars,
        ClockHigh, AfterEdge, BusAtEdge, DriverByte, Asked, Stored1, Stored2, RamAt
  <1>6. CASE d_state = "read_wait_0"
    <2> USE <1>6
    <2>1. Asked BY DEF InPhase
    <2>2. CASE m_state = "read_read_0"
      <3>1. d_state' = "read_read_0"
        BY <1>a, <2>2 DEF StateIn, DeviceReady
      <3>2. DeviceEdge
        BY <3>1 DEF PsramTick, ClockHigh
      <3>3. m_state' = "read_read_1" /\ ram' = ram
        BY <2>2, <3>1, <3>2 DEF DeviceEdge, AfterEdge, ClockHigh
      <3>4. m_drive' = RamAt(Joined(m_addr))[2]
        BY <2>2, <3>2 DEF DeviceEdge
      <3>5. m_drive' = RamAt(Joined(addr_saved))[2]
        BY <2>1, <3>4, SamePlace
      <3>6. data_saved'[1] = RamAt(Joined(addr_saved))[1]
        <4>1. m_drive = RamAt(Joined(addr_saved))[1]
          BY <2>2 DEF InPhase
        <4>2. MemBus = m_drive
          BY OnBus DEF MemBus, DriverByte
        <4> QED BY <1>a, <4>1, <4>2 DEF DataIn
      <3>7. RamAt(Joined(addr_saved))' = RamAt(Joined(addr_saved))
        BY <1>b, <3>3 DEF RamAt
      <3> QED BY <3>1, <3>3, <3>5, <3>6, <3>7 DEF InPhase, Stored1
    <2>3. CASE m_state = "read_wait_0"
      <3>1. d_state' = "read_wait_1"
        BY <1>a, <2>3 DEF StateIn, DeviceReady
      <3>2. DeviceEdge
        BY <3>1 DEF PsramTick, ClockHigh
      <3>3. m_state' = "read_wait_1" /\ ram' = ram /\ m_addr' = m_addr
        BY <2>3, <3>1, <3>2 DEF DeviceEdge, AfterEdge, ClockHigh
      <3> QED BY <1>a, <2>1, <3>1, <3>3 DEF InPhase, Asked
    <2> QED BY <2>2, <2>3 DEF InPhase
  <1>7. CASE d_state = "read_wait_1"
    <2> USE <1>7
    <2>1. d_state' = "read_wait_0"
      BY <1>a DEF StateIn, Following
    <2>2. DeviceEdge
      BY <2>1 DEF PsramTick, ClockHigh
    <2>3. m_state = "read_wait_1" /\ Asked
      BY DEF InPhase
    <2>4. m_state' = "read_read_0" /\ ram' = ram /\ m_addr' = m_addr
      BY <2>1, <2>2, <2>3 DEF DeviceEdge, AfterEdge, ClockHigh
    <2>5. m_drive' = RamAt(Joined(addr_saved))[1]
      BY <2>2, <2>3, SamePlace DEF DeviceEdge
    <2>6. RamAt(Joined(addr_saved))' = RamAt(Joined(addr_saved))
      BY <1>b, <2>4 DEF RamAt
    <2> QED BY <1>a, <2>1, <2>3, <2>4, <2>5, <2>6 DEF InPhase, Asked
  <1>8. CASE d_state = "read_read_0"
    <2> USE <1>8
    <2>1. d_state' = "read_read_1"
      BY <1>a DEF StateIn, Following
    <2>2. DeviceEdge
      BY <2>1 DEF PsramTick, ClockHigh
    <2>3. m_state = "read_read_1" /\ m_drive = RamAt(Joined(addr_saved))[2] /\ Stored1
      BY DEF InPhase
    <2>4. m_state' = "start" /\ m_drive' = Floating /\ ram' = ram
      BY <2>1, <2>2, <2>3 DEF DeviceEdge, AfterEdge, ClockHigh
    <2>5. MemBus = m_drive
      BY OnBus DEF MemBus, DriverByte
    <2>6. data_saved'[1] = data_saved[1] /\ data_saved'[2] = m_drive
      BY <1>a, <2>5 DEF DataIn
    <2>7. RamAt(Joined(addr_saved))' = RamAt(Joined(addr_saved))
      BY <1>b, <2>4 DEF RamAt
    <2> QED BY <2>1, <2>3, <2>4, <2>6, <2>7 DEF InPhase, Stored1, Stored2
  <1>9. CASE d_state = "read_read_1"
    BY <1>a, <1>9, OnBus DEF InPhase, PsramTick, StateIn, DataIn, Following, DeviceEdge, deviceVars,
        ClockHigh, AfterEdge, BusAtEdge, DriverByte, Asked, Stored1, Stored2, RamAt
  <1>10. CASE d_state = "write_addr_0"
    BY <1>a, <1>10, OnBus DEF InPhase, PsramTick, StateIn, DataIn, Following, DeviceEdge, deviceVars,
        ClockHigh, AfterEdge, BusAtEdge, DriverByte, Asked, Stored1, Stored2, RamAt
  <1>11. CASE d_state = "write_addr_1"
    BY <1>a, <1>11, OnBus DEF InPhase, PsramTick, StateIn, DataIn, Following, DeviceEdge, deviceVars,
        ClockHigh, AfterEdge, BusAtEdge, DriverByte, Asked, Stored1, Stored2, RamAt
  <1>12. CASE d_state = "write_addr_2"
    BY <1>a, <1>12, OnBus DEF InPhase, PsramTick, StateIn, DataIn, Following, DeviceEdge, deviceVars,
        ClockHigh, AfterEdge, BusAtEdge, DriverByte, Asked, Stored1, Stored2, RamAt
  <1>13. CASE d_state = "write_addr_3"
    BY <1>a, <1>13, OnBus DEF InPhase, PsramTick, StateIn, DataIn, Following, DeviceEdge, deviceVars,
        ClockHigh, AfterEdge, BusAtEdge, DriverByte, Asked, Stored1, Stored2, RamAt
  <1>14. CASE d_state = "write_write_0"
    <2> USE <1>14
    <2>1. d_state' = "write_write_1" /\ data_saved' = data_saved
      BY <1>a DEF StateIn, DataIn, Following
    <2>2. DeviceEdge
      BY <2>1 DEF PsramTick, ClockHigh
    <2>3. m_state = "write_write_0" /\ m_drive = Floating /\ Asked
      BY DEF InPhase
    <2>4. StoreHalf(1) /\ m_addr' = m_addr
      BY <2>2, <2>3 DEF DeviceEdge
    <2>5. m_state' = "write_write_1" /\ m_drive' = Floating
      BY <2>1, <2>2, <2>3 DEF DeviceEdge, AfterEdge, ClockHigh
    <2>6. BusAtEdge = data_saved[1]
      BY <2>1, <2>3, OnBus DEF BusAtEdge, DriverByte
    <2>7. RamAt(Joined(addr_saved))'[1] = data_saved[1]
      BY <1>a, <2>3, <2>4, <2>6, HalfStored
    <2>9. \A a \in DOMAIN ram' : DOMAIN ram'[a] = {1, 2}
      BY <1>a, <2>3, <2>4, HalfStored
    <2> QED BY <1>a, <2>1, <2>3, <2>4, <2>5, <2>7, <2>9 DEF InPhase, Asked, Stored1
  <1>15. CASE d_state = "write_write_1"
    BY <1>a, <1>15, OnBus DEF InPhase, PsramTick, StateIn, DataIn, Following, DeviceEdge, deviceVars,
        ClockHigh, AfterEdge, BusAtEdge, DriverByte, Asked, Stored1, Stored2, RamAt
  <1>16. CASE d_state = "write_write_2"
    <2> USE <1>16
    <2>1. d_state' = "write_write_3" /\ data_saved' = data_saved
      BY <1>a DEF StateIn, DataIn, Following
    <2>2. DeviceEdge
      BY <2>1 DEF PsramTick, ClockHigh
    <2>3. m_state = "write_write_1" /\ m_drive = Floating /\ Asked /\ Stored1
      BY DEF InPhase
    <2>4. StoreHalf(2) /\ m_addr' = m_addr
      BY <2>2, <2>3 DEF DeviceEdge
    <2>5. m_state' = "write_wait_0"
      BY <2>1, <2>2, <2>3 DEF DeviceEdge, AfterEdge, ClockHigh
    <2>6. BusAtEdge = data_saved[2]
      BY <2>1, <2>3, OnBus DEF BusAtEdge, DriverByte
    <2>7. RamAt(Joined(addr_saved))'[2] = data_saved[2]
      BY <1>a, <2>3, <2>4, <2>6, HalfStored
    <2>8. RamAt(Joined(addr_saved))'[1] = data_saved[1]
      BY <1>a, <2>3, <2>4, HalfStored DEF Stored1
    <2>9. \A a \in DOMAIN ram' : DOMAIN ram'[a] = {1, 2}
      BY <1>a, <2>3, <2>4, HalfStored
    <2> QED BY <1>a, <2>1, <2>3, <2>4, <2>5, <2>7, <2>8, <2>9 DEF InPhase, Asked, Stored1, Stored2
  <1>17. CASE d_state = "write_write_3"
    BY <1>a, <1>17, OnBus DEF InPhase, PsramTick, StateIn, DataIn, Following, DeviceEdge, deviceVars,
        ClockHigh, AfterEdge, BusAtEdge, DriverByte, Asked, Stored1, Stored2, RamAt
  <1>18. CASE d_state = "write_wait_0"
    <2> USE <1>18
    <2>1. d_state' = "write_wait_1" /\ data_saved' = data_saved
      BY <1>a DEF StateIn, DataIn, Following
    <2>2. DeviceEdge
      BY <2>1 DEF PsramTick, ClockHigh
    <2>3. m_state = "write_wait_0" /\ Stored1 /\ Stored2
      BY DEF InPhase
    <2>4. m_state' = "write_wait_1" /\ ram' = ram
      BY <2>1, <2>2, <2>3 DEF DeviceEdge, AfterEdge, ClockHigh
    <2>7. RamAt(Joined(addr_saved))' = RamAt(Joined(addr_saved))
      BY <1>b, <2>4 DEF RamAt
    <2> QED BY <2>1, <2>3, <2>4, <2>7 DEF InPhase, Stored1, Stored2
  <1>19. CASE d_state = "write_wait_1"
    <2> USE <1>19
    <2>3. m_state = "write_wait_1" /\ Stored1 /\ Stored2
      BY DEF InPhase
    <2>1. d_state' = "write_fin" /\ data_saved' = data_saved
      BY <1>a, <2>3 DEF StateIn, DataIn, Following, DeviceReady
    <2>2. DeviceEdge
      BY <2>1 DEF PsramTick, ClockHigh
    <2>4. m_state' = "start" /\ m_drive' = Floating /\ ram' = ram
      BY <2>1, <2>2, <2>3 DEF DeviceEdge, AfterEdge, ClockHigh
    <2>7. RamAt(Joined(addr_saved))' = RamAt(Joined(addr_saved))
      BY <1>b, <2>4 DEF RamAt
    <2> QED BY <2>1, <2>3, <2>4, <2>7 DEF InPhase, Stored1, Stored2
  <1>20. CASE d_state = "write_fin"
    BY <1>a, <1>20, OnBus DEF InPhase, PsramTick, StateIn, DataIn, Following, DeviceEdge, deviceVars,
        ClockHigh, AfterEdge, BusAtEdge, DriverByte, Asked, Stored1, Stored2, RamAt
  <1> QED BY <1>2, <1>3, <1>4, <1>5, <1>6, <1>7, <1>8, <1>9, <1>10, <1>11, <1>12, <1>13, <1>14, <1>15, <1>16, <1>17, <1>18, <1>19, <1>20 DEF States, Following

LEMMA InPhaseKept == InStep /\ InPhase /\ [Next]_vars => InPhase'
  <1> SUFFICES ASSUME InStep, InPhase, [Next]_vars PROVE InPhase'
    OBVIOUS
  <1>1. CASE Edge
    <2>1. PsramTick(mem_re, mem_we, p_addr, operand0)
      BY <1>1 DEF Edge
    <2>2. mem_re \in BOOLEAN /\ mem_we \in BOOLEAN
      BY Requests
    <2>3. CASE d_state = "idle"
      BY <2>1, <2>2, <2>3, PhaseBegins
    <2>4. CASE d_state # "idle"
      <3>1. mem_re = FALSE /\ mem_we = FALSE
        BY <2>4, Requests DEF InStep
      <3> QED BY <2>1, <2>4, <3>1, PhaseGoesOn DEF InStep
    <2> QED BY <2>3, <2>4
  <1>2. CASE UNCHANGED vars
    BY <1>2 DEF vars, psramVars, driverVars, deviceVars, InPhase, Asked, Stored1, Stored2, RamAt
  <1> QED BY <1>1, <1>2 DEF Next, Tick, Stays

LEMMA InPhaseImplies == InPhase => WordsArrive
  BY DEF InPhase, WordsArrive, Stored1, Stored2

\* The two halves that go over the bus at the edges of the driver's own clock
\* make the word that was asked for, and the word that was given.
THEOREM WholeWords == Spec => []WordsArrive
  <1>1. Spec => []InStep
    BY InitInStep, InStepKept, PTL DEF Spec
  <1>2. Spec => []InPhase
    BY <1>1, InitInPhase, InPhaseKept, PTL DEF Spec
  <1> QED BY <1>2, InPhaseImplies, PTL

-----------------------------------------------------------------------------
(* The units: what they make of words.                                       *)

LEMMA LowIsWord ==
    ASSUME NEW v \in Int
    PROVE  Low(v, 16) \in Word16 /\ Low(v, 8) \in 0 .. 255 /\ Low(v, 6) \in 0 .. 63
  BY DEF Low, Word16

LEMMA SmallWords == 0 .. 255 \subseteq Word16
  <1> SUFFICES ASSUME NEW n \in 0 .. 255 PROVE n \in Word16
    OBVIOUS
  <1> QED BY NumberIsWord

LEMMA FieldsAreSmall ==
    ASSUME NEW w \in Word16, NEW m \in BOOLEAN
    PROVE  /\ Rf(m, w) \in 0 .. 7 /\ Rs(m, w) \in 0 .. 7 /\ Major(w) \in 0 .. 31
           /\ AluOp(m, w) \in 0 .. 7 /\ RetFlags(w) \in 0 .. 15
  <1>1. w \in Int /\ 0 <= w /\ w <= 65535
    BY WordIsNumber
  <1>2. /\ Bits(w, 10, 8) \in 0 .. 7 /\ Bits(w, 7, 5) \in 0 .. 7 /\ Bits(w, 2, 0) \in 0 .. 7
    BY <1>1 DEF Bits
  <1>3. Bits(w, 13, 12) \in 0 .. 3 /\ RetFlags(w) \in 0 .. 15
    BY <1>1 DEF Bits, RetFlags
  <1>4. Major(w) \in 0 .. 31 /\ Minor(w) \in 0 .. 31
    BY <1>1 DEF Bits, Major, Minor
  <1>5. AluOp(m, w) \in 0 .. 7
    <2>1. (IF Major(w) = 0 THEN Minor(w) ELSE Major(w)) \in 0 .. 31
      BY <1>4
    <2>2. (IF Major(w) = 0 THEN Minor(w) ELSE Major(w)) % 8 \in 0 .. 7
      BY <2>1
    <2> QED BY <1>3, <2>2 DEF AluOp
  <1> QED BY <1>2, <1>3, <1>4, <1>5 DEF Rf, Rs

LEMMA ImmediatesAreNumbers ==
    ASSUME NEW w \in Word16, NEW m \in BOOLEAN
    PROVE  Unextended(m, w) \in Int /\ Extended(m, w) \in Int
  <1>1. w \in Int /\ 0 <= w /\ w <= 65535
    BY WordIsNumber
  <1>2. /\ Bits(w, 7, 1) \in Int /\ Bits(w, 4, 1) \in Int /\ Bits(w, 10, 1) \in Int
        /\ Bits(w, 10, 4) \in Int /\ Bits(w, 10, 8) \in Int /\ Bits(w, 0, 0) \in Int
    BY <1>1 DEF Bits
  <1>3. Rest(w) \in Int
    <2>1. (16 * Long(w)) + Bits(w, 4, 1) \in Int
      BY <1>2 DEF Long
    <2> QED BY <1>2, <2>1 DEF Rest
  <1>4. 2^Width(w) \in {16, 1024, 128}
    <2> DEFINE b == Width(w)
    <2>1. b \in {4, 10, 7}
      BY DEF Width
    <2> HIDE DEF b
    <2>2. 2^b \in {16, 1024, 128}
      <3>1. CASE b = 4 BY <3>1
      <3>2. CASE b = 10 BY <3>2
      <3>3. CASE b = 7 BY <3>3
      <3> QED BY <2>1, <3>1, <3>2, <3>3
    <2> QED BY <2>2 DEF b
  <1>5. ImmZe(w) \in Int /\ ImmSe(w) \in Int
    <2> DEFINE p == 2^Width(w)
    <2>1. p \in {16, 1024, 128}
      BY <1>4
    <2> HIDE DEF p
    <2>2. Rest(w) + (p * Bits(w, 0, 0)) \in Int /\ Rest(w) - (p * Bits(w, 0, 0)) \in Int
      BY <1>2, <1>3, <2>1
    <2>3. ((Rest(w) - (p * Bits(w, 0, 0))) % 65536) \in Int
      BY <2>2
    <2> QED BY <2>2, <2>3 DEF ImmZe, ImmSe, p
  <1>6. w % 256 \in Int /\ (Signed(w % 256, 8) % 65536) \in Int
    <2>1. w % 256 \in Int
      BY <1>1
    <2>2. Signed(w % 256, 8) \in Int
      BY <2>1 DEF Signed
    <2> QED BY <2>1, <2>2
  <1> QED BY <1>5, <1>6 DEF Unextended, Extended

TwoTo(n) == 2^n

LEMMA ResultIsNumber ==
    ASSUME NEW op \in 0 .. 7, NEW a \in Word16, NEW b \in Word16
    PROVE  Result17(op, a, b) \in Int
  <1>1. a \in Int /\ b \in Int /\ 0 <= b
    BY WordIsNumber
  <1>2. op \in {0, 1, 2, 3, 4, 5, 6, 7}
    OBVIOUS
  <1>3. BitAnd(a, b) \in Int /\ BitOr(a, b) \in Int /\ BitXor(a, b) \in Int
    BY BitsOfWords, WordIsNumber
  <1>4. a + b \in Int /\ ((a - b) % 131072) \in Int /\ 131071 - b \in Int
    BY <1>1
  <1>5. (IF b > 16 THEN 0 ELSE (a * 2^b) % 131072) \in Int /\ (IF b > 16 THEN 0 ELSE a \div 2^b) \in Int
    <2>1. CASE b > 16
      BY <2>1
    <2>2. CASE ~(b > 16)
      <3> DEFINE p == 2^b
      <3>1. p \in Int /\ p > 0
        <4>1. b \in {0, 1, 2, 3, 4, 5, 6, 7, 8, 9, 10, 11, 12, 13, 14, 15, 16}
          BY <1>1, <2>2
        <4>2. /\ TwoTo(0) \in Nat \ {0} /\ TwoTo(1) \in Nat \ {0} /\ TwoTo(2) \in Nat \ {0}
              /\ TwoTo(3) \in Nat \ {0} /\ TwoTo(4) \in Nat \ {0} /\ TwoTo(5) \in Nat \ {0}
              /\ TwoTo(6) \in Nat \ {0} /\ TwoTo(7) \in Nat \ {0} /\ TwoTo(8) \in Nat \ {0}
          BY DEF TwoTo
        <4>3. /\ TwoTo(9) \in Nat \ {0} /\ TwoTo(10) \in Nat \ {0} /\ TwoTo(11) \in Nat \ {0}
              /\ TwoTo(12) \in Nat \ {0} /\ TwoTo(13) \in Nat \ {0} /\ TwoTo(14) \in Nat \ {0}
              /\ TwoTo(15) \in Nat \ {0} /\ TwoTo(16) \in Nat \ {0}
          BY DEF TwoTo
        <4>4. TwoTo(b) \in Nat \ {0}
          BY <4>1, <4>2, <4>3
        <4>5. p = TwoTo(b)
          BY DEF TwoTo
        <4> HIDE DEF p
        <4> QED BY <4>4, <4>5
      <3> HIDE DEF p
      <3>2. a * p \in Int /\ a \div p \in Int
        BY <1>1, <3>1
      <3>3. (a * p) % 131072 \in Int
        BY <3>2
      <3> QED BY <2>2, <3>2, <3>3 DEF p
    <2> QED BY <2>1, <2>2
  <1> HIDE DEF Result17
  <1>6. /\ op = 0 => Result17(op, a, b) = a + b
        /\ op = 1 => Result17(op, a, b) = ((a - b) % 131072)
        /\ op = 2 => Result17(op, a, b) = 131071 - b
        /\ op = 3 => Result17(op, a, b) = BitAnd(a, b)
        /\ op = 4 => Result17(op, a, b) = BitOr(a, b)
        /\ op = 5 => Result17(op, a, b) = BitXor(a, b)
        /\ op = 6 => Result17(op, a, b) = IF b > 16 THEN 0 ELSE (a * 2^b) % 131072
        /\ op = 7 => Result17(op, a, b) = IF b > 16 THEN 0 ELSE a \div 2^b
    BY <1>2 DEF Result17
  <1> QED BY <1>2, <1>3, <1>4, <1>5, <1>6

LEMMA FlagsAreFlags ==
    ASSUME NEW op, NEW a, NEW b, NEW r
    PROVE  FlagsOf17(op, a, b, r) \in 0 .. 15
  <1> DEFINE s == IF Bit(r, 15) THEN 8 ELSE 0
             c == IF Bit(r, 16) THEN 2 ELSE 0
             z == IF Low(r, 16) = 0 THEN 1 ELSE 0
             o == LET issub    == Bit(op, 0)
                      opposite == Bit(a, 15) # Bit(b, 15)
                      turned   == Bit(b, 15) # Bit(r, 15)
                      overflow == (issub <=> opposite) /\ (issub # turned)
                  IN  IF overflow THEN 4 ELSE 0
  <1>1. s \in {0, 8} /\ o \in {0, 4} /\ c \in {0, 2} /\ z \in {0, 1}
    OBVIOUS
  <1>2. FlagsOf17(op, a, b, r) = s + o + c + z
    BY DEF FlagsOf17
  <1> HIDE DEF s, o, c, z
  <1> QED BY <1>1, <1>2

-----------------------------------------------------------------------------
(* The wires.                                                                *)

Words8 == [0 .. 7 -> Word16]
PlaceOK  == mode \in Modes /\ ip \in [Modes -> Word16] /\ ui \in [Modes -> Word16]
InstrOK  == instr \in Word16 \union {Floating}
RegsOK   == regs \in Words8 /\ ext \in [2 .. 5 -> Word16] /\ ports \in [0 .. 4 -> Word16]
ImemOK   == imem_low \in [0 .. 63 -> Word16] /\ imem_high \in Words8
SystemOK == /\ px \in [{0, 1} \union (10 .. 14) -> Word16] /\ pid \in Word16
            /\ privileged \in BOOLEAN /\ paging_en \in BOOLEAN
            /\ int_en \in BOOLEAN /\ int_saved \in BOOLEAN /\ int_saved_priv \in BOOLEAN
CpuOK    == /\ cur_cycle \in {0, 1} /\ send_req \in BOOLEAN /\ PlaceOK /\ InstrOK
            /\ RegsOK /\ ImemOK /\ SystemOK

LEMMA FewWords == /\ 0 \in Word16 /\ 1 \in Word16 /\ 2 \in Word16 /\ 3 \in Word16 /\ 6 \in Word16
                  /\ 13 \in Word16 /\ 31 \in Word16 /\ 64 \in Word16 /\ 48879 \in Word16
  BY NumberIsWord

LEMMA Operands ==
    ASSUME CpuOK
    PROVE  /\ micro \in BOOLEAN /\ word \in Word16 /\ rf \in 0 .. 7 /\ rs \in 0 .. 7
           /\ imm_ze \in Word16 /\ operand0 \in Word16 /\ operand1 \in Word16
           /\ instr_addr \in Word16
  <1>1. micro \in BOOLEAN
    BY DEF micro
  <1>2. word \in Word16
    BY FewWords DEF word, AsNumber, CpuOK, InstrOK
  <1>3. rf \in 0 .. 7 /\ rs \in 0 .. 7
    BY <1>1, <1>2, FieldsAreSmall DEF rf, rs
  <1>4. imm_ze \in Word16
    <2> DEFINE u == Low(ui[mode], 8)
               v == Low(Unextended(micro, word), 8)
    <2>1. ui[mode] \in Int
      BY WordIsNumber DEF CpuOK, PlaceOK
    <2>2. u \in 0 .. 255 /\ v \in 0 .. 255
      BY <1>1, <1>2, <2>1, ImmediatesAreNumbers, LowIsWord
    <2> HIDE DEF u, v
    <2>3. (256 * u) + v \in Int /\ 0 <= (256 * u) + v /\ (256 * u) + v <= 65535
      BY <2>2
    <2>4. (256 * u) + v \in Word16
      BY <2>3, NumberIsWord
    <2> QED BY <2>4 DEF imm_ze, u, v
  <1>5. operand0 \in Word16 /\ operand1 \in Word16
    BY <1>3, <1>4 DEF operand0, operand1, CpuOK, RegsOK, Words8
  <1>6. instr_addr \in Word16
    BY DEF instr_addr, CpuOK, PlaceOK
  <1> QED BY <1>1, <1>2, <1>3, <1>4, <1>5, <1>6

LEMMA NextWord ==
    ASSUME NEW a \in Word16, NEW b \in Word16
    PROVE  Low(a + b, 16) \in Word16 /\ Low(a + 1, 16) \in Word16
  <1>1. a + b \in Int /\ a + 1 \in Int
    BY WordIsNumber
  <1> QED BY <1>1, LowIsWord

LEMMA Addresses ==
    ASSUME CpuOK
    PROVE  v_addr \in Word16 /\ p_addr \in Word16 /\ tlb_entry \in Word16 /\ Page(v_addr) \in Word16
  <1>1. operand1 \in Word16 /\ instr_addr \in Word16
    BY Operands
  <1>2. ext[3] \in Word16 /\ ext[4] \in Word16
    BY DEF CpuOK, RegsOK
  <1>3. SpIn \in Word16
    BY <1>1, <1>2, NextWord DEF SpIn
  <1>4. v_addr \in Word16
    <2>1. Low(operand1 + ext[4], 16) \in Word16
      BY <1>1, <1>2, NextWord
    <2>2. CASE cur_cycle = 1 /\ "psh" \in controls /\ "pop" \notin controls
      <3>1. ~Accesses
        BY <2>2 DEF Accesses
      <3> QED BY <1>3, <2>2, <3>1 DEF v_addr
    <2>3. CASE cur_cycle = 1 /\ "psh" \notin controls /\ "pop" \in controls
      <3>1. ~Accesses
        BY <2>3 DEF Accesses
      <3> QED BY <1>2, <2>3, <3>1 DEF v_addr
    <2>4. CASE cur_cycle = 1 /\ "psh" \notin controls /\ "pop" \notin controls
      BY <1>1, <2>1, <2>4 DEF v_addr
    <2>5. CASE cur_cycle = 1 /\ "psh" \in controls /\ "pop" \in controls
      <3>1. FALSE
        <4>1. "pop" \notin RowOfMicrocode(Major(word))
          BY DEF RowOfMicrocode
        <4>2. \A o : ~("psh" \in RowOfOneRegister(o) /\ "pop" \in RowOfOneRegister(o))
          BY DEF RowOfOneRegister
        <4>3. \A o : "psh" \notin RowOfSystem(o) /\ "psh" \notin RowOfImmediate(o)
          BY DEF RowOfSystem, RowOfImmediate
        <4>4. \A o : "psh" \notin RowOfRegisters(o)
          BY <4>3 DEF RowOfRegisters
        <4> QED BY <2>5, <4>1, <4>2, <4>3, <4>4 DEF controls, Controls, Row
      <3> QED BY <3>1
    <2>6. CASE cur_cycle # 1
      BY <1>1, <2>6 DEF v_addr
    <2> QED BY <2>2, <2>3, <2>4, <2>5, <2>6
  <1>5. v_addr \in Int /\ 0 <= v_addr /\ v_addr <= 65535
    BY <1>4, WordIsNumber
  <1>6. Page(v_addr) \in 0 .. 31
    BY <1>5 DEF Page
  <1>7. 2 * Page(v_addr) \in 0 .. 63
    BY <1>6
  <1>8. tlb_entry \in Word16
    BY <1>7 DEF tlb_entry, CpuOK, ImemOK
  <1>9. Frame(tlb_entry, v_addr) \in Word16
    <2>1. tlb_entry \in Int
      BY <1>8, WordIsNumber
    <2> DEFINE f == tlb_entry % 32
               o == v_addr % 2048
    <2>2. f \in 0 .. 31 /\ o \in 0 .. 2047
      BY <1>5, <2>1
    <2> HIDE DEF f, o
    <2>3. (2048 * f) + o \in Int /\ 0 <= (2048 * f) + o /\ (2048 * f) + o <= 65535
      BY <2>2
    <2>4. (2048 * f) + o \in Word16
      BY <2>3, NumberIsWord
    <2> QED BY <2>4 DEF Frame, f, o
  <1>10. Page(v_addr) \in Word16
    BY <1>6, NumberIsWord
  <1> QED BY <1>4, <1>8, <1>9, <1>10 DEF p_addr

LEMMA InterruptIds ==
    ASSUME CpuOK
    PROVE  int_id \in 0 .. 255
  <1>1. imm_ze \in Int
    BY Operands, WordIsNumber
  <1>2. Low(imm_ze, 8) \in 0 .. 255
    BY <1>1, LowIsWord
  <1>3. 0 \in 0 .. 255 /\ 2 \in 0 .. 255 /\ 3 \in 0 .. 255 /\ 6 \in 0 .. 255
    OBVIOUS
  <1> DEFINE refused == Refused("mrd", 14) \/ Refused("mwr", 13) \/ (Checked /\ ~Bit(tlb_entry, 12))
  <1>4. int_id = IF Unprivileged THEN 2 ELSE IF refused THEN 3
                 ELSE IF "inv" \in controls THEN 6 ELSE IF "int" \in controls THEN Low(imm_ze, 8) ELSE 0
    BY DEF int_id
  <1> HIDE DEF refused
  <1> QED BY <1>2, <1>3, <1>4

LEMMA Targets ==
    ASSUME CpuOK
    PROVE  instr_addr_next \in Word16 /\ regular_IP_in \in Word16 /\ instr_addr_p1 \in Word16
  <1>1. operand0 \in Word16 /\ operand1 \in Word16 /\ instr_addr \in Word16
    BY Operands
  <1>2. instr_addr_p1 \in Word16
    BY <1>1, NextWord DEF instr_addr_p1
  <1>3. \h0200 + (2 * int_id) \in Word16
    <2>1. int_id \in 0 .. 255
      BY InterruptIds
    <2>2. \h0200 + (2 * int_id) \in Int /\ 0 <= \h0200 + (2 * int_id) /\ \h0200 + (2 * int_id) <= 65535
      BY <2>1
    <2> QED BY <2>2, NumberIsWord
  <1>4. Low(instr_addr_p1 + Extended(micro, word), 16) \in Word16
    <2>1. Extended(micro, word) \in Int /\ instr_addr_p1 \in Int
      BY <1>2, Operands, ImmediatesAreNumbers, WordIsNumber
    <2>2. instr_addr_p1 + Extended(micro, word) \in Int
      BY <2>1
    <2> QED BY <2>2, LowIsWord
  <1>5. px[11] \in Word16 /\ ext[2] \in Word16 /\ ip["er"] \in Word16
    BY DEF CpuOK, SystemOK, RegsOK, PlaceOK, Modes
  <1>6. \h000D \in Word16 /\ \h001F \in Word16
    BY FewWords
  <1>7. instr_addr_next \in Word16
    BY <1>1, <1>2, <1>3, <1>4, <1>5, <1>6 DEF instr_addr_next
  <1>8. regular_IP_in \in Word16
    <2>1. Low(ip["er"] + 1, 16) \in Word16
      BY <1>5, NextWord
    <2> QED BY <1>5, <1>7, <2>1 DEF regular_IP_in
  <1> QED BY <1>2, <1>7, <1>8

-----------------------------------------------------------------------------
(* Microcode saves registers in the upper half of internal memory: the words *)
(* it reads from there all have the bit set that says so.                    *)

MicroWords == {ucode_rom[n] : n \in 1 .. 41} \union {0}
MicroOK    == mode = "iu" /\ cur_cycle = 1 => instr \in MicroWords

LEMMA RomList ==
    MicroWords = {\hA003, \hF801, \h4D07, \h5901, \h18FF, \h9804, \h8905, \h3100, \hD801, \h4BFB,
                  \h2900, \h9900, \h78F8, \h79F9, \hA001, \h69FF, \hC001, \h2000, \h5980, \hF800,
                  \h4D01, \h0801, \hC101, \h7001, \hC901, \hA000, \h68F8, \h69F9, \h182E, \h7000,
                  \hD802, \h4BFD, \h1801, \h9800, \h5800, 0}
  <1> DEFINE at(n) == ucode_rom[n]
  <1>1. /\ at(1) = \hA003 /\ at(2) = \hF801 /\ at(3) = \h4D07 /\ at(4) = \h5901 /\ at(5) = \h18FF
        /\ at(6) = \h9804 /\ at(7) = \h8905 /\ at(8) = \h3100 /\ at(9) = \hD801 /\ at(10) = \h4BFB
        /\ at(11) = \h2900 /\ at(12) = \h9900 /\ at(13) = 0 /\ at(14) = \h78F8 /\ at(15) = \h79F9
        /\ at(16) = \hA001 /\ at(17) = \h69FF /\ at(18) = \hC001 /\ at(19) = \h2000 /\ at(20) = \h5980
        /\ at(21) = \hF800
    BY DEF ucode_rom
  <1>2. /\ at(22) = \h4D01 /\ at(23) = \h0801 /\ at(24) = \hC101 /\ at(25) = \h7001 /\ at(26) = \hC901
        /\ at(27) = \hA000 /\ at(28) = \h7001 /\ at(29) = \h68F8 /\ at(30) = \h69F9 /\ at(31) = 0
        /\ at(32) = \h78F8 /\ at(33) = \h182E /\ at(34) = \h7000 /\ at(35) = \hD802 /\ at(36) = \h4BFD
        /\ at(37) = \h68F8 /\ at(38) = 0 /\ at(39) = \h1801 /\ at(40) = \h9800 /\ at(41) = \h5800
    BY DEF ucode_rom
  <1>3. 1 .. 41 = {1, 2, 3, 4, 5, 6, 7, 8, 9, 10, 11, 12, 13, 14, 15, 16, 17, 18, 19, 20, 21, 22, 23, 24,
                   25, 26, 27, 28, 29, 30, 31, 32, 33, 34, 35, 36, 37, 38, 39, 40, 41}
    OBVIOUS
  <1>4. MicroWords = {at(n) : n \in 1 .. 41} \union {0}
    BY DEF MicroWords
  <1> HIDE DEF at
  <1> QED BY <1>1, <1>2, <1>3, <1>4

LEMMA RomWords ==
    /\ MicroWords \subseteq Word16
    /\ \A w \in MicroWords : w # Floating /\ (Major(w) = 13 => w % 256 >= 128)
  <1>1. \A w \in MicroWords : w \in Int /\ 0 <= w /\ w <= 65535 /\ w # Floating
    BY RomList DEF Floating
  <1>2. MicroWords \subseteq Word16
    BY <1>1, NumberIsWord
  <1>3. ASSUME NEW w \in MicroWords, Major(w) = 13
        PROVE  w % 256 >= 128
    <2>1. w \in Int /\ w \div 2048 % 32 = 13
      BY <1>1, <1>3 DEF Major, Bits
    <2>2. w \in Int /\ 26624 <= w /\ w < 28672
      BY <1>1, <2>1
    <2>3. w \in {\h69FF, \h68F8, \h69F9}
      BY RomList, <2>2
    <2> QED BY <2>3
  <1> QED BY <1>1, <1>2, <1>3

LEMMA RomIsMicro ==
    ASSUME CpuOK
    PROVE  rom_data \in MicroWords /\ rom_data \in Word16 /\ rom_data # Floating
  <1> DEFINE line == Low(ip["iu"], 6)
  <1>1. line \in 0 .. 63
    <2>1. ip["iu"] \in Int
      BY WordIsNumber DEF CpuOK, PlaceOK, Modes
    <2> QED BY <2>1, LowIsWord
  <1>2. Len(ucode_rom) = 41
    BY DEF ucode_rom
  <1> HIDE DEF line
  <1>3. line < Len(ucode_rom) => line + 1 \in 1 .. 41
    BY <1>1, <1>2
  <1>4. rom_data \in MicroWords
    BY <1>3 DEF rom_data, MicroWords, line
  <1> QED BY <1>4, RomWords

\* What an instruction that reads internal memory finds there is a word.
LEMMA InternalWord ==
    ASSUME CpuOK, MicroOK, cur_cycle = 1, "ird" \in controls
    PROVE  imem_data \in Word16
  <1>1. micro
    <2>1. \A o : "ird" \notin RowOfImmediate(o) /\ "ird" \notin RowOfSystem(o) /\ "ird" \notin RowOfOneRegister(o)
      BY DEF RowOfImmediate, RowOfSystem, RowOfOneRegister
    <2>2. \A o : "ird" \notin RowOfRegisters(o)
      BY <2>1 DEF RowOfRegisters
    <2> QED BY <2>1, <2>2, Operands DEF controls, Controls, Row
  <1>2. instr \in MicroWords /\ word = instr
    BY <1>1, RomWords DEF MicroOK, micro, word, AsNumber
  <1>3. Major(word) = 13
    BY <1>1 DEF controls, Controls, RowOfMicrocode
  <1>4. word \in Int /\ word % 256 \in 128 .. 255
    <2>1. word % 256 >= 128 /\ word \in Int
      BY <1>2, <1>3, RomWords, Operands, WordIsNumber
    <2> QED BY <2>1
  <1>5. "iim" \in controls
    BY <1>1, <1>3 DEF controls, Controls, RowOfMicrocode
  <1>6. operand1 = imm_ze
    BY <1>5 DEF operand1
  <1> DEFINE u == Low(ui[mode], 8)
             v == word % 256
  <1>7. imm_ze = (256 * u) + v
    <2>1. Unextended(micro, word) = word % 256
      BY <1>1 DEF Unextended
    <2>2. Low(word % 256, 8) = word % 256
      BY <1>4 DEF Low
    <2> QED BY <2>1, <2>2 DEF imm_ze
  <1>8. u \in 0 .. 255
    <2>1. ui[mode] \in Int
      BY WordIsNumber DEF CpuOK, PlaceOK
    <2> QED BY <2>1, LowIsWord
  <1>9. v \in 128 .. 255
    BY <1>4
  <1> HIDE DEF u, v
  <1>10. ((256 * u) + v) \div 128 = (2 * u) + 1
    BY <1>8, <1>9
  <1>11. (((256 * u) + v) \div 128) % 2 = 1
    BY <1>8, <1>10
  <1>12. Bit(operand1, 7)
    BY <1>6, <1>7, <1>11 DEF Bit, Bits
  <1>13. Low(operand1, 3) \in 0 .. 7
    <2>1. operand1 \in Int
      BY Operands, WordIsNumber
    <2> QED BY <2>1 DEF Low
  <1> QED BY <1>12, <1>13 DEF imem_data, CpuOK, ImemOK, Words8

-----------------------------------------------------------------------------
(* What is written.                                                          *)

LEMMA SystemWord ==
    ASSUME CpuOK
    PROVE  px_out \in Word16 /\ res_xrd \in Word16
  <1>1. px_out \in Word16
    BY FewWords DEF px_out, CpuOK, SystemOK
  <1>2. res_xrd \in Word16
    <2>1. rs \in 0 .. 7
      BY Operands
    <2>2. CASE rs = 0
      BY <2>2, Targets DEF res_xrd
    <2>3. CASE rs \in 2 .. 5
      <3>1. rs # 0
        BY <2>3
      <3> QED BY <2>3, <3>1 DEF res_xrd, CpuOK, RegsOK
    <2>4. CASE rs # 0 /\ rs \notin 2 .. 5
      BY <2>4, FewWords DEF res_xrd
    <2> QED BY <2>2, <2>3, <2>4
  <1> QED BY <1>1, <1>2

LEMMA WrittenWord ==
    ASSUME CpuOK, MicroOK, cur_cycle = 1, "mrd" \in controls => mem_data \in Word16
    PROVE  reg_in \in Word16
  <1>1. res_alu \in Int
    BY Operands, FieldsAreSmall, ResultIsNumber DEF res_alu
  <1>2. Low(res_alu, 16) \in Word16
    BY <1>1, LowIsWord
  <1>3. operand1 \in Word16
    BY Operands
  <1>4. \hBEEF \in Word16
    BY FewWords
  <1> QED BY <1>2, <1>3, <1>4, SystemWord, InternalWord DEF reg_in

LEMMA ExtWords ==
    ASSUME CpuOK
    PROVE  ExtIn \in [2 .. 5 -> Word16]
  <1> SUFFICES ASSUME NEW n \in 2 .. 5
               PROVE  ExtIn[n] \in Word16
    BY DEF ExtIn
  <1>1. operand1 \in Word16 /\ instr_addr_p1 \in Word16 /\ ext[n] \in Word16
    BY Operands, Targets DEF CpuOK, RegsOK
  <1>2. Low(ext[3] + 1, 16) \in Word16
    BY NextWord, FewWords DEF CpuOK, RegsOK
  <1> DEFINE flags == FlagsOf17(AluOp(micro, word), operand0, operand1, res_alu)
  <1>3. RetFlags(word) \in Word16 /\ flags \in Word16
    <2>1. RetFlags(word) \in 0 .. 15 /\ flags \in 0 .. 15
      BY Operands, FieldsAreSmall, FlagsAreFlags
    <2> HIDE DEF flags
    <2>2. \A x \in 0 .. 15 : x \in 0 .. 255
      OBVIOUS
    <2> QED BY <2>1, <2>2, SmallWords
  <1> HIDE DEF flags
  <1>4. n \in {2, 3, 4, 5}
    OBVIOUS
  <1>5. ExtIn[n] \in {operand1, instr_addr_p1, Low(ext[3] + 1, 16), RetFlags(word), flags, ext[n]}
    BY <1>4 DEF ExtIn, flags
  <1> QED BY <1>1, <1>2, <1>3, <1>5

LEMMA ToldWords ==
    ASSUME CpuOK, NEW n \in 10 .. 14
    PROVE  Told[n] \in Word16
  <1>1. int_id \in 0 .. 255 /\ int_id \in Word16
    BY InterruptIds, SmallWords
  <1>2. instr_addr \in Word16 /\ instr_addr_next \in Word16 /\ v_addr \in Word16 /\ word \in Word16
    BY Operands, Targets, Addresses
  <1>3. n \in {10, 11, 12, 13, 14}
    OBVIOUS
  <1>4. CASE n = 12
    <2>1. CASE int_id \in {1, 3}
      <3>1. int_id \notin {2, 6}
        BY <2>1
      <3>2. Told[n] = v_addr
        BY <1>4, <2>1, <3>1 DEF Told
      <3> QED BY <1>2, <3>2
    <2>2. CASE int_id \in {2, 6}
      <3>1. int_id \notin {1, 3}
        BY <2>2
      <3>2. Told[n] = word
        BY <1>4, <2>2, <3>1 DEF Told, word
      <3> QED BY <1>2, <3>2
    <2>3. CASE int_id \notin {1, 3} /\ int_id \notin {2, 6}
      BY <1>4, <2>3, FewWords DEF Told
    <2> QED BY <2>1, <2>2, <2>3
  <1>5. CASE n = 13
    <2>1. Told[n] \in {0, 1, 2}
      BY <1>5 DEF Told
    <2> QED BY <2>1, FewWords
  <1>6. CASE n = 10
    BY <1>1, <1>6 DEF Told
  <1>7. CASE n = 11
    BY <1>2, <1>7 DEF Told
  <1>8. CASE n = 14
    BY <1>8, FewWords DEF Told
  <1> QED BY <1>3, <1>4, <1>5, <1>6, <1>7, <1>8

-----------------------------------------------------------------------------
(* The driver is at what the cycle asked for.                                *)

Reading == d_state \in {"read_addr_0", "read_addr_1", "read_addr_2", "read_addr_3",
                        "read_wait_0", "read_wait_1", "read_read_0", "read_read_1"}
KindOK  == (Reading => ctrl_mem_re) /\ (Storing => ctrl_mem_we)

LEMMA NotBoth == ~("mrd" \in controls /\ "mwr" \in controls)
  <1>1. \A o : /\ ~("mrd" \in RowOfImmediate(o) /\ "mwr" \in RowOfImmediate(o))
               /\ ~("mrd" \in RowOfOneRegister(o) /\ "mwr" \in RowOfOneRegister(o))
    BY DEF RowOfImmediate, RowOfOneRegister
  <1>2. \A o : ~("mrd" \in RowOfSystem(o) \/ "mwr" \in RowOfSystem(o))
    BY DEF RowOfSystem
  <1>3. \A o : ~("mrd" \in RowOfRegisters(o) /\ "mwr" \in RowOfRegisters(o))
    BY <1>1 DEF RowOfRegisters
  <1>4. \A o : ~("mrd" \in RowOfMicrocode(o) /\ "mwr" \in RowOfMicrocode(o))
    BY DEF RowOfMicrocode
  <1> QED BY <1>1, <1>2, <1>3, <1>4 DEF controls, Controls, Row

LEMMA AccessStays ==
    ASSUME InStep, Control, Registers, ~advance, cur_cycle = 1 => ~tlb_miss
    PROVE  (ctrl_mem_re' <=> ctrl_mem_re) /\ (ctrl_mem_we' <=> ctrl_mem_we)
  <1>1. mode \in Modes /\ cur_cycle \in {0, 1}
    BY DEF InStep
  <1>2. cur_cycle' = cur_cycle /\ mode' = mode
    BY <1>1, WaitKeeps
  <1>3. CASE cur_cycle = 0
    BY <1>2, <1>3 DEF ctrl_mem_re, ctrl_mem_we
  <1>4. CASE cur_cycle = 1
    <2>1. instr' = instr
      BY <1>1, <1>4, WaitKeeps
    <2>2. controls' = controls
      BY <1>2, <2>1 DEF controls, micro, word
    <2> QED BY <1>2, <2>2 DEF ctrl_mem_re, ctrl_mem_we
  <1> QED BY <1>1, <1>3, <1>4

LEMMA KindKept == InStep /\ KindOK /\ [Next]_vars => KindOK'
  <1> SUFFICES ASSUME InStep, KindOK, [Next]_vars PROVE KindOK'
    OBVIOUS
  <1>1. CASE Edge
    <2>1. d_state' = StateIn(mem_re, mem_we)
      BY <1>1 DEF Edge, PsramTick, DriverTick
    <2>2. mem_re \in BOOLEAN /\ mem_we \in BOOLEAN
      BY Requests
    <2>3. CASE d_state' = "idle"
      BY <2>3 DEF KindOK, Reading, Storing
    <2>4. CASE d_state' # "idle"
      <3>1. ~advance /\ (cur_cycle = 1 => ~tlb_miss)
        BY <1>1, <2>4, Waits
      <3>2. (ctrl_mem_re' <=> ctrl_mem_re) /\ (ctrl_mem_we' <=> ctrl_mem_we)
        BY <1>1, <3>1, AccessStays DEF Edge
      <3>3. CASE d_state = "idle"
        <4>1. mem_re \/ mem_we
          BY <2>1, <2>4, <3>3 DEF StateIn
        <4>2. CASE mem_re
          BY <2>1, <3>2, <3>3, <4>2 DEF StateIn, KindOK, Reading, Storing, mem_re
        <4>3. CASE ~mem_re /\ mem_we
          BY <2>1, <3>2, <3>3, <4>3 DEF StateIn, KindOK, Reading, Storing, mem_we
        <4> QED BY <4>1, <4>2, <4>3
      <3>4. CASE d_state # "idle"
        <4>1. d_state \in States
          BY DEF InStep
        <4>2. Reading' => Reading
          BY <2>1, <2>4, <3>4, <4>1 DEF StateIn, Following, States, Reading
        <4>3. Storing' => Storing
          BY <2>1, <2>4, <3>4, <4>1 DEF StateIn, Following, States, Storing
        <4> QED BY <3>2, <4>2, <4>3 DEF KindOK
      <3> QED BY <3>3, <3>4
    <2> QED BY <2>3, <2>4
  <1>2. CASE UNCHANGED vars
    <2>1. /\ UNCHANGED <<cur_cycle, mode, instr, d_state>>
      BY <1>2 DEF vars, cpuVars, psramVars, driverVars
    <2>2. controls' = controls
      BY <2>1 DEF controls, micro, word
    <2> QED BY <2>1, <2>2 DEF KindOK, Reading, Storing, ctrl_mem_re, ctrl_mem_we
  <1> QED BY <1>1, <1>2 DEF Next, Tick, Stays

-----------------------------------------------------------------------------
(* What goes over the bus.                                                   *)

Byte    == 0 .. 255
BytesOK ==
    /\ addr_saved \in Byte \X Byte
    /\ data_saved \in Bus \X Bus /\ (Storing => data_saved \in Byte \X Byte)
    /\ m_addr \in Bus \X Bus /\ m_drive \in Bus
    /\ \A a \in DOMAIN ram : a \in Word16 /\ ram[a] \in Byte \X Byte

LEMMA BytesOfWord ==
    ASSUME NEW w \in Word16
    PROVE  Bytes(w) \in Byte \X Byte /\ Bytes(w) \in Bus \X Bus
  <1>1. w \in Int /\ 0 <= w /\ w <= 65535
    BY WordIsNumber
  <1>2. w \div 256 \in Byte /\ w % 256 \in Byte
    BY <1>1 DEF Byte
  <1> QED BY <1>2 DEF Bytes, Bus, Byte

LEMMA WordOfBytes ==
    ASSUME NEW b \in Byte \X Byte
    PROVE  Joined(b) \in Word16
  <1> DEFINE high == b[1]
             low  == b[2]
  <1>1. high \in 0 .. 255 /\ low \in 0 .. 255
    BY DEF Byte
  <1> HIDE DEF high, low
  <1>2. (256 * high) + low \in Int /\ 0 <= (256 * high) + low /\ (256 * high) + low <= 65535
    BY <1>1
  <1>3. (256 * high) + low \in Word16
    BY <1>2, NumberIsWord
  <1> QED BY <1>1, <1>3 DEF Joined, high, low

LEMMA BytesInRam ==
    ASSUME BytesOK, NEW a
    PROVE  RamAt(a) \in Byte \X Byte
  BY DEF RamAt, BytesOK, Byte

\* A read that is over has brought a word.
LEMMA WordRead ==
    ASSUME InStep, KindOK, InPhase, BytesOK, ctrl_mem_re, advance, ~tlb_miss
    PROVE  mem_data \in Word16
  <1>1. Ready(mem_re, mem_we)
    BY DEF advance
  <1>2. d_state # "idle"
    BY <1>1 DEF Ready, InStep, mem_re
  <1>3. d_state # "write_fin"
    <2>1. ~(ctrl_mem_re /\ ctrl_mem_we)
      BY NotBoth DEF ctrl_mem_re, ctrl_mem_we
    <2> QED BY <2>1 DEF KindOK, Storing
  <1>4. d_state = "read_read_1"
    BY <1>1, <1>2, <1>3 DEF Ready
  <1>5. RamAt(Joined(addr_saved))[1] = data_saved[1] /\ RamAt(Joined(addr_saved))[2] = data_saved[2]
    BY <1>4 DEF InPhase, Stored1, Stored2
  <1>6. data_saved \in Byte \X Byte
    BY <1>5, BytesInRam DEF BytesOK
  <1> QED BY <1>4, <1>6, WordOfBytes DEF mem_data

\* A read that is not over has brought none, or the word.
LEMMA WordOrNone ==
    ASSUME BytesOK
    PROVE  mem_data \in Word16 \union {Floating}
  <1>1. CASE data_saved[1] \in Byte /\ data_saved[2] \in Byte
    <2>1. data_saved \in Byte \X Byte
      BY <1>1 DEF BytesOK
    <2> QED BY <2>1, WordOfBytes DEF mem_data
  <1>2. CASE ~(data_saved[1] \in Byte /\ data_saved[2] \in Byte)
    BY <1>2 DEF mem_data, Joined, Byte
  <1> QED BY <1>1, <1>2

LEMMA OnBusAtEdge ==
    ASSUME BytesOK, addr_saved' \in Byte \X Byte, data_saved' \in Bus \X Bus, m_drive = Floating
    PROVE  BusAtEdge \in Bus
  <1>1. BusAtEdge = DriverByte(d_state', addr_saved', data_saved')
    BY OnBus DEF BusAtEdge
  <1>2. /\ addr_saved'[1] \in Bus /\ addr_saved'[2] \in Bus /\ data_saved'[1] \in Bus /\ data_saved'[2] \in Bus
        /\ 0 \in Bus /\ Floating \in Bus
    BY DEF Bus, Byte
  <1> HIDE DEF Bus
  <1> DEFINE Shown == {addr_saved'[1], addr_saved'[2], data_saved'[1], data_saved'[2], 0, Floating}
  <1>3. DriverByte(d_state', addr_saved', data_saved') \in Shown
    <2>1. CASE d_state' \in {"read_addr_0", "read_addr_1", "write_addr_0", "write_addr_1"}
      BY <2>1 DEF DriverByte
    <2>2. CASE d_state' \in {"read_addr_2", "read_addr_3", "write_addr_2", "write_addr_3"}
      BY <2>2 DEF DriverByte
    <2>3. CASE d_state' \in {"write_write_0", "write_write_1"}
      BY <2>3 DEF DriverByte
    <2>4. CASE d_state' \in {"write_write_2", "write_write_3"}
      BY <2>4 DEF DriverByte
    <2>5. CASE d_state' \in {"write_wait_0", "write_wait_1", "write_fin"}
      BY <2>5 DEF DriverByte
    <2> QED BY <2>1, <2>2, <2>3, <2>4, <2>5 DEF DriverByte
  <1> QED BY <1>1, <1>2, <1>3

\* A half of a word that is stored is a byte.
LEMMA HalfStoredIsByte ==
    ASSUME BytesOK, m_addr \in Byte \X Byte, NEW half \in {1, 2}, BusAtEdge \in Byte, StoreHalf(half)
    PROVE  \A a \in DOMAIN ram' : a \in Word16 /\ ram'[a] \in Byte \X Byte
  <1> DEFINE place == Joined(m_addr)
             new   == [RamAt(place) EXCEPT ![half] = BusAtEdge]
  <1>1. ram' = [x \in DOMAIN ram \union {place} |-> IF x = place THEN new ELSE ram[x]]
    BY DEF StoreHalf
  <1>2. place \in Word16
    BY WordOfBytes
  <1>3. RamAt(place) \in Byte \X Byte
    BY BytesInRam
  <1>4. new \in Byte \X Byte
    BY <1>3
  <1> HIDE DEF place, new
  <1> QED BY <1>1, <1>2, <1>4 DEF BytesOK

LEMMA DriverBytes ==
    ASSUME BytesOK, InPhase, d_state \in States, NEW re \in BOOLEAN, NEW we \in BOOLEAN,
           d_state # "idle" => ~re /\ ~we,
           NEW addr \in Word16, NEW data \in Word16, DriverTick(re, we, addr, data)
    PROVE  /\ addr_saved' \in Byte \X Byte /\ data_saved' \in Bus \X Bus
           /\ Storing' => data_saved' \in Byte \X Byte
  <1>1. d_state' = StateIn(re, we)
    BY DEF DriverTick
  <1>2. addr_saved' \in Byte \X Byte
    BY BytesOfWord DEF DriverTick, BytesOK
  <1>3. CASE we
    BY <1>3, BytesOfWord DEF DriverTick, DataIn
  <1>4. CASE ~we
    <2>1. CASE d_state \in {"read_wait_0", "read_read_0"}
      <3>1. MemBus = m_drive
        BY <2>1, OnBus DEF MemBus, DriverByte
      <3>2. data_saved' \in Bus \X Bus
        BY <1>4, <2>1, <3>1 DEF DriverTick, DataIn, BytesOK
      <3>3. ~Storing'
        BY <1>1, <2>1 DEF StateIn, Following, Storing
      <3> QED BY <1>2, <3>2, <3>3
    <2>2. CASE d_state \notin {"read_wait_0", "read_read_0"}
      <3>1. data_saved' = data_saved
        BY <1>4, <2>2 DEF DriverTick, DataIn
      <3>2. Storing' => Storing
        BY <1>1, <1>4 DEF StateIn, Following, States, Storing
      <3> QED BY <1>2, <3>1, <3>2 DEF BytesOK
    <2> QED BY <2>1, <2>2
  <1> QED BY <1>3, <1>4

LEMMA DeviceBytes ==
    ASSUME BytesOK, InPhase, d_state \in States, NEW re \in BOOLEAN, NEW we \in BOOLEAN,
           d_state' = StateIn(re, we), data_saved' = data_saved \/ ~Storing,
           addr_saved' \in Byte \X Byte, data_saved' \in Bus \X Bus, DeviceEdge
    PROVE  /\ m_addr' \in Bus \X Bus /\ m_drive' \in Bus
           /\ \A a \in DOMAIN ram' : a \in Word16 /\ ram'[a] \in Byte \X Byte
  <1>1. m_drive' \in Bus
    <2>1. RamAt(Joined(m_addr))[1] \in Bus /\ RamAt(Joined(m_addr))[2] \in Bus /\ Floating \in Bus
      BY BytesInRam DEF Bus, Byte
    <2> HIDE DEF Bus
    <2> QED BY <2>1 DEF DeviceEdge
  <1>2. m_state \in {"start", "read_addr", "write_addr", "write_write_0", "write_write_1"} => BusAtEdge \in Bus
    <2>1. m_state \in {"start", "read_addr", "write_addr", "write_write_0", "write_write_1"} => m_drive = Floating
      BY DEF InPhase, States, Following
    <2> QED BY <2>1, OnBusAtEdge
  <1>3. m_addr' \in Bus \X Bus
    BY <1>2 DEF DeviceEdge, BytesOK
  <1>4. ASSUME m_state \in {"write_write_0", "write_write_1"}
        PROVE  m_addr \in Byte \X Byte /\ BusAtEdge \in Byte
    <2>1. d_state \in {"write_addr_3", "write_write_0", "write_write_1", "write_write_2"} /\ Asked /\ m_drive = Floating
      BY <1>4 DEF InPhase, States, Following
    <2>2. m_addr \in Byte \X Byte
      BY <2>1 DEF Asked, BytesOK
    <2>3. Storing /\ data_saved' \in Byte \X Byte
      BY <2>1 DEF Storing, BytesOK
    <2>4. d_state' \in {"write_write_0", "write_write_1", "write_write_2", "write_write_3"}
      BY <2>1 DEF StateIn, Following
    <2>5. BusAtEdge \in {data_saved'[1], data_saved'[2]}
      BY <2>1, <2>4, OnBus DEF BusAtEdge, DriverByte
    <2> QED BY <2>2, <2>3, <2>5
  <1>5. CASE m_state = "write_write_0"
    BY <1>1, <1>3, <1>4, <1>5, HalfStoredIsByte DEF DeviceEdge
  <1>6. CASE m_state = "write_write_1"
    BY <1>1, <1>3, <1>4, <1>6, HalfStoredIsByte DEF DeviceEdge
  <1>7. CASE m_state \notin {"write_write_0", "write_write_1"}
    BY <1>1, <1>3, <1>7 DEF DeviceEdge, BytesOK
  <1> QED BY <1>5, <1>6, <1>7

LEMMA BytesKept ==
    ASSUME BytesOK, InPhase, InStep, CpuOK, Edge
    PROVE  BytesOK'
  <1>1. mem_re \in BOOLEAN /\ mem_we \in BOOLEAN /\ (d_state # "idle" => ~mem_re /\ ~mem_we)
    BY Requests DEF InStep
  <1>2. p_addr \in Word16 /\ operand0 \in Word16
    BY Operands, Addresses
  <1>3. PsramTick(mem_re, mem_we, p_addr, operand0)
    BY DEF Edge
  <1>4. /\ addr_saved' \in Byte \X Byte /\ data_saved' \in Bus \X Bus
        /\ Storing' => data_saved' \in Byte \X Byte
    BY <1>1, <1>2, <1>3, DriverBytes DEF PsramTick, InStep
  <1>5. d_state' = StateIn(mem_re, mem_we) /\ d_state \in States
    BY <1>3 DEF PsramTick, DriverTick, InStep
  <1>6. CASE DeviceEdge
    <2>1. data_saved' = data_saved \/ ~Storing
      BY <1>1, <1>3 DEF PsramTick, DriverTick, DataIn, Storing
    <2> QED BY <1>1, <1>4, <1>5, <1>6, <2>1, DeviceBytes DEF BytesOK
  <1>7. CASE UNCHANGED deviceVars
    BY <1>4, <1>7 DEF deviceVars, BytesOK
  <1> QED BY <1>3, <1>6, <1>7 DEF PsramTick

-----------------------------------------------------------------------------
(* The registers.                                                            *)

\* What a tick finds: the driver in step and at what the cycle asked for, and
\* words wherever there are some.
FetchedOK == cur_cycle = 1 => instr # Floating
HeliumInv == InStep /\ KindOK /\ InPhase /\ BytesOK /\ CpuOK /\ MicroOK /\ FetchedOK

LEMMA InvImpliesType == HeliumInv => TypeOK
  <1> SUFFICES ASSUME HeliumInv PROVE TypeOK
    OBVIOUS
  <1>1. d_state \in {"idle", "read_wait_0", "write_wait_1"} \union DOMAIN Following
    BY DEF HeliumInv, InStep, States
  <1>2. m_state \in {"start", "read_addr", "read_wait_0", "read_wait_1", "read_read_0", "read_read_1",
                     "write_addr", "write_write_0", "write_write_1", "write_wait_0", "write_wait_1"}
    <2>1. InPhase
      BY DEF HeliumInv
    <2> QED BY <1>1, <2>1 DEF InPhase, Following
  <1>3. addr_saved \in Bus \X Bus
    BY DEF HeliumInv, BytesOK, Bus, Byte
  <1>4. PsramTypeOK
    BY <1>1, <1>2, <1>3 DEF HeliumInv, BytesOK, Byte, PsramTypeOK
  <1> QED BY <1>4 DEF HeliumInv, CpuOK, PlaceOK, InstrOK, RegsOK, ImemOK, SystemOK, FetchedOK,
             Words8, TypeOK

LEMMA ModesStay ==
    ASSUME mode \in Modes
    PROVE  execution_mode_in \in Modes
  BY DEF execution_mode_in, Modes

LEMMA PlaceKept ==
    ASSUME HeliumInv, Control
    PROVE  PlaceOK' /\ cur_cycle' \in {0, 1} /\ send_req' \in BOOLEAN
  <1> USE DEF HeliumInv
  <1>1. mode' \in Modes
    BY ModesStay DEF Control, CpuOK, PlaceOK
  <1>2. ip' \in [Modes -> Word16]
    <2>1. instr_addr_next \in Word16 /\ regular_IP_in \in Word16
      BY Targets
    <2>2. ip["iu"] \in Word16 /\ ip["er"] \in Word16 /\ ip["ei"] \in Word16
      BY DEF CpuOK, PlaceOK, Modes
    <2>3. ips \in [Modes -> Word16]
      BY <2>1, <2>2 DEF ips, Modes
    <2> QED BY <2>3 DEF Control
  <1>3. ui' \in [Modes -> Word16]
    <2>1. operand1 \in Word16 /\ 0 \in Word16
      BY Operands, FewWords
    <2> QED BY <2>1 DEF Control, CpuOK, PlaceOK
  <1>4. cur_cycle' \in {0, 1} /\ send_req' \in BOOLEAN
    BY DEF Control, CpuOK, advance
  <1> QED BY <1>1, <1>2, <1>3, <1>4 DEF PlaceOK

LEMMA InstrKept ==
    ASSUME HeliumInv, Control
    PROVE  InstrOK' /\ FetchedOK' /\ MicroOK'
  <1> USE DEF HeliumInv
  <1>1. rom_data \in MicroWords /\ rom_data \in Word16 /\ rom_data # Floating
    BY RomIsMicro
  <1>2. InstrOK'
    <2>1. mem_data \in Word16 \union {Floating}
      BY WordOrNone
    <2> QED BY <1>1, <2>1 DEF Control, CpuOK, InstrOK
  <1>3. cur_cycle \in {0, 1} /\ mode \in Modes /\ (mode = "iu" => ~tlb_miss)
    BY DEF CpuOK, PlaceOK, tlb_miss
  <1>4. CASE cur_cycle = 1 /\ ~tlb_miss
    <2>1. instr' = instr
      BY <1>4 DEF Control
    <2>2. cur_cycle' = 1 => mode' = mode
      BY <1>4 DEF Control
    <2> QED BY <1>2, <1>4, <2>1, <2>2 DEF FetchedOK, MicroOK
  <1>5. CASE mode = "iu" /\ cur_cycle = 0
    <2>1. instr' = rom_data
      BY <1>5 DEF Control
    <2> QED BY <1>1, <1>2, <2>1 DEF FetchedOK, MicroOK
  <1>6. CASE tlb_miss
    <2>1. instr' = rom_data
      BY <1>6 DEF Control
    <2> QED BY <1>1, <1>2, <2>1 DEF FetchedOK, MicroOK
  <1>7. CASE mode # "iu" /\ cur_cycle = 0 /\ ~tlb_miss
    <2>1. instr' = mem_data
      BY <1>7 DEF Control
    <2>2. CASE advance
      <3>1. ctrl_mem_re
        BY <1>7 DEF ctrl_mem_re
      <3>2. mem_data \in Word16
        BY <1>7, <2>2, <3>1, WordRead
      <3>3. instr' # Floating
        BY <2>1, <3>2, WordIsNumber DEF Floating
      <3>4. mode' = mode
        BY <1>7, <2>2 DEF Control, execution_mode_in, finish
      <3> QED BY <1>2, <1>7, <3>3, <3>4 DEF FetchedOK, MicroOK
    <2>3. CASE ~advance
      <3>1. cur_cycle' = 0
        BY <1>7, <2>3 DEF Control
      <3> QED BY <1>2, <3>1 DEF FetchedOK, MicroOK
    <2> QED BY <2>2, <2>3
  <1> QED BY <1>3, <1>4, <1>5, <1>6, <1>7

LEMMA RegsKept ==
    ASSUME HeliumInv, Registers
    PROVE  RegsOK'
  <1> USE DEF HeliumInv
  <1>1. regs' \in Words8
    <2>1. CASE state_update /\ "rwr" \in controls
      <3>1. cur_cycle = 1 /\ advance /\ ~tlb_miss
        BY <2>1 DEF state_update, finish
      <3>2. ASSUME "mrd" \in controls
            PROVE  mem_data \in Word16
        <4>1. ctrl_mem_re
          BY <3>1, <3>2 DEF ctrl_mem_re
        <4> QED BY <3>1, <4>1, WordRead
      <3>3. reg_in \in Word16
        BY <3>1, <3>2, WrittenWord
      <3> QED BY <2>1, <3>3 DEF Registers, CpuOK, RegsOK, Words8
    <2>2. CASE ~(state_update /\ "rwr" \in controls)
      BY <2>2 DEF Registers, CpuOK, RegsOK
    <2> QED BY <2>1, <2>2
  <1>2. ext' \in [2 .. 5 -> Word16]
    BY ExtWords DEF Registers, CpuOK, RegsOK
  <1>3. ports' \in [0 .. 4 -> Word16]
    <2>1. operand0 \in Word16
      BY Operands
    <2> QED BY <2>1 DEF Registers, CpuOK, RegsOK
  <1> QED BY <1>1, <1>2, <1>3 DEF RegsOK

LEMMA ImemKept ==
    ASSUME HeliumInv, InternalMemory
    PROVE  ImemOK'
  <1> USE DEF HeliumInv
  <1>1. operand0 \in Word16 /\ Page(v_addr) \in Word16
    BY Operands, Addresses
  <1>2. CASE "iwr" \in controls
    BY <1>1, <1>2 DEF InternalMemory, CpuOK, ImemOK, Words8
  <1>3. CASE "iwr" \notin controls
    BY <1>1, <1>3 DEF InternalMemory, CpuOK, ImemOK, Words8
  <1> QED BY <1>2, <1>3

LEMMA SystemKept ==
    ASSUME HeliumInv, System
    PROVE  SystemOK'
  <1> USE DEF HeliumInv
  <1>1. operand0 \in Word16
    BY Operands
  <1>2. px' \in [{0, 1} \union (10 .. 14) -> Word16]
    <2> DEFINE new(n) == IF "pxw" \in controls /\ Low(imm_ze, 5) = n THEN operand0
                         ELSE IF n \in 10 .. 14 /\ int THEN Told[n] ELSE px[n]
    <2>1. px' = [n \in {0, 1} \union (10 .. 14) |-> new(n)]
      BY DEF System, CpuOK, SystemOK
    <2>2. ASSUME NEW n \in {0, 1} \union (10 .. 14)
          PROVE  new(n) \in Word16
      BY <1>1, ToldWords DEF CpuOK, SystemOK
    <2> HIDE DEF new
    <2> QED BY <2>1, <2>2
  <1>3. pid' \in Word16
    BY DEF System, CpuOK, SystemOK
  <1>4. paging_en' \in BOOLEAN /\ int_saved' \in BOOLEAN /\ int_saved_priv' \in BOOLEAN
    BY DEF System, CpuOK, SystemOK
  <1>5. privileged' \in BOOLEAN
    BY DEF System, CpuOK, SystemOK
  <1>6. int_en' \in BOOLEAN
    BY DEF System, int_en_in
  <1> QED BY <1>2, <1>3, <1>4, <1>5, <1>6 DEF SystemOK

LEMMA InvKept == HeliumInv /\ [Next]_vars => HeliumInv'
  <1> SUFFICES ASSUME HeliumInv, [Next]_vars PROVE HeliumInv'
    OBVIOUS
  <1>1. InStep' /\ KindOK' /\ InPhase'
    BY InStepKept, KindKept, InPhaseKept DEF HeliumInv
  <1>2. CASE Edge
    <2>1. CpuOK'
      BY <1>2, PlaceKept, InstrKept, RegsKept, ImemKept, SystemKept DEF Edge, CpuOK
    <2>2. BytesOK'
      BY <1>2, BytesKept DEF HeliumInv
    <2>3. FetchedOK' /\ MicroOK'
      BY <1>2, InstrKept DEF Edge
    <2> QED BY <1>1, <2>1, <2>2, <2>3 DEF HeliumInv
  <1>3. CASE UNCHANGED vars
    <2>1. CpuOK' /\ MicroOK' /\ FetchedOK'
      BY <1>3 DEF vars, cpuVars, HeliumInv, CpuOK, PlaceOK, InstrOK, RegsOK, ImemOK, SystemOK,
         MicroOK, FetchedOK
    <2>2. BytesOK'
      BY <1>3 DEF vars, psramVars, driverVars, deviceVars, HeliumInv, BytesOK, Storing
    <2> QED BY <1>1, <2>1, <2>2 DEF HeliumInv
  <1> QED BY <1>2, <1>3 DEF Next, Tick, Stays

LEMMA InitInv == Init => HeliumInv
  <1> SUFFICES ASSUME Init PROVE HeliumInv
    OBVIOUS
  <1>1. InStep /\ InPhase
    BY InitInStep, InitInPhase
  <1>2. KindOK
    BY DEF Init, PsramInit, KindOK, Reading, Storing
  <1>3. \h4800 \in Word16 /\ \h27 \in Word16 /\ 0 \in Word16
    BY NumberIsWord, FewWords
  <1>4. CpuOK
    <2>1. instr = \h4800 /\ ip = [Zeros(Modes) EXCEPT !["iu"] = \h27]
      BY DEF Init
    <2>2. InstrOK /\ PlaceOK
      BY <1>3, <2>1 DEF Init, InstrOK, PlaceOK, Modes, Zeros
    <2>3. ASSUME NEW S
          PROVE  Zeros(S) \in [S -> Word16]
      BY <1>3 DEF Zeros
    <2>4. RegsOK /\ ImemOK
      BY <2>3 DEF Init, RegsOK, ImemOK, Words8
    <2>5. SystemOK
      <3>1. px = Zeros({0, 1} \union (10 .. 14)) /\ pid = 0
        BY DEF Init
      <3>2. /\ privileged = TRUE /\ paging_en = FALSE
            /\ int_en = TRUE /\ int_saved = FALSE /\ int_saved_priv = FALSE
        BY DEF Init
      <3>3. px \in [{0, 1} \union (10 .. 14) -> Word16]
        BY <2>3, <3>1, Zenon
      <3>4. pid \in Word16
        <4>1. pid = 0
          BY <3>1
        <4>2. 0 \in Word16
          BY <1>3
        <4> QED BY <4>1, <4>2
      <3>5. /\ privileged \in BOOLEAN /\ paging_en \in BOOLEAN
            /\ int_en \in BOOLEAN /\ int_saved \in BOOLEAN /\ int_saved_priv \in BOOLEAN
        BY <3>2, Zenon
      <3> QED BY <3>3, <3>4, <3>5, Zenon DEF SystemOK
    <2> QED BY <2>2, <2>4, <2>5 DEF Init, CpuOK
  <1>5. MicroOK /\ FetchedOK
    BY DEF Init, MicroOK, FetchedOK
  <1>6. BytesOK
    <2>1. PICK program \in Programs : ram = [a \in DOMAIN program |-> Bytes(program[a])]
      BY DEF Init
    <2>2. \A a \in DOMAIN program : a \in Word16 /\ Bytes(program[a]) \in Byte \X Byte
      BY ProgramsAssumption, BytesOfWord
    <2>3. \A a \in DOMAIN ram : a \in Word16 /\ ram[a] \in Byte \X Byte
      BY <2>1, <2>2
    <2>4. 0 \in Byte /\ 0 \in Bus /\ Floating \in Bus
      BY DEF Byte, Bus
    <2> QED BY <2>3, <2>4 DEF Init, PsramInit, BytesOK, Storing
  <1> QED BY <1>1, <1>2, <1>4, <1>5, <1>6 DEF HeliumInv

\* Whatever program memory holds, every register holds a word and the bus is
\* never contended: a word that floats is never carried out, no instruction
\* reads internal memory beyond its end, and the device is clocked only for a
\* request.
THEOREM RegistersHoldWords == Spec => []TypeOK
  <1> QED BY InitInv, InvKept, InvImpliesType, PTL DEF Spec

-----------------------------------------------------------------------------
(* Memory as programs see it.                                                *)

\* The address that a request was made with is still that of the cycle, and so
\* is the word to store.
AddressStays == ~send_req => /\ Joined(addr_saved) = p_addr
                             /\ Storing => Joined(data_saved) = operand0

\* Paging does not begin under a fetch: where the instruction before it is still
\* in its place and asks for paging, there is paging already.
PagingSettled == cur_cycle = 0 /\ mode # "iu" /\ Update(0) => paging_en

\* The word stored is not only seen but there.
PlaceThere ==
    d_state \in {"write_write_1", "write_write_2", "write_write_3", "write_wait_0", "write_wait_1", "write_fin"} =>
        Joined(addr_saved) \in DOMAIN ram

MemoryInv == HeliumInv /\ AddressStays /\ PagingSettled /\ PlaceThere

LEMMA SameWord ==
    ASSUME NEW w \in Word16
    PROVE  Joined(Bytes(w)) = w
  <1>1. w \in Int /\ 0 <= w /\ w <= 65535
    BY WordIsNumber
  <1> DEFINE high == w \div 256
             low  == w % 256
  <1>2. high \in 0 .. 255 /\ low \in 0 .. 255 /\ (256 * high) + low = w
    BY <1>1
  <1>3. Bytes(w)[1] = high /\ Bytes(w)[2] = low
    BY DEF Bytes
  <1> HIDE DEF high, low
  <1> QED BY <1>2, <1>3 DEF Joined

\* Control lines that come together or do not.
LEMMA LinesTogether ==
    ASSUME NEW w
    PROVE  /\ "iwr" \notin Controls(FALSE, w)
           /\ "pxw" \in Controls(FALSE, w) => "rwr" \notin Controls(FALSE, w)
           /\ \A m \in BOOLEAN : "mrd" \in Controls(m, w) => "rwr" \in Controls(m, w)
  <1>1. \A o : /\ "iwr" \notin RowOfImmediate(o) /\ "pxw" \notin RowOfImmediate(o)
               /\ "mrd" \in RowOfImmediate(o) => "rwr" \in RowOfImmediate(o)
    BY DEF RowOfImmediate
  <1>2. \A o : /\ "iwr" \notin RowOfRegisters(o) /\ "pxw" \notin RowOfRegisters(o)
               /\ "mrd" \in RowOfRegisters(o) => "rwr" \in RowOfRegisters(o)
    BY <1>1 DEF RowOfRegisters
  <1>3. \A o : /\ "iwr" \notin RowOfSystem(o) /\ "mrd" \notin RowOfSystem(o)
               /\ "pxw" \in RowOfSystem(o) => "rwr" \notin RowOfSystem(o)
    BY DEF RowOfSystem
  <1>4. \A o : /\ "iwr" \notin RowOfOneRegister(o) /\ "pxw" \notin RowOfOneRegister(o)
               /\ "mrd" \in RowOfOneRegister(o) => "rwr" \in RowOfOneRegister(o)
    BY DEF RowOfOneRegister
  <1>5. \A o : "mrd" \in RowOfMicrocode(o) => "rwr" \in RowOfMicrocode(o)
    BY DEF RowOfMicrocode
  <1> QED BY <1>1, <1>2, <1>3, <1>4, <1>5 DEF Controls, Row

\* No word of the microcode, which may be in the place of an instruction when a
\* fetch begins, asks a program's decoder for a change of the system.
LEMMA MicrocodeIsHarmless ==
    ASSUME NEW w \in MicroWords
    PROVE  "pxw" \notin Controls(FALSE, w)
  <1>1. w \in Int /\ 0 <= w /\ w <= 65535
    BY RomWords, WordIsNumber
  <1>2. \A o : /\ "pxw" \notin RowOfImmediate(o) /\ "pxw" \notin RowOfOneRegister(o)
               /\ "pxw" \in RowOfSystem(o) => o = 7
    BY DEF RowOfImmediate, RowOfOneRegister, RowOfSystem
  <1>3. \A o : "pxw" \notin RowOfRegisters(o)
    BY <1>2 DEF RowOfRegisters
  <1>4. ~(Major(w) = 1 /\ Long(w) = 7)
    <2>1. SUFFICES ASSUME Major(w) = 1, Long(w) = 7 PROVE FALSE
      OBVIOUS
    <2>2. (w \div 2048) % 32 = 1 /\ (w \div 256) % 8 = 7
      BY <1>1, <2>1 DEF Major, Long, Bits
    <2>3. 3840 <= w /\ w < 4096
      BY <1>1, <2>2
    <2>4. w \notin MicroWords
      BY <2>3, RomList
    <2> QED BY <2>4
  <1> QED BY <1>2, <1>3, <1>4 DEF Controls, Row

\* A prefix does not reach the number of a register for the system.
LEMMA SystemNumber ==
    ASSUME NEW prefix \in Int, NEW v \in Int
    PROVE  Low((256 * Low(prefix, 8)) + Low(v, 8), 5) = Low(v, 5)
  <1> DEFINE u == Low(prefix, 8)
  <1>1. u \in Int
    <2>1. u \in 0 .. 255
      BY LowIsWord
    <2> QED BY <2>1
  <1>2. Low(v, 8) = v % 256
    BY DEF Low
  <1> HIDE DEF u
  <1>3. ((256 * u) + (v % 256)) % 32 = v % 32
    BY <1>1
  <1>4. Low((256 * u) + Low(v, 8), 5) = Low(v, 5)
    BY <1>2, <1>3 DEF Low
  <1> QED BY <1>4 DEF u

-----------------------------------------------------------------------------
(* The address stays while a request is out.                                 *)

LEMMA AddressKept ==
    ASSUME MemoryInv, Edge, ~advance
    PROVE  p_addr' = p_addr /\ (cur_cycle = 1 => operand0' = operand0)
  <1> USE DEF MemoryInv
  <1>1. InStep /\ CpuOK /\ PagingSettled
    BY DEF HeliumInv
  <1>2. Access /\ (cur_cycle = 1 => ~tlb_miss)
    BY <1>1, Waits
  <1>3. /\ mode \in Modes /\ cur_cycle \in {0, 1}
        /\ Control /\ Registers /\ InternalMemory /\ System
    BY <1>1 DEF InStep, Edge
  <1>4. /\ cur_cycle' = cur_cycle /\ mode' = mode
        /\ ui' = ui /\ regs' = regs /\ ext' = ext
        /\ cur_cycle = 1 => instr' = instr /\ ip'[mode] = ip[mode]
    BY <1>2, <1>3, WaitKeeps
  <1>5. CASE cur_cycle = 1
    <2>1. instr' = instr /\ ip'[mode] = ip[mode]
      BY <1>4, <1>5
    <2>2. micro' = micro /\ word' = word
      BY <1>4, <2>1 DEF micro, word
    <2>3. controls' = controls /\ rf' = rf /\ rs' = rs /\ imm_ze' = imm_ze
      BY <1>4, <2>2 DEF controls, rf, rs, imm_ze
    <2>4. operand0' = operand0 /\ operand1' = operand1
      BY <1>4, <2>3 DEF operand0, operand1
    <2>5. v_addr' = v_addr
      BY <1>4, <2>1, <2>3, <2>4 DEF v_addr, SpIn, Writes, Accesses, instr_addr
    <2>6. CASE mode = "iu"
      BY <1>4, <2>4, <2>5, <2>6 DEF p_addr
    <2>7. CASE mode # "iu"
      <3>1. controls = Controls(FALSE, word)
        BY <2>7 DEF controls, micro
      <3>2. controls \intersect {"mrd", "mwr"} # {}
        BY <1>2, <1>5 DEF Access, ctrl_mem_re, ctrl_mem_we
      <3>3. "iwr" \notin controls /\ "pxw" \notin controls
        BY <3>1, <3>2, AccessIsPlain
      <3>4. imem_low' = imem_low
        BY <1>3, <3>3 DEF InternalMemory
      <3>5. paging_en' <=> paging_en
        BY <1>3, <3>3 DEF System, Update
      <3>6. p_addr' = p_addr
        BY <1>4, <2>5, <3>4, <3>5 DEF p_addr, tlb_entry
      <3> QED BY <2>4, <3>6
    <2> QED BY <2>6, <2>7
  <1>6. CASE cur_cycle = 0
    <2>1. mode # "iu"
      BY <1>2, <1>6 DEF Access, ctrl_mem_re, ctrl_mem_we
    <2>2. ip'[mode] = ip[mode]
      <3>1. ip' = ips
        BY <1>3 DEF Control
      <3>2. ~finish
        BY <1>6 DEF finish
      <3>3. ips[mode] = ip[mode]
        BY <1>3, <2>1, <3>2 DEF ips, Modes
      <3> QED BY <3>1, <3>3
    <2>3. v_addr = ip[mode] /\ v_addr' = ip'[mode]
      BY <1>4, <1>6 DEF v_addr, instr_addr
    <2>4. "iwr" \notin controls
      BY <2>1, LinesTogether DEF controls, micro
    <2>5. imem_low' = imem_low
      BY <1>3, <2>4 DEF InternalMemory
    <2>6. paging_en' <=> paging_en
      BY <1>1, <1>3, <1>6, <2>1 DEF System, PagingSettled
    <2>7. p_addr' = p_addr
      BY <1>4, <2>2, <2>3, <2>5, <2>6 DEF p_addr, tlb_entry
    <2> QED BY <1>6, <2>7
  <1> QED BY <1>3, <1>5, <1>6

LEMMA AddressStaysKept ==
    ASSUME MemoryInv, Edge
    PROVE  AddressStays'
  <1> USE DEF MemoryInv
  <1>1. InStep /\ CpuOK /\ KindOK /\ AddressStays
    BY DEF HeliumInv
  <1>2. send_req' = advance
    BY DEF Edge, Control
  <1>3. SUFFICES ASSUME ~advance PROVE AddressStays'
    BY <1>2 DEF AddressStays
  <1>4. p_addr' = p_addr /\ (cur_cycle = 1 => operand0' = operand0)
    BY <1>3, AddressKept
  <1>5. d_state' # "idle"
    BY <1>1, <1>3, Waits
  <1>6. /\ d_state' = StateIn(mem_re, mem_we)
        /\ addr_saved' = IF mem_re \/ mem_we THEN Bytes(p_addr) ELSE addr_saved
        /\ data_saved' = DataIn(mem_we, operand0)
    BY DEF Edge, PsramTick, DriverTick
  <1>7. CASE d_state = "idle"
    <2>1. mem_re \/ mem_we
      BY <1>5, <1>6, <1>7 DEF StateIn
    <2>2. Joined(addr_saved)' = p_addr
      <3>1. addr_saved' = Bytes(p_addr)
        BY <1>6, <2>1
      <3>2. Joined(Bytes(p_addr)) = p_addr
        BY <1>1, Addresses, SameWord
      <3> QED BY <3>1, <3>2
    <2>3. ASSUME Storing'
          PROVE  Joined(data_saved)' = operand0 /\ cur_cycle = 1
      <3>1. mem_we
        BY <1>6, <1>7, <2>1, <2>3 DEF StateIn, Storing
      <3>2. data_saved' = Bytes(operand0)
        BY <1>6, <1>7, <3>1 DEF DataIn
      <3>3. Joined(Bytes(operand0)) = operand0
        BY <1>1, Operands, SameWord
      <3>4. cur_cycle = 1
        BY <3>1 DEF mem_we, ctrl_mem_we
      <3> QED BY <3>2, <3>3, <3>4
    <2> QED BY <1>4, <2>2, <2>3 DEF AddressStays
  <1>8. CASE d_state # "idle"
    <2>1. ~send_req /\ mem_re = FALSE /\ mem_we = FALSE
      BY <1>1, <1>8, Requests DEF InStep
    <2>2. addr_saved' = addr_saved
      BY <1>6, <2>1
    <2>3. ASSUME Storing'
          PROVE  Joined(data_saved)' = operand0 /\ cur_cycle = 1
      <3>1. Storing
        BY <1>1, <1>6, <1>8, <2>1, <2>3 DEF StateIn, Following, InStep, States, Storing
      <3>2. d_state \notin {"read_wait_0", "read_read_0"}
        BY <3>1 DEF Storing
      <3>3. data_saved' = data_saved
        BY <1>6, <2>1, <3>2 DEF DataIn
      <3>4. cur_cycle = 1
        BY <1>1, <3>1 DEF KindOK, ctrl_mem_we
      <3> QED BY <1>1, <2>1, <3>1, <3>3, <3>4 DEF AddressStays
    <2>4. Joined(addr_saved)' = p_addr
      BY <1>1, <2>1, <2>2 DEF AddressStays
    <2> QED BY <1>4, <2>3, <2>4 DEF AddressStays
  <1> QED BY <1>7, <1>8

LEMMA PagingSettledKept ==
    ASSUME MemoryInv, Edge, CpuOK'
    PROVE  PagingSettled'
  <1> USE DEF MemoryInv
  <1>1. /\ InStep /\ CpuOK /\ MicroOK /\ mode \in Modes
        /\ cur_cycle \in {0, 1} /\ Control /\ Registers /\ System
    BY DEF HeliumInv, InStep, Edge
  <1>2. SUFFICES ASSUME cur_cycle' = 0, mode' # "iu", Update(0)' PROVE paging_en'
    BY DEF PagingSettled
  <1>3. ~micro' /\ controls' = Controls(FALSE, word') /\ "pxw" \in Controls(FALSE, word')
    BY <1>2 DEF micro, controls, Update
  <1>4. word' \notin MicroWords
    BY <1>3, MicrocodeIsHarmless
  <1>5. 0 \in MicroWords
    BY DEF MicroWords
  <1>6. ~(mode = "iu" /\ cur_cycle = 0) /\ ~tlb_miss
    <2>1. SUFFICES ASSUME (mode = "iu" /\ cur_cycle = 0) \/ tlb_miss PROVE FALSE
      OBVIOUS
    <2>2. instr' = rom_data
      BY <1>1, <2>1 DEF Control
    <2>3. rom_data \in MicroWords /\ rom_data # Floating
      BY <1>1, RomIsMicro
    <2>4. word' = rom_data
      BY <2>2, <2>3 DEF word, AsNumber
    <2> QED BY <1>4, <2>3, <2>4
  <1>7. cur_cycle = 1
    <2>1. SUFFICES ASSUME cur_cycle = 0 PROVE FALSE
      BY <1>1
    <2>2. ~advance
      BY <1>1, <1>2, <1>6, <2>1 DEF Control
    <2>3. d_state # "read_read_1"
      BY <2>2 DEF advance, Ready
    <2>4. instr' = Floating
      BY <1>1, <1>6, <2>1, <2>3 DEF Control, mem_data
    <2>5. word' = 0
      BY <2>4 DEF word, AsNumber
    <2> QED BY <1>4, <1>5, <2>5
  <1>8. instr' = instr
    BY <1>1, <1>6, <1>7 DEF Control
  <1>9. word' = word
    BY <1>8 DEF word
  <1>10. mode # "iu"
    <2>1. SUFFICES ASSUME mode = "iu" PROVE FALSE
      OBVIOUS
    <2>2. instr \in MicroWords
      BY <1>1, <1>7, <2>1 DEF MicroOK
    <2>3. word = instr
      BY <2>2, RomWords DEF word, AsNumber
    <2> QED BY <1>4, <1>9, <2>2, <2>3
  <1>11. ~micro /\ controls = Controls(FALSE, word) /\ "pxw" \in controls
    BY <1>3, <1>9, <1>10 DEF micro, controls
  <1>12. "rwr" \notin controls
    BY <1>11, LinesTogether
  <1>13. regs' = regs
    BY <1>1, <1>12 DEF Registers
  <1>14. rf' = rf
    <2>1. micro' = micro
      BY <1>3, <1>11 DEF micro
    <2> QED BY <1>9, <2>1 DEF rf
  <1>15. operand0' = operand0
    BY <1>13, <1>14 DEF operand0
  <1>16. Low(imm_ze, 5)' = Low(imm_ze, 5)
    <2>1. ui[mode] \in Int /\ ui'[mode'] \in Int
      BY <1>1, WordIsNumber DEF CpuOK, PlaceOK
    <2>2. Unextended(micro, word) \in Int
      BY <1>1, Operands, ImmediatesAreNumbers
    <2>3. micro' = micro
      BY <1>3, <1>11 DEF micro
    <2>4. Unextended(micro, word)' = Unextended(micro, word)
      BY <1>9, <2>3
    <2>5. Low(imm_ze, 5) = Low(Unextended(micro, word), 5)
      BY <2>1, <2>2, SystemNumber DEF imm_ze
    <2>6. imm_ze' = (256 * Low(ui'[mode'], 8)) + Low(Unextended(micro, word), 8)
      BY <2>4 DEF imm_ze
    <2>7. Low(imm_ze', 5) = Low(Unextended(micro, word), 5)
      BY <2>1, <2>2, <2>6, SystemNumber
    <2> QED BY <2>5, <2>7
  <1>17. Update(0)
    BY <1>2, <1>11, <1>15, <1>16 DEF Update
  <1> QED BY <1>1, <1>17 DEF System

-----------------------------------------------------------------------------
(* What an edge does to memory.                                              *)

\* The array of the device changes only while a word is being stored, and only
\* at its address, where there is something from the first half on.
LEMMA ArrayChanges ==
    ASSUME InStep, InPhase, PlaceThere, Edge
    PROVE  /\ d_state \in {"idle", "write_fin"} \/ ~Storing => ram' = ram
           /\ Storing =>
                /\ DOMAIN ram \subseteq DOMAIN ram'
                /\ DOMAIN ram' \subseteq DOMAIN ram \union {Joined(addr_saved)}
                /\ \A x \in DOMAIN ram : x # Joined(addr_saved) => ram'[x] = ram[x]
           /\ PlaceThere'
  <1> DEFINE place == Joined(addr_saved)
  <1>1. /\ mem_re \in BOOLEAN /\ mem_we \in BOOLEAN
        /\ d_state # "idle" => mem_re = FALSE /\ mem_we = FALSE
    BY Requests DEF InStep
  <1>2. /\ d_state' = StateIn(mem_re, mem_we) /\ d_state \in States
        /\ addr_saved' = IF mem_re \/ mem_we THEN Bytes(p_addr) ELSE addr_saved
        /\ IF (d_state \in ClockHigh) # (d_state' \in ClockHigh) THEN DeviceEdge ELSE UNCHANGED deviceVars
    BY DEF Edge, PsramTick, DriverTick, InStep
  <1>3. CASE d_state = "idle"
    <2>1. d_state' \in {"idle", "read_addr_0", "write_addr_0"}
      BY <1>2, <1>3 DEF StateIn
    <2>2. ram' = ram
      BY <1>2, <1>3, <2>1 DEF ClockHigh, deviceVars
    <2> QED BY <1>3, <2>1, <2>2 DEF Storing, PlaceThere
  <1>4. CASE d_state \in {"write_write_0", "write_write_2"}
    <2>1. d_state' \in {"write_write_1", "write_write_3"} /\ DeviceEdge /\ addr_saved' = addr_saved
      BY <1>1, <1>2, <1>4 DEF StateIn, Following, ClockHigh
    <2>2. m_state \in {"write_write_0", "write_write_1"} /\ Asked
      BY <1>4 DEF InPhase
    <2>3. PICK half : StoreHalf(half)
      BY <2>1, <2>2 DEF DeviceEdge
    <2>4. Joined(m_addr) = place
      BY <2>2, SamePlace
    <2> DEFINE w == [RamAt(place) EXCEPT ![half] = BusAtEdge]
    <2>5. ram' = [x \in DOMAIN ram \union {place} |-> IF x = place THEN w ELSE ram[x]]
      BY <2>3, <2>4 DEF StoreHalf
    <2>6. Storing /\ d_state \notin {"idle", "write_fin"}
      BY <1>4 DEF Storing
    <2>7. Joined(addr_saved)' = place
      BY <2>1
    <2> HIDE DEF w, place
    <2>8. place \in DOMAIN ram' /\ DOMAIN ram' = DOMAIN ram \union {place}
      BY <2>5
    <2>9. \A x \in DOMAIN ram : x # place => ram'[x] = ram[x]
      BY <2>5
    <2> QED BY <2>6, <2>7, <2>8, <2>9 DEF place, PlaceThere
  <1>5. CASE d_state \notin {"idle", "write_write_0", "write_write_2"}
    <2>1. ram' = ram
      <3>1. CASE d_state \in {"write_addr_3", "write_write_1"}
        <4>1. /\ d_state = "write_addr_3" => d_state' = "write_write_0"
              /\ d_state = "write_write_1" => d_state' = "write_write_2"
          BY <1>2 DEF StateIn, Following
        <4> QED BY <1>2, <3>1, <4>1 DEF ClockHigh, deviceVars
      <3>2. CASE d_state \notin {"write_addr_3", "write_write_1"}
        <4>1. m_state \notin {"write_write_0", "write_write_1"}
          BY <1>2, <1>5, <3>2 DEF InPhase, States, Following
        <4> QED BY <1>2, <4>1 DEF DeviceEdge, deviceVars
      <3> QED BY <3>1, <3>2
    <2>2. addr_saved' = addr_saved
      BY <1>1, <1>2, <1>5
    <2>3. d_state' \in {"write_write_1", "write_write_2", "write_write_3", "write_wait_0", "write_wait_1", "write_fin"} =>
              d_state \in {"write_write_1", "write_write_2", "write_write_3", "write_wait_0", "write_wait_1", "write_fin"}
      BY <1>2, <1>5 DEF StateIn, Following, States, DeviceReady
    <2>4. PlaceThere'
      BY <2>1, <2>2, <2>3 DEF PlaceThere
    <2> QED BY <2>1, <2>4
  <1> QED BY <1>3, <1>4, <1>5

LEMMA MemoryInvKept == MemoryInv /\ [Next]_vars => MemoryInv'
  <1> SUFFICES ASSUME MemoryInv, [Next]_vars PROVE MemoryInv'
    OBVIOUS
  <1>1. HeliumInv'
    BY InvKept DEF MemoryInv
  <1>2. CASE Edge
    <2>1. CpuOK'
      BY <1>1 DEF HeliumInv
    <2>2. AddressStays' /\ PagingSettled'
      BY <1>2, <2>1, AddressStaysKept, PagingSettledKept
    <2>3. PlaceThere'
      BY <1>2, ArrayChanges DEF MemoryInv, HeliumInv
    <2> QED BY <1>1, <2>2, <2>3 DEF MemoryInv
  <1>3. CASE UNCHANGED vars
    <2>1. /\ UNCHANGED <<cur_cycle, send_req, mode, instr, ip, ui, regs, ext>>
          /\ UNCHANGED <<imem_low, paging_en, d_state, addr_saved, data_saved, ram>>
      BY <1>3 DEF vars, cpuVars, psramVars, driverVars, deviceVars
    <2>2. micro' = micro /\ word' = word
      BY <2>1 DEF micro, word
    <2>3. controls' = controls /\ rf' = rf /\ rs' = rs /\ imm_ze' = imm_ze
      BY <2>1, <2>2 DEF controls, rf, rs, imm_ze
    <2>4. operand0' = operand0 /\ operand1' = operand1
      BY <2>1, <2>3 DEF operand0, operand1
    <2>5. v_addr' = v_addr
      BY <2>1, <2>3, <2>4 DEF v_addr, SpIn, Writes, Accesses, instr_addr
    <2>6. p_addr' = p_addr
      BY <2>1, <2>5 DEF p_addr, tlb_entry
    <2>7. AddressStays'
      BY <2>1, <2>4, <2>6 DEF MemoryInv, AddressStays, Storing
    <2>8. PagingSettled'
      BY <2>1, <2>3, <2>4 DEF MemoryInv, PagingSettled, Update
    <2>9. PlaceThere'
      BY <2>1 DEF MemoryInv, PlaceThere
    <2> QED BY <1>1, <2>7, <2>8, <2>9 DEF MemoryInv
  <1> QED BY <1>2, <1>3 DEF Next, Tick, Stays

LEMMA InitMemoryInv == Init => MemoryInv
  <1> SUFFICES ASSUME Init PROVE MemoryInv
    OBVIOUS
  <1>1. HeliumInv
    BY InitInv
  <1>2. AddressStays /\ PagingSettled /\ PlaceThere
    BY DEF Init, PsramInit, AddressStays, PagingSettled, PlaceThere
  <1> QED BY <1>1, <1>2 DEF MemoryInv

-----------------------------------------------------------------------------
(* What programs see of it.                                                  *)

LEMMA ViewAtRest ==
    ASSUME ~Storing
    PROVE  MemoryView = [x \in DOMAIN ram |-> Joined(ram[x])]
  BY DEF MemoryView

LEMMA ViewWhileStoring ==
    ASSUME Storing
    PROVE  MemoryView = [x \in DOMAIN ram \union {Joined(addr_saved)} |->
                            IF x = Joined(addr_saved) THEN Joined(data_saved) ELSE Joined(ram[x])]
  BY DEF MemoryView

\* A store is seen at the edge the driver takes its word, and no other edge is.
LEMMA ViewChanges ==
    ASSUME MemoryInv, Edge
    PROVE  MemoryView' = IF mem_we
                         THEN [x \in DOMAIN MemoryView \union {p_addr} |->
                                   IF x = p_addr THEN operand0 ELSE MemoryView[x]]
                         ELSE MemoryView
  <1> DEFINE place == Joined(addr_saved)
  <1>1. InStep /\ InPhase /\ CpuOK /\ PlaceThere
    BY DEF MemoryInv, HeliumInv
  <1>2. /\ mem_re \in BOOLEAN /\ mem_we \in BOOLEAN
        /\ d_state # "idle" => mem_re = FALSE /\ mem_we = FALSE
    BY <1>1, Requests DEF InStep
  <1>3. /\ d_state' = StateIn(mem_re, mem_we) /\ d_state \in States
        /\ addr_saved' = IF mem_re \/ mem_we THEN Bytes(p_addr) ELSE addr_saved
        /\ data_saved' = DataIn(mem_we, operand0)
    BY <1>1 DEF Edge, PsramTick, DriverTick, InStep
  <1>4. /\ d_state \in {"idle", "write_fin"} \/ ~Storing => ram' = ram
        /\ Storing =>
             /\ DOMAIN ram \subseteq DOMAIN ram'
             /\ DOMAIN ram' \subseteq DOMAIN ram \union {place}
             /\ \A x \in DOMAIN ram : x # place => ram'[x] = ram[x]
    BY <1>1, ArrayChanges
  <1>5. CASE mem_we
    <2>1. d_state = "idle" /\ ~Storing /\ ram' = ram
      BY <1>2, <1>4, <1>5 DEF Storing
    <2>2. mem_re = FALSE
      BY <1>2, <1>5, NotBoth DEF mem_re, mem_we, ctrl_mem_re, ctrl_mem_we
    <2>3. d_state' = "write_addr_0" /\ addr_saved' = Bytes(p_addr) /\ data_saved' = Bytes(operand0)
      BY <1>3, <1>5, <2>1, <2>2 DEF StateIn, DataIn
    <2>4. Joined(addr_saved)' = p_addr /\ Joined(data_saved)' = operand0
      BY <1>1, <2>3, SameWord, Operands, Addresses
    <2>5. Storing'
      BY <2>3 DEF Storing
    <2>6. MemoryView' = [x \in DOMAIN ram \union {p_addr} |-> IF x = p_addr THEN operand0 ELSE Joined(ram[x])]
      BY <2>1, <2>4, <2>5 DEF MemoryView
    <2>7. MemoryView = [x \in DOMAIN ram |-> Joined(ram[x])]
      BY <2>1, ViewAtRest
    <2>8. /\ DOMAIN MemoryView = DOMAIN ram
          /\ \A x \in DOMAIN ram : MemoryView[x] = Joined(ram[x])
      BY <2>7
    <2> QED BY <1>5, <2>6, <2>8
  <1>6. CASE ~mem_we /\ Storing
    <2>1. d_state # "idle" /\ addr_saved' = addr_saved /\ data_saved' = data_saved
      BY <1>2, <1>3, <1>6 DEF Storing, DataIn
    <2>2. MemoryView = [x \in DOMAIN ram \union {place} |-> IF x = place THEN Joined(data_saved) ELSE Joined(ram[x])]
      BY <1>6, ViewWhileStoring
    <2>3. CASE d_state = "write_fin"
      <3>1. d_state' = "idle" /\ ram' = ram
        BY <1>3, <1>4, <2>3 DEF StateIn, Following
      <3>2. MemoryView' = [x \in DOMAIN ram |-> Joined(ram[x])]
        BY <3>1 DEF MemoryView, Storing
      <3>3. place \in DOMAIN ram
        BY <1>1, <2>3 DEF PlaceThere
      <3>4. Joined(ram[place]) = Joined(data_saved)
        <4>1. ram[place][1] = data_saved[1] /\ ram[place][2] = data_saved[2]
          BY <1>1, <2>3, <3>3 DEF InPhase, Stored1, Stored2, RamAt
        <4> QED BY <4>1 DEF Joined
      <3> HIDE DEF place
      <3>5. DOMAIN ram \union {place} = DOMAIN ram
        BY <3>3
      <3>6. MemoryView = MemoryView'
        BY <2>2, <3>2, <3>4, <3>5
      <3> QED BY <1>6, <3>6
    <2>4. CASE d_state # "write_fin"
      <3>1. Storing'
        BY <1>2, <1>3, <1>6, <2>1, <2>4 DEF StateIn, Following, Storing, DeviceReady
      <3>2. Joined(addr_saved)' = place /\ Joined(data_saved)' = Joined(data_saved)
        BY <2>1
      <3>3. MemoryView' = [x \in DOMAIN ram' \union {place} |-> IF x = place THEN Joined(data_saved) ELSE Joined(ram'[x])]
        BY <3>1, <3>2 DEF MemoryView
      <3> HIDE DEF place
      <3>4. /\ DOMAIN ram' \union {place} = DOMAIN ram \union {place}
            /\ \A x \in DOMAIN ram \union {place} : x # place => ram'[x] = ram[x]
        BY <1>4, <1>6
      <3>5. MemoryView = MemoryView'
        BY <2>2, <3>3, <3>4
      <3> QED BY <1>6, <3>5
    <2> QED BY <2>3, <2>4
  <1>7. CASE ~mem_we /\ ~Storing
    <2>1. ram' = ram
      BY <1>4, <1>7
    <2>2. ~Storing'
      BY <1>2, <1>3, <1>7 DEF StateIn, Following, States, Storing
    <2>3. MemoryView' = MemoryView
      BY <1>7, <2>1, <2>2 DEF MemoryView
    <2> QED BY <1>7, <2>3
  <1> QED BY <1>5, <1>6, <1>7

\* A read that is over has brought the word that programs see at its address.
LEMMA ReadBrings ==
    ASSUME MemoryInv, ctrl_mem_re, advance, ~tlb_miss
    PROVE  mem_data = WordAt(MemoryView, p_addr)
  <1>1. InStep /\ InPhase /\ KindOK
    BY DEF MemoryInv, HeliumInv
  <1>2. Ready(mem_re, mem_we)
    BY DEF advance
  <1>3. d_state # "idle"
    BY <1>1, <1>2 DEF Ready, InStep, mem_re
  <1>4. d_state # "write_fin"
    <2>1. ~(ctrl_mem_re /\ ctrl_mem_we)
      BY NotBoth DEF ctrl_mem_re, ctrl_mem_we
    <2> QED BY <1>1, <2>1 DEF KindOK, Storing
  <1>5. d_state = "read_read_1"
    BY <1>2, <1>3, <1>4 DEF Ready
  <1>6. ~Storing /\ ~send_req
    BY <1>1, <1>5 DEF Storing, InStep
  <1>7. Joined(addr_saved) = p_addr
    BY <1>6 DEF MemoryInv, AddressStays
  <1>8. RamAt(p_addr)[1] = data_saved[1] /\ RamAt(p_addr)[2] = data_saved[2]
    BY <1>1, <1>5, <1>7 DEF InPhase, Stored1, Stored2
  <1>9. mem_data = Joined(RamAt(p_addr))
    BY <1>5, <1>8 DEF mem_data, Joined
  <1>10. MemoryView = [x \in DOMAIN ram |-> Joined(ram[x])]
    BY <1>6, ViewAtRest
  <1>11. Joined(<<0, 0>>) = 0
    BY DEF Joined
  <1>12. WordAt(MemoryView, p_addr) = IF p_addr \in DOMAIN MemoryView THEN MemoryView[p_addr] ELSE 0
    BY DEF WordAt
  <1> QED BY <1>9, <1>10, <1>11, <1>12 DEF RamAt

LEMMA PromiseKept ==
    ASSUME MemoryInv, Edge
    PROVE  /\ MemoryView' = IF mem_we
                            THEN [x \in DOMAIN MemoryView \union {p_addr} |->
                                      IF x = p_addr THEN operand0 ELSE MemoryView[x]]
                            ELSE MemoryView
           /\ mode # "iu" /\ cur_cycle = 0 /\ cur_cycle' = 1 => instr' = WordAt(MemoryView, p_addr)
           /\ "mrd" \in controls /\ cur_cycle = 1 /\ cur_cycle' = 0 /\ ~tlb_miss =>
                  regs'[rf] = WordAt(MemoryView, p_addr)
  <1>1. Control /\ Registers /\ CpuOK
    BY DEF MemoryInv, HeliumInv, Edge
  <1>2. ASSUME mode # "iu", cur_cycle = 0, cur_cycle' = 1
        PROVE  instr' = WordAt(MemoryView, p_addr)
    <2>1. advance /\ ~tlb_miss
      BY <1>1, <1>2 DEF Control
    <2>2. instr' = mem_data
      BY <1>1, <1>2, <2>1 DEF Control
    <2>3. ctrl_mem_re
      BY <1>2 DEF ctrl_mem_re
    <2> QED BY <2>1, <2>2, <2>3, ReadBrings
  <1>3. ASSUME "mrd" \in controls, cur_cycle = 1, cur_cycle' = 0, ~tlb_miss
        PROVE  regs'[rf] = WordAt(MemoryView, p_addr)
    <2>1. advance
      BY <1>1, <1>3 DEF Control
    <2>2. state_update
      BY <1>3, <2>1 DEF state_update, finish
    <2>3. "rwr" \in controls
      BY <1>1, <1>3, Operands, LinesTogether DEF controls
    <2>4. reg_in = mem_data
      BY <1>3 DEF reg_in
    <2>5. regs'[rf] = mem_data
      BY <1>1, <2>2, <2>3, <2>4, Operands DEF Registers, CpuOK, RegsOK, Words8
    <2>6. ctrl_mem_re
      BY <1>3 DEF ctrl_mem_re
    <2> QED BY <1>3, <2>1, <2>5, <2>6, ReadBrings
  <1> QED BY <1>2, <1>3, ViewChanges

\* Whatever programs are there, they find memory as if the driver, its bus and
\* the device were not: a store is in it from the edge it is taken, nothing
\* else changes it, and what is fetched or loaded is the word at the address.
THEOREM MemoryIsSeen == Spec => MemoryAsPromised
  <1> DEFINE Promise ==
        /\ MemoryView' = IF mem_we
                         THEN [x \in DOMAIN MemoryView \union {p_addr} |->
                                   IF x = p_addr THEN operand0 ELSE MemoryView[x]]
                         ELSE MemoryView
        /\ mode # "iu" /\ cur_cycle = 0 /\ cur_cycle' = 1 => instr' = WordAt(MemoryView, p_addr)
        /\ "mrd" \in controls /\ cur_cycle = 1 /\ cur_cycle' = 0 /\ ~tlb_miss =>
               regs'[rf] = WordAt(MemoryView, p_addr)
  <1>1. Spec => []MemoryInv
    BY InitMemoryInv, MemoryInvKept, PTL DEF Spec
  <1>2. MemoryInv /\ [Next]_vars => [Promise]_vars
    BY PromiseKept DEF Next, Tick, Stays
  <1>3. MemoryAsPromised <=> [][Promise]_vars
    BY DEF MemoryAsPromised
  <1> HIDE DEF Promise
  <1> QED BY <1>1, <1>2, <1>3, PTL DEF Spec
=============================================================================
