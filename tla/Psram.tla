-------------------------------- MODULE Psram --------------------------------
(***************************************************************************)
(* The driver of the external memory (mem.vhdl) and the device at the      *)
(* other end (the ram stub of ghdl_stub.vhdl).  Addresses and words go     *)
(* over a bus of 8 bits in two halves, one at each edge of a clock that    *)
(* the driver makes itself: mem_clk is a function of its state, and the    *)
(* device takes a step when it changes.                                    *)
(***************************************************************************)
EXTENDS HeliumUnits

VARIABLES
    d_state,        \* state of the driver
    addr_saved,     \* its registers, each the high byte and the low one
    data_saved,
    m_state,        \* state of the device
    m_addr,         \* the address it was told
    m_drive,        \* what it puts on the bus
    ram             \* address -> word, the others are 0

driverVars == <<d_state, addr_saved, data_saved>>
deviceVars == <<m_state, m_addr, m_drive, ram>>
psramVars  == <<driverVars, deviceVars>>

Contended == -2     \* a bus with two different bytes on it
Resolve(a, b) == CASE a = b        -> a
                   [] a = Floating -> b
                   [] b = Floating -> a
                   [] OTHER        -> Contended

Bytes(w)  == <<w \div 256, w % 256>>
Joined(b) == IF b[1] \in 0 .. 255 /\ b[2] \in 0 .. 255 THEN (256 * b[1]) + b[2] ELSE Floating
RamAt(a)  == IF a \in DOMAIN ram THEN ram[a] ELSE <<0, 0>>

PsramInit ==
    /\ d_state = "idle" /\ addr_saved = <<0, 0>> /\ data_saved = <<0, 0>>
    /\ m_state = "start" /\ m_addr = <<0, 0>> /\ m_drive = Floating

-----------------------------------------------------------------------------
(* The driver.                                                               *)

ClockHigh == {"read_addr_1", "read_addr_2", "read_wait_1", "read_read_0",
              "write_addr_1", "write_addr_2", "write_write_1", "write_write_2", "write_wait_1"}

\* Its half of the bus in a state, with those registers.
\* A fault of DriverByte: the bus is not released for the answer
DriverByteHeld(s, addr, data) ==
    CASE s \in {"read_addr_0", "read_addr_1", "write_addr_0", "write_addr_1"} -> addr[1]
      [] s \in {"write_write_0", "write_write_1"}                             -> data[1]
      [] s \in {"write_write_2", "write_write_3"}                             -> data[2]
      [] s \in {"write_wait_0", "write_wait_1", "write_fin"}                  -> 0
      [] s = "idle"                                                           -> Floating
      [] OTHER                                                                -> addr[2]
DriverByte(s, addr, data) ==
    CASE s \in {"read_addr_0", "read_addr_1", "write_addr_0", "write_addr_1"} -> addr[1]
      [] s \in {"read_addr_2", "read_addr_3", "write_addr_2", "write_addr_3"} -> addr[2]
      [] s \in {"write_write_0", "write_write_1"}                             -> data[1]
      [] s \in {"write_write_2", "write_write_3"}                             -> data[2]
      [] s \in {"write_wait_0", "write_wait_1", "write_fin"}                  -> 0
      [] OTHER                                                                -> Floating

MemBus == Resolve(DriverByte(d_state, addr_saved, data_saved), m_drive)

\* The ready of the device, and of the driver.
DeviceReady == m_state \in {"read_read_0", "read_read_1", "write_wait_1"}
\* A fault of Ready: a store is over when the device has the word
ReadyEarly(re, we) == (d_state = "idle" /\ ~re /\ ~we) \/ d_state \in {"read_read_1", "write_wait_1"}
Ready(re, we) == (d_state = "idle" /\ ~re /\ ~we) \/ d_state \in {"read_read_1", "write_fin"}

Following ==
    [read_addr_0 |-> "read_addr_1", read_addr_1 |-> "read_addr_2", read_addr_2 |-> "read_addr_3",
     read_addr_3 |-> "read_wait_0", read_wait_1 |-> "read_wait_0", read_read_0 |-> "read_read_1",
     read_read_1 |-> "idle",
     write_addr_0 |-> "write_addr_1", write_addr_1 |-> "write_addr_2", write_addr_2 |-> "write_addr_3",
     write_addr_3 |-> "write_write_0", write_write_0 |-> "write_write_1", write_write_1 |-> "write_write_2",
     write_write_2 |-> "write_write_3", write_write_3 |-> "write_wait_0", write_wait_0 |-> "write_wait_1",
     write_fin |-> "idle"]

StateIn(re, we) ==
    CASE d_state = "idle"         -> IF re THEN "read_addr_0" ELSE IF we THEN "write_addr_0" ELSE "idle"
      [] d_state = "read_wait_0"  -> IF DeviceReady THEN "read_read_0" ELSE "read_wait_1"
      [] d_state = "write_wait_1" -> IF DeviceReady THEN "write_fin" ELSE "write_wait_0"
      [] OTHER                    -> Following[d_state]

\* A fault of DataIn: the halves swapped
DataInSwapped(we, data) ==
    CASE we                      -> Bytes(data)
      [] d_state = "read_wait_0" -> <<data_saved[1], MemBus>>
      [] d_state = "read_read_0" -> <<MemBus, data_saved[2]>>
      [] OTHER                   -> data_saved
DataIn(we, data) ==
    CASE we                      -> Bytes(data)
      [] d_state = "read_wait_0" -> <<MemBus, data_saved[2]>>
      [] d_state = "read_read_0" -> <<data_saved[1], MemBus>>
      [] OTHER                   -> data_saved

DriverTick(re, we, addr, data) ==
    /\ d_state' = StateIn(re, we)
    /\ addr_saved' = IF re \/ we THEN Bytes(addr) ELSE addr_saved
    /\ data_saved' = DataIn(we, data)

-----------------------------------------------------------------------------
(* The device.                                                               *)

\* Its next state, when the clock rises or falls as it expects there.
AfterEdge(rising) ==
    CASE m_state = "start" /\ rising ->
            IF d_state' \in {"read_addr_0", "read_addr_1"} THEN "read_addr"
            ELSE IF d_state' \in {"write_addr_0", "write_addr_1"} THEN "write_addr" ELSE "inv_norw"
      [] m_state = "read_addr" /\ ~rising    -> "read_wait_0"
      [] m_state = "read_wait_0" /\ rising   -> "read_wait_1"
      [] m_state = "read_wait_1" /\ ~rising  -> "read_read_0"
      [] m_state = "read_read_0" /\ rising   -> "read_read_1"
      [] m_state = "read_read_1" /\ ~rising  -> "start"
      [] m_state = "write_addr" /\ ~rising   -> "write_write_0"
      [] m_state = "write_write_0" /\ rising -> "write_write_1"
      [] m_state = "write_write_1" /\ ~rising -> "write_wait_0"
      [] m_state = "write_wait_0" /\ rising  -> "write_wait_1"
      [] m_state = "write_wait_1" /\ ~rising -> "start"
      [] OTHER                               -> m_state

\* The bus as the device finds it at the edge: the driver's side is new, its
\* own still the old one.
BusAtEdge == Resolve(DriverByte(d_state', addr_saved', data_saved'), m_drive)

StoreHalf(half) ==
    LET a == Joined(m_addr)
        w == [RamAt(a) EXCEPT ![half] = BusAtEdge]
    IN  ram' = [x \in DOMAIN ram \union {a} |-> IF x = a THEN w ELSE ram[x]]

DeviceEdge ==
    /\ m_state' = AfterEdge(d_state' \in ClockHigh)
    /\ m_addr' = CASE m_state = "start"                      -> <<BusAtEdge, m_addr[2]>>
                   [] m_state \in {"read_addr", "write_addr"} -> <<m_addr[1], BusAtEdge>>
                   [] OTHER                                   -> m_addr
    /\ m_drive' = CASE m_state \in {"read_wait_1", "write_write_1"} -> RamAt(Joined(m_addr))[1]
                    [] m_state = "read_read_0"                      -> RamAt(Joined(m_addr))[2]
                    [] OTHER                                        -> Floating
    /\ CASE m_state = "write_write_0" -> StoreHalf(1)
         [] m_state = "write_write_1" -> StoreHalf(2)
         [] OTHER                     -> UNCHANGED ram

PsramTick(re, we, addr, data) ==
    /\ DriverTick(re, we, addr, data)
    /\ IF (d_state \in ClockHigh) # (d_state' \in ClockHigh) THEN DeviceEdge ELSE UNCHANGED deviceVars

-----------------------------------------------------------------------------

\* What memory holds for those who asked the driver: a word it has taken is
\* there, although the device has not stored it.
Storing == d_state \in {"write_addr_0", "write_addr_1", "write_addr_2", "write_addr_3",
                        "write_write_0", "write_write_1", "write_write_2", "write_write_3",
                        "write_wait_0", "write_wait_1", "write_fin"}
MemoryView ==
    LET a == Joined(addr_saved)
    IN  [x \in DOMAIN ram \union (IF Storing THEN {a} ELSE {}) |->
            IF Storing /\ x = a THEN Joined(data_saved) ELSE Joined(ram[x])]

\* Registers and states of their kinds, and the device is never clocked without
\* a request, which it asserts.
Bus == 0 .. 255 \union {Floating}
PsramTypeOK ==
    /\ d_state \in {"idle", "read_wait_0", "write_wait_1"} \union DOMAIN Following
    /\ addr_saved \in Bus \X Bus /\ data_saved \in Bus \X Bus
    /\ m_state \in {"start", "read_addr", "read_wait_0", "read_wait_1", "read_read_0", "read_read_1",
                    "write_addr", "write_write_0", "write_write_1", "write_wait_0", "write_wait_1"}
    /\ m_addr \in (Bus \X Bus) /\ m_drive \in Bus
    /\ \A a \in DOMAIN ram : a \in Word16 /\ ram[a] \in (0 .. 255) \X (0 .. 255)
=============================================================================
