------------------------------- MODULE SimRam -------------------------------
(***************************************************************************)
(* simram: the memory chip and its address latches.  It has no clock: it   *)
(* follows the driver's wires, so its step is conjoined to every clock     *)
(* edge and looks at the wires before and after the edge.                  *)
(***************************************************************************)
EXTENDS LowLevel

VARIABLES
  ram,    \* the words of the chip
  latch   \* addr, the address held by the latches

RamInit == ram = [a \in Addr |-> Zero] /\ latch = X

\* Drives the bus while noe is low (ncs is tied low by the driver)
RamBusDrive == IF ~MemNoe /\ latch \in Addr THEN ram[latch] ELSE Z

MemBus == Resolve(LLBusDrive, RamBusDrive)

\* The latches are transparent while addr_load is high; a falling nwe stores
\* what is on the bus at that moment at the latched address
RamFollow ==
  /\ latch' = IF MemAddrLoad THEN MemBus ELSE latch
  /\ ram' = IF MemNwe /\ ~MemNwe' /\ latch' \in Addr
            THEN [ram EXCEPT ![latch'] = MemBus'] ELSE ram
=============================================================================
