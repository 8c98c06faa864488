------------------------------ MODULE LowLevel ------------------------------
(***************************************************************************)
(* mem_driver_low_level: the state machine that turns one read or write    *)
(* into the wire protocol of the latched, asynchronous SRAM.  Operators    *)
(* without a prime are its combinational outputs in the current cycle;     *)
(* LLTick and LLReset are its rising edge with i_nres high and low.        *)
(***************************************************************************)
EXTENDS MemTypes

VARIABLES
  ll_state,  \* state of the machine
  ll_addr,   \* addr, the address register
  ll_data    \* data, the data register

llvars == <<ll_state, ll_addr, ll_data>>

AddrSet0 == {"rd_addr_set_0", "wr_addr_set_0"}
AddrSet1 == {"rd_addr_set_1", "wr_addr_set_1"}
DataSet  == {"wr_data_set_0", "wr_data_set_1"}
LLStates == {"idle", "rd_data_read"} \cup AddrSet0 \cup AddrSet1 \cup DataSet

\* Power-up: the registers are uninitialized signals
LLInit == ll_state = "idle" /\ ll_addr = X /\ ll_data = X

LLReady     == ll_state = "idle"
MemAddrLoad == ll_state \in AddrSet0
MemNwe      == ll_state # "wr_data_set_1"
MemNoe      == ll_state # "rd_data_read"

\* What the entity drives onto io_data and onto eio_mem_bus
LLDataDrive == IF LLReady THEN ll_data ELSE Z
LLBusDrive  == IF ll_state \in AddrSet0 \cup AddrSet1 THEN ll_addr
               ELSE IF ll_state \in DataSet THEN ll_data ELSE Z

\* A fault of the step below: no set-up cycle before the strobe
LLStateInNoSetup(i_write, i_read) ==
  IF ll_state = "wr_addr_set_1" THEN "wr_data_set_1"
  ELSE IF ll_state = "idle" THEN IF i_write THEN "wr_addr_set_0"
                                 ELSE IF i_read THEN "rd_addr_set_0" ELSE "idle"
  ELSE IF ll_state = "rd_addr_set_0" THEN "rd_addr_set_1"
  ELSE IF ll_state = "rd_addr_set_1" THEN "rd_data_read"
  ELSE IF ll_state = "wr_addr_set_0" THEN "wr_addr_set_1"
  ELSE "idle"

LLStateIn(i_write, i_read) ==
  IF ll_state = "idle" THEN IF i_write THEN "wr_addr_set_0"
                            ELSE IF i_read THEN "rd_addr_set_0" ELSE "idle"
  ELSE IF ll_state = "rd_addr_set_0" THEN "rd_addr_set_1"
  ELSE IF ll_state = "rd_addr_set_1" THEN "rd_data_read"
  ELSE IF ll_state = "wr_addr_set_0" THEN "wr_addr_set_1"
  ELSE IF ll_state = "wr_addr_set_1" THEN "wr_data_set_0"
  ELSE IF ll_state = "wr_data_set_0" THEN "wr_data_set_1"
  ELSE "idle"

LLTick(i_addr, i_write, i_read, io_data, mem_bus) ==
  /\ ll_state' = LLStateIn(i_write, i_read)
  /\ ll_addr'  = IF ll_state = "idle" THEN i_addr ELSE ll_addr
  /\ ll_data'  = IF ll_state = "rd_data_read" THEN mem_bus
                 ELSE IF ll_state = "wr_addr_set_0" THEN io_data
                 ELSE ll_data

LLReset == ll_state' = "idle" /\ ll_addr' = ZeroAddr /\ ll_data' = Zero
=============================================================================
