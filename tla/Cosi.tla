-------------------------------- MODULE Cosi --------------------------------
(***************************************************************************)
(* The cosi simulator: fetch and execution of one instruction, then the    *)
(* end of the main loop, which flushes the tlb, reloads the handler table, *)
(* stops, or enters the handler of a software interrupt.                   *)
(*                                                                         *)
(* The program is arbitrary: instructions are told apart by what they do   *)
(* to memory and control registers, and operands come from small sets.     *)
(* Software with control register access keeps the contract that ISA.txt   *)
(* states for operating systems ([MEMORY:VIRTUAL:PAGE_TABLE:UPDATE]):      *)
(* the history variable stale holds the pids whose tlb lines may be out of *)
(* date, and no program without that access is started while its pid is    *)
(* stale.  With FlushOnSwitch the software also flushes after every write  *)
(* of CR[x0000] and CR[x0001], as os.sasm does.                            *)
(***************************************************************************)
EXTENDS VirtualMemory

CONSTANTS
  IhtPage,        \* the page of virtual addresses x0000 and x0100
  HandlerPages,   \* where software has its interrupt handlers
  Words,          \* page table entries that software writes for a page
  Levels,         \* values of the privilege registers that software writes
  NoFrame,        \* no frame was stored to
  FlushOnSwitch   \* what software does on a switch of process, see above

\* Pages open to every program do not show page tables, and only programs
\* with control register access have protected memory access.
ASSUME CosiAssumption ==
  /\ IhtPage \in Page
  /\ HandlerPages \subseteq Page
  /\ Words \in [Page -> SUBSET Entry]
  /\ \A p \in Page, t \in Table : \A w \in Words[p] :
       w.present /\ ~w.protect => w.frame # TableFrame[t]
  /\ Levels \subseteq SUBSET Privilege
  /\ \A l \in Levels :
       "protected_memory_access" \in l => "control_register_access" \in l
  /\ NoFrame \notin Frame
  /\ FlushOnSwitch \in BOOLEAN

VARIABLES
  stage,               \* where the main loop stands
  ip,                  \* the page of the instruction pointer
  flush_tlb,           \* asked for by a write of CR[x000F]
  iht_reload,          \* likewise
  interrupts_enabled,
  saved_levels,        \* CR[x0012] and CR[x0013]
  iht,                 \* the page of the interrupt handlers
  interrupt_sw,        \* the range of the INT instruction's id, if one ran
  halt,
  raised,              \* the interrupt that this instruction raised
  last,                \* the translation of this step
  stored,              \* the frame this step stored to
  stale                \* pids with tlb lines that may be out of date

mmu   == <<tlb, page_table, stale>>
ctl   == <<pid, ptaddr, privilege_levels>>
flags == <<flush_tlb, iht_reload, interrupts_enabled, interrupt_sw, halt>>
vars  == <<mmu, ctl, flags, stage, ip, iht, saved_levels, raised, last, stored>>

Interrupts == {"pgf", "prv", "pev", "ins", "tmr", "reserved"}

NoAccess == [page |-> IhtPage, access |-> "none", outcome |-> "ok",
             frame |-> NoFrame]

\* The lines tagged with pid show the page table that is in use
Settled == pid \notin stale /\ ptaddr = TableOf[pid]

\* The contract: who may be given the processor
MayRun(level) == "control_register_access" \in level \/ Settled

Init ==
  /\ VMInit
  /\ stage = "fetch"
  /\ ip \in Page
  /\ flush_tlb = FALSE /\ iht_reload = FALSE
  /\ interrupts_enabled = FALSE
  /\ saved_levels = {}
  /\ iht = IhtPage
  /\ interrupt_sw = "none"
  /\ halt = FALSE
  /\ raised = "none"
  /\ last = NoAccess
  /\ stored = NoFrame
  /\ stale = Pid

-----------------------------------------------------------------------------
(* Memory accesses.                                                        *)

\* interrupt::raise: the context is saved and nothing is entered
Raise(interrupt) ==
  /\ raised' = interrupt
  /\ saved_levels' = privilege_levels

RaiseNothing == UNCHANGED <<raised, saved_levels>>

\* A walk of, or a mark in, a table that is not the one of the pid
Misfiled(p, access) ==
  IF ptaddr # TableOf[pid] /\ (~Hit(tlb[p]) \/ Dirties(p, access))
  THEN {pid} ELSE {}

Translate(p, access) ==
  /\ tlb' = FilledTlb(p, access)
  /\ last' = [page |-> p, access |-> access,
              outcome |-> OutcomeOf(p, access), frame |-> Reached(p, access)]

RaiseOutcome(p, access) ==
  IF OutcomeOf(p, access) = "ok" THEN RaiseNothing
  ELSE Raise(OutcomeOf(p, access))

\* mem::read and mem::read_execute
ReadMemory(p, access) ==
  /\ Translate(p, access)
  /\ stale' = stale \cup Misfiled(p, access)
  /\ UNCHANGED page_table

NoMemoryAccess ==
  /\ last' = NoAccess
  /\ stored' = NoFrame
  /\ UNCHANGED <<tlb, page_table>>

NoMemory == NoMemoryAccess /\ UNCHANGED stale

-----------------------------------------------------------------------------
(* The instructions.  Those that only compute or branch do nothing here    *)
(* but move ip, which may lead anywhere.                                   *)

Fetch ==
  /\ stage = "fetch"
  /\ ReadMemory(ip, "execute")
  /\ RaiseOutcome(ip, "execute")
  /\ stored' = NoFrame
  /\ stage' = "execute"
  /\ UNCHANGED <<ctl, flags, ip, iht>>

Execute ==
  /\ stage = "execute"
  /\ stage' = "update"
  /\ ip' \in Page
  /\ UNCHANGED iht

Compute ==
  /\ Execute
  /\ NoMemory
  /\ RaiseNothing
  /\ UNCHANGED <<ctl, flags>>

\* mrd, srd, pop, ret
Load(p) ==
  /\ Execute
  /\ ReadMemory(p, "read")
  /\ RaiseOutcome(p, "read")
  /\ stored' = NoFrame
  /\ UNCHANGED <<ctl, flags>>

\* mwr, swr, psh, cal.  A store whose translation raised lands in physical
\* word 0, which holds no page table.
Store(p) ==
  /\ Execute
  /\ Translate(p, "write")
  /\ RaiseOutcome(p, "write")
  /\ stored' = Reached(p, "write")
  /\ \/ /\ page_table' = MarkedTable(p, "write")
        /\ stale' = stale \cup Misfiled(p, "write")
     \/ \E t \in Table, q \in Page : \E w \in Words[q] :
          /\ OutcomeOf(p, "write") = "ok"
          /\ TableFrame[t] = Reached(p, "write")
          /\ page_table' = [MarkedTable(p, "write") EXCEPT ![t][q] = w]
          /\ stale' = stale \cup Misfiled(p, "write")
                            \cup {d \in Pid : TableOf[d] = t}
  /\ UNCHANGED <<ctl, flags>>

\* An encoding or an argument that is not supported: the word at ip is read
\* again for CR[x0018], and what that read raises is overwritten
Reject ==
  /\ Execute
  /\ ReadMemory(ip, "read")
  /\ Raise("ins")
  /\ stored' = NoFrame
  /\ UNCHANGED <<ctl, flags>>

\* cwr without the privilege does nothing at all
CwrRefused == ~Check("control_register_access") /\ Compute

\* The rest of cr::write, register by register
Cwr ==
  /\ Check("control_register_access")
  /\ Execute
  /\ NoMemoryAccess
  /\ RaiseNothing

\* The contract of software that switches from one process to another
Switched == IF FlushOnSwitch THEN Pid ELSE stale

WritePid(d) ==
  /\ Cwr
  /\ pid' = d
  /\ stale' = Switched
  /\ UNCHANGED <<ptaddr, privilege_levels, flags>>

WritePtaddr(t) ==
  /\ Cwr
  /\ ptaddr' = t
  /\ stale' = Switched
  /\ UNCHANGED <<pid, privilege_levels, flags>>

WritePrivileges(level) ==
  /\ Cwr
  /\ MayRun(level)
  /\ privilege_levels' = level
  /\ UNCHANGED <<stale, pid, ptaddr, flags>>

WriteState(enabled) ==
  /\ Cwr
  /\ interrupts_enabled' = enabled
  /\ UNCHANGED <<stale, ctl, flush_tlb, iht_reload, interrupt_sw, halt>>

WriteStateUpdate(flush, reload) ==
  /\ Cwr
  /\ flush_tlb' = (flush_tlb \/ flush)
  /\ iht_reload' = (iht_reload \/ reload)
  /\ UNCHANGED <<stale, ctl, interrupts_enabled, interrupt_sw, halt>>

WriteSavedLevels(level) ==
  /\ Check("control_register_access")
  /\ Execute
  /\ NoMemoryAccess
  /\ saved_levels' = level
  /\ UNCHANGED <<raised, stale, ctl, flags>>

\* int: any program may use any id, of the internal range or of the syscalls
Int(range) ==
  /\ Execute
  /\ NoMemory
  /\ RaiseNothing
  /\ interrupt_sw' = range
  /\ UNCHANGED <<ctl, flush_tlb, iht_reload, interrupts_enabled, halt>>

\* A fault of Irt: the privilege is not asked for
IrtUnchecked ==
  /\ MayRun(saved_levels)
  /\ Execute
  /\ NoMemory
  /\ RaiseNothing
  /\ interrupts_enabled' = TRUE
  /\ privilege_levels' = saved_levels
  /\ UNCHANGED <<pid, ptaddr, flush_tlb, iht_reload, interrupt_sw, halt>>

Irt ==
  /\ Check("interrupt_control")
  /\ MayRun(saved_levels)
  /\ Execute
  /\ NoMemory
  /\ RaiseNothing
  /\ interrupts_enabled' = TRUE
  /\ privilege_levels' = saved_levels
  /\ UNCHANGED <<pid, ptaddr, flush_tlb, iht_reload, interrupt_sw, halt>>

Hlt ==
  /\ Check("processor_control")
  /\ Execute
  /\ NoMemory
  /\ RaiseNothing
  /\ halt' = TRUE
  /\ UNCHANGED <<ctl, flush_tlb, iht_reload, interrupts_enabled, interrupt_sw>>

\* Without the privilege the bit of the privilege is raised as an id:
\* interrupt 32 for irt, interrupt 1 for hlt
Refuse(priv, interrupt) ==
  /\ ~Check(priv)
  /\ Execute
  /\ NoMemory
  /\ Raise(interrupt)
  /\ UNCHANGED <<ctl, flags>>

IrtRefused == Refuse("interrupt_control", "tmr")
HltRefused == Refuse("processor_control", "reserved")

-----------------------------------------------------------------------------
(* The end of the main loop.  The flush comes first; the reload looks at   *)
(* ip for its message, without checks, and then reads the table at x0100.  *)

AfterFlush == IF flush_tlb THEN FlushedTlb ELSE tlb
AfterPeek  == [AfterFlush EXCEPT ![ip] = Lookup(ip, @)]
IhtLine    == Lookup(IhtPage, AfterPeek[IhtPage])
IhtFault   == iht_reload /\ Outcome(IhtLine.pte, "read") # "ok"

\* A fault of ClearRequests: the reload is asked for once and for all
ClearFlushOnly == flush_tlb' = FALSE /\ UNCHANGED iht_reload
ClearRequests  == flush_tlb' = FALSE /\ iht_reload' = FALSE

Update ==
  /\ stage = "update"
  /\ tlb' = IF iht_reload THEN [AfterPeek EXCEPT ![IhtPage] = IhtLine]
            ELSE AfterFlush
  /\ stale' = IF ptaddr = TableOf[pid]
              THEN IF flush_tlb THEN stale \ {pid} ELSE stale
              ELSE IF iht_reload THEN stale \cup {pid} ELSE stale
  /\ IF iht_reload THEN iht' \in HandlerPages ELSE iht' = iht
  /\ ClearRequests
  /\ raised' = "none"
  /\ last' = NoAccess
  /\ stored' = NoFrame
  /\ UNCHANGED <<page_table, pid, ptaddr, halt>>

SavedByReload ==
  saved_levels' = IF IhtFault THEN privilege_levels ELSE saved_levels

\* The simulator ends, with interrupts enabled as without
Stop ==
  /\ halt
  /\ Update
  /\ SavedByReload
  /\ stage' = "stopped"
  /\ UNCHANGED <<ip, privilege_levels, interrupts_enabled, interrupt_sw>>

Resume ==
  /\ ~halt
  /\ interrupt_sw = "none"
  /\ Update
  /\ SavedByReload
  /\ stage' = "fetch"
  /\ UNCHANGED <<ip, privilege_levels, interrupts_enabled, interrupt_sw>>

Dispatch ==
  /\ ~halt
  /\ interrupt_sw # "none"
  /\ Update
  /\ stage' = "fetch"
  /\ interrupt_sw' = "none"
  /\ saved_levels' = privilege_levels
  /\ privilege_levels' = Privilege
  /\ interrupts_enabled' = FALSE
  /\ ip' = iht'

-----------------------------------------------------------------------------
WriteControl ==
  \/ \E d \in Pid : WritePid(d)
  \/ \E t \in Table : WritePtaddr(t)
  \/ \E level \in Levels : WritePrivileges(level) \/ WriteSavedLevels(level)
  \/ \E enabled \in BOOLEAN : WriteState(enabled)
  \/ \E flush, reload \in BOOLEAN : WriteStateUpdate(flush, reload)

Next ==
  \/ Fetch
  \/ Compute \/ Reject \/ CwrRefused
  \/ \E p \in Page : Load(p) \/ Store(p)
  \/ WriteControl
  \/ \E range \in {"internal", "syscall"} : Int(range)
  \/ Irt \/ IrtRefused \/ Hlt \/ HltRefused
  \/ Resume \/ Dispatch \/ Stop

Spec == Init /\ [][Next]_vars

-----------------------------------------------------------------------------
\* Types, and which requests may be pending at which stage of the loop
TypeOK ==
  /\ tlb \in [Page -> Line]
  /\ page_table \in [Table -> [Page -> Entry]]
  /\ pid \in Pid
  /\ ptaddr \in Table
  /\ privilege_levels \in SUBSET Privilege
  /\ saved_levels \in SUBSET Privilege
  /\ stage \in {"fetch", "execute", "update", "stopped"}
  /\ ip \in Page
  /\ iht \in Page
  /\ {flush_tlb, iht_reload, interrupts_enabled, halt} \subseteq BOOLEAN
  /\ interrupt_sw \in {"none", "internal", "syscall"}
  /\ raised \in {"none"} \cup Interrupts
  /\ last \in [page : Page, access : Access \cup {"none"},
               outcome : {"ok", "pgf", "prv", "pev"},
               frame : Frame \cup {NoFrame}]
  /\ stored \in Frame \cup {NoFrame}
  /\ stale \subseteq Pid
  /\ stage \in {"fetch", "execute"} =>
       ~flush_tlb /\ ~iht_reload /\ interrupt_sw = "none" /\ ~halt
  /\ stage \in {"fetch", "stopped"} => raised = "none"

-----------------------------------------------------------------------------
(* What the translation owes the processes.                                *)

\* Equal but for the dirty bit, which may still be only in memory
SameMapping(pte, word) ==
  /\ [pte EXCEPT !.dirty = FALSE] = [word EXCEPT !.dirty = FALSE]
  /\ pte.dirty => word.dirty

\* A line tagged with a pid that is not stale shows a word of that pid's page
\* table, and its dirty bit is set only when the one in memory is: stale
\* tells all that software has to know (memory.cpp:35-47, 86-94, 190-208)
TlbShowsTable ==
  \A p \in Page : tlb[p].pte.present /\ tlb[p].pid \notin stale =>
    SameMapping(tlb[p].pte, page_table[TableOf[tlb[p].pid]][p])

\* Whatever was cached before, an access made under a settled page table ends
\* as that table says: same interrupt, or same frame (memory.cpp:26-97)
AccessFollowsTable ==
  last # NoAccess /\ Settled =>
    LET word == page_table[ptaddr][last.page]
    IN  /\ last.outcome = Outcome(word, last.access)
        /\ last.outcome = "ok" => last.frame = word.frame

\* A line serves only the process it was filled for, whatever the privilege
\* of the program is (memory.cpp:35-36, 47)
PidChecked == last # NoAccess => tlb[last.page].pid = pid

\* A page that was written through a settled table is marked in that table
\* (memory.cpp:86-94)
WrittenPageDirty ==
  last.access = "write" /\ last.outcome = "ok" /\ Settled =>
    page_table[ptaddr][last.page].dirty

\* A program without control register access leaves page tables as they are,
\* but for the dirty bits of its own (memory.cpp:57-62, 86-94)
TablesOnlyMarked ==
  [][~Check("control_register_access") =>
       \A t \in Table, p \in Page :
         \/ page_table'[t][p] = page_table[t][p]
         \/ /\ t = TableOf[pid]
            /\ page_table'[t][p] = [page_table[t][p] EXCEPT !.dirty = TRUE]]_vars

\* A program that may neither write control registers nor return from
\* interrupts gains no privilege but by entering the handler, with its own
\* privileges saved (instruction.cpp:113-129, cr.cpp:20-28, main.cpp:105-122)
NoSelfMadePrivilege ==
  [][/\ ~Check("control_register_access")
     /\ ~Check("interrupt_control")
     /\ ~(privilege_levels' \subseteq privilege_levels)
     => /\ ip' = iht'
        /\ saved_levels' = privilege_levels
        /\ ~interrupts_enabled']_vars

-----------------------------------------------------------------------------
(* The inductive invariant, used by the proofs.                            *)

\* Software that flushes on a switch sees no line of another process
SoleProcess ==
  FlushOnSwitch /\ pid \notin stale =>
    \A p \in Page : tlb[p].pte.present => tlb[p].pid = pid

\* Only software with control register access runs on an unsettled table
RunsSettled ==
  Check("control_register_access") \/ (Settled /\ ~flush_tlb /\ ~iht_reload)

\* No word of a page table opens a page table to every program
TablesClosed ==
  \A t, u \in Table, p \in Page :
    page_table[t][p].present /\ ~page_table[t][p].protect =>
      page_table[t][p].frame # TableFrame[u]

LevelsKnown ==
  /\ "protected_memory_access" \in privilege_levels =>
       "control_register_access" \in privilege_levels
  /\ "protected_memory_access" \in saved_levels =>
       "control_register_access" \in saved_levels

IInv == /\ TypeOK
        /\ TlbShowsTable
        /\ SoleProcess
        /\ RunsSettled
        /\ TablesClosed
        /\ LevelsKnown

-----------------------------------------------------------------------------
(* What ISA.txt says of interrupts, and cosi does not do.                  *)

\* ISA.txt:859-864: what an instruction raises by its access to memory is
\* entered, fully privileged, before the next instruction, if interrupts are
\* enabled and the handlers have been set up (main.cpp:104-122)
RaisedIsEntered ==
  [][stage = "update" /\ raised = last.outcome /\ interrupts_enabled /\ iht \in HandlerPages /\ ~halt
       => ip' = iht' /\ privilege_levels' = Privilege]_vars

\* ISA.txt:878-881: an instruction whose interrupt is blocked updates no
\* memory (memory.cpp:148-156)
BlockedStoreSuppressed ==
  last.outcome # "ok" /\ ~interrupts_enabled => stored = NoFrame
=============================================================================
