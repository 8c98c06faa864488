---------------------------- MODULE VirtualMemory ----------------------------
(***************************************************************************)
(* Address translation of the cosi simulator (memory.cpp): 32 tlb lines,   *)
(* one per virtual page, filled on a miss by a walk of the page table that *)
(* CR[x0001] points to and tagged with CR[x0000].                          *)
(*                                                                         *)
(* An address is its page or its frame; the offset, which translation      *)
(* copies, is left out.  Of physical memory only the words of page tables  *)
(* are kept.  Table t lies within the frame TableFrame[t].                 *)
(***************************************************************************)
CONSTANTS
  Page,       \* virtual pages
  Frame,      \* physical frames
  ZeroFrame,  \* the frame of physical word 0
  Identity,   \* the frame with the same number as a page
  Pid,        \* values of CR[x0000]
  ZeroPid,    \* 0, its value at reset
  Table,      \* the values of CR[x0001] in use
  TableFrame, \* the frame a page table lies in
  TableOf     \* the page table that software keeps for a pid

ASSUME VMAssumption ==
  /\ ZeroFrame \in Frame
  /\ Identity \in [Page -> Frame]
  /\ ZeroPid \in Pid
  /\ TableFrame \in [Table -> Frame]
  /\ TableOf \in [Pid -> Table]

VARIABLES
  tlb,              \* one line per page
  page_table,       \* the words of memory that hold page tables
  pid,              \* CR[x0000]
  ptaddr,           \* CR[x0001]
  privilege_levels  \* CR[x0002] and CR[x0003], as the set of bits that are 1

Privilege == {"processor_control", "io_access", "control_register_access",
              "protected_memory_access", "virtual_memory_control",
              "interrupt_control"}

Access == {"read", "write", "execute"}

Entry == [present : BOOLEAN, protect : BOOLEAN, dirty : BOOLEAN,
          rights : SUBSET Access, frame : Frame]
Line  == [pte : Entry, pid : Pid]

\* privilege::check
Check(priv) == priv \in privilege_levels

Empty(f) == [present |-> FALSE, protect |-> FALSE, dirty |-> FALSE,
             rights |-> {}, frame |-> f]

VMInit ==
  /\ tlb = [p \in Page |->
             [pte |-> [present |-> TRUE, protect |-> FALSE, dirty |-> TRUE,
                       rights |-> Access, frame |-> Identity[p]],
              pid |-> ZeroPid]]
  /\ page_table = [t \in Table |-> [p \in Page |-> Empty(ZeroFrame)]]
  /\ pid = ZeroPid
  /\ ptaddr \in Table
  /\ privilege_levels = Privilege

-----------------------------------------------------------------------------
(* tlb_translate.  A line is used when its pid is the one cr::read returns,*)
(* which is 0 for a program that may not read control registers.           *)

ReadPid == IF Check("control_register_access") THEN pid ELSE ZeroPid

\* A fault of Hit: the pid of the line is not compared
HitAnyPid(line) == line.pte.present
Hit(line)  == line.pte.present /\ line.pid = ReadPid
\* A fault of Walk: the line keeps the pid it was last filled for
WalkUntagged(p) == [pte |-> page_table[ptaddr][p], pid |-> tlb[p].pid]
Walk(p)    == [pte |-> page_table[ptaddr][p], pid |-> pid]
Lookup(p, line) == IF Hit(line) THEN line ELSE Walk(p)

\* A fault of Outcome: the protected bit is not looked at
OutcomeOpen(pte, access) ==
  IF ~pte.present THEN "pgf"
  ELSE IF access \notin pte.rights THEN "pev" ELSE "ok"
Outcome(pte, access) ==
  IF ~pte.present THEN "pgf"
  ELSE IF pte.protect /\ ~Check("protected_memory_access") THEN "prv"
  ELSE IF access \notin pte.rights THEN "pev" ELSE "ok"

\* What serves an access, its outcome, and the frame the access reaches:
\* translation returns physical word 0 when it raises
Served(p)           == Lookup(p, tlb[p]).pte
\* A fault of OutcomeOf: the line is judged as it was before the walk
OutcomeBeforeWalk(p, access) == Outcome(tlb[p].pte, access)
OutcomeOf(p, access) == Outcome(Served(p), access)
Reached(p, access)  == IF OutcomeOf(p, access) = "ok"
                       THEN Served(p).frame ELSE ZeroFrame

\* The first write through a line sets its dirty bit, and the one in memory
Dirties(p, access) ==
  access = "write" /\ OutcomeOf(p, access) = "ok" /\ ~Served(p).dirty

\* A fault of MarkedTable: the bit in memory is forgotten
MarkedTableNot(p, access) == page_table
MarkedTable(p, access) ==
  IF Dirties(p, access)
  THEN [page_table EXCEPT ![ptaddr][p].dirty = TRUE] ELSE page_table

FilledTlb(p, access) ==
  [tlb EXCEPT ![p] = [Lookup(p, tlb[p]) EXCEPT
                        !.pte.dirty = @ \/ Dirties(p, access)]]

\* mem::flush_tlb.  A fault of it: the last line is not reached
FlushedTlbShort ==
  [p \in Page |-> IF Identity[p] = ZeroFrame
                  THEN [pte |-> Empty(Identity[p]), pid |-> ZeroPid]
                  ELSE tlb[p]]
FlushedTlb == [p \in Page |-> [pte |-> Empty(Identity[p]), pid |-> ZeroPid]]
=============================================================================
