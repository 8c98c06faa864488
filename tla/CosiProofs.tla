----------------------------- MODULE CosiProofs -----------------------------
(***************************************************************************)
(* Proofs about Cosi, for any number of pages, frames, pids and page       *)
(* tables.  Types hold for all software; translation and isolation for     *)
(* software that flushes the tlb on a switch of process (FlushOnSwitch).   *)
(***************************************************************************)
EXTENDS Cosi, TLAPS

-----------------------------------------------------------------------------
(* The operators of VirtualMemory.                                         *)

LEMMA LookupType ==
  ASSUME NEW p \in Page, NEW line \in Line, TypeOK
  PROVE  Lookup(p, line) \in Line
  BY DEF Lookup, Walk, Line, TypeOK

LEMMA OutcomeType ==
  ASSUME NEW pte, NEW access
  PROVE  Outcome(pte, access) \in {"ok", "pgf", "prv", "pev"}
  BY DEF Outcome

LEMMA ServedType ==
  ASSUME NEW p \in Page, TypeOK
  PROVE  Served(p) \in Entry
  BY LookupType DEF Served, TypeOK, Line

LEMMA EntryExcept ==
  ASSUME NEW e \in Entry, NEW b \in BOOLEAN
  PROVE  /\ [e EXCEPT !.dirty = b] \in Entry
         /\ [e EXCEPT !.dirty = b].dirty = b
         /\ [e EXCEPT !.dirty = b].present = e.present
         /\ [e EXCEPT !.dirty = b].protect = e.protect
         /\ [e EXCEPT !.dirty = b].rights = e.rights
         /\ [e EXCEPT !.dirty = b].frame = e.frame
  BY DEF Entry

LEMMA SameFields ==
  ASSUME NEW e \in Entry, NEW w \in Entry
  PROVE  SameMapping(e, w) <=>
           /\ e.present = w.present /\ e.protect = w.protect
           /\ e.rights = w.rights /\ e.frame = w.frame
           /\ e.dirty => w.dirty
<1> DEFINE clean(x) == [x EXCEPT !.dirty = FALSE]
           same     == /\ e.present = w.present /\ e.protect = w.protect
                       /\ e.rights = w.rights /\ e.frame = w.frame
<1>1. same => clean(e) = clean(w)
  BY DEF Entry
<1>2. /\ clean(e).present = e.present /\ clean(e).protect = e.protect
      /\ clean(e).rights = e.rights /\ clean(e).frame = e.frame
  BY EntryExcept
<1>3. /\ clean(w).present = w.present /\ clean(w).protect = w.protect
      /\ clean(w).rights = w.rights /\ clean(w).frame = w.frame
  BY EntryExcept
<1>4. clean(e) = clean(w) => same
  <2> HIDE DEF clean
  <2> QED BY <1>2, <1>3
<1>5. QED
  BY <1>1, <1>4 DEF SameMapping

LEMMA FilledLine ==
  ASSUME NEW p \in Page, NEW access \in Access, TypeOK
  PROVE  /\ FilledTlb(p, access) \in [Page -> Line]
         /\ \A q \in Page \ {p} : FilledTlb(p, access)[q] = tlb[q]
         /\ FilledTlb(p, access)[p].pid = Lookup(p, tlb[p]).pid
         /\ FilledTlb(p, access)[p].pte =
              [Served(p) EXCEPT !.dirty = Served(p).dirty \/ Dirties(p, access)]
<1> DEFINE l == Lookup(p, tlb[p])
           b == l.pte.dirty \/ Dirties(p, access)
           n == [l EXCEPT !.pte.dirty = @ \/ Dirties(p, access)]
<1>1. l \in Line
  BY LookupType DEF TypeOK
<1>2. b \in BOOLEAN
  OBVIOUS
<1>3. n = [l EXCEPT !.pte = [l.pte EXCEPT !.dirty = b]]
  BY <1>1 DEF Line, Entry
<1>4. n \in Line /\ n.pid = l.pid /\ n.pte = [l.pte EXCEPT !.dirty = b]
  BY <1>1, <1>2, <1>3, EntryExcept DEF Line
<1>5. FilledTlb(p, access) = [tlb EXCEPT ![p] = n]
  BY DEF FilledTlb
<1> HIDE DEF n
<1>6. QED
  BY <1>4, <1>5 DEF TypeOK, Served

LEMMA FilledType ==
  ASSUME NEW p \in Page, NEW access \in Access, TypeOK
  PROVE  FilledTlb(p, access) \in [Page -> Line]
  BY FilledLine

LEMMA FilledElsewhere ==
  ASSUME NEW p \in Page, NEW access \in Access, NEW q \in Page, q # p, TypeOK
  PROVE  FilledTlb(p, access)[q] = tlb[q]
<1>1. q \in Page \ {p}
  OBVIOUS
<1>2. QED
  BY <1>1, FilledLine

LEMMA FilledPid ==
  ASSUME NEW p \in Page, NEW access \in Access, TypeOK
  PROVE  FilledTlb(p, access)[p].pid = Lookup(p, tlb[p]).pid
  BY FilledLine

LEMMA OutcomeOfType ==
  ASSUME TypeOK, NEW p \in Page, NEW access \in Access
  PROVE  /\ OutcomeOf(p, access) \in {"ok", "pgf", "prv", "pev"}
         /\ Reached(p, access) \in Frame
  BY VMAssumption, OutcomeType, ServedType DEF OutcomeOf, Reached, Entry

LEMMA MarkedType ==
  ASSUME TypeOK, NEW p \in Page, NEW access \in Access
  PROVE  /\ MarkedTable(p, access) \in [Table -> [Page -> Entry]]
         /\ \A t \in Table, q \in Page :
              MarkedTable(p, access)[t][q] =
                IF t = ptaddr /\ q = p /\ Dirties(p, access)
                THEN [page_table[t][q] EXCEPT !.dirty = TRUE]
                ELSE page_table[t][q]
<1> DEFINE w == page_table[ptaddr][p]
           n == [w EXCEPT !.dirty = TRUE]
           m == [page_table EXCEPT ![ptaddr] = [page_table[ptaddr] EXCEPT ![p] = n]]
<1>1. w \in Entry
  BY DEF TypeOK
<1>2. n \in Entry
  BY <1>1, EntryExcept
<1>3. [page_table EXCEPT ![ptaddr][p].dirty = TRUE] = m
  BY DEF TypeOK
<1>4. /\ m \in [Table -> [Page -> Entry]]
      /\ \A t \in Table, q \in Page :
           m[t][q] = IF t = ptaddr /\ q = p THEN n ELSE page_table[t][q]
  <2> HIDE DEF n
  <2> QED BY <1>2 DEF TypeOK
<1> HIDE DEF m
<1>5. CASE Dirties(p, access)
  <2>1. MarkedTable(p, access) = m
    BY <1>3, <1>5 DEF MarkedTable
  <2>2. QED
    BY <1>4, <1>5, <2>1
<1>6. CASE ~Dirties(p, access)
  BY <1>6 DEF MarkedTable, TypeOK
<1>7. QED
  BY <1>5, <1>6

LEMMA MarkedElsewhere ==
  ASSUME TypeOK, NEW p \in Page, NEW access \in Access,
         NEW t \in Table, NEW q \in Page,
         t # ptaddr \/ q # p \/ ~Dirties(p, access)
  PROVE  MarkedTable(p, access)[t][q] = page_table[t][q]
  BY MarkedType

LEMMA MarkedHere ==
  ASSUME TypeOK, NEW p \in Page, NEW access \in Access, Dirties(p, access)
  PROVE  MarkedTable(p, access)[ptaddr][p] =
           [page_table[ptaddr][p] EXCEPT !.dirty = TRUE]
<1>1. ptaddr \in Table
  BY DEF TypeOK
<1>2. QED
  BY <1>1, MarkedType

LEMMA WrittenTable ==
  ASSUME TypeOK, NEW p \in Page, NEW t \in Table, NEW q \in Page,
         NEW w \in Words[q],
         page_table' = [MarkedTable(p, "write") EXCEPT ![t][q] = w]
  PROVE  /\ w \in Entry
         /\ page_table' \in [Table -> [Page -> Entry]]
         /\ \A u \in Table, r \in Page :
              page_table'[u][r] = IF u = t /\ r = q THEN w
                                  ELSE MarkedTable(p, "write")[u][r]
<1>1. w \in Entry
  BY CosiAssumption
<1>2. MarkedTable(p, "write") \in [Table -> [Page -> Entry]]
  BY MarkedType DEF Access
<1>3. QED
  BY <1>1, <1>2

LEMMA Peeked ==
  ASSUME TypeOK
  PROVE  /\ AfterFlush \in [Page -> Line] /\ AfterPeek \in [Page -> Line]
         /\ IhtLine \in Line
<1> USE VMAssumption, CosiAssumption
<1>1. \A p \in Page : FlushedTlb[p] \in Line
  BY DEF FlushedTlb, Empty, Line, Entry
<1>2. AfterFlush \in [Page -> Line]
  BY <1>1 DEF AfterFlush, FlushedTlb, TypeOK
<1>3. ip \in Page
  BY DEF TypeOK
<1>4. Lookup(ip, AfterFlush[ip]) \in Line
  BY <1>2, <1>3, LookupType
<1>5. AfterPeek \in [Page -> Line]
  BY <1>2, <1>3, <1>4 DEF AfterPeek
<1>6. QED
  BY <1>2, <1>5, LookupType DEF IhtLine

-----------------------------------------------------------------------------
(* Type correctness.                                                       *)

LEMMA InitType == Init => TypeOK
<1> SUFFICES ASSUME Init PROVE TypeOK
  OBVIOUS
<1> USE VMAssumption, CosiAssumption
<1>1. tlb \in [Page -> Line]
  BY DEF Init, VMInit, Line, Entry
<1>2. page_table \in [Table -> [Page -> Entry]]
  <2>1. Empty(ZeroFrame) \in Entry
    BY DEF Empty, Entry
  <2>2. QED
    BY <2>1 DEF Init, VMInit
<1>3. last \in [page : Page, access : Access \cup {"none"},
               outcome : {"ok", "pgf", "prv", "pev"},
               frame : Frame \cup {NoFrame}]
  BY DEF Init, NoAccess
<1>4. QED
  BY <1>1, <1>2, <1>3 DEF Init, VMInit, TypeOK

LEMMA NoAccessType ==
  NoAccess \in [page : Page, access : Access \cup {"none"},
                outcome : {"ok", "pgf", "prv", "pev"},
                frame : Frame \cup {NoFrame}]
  BY CosiAssumption DEF NoAccess

LEMMA TranslateType ==
  ASSUME TypeOK, NEW p \in Page, NEW access \in Access, Translate(p, access),
         RaiseOutcome(p, access)
  PROVE  /\ tlb' \in [Page -> Line]
         /\ last' \in [page : Page, access : Access \cup {"none"},
                       outcome : {"ok", "pgf", "prv", "pev"},
                       frame : Frame \cup {NoFrame}]
         /\ saved_levels' \in SUBSET Privilege
         /\ raised' \in {"none"} \cup Interrupts
         /\ raised' # "none" \/ raised' = raised
  BY FilledType, OutcomeOfType
  DEF Translate, RaiseOutcome, Raise, RaiseNothing, Interrupts, TypeOK

LEMMA TypeStep == ASSUME TypeOK, Next PROVE TypeOK'
<1> USE VMAssumption, CosiAssumption, NoAccessType
<1>1. CASE Fetch
  <2>1. "execute" \in Access /\ ip \in Page
    BY DEF Access, TypeOK
  <2>2. ReadMemory(ip, "execute") /\ RaiseOutcome(ip, "execute")
    BY <1>1 DEF Fetch
  <2>3. QED
    BY <1>1, <2>1, <2>2, TranslateType
    DEF Fetch, ReadMemory, Misfiled, ctl, flags, TypeOK
<1>2. CASE Compute
  BY <1>2 DEF Compute, Execute, NoMemory, NoMemoryAccess, RaiseNothing, ctl,
              flags, TypeOK
<1>3. CASE Reject
  <2>1. "read" \in Access /\ ip \in Page
    BY DEF Access, TypeOK
  <2>2. FilledTlb(ip, "read") \in [Page -> Line]
    BY <2>1, FilledType
  <2>3. QED
    BY <1>3, <2>1, <2>2, OutcomeOfType
    DEF Reject, ReadMemory, Translate, Execute, Raise, Interrupts, Misfiled,
        ctl, flags, TypeOK
<1>4. CASE CwrRefused
  BY <1>4, <1>2 DEF CwrRefused
<1>5. ASSUME NEW p \in Page, Load(p) PROVE TypeOK'
  <2>1. "read" \in Access
    BY DEF Access
  <2>2. QED
    BY <1>5, <2>1, TranslateType
    DEF Load, Execute, ReadMemory, Misfiled, ctl, flags, TypeOK
<1>6. ASSUME NEW p \in Page, Store(p) PROVE TypeOK'
  <2>1. "write" \in Access
    BY DEF Access
  <2>2. Translate(p, "write") /\ RaiseOutcome(p, "write")
    BY <1>6 DEF Store
  <2>3. page_table' \in [Table -> [Page -> Entry]] /\ stale' \subseteq Pid
    <3>1. Misfiled(p, "write") \subseteq Pid
      BY DEF Misfiled, TypeOK
    <3>2. CASE page_table' = MarkedTable(p, "write")
               /\ stale' = stale \cup Misfiled(p, "write")
      BY <2>1, <3>1, <3>2, MarkedType DEF TypeOK
    <3>3. CASE \E t \in Table, q \in Page : \E w \in Words[q] :
                 /\ page_table' = [MarkedTable(p, "write") EXCEPT ![t][q] = w]
                 /\ stale' = stale \cup Misfiled(p, "write")
                                   \cup {d \in Pid : TableOf[d] = t}
      BY <3>1, <3>3, WrittenTable DEF TypeOK
    <3>4. QED
      BY <1>6, <3>2, <3>3 DEF Store
  <2>4. stored' \in Frame
    BY <1>6, <2>1, OutcomeOfType DEF Store
  <2>5. QED
    BY <1>6, <2>1, <2>2, <2>3, <2>4, TranslateType
    DEF Store, Execute, ctl, flags, TypeOK
<1>7. CASE WriteControl
  BY <1>7
  DEF WriteControl, WritePid, WritePtaddr, WritePrivileges, WriteSavedLevels,
      WriteState, WriteStateUpdate, Cwr, Execute, NoMemoryAccess, RaiseNothing,
      Switched, ctl, flags, TypeOK
<1>8. ASSUME NEW range \in {"internal", "syscall"}, Int(range) PROVE TypeOK'
  BY <1>8 DEF Int, Execute, NoMemory, NoMemoryAccess, RaiseNothing, ctl, TypeOK
<1>9. CASE Irt
  BY <1>9 DEF Irt, Execute, NoMemory, NoMemoryAccess, RaiseNothing, TypeOK
<1>10. CASE Hlt
  BY <1>10 DEF Hlt, Execute, NoMemory, NoMemoryAccess, RaiseNothing, ctl, TypeOK
<1>11. CASE IrtRefused \/ HltRefused
  BY <1>11 DEF IrtRefused, HltRefused, Refuse, Execute, NoMemory,
               NoMemoryAccess, Raise, Interrupts, ctl, flags, TypeOK
<1>12. CASE Resume \/ Dispatch \/ Stop
  <2>1. stage = "update" /\ Update
    BY <1>12 DEF Resume, Dispatch, Stop, Update
  <2>2. tlb' \in [Page -> Line]
    BY <2>1, Peeked DEF Update
  <2>3. stale' \subseteq Pid /\ iht' \in Page
    BY <2>1 DEF Update, TypeOK
  <2>4. saved_levels' \in SUBSET Privilege
    BY <1>12 DEF Resume, Dispatch, Stop, SavedByReload, TypeOK
  <2>5. QED
    BY <1>12, <2>1, <2>2, <2>3, <2>4
    DEF Resume, Dispatch, Stop, Update, ClearRequests, Privilege, TypeOK
<1>13. QED
  BY <1>1, <1>2, <1>3, <1>4, <1>5, <1>6, <1>7, <1>8, <1>9, <1>10, <1>11, <1>12
  DEF Next

\* Whatever software does, the state of cosi is one of the kinds TypeOK lists;
\* no request is pending when an instruction starts.
THEOREM CosiTypeCorrect == Spec => []TypeOK
<1>1. TypeOK /\ UNCHANGED vars => TypeOK'
  BY DEF TypeOK, vars, mmu, ctl, flags
<1>2. QED
  BY <1>1, InitType, TypeStep, PTL DEF Spec

-----------------------------------------------------------------------------
(* One translation.  Software flushes on a switch from here on: then every *)
(* line that is hit is the process' own.                                   *)

LEMMA OwnLine ==
  ASSUME IInv, FlushOnSwitch, NEW p \in Page
  PROVE  /\ Hit(tlb[p]) => tlb[p].pid = pid
         /\ Lookup(p, tlb[p]).pid = pid
<1>1. Hit(tlb[p]) => tlb[p].pid = pid
  BY DEF IInv, RunsSettled, SoleProcess, Settled, Hit, ReadPid
<1>2. QED
  BY <1>1 DEF Lookup, Walk

LEMMA ServedShows ==
  ASSUME IInv, FlushOnSwitch, NEW p \in Page, Settled
  PROVE  SameMapping(Served(p), page_table[ptaddr][p])
<1>1. CASE Hit(tlb[p])
  BY <1>1, OwnLine
  DEF IInv, TlbShowsTable, Settled, Served, Lookup, Hit
<1>2. CASE ~Hit(tlb[p])
  <2>1. Served(p) = page_table[ptaddr][p] /\ Served(p) \in Entry
    BY <1>2, ServedType DEF Served, Lookup, Walk, IInv
  <2>2. QED
    BY <2>1, SameFields
<1>3. QED
  BY <1>1, <1>2

LEMMA TranslateShows ==
  ASSUME IInv, FlushOnSwitch, NEW p \in Page, NEW access \in Access,
         Translate(p, access), NEW q \in Page, tlb'[q].pte.present,
         tlb'[q].pid \notin stale, tlb'[q].pid \notin Misfiled(p, access)
  PROVE  SameMapping(tlb'[q].pte,
                     MarkedTable(p, access)[TableOf[tlb'[q].pid]][q])
<1> USE VMAssumption
<1>1. TypeOK /\ TlbShowsTable /\ tlb' = FilledTlb(p, access)
  BY DEF IInv, Translate
<1>2. CASE q # p
  <2>1. tlb'[q] = tlb[q]
    <3>1. FilledTlb(p, access)[q] = tlb[q]
      BY <1>1, <1>2, FilledElsewhere
    <3>2. QED
      BY <1>1, <3>1
  <2>2. TableOf[tlb[q].pid] \in Table
    BY <1>1 DEF TypeOK, Line
  <2>3. MarkedTable(p, access)[TableOf[tlb[q].pid]][q]
          = page_table[TableOf[tlb[q].pid]][q]
    BY <1>1, <1>2, <2>2, MarkedElsewhere
  <2>4. QED
    BY <1>1, <2>1, <2>3 DEF TlbShowsTable
<1>3. CASE q = p
  <2> DEFINE word == page_table[TableOf[pid]][p]
             new  == MarkedTable(p, access)[TableOf[pid]][p]
             d    == Served(p).dirty \/ Dirties(p, access)
  <2>1. /\ tlb'[p].pid = pid
        /\ tlb'[p].pte = [Served(p) EXCEPT !.dirty = d]
    <3>1. FilledTlb(p, access)[p].pid = Lookup(p, tlb[p]).pid
      BY <1>1, FilledPid
    <3>2. FilledTlb(p, access)[p].pte = [Served(p) EXCEPT !.dirty = d]
      BY <1>1, FilledLine, Zenon
    <3>3. Lookup(p, tlb[p]).pid = pid
      BY OwnLine
    <3>4. tlb'[p] = FilledTlb(p, access)[p]
      BY <1>1
    <3>5. QED
      BY <3>1, <3>2, <3>3, <3>4
  <2>2. Served(p) \in Entry /\ word \in Entry /\ d \in BOOLEAN /\ pid \in Pid
    BY <1>1, ServedType DEF TypeOK
  <2>3. SameMapping(Served(p), word)
    <3>1. CASE ptaddr = TableOf[pid]
      BY <1>3, <2>1, <3>1, ServedShows DEF Settled
    <3>2. CASE ptaddr # TableOf[pid]
      <4>1. Hit(tlb[p])
        BY <1>3, <2>1, <3>2 DEF Misfiled
      <4>2. QED
        BY <1>1, <1>3, <2>1, <4>1, OwnLine
        DEF TlbShowsTable, Served, Lookup, Hit
    <3>3. QED
      BY <3>1, <3>2
  <2>4. new = IF Dirties(p, access) THEN [word EXCEPT !.dirty = TRUE] ELSE word
    <3>1. Dirties(p, access) => ptaddr = TableOf[pid]
      BY <1>3, <2>1 DEF Misfiled
    <3>2. TableOf[pid] \in Table
      BY <2>2
    <3>3. QED
      BY <1>1, <3>1, <3>2, MarkedHere, MarkedElsewhere
  <2>5. SameMapping([Served(p) EXCEPT !.dirty = d], new)
    <3> DEFINE line == [Served(p) EXCEPT !.dirty = d]
    <3>1. new \in Entry /\ line \in Entry
      BY <2>2, <2>4, EntryExcept
    <3>2. /\ new.present = word.present /\ new.protect = word.protect
          /\ new.rights = word.rights /\ new.frame = word.frame
          /\ word.dirty => new.dirty
          /\ Dirties(p, access) => new.dirty
      BY <2>2, <2>4, EntryExcept
    <3>3. /\ line.present = Served(p).present /\ line.protect = Served(p).protect
          /\ line.rights = Served(p).rights /\ line.frame = Served(p).frame
          /\ line.dirty = d
      BY <2>2, EntryExcept
    <3>4. /\ Served(p).present = word.present /\ Served(p).protect = word.protect
          /\ Served(p).rights = word.rights /\ Served(p).frame = word.frame
          /\ Served(p).dirty => word.dirty
      BY <2>2, <2>3, SameFields
    <3>5. line.dirty => new.dirty
      BY <3>2, <3>3, <3>4
    <3> HIDE DEF new, line
    <3>6. SameMapping(line, new)
      BY <3>1, <3>2, <3>3, <3>4, <3>5, SameFields
    <3>7. QED
      BY <3>6 DEF line
  <2>6. QED
    BY <1>3, <2>1, <2>5
<1>4. QED
  BY <1>2, <1>3

\* A program without control register access reaches no page table
LEMMA TablesOutOfReach ==
  ASSUME IInv, FlushOnSwitch, NEW p \in Page, NEW access \in Access,
         ~Check("control_register_access"), OutcomeOf(p, access) = "ok",
         NEW t \in Table
  PROVE  Reached(p, access) # TableFrame[t]
<1> DEFINE word == page_table[ptaddr][p]
<1>1. Settled
  BY DEF IInv, RunsSettled
<1>2. Served(p) \in Entry /\ word \in Entry
  BY ServedType DEF IInv, TypeOK
<1>3. /\ Served(p).present = word.present /\ Served(p).protect = word.protect
      /\ Served(p).frame = word.frame
  BY <1>1, <1>2, ServedShows, SameFields
<1>4. ~Check("protected_memory_access")
  BY DEF IInv, LevelsKnown, Check
<1>5. word.present /\ ~word.protect
  BY <1>3, <1>4 DEF OutcomeOf, Outcome
<1>6. QED
  BY <1>3, <1>5 DEF IInv, TypeOK, TablesClosed, Reached

LEMMA TranslateSole ==
  ASSUME IInv, FlushOnSwitch, NEW p \in Page, NEW access \in Access,
         Translate(p, access), NEW q \in Page, tlb'[q].pte.present,
         pid \notin stale
  PROVE  tlb'[q].pid = pid
<1>1. TypeOK /\ tlb' = FilledTlb(p, access)
  BY DEF IInv, Translate
<1>2. CASE q # p
  <2>1. FilledTlb(p, access)[q] = tlb[q]
    BY <1>1, <1>2, FilledElsewhere
  <2>2. QED
    BY <1>1, <2>1 DEF IInv, SoleProcess
<1>3. CASE q = p
  <2>1. FilledTlb(p, access)[p].pid = Lookup(p, tlb[p]).pid
    BY <1>1, FilledPid
  <2>2. QED
    BY <1>1, <1>3, <2>1, OwnLine
<1>4. QED
  BY <1>2, <1>3

-----------------------------------------------------------------------------
(* The invariant, action by action.                                        *)

LEMMA QuietSafe ==
  ASSUME IInv, UNCHANGED <<mmu, pid, ptaddr>>
  PROVE  TlbShowsTable' /\ SoleProcess' /\ TablesClosed' /\ Settled' = Settled
  BY DEF IInv, TlbShowsTable, SoleProcess, TablesClosed, Settled, SameMapping, mmu

LEMMA SwitchSafe ==
  ASSUME IInv, TypeOK', UNCHANGED <<tlb, page_table>>, stale' = Pid
  PROVE  TlbShowsTable' /\ SoleProcess' /\ TablesClosed'
<1>1. TlbShowsTable' /\ SoleProcess'
  BY DEF TypeOK, Line, TlbShowsTable, SoleProcess
<1>2. TablesClosed'
  BY DEF IInv, TablesClosed
<1>3. QED
  BY <1>1, <1>2

LEMMA ReadSafe ==
  ASSUME IInv, FlushOnSwitch, NEW p \in Page, NEW access \in Access,
         access # "write", ReadMemory(p, access), UNCHANGED ctl
  PROVE  /\ TlbShowsTable' /\ SoleProcess' /\ TablesClosed'
         /\ Settled => Settled'
<1> USE DEF ReadMemory, ctl
<1>1. TlbShowsTable'
  <2>1. MarkedTable(p, access) = page_table'
    BY DEF MarkedTable, Dirties
  <2>2. QED
    BY <2>1, TranslateShows DEF TlbShowsTable
<1>2. SoleProcess'
  BY TranslateSole DEF SoleProcess
<1>3. TablesClosed'
  BY DEF IInv, TablesClosed
<1>4. Settled => Settled'
  BY DEF Settled, Misfiled
<1>5. QED
  BY <1>1, <1>2, <1>3, <1>4

LEMMA MarkedClosed ==
  ASSUME IInv, NEW p \in Page, NEW access \in Access,
         NEW t \in Table, NEW q \in Page, NEW u \in Table,
         MarkedTable(p, access)[t][q].present,
         ~MarkedTable(p, access)[t][q].protect
  PROVE  MarkedTable(p, access)[t][q].frame # TableFrame[u]
<1>1. TypeOK /\ TablesClosed
  BY DEF IInv
<1>2. page_table[t][q] \in Entry
  BY <1>1 DEF TypeOK
<1>3. CASE t = ptaddr /\ q = p /\ Dirties(p, access)
  <2>1. MarkedTable(p, access)[t][q] = [page_table[t][q] EXCEPT !.dirty = TRUE]
    BY <1>1, <1>3, MarkedHere
  <2>2. /\ MarkedTable(p, access)[t][q].present = page_table[t][q].present
        /\ MarkedTable(p, access)[t][q].protect = page_table[t][q].protect
        /\ MarkedTable(p, access)[t][q].frame = page_table[t][q].frame
    BY <1>2, <2>1, EntryExcept
  <2>3. QED
    BY <1>1, <2>2 DEF TablesClosed
<1>4. CASE ~(t = ptaddr /\ q = p /\ Dirties(p, access))
  <2>1. MarkedTable(p, access)[t][q] = page_table[t][q]
    BY <1>1, <1>4, MarkedElsewhere
  <2>2. QED
    BY <1>1, <2>1 DEF TablesClosed
<1>5. QED
  BY <1>3, <1>4

LEMMA StoreSafe ==
  ASSUME IInv, FlushOnSwitch, NEW p \in Page, Store(p)
  PROVE  /\ TlbShowsTable' /\ SoleProcess' /\ TablesClosed'
         /\ ~Check("control_register_access") /\ Settled => Settled'
<1> USE VMAssumption, CosiAssumption
<1>1. /\ "write" \in Access /\ Translate(p, "write") /\ TypeOK
      /\ UNCHANGED <<pid, ptaddr, privilege_levels>>
  BY DEF Store, ctl, Access, IInv
<1>2. CASE page_table' = MarkedTable(p, "write")
           /\ stale' = stale \cup Misfiled(p, "write")
  <2>1. TlbShowsTable'
    BY <1>1, <1>2, TranslateShows DEF TlbShowsTable
  <2>2. SoleProcess'
    BY <1>1, <1>2, TranslateSole DEF SoleProcess
  <2>3. TablesClosed'
    BY <1>1, <1>2, MarkedClosed DEF TablesClosed
  <2>4. Settled => Settled'
    BY <1>1, <1>2 DEF Settled, Misfiled
  <2>5. QED
    BY <2>1, <2>2, <2>3, <2>4
<1>3. ASSUME NEW t \in Table, NEW q \in Page, NEW w \in Words[q],
             OutcomeOf(p, "write") = "ok",
             TableFrame[t] = Reached(p, "write"),
             page_table' = [MarkedTable(p, "write") EXCEPT ![t][q] = w],
             stale' = stale \cup Misfiled(p, "write")
                            \cup {d \in Pid : TableOf[d] = t}
      PROVE  /\ TlbShowsTable' /\ SoleProcess' /\ TablesClosed'
             /\ Check("control_register_access")
  <2>1. /\ w \in Entry
        /\ \A u \in Table, r \in Page :
             page_table'[u][r] = IF u = t /\ r = q THEN w
                                 ELSE MarkedTable(p, "write")[u][r]
    BY <1>1, <1>3, WrittenTable
  <2>2. TlbShowsTable'
    <3> SUFFICES ASSUME NEW r \in Page, tlb'[r].pte.present,
                        tlb'[r].pid \notin stale'
                 PROVE  SameMapping(tlb'[r].pte,
                                    page_table'[TableOf[tlb'[r].pid]][r])
      BY DEF TlbShowsTable, SameMapping
    <3>1. tlb'[r].pid \in Pid
      <4>1. FilledTlb(p, "write") \in [Page -> Line]
        BY <1>1, FilledType
      <4>2. QED
        BY <1>1, <4>1 DEF Translate, Line
    <3>2. TableOf[tlb'[r].pid] # t /\ TableOf[tlb'[r].pid] \in Table
      BY <1>3, <3>1
    <3>3. page_table'[TableOf[tlb'[r].pid]][r]
            = MarkedTable(p, "write")[TableOf[tlb'[r].pid]][r]
      BY <2>1, <3>2
    <3>4. tlb'[r].pid \notin stale /\ tlb'[r].pid \notin Misfiled(p, "write")
      BY <1>3
    <3>5. QED
      BY <1>1, <3>3, <3>4, TranslateShows
  <2>3. SoleProcess'
    BY <1>1, <1>3, TranslateSole DEF SoleProcess
  <2>4. TablesClosed'
    <3> SUFFICES ASSUME NEW u \in Table, NEW v \in Table, NEW r \in Page,
                        page_table'[u][r].present, ~page_table'[u][r].protect
                 PROVE  page_table'[u][r].frame # TableFrame[v]
      BY DEF TablesClosed
    <3>1. CASE u = t /\ r = q
      <4>1. page_table'[u][r] = w
        BY <2>1, <3>1
      <4>2. QED
        BY <3>1, <4>1
    <3>2. CASE ~(u = t /\ r = q)
      <4>1. page_table'[u][r] = MarkedTable(p, "write")[u][r]
        BY <2>1, <3>2
      <4>2. QED
        BY <1>1, <4>1, MarkedClosed
    <3>3. QED
      BY <3>1, <3>2
  <2>5. Check("control_register_access")
    BY <1>1, <1>3, TablesOutOfReach
  <2>6. QED
    BY <2>2, <2>3, <2>4, <2>5
<1>4. QED
  BY <1>2, <1>3 DEF Store

\* The end of the loop: what a line may be after the flush and the reload
LEMMA ReloadedLine ==
  ASSUME IInv, Update, NEW p \in Page, tlb'[p].pte.present
  PROVE  \/ ~flush_tlb /\ tlb'[p] = tlb[p]
         \/ iht_reload /\ tlb'[p] = Walk(p)
<1> USE CosiAssumption
<1>1. TypeOK /\ ip \in Page
  BY DEF IInv, TypeOK
<1>2. AfterFlush \in [Page -> Line] /\ AfterPeek \in [Page -> Line]
  BY <1>1, Peeked
<1>3. \A q \in Page : AfterFlush[q].pte.present => ~flush_tlb /\ AfterFlush[q] = tlb[q]
  BY DEF AfterFlush, FlushedTlb, Empty
<1>4. \A q \in Page : AfterPeek[q].pte.present =>
        \/ AfterPeek[q] = Walk(q)
        \/ ~flush_tlb /\ AfterPeek[q] = tlb[q]
  <2> SUFFICES ASSUME NEW q \in Page, AfterPeek[q].pte.present
               PROVE  \/ AfterPeek[q] = Walk(q)
                      \/ ~flush_tlb /\ AfterPeek[q] = tlb[q]
    OBVIOUS
  <2>1. AfterPeek[q] = AfterFlush[q] \/ AfterPeek[q] = Walk(q)
    <3> DEFINE peeked == Lookup(ip, AfterFlush[ip])
    <3>1. peeked = AfterFlush[ip] \/ peeked = Walk(ip)
      BY DEF Lookup
    <3>2. AfterPeek = [AfterFlush EXCEPT ![ip] = peeked]
      BY DEF AfterPeek
    <3> HIDE DEF peeked
    <3>3. QED
      BY <1>1, <1>2, <3>1, <3>2
  <2>2. AfterFlush[q].pte.present => ~flush_tlb /\ AfterFlush[q] = tlb[q]
    BY <1>3
  <2>3. QED
    BY <2>1, <2>2
<1>5. CASE iht_reload
  <2>1. tlb' = [AfterPeek EXCEPT ![IhtPage] = IhtLine]
    BY <1>5 DEF Update
  <2>2. tlb'[p] = Walk(p) \/ tlb'[p] = AfterPeek[p]
    BY <1>2, <2>1 DEF IhtLine, Lookup
  <2>3. QED
    BY <1>4, <1>5, <2>2
<1>6. CASE ~iht_reload
  BY <1>3, <1>6 DEF Update
<1>7. QED
  BY <1>5, <1>6

LEMMA UpdateSafe ==
  ASSUME IInv, Update
  PROVE  /\ TlbShowsTable' /\ SoleProcess' /\ TablesClosed'
         /\ ~Check("control_register_access") => Settled'
<1> USE VMAssumption
<1>1. TypeOK /\ TlbShowsTable /\ UNCHANGED <<page_table, pid, ptaddr>>
  BY DEF IInv, Update
<1>2. TlbShowsTable'
  <2> SUFFICES ASSUME NEW p \in Page, tlb'[p].pte.present,
                      tlb'[p].pid \notin stale'
               PROVE  SameMapping(tlb'[p].pte,
                                  page_table'[TableOf[tlb'[p].pid]][p])
    BY DEF TlbShowsTable, SameMapping
  <2>1. CASE ~flush_tlb /\ tlb'[p] = tlb[p]
    <3>1. stale \subseteq stale'
      BY <2>1 DEF Update
    <3>2. QED
      BY <1>1, <2>1, <3>1 DEF TlbShowsTable
  <2>2. CASE iht_reload /\ tlb'[p] = Walk(p)
    <3>1. tlb'[p].pid = pid /\ tlb'[p].pte = page_table[ptaddr][p]
      BY <2>2 DEF Walk
    <3>2. ptaddr = TableOf[pid]
      BY <2>2, <3>1 DEF Update
    <3>3. page_table[ptaddr][p] \in Entry
      BY <1>1 DEF TypeOK
    <3>4. QED
      BY <1>1, <3>1, <3>2, <3>3, SameFields
  <2>3. QED
    BY <2>1, <2>2, ReloadedLine
<1>3. SoleProcess'
  <2> SUFFICES ASSUME FlushOnSwitch, pid \notin stale',
                      NEW p \in Page, tlb'[p].pte.present
               PROVE  tlb'[p].pid = pid
    BY <1>1 DEF SoleProcess
  <2>1. CASE ~flush_tlb /\ tlb'[p] = tlb[p]
    <3>1. pid \notin stale
      BY <2>1 DEF Update
    <3>2. QED
      BY <2>1, <3>1 DEF IInv, SoleProcess
  <2>2. CASE iht_reload /\ tlb'[p] = Walk(p)
    BY <2>2 DEF Walk
  <2>3. QED
    BY <2>1, <2>2, ReloadedLine
<1>4. TablesClosed'
  BY <1>1 DEF IInv, TablesClosed
<1>5. ~Check("control_register_access") => Settled'
  BY DEF IInv, RunsSettled, Settled, Update
<1>6. QED
  BY <1>2, <1>3, <1>4, <1>5

-----------------------------------------------------------------------------
\* The invariant without the types
Safe == TlbShowsTable /\ SoleProcess /\ RunsSettled /\ TablesClosed /\ LevelsKnown

LEMMA InitSafe == Init => Safe
<1> SUFFICES ASSUME Init PROVE Safe
  OBVIOUS
<1>1. RunsSettled /\ LevelsKnown
  BY DEF Init, VMInit, RunsSettled, LevelsKnown, Check, Privilege
<1>2. SoleProcess /\ TlbShowsTable
  BY VMAssumption DEF Init, VMInit, SoleProcess, TlbShowsTable
<1>3. TablesClosed
  BY DEF Init, VMInit, TablesClosed, Empty
<1>4. QED
  BY <1>1, <1>2, <1>3 DEF Safe

LEMMA ExecuteSafe ==
  ASSUME IInv, FlushOnSwitch, TypeOK',
         TlbShowsTable' /\ SoleProcess' /\ TablesClosed',
         UNCHANGED <<ctl, flush_tlb, iht_reload>>,
         ~Check("control_register_access") => Settled',
         saved_levels' \in {saved_levels, privilege_levels} \cup Levels
  PROVE  Safe'
<1>1. RunsSettled'
  BY DEF IInv, RunsSettled, Check, ctl
<1>2. LevelsKnown'
  BY CosiAssumption DEF IInv, LevelsKnown, ctl
<1>3. QED
  BY <1>1, <1>2 DEF Safe

LEMMA SafeStep == ASSUME IInv, FlushOnSwitch, Next, TypeOK' PROVE Safe'
<1> USE DEF mmu, ctl, flags
<1>0. ~Check("control_register_access") => Settled
  BY DEF IInv, RunsSettled
<1>1. CASE Fetch
  <2>1. "execute" \in Access /\ ip \in Page
    BY DEF IInv, Access, TypeOK
  <2>2. ReadMemory(ip, "execute") /\ UNCHANGED <<ctl, flush_tlb, iht_reload>>
        /\ saved_levels' \in {saved_levels, privilege_levels}
    BY <1>1 DEF Fetch, RaiseOutcome, Raise, RaiseNothing
  <2>3. QED
    BY <1>0, <2>1, <2>2, ReadSafe, ExecuteSafe
<1>2. ASSUME NEW p \in Page, Load(p) PROVE Safe'
  <2>1. "read" \in Access
    BY DEF Access
  <2>2. ReadMemory(p, "read") /\ UNCHANGED <<ctl, flush_tlb, iht_reload>>
        /\ saved_levels' \in {saved_levels, privilege_levels}
    BY <1>2 DEF Load, RaiseOutcome, Raise, RaiseNothing
  <2>3. QED
    BY <1>0, <2>1, <2>2, ReadSafe, ExecuteSafe
<1>3. CASE Reject
  <2>1. "read" \in Access /\ ip \in Page
    BY DEF IInv, Access, TypeOK
  <2>2. ReadMemory(ip, "read") /\ UNCHANGED <<ctl, flush_tlb, iht_reload>>
        /\ saved_levels' = privilege_levels
    BY <1>3 DEF Reject, Raise
  <2>3. QED
    BY <1>0, <2>1, <2>2, ReadSafe, ExecuteSafe
<1>4. ASSUME NEW p \in Page, Store(p) PROVE Safe'
  <2>1. UNCHANGED <<ctl, flush_tlb, iht_reload>>
        /\ saved_levels' \in {saved_levels, privilege_levels}
    BY <1>4 DEF Store, RaiseOutcome, Raise, RaiseNothing
  <2>2. QED
    BY <1>0, <1>4, <2>1, StoreSafe, ExecuteSafe
<1>5. CASE \/ Compute \/ CwrRefused \/ IrtRefused \/ HltRefused \/ Hlt
           \/ \E range \in {"internal", "syscall"} : Int(range)
  <2>1. /\ UNCHANGED <<mmu, ctl, flush_tlb, iht_reload>>
        /\ saved_levels' \in {saved_levels, privilege_levels}
    BY <1>5
    DEF Compute, CwrRefused, IrtRefused, HltRefused, Refuse, Hlt, Int, Execute,
        NoMemory, NoMemoryAccess, Raise, RaiseNothing
  <2>2. QED
    BY <1>0, <2>1, QuietSafe, ExecuteSafe
<1>6. ASSUME NEW level \in Levels, WriteSavedLevels(level) PROVE Safe'
  <2>1. UNCHANGED <<mmu, ctl, flush_tlb, iht_reload>> /\ saved_levels' \in Levels
    BY <1>6 DEF WriteSavedLevels, NoMemoryAccess
  <2>2. QED
    BY <1>0, <2>1, QuietSafe, ExecuteSafe
<1>7. ASSUME \/ \E d \in Pid : WritePid(d)
             \/ \E t \in Table : WritePtaddr(t)
      PROVE  Safe'
  <2>1. /\ Check("control_register_access") /\ stale' = Pid
        /\ UNCHANGED <<tlb, page_table, privilege_levels, saved_levels>>
    BY <1>7 DEF WritePid, WritePtaddr, Cwr, NoMemoryAccess, RaiseNothing, Switched
  <2>2. TlbShowsTable' /\ SoleProcess' /\ TablesClosed'
    BY <2>1, SwitchSafe
  <2>3. RunsSettled' /\ LevelsKnown'
    BY <2>1 DEF IInv, RunsSettled, LevelsKnown, Check
  <2>4. QED
    BY <2>2, <2>3 DEF Safe
<1>8. ASSUME \/ \E enabled \in BOOLEAN : WriteState(enabled)
             \/ \E flush, reload \in BOOLEAN : WriteStateUpdate(flush, reload)
      PROVE  Safe'
  <2>1. /\ Check("control_register_access")
        /\ UNCHANGED <<mmu, ctl, saved_levels>>
    BY <1>8 DEF WriteState, WriteStateUpdate, Cwr, NoMemoryAccess, RaiseNothing
  <2>2. TlbShowsTable' /\ SoleProcess' /\ TablesClosed'
    BY <2>1, QuietSafe
  <2>3. RunsSettled' /\ LevelsKnown'
    BY <2>1 DEF IInv, RunsSettled, LevelsKnown, Check
  <2>4. QED
    BY <2>2, <2>3 DEF Safe
<1>9. ASSUME \/ \E level \in Levels : WritePrivileges(level)
             \/ Irt
      PROVE  Safe'
  <2>1. /\ stage = "execute"
        /\ UNCHANGED <<mmu, pid, ptaddr, saved_levels, flush_tlb, iht_reload>>
        /\ privilege_levels' \in Levels \cup {saved_levels}
        /\ MayRun(privilege_levels')
    BY <1>9 DEF WritePrivileges, Irt, Cwr, Execute, NoMemory, NoMemoryAccess,
                RaiseNothing
  <2>2. ~flush_tlb /\ ~iht_reload
    BY <2>1 DEF IInv, TypeOK
  <2>3. TlbShowsTable' /\ SoleProcess' /\ TablesClosed' /\ Settled' = Settled
    BY <2>1, QuietSafe
  <2>4. RunsSettled' /\ LevelsKnown'
    BY <2>1, <2>2, <2>3, CosiAssumption
    DEF IInv, RunsSettled, LevelsKnown, Check, MayRun
  <2>5. QED
    BY <2>3, <2>4 DEF Safe
<1>10. CASE Resume \/ Dispatch \/ Stop
  <2>1. /\ Update
        /\ \/ privilege_levels' = privilege_levels
           \/ privilege_levels' = Privilege
        /\ saved_levels' \in {saved_levels, privilege_levels}
    BY <1>10 DEF Resume, Dispatch, Stop, SavedByReload
  <2>2. TlbShowsTable' /\ SoleProcess' /\ TablesClosed'
        /\ (~Check("control_register_access") => Settled')
    BY <2>1, UpdateSafe
  <2>3. RunsSettled'
    BY <2>1, <2>2 DEF RunsSettled, Update, ClearRequests, Check, Privilege
  <2>4. LevelsKnown'
    BY <2>1 DEF IInv, LevelsKnown, Privilege
  <2>5. QED
    BY <2>2, <2>3, <2>4 DEF Safe
<1>11. QED
  BY <1>1, <1>2, <1>3, <1>4, <1>5, <1>6, <1>7, <1>8, <1>9, <1>10
  DEF Next, WriteControl

\* Software that flushes on a switch keeps the invariant of translation and
\* isolation, whatever the programs do.
THEOREM CosiInvariance == ASSUME FlushOnSwitch PROVE Spec => []IInv
<1>1. Init => IInv
  BY InitType, InitSafe DEF IInv, Safe
<1>2. IInv /\ [Next]_vars => IInv'
  <2> SUFFICES ASSUME IInv, [Next]_vars PROVE IInv'
    OBVIOUS
  <2>1. CASE Next
    <3>1. TypeOK'
      BY <2>1, TypeStep DEF IInv
    <3>2. Safe'
      BY <2>1, <3>1, SafeStep
    <3>3. QED
      BY <3>1, <3>2 DEF IInv, Safe
  <2>2. CASE UNCHANGED vars
    <3>1. TlbShowsTable' /\ SoleProcess' /\ TablesClosed' /\ Settled' = Settled
      BY <2>2, QuietSafe DEF vars, mmu, ctl
    <3>2. TypeOK'
      BY <2>2 DEF IInv, TypeOK, vars, mmu, ctl, flags
    <3>3. RunsSettled' /\ LevelsKnown'
      BY <2>2, <3>1 DEF IInv, RunsSettled, LevelsKnown, Check, vars, mmu, ctl, flags
    <3>4. QED
      BY <3>1, <3>2, <3>3 DEF IInv
  <2>3. QED
    BY <2>1, <2>2
<1>3. QED
  BY <1>1, <1>2, PTL DEF Spec

\* Under that contract, a line whose pid is not stale shows the page table.
THEOREM TlbNeverStale == ASSUME FlushOnSwitch PROVE Spec => []TlbShowsTable
<1>1. IInv => TlbShowsTable
  BY DEF IInv
<1>2. QED
  BY <1>1, CosiInvariance, PTL

-----------------------------------------------------------------------------
(* What the programs are owed, from the invariant.                         *)

\* Every step that records an access has just translated it; if the table is
\* settled afterwards, it was before, and the word of the page was only marked
LEMMA AccessStep ==
  ASSUME IInv, Next, last' # NoAccess
  PROVE  \E p \in Page, access \in Access :
           /\ Translate(p, access) /\ UNCHANGED ctl
           /\ Settled' =>
                /\ Settled
                /\ page_table'[ptaddr][p] = MarkedTable(p, access)[ptaddr][p]
<1> USE DEF ctl
<1>1. ASSUME NEW p \in Page, NEW access \in Access, access # "write",
             ReadMemory(p, access), UNCHANGED ctl
      PROVE  /\ Translate(p, access)
             /\ Settled' =>
                  /\ Settled
                  /\ page_table'[ptaddr][p] = MarkedTable(p, access)[ptaddr][p]
  BY <1>1 DEF ReadMemory, Settled, MarkedTable, Dirties
<1>2. CASE Fetch
  <2>1. "execute" \in Access /\ ip \in Page
    BY DEF IInv, Access, TypeOK
  <2>2. QED
    BY <1>1, <1>2, <2>1 DEF Fetch
<1>3. CASE Reject
  <2>1. "read" \in Access /\ ip \in Page
    BY DEF IInv, Access, TypeOK
  <2>2. QED
    BY <1>1, <1>3, <2>1 DEF Reject
<1>4. ASSUME NEW p \in Page, Load(p)
      PROVE  Translate(p, "read") /\ UNCHANGED ctl
             /\ (Settled' =>
                  /\ Settled
                  /\ page_table'[ptaddr][p] = MarkedTable(p, "read")[ptaddr][p])
  <2>1. "read" \in Access
    BY DEF Access
  <2>2. QED
    BY <1>1, <1>4, <2>1 DEF Load
<1>5. ASSUME NEW p \in Page, Store(p)
      PROVE  Translate(p, "write") /\ UNCHANGED ctl
             /\ (Settled' =>
                  /\ Settled
                  /\ page_table'[ptaddr][p] = MarkedTable(p, "write")[ptaddr][p])
  <2>1. Translate(p, "write") /\ UNCHANGED ctl
    BY <1>5 DEF Store
  <2>2. CASE page_table' = MarkedTable(p, "write")
             /\ stale' = stale \cup Misfiled(p, "write")
    BY <2>1, <2>2 DEF Settled
  <2>3. ASSUME NEW t \in Table, NEW q \in Page, NEW w \in Words[q],
               page_table' = [MarkedTable(p, "write") EXCEPT ![t][q] = w],
               stale' = stale \cup Misfiled(p, "write")
                              \cup {d \in Pid : TableOf[d] = t},
               Settled'
        PROVE  Settled
               /\ page_table'[ptaddr][p] = MarkedTable(p, "write")[ptaddr][p]
    <3>1. Settled /\ ptaddr # t /\ ptaddr \in Table
      BY <2>1, <2>3 DEF IInv, TypeOK, Settled
    <3>2. TypeOK
      BY DEF IInv
    <3>3. page_table'[ptaddr][p] = MarkedTable(p, "write")[ptaddr][p]
      BY <2>3, <3>1, <3>2, WrittenTable
    <3>4. QED
      BY <3>1, <3>3
  <2>4. QED
    BY <1>5, <2>1, <2>2, <2>3 DEF Store
<1>6. ASSUME NoMemoryAccess PROVE FALSE
  BY <1>6 DEF NoMemoryAccess
<1>7. CASE \/ Compute \/ CwrRefused \/ WriteControl
           \/ \E range \in {"internal", "syscall"} : Int(range)
           \/ Irt \/ IrtRefused \/ Hlt \/ HltRefused
  BY <1>6, <1>7
  DEF Compute, CwrRefused, WriteControl, WritePid, WritePtaddr, WritePrivileges,
      WriteState, WriteStateUpdate, WriteSavedLevels, Cwr, Int, Irt, IrtRefused,
      Hlt, HltRefused, Refuse, NoMemory
<1>8. ~(Resume \/ Dispatch \/ Stop)
  BY DEF Resume, Dispatch, Stop, Update
<1>9. "read" \in Access /\ "write" \in Access
  BY DEF Access
<1>10. QED
  BY <1>2, <1>3, <1>4, <1>5, <1>7, <1>8, <1>9 DEF Next

LEMMA TranslatedPid ==
  ASSUME IInv, FlushOnSwitch, NEW p \in Page, NEW access \in Access,
         Translate(p, access)
  PROVE  last'.page = p /\ tlb'[p].pid = pid
<1>1. FilledTlb(p, access)[p].pid = Lookup(p, tlb[p]).pid
  BY FilledPid DEF IInv
<1>2. QED
  BY <1>1, OwnLine DEF Translate

\* Whatever the privilege of the program, it is served by lines of its own.
THEOREM PidAlwaysChecked == ASSUME FlushOnSwitch PROVE Spec => []PidChecked
<1>1. Init => PidChecked
  BY DEF Init, PidChecked
<1>2. IInv /\ PidChecked /\ [Next]_vars => PidChecked'
  <2> SUFFICES ASSUME IInv, PidChecked, [Next]_vars, last' # NoAccess
               PROVE  tlb'[last'.page].pid = pid'
    BY DEF PidChecked, NoAccess
  <2>1. CASE Next
    BY <2>1, AccessStep, TranslatedPid DEF ctl
  <2>2. CASE UNCHANGED vars
    BY <2>2 DEF PidChecked, vars, mmu, ctl
  <2>3. QED
    BY <2>1, <2>2
<1>3. QED
  BY <1>1, <1>2, CosiInvariance, PTL DEF Spec

LEMMA OutcomeShows ==
  ASSUME IInv, FlushOnSwitch, NEW p \in Page, NEW access \in Access, Settled
  PROVE  LET word == MarkedTable(p, access)[ptaddr][p]
         IN  /\ Outcome(word, access) = OutcomeOf(p, access)
             /\ OutcomeOf(p, access) = "ok" => Reached(p, access) = word.frame
             /\ access = "write" /\ OutcomeOf(p, access) = "ok" => word.dirty
<1> DEFINE old  == page_table[ptaddr][p]
           word == MarkedTable(p, access)[ptaddr][p]
<1>1. TypeOK /\ old \in Entry /\ ptaddr \in Table
  BY DEF IInv, TypeOK
<1>2. /\ Served(p).present = old.present /\ Served(p).protect = old.protect
      /\ Served(p).rights = old.rights /\ Served(p).frame = old.frame
      /\ Served(p).dirty => old.dirty
  BY <1>1, ServedType, ServedShows, SameFields
<1>3. /\ word.present = old.present /\ word.protect = old.protect
      /\ word.rights = old.rights /\ word.frame = old.frame
      /\ old.dirty \/ Dirties(p, access) => word.dirty
  <2>1. CASE Dirties(p, access)
    <3>1. word = [old EXCEPT !.dirty = TRUE]
      BY <1>1, <2>1, MarkedHere
    <3>2. QED
      BY <1>1, <3>1, EntryExcept
  <2>2. CASE ~Dirties(p, access)
    BY <1>1, <2>2, MarkedElsewhere
  <2>3. QED
    BY <2>1, <2>2
<1> HIDE DEF old, word
<1>4. Outcome(word, access) = OutcomeOf(p, access)
  BY <1>2, <1>3 DEF Outcome, OutcomeOf
<1>5. OutcomeOf(p, access) = "ok" => Reached(p, access) = word.frame
  BY <1>2, <1>3 DEF Reached
<1>6. access = "write" /\ OutcomeOf(p, access) = "ok" => word.dirty
  BY <1>2, <1>3 DEF Dirties
<1>7. QED
  BY <1>4, <1>5, <1>6 DEF word

\* An access under a settled table ends as the table says.
THEOREM AccessesFollowTable ==
  ASSUME FlushOnSwitch PROVE Spec => []AccessFollowsTable
<1>1. Init => AccessFollowsTable
  BY DEF Init, AccessFollowsTable
<1>2. IInv /\ AccessFollowsTable /\ [Next]_vars => AccessFollowsTable'
  <2> SUFFICES ASSUME IInv, AccessFollowsTable, [Next]_vars
               PROVE  AccessFollowsTable'
    OBVIOUS
  <2>1. CASE Next
    <3> SUFFICES ASSUME last' # NoAccess, Settled'
                 PROVE  (LET word == page_table[ptaddr][last.page]
                         IN  /\ last.outcome = Outcome(word, last.access)
                             /\ last.outcome = "ok" => last.frame = word.frame)'
      BY DEF AccessFollowsTable, NoAccess
    <3>1. PICK p \in Page, access \in Access :
            /\ Translate(p, access) /\ UNCHANGED ctl
            /\ Settled /\ page_table'[ptaddr][p] = MarkedTable(p, access)[ptaddr][p]
      BY <2>1, AccessStep
    <3> DEFINE word == MarkedTable(p, access)[ptaddr][p]
    <3>2. /\ last'.page = p /\ last'.access = access
          /\ last'.outcome = OutcomeOf(p, access)
          /\ last'.frame = Reached(p, access)
      BY <3>1 DEF Translate
    <3>3. /\ Outcome(word, access) = OutcomeOf(p, access)
          /\ OutcomeOf(p, access) = "ok" => Reached(p, access) = word.frame
      BY <3>1, OutcomeShows
    <3>4. page_table'[ptaddr'][last'.page] = word
      BY <3>1, <3>2 DEF ctl
    <3> HIDE DEF word
    <3>5. Outcome(page_table[ptaddr][last.page], last.access)'
            = Outcome(word, access)
      BY <3>1, <3>2, <3>4 DEF Outcome, Check, ctl
    <3>6. QED
      BY <3>2, <3>3, <3>4, <3>5
  <2>2. CASE UNCHANGED vars
    BY <2>2 DEF AccessFollowsTable, Settled, Outcome, Check, vars, mmu, ctl
  <2>3. QED
    BY <2>1, <2>2
<1>3. QED
  BY <1>1, <1>2, CosiInvariance, PTL DEF Spec

\* A page written under a settled table is marked dirty in that table.
THEOREM WrittenPagesDirty ==
  ASSUME FlushOnSwitch PROVE Spec => []WrittenPageDirty
<1>1. Init => WrittenPageDirty
  BY DEF Init, WrittenPageDirty, NoAccess
<1>2. IInv /\ WrittenPageDirty /\ [Next]_vars => WrittenPageDirty'
  <2> SUFFICES ASSUME IInv, WrittenPageDirty, [Next]_vars
               PROVE  WrittenPageDirty'
    OBVIOUS
  <2>1. CASE Next
    <3> SUFFICES ASSUME last'.access = "write", last'.outcome = "ok", Settled'
                 PROVE  page_table[ptaddr][last.page].dirty'
      BY DEF WrittenPageDirty
    <3>1. last' # NoAccess
      BY DEF NoAccess
    <3>2. PICK p \in Page, access \in Access :
            /\ Translate(p, access) /\ UNCHANGED ctl
            /\ Settled /\ page_table'[ptaddr][p] = MarkedTable(p, access)[ptaddr][p]
      BY <2>1, <3>1, AccessStep
    <3> DEFINE word == MarkedTable(p, access)[ptaddr][p]
    <3>3. /\ last'.page = p /\ access = "write"
          /\ OutcomeOf(p, access) = "ok"
      BY <3>2 DEF Translate
    <3>4. word.dirty
      BY <3>2, <3>3, OutcomeShows
    <3>5. QED
      BY <3>2, <3>3, <3>4 DEF ctl
  <2>2. CASE UNCHANGED vars
    BY <2>2 DEF WrittenPageDirty, Settled, vars, mmu, ctl
  <2>3. QED
    BY <2>1, <2>2
<1>3. QED
  BY <1>1, <1>2, CosiInvariance, PTL DEF Spec

\* No program without control register access changes a page table but for
\* the dirty bits of its own.
THEOREM TablesOnlyMarkedByPrograms ==
  ASSUME FlushOnSwitch PROVE Spec => TablesOnlyMarked
<1> DEFINE Marked == \A t \in Table, p \in Page :
             \/ page_table'[t][p] = page_table[t][p]
             \/ /\ t = TableOf[pid]
                /\ page_table'[t][p] = [page_table[t][p] EXCEPT !.dirty = TRUE]
<1>1. ASSUME IInv, ~Check("control_register_access"), Next
      PROVE  Marked
  <2>1. CASE \E p \in Page : Store(p)
    <3>1. PICK p \in Page : Store(p)
      BY <2>1
    <3>2. TypeOK /\ "write" \in Access /\ ptaddr = TableOf[pid]
      BY <1>1 DEF IInv, RunsSettled, Settled, Access
    <3>3. page_table' = MarkedTable(p, "write")
      <4>1. \A t \in Table : OutcomeOf(p, "write") = "ok" =>
              TableFrame[t] # Reached(p, "write")
        BY <1>1, <3>2, TablesOutOfReach
      <4>2. QED
        BY <3>1, <4>1 DEF Store
    <3>4. ASSUME NEW t \in Table, NEW q \in Page,
                 t # ptaddr \/ q # p \/ ~Dirties(p, "write")
          PROVE  page_table'[t][q] = page_table[t][q]
      BY <3>2, <3>3, <3>4, MarkedElsewhere
    <3>5. Dirties(p, "write") =>
            page_table'[ptaddr][p] = [page_table[ptaddr][p] EXCEPT !.dirty = TRUE]
      BY <3>2, <3>3, MarkedHere
    <3>6. QED
      BY <3>2, <3>4, <3>5, Zenon
  <2>2. CASE ~\E p \in Page : Store(p)
    <3>1. page_table' = page_table
      BY <1>1, <2>2
      DEF Next, WriteControl, Fetch, Compute, Reject, CwrRefused, Load, Int, Irt,
          IrtRefused, Hlt, HltRefused, Refuse, Resume, Dispatch, Stop, Update,
          WritePid, WritePtaddr, WritePrivileges, WriteSavedLevels, WriteState,
          WriteStateUpdate, Cwr, ReadMemory, NoMemory, NoMemoryAccess
    <3>2. QED
      BY <3>1
  <2>3. QED
    BY <2>1, <2>2
<1>2. IInv /\ [Next]_vars => [~Check("control_register_access") => Marked]_vars
  BY <1>1
<1>3. QED
  BY <1>2, CosiInvariance, PTL DEF Spec, TablesOnlyMarked

\* Under any software, only the entry to a handler raises a program that has
\* no control register access and no interrupt control.
THEOREM PrivilegeOnlyByHandler == Spec => NoSelfMadePrivilege
<1> DEFINE Entered == /\ ~Check("control_register_access")
                      /\ ~Check("interrupt_control")
                      /\ ~(privilege_levels' \subseteq privilege_levels)
                      => /\ ip' = iht'
                         /\ saved_levels' = privilege_levels
                         /\ ~interrupts_enabled'
<1>1. [Next]_vars => [Entered]_vars
  <2> SUFFICES ASSUME Next, privilege_levels' # privilege_levels,
                      ~Check("control_register_access"),
                      ~Check("interrupt_control")
               PROVE  /\ ip' = iht' /\ saved_levels' = privilege_levels
                      /\ ~interrupts_enabled'
    OBVIOUS
  <2>1. Dispatch
    BY DEF Next, WriteControl, Fetch, Compute, Reject, CwrRefused, Load, Store,
           Int, Irt, IrtRefused, Hlt, HltRefused, Refuse, Resume, Stop,
           WritePid, WritePtaddr, WritePrivileges, WriteSavedLevels, WriteState,
           WriteStateUpdate, Cwr, ctl
  <2>2. QED
    BY <2>1 DEF Dispatch
<1>2. QED
  BY <1>1, PTL DEF Spec, NoSelfMadePrivilege
=============================================================================
