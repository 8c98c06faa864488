---------------------------- MODULE HeliumPromise ----------------------------
(***************************************************************************)
(* helium against its promise.  Some registers the CPU loses or sets to    *)
(* another value than the documents give: these are found in doc, a        *)
(* history of what they promise, until the program writes the register.    *)
(* Nothing else is hidden, and a program that looks at one of them before  *)
(* shows the difference in the registers, the memory or the addresses that *)
(* are compared.                                                           *)
(***************************************************************************)
EXTENDS Helium, Functions, TLC

VARIABLE doc        \* what the documents have in the registers that differ

\* Microcode is at work between these lines, the last not yet done.
AtLines(first, last) == mode = "iu" /\ ip["iu"] \in first .. last
Booting == AtLines(0, 12) \/ AtLines(39, 40)

\* Its routines use registers of the program, and put them back.
RegsSeen ==
    IF Booting THEN Zeros(0 .. 7)
    ELSE [regs EXCEPT ![0] = IF AtLines(16, 28) \/ AtLines(33, 36) THEN imem_high[0] ELSE @,
                      ![1] = IF AtLines(17, 29) THEN imem_high[1] ELSE @]

-----------------------------------------------------------------------------
(* The history.  Registers 0 and 1, SP and FL are kept in it while they are  *)
(* not what is promised; the others always.                                  *)

PromiseInit ==
    /\ Init
    /\ doc = [kept |-> <<>>, privileged |-> TRUE, int_en |-> FALSE,
              cause |-> 0, back |-> 0, saved |-> [privileged |-> TRUE, flags |-> 0]]

Held(name) == CASE name = "R0" -> RegsSeen[0] [] name = "R1" -> RegsSeen[1]
                    [] name = "SP" -> ext[3]      [] name = "FL" -> ext[5]
Promise(name) == IF name \in DOMAIN doc.kept THEN doc.kept[name] ELSE Held(name)
Keep(names) == [name \in names |-> Promise(name)]

\* The wires of an edge, read once: the lines of the decoder, whether the cycle
\* ends and whether it missed the tlb, and whether interrupt id is raised.
Wires == [lines |-> controls, over |-> advance, miss |-> tlb_miss, raised |-> int, id |-> int_id]

\* An instruction of a program is done, a store when the driver has its word.
Done(w) == /\ mode # "iu" /\ cur_cycle = 1 /\ ~w.miss
           /\ IF "mwr" \in w.lines THEN send_req ELSE w.over

Asks(w, bit) == "pxw" \in w.lines /\ Low(imm_ze, 5) = 31 /\ Bit(operand0, bit)
Sets(w, n)  == "pxw" \in w.lines /\ Low(imm_ze, 5) = n

Overwritten(w) ==
    {name \in DOMAIN doc.kept :
        CASE name = "R0" -> "rwr" \in w.lines /\ rf = 0
          [] name = "R1" -> "rwr" \in w.lines /\ rf = 1
          [] name = "SP" -> "xwr" \in w.lines /\ rf = 3
          [] name = "FL" -> ("xwr" \in w.lines /\ rf = 5) \/ "fwr" \in w.lines}

\* What an instruction makes of the registers that are kept.
KeptAfter(w) ==
    (CASE "psh" \in w.lines              -> "SP" :> (Promise("SP") - 1) % 65536
       [] "pop" \in w.lines              -> "SP" :> Low(Promise("SP") + 1, 16)
       [] "irt" \in w.lines              -> "FL" :> doc.saved.flags
       [] mode = "er" /\ Asks(w, 3)     -> "FL" :> Promise("FL")
       [] OTHER                           -> <<>>)
    @@ Restrict(doc.kept, DOMAIN doc.kept \ Overwritten(w))

\* Interrupt id is entered, to return to an address.
Entered(id, to, kept) ==
    [kept |-> kept, privileged |-> TRUE, int_en |-> FALSE, cause |-> id, back |-> to,
     saved |-> [privileged |-> doc.privileged, flags |-> Promise("FL")]]

\* INT below 128 needs a privilege, or is a violation of it.
Id(w) == IF ~doc.privileged /\ "int" \in w.lines /\ w.id < 128 THEN 2 ELSE w.id

DocAfter(w) ==
    CASE w.raised -> Entered(Id(w), instr_addr_p1, KeptAfter(w))
      [] ~w.raised /\ "irt" \in w.lines ->
            [doc EXCEPT !.kept = KeptAfter(w), !.privileged = doc.saved.privileged, !.int_en = TRUE]
      [] OTHER ->
            [doc EXCEPT !.kept = KeptAfter(w),
                        !.privileged = @ /\ ~Asks(w, 2),
                        !.int_en = ~Asks(w, 5) /\ (@ \/ Asks(w, 4)),
                        !.cause = IF Sets(w, 10) THEN operand0 ELSE @,
                        !.back  = IF Sets(w, 11) THEN operand0 ELSE @]

\* A miss has registers used by the microcode, and a page fault leaves it there.
DocEdge(w) ==
    doc' = CASE Done(w)            -> DocAfter(w)
             [] w.over /\ w.miss -> [doc EXCEPT !.kept = Keep(DOMAIN @ \union {"FL"})]
             [] mode = "iu" /\ cur_cycle = 1 /\ w.over /\ w.raised ->
                   Entered(w.id, ip["er"], Keep({"R0", "R1", "FL"} \union DOMAIN doc.kept))
             [] OTHER              -> doc
DocNext == \E w \in {Wires} : DocEdge(w)

PromiseNext == (Tick /\ DocNext) \/ (Stays /\ UNCHANGED doc)
PromiseSpec == PromiseInit /\ [][PromiseNext]_<<vars, doc>> /\ WF_vars(Tick)

-----------------------------------------------------------------------------
(* What a program sees.                                                      *)

\* The driver has the word of a store, which is over for the program.
Stored == mode # "iu" /\ cur_cycle = 1 /\ ~send_req /\ "mwr" \in controls

\* The registers that are not kept, and the others from the history.
Visible(name, machine) == IF name \in DOMAIN doc.kept THEN doc.kept[name] ELSE machine
ExtSeen == IF Booting THEN Zeros(2 .. 5) ELSE IF Stored THEN ExtIn ELSE ext

Execution == IF mode = "ei" THEN "ei" ELSE "er"
Promised == INSTANCE PagedProgram WITH
    started  <- ~Booting,
    handling <- mode = "ei",
    pc       <- IF Stored THEN instr_addr_next ELSE ip[Execution],
    ui       <- [h \in BOOLEAN |-> IF Stored /\ (h <=> mode = "ei") THEN 0 ELSE ui[IF h THEN "ei" ELSE "er"]],
    regs     <- [RegsSeen EXCEPT ![0] = Visible("R0", @), ![1] = Visible("R1", @)],
    ext      <- [ExtSeen EXCEPT ![3] = Visible("SP", @), ![5] = Visible("FL", @)],
    mem      <- MemoryView,
    table    <- px[1],
    tag      <- px[0],
    paging   <- paging_en,
    privileged <- doc.privileged,
    int_en   <- doc.int_en,
    cause    <- doc.cause,
    back     <- doc.back,
    saved    <- doc.saved,
    ports    <- IF Booting THEN Zeros(0 .. 4) ELSE ports

\* Whatever the tlb holds or misses, however long memory takes and wherever
\* microcode comes in between, a program runs as if its instructions were
\* carried out one by one through its page table.
ImplementsProgram == Promised!Spec

\* At the end of a program its registers are what the documents say: SP went
\* down by a push (ISA.txt:678-679), a page fault left the program's registers
\* alone (ISA.txt:919), and the handler that runs was told the interrupt that
\* there was and the instruction after it (ISA.txt:801, 867-869).
EndsAsDocumented ==
    Halted => /\ \A name \in DOMAIN doc.kept : doc.kept[name] = Held(name)
              /\ mode = "ei" => px[10] = doc.cause /\ px[11] = doc.back
=============================================================================
