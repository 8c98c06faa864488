---------------------------- MODULE AtomicMemory ----------------------------
(***************************************************************************)
(* What a client of the RAM module may rely on: one access at a time, a    *)
(* read answered with the last word written, a write visible from its      *)
(* answer on.  The chip stores an answered write a little later than it    *)
(* answers it, so a reset may forget that one write, and nothing else.     *)
(***************************************************************************)
CONSTANTS Addr, Word, Zero, NoReq, NoAnswer, Done

VARIABLES
  mem,    \* what reads return
  chip,   \* what a reset leaves
  ask,    \* the request on the client's wires, or NoReq
  answer  \* the answer in this cycle: a word read, Done, or NoAnswer

avars == <<mem, chip, ask, answer>>

Ask == [op : {"read"}, addr : Addr]
       \cup [op : {"write"}, addr : Addr, data : Word]

AInit ==
  /\ mem = [a \in Addr |-> Zero]
  /\ chip = mem
  /\ ask = NoReq
  /\ answer = NoAnswer

\* A request may follow an answer at once, but never overtakes a write that
\* has not reached the chip; a read may be answered in its first cycle
Issue ==
  /\ ask = NoReq \/ answer # NoAnswer
  /\ chip = mem
  /\ ask' \in Ask
  /\ \/ answer' = NoAnswer
     \/ ask'.op = "read" /\ answer' = mem[ask'.addr]
  /\ UNCHANGED <<mem, chip>>

AnswerRead ==
  /\ ask # NoReq /\ answer = NoAnswer
  /\ ask.op = "read"
  /\ answer' = mem[ask.addr]
  /\ UNCHANGED <<mem, chip, ask>>

AnswerWrite ==
  /\ ask # NoReq /\ answer = NoAnswer
  /\ ask.op = "write"
  /\ answer' = Done
  /\ mem' = [mem EXCEPT ![ask.addr] = ask.data]
  /\ ask' \in {ask, NoReq}
  /\ UNCHANGED chip

Release ==
  /\ answer # NoAnswer
  /\ answer' = NoAnswer /\ ask' = NoReq
  /\ UNCHANGED <<mem, chip>>

Land ==
  /\ chip # mem /\ answer = NoAnswer
  /\ chip' = mem
  /\ UNCHANGED <<mem, ask, answer>>

Forget ==
  /\ mem' = chip
  /\ ask' = NoReq /\ answer' = NoAnswer
  /\ UNCHANGED chip

ANext == Issue \/ AnswerRead \/ AnswerWrite \/ Release \/ Land \/ Forget

Answer == AnswerRead \/ AnswerWrite

\* Every request is answered and every answered write lands, unless a reset
\* comes first.  A client may repeat a read for ever, so Release is not fair.
ASpec == AInit /\ [][ANext]_avars /\ WF_avars(Answer) /\ WF_avars(Land)
=============================================================================
