------------------------------- MODULE CodeGen -------------------------------
(***************************************************************************)
(* code_gen() of sasm (process/code_gen.cpp): encodes the instructions     *)
(* left by preprocess(), with the values of labels.  It counts addresses   *)
(* anew, and labels are right only as long as the two counts agree.  A     *)
(* step is one iteration of the loop.  Words are numbers of 16 bits; one   *)
(* instruction of each format stands for those encoded like it.            *)
(***************************************************************************)
EXTENDS Expressions

VARIABLE gen_address    \* address in code_gen()

GenInit == gen_address = 0

Generating == phase = "code_gen" /\ tid <= Len(tokens)
Item       == tokens[tid]
ItemIs(d)  == Generating /\ IsDir(Item, d)
GenSame    == UNCHANGED <<phase, job, tokens, verified, labels>>
GenLeave   == UNCHANGED <<job, tokens, verified, tid, labels, result, gen_address>>

Put(words) == result' = result \o words /\ gen_address' = gen_address + Len(words)
Times(n, w) == [i \in 1 .. n |-> w]

-----------------------------------------------------------------------------
(* Words.                                                                    *)

DoesNotFit(v, bits) == v > 2^bits - 1 \/ v < -(2^(bits - 1))

NopWord == \h0006

\* Which operand get_value() is called for, none if it is a register.
IsReg(k) == Is(tokens[tid + k], "reg")
ImmediateOperand ==
    CASE Item.val \in {"add", "xwr", "crd"} -> IF IsReg(2) THEN 0 ELSE 2
      [] Item.val \in {"cal", "cwr", "mwr"} -> IF IsReg(1) THEN 0 ELSE 1
      [] Item.val \in {"jmp", "jzz", "int"} -> 1
      [] OTHER -> 0

\* The instruction with the value of its immediate, which came with the cursor
\* behind it, where the register of a write is.
Arity(n) == CASE n \in Bare -> 0
              [] n \in Singles \union Relative \union {"int"} -> 1
              [] OTHER -> 2
Written(v) ==
    LET n == IF Item.val = "jzz" THEN "j" ELSE Item.val
        Op(k) == CASE k = ImmediateOperand -> Imm(v.val)
                   [] ImmediateOperand = 0 \/ k < ImmediateOperand -> Reg(tokens[tid + k].val)
                   [] OTHER -> Reg(tokens[v.tid].val)
    IN  Ins(n, IF n = "j" THEN "zz" ELSE "none", [k \in 1 .. Arity(n) |-> Op(k)])

\* Where this step calls get_value(), or 0.
OperandPlace ==
    CASE Generating /\ Is(Item, "ins") /\ ImmediateOperand # 0 -> tid + ImmediateOperand
      [] ItemIs("ddw") \/ ItemIs("cas") -> tid + 1
      [] OTHER -> 0

\* Jumps and calls get the distance to a label.
OperandAt(i) == GetValue(tokens, i, labels,
                         IF Item.val \in {"cal", "jmp", "jzz"} THEN gen_address ELSE -1)
Gets(v) == v = OperandAt(OperandPlace) /\ ~v.fatal
GenReport(v, e) == is_error' = (is_error \/ e \/ v.err \/ (v.many /\ Warns("extravals")))

-----------------------------------------------------------------------------

GenSkip ==
    /\ Generating /\ Item.type \notin {"ins", "dir"}
    /\ tid' = tid + 1
    /\ GenSame /\ UNCHANGED <<is_error, result, gen_address>>

\* The address moves, the place in the output does not.
Org ==
    /\ ItemIs("org")
    /\ gen_address' = tokens[tid + 1].val
    /\ tid' = tid + 2
    /\ GenSame /\ UNCHANGED <<is_error, result>>

PadTo ==
    /\ ItemIs("adr")
    /\ LET n == tokens[tid + 1].val - gen_address
       IN  Put(Times(n, 0))
    /\ tid' = tid + 2
    /\ GenSame /\ UNCHANGED is_error

PadAlign ==
    /\ ItemIs("alg")
    /\ LET to == CHOOSE x \in gen_address .. gen_address + tokens[tid + 1].val - 1 :
                     x % tokens[tid + 1].val = 0
       IN  Put(Times(to - gen_address, NopWord))
    /\ tid' = tid + 1
    /\ GenSame /\ UNCHANGED is_error

\* What holds is skipped together with everything else of that line number.
AssertHolds ==
    /\ ItemIs("cas")
    /\ \E v \in {OperandAt(OperandPlace)} :
          /\ Gets(v) /\ v.val # 0
          /\ GenReport(v, FALSE)
          /\ tid' = RestOfLine(tokens, v.tid, tokens[tid + 1].line)
    /\ GenSame /\ UNCHANGED <<result, gen_address>>

\* After any message but a plain string the switch is left, and what follows
\* is encoded as an instruction: more errors or the end of the program.
AssertFails ==
    /\ ItemIs("cas")
    /\ \E v \in {OperandAt(OperandPlace)} :
          /\ Gets(v) /\ v.val = 0
          /\ is_error' = TRUE
          /\ IF v.tid <= Len(tokens) /\ Is(tokens[v.tid], "str")
             THEN tid' = v.tid + 1 /\ GenSame
             ELSE /\ phase' \in {"failed", "fatal"}
                  /\ UNCHANGED <<job, tokens, verified, tid, labels>>
    /\ UNCHANGED <<result, gen_address>>

DefineWord ==
    /\ ItemIs("ddw")
    /\ \E v \in {OperandAt(OperandPlace)} :
          /\ Gets(v)
          /\ GenReport(v, v.val > \hFFFF /\ Warns("immnofit"))
          /\ Put(<<Low(v.val, 16)>>)
          /\ tid' = v.tid
    /\ GenSame

\* What no other directive is for, and values that cannot be computed.
GenFatal ==
    /\ Generating
    /\ \/ Is(Item, "dir") /\ Item.val \notin {"org", "adr", "alg", "cas", "ddw"}
       \/ OperandPlace # 0 /\ OperandAt(OperandPlace).fatal
    /\ phase' = "fatal"
    /\ UNCHANGED is_error /\ GenLeave

Instruction ==
    /\ Generating /\ Is(Item, "ins")
    /\ IF ImmediateOperand = 0
       THEN /\ Put(<<Encoded(Written([tid |-> tid]))>>) /\ tid' = tid + 1
            /\ UNCHANGED is_error
       ELSE \E v \in {OperandAt(OperandPlace)} :
               /\ Gets(v)
               /\ GenReport(v, DoesNotFit(v.val, ImmediateBits(Written(v))) /\ Warns("immnofit"))
               /\ Put(<<Encoded(Written(v))>>) /\ tid' = v.tid
    /\ GenSame

\* A fault of CodeGenEnd: errors of this phase do not stop the program
CodeGenEndAnyway ==
    /\ phase = "code_gen" /\ tid > Len(tokens)
    /\ phase' = IF result = <<>> THEN "nothing" ELSE "save"
    /\ UNCHANGED is_error /\ GenLeave

CodeGenEnd ==
    /\ phase = "code_gen" /\ tid > Len(tokens)
    /\ phase' = CASE is_error -> "failed"
                  [] ~is_error /\ result = <<>> -> "nothing"
                  [] OTHER -> "save"
    /\ UNCHANGED is_error /\ GenLeave

GenNext ==
    \/ GenSkip \/ Org \/ PadTo \/ PadAlign \/ AssertHolds \/ AssertFails
    \/ DefineWord \/ GenFatal \/ Instruction \/ CodeGenEnd
=============================================================================
