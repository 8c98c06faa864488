---------------------------- MODULE WrittenProgram ----------------------------
(***************************************************************************)
(* What an assembly program does for whoever wrote it: its instructions    *)
(* have names, operands and labels instead of bits and distances, and      *)
(* there are no flags: a condition is decided by the numbers compared      *)
(* before it, or by the result before it, and left open where that says    *)
(* nothing.  Of immediates without a prefix, those of jumps and calls have *)
(* a sign and the others do not; a prefix gives them 8 more bits.          *)
(***************************************************************************)
EXTENDS Encoding

CONSTANT Random

VARIABLES program, regs, ip, sp, lc, ar, prefix, mem, halt,
          place, answer,    \* where on the disk, and what the catalyst was asked last
          shown     \* the last result, and then the numbers compared, if any

portVars    == <<place, answer>>
writtenVars == <<program, regs, ip, sp, lc, ar, prefix, mem, halt, portVars, shown>>

NoPrefix == -1
Wrap(v)  == v % 65536
I        == program[ip + 1]
Is(ns)   == ~halt /\ ip < Len(program) /\ I.name \in ns
Dest     == I.ops[1].val

\* The value of an operand.
Value(k) ==
    LET o == I.ops[k]
    IN CASE o.kind = "reg"   -> regs[o.val]
         [] o.kind = "label" -> o.val
         [] o.kind = "imm" /\ prefix = NoPrefix -> o.val % 256
         [] o.kind = "imm" /\ prefix # NoPrefix -> Wrap((prefix * 256) + (o.val % 256))

\* Where a jump or call goes to: the label it names, or so far from what follows.
Target ==
    LET o == I.ops[Len(I.ops)]
    IN CASE o.kind = "label" -> o.val
         [] o.kind = "reg"   -> regs[o.val]
         [] o.kind = "imm"   -> Wrap(ip + 1 + (IF prefix = NoPrefix THEN o.val ELSE Value(Len(I.ops))))

\* A word that is not there is 0.
Word(a)     == IF a \in DOMAIN mem THEN mem[a] ELSE 0
Stores(a, v) == mem' = [x \in DOMAIN mem \union {a} |-> IF x = a THEN v ELSE mem[x]]
Sets(v)     == regs' = [regs EXCEPT ![Dest] = v]
GoesTo(a)   == ip' = Wrap(a)
GoesOn      == GoesTo(ip + 1)
Uses        == prefix' = NoPrefix /\ UNCHANGED program
Otherwise   == Uses /\ UNCHANGED <<lc, ar, halt>>

-----------------------------------------------------------------------------
(* What is computed.                                                         *)

Bits(v) == {n \in 0 .. 15 : (v \div 2^n) % 2 = 1}
Number[s \in SUBSET (0 .. 15)] ==
    IF s = {} THEN 0 ELSE LET n == CHOOSE n \in s : TRUE IN 2^n + Number[s \ {n}]

Computed(n, a, b) ==
    CASE n = "add" -> Wrap(a + b)
      [] n \in {"sub", "cmp"} -> Wrap(a - b)
      [] n = "mlu" -> Wrap(Signed16(a) * Signed16(b))
      [] n \in {"and", "tst"} -> Number[Bits(a) \intersect Bits(b)]
      [] n = "ann" -> Number[Bits(a) \ Bits(b)]
      [] n = "orr" -> Number[Bits(a) \union Bits(b)]
      [] n = "xor" -> Number[(Bits(a) \union Bits(b)) \ (Bits(a) \intersect Bits(b))]
      [] n = "shl" -> Number[{k \in 0 .. 15 : k - b \in Bits(a)}]
      [] n = "shr" -> Number[{k \in 0 .. 15 : k + b \in Bits(a)}]

Binaries == {"add", "sub", "cmp", "mlu", "and", "tst", "ann", "orr", "xor", "shl", "shr"}

\* Whether a condition is decided by what was computed last, and how: of
\* comparisons, those of numbers with a sign.
SignedConditions == {"ge", "gz", "gg", "le", "lz", "ll"}
ResultConditions == {"zz", "ee", "nz", "ne", "ss", "ns"}
Decided(c) ==
    \/ c \in SignedConditions /\ Len(shown) = 3
    \/ c \in ResultConditions /\ Len(shown) # 0
True(c) ==
    LET a == Signed16(shown[2])
        b == Signed16(shown[3])
    IN CASE c \in {"ge", "gz"} -> a >= b
         [] c = "gg"           -> a > b
         [] c \in {"le", "lz"} -> a <= b
         [] c = "ll"           -> a < b
         [] c \in {"zz", "ee"} -> shown[1] = 0
         [] c \in {"nz", "ne"} -> shown[1] # 0
         [] c = "ss"           -> Signed16(shown[1]) < 0
         [] c = "ns"           -> Signed16(shown[1]) >= 0
Truths(c) == IF Decided(c) THEN {True(c)} ELSE BOOLEAN

-----------------------------------------------------------------------------
(* Instructions.                                                             *)

Compute ==
    /\ Is(Binaries)
    /\ LET a == regs[Dest]
           b == Value(2)
           v == Computed(I.name, a, b)
       IN  /\ IF I.name \in {"cmp", "tst"} THEN UNCHANGED regs ELSE Sets(v)
           /\ shown' = IF I.name \in {"cmp", "sub"} THEN <<v, a, b>> ELSE <<v>>
    /\ GoesOn /\ Otherwise /\ UNCHANGED <<sp, mem>>

Complement ==
    /\ Is({"not", "neg"})
    /\ LET v == IF I.name = "not" THEN Number[(0 .. 15) \ Bits(regs[Dest])] ELSE Wrap(-regs[Dest])
       IN  Sets(v) /\ shown' = <<v>>
    /\ GoesOn /\ Otherwise /\ UNCHANGED <<sp, mem>>

Move ==
    /\ Is({"mov"}) /\ Sets(Value(2))
    /\ GoesOn /\ Otherwise /\ UNCHANGED <<sp, mem, shown>>

Conditional ==
    /\ Is({"s", "m", "j"})
    /\ \E t \in Truths(I.cond) :
          /\ CASE I.name = "s" -> Sets(IF t THEN 1 ELSE 0)
               [] I.name = "m" -> IF t THEN Sets(Value(2)) ELSE UNCHANGED regs
               [] I.name = "j" -> UNCHANGED regs
          /\ IF I.name = "j" /\ t THEN GoesTo(Target) ELSE GoesOn
    /\ Otherwise /\ UNCHANGED <<sp, mem, shown>>

Jump == Is({"jmp"}) /\ GoesTo(Target) /\ Otherwise /\ UNCHANGED <<regs, sp, mem, shown>>

\* As often as lc says.
Loop ==
    /\ Is({"lop"}) /\ lc' = Wrap(lc - 1)
    /\ IF lc = 1 THEN GoesOn ELSE GoesTo(Target)
    /\ Uses /\ UNCHANGED <<regs, sp, ar, mem, halt, shown>>

Call ==
    /\ Is({"cal"})
    /\ sp' = Wrap(sp - 1) /\ Stores(sp', Wrap(ip + 1)) /\ GoesTo(Target)
    /\ Otherwise /\ UNCHANGED <<regs, shown>>

Return ==
    /\ Is({"ret"})
    /\ GoesTo(Word(sp)) /\ sp' = Wrap(sp + 1)
    /\ Otherwise /\ UNCHANGED <<regs, mem, shown>>

Push ==
    /\ Is({"psh"})
    /\ sp' = Wrap(sp - 1) /\ Stores(sp', regs[Dest])
    /\ GoesOn /\ Otherwise /\ UNCHANGED <<regs, shown>>

Pop ==
    /\ Is({"pop"})
    /\ Sets(Word(sp)) /\ sp' = Wrap(sp + 1)
    /\ GoesOn /\ Otherwise /\ UNCHANGED <<mem, shown>>

Load ==
    /\ Is({"mrd", "srd"})
    /\ Sets(Word(IF I.name = "srd" THEN Wrap(sp + Value(2)) ELSE Value(2)))
    /\ GoesOn /\ Otherwise /\ UNCHANGED <<sp, mem, shown>>

Store ==
    /\ Is({"mwr", "swr"})
    /\ Stores(IF I.name = "swr" THEN Wrap(sp + Value(1)) ELSE Value(1), regs[I.ops[2].val])
    /\ GoesOn /\ Otherwise /\ UNCHANGED <<regs, sp, shown>>

\* Auxiliary registers: ip, lc, ui, sp, fl, ar, of which ui cannot be read.  What
\* flags there are is not known, and after one writes them nothing is known of
\* the last result.
ReadAuxiliary ==
    /\ Is({"xrd"})
    /\ LET x == I.ops[2].val
           known == CASE x = 0 -> {Wrap(ip + 1)} [] x = 1 -> {lc} [] x = 3 -> {sp}
                      [] x = 4 -> 0 .. 31 [] x = 5 -> {ar}
                      [] OTHER -> {regs[Dest]}
       IN  \E v \in known : Sets(v)
    /\ GoesOn /\ Otherwise /\ UNCHANGED <<sp, mem, shown>>

WriteAuxiliary ==
    /\ Is({"xwr"})
    /\ LET v == Value(2)
           To(x, old) == IF Dest = x THEN v ELSE old
       IN  /\ GoesTo(To(0, ip + 1))
           /\ lc' = To(1, lc) /\ sp' = To(3, sp) /\ ar' = To(5, ar)
           /\ prefix' = To(2, NoPrefix)
           /\ shown' = IF Dest = 4 THEN <<>> ELSE shown
    /\ UNCHANGED <<program, regs, mem, halt>>

RandomNumber ==
    /\ Is({"rng"}) /\ \E r \in Random : Sets(r)
    /\ GoesOn /\ Otherwise /\ UNCHANGED <<sp, mem, shown>>

\* nop, prf, the instructions of extensions that are not there, and words that
\* are no instructions
Nothing ==
    /\ Is({"nop", "prf", "dvu", "dvs", "mls", "ddw"})
    /\ GoesOn /\ Otherwise /\ UNCHANGED <<regs, sp, mem, shown>>

Stop == Is({"hlt"}) /\ halt' = TRUE /\ Uses /\ UNCHANGED <<regs, ip, sp, lc, ar, mem, shown>>

\* Port 0 of the catalyst answers what it was asked last, port 15 is a word of
\* the disk, which is the file of the program: the word that is written on the
\* line, if it is one, and some word for an instruction.
Disk(a) == CASE a >= Len(program)             -> {0}
             [] a < Len(program) /\ program[a + 1].name = "ddw" ->
                    LET w == program[a + 1].ops[1].val IN {IF w \in Word16 THEN w ELSE 0}
             [] OTHER                         -> Word16
Answers(port) == CASE port = 0  -> {answer}
                   [] port = 14 -> {place}
                   [] port = 15 -> Disk(place)
                   [] OTHER     -> {0}

ReadPort ==
    /\ Is({"prd"}) /\ \E v \in Answers(Value(2)) : Sets(v)
    /\ GoesOn /\ Otherwise /\ UNCHANGED <<sp, mem, portVars, shown>>

\* Questions for the version, 1.1, and the pages of memory.
WritePort ==
    /\ Is({"pwr"})
    /\ LET v == regs[I.ops[2].val]
       IN  /\ place'  = IF Value(1) \in {14, 15} THEN v ELSE place
           /\ answer' = CASE Value(1) = 0 /\ v = 257 -> 257
                          [] Value(1) = 0 /\ v = 258 -> 32
                          [] OTHER                   -> answer
    /\ GoesOn /\ Otherwise /\ UNCHANGED <<regs, sp, mem, shown>>

Begin == /\ ip = 0 /\ sp = 0 /\ lc = 0 /\ ar = 0 /\ prefix = NoPrefix
         /\ halt = FALSE /\ place = 0 /\ answer = 0 /\ shown = <<>>

Steps ==
    \/ /\ \/ Compute \/ Complement \/ Move \/ Conditional \/ Jump \/ Loop \/ Call \/ Return
          \/ Push \/ Pop \/ Load \/ Store \/ ReadAuxiliary \/ WriteAuxiliary
          \/ RandomNumber \/ Nothing \/ Stop
       /\ UNCHANGED portVars
    \/ ReadPort \/ WritePort

Spec == Begin /\ [][Steps]_writtenVars
=============================================================================
