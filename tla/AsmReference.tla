----------------------------- MODULE AsmReference -----------------------------
(***************************************************************************)
(* What the documentation of sasm says a file means (string_help.cpp,      *)
(* sasm.txt), defined over whole blocks instead of a cursor and stacks: a  *)
(* condition assembles the section of the first value that is not zero, a  *)
(* repetition assembles its section as often as it says, and nothing else  *)
(* happens to what is between.  Blocks end at the %end and %rpe of their   *)
(* own depth.                                                              *)
(***************************************************************************)
EXTENDS Assembler

\* The tokens at i .. e-1 are one operand.
RECURSIVE Closing(_, _, _)
Closing(toks, i, d) ==
    CASE Is(toks[i], "exe") /\ d = 1 -> i
      [] Is(toks[i], "exe") /\ d > 1 -> Closing(toks, i + 1, d - 1)
      [] Is(toks[i], "exs")          -> Closing(toks, i + 1, d + 1)
      [] OTHER                       -> Closing(toks, i + 1, d)

RECURSIVE OperandEnd(_, _)
OperandEnd(toks, i) ==
    CASE Is(toks[i], "exs")   -> Closing(toks, i, 0) + 1
      [] IsDir(toks[i], "tst") -> OperandEnd(toks, i + 1)
      [] OTHER                -> i + 1

RECURSIVE OperandsFrom(_, _, _)
OperandsFrom(toks, i, n) ==
    IF n = 0 THEN <<>>
    ELSE LET e == OperandEnd(toks, i)
         IN  <<SubSeq(toks, i, e - 1)>> \o OperandsFrom(toks, e, n - 1)

\* The statements of verified tokens: a head with its operands.
RECURSIVE Statements(_, _)
Statements(toks, i) ==
    IF i > Len(toks) THEN <<>>
    ELSE LET h   == toks[i]
             ops == IF h.type \in {"ins", "dir"}
                    THEN OperandsFrom(toks, i + 1, Len(PatternOf(h))) ELSE <<>>
         IN  <<[head |-> h, ops |-> ops]>>
                 \o Statements(toks, i + 1 + Len(FlattenSeq(ops)))

-----------------------------------------------------------------------------
(* Blocks.                                                                   *)

Opens(s)  == IsDir(s.head, "cif") \/ IsDir(s.head, "rps")
Closes(s) == IsDir(s.head, "cen") \/ IsDir(s.head, "rpe")

\* The blocks open before statement k, the directives that opened them.
RECURSIVE OpenBefore(_, _)
OpenBefore(P, k) ==
    IF k = 1 THEN <<>>
    ELSE LET o == OpenBefore(P, k - 1)
             s == P[k - 1]
         IN  CASE Opens(s)  -> Append(o, s.head.val)
               [] Closes(s) -> IF o = <<>> THEN o ELSE Front(o)
               [] OTHER     -> o

\* Every block ends with its own directive, inside the block it began in.
WellNested(P) ==
    /\ OpenBefore(P, Len(P) + 1) = <<>>
    /\ \A k \in 1 .. Len(P) :
          LET o == OpenBefore(P, k)
              Within(d) == o # <<>> /\ Last(o) = d
          IN  /\ IsDir(P[k].head, "rpe") => Within("rps")
              /\ P[k].head.type = "dir" /\ P[k].head.val \in {"cei", "cel", "cen"} => Within("cif")

Depth(P, k) == Len(OpenBefore(P, k))
BlockEnd(P, i) == CHOOSE k \in i + 1 .. Len(P) :
                      /\ Depth(P, k + 1) = Depth(P, i)
                      /\ \A m \in i + 1 .. k - 1 : Depth(P, m + 1) > Depth(P, i)

-----------------------------------------------------------------------------
(* Meaning.  The environment has what was assembled so far: the tokens, the  *)
(* labels, the place of every word and the names.                            *)

Constant(e, op) == ConstVal(op, 1, e.defines, e.variables)
Fault(e, v)     == [e EXCEPT !.ok = @ /\ ~v.err /\ ~v.fatal /\ ~(v.many /\ Warns("extravals"))]

\* An operand with its names replaced, of a statement at e.addr.
Replaced(e, t) ==
    CASE Is(t, "udf") -> Token("num", Constant(e, <<t>>).val, t.line)
      [] Is(t, "uvr") -> Token("num", Constant(e, <<t>>).val, t.line)
      [] Is(t, "ulb") -> [t EXCEPT !.val = Qualified(e.top, @)]
      [] Is(t, "slb") -> [t EXCEPT !.val = IF @ = "<" THEN Len(e.labels) - 1 ELSE Len(e.labels)]
      [] Is(t, "exo") /\ t.val = "$" -> Token("num", e.addr, t.line)
      [] OTHER -> t

Assembled(e, s) ==
    LET flat == FlattenSeq(s.ops)
        ops  == [k \in 1 .. Len(flat) |-> Replaced(e, flat[k])]
        bad  == \E k \in 1 .. Len(flat) :
                    \/ flat[k].type \in {"udf", "uvr"} /\ Constant(e, <<flat[k]>>).err
                    \/ Is(flat[k], "dir") /\ flat[k].val \in {"isd", "isa", "tof", "sam"}
        word == Is(s.head, "ins") \/ IsDir(s.head, "ddw")
    IN  [e EXCEPT !.out = @ \o <<s.head>> \o ops,
                  !.ok = @ /\ ~bad,
                  !.places = IF word THEN Append(@, [pos |-> e.pos, addr |-> e.addr,
                                                     head |-> s.head, ops |-> ops]) ELSE @,
                  !.pos = IF word THEN @ + 1 ELSE @,
                  !.addr = IF word THEN @ + 1 ELSE @]

Labelled(e, name, top) ==
    [e EXCEPT !.labels = Append(@, Nameval(name, e.addr)), !.top = top]

Label(e, t) ==
    LET n == Len(e.labels) IN
    CASE Is(t, "dlb") /\ IsNested(t.val)  -> Labelled(e, Qualified(e.top, t.val), e.top)
      [] Is(t, "dlb") /\ ~IsNested(t.val) -> Labelled(e, t.val, t.val)
      [] Is(t, "slb") /\ t.val = ","      -> Labelled(e, <<Anon(n)>>, <<Anon(n)>>)
      [] Is(t, "slb") /\ t.val = "."      -> Labelled(e, Append(e.top, Anon(n)), e.top)

\* %align and %adr put padding up to the address, %org only names it.
Moved(e, s) ==
    LET v  == Constant(e, s.ops[1])
        to == IF s.head.val = "alg" /\ v.val > 0
              THEN CHOOSE a \in e.addr .. e.addr + v.val : a % v.val = 0 /\ a < e.addr + v.val
              ELSE v.val
    IN  [Fault(e, v) EXCEPT
            !.out  = @ \o <<s.head, Token("num", v.val, s.head.line)>>,
            !.ok   = @ /\ CASE s.head.val = "alg" -> v.val > 0
                            [] s.head.val = "adr" -> to >= e.addr
                            [] OTHER -> TRUE,
            !.pos  = IF s.head.val = "org" THEN @ ELSE @ + (to - e.addr),
            !.addr = to]

Named(e, s) ==
    LET n == s.ops[1][1].val
        v == Constant(e, s.ops[2])
        Others(list) == SelectSeq(list, LAMBDA x : x.name # n)
    IN  IF s.head.val = "ass"
        THEN [Fault(e, v) EXCEPT !.variables = Append(Others(@), Nameval(n, v.val))]
        ELSE [Fault(e, v) EXCEPT !.ok = @ /\ ~Defined(e.defines, n),
                                 !.defines = Append(@, Nameval(n, v.val))]

Printing1(e, s) ==
    LET op == s.ops[1]
        v  == Constant(e, Tail(op))
        e1 == IF Is(op[1], "dir") /\ op[2].type \in {"num", "udf", "uvr", "exs"}
              THEN Fault(e, v) ELSE e
    IN  [e1 EXCEPT !.ok = @ /\ s.head.val # "err" /\ ~(s.head.val = "war" /\ Warns("custom"))]

Single(e, s) ==
    CASE s.head.type \in {"dlb", "slb"} -> Label(e, s.head)
      [] s.head.type \in {"mst", "men", "mus", "mpr"} -> [e EXCEPT !.out = Append(@, s.head)]
      [] Is(s.head, "ins") -> Assembled(e, s)
      [] Is(s.head, "dir") ->
            CASE s.head.val \in {"ddw", "cas", "wst", "tst"} -> Assembled(e, s)
              [] s.head.val \in {"adr", "org", "alg"} -> Moved(e, s)
              [] s.head.val \in {"ass", "def"} -> Named(e, s)
              [] s.head.val \in {"inf", "war", "err"} -> Printing1(e, s)
              [] s.head.val \in {"isd", "isa", "tof", "sam"} -> [e EXCEPT !.ok = FALSE]

\* Statements i to j of P, which hold only whole blocks.
RECURSIVE Meaning(_, _, _, _)
RECURSIVE MeaningIf(_, _, _, _)
RECURSIVE MeaningRepeat(_, _, _, _, _)
Meaning(P, i, j, e) ==
    IF i > j THEN e
    ELSE CASE IsDir(P[i].head, "cif") ->
                 Meaning(P, BlockEnd(P, i) + 1, j, MeaningIf(P, i, BlockEnd(P, i), e))
           [] IsDir(P[i].head, "rps") ->
                 LET v == Constant(e, P[i].ops[1])
                 IN  Meaning(P, BlockEnd(P, i) + 1, j,
                             MeaningRepeat(P, i + 1, BlockEnd(P, i) - 1, v.val, Fault(e, v)))
           [] OTHER -> Meaning(P, i + 1, j, Single(e, P[i]))

\* The section at i, of the condition that ends at j, or a later one.
MeaningIf(P, i, j, e) ==
    LET next == CHOOSE k \in i + 1 .. j :
                   /\ k = j \/ (Depth(P, k) = Depth(P, j) /\ P[k].head.type = "dir"
                                   /\ P[k].head.val \in {"cei", "cel"})
                   /\ \A m \in i + 1 .. k - 1 :
                         ~(Depth(P, m) = Depth(P, j) /\ P[m].head.type = "dir"
                                   /\ P[m].head.val \in {"cei", "cel"})
        v == Constant(e, P[i].ops[1])
    IN  CASE P[i].head.val = "cel" \/ v.val # 0 ->
                 Meaning(P, i + 1, next - 1, IF P[i].head.val = "cel" THEN e ELSE Fault(e, v))
          [] next = j -> Fault(e, v)
          [] OTHER    -> MeaningIf(P, next, j, Fault(e, v))

MeaningRepeat(P, i, j, n, e) ==
    IF n <= 0 THEN e ELSE MeaningRepeat(P, i, j, n - 1, Meaning(P, i, j, e))

\* Of a list of verified tokens, with the defines of the command line.
MeaningOf(toks, cmdl_defines) ==
    LET P == Statements(toks, 1)
    IN  Meaning(P, 1, Len(P),
                [out |-> <<>>, labels |-> <<>>, places |-> <<>>,
                 pos |-> 0, addr |-> 0, top |-> <<Anon(-1)>>,
                 defines |-> cmdl_defines, variables |-> <<>>, ok |-> TRUE])
-----------------------------------------------------------------------------
(* Properties.                                                               *)

\* What preprocess() makes of a file whose blocks nest is what the documentation
\* says its directives assemble: the same instructions, words and labels in the
\* same order, with the same values, and an error just for a file with a mistake.
ExpandsAsDocumented ==
    [][phase = "preprocess" /\ phase' # "preprocess" /\ WellNested(Statements(verified, 1)) =>
          LET m == MeaningOf(verified, job.defines)
          IN  IF phase' = "code_gen" THEN m.ok /\ tokens' = m.out /\ labels' = m.labels
                                     ELSE ~m.ok]_vars

RelativeWidth == [cal |-> 11, jmp |-> 11, jzz |-> 8]

\* The words of a place refer to the label that its operand names: a jump or
\* call goes to its address, a word and an immediate hold it.
Refers(p, word, known) ==
    LET op == p.ops[1]
        target == IF Is(op, "ulb") THEN Lookup(known, op.val) ELSE known[op.val + 1].value
    IN  CASE IsDir(p.head, "ddw") -> word = target
          [] p.head.val \in DOMAIN RelativeWidth ->
                 LET w == 2^(RelativeWidth[p.head.val])
                 IN  (p.addr + 1 + (word % w)) % w = target % w
          [] OTHER -> TRUE

\* The image holds every word at the place where the documentation puts it, and
\* references to labels meet them: code_gen() and preprocess() count the same
\* addresses over padding, alignment and repetitions.
ReferencesMeetLabels ==
    phase = "save" /\ output.state = "untouched" /\ WellNested(Statements(verified, 1)) =>
        LET m == MeaningOf(verified, job.defines)
        IN  /\ Len(result) = m.pos
            /\ gen_address = address
            /\ \A k \in 1 .. Len(m.places) :
                  LET p == m.places[k]
                  IN  p.ops # <<>> /\ p.ops[1].type \in {"ulb", "slb"} =>
                          Refers(p, result[p.pos + 1], m.labels)
=============================================================================
