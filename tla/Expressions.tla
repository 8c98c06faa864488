----------------------------- MODULE Expressions -----------------------------
(***************************************************************************)
(* The postfix expressions of sasm: evaluate_const_expr() and              *)
(* evaluate_expr() (process/expressions.cpp), get_const_val()              *)
(* (preprocess.cpp) and get_value() (code_gen.cpp).  Each returns the      *)
(* cursor behind what it read, the value, whether it reported an error,    *)
(* whether it left more than one value behind, and whether it ended the    *)
(* program: by internal_error() or by a division by zero.                  *)
(***************************************************************************)
EXTENDS AsmTokens, Encoding

Nameval(n, v) == [name |-> n, value |-> v]

\* The first entry of that name, as the loops over variables, defines and
\* labels find it.
Defined(list, n) == \E i \in 1 .. Len(list) : list[i].name = n
Lookup(list, n)  == list[CHOOSE i \in 1 .. Len(list) :
                             list[i].name = n /\ \A k \in 1 .. i - 1 : list[k].name # n].value

-----------------------------------------------------------------------------
(* Operators.  Constant expressions take their operands from the stack of    *)
(* int as uint16_t, the others as int; the results are int.                  *)

Last16 == [x \in Int |-> x % 65536]
AsInt  == [x \in Int |-> x]
Bool(b)   == IF b THEN 1 ELSE 0

\* Division of C, towards zero.
Magnitude(x)   == IF x < 0 THEN -x ELSE x
Quotient(a, b) == LET q == Magnitude(a) \div Magnitude(b)
                  IN  IF (a < 0) = (b < 0) THEN q ELSE -q
Modulo(a, b)   == a - b * Quotient(a, b)

Unary  == {"~", "?", "!"}
Binary == {"+", "-", "*", "/", "%", "&", "|", "^", "=", "<", ">", ","}

Apply1(op, a) == CASE op = "~" -> -a - 1
                   [] op = "?" -> Bool(a # 0)
                   [] op = "!" -> Bool(a = 0)

Apply2(op, a, b) ==
    CASE op = "+" -> a + b
      [] op = "-" -> a - b
      [] op = "*" -> a * b
      [] op = "/" -> Quotient(a, b)
      [] op = "%" -> Modulo(a, b)
      [] op = "&" -> BitAnd(a, b)
      [] op = "|" -> BitOr(a, b)
      [] op = "^" -> BitXor(a, b)
      [] op = "=" -> Bool(a = b)
      [] op = "<" -> IF b >= 16 THEN 0 ELSE a * 2^b
      [] op = ">" -> IF b >= 16 THEN 0 ELSE a \div 2^b

\* The evaluator's locals.
Eval(t, s, e, f) == [tid |-> t, stack |-> s, err |-> e, fatal |-> f]
Evaluators       == [tid : Nat, stack : Seq(Int), err : BOOLEAN, fatal : BOOLEAN]

\* One operator; with too few operands it works on zeros, except "." and "#".
\* narrow is the conversion of the operands, which a shift to the left goes
\* through once more.
Operate(op, s, narrow) ==
    LET n    == Len(s.stack)
        Arg(k) == narrow[s.stack[n - k]]
        Rest(k) == SubSeq(s.stack, 1, n - k)
        Pushed(st, v, e) == Eval(s.tid + 1, Append(st, v), s.err \/ e, s.fatal)
    IN CASE op \in Unary ->
              IF n < 1 THEN Pushed(s.stack, Apply1(op, 0), TRUE)
                       ELSE Pushed(Rest(1), Apply1(op, Arg(0)), FALSE)
         [] op \in Binary ->
              LET few == n < 2
                  a   == IF few THEN 0 ELSE Arg(1)
                  b   == IF few THEN 0 ELSE Arg(0)
                  st  == IF few THEN s.stack ELSE Rest(2)
              IN  CASE op \in {"/", "%"} /\ b = 0 -> [s EXCEPT !.fatal = TRUE]
                    [] op = "," -> Pushed(Append(st, b), a, few)
                    [] op = "<" -> Pushed(st, narrow[Apply2(op, a, b)], few)
                    [] OTHER    -> Pushed(st, Apply2(op, a, b), few)
         [] op = "." -> IF n < 1 THEN [s EXCEPT !.tid = @ + 1, !.err = TRUE]
                                 ELSE Pushed(s.stack, s.stack[n], FALSE)
         [] op = "#" -> IF n < 1 THEN [s EXCEPT !.tid = @ + 1, !.err = TRUE]
                                 ELSE Eval(s.tid + 1, Rest(1), s.err, s.fatal)
         [] OTHER    -> [s EXCEPT !.fatal = TRUE]

-----------------------------------------------------------------------------
(* The two evaluators.                                                       *)

\* static_cast<int>(token.type)
TypeNumber(t) == CHOOSE i \in 0 .. 19 : t =
    <<"num", "reg", "dir", "str", "ins", "ext", "mst", "men", "mpr", "mus", "exs", "exe",
      "exo", "dlb", "ulb", "udf", "uvr", "prl", "prr", "slb">>[i + 1]

\* val of tokens of one type; names count as different strings however alike.
SameToken(t, u) ==
    t.type = u.type /\ t.val = u.val
      /\ t.type \notin {"str", "mpr", "mus", "dlb", "ulb", "udf", "uvr"}

\* One token of a constant expression.
ConstStep(toks, defines, variables, s) ==
    LET t == toks[s.tid]
        Push(n, v, e) == Eval(s.tid + n, Append(s.stack, v), s.err \/ e, s.fatal)
        Named(list) == IF Defined(list, t.val) THEN Push(1, Lookup(list, t.val), FALSE)
                                               ELSE Push(1, 0, TRUE)
    IN CASE Is(t, "num")     -> Push(1, t.val, FALSE)
         [] Is(t, "udf")     -> Named(defines)
         [] Is(t, "uvr")     -> Named(variables)
         [] Is(t, "exo")     -> Operate(t.val, s, Last16)
         [] IsDir(t, "tof")  -> Push(2, TypeNumber(toks[s.tid + 1].type), FALSE)
         [] IsDir(t, "sam")  -> Push(3, Bool(SameToken(toks[s.tid + 1], toks[s.tid + 2])), FALSE)
         [] IsDir(t, "isd")  -> Push(2, Bool(Defined(defines, toks[s.tid + 1].val)), FALSE)
         [] IsDir(t, "isa")  -> Push(2, Bool(Defined(variables, toks[s.tid + 1].val)), FALSE)
         [] OTHER            -> [s EXCEPT !.fatal = TRUE]

\* One token of an expression of code_gen().
ExprStep(toks, known, addr, s) ==
    LET t == toks[s.tid]
        Push(v, e) == Eval(s.tid + 1, Append(s.stack, v), s.err \/ e, s.fatal)
    IN CASE Is(t, "num") -> Push(t.val, FALSE)
         [] Is(t, "ulb") -> IF Defined(known, t.val)
                            THEN Push(RelativeTo(addr, Lookup(known, t.val)), FALSE)
                            ELSE Push(0, TRUE)
         [] Is(t, "exo") -> Operate(t.val, s, AsInt)
         [] OTHER        -> [s EXCEPT !.fatal = TRUE]

Result(t, v, e, m, f) == [tid |-> t, val |-> v, err |-> e, many |-> m, fatal |-> f]
Plainly(t, v)         == Result(t, v, FALSE, FALSE, FALSE)

\* The loop from the token behind the opening bracket, and what is returned.
Evaluate(toks, at, step) ==
    LET Over(s) == s.fatal \/ s.tid > Len(toks) \/ Is(toks[s.tid], "exe")
        Run[s \in Evaluators] == IF Over(s) THEN s ELSE Run[step[s]]
        s == Run[Eval(at + 1, <<>>, FALSE, FALSE)]
        k == Len(s.stack)
    IN IF k = 0 THEN Result(s.tid + 1, -1, TRUE, FALSE, s.fatal)
                ELSE Result(s.tid + 1, s.stack[k], s.err, k > 1, s.fatal)

-----------------------------------------------------------------------------
(* Values.                                                                   *)

\* get_const_val()
ConstVal(toks, at, defines, variables) ==
    LET t == toks[at]
        Named(list) == IF Defined(list, t.val) THEN Plainly(at + 1, Lookup(list, t.val))
                       ELSE Result(at + 1, 0, TRUE, FALSE, FALSE)
    IN CASE Is(t, "num") -> Plainly(at + 1, t.val)
         [] Is(t, "uvr") -> Named(variables)
         [] Is(t, "udf") -> Named(defines)
         [] Is(t, "exs") -> Evaluate(toks, at,
                                     [s \in Evaluators |-> ConstStep(toks, defines, variables, s)])
         [] OTHER        -> Result(at, 0, FALSE, FALSE, TRUE)

\* get_value(); the value of a special label is its place in the list.  One
\* that is not there is reported and not moved over.
GetValue(toks, at, known, addr) ==
    LET t == toks[at]
        Missing == Result(at + 1, 0, TRUE, FALSE, FALSE)
    IN CASE Is(t, "num") -> Plainly(at + 1, t.val)
         [] Is(t, "ulb") -> IF Defined(known, t.val)
                            THEN Plainly(at + 1, RelativeTo(addr, Lookup(known, t.val)))
                            ELSE Missing
         [] Is(t, "slb") -> IF t.val \in {-1, Len(known)} THEN [Missing EXCEPT !.tid = at]
                            ELSE Plainly(at + 1, RelativeTo(addr, known[t.val + 1].value))
         [] Is(t, "exs") -> Evaluate(toks, at, [s \in Evaluators |-> ExprStep(toks, known, addr, s)])
         [] OTHER        -> Result(at, 0, FALSE, FALSE, TRUE)
=============================================================================
