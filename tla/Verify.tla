-------------------------------- MODULE Verify --------------------------------
(***************************************************************************)
(* verify() of sasm (process/verify.cpp): copies the tokens of every line  *)
(* that has the operands its instruction or directive wants, and reports   *)
(* the others.  A step takes one operand or one token of an expression;    *)
(* verify_expression() calls itself for an embedded expression, which is   *)
(* the count "depth".  It looks for the end of an expression without a     *)
(* bound and relies on the tokeniser for there being one.                  *)
(***************************************************************************)
EXTENDS AsmTokens

VARIABLES
    head,       \* the statement that is being read, NoToken between lines
    nth,        \* its next operand
    depth,      \* verify_expression() calls that have not returned
    constant_expression

verVars == <<head, nth, depth, constant_expression>>

NoToken == Token("none", 0, 0)

VerInit == head = NoToken /\ nth = 0 /\ depth = 0 /\ constant_expression = FALSE

Verifying == phase = "verify" /\ tid <= Len(tokens)
Here      == tokens[tid]
Letter    == PatternOf(head)[nth]
InLine    == Verifying /\ head = NoToken
InOperand == phase = "verify" /\ head # NoToken /\ depth = 0
InExpr    == Verifying /\ depth > 0

\* The first end of an expression from i on; the code has no bound for it.
FirstEnd(i) == CHOOSE e \in i .. Len(tokens) :
                   Is(tokens[e], "exe") /\ \A k \in i .. e - 1 : ~Is(tokens[k], "exe")

Keep == UNCHANGED <<phase, job, tokens, labels, result>>

Copy(n) == verified' = verified \o SubSeq(tokens, tid, tid + n - 1)

\* ADVANCE_TO_NEXT_LINE from i on, and goto next_line.
LeaveLine(i, l) == tid' = RestOfLine(tokens, i, l) /\ head' = NoToken
                      /\ UNCHANGED <<nth, depth, constant_expression>>

-----------------------------------------------------------------------------
(* The start of a line.                                                      *)

\* What is behind a label on its line is dropped.
CopyAndLeave ==
    /\ InLine /\ Here.type \in {"mst", "men", "mus", "mpr", "dlb"}
    /\ Copy(1) /\ LeaveLine(tid + 1, Here.line)
    /\ Keep /\ UNCHANGED is_error

AnonymousLabel ==
    /\ InLine /\ Is(Here, "slb") /\ Here.val \in {",", "."}
    /\ Copy(1) /\ tid' = tid + 1
    /\ Keep /\ UNCHANGED <<is_error, verVars>>

\* A fault of RefuseLine: it does not move on
RefuseLineStays ==
    /\ InLine
    /\ \/ Is(Here, "slb") /\ Here.val \notin {",", "."}
       \/ Here.type \notin {"mst", "men", "mus", "mpr", "dlb", "slb", "dir", "ins"}
    /\ is_error' = TRUE
    /\ Keep /\ UNCHANGED <<tid, verified, verVars>>

RefuseLine ==
    /\ InLine
    /\ \/ Is(Here, "slb") /\ Here.val \notin {",", "."} /\ tid' = tid + 1
       \/ /\ Here.type \notin {"mst", "men", "mus", "mpr", "dlb", "slb", "dir", "ins"}
          /\ tid' = RestOfLine(tokens, tid, Here.line)
    /\ is_error' = TRUE
    /\ Keep /\ UNCHANGED <<verified, verVars>>

Statement ==
    /\ InLine /\ Here.type \in {"dir", "ins"}
    /\ Copy(1) /\ tid' = tid + 1
    /\ head' = Here /\ nth' = 1
    /\ Keep /\ UNCHANGED <<is_error, depth, constant_expression>>

-----------------------------------------------------------------------------
(* Operands.                                                                 *)

Missing == IF tid > Len(tokens) THEN TRUE ELSE Here.line # head.line

Reference == Is(Here, "ulb") \/ (Is(Here, "slb") /\ Here.val \in {"<", ">"})
Value     == Here.type \in {"num", "udf", "uvr"}
NewName(t) == Is(Here, t) \/ (Is(Here, "ulb") /\ ~HasDot(Here.val))

\* The operand is this one token.
Fits(l) ==
    CASE l = "r"   -> Is(Here, "reg")
      [] l = "x"   -> Is(Here, "ext")
      [] l = "i"   -> Value
      [] l = "v"   -> Value \/ Reference
      [] l = "o"   -> Value \/ Reference \/ Is(Here, "reg")
      [] l = "a"   -> Value \/ Is(Here, "reg")
      [] l = "s"   -> Is(Here, "str")
      [] l = "f"   -> NewName("udf")
      [] l = "q"   -> NewName("uvr")
      [] l = "d"   -> Is(Here, "udf")
      [] l = "u"   -> Is(Here, "uvr")
      [] l = "any" -> ~Is(Here, "exs")

TakesExpression(l) == l \in {"i", "a", "v", "o", "any"} /\ Is(Here, "exs")

Operand ==
    /\ InOperand /\ nth <= Len(PatternOf(head)) /\ ~Missing /\ Fits(Letter)
    /\ LET ui == Letter = "x" /\ head.val = "xrd" /\ Here.val = ExternalOf("UI") IN
       /\ is_error' = (is_error \/ ui)
       /\ verified' = CASE ui -> verified
                        [] Letter \in {"f", "q"} -> Append(verified, [Here EXCEPT !.type = "ulb"])
                        [] OTHER -> Append(verified, Here)
    /\ tid' = tid + 1 /\ nth' = nth + 1
    /\ Keep /\ UNCHANGED <<head, depth, constant_expression>>

OperandExpression ==
    /\ InOperand /\ nth <= Len(PatternOf(head)) /\ ~Missing /\ TakesExpression(Letter)
    /\ Copy(1) /\ tid' = tid + 1
    /\ depth' = 1 /\ constant_expression' = (Letter \in {"i", "a"})
    /\ Keep /\ UNCHANGED <<is_error, head, nth>>

\* The argument may be any token, of the next line too.
StringArgument ==
    /\ InOperand /\ nth <= Len(PatternOf(head)) /\ ~Missing
    /\ Letter = "s" /\ IsDir(Here, "tst")
    /\ IF tid = Len(tokens)
       THEN is_error' = TRUE /\ tid' = tid + 1 /\ nth' = nth + 1
            /\ UNCHANGED <<verified, depth, constant_expression>>
       ELSE /\ Copy(2) /\ tid' = tid + 2
            /\ IF Is(tokens[tid + 1], "exs")
               THEN depth' = 1 /\ constant_expression' = TRUE /\ UNCHANGED nth
               ELSE nth' = nth + 1 /\ UNCHANGED <<depth, constant_expression>>
            /\ UNCHANGED is_error
    /\ Keep /\ UNCHANGED head

RefuseOperand ==
    /\ InOperand /\ nth <= Len(PatternOf(head))
    /\ \/ Missing
       \/ ~Missing /\ ~Fits(Letter) /\ ~TakesExpression(Letter)
             /\ ~(Letter = "s" /\ IsDir(Here, "tst"))
    /\ is_error' = TRUE
    /\ LeaveLine(tid, head.line)
    /\ Keep /\ UNCHANGED verified

\* What is left of the line is dropped with a warning.
StatementEnd ==
    /\ InOperand /\ nth > Len(PatternOf(head))
    /\ is_error' = (is_error \/ (~Missing /\ Warns("extradata")))
    /\ LeaveLine(tid, head.line)
    /\ Keep /\ UNCHANGED verified

-----------------------------------------------------------------------------
(* verify_expression().                                                      *)

\* How the calls of a failing or finished expression return: strings and
\* "any" do not look at the result, and drop the rest of the line.
Return(ok, i) ==
    /\ depth' = 0
    /\ IF ok /\ Letter \notin {"s", "any"}
       THEN tid' = i /\ nth' = nth + 1 /\ UNCHANGED <<head, constant_expression>>
       ELSE /\ tid' = RestOfLine(tokens, i, head.line)
            /\ IF Letter \in {"s", "any"} THEN nth' = nth + 1 /\ UNCHANGED head
                                           ELSE head' = NoToken /\ UNCHANGED nth
            /\ UNCHANGED constant_expression

\* An error with n more tokens copied, found at i.
Fail(n, i) ==
    /\ is_error' = TRUE
    /\ Copy(n)
    /\ Return(FALSE, FirstEnd(i) + 1)
    /\ Keep

ExprToken ==
    /\ InExpr
    /\ \/ Value \/ Is(Here, "mpr")
       \/ Is(Here, "exo") /\ ~(Here.val = "$" /\ constant_expression)
       \/ ~constant_expression /\ Reference
    /\ Copy(1) /\ tid' = tid + 1
    /\ Keep /\ UNCHANGED <<is_error, verVars>>

ExprOpen ==
    /\ InExpr /\ Is(Here, "exs")
    /\ Copy(1) /\ tid' = tid + 1 /\ depth' = depth + 1
    /\ Keep /\ UNCHANGED <<is_error, head, nth, constant_expression>>

ExprClose ==
    /\ InExpr /\ Is(Here, "exe")
    /\ Copy(1)
    /\ IF depth > 1
       THEN tid' = tid + 1 /\ depth' = depth - 1 /\ UNCHANGED <<head, nth, constant_expression>>
       ELSE Return(TRUE, tid + 1)
    /\ Keep /\ UNCHANGED is_error

\* The use of a macro is passed over.  No special label comes here: in an
\* expression a dot is an operator.
ExprSkip ==
    /\ InExpr /\ Is(Here, "mus")
    /\ tid' = tid + 1
    /\ Keep /\ UNCHANGED <<verified, is_error, verVars>>

\* What verify_expression() has no case for.
ExprInvalid ==
    /\ InExpr
    /\ \/ Here.type \in {"reg", "str", "ins", "ext", "mst", "men", "dlb", "prl", "prr"}
       \/ constant_expression /\ Here.type \in {"ulb", "slb"}
       \/ constant_expression /\ Is(Here, "exo") /\ Here.val = "$"
    /\ Fail(0, tid)

\* The end of the argument that starts at i: one token, or an expression with
\* what is embedded in it.
Balanced(i, e) == Cardinality({k \in i .. e : Is(tokens[k], "exs")})
                    = Cardinality({k \in i .. e : Is(tokens[k], "exe")})
ArgEnd(i) == IF ~Is(tokens[i], "exs") THEN i
             ELSE CHOOSE e \in i .. Len(tokens) :
                      Balanced(i, e) /\ \A k \in i .. e - 1 : ~Balanced(i, k)

\* A directive with the arguments up to e.
TakeDirective(e) == /\ Copy(e - tid + 1) /\ tid' = e + 1
                    /\ Keep /\ UNCHANGED <<is_error, verVars>>

ExprDirective ==
    /\ InExpr /\ Is(Here, "dir")
    /\ LET first == tid + 1
           Ends(i) == Is(tokens[i], "exe")
       IN  CASE Here.val = "tof" ->
                    IF Ends(first) THEN Fail(1, first) ELSE TakeDirective(ArgEnd(first))
             [] Here.val = "sam" ->
                    IF Ends(first) THEN Fail(1, first)
                    ELSE LET second == ArgEnd(first) + 1
                         IN  IF Ends(second) THEN Fail(second - tid, second)
                                             ELSE TakeDirective(ArgEnd(second))
             [] Here.val \in {"isd", "isa"} ->
                    IF Is(tokens[first], IF Here.val = "isd" THEN "udf" ELSE "uvr")
                    THEN TakeDirective(first) ELSE Fail(0, first)
             [] OTHER -> Fail(0, tid)

-----------------------------------------------------------------------------

\* main() clears the tokens, which preprocess() fills again.
VerifyEnd ==
    /\ phase = "verify" /\ head = NoToken /\ tid > Len(tokens)
    /\ phase' = IF is_error THEN "failed" ELSE "preprocess"
    /\ tokens' = IF is_error THEN tokens ELSE <<>>
    /\ tid' = 1
    /\ UNCHANGED <<job, verified, labels, result, is_error, verVars>>

VerNext ==
    \/ CopyAndLeave \/ AnonymousLabel \/ RefuseLine \/ Statement
    \/ Operand \/ OperandExpression \/ StringArgument \/ RefuseOperand \/ StatementEnd
    \/ ExprToken \/ ExprOpen \/ ExprClose \/ ExprSkip \/ ExprInvalid \/ ExprDirective
    \/ VerifyEnd
=============================================================================
