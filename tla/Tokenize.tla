------------------------------- MODULE Tokenize -------------------------------
(***************************************************************************)
(* tokenize() of sasm (process/tokenize.cpp): a loop over the characters   *)
(* of the file with one case per character.  A step is one iteration of    *)
(* the loop.  Strings and comments are modes with a loop body of their     *)
(* own; expressions and argument lists nest in each other and are kept on  *)
(* three stacks that have to agree, as .back() of one is taken after a     *)
(* look at the size of another.                                            *)
(***************************************************************************)
EXTENDS AsmTokens

VARIABLES
    off, line_num,        \* the next piece and its line
    line,                 \* where the string, comment or macro began
    in_string, in_comment, in_macro,
    in_expression,        \* operators are allowed here
    modes_stack,          \* the closing brackets expected, the innermost last
    expressions_started, arg_lists_started   \* the lines of the opening ones

nestVars  == <<in_expression, modes_stack, expressions_started, arg_lists_started>>
modeVars  == <<line, in_string, in_comment, in_macro>>
tokVars   == <<off, line_num, nestVars, modeVars>>
mainVars  == <<phase, job, tid, verified, labels, result>>

TokInit ==
    /\ off = 1 /\ line_num = 1 /\ line = 0
    /\ in_string = FALSE /\ in_comment = FALSE /\ in_macro = FALSE
    /\ in_expression = FALSE
    /\ modes_stack = <<>> /\ expressions_started = <<>> /\ arg_lists_started = <<>>

\* data[off + k]; what is behind the end is none of the pieces.
Ahead(k) == IF off + k <= Len(source) THEN source[off + k] ELSE "eof"
Cur      == source[off]
White    == {"blank", "nl", "eof"}

Reading == phase = "tokenize" /\ off <= Len(source)
Plain   == Reading /\ ~in_string /\ ~in_comment

\* Emits a token and moves on by n pieces; reports an error and moves on.
Take(n, t, v) ==
    /\ tokens' = Append(tokens, Token(t, v, line_num))
    /\ off' = off + n
    /\ UNCHANGED <<mainVars, is_error, line_num>>
Refuse(n) ==
    /\ is_error' = TRUE
    /\ off' = off + n
    /\ UNCHANGED <<mainVars, tokens, line_num>>
Skip(n) ==
    /\ off' = off + n
    /\ UNCHANGED <<mainVars, tokens, is_error, line_num>>
Stray    == Refuse(1) /\ UNCHANGED <<nestVars, modeVars>>
SameMode == UNCHANGED <<nestVars, modeVars>>

-----------------------------------------------------------------------------
(* Strings and comments.                                                     *)

\* The closing quote is looked for one ahead of the cursor, so that a quote
\* right behind the opening one is text, and a line end right before the
\* closing one is not counted.
StringEnd ==
    /\ Reading /\ in_string
    /\ Cur # "backslash" /\ Ahead(1) = "quote"
    /\ tokens' = Append(tokens, Token("str", "text", line))
    /\ off' = off + 2
    /\ in_string' = FALSE
    /\ UNCHANGED <<mainVars, is_error, line_num, nestVars, line, in_comment, in_macro>>

StringText ==
    /\ Reading /\ in_string
    /\ Cur = "backslash" \/ Ahead(1) # "quote"
    /\ line_num' = IF Cur = "nl" THEN line_num + 1 ELSE line_num
    /\ off' = off + 1
    /\ UNCHANGED <<mainVars, is_error, tokens>> /\ SameMode

CommentEnd ==
    /\ Reading /\ ~in_string /\ in_comment
    /\ Cur = "*" /\ Ahead(1) = "/"
    /\ in_comment' = FALSE
    /\ Skip(2) /\ UNCHANGED <<nestVars, line, in_string, in_macro>>

CommentText ==
    /\ Reading /\ ~in_string /\ in_comment
    /\ Cur # "*" \/ Ahead(1) # "/"
    /\ line_num' = IF Cur = "nl" THEN line_num + 1 ELSE line_num
    /\ off' = off + 1
    /\ UNCHANGED <<mainVars, is_error, tokens>> /\ SameMode

-----------------------------------------------------------------------------
(* Operators, blanks and comments' first characters.                         *)

Operator ==
    /\ Plain /\ Cur \in Operators
    /\ IF in_expression /\ Ahead(1) \in White \union {"}"}
       THEN Take(1, "exo", Cur)
       ELSE Refuse(1)
    /\ SameMode

\* Up to the end of the line.
LineEnd == CHOOSE e \in off .. Len(source) + 1 :
               /\ \A i \in off .. e - 1 : source[i] # "nl"
               /\ e > Len(source) \/ source[e] = "nl"

LineComment ==
    /\ Plain
    /\ Cur = ";" \/ (Cur = "/" /\ ~in_expression /\ Ahead(1) = "/")
    /\ Skip(LineEnd - off) /\ SameMode

\* The slash stays where it is: it is the first piece of the comment.
Slash ==
    /\ Plain /\ Cur = "/"
    /\ \/ in_expression /\ Take(1, "exo", "/") /\ SameMode
       \/ /\ ~in_expression /\ Ahead(1) = "*"
          /\ in_comment' = TRUE /\ line' = line_num
          /\ Skip(0) /\ UNCHANGED <<nestVars, in_string, in_macro>>
       \/ ~in_expression /\ Ahead(1) \notin {"*", "/"} /\ Stray

Quote ==
    /\ Plain /\ Cur = "quote"
    /\ in_string' = TRUE /\ line' = line_num
    /\ Skip(1) /\ UNCHANGED <<nestVars, in_comment, in_macro>>

Blank ==
    /\ Plain /\ Cur \in {"blank", "nl"}
    /\ line_num' = IF Cur = "nl" THEN line_num + 1 ELSE line_num
    /\ off' = off + 1
    /\ UNCHANGED <<mainVars, is_error, tokens>> /\ SameMode

-----------------------------------------------------------------------------
(* Brackets.                                                                 *)

OpenList ==
    /\ Plain /\ Cur = "("
    /\ tokens' = Append(tokens, Token("prl", 0, line_num))
    /\ is_error' = (is_error \/ tokens = <<>> \/ ~Is(Last(tokens), "mus"))
    /\ modes_stack' = Append(modes_stack, ")")
    /\ arg_lists_started' = Append(arg_lists_started, line_num)
    /\ in_expression' = FALSE
    /\ off' = off + 1
    /\ UNCHANGED <<mainVars, line_num, expressions_started, modeVars>>

\* in_expression of the stacks as they are after the bracket.
Inside(exprs, modes) == exprs # <<>> /\ Last(modes) = "}"

\* A fault of CloseList: the innermost bracket is closed whatever it is
CloseListAny ==
    /\ Plain /\ Cur = ")" /\ arg_lists_started # <<>>
    /\ tokens' = Append(tokens, Token("prr", 0, line_num))
    /\ arg_lists_started' = Front(arg_lists_started)
    /\ modes_stack' = Front(modes_stack)
    /\ in_expression' = Inside(expressions_started, modes_stack')
    /\ off' = off + 1
    /\ UNCHANGED <<mainVars, is_error, line_num, expressions_started, modeVars>>

CloseList ==
    /\ Plain /\ Cur = ")" /\ arg_lists_started # <<>>
    /\ tokens' = Append(tokens, Token("prr", 0, line_num))
    /\ IF Last(modes_stack) = ")"
       THEN /\ arg_lists_started' = Front(arg_lists_started)
            /\ modes_stack' = Front(modes_stack)
            /\ UNCHANGED is_error
       ELSE is_error' = TRUE /\ UNCHANGED <<arg_lists_started, modes_stack>>
    /\ in_expression' = Inside(expressions_started, modes_stack')
    /\ off' = off + 1
    /\ UNCHANGED <<mainVars, line_num, expressions_started, modeVars>>

OpenExpression ==
    /\ Plain /\ Cur = "{"
    /\ modes_stack' = Append(modes_stack, "}")
    /\ expressions_started' = Append(expressions_started, line_num)
    /\ in_expression' = TRUE
    /\ Take(1, "exs", 0) /\ UNCHANGED <<arg_lists_started, modeVars>>

CloseExpression ==
    /\ Plain /\ Cur = "}" /\ expressions_started # <<>>
    /\ tokens' = Append(tokens, Token("exe", 0, line_num))
    /\ IF Last(modes_stack) = "}"
       THEN /\ expressions_started' = Front(expressions_started)
            /\ modes_stack' = Front(modes_stack)
            /\ UNCHANGED is_error
       ELSE is_error' = TRUE /\ UNCHANGED <<expressions_started, modes_stack>>
    /\ in_expression' = Inside(expressions_started', modes_stack')
    /\ off' = off + 1
    /\ UNCHANGED <<mainVars, line_num, arg_lists_started, modeVars>>

CloseNothing ==
    /\ Plain
    /\ \/ Cur = ")" /\ arg_lists_started = <<>>
       \/ Cur = "}" /\ expressions_started = <<>>
    /\ Stray

-----------------------------------------------------------------------------
(* Numbers, registers, words and labels.                                     *)

Number ==
    /\ Plain
    /\ \/ Cur \in Numbers /\ Take(1, "num", NumberOf(Cur))
       \/ Cur = "-" /\ Ahead(1) \in Numbers /\ Take(2, "num", -NumberOf(Ahead(1)))
    /\ SameMode

Minus ==
    /\ Plain /\ Cur = "-" /\ Ahead(1) \notin Numbers
    /\ IF in_expression THEN Take(1, "exo", "-") ELSE Refuse(1)
    /\ SameMode

Register ==
    /\ Plain /\ Cur \in Registers \union NoRegister
    /\ IF Cur \in Registers THEN Take(1, "reg", RegisterOf(Cur)) ELSE Refuse(1)
    /\ SameMode

WordStart == IdRun \ (Numbers \union Registers \union NoRegister)

\* A run, or two joined by a dot; a second dot or a dot at the end is refused.
Identifier ==
    /\ Plain /\ Cur \in WordStart
    /\ IF Ahead(1) # "."
       THEN CASE Cur \in Instructions -> Take(1, "ins", Cur)
              [] Cur \in Externals    -> Take(1, "ext", ExternalOf(Cur))
              [] OTHER                -> Take(1, "ulb", <<Word(Cur)>>)
       ELSE IF Ahead(2) \in IdRun
            THEN IF Ahead(3) = "." THEN Refuse(4)
                 ELSE Take(3, "ulb", <<Word(Cur), Word(Ahead(2))>>)
            ELSE Refuse(IF Ahead(2) = "." THEN 3 ELSE 2)
    /\ SameMode

Dot ==
    /\ Plain /\ Cur = "."
    /\ CASE in_expression -> Take(1, "exo", ".")
         [] ~in_expression /\ Ahead(1) \in {".", ",", ">", "<"} ->
                Take(2, "slb", Ahead(1))
         [] ~in_expression /\ Ahead(1) \in IdRun ->
                IF Ahead(2) = "." THEN Refuse(3)
                ELSE Take(2, "ulb", <<NoWord, Word(Ahead(1))>>)
         [] OTHER -> Refuse(1)
    /\ SameMode

\* The label before the colon becomes a definition.
Colon ==
    /\ Plain /\ Cur = ":"
    /\ off' = off + 1
    /\ IF tokens # <<>> /\ Is(Last(tokens), "ulb")
       THEN /\ tokens' = [tokens EXCEPT ![Len(tokens)].type = "dlb"]
            /\ UNCHANGED is_error
       ELSE is_error' = TRUE /\ UNCHANGED tokens
    /\ UNCHANGED <<mainVars, line_num>> /\ SameMode

Comma ==
    /\ Plain /\ Cur = ","
    /\ IF in_expression THEN Take(1, "exo", ",") ELSE Skip(1)
    /\ SameMode

-----------------------------------------------------------------------------
(* Prefixes.                                                                 *)

\* Alone, a prefix is an operator of expressions.
PrefixOperator ==
    /\ Plain
    /\ \/ Cur = "%" /\ Ahead(1) \notin IdRun
       \/ Cur \in {"#", "$"} /\ Ahead(1) \in White \union {"}"}
    /\ IF in_expression THEN Take(1, "exo", Cur) ELSE Refuse(1)
    /\ SameMode

Directive ==
    /\ Plain /\ Cur = "%" /\ Ahead(1) \in IdRun
    /\ IF Ahead(1) \in DOMAIN DirectiveOf
       THEN Take(2, "dir", DirectiveOf[Ahead(1)])
       ELSE Refuse(2)
    /\ SameMode

\* The name may be empty.
DefineOrVariable ==
    /\ Plain /\ Cur \in {"#", "$"} /\ Ahead(1) \notin White \union {"}"}
    /\ LET t == IF Cur = "#" THEN "udf" ELSE "uvr"
       IN  IF Ahead(1) \in IdRun THEN Take(2, t, <<Word(Ahead(1))>>)
                                 ELSE Take(1, t, <<NoWord>>)
    /\ SameMode

MacroParameter ==
    /\ Plain /\ Cur = "_"
    /\ IF in_macro /\ Ahead(1) \in IdRun
       THEN Take(2, "mpr", <<Word(Ahead(1))>>)
       ELSE Refuse(1)
    /\ SameMode

Macro ==
    /\ Plain /\ Cur = "@"
    /\ CASE Ahead(1) = "macro" -> Take(2, "mst", 0) /\ in_macro' = TRUE /\ line' = line_num
         [] Ahead(1) = "end"   -> Take(2, "men", 0) /\ in_macro' = FALSE /\ UNCHANGED line
         [] Ahead(1) \in IdRun \ Keywords ->
                Take(2, "mus", <<Word(Ahead(1))>>) /\ UNCHANGED <<in_macro, line>>
         [] OTHER -> Refuse(1) /\ UNCHANGED <<in_macro, line>>
    /\ UNCHANGED <<nestVars, in_string, in_comment>>

StrayCharacter == Plain /\ Cur = "backslash" /\ Stray

\* A fault of EndOfFile: expressions are left open
EndOfFileOpen ==
    /\ phase = "tokenize" /\ off > Len(source)
    /\ is_error' = (is_error \/ in_string \/ in_comment \/ in_macro \/ arg_lists_started # <<>>)
    /\ phase' = IF is_error' THEN "failed" ELSE "verify"
    /\ UNCHANGED <<job, tokens, tid, verified, labels, result, tokVars>>

\* The checks behind the loop; main() goes on only without an error.
EndOfFile ==
    /\ phase = "tokenize" /\ off > Len(source)
    /\ is_error' = (is_error \/ in_string \/ in_comment \/ in_macro
                      \/ arg_lists_started # <<>> \/ expressions_started # <<>>)
    /\ phase' = IF is_error' THEN "failed" ELSE "verify"
    /\ UNCHANGED <<job, tokens, tid, verified, labels, result, tokVars>>

TokNext ==
    \/ StringEnd \/ StringText \/ CommentEnd \/ CommentText
    \/ Operator \/ LineComment \/ Slash \/ Quote \/ Blank
    \/ OpenList \/ CloseList \/ OpenExpression \/ CloseExpression \/ CloseNothing
    \/ Number \/ Minus \/ Register \/ Identifier \/ Dot \/ Colon \/ Comma
    \/ PrefixOperator \/ Directive \/ DefineOrVariable \/ MacroParameter \/ Macro
    \/ StrayCharacter \/ EndOfFile
=============================================================================
