------------------------------ MODULE AsmTokens ------------------------------
(***************************************************************************)
(* The vocabulary of the assembler sasm and what its phases share: the     *)
(* pieces of a source file, tokens (types/token.h), names, the operand     *)
(* patterns of instructions and directives (instruction_info.h and the     *)
(* table in verify.cpp), and the variables of main.cpp.                    *)
(*                                                                         *)
(* A source file is a sequence of pieces.  A piece is a character that the *)
(* tokeniser treats by itself, or a whole run of identifier characters.    *)
(* Two runs next to each other stand for runs with a blank between them.   *)
(* Of the instructions there is one of each operand format, of the names,  *)
(* registers and numbers a few.                                            *)
(***************************************************************************)
EXTENDS Integers, SequencesExt

VARIABLES
    phase,      \* the phase of main() that is running, or how it ended
    job,        \* the file to assemble, and the options of the command line
    tokens,     \* tokens[0] of main(), from tokenize(), later from preprocess()
    verified,   \* tokens[1] of main(), from verify()
    labels,     \* from preprocess(), in the order of definition
    result,     \* from code_gen(), the words
    tid,        \* the cursor of the running phase in its token list
    is_error    \* Log::is_error

source   == job.source      \* the file, a sequence of pieces
promoted == job.promoted    \* the warnings that -WE makes errors

\* What ends a run of the program.
Ended == {"done", "nothing", "failed", "fatal"}

\* Utils::warning
Warns(id) == id \in promoted
Warnings  == {"immnofit", "extradata", "custom", "extravals"}

Instructions == {"nop", "add", "dvu", "cal", "jmp", "crd", "cwr", "mwr",
                 "psh", "jzz", "int", "xrd", "xwr"}
Externals    == {"IP", "UI"}
Registers    == {"R0", "R1"}
NoRegister   == {"R8"}
Numbers      == {"0", "1", "2", "3"}
Names        == {"a", "b", "v"}
Keywords     == {"macro", "end"}

\* What follows "%", with the directive it names in token.h.
DirectiveOf ==
    [s \in {"if", "elsif", "else", "end", "rps", "rpe", "adr", "org", "align",
            "dw", "define", "assign", "assert", "info", "warn", "error",
            "isdefined", "isassigned", "typeof", "same", "tostring", "ws"} |->
        CASE s = "if" -> "cif" [] s = "elsif" -> "cei" [] s = "else" -> "cel"
          [] s = "end" -> "cen" [] s = "align" -> "alg" [] s = "dw" -> "ddw"
          [] s = "define" -> "def" [] s = "assign" -> "ass"
          [] s = "assert" -> "cas" [] s = "info" -> "inf" [] s = "warn" -> "war"
          [] s = "error" -> "err" [] s = "isdefined" -> "isd"
          [] s = "isassigned" -> "isa" [] s = "typeof" -> "tof"
          [] s = "same" -> "sam" [] s = "tostring" -> "tst" [] s = "ws" -> "wst"
          [] OTHER -> s]

NumberOf(s) == CASE s = "0" -> 0 [] s = "1" -> 1 [] s = "2" -> 2 [] s = "3" -> 3
RegisterOf(s) == IF s = "R0" THEN 0 ELSE 1
ExternalOf(s) == IF s = "IP" THEN 0 ELSE 2

\* Runs of identifier characters (Utils::is_id_char).
IdRun == Instructions \union Externals \union Registers \union NoRegister
             \union Numbers \union Names \union Keywords \union DOMAIN DirectiveOf

Operators == {"+", "*", "&", "|", "^", "~", "?", "!", "=", "<", ">"}
Pieces    == IdRun \union Operators \union
             {"nl", "blank", "quote", "backslash", "/", ";", "(", ")", "{", "}",
              ":", ".", ",", "-", "%", "#", "$", "@", "_"}

-----------------------------------------------------------------------------
(* Names.  A name is a sequence of parts; a dot joins them.  A reference     *)
(* that starts with a dot has the empty part first.  A part is a word or,    *)
(* for labels without a name, "^" with a number.                             *)

Word(w)  == <<w, 0>>
Anon(n)  == <<"^", n>>
NoWord   == <<"", 0>>

IsNested(name) == name[1] = NoWord
HasDot(name)   == Len(name) > 1

\* A reference or definition under the current top level label.
Qualified(top, name) == IF IsNested(name) THEN top \o Tail(name) ELSE name

-----------------------------------------------------------------------------
(* Tokens.                                                                   *)

Token(t, v, l) == [type |-> t, val |-> v, line |-> l]

\* The first token from i on that is not on line l, or the end of the list.
RestOfLine(toks, i, l) ==
    CHOOSE e \in i .. Len(toks) + 1 :
        /\ \A k \in i .. e - 1 : toks[k].line = l
        /\ e > Len(toks) \/ toks[e].line # l

Is(token, t)    == token.type = t
IsDir(token, d) == token.type = "dir" /\ token.val = d

\* The operands that an instruction or a directive wants, a letter each:
\* r register, x external register (of a directive: anything), i constant,
\* v constant, label or expression, o any of r and v, a any of r and i (of a
\* directive: a variable), s string, f define's name, q variable's name,
\* d define.
PatternOf(token) ==
    LET v == token.val IN
    IF Is(token, "ins")
    THEN CASE v = "nop" -> <<>>
           [] v = "add" -> <<"r", "o">>
           [] v = "dvu" -> <<"r", "r">>
           [] v = "cal" -> <<"o">>
           [] v \in {"jmp", "jzz"} -> <<"v">>
           [] v = "crd" -> <<"r", "a">>
           [] v = "cwr" -> <<"a", "r">>
           [] v = "mwr" -> <<"o", "r">>
           [] v = "psh" -> <<"r">>
           [] v = "int" -> <<"i">>
           [] v = "xrd" -> <<"r", "x">>
           [] v = "xwr" -> <<"x", "o">>
    ELSE CASE v \in {"alg", "adr", "org", "rps", "cif", "cei"} -> <<"i">>
           [] v = "ddw" -> <<"v">>
           [] v \in {"wst", "inf", "war", "err"} -> <<"s">>
           [] v \in {"rpe", "cel", "cen"} -> <<>>
           [] v = "def" -> <<"f", "i">>
           [] v = "ass" -> <<"q", "i">>
           [] v = "isd" -> <<"d">>
           [] v = "cas" -> <<"v", "s">>
           [] v \in {"tof", "tst"} -> <<"any">>
           [] v = "isa" -> <<"u">>
           [] v = "sam" -> <<"any", "any">>
=============================================================================
