----------------------------- MODULE MCAssembler -----------------------------
(***************************************************************************)
(* The jobs TLC runs the assembler on: every short sequence of brackets,   *)
(* quotes and comment marks, every block structure of depth two, every     *)
(* short sequence of block directives, and one file for each of the other  *)
(* features, with what is wrong about it.                                  *)
(***************************************************************************)
EXTENDS AsmReference

Dense(n)  == [per_row |-> n, sparse |-> FALSE]
Sparse(n) == [per_row |-> n, sparse |-> TRUE]

Job(s, f)        == [source |-> s, format |-> f, promoted |-> {}, defines |-> <<>>]
Strict(s)        == [Job(s, Dense(1)) EXCEPT !.promoted = Warnings]
With(s, n, v)    == [Job(s, Dense(1)) EXCEPT !.defines = <<Nameval(<<Word(n)>>, v)>>]
Sequences(S, n)  == UNION {[1 .. k -> S] : k \in 1 .. n}

-----------------------------------------------------------------------------
(* Brackets.                                                                 *)

BracketPieces == {"{", "}", "(", ")", "@", "a", "+", "nl", "quote"}
MarkPieces    == {"/", "*", ";", "quote", "nl", "backslash", "1", "-"}

BracketJobs == {Job(s, Dense(1)) : s \in Sequences(BracketPieces, 4) \union Sequences(MarkPieces, 4)
                                            \union Sequences({"{", "}", "(", ")", "@", "a"}, 5)}
PairJobs    == {Job(s, Dense(1)) : s \in Sequences(Pieces \ (Instructions \union DOMAIN DirectiveOf), 2)}

-----------------------------------------------------------------------------
(* Blocks.                                                                   *)

Line == [nop   |-> <<"nop">>,            if0   |-> <<"%", "if", "0">>,
         if1   |-> <<"%", "if", "1">>,   elsif |-> <<"%", "elsif", "1">>,
         else  |-> <<"%", "else">>,      end   |-> <<"%", "end">>,
         rps0  |-> <<"%", "rps", "0">>,  rps1  |-> <<"%", "rps", "1">>,
         rps2  |-> <<"%", "rps", "2">>,  rpe   |-> <<"%", "rpe">>]

File2Pieces(names) == FlattenSeq([i \in 1 .. Len(names) |-> Append(Line[names[i]], "nl")])

Block(B) ==
    B \union {<<c>> \o b \o <<"end">> : c \in {"if0", "if1"}, b \in B}
      \union {<<c>> \o b \o <<"else">> \o d \o <<"end">> : c \in {"if0", "if1"}, b \in B, d \in B}
      \union {<<c>> \o b \o <<"rpe">> : c \in {"rps0", "rps1", "rps2"}, b \in B}

Blocks == Block(Block({<<"nop">>}))
Tangles == Sequences({"if0", "if1", "elsif", "else", "end", "rps2", "rpe"}, 4)
             \union Sequences({"if1", "else", "end", "rps2", "rpe"}, 5)

\* A condition in a section passed over because its own condition was false.
NestsInFalse(names) ==
    \E i \in 1 .. Len(names), j \in 1 .. Len(names) :
        /\ i < j /\ names[i] = "if0" /\ names[j] \in {"if0", "if1"}
        /\ \A k \in i + 1 .. j - 1 : names[k] \notin {"elsif", "else", "end"}

\* A repetition of none inside another, whose end the code takes for the end of
\* the one around it.
ZeroInRepeat(names) ==
    \E i \in 1 .. Len(names) :
        /\ names[i] = "rps0"
        /\ Cardinality({k \in 1 .. i - 1 : names[k] \in {"rps0", "rps1", "rps2"}})
             > Cardinality({k \in 1 .. i - 1 : names[k] = "rpe"})

BlockJobs == {Job(File2Pieces(names), Dense(1)) :
                 names \in {n \in Blocks \union Tangles : ~NestsInFalse(n) /\ ~ZeroInRepeat(n)}
                                     \union {<<"if0", "if1", "nop", "end", "end", "nop">>}}
FalseJobs == {Job(File2Pieces(n), Dense(1)) : n \in {m \in Blocks : NestsInFalse(m)}}

-----------------------------------------------------------------------------
(* One file for each of the other features, a sequence of lines.             *)

Lines(ls) == FlattenSeq([i \in 1 .. Len(ls) |-> Append(ls[i], "nl")])

Sum == <<"{", "1", "2", "+", "}">>

Instructions1 == Lines(<< <<"a", ":">>, <<"nop">>, <<"add", "R0", "R1">>, <<"add", "R1", "a">>,
    <<"dvu", "R0", ",", "R1">>, <<"cal", "a">>, <<"cal", "R1">>, <<"jmp", "b">>,
    <<"crd", "R0", "R1">>, <<"crd", "R0", "3">>, <<"cwr", "R0", "R1">>, <<"cwr", "3", "R1">>,
    <<"mwr", "R0", "R1">>, <<"mwr", "b", "R1">>, <<"psh", "R1">>, <<"b", ":">>, <<"jzz", "a">>,
    <<"int", "2">>, <<"xrd", "R1", "IP">>, <<"xwr", "IP", "R1">>, <<"xwr", "UI">> \o Sum >>)

Layout == Lines(<< <<"nop">>, <<"%", "align", "3">>, <<"a", ":">>, <<"%", "dw", "b">>,
    <<"jmp", "a">>, <<"%", "adr", "{", "3", "3", "+", "}">>, <<"b", ":">>, <<"cal", "b">>,
    <<"%", "org", "2">>, <<"v", ":">>, <<"jzz", "v">>, <<"%", "dw", "v">> >>)

Labels == Lines(<< <<"a", ":">>, <<".", "b", ":">>, <<".", ",">>, <<"jmp", "blank", ".", "<">>,
    <<".", "b", ":">>, <<".", ".">>, <<"jmp", "blank", ".", "b">>, <<"jmp", "blank", ".", ">">>, <<"v", ".", "a", ":">>,
    <<"nop">>, <<"%", "dw", "a", ".", "b">>, <<"%", "dw", "blank", ".", "<">>, <<"cal", "v", ".", "a">> >>)

Loops == Lines(<< <<"%", "rps", "2">>, <<".", ",">>, <<"jmp", "blank", ".", "<">>, <<"%", "rps", "2">>,
    <<"jmp", "blank", ".", ">">>, <<"%", "rpe">>, <<"%", "align", "2">>, <<"%", "rpe">>, <<"a", ":">>, <<"jmp", "a">> >>)

Variables == Lines(<< <<"%", "define", "a", "2">>, <<"%", "assign", "$", "v", "0">>,
    <<"%", "rps", "#", "a">>, <<"%", "assign", "v", "{", "$", "v", "1", "+", "}">>,
    <<"%", "if", "{", "$", "v", "2", "=", "}">>, <<"%", "dw", "$", "v">>,
    <<"%", "elsif", "{", "%", "isassigned", "$", "b", "}">>, <<"%", "dw", "3">>,
    <<"%", "else">>, <<"%", "dw", "{", "$", "v", "$", "blank", "+", "}">>, <<"%", "end">>, <<"%", "rpe">>,
    <<"%", "adr", "3">>, <<"%", "if", "{", "%", "isdefined", "#", "a", "%", "typeof", "R0", "+", "}">>,
    <<"%", "dw", "#", "a">>, <<"%", "end">> >>)

Operations == Lines(<< <<"%", "dw", "{", "2", "3", "*", "blank", "1", "-", "blank", "2", "/", "blank", "}">>,
    <<"%", "dw", "{", "3", "2", "%", "blank", "1", "|", "blank", "2", "^", "blank", "1", "&", "}">>,
    <<"%", "dw", "{", "1", "2", ",", "<", "blank", "1", ">", "blank", ".", "+", "}">>,
    <<"%", "if", "{", "1", "!", "blank", "?", "blank", "~", "}">>,
    <<"%", "dw", "{", "1", "2", "#", "}">>, <<"%", "end">>,
    <<"%", "if", "{", "%", "same", "1", "1", "%", "same", "#", "a", "#", "a", "-", "}">>,
    <<"%", "dw", "3">>, <<"%", "end">> >>)

Operations2 == Lines(<<
    <<"%", "if", "{", "2", "3", "*", "blank", "1", "-", "blank", "2", "/", "blank", "3", "%", "blank", "!", "}">>,
    <<"%", "dw", "{", "%", "}">>, <<"%", "else">>, <<"%", "dw", "{", "1", "2", "-", "blank", "2", ">", "}">>, <<"%", "end">>,
    <<"%", "dw", "{", "0", "2", "-", "}">>, <<"%", "rps", "{", "1", "2", ",", "blank", "-", "}">>,
    <<"%", "dw", "{", "0", "1", "-", "blank", "2", "/", "}">>, <<"%", "rpe">> >>)

Messages == Lines(<< <<"%", "info", "quote", "a", "quote">>, <<"%", "warn", "%", "tostring", "2">>,
    <<"%", "info", "%", "tostring", "%", "dw">>, <<"%", "info", "%", "tostring", "a", "b">>,
    <<"%", "assert", "1", "quote", "a", "quote">>, <<"%", "assert", "{", "a", "}", "%", "tostring", "a">>,
    <<"nop">>, <<"a", ":">>, <<"nop">> >>)

SparseImage == Lines(<< <<"%", "dw", "1">>, <<"%", "adr", "{", "3", "3", "*", "}">>, <<"a", ":">>, <<"nop">> >>)

\* Each of these is wrong somewhere, or asks for what is not supported.
Wrong == {
    <<"nop", "1">>, <<"add", "R0">>, <<"add", "R8", "1">>, <<"add", "1", "R0">>, <<"xrd", "R0", "UI">>,
    <<"jmp", "blank", ".", ",">>, <<".", "<">>, <<"jmp", "blank", ".", "<">>, <<"jmp", "blank", ".", ">">>, <<"jmp", "a">>, <<"b", "nop">>,
    <<"a", ":", "nop">>, <<"@", "a", "(", "1", ")", "nl", "nop">>, <<"@", "macro", "_", "a", "@", "end">>,
    <<"_", "a">>, <<"%", "a">>, <<"%", "if">>, <<"%", "if", "R0">>, <<"%", "if", "{", "a", "}">>,
    <<"%", "if", "{", "$", "blank", "}">>, <<"%", "if", "{", "1", "/", "blank", "}">>, <<"%", "if", "{", "}">>,
    <<"%", "if", "{", "#", "}">>, <<"%", "if", "{", "1", "0", "/", "blank", "}">>,
    <<"%", "if", "{", "1", "{", "1", "}", "+", "}", "nl", "%", "end">>,
    <<"%", "dw", "{", "1", "{", "1", "}", "+", "}">>, <<"%", "dw", "{", "@", "a", "1", "}">>,
    <<"jmp", "{", "1">>, <<"%", "dw", "{", "R0", "}">>, <<"%", "dw", "{", "nop", "}">>, <<"%", "dw", "{", "{", "R0", "}", "}">>, <<"%", "dw", "{", "%", "if", "}">>,
    <<"%", "dw", "{", "%", "typeof", "}">>, <<"%", "dw", "{", "%", "same", "1", "}">>, <<"%", "dw", "{", "%", "same", "}">>,
    <<"%", "dw", "{", "%", "same", "{", "1", "}", "}">>, <<"%", "dw", "{", "%", "isdefined", "1", "}">>,
    <<"%", "dw", "{", "%", "typeof", "{", "{", "1", "}", "}", "1", "+", "}">>,
    <<"%", "dw", "{", "a", "b", "%", "}">>, <<"%", "dw", "{", "1", "$", "blank", "}">>,
    <<"%", "isdefined", "#", "a">>, <<"%", "typeof", "{", "1", "}">>, <<"%", "same", "1", "2">>,
    <<"%", "define", "a", ".", "b", "1">>, <<"%", "define", "a", "1", "nl", "%", "define", "a", "2">>,
    <<"%", "assign", "v", "#", "a">>, <<"%", "rps", "$", "v">>, <<"%", "adr", "3", "nl", "%", "adr", "1">>,
    <<"%", "align", "0">>, <<"%", "align", "-", "1">>, <<"%", "ws", "quote", "a", "quote">>,
    <<"%", "error", "quote", "a", "quote">>, <<"%", "info", "1">>, <<"%", "info", "%", "tostring">>,
    <<"%", "info", "%", "tostring", "{", "1", "2", "+", "}", "a">>, <<"%", "info", "%", "tostring", "{", "R0", "}">>,
    <<"%", "assert", "0", "quote", "a", "quote">>, <<"%", "assert", "0", "%", "tostring", "1">>,
    <<"%", "assert", "a", "quote", "a", "quote">>, <<"%", "assert", "{", "1", "0", "%", "}", "quote", "a", "quote">>,
    <<"%", "dw", "{", "1", "2", "}">>, <<"jmp", "{", "1", "-", "blank", "}">>, <<"int", "-", "1">>,
    <<"a", ".", "b", ".", "v">>, <<"a", ".">>, <<".", "b", ".", "v">>, <<"%", "dw", "-", "3">>,
    <<"/", "*", "a", "*", "/", "nop", ";", "a">>, <<"/", "/", "a">>, <<"nop", "/", "*", "a">>,
    <<"crd", "R0", "{", "3", "3", "*", "blank", "3", "*", "blank", "2", "*", "}">> }

FeatureFiles == {Instructions1, Layout, Labels, Loops, Variables, Operations, Operations2, Messages}
FeatureJobs ==
    {Job(s, Dense(1)) : s \in FeatureFiles \union {Append(w, "nl") : w \in Wrong}}
      \union {Job(SparseImage, f) : f \in Formats}
      \union {Job(Instructions1, Sparse(n)) : n \in {2, 5}}
      \union {Strict(Append(w, "nl")) : w \in Wrong} \union {Strict(Messages), Strict(Instructions1)}
      \union {With(Variables, "b", 1), With(Variables, "a", 1)}

PassJobs == BracketJobs \union PairJobs \union BlockJobs \union FeatureJobs
=============================================================================
