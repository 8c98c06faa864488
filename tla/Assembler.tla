------------------------------ MODULE Assembler ------------------------------
(***************************************************************************)
(* The assembler sasm: main() runs the phases one after the other, each    *)
(* over the output of the one before, and stops at the first that reports  *)
(* an error.  A job is a file with the options that change what is done    *)
(* with it.                                                                *)
(***************************************************************************)
EXTENDS Tokenize, Verify, Preprocess, CodeGen, Save

CONSTANT Jobs

ASSUME JobsAssumption ==
    \A j \in Jobs :
        /\ j.source \in Seq(Pieces)
        /\ j.format \in Formats
        /\ j.promoted \subseteq Warnings

Init ==
    /\ phase = "tokenize" /\ tid = 1 /\ is_error = FALSE
    /\ tokens = <<>> /\ verified = <<>> /\ labels = <<>> /\ result = <<>>
    /\ job \in Jobs
    /\ TokInit /\ VerInit /\ PreInit /\ GenInit /\ SaveInit

vars == <<phase, job, tokens, verified, labels, result, tid, is_error, tokVars, verVars, preVars, gen_address, saveVars>>

Tokenizing    == TokNext /\ UNCHANGED <<verVars, preVars, gen_address, saveVars>>
VerifyingStep == VerNext /\ UNCHANGED <<tokVars, preVars, gen_address, saveVars>>
Preprocessing == PreNext /\ UNCHANGED <<tokVars, verVars, gen_address, saveVars>>
Encoding      == GenNext /\ UNCHANGED <<tokVars, verVars, preVars, saveVars>>
Saving        == SaveNext /\ UNCHANGED <<tokVars, verVars, preVars, gen_address>>

Step == Tokenizing \/ VerifyingStep \/ Preprocessing \/ Encoding \/ Saving

\* A run that has ended stays as it is.
Exited == phase \in Ended /\ UNCHANGED vars

Next == Step \/ Exited

\* The program is one thread: it takes a step as long as there is one.
Spec == Init /\ [][Next]_vars /\ WF_vars(Step)
-----------------------------------------------------------------------------
(* Properties.                                                               *)

TokenTypes == {"num", "reg", "dir", "str", "ins", "ext", "mst", "men", "mpr", "mus", "exs",
               "exe", "exo", "dlb", "ulb", "udf", "uvr", "prl", "prr", "slb"}
Uint16 == 0 .. \hFFFF
IsTokenList(s) == \A i \in 1 .. Len(s) : s[i].type \in TokenTypes /\ s[i].line \in Nat \ {0}

\* Every variable has values of its kind.
TypeOK ==
    /\ phase \in {"tokenize", "verify", "preprocess", "code_gen", "save", "symbols"} \union Ended
    /\ IsTokenList(tokens) /\ IsTokenList(verified)
    /\ result \in Seq(Uint16)
    /\ tid \in 1 .. Len(tokens) + Len(verified) + 1 /\ off \in 1 .. Len(source) + 1
    /\ {is_error, in_string, in_comment, in_macro, in_expression, constant_expression} \subseteq BOOLEAN
    /\ modes_stack \in Seq({"}", ")"})
    /\ expressions_started \in Seq(Nat) /\ arg_lists_started \in Seq(Nat)
    /\ depth \in Nat /\ nth \in 0 .. 3
    /\ pmode \in {"run", "skip_if", "skip_branch", "skip_rep"}
    /\ address \in Int /\ gen_address \in Int
    /\ current_label \in Int /\ cif_depth \in Seq(Int)
    /\ rps_depth \in Seq(Nat) /\ rps_to_repeat \in Seq(Nat)
    /\ row \in Nat /\ size \in Nat
    /\ {output.state, symbols.state} \subseteq {"untouched", "empty", "whole", "cut"}

Brackets(b) == {i \in 1 .. Len(modes_stack) : modes_stack[i] = b}

\* The three stacks of the tokeniser hold the same brackets, and operators are
\* read only inside an expression: .back() of one of them, taken after a look at
\* another, is never that of an empty vector, also after a bracket that does not
\* match (tokenize.cpp:138-190).
BracketsAgree ==
    /\ Cardinality(Brackets("}")) = Len(expressions_started)
    /\ Cardinality(Brackets(")")) = Len(arg_lists_started)
    /\ in_expression = (modes_stack # <<>> /\ Last(modes_stack) = "}")

\* verify_expression() runs on to the end of an expression without looking at
\* the number of tokens (verify.cpp:41-44, 89-91, 258-260): the tokeniser let no
\* expression through that does not end.
ExpressionsEnd ==
    phase = "verify" /\ depth > 0 => \E e \in tid .. Len(tokens) : Is(tokens[e], "exe")

\* %rpe takes .back() of the counts after a look at the size of the starts
\* (preprocess.cpp:362-374): while tokens are carried out there are at least as
\* many counts.
CountsForStarts == pmode # "skip_rep" => Len(rps_depth) <= Len(rps_to_repeat)

\* A special label is the place of a label, or one of the two places next to the
\* list that get_value() (code_gen.cpp:52-66) looks for before it indexes labels.
SpecialLabelsInRange ==
    /\ current_label = Len(labels) - 1
    /\ phase \in {"preprocess", "code_gen"} =>
          \A i \in 1 .. Len(tokens) :
              Is(tokens[i], "slb") => tokens[i].val \in -1 .. Len(labels)

\* No file is touched once an error was reported, by a phase (main.cpp:62-157) or
\* by saving itself, and symbols come after an output that write() took.  A file
\* that is opened and never finished is left only by a run that reported an error;
\* a write that takes a part leaves a cut one, of which no run says anything
\* (save.cpp:367, 410).
FilesStep ==
    /\ is_error => UNCHANGED <<output, symbols>>
    /\ symbols' # symbols => output.state \in {"whole", "cut"}
    /\ phase' \in Ended /\ "empty" \in {output'.state, symbols'.state} => is_error'
SavedWithoutErrors == [][FilesStep]_vars

WordsAt(f, p) == {r \in 1 .. Len(f.rows) : f.rows[r].at <= p /\ p < f.rows[r].at + format.per_row}

\* Read back, the output is the words of code_gen() and zeros: no row is lost to
\* the count of bytes, which goes down for every row left out.
OutputReadsBack ==
    output.state = "whole" =>
        \A p \in 0 .. Len(result) - 1 :
            IF result[p + 1] = 0
            THEN \A r \in WordsAt(output, p) : output.rows[r].words[p - output.rows[r].at + 1] = 0
            ELSE \E r \in WordsAt(output, p) :
                     output.rows[r].words[p - output.rows[r].at + 1] = result[p + 1]

\* The program ends whatever the file is: every loop over the tokens moves on,
\* and repetitions run out.
Terminates == <>(phase \in Ended)
=============================================================================
