--------------------------- MODULE AssemblerProofs ---------------------------
(***************************************************************************)
(* Proofs about sasm, for any set of jobs.                                 *)
(***************************************************************************)
EXTENDS Assembler, WordsProofs, SequenceTheorems, FiniteSetTheorems, TLAPS

-----------------------------------------------------------------------------
(* Sequences of anything.                                                    *)

IsSequence(s) == \E S : s \in Seq(S)

LEMMA EmptySequence == IsSequence(<<>>) /\ Len(<<>>) = 0
  BY EmptySeq DEF IsSequence

LEMMA SequenceLength ==
  ASSUME NEW s, IsSequence(s)
  PROVE  Len(s) \in Nat /\ (s = <<>> <=> Len(s) = 0)
<1>1. PICK S : s \in Seq(S)
  BY DEF IsSequence
<1>2. QED
  BY <1>1

LEMMA AppendSequence ==
  ASSUME NEW s, IsSequence(s), NEW e
  PROVE  /\ IsSequence(Append(s, e))
         /\ Len(Append(s, e)) = Len(s) + 1
         /\ \A i \in 1 .. Len(s) : Append(s, e)[i] = s[i]
         /\ Append(s, e)[Len(s) + 1] = e
<1>1. PICK S : s \in Seq(S)
  BY DEF IsSequence
<1> DEFINE T == S \union {e}
<1>2. s \in Seq(T)
  BY <1>1, SeqMonotonic, S \subseteq T
<1>3. Append(s, e) \in Seq(T)
  BY <1>2, AppendProperties
<1>4. QED
  BY <1>2, <1>3, AppendProperties DEF IsSequence

LEMMA FrontSequence ==
  ASSUME NEW s, IsSequence(s), s # <<>>
  PROVE  /\ IsSequence(Front(s))
         /\ Len(Front(s)) = Len(s) - 1
         /\ \A i \in 1 .. Len(s) - 1 : Front(s)[i] = s[i]
<1>1. PICK S : s \in Seq(S)
  BY DEF IsSequence
<1>2. Len(s) \in Nat \ {0}
  BY <1>1
<1> DEFINE n == Len(s) - 1
<1>3. n \in Int /\ \A i \in 1 .. n : s[i] \in S
  BY <1>1, <1>2
<1>4. Front(s) = SubSeq(s, 1, n)
  BY DEF Front
<1> HIDE DEF n
<1>5. /\ SubSeq(s, 1, n) \in Seq(S)
      /\ Len(SubSeq(s, 1, n)) = IF 1 <= n THEN n - 1 + 1 ELSE 0
      /\ \A i \in 1 .. n - 1 + 1 : SubSeq(s, 1, n)[i] = s[1 + i - 1]
  BY <1>3, SubSeqProperties
<1>6. n \in Nat /\ n = Len(s) - 1
  BY <1>2 DEF n
<1>7. Len(SubSeq(s, 1, n)) = n
  BY <1>5, <1>6
<1>8. \A i \in 1 .. n : SubSeq(s, 1, n)[i] = s[i]
  BY <1>5, <1>6
<1>9. QED
  BY <1>4, <1>5, <1>6, <1>7, <1>8 DEF IsSequence

LEMMA ConcatSequence ==
  ASSUME NEW s, NEW t, IsSequence(s), IsSequence(t)
  PROVE  /\ IsSequence(s \o t)
         /\ Len(s \o t) = Len(s) + Len(t)
         /\ \A i \in 1 .. Len(s) : (s \o t)[i] = s[i]
         /\ \A i \in 1 .. Len(t) : (s \o t)[Len(s) + i] = t[i]
<1>1. PICK S, T : s \in Seq(S) /\ t \in Seq(T)
  BY DEF IsSequence
<1> DEFINE U == S \union T
<1>2. s \in Seq(U) /\ t \in Seq(U)
  BY <1>1, SeqMonotonic, S \subseteq U, T \subseteq U
<1>3. s \o t \in Seq(U) /\ Len(s \o t) = Len(s) + Len(t)
  BY <1>2, ConcatProperties
<1>4. \A i \in 1 .. Len(s) + Len(t) : (s \o t)[i] = IF i <= Len(s) THEN s[i] ELSE t[i - Len(s)]
  BY <1>2, ConcatProperties
<1>5. Len(s) \in Nat /\ Len(t) \in Nat
  BY <1>2
<1>6. \A i \in 1 .. Len(s) : (s \o t)[i] = s[i]
  BY <1>4, <1>5
<1>7. \A i \in 1 .. Len(t) : (s \o t)[Len(s) + i] = t[i]
  BY <1>4, <1>5
<1>8. QED
  BY <1>3, <1>6, <1>7 DEF IsSequence

-----------------------------------------------------------------------------
(* What a phase may do to the variables that it shares with the others.      *)

LEMMA TokKeeps ==
  ASSUME TokNext
  PROVE  /\ phase = "tokenize" /\ phase' \in {"tokenize", "verify", "failed"}
         /\ UNCHANGED <<job, verified, labels, result>>
<1> USE DEF mainVars, Plain, Reading, Take, Refuse, Skip, Stray
<1>1. CASE StringEnd \/ StringText \/ CommentEnd \/ CommentText
  BY <1>1 DEF StringEnd, StringText, CommentEnd, CommentText
<1>2. CASE Operator \/ LineComment \/ Slash \/ Quote \/ Blank
  BY <1>2 DEF Operator, LineComment, Slash, Quote, Blank
<1>3. CASE OpenList \/ CloseList \/ OpenExpression \/ CloseExpression \/ CloseNothing
  BY <1>3 DEF OpenList, CloseList, OpenExpression, CloseExpression, CloseNothing
<1>4. CASE Number \/ Minus \/ Register
  BY <1>4 DEF Number, Minus, Register
<1>5. CASE Identifier
  BY <1>5 DEF Identifier
<1>6. CASE Dot \/ Colon \/ Comma
  BY <1>6 DEF Dot, Colon, Comma
<1>7. CASE PrefixOperator \/ Directive \/ DefineOrVariable
  BY <1>7 DEF PrefixOperator, Directive, DefineOrVariable
<1>8. CASE MacroParameter \/ Macro \/ StrayCharacter
  BY <1>8 DEF MacroParameter, Macro, StrayCharacter
<1>9. CASE EndOfFile
  BY <1>9 DEF EndOfFile
<1>10. QED
  BY <1>1, <1>2, <1>3, <1>4, <1>5, <1>6, <1>7, <1>8, <1>9 DEF TokNext

LEMMA VerKeeps ==
  ASSUME VerNext
  PROVE  /\ phase = "verify" /\ phase' \in {"verify", "failed", "preprocess"}
         /\ phase' = "preprocess" => tokens' = <<>>
         /\ UNCHANGED <<job, labels, result>>
<1> USE DEF Keep, InLine, InExpr, InOperand, Verifying
<1>1. CASE CopyAndLeave \/ AnonymousLabel \/ RefuseLine \/ Statement
  BY <1>1 DEF CopyAndLeave, AnonymousLabel, RefuseLine, Statement
<1>2. CASE Operand \/ OperandExpression \/ StringArgument \/ RefuseOperand \/ StatementEnd
  BY <1>2 DEF Operand, OperandExpression, StringArgument, RefuseOperand, StatementEnd
<1>3. CASE ExprToken \/ ExprOpen \/ ExprClose \/ ExprSkip
  BY <1>3 DEF ExprToken, ExprOpen, ExprClose, ExprSkip
<1>4. CASE ExprInvalid \/ ExprDirective
  BY <1>4 DEF ExprInvalid, ExprDirective, Fail, TakeDirective
<1>5. CASE VerifyEnd
  BY <1>5 DEF VerifyEnd
<1>6. QED
  BY <1>1, <1>2, <1>3, <1>4, <1>5 DEF VerNext

LEMMA PreKeeps ==
  ASSUME PreNext
  PROVE  /\ phase = "preprocess" /\ phase' \in {"preprocess", "fatal", "failed", "code_gen"}
         /\ UNCHANGED <<job, result>>
<1> USE DEF PreSame, Write, Move, Goto, In, At
<1>1. CASE ValueFatal
  BY <1>1 DEF ValueFatal, ValuePlace, Printing
<1>2. CASE EmitWord \/ EmitOther \/ EmitAddress \/ EmitConstant
  BY <1>2 DEF EmitWord, EmitOther, EmitAddress, EmitConstant
<1>3. CASE UseLabel \/ UseSpecialLabel \/ DefineLabel
  BY <1>3 DEF UseLabel, UseSpecialLabel, DefineLabel
<1>4. CASE SetAddress \/ Align \/ AssignVariable \/ DefineConstant
  BY <1>4 DEF SetAddress, Align, AssignVariable, DefineConstant
<1>5. CASE PrintMessage \/ MisplacedDirective
  BY <1>5 DEF PrintMessage, MisplacedDirective, Printing
<1>6. CASE If \/ PassIf
  BY <1>6 DEF If, PassIf
<1>7. CASE StrayBranch \/ Branch \/ PassBranch \/ EndIf
  BY <1>7 DEF StrayBranch, Branch, PassBranch, EndIf
<1>8. CASE Repeat \/ PassRepeat \/ RepeatEnd \/ PreprocessEnd
  BY <1>8 DEF Repeat, PassRepeat, RepeatEnd, PreprocessEnd
<1>9. QED
  BY <1>1, <1>2, <1>3, <1>4, <1>5, <1>6, <1>7, <1>8 DEF PreNext

LEMMA GenKeeps ==
  ASSUME GenNext
  PROVE  /\ phase = "code_gen" /\ phase' \in {"code_gen", "failed", "fatal", "nothing", "save"}
         /\ phase' = "save" => ~is_error'
         /\ UNCHANGED <<job, tokens, labels>>
<1> USE DEF GenSame, GenLeave, Generating, ItemIs
<1>1. CASE GenSkip \/ Org \/ PadTo \/ PadAlign
  BY <1>1 DEF GenSkip, Org, PadTo, PadAlign
<1>2. CASE AssertHolds \/ AssertFails
  BY <1>2 DEF AssertHolds, AssertFails
<1>3. CASE DefineWord \/ Instruction
  BY <1>3 DEF DefineWord, Instruction
<1>4. CASE GenFatal \/ CodeGenEnd
  BY <1>4 DEF GenFatal, CodeGenEnd
<1>5. QED
  BY <1>1, <1>2, <1>3, <1>4 DEF GenNext

LEMMA SaveKeeps ==
  ASSUME SaveNext
  PROVE  /\ phase \in {"save", "symbols"} /\ phase' \in {"save", "symbols", "done", "failed"}
         /\ UNCHANGED <<job, tokens, verified, labels, tid>>
<1> USE DEF saveSame, SaveFails
<1>1. CASE OpenOutput \/ FormatRow \/ WriteOutput
  BY <1>1 DEF OpenOutput, FormatRow, WriteOutput
<1>2. CASE OpenSymbols \/ WriteSymbol \/ CloseSymbols
  BY <1>2 DEF OpenSymbols, WriteSymbol, CloseSymbols
<1>3. QED
  BY <1>1, <1>2 DEF SaveNext

-----------------------------------------------------------------------------
(* Files and errors.                                                         *)

Before == {"tokenize", "verify", "preprocess", "code_gen"}

\* Files are touched in the last two phases, which no error comes into; symbols
\* in the last, after write() took the output or a part of it.
SaveInv ==
    /\ phase \in Before => output.state = "untouched" /\ symbols.state = "untouched"
    /\ phase \in {"save", "symbols", "done"} => ~is_error
    /\ phase = "save" => symbols.state = "untouched"
    /\ phase = "symbols" => output.state \in {"whole", "cut"}

LEMMA SaveInvInit == Init => SaveInv
  BY DEF Init, SaveInit, File, SaveInv

LEMMA SaveInvSave ==
  ASSUME SaveInv, SaveNext
  PROVE  SaveInv' /\ FilesStep
<1> USE DEF SaveInv, FilesStep, saveSame, SaveFails, File, Before, Ended
<1>1. CASE OpenOutput
  BY <1>1 DEF OpenOutput
<1>2. CASE FormatRow
  BY <1>2 DEF FormatRow
<1>3. CASE WriteOutput
  BY <1>3 DEF WriteOutput
<1>4. CASE OpenSymbols
  BY <1>4 DEF OpenSymbols
<1>5. CASE WriteSymbol
  BY <1>5 DEF WriteSymbol
<1>6. CASE CloseSymbols
  BY <1>6 DEF CloseSymbols
<1>7. QED
  BY <1>1, <1>2, <1>3, <1>4, <1>5, <1>6 DEF SaveNext

\* The phases before leave the files as they are, which they have not touched.
LEMMA SaveInvBefore ==
  ASSUME SaveInv, Tokenizing \/ VerifyingStep \/ Preprocessing \/ Encoding
  PROVE  SaveInv' /\ FilesStep
<1> USE DEF SaveInv, FilesStep, saveVars, Before, Ended
<1>1. CASE Tokenizing
  BY <1>1, TokKeeps DEF Tokenizing
<1>2. CASE VerifyingStep
  BY <1>2, VerKeeps DEF VerifyingStep
<1>3. CASE Preprocessing
  BY <1>3, PreKeeps DEF Preprocessing
<1>4. CASE Encoding
  BY <1>4, GenKeeps DEF Encoding
<1>5. QED
  BY <1>1, <1>2, <1>3, <1>4

LEMMA SaveInvStep ==
  ASSUME SaveInv, [Next]_vars
  PROVE  SaveInv' /\ [FilesStep]_vars
<1>1. CASE Saving
  BY <1>1, SaveInvSave DEF Saving
<1>2. CASE Tokenizing \/ VerifyingStep \/ Preprocessing \/ Encoding
  BY <1>2, SaveInvBefore
<1>3. CASE UNCHANGED vars
  BY <1>3 DEF vars, saveVars, SaveInv, Before
<1>4. QED
  BY <1>1, <1>2, <1>3 DEF Next, Step, Exited

\* An error ends what happens to the files, that of save.cpp too; symbols come
\* after an output that write() took, in whole or in part, and a file that is
\* left empty by a run belongs to one that reported an error.
THEOREM FilesAfterErrors == Spec => SavedWithoutErrors
<1>1. Init => SaveInv
  BY SaveInvInit
<1>2. SaveInv /\ [Next]_vars => SaveInv' /\ [FilesStep]_vars
  BY SaveInvStep
<1>3. QED
  BY <1>1, <1>2, PTL DEF Spec, SavedWithoutErrors

-----------------------------------------------------------------------------
(* The stacks of the tokeniser.                                              *)

Places(s, b) == {i \in 1 .. Len(s) : s[i] = b}
Count(s, b)  == Cardinality(Places(s, b))

LEMMA PlacesFinite ==
  ASSUME NEW s, IsSequence(s), NEW b
  PROVE  IsFiniteSet(Places(s, b)) /\ Count(s, b) \in Nat
<1>1. IsFiniteSet(1 .. Len(s))
  BY SequenceLength, FS_Interval
<1>2. IsFiniteSet(Places(s, b))
  BY <1>1, FS_Subset DEF Places
<1>3. QED
  BY <1>2, FS_CardinalityType DEF Count

LEMMA CountEmpty == \A b : Count(<<>>, b) = 0
<1>1. \A b : Places(<<>>, b) = {}
  BY EmptySequence DEF Places
<1>2. QED
  BY <1>1, FS_EmptySet DEF Count

LEMMA CountLast ==
  ASSUME NEW s, IsSequence(s), s # <<>>
  PROVE  Count(s, Last(s)) # 0
<1>1. Len(s) \in 1 .. Len(s)
  BY SequenceLength
<1>2. Len(s) \in Places(s, Last(s))
  BY <1>1 DEF Places, Last
<1>3. QED
  BY <1>2, PlacesFinite, FS_EmptySet DEF Count

LEMMA CountAppend ==
  ASSUME NEW s, IsSequence(s), NEW e, NEW b
  PROVE  Count(Append(s, e), b) = IF e = b THEN Count(s, b) + 1 ELSE Count(s, b)
<1> DEFINE n == Len(s)
           t == Append(s, e)
<1>1. n \in Nat
  BY SequenceLength
<1>2. Len(t) = n + 1 /\ (\A i \in 1 .. n : t[i] = s[i]) /\ t[n + 1] = e
  BY AppendSequence
<1> HIDE DEF t
<1>3. 1 .. Len(t) = (1 .. n) \union {n + 1} /\ n + 1 \notin 1 .. n
  BY <1>1, <1>2
<1>4. Places(t, b) = IF e = b THEN Places(s, b) \union {n + 1} ELSE Places(s, b)
  BY <1>2, <1>3 DEF Places
<1>5. n + 1 \notin Places(s, b)
  BY <1>3 DEF Places
<1>6. IsFiniteSet(Places(s, b))
  BY PlacesFinite
<1>7. Cardinality(Places(s, b) \union {n + 1}) = Cardinality(Places(s, b)) + 1
  BY <1>5, <1>6, FS_AddElement
<1>8. QED
  BY <1>4, <1>7 DEF Count, t

LEMMA CountFront ==
  ASSUME NEW s, IsSequence(s), s # <<>>, NEW b
  PROVE  Count(Front(s), b) = IF Last(s) = b THEN Count(s, b) - 1 ELSE Count(s, b)
<1> DEFINE n == Len(s)
           t == Front(s)
<1>1. n \in Nat \ {0}
  BY SequenceLength
<1>2. Len(t) = n - 1 /\ (\A i \in 1 .. n - 1 : t[i] = s[i])
  BY FrontSequence
<1> HIDE DEF t
<1>3. 1 .. n = (1 .. n - 1) \union {n} /\ n \notin 1 .. n - 1
  BY <1>1
<1>4. Places(t, b) = Places(s, b) \ {n}
  BY <1>2, <1>3 DEF Places
<1>5. n \in Places(s, b) <=> Last(s) = b
  BY <1>3 DEF Places, Last
<1>6. IsFiniteSet(Places(s, b))
  BY PlacesFinite
<1>7. Cardinality(Places(s, b) \ {n}) = IF n \in Places(s, b) THEN Cardinality(Places(s, b)) - 1
                                                             ELSE Cardinality(Places(s, b))
  BY <1>6, FS_RemoveElement
<1>8. QED
  BY <1>4, <1>5, <1>7 DEF Count, t

\* What BracketsAgree says, of any three stacks and the flag.
Agree(modes, exprs, lists, flag) ==
    /\ IsSequence(modes) /\ IsSequence(exprs) /\ IsSequence(lists)
    /\ Count(modes, "}") = Len(exprs)
    /\ Count(modes, ")") = Len(lists)
    /\ flag = (modes # <<>> /\ Last(modes) = "}")

LEMMA InsideAgrees ==
  ASSUME NEW modes, NEW exprs, IsSequence(modes), IsSequence(exprs),
         Count(modes, "}") = Len(exprs)
  PROVE  Inside(exprs, modes) = (modes # <<>> /\ Last(modes) = "}")
<1>1. Len(modes) \in Nat /\ (modes = <<>> <=> Len(modes) = 0)
  BY SequenceLength
<1>2. exprs = <<>> <=> Len(exprs) = 0
  BY SequenceLength
<1>3. modes = <<>> => exprs = <<>>
  BY <1>2, CountEmpty
<1>4. modes # <<>> /\ Last(modes) = "}" => exprs # <<>>
  BY <1>2, CountLast
<1>5. QED
  BY <1>3, <1>4 DEF Inside

NestInv == Agree(modes_stack, expressions_started, arg_lists_started, in_expression)

LEMMA NestInvMeans == NestInv => BracketsAgree
  BY DEF NestInv, Agree, BracketsAgree, Brackets, Count, Places

LEMMA NestInvInit == Init => NestInv
<1>1. Count(<<>>, "}") = 0 /\ Count(<<>>, ")") = 0
  BY CountEmpty
<1>2. QED
  BY <1>1, EmptySequence DEF Init, TokInit, NestInv, Agree

LEMMA NestInvOpenList ==
  ASSUME NestInv, OpenList
  PROVE  NestInv'
<1>1. modes_stack' = Append(modes_stack, ")") /\ expressions_started' = expressions_started
      /\ arg_lists_started' = Append(arg_lists_started, line_num) /\ in_expression' = FALSE
  BY DEF OpenList
<1>2. /\ IsSequence(modes_stack') /\ Len(modes_stack') = Len(modes_stack) + 1
      /\ modes_stack'[Len(modes_stack) + 1] = ")"
  BY <1>1, AppendSequence DEF NestInv, Agree
<1>3. Last(modes_stack') # "}"
  BY <1>2 DEF Last
<1>4. Count(modes_stack', "}") = Len(expressions_started')
  BY <1>1, CountAppend, ")" # "}" DEF NestInv, Agree
<1>5. IsSequence(arg_lists_started') /\ Len(arg_lists_started') = Len(arg_lists_started) + 1
  BY <1>1, AppendSequence DEF NestInv, Agree
<1>6. Count(modes_stack', ")") = Len(arg_lists_started')
  <2>1. Count(modes_stack', ")") = Count(modes_stack, ")") + 1
    BY <1>1, CountAppend DEF NestInv, Agree
  <2>2. QED
    BY <2>1, <1>5 DEF NestInv, Agree
<1>7. QED
  BY <1>1, <1>2, <1>3, <1>4, <1>5, <1>6 DEF NestInv, Agree

LEMMA NestInvOpenExpression ==
  ASSUME NestInv, OpenExpression
  PROVE  NestInv'
<1>1. modes_stack' = Append(modes_stack, "}") /\ arg_lists_started' = arg_lists_started
      /\ expressions_started' = Append(expressions_started, line_num) /\ in_expression' = TRUE
  BY DEF OpenExpression
<1>2. /\ IsSequence(modes_stack') /\ Len(modes_stack') = Len(modes_stack) + 1
      /\ modes_stack'[Len(modes_stack) + 1] = "}"
  BY <1>1, AppendSequence DEF NestInv, Agree
<1>3. modes_stack' # <<>> /\ Last(modes_stack') = "}"
  <2>1. Last(modes_stack') = "}"
    BY <1>2 DEF Last
  <2>2. Len(modes_stack) \in Nat
    BY SequenceLength DEF NestInv, Agree
  <2>3. Len(modes_stack') = Len(modes_stack) + 1
    BY <1>2
  <2>4. modes_stack' # <<>>
    BY <2>2, <2>3, EmptySequence
  <2>5. QED
    BY <2>1, <2>4
<1>4. Count(modes_stack', ")") = Len(arg_lists_started')
  BY <1>1, CountAppend, ")" # "}" DEF NestInv, Agree
<1>5. IsSequence(expressions_started') /\ Len(expressions_started') = Len(expressions_started) + 1
  BY <1>1, AppendSequence DEF NestInv, Agree
<1>6. Count(modes_stack', "}") = Len(expressions_started')
  <2>1. Count(modes_stack', "}") = Count(modes_stack, "}") + 1
    BY <1>1, CountAppend DEF NestInv, Agree
  <2>2. QED
    BY <2>1, <1>5 DEF NestInv, Agree
<1>7. QED
  BY <1>1, <1>2, <1>3, <1>4, <1>5, <1>6 DEF NestInv, Agree

LEMMA NestInvCloseList ==
  ASSUME NestInv, CloseList
  PROVE  NestInv'
<1>1. arg_lists_started # <<>> /\ expressions_started' = expressions_started
      /\ in_expression' = Inside(expressions_started, modes_stack')
  BY DEF CloseList
<1>2. /\ IsSequence(modes_stack) /\ IsSequence(expressions_started) /\ IsSequence(arg_lists_started)
      /\ Count(modes_stack, "}") = Len(expressions_started)
      /\ Count(modes_stack, ")") = Len(arg_lists_started)
  BY DEF NestInv, Agree
<1>3. modes_stack # <<>>
  <2>1. Count(modes_stack, ")") # 0
    BY <1>1, <1>2, SequenceLength
  <2>2. QED
    BY <2>1, CountEmpty
<1>4. CASE Last(modes_stack) = ")"
  <2>1. arg_lists_started' = Front(arg_lists_started) /\ modes_stack' = Front(modes_stack)
    BY <1>4 DEF CloseList
  <2>2. IsSequence(modes_stack') /\ IsSequence(arg_lists_started')
        /\ Len(arg_lists_started') = Len(arg_lists_started) - 1
    BY <2>1, <1>1, <1>2, <1>3, FrontSequence
  <2>3. Count(modes_stack', "}") = Count(modes_stack, "}")
    BY <2>1, <1>2, <1>3, <1>4, CountFront, ")" # "}"
  <2>4. Count(modes_stack', ")") = Count(modes_stack, ")") - 1
    BY <2>1, <1>2, <1>3, <1>4, CountFront
  <2>5. in_expression' = (modes_stack' # <<>> /\ Last(modes_stack') = "}")
    BY <2>2, <2>3, <1>1, <1>2, InsideAgrees
  <2>6. QED
    BY <2>2, <2>3, <2>4, <2>5, <1>1, <1>2 DEF NestInv, Agree
<1>5. CASE Last(modes_stack) # ")"
  <2>1. arg_lists_started' = arg_lists_started /\ modes_stack' = modes_stack
    BY <1>5 DEF CloseList
  <2>2. in_expression' = (modes_stack' # <<>> /\ Last(modes_stack') = "}")
    BY <2>1, <1>1, <1>2, InsideAgrees
  <2>3. QED
    BY <2>1, <2>2, <1>1, <1>2 DEF NestInv, Agree
<1>6. QED
  BY <1>4, <1>5

LEMMA NestInvCloseExpression ==
  ASSUME NestInv, CloseExpression
  PROVE  NestInv'
<1>1. expressions_started # <<>> /\ arg_lists_started' = arg_lists_started
      /\ in_expression' = Inside(expressions_started', modes_stack')
  BY DEF CloseExpression
<1>2. /\ IsSequence(modes_stack) /\ IsSequence(expressions_started) /\ IsSequence(arg_lists_started)
      /\ Count(modes_stack, "}") = Len(expressions_started)
      /\ Count(modes_stack, ")") = Len(arg_lists_started)
  BY DEF NestInv, Agree
<1>3. modes_stack # <<>>
  <2>1. Count(modes_stack, "}") # 0
    BY <1>1, <1>2, SequenceLength
  <2>2. QED
    BY <2>1, CountEmpty
<1>4. CASE Last(modes_stack) = "}"
  <2>1. expressions_started' = Front(expressions_started) /\ modes_stack' = Front(modes_stack)
    BY <1>4 DEF CloseExpression
  <2>2. IsSequence(modes_stack') /\ IsSequence(expressions_started')
        /\ Len(expressions_started') = Len(expressions_started) - 1
    BY <2>1, <1>1, <1>2, <1>3, FrontSequence
  <2>3. Count(modes_stack', ")") = Count(modes_stack, ")")
    BY <2>1, <1>2, <1>3, <1>4, CountFront, ")" # "}"
  <2>4. Count(modes_stack', "}") = Count(modes_stack, "}") - 1
    BY <2>1, <1>2, <1>3, <1>4, CountFront
  <2>5. in_expression' = (modes_stack' # <<>> /\ Last(modes_stack') = "}")
    BY <2>2, <2>4, <1>1, <1>2, InsideAgrees
  <2>6. QED
    BY <2>2, <2>3, <2>4, <2>5, <1>1, <1>2 DEF NestInv, Agree
<1>5. CASE Last(modes_stack) # "}"
  <2>1. expressions_started' = expressions_started /\ modes_stack' = modes_stack
    BY <1>5 DEF CloseExpression
  <2>2. in_expression' = (modes_stack' # <<>> /\ Last(modes_stack') = "}")
    BY <2>1, <1>1, <1>2, InsideAgrees
  <2>3. QED
    BY <2>1, <2>2, <1>1, <1>2 DEF NestInv, Agree
<1>6. QED
  BY <1>4, <1>5

LEMMA NestInvTok ==
  ASSUME NestInv, TokNext
  PROVE  NestInv'
<1>1. CASE OpenList
  BY <1>1, NestInvOpenList
<1>2. CASE OpenExpression
  BY <1>2, NestInvOpenExpression
<1>3. CASE CloseList
  BY <1>3, NestInvCloseList
<1>4. CASE CloseExpression
  BY <1>4, NestInvCloseExpression
<1>5. ASSUME ~OpenList, ~OpenExpression, ~CloseList, ~CloseExpression
      PROVE  UNCHANGED nestVars
  <2> USE DEF SameMode, Stray
  <2>1. CASE StringEnd \/ StringText \/ CommentEnd \/ CommentText
    BY <2>1 DEF StringEnd, StringText, CommentEnd, CommentText
  <2>2. CASE Operator \/ LineComment \/ Slash \/ Quote \/ Blank \/ CloseNothing
    BY <2>2 DEF Operator, LineComment, Slash, Quote, Blank, CloseNothing
  <2>3. CASE Number \/ Minus \/ Register \/ Identifier
    BY <2>3 DEF Number, Minus, Register, Identifier
  <2>4. CASE Dot \/ Colon \/ Comma \/ PrefixOperator \/ Directive \/ DefineOrVariable
    BY <2>4 DEF Dot, Colon, Comma, PrefixOperator, Directive, DefineOrVariable
  <2>5. CASE MacroParameter \/ Macro \/ StrayCharacter \/ EndOfFile
    BY <2>5 DEF MacroParameter, Macro, StrayCharacter, EndOfFile, tokVars
  <2>6. QED
    BY <2>1, <2>2, <2>3, <2>4, <2>5, <1>5 DEF TokNext
<1>6. UNCHANGED nestVars => NestInv'
  BY DEF NestInv, nestVars
<1>7. QED
  BY <1>1, <1>2, <1>3, <1>4, <1>5, <1>6

LEMMA NestInvStep ==
  ASSUME NestInv, [Next]_vars
  PROVE  NestInv'
<1>1. CASE Tokenizing
  BY <1>1, NestInvTok DEF Tokenizing
<1>2. ASSUME ~Tokenizing
      PROVE  UNCHANGED nestVars
  BY <1>2 DEF Next, Step, Exited, VerifyingStep, Preprocessing, Encoding, Saving, vars, tokVars
<1>3. UNCHANGED nestVars => NestInv'
  BY DEF NestInv, nestVars
<1>4. QED
  BY <1>1, <1>2, <1>3

\* However brackets are mixed up, the stack of modes holds as many of each kind
\* as the two stacks of lines, so that tokenize() takes .back() of none that is
\* empty, and knows whether it is in an expression.
THEOREM StacksAgree == Spec => []BracketsAgree
<1>1. Init => NestInv
  BY NestInvInit
<1>2. NestInv /\ [Next]_vars => NestInv'
  BY NestInvStep
<1>3. NestInv => BracketsAgree
  BY NestInvMeans
<1>4. QED
  BY <1>1, <1>2, <1>3, PTL DEF Spec

-----------------------------------------------------------------------------
(* Repetitions.                                                              *)

RepInv == IsSequence(rps_depth) /\ IsSequence(rps_to_repeat) /\ CountsForStarts

LEMMA RepInvInit == Init => RepInv
  BY EmptySequence DEF Init, PreInit, RepInv, CountsForStarts

LEMMA RepInvRepeat ==
  ASSUME RepInv, Repeat
  PROVE  RepInv'
<1>1. PICK v \in {ValueAt(tid + 1)} :
          IF v.val <= 0
          THEN pmode' = "skip_rep" /\ UNCHANGED <<rps_depth, rps_to_repeat>>
          ELSE /\ rps_depth' = Append(rps_depth, v.tid)
               /\ rps_to_repeat' = Append(rps_to_repeat, v.val - 1)
               /\ UNCHANGED pmode
  BY DEF Repeat
<1>2. CASE pmode' = "skip_rep" /\ UNCHANGED <<rps_depth, rps_to_repeat>>
  BY <1>2 DEF RepInv, CountsForStarts
<1>3. CASE /\ rps_depth' = Append(rps_depth, v.tid)
           /\ rps_to_repeat' = Append(rps_to_repeat, v.val - 1)
           /\ UNCHANGED pmode
  <2>1. IsSequence(rps_depth') /\ Len(rps_depth') = Len(rps_depth) + 1
    BY <1>3, AppendSequence DEF RepInv
  <2>2. IsSequence(rps_to_repeat') /\ Len(rps_to_repeat') = Len(rps_to_repeat) + 1
    BY <1>3, AppendSequence DEF RepInv
  <2>3. Len(rps_depth) \in Nat /\ Len(rps_to_repeat) \in Nat
    BY SequenceLength DEF RepInv
  <2>4. CountsForStarts'
    BY <1>3, <2>1, <2>2, <2>3 DEF RepInv, CountsForStarts
  <2>5. QED
    BY <2>1, <2>2, <2>4 DEF RepInv
<1>4. QED
  BY <1>1, <1>2, <1>3

LEMMA RepInvPassRepeat ==
  ASSUME RepInv, PassRepeat
  PROVE  RepInv'
<1> DEFINE last == IsDir(This, "rpe") /\ rps_depth = <<>>
<1>1. /\ pmode' = IF last THEN "run" ELSE "skip_rep"
      /\ rps_depth' = CASE IsDir(This, "rps") -> Append(rps_depth, tid + 1)
                        [] IsDir(This, "rpe") /\ ~last -> Front(rps_depth)
                        [] OTHER -> rps_depth
      /\ rps_to_repeat' = rps_to_repeat
  BY DEF PassRepeat
<1>2. ~(IsDir(This, "rps") /\ IsDir(This, "rpe"))
  BY DEF IsDir
<1>3. CASE IsDir(This, "rps")
  <2>1. rps_depth' = Append(rps_depth, tid + 1) /\ pmode' = "skip_rep"
    BY <1>1, <1>2, <1>3
  <2>2. QED
    BY <2>1, <1>1, AppendSequence DEF RepInv, CountsForStarts
<1>4. CASE IsDir(This, "rpe") /\ ~last
  <2>1. rps_depth' = Front(rps_depth) /\ rps_depth # <<>> /\ pmode' = "skip_rep"
    BY <1>1, <1>2, <1>4
  <2>2. QED
    BY <2>1, <1>1, FrontSequence DEF RepInv, CountsForStarts
<1>5. CASE ~IsDir(This, "rps") /\ ~(IsDir(This, "rpe") /\ ~last)
  <2>1. rps_depth' = rps_depth /\ (pmode' = "skip_rep" \/ rps_depth = <<>>)
    BY <1>1, <1>5
  <2>2. Len(rps_to_repeat) \in Nat /\ Len(<<>>) = 0
    BY SequenceLength, EmptySequence DEF RepInv
  <2>3. QED
    BY <2>1, <2>2, <1>1 DEF RepInv, CountsForStarts
<1>6. QED
  BY <1>3, <1>4, <1>5

LEMMA RepInvRepeatEnd ==
  ASSUME RepInv, RepeatEnd
  PROVE  RepInv'
<1>1. pmode = "run" /\ pmode' = "run" /\ Len(rps_depth) <= Len(rps_to_repeat)
  BY DEF RepeatEnd, At, In, RepInv, CountsForStarts
<1>2. /\ IsSequence(rps_depth) /\ IsSequence(rps_to_repeat)
      /\ Len(rps_depth) \in Nat /\ Len(rps_to_repeat) \in Nat
  BY SequenceLength DEF RepInv
<1>3. CASE rps_depth = <<>>
  <2>1. UNCHANGED <<rps_depth, rps_to_repeat>>
    BY <1>3 DEF RepeatEnd
  <2>2. QED
    BY <2>1, <1>1 DEF RepInv, CountsForStarts
<1>4. CASE rps_depth # <<>>
  <2>1. Len(rps_depth) # 0
    BY <1>2, <1>4, SequenceLength
  <2>2. rps_to_repeat # <<>>
    BY <2>1, <1>1, <1>2, EmptySequence
  <2>3. IsSequence(Front(rps_to_repeat)) /\ Len(Front(rps_to_repeat)) = Len(rps_to_repeat) - 1
    BY <2>2, <1>2, FrontSequence
  <2>4. CASE Last(rps_to_repeat) > 0
    <3>1. /\ rps_depth' = rps_depth
          /\ rps_to_repeat' = Append(Front(rps_to_repeat), Last(rps_to_repeat) - 1)
      BY <1>4, <2>4 DEF RepeatEnd
    <3>2. IsSequence(rps_to_repeat') /\ Len(rps_to_repeat') = Len(Front(rps_to_repeat)) + 1
      BY <3>1, <2>3, AppendSequence
    <3>3. Len(rps_to_repeat') = Len(rps_to_repeat)
      BY <3>2, <2>3, <1>2
    <3>4. QED
      BY <3>1, <3>2, <3>3, <1>1, <1>2 DEF RepInv, CountsForStarts
  <2>5. CASE ~(Last(rps_to_repeat) > 0)
    <3>1. rps_depth' = Front(rps_depth) /\ rps_to_repeat' = Front(rps_to_repeat)
      BY <1>4, <2>5 DEF RepeatEnd
    <3>2. IsSequence(rps_depth') /\ Len(rps_depth') = Len(rps_depth) - 1
      BY <3>1, <1>2, <1>4, FrontSequence
    <3>3. QED
      BY <3>1, <3>2, <2>3, <1>1, <1>2 DEF RepInv, CountsForStarts
  <2>6. QED
    BY <2>4, <2>5
<1>5. QED
  BY <1>3, <1>4

\* The steps of preprocess() that leave open repetitions alone leave pmode alone
\* too, or go between the modes in which the invariant says the same.
LEMMA RepInvPre ==
  ASSUME RepInv, PreNext
  PROVE  RepInv'
<1>1. CASE Repeat
  BY <1>1, RepInvRepeat
<1>2. CASE PassRepeat
  BY <1>2, RepInvPassRepeat
<1>3. CASE RepeatEnd
  BY <1>3, RepInvRepeatEnd
<1>4. ASSUME ~Repeat, ~PassRepeat, ~RepeatEnd
      PROVE  /\ UNCHANGED <<rps_depth, rps_to_repeat>>
             /\ pmode' = pmode \/ pmode # "skip_rep"
  <2> USE DEF preVars, blockVars, In, At
  <2>1. CASE ValueFatal \/ PreprocessEnd
    BY <2>1 DEF ValueFatal, PreprocessEnd
  <2>2. CASE EmitWord \/ EmitOther \/ EmitAddress \/ EmitConstant
    BY <2>2 DEF EmitWord, EmitOther, EmitAddress, EmitConstant
  <2>3. CASE UseLabel \/ UseSpecialLabel \/ DefineLabel
    BY <2>3 DEF UseLabel, UseSpecialLabel, DefineLabel
  <2>4. CASE SetAddress \/ Align \/ AssignVariable \/ DefineConstant
    BY <2>4 DEF SetAddress, Align, AssignVariable, DefineConstant
  <2>5. CASE PrintMessage \/ MisplacedDirective
    BY <2>5 DEF PrintMessage, MisplacedDirective
  <2>6. CASE If
    BY <2>6 DEF If
  <2>7. CASE PassIf
    BY <2>7 DEF PassIf
  <2>8. CASE StrayBranch \/ Branch \/ PassBranch \/ EndIf
    BY <2>8 DEF StrayBranch, Branch, PassBranch, EndIf
  <2>9. QED
    BY <2>1, <2>2, <2>3, <2>4, <2>5, <2>6, <2>7, <2>8, <1>4 DEF PreNext
<1>5. QED
  BY <1>1, <1>2, <1>3, <1>4 DEF RepInv, CountsForStarts

LEMMA RepInvStep ==
  ASSUME RepInv, [Next]_vars
  PROVE  RepInv'
<1>1. CASE Preprocessing
  BY <1>1, RepInvPre DEF Preprocessing
<1>2. ASSUME ~Preprocessing
      PROVE  UNCHANGED <<rps_depth, rps_to_repeat, pmode>>
  BY <1>2 DEF Next, Step, Exited, Tokenizing, VerifyingStep, Encoding, Saving, vars, preVars, blockVars
<1>3. QED
  BY <1>1, <1>2 DEF RepInv, CountsForStarts

\* preprocess() has a count for every repetition that is open while tokens are
\* carried out, though the loop over an unwanted one pushes places alone.
THEOREM CountsSuffice == Spec => []CountsForStarts
<1>1. Init => RepInv
  BY RepInvInit
<1>2. RepInv /\ [Next]_vars => RepInv'
  BY RepInvStep
<1>3. RepInv => CountsForStarts
  BY DEF RepInv
<1>4. QED
  BY <1>1, <1>2, <1>3, PTL DEF Spec

-----------------------------------------------------------------------------
(* Labels.                                                                   *)

\* A token is not a special label, or one with a place next to known labels.
InRange(token, known) == Is(token, "slb") => token.val \in -1 .. Len(known)
AllInRange(toks, known) == \A i \in 1 .. Len(toks) : InRange(toks[i], known)

LabelInv ==
    /\ IsSequence(labels)
    /\ phase \in {"preprocess", "code_gen"} => IsSequence(tokens)
    /\ SpecialLabelsInRange

LEMMA LabelInvMeans ==
  LabelInv <=> /\ IsSequence(labels)
               /\ current_label = Len(labels) - 1
               /\ phase \in {"preprocess", "code_gen"} =>
                     IsSequence(tokens) /\ AllInRange(tokens, labels)
  BY DEF LabelInv, SpecialLabelsInRange, AllInRange, InRange

LEMMA LabelInvInit == Init => LabelInv
  BY EmptySequence DEF Init, PreInit, LabelInv, SpecialLabelsInRange

LEMMA OneToken ==
  ASSUME NEW t
  PROVE  IsSequence(<<t>>) /\ Len(<<t>>) = 1 /\ <<t>>[1] = t
<1>1. <<t>> \in Seq({t})
  OBVIOUS
<1>2. QED
  BY <1>1 DEF IsSequence

LEMMA TwoTokens ==
  ASSUME NEW t, NEW u
  PROVE  /\ IsSequence(<<t, u>>) /\ Len(<<t, u>>) = 2
         /\ <<t, u>>[1] = t /\ <<t, u>>[2] = u
<1>1. <<t, u>> \in Seq({t, u})
  OBVIOUS
<1>2. QED
  BY <1>1 DEF IsSequence

\* Writing tokens that are in range keeps all in range.
LEMMA WriteInRange ==
  ASSUME IsSequence(tokens), AllInRange(tokens, labels),
         NEW toks, IsSequence(toks), AllInRange(toks, labels),
         tokens' = tokens \o toks, labels' = labels
  PROVE  IsSequence(tokens') /\ AllInRange(tokens', labels')
<1> DEFINE n == Len(tokens)
           m == Len(toks)
<1>1. n \in Nat /\ m \in Nat
  BY SequenceLength
<1>2. /\ IsSequence(tokens') /\ Len(tokens') = n + m
      /\ \A i \in 1 .. n : tokens'[i] = tokens[i]
      /\ \A i \in 1 .. m : tokens'[n + i] = toks[i]
  BY ConcatSequence
<1>3. ASSUME NEW i \in 1 .. n + m
      PROVE  InRange(tokens'[i], labels)
  <2>1. CASE i \in 1 .. n
    BY <2>1, <1>2 DEF AllInRange
  <2>2. CASE i \notin 1 .. n
    <3>1. i - n \in 1 .. m /\ n + (i - n) = i
      BY <2>2, <1>1
    <3>2. tokens'[i] = toks[i - n]
      BY <3>1, <1>2
    <3>3. QED
      BY <3>1, <3>2 DEF AllInRange
  <2>3. QED
    BY <2>1, <2>2
<1>4. QED
  BY <1>2, <1>3 DEF AllInRange

LEMMA WriteOne ==
  ASSUME IsSequence(tokens), AllInRange(tokens, labels),
         NEW t, InRange(t, labels), tokens' = tokens \o <<t>>, labels' = labels
  PROVE  IsSequence(tokens') /\ AllInRange(tokens', labels')
<1>1. IsSequence(<<t>>)
  BY OneToken
<1>2. AllInRange(<<t>>, labels)
  BY OneToken DEF AllInRange
<1>3. QED
  BY <1>1, <1>2, WriteInRange

LEMMA WriteTwo ==
  ASSUME IsSequence(tokens), AllInRange(tokens, labels),
         NEW t, InRange(t, labels), NEW u, InRange(u, labels),
         tokens' = tokens \o <<t, u>>, labels' = labels
  PROVE  IsSequence(tokens') /\ AllInRange(tokens', labels')
<1>1. IsSequence(<<t, u>>)
  BY TwoTokens
<1>2. AllInRange(<<t, u>>, labels)
  BY TwoTokens DEF AllInRange
<1>3. QED
  BY <1>1, <1>2, WriteInRange

LEMMA WriteNone ==
  ASSUME IsSequence(tokens), tokens' = tokens \o <<>>
  PROVE  tokens' = tokens
<1>1. PICK S : tokens \in Seq(S)
  BY DEF IsSequence
<1>2. QED
  BY <1>1, ConcatEmptySeq

LEMMA NumInRange ==
  ASSUME NEW v, NEW l, NEW known
  PROVE  InRange(Token("num", v, l), known) /\ InRange(Token("ulb", v, l), known)
  BY DEF InRange, Is, Token

\* What LabelInv says while preprocess() runs, and of the step after it.
Ranged == /\ IsSequence(labels) /\ current_label = Len(labels) - 1
          /\ IsSequence(tokens) /\ AllInRange(tokens, labels)

LEMMA RangedDefineLabel ==
  ASSUME Ranged, DefineLabel
  PROVE  Ranged'
<1>1. PICK e : labels' = Append(labels, e)
  BY DEF DefineLabel
<1>2. current_label' = current_label + 1 /\ tokens' = tokens
  BY WriteNone DEF DefineLabel, Move, Write, Ranged
<1>3. IsSequence(labels') /\ Len(labels') = Len(labels) + 1 /\ Len(labels) \in Nat
  BY <1>1, AppendSequence, SequenceLength DEF Ranged
<1>4. AllInRange(tokens, labels')
  BY <1>3 DEF Ranged, AllInRange, InRange
<1>5. QED
  BY <1>2, <1>3, <1>4 DEF Ranged

LEMMA RangedUseSpecialLabel ==
  ASSUME Ranged, UseSpecialLabel
  PROVE  Ranged'
<1> DEFINE place == IF This.val = "<" THEN current_label ELSE current_label + 1
           t == Token("slb", place, This.line)
<1>1. tokens' = tokens \o <<t>> /\ UNCHANGED <<labels, current_label>>
  BY DEF UseSpecialLabel, Write, preVars, labelVars
<1>2. Len(labels) \in Nat
  BY SequenceLength DEF Ranged
<1>3. place \in -1 .. Len(labels)
  BY <1>2 DEF Ranged
<1>4. t.val = place
  BY DEF Token
<1> HIDE DEF t, place
<1>5. InRange(t, labels)
  BY <1>3, <1>4 DEF InRange
<1>6. QED
  BY <1>1, <1>5, WriteOne DEF Ranged

LEMMA RangedSetAddress ==
  ASSUME Ranged, SetAddress
  PROVE  Ranged'
<1>1. PICK v, l : tokens' = tokens \o <<This, Token("num", v, l)>>
  BY DEF SetAddress, Write
<1>2. UNCHANGED <<labels, current_label>> /\ This.type = "dir"
  BY DEF SetAddress, labelVars, At, IsDir, Is
<1>3. InRange(This, labels) /\ InRange(Token("num", v, l), labels)
  BY <1>2, NumInRange DEF InRange, Is
<1>4. QED
  BY <1>1, <1>2, <1>3, WriteTwo DEF Ranged

LEMMA RangedAlign ==
  ASSUME Ranged, Align
  PROVE  Ranged'
<1>1. PICK v, l : tokens' = tokens \o <<This, Token("num", v, l)>>
  BY DEF Align, Write
<1>2. UNCHANGED <<labels, current_label>> /\ This.type = "dir"
  BY DEF Align, labelVars, At, IsDir, Is
<1>3. InRange(This, labels) /\ InRange(Token("num", v, l), labels)
  BY <1>2, NumInRange DEF InRange, Is
<1>4. QED
  BY <1>1, <1>2, <1>3, WriteTwo DEF Ranged

LEMMA RangedEmit ==
  ASSUME Ranged, EmitWord \/ EmitOther \/ EmitAddress \/ EmitConstant \/ UseLabel
  PROVE  Ranged'
<1>1. UNCHANGED <<labels, current_label>>
  BY DEF EmitWord, EmitOther, EmitAddress, EmitConstant, UseLabel, preVars, labelVars
<1>2. CASE EmitWord \/ EmitOther
  <2>1. tokens' = tokens \o <<This>> /\ ~Is(This, "slb")
    BY <1>2 DEF EmitWord, EmitOther, Write, IsDir, Is
  <2>2. QED
    BY <2>1, <1>1, WriteOne DEF Ranged, InRange
<1>3. CASE EmitAddress \/ EmitConstant
  <2>1. PICK v : tokens' = tokens \o <<Token("num", v, This.line)>>
    BY <1>3 DEF EmitAddress, EmitConstant, Write
  <2>2. QED
    BY <2>1, <1>1, NumInRange, WriteOne DEF Ranged
<1>4. CASE UseLabel
  <2>1. PICK v : tokens' = tokens \o <<Token("ulb", v, This.line)>>
    BY <1>4 DEF UseLabel, Write
  <2>2. QED
    BY <2>1, <1>1, NumInRange, WriteOne DEF Ranged
<1>5. QED
  BY <1>2, <1>3, <1>4

\* Whatever is left writes no token.
LEMMA RangedRest ==
  ASSUME Ranged, PreNext, ~DefineLabel, ~UseSpecialLabel, ~SetAddress, ~Align,
         ~(EmitWord \/ EmitOther \/ EmitAddress \/ EmitConstant \/ UseLabel)
  PROVE  Ranged'
<1>1. UNCHANGED <<labels, current_label>>
      /\ (tokens' = tokens \/ tokens' = tokens \o <<>>)
  <2> USE DEF preVars, labelVars, Move, Write, Goto
  <2>1. CASE ValueFatal \/ PreprocessEnd
    BY <2>1 DEF ValueFatal, PreprocessEnd
  <2>2. CASE AssignVariable \/ DefineConstant
    BY <2>2 DEF AssignVariable, DefineConstant
  <2>3. CASE PrintMessage \/ MisplacedDirective
    BY <2>3 DEF PrintMessage, MisplacedDirective
  <2>4. CASE If
    BY <2>4 DEF If
  <2>5. CASE PassIf
    BY <2>5 DEF PassIf
  <2>6. CASE StrayBranch \/ Branch \/ PassBranch \/ EndIf
    BY <2>6 DEF StrayBranch, Branch, PassBranch, EndIf
  <2>7. CASE Repeat
    BY <2>7 DEF Repeat
  <2>8. CASE PassRepeat \/ RepeatEnd
    BY <2>8 DEF PassRepeat, RepeatEnd
  <2>9. QED
    BY <2>1, <2>2, <2>3, <2>4, <2>5, <2>6, <2>7, <2>8 DEF PreNext
<1>2. tokens' = tokens
  BY <1>1, WriteNone DEF Ranged
<1>3. QED
  BY <1>1, <1>2 DEF Ranged

LEMMA LabelInvStep ==
  ASSUME LabelInv, [Next]_vars
  PROVE  LabelInv'
<1> DEFINE Holds == /\ IsSequence(labels)
                    /\ current_label = Len(labels) - 1
                    /\ phase \in {"preprocess", "code_gen"} =>
                          IsSequence(tokens) /\ AllInRange(tokens, labels)
<1>1. Holds
  BY LabelInvMeans
<1>2. CASE Tokenizing
  <2>1. UNCHANGED <<labels, current_label>> /\ phase' \notin {"preprocess", "code_gen"}
    BY <1>2, TokKeeps DEF Tokenizing, preVars, labelVars
  <2>2. QED
    BY <1>1, <2>1 DEF LabelInv, SpecialLabelsInRange
<1>3. CASE VerifyingStep
  <2>1. /\ UNCHANGED <<labels, current_label>> /\ phase' # "code_gen"
        /\ phase' = "preprocess" => tokens' = <<>>
    BY <1>3, VerKeeps DEF VerifyingStep, preVars, labelVars
  <2>2. IsSequence(<<>>) /\ AllInRange(<<>>, labels)
    BY EmptySequence DEF AllInRange
  <2>3. Holds'
    BY <1>1, <2>1, <2>2
  <2>4. QED
    BY <2>3 DEF LabelInv, SpecialLabelsInRange, AllInRange, InRange
<1>4. CASE Preprocessing
  <2>1. Ranged
    BY <1>1, <1>4, PreKeeps DEF Preprocessing, Ranged
  <2>2. Ranged'
    BY <1>4, <2>1, RangedDefineLabel, RangedUseSpecialLabel, RangedSetAddress, RangedAlign,
       RangedEmit, RangedRest DEF Preprocessing
  <2>3. QED
    BY <2>2 DEF Ranged, LabelInv, SpecialLabelsInRange, AllInRange, InRange
<1>5. CASE Encoding
  <2>1. UNCHANGED <<labels, current_label, tokens>> /\ phase = "code_gen"
    BY <1>5, GenKeeps DEF Encoding, preVars, labelVars
  <2>2. QED
    BY <1>1, <2>1 DEF LabelInv, SpecialLabelsInRange, AllInRange, InRange
<1>6. CASE Saving
  <2>1. UNCHANGED <<labels, current_label, tokens>>
    BY <1>6, SaveKeeps DEF Saving, preVars, labelVars
  <2>2. phase \in {"save", "symbols"} /\ phase' \notin {"preprocess", "code_gen"}
    BY <1>6, SaveKeeps DEF Saving
  <2>3. QED
    BY <1>1, <2>1, <2>2 DEF LabelInv, SpecialLabelsInRange
<1>7. CASE UNCHANGED vars
  BY <1>7 DEF vars, preVars, labelVars, LabelInv, SpecialLabelsInRange
<1>8. QED
  BY <1>2, <1>3, <1>4, <1>5, <1>6, <1>7 DEF Next, Step, Exited

\* get_value() indexes the labels in range: a special label that preprocess()
\* wrote is the place of a label, -1 or the number of labels, also when more
\* labels were defined behind it.
THEOREM LabelsInRange == Spec => []SpecialLabelsInRange
<1>1. Init => LabelInv
  BY LabelInvInit
<1>2. LabelInv /\ [Next]_vars => LabelInv'
  BY LabelInvStep
<1>3. LabelInv => SpecialLabelsInRange
  BY DEF LabelInv
<1>4. QED
  BY <1>1, <1>2, <1>3, PTL DEF Spec

-----------------------------------------------------------------------------
(* The output.                                                               *)

PerRow == format.per_row

\* The rows are from the first "until" words, and leave out none but zeros.
RowsOf(rows, words, k, until) ==
    \A r \in 1 .. Len(rows) :
        /\ rows[r].at \in Nat /\ rows[r].at + k <= until
        /\ \A i \in 1 .. k : rows[r].words[i] = words[rows[r].at + i]
Covering(rows, words, k, until) ==
    \A p \in 0 .. until - 1 : words[p + 1] # 0 =>
        \E r \in 1 .. Len(rows) : rows[r].at <= p /\ p < rows[r].at + k

\* While save_instructions() formats: "size" counts the rows formatted and those
\* that are left, of which there is a whole number.
FormatInv ==
    /\ IsSequence(data) /\ IsSequence(result)
    /\ row \in Nat /\ row <= Len(result)
    /\ \E k \in Nat : Len(result) = row + k * PerRow /\ size = Len(data) + k
    /\ ~format.sparse => row = Len(data) * PerRow
    /\ RowsOf(data, result, PerRow, row)
    /\ Covering(data, result, PerRow, row)

OutputInv ==
    /\ job \in Jobs
    /\ phase \in Before => output.state = "untouched"
    /\ output.state = "untouched" => data = <<>> /\ row = 0
    /\ phase = "save" => output.state \in {"untouched", "empty"}
    /\ phase = "save" /\ output.state = "empty" => FormatInv
    /\ OutputReadsBack

LEMMA FormatKinds ==
  ASSUME job \in Jobs
  PROVE  PerRow \in {1, 2, 4, 5} /\ format.sparse \in BOOLEAN
<1>1. format \in Formats
  BY JobsAssumption DEF format
<1>2. QED
  BY <1>1 DEF Formats, PerRow

LEMMA PaddedLength ==
  ASSUME NEW words, IsSequence(words), NEW k \in {1, 2, 4, 5}
  PROVE  /\ IsSequence(Padded(words, k))
         /\ \E m \in Nat : Len(Padded(words, k)) = m * k /\ Len(Padded(words, k)) \div k = m
<1> DEFINE l == (-Len(words)) % k
           zeros == [i \in 1 .. l |-> 0]
<1>1. Len(words) \in Nat
  BY SequenceLength
<1>2. l \in Nat /\ \E m \in Nat : Len(words) + l = m * k /\ (Len(words) + l) \div k = m
  <2>1. CASE k = 1
    BY <1>1, <2>1
  <2>2. CASE k = 2
    BY <1>1, <2>2
  <2>3. CASE k = 4
    BY <1>1, <2>3
  <2>4. CASE k = 5
    BY <1>1, <2>4
  <2>5. QED
    BY <2>1, <2>2, <2>3, <2>4
<1> HIDE DEF l
<1>3. zeros \in Seq({0}) /\ Len(zeros) = l
  BY <1>2, IsASeq
<1>4. IsSequence(zeros)
  BY <1>3 DEF IsSequence
<1>5. Padded(words, k) = words \o zeros
  BY DEF Padded, l
<1> HIDE DEF zeros
<1>6. IsSequence(words \o zeros) /\ Len(words \o zeros) = Len(words) + l
  BY <1>3, <1>4, ConcatSequence
<1>7. QED
  BY <1>2, <1>5, <1>6

LEMMA OpenOutputFormats ==
  ASSUME OutputInv, TypeOK, OpenOutput, output' = File("empty", <<>>)
  PROVE  FormatInv'
<1>1. /\ result' = Padded(result, PerRow)
      /\ size' = Len(result') \div PerRow
      /\ UNCHANGED <<job, data, row>>
      /\ data = <<>> /\ row = 0
  BY DEF OpenOutput, File, saveSame, PerRow, OutputInv
<1>2. PerRow \in {1, 2, 4, 5}
  BY FormatKinds DEF OutputInv
<1>3. IsSequence(result)
  <2>1. result \in Seq(Uint16)
    BY DEF TypeOK
  <2>2. QED
    BY <2>1 DEF IsSequence
<1>4. IsSequence(result')
  BY <1>1, <1>2, <1>3, PaddedLength
<1>5. PICK m \in Nat : Len(result') = m * PerRow /\ Len(result') \div PerRow = m
  BY <1>1, <1>2, <1>3, PaddedLength
<1>6. PerRow' = PerRow /\ format' = format
  BY <1>1 DEF PerRow, format
<1>7. IsSequence(<<>>) /\ Len(<<>>) = 0
  BY EmptySequence
<1>8. RowsOf(<<>>, result', PerRow, 0) /\ Covering(<<>>, result', PerRow, 0)
  BY <1>7 DEF RowsOf, Covering
<1>9. row' \in Nat /\ row' <= Len(result') /\ m * PerRow \in Nat
  BY <1>1, <1>4, <1>5, SequenceLength
<1>10. Len(result') = row' + m * PerRow /\ size' = Len(data') + m
  BY <1>1, <1>5, <1>7, <1>9
<1>11. row' = Len(data') * PerRow
  BY <1>1, <1>2, <1>7
<1>12. QED
  BY <1>1, <1>4, <1>6, <1>7, <1>8, <1>9, <1>10, <1>11 DEF FormatInv

LEMMA RowAtIs ==
  ASSUME IsSequence(result), row \in Nat, PerRow \in Nat, row + PerRow <= Len(result)
  PROVE  \A i \in 1 .. PerRow : RowAt(row)[i] = result[row + i]
<1>1. PICK S : result \in Seq(S)
  BY DEF IsSequence
<1>2. Len(result) \in Nat
  BY <1>1
<1>3. \A i \in row + 1 .. row + PerRow : result[i] \in S
  BY <1>1, <1>2, ElementOfSeq
<1>4. \A i \in 1 .. row + PerRow - (row + 1) + 1 :
          SubSeq(result, row + 1, row + PerRow)[i] = result[row + 1 + i - 1]
  BY <1>3, SubSeqProperties
<1>5. QED
  BY <1>4 DEF RowAt, PerRow

LEMMA FormatRowFormats ==
  ASSUME OutputInv, FormatInv, FormatRow
  PROVE  FormatInv'
<1> DEFINE k == PerRow
<1>1. k \in Nat \ {0} /\ format.sparse \in BOOLEAN
  BY FormatKinds DEF OutputInv
<1>2. UNCHANGED <<job, result>> /\ row' = row + k /\ row < Len(result)
  BY DEF FormatRow, saveSame, PerRow
<1>3. k' = k /\ format' = format
  BY <1>2 DEF PerRow, format
<1> HIDE DEF k
<1>4. /\ IsSequence(data) /\ IsSequence(result) /\ row \in Nat
      /\ Len(data) \in Nat /\ Len(result) \in Nat
      /\ RowsOf(data, result, k, row) /\ Covering(data, result, k, row)
  BY SequenceLength DEF FormatInv, k
<1>5. PICK m \in Nat : Len(result) = row + m * k /\ size = Len(data) + m
  BY DEF FormatInv, k
<1>6. m # 0
  BY <1>1, <1>2, <1>4, <1>5
<1>7. m - 1 \in Nat /\ m * k = k + (m - 1) * k /\ (m - 1) * k \in Nat
  BY <1>1, <1>6
<1>8. row' \in Nat /\ row' <= Len(result) /\ Len(result) = row' + (m - 1) * k
  BY <1>1, <1>2, <1>4, <1>5, <1>7
<1>9. \A i \in 1 .. k : RowAt(row)[i] = result[row + i]
  BY <1>1, <1>2, <1>4, <1>8, RowAtIs DEF k
<1>10. CASE format.sparse /\ \A i \in 1 .. k : RowAt(row)[i] = 0
  <2>1. data' = data /\ size' = size - 1
    BY <1>10 DEF FormatRow, k, PerRow
  <2>2. RowsOf(data, result, k, row')
    BY <1>1, <1>2, <1>4 DEF RowsOf
  <2>3. Covering(data, result, k, row')
    <3>1. ASSUME NEW p \in 0 .. row' - 1, result[p + 1] # 0
          PROVE  p \in 0 .. row - 1
      <4>1. CASE p < row
        BY <4>1, <1>4
      <4>2. CASE p >= row
        <5>1. p - row + 1 \in 1 .. k /\ row + (p - row + 1) = p + 1
          BY <4>2, <1>1, <1>2, <1>4
        <5>2. RowAt(row)[p - row + 1] = result[p + 1]
          BY <5>1, <1>9
        <5>3. QED
          BY <5>1, <5>2, <3>1, <1>10
      <4>3. QED
        BY <4>1, <4>2, <1>4
    <3>2. QED
      BY <3>1, <1>4 DEF Covering
  <2>4. size' = Len(data') + (m - 1)
    BY <2>1, <1>4, <1>5, <1>7
  <2>5. QED
    BY <2>1, <2>2, <2>3, <2>4, <1>2, <1>3, <1>4, <1>7, <1>8, <1>10 DEF FormatInv, k
<1>11. CASE ~(format.sparse /\ \A i \in 1 .. k : RowAt(row)[i] = 0)
  <2> DEFINE new == [at |-> row, words |-> RowAt(row)]
  <2>1. size' = size
    BY <1>11 DEF FormatRow, k, PerRow
  <2>2. data' = Append(data, new)
    <3>1. data' = Append(data, [at |-> IF format.sparse THEN row ELSE Len(data) * k,
                                words |-> RowAt(row)])
      BY <1>11 DEF FormatRow, k, PerRow
    <3>2. ~format.sparse => row = Len(data) * k
      BY DEF FormatInv, k
    <3>3. QED
      BY <3>1, <3>2
  <2>3. new.at = row /\ new.words = RowAt(row)
    OBVIOUS
  <2> HIDE DEF new
  <2>4. /\ IsSequence(data') /\ Len(data') = Len(data) + 1
        /\ \A i \in 1 .. Len(data) : data'[i] = data[i]
        /\ data'[Len(data) + 1] = new
    BY <2>2, <1>4, AppendSequence
  <2>5. \A r \in 1 .. Len(data') : r \in 1 .. Len(data) \/ r = Len(data) + 1
    BY <2>4, <1>4
  <2>6. RowsOf(data', result, k, row')
    <3>1. ASSUME NEW r \in 1 .. Len(data)
          PROVE  /\ data'[r].at \in Nat /\ data'[r].at + k <= row'
                 /\ \A i \in 1 .. k : data'[r].words[i] = result[data'[r].at + i]
      BY <2>4, <1>1, <1>2, <1>4 DEF RowsOf
    <3>2. /\ new.at \in Nat /\ new.at + k <= row'
          /\ \A i \in 1 .. k : new.words[i] = result[new.at + i]
      BY <2>3, <1>1, <1>2, <1>4, <1>9
    <3>3. QED
      BY <3>1, <3>2, <2>4, <2>5 DEF RowsOf
  <2>7. Covering(data', result, k, row')
    <3>1. SUFFICES ASSUME NEW p \in 0 .. row' - 1, result[p + 1] # 0
                   PROVE  \E r \in 1 .. Len(data') : data'[r].at <= p /\ p < data'[r].at + k
      BY DEF Covering
    <3>2. CASE p < row
      <4>1. PICK r \in 1 .. Len(data) : data[r].at <= p /\ p < data[r].at + k
        BY <3>1, <3>2, <1>4 DEF Covering
      <4>2. r \in 1 .. Len(data') /\ data'[r] = data[r]
        BY <2>4, <1>4
      <4>3. QED
        BY <4>1, <4>2
    <3>3. CASE p >= row
      <4>1. Len(data) + 1 \in 1 .. Len(data')
        BY <2>4, <1>4
      <4>2. new.at <= p /\ p < new.at + k
        BY <3>1, <3>3, <2>3, <1>2, <1>4, <1>1
      <4>3. QED
        BY <4>1, <4>2, <2>4
    <3>4. QED
      BY <3>2, <3>3, <1>4
  <2>8. size' = Len(data') + (m - 1)
    BY <2>1, <2>4, <1>4, <1>5, <1>7
  <2>9. ~format.sparse => row' = Len(data') * k
    <3>1. ~format.sparse => row = Len(data) * k
      BY DEF FormatInv, k
    <3>2. (Len(data) + 1) * k = Len(data) * k + k
      BY <1>1, <1>4
    <3>3. QED
      BY <3>1, <3>2, <2>4, <1>2
  <2>10. QED
    BY <2>4, <2>6, <2>7, <2>8, <2>9, <1>2, <1>3, <1>4, <1>7, <1>8 DEF FormatInv, k
<1>12. QED
  BY <1>10, <1>11

LEMMA WriteOutputReadsBack ==
  ASSUME OutputInv, FormatInv, WriteOutput
  PROVE  OutputReadsBack'
<1>1. UNCHANGED <<job, result, data>> /\ row >= Len(result)
      /\ output' \in {File("whole", SubSeq(data, 1, size)), File("cut", <<>>), output}
  BY DEF WriteOutput, saveSame
<1>2. CASE output' = output
  BY <1>1, <1>2 DEF OutputInv, OutputReadsBack, WordsAt, format
<1>3. CASE output' = File("whole", SubSeq(data, 1, size))
  <2> DEFINE k == PerRow
  <2>1. k \in Nat \ {0} /\ k' = k /\ k = format.per_row
    BY <1>1, FormatKinds DEF OutputInv, PerRow, format
  <2> HIDE DEF k
  <2>2. /\ IsSequence(data) /\ IsSequence(result) /\ row \in Nat /\ row = Len(result)
        /\ Len(data) \in Nat
        /\ RowsOf(data, result, k, row) /\ Covering(data, result, k, row)
    BY <1>1, SequenceLength DEF FormatInv, k
  <2>3. size = Len(data)
    <3>1. PICK m \in Nat : Len(result) = row + m * k /\ size = Len(data) + m
      BY DEF FormatInv, k
    <3> DEFINE left == m * k
    <3>2. left \in Nat /\ (m # 0 => left # 0)
      BY <2>1
    <3> HIDE DEF left
    <3>3. Len(result) = row /\ Len(result) = row + left
      BY <2>2, <3>1 DEF left
    <3>4. m = 0
      BY <3>2, <3>3, <2>2
    <3>5. QED
      BY <3>1, <3>4, <2>2
  <2>4. SubSeq(data, 1, Len(data)) = data
    BY <2>2, SubSeqFull DEF IsSequence
  <2>5. output'.rows = data /\ result' = result /\ format' = format
    BY <1>1, <1>3, <2>3, <2>4 DEF File, format
  <2>6. ASSUME NEW p \in 0 .. Len(result) - 1
        PROVE  IF result[p + 1] = 0
               THEN \A r \in WordsAt(output, p)' : data[r].words[p - data[r].at + 1] = 0
               ELSE \E r \in WordsAt(output, p)' : data[r].words[p - data[r].at + 1] = result[p + 1]
    <3>1. WordsAt(output, p)' = {r \in 1 .. Len(data) : data[r].at <= p /\ p < data[r].at + k}
      BY <2>1, <2>5 DEF WordsAt
    <3>2. ASSUME NEW r \in WordsAt(output, p)'
          PROVE  data[r].words[p - data[r].at + 1] = result[p + 1]
      <4>1. r \in 1 .. Len(data) /\ data[r].at <= p /\ p < data[r].at + k
        BY <3>1, <3>2
      <4>2. data[r].at \in Nat /\ \A i \in 1 .. k : data[r].words[i] = result[data[r].at + i]
        BY <4>1, <2>2 DEF RowsOf
      <4>3. p \in Nat /\ p - data[r].at + 1 \in 1 .. k
              /\ data[r].at + (p - data[r].at + 1) = p + 1
        BY <4>1, <4>2, <2>1, <2>2
      <4>4. QED
        BY <4>2, <4>3
    <3>3. result[p + 1] # 0 => \E r \in 1 .. Len(data) : data[r].at <= p /\ p < data[r].at + k
      BY <2>2 DEF Covering
    <3>4. QED
      BY <3>1, <3>2, <3>3
  <2>7. QED
    BY <2>5, <2>6 DEF OutputReadsBack
<1>4. CASE output' = File("cut", <<>>)
  BY <1>4 DEF File, OutputReadsBack
<1>5. QED
  BY <1>1, <1>2, <1>3, <1>4

LEMMA OutputInvInit == Init => OutputInv
  BY DEF Init, SaveInit, File, OutputInv, OutputReadsBack, Before

\* The parts of OutputInv besides the formatting hold by the order of the steps.
LEMMA OutputInvSave ==
  ASSUME OutputInv, TypeOK, SaveNext
  PROVE  OutputInv'
<1>1. job' = job /\ phase' \notin Before
  BY SaveKeeps DEF Before
<1>2. CASE OpenOutput
  <2>1. CASE output' = File("empty", <<>>)
    <3>1. FormatInv'
      BY <1>2, <2>1, OpenOutputFormats
    <3>2. output'.state = "empty"
      BY <2>1 DEF File
    <3>3. QED
      BY <1>1, <3>1, <3>2 DEF OutputInv, OutputReadsBack
  <2>2. CASE phase' = "failed" /\ UNCHANGED <<output, data, row>>
    BY <1>1, <1>2, <2>2 DEF OutputInv, OutputReadsBack, OpenOutput
  <2>3. QED
    BY <1>2, <2>1, <2>2 DEF OpenOutput, SaveFails
<1>3. CASE FormatRow
  <2>1. phase = "save" /\ output.state = "empty" /\ UNCHANGED <<phase, output>>
    BY <1>3 DEF FormatRow
  <2>2. FormatInv'
    BY <1>3, <2>1, FormatRowFormats DEF OutputInv
  <2>3. QED
    BY <1>1, <2>1, <2>2 DEF OutputInv, OutputReadsBack
<1>4. CASE WriteOutput
  <2>1. phase = "save" /\ output.state = "empty" /\ phase' \in {"symbols", "failed"}
        /\ output'.state \in {"whole", "cut", "empty"}
    BY <1>4 DEF WriteOutput, SaveFails, File
  <2>2. OutputReadsBack'
    BY <1>4, <2>1, WriteOutputReadsBack DEF OutputInv
  <2>3. QED
    BY <1>1, <2>1, <2>2 DEF OutputInv
<1>5. CASE OpenSymbols \/ WriteSymbol \/ CloseSymbols
  <2>1. UNCHANGED <<result, data, row, output, job>> /\ phase' # "save"
    BY <1>5 DEF OpenSymbols, WriteSymbol, CloseSymbols, SaveFails, saveSame
  <2>2. QED
    BY <1>1, <2>1 DEF OutputInv, OutputReadsBack, WordsAt, format
<1>6. QED
  BY <1>2, <1>3, <1>4, <1>5 DEF SaveNext

LEMMA OutputInvStep ==
  ASSUME OutputInv, TypeOK, [Next]_vars
  PROVE  OutputInv'
<1>1. CASE Saving
  BY <1>1, OutputInvSave DEF Saving
<1>2. CASE Tokenizing \/ VerifyingStep \/ Preprocessing \/ Encoding
  <2>1. job' = job /\ UNCHANGED <<data, row, output>> /\ phase \in Before
    BY <1>2, TokKeeps, VerKeeps, PreKeeps, GenKeeps
       DEF Tokenizing, VerifyingStep, Preprocessing, Encoding, saveVars, Before
  <2>2. QED
    BY <2>1 DEF OutputInv, OutputReadsBack, Before
<1>3. CASE UNCHANGED vars
  BY <1>3 DEF vars, saveVars, OutputInv, FormatInv, OutputReadsBack, PerRow, format, WordsAt
<1>4. QED
  BY <1>1, <1>2, <1>3 DEF Next, Step, Exited

\* For every format and every result, the file holds each word that is not zero
\* at its address and nothing else but zeros: the rows left out do not make the
\* count of what is written wrong.  That the result is a sequence of words is
\* taken from TypeOK: it depends on recursive evaluation.
THEOREM OutputHoldsResult == Spec /\ []TypeOK => []OutputReadsBack
<1>1. Init => OutputInv
  BY OutputInvInit
<1>2. OutputInv /\ TypeOK /\ [Next]_vars => OutputInv'
  BY OutputInvStep
<1>3. OutputInv => OutputReadsBack
  BY DEF OutputInv
<1>4. QED
  BY <1>1, <1>2, <1>3, PTL DEF Spec

-----------------------------------------------------------------------------
(* Expressions in the list of tokens.                                        *)

OfType(s, t, i, j) == {k \in i .. j : Is(s[k], t)}
Amount(s, t, j)    == Cardinality(OfType(s, t, 1, j))

\* The expressions that are open behind the token at j.
Open(s, j) == Amount(s, "exs", j) - Amount(s, "exe", j)
Nested(s)  == \A j \in 0 .. Len(s) : Open(s, j) >= 0

LEMMA OfTypeFinite ==
  ASSUME NEW s, NEW t, NEW i \in Int, NEW j \in Int
  PROVE  IsFiniteSet(OfType(s, t, i, j)) /\ Cardinality(OfType(s, t, i, j)) \in Nat
<1>1. IsFiniteSet(i .. j)
  BY FS_Interval
<1>2. IsFiniteSet(OfType(s, t, i, j))
  BY <1>1, FS_Subset DEF OfType
<1> QED
  BY <1>2, FS_CardinalityType

LEMMA OpenIsNumber ==
  ASSUME NEW s, NEW j \in Int
  PROVE  Open(s, j) \in Int
<1>1. Amount(s, "exs", j) \in Nat /\ Amount(s, "exe", j) \in Nat
  BY OfTypeFinite DEF Amount
<1> QED
  BY <1>1 DEF Open

LEMMA OpenFirst == \A s : Open(s, 0) = 0
<1>1. \A s, t : OfType(s, t, 1, 0) = {}
  BY DEF OfType
<1> QED
  BY <1>1, FS_EmptySet DEF Open, Amount

\* The tokens up to e are those before i and those from i on.
LEMMA AmountSplit ==
  ASSUME NEW s, NEW t, NEW i \in Nat, NEW e \in Nat, i >= 1, i <= e + 1
  PROVE  Amount(s, t, e) = Amount(s, t, i - 1) + Cardinality(OfType(s, t, i, e))
<1> DEFINE A == OfType(s, t, 1, i - 1)
           B == OfType(s, t, i, e)
<1>1. IsFiniteSet(A) /\ IsFiniteSet(B) /\ Cardinality(A) \in Nat /\ Cardinality(B) \in Nat
  BY OfTypeFinite
<1>2. OfType(s, t, 1, e) = A \union B /\ A \cap B = {}
  <2>1. 1 .. e = (1 .. i - 1) \union (i .. e) /\ (1 .. i - 1) \cap (i .. e) = {}
    OBVIOUS
  <2> QED
    BY <2>1 DEF OfType
<1> HIDE DEF A, B
<1>3. Cardinality(A \union B) = Cardinality(A) + Cardinality(B) - Cardinality(A \cap B)
  BY <1>1, FS_Union
<1>4. Cardinality(A \cap B) = 0
  BY <1>2, FS_EmptySet
<1>5. Cardinality(A \union B) = Cardinality(A) + Cardinality(B)
  BY <1>1, <1>3, <1>4
<1> QED
  BY <1>2, <1>5 DEF Amount, A, B

LEMMA AmountStep ==
  ASSUME NEW s, NEW t, NEW j \in Nat
  PROVE  Amount(s, t, j + 1) = Amount(s, t, j) + (IF Is(s[j + 1], t) THEN 1 ELSE 0)
<1>1. OfType(s, t, j + 1, j + 1) = IF Is(s[j + 1], t) THEN {j + 1} ELSE {}
  <2>1. (j + 1) .. (j + 1) = {j + 1}
    OBVIOUS
  <2> QED
    BY <2>1 DEF OfType
<1>2. Cardinality(OfType(s, t, j + 1, j + 1)) = IF Is(s[j + 1], t) THEN 1 ELSE 0
  BY <1>1, FS_EmptySet, FS_Singleton
<1>3. Amount(s, t, j + 1) = Amount(s, t, (j + 1) - 1) + Cardinality(OfType(s, t, j + 1, j + 1))
  BY AmountSplit, j + 1 \in Nat
<1>4. (j + 1) - 1 = j
  OBVIOUS
<1> QED
  BY <1>2, <1>3, <1>4

\* What a token does to the number of open expressions.
Change(token) == IF Is(token, "exs") THEN 1 ELSE IF Is(token, "exe") THEN -1 ELSE 0

LEMMA OpenStep ==
  ASSUME NEW s, NEW j \in Nat
  PROVE  Open(s, j + 1) = Open(s, j) + Change(s[j + 1])
<1>1. Amount(s, "exs", j) \in Nat /\ Amount(s, "exe", j) \in Nat
  BY OfTypeFinite DEF Amount
<1>2. /\ Amount(s, "exs", j + 1) = Amount(s, "exs", j) + (IF Is(s[j + 1], "exs") THEN 1 ELSE 0)
      /\ Amount(s, "exe", j + 1) = Amount(s, "exe", j) + (IF Is(s[j + 1], "exe") THEN 1 ELSE 0)
  BY AmountStep
<1>3. ~(Is(s[j + 1], "exs") /\ Is(s[j + 1], "exe"))
  BY DEF Is
<1> QED
  BY <1>1, <1>2, <1>3 DEF Open, Change

\* The same brackets up to j, the same expressions open there.
LEMMA OpenSame ==
  ASSUME NEW s, NEW r, NEW j,
         \A k \in 1 .. j : /\ Is(s[k], "exs") <=> Is(r[k], "exs")
                           /\ Is(s[k], "exe") <=> Is(r[k], "exe")
  PROVE  Open(s, j) = Open(r, j)
<1>2. OfType(s, "exs", 1, j) = OfType(r, "exs", 1, j) /\ OfType(s, "exe", 1, j) = OfType(r, "exe", 1, j)
  BY Zenon DEF OfType
<1> QED
  BY <1>2, Zenon DEF Open, Amount

\* Where fewer are open than at i, one has ended in between.
LEMMA OpenLess ==
  ASSUME NEW s, NEW i \in Nat, NEW n \in Nat, i <= n, Open(s, n) < Open(s, i)
  PROVE  \E e \in i + 1 .. n : Is(s[e], "exe")
<1> SUFFICES ASSUME \A e \in i + 1 .. n : ~Is(s[e], "exe")
             PROVE  FALSE
  OBVIOUS
<1>1. OfType(s, "exe", i + 1, n) = {}
  BY Zenon DEF OfType
<1>2. Cardinality(OfType(s, "exe", i + 1, n)) = 0
  BY <1>1, FS_EmptySet
<1>3. /\ Amount(s, "exe", n) = Amount(s, "exe", (i + 1) - 1) + Cardinality(OfType(s, "exe", i + 1, n))
      /\ Amount(s, "exs", n) = Amount(s, "exs", (i + 1) - 1) + Cardinality(OfType(s, "exs", i + 1, n))
  <2>1. i + 1 \in Nat /\ i + 1 >= 1 /\ i + 1 <= n + 1
    OBVIOUS
  <2> QED
    BY <2>1, AmountSplit, Zenon
<1>4. (i + 1) - 1 = i
  OBVIOUS
<1>5. Cardinality(OfType(s, "exs", i + 1, n)) \in Nat
  BY OfTypeFinite, i + 1 \in Int
<1>6. Amount(s, "exs", i) \in Nat /\ Amount(s, "exe", i) \in Nat
  BY OfTypeFinite DEF Amount
<1> QED
  BY <1>2, <1>3, <1>4, <1>5, <1>6 DEF Open

LEMMA NestedEmpty == Nested(<<>>) /\ Open(<<>>, Len(<<>>)) = 0
<1>1. Len(<<>>) = 0
  BY EmptySequence
<1>2. \A j \in 0 .. 0 : j = 0
  OBVIOUS
<1>3. Open(<<>>, 0) = 0
  BY OpenFirst, Zenon
<1>4. \A j \in 0 .. 0 : Open(<<>>, j) >= 0
  <2>1. 0 >= 0
    OBVIOUS
  <2> QED
    BY <1>2, <1>3, <2>1, Zenon
<1> QED
  BY <1>1, <1>3, <1>4, Zenon DEF Nested

LEMMA OpenAppend ==
  ASSUME NEW s, IsSequence(s), Nested(s), NEW e, Open(s, Len(s)) + Change(e) >= 0
  PROVE  /\ Nested(Append(s, e))
         /\ Open(Append(s, e), Len(Append(s, e))) = Open(s, Len(s)) + Change(e)
<1> DEFINE n == Len(s)
           t == Append(s, e)
<1>1. n \in Nat
  BY SequenceLength
<1>2. Len(t) = n + 1 /\ (\A i \in 1 .. n : t[i] = s[i]) /\ t[n + 1] = e
  BY AppendSequence
<1> HIDE DEF t
<1>3. \A j \in 0 .. n : Open(t, j) = Open(s, j)
  <2>1. \A j \in 0 .. n : \A k \in 1 .. j : t[k] = s[k]
    BY <1>1, <1>2
  <2> QED
    BY <2>1, OpenSame
<1>4. Open(t, n + 1) = Open(s, n) + Change(e)
  <2>1. Open(t, n + 1) = Open(t, n) + Change(t[n + 1])
    BY <1>1, OpenStep, Zenon
  <2>2. n \in 0 .. n
    BY <1>1
  <2> QED
    BY <1>2, <1>3, <2>1, <2>2, Zenon
<1>5. Nested(t)
  <2>1. \A j \in 0 .. n + 1 : j \in 0 .. n \/ j = n + 1
    BY <1>1
  <2> QED
    BY <1>2, <1>3, <1>4, <2>1 DEF Nested
<1> QED
  BY <1>2, <1>4, <1>5 DEF t

-----------------------------------------------------------------------------
(* Places that the phases look for without a bound.                          *)

LEMMA LeastPlace ==
  ASSUME NEW T, NEW i \in Nat, NEW n \in Nat, NEW e \in i .. n, e \in T
  PROVE  \E l \in i .. n : l \in T /\ \A k \in i .. l - 1 : k \notin T
<1> DEFINE U == {l \in Nat : i <= l /\ l <= n /\ l \in T}
<1>1. e \in U
  OBVIOUS
<1>2. PICK l \in U : \A k \in U : l <= k
  BY <1>1, LeastNumber
<1>3. l \in i .. n /\ l \in T
  OBVIOUS
<1>4. ASSUME NEW k \in i .. l - 1
      PROVE  k \notin T
  <2>1. k \in Nat /\ i <= k /\ k <= n /\ ~(l <= k)
    BY <1>3
  <2> QED
    BY <1>2, <2>1
<1> QED
  BY <1>3, <1>4

LEMMA RestOfLineWithin ==
  ASSUME NEW s, IsSequence(s), NEW i \in 1 .. Len(s) + 1, NEW l
  PROVE  RestOfLine(s, i, l) \in i .. Len(s) + 1
<1> DEFINE T == {e \in Nat : e > Len(s) \/ s[e].line # l}
<1>1. Len(s) \in Nat /\ Len(s) + 1 \in Nat /\ i \in Nat
  BY SequenceLength
<1>2. Len(s) + 1 \in i .. Len(s) + 1 /\ Len(s) + 1 \in T
  BY <1>1
<1>3. PICK e \in i .. Len(s) + 1 : e \in T /\ \A k \in i .. e - 1 : k \notin T
  <2> HIDE DEF T
  <2> QED
    BY <1>1, <1>2, LeastPlace
<1>4. \A k \in i .. e - 1 : s[k].line = l
  BY <1>1, <1>3
<1> QED
  BY <1>3, <1>4 DEF RestOfLine

LEMMA FirstEndWithin ==
  ASSUME IsSequence(tokens), NEW i \in Nat, NEW e \in i .. Len(tokens), Is(tokens[e], "exe")
  PROVE  FirstEnd(i) \in i .. Len(tokens)
<1> DEFINE T == {k \in Nat : Is(tokens[k], "exe")}
<1>1. Len(tokens) \in Nat
  BY SequenceLength
<1>2. e \in T
  BY <1>1
<1>3. PICK l \in i .. Len(tokens) : l \in T /\ \A k \in i .. l - 1 : k \notin T
  <2> HIDE DEF T
  <2> QED
    BY <1>1, <1>2, LeastPlace
<1>4. Is(tokens[l], "exe") /\ \A k \in i .. l - 1 : ~Is(tokens[k], "exe")
  BY <1>1, <1>3
<1> HIDE DEF T
<1> QED
  BY <1>4, Zenon DEF FirstEnd

\* An argument is balanced where as many expressions are open behind as before it.
LEMMA BalancedOpen ==
  ASSUME NEW i \in Nat, i >= 1, NEW e \in Nat, i <= e + 1
  PROVE  Balanced(i, e) <=> Open(tokens, e) = Open(tokens, i - 1)
<1> DEFINE s == Cardinality(OfType(tokens, "exs", i, e))
           t == Cardinality(OfType(tokens, "exe", i, e))
<1>1. s \in Nat /\ t \in Nat
  BY OfTypeFinite
<1>2. Balanced(i, e) <=> s = t
  BY Zenon DEF Balanced, OfType
<1>3. Amount(tokens, "exs", e) = Amount(tokens, "exs", i - 1) + s
  BY AmountSplit
<1>4. Amount(tokens, "exe", e) = Amount(tokens, "exe", i - 1) + t
  BY AmountSplit
<1>5. Amount(tokens, "exs", i - 1) \in Nat /\ Amount(tokens, "exe", i - 1) \in Nat
  BY OfTypeFinite, i - 1 \in Int DEF Amount
<1> HIDE DEF s, t
<1> QED
  BY <1>1, <1>2, <1>3, <1>4, <1>5 DEF Open

\* An argument that does not start with the end of an expression ends in the list,
\* where no other expression is open than before it.
LEMMA ArgEndWithin ==
  ASSUME IsSequence(tokens), Nested(tokens), Open(tokens, Len(tokens)) = 0,
         NEW i \in 1 .. Len(tokens), ~Is(tokens[i], "exe")
  PROVE  ArgEnd(i) \in i .. Len(tokens) /\ Open(tokens, ArgEnd(i)) = Open(tokens, i - 1)
<1> DEFINE n == Len(tokens)
           before == Open(tokens, i - 1)
<1>1. n \in Nat /\ i \in Nat /\ 1 <= i /\ i <= n /\ i - 1 \in Nat /\ (i - 1) + 1 = i /\ i - 1 \in 0 .. n
  BY SequenceLength
<1>2. before \in Int /\ before >= 0
  BY <1>1, OpenIsNumber DEF Nested
<1>3. Open(tokens, i) = before + Change(tokens[i])
  BY <1>1, OpenStep
<1>4. CASE ~Is(tokens[i], "exs")
  <2>1. ArgEnd(i) = i /\ Change(tokens[i]) = 0
    BY <1>4 DEF ArgEnd, Change
  <2> QED
    BY <1>1, <1>2, <1>3, <2>1
<1>5. CASE Is(tokens[i], "exs")
  <2> DEFINE T == {e \in Nat : Open(tokens, e) <= before}
  <2>1. n \in T /\ n \in i .. n
    BY <1>1, <1>2
  <2>2. PICK e \in i .. n : e \in T /\ \A k \in i .. e - 1 : k \notin T
    <3> HIDE DEF T, n, before
    <3> QED
      BY <1>1, <2>1, LeastPlace
  <2>3. Open(tokens, i) = before + 1
    BY <1>3, <1>5 DEF Change
  <2>4. e \in Nat /\ i <= e /\ e <= n /\ Open(tokens, e) <= before /\ Open(tokens, e) \in Int
    BY <1>1, <2>2, OpenIsNumber
  <2>5. e # i
    BY <1>2, <2>3, <2>4
  <2>6. e - 1 \in i .. e - 1 /\ e - 1 \in Nat /\ (e - 1) + 1 = e
    BY <1>1, <2>4, <2>5
  <2>7. Open(tokens, e - 1) \in Int /\ ~(Open(tokens, e - 1) <= before)
    BY <2>2, <2>6, OpenIsNumber
  <2>8. Open(tokens, e) = Open(tokens, e - 1) + Change(tokens[e])
    BY <2>6, OpenStep
  <2>9. Change(tokens[e]) \in {-1, 0, 1}
    BY DEF Change
  <2>10. Open(tokens, e) = before
    BY <1>2, <2>4, <2>7, <2>8, <2>9
  <2>11. Balanced(i, e)
    BY <1>1, <2>4, <2>10, BalancedOpen
  <2>12. ASSUME NEW k \in i .. e - 1
         PROVE  ~Balanced(i, k)
    <3>1. k \in Nat /\ i <= k + 1
      BY <1>1, <2>4
    <3>2. ~(Open(tokens, k) <= before)
      BY <2>2, <3>1
    <3>3. Open(tokens, k) # before
      BY <1>2, <3>2
    <3> QED
      BY <1>1, <3>1, <3>3, BalancedOpen
  <2>13. ArgEnd(i) \in i .. n /\ Balanced(i, ArgEnd(i))
    <3> HIDE DEF T, before
    <3>1. ArgEnd(i) = CHOOSE x \in i .. Len(tokens) : Balanced(i, x) /\ \A k \in i .. x - 1 : ~Balanced(i, k)
      BY <1>5, Zenon DEF ArgEnd
    <3> QED
      BY <2>2, <2>11, <2>12, <3>1, Zenon
  <2>14. ArgEnd(i) \in Nat /\ i <= ArgEnd(i) + 1
    BY <1>1, <2>13
  <2> QED
    BY <1>1, <2>13, <2>14, BalancedOpen
<1> QED
  BY <1>4, <1>5

-----------------------------------------------------------------------------
(* Expressions that are let through end.                                     *)

\* In tokenize(), unless an error was reported, as many expressions are open behind
\* the last token as have a line in expressions_started.
Typed(token) == "type" \in DOMAIN token
OpenStarted ==
    /\ IsSequence(tokens) /\ IsSequence(expressions_started)
    /\ \A i \in 1 .. Len(tokens) : Typed(tokens[i])
    /\ tid = 1 /\ depth = 0
    /\ ~is_error => Nested(tokens) /\ Open(tokens, Len(tokens)) = Len(expressions_started)

\* In verify(), at least as many expressions are open before the cursor as there are
\* calls of verify_expression(), and all of them end in the list.
OpenVerified ==
    /\ IsSequence(tokens) /\ Nested(tokens) /\ Open(tokens, Len(tokens)) = 0
    /\ tid \in 1 .. Len(tokens) + 1 /\ depth \in Nat
    /\ depth > 0 => head # NoToken /\ Open(tokens, tid - 1) >= depth

EndInv == /\ phase = "tokenize" => OpenStarted
          /\ phase = "verify"   => OpenVerified

\* What most cases of tokenize() do: they append no bracket of an expression.
AddsNoBracket ==
    /\ UNCHANGED <<phase, tid>>
    /\ is_error => is_error'
    /\ \/ tokens' = tokens
       \/ \E e : tokens' = Append(tokens, e) /\ Typed(e) /\ ~Is(e, "exs") /\ ~Is(e, "exe")

LEMMA AddingToken ==
  ASSUME NEW t, t \notin {"exs", "exe"}, NEW v, NEW l, tokens' = Append(tokens, Token(t, v, l)),
         UNCHANGED <<phase, tid>>, is_error => is_error'
  PROVE  AddsNoBracket
<1> DEFINE e == Token(t, v, l)
<1>1. Typed(e) /\ ~Is(e, "exs") /\ ~Is(e, "exe")
  BY DEF Token, Is, Typed
<1>2. tokens' = Append(tokens, e)
  OBVIOUS
<1> HIDE DEF e
<1> QED
  BY <1>1, <1>2, Zenon DEF AddsNoBracket

LEMMA TakeAdds ==
  ASSUME NEW n, NEW t, t \notin {"exs", "exe"}, NEW v, Take(n, t, v)
  PROVE  AddsNoBracket
<1>1. PICK l : l = line_num
  OBVIOUS
<1>2. tokens' = Append(tokens, Token(t, v, l)) /\ UNCHANGED <<phase, tid, is_error>>
  BY <1>1 DEF Take, mainVars
<1> QED
  BY <1>2, AddingToken

LEMMA RefuseAdds ==
  ASSUME NEW n, Refuse(n) \/ Skip(n)
  PROVE  AddsNoBracket
  BY DEF Refuse, Skip, mainVars, AddsNoBracket

LEMMA OtherAddNoBracket ==
  ASSUME TokNext, ~OpenExpression, ~CloseExpression, ~Colon, ~EndOfFile
  PROVE  AddsNoBracket /\ UNCHANGED expressions_started
<1> USE DEF SameMode, nestVars
<1>1. CASE StringText \/ CommentText \/ Blank
  BY <1>1 DEF StringText, CommentText, Blank, mainVars, AddsNoBracket
<1>2. CASE StringEnd
  <2>1. tokens' = Append(tokens, Token("str", "text", line)) /\ UNCHANGED <<phase, tid, is_error, expressions_started>>
    BY <1>2 DEF StringEnd, mainVars
  <2> QED
    BY <2>1, AddingToken
<1>3. CASE OpenList \/ CloseList
  <2>1. \E l : \/ tokens' = Append(tokens, Token("prl", 0, l))
               \/ tokens' = Append(tokens, Token("prr", 0, l))
    BY <1>3 DEF OpenList, CloseList
  <2>2. UNCHANGED <<phase, tid, expressions_started>> /\ (is_error => is_error')
    BY <1>3 DEF OpenList, CloseList, mainVars
  <2> QED
    BY <2>1, <2>2, AddingToken
<1>4. CASE CommentEnd \/ LineComment \/ Quote \/ CloseNothing \/ StrayCharacter
  BY <1>4, RefuseAdds DEF CommentEnd, LineComment, Quote, CloseNothing, StrayCharacter, Stray
<1>5. CASE Operator
  BY <1>5, RefuseAdds, TakeAdds DEF Operator
<1>6. CASE Slash
  BY <1>6, RefuseAdds, TakeAdds DEF Slash, Stray
<1>7. CASE Number
  BY <1>7, TakeAdds DEF Number
<1>8. CASE Minus
  BY <1>8, RefuseAdds, TakeAdds DEF Minus
<1>9. CASE Register
  BY <1>9, RefuseAdds, TakeAdds DEF Register
<1>10. CASE Identifier
  BY <1>10, RefuseAdds, TakeAdds DEF Identifier
<1>11. CASE Dot
  BY <1>11, RefuseAdds, TakeAdds DEF Dot
<1>12. CASE Comma
  BY <1>12, RefuseAdds, TakeAdds DEF Comma
<1>13. CASE PrefixOperator
  BY <1>13, RefuseAdds, TakeAdds DEF PrefixOperator
<1>14. CASE Directive
  BY <1>14, RefuseAdds, TakeAdds DEF Directive
<1>15. CASE DefineOrVariable
  BY <1>15, TakeAdds DEF DefineOrVariable
<1>16. CASE MacroParameter
  BY <1>16, RefuseAdds, TakeAdds DEF MacroParameter
<1>17. CASE Macro
  BY <1>17, RefuseAdds, TakeAdds DEF Macro
<1> QED
  BY <1>1, <1>2, <1>3, <1>4, <1>5, <1>6, <1>7, <1>8, <1>9, <1>10, <1>11, <1>12, <1>13, <1>14,
     <1>15, <1>16, <1>17 DEF TokNext

LEMMA TypedAppend ==
  ASSUME IsSequence(tokens), \A i \in 1 .. Len(tokens) : Typed(tokens[i]),
         NEW e, Typed(e), tokens' = Append(tokens, e)
  PROVE  IsSequence(tokens') /\ \A i \in 1 .. Len(tokens') : Typed(tokens'[i])
<1> DEFINE n == Len(tokens)
<1>1. n \in Nat
  BY SequenceLength
<1>2. /\ IsSequence(tokens') /\ Len(tokens') = n + 1
      /\ (\A i \in 1 .. n : tokens'[i] = tokens[i]) /\ tokens'[n + 1] = e
  BY AppendSequence
<1>3. \A i \in 1 .. n + 1 : i \in 1 .. n \/ i = n + 1
  BY <1>1
<1> QED
  BY <1>2, <1>3

LEMMA StartedOther ==
  ASSUME OpenStarted, AddsNoBracket, UNCHANGED <<expressions_started, depth>>
  PROVE  OpenStarted'
<1>1. CASE tokens' = tokens
  BY <1>1 DEF OpenStarted, AddsNoBracket
<1>2. CASE \E e : tokens' = Append(tokens, e) /\ Typed(e) /\ ~Is(e, "exs") /\ ~Is(e, "exe")
  <2>1. PICK e : tokens' = Append(tokens, e) /\ Typed(e) /\ ~Is(e, "exs") /\ ~Is(e, "exe")
    BY <1>2
  <2>2. IsSequence(tokens') /\ \A i \in 1 .. Len(tokens') : Typed(tokens'[i])
    BY <2>1, TypedAppend DEF OpenStarted
  <2>3. Change(e) = 0 /\ Len(expressions_started) \in Nat
    BY <2>1, SequenceLength DEF Change, OpenStarted
  <2>4. ASSUME ~is_error
        PROVE  Nested(tokens') /\ Open(tokens', Len(tokens')) = Len(expressions_started)
    BY <2>1, <2>3, <2>4, OpenAppend DEF OpenStarted
  <2> QED
    BY <2>2, <2>4 DEF OpenStarted, AddsNoBracket
<1> QED
  BY <1>1, <1>2 DEF AddsNoBracket

LEMMA StartedOpenExpression ==
  ASSUME OpenStarted, OpenExpression, UNCHANGED depth
  PROVE  OpenStarted'
<1>1. PICK e : e = Token("exs", 0, line_num)
  OBVIOUS
<1>2. Typed(e) /\ Change(e) = 1
  BY <1>1 DEF Typed, Token, Change, Is
<1>3. tokens' = Append(tokens, e) /\ UNCHANGED <<tid, is_error>>
  BY <1>1 DEF OpenExpression, Take, mainVars
<1>4. IsSequence(tokens') /\ \A i \in 1 .. Len(tokens') : Typed(tokens'[i])
  BY <1>2, <1>3, TypedAppend DEF OpenStarted
<1>5. /\ IsSequence(expressions_started')
      /\ Len(expressions_started') = Len(expressions_started) + 1 /\ Len(expressions_started) \in Nat
  BY SequenceLength, AppendSequence DEF OpenStarted, OpenExpression
<1>6. ASSUME ~is_error
      PROVE  Nested(tokens') /\ Open(tokens', Len(tokens')) = Len(expressions_started) + 1
  BY <1>2, <1>3, <1>5, <1>6, OpenAppend DEF OpenStarted
<1> QED
  BY <1>3, <1>4, <1>5, <1>6 DEF OpenStarted

LEMMA StartedCloseExpression ==
  ASSUME OpenStarted, CloseExpression, UNCHANGED depth
  PROVE  OpenStarted'
<1>1. PICK e : e = Token("exe", 0, line_num)
  OBVIOUS
<1>2. Typed(e) /\ Change(e) = -1
  BY <1>1 DEF Typed, Token, Change, Is
<1>3. tokens' = Append(tokens, e) /\ UNCHANGED tid
  BY <1>1 DEF CloseExpression, mainVars
<1>4. IsSequence(tokens') /\ \A i \in 1 .. Len(tokens') : Typed(tokens'[i])
  BY <1>2, <1>3, TypedAppend DEF OpenStarted
<1>5. Len(expressions_started) \in Nat /\ Len(expressions_started) # 0
  BY SequenceLength DEF OpenStarted, CloseExpression
<1>6. CASE is_error'
  <2>1. expressions_started' \in {expressions_started, Front(expressions_started)}
    BY DEF CloseExpression
  <2>2. IsSequence(expressions_started')
    BY <2>1, FrontSequence DEF OpenStarted, CloseExpression
  <2> QED
    BY <1>3, <1>4, <1>6, <2>2 DEF OpenStarted
<1>7. CASE ~is_error'
  <2>1. expressions_started' = Front(expressions_started) /\ ~is_error
    BY <1>7 DEF CloseExpression
  <2>2. IsSequence(expressions_started') /\ Len(expressions_started') = Len(expressions_started) - 1
    BY <2>1, FrontSequence DEF OpenStarted, CloseExpression
  <2>3. Nested(tokens') /\ Open(tokens', Len(tokens')) = Len(expressions_started) - 1
    BY <1>2, <1>3, <1>5, <2>1, OpenAppend DEF OpenStarted
  <2> QED
    BY <1>3, <1>4, <2>2, <2>3 DEF OpenStarted
<1> QED
  BY <1>6, <1>7

LEMMA StartedColon ==
  ASSUME OpenStarted, Colon, UNCHANGED depth
  PROVE  OpenStarted'
<1>1. UNCHANGED <<tid, expressions_started>>
  BY DEF Colon, mainVars, SameMode, nestVars
<1>2. CASE tokens' = tokens
  BY <1>1, <1>2 DEF OpenStarted, Colon
<1>3. CASE tokens # <<>> /\ Is(Last(tokens), "ulb")
  <2> DEFINE n == Len(tokens)
             e == [tokens[n] EXCEPT !.type = "dlb"]
  <2>1. tokens' = [tokens EXCEPT ![n] = e] /\ is_error' = is_error
    BY <1>3 DEF Colon
  <2>2. PICK S : tokens \in Seq(S)
    BY DEF OpenStarted, IsSequence
  <2>3. n \in Nat /\ n # 0 /\ n \in 1 .. n
    BY <1>3, SequenceLength DEF OpenStarted
  <2>4. tokens[n].type = "ulb" /\ Typed(tokens[n])
    BY <1>3, <2>3 DEF Last, Is, OpenStarted
  <2>5. Typed(e) /\ e.type = "dlb"
    BY <2>4 DEF Typed
  <2> HIDE DEF e
  <2>6. tokens \in Seq(S \union {e})
    BY <2>2, SeqMonotonic, S \subseteq S \union {e}
  <2>7. tokens' \in Seq(S \union {e}) /\ Len(tokens') = n
    BY <2>1, <2>3, <2>6, ExceptSeq
  <2>8. \A i \in 1 .. n : tokens'[i] = IF i = n THEN e ELSE tokens[i]
    BY <2>1, <2>3, <2>6, ExceptSeq
  <2>9. IsSequence(tokens')
    BY <2>7 DEF IsSequence
  <2> HIDE DEF n
  <2>10. \A i \in 1 .. n : Typed(tokens'[i])
    BY <2>5, <2>8 DEF OpenStarted, n
  <2>11. \A j \in 0 .. n : Open(tokens', j) = Open(tokens, j)
    <3>1. \A i \in 1 .. n : /\ Is(tokens'[i], "exs") <=> Is(tokens[i], "exs")
                            /\ Is(tokens'[i], "exe") <=> Is(tokens[i], "exe")
      BY <2>4, <2>5, <2>8 DEF Is
    <3>2. \A j \in 0 .. n : \A k \in 1 .. j : k \in 1 .. n
      BY <2>3
    <3> QED
      BY <3>1, <3>2, OpenSame
  <2>12. Len(tokens') = Len(tokens)
    BY <2>7 DEF n
  <2>13. Nested(tokens) => Nested(tokens')
    BY <2>11, <2>12 DEF Nested, n
  <2>14. Open(tokens', Len(tokens')) = Open(tokens, Len(tokens))
    <3>1. Len(tokens) \in 0 .. n
      BY <2>3 DEF n
    <3> QED
      BY <2>11, <2>12, <3>1, Zenon
  <2>15. \A i \in 1 .. Len(tokens') : Typed(tokens'[i])
    BY <2>10, <2>12 DEF n
  <2>16. ~is_error' => ~is_error
    BY <2>1
  <2> HIDE DEF n
  <2> QED
    BY <1>1, <2>9, <2>13, <2>14, <2>15, <2>16, Zenon DEF OpenStarted
<1> QED
  BY <1>2, <1>3 DEF Colon

LEMMA StartedEndOfFile ==
  ASSUME OpenStarted, EndOfFile, UNCHANGED depth, phase' = "verify"
  PROVE  OpenVerified'
<1>1. ~is_error' /\ ~is_error /\ expressions_started = <<>> /\ UNCHANGED <<tokens, tid>>
  BY DEF EndOfFile
<1>2. Len(expressions_started) = 0 /\ Len(tokens) \in Nat
  BY <1>1, SequenceLength DEF OpenStarted
<1>3. tid = 1 /\ depth = 0 /\ 1 \in 1 .. Len(tokens) + 1
  BY <1>2 DEF OpenStarted
<1> QED
  BY <1>1, <1>2, <1>3 DEF OpenStarted, OpenVerified

LEMMA EndInvTok ==
  ASSUME EndInv, Tokenizing
  PROVE  EndInv'
<1>1. phase = "tokenize" /\ OpenStarted /\ UNCHANGED depth
  BY TokKeeps DEF Tokenizing, EndInv, verVars
<1>2. CASE EndOfFile
  <2>1. phase' # "tokenize"
    BY <1>2 DEF EndOfFile
  <2> QED
    BY <1>1, <1>2, <2>1, StartedEndOfFile DEF EndInv
<1>3. CASE ~EndOfFile
  <2>1. OpenStarted'
    BY <1>1, <1>3, StartedOther, OtherAddNoBracket, StartedOpenExpression, StartedCloseExpression,
       StartedColon DEF Tokenizing
  <2>2. phase' # "verify"
    <3>1. CASE OpenExpression \/ CloseExpression \/ Colon
      BY <1>1, <3>1 DEF OpenExpression, CloseExpression, Colon, Take, mainVars
    <3>2. CASE ~OpenExpression /\ ~CloseExpression /\ ~Colon
      BY <1>1, <1>3, <3>2, OtherAddNoBracket DEF AddsNoBracket, Tokenizing
    <3> QED
      BY <3>1, <3>2
  <2> QED
    BY <2>1, <2>2 DEF EndInv
<1> QED
  BY <1>2, <1>3

LEMMA EndInvInit == Init => EndInv
<1> SUFFICES ASSUME Init
             PROVE  OpenStarted /\ phase = "tokenize"
  BY DEF EndInv
<1>1. tokens = <<>> /\ expressions_started = <<>> /\ tid = 1 /\ depth = 0 /\ phase = "tokenize"
  BY DEF Init, TokInit, VerInit
<1>2. \A i \in 1 .. Len(tokens) : Typed(tokens[i])
  BY <1>1, EmptySequence
<1> QED
  BY <1>1, <1>2, EmptySequence, NestedEmpty DEF OpenStarted

\* The step reads on without an expression, or in expressions that are open.
LEMMA VerifiedOutside ==
  ASSUME OpenVerified, tokens' = tokens, tid' \in 1 .. Len(tokens) + 1, depth' = 0
  PROVE  OpenVerified'
  BY DEF OpenVerified

LEMMA VerifiedInside ==
  ASSUME OpenVerified, tokens' = tokens, tid' \in 1 .. Len(tokens) + 1, depth' \in Nat,
         UNCHANGED head, head # NoToken, Open(tokens, tid' - 1) >= depth'
  PROVE  OpenVerified'
  BY DEF OpenVerified

LEMMA VerifiedLine ==
  ASSUME OpenVerified, InLine, CopyAndLeave \/ AnonymousLabel \/ RefuseLine \/ Statement
  PROVE  OpenVerified'
<1> DEFINE n == Len(tokens)
<1>1. n \in Nat /\ tid \in 1 .. n /\ tid + 1 \in 1 .. n + 1 /\ tid \in 1 .. n + 1 /\ depth = 0
  BY SequenceLength DEF OpenVerified, InLine, Verifying
<1>2. \A i \in 1 .. n + 1 : \A l : RestOfLine(tokens, i, l) \in 1 .. n + 1
  <2>1. \A i \in 1 .. n + 1 : \A k \in i .. n + 1 : k \in 1 .. n + 1
    BY <1>1
  <2> QED
    BY <2>1, RestOfLineWithin, Zenon DEF OpenVerified
<1>3. tokens' = tokens /\ depth' = 0
  BY <1>1 DEF CopyAndLeave, AnonymousLabel, RefuseLine, Statement, Keep, LeaveLine, verVars
<1>4. tid' \in 1 .. n + 1
  BY <1>1, <1>2 DEF CopyAndLeave, AnonymousLabel, RefuseLine, Statement, LeaveLine
<1> QED
  BY <1>3, <1>4, VerifiedOutside

LEMMA VerifiedOperand ==
  ASSUME OpenVerified, InOperand, Operand \/ RefuseOperand \/ StatementEnd
  PROVE  OpenVerified'
<1> DEFINE n == Len(tokens)
<1>1. n \in Nat /\ tid \in 1 .. n + 1 /\ depth = 0
  BY SequenceLength DEF OpenVerified, InOperand
<1>2. RestOfLine(tokens, tid, head.line) \in 1 .. n + 1
  <2>1. \A k \in tid .. n + 1 : k \in 1 .. n + 1
    BY <1>1
  <2> QED
    BY <1>1, <2>1, RestOfLineWithin, Zenon DEF OpenVerified
<1>3. tokens' = tokens /\ depth' = 0
  BY <1>1 DEF Operand, RefuseOperand, StatementEnd, Keep, LeaveLine
<1>4. CASE Operand
  <2>1. tid <= n /\ tid' = tid + 1
    BY <1>1, <1>4 DEF Operand, Missing
  <2> QED
    BY <1>1, <1>3, <2>1, VerifiedOutside
<1>5. CASE RefuseOperand \/ StatementEnd
  BY <1>2, <1>3, <1>5, VerifiedOutside DEF RefuseOperand, StatementEnd, LeaveLine
<1> QED
  BY <1>4, <1>5

\* An expression that starts at tid or at the token behind it is open behind its start.
LEMMA OpenStarts ==
  ASSUME OpenVerified, NEW i \in 1 .. Len(tokens), Is(tokens[i], "exs")
  PROVE  Open(tokens, i) >= 1
<1>1. i - 1 \in Nat /\ (i - 1) + 1 = i /\ i - 1 \in 0 .. Len(tokens)
  BY SequenceLength DEF OpenVerified
<1>2. Open(tokens, i - 1) \in Int /\ Open(tokens, i - 1) >= 0
  BY <1>1, OpenIsNumber DEF OpenVerified, Nested
<1>3. Open(tokens, i) = Open(tokens, i - 1) + Change(tokens[i])
  BY <1>1, OpenStep
<1>4. Change(tokens[i]) = 1
  BY DEF Change
<1> QED
  BY <1>2, <1>3, <1>4

LEMMA VerifiedStart ==
  ASSUME OpenVerified, InOperand, OperandExpression \/ StringArgument
  PROVE  OpenVerified'
<1> DEFINE n == Len(tokens)
<1>1. n \in Nat /\ tid \in 1 .. n + 1 /\ depth = 0 /\ head # NoToken /\ UNCHANGED head
  BY SequenceLength DEF OpenVerified, InOperand, OperandExpression, StringArgument
<1>2. tid \in 1 .. n
  BY <1>1 DEF OperandExpression, StringArgument, Missing
<1>3. tokens' = tokens
  BY DEF OperandExpression, StringArgument, Keep
<1>4. CASE OperandExpression
  <2>1. tid' = tid + 1 /\ depth' = 1 /\ Is(tokens[tid], "exs")
    BY <1>4 DEF OperandExpression, TakesExpression, Here
  <2>2. Open(tokens, tid) >= 1 /\ tid' - 1 = tid
    BY <1>1, <1>2, <2>1, OpenStarts
  <2>3. tid' \in 1 .. n + 1 /\ depth' \in Nat
    BY <1>1, <1>2, <2>1
  <2> QED
    BY <1>1, <1>3, <2>1, <2>2, <2>3, VerifiedInside
<1>5. CASE StringArgument
  <2>1. CASE tid = n
    BY <1>1, <1>3, <1>5, <2>1, VerifiedOutside DEF StringArgument
  <2>2. CASE tid # n
    <3>1. tid + 1 \in 1 .. n /\ tid' = tid + 2 /\ tid' \in 1 .. n + 1 /\ tid' - 1 = tid + 1
      BY <1>1, <1>2, <1>5, <2>2 DEF StringArgument
    <3>2. CASE Is(tokens[tid + 1], "exs")
      <4>1. depth' = 1 /\ depth' \in Nat
        BY <1>5, <2>2, <3>2 DEF StringArgument
      <4>2. Open(tokens, tid + 1) >= 1
        BY <3>1, <3>2, OpenStarts
      <4> QED
        BY <1>1, <1>3, <3>1, <4>1, <4>2, VerifiedInside
    <3>3. CASE ~Is(tokens[tid + 1], "exs")
      BY <1>1, <1>3, <1>5, <2>2, <3>1, <3>3, VerifiedOutside DEF StringArgument
    <3> QED
      BY <3>2, <3>3
  <2> QED
    BY <2>1, <2>2
<1> QED
  BY <1>4, <1>5

\* Where expressions are open, one of them ends further on.
LEMMA EndAhead ==
  ASSUME OpenVerified, NEW i \in 0 .. Len(tokens), Open(tokens, i) >= 1
  PROVE  /\ i + 1 \in 1 .. Len(tokens)
         /\ \E e \in i + 1 .. Len(tokens) : Is(tokens[e], "exe")
<1>1. Len(tokens) \in Nat /\ i \in Nat /\ i <= Len(tokens)
  BY SequenceLength DEF OpenVerified
<1>2. Open(tokens, i) \in Int
  BY <1>1, OpenIsNumber
<1>3. Open(tokens, Len(tokens)) = 0
  BY DEF OpenVerified
<1>4. Open(tokens, Len(tokens)) < Open(tokens, i)
  BY <1>2, <1>3
<1>5. PICK e \in i + 1 .. Len(tokens) : Is(tokens[e], "exe")
  BY <1>1, <1>4, OpenLess, Zenon
<1> QED
  BY <1>1, <1>5

LEMMA ReturnWithin ==
  ASSUME OpenVerified, NEW i \in 1 .. Len(tokens) + 1, NEW ok, Return(ok, i), Keep
  PROVE  OpenVerified'
<1>1. Len(tokens) \in Nat
  BY SequenceLength DEF OpenVerified
<1>2. RestOfLine(tokens, i, head.line) \in i .. Len(tokens) + 1
  BY RestOfLineWithin DEF OpenVerified
<1>3. tid' \in 1 .. Len(tokens) + 1 /\ depth' = 0 /\ tokens' = tokens
  BY <1>1, <1>2 DEF Return, Keep
<1> QED
  BY <1>3, VerifiedOutside

LEMMA FailWithin ==
  ASSUME OpenVerified, NEW j \in 0 .. Len(tokens), Open(tokens, j) >= 1, NEW n, Fail(n, j + 1)
  PROVE  OpenVerified'
<1>1. j + 1 \in 1 .. Len(tokens) /\ j + 1 \in Nat /\ Len(tokens) \in Nat /\ IsSequence(tokens)
  BY EndAhead, SequenceLength DEF OpenVerified
<1>2. PICK e \in j + 1 .. Len(tokens) : Is(tokens[e], "exe")
  BY EndAhead
<1>3. FirstEnd(j + 1) \in j + 1 .. Len(tokens)
  BY <1>1, <1>2, FirstEndWithin, Zenon
<1>4. FirstEnd(j + 1) + 1 \in 1 .. Len(tokens) + 1
  BY <1>1, <1>3
<1>5. Return(FALSE, FirstEnd(j + 1) + 1) /\ Keep
  BY DEF Fail
<1> QED
  BY <1>4, <1>5, ReturnWithin, Zenon

\* In verify_expression() the token at the cursor is in the list.
LEMMA VerifiedHere ==
  ASSUME OpenVerified, InExpr
  PROVE  /\ Len(tokens) \in Nat /\ depth \in Nat /\ depth >= 1 /\ head # NoToken
         /\ tid \in 1 .. Len(tokens) /\ tid - 1 \in 0 .. Len(tokens) /\ (tid - 1) + 1 = tid
         /\ Open(tokens, tid - 1) \in Int /\ Open(tokens, tid - 1) >= depth
         /\ Open(tokens, tid) = Open(tokens, tid - 1) + Change(tokens[tid])
<1>1. /\ Len(tokens) \in Nat /\ depth \in Nat /\ depth >= 1 /\ head # NoToken
      /\ tid \in 1 .. Len(tokens) /\ Open(tokens, tid - 1) >= depth
  BY SequenceLength DEF OpenVerified, InExpr, Verifying
<1>2. tid - 1 \in 0 .. Len(tokens) /\ (tid - 1) + 1 = tid /\ tid - 1 \in Nat /\ tid - 1 \in Int
  BY <1>1
<1>3. Open(tokens, tid - 1) \in Int
  BY <1>2, OpenIsNumber
<1>4. Open(tokens, tid) = Open(tokens, tid - 1) + Change(tokens[tid])
  BY <1>2, OpenStep
<1> QED
  BY <1>1, <1>2, <1>3, <1>4

\* The cursor moves behind e, where as many are open as the step leaves.
LEMMA VerifiedBehind ==
  ASSUME OpenVerified, InExpr, NEW e \in 1 .. Len(tokens), Keep, UNCHANGED head,
         tid' = e + 1, depth' \in Nat, Open(tokens, e) >= depth'
  PROVE  OpenVerified'
<1>1. tid' \in 1 .. Len(tokens) + 1 /\ tid' - 1 = e
  BY VerifiedHere
<1> QED
  BY <1>1, VerifiedHere, VerifiedInside DEF Keep

LEMMA VerifiedExpr ==
  ASSUME OpenVerified, InExpr, ExprToken \/ ExprOpen \/ ExprClose \/ ExprSkip
  PROVE  OpenVerified'
<1>1. CASE ExprToken \/ ExprSkip
  <2>1. tid' = tid + 1 /\ UNCHANGED <<head, depth>> /\ Keep
    BY <1>1 DEF ExprToken, ExprSkip, verVars
  <2>2. ~Is(tokens[tid], "exs") /\ ~Is(tokens[tid], "exe")
    BY <1>1 DEF ExprToken, ExprSkip, Value, Reference, Here, Is
  <2>3. Open(tokens, tid) >= depth
    BY <2>2, VerifiedHere DEF Change
  <2> QED
    BY <2>1, <2>3, VerifiedHere, VerifiedBehind
<1>2. CASE ExprOpen
  <2>1. tid' = tid + 1 /\ depth' = depth + 1 /\ UNCHANGED head /\ Keep
    BY <1>2 DEF ExprOpen
  <2>2. Change(tokens[tid]) = 1
    BY <1>2 DEF ExprOpen, Here, Change
  <2>3. Open(tokens, tid) >= depth' /\ depth' \in Nat
    BY <2>1, <2>2, VerifiedHere
  <2> QED
    BY <2>1, <2>3, VerifiedHere, VerifiedBehind
<1>3. CASE ExprClose /\ depth > 1
  <2>1. tid' = tid + 1 /\ depth' = depth - 1 /\ UNCHANGED head /\ Keep
    BY <1>3 DEF ExprClose
  <2>2. Change(tokens[tid]) = -1
    BY <1>3 DEF ExprClose, Here, Change, Is
  <2>3. Open(tokens, tid) >= depth' /\ depth' \in Nat
    BY <2>1, <2>2, VerifiedHere
  <2> QED
    BY <2>1, <2>3, VerifiedHere, VerifiedBehind
<1>4. CASE ExprClose /\ ~(depth > 1)
  <2>1. Return(TRUE, tid + 1) /\ Keep
    BY <1>4 DEF ExprClose
  <2>2. tid + 1 \in 1 .. Len(tokens) + 1
    BY VerifiedHere
  <2> QED
    BY <2>1, <2>2, ReturnWithin
<1> QED
  BY <1>1, <1>2, <1>3, <1>4

LEMMA VerifiedInvalid ==
  ASSUME OpenVerified, InExpr, ExprInvalid
  PROVE  OpenVerified'
<1>1. Fail(0, (tid - 1) + 1)
  BY VerifiedHere, Zenon DEF ExprInvalid
<1>2. tid - 1 \in 0 .. Len(tokens) /\ Open(tokens, tid - 1) >= 1
  BY VerifiedHere
<1> QED
  BY <1>1, <1>2, FailWithin

LEMMA VerifiedDirective ==
  ASSUME OpenVerified, InExpr, ExprDirective
  PROVE  OpenVerified'
<1> DEFINE first == tid + 1
           second == ArgEnd(first) + 1
<1>1. Is(tokens[tid], "dir") /\ Change(tokens[tid]) = 0
  BY DEF ExprDirective, Here, Change, Is
<1>2. Open(tokens, tid) >= depth /\ Open(tokens, tid) >= 1 /\ tid \in 0 .. Len(tokens) /\ first - 1 = tid
  BY <1>1, VerifiedHere
<1>3. first \in 1 .. Len(tokens)
  BY <1>2, EndAhead
\* An argument that starts behind j ends where as many are open as behind j.
<1>4. ASSUME NEW j \in 0 .. Len(tokens), Open(tokens, j) = Open(tokens, tid),
             ~Is(tokens[j + 1], "exe")
      PROVE  /\ ArgEnd(j + 1) \in 1 .. Len(tokens)
             /\ Open(tokens, ArgEnd(j + 1)) = Open(tokens, tid)
  <2>1. j + 1 \in 1 .. Len(tokens) /\ (j + 1) - 1 = j
    BY <1>2, <1>4, EndAhead
  <2>2. ArgEnd(j + 1) \in j + 1 .. Len(tokens) /\ Open(tokens, ArgEnd(j + 1)) = Open(tokens, (j + 1) - 1)
    BY <1>4, <2>1, ArgEndWithin DEF OpenVerified
  <2> QED
    BY <1>4, <2>1, <2>2, VerifiedHere
<1>5. ASSUME NEW e \in 1 .. Len(tokens), TakeDirective(e), Open(tokens, e) = Open(tokens, tid)
      PROVE  OpenVerified'
  <2>1. tid' = e + 1 /\ Keep /\ UNCHANGED <<head, depth>>
    BY <1>5 DEF TakeDirective, verVars
  <2>2. Open(tokens, e) >= depth' /\ depth' \in Nat
    BY <1>2, <1>5, <2>1, VerifiedHere
  <2> QED
    BY <2>1, <2>2, VerifiedBehind
<1>6. CASE Fail(0, tid)
  BY <1>6, VerifiedHere, FailWithin
<1>7. CASE Fail(0, first) \/ Fail(1, first)
  BY <1>2, <1>7, FailWithin
<1>8. CASE ~Is(tokens[first], "exe") /\ TakeDirective(ArgEnd(first))
  BY <1>2, <1>4, <1>5, <1>8
<1>9. CASE /\ ~Is(tokens[first], "exe")
           /\ \/ Is(tokens[second], "exe") /\ Fail(second - tid, second)
              \/ ~Is(tokens[second], "exe") /\ TakeDirective(ArgEnd(second))
  <2>1. ArgEnd(first) \in 1 .. Len(tokens) /\ ArgEnd(first) \in 0 .. Len(tokens)
        /\ Open(tokens, ArgEnd(first)) = Open(tokens, tid)
    BY <1>2, <1>4, <1>9
  <2>2. CASE Fail(second - tid, second)
    BY <1>2, <2>1, <2>2, FailWithin
  <2>3. CASE ~Is(tokens[second], "exe") /\ TakeDirective(ArgEnd(second))
    BY <1>4, <1>5, <2>1, <2>3
  <2> QED
    BY <1>9, <2>2, <2>3
<1>10. CASE (Is(tokens[first], "udf") \/ Is(tokens[first], "uvr")) /\ TakeDirective(first)
  <2>1. Change(tokens[first]) = 0
    BY <1>10 DEF Change, Is
  <2>2. Open(tokens, first) = Open(tokens, tid) + Change(tokens[first]) /\ Open(tokens, tid) \in Int
    <3>1. tid \in Nat /\ tid \in Int
      BY VerifiedHere
    <3> QED
      BY <3>1, OpenStep, OpenIsNumber
  <2>3. Open(tokens, first) = Open(tokens, tid)
    BY <2>1, <2>2
  <2> QED
    BY <1>3, <1>5, <1>10, <2>3
<1> HIDE DEF first, second
<1> QED
  BY <1>6, <1>7, <1>8, <1>9, <1>10 DEF ExprDirective, first, second

LEMMA EndInvVerify ==
  ASSUME EndInv, VerifyingStep
  PROVE  EndInv'
<1>1. phase = "verify" /\ OpenVerified /\ VerNext
  BY VerKeeps DEF VerifyingStep, EndInv
<1>2. CASE VerifyEnd
  BY <1>2 DEF VerifyEnd, EndInv
<1>3. CASE CopyAndLeave \/ AnonymousLabel \/ RefuseLine \/ Statement
  <2>1. InLine
    BY <1>3 DEF CopyAndLeave, AnonymousLabel, RefuseLine, Statement
  <2>2. UNCHANGED phase
    BY <1>3 DEF CopyAndLeave, AnonymousLabel, RefuseLine, Statement, Keep
  <2> QED
    BY <1>1, <1>3, <2>1, <2>2, VerifiedLine DEF EndInv
<1>4. CASE Operand \/ OperandExpression \/ StringArgument \/ RefuseOperand \/ StatementEnd
  <2>1. InOperand
    BY <1>4 DEF Operand, OperandExpression, StringArgument, RefuseOperand, StatementEnd
  <2>2. UNCHANGED phase
    BY <1>4 DEF Operand, OperandExpression, StringArgument, RefuseOperand, StatementEnd, Keep
  <2> QED
    BY <1>1, <1>4, <2>1, <2>2, VerifiedOperand, VerifiedStart DEF EndInv
<1>5. CASE ExprToken \/ ExprOpen \/ ExprClose \/ ExprSkip
  <2>1. InExpr /\ UNCHANGED phase
    BY <1>5 DEF ExprToken, ExprOpen, ExprClose, ExprSkip, Keep
  <2> QED
    BY <1>1, <1>5, <2>1, VerifiedExpr DEF EndInv
<1>6. CASE ExprInvalid \/ ExprDirective
  <2>1. InExpr /\ UNCHANGED phase
    BY <1>6 DEF ExprInvalid, ExprDirective, Fail, TakeDirective, Keep
  <2> QED
    BY <1>1, <1>6, <2>1, VerifiedInvalid, VerifiedDirective DEF EndInv
<1> QED
  BY <1>1, <1>2, <1>3, <1>4, <1>5, <1>6 DEF VerNext

LEMMA EndInvStep == EndInv /\ [Next]_vars => EndInv'
<1> SUFFICES ASSUME EndInv, [Next]_vars
             PROVE  EndInv'
  OBVIOUS
<1>1. CASE Tokenizing
  BY <1>1, EndInvTok
<1>2. CASE VerifyingStep
  BY <1>2, EndInvVerify
<1>3. CASE Preprocessing
  BY <1>3, PreKeeps DEF Preprocessing, EndInv
<1>4. CASE Encoding
  BY <1>4, GenKeeps DEF Encoding, EndInv
<1>5. CASE Saving
  <2>1. phase' \notin {"tokenize", "verify"}
    BY <1>5, SaveKeeps DEF Saving
  <2> QED
    BY <2>1 DEF EndInv
<1>6. CASE UNCHANGED vars
  BY <1>6 DEF vars, tokVars, nestVars, verVars, EndInv, OpenStarted, OpenVerified
<1> QED
  BY <1>1, <1>2, <1>3, <1>4, <1>5, <1>6 DEF Next, Step, Exited

LEMMA EndInvMeans == EndInv => ExpressionsEnd
<1> SUFFICES ASSUME EndInv, phase = "verify", depth > 0
             PROVE  \E e \in tid .. Len(tokens) : Is(tokens[e], "exe")
  BY DEF ExpressionsEnd
<1>1. /\ OpenVerified /\ depth \in Nat /\ tid \in 1 .. Len(tokens) + 1
      /\ Open(tokens, tid - 1) >= depth /\ Len(tokens) \in Nat
  BY SequenceLength DEF EndInv, OpenVerified
<1>2. tid - 1 \in 0 .. Len(tokens) /\ (tid - 1) + 1 = tid /\ tid - 1 \in Int
  BY <1>1
<1>3. Open(tokens, tid - 1) >= 1
  BY <1>1, <1>2, OpenIsNumber
<1> QED
  BY <1>1, <1>2, <1>3, EndAhead

\* verify_expression() never looks for the end of an expression behind the last
\* token, for every file: tokenize() lets a file through only when every
\* expression it read is ended, and verify() is inside as many calls as there
\* are expressions open before its cursor, or fewer.
THEOREM ExpressionsAlwaysEnd == Spec => []ExpressionsEnd
<1>1. Init => EndInv
  BY EndInvInit
<1>2. EndInv /\ [Next]_vars => EndInv'
  BY EndInvStep
<1>3. EndInv => ExpressionsEnd
  BY EndInvMeans
<1> QED
  BY <1>1, <1>2, <1>3, PTL DEF Spec
=============================================================================
