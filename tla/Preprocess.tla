------------------------------ MODULE Preprocess ------------------------------
(***************************************************************************)
(* preprocess() of sasm (process/preprocess.cpp): a loop over the verified *)
(* tokens that carries out the directives on conditions, repetitions and   *)
(* names, gives every label its address and writes what is left.  A step   *)
(* is one iteration of the loop, or of a loop in it that passes over an    *)
(* untaken section; pmode says which.  The addresses are those code_gen()  *)
(* has to arrive at later.                                                 *)
(***************************************************************************)
EXTENDS Expressions

VARIABLES
    pmode,              \* "run", or the loop that passes over a section
    defines, variables,
    address,
    current_top_level,  \* name of the label that nested labels are under
    current_label,      \* place of the last label in labels, from 0
    cif_depth,          \* lines of open conditions, negative for passed over ones
    rps_depth,          \* where open repetitions begin
    rps_to_repeat       \* and how often they still do

nameVars  == <<defines, variables>>
labelVars == <<labels, current_top_level, current_label>>
blockVars == <<cif_depth, rps_depth, rps_to_repeat>>
preVars   == <<pmode, address, nameVars, labelVars, blockVars>>

PreInit ==
    /\ pmode = "run" /\ address = 0
    /\ current_top_level = <<Anon(-1)>> /\ current_label = -1
    /\ defines = job.defines /\ variables = <<>>
    /\ cif_depth = <<>> /\ rps_depth = <<>> /\ rps_to_repeat = <<>>

In(mode) == phase = "preprocess" /\ pmode = mode /\ tid <= Len(verified)
This     == verified[tid]
At(d)    == In("run") /\ IsDir(This, d)
PreSame  == UNCHANGED <<phase, job, verified, result>>

\* What a step writes and how far it moves.
Write(toks, n) == tokens' = tokens \o toks /\ tid' = tid + n /\ PreSame
Move(n)        == Write(<<>>, n)
Goto(t)        == tid' = t /\ UNCHANGED tokens /\ PreSame

-----------------------------------------------------------------------------
(* Values.                                                                   *)

ValueAt(i) == ConstVal(verified, i, defines, variables)

Printing == In("run") /\ Is(This, "dir") /\ This.val \in {"inf", "war", "err"}
Printed(types) == Is(verified[tid + 1], "dir") /\ verified[tid + 2].type \in types

\* Where this step reads a value, or 0.
ValuePlace ==
    CASE In("run") /\ This.type \in {"uvr", "udf"} -> tid
      [] In("run") /\ Is(This, "dir") /\ This.val \in {"cif", "adr", "org", "alg", "rps"} -> tid + 1
      [] In("run") /\ Is(This, "dir") /\ This.val \in {"ass", "def"} -> tid + 2
      [] Printing /\ Printed({"num", "uvr", "udf", "exs"}) -> tid + 2
      [] In("skip_if") /\ IsDir(This, "cei") /\ Last(cif_depth) >= 0 -> tid + 1
      [] OTHER -> 0

\* The value v is read at i, and does not end the program.
Reads(i, v) == v = ValueAt(i) /\ ~v.fatal
Report(v, e) == is_error' = (is_error \/ e \/ v.err \/ (v.many /\ Warns("extravals")))

ValueFatal ==
    /\ ValuePlace # 0 /\ ValueAt(ValuePlace).fatal
    /\ phase' = "fatal"
    /\ UNCHANGED <<job, tokens, verified, tid, is_error, result, preVars>>

-----------------------------------------------------------------------------
(* Tokens and labels.                                                        *)

EmitWord ==
    /\ In("run") /\ (Is(This, "ins") \/ IsDir(This, "ddw"))
    /\ address' = address + 1
    /\ Write(<<This>>, 1)
    /\ UNCHANGED <<is_error, pmode, nameVars, labelVars, blockVars>>

EmitOther ==
    /\ In("run")
    /\ \/ Is(This, "dir") /\ This.val \in {"cas", "tst", "wst"}
       \/ Is(This, "exo") /\ This.val # "$"
       \/ This.type \in {"num", "reg", "str", "ext", "mst", "men", "mpr", "mus",
                         "exs", "exe", "prl", "prr"}
    /\ Write(<<This>>, 1)
    /\ UNCHANGED <<is_error, preVars>>

\* The address of the instruction or word that this line began with.
EmitAddress ==
    /\ In("run") /\ Is(This, "exo") /\ This.val = "$"
    /\ Write(<<Token("num", address - 1, This.line)>>, 1)
    /\ UNCHANGED <<is_error, preVars>>

EmitConstant ==
    /\ In("run") /\ This.type \in {"uvr", "udf"}
    /\ \E v \in {ValueAt(tid)} :
          Reads(tid, v) /\ Report(v, FALSE) /\ Write(<<Token("num", v.val, This.line)>>, 1)
    /\ UNCHANGED preVars

UseLabel ==
    /\ In("run") /\ Is(This, "ulb")
    /\ Write(<<Token("ulb", Qualified(current_top_level, This.val), This.line)>>, 1)
    /\ UNCHANGED <<is_error, preVars>>

\* A fault of UseSpecialLabel: one too far ahead
UseSpecialLabelFar ==
    /\ In("run") /\ Is(This, "slb") /\ This.val \notin {",", "."}
    /\ LET place == IF This.val = "<" THEN current_label ELSE current_label + 2
       IN  Write(<<Token("slb", place, This.line)>>, 1)
    /\ UNCHANGED <<is_error, preVars>>

\* From here on the value of a special label is its place in labels.
UseSpecialLabel ==
    /\ In("run") /\ Is(This, "slb") /\ This.val \notin {",", "."}
    /\ LET place == IF This.val = "<" THEN current_label ELSE current_label + 1
       IN  Write(<<Token("slb", place, This.line)>>, 1)
    /\ UNCHANGED <<is_error, preVars>>

\* Top level labels open a scope for nested ones, anonymous ones too.
DefineLabel ==
    /\ In("run") /\ (Is(This, "dlb") \/ (Is(This, "slb") /\ This.val \in {",", "."}))
    /\ LET name == CASE Is(This, "dlb")  -> Qualified(current_top_level, This.val)
                     [] This.val = ","   -> <<Anon(Len(labels))>>
                     [] This.val = "."   -> Append(current_top_level, Anon(Len(labels)))
           nested == IF Is(This, "dlb") THEN IsNested(This.val) ELSE This.val = "."
       IN  /\ labels' = Append(labels, Nameval(name, address))
           /\ current_top_level' = IF nested THEN current_top_level ELSE name
    /\ current_label' = current_label + 1
    /\ Move(1)
    /\ UNCHANGED <<is_error, pmode, address, nameVars, blockVars>>

-----------------------------------------------------------------------------
(* Addresses, names and messages.                                            *)

SetAddress ==
    /\ At("adr") \/ At("org")
    /\ \E v \in {ValueAt(tid + 1)} :
          /\ Reads(tid + 1, v)
          /\ Report(v, At("adr") /\ v.val < address)
          /\ Write(<<This, Token("num", v.val, verified[v.tid - 1].line)>>, v.tid - tid)
          /\ address' = v.val
    /\ UNCHANGED <<pmode, nameVars, labelVars, blockVars>>

RoundedUp(a, n) == CHOOSE x \in a .. a + n - 1 : x % n = 0

Align ==
    /\ At("alg")
    /\ \E v \in {ValueAt(tid + 1)} :
          /\ Reads(tid + 1, v)
          /\ Report(v, v.val <= 0)
          /\ Write(<<This, Token("num", v.val, verified[v.tid - 1].line)>>, v.tid - tid)
          /\ address' = IF v.val <= 0 THEN address ELSE RoundedUp(address, v.val)
    /\ UNCHANGED <<pmode, nameVars, labelVars, blockVars>>

AssignVariable ==
    /\ At("ass")
    /\ \E v \in {ValueAt(tid + 2)} :
          LET name == verified[tid + 1].val IN
          /\ Reads(tid + 2, v) /\ Report(v, FALSE)
          /\ variables' = IF Defined(variables, name)
                          THEN [i \in DOMAIN variables |->
                                   IF variables[i].name = name THEN Nameval(name, v.val)
                                                               ELSE variables[i]]
                          ELSE Append(variables, Nameval(name, v.val))
          /\ Goto(v.tid)
    /\ UNCHANGED <<pmode, address, defines, labelVars, blockVars>>

DefineConstant ==
    /\ At("def")
    /\ \E v \in {ValueAt(tid + 2)} :
          LET name == verified[tid + 1].val IN
          /\ Reads(tid + 2, v) /\ Report(v, Defined(defines, name))
          /\ defines' = IF Defined(defines, name) THEN defines
                        ELSE Append(defines, Nameval(name, v.val))
          /\ Goto(v.tid)
    /\ UNCHANGED <<pmode, address, variables, labelVars, blockVars>>

\* A string, or %tostring with a value, a name of a directive, or what it does
\* not support, which takes the rest of the line with it.
PrintMessage ==
    /\ Printing
    /\ LET raised == This.val = "err" \/ (This.val = "war" /\ Warns("custom")) IN
       \/ /\ Is(verified[tid + 1], "str") \/ Printed({"str", "dir"})
          /\ is_error' = (is_error \/ raised)
          /\ Move(IF Is(verified[tid + 1], "str") THEN 2 ELSE 3)
       \/ /\ Printed({"num", "uvr", "udf", "exs"})
          /\ \E v \in {ValueAt(tid + 2)} :
                Reads(tid + 2, v) /\ Report(v, raised) /\ Goto(v.tid)
       \/ /\ Is(verified[tid + 1], "dir")
          /\ ~Printed({"str", "dir", "num", "uvr", "udf", "exs"})
          /\ is_error' = (is_error \/ raised)
          /\ Goto(RestOfLine(verified, tid + 2, This.line))
    /\ UNCHANGED preVars

\* Not in a condition: also those of an expression that was not constant.
MisplacedDirective ==
    /\ In("run") /\ Is(This, "dir") /\ This.val \in {"isd", "isa", "tof", "sam"}
    /\ is_error' = TRUE
    /\ Goto(RestOfLine(verified, tid, This.line))
    /\ UNCHANGED preVars

-----------------------------------------------------------------------------
(* Conditions.                                                               *)

If ==
    /\ At("cif")
    /\ \E v \in {ValueAt(tid + 1)} :
          /\ Reads(tid + 1, v) /\ Report(v, FALSE)
          /\ pmode' = IF v.val # 0 THEN "run" ELSE "skip_if"
          /\ Goto(v.tid)
    /\ cif_depth' = Append(cif_depth, This.line)
    /\ UNCHANGED <<address, nameVars, labelVars, rps_depth, rps_to_repeat>>

\* In the section of a condition that was false: a nested condition is pushed
\* with its line negated, and popped as such only if it was on line 1.
PassIf ==
    /\ In("skip_if")
    /\ \/ /\ IsDir(This, "cif")
          /\ cif_depth' = Append(cif_depth, -This.line)
          /\ Move(1) /\ UNCHANGED <<is_error, pmode>>
       \/ /\ IsDir(This, "cei") /\ Last(cif_depth) >= 0
          /\ \E v \in {ValueAt(tid + 1)} :
                /\ Reads(tid + 1, v) /\ Report(v, FALSE)
                /\ pmode' = IF v.val # 0 THEN "run" ELSE "skip_if"
                /\ Goto(v.tid)
          /\ UNCHANGED cif_depth
       \/ /\ IsDir(This, "cel") /\ Last(cif_depth) >= 0
          /\ pmode' = "run"
          /\ Move(1) /\ UNCHANGED <<is_error, cif_depth>>
       \/ /\ IsDir(This, "cen")
          /\ pmode' = IF Last(cif_depth) = -1 THEN "skip_if" ELSE "run"
          /\ cif_depth' = Front(cif_depth)
          /\ Move(1) /\ UNCHANGED is_error
       \/ /\ ~(IsDir(This, "cif") \/ IsDir(This, "cen"))
          /\ ~(IsDir(This, "cei") \/ IsDir(This, "cel")) \/ Last(cif_depth) < 0
          /\ Move(1) /\ UNCHANGED <<is_error, pmode, cif_depth>>
    /\ UNCHANGED <<address, nameVars, labelVars, rps_depth, rps_to_repeat>>

\* preprocess() returns at once, past the checks at its end.
StrayBranch ==
    /\ At("cei") \/ At("cel") \/ At("cen")
    /\ cif_depth = <<>>
    /\ is_error' = TRUE /\ phase' = "failed"
    /\ UNCHANGED <<job, tokens, verified, tid, result, preVars>>

\* The branch before this one was taken.
Branch ==
    /\ At("cei") \/ At("cel")
    /\ cif_depth # <<>>
    /\ pmode' = "skip_branch"
    /\ Move(1)
    /\ UNCHANGED <<is_error, address, nameVars, labelVars, blockVars>>

\* A fault of PassBranch: nested conditions are not counted
PassBranchFlat ==
    /\ In("skip_branch")
    /\ cif_depth' = IF IsDir(This, "cen") THEN Front(cif_depth) ELSE cif_depth
    /\ pmode' = IF IsDir(This, "cen") THEN "run" ELSE "skip_branch"
    /\ Move(1)
    /\ UNCHANGED <<is_error, address, nameVars, labelVars, rps_depth, rps_to_repeat>>

PassBranch ==
    /\ In("skip_branch")
    /\ cif_depth' = CASE IsDir(This, "cif") -> Append(cif_depth, -1)
                      [] IsDir(This, "cen") -> Front(cif_depth)
                      [] OTHER              -> cif_depth
    /\ pmode' = IF IsDir(This, "cen") /\ Last(cif_depth) # -1 THEN "run" ELSE "skip_branch"
    /\ Move(1)
    /\ UNCHANGED <<is_error, address, nameVars, labelVars, rps_depth, rps_to_repeat>>

EndIf ==
    /\ At("cen") /\ cif_depth # <<>>
    /\ cif_depth' = Front(cif_depth)
    /\ Move(1)
    /\ UNCHANGED <<is_error, pmode, address, nameVars, labelVars, rps_depth, rps_to_repeat>>

-----------------------------------------------------------------------------
(* Repetitions.                                                              *)

Repeat ==
    /\ At("rps")
    /\ \E v \in {ValueAt(tid + 1)} :
          /\ Reads(tid + 1, v) /\ Report(v, FALSE)
          /\ Goto(v.tid)
          /\ IF v.val <= 0
             THEN pmode' = "skip_rep" /\ UNCHANGED <<rps_depth, rps_to_repeat>>
             ELSE /\ rps_depth' = Append(rps_depth, v.tid)
                  /\ rps_to_repeat' = Append(rps_to_repeat, v.val - 1)
                  /\ UNCHANGED pmode
    /\ UNCHANGED <<address, nameVars, labelVars, cif_depth>>

\* In a section that is not wanted: it ends where no repetition is open, also
\* none around it.
PassRepeat ==
    /\ In("skip_rep")
    /\ LET last == IsDir(This, "rpe") /\ rps_depth = <<>> IN
       /\ pmode' = IF last THEN "run" ELSE "skip_rep"
       /\ rps_depth' = CASE IsDir(This, "rps") -> Append(rps_depth, tid + 1)
                         [] IsDir(This, "rpe") /\ ~last -> Front(rps_depth)
                         [] OTHER -> rps_depth
    /\ Move(1)
    /\ UNCHANGED <<is_error, address, nameVars, labelVars, cif_depth, rps_to_repeat>>

\* A fault of RepeatEnd: the count is popped alone
RepeatEndKeepsStart ==
    /\ At("rpe")
    /\ IF rps_depth # <<>> /\ Last(rps_to_repeat) > 0
       THEN /\ rps_to_repeat' = Append(Front(rps_to_repeat), Last(rps_to_repeat) - 1)
            /\ Goto(Last(rps_depth)) /\ UNCHANGED is_error
       ELSE /\ is_error' = (is_error \/ rps_depth = <<>>)
            /\ rps_to_repeat' = IF rps_depth = <<>> THEN rps_to_repeat ELSE Front(rps_to_repeat)
            /\ Move(1)
    /\ UNCHANGED <<pmode, address, nameVars, labelVars, rps_depth, cif_depth>>

RepeatEnd ==
    /\ At("rpe")
    /\ IF rps_depth # <<>> /\ Last(rps_to_repeat) > 0
       THEN /\ rps_to_repeat' = Append(Front(rps_to_repeat), Last(rps_to_repeat) - 1)
            /\ Goto(Last(rps_depth))
            /\ UNCHANGED <<is_error, rps_depth>>
       ELSE /\ is_error' = (is_error \/ rps_depth = <<>>)
            /\ IF rps_depth = <<>> THEN UNCHANGED <<rps_depth, rps_to_repeat>>
               ELSE rps_depth' = Front(rps_depth) /\ rps_to_repeat' = Front(rps_to_repeat)
            /\ Move(1)
    /\ UNCHANGED <<pmode, address, nameVars, labelVars, cif_depth>>

-----------------------------------------------------------------------------

\* A loop that passes over a repetition pushes it when it finds no end.
PreprocessEnd ==
    /\ phase = "preprocess" /\ tid > Len(verified)
    /\ is_error' = (is_error \/ cif_depth # <<>> \/ rps_depth # <<>> \/ pmode = "skip_rep")
    /\ phase' = IF is_error' THEN "failed" ELSE "code_gen"
    /\ tid' = 1
    /\ UNCHANGED <<job, tokens, verified, result, preVars>>

PreNext ==
    \/ ValueFatal
    \/ EmitWord \/ EmitOther \/ EmitAddress \/ EmitConstant
    \/ UseLabel \/ UseSpecialLabel \/ DefineLabel
    \/ SetAddress \/ Align \/ AssignVariable \/ DefineConstant \/ PrintMessage \/ MisplacedDirective
    \/ If \/ PassIf \/ StrayBranch \/ Branch \/ PassBranch \/ EndIf
    \/ Repeat \/ PassRepeat \/ RepeatEnd \/ PreprocessEnd
=============================================================================
