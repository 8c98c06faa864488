--------------------------------- MODULE Save ---------------------------------
(***************************************************************************)
(* save_instructions() and save_symbols() of sasm (save.cpp).  The output  *)
(* file is emptied when it is opened, then formatted row by row in memory  *)
(* and written at once; the symbols are written one at a time.  Opening    *)
(* and writing may fail, which is an error and ends the program; a write   *)
(* may also take a part of what it is given, which nobody looks at.        *)
(*                                                                         *)
(* A format is how many words a row holds and whether it is sparse: the    *)
(* vhdl formats give every word its place, leave rows of zeros out and     *)
(* count the bytes to be written down for each.  The text and binary       *)
(* formats differ in how a word looks; without rows (txt_c, bin_c) is the  *)
(* same as rows of one.                                                    *)
(***************************************************************************)
EXTENDS AsmTokens

VARIABLES
    data, row,      \* the rows formatted so far, the next word
    size,           \* rows that are to be written
    output,         \* the output file
    symbols         \* symbols.txt

saveVars == <<data, row, size, output, symbols>>
saveSame == UNCHANGED <<job, tokens, verified, labels, tid>>

\* An error is logged, and main() returns.
SaveFails == phase' = "failed" /\ is_error' = TRUE

format  == job.format
Formats == [per_row : {1, 2, 4, 5}, sparse : BOOLEAN]

\* A file that was not opened, was emptied by that, holds what it should, or a
\* part of it, whose length is left out.
File(s, rows) == [state |-> s, rows |-> rows]

SaveInit ==
    /\ data = <<>> /\ row = 0 /\ size = 0
    /\ output = File("untouched", <<>>) /\ symbols = File("untouched", <<>>)

\* Zeros up to a whole number of rows.
Padded(words, n) == words \o [i \in 1 .. (-Len(words)) % n |-> 0]

OpenOutput ==
    /\ phase = "save" /\ output.state = "untouched"
    /\ \/ /\ output' = File("empty", <<>>)
          /\ result' = Padded(result, format.per_row)
          /\ size' = Len(result') \div format.per_row
          /\ UNCHANGED <<phase, is_error>>
       \/ SaveFails /\ UNCHANGED <<result, size, output>>
    /\ saveSame /\ UNCHANGED <<data, row, symbols>>

RowAt(i) == SubSeq(result, i + 1, i + format.per_row)

\* A fault of FormatRow: rows of zeros are left out of every format
FormatRowSparse ==
    /\ phase = "save" /\ output.state = "empty" /\ row < Len(result)
    /\ IF \A i \in 1 .. format.per_row : RowAt(row)[i] = 0
       THEN size' = size - 1 /\ UNCHANGED data
       ELSE /\ data' = Append(data, [at |-> IF format.sparse THEN row ELSE Len(data) * format.per_row,
                                     words |-> RowAt(row)])
            /\ UNCHANGED size
    /\ row' = row + format.per_row
    /\ saveSame /\ UNCHANGED <<phase, is_error, result, output, symbols>>

FormatRow ==
    /\ phase = "save" /\ output.state = "empty" /\ row < Len(result)
    /\ IF format.sparse /\ \A i \in 1 .. format.per_row : RowAt(row)[i] = 0
       THEN size' = size - 1 /\ UNCHANGED data
       ELSE /\ data' = Append(data, [at |-> IF format.sparse THEN row ELSE Len(data) * format.per_row,
                                     words |-> RowAt(row)])
            /\ UNCHANGED size
    /\ row' = row + format.per_row
    /\ saveSame /\ UNCHANGED <<phase, is_error, result, output, symbols>>

\* write() is asked for an error, not for how much it took.
WriteOutput ==
    /\ phase = "save" /\ output.state = "empty" /\ row >= Len(result)
    /\ \/ /\ output' \in {File("whole", SubSeq(data, 1, size)), File("cut", <<>>)}
          /\ phase' = "symbols" /\ UNCHANGED is_error
       \/ SaveFails /\ UNCHANGED output
    /\ saveSame /\ UNCHANGED <<result, data, row, size, symbols>>

OpenSymbols ==
    /\ phase = "symbols" /\ symbols.state = "untouched"
    /\ \/ symbols' = File("empty", <<>>) /\ UNCHANGED <<phase, is_error>>
       \/ SaveFails /\ UNCHANGED symbols
    /\ saveSame /\ UNCHANGED <<result, data, row, size, output>>

\* The next label, whole or in part; or its name is too long, or write() fails.
WriteSymbol ==
    /\ phase = "symbols" /\ symbols.state # "untouched" /\ Len(symbols.rows) < Len(labels)
    /\ \/ /\ \E s \in {symbols.state, "cut"} :
                 symbols' = File(s, Append(symbols.rows, labels[Len(symbols.rows) + 1]))
          /\ UNCHANGED <<phase, is_error>>
       \/ SaveFails /\ UNCHANGED symbols
    /\ saveSame /\ UNCHANGED <<result, data, row, size, output>>

CloseSymbols ==
    /\ phase = "symbols" /\ symbols.state # "untouched" /\ Len(symbols.rows) = Len(labels)
    /\ symbols' = [symbols EXCEPT !.state = IF @ = "empty" THEN "whole" ELSE @]
    /\ phase' = "done"
    /\ saveSame /\ UNCHANGED <<is_error, result, data, row, size, output>>

SaveNext == OpenOutput \/ FormatRow \/ WriteOutput \/ OpenSymbols \/ WriteSymbol \/ CloseSymbols
=============================================================================
