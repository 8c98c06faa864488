-------------------------------- MODULE Words --------------------------------
(***************************************************************************)
(* Numbers as C++ computes with them, shared by the models of the          *)
(* assembler, the disassembler and the simulator.                          *)
(***************************************************************************)
EXTENDS Integers

Word16 == 0 .. 65535

\* The bits that numbers have in common, of two's complements: the lowest one,
\* two, four and so on.  24 are enough for the bounds; all behind them is sign.
Common1(a, b)  == (a % 2) * (b % 2)
Common2(a, b)  == Common1(a, b) + 2 * Common1(a \div 2, b \div 2)
Common4(a, b)  == Common2(a, b) + 4 * Common2(a \div 4, b \div 4)
Common8(a, b)  == Common4(a, b) + 16 * Common4(a \div 16, b \div 16)
Common16(a, b) == Common8(a, b) + 256 * Common8(a \div 256, b \div 256)
CommonSign(a, b) == IF a < 0 /\ b < 0 THEN -1 ELSE 0
BitAnd(a, b) == Common16(a, b) + 65536 * (Common8(a \div 65536, b \div 65536) + 256 * CommonSign(a, b))
BitOr(a, b)  == a + b - BitAnd(a, b)
BitXor(a, b) == a + b - 2 * BitAnd(a, b)

\* A fault of Low: the value is not cut
LowUncut(v, bits) == v
Low(v, bits) == v % 2^bits

\* A word, or a field of that many bits, as a signed number
Signed16(v)     == IF v < 32768 THEN v ELSE v - 65536
Signed(v, bits) == IF v < 2^(bits - 1) THEN v ELSE v - 2^bits
=============================================================================
