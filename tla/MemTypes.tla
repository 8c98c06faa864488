------------------------------ MODULE MemTypes ------------------------------
(***************************************************************************)
(* What the RAM controller's entities share: words, addresses as the cache *)
(* slices them, and the resolution of a two-driver tristate bus.           *)
(***************************************************************************)
EXTENDS Integers

CONSTANTS
  Word,     \* t_word values; addresses and data travel on the same bus
  Zero,     \* x"0000"
  Tag,      \* the high bits of an address
  ZeroTag,  \* the tag of address x"0000"
  High,     \* ram'high of the cache, 2**g_size_log_2 - 1
  Z,        \* a bus nobody drives, x"ZZZZ"
  X         \* a bus two drivers fight over, or a register never assigned

Index == 0 .. High
Addr == Tag \X Index
ZeroAddr == <<ZeroTag, 0>>
TagOf(a) == a[1]
IndexOf(a) == a[2]

ASSUME MemAssumption ==
  /\ Zero \in Word /\ ZeroTag \in Tag /\ High \in Nat
  /\ Z # X
  /\ {Z, X} \cap (Word \cup Addr) = {}
  /\ Word \cap Addr = {}

\* std_logic resolution of the two drivers each bus of this design has
Resolve(a, b) == IF a = Z THEN b
                 ELSE IF b = Z \/ a = b THEN a ELSE X

Contended(a, b) == a # Z /\ b # Z
=============================================================================
