------------------------------ MODULE MCHelium ------------------------------
(***************************************************************************)
(* Instances of Helium.  The programs are built from the words of their    *)
(* instructions.                                                           *)
(***************************************************************************)
EXTENDS HeliumPromise, SequencesExt

\* Instructions by format, as the decoder reads them.
Immediate(opcode, r, i) == (2048 * opcode) + (256 * ((i % 128) \div 16)) + (32 * r) + (2 * (i % 16)) + (i \div 128)
Register(opcode, r, s)  == (256 * s) + (32 * r) + opcode
JumpBy(opcode, n)       == (2048 * opcode) + (2 * (n % 1024)) + (IF n < 0 THEN 1 ELSE 0)
JumpIf(opcode, c, n)    == (2048 * opcode) + (16 * (n % 128)) + (2 * c) + (IF n < 0 THEN 1 ELSE 0)
OfSystem(opcode, r, i)    == 2048 + (256 * opcode) + (32 * r) + (2 * (i % 16)) + (i \div 16)
OneRegister(opcode, r)  == (2048 * 21) + (256 * opcode) + (32 * r)

Mov(r, i)  == Immediate(20, r, i)
Xwr(r, i)  == Immediate(11, r, i)
Add(r, i)  == Immediate(24, r, i)
Sub(r, i)  == Immediate(25, r, i)
Cmp(r, i)  == Immediate(17, r, i)
Ld(r, i)   == Immediate(12, r, i)
St(r, i)   == Immediate(13, r, i)
LdR(r, s)  == Register(12, r, s)
StR(r, s)  == Register(13, r, s)
LdOff(r, i) == Immediate(14, r, i)
Pwr(r, i)  == Immediate(9, r, i)
Prd(r, i)  == Immediate(8, r, i)
Xrd(r, x)  == Register(10, r, x)
Pop(r)     == OneRegister(0, r)
Psh(r)     == OneRegister(1, r)
Ret(flags) == (2048 * 21) + (256 * 4) + (16 * flags)
Pxr(r, i)  == OfSystem(6, r, i)
Pxw(r, i)  == OfSystem(7, r, i)
Raise(i)     == 2048 + (2 * (i % 128)) + (i \div 128)
Irt        == 2048 + 256
Hcf        == 2048 + 768
Invalid    == 0

At(first, words) == [a \in first .. first + Len(words) - 1 |-> words[a - first + 1]]
Together(a, b)   == a @@ b
All(parts)       == FoldLeft(Together, <<>>, parts)

\* An entry that lets everything.
Open(frame) == 61440 + frame

\* The page table at 64: the first page as it is, 1 at frame 3, 2 nowhere.
Table64 == At(64, <<Open(0), Open(3)>>)
Paged == <<Mov(2, 64), Pxw(2, 1), Mov(2, 1), Pxw(2, 31)>>

\* Ends of handlers: registers show what they were told.
HandlerAt(id, words) == At(512 + (2 * id), words)

-----------------------------------------------------------------------------
(* Every two of these instructions after one another with paging, and each   *)
(* without.                                                                  *)

Some == {Sub(3, 9), Cmp(3, 200), Xwr(1, 8), Xwr(5, 9), Ld(4, 80), St(3, 81),
         JumpBy(2, 1), JumpIf(4, 4, 1), JumpIf(5, 3, 1), Mov(3, 7), Pwr(3, 2)}
Pairs == {All(<<At(0, Paged \o <<a, b, St(3, 90), Hcf, Hcf>>), Table64, At(80, <<4660, 22136>>)>>) :
              a \in Some, b \in Some}
Flat  == {At(0, <<Mov(3, 1), a, Hcf, Hcf>>) : a \in Some}

-----------------------------------------------------------------------------
(* Programs about the system.                                                *)

\* Data on another page, read, written and read again.  The line is filled after
\* one compare, whose flags are not asked for, and before another.
OtherPage ==
    All(<<At(0, Paged \o <<Xwr(1, 8), Mov(2, 5), Mov(3, 77), Cmp(3, 77), StR(3, 2), Cmp(3, 78), JumpIf(4, 2, 1),
                           LdR(4, 2), LdR(5, 2), Hcf>>), Table64>>)

\* Page 1 goes to another frame.  The program flushes, and finds its other data.
Remapped ==
    All(<<At(0, Paged \o <<Xwr(1, 8), Mov(2, 5), LdR(4, 2), Ld(3, 80), St(3, 65), Mov(6, 8), Pxw(6, 31),
                           LdR(5, 2), Hcf>>),
          Table64, At(80, <<Open(4)>>), At(6149, <<1111>>), At(8197, <<2222>>)>>)

\* Two address spaces with their tables at 64 and 96, switched by the pid alone.
TwoSpaces ==
    All(<<At(0, Paged \o <<Xwr(1, 8), Mov(2, 5), LdR(4, 2), Mov(3, 1), Mov(7, 96), Pxw(7, 1), Pxw(3, 0),
                           Pxw(3, 31), LdR(5, 2), Mov(7, 64), Mov(6, 0), Pxw(7, 1), Pxw(6, 0), Pxw(3, 31),
                           LdR(6, 2), Hcf>>),
          Table64, At(96, <<Open(0), Open(4)>>), At(6149, <<1111>>), At(8197, <<2222>>)>>)

\* Execution goes on in page 1, whose code is in frame 3.
OtherCode ==
    All(<<At(0, Paged \o <<Xwr(1, 8), Mov(2, 16), OneRegister(2, 2), Pxr(6, 1), Hcf>>), Table64,
          At(6160, <<Mov(5, 3), Ret(5)>>)>>)

\* Programs that are interrupted enable interrupts before, as they are promised
\* that none comes otherwise.
Enable == <<Mov(6, 16), Pxw(6, 31)>>

\* A handler, that enables interrupts and jumps back, and one that returns.
Asked ==
    All(<<At(0, Enable \o <<Mov(3, 4), Raise(128), Mov(4, 4), Hcf>>),
          HandlerAt(128, <<Pxr(5, 10), Mov(6, 16), Pxw(6, 31), Xwr(0, 4)>>)>>)
Returned ==
    All(<<At(0, Enable \o <<Mov(3, 4), Invalid, Mov(4, 4), Hcf>>),
          HandlerAt(6, <<Pxr(5, 10), Mov(6, 4), Pxw(6, 11), Irt>>)>>)

\* A page comes when it is first accessed: the handler puts 1 at the place of
\* page 2 in the table, and the program tries again.
Demand ==
    All(<<At(0, Enable \o Paged \o <<Ld(3, 80), Xwr(1, 16), Mov(2, 5), LdR(4, 2), Hcf>>),
          HandlerAt(1, <<St(3, 66), Mov(6, 16), Pxw(6, 31), Xwr(0, 7)>>),
          Table64, At(80, <<Open(5)>>), At(10245, <<3333>>)>>)

\* Without privilege, on pages that have their lines and let it.
Lowered ==
    All(<<At(0, Enable \o Paged \o <<Xwr(1, 8), Mov(2, 5), LdR(4, 2), Mov(6, 4), Pxw(6, 31), LdR(5, 2), StR(3, 2),
                                     Raise(128)>>),
          HandlerAt(128, <<Pxr(7, 10), Hcf>>), Table64>>)

\* Offsets, ports, registers of the stack and of flags.
Various ==
    At(0, <<Xwr(4, 3), LdOff(5, 17), Prd(6, 2), Xwr(3, 30), Xrd(7, 3), Xrd(2, 0), Add(5, 255),
            Xrd(4, 5), Hcf>>)

Scenarios == {Various, OtherPage, Remapped, TwoSpaces, OtherCode, Asked, Returned, Demand, Lowered}
Regular == Pairs \union Flat \union Scenarios

\* A push; a page fault, whose handler brings the page; then, without privilege,
\* an interrupt that programs may not ask for.
Documented ==
    {All(<<At(0, Enable \o Paged \o <<Xwr(3, 30), Psh(5), Ld(3, 80), Xwr(1, 16), Mov(2, 5), LdR(4, 2),
                                      Mov(6, 4), Pxw(6, 31), Raise(9)>>),
           HandlerAt(1, <<St(3, 66), Mov(6, 16), Pxw(6, 31), Xwr(0, 9)>>),
           HandlerAt(9, <<Hcf>>),
           Table64, At(80, <<Open(5)>>)>>)}

\* Without privilege, a load from a page whose line is not there.
Missing ==
    {All(<<At(0, Paged \o <<Mov(6, 4), Pxw(6, 31), Xwr(1, 8), Mov(2, 5), LdR(4, 2), Hcf>>), Table64>>)}
=============================================================================
