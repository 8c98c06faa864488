-------------------------------- MODULE MCIsa --------------------------------
(***************************************************************************)
(* Programs for Isa: every instruction that works on registers and memory, *)
(* with operands at the bounds, and short programs with jumps and calls.   *)
(***************************************************************************)
EXTENDS Isa

R(n)      == Reg(n)
Op(n, a, b) == Ins(n, "none", <<a, b>>)
One(n, a) == Ins(n, "none", <<a>>)
If(n, c, ops) == Ins(n, c, ops)
Hlt == Ins("hlt", "none", <<>>)
Nop == Ins("nop", "none", <<>>)
Ret == Ins("ret", "none", <<>>)
Lc == R(1)
Ui == R(2)
Sp == R(3)
Fl == R(4)
Prefix(v) == Op("xwr", Ui, Imm(v))

\* The sign, the carry, the overflow and the size of a shift at their bounds.
Values == {0, 1, 15, 16, 255, 32767, 32768, 65535}
File(a, b) == [r \in Registers16 |-> CASE r = 0 -> a [] r = 1 -> b [] OTHER -> 100 * r]
JobsOf(programs, files) == [program : programs, regs : files]

Names      == {"add", "sub", "cmp", "tst", "mlu", "and", "ann", "orr", "xor", "shl", "shr", "mov"}
Bytes      == {0, 1, 15, 16, 31, 32, 128, 255, -1, -128}
Prefixes   == {<<>>, <<Prefix(0)>>, <<Prefix(1)>>, <<Prefix(128)>>, <<Prefix(255)>>, <<Op("xwr", Ui, R(1))>>}

\* Arithmetic on all pairs of values, and with immediates and prefixes.
RegisterJobs  == JobsOf({<<Op(n, R(0), R(1)), Hlt>> : n \in Names}, {File(a, b) : a, b \in Values})
ImmediateJobs == JobsOf({p \o <<Op(n, R(0), Imm(v)), Op("add", R(2), Imm(v)), Hlt>> :
                             p \in Prefixes, n \in Names \ {"ann"}, v \in Bytes},
                        {File(a, 1) : a \in {1, 32767, 65535}})
OneJobs       == JobsOf({<<One(n, R(0)), One("psh", R(0)), If("s", "ss", <<R(2)>>), Hlt>> : n \in {"not", "neg"}},
                        {File(a, 0) : a \in Values})

\* A comparison, something that leaves the flags alone, and everything that
\* depends on them.
Deciders == {Op("cmp", R(0), R(1)), Op("sub", R(0), R(1)), Op("cmp", R(0), Imm(255)), Op("sub", R(0), Imm(1)),
             Op("tst", R(0), R(1)), Op("add", R(0), R(1)), Op("xwr", Fl, R(0))}
ConditionJobs == JobsOf({<<d, One("psh", R(3)), If("s", c, <<R(2)>>), If("m", c, <<R(4), R(5)>>),
                           If("j", c, <<Lab(6)>>), Nop, Hlt>> : d \in Deciders, c \in Conditions},
                        {File(a, b) : a, b \in {0, 1, 255, 32767, 32768, 65535}})

\* tests/cpu/asm/g20t00.sasm with a smaller number
Factorial ==
    <<One("jmp", Lab(11)),
      Op("cmp", R(0), Imm(1)), If("j", "le", <<Lab(9)>>),
      One("psh", R(0)), Op("sub", R(0), Imm(1)), One("cal", Lab(1)),
      One("pop", R(1)), Op("mlu", R(0), R(1)), Ret,
      Op("mov", R(0), Imm(1)), Ret,
      Op("mov", R(0), Imm(6)), One("cal", Lab(1)), Op("mwr", Imm(80), R(0)), Hlt>>

\* os.sasm:63-88 with fewer lines: the part of the disk that is not loaded.
MCBootLines == 18
NoWord == One("ddw", Imm(NotHex))
Boot ==
    <<Op("mov", R(2), Imm(4)), Op("xwr", Lc, R(2)),
      Op("mov", R(0), Imm(16)), Prefix(\h80), Op("mov", R(1), Imm(0)),
      Op("pwr", Imm(14), R(0)), Op("prd", R(7), Imm(15)), Op("mwr", R(1), R(7)),
      Op("add", R(0), Imm(1)), Op("add", R(1), Imm(1)), One("lop", Lab(5)),
      Op("mrd", R(3), Imm(17)), Op("mrd", R(4), Imm(19)), Hlt, Nop, Nop,
      One("ddw", Imm(\hABCD)), NoWord, NoWord, One("ddw", Imm(\h1234))>>

Programs ==
    {Factorial,
     <<Op("xwr", Lc, Imm(3)), Op("add", R(0), Imm(1)), One("lop", Lab(1)), Hlt>>,
     <<Op("xwr", Lc, Imm(1)), Nop, One("lop", Imm(-2)), Hlt>>,
     <<Op("xwr", Lc, Imm(2)), Nop, Prefix(255), One("lop", Lab(1)), Hlt>>,
     <<Prefix(0), One("jmp", Lab(4)), Nop, Nop, Hlt>>,
     <<Prefix(0), If("j", "nz", <<Lab(3)>>), Nop, Hlt>>,
     <<One("jmp", Imm(1)), Nop, Prefix(0), If("j", "ns", <<Imm(1)>>), Nop, Hlt>>,
     <<Op("mov", R(1), Lab(4)), One("cal", R(1)), Hlt, Nop, Ret>>,
     <<One("jmp", Lab(3)), One("prf", R(0)), Ret, Prefix(255), One("cal", Lab(1)), Hlt>>,
     <<Op("xwr", R(0), Lab(2)), Hlt, Op("xrd", R(2), R(0)), Op("mov", R(1), Lab(6)), Op("xwr", R(0), R(1)), Nop, Hlt>>,
     <<Op("mwr", R(3), R(0)), Op("mrd", R(4), R(3)), Op("mwr", Imm(200), R(4)), Prefix(0),
       Op("mrd", R(5), Imm(200)), Op("mrd", R(6), Imm(201)), Hlt>>,
     <<Prefix(1), Op("xwr", Sp, Imm(0)), One("psh", R(0)), One("psh", R(1)), Op("srd", R(2), Imm(1)),
       Op("swr", Imm(1), R(1)), One("pop", R(3)), One("pop", R(4)), Op("xrd", R(5), Sp), Hlt>>,
     <<Op("xwr", Sp, R(1)), Prefix(255), Op("swr", Imm(255), R(2)), Prefix(255), Op("srd", R(3), Imm(255)),
       Op("xwr", R(5), R(0)), Op("xrd", R(6), R(5)), Op("xwr", Lc, R(1)), Op("xrd", R(7), Lc), Hlt>>,
     <<Op("cmp", R(0), R(1)), Op("xrd", R(2), Fl), Op("xwr", Fl, Imm(0)), Op("xwr", Fl, R(2)), If("s", "oo", <<R(3)>>), Hlt>>,
     Boot,
     <<Prefix(1), Op("mov", R(0), Imm(1)), Op("pwr", Imm(0), R(0)), Op("prd", R(1), Imm(0)),
       Op("add", R(0), Imm(1)), Op("mov", R(2), Imm(0)), Op("pwr", R(2), R(0)), Op("prd", R(3), R(2)),
       Prefix(4), Op("pwr", Imm(15), R(3)), Op("prd", R(4), Imm(14)), Op("pwr", Imm(1), R(3)),
       Prefix(4), Op("prd", R(5), Imm(0)), Op("pwr", Imm(15), R(1)), Op("prd", R(6), Imm(14)), Hlt>>,
     <<One("rng", R(0)), Op("dvu", R(0), R(1)), Op("dvs", R(0), R(1)), Op("mls", R(0), R(1)), Op("mls", R(0), Imm(1)), Hlt>>,
     \* words that are no instructions, or name registers and conditions that
     \* are not there, and an opcode reserved for hints
     <<One("ddw", Imm(\h0000)), One("ddw", Imm(\h0800)), One("ddw", Imm(\h2E00)), One("ddw", Imm(\h020A)),
       One("ddw", Imm(\h00CB)), One("ddw", Imm(\h0304)), One("ddw", Imm(\h0507)), One("ddw", Imm(\h1900)), One("ddw", Imm(\h1404)), Hlt>>,
     <<One("ddw", Imm(\h0404)), One("ddw", Imm(\h0107)), Hlt>>}

ProgramJobs == JobsOf(Programs, {File(a, b) : a, b \in {1, 32767, 65535}})

MCRandom == {0, 65535}
MCJobs   == RegisterJobs \union ImmediateJobs \union OneJobs \union ConditionJobs \union ProgramJobs

\* The comparisons alone.
CompareJobs == {job \in ConditionJobs : job.program[1] = Op("cmp", R(0), R(1))}
=============================================================================
