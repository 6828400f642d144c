----------------------------- MODULE MCAssembler -----------------------------
(***************************************************************************)
(* Texts for the assembler: all sequences of five lines of a few kinds     *)
(* that refer to each other, and every instruction of a large set, each    *)
(* alone after _start.  Byte = 8: an immediate or a displacement of a byte *)
(* is in -4..3.                                                            *)
(***************************************************************************)
EXTENDS AssemblerMeaning

InSection(name) == [kind |-> "section", to |-> name]
DefineSym(sym) == [kind |-> "label", sym |-> sym]
DefineNumeric == [kind |-> "numeric", n |-> "1"]
AlignTo(a) == [kind |-> "align", to |-> a]
ZeroBytes(n) == [kind |-> "zero", n |-> n]
ByteOf(v) == [kind |-> "data", sym |-> NoName, value |-> v, size |-> 1]
QuadOf(sym, addend) == [kind |-> "data", sym |-> sym, value |-> addend, size |-> 8]
Ins(name, suffix, ops) == [kind |-> "instruction", name |-> name, suffix |-> suffix, more |-> "", op |-> "", ops |-> ops]
With(name, more, ops) == [Ins(name, "", ops) EXCEPT !.more = more]

a == Symbol("a")
rax == Reg(0, 8)

Linked ==
  {InSection("text"), InSection("data"), InSection("bss"), DefineSym(a), DefineSym(Start), DefineNumeric,
   AlignTo(4), ByteOf(1), QuadOf(a, 2),
   Ins("jmp", "", <<Label(a)>>), Ins("jmp", "", <<NumericRef("1", "f")>>), Ins("jmp", "", <<NumericRef("1", "b")>>),
   Ins("mov", "l", <<Imm(1), Rip(a)>>)}

Short ==
  {InSection("data"), InSection("bss"), DefineSym(a), DefineNumeric, ZeroBytes(3), AlignTo(8), QuadOf(a, 2),
   With("j", "e", <<NumericRef("1", "f")>>), Ins("mov", "", <<Got(a), rax>>)}

\* Registers: the first, %rsp or %ah's number, %rbp's, and their REX twins.
Numbers == {0, 4, 5, 8, 12, 13}
Regs == {Reg(n, size) : n \in Numbers, size \in {1, 2, 4, 8}} \cup {High(4)}
Mems == {Mem(n, d) : n \in {0, 4, 5, 12, 13}, d \in {0, -4, 4}} \cup {Rip(Start)}
Imms == {Imm(v) : v \in {0, 3, 5, -5, 40, 3000}}
SuffixOf(size) == Group(suffixes, size)
Sizes == {1, 2, 4, 8}

TwoOperands(name) ==
  {Ins(name, "", <<s, d>>) : s \in Regs, d \in Regs}
  \cup {Ins(name, "", <<s, d>>) : s \in Regs, d \in Mems} \cup {Ins(name, "", <<s, d>>) : s \in Mems, d \in Regs}
  \cup {Ins(name, "", <<s, d>>) : s \in Imms, d \in Regs}
  \cup {Ins(name, SuffixOf(size), <<s, d>>) : s \in Imms, d \in {Mem(5, -4), Rip(Start)}, size \in Sizes}

Wide == {r \in Regs : r.size > 1}
Single ==
  {Ins(name, "", <<r>>) : name \in (DOMAIN group3 \ {"imul"}) \cup DOMAIN shifts \cup {"inc", "dec"}, r \in Regs}
  \cup {Ins(name, SuffixOf(size), <<Mem(5, -4)>>) : name \in {"neg", "inc", "shl"}, size \in Sizes}
  \cup {Ins(name, "", <<Reg(n, 8)>>) : name \in {"push", "pop", "jmp", "call"}, n \in Numbers}
  \cup {With(name, c, <<Label(Start)>>) : name \in {"j"}, c \in DOMAIN conditions}
  \cup {With("set", c, <<r>>) : c \in {"e", "be"}, r \in {x \in Regs : x.size = 1}}
  \cup {Ins(name, "", <<>>) : name \in DOMAIN NoOperand}
Pairs ==
  UNION {TwoOperands(name) : name \in {"mov", "cmp", "add"}}
  \cup {Ins("lea", "", <<m, r>>) : m \in Mems, r \in Wide}
  \cup {Ins("test", "", <<s, d>>) : s \in Regs, d \in Regs}
  \cup {Ins("imul", "", <<s, d>>) : s \in Wide \cup Mems, d \in Wide}
  \cup {Ins(name, "", <<s, d>>) : name \in DOMAIN shifts, s \in {Reg(1, 1), Imm(3)}, d \in Regs}
  \cup {With(name, f, <<s, d>>) : name \in {"movs", "movz"}, f \in {"b", "w"}, s \in Mems, d \in Wide}
  \cup {With(name, f, <<s, d>>) : name \in {"movs", "movz"}, f \in {"b"}, s \in {Reg(0, 1), Reg(5, 1), Reg(8, 1)}, d \in Wide}
  \cup {With("movs", "l", <<s, d>>) : s \in Mems \cup {Reg(0, 4)}, d \in {Reg(n, 8) : n \in Numbers}}
Xmms == {Xmm(0), Xmm(5)}
Floats ==
  {With(name, p, <<s, d>>) : name \in {"movs?", "cvts?2s?", "ucomis?", "xorp?"}, p \in {"s", "d"}, s \in Xmms \cup Mems, d \in Xmms}
  \cup {With("movs?", p, <<s, d>>) : p \in {"s", "d"}, s \in Xmms, d \in Mems}
  \cup {[With("s?", p, <<s, d>>) EXCEPT !.op = op] : op \in DOMAIN scalar, p \in {"s", "d"}, s \in Xmms \cup {Mem(4, 0)}, d \in Xmms}
  \cup {Ins("movq", "", <<s, d>>) : s \in Xmms \cup {Reg(0, 8), Reg(12, 8)} \cup Mems, d \in Xmms}
  \cup {Ins("movq", "", <<s, d>>) : s \in Xmms, d \in {Reg(0, 8), Reg(12, 8)} \cup Mems}
  \cup {[With("cvtsi2s?", p, <<s, d>>) EXCEPT !.suffix = SuffixOf(s.size)] : p \in {"s", "d"}, s \in {Reg(0, 4), Reg(8, 8)}, d \in Xmms}
  \cup {With("cvtts?2si", p, <<s, d>>) : p \in {"s", "d"}, s \in Xmms \cup Mems, d \in {Reg(0, 4), Reg(8, 8)}}
  \cup {Ins("pxor", "", <<s, d>>) : s \in Xmms, d \in Xmms}

MCFamilies ==
  {<<Linked, Linked, Linked, {DefineSym(Start)}, Linked>>,
   <<{DefineSym(Start)}, Short, Short, Short, Short>>,
   <<{DefineSym(Start)}, Single \cup Pairs \cup Floats>>}

=============================================================================
