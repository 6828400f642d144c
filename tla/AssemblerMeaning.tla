--------------------------- MODULE AssemblerMeaning ---------------------------
(***************************************************************************)
(* What the file that the assembler writes must be: loaded as its program  *)
(* headers say, every instruction line must be found at its place by a     *)
(* decoder that follows the processor's manual, with the operands that the *)
(* line names, and every datum must have its value.                        *)
(***************************************************************************)
EXTENDS Assembler

-----------------------------------------------------------------------------
(* A decoder.  code holds bytes from the first of an instruction on.        *)

Number(code, at, n) ==
  LET v == FoldLeft(LAMBDA sum, k : sum + code[at + k] * Byte ^ (k - 1), 0, [k \in 1..n |-> k])
  IN IF n > 0 /\ v >= Byte ^ n \div 2 THEN v - Byte ^ n ELSE v

Integer(n, size, rex) == IF size = 1 /\ ~rex /\ n \in 4..7 THEN <<"high", n, 1>> ELSE <<"reg", n, size>>
Group(digits, n) == CHOOSE name \in DOMAIN digits : digits[name] = n

\* The prefixes, and where the opcode is.
PrefixBytes(code) ==
  LET legacy == {k \in 1..2 : \A j \in 1..k : code[j] \in {102, 242, 243}}
      n == Cardinality(legacy)
      rex == IF code[n + 1] \in 64..79 THEN code[n + 1] ELSE 0
  IN [set |-> {code[k] : k \in legacy}, rex |-> rex # 0, w |-> (rex \div 8) % 2 = 1, r |-> (rex \div 4) % 2,
      b |-> rex % 2, at |-> n + (IF rex # 0 THEN 2 ELSE 1)]

\* What the ModRM byte at code[at] and what follows it say; size is the width
\* of the operand if it is a register, "x" for an xmm register.
ModRMOperand(code, at, p, size) ==
  LET modrm == code[at]
      mod == modrm \div 64
      reg == p.r * 8 + ((modrm \div 8) % 8)
      low == modrm % 8
      sib == mod # 3 /\ low = 4
      after == at + (IF sib THEN 1 ELSE 0)
      base == p.b * 8 + low
      wide == IF mod = 1 THEN 1 ELSE IF mod = 2 THEN 4 ELSE 0
  IN CASE mod = 3 -> [reg |-> reg, rm |-> IF size = 16 THEN <<"xmm", base, 16>> ELSE Integer(base, size, p.rex), end |-> at]
       [] mod = 0 /\ low = 5 -> [reg |-> reg, rm |-> <<"rip", Number(code, at, 4)>>, end |-> at + 4]
       [] OTHER -> [reg |-> reg, end |-> after + wide,
                    rm |-> IF sib /\ code[at + 1] # 36 THEN <<"bad">> ELSE <<"mem", base, Number(code, after, wide)>>]

\* An opcode: its name, width and form.  Forms: "EG" the source is the
\* register field, "GE" the destination is, "E" one operand, "EI" an immediate
\* of imm bytes, "OI" and "O" the register is in the opcode, "J" relative.
Form(name, more, size, form, imm) == [name |-> name, more |-> more, size |-> size, form |-> form, imm |-> imm]

OneByte(op, digit, p, size) ==
  LET sized == IF op % 2 = 0 THEN 1 ELSE size
      iv == IF sized = 8 THEN 4 ELSE sized
  IN CASE op < 64 /\ op % 8 < 2 -> Form(Group(group1, op \div 8), "", sized, "EG", 0)
       [] op < 64 /\ op % 8 \in {2, 3} -> Form(Group(group1, op \div 8), "", sized, "GE", 0)
       [] op \in {128, 129} -> Form(Group(group1, digit), "", sized, "EI", iv)
       [] op = 131 -> Form(Group(group1, digit), "", size, "EI", 1)
       [] op \in {132, 133} -> Form("test", "", sized, "EG", 0)
       [] op \in {136, 137} -> Form("mov", "", sized, "EG", 0)
       [] op \in {138, 139} -> Form("mov", "", sized, "GE", 0)
       [] op = 141 -> Form("lea", "", size, "GE", 0)
       [] op = 99 -> Form("movs", "l", size, "GE", 0)
       [] op \in {198, 199} -> Form("mov", "", sized, "EI", iv)
       [] op \in 176..183 -> Form("mov", "", 1, "OI", 1)
       [] op \in 184..191 -> Form("mov", "", size, "OI", size)
       [] op \in 80..87 -> Form("push", "", 8, "O", 0)
       [] op \in 88..95 -> Form("pop", "", 8, "O", 0)
       [] op \in {246, 247} -> Form(Group(group3, digit), "", sized, "E", 0)
       [] op \in {192, 193} -> Form(Group(shifts, digit), "", sized, "EI", 1)
       [] op \in {208, 209} -> Form(Group(shifts, digit), "", sized, "E1", 0)
       [] op \in {210, 211} -> Form(Group(shifts, digit), "", sized, "ECL", 0)
       [] op \in {254, 255} /\ digit < 2 -> Form(IF digit = 0 THEN "inc" ELSE "dec", "", sized, "E", 0)
       [] op = 255 /\ digit \in {2, 4} -> Form(IF digit = 2 THEN "call" ELSE "jmp", "", 8, "E", 0)
       [] op = 232 -> Form("call", "", 8, "J", 0)
       [] op = 233 -> Form("jmp", "", 8, "J", 0)
       [] op = 195 -> Form("ret", "", 0, "", 0)
       [] op = 153 -> Form(IF p.w THEN "cqo" ELSE "cdq", "", 0, "", 0)
       [] op = 244 -> Form("hlt", "", 0, "", 0)
       [] op = 170 /\ 243 \in p.set -> Form("repstosb", "", 0, "", 0)
       [] OTHER -> Form("?", "", 0, "", 0)

TwoByte(op, p, size) ==
  LET single == 243 \in p.set
      scalars == p.set \cap {242, 243} # {}
      sd == IF single THEN "s" ELSE "d"
      packed == IF 102 \in p.set THEN "d" ELSE "s"
  IN CASE op = 5 -> Form("syscall", "", 0, "", 0)
       [] op \in 128..143 -> Form("j", Group(conditions, op - 128), 8, "J", 0)
       [] op \in 144..159 -> Form("set", Group(conditions, op - 144), 1, "E", 0)
       [] op = 175 -> Form("imul", "", size, "GE", 0)
       [] op \in {182, 183, 190, 191} -> Form(IF op < 190 THEN "movz" ELSE "movs", IF op % 2 = 0 THEN "b" ELSE "w", size, "GE", 0)
       [] op = 16 /\ scalars -> Form("movs?", sd, 16, "XE", 0)
       [] op = 17 /\ scalars -> Form("movs?", sd, 16, "EX", 0)
       [] op = 126 /\ single -> Form("movq", "", 16, "XE", 0)
       [] op = 126 /\ ~single /\ 102 \in p.set /\ p.w -> Form("movq", "", 8, "EX", 0)
       [] op = 110 /\ 102 \in p.set /\ p.w -> Form("movq", "", 8, "XE", 0)
       [] op = 42 /\ scalars -> Form("cvtsi2s?", sd, size, "XE", 0)
       [] op = 44 /\ scalars -> Form("cvtts?2si", sd, size, "GX", 0)
       [] op = 90 /\ scalars -> Form("cvts?2s?", sd, 16, "XE", 0)
       [] op = 46 -> Form("ucomis?", packed, 16, "XE", 0)
       [] op = 87 -> Form("xorp?", packed, 16, "XE", 0)
       [] op = 239 /\ 102 \in p.set -> Form("pxor", "", 16, "XE", 0)
       [] op \in {88, 89, 92, 94} /\ scalars -> Form(Group(scalar, op), sd, 16, "XE", 0)
       [] OTHER -> Form("?", "", 0, "", 0)

SourceSize(f) == IF f.name \in {"movs", "movz"} THEN suffixes[f.more] ELSE IF f.form = "GX" THEN 16 ELSE f.size

\* What the manual says of code, whose last opcode byte is at at: it has form f
\* and, if it has a ModRM byte, the operands m.
Decoded(code, address, at, p, f, m) ==
  LET none == f.form \in {"", "O", "OI", "J"}
      end == (IF f.form = "J" THEN at + 4 ELSE IF none THEN at ELSE m.end) + f.imm
      rm == IF m.rm[1] = "rip" THEN <<"at", address + end + m.rm[2]>> ELSE m.rm
      width == IF f.name \in DOMAIN shifts THEN 1 ELSE f.size
      imm == <<"imm", Number(code, end - f.imm, f.imm) % Byte ^ width>>
      inOp == Integer(p.b * 8 + (code[at] % 8), f.size, p.rex)
      g == Integer(m.reg, f.size, p.rex)
      x == <<"xmm", m.reg, 16>>
      ops == CASE f.form = "" -> <<>>
               [] f.form = "EG" -> <<g, rm>>
               [] f.form \in {"GE", "GX"} -> <<rm, g>>
               [] f.form = "XE" -> <<rm, x>>
               [] f.form = "EX" -> <<x, rm>>
               [] f.form = "E" -> <<rm>>
               [] f.form = "EI" -> <<imm, rm>>
               [] f.form = "E1" -> <<<<"imm", 1>>, rm>>
               [] f.form = "ECL" -> <<<<"reg", 1, 1>>, rm>>
               [] f.form = "OI" -> <<imm, inOp>>
               [] f.form = "O" -> <<inOp>>
               [] f.form = "J" -> <<<<"at", address + end + Number(code, end - 4, 4)>>>>
  IN [says |-> [name |-> f.name, more |-> f.more, size |-> f.size, ops |-> ops], length |-> end]

DecodeForm(code, address, at, p, f) == Decoded(code, address, at, p, f, ModRMOperand(code, at + 1, p, SourceSize(f)))

DecodeAfter(p, code, address) ==
  LET size == IF p.w THEN 8 ELSE IF 102 \in p.set THEN 2 ELSE 4
  IN IF code[p.at] = 15
       THEN DecodeForm(code, address, p.at + 1, p, TwoByte(code[p.at + 1], p, size))
       ELSE DecodeForm(code, address, p.at, p, OneByte(code[p.at], (code[p.at + 1] \div 8) % 8, p, size))

\* Name, width and operands of the instruction that begins at address, and its length.
Decode(code, address) == DecodeAfter(PrefixBytes(code), code, address)

-----------------------------------------------------------------------------
(* What a line says.                                                        *)

Defines(k) ==
  LET line == lines[k].line
  IN IF line.kind = "label" THEN line.sym ELSE IF line.kind = "numeric" THEN <<line.n, 0>> ELSE NoName
Where(k) == sec_addr[lines[k].sec] + lines[k].off
Named(sym) == {k \in DOMAIN lines : Defines(k) = sym}

\* The lines that operand o of line k may mean.
Targets(o, k) ==
  IF o.kind # "numeric" THEN Named(o.sym)
  ELSE LET all == Named(<<o.n, 0>>)
           near == IF o.dir = "f" THEN {j \in all : j > k} ELSE {j \in all : j < k}
       IN {j \in near : \A i \in near : IF o.dir = "f" THEN j <= i ELSE j >= i}

IsRef(o) == o.kind \in {"label", "numeric"} \/ (o.kind = "mem" /\ o.sym # NoName)

SaysOperand(o, k, size) ==
  CASE IsRef(o) -> <<"at", Where(CHOOSE j \in Targets(o, k) : TRUE)>>
    [] o.kind = "mem" /\ ~IsRef(o) -> <<"mem", o.base, o.disp>>
    [] o.kind = "imm" -> <<"imm", o.imm % Byte ^ size>>
    [] o.kind = "reg" -> <<IF o.xmm THEN "xmm" ELSE IF o.high8 THEN "high" ELSE "reg", o.reg, o.size>>

SaysSize(i) ==
  LET last == IF i.ops = <<>> THEN Imm(0) ELSE Last(i.ops)
      width(o) == IF o.kind = "reg" THEN o.size ELSE IF i.suffix = "" THEN 8 ELSE suffixes[i.suffix]
  IN CASE i.ops = <<>> -> 0
       [] i.name \in {"jmp", "call", "j", "push", "pop"} -> 8
       [] i.name = "cvtsi2s?" -> width(i.ops[1])
       [] i.name = "movq" -> IF IsXmm(i.ops[1]) /\ IsXmm(last) THEN 16 ELSE 8
       [] i.name \in SseNames \ {"cvtsi2s?", "movq", "cvtts?2si"} -> 16
       [] i.name \notin SseNames /\ i.name \notin DOMAIN shifts /\ Len(i.ops) = 2 /\ ~IsReg(last) /\ IsReg(i.ops[1]) ->
            i.ops[1].size
       [] OTHER -> width(last)

Says(k) ==
  LET i == lines[k].line
      size == SaysSize(i)
      ops == [j \in DOMAIN i.ops |-> SaysOperand(i.ops[j], k, size)]
      address == i.name = "mov" /\ IsMem(i.ops[1]) /\ i.ops[1].gotpcrel
  IN [name |-> IF address THEN "lea" ELSE IF i.name = "s?" THEN i.op ELSE i.name,
      more |-> i.more, size |-> size,
      ops |-> IF i.name \in DOMAIN shifts /\ Len(ops) = 1 THEN <<<<"imm", 1>>>> \o ops ELSE ops]

-----------------------------------------------------------------------------
(* Properties.                                                              *)

\* The n bytes of memory from address on, when program and headers are loaded.
Loaded(address, n) ==
  LET segment == CHOOSE s \in ToSet(image.segments) : address \in s.addr..(s.addr + s.memsz - 1)
      at == address - segment.addr
  IN [k \in 1..n |-> IF at + k <= segment.filesz THEN image.file[segment.off + at + k] ELSE 0]

LineIsThere(k) ==
  LET line == lines[k].line
      address == Where(k)
  IN CASE line.kind = "instruction" ->
            \E found \in {Decode(Loaded(address, 16), address)} :
               LET rest == {j \in DOMAIN lines : j > k /\ lines[j].sec = lines[k].sec}
               IN
               /\ found.says = Says(k)
               /\ \A j \in rest : Where(j) >= address + found.length
       [] line.kind = "data" ->
            Loaded(address, line.size)
              = Bytes(line.value + (IF line.sym = NoName THEN 0 ELSE Where(CHOOSE j \in Named(line.sym) : TRUE)), line.size)
       [] line.kind = "align" -> k < Len(lines) /\ lines[k + 1].sec = lines[k].sec => Where(k + 1) % line.to = 0
       [] line.kind = "zero" -> \A b \in ToSet(Loaded(address, line.n)) : b = 0
       [] OTHER -> TRUE

\* No page is in two segments, each segment can be mapped from the file at its
\* offset, and nothing that can be written can be executed.
SegmentsApart ==
  LET pages(s) == (s.addr \div PAGE)..((s.addr + s.memsz - 1) \div PAGE)
      all == image.segments
  IN /\ \A i, j \in DOMAIN all : i # j => pages(all[i]) \cap pages(all[j]) = {}
     /\ \A s \in ToSet(all) : /\ s.off % PAGE = s.addr % PAGE
                              /\ s.filesz <= s.memsz /\ s.off + s.filesz <= Len(image.file)
                              /\ ~{"W", "X"} \subseteq s.flags

\* The program that is written is the program of the lines: its segments can be
\* loaded, it starts at _start, every instruction decodes at its address to the
\* line it was written as with the labels' addresses for their names, and data,
\* alignment and zeros are in place (encode, add_fixup, assemble_elf).
ProgramAsWritten ==
  image # NoImage =>
    /\ SegmentsApart
    /\ image.entry = Where(CHOOSE k \in Named(Start) : TRUE)
    /\ \A k \in DOMAIN lines : LineIsThere(k)

\* Reasons to refuse a text.
Impossible(i) ==
  LET regs == {i.ops[k] : k \in {j \in DOMAIN i.ops : IsReg(i.ops[j])}}
      rex(o) == \/ IsReg(o) /\ (o.reg >= 8 \/ o.size = 8 \/ (o.size = 1 /\ o.reg \in 4..7 /\ ~o.high8))
                \/ IsMem(o) /\ o.base >= 8
  IN \/ (\E o \in regs : o.high8) /\ (\E k \in DOMAIN i.ops : rex(i.ops[k]))
     \/ i.name \in {"mov", "test", "imul"} \cup DOMAIN group1 /\ Cardinality({o.size : o \in regs}) > 1
     \/ \E k \in DOMAIN i.ops : i.ops[k].kind = "imm" /\
          ~(IF SaysSize(i) = 8 /\ ~(i.name = "mov" /\ IsReg(i.ops[2])) THEN Fits(i.ops[k].imm, 4)
            ELSE FitsEither(i.ops[k].imm, SaysSize(i)))
Wrong(k) ==
  LET line == lines[k].line
  IN \/ Defines(k) # NoName /\ line.kind = "label" /\ Named(line.sym) # {k}
     \/ line.kind \in {"instruction", "data"} /\ lines[k].sec = "bss"
     \/ line.kind = "data" /\ line.sym # NoName /\ Named(line.sym) = {}
     \/ line.kind = "instruction" /\ (Impossible(line) \/ \E o \in ToSet(line.ops) : IsRef(o) /\ Targets(o, k) = {})

\* A text is refused only when something in it is wrong: a symbol that is
\* defined twice or never, code or data in .bss, operands that cannot be
\* encoded, no _start in .text (asm_error, assemble_elf).
RefusesOnlyWrong ==
  error => \/ \E k \in DOMAIN lines : Wrong(k)
           \/ family = <<>> /\ ~\E k \in Named(Start) : lines[k].sec = "text"

=============================================================================
