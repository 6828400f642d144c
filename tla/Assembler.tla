------------------------------ MODULE Assembler ------------------------------
(***************************************************************************)
(* The assembler and ELF writer of the compiler, cc/asm.c.  It reads the   *)
(* lines that codegen_x86.c prints, encodes each into the current section, *)
(* remembers where the address of a symbol must be filled in, and when the *)
(* text ends places the three sections and fills the addresses in.         *)
(*                                                                         *)
(* Lines come parsed.  The bytes of numbers (immediates, displacements,    *)
(* addresses) have Byte values, 256 in the code and fewer in a run, so     *)
(* that numbers of eight bytes stay small; the other bytes of an           *)
(* instruction keep their values.                                          *)
(***************************************************************************)
EXTENDS Integers, Sequences, SequencesExt, FiniteSets, TLC

CONSTANTS
  Families,    \* sequences of sets: a text of a family has one line of each
  Byte, BASE, PAGE

SizeAssumption == Byte \in Nat /\ Byte > 3 /\ BASE \in Nat /\ PAGE \in Nat \ {0}

VARIABLES
  family,          \* the lines that the text may still have
  lines,           \* the lines so far, each with the section and offset it began at
  bytes,           \* of "text" and "data"
  bss_len,
  cur,             \* the current section: "text", "data" or "bss"
  syms,            \* symbol -> section and offset
  fixups,
  numeric_count,   \* digit -> definitions so far
  error,           \* asm_error or error was called
  image            \* the file, when it has been written

vars == <<family, lines, bytes, bss_len, cur, syms, fixups, numeric_count, error, image>>

NoImage == [entry |-> 0, segments |-> <<>>, file |-> <<>>]
Digit == {"1"}
NoName == <<"", 0>>
Symbol(name) == <<name, 0>>

\* Mutant: every definition of 1: has the same name.
OneNumericName(n, k) == <<n, 1>>

numeric_name(n, k) == <<n, k>>

\* v in n bytes, the least first.
Bytes(v, n) == [k \in 1..n |-> (v \div Byte ^ (k - 1)) % Byte]
Fits(v, n) == v >= -(Byte ^ n \div 2) /\ v < Byte ^ n \div 2
FitsEither(v, n) == v >= -(Byte ^ n \div 2) /\ v < Byte ^ n

-----------------------------------------------------------------------------
(* Operands: after parse_op.                                                *)

Reg(n, size) == [kind |-> "reg", reg |-> n, size |-> size, high8 |-> FALSE, xmm |-> FALSE]
High(n) == [Reg(n, 1) EXCEPT !.high8 = TRUE]
Xmm(n) == [Reg(n, 16) EXCEPT !.xmm = TRUE]
Imm(v) == [kind |-> "imm", imm |-> v]
Mem(base, disp) == [kind |-> "mem", base |-> base, disp |-> disp, sym |-> NoName, gotpcrel |-> FALSE]
Rip(sym) == [kind |-> "mem", base |-> -1, disp |-> 0, sym |-> sym, gotpcrel |-> FALSE]
Got(sym) == [Rip(sym) EXCEPT !.gotpcrel = TRUE]
Label(sym) == [kind |-> "label", sym |-> sym]
NumericRef(n, dir) == [kind |-> "numeric", n |-> n, dir |-> dir]

IsReg(o) == o.kind = "reg" /\ ~o.xmm
IsXmm(o) == o.kind = "reg" /\ o.xmm
IsMem(o) == o.kind = "mem"

\* parse_op of 1f and 1b: the next definition, the last one.
Resolved(o) ==
  IF o.kind = "numeric" THEN Label(numeric_name(o.n, numeric_count[o.n] + IF o.dir = "f" THEN 1 ELSE 0)) ELSE o
BadOperand(o) == o.kind = "numeric" /\ o.dir = "b" /\ numeric_count[o.n] = 0

-----------------------------------------------------------------------------
(* Encoding.                                                                *)

\* What an instruction adds to .text, and its fixups from its first byte on.
Code(out, fix) == [ok |-> TRUE, out |-> out, fix |-> fix]
Bad == [ok |-> FALSE, out |-> <<>>, fix |-> <<>>]

NoEnc == [prefix |-> <<>>, w |-> FALSE, need_rex |-> FALSE, op |-> <<>>, reg |-> 0, reg_high8 |-> FALSE,
          rm |-> Reg(0, 8), imm_size |-> 0, imm |-> 0, opsize16 |-> FALSE]

ModRM(mod, reg, rm) == mod * 64 + (reg % 8) * 8 + (rm % 8)
If(c, s) == IF c THEN s ELSE <<>>

\* Mutant: %rbp and %r13 without a displacement are treated as other registers.
ModOfPlain(rm) == IF rm.disp = 0 THEN 0 ELSE IF Fits(rm.disp, 1) THEN 1 ELSE 2

ModOf(rm) == IF rm.disp = 0 /\ rm.base % 8 # 5 THEN 0 ELSE IF Fits(rm.disp, 1) THEN 1 ELSE 2

encode(e) ==
  LET extended(o) == IF o.kind = "reg" THEN o.reg >= 8 ELSE o.base >= 8
      bits == (IF e.w THEN 8 ELSE 0) + (IF e.reg >= 8 THEN 4 ELSE 0) + (IF extended(e.rm) THEN 1 ELSE 0)
      rex == bits # 0 \/ e.need_rex
      head == If(e.opsize16, <<102>>) \o e.prefix \o If(rex, <<64 + bits>>) \o e.op
      mod == ModOf(e.rm)
      address ==
        CASE e.rm.kind = "reg" -> <<ModRM(3, e.reg, e.rm.reg)>>
          [] e.rm.kind = "mem" /\ e.rm.base = -1 -> <<ModRM(0, e.reg, 5)>> \o Bytes(0, 4)
          [] OTHER -> <<ModRM(mod, e.reg, e.rm.base)>> \o If(e.rm.base % 8 = 4, <<36>>)
                      \o (IF mod = 1 THEN Bytes(e.rm.disp, 1) ELSE IF mod = 2 THEN Bytes(e.rm.disp, 4) ELSE <<>>)
  IN IF \/ rex /\ (e.reg_high8 \/ (e.rm.kind = "reg" /\ e.rm.high8))
        \/ IsMem(e.rm) /\ ~Fits(e.rm.disp, 4)
       THEN Bad
     ELSE Code(head \o address \o Bytes(e.imm, e.imm_size),
               If(IsMem(e.rm) /\ e.rm.base = -1,
                  <<[at |-> Len(head) + 1, sym |-> e.rm.sym, addend |-> e.rm.disp - 4 - e.imm_size, abs64 |-> FALSE]>>))

suffixes == [b |-> 1, w |-> 2, l |-> 4, q |-> 8]
\* 0 where op_size calls asm_error.
op_size(a, b, suffix) ==
  IF IsReg(a) THEN a.size ELSE IF IsReg(b) THEN b.size
  ELSE IF suffix \in DOMAIN suffixes THEN suffixes[suffix] ELSE 0

set_size(e, size, op8, op) ==
  [e EXCEPT !.op = <<IF size = 1 THEN op8 ELSE op>>, !.w = size = 8, !.opsize16 = size = 2]
need_rex_for(e, r) ==
  [e EXCEPT !.need_rex = @ \/ (r.kind = "reg" /\ r.size = 1 /\ ~r.high8 /\ r.reg \in 4..7)]
set_reg(e, r) == need_rex_for([e EXCEPT !.reg = r.reg, !.reg_high8 = r.high8], r)
same_width(a, b) == IsReg(a) /\ IsReg(b) => a.size = b.size
\* check_imm: any bit pattern of the field, or a number that is extended to 64 bits.
ImmFits(v, size) == IF size = 8 THEN Fits(v, 4) ELSE FitsEither(v, size)
ToRM(e, rm) == encode(need_rex_for([e EXCEPT !.rm = rm], rm))

alu(n, src, dst, size) ==
  LET v == IF size \in {2, 4} /\ ~Fits(src.imm, size) THEN src.imm - Byte ^ size ELSE src.imm
      e == IF size = 1 THEN [NoEnc EXCEPT !.op = <<128>>, !.imm_size = 1]
           ELSE IF Fits(v, 1) THEN [NoEnc EXCEPT !.op = <<131>>, !.imm_size = 1]
           ELSE [NoEnc EXCEPT !.op = <<129>>, !.imm_size = IF size = 2 THEN 2 ELSE 4]
  IN CASE src.kind = "imm" /\ dst.kind \in {"reg", "mem"} ->
            IF ImmFits(src.imm, size)
              THEN ToRM([e EXCEPT !.w = size = 8, !.opsize16 = size = 2, !.reg = n, !.imm = v], dst)
              ELSE Bad
       [] src.kind = "reg" /\ dst.kind \in {"reg", "mem"} ->
            ToRM(set_reg(set_size(NoEnc, size, n * 8, n * 8 + 1), src), dst)
       [] src.kind = "mem" /\ dst.kind = "reg" ->
            encode([set_reg(set_size(NoEnc, size, n * 8 + 2, n * 8 + 3), dst) EXCEPT !.rm = src])
       [] OTHER -> Bad

\* The short forms for an immediate and a register are written by hand.
MovImm(v, dst, size) ==
  LET rex == dst.reg >= 8 \/ (size = 1 /\ dst.reg \in 4..7 /\ ~dst.high8)
  IN CASE size = 8 /\ Fits(v, 4) ->
            encode([NoEnc EXCEPT !.w = TRUE, !.op = <<199>>, !.rm = dst, !.imm_size = 4, !.imm = v])
       [] size = 8 /\ ~Fits(v, 4) ->
            Code(<<IF dst.reg >= 8 THEN 73 ELSE 72, 184 + (dst.reg % 8)>> \o Bytes(v, 8), <<>>)
       [] size < 8 /\ (~FitsEither(v, size) \/ (rex /\ dst.high8)) -> Bad
       [] OTHER -> Code(If(size = 2, <<102>>) \o If(rex, <<IF dst.reg >= 8 THEN 65 ELSE 64>>)
                        \o <<(IF size = 1 THEN 176 ELSE 184) + (dst.reg % 8)>> \o Bytes(v, size), <<>>)

mov(src, dst, size) ==
  CASE src.kind = "imm" /\ dst.kind = "reg" -> MovImm(src.imm, dst, size)
    [] src.kind = "imm" /\ dst.kind = "mem" ->
         IF ImmFits(src.imm, size)
           THEN encode([set_size(NoEnc, size, 198, 199) EXCEPT !.rm = dst,
                          !.imm_size = IF size = 8 THEN 4 ELSE size, !.imm = src.imm])
           ELSE Bad
    [] src.kind = "reg" /\ dst.kind \in {"reg", "mem"} ->
         ToRM(set_reg(set_size(NoEnc, size, 136, 137), src), dst)
    [] src.kind = "mem" /\ dst.kind = "reg" /\ src.gotpcrel ->
         IF size = 8 THEN encode([NoEnc EXCEPT !.op = <<141>>, !.w = TRUE, !.reg = dst.reg, !.rm = src]) ELSE Bad
    [] src.kind = "mem" /\ dst.kind = "reg" /\ ~src.gotpcrel ->
         encode([set_reg(set_size(NoEnc, size, 138, 139), dst) EXCEPT !.rm = src])
    [] OTHER -> Bad

\* movs and movz: from is the width of the source.
movx(sign, from, src, dst) ==
  IF dst.kind # "reg" THEN Bad
  ELSE IF from = 4 THEN encode([NoEnc EXCEPT !.w = TRUE, !.op = <<99>>, !.reg = dst.reg, !.rm = src])
  ELSE ToRM([NoEnc EXCEPT !.op = <<15, (IF sign THEN 190 ELSE 182) + IF from = 2 THEN 1 ELSE 0>>,
               !.w = dst.size = 8, !.opsize16 = dst.size = 2, !.reg = dst.reg], src)

\* The register field holds x, an xmm register.
sse(prefix, op, x, m, w) ==
  IF IsXmm(x) /\ m.kind \in {"reg", "mem"}
    THEN encode([NoEnc EXCEPT !.prefix = prefix, !.op = <<15, op>>, !.w = w, !.reg = x.reg, !.rm = m])
    ELSE Bad

group1 == [add |-> 0, or |-> 1, and |-> 4, sub |-> 5, xor |-> 6, cmp |-> 7]
group3 == [not |-> 2, neg |-> 3, mul |-> 4, imul |-> 5, div |-> 6, idiv |-> 7]
shifts == [shl |-> 4, shr |-> 5, sar |-> 7]
conditions == [e |-> 4, ne |-> 5, a |-> 7, ae |-> 3, be |-> 6, b |-> 2, l |-> 12, le |-> 14, p |-> 10, np |-> 11]
scalar == [add |-> 88, mul |-> 89, sub |-> 92, div |-> 94]   \* with ss or sd

NoOperand ==
  [ret |-> <<195>>, cqo |-> <<72, 153>>, cdq |-> <<153>>, syscall |-> <<15, 5>>, hlt |-> <<244>>,
   repstosb |-> <<243, 170>>]

Prefix(precision) == IF precision = "d" THEN <<242>> ELSE <<243>>
Branch(out, sym) == Code(out \o Bytes(0, 4), <<[at |-> Len(out), sym |-> sym, addend |-> -4, abs64 |-> FALSE]>>)

\* One or two operands; i.name may need a word more: the condition of set and
\* j, the width that movs and movz start from.
OneOperand(i, a) ==
  LET size == op_size(a, a, i.suffix)
      byRM(op8, op, digit) == ToRM([set_size(NoEnc, size, op8, op) EXCEPT !.reg = digit], a)
  IN CASE i.name \in {"jmp", "call"} /\ a.kind = "label" -> Branch(<<IF i.name = "jmp" THEN 233 ELSE 232>>, a.sym)
       [] i.name \in {"jmp", "call"} /\ a.kind = "reg" /\ a.size = 8 ->
            encode([NoEnc EXCEPT !.op = <<255>>, !.reg = IF i.name = "jmp" THEN 4 ELSE 2, !.rm = a])
       [] i.name = "j" /\ a.kind = "label" -> Branch(<<15, 128 + conditions[i.more]>>, a.sym)
       [] i.name = "set" /\ a.kind = "reg" /\ a.size = 1 ->
            ToRM([NoEnc EXCEPT !.op = <<15, 144 + conditions[i.more]>>], a)
       [] i.name \in {"push", "pop"} /\ IsReg(a) /\ a.size = 8 ->
            Code(If(a.reg >= 8, <<65>>) \o <<(IF i.name = "push" THEN 80 ELSE 88) + (a.reg % 8)>>, <<>>)
       [] i.name \in DOMAIN group3 \ {"imul"} /\ size # 0 -> byRM(246, 247, group3[i.name])
       [] i.name \in {"inc", "dec"} /\ size # 0 -> byRM(254, 255, IF i.name = "inc" THEN 0 ELSE 1)
       [] i.name \in DOMAIN shifts /\ size # 0 -> byRM(208, 209, shifts[i.name])
       [] OTHER -> Bad

IntegerOperands(i, a, b) ==
  LET size == IF i.name \in DOMAIN shifts THEN op_size(b, b, i.suffix) ELSE op_size(b, a, i.suffix)
      wide(e) == [e EXCEPT !.w = b.size = 8, !.opsize16 = b.size = 2, !.reg = b.reg, !.rm = a]
  IN CASE i.name = "mov" /\ size # 0 -> IF same_width(a, b) THEN mov(a, b, size) ELSE Bad
       [] i.name \in DOMAIN group1 /\ size # 0 -> IF same_width(a, b) THEN alu(group1[i.name], a, b, size) ELSE Bad
       [] i.name = "lea" /\ IsMem(a) /\ b.kind = "reg" -> encode(wide([NoEnc EXCEPT !.op = <<141>>]))
       [] i.name = "test" /\ a.kind = "reg" /\ same_width(a, b) ->
            ToRM(set_reg(set_size(NoEnc, size, 132, 133), a), b)
       [] i.name = "imul" /\ b.kind = "reg" /\ b.size # 1 /\ same_width(a, b) ->
            encode(wide([NoEnc EXCEPT !.op = <<15, 175>>]))
       [] i.name \in DOMAIN shifts /\ a.kind = "reg" /\ a.reg = 1 /\ a.size = 1 /\ size # 0 ->
            ToRM([set_size(NoEnc, size, 210, 211) EXCEPT !.reg = shifts[i.name]], b)
       [] i.name \in DOMAIN shifts /\ a.kind = "imm" /\ size # 0 ->
            IF a.imm < size * 8 /\ FitsEither(a.imm, 1)
              THEN ToRM([set_size(NoEnc, size, 192, 193) EXCEPT !.reg = shifts[i.name], !.imm_size = 1, !.imm = a.imm], b)
              ELSE Bad
       [] i.name \in {"movs", "movz"} /\ a.kind \in {"reg", "mem"} -> movx(i.name = "movs", suffixes[i.more], a, b)
       [] OTHER -> Bad

\* more is the precision, "s" or "d".
SseOperands(i, a, b) ==
  CASE i.name = "movs?" /\ IsXmm(b) -> sse(Prefix(i.more), 16, b, a, FALSE)
    [] i.name = "movs?" /\ IsXmm(a) /\ IsMem(b) -> sse(Prefix(i.more), 17, a, b, FALSE)
    [] i.name = "movq" /\ IsXmm(a) /\ IsXmm(b) -> sse(<<243>>, 126, b, a, FALSE)
    [] i.name = "movq" /\ IsXmm(b) /\ ~IsXmm(a) -> IF IsReg(a) /\ a.size # 8 THEN Bad ELSE sse(<<102>>, 110, b, a, TRUE)
    [] i.name = "movq" /\ IsXmm(a) /\ ~IsXmm(b) -> IF IsReg(b) /\ b.size # 8 THEN Bad ELSE sse(<<102>>, 126, a, b, TRUE)
    [] i.name = "cvtsi2s?" ->
         LET w == i.suffix = "q" \/ (i.suffix = "" /\ IsReg(a) /\ a.size = 8)
         IN IF a.kind = "reg" /\ (a.xmm \/ a.size # (IF w THEN 8 ELSE 4)) THEN Bad
            ELSE sse(Prefix(i.more), 42, b, a, w)
    [] i.name = "cvtts?2si" /\ IsReg(b) /\ b.size \in {4, 8} ->
         IF i.suffix \in DOMAIN suffixes /\ b.size # suffixes[i.suffix] THEN Bad
         ELSE encode([NoEnc EXCEPT !.prefix = Prefix(i.more), !.op = <<15, 44>>, !.w = b.size = 8, !.reg = b.reg, !.rm = a])
    [] i.name = "cvts?2s?" -> sse(Prefix(i.more), 90, b, a, FALSE)
    [] i.name = "ucomis?" -> sse(If(i.more = "d", <<102>>), 46, b, a, FALSE)
    [] i.name = "xorp?" -> sse(If(i.more = "d", <<102>>), 87, b, a, FALSE)
    [] i.name = "pxor" -> sse(<<102>>, 239, b, a, FALSE)
    [] i.name = "s?" -> sse(Prefix(i.more), scalar[i.op], b, a, FALSE)
    [] OTHER -> Bad

SseNames == {"movs?", "movq", "cvtsi2s?", "cvtts?2si", "cvts?2s?", "ucomis?", "xorp?", "pxor", "s?"}

instruction(i) ==
  LET ops == [k \in DOMAIN i.ops |-> Resolved(i.ops[k])]
  IN CASE \E k \in DOMAIN i.ops : BadOperand(i.ops[k]) -> Bad
       [] Len(ops) = 0 -> Code(NoOperand[i.name], <<>>)
       [] Len(ops) = 1 -> OneOperand(i, ops[1])
       [] Len(ops) = 2 /\ i.name \in SseNames -> SseOperands(i, ops[1], ops[2])
       [] OTHER -> IntegerOperands(i, ops[1], ops[2])

-----------------------------------------------------------------------------
(* Lines.                                                                   *)

Init ==
  /\ family \in Families
  /\ lines = <<>>
  /\ bytes = [text |-> <<>>, data |-> <<>>]
  /\ bss_len = 0
  /\ cur = "text"
  /\ syms = <<>>
  /\ fixups = <<>>
  /\ numeric_count = [n \in Digit |-> 0]
  /\ error = FALSE
  /\ image = NoImage

offset == IF cur = "bss" THEN bss_len ELSE Len(bytes[cur])

\* The next line of the text has the kind that the action is for.
Reads(kind, line) ==
  /\ ~error /\ family # <<>> /\ line \in Head(family) /\ line.kind = kind
  /\ family' = Tail(family)
  /\ lines' = Append(lines, [line |-> line, sec |-> cur, off |-> offset])

Fails == /\ error' = TRUE
         /\ UNCHANGED <<bytes, bss_len, cur, syms, fixups, image>>

emit(out) == bytes' = [bytes EXCEPT ![cur] = @ \o out]
add_fixup(name, at, addend, abs64) ==
  Append(fixups, [sec |-> cur, off |-> at, name |-> name, addend |-> addend, abs64 |-> abs64])

Section(line) ==
  /\ Reads("section", line)
  /\ cur' = line.to
  /\ UNCHANGED <<bytes, bss_len, syms, fixups, numeric_count, error, image>>

define_sym(name) ==
  IF name \in DOMAIN syms THEN Fails
  ELSE /\ syms' = (name :> [sec |-> cur, off |-> offset]) @@ syms
       /\ UNCHANGED <<bytes, bss_len, cur, fixups, error, image>>

NamedLabel(line) ==
  /\ Reads("label", line)
  /\ define_sym(line.sym)
  /\ UNCHANGED numeric_count

NumericLabel(line) ==
  /\ Reads("numeric", line)
  /\ numeric_count' = [numeric_count EXCEPT ![line.n] = @ + 1]
  /\ define_sym(numeric_name(line.n, numeric_count[line.n] + 1))

align_to(n, a) == ((n + a - 1) \div a) * a

Align(line) ==
  /\ Reads("align", line)
  /\ LET pad == align_to(offset, line.to) - offset
     IN IF cur = "bss" THEN bss_len' = bss_len + pad /\ UNCHANGED bytes
        ELSE emit([k \in 1..pad |-> IF cur = "text" THEN 144 ELSE 0]) /\ UNCHANGED bss_len
  /\ UNCHANGED <<cur, syms, fixups, numeric_count, error, image>>

Zero(line) ==
  /\ Reads("zero", line)
  /\ IF cur = "bss" THEN bss_len' = bss_len + line.n /\ UNCHANGED bytes
     ELSE emit([k \in 1..line.n |-> 0]) /\ UNCHANGED bss_len
  /\ UNCHANGED <<cur, syms, fixups, numeric_count, error, image>>

\* .byte and .quad of a number, .quad of a symbol.
DataLine(line) ==
  /\ Reads("data", line)
  /\ UNCHANGED numeric_count
  /\ IF cur = "bss" THEN Fails
     ELSE /\ emit(IF line.sym = NoName THEN Bytes(line.value, line.size) ELSE Bytes(0, 8))
          /\ fixups' = IF line.sym = NoName THEN fixups
                       ELSE add_fixup(line.sym, offset, line.value, TRUE)
          /\ UNCHANGED <<bss_len, cur, syms, error, image>>

InstructionLine(line) ==
  /\ Reads("instruction", line)
  /\ \E code \in {instruction(line)} :
        /\ UNCHANGED numeric_count
        /\ IF cur = "bss" \/ ~code.ok THEN Fails
           ELSE /\ emit(code.out)
                /\ fixups' = IF code.fix = <<>> THEN fixups
                             ELSE LET f == code.fix[1] IN add_fixup(f.sym, offset + f.at, f.addend, f.abs64)
                /\ UNCHANGED <<bss_len, cur, syms, error, image>>

-----------------------------------------------------------------------------
(* The file.                                                                *)

DataOffset(at) == align_to(at, PAGE)

text_off == PAGE
data_off == DataOffset(text_off + Len(bytes.text))
sec_addr ==
  LET data == BASE + data_off
  IN [text |-> BASE + text_off, data |-> data, bss |-> align_to(data + Len(bytes.data), 16)]

Rel(f, target, addr) == target - (addr[f.sec] + f.off)

Overwrite(s, at, new) == SubSeq(s, 1, at) \o new \o SubSeq(s, at + Len(new) + 1, Len(s))

Resolve(addr) ==
  LET fill(done, f) ==
        LET target == addr[syms[f.name].sec] + syms[f.name].off + f.addend
        IN [done EXCEPT ![f.sec] =
              Overwrite(@, f.off, IF f.abs64 THEN Bytes(target, 8) ELSE Bytes(Rel(f, target, addr), 4))]
  IN FoldLeft(fill, bytes, fixups)

Start == Symbol("_start")

\* The end of the text: the sections get their places, the fixups their
\* values, and the file its headers.
Finish ==
  /\ ~error /\ family = <<>> /\ image = NoImage
  /\ IF \/ \E k \in DOMAIN fixups : fixups[k].name \notin DOMAIN syms
        \/ Start \notin DOMAIN syms \/ syms[Start].sec # "text"
       THEN error' = TRUE /\ UNCHANGED image
       ELSE LET addr == sec_addr
                done == Resolve(addr)
                zeros(n) == [k \in 1..n |-> 0]
                text_end == text_off + Len(done.text)
            IN /\ image' = [entry |-> addr.text + syms[Start].off,
                            segments |-> <<[off |-> 0, addr |-> BASE, filesz |-> text_end, memsz |-> text_end,
                                            flags |-> {"R", "X"}],
                                           [off |-> data_off, addr |-> addr.data, filesz |-> Len(done.data),
                                            memsz |-> (addr.bss - addr.data) + bss_len, flags |-> {"R", "W"}]>>,
                            file |-> zeros(PAGE) \o done.text \o zeros(data_off - text_end) \o done.data]
               /\ UNCHANGED error
  /\ UNCHANGED <<family, lines, bytes, bss_len, cur, syms, fixups, numeric_count>>

Ended == (error \/ image # NoImage) /\ UNCHANGED vars

ReadLine(line) ==
  \/ Section(line) \/ NamedLabel(line) \/ NumericLabel(line) \/ Align(line)
  \/ Zero(line) \/ DataLine(line) \/ InstructionLine(line)

Next == \/ family # <<>> /\ \E line \in Head(family) : ReadLine(line)
        \/ Finish \/ Ended

Spec == Init /\ [][Next]_vars

=============================================================================
