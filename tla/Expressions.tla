---------------------------- MODULE Expressions ----------------------------
(***************************************************************************)
(* Expressions of the compiler in cc/, as codegen.c (WebAssembly) and      *)
(* codegen_x86.c translate them: where values wait while others are        *)
(* computed.  WebAssembly has its operand stack, scratch locals and a      *)
(* shadow stack in memory, x86 has %rax and the machine's stack.           *)
(*                                                                         *)
(* An expression is arbitrary: a step makes a leaf or puts trees together. *)
(* The value of an expression of struct type is its address, in both back  *)
(* ends.  ExpressionMeaning executes the two texts.                        *)
(***************************************************************************)
EXTENDS Integers, Sequences, SequencesExt, FiniteSets

CONSTANTS
  Grammars,     \* sets of forms: an expression uses the forms of one of them
  MaxNodes,     \* bound on the nodes of an expression
  GP_MAX,       \* general registers that carry arguments
  Avoided       \* shapes that are left out

VARIABLES
  grammar,      \* the forms of this expression
  trees,        \* the expressions read so far, the last one on top
  nodes         \* nodes made

vars == <<grammar, trees, nodes>>

-----------------------------------------------------------------------------
(* Data.  An int is a word; a struct is of four words, more than the two    *)
(* that x86 returns in registers.                                           *)

Words == 4
Ints == {"x", "y"}
Structs == {"p", "q", "r"}

\* assign_lvar_offsets: every local has its place in the frame, and so has
\* every ret_buffer (its call is numbered by the node).
Offset(v) ==
  CASE v = "x" -> 0 [] v = "y" -> 1 [] v = "p" -> 2 [] v = "q" -> 2 + Words [] v = "r" -> 2 + 2 * Words
RetBuffer(id) == 2 + Words * (id + 2)
FrameTop == RetBuffer(MaxNodes + 1)

-----------------------------------------------------------------------------
(* Trees.                                                                   *)

Num(val) == [kind |-> "num", type |-> "int", val |-> val]
Var(v) == [kind |-> "var", type |-> IF v \in Ints THEN "int" ELSE "struct", v |-> v]
Unary(kind, lhs) == [kind |-> kind, type |-> "int", lhs |-> lhs]
Binary(kind, type, lhs, rhs) == [kind |-> kind, type |-> type, lhs |-> lhs, rhs |-> rhs]
Cond(c, t, e) == [kind |-> "cond", type |-> t.type, cond |-> c, then |-> t, els |-> e]
Call(f, id, args) ==
  [kind |-> "call", type |-> IF f = "h" THEN "struct" ELSE "int", f |-> f, id |-> id, args |-> args]

Operands(n) ==
  CASE n.kind \in {"num", "var"} -> <<>>
    [] n.kind \in {"not", "member"} -> <<n.lhs>>
    [] n.kind = "cond" -> <<n.cond, n.then, n.els>>
    [] n.kind = "call" -> n.args
    [] OTHER -> <<n.lhs, n.rhs>>

RECURSIVE Inside(_)
Inside(n) == {n} \union UNION {Inside(c) : c \in ToSet(Operands(n))}

Writes(n) == {m.lhs.v : m \in {k \in Inside(n) : k.kind = "assign"}}
Mentions(n) == {m.v : m \in {k \in Inside(n) : k.kind = "var"}}

\* C leaves the order of operands open and forbids that they interfere.
Apart(a, b) == Writes(a) \intersect Mentions(b) = {} /\ Writes(b) \intersect Mentions(a) = {}

\* The node that the value of a struct expression comes from.
RECURSIVE Sources(_)
Sources(n) == CASE n.kind \in {"comma", "assign"} -> Sources(n.rhs)
                [] n.kind = "cond" -> Sources(n.then) \union Sources(n.els)
                [] OTHER -> {n}

StructAssigns(n) == {m \in Inside(n) : m.kind = "assign" /\ m.type = "struct"}

-----------------------------------------------------------------------------
(* codegen.c: code is a sequence of instructions; an if holds its two arms. *)

fp_plus(off) == <<"fp_plus", off>>
Scratch == "t32"          \* scratch_local(VC_I32)
StructScratch == "t32b"   \* what the struct case of ND_ASSIGN uses

load(n) == IF n.type = "struct" THEN <<>> ELSE <<<<"load">>>>

RECURSIVE WasmExpr(_)
RECURSIVE WasmAddr(_)

\* gen_funcall.  Only f is variadic, after its first parameter: its other
\* arguments have slots, an even number of them, in the shadow stack.
Fixed(n) == IF n.f = "f" THEN 1 ELSE Len(n.args)
\* Mutant: the shadow stack is not moved for the slots.
NoSlots(n) == 0

SlotsSize(n) == 2 * ((Len(n.args) - Fixed(n) + 1) \div 2)

WasmCall(n) ==
  LET ret == IF n.type = "struct" THEN <<fp_plus(RetBuffer(n.id))>> ELSE <<>>
      fixed == FlattenSeq([i \in 1..Fixed(n) |-> WasmExpr(n.args[i])])
      size == SlotsSize(n)
      MoveSp(by) == IF size = 0 THEN <<>> ELSE <<<<"sp_add", by>>>>
      Slot(i) == <<<<"get_sp", i - 1>>>> \o WasmExpr(n.args[Fixed(n) + i]) \o <<<<"store">>>>
      slots == FlattenSeq([i \in 1..(Len(n.args) - Fixed(n)) |-> Slot(i)])
      area == IF n.f = "f" THEN MoveSp(-size) \o slots \o <<<<"get_sp", 0>>>> ELSE <<>>
  IN ret \o fixed \o area \o <<<<"call", n.f, Len(n.args)>>>> \o MoveSp(size) \o ret

WasmAddr(n) ==
  CASE n.kind = "var" -> <<fp_plus(Offset(n.v))>>
    [] n.kind = "comma" -> WasmExpr(n.lhs) \o <<<<"drop">>>> \o WasmAddr(n.rhs)
    [] n.kind \in {"assign", "cond", "call"} -> WasmExpr(n)

WasmExpr(n) ==
  CASE n.kind = "num" -> <<<<"const", n.val>>>>
    [] n.kind = "var" -> WasmAddr(n) \o load(n)
    [] n.kind = "member" -> WasmAddr(n.lhs) \o <<<<"const", Words - 1>>, <<"add">>>> \o load(n)
    [] n.kind = "assign" /\ n.type = "struct" ->
         WasmAddr(n.lhs) \o <<<<"tee", StructScratch>>>> \o WasmExpr(n.rhs)
           \o <<<<"const", Words>>, <<"memory.copy">>, <<"get", StructScratch>>>>
    [] n.kind = "assign" /\ n.type = "int" ->
         WasmAddr(n.lhs) \o WasmExpr(n.rhs) \o <<<<"tee", Scratch>>, <<"store">>, <<"get", Scratch>>>>
    [] n.kind = "comma" -> WasmExpr(n.lhs) \o <<<<"drop">>>> \o WasmExpr(n.rhs)
    [] n.kind = "cond" -> WasmExpr(n.cond) \o <<<<"if", WasmExpr(n.then), WasmExpr(n.els)>>>>
    [] n.kind = "not" -> WasmExpr(n.lhs) \o <<<<"bool">>, <<"eqz">>>>
    [] n.kind = "and" ->
         WasmExpr(n.lhs) \o <<<<"if", WasmExpr(n.rhs) \o <<<<"bool">>>>, <<<<"const", 0>>>>>>>>
    [] n.kind = "or" ->
         WasmExpr(n.lhs) \o <<<<"if", <<<<"const", 1>>>>, WasmExpr(n.rhs) \o <<<<"bool">>>>>>>>
    [] n.kind = "sub" -> WasmExpr(n.lhs) \o WasmExpr(n.rhs) \o <<<<"sub">>>>
    [] n.kind = "call" -> WasmCall(n)

-----------------------------------------------------------------------------
(* codegen_x86.c: depth is the number of words pushed and not yet popped    *)
(* where the code runs.                                                     *)

\* pass_by_stack for each argument, and gp after the registers are given out.
PassByStack(n) ==
  LET before(i) == (IF n.type = "struct" THEN 1 ELSE 0)
                   + Cardinality({j \in 1..(i - 1) : n.args[j].type = "int"})
  IN [i \in DOMAIN n.args |-> n.args[i].type = "struct" \/ before(i) >= GP_MAX]

\* Mutant: a struct counts as one word.
StackArguments(n) == Cardinality({i \in DOMAIN n.args : PassByStack(n)[i]})

\* The words of the arguments that go by the stack.
StackWords(n) ==
  LET by == PassByStack(n)
      size(i) == IF ~by[i] THEN 0 ELSE IF n.args[i].type = "struct" THEN Words ELSE 1
  IN FoldLeft(LAMBDA a, b : a + b, 0, [i \in DOMAIN n.args |-> size(i)])

RECURSIVE X86Expr(_, _)
RECURSIVE X86Addr(_, _)

\* push_args2 for the arguments that pass takes, the last one first; depth
\* grows as they are pushed.
RECURSIVE PushArgs2(_, _, _, _)
PushArgs2(n, i, depth, pass) ==
  IF i = 0 THEN <<>>
  ELSE IF PassByStack(n)[i] # pass THEN PushArgs2(n, i - 1, depth, pass)
  ELSE LET arg == n.args[i]
           struct == arg.type = "struct"
       IN X86Expr(arg, depth) \o <<IF struct THEN <<"push_struct">> ELSE <<"push">>>>
            \o PushArgs2(n, i - 1, depth + (IF struct THEN Words ELSE 1), pass)

X86Call(n, depth) ==
  LET words == StackWords(n)
      odd == (depth + words) % 2 = 1
      stack == IF odd THEN words + 1 ELSE words
      pad == IF odd THEN <<<<"rsp_add", -1>>>> ELSE <<>>
      start == IF odd THEN depth + 1 ELSE depth
      hidden == n.type = "struct"
      pointer == IF hidden THEN <<<<"lea", RetBuffer(n.id)>>, <<"push">>>> ELSE <<>>
      registers == Cardinality({i \in DOMAIN n.args : ~PassByStack(n)[i]}) + (IF hidden THEN 1 ELSE 0)
  IN pad \o PushArgs2(n, Len(n.args), start, TRUE)
         \o PushArgs2(n, Len(n.args), start + words, FALSE)
         \o pointer
         \o [i \in 1..registers |-> <<"pop", i>>]
         \o <<<<"call", n>>, <<"rsp_add", stack>>>>

X86Addr(n, depth) ==
  CASE n.kind = "var" -> <<<<"lea", Offset(n.v)>>>>
    [] n.kind = "comma" -> X86Expr(n.lhs, depth) \o X86Addr(n.rhs, depth)
    [] n.kind \in {"assign", "cond", "call"} -> X86Expr(n, depth)

X86Expr(n, depth) ==
  CASE n.kind = "num" -> <<<<"mov", n.val>>>>
    [] n.kind = "var" -> X86Addr(n, depth) \o load(n)
    [] n.kind = "member" -> X86Addr(n.lhs, depth) \o <<<<"add", Words - 1>>>> \o load(n)
    [] n.kind = "assign" ->
         X86Addr(n.lhs, depth) \o <<<<"push">>>> \o X86Expr(n.rhs, depth + 1) \o
         <<<<"pop_rdi">>, IF n.type = "struct" THEN <<"copy">> ELSE <<"store">>>>
    [] n.kind = "comma" -> X86Expr(n.lhs, depth) \o X86Expr(n.rhs, depth)
    [] n.kind = "cond" ->
         X86Expr(n.cond, depth) \o <<<<"je", X86Expr(n.then, depth), X86Expr(n.els, depth)>>>>
    [] n.kind = "not" -> X86Expr(n.lhs, depth) \o <<<<"sete">>>>
    [] n.kind = "and" ->
         LET rhs == X86Expr(n.rhs, depth) \o <<<<"je", <<<<"mov", 1>>>>, <<<<"mov", 0>>>>>>>>
         IN X86Expr(n.lhs, depth) \o <<<<"je", rhs, <<<<"mov", 0>>>>>>>>
    [] n.kind = "or" ->
         LET rhs == X86Expr(n.rhs, depth) \o <<<<"je", <<<<"mov", 1>>>>, <<<<"mov", 0>>>>>>>>
         IN X86Expr(n.lhs, depth) \o <<<<"je", <<<<"mov", 1>>>>, rhs>>>>
    [] n.kind = "sub" ->
         X86Expr(n.rhs, depth) \o <<<<"push">>>> \o X86Expr(n.lhs, depth + 1)
           \o <<<<"pop_rdi">>, <<"sub">>>>
    [] n.kind = "call" -> X86Call(n, depth)

-----------------------------------------------------------------------------
(* The expression under compilation.                                        *)

Top(k) == SubSeq(trees, Len(trees) - k + 1, Len(trees))
Has(k) == Len(trees) >= k
Under(k) == SubSeq(trees, 1, Len(trees) - k)

\* A node joins at most three trees: those that are left must do.
Make(form, k, tree) ==
  /\ form \in grammar
  /\ nodes < MaxNodes
  /\ Len(trees) - k <= 2 * (MaxNodes - nodes - 1)
  /\ nodes' = nodes + 1
  /\ trees' = Append(Under(k), tree)
  /\ UNCHANGED grammar

MakeNum == \E v \in {0, 1} : Make("num", 0, Num(v))
MakeInt == \E v \in Ints : Make(v, 0, Var(v))
MakeStruct == \E v \in Structs : Make(v, 0, Var(v))

MakeNot == Has(1) /\ Top(1)[1].type = "int" /\ Make("not", 1, Unary("not", Top(1)[1]))
MakeMember == Has(1) /\ Top(1)[1].type = "struct" /\ Make("member", 1, Unary("member", Top(1)[1]))

MakeAssign ==
  /\ Has(2)
  /\ LET lhs == Top(2)[1]
         rhs == Top(2)[2]
     IN /\ lhs.kind = "var" /\ lhs.type = rhs.type
        /\ lhs.v \notin Writes(rhs)
        /\ ~(/\ "struct assignment within a struct assignment" \in Avoided
             /\ lhs.type = "struct" /\ StructAssigns(rhs) \ {rhs} # {})
        /\ Make("assign", 2, Binary("assign", lhs.type, lhs, rhs))

MakeBinary ==
  /\ Has(2)
  /\ LET lhs == Top(2)[1]
         rhs == Top(2)[2]
     IN \/ lhs.type = "int" /\ rhs.type = "int" /\ Apart(lhs, rhs) /\ Make("sub", 2, Binary("sub", "int", lhs, rhs))
        \/ Make("comma", 2, Binary("comma", rhs.type, lhs, rhs))
        \/ \E op \in {"and", "or"} :
             lhs.type = "int" /\ rhs.type = "int" /\ Make(op, 2, Binary(op, "int", lhs, rhs))

MakeCond ==
  /\ Has(3)
  /\ Top(3)[1].type = "int"
  /\ Top(3)[2].type = Top(3)[3].type
  /\ Make("cond", 3, Cond(Top(3)[1], Top(3)[2], Top(3)[3]))

\* f(int, ...), g(struct), k(int, struct) and struct h(int).
Signature(f, args) ==
  LET types == [i \in DOMAIN args |-> args[i].type]
  IN CASE f = "f" -> ToSet(types) = {"int"}
       [] f = "g" -> types = <<"struct">>
       [] f = "k" -> types = <<"int", "struct">>
       [] f = "h" -> types = <<"int">>

MakeCall ==
  \E f \in {"f", "g", "k", "h"}, k \in 1..3 :
    /\ Has(k)
    /\ Signature(f, Top(k))
    /\ \A i, j \in 1..k : i # j => Apart(Top(k)[i], Top(k)[j])
    /\ ~(/\ "result of struct type as an argument" \in Avoided
         /\ \E i \in 1..k : Top(k)[i].type = "struct"
                            /\ \E s \in Sources(Top(k)[i]) : s.kind = "call")
    /\ Make(f, k, Call(f, nodes + 1, Top(k)))

Init == grammar \in Grammars /\ trees = <<>> /\ nodes = 0

Next == \/ MakeNum \/ MakeInt \/ MakeStruct \/ MakeNot \/ MakeMember \/ MakeAssign
        \/ MakeBinary \/ MakeCond \/ MakeCall

Spec == Init /\ [][Next]_vars
=============================================================================
