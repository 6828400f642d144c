-------------------------- MODULE ExpressionMeaning --------------------------
(***************************************************************************)
(* What an expression is worth and does: in C, in WebAssembly, on x86.     *)
(* External: the C standard, the WebAssembly specification, the processor. *)
(* All words are distinguishable, so that a value out of a wrong place is  *)
(* a wrong value.                                                          *)
(***************************************************************************)
EXTENDS Expressions

\* An outcome: the value (of a struct, its words), the variables and the
\* calls, each with the arguments that the callee sees.
Outcome(value, vars_, log) == [value |-> value, vars |-> vars_, log |-> log]

InitialVars ==
  [v \in Ints \union Structs |->
     CASE v = "x" -> 2 [] v = "y" -> 0
       [] v = "p" -> [i \in 1..Words |-> 10 + i]
       [] v = "q" -> [i \in 1..Words |-> 15 + i]
       [] v = "r" -> [i \in 1..Words |-> 20 + i]]

\* The functions: what they return for the arguments they get.
Returns(f, args) ==
  CASE f \in {"f", "k"} -> 30 + args[1]
    [] f = "g" -> 50 + args[1][Words]
    [] f = "h" -> [i \in 1..Words |-> 60 + args[1] + i]

-----------------------------------------------------------------------------
(* C: the outcomes in every order that the standard leaves open.            *)

Truth(b) == IF b THEN 1 ELSE 0

RECURSIVE Meaning(_, _)

\* Operands in the order of the sequence of their numbers: values by number.
RECURSIVE InOrder(_, _, _)
InOrder(ns, order, o) ==
  IF order = <<>> THEN {Outcome([i \in {} |-> 0], o.vars, o.log)}
  ELSE UNION {
    {Outcome([i \in DOMAIN rest.value \union {Last(order)} |->
                IF i = Last(order) THEN r.value ELSE rest.value[i]], r.vars, r.log) :
       r \in Meaning(ns[Last(order)], rest)} : rest \in InOrder(ns, Front(order), o)}

Unsequenced(ns, o) ==
  UNION {InOrder(ns, order, o) : order \in SetToSeqs(DOMAIN ns)}

Meaning(n, o) ==
  CASE n.kind = "num" -> {Outcome(n.val, o.vars, o.log)}
    [] n.kind = "var" -> {Outcome(o.vars[n.v], o.vars, o.log)}
    [] n.kind = "member" -> {[r EXCEPT !.value = @[Words]] : r \in Meaning(n.lhs, o)}
    [] n.kind = "not" -> {[r EXCEPT !.value = Truth(@ = 0)] : r \in Meaning(n.lhs, o)}
    [] n.kind = "assign" -> {[r EXCEPT !.vars[n.lhs.v] = r.value] : r \in Meaning(n.rhs, o)}
    [] n.kind = "comma" -> UNION {Meaning(n.rhs, r) : r \in Meaning(n.lhs, o)}
    [] n.kind = "cond" ->
         UNION {Meaning(IF r.value # 0 THEN n.then ELSE n.els, r) : r \in Meaning(n.cond, o)}
    [] n.kind \in {"and", "or"} ->
         UNION {IF (r.value # 0) = (n.kind = "or") THEN {[r EXCEPT !.value = Truth(@ # 0)]}
                ELSE {[s EXCEPT !.value = Truth(@ # 0)] : s \in Meaning(n.rhs, r)} :
                r \in Meaning(n.lhs, o)}
    [] n.kind = "sub" ->
         {[r EXCEPT !.value = r.value[1] - r.value[2]] : r \in Unsequenced(<<n.lhs, n.rhs>>, o)}
    [] n.kind = "call" ->
         {LET args == [i \in DOMAIN n.args |-> r.value[i]]
          IN Outcome(Returns(n.f, args), r.vars, Append(r.log, <<n.f, args>>)) :
            r \in Unsequenced(n.args, o)}

-----------------------------------------------------------------------------
(* Memory of both: the frame from 0 up, the stack below it.                 *)

Depth == 5 * MaxNodes
Junk == -99

InitialMemory ==
  [a \in (-Depth)..(FrameTop - 1) |->
     CASE a = Offset("x") -> InitialVars["x"]
       [] a = Offset("y") -> InitialVars["y"]
       [] \E v \in Structs : a \in Offset(v)..(Offset(v) + Words - 1) ->
            LET v == CHOOSE s \in Structs : a \in Offset(s)..(Offset(s) + Words - 1)
            IN InitialVars[v][a - Offset(v) + 1]
       [] OTHER -> Junk]

WordsAt(mem, a) == [i \in 1..Words |-> mem[a + i - 1]]

\* Words copied one by one, the lowest first, or all at once.
Ascending(mem, to, from) ==
  FoldLeft(LAMBDA m, i : [m EXCEPT ![to + i] = m[from + i]], mem, [i \in 1..Words |-> i - 1])
AtOnce(mem, to, words) ==
  [a \in DOMAIN mem |-> IF a \in to..(to + Words - 1) THEN words[a - to + 1] ELSE mem[a]]

\* The callee has its frame below the stack pointer.
Scribbled(mem, sp) == [a \in DOMAIN mem |-> IF a < sp THEN Junk ELSE mem[a]]

VarsIn(mem) ==
  [v \in Ints \union Structs |-> IF v \in Ints THEN mem[Offset(v)] ELSE WordsAt(mem, Offset(v))]

ValueIn(n, mem, word) == IF n.type = "struct" THEN WordsAt(mem, word) ELSE word

-----------------------------------------------------------------------------
(* WebAssembly.                                                             *)

WasmStart == [stack |-> <<>>, locals |-> [l \in {Scratch, StructScratch} |-> 0],
              mem |-> InitialMemory, sp |-> 0, log |-> <<>>]

\* The result of the top k operands.
Replace(st, k, words) == [st EXCEPT !.stack = SubSeq(@, 1, Len(@) - k) \o words]

\* The callee finds its fixed arguments on the operand stack, the others
\* where its last one points.
WasmCalled(st, f, count) ==
  LET size == Len(st.stack)
      Arg(i) == st.stack[size - i]
      args == CASE f = "f" -> <<Arg(1)>> \o [i \in 1..(count - 1) |-> st.mem[Arg(0) + i - 1]]
                [] f = "g" -> <<WordsAt(st.mem, Arg(0))>>
                [] f = "k" -> <<Arg(1), WordsAt(st.mem, Arg(0))>>
                [] f = "h" -> <<Arg(0)>>
      called == [st EXCEPT !.log = Append(@, <<f, args>>), !.mem = Scribbled(@, st.sp)]
  IN IF f = "h"
       THEN Replace([called EXCEPT !.mem = AtOnce(@, Arg(1), Returns(f, args))], 2, <<>>)
       ELSE Replace(called, IF f = "g" THEN 1 ELSE 2, <<Returns(f, args)>>)

RECURSIVE WasmRun(_, _)
WasmStep(st, ins) ==
  LET size == Len(st.stack)
      top == st.stack[size]
      second == st.stack[size - 1]
      op == ins[1]
  IN CASE op \in {"const", "fp_plus"} -> Replace(st, 0, <<ins[2]>>)
       [] op = "drop" -> Replace(st, 1, <<>>)
       [] op = "add" -> Replace(st, 2, <<second + top>>)
       [] op = "sub" -> Replace(st, 2, <<second - top>>)
       [] op = "bool" -> Replace(st, 1, <<Truth(top # 0)>>)
       [] op = "eqz" -> Replace(st, 1, <<Truth(top = 0)>>)
       [] op = "load" -> Replace(st, 1, <<st.mem[top]>>)
       [] op = "store" -> Replace([st EXCEPT !.mem[second] = top], 2, <<>>)
       [] op = "memory.copy" ->
            Replace([st EXCEPT !.mem = AtOnce(@, st.stack[size - 2], WordsAt(@, second))], 3, <<>>)
       [] op = "tee" -> [st EXCEPT !.locals[ins[2]] = top]
       [] op = "get" -> Replace(st, 0, <<st.locals[ins[2]]>>)
       [] op = "get_sp" -> Replace(st, 0, <<st.sp + ins[2]>>)
       [] op = "sp_add" -> [st EXCEPT !.sp = @ + ins[2]]
       [] op = "if" -> WasmRun(Replace(st, 1, <<>>), IF top # 0 THEN ins[2] ELSE ins[3])
       [] op = "call" -> WasmCalled(st, ins[2], ins[3])
WasmRun(st, wasm) == FoldLeft(WasmStep, st, wasm)

-----------------------------------------------------------------------------
(* x86: %rax, %rdi, the argument registers and %rsp.                        *)

X86Start == [rax |-> Junk, rdi |-> Junk, regs |-> [i \in 1..(GP_MAX + 1) |-> Junk],
             mem |-> InitialMemory, rsp |-> 0, log |-> <<>>, aligned |-> TRUE]

Push(st, word) == [st EXCEPT !.rsp = @ - 1, !.mem[st.rsp - 1] = word]

\* The callee: assign_lvar_offsets gives its parameters the places that
\* push_args left them in; struct h returns the words of a local of its own,
\* right below the return address and its %rbp (copy_struct_mem).
X86Called(st, n) ==
  LET by == PassByStack(n)
      hidden == IF n.type = "struct" THEN 1 ELSE 0
      size(i) == IF n.args[i].type = "struct" THEN Words ELSE 1
      Before(i) == {j \in 1..(i - 1) : by[j]}
      offset(i) == FoldLeft(LAMBDA a, j : IF j \in Before(i) THEN a + size(j) ELSE a,
                            0, [j \in DOMAIN n.args |-> j])
      register(i) == hidden + Cardinality({j \in 1..i : ~by[j]})
      args == [i \in DOMAIN n.args |->
                 IF ~by[i] THEN st.regs[register(i)]
                 ELSE IF n.args[i].type = "struct" THEN WordsAt(st.mem, st.rsp + offset(i))
                 ELSE st.mem[st.rsp + offset(i)]]
      local == st.rsp - 2 - Words
      called == [st EXCEPT !.log = Append(@, <<n.f, args>>), !.mem = Scribbled(@, st.rsp),
                           !.regs = [i \in DOMAIN @ |-> Junk], !.rdi = Junk,
                           !.aligned = @ /\ st.rsp % 2 = 0]
      returned == Returns(n.f, args)
  IN IF n.f = "h"
       THEN [called EXCEPT !.rax = local,
                           !.mem = AtOnce(AtOnce(@, local, returned), st.regs[1], returned)]
       ELSE [called EXCEPT !.rax = returned]

RECURSIVE X86Run(_, _)
X86Step(st, ins) ==
  LET op == ins[1]
  IN CASE op \in {"mov", "lea"} -> [st EXCEPT !.rax = ins[2]]
       [] op = "load" -> [st EXCEPT !.rax = st.mem[@]]
       [] op = "add" -> [st EXCEPT !.rax = @ + ins[2]]
       [] op = "sub" -> [st EXCEPT !.rax = @ - st.rdi]
       [] op = "sete" -> [st EXCEPT !.rax = Truth(@ = 0)]
       [] op = "push" -> Push(st, st.rax)
       [] op = "push_struct" ->
            [st EXCEPT !.rsp = @ - Words, !.mem = Ascending(@, st.rsp - Words, st.rax)]
       [] op = "pop_rdi" -> [st EXCEPT !.rdi = st.mem[st.rsp], !.rsp = @ + 1]
       [] op = "pop" -> [st EXCEPT !.regs[ins[2]] = st.mem[st.rsp], !.rsp = @ + 1]
       [] op = "rsp_add" -> [st EXCEPT !.rsp = @ + ins[2]]
       [] op = "store" -> [st EXCEPT !.mem[st.rdi] = st.rax]
       [] op = "copy" -> [st EXCEPT !.mem = Ascending(@, st.rdi, st.rax)]
       [] op = "je" -> X86Run(st, IF st.rax # 0 THEN ins[2] ELSE ins[3])
       [] op = "call" -> X86Called(st, ins[2])
X86Run(st, code) == FoldLeft(X86Step, st, code)

-----------------------------------------------------------------------------
(* Properties.                                                              *)

Whole == Len(trees) = 1
Expression == trees[1]
Meanings == Meaning(Expression, Outcome(0, InitialVars, <<>>))

\* codegen.c: whatever nests, the WebAssembly code of an expression leaves
\* one value and the shadow stack as it was, and value, variables and calls
\* are those of one of the orders that C allows: no scratch local, argument
\* slot or return buffer is overwritten while it is needed.
WasmValue ==
  Whole =>
    LET st == WasmRun(WasmStart, WasmExpr(Expression))
    IN /\ Len(st.stack) = 1
       /\ st.sp = 0
       /\ Outcome(ValueIn(Expression, st.mem, st.stack[1]), VarsIn(st.mem), st.log) \in Meanings

\* codegen_x86.c: the same of %rax and the machine's stack, which has its
\* alignment at every call.
X86Value ==
  Whole =>
    LET st == X86Run(X86Start, X86Expr(Expression, 0))
    IN /\ st.rsp = 0
       /\ st.aligned
       /\ Outcome(ValueIn(Expression, st.mem, st.rax), VarsIn(st.mem), st.log) \in Meanings
=============================================================================
