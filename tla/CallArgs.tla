------------------------------ MODULE CallArgs ------------------------------
(***************************************************************************)
(* The arguments of a call on x86, as codegen_x86.c passes them: four      *)
(* pieces of it decide, each on its own, which argument goes in which      *)
(* register and which on the stack: push_args, the pops of ND_FUNCALL,     *)
(* assign_lvar_offsets and the prologue that emit_text writes.             *)
(*                                                                         *)
(* A word is known by its argument and its place there: <<i, w>>.          *)
(***************************************************************************)
EXTENDS Integers, Sequences

CONSTANTS
  ArgTypes,     \* types of arguments
  MaxArgs,      \* bound on the arguments of a call
  GP_MAX,       \* general registers for arguments
  FP_MAX        \* floating-point registers for arguments

VARIABLES
  args,         \* the types of the arguments
  hidden,       \* the function returns a struct of more than 16 bytes
  depth         \* words on the stack before the call

callVars == <<args, hidden, depth>>

\* A type is an integer, a floating-point number, a long double or a struct with members.
ArgType(kind, size) == [kind |-> kind, size |-> size, members |-> {}]
Integer == ArgType("integer", 8)
Floating == ArgType("floating", 8)
LongDouble == ArgType("ldouble", 16)
Struct(size, members) == [kind |-> "struct", size |-> size, members |-> members]
Member(offset, is_flonum) == [offset |-> offset, is_flonum |-> is_flonum]

CallAssumption ==
  /\ GP_MAX \in Nat \ {0} /\ FP_MAX \in Nat
  /\ \A type \in ArgTypes :
       \/ type \in {Integer, Floating, LongDouble}
       \/ type.kind = "struct" /\ type.size \in Nat

WordsOf(type) == (type.size + 7) \div 8

-----------------------------------------------------------------------------
(* The registers that a type takes.                                         *)

has_flonum(type, lo, hi, offset) ==
  \A m \in type.members :
    offset + m.offset < lo \/ hi <= offset + m.offset \/ m.is_flonum

has_flonum1(type) == has_flonum(type, 0, 8, 0)
has_flonum2(type) == has_flonum(type, 8, 16, 0)

One(b) == IF b THEN 1 ELSE 0

Fits(c, fp1, fp2) ==
  c.fp + One(fp1) + One(fp2) < FP_MAX /\ c.gp + One(~fp1) + One(~fp2) < GP_MAX

\* Does an argument go by the stack, when so many registers are taken?  The second
\* half of a struct is looked at with its members at their offset (push_args and the
\* pops) or eight bytes on (assign_lvar_offsets).
ByStack(c, type, offset) ==
  CASE type.kind = "integer" -> c.gp >= GP_MAX
    [] type.kind = "floating" -> c.fp >= FP_MAX
    [] type.kind = "ldouble" -> TRUE
    [] type.kind = "struct" ->
         type.size > 16 \/ ~Fits(c, has_flonum1(type), has_flonum(type, 8, 16, offset))

\* The registers taken after it.
Count(c, type, offset) ==
  LET fp1 == has_flonum1(type)
      fp2 == has_flonum(type, 8, 16, offset)
  IN CASE type.kind = "integer" -> [gp |-> c.gp + 1, fp |-> c.fp]
       [] type.kind = "floating" -> [gp |-> c.gp, fp |-> c.fp + 1]
       [] type.kind = "struct" /\ ~ByStack(c, type, offset) ->
            [gp |-> c.gp + One(~fp1) + One(~fp2), fp |-> c.fp + One(fp1) + One(fp2)]
       [] OTHER -> c

\* The registers taken after each argument, the first of them taken before.
CountedFrom(first, offset) ==
  LET c[i \in 0 .. Len(args)] ==
        IF i = 0 THEN [gp |-> first, fp |-> 0] ELSE Count(c[i - 1], args[i], offset)
  IN c
Counted(offset) == CountedFrom(One(hidden), offset)

\* Mutant: the pointer for the result is not counted.
PassVisible ==
  LET c == CountedFrom(0, 0) IN [i \in DOMAIN args |-> ByStack(c[i - 1], args[i], 0)]

\* arg->pass_by_stack, set by push_args.
pass_by_stack ==
  LET c == Counted(0) IN [i \in DOMAIN args |-> ByStack(c[i - 1], args[i], 0)]

-----------------------------------------------------------------------------
(* The caller.  The stack, its top first.                                   *)

Content(i) == [w \in 1 .. WordsOf(args[i]) |-> <<i, w>>]

\* The words of the last k arguments: push_args2 starts at the last.
push_args2(by) ==
  LET stack == pass_by_stack
      n == Len(args)
      top[k \in 0 .. n] ==
        IF k = 0 THEN <<>>
        ELSE (IF stack[n + 1 - k] <=> by THEN Content(n + 1 - k) ELSE <<>>) \o top[k - 1]
  IN top
Contents(by) == push_args2(by)[Len(args)]

Hidden == <<0, 1>>
Padding == <<0, 0>>

\* What stays on the stack during the call.
stack_args ==
  LET size == Len(Contents(TRUE))
  IN IF (depth + size) % 2 = 1 THEN size + 1 ELSE size

Pushed ==
  (IF hidden THEN <<Hidden>> ELSE <<>>) \o Contents(FALSE) \o Contents(TRUE)
    \o (IF stack_args > Len(Contents(TRUE)) THEN <<Padding>> ELSE <<>>)

\* The word in a place of a sequence that may be too short.
At(words, i) == IF i \in DOMAIN words THEN words[i] ELSE Padding

\* pop(argreg64[gp++]), popf(fp++).
Below(stack) == SubSeq(stack, 2, Len(stack))
Pop(s) == [gp |-> Append(s.gp, At(s.stack, 1)), fp |-> s.fp, stack |-> Below(s.stack)]
Popf(s) == [gp |-> s.gp, fp |-> Append(s.fp, At(s.stack, 1)), stack |-> Below(s.stack)]

PopStruct(s, type) ==
  LET fp1 == has_flonum1(type)
      fp2 == has_flonum2(type)
      first == IF fp1 THEN Popf(s) ELSE Pop(s)
      second == IF fp2 THEN Popf(first) ELSE Pop(first)
  IN IF type.size > 16 \/ ~Fits([gp |-> Len(s.gp), fp |-> Len(s.fp)], fp1, fp2) THEN s
     ELSE IF type.size > 8 THEN second ELSE first

PopArg(s, type) ==
  CASE type.kind = "integer" -> IF Len(s.gp) < GP_MAX THEN Pop(s) ELSE s
    [] type.kind = "floating" -> IF Len(s.fp) < FP_MAX THEN Popf(s) ELSE s
    [] type.kind = "ldouble" -> s
    [] type.kind = "struct" -> PopStruct(s, type)

\* The registers, in their order, and the stack, after the pops of each argument.
Popped ==
  LET pushed == [gp |-> <<>>, fp |-> <<>>, stack |-> Pushed]
      start == IF hidden THEN Pop(pushed) ELSE pushed
      s[i \in 0 .. Len(args)] == IF i = 0 THEN start ELSE PopArg(s[i - 1], args[i])
  IN s
AtCall == Popped[Len(args)]

-----------------------------------------------------------------------------
(* The callee.                                                              *)

\* Parameters above the frame, as assign_lvar_offsets has them.
on_stack ==
  LET c == Counted(8) IN [i \in DOMAIN args |-> ByStack(c[i - 1], args[i], 8)]

InTwo(type) == type.size > 8
FirstFloating(type) == IF type.kind = "struct" THEN has_flonum1(type) ELSE type.kind = "floating"
SecondFloating(type) == has_flonum2(type)

\* The words of the stack and the registers that parameters have taken.
Take(r, type, by) ==
  IF by THEN [top |-> r.top + WordsOf(type), gp |-> r.gp, fp |-> r.fp]
  ELSE LET first == FirstFloating(type)
           second == SecondFloating(type)
       IN [top |-> r.top,
           gp |-> r.gp + One(~first) + One(InTwo(type) /\ ~second),
           fp |-> r.fp + One(first) + One(InTwo(type) /\ second)]
Taken ==
  LET stack == on_stack
      r[i \in 0 .. Len(args)] ==
        IF i = 0 THEN [top |-> 0, gp |-> One(hidden), fp |-> 0]
        ELSE Take(r[i - 1], args[i], stack[i])
  IN r

\* Reads a parameter after those: above the frame, or from the registers that the
\* prologue stores.
Receive(r, type, by, call) ==
  LET first == FirstFloating(type)
      Reg(floating, gp, fp) == IF floating THEN At(call.fp, fp + 1) ELSE At(call.gp, gp + 1)
  IN IF by THEN [w \in 1 .. WordsOf(type) |-> At(call.stack, r.top + w)]
     ELSE IF InTwo(type)
       THEN <<Reg(first, r.gp, r.fp),
              Reg(SecondFloating(type), r.gp + One(~first), r.fp + One(first))>>
       ELSE <<Reg(first, r.gp, r.fp)>>

\* All of them, at a call with these registers and this stack.
Received(call) ==
  LET taken == Taken
      stack == on_stack
  IN [i \in DOMAIN args |-> Receive(taken[i - 1], args[i], stack[i], call)]

-----------------------------------------------------------------------------
(* Every list of arguments.                                                 *)

CallInit == args = <<>> /\ hidden \in BOOLEAN /\ depth \in {0, 1}

AddArg ==
  /\ Len(args) < MaxArgs
  /\ \E type \in ArgTypes : args' = Append(args, type)
  /\ UNCHANGED <<hidden, depth>>

CallNext == AddArg
CallSpec == CallInit /\ [][CallNext]_callVars

\* Every parameter has the words of its argument, the callee has the pointer
\* for its result, and the stack is aligned at the call and is after it what
\* it was (gen_expr of ND_FUNCALL adds stack_args to %rsp): "as specified by
\* the x86-64 psABI" (codegen_x86.c:494).
ArgumentsArrive ==
  \E call \in {AtCall} :
    /\ Received(call) = [i \in DOMAIN args |-> Content(i)]
    /\ hidden => At(call.gp, 1) = Hidden
    /\ Len(call.stack) = stack_args
    /\ (depth + Len(call.stack)) % 2 = 0

\* The callee looks for the second half of a struct at its own offset or eight bytes on
\* with the same result, and every struct that could be in registers has a second half.
HalvesAgree ==
  \A type \in ArgTypes :
    type.kind = "struct" /\ type.size <= 16 =>
      InTwo(type) /\ (has_flonum(type, 8, 16, 8) <=> has_flonum2(type))
=============================================================================
