------------------------------- MODULE WasmCode -------------------------------
(***************************************************************************)
(* WebAssembly function bodies as w2c2 is given them: which sequences of   *)
(* opcodes are valid, and what running one means. Both are external: w2c2  *)
(* assumes valid modules (clang, w2c2's own build and the wasm backend of  *)
(* cc/ produce them) and the meaning is the WebAssembly specification's.   *)
(*                                                                         *)
(* Numbers are 0 .. Modulus - 1 in both types, which are kept apart; an    *)
(* opcode is a record with the immediates it needs.                        *)
(***************************************************************************)
EXTENDS Integers, Sequences, SequencesExt

CONSTANTS
    Types,         \* value types
    I32,           \* the type of conditions and addresses
    NoType,        \* the block type without a result
    Modulus,       \* bound on the numbers
    LocalTypes,    \* of the function's locals, the parameter first
    GlobalTypes,
    Callees        \* [params, result]: the types of the functions that are called

ASSUME WasmCodeAssumption ==
    /\ I32 \in Types /\ NoType \notin Types /\ Modulus \in Nat \ {0}
    /\ LocalTypes \in Seq(Types) /\ GlobalTypes \in Seq(Types)
    /\ \A k \in DOMAIN Callees :
          Callees[k].params \in Seq(Types) /\ Callees[k].result \in Types \cup {NoType}

Results(t) == IF t = NoType THEN <<>> ELSE <<t>>

-----------------------------------------------------------------------------
(* What an opcode that only works on operands pops and pushes. *)
Pops(o) ==
    CASE o.op \in {"const", "local.get", "global.get", "memory.size", "nop", "data.drop",
                     "elem.drop", "table.size"} -> <<>>
      [] o.op \in {"local.set", "local.tee"} -> <<LocalTypes[o.index]>>
      [] o.op = "global.set" -> <<GlobalTypes[o.index]>>
      [] o.op = "drop" -> <<o.type>>
      [] o.op = "select" -> <<o.type, o.type, I32>>
      [] o.op = "unary" -> <<o.from>>
      [] o.op = "binary" -> <<o.from, o.from>>
      [] o.op = "load" -> <<I32>>
      [] o.op = "store" -> <<I32, o.type>>
      [] o.op = "memory.grow" -> <<I32>>
      [] o.op = "memory.fill" -> <<I32, I32, I32>>
      [] o.op = "call" -> Callees[o.callee].params
      [] o.op = "call_indirect" -> Append(Callees[o.callee].params, I32)

Pushes(o) ==
    CASE o.op \in {"const", "load", "select", "unary", "binary"} -> <<o.type>>
      [] o.op \in {"local.get", "local.tee"} -> <<LocalTypes[o.index]>>
      [] o.op = "global.get" -> <<GlobalTypes[o.index]>>
      [] o.op \in {"memory.size", "memory.grow", "table.size"} -> <<I32>>
      [] o.op \in {"call", "call_indirect"} -> Results(Callees[o.callee].result)
      [] OTHER -> <<>>

Plain == {"const", "local.get", "local.set", "local.tee", "global.get", "global.set",
          "drop", "select", "unary", "binary", "load", "store", "memory.size",
          "memory.grow", "memory.fill", "call", "call_indirect", "nop", "data.drop",
          "elem.drop", "table.size"}

(***************************************************************************)
(* Validity: the operand types and, innermost last, the open blocks. After *)
(* a branch the rest of a block is dead and its operands are any.          *)
(***************************************************************************)
Function(type) ==
    [operands |-> <<>>,
     blocks |-> <<[op |-> "func", type |-> type, height |-> 0, dead |-> FALSE]>>]

Top(v) == Last(v.blocks)
Dead(v) == Top(v).dead
Own(v) == Len(v.operands) - Top(v).height      \* operands of the innermost block

HasOnTop(v, types) ==
    \A k \in 1 .. Len(types) :
        LET fromTop == Len(types) - k
        IN IF fromTop < Own(v) THEN v.operands[Len(v.operands) - fromTop] = types[k]
           ELSE Dead(v)

Without(v, types) ==
    SubSeq(v.operands, 1, Len(v.operands) - (IF Len(types) < Own(v) THEN Len(types) ELSE Own(v)))

(* the operands a branch to the block takes along *)
Target(v, depth) == v.blocks[Len(v.blocks) - depth]
Carried(b) == IF b.op = "loop" THEN <<>> ELSE Results(b.type)
Targets(o) == {o.depths[k] : k \in DOMAIN o.depths}

Ends(v) == HasOnTop(v, Results(Top(v).type)) /\ Own(v) <= Len(Results(Top(v).type))

Valid(v, o) ==
    CASE o.op \in Plain -> HasOnTop(v, Pops(o))
      [] o.op = "if" -> HasOnTop(v, <<I32>>)
      [] o.op = "br" -> HasOnTop(v, Carried(Target(v, o.depth)))
      [] o.op = "br_if" -> HasOnTop(v, Append(Carried(Target(v, o.depth)), I32))
      [] o.op = "br_table" ->
            \A d \in Targets(o) :
                /\ HasOnTop(v, Append(Carried(Target(v, d)), I32))
                /\ Carried(Target(v, d)) = Carried(Target(v, Last(o.depths)))
      [] o.op = "return" -> HasOnTop(v, Results(v.blocks[1].type))
      [] o.op = "else" -> Top(v).op = "if" /\ Ends(v)
      [] o.op = "end" -> Ends(v) /\ (Top(v).op = "if" => Top(v).type = NoType)
      [] OTHER -> TRUE

Killed(v) ==
    [operands |-> SubSeq(v.operands, 1, Top(v).height),
     blocks |-> [v.blocks EXCEPT ![Len(v.blocks)].dead = TRUE]]

Opened(v, o, operands) ==
    [operands |-> operands,
     blocks |-> Append(v.blocks, [op |-> o.op, type |-> o.type, height |-> Len(operands), dead |-> FALSE])]

After(v, o) ==
    CASE o.op \in Plain -> [v EXCEPT !.operands = Without(v, Pops(o)) \o Pushes(o)]
      [] o.op = "if" -> Opened(v, o, Without(v, <<I32>>))
      [] o.op \in {"block", "loop"} -> Opened(v, o, v.operands)
      [] o.op = "else" ->
            [operands |-> SubSeq(v.operands, 1, Top(v).height),
             blocks |-> [v.blocks EXCEPT ![Len(v.blocks)] = [@ EXCEPT !.op = "else", !.dead = FALSE]]]
      [] o.op = "end" ->
            [operands |-> SubSeq(v.operands, 1, Top(v).height) \o Results(Top(v).type),
             blocks |-> Front(v.blocks)]
      [] o.op = "br_if" ->
            LET carried == Carried(Target(v, o.depth))
            IN [v EXCEPT !.operands = Without(v, Append(carried, I32)) \o carried]
      [] OTHER -> Killed(v)       \* br, br_table, return, unreachable

-----------------------------------------------------------------------------
(* The numeric operators that stand for all of them. *)
Undefined == -1
Unary(x) == IF x = Undefined THEN Undefined ELSE (x + 1) % Modulus
Binary(x, y) == IF Undefined \in {x, y} THEN Undefined ELSE (x - y) % Modulus
Loaded(memory, a) == IF a = Undefined THEN Undefined ELSE memory[a]

(* what a callee makes of its arguments, in their order *)
Returned(args) == IF args = <<>> THEN 0 ELSE FoldLeft(Binary, args[1], Tail(args))
===============================================================================
