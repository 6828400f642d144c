------------------------------- MODULE Emitter -------------------------------
(***************************************************************************)
(* w2c2/c.c: how the body of a function becomes C. The writer reads one    *)
(* opcode at a time and keeps the types of the operand stack, the labels   *)
(* of the open blocks and whether the code it reads can be reached; stack  *)
(* slot k of type t is the C variable named <<"s", k, t>>.                 *)
(*                                                                         *)
(* The C functions of blocks call themselves for the code inside: "calls"  *)
(* holds their local variables. "code" is the C text as a sequence of      *)
(* statements; a goto carries the assignment that is printed with it. The  *)
(* braces of blocks and loops mean nothing and are left out.               *)
(***************************************************************************)
EXTENDS WasmCode, FiniteSets

CONSTANTS
    Functions    \* the kinds of functions: [result, opcodes, most], the type of the
                 \* result, the opcodes bodies are made of, bound on their number

(* an opcode's immediates are in range: the reader and validation see to it *)
WellFormed(o) ==
    /\ o.op \in Plain \cup {"block", "loop", "if", "else", "end", "br", "br_if", "br_table",
                            "return", "unreachable"}
    /\ o.op \in {"local.get", "local.set", "local.tee"} => o.index \in DOMAIN LocalTypes
    /\ o.op \in {"global.get", "global.set"} => o.index \in DOMAIN GlobalTypes
    /\ o.op \in {"const", "drop", "select", "unary", "binary", "load", "store"} => o.type \in Types
    /\ o.op \in {"unary", "binary"} => o.from \in Types
    /\ o.op \in {"block", "loop", "if"} => o.type \in Types \cup {NoType}
    /\ o.op \in {"call", "call_indirect"} => o.callee \in DOMAIN Callees
    /\ o.op \in {"br", "br_if"} => o.depth \in Nat
    /\ o.op = "br_table" => o.depths \in Seq(Nat) /\ o.depths # <<>>

ASSUME EmitterAssumption ==
    \A f \in Functions :
        /\ f.result \in Types \cup {NoType} /\ f.most \in Nat
        /\ \A o \in f.opcodes : WellFormed(o)

VARIABLES
    function,           \* the kind of the function that is written
    opcodes,            \* read so far
    valid,              \* what validation knows of them
    typeStack,          \* the types of the operands, slot 0 first
    stackDeclarations,  \* <<slot, type>> of the variables to declare
    labelStack,         \* labels of the open blocks
    nextLabelIndex,
    ignore,             \* the code that is read cannot be reached
    calls,              \* local variables of the active IfExpr, BlockExpr, LoopExpr
    code,               \* C statements written
    done

writer == <<typeStack, stackDeclarations, labelStack, nextLabelIndex, ignore, calls, code>>
vars == <<function, opcodes, valid, writer, done>>

-----------------------------------------------------------------------------
wasmTypeStackGetTopIndex(k) == Len(typeStack) - 1 - k
TypeAt(slot) == typeStack[slot + 1]
Dropped(count) ==
    SubSeq(typeStack, 1, Len(typeStack) - (IF count > Len(typeStack) THEN Len(typeStack) ELSE count))

StackName(slot, type) == <<"s", slot, type>>
LocalName(k) == <<"l", k, LocalTypes[k]>>
GlobalName(k) == <<"g", k, GlobalTypes[k]>>
Operand(k) ==
    LET slot == wasmTypeStackGetTopIndex(k) IN StackName(slot, TypeAt(slot))

Assign(to, f, args) == [s |-> "assign", to |-> to, f |-> f, args |-> args]
Effect(f, args) == [s |-> "effect", f |-> f, args |-> args]

(* a statement is written, unless the code cannot be reached *)
Write(declared, types, statements) ==
    IF ignore
      THEN UNCHANGED <<typeStack, stackDeclarations, code>>
      ELSE /\ stackDeclarations' = stackDeclarations \cup declared
           /\ typeStack' = types
           /\ code' = code \o statements

(* the statement assigns a slot, and its type is pushed after "count" drops *)
WriteResult(count, type, f, args) ==
    LET slot == Len(typeStack) - count
    IN Write({<<slot, type>>}, Append(Dropped(count), type),
             <<Assign(StackName(slot, type), f, args)>>)

Open == Len(valid.blocks)

(* enough opcodes are left to end every open block *)
Read(o) ==
    /\ ~done
    /\ Len(opcodes) + Open < function.most + (IF o.op = "end" THEN 1 ELSE 0)
    /\ Valid(valid, o)
    /\ opcodes' = Append(opcodes, o)
    /\ valid' = After(valid, o)

Straight == UNCHANGED <<function, labelStack, nextLabelIndex, ignore, calls, done>>

-----------------------------------------------------------------------------
(* Opcodes on operands *)
Nop(o) == o.op = "nop" /\ Read(o) /\ UNCHANGED <<function, writer, done>>

ConstExpr(o) ==
    /\ o.op = "const" /\ Read(o) /\ Straight
    /\ WriteResult(0, o.type, "const", <<<<"c", o.value, o.type>>>>)

LocalGetExpr(o) ==
    /\ o.op = "local.get" /\ Read(o) /\ Straight
    /\ WriteResult(0, LocalTypes[o.index], "copy", <<LocalName(o.index)>>)

LocalAssignmentExpr(o) ==
    /\ o.op \in {"local.set", "local.tee"} /\ Read(o) /\ Straight
    /\ LET top == wasmTypeStackGetTopIndex(0)
           type == LocalTypes[o.index]
       IN Write({<<top, type>>}, IF o.op = "local.set" THEN Dropped(1) ELSE typeStack,
                <<Assign(LocalName(o.index), "copy", <<StackName(top, type)>>)>>)

GlobalGetExpr(o) ==
    /\ o.op = "global.get" /\ Read(o) /\ Straight
    /\ WriteResult(0, GlobalTypes[o.index], "copy", <<GlobalName(o.index)>>)

GlobalSetExpr(o) ==
    /\ o.op = "global.set" /\ Read(o) /\ Straight
    /\ LET top == wasmTypeStackGetTopIndex(0)
           type == GlobalTypes[o.index]
       IN Write({<<top, type>>}, Dropped(1),
                <<Assign(GlobalName(o.index), "copy", <<StackName(top, type)>>)>>)

UnaryExpr(o) ==
    /\ o.op = "unary" /\ Read(o) /\ Straight
    /\ WriteResult(1, o.type, "unary", <<Operand(0)>>)

BinaryExpr(o) ==
    /\ o.op = "binary" /\ Read(o) /\ Straight
    /\ WriteResult(2, o.type, "binary", <<Operand(1), Operand(0)>>)

SelectExpr(o) ==
    /\ o.op = "select" /\ Read(o) /\ Straight
    /\ WriteResult(3, TypeAt(wasmTypeStackGetTopIndex(1)), "select",
                   <<Operand(0), Operand(2), Operand(1)>>)

DropExpr(o) == o.op = "drop" /\ Read(o) /\ Straight /\ Write({}, Dropped(1), <<>>)

LoadExpr(o) ==
    /\ o.op = "load" /\ Read(o) /\ Straight
    /\ WriteResult(1, o.type, "load", <<Operand(0)>>)

StoreExpr(o) ==
    /\ o.op = "store" /\ Read(o) /\ Straight
    /\ Write({}, Dropped(2), <<Effect("store", <<Operand(1), Operand(0)>>)>>)

MemorySizeExpr(o) ==
    /\ o.op = "memory.size" /\ Read(o) /\ Straight
    /\ WriteResult(0, I32, "size", <<>>)

(* the operand's type is left on the stack: the result has the same *)
MemoryGrowExpr(o) ==
    /\ o.op = "memory.grow" /\ Read(o) /\ Straight
    /\ LET top == wasmTypeStackGetTopIndex(0)
       IN Write({<<top, I32>>}, typeStack, <<Assign(StackName(top, I32), "grow", <<Operand(0)>>)>>)

(* memory.fill; memory.copy and memory.init take their operands alike *)
BulkOperands == <<Operand(2), Operand(1), Operand(0)>>

MemoryBulkExpr(o) ==
    /\ o.op = "memory.fill" /\ Read(o) /\ Straight
    /\ Write({}, Dropped(3), <<Effect("fill", BulkOperands)>>)

DataDrop(o) ==
    /\ o.op = "data.drop" /\ Read(o) /\ Straight
    /\ Write({}, typeStack, <<Effect("data.drop", <<>>)>>)

(* "unimplemented opcode": a message, and neither code nor operand types *)
TableExpr(o) == o.op \in {"elem.drop", "table.size"} /\ Read(o) /\ UNCHANGED <<function, writer, done>>

Arguments(params, above) ==
    [k \in 1 .. Len(params) |->
        StackName(wasmTypeStackGetTopIndex(Len(params) - k + above), params[k])]

(* a callee without a result is a statement of its own *)
WriteCall(count, callee, f, args) ==
    IF callee.result = NoType
      THEN Write({}, Dropped(count), <<Effect(f, args)>>)
      ELSE WriteResult(count, callee.result, f, args)

CallExpr(o) ==
    /\ o.op = "call" /\ Read(o) /\ Straight
    /\ LET callee == Callees[o.callee]
       IN WriteCall(Len(callee.params), callee, "call", Arguments(callee.params, 0))

(* the table index lies on the arguments *)
IndexOperands == 1

CallIndirectExpr(o) ==
    /\ o.op = "call_indirect" /\ Read(o) /\ Straight
    /\ LET callee == Callees[o.callee]
       IN WriteCall(Len(callee.params) + 1, callee, "call_indirect",
                    <<Operand(0)>> \o Arguments(callee.params, IndexOperands))

-----------------------------------------------------------------------------
(* Labels and branches *)
LabelIndex == nextLabelIndex

Label(length, type) == [index |-> LabelIndex, typeStackLength |-> length, type |-> type]
Placed(index) == [s |-> "label", index |-> index]
wasmLabelStackGetTop(depth) == labelStack[Len(labelStack) - depth]

(* the variables of a goto when "dropped" operands are popped before it *)
GotoSource(dropped) == wasmTypeStackGetTopIndex(dropped)

(* mutant: the value stays where it is *)
CopiesNever(label, dropped) == FALSE
Copies(label, dropped) ==
    label.type # NoType /\ label.typeStackLength # GotoSource(dropped)

(* mutant: the slot a branch writes is not declared *)
GotoDeclaresNothing(label, dropped) == {}
GotoDeclares(label, dropped) ==
    IF Copies(label, dropped) THEN {<<label.typeStackLength, label.type>>} ELSE {}

Goto(label, dropped) ==
    [s |-> "goto", index |-> label.index,
     copy |-> IF Copies(label, dropped)
                THEN <<Assign(StackName(label.typeStackLength, label.type), "copy",
                              <<StackName(GotoSource(dropped), TypeAt(GotoSource(dropped)))>>)>>
                ELSE <<>>]

Branching == UNCHANGED <<function, labelStack, nextLabelIndex, calls, done>>

BranchExpr(o) ==
    /\ o.op = "br" /\ Read(o) /\ Branching
    /\ ignore' = TRUE
    /\ LET label == wasmLabelStackGetTop(o.depth)
       IN Write(GotoDeclares(label, 0), typeStack, <<Goto(label, 0)>>)

BranchIfExpr(o) ==
    /\ o.op = "br_if" /\ Read(o) /\ Straight
    /\ LET label == wasmLabelStackGetTop(o.depth)
       IN Write(GotoDeclares(label, 1), Dropped(1),
                <<[s |-> "br_if", on |-> Operand(0), jump |-> Goto(label, 1)]>>)

CaseDepth(o, k) == o.depths[k]

BranchTableExpr(o) ==
    /\ o.op = "br_table" /\ Read(o) /\ Branching
    /\ ignore' = TRUE
    /\ LET Jump(k) == Goto(wasmLabelStackGetTop(CaseDepth(o, k)), 1)
           last == Len(o.depths)
       IN Write(UNION {GotoDeclares(wasmLabelStackGetTop(d), 1) : d \in Targets(o)}, Dropped(1),
                <<[s |-> "switch", on |-> Operand(0), cases |-> [k \in 1 .. last - 1 |-> Jump(k)],
                   otherwise |-> Jump(last)]>>)

ReturnExpr(o) ==
    /\ o.op = "return" /\ Read(o) /\ Branching
    /\ ignore' = TRUE
    /\ Write(GotoDeclares(labelStack[1], 0), typeStack, <<Goto(labelStack[1], 0)>>)

Unreachable(o) ==
    /\ o.op = "unreachable" /\ Read(o) /\ Branching
    /\ ignore' = TRUE
    /\ Write({}, typeStack, <<Effect("trap", <<>>)>>)

-----------------------------------------------------------------------------
(* Blocks: the call before its recursion, between then and else, and after *)
Call(o, before) ==
    [op |-> o.op, ignore |-> ignore, typeStackLengthBeforeBranches |-> before,
     blockType |-> o.type, label |-> LabelIndex]

Enter(o, before, type, statements) ==
    /\ calls' = Append(calls, Call(o, before))
    /\ UNCHANGED <<function, ignore, done>>
    /\ IF ignore
         THEN UNCHANGED <<labelStack, nextLabelIndex>>
         ELSE /\ labelStack' = Append(labelStack, Label(before, type))
              /\ nextLabelIndex' = nextLabelIndex + 1
    /\ Write({}, SubSeq(typeStack, 1, before), statements)

IfExpr(o) ==
    /\ o.op = "if" /\ Read(o)
    /\ Enter(o, Len(typeStack) - 1, o.type, <<[s |-> "if", on |-> Operand(0), id |-> LabelIndex]>>)

BlockExpr(o) ==
    /\ o.op = "block" /\ Read(o)
    /\ Enter(o, Len(typeStack), o.type, <<>>)

LoopExpr(o) ==
    /\ o.op = "loop" /\ Read(o)
    /\ Enter(o, Len(typeStack), NoType, <<Placed(LabelIndex)>>)

(* mutant: the else branch starts with what the then branch left *)
ElseKeepsLength(c) == Len(typeStack)
ElseLength(c) == c.typeStackLengthBeforeBranches

Else(o) ==
    LET c == Last(calls)
    IN /\ o.op = "else" /\ Read(o)
       /\ calls' = [calls EXCEPT ![Len(calls)].op = "else"]
       /\ UNCHANGED <<function, labelStack, nextLabelIndex, stackDeclarations, done>>
       /\ IF c.ignore
            THEN UNCHANGED <<typeStack, ignore, code>>
            ELSE /\ ignore' = FALSE
                 /\ typeStack' = SubSeq(typeStack, 1, ElseLength(c))
                 /\ code' = Append(code, [s |-> "else", id |-> c.label])

(* what the end of a block prints *)
Closing(c) ==
    CASE c.op \in {"if", "else"} -> <<[s |-> "endif", id |-> c.label], Placed(c.label)>>
      [] c.op = "block" -> <<Placed(c.label)>>
      [] c.op = "loop" -> <<>>

(* the call was made for code that cannot be reached *)
Skipped(c) == c.ignore

Popped == Front(labelStack)

End(o) ==
    LET c == Last(calls)
    IN /\ o.op = "end" /\ calls # <<>> /\ Read(o)
       /\ calls' = Front(calls)
       /\ UNCHANGED <<function, nextLabelIndex, stackDeclarations, done>>
       /\ IF Skipped(c)
            THEN UNCHANGED <<typeStack, labelStack, ignore, code>>
            ELSE /\ ignore' = FALSE
                 /\ code' = code \o Closing(c)
                 /\ labelStack' = Popped
                 /\ typeStack' = SubSeq(typeStack, 1, c.typeStackLengthBeforeBranches)
                                 \o Results(c.blockType)

(* the end of the body: FunctionCode returns to FunctionBody *)
ReturnsResult == function.result # NoType /\ stackDeclarations # {}

FunctionEnd(o) ==
    /\ o.op = "end" /\ calls = <<>> /\ Read(o)
    /\ done' = TRUE
    /\ UNCHANGED <<function, labelStack, nextLabelIndex, ignore, calls>>
    /\ stackDeclarations' = stackDeclarations \cup (IF ReturnsResult THEN {<<0, function.result>>} ELSE {})
    /\ typeStack' = IF ReturnsResult THEN <<function.result>> ELSE typeStack
    /\ code' = code \o <<Placed(labelStack[1].index)>>
                    \o IF ReturnsResult THEN <<[s |-> "return", from |-> StackName(0, function.result)]>>
                                        ELSE <<>>

(* FunctionImplementations clears the stacks, FunctionBody pushes its label *)
Init ==
    /\ function \in Functions
    /\ opcodes = <<>> /\ valid = Function(function.result)
    /\ typeStack = <<>> /\ stackDeclarations = {}
    /\ labelStack = <<[index |-> 0, typeStackLength |-> 0, type |-> function.result]>>
    /\ nextLabelIndex = 1
    /\ ignore = FALSE /\ calls = <<>> /\ code = <<>> /\ done = FALSE

FunctionCode(o) ==
    \/ Nop(o) \/ ConstExpr(o) \/ LocalGetExpr(o) \/ LocalAssignmentExpr(o)
    \/ GlobalGetExpr(o) \/ GlobalSetExpr(o) \/ UnaryExpr(o) \/ BinaryExpr(o)
    \/ SelectExpr(o) \/ DropExpr(o) \/ LoadExpr(o) \/ StoreExpr(o)
    \/ MemorySizeExpr(o) \/ MemoryGrowExpr(o) \/ MemoryBulkExpr(o) \/ DataDrop(o)
    \/ TableExpr(o)
    \/ CallExpr(o) \/ CallIndirectExpr(o)
    \/ BranchExpr(o) \/ BranchIfExpr(o) \/ BranchTableExpr(o) \/ ReturnExpr(o)
    \/ Unreachable(o) \/ IfExpr(o) \/ BlockExpr(o) \/ LoopExpr(o) \/ Else(o)
    \/ End(o) \/ FunctionEnd(o)

InRange(o) ==
    /\ o.op \in {"br", "br_if"} => o.depth < Open
    /\ o.op = "br_table" => \A d \in Targets(o) : d < Open

Next == \E o \in function.opcodes : InRange(o) /\ FunctionCode(o)

Spec == Init /\ [][Next]_vars

-----------------------------------------------------------------------------
(* Type invariant *)
TypeOK ==
    /\ typeStack \in Seq(Types) /\ ignore \in BOOLEAN /\ done \in BOOLEAN
    /\ Len(labelStack) <= Len(calls) + 1
    /\ \A k \in DOMAIN labelStack : labelStack[k].index < nextLabelIndex

(***************************************************************************)
(* Where code can be reached, the writer's type stack is the operand stack *)
(* that validation computes and every open block has its label; where the  *)
(* writer skips code, that code is dead (wasmTypeStackDrop, the resets in  *)
(* IfExpr, BlockExpr, LoopExpr, and writer->ignore).                       *)
(***************************************************************************)
TypeStackIsValidated ==
    ~done =>
      /\ ignore <=> \E k \in DOMAIN valid.blocks : valid.blocks[k].dead
      /\ ~ignore =>
           /\ typeStack = valid.operands
           /\ Len(labelStack) = Open
           /\ \A k \in 1 .. Open : labelStack[k].typeStackLength = valid.blocks[k].height

Jumps(s) ==
    CASE s.s = "goto" -> {s}
      [] s.s = "br_if" -> {s.jump}
      [] s.s = "switch" -> ToSet(s.cases) \cup {s.otherwise}
      [] OTHER -> {}

IsDeclared(n) == n[1] = "s" => <<n[2], n[3]>> \in stackDeclarations

(***************************************************************************)
(* Every stack variable that the C text of a function assigns, branches    *)
(* included, is declared at its top with the type it is assigned at        *)
(* (wasmTypeStackSet before every assignment, written out by               *)
(* wasmCWriteStackDeclarations).                                           *)
(***************************************************************************)
AssignedDeclared ==
    \A k \in DOMAIN code :
        /\ code[k].s = "assign" => IsDeclared(code[k].to)
        /\ \A j \in Jumps(code[k]) : j.copy # <<>> => IsDeclared(j.copy[1].to)

(***************************************************************************)
(* A finished function places every label once and jumps only to labels it *)
(* places (labelStack.nextLabelIndex is never used twice in a function).   *)
(***************************************************************************)
LabelsPlacedOnce ==
    LET Places(index) == {k \in DOMAIN code : code[k] = Placed(index)}
    IN done =>
        /\ \A index \in 0 .. nextLabelIndex - 1 : Cardinality(Places(index)) = 1
        /\ \A k \in DOMAIN code : \A j \in Jumps(code[k]) : j.index \in 0 .. nextLabelIndex - 1

(***************************************************************************)
(* What the writer knows of a function, and what it writes (wasmCWrite-    *)
(* FunctionCode, wasmCWriteStackDeclarations).                             *)
(***************************************************************************)
StackIsValidated == TypeOK /\ TypeStackIsValidated
TargetsExist == AssignedDeclared /\ LabelsPlacedOnce
===============================================================================
