-------------------------------- MODULE MCCode --------------------------------
(***************************************************************************)
(* How control flow is written.  The translator w2c2 after it has read a   *)
(* module: the body of a function (Emitter), the division of functions     *)
(* into files (FunctionFiles) or a constant of the code (Constants); and   *)
(* the compiler behind its parser: the statements of a function as         *)
(* WebAssembly and as x86 (Statements).  The four do not interact: an      *)
(* instance takes one part at the start and the other parts stand still.   *)
(*                                                                         *)
(* Bodies are made of control opcodes with few operand opcodes, so that    *)
(* they are long enough for nested blocks, values carried by branches and  *)
(* code behind branches; and of operand opcodes of two types without       *)
(* control, so that every operand position matters.  Functions of C come   *)
(* from families of tokens, each with its own bound.                       *)
(***************************************************************************)
EXTENDS EmitterMeaning, FunctionFiles, Constants

CONSTANTS
  Families, CaseRanges, Names, Answers, MaxTests, MaxEvents, Fuel   \* of StatementMeaning

VARIABLES
  part,   \* "function", "files", "constant" or "statements"
  family, tokens, open, brk_label, cont_label, current_switch, fresh, body, wasm, x86

S == INSTANCE StatementMeaning WITH count <- tokens

ASSUME PartsAssumption == FilesAssumption /\ ConstantsAssumption

MCLocalTypes == <<"i32">>
MCGlobalTypes == <<"i64">>
MCCallees == <<[params |-> <<"i32", "i64">>, result |-> "i64"],
               [params |-> <<"i32", "i64">>, result |-> "none"]>>

Op(name) == [op |-> name]
Const(t, v) == [op |-> "const", type |-> t, value |-> v]
Local(name) == [op |-> name, index |-> 1]
Blocks(t) == {[op |-> b, type |-> t] : b \in {"block", "loop", "if"}}
CallOf(name, k) == [op |-> name, callee |-> k]
Br(name, d) == [op |-> name, depth |-> d]

ControlOpcodes ==
    Blocks("i32") \cup Blocks("none")
    \cup {Op("else"), Op("end"), Local("local.get"), [op |-> "unary", from |-> "i32", type |-> "i32"]}
    \cup {Br(name, d) : name \in {"br", "br_if"}, d \in {0, 1}}

ExitOpcodes ==
    {[op |-> "block", type |-> "i32"], Op("end"), Op("return"), Op("unreachable"),
     Local("local.get"), Local("local.set"), [op |-> "drop", type |-> "i32"],
     [op |-> "br_table", depths |-> <<0, 1>>], [op |-> "br_table", depths |-> <<1, 0, 2>>],
     Br("br_if", 0)}

OperandOpcodes ==
    {Op("end"), Const("i32", 2), Const("i64", 1), Local("local.get"), Local("local.tee"),
     [op |-> "binary", from |-> "i64", type |-> "i32"], [op |-> "unary", from |-> "i32", type |-> "i64"],
     [op |-> "select", type |-> "i64"], [op |-> "load", type |-> "i64"],
     CallOf("call", 1), CallOf("call_indirect", 1)}

EffectOpcodes ==
    {Op("end"), Op("nop"), Local("local.get"), [op |-> "unary", from |-> "i32", type |-> "i32"],
     Local("global.get"), Local("global.set"), [op |-> "load", type |-> "i64"],
     [op |-> "store", type |-> "i64"], Op("memory.size"), Op("memory.grow"),
     Op("memory.fill"), Op("data.drop"), Op("elem.drop"),
     CallOf("call", 2), CallOf("call_indirect", 2)}

MCFamilies ==
  { <<{"act", "{", "}", "if", "else", "for", "break", "continue"}, 5>>,
    <<{"{", "}", "do", "if", "act", "continue", "break"}, 6>>,
    <<{"act", "{", "}", "switch", "case", "default", "break"}, 7>>,
    <<{"{", "}", "inner {", "switch", "case", "for", "continue"}, 5>>,
    <<{"act", "{", "}", "if", "goto", "label", "return"}, 5>>,
    <<{"{", "}", "goto", "label", "switch", "case"}, 5>> }
MCRanges == {<<0, 0>>, <<1, 2>>}
MCNames == {"a", "b"}

MCFunctions ==
    {[result |-> "i32", opcodes |-> os, most |-> 8] :
        os \in {ControlOpcodes, ExitOpcodes, OperandOpcodes}}
    \cup {[result |-> t, opcodes |-> EffectOpcodes, most |-> 6] : t \in {"i32", "none"}}

-----------------------------------------------------------------------------
FunctionIdle ==
    /\ function = "none" /\ opcodes = <<>> /\ valid = "none" /\ typeStack = <<>>
    /\ stackDeclarations = {} /\ labelStack = <<>> /\ nextLabelIndex = 0 /\ ignore = FALSE
    /\ calls = <<>> /\ code = <<>> /\ done = TRUE
FilesIdle ==
    /\ functions = <<>> /\ referenceFunctions = <<>> /\ hasReference = FALSE
    /\ functionIDs = <<>> /\ referenceFunctionIDs = <<>> /\ functionID = 0 /\ referenceFunctionID = 0
    /\ staticFunctions = <<>> /\ dynamicFunctions = <<>> /\ functionsPerFile = 0 /\ files = <<>>
    /\ filePrefix = "none" /\ fileIndex = 0 /\ phase = "none"
ConstantIdle ==
    /\ kind = "none" /\ meant = 0 /\ bytes = <<>> /\ value = 0 /\ shift = 0 /\ count = 0 /\ byte = 0
    /\ stopped = FALSE /\ literal = <<>>

statementsVars == <<family, tokens, open, brk_label, cont_label, current_switch, fresh, body, wasm, x86>>

StatementsIdle ==
    /\ family = <<>> /\ tokens = 0 /\ open = <<>> /\ brk_label = 0 /\ cont_label = 0 /\ current_switch = 0
    /\ fresh = 0 /\ body = <<>> /\ wasm = <<>> /\ x86 = <<>>

CodeInit ==
    \/ part = "function" /\ Init /\ FilesIdle /\ ConstantIdle /\ StatementsIdle
    \/ part = "files" /\ FunctionIdle /\ FilesInit /\ ConstantIdle /\ StatementsIdle
    \/ part = "constant" /\ FunctionIdle /\ FilesIdle /\ ConstantInit /\ StatementsIdle
    \/ part = "statements" /\ FunctionIdle /\ FilesIdle /\ ConstantIdle /\ S!Init

CodeNext ==
    \/ part = "function" /\ Next /\ UNCHANGED <<part, filesVars, constantVars, statementsVars>>
    \/ part = "files" /\ FilesNext /\ UNCHANGED <<part, vars, constantVars, statementsVars>>
    \/ part = "constant" /\ ConstantNext /\ UNCHANGED <<part, vars, filesVars, statementsVars>>
    \/ part = "statements" /\ S!Next /\ UNCHANGED <<part, vars, filesVars, constantVars>>

CodeSpec == CodeInit /\ [][CodeNext]_<<part, vars, filesVars, constantVars, statementsVars>>

-----------------------------------------------------------------------------
\* The C function does what the WebAssembly function does, for every argument
\* (wasmCWriteFunctionCode).
MeaningIsKept == part = "function" => SameMeaning

\* The blocks, branches and depths of WebAssembly take the path of the C text,
\* for every outcome of its tests (gen_stmt in codegen.c).
WasmFlow == part = "statements" => S!WasmFlow

\* So do the labels and jumps of x86 (gen_stmt in codegen_x86.c).
X86Flow == part = "statements" => S!X86Flow

\* NOTES.md: each shape that the backend does not support "is a clear error,
\* not silent miscompilation"; no other is refused (depth_of_label, gen_switch).
RefusesOnlyUnsupported == part = "statements" => S!RefusesOnlyUnsupported
===============================================================================
