------------------------------- MODULE MCValues -------------------------------
(***************************************************************************)
(* The values that compiled programs compute: expressions of integer types *)
(* (Arithmetic), expressions with structs, side effects and calls          *)
(* (Expressions), and the places of arguments (CallArgs).  An instance     *)
(* takes one part at the start and the other parts stand still.            *)
(***************************************************************************)
EXTENDS Arithmetic, MCCallArgs

CONSTANTS
  Grammars, MaxNodes, ExprGP           \* of Expressions

VARIABLES
  part,      \* "arithmetic", "expression" or "call"
  grammar

\* Structs for which caller and callee agree: the others are those of small_struct.
ASSUME ArgumentsAssumption == CallAssumption /\ HalvesAgree

E == INSTANCE MCExpressions WITH GP_MAX <- ExprGP

\* The families of integer expressions.
Family(forms, types, max) ==
  [forms |-> forms, types |-> types, max |-> max,
   joined |-> IF "cond" \in forms THEN 2
              ELSE IF forms \subseteq {"num", "var", "cast", "neg", "not", "bitnot"} THEN 0 ELSE 1]
MCFamilies ==
  { Family({"var", "cast"}, Types, 4),
    Family({"var", "sub", "lt", "bitand", "neg"}, {ty_bool, ty_char, ty_uchar, ty_ushort, ty_int, ty_uint, ty_llong}, 3),
    Family({"var", "div", "mod", "shl", "shr"}, {ty_char, ty_int, ty_uint, ty_ullong, ty_llong}, 3),
    Family({"var", "cast", "not", "bitnot", "or", "le"}, {ty_bool, ty_uchar, ty_uint, ty_llong}, 4),
    Family({"num", "neg", "lt", "shr", "cond"}, {ty_uint, ty_int, ty_llong, ty_ullong}, 4),
    Family({"num", "cast", "bitnot", "add", "mul", "shl", "bitor", "eq"}, {ty_ushort, ty_int, ty_llong}, 4),
    Family({"var", "and", "ne", "bitxor", "cond"}, {ty_char, ty_uint, ty_llong}, 4) }
MCOperands == {-8, -1, 0, 1, 7, 15}

\* Families for what is otherwise avoided: a folded constant out of its type's
\* range, bits of a type smaller than int, a computed enum.
MCAvoided ==
  { Family({"num", "neg", "lt"}, {ty_int}, 4),
    Family({"var", "bitnot", "shr"}, {ty_uchar, ty_int}, 4),
    Family({"var", "sub"}, {ty_int, enum_type}, 3) }

\* The value of the constant that is a set of forms.
Forms == INSTANCE MCExpressions WITH Grammars <- {}, GP_MAX <- ExprGP
MCGrammars == Forms!MCGrammars

\* By hand, with Avoided = {}: what the other instance leaves out.
MCAvoidedGrammars == Forms!MCAvoided

-----------------------------------------------------------------------------
CallIdle == args = <<>> /\ hidden = FALSE /\ depth = 0

ValuesInit ==
  \/ part = "arithmetic" /\ Init /\ grammar = {} /\ CallIdle
  \/ part = "expression" /\ E!Init /\ family = "none" /\ CallIdle
  \/ part = "call" /\ CallInit /\ family = "none" /\ grammar = {} /\ trees = <<>> /\ nodes = 0

ValuesNext ==
  \/ part = "arithmetic" /\ Next /\ UNCHANGED <<part, grammar, callVars>>
  \/ part = "expression" /\ E!Next /\ UNCHANGED <<part, family, callVars>>
  \/ part = "call" /\ CallNext /\ UNCHANGED <<part, vars, grammar>>

ValuesSpec == ValuesInit /\ [][ValuesNext]_<<part, vars, grammar, callVars>>

-----------------------------------------------------------------------------
\* The wasm backend computes the value that the C standard gives an expression of
\* integer types (gen_binary, cast and narrow in codegen.c).
WasmIntegers == part = "arithmetic" => WasmArithmetic

\* So does the x86 backend (gen_expr and cast_table in codegen_x86.c).
X86Integers == part = "arithmetic" => X86Arithmetic

\* A constant expression that the parser folds has the same value (eval2).
FoldedIntegers == part = "arithmetic" => ConstantFolded

\* An expression with structs, assignments and calls has its C value and its side
\* effects in the wasm backend, and leaves its stacks as they were (gen_expr).
WasmExpression == part = "expression" => E!WasmValue

\* And in the x86 backend, whose pushes and pops stay paired (push_args, gen_expr).
X86Expression == part = "expression" => E!X86Value
===============================================================================
