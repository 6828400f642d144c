CONSTANTS
  Families <- MCFamilies
  Values <- MCOperands
  Grammars <- MCGrammars
  MaxNodes = 7
  ExprGP = 2
  ArgTypes <- MCArgTypes
  MaxArgs = 6
  GP_MAX = 4
  FP_MAX = 3
  Avoided = {"bits of a type smaller than int", "computed enum", "constant out of the range of its type",
             "struct assignment within a struct assignment", "result of struct type as an argument"}
SPECIFICATION ValuesSpec
INVARIANTS
  WasmIntegers
  X86Integers
  FoldedIntegers
  WasmExpression
  X86Expression
  ArgumentsArrive
CHECK_DEADLOCK FALSE
