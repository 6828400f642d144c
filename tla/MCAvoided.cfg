CONSTANTS
  Families <- MCAvoided
  Values <- MCOperands
  Grammars <- MCAvoidedGrammars
  MaxNodes = 7
  ExprGP = 2
  ArgTypes = {}
  MaxArgs = 0
  GP_MAX = 4
  FP_MAX = 3
  Avoided = {}
SPECIFICATION ValuesSpec
INVARIANTS WasmIntegers X86Integers FoldedIntegers WasmExpression X86Expression
CHECK_DEADLOCK FALSE
