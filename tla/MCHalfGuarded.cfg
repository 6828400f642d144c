CONSTANT Projects <- HalfGuarded
SPECIFICATION Spec
INVARIANTS
  OutputAsDefined
