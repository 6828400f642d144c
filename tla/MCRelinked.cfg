CONSTANT Projects <- Relinked
SPECIFICATION Spec
INVARIANTS OutputAsDefined
