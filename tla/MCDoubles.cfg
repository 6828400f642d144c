SPECIFICATION ConstantSpec
CONSTANTS
    Bits = 7
    Group = 3
    Kinds = {"f64"}
INVARIANTS ConstantExact
CHECK_DEADLOCK FALSE
