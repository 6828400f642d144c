SPECIFICATION CodeSpec
CONSTANTS
    Types = {"i32", "i64"}
    I32 = "i32"
    NoType = "none"
    Modulus = 3
    LocalTypes <- MCLocalTypes
    GlobalTypes <- MCGlobalTypes
    Callees <- MCCallees
    Functions <- MCFunctions
    Steps = 40
    Hashes = {1, 2}
    MaxFunctions = 3
    PerFile = {0, 1, 2, 5}
    Bits = 7
    Group = 3
    Kinds = {"i", "u", "f32"}
    Families <- MCFamilies
    CaseRanges <- MCRanges
    Names <- MCNames
    Answers = {0, 1, 2}
    MaxTests = 3
    MaxEvents = 6
    Fuel = 60
INVARIANTS ConstantKept OrderIsDetermined EveryFunctionOnce StackIsValidated NamesExist MeaningIsKept WasmFlow X86Flow RefusesOnlyUnsupported
CHECK_DEADLOCK FALSE
