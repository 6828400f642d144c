CONSTANTS
    PageSize = 1
    PageLimit = 3
    ArenaSizes = {2, 3}
    TableSize = 1
    Bytes = {0, 1}
    Widths = {1}
    Offsets = {0}
    Sigs = {"v"}
    Modules <- HostModules
    Fds = {0, 1, 2, 3, 4}
    ExitCodes = {0, 106, 257}
    Inputs <- Words
    MaxOutput = 1
    DemoEscape = TRUE
SPECIFICATION SandboxSpec
INVARIANTS
    GuestOnlyUnderSeccomp
    SeccompSparesHonest
    StatusTellsTrap
PROPERTIES
    TrapEndsGuest
    OnlyMapsStreams
    TrapIsFatal
    GuestStartsOrEnds
CHECK_DEADLOCK FALSE
