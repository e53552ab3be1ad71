SPECIFICATION Spec
CHECK_DEADLOCK FALSE
CONSTANTS
    Formats = {"mac", "frames", "metadata", "devaddr", "plans", "gateway"}
    Words = {"a", "d", "rx", "s", "n", "asis", "none"}
    Numbers = {1, 300}
    UplinkBytes = {0, 2, 3, 6}
    MaxWords = 6
    MaxUplink = 4
    FrAddrs = {1, 2, 3}
    FrKnown = {1, 2}
    FrCounters = {1, 65535, 65536}
    FrSizes = {0, 1, 15, 16}
    MdGateways = {1, 2}
    MdMaxHeard = 2
    MdFreqs = {868050000}
    MdSnrs = {100, 75}
    MdTmsts = {5, 15}
    TmstMod = 16
    Second = 4
    DaMinors = {0, 1}
    DaWords = {{}, {0, 1, 2, 3, 4, 5}, {0, 9, 22, 23}, {6, 7, 16}}
    DaStale = {{}, {0, 6, 13, 14, 24, 28, 31}}
    DaMaxMoves = 3
    RbFiles <- MCPlans
    RbRateSize = 2
    RbOffsetMax = 3
    RbNames = {"", "EU", "RU", "US"}
    GcNumbers = {0, 9, 128, 260, 300000, 1234567}
INVARIANTS
    CommandsParseBack
    PtrCountsPayload
    UplinkReadBack
    KindKept
    WrittenFramesReadable
    ReplyFitsReception
    NetworkReadBack
    PlansReadBack
    SettingsReadBack
    CompiledAsParsed
PROPERTIES
    MoveStaysInNetwork
