SPECIFICATION GraphSpec
CONSTANTS
    Writers = {w1, w2}
    Entries = {e1, e2}
    Agents = {codex, claude}
    Codex = codex
    Overstay = FALSE
    MaxWriteFaults = 0
    Thread = Thread
    NoWriter = NoWriter
    NoEntry = NoEntry
    NoBall = NoBall
    Missing = Missing
SYMMETRY EntriesInterchangeable
CHECK_DEADLOCK FALSE
PROPERTY AckKeepsBall
