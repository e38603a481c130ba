SPECIFICATION RequestsSpec
CONSTANTS
    MaxBatch = 1
    Master = m
    Users = {m}
    ElementId = {e1}
    CharacterId = {}
    CardId = {1, 2, 3}
    LinkId = {l1, l2}
    Texts = {blank}
    BlankText = blank
    Free = Free
    Unused = Unused
    Deleted = Deleted
    Operations <- BoardOperations
    Handlers = {p, q}
    NoRequest = NoRequest
    NoHandler = NoHandler
INVARIANTS LockedReadsHold
PROPERTY AtomicSpec
SYMMETRY Symmetry
CHECK_DEADLOCK FALSE
