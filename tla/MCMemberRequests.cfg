SPECIFICATION RequestsSpec
CONSTANTS
    MaxBatch = 1
    Master = m
    Users = {m, u}
    ElementId = {e1}
    CharacterId = {h1, h2}
    CardId = {}
    LinkId = {}
    Texts = {blank}
    BlankText = blank
    Free = Free
    Unused = Unused
    Deleted = Deleted
    Operations <- MemberOperations
    Handlers = {p, q}
    NoRequest = NoRequest
    NoHandler = NoHandler
INVARIANT OneActiveCharacter
PROPERTY AtomicSpec
SYMMETRY Symmetry
CHECK_DEADLOCK FALSE
