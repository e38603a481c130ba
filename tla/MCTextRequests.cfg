SPECIFICATION RequestsSpec
CONSTANTS
    MaxBatch = 1
    Master = m
    Users = {m, u}
    ElementId = {e1}
    CharacterId = {}
    CardId = {}
    LinkId = {}
    Texts = {blank, edited}
    BlankText = blank
    Free = Free
    Unused = Unused
    Deleted = Deleted
    Operations <- TextOperations
    Handlers = {p, q}
    NoRequest = NoRequest
    NoHandler = NoHandler
PROPERTY AuthorsWriteAsContributors
SYMMETRY Symmetry
CHECK_DEADLOCK FALSE
