SPECIFICATION AtomicSpec
CONSTANTS
    MaxBatch = 2
    Master = m
    Users = {m, u}
    ElementId = {e1}
    CharacterId = {h1}
    CardId = {1, 2}
    LinkId = {l1, l2}
    Texts = {blank}
    BlankText = blank
    Free = Free
    Unused = Unused
    Deleted = Deleted
    Operations <- AllOperations
INVARIANTS
    TypeOK NoHiddenCards OneCardPerSource LinksWellFormed NoOrphanViews OwnedOrGone
    MasterHasNothingPrivate
SYMMETRY Symmetry
CHECK_DEADLOCK FALSE
