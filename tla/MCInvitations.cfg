SPECIFICATION RequestsSpec
CONSTANTS
    Master = m
    Users = {m, u, v}
    InvitationId = {i1, i2}
    GrantedRoles = {"PLAYER", "VIEWER"}
    Nobody = Nobody
    Handlers = {p, q}
    NoHandler = NoHandler
INVARIANT LinksMatchMembers
PROPERTIES InvitationsSpec EveryRequestAnswered
CHECK_DEADLOCK FALSE
