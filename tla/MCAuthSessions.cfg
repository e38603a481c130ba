SPECIFICATION SessionsSpec
CONSTANTS
    SessionId = {s1, s2, s3}
    Passwords = {old, new}
    FirstPassword = old
    Operations = {"login", "refresh", "logout", "changePassword"}
    Handlers = {p, q, r}
    NoHandler = NoHandler
INVARIANTS OneTokenPerSignIn
PROPERTIES SignInsSpec SignInsEndForCause
SYMMETRY Symmetry
