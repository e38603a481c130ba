SPECIFICATION SessionsSpec
CONSTANTS
    SessionId = {s1, s2, s3}
    Passwords = {old, new}
    FirstPassword = old
    Operations = {"refresh", "changePassword"}
    Handlers = {p, q}
    NoHandler = NoHandler
INVARIANT NoSessionOfOldPassword
