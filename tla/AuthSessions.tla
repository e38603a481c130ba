----------------------------- MODULE AuthSessions -----------------------------
(***************************************************************************)
(* The refresh sessions of one account (AuthService).  A login verifies    *)
(* the password and then inserts a session; a refresh validates the        *)
(* session of its cookie, claims it in a transaction and replaces it by a  *)
(* successor; a logout revokes the session of its cookie; a password       *)
(* change revokes the sessions it finds.  Requests of the account's        *)
(* devices run at the same time, and transactions are READ COMMITTED.      *)
(***************************************************************************)
EXTENDS FiniteSets

CONSTANTS
    SessionId,      \* ids of auth_sessions rows
    Passwords,      \* passwords the account may have
    FirstPassword,  \* the one it registered with
    Operations,     \* the operations the devices use
    Handlers,       \* requests served at the same time
    NoHandler       \* a row nobody has locked

ASSUME SessionsAssumption ==
    /\ FirstPassword \in Passwords
    /\ Operations \subseteq {"login", "refresh", "logout", "changePassword"}
    /\ NoHandler \notin Handlers

VARIABLES
    password,   \* the password of users.passwordHash
    session,    \* auth_sessions, by id; "origin" is the session its login inserted and
                \* "password" the one that login verified
    expired,    \* sessions past their expiresAt
    request,    \* request[p]: what handler p works on, and how far it is
    rowLock,    \* rowLock[s]: the transaction that holds session row s
    userLock    \* the transaction that holds the account's row

rows == <<password, session>>
locks == <<rowLock, userLock>>
vars == <<rows, expired, request, locks>>

Session == [origin : SessionId, password : Passwords, revoked : BOOLEAN]
Idle == [op |-> "idle"]
Request ==
    [op : {"login"}, password : Passwords, step : {"verified"}]
    \cup [op : {"refresh"}, id : SessionId, step : {"valid", "claimed"}]
    \cup [op : {"logout"}, id : SessionId, step : {"found"}]
    \cup [op : {"changePassword"}, password : Passwords, found : SUBSET SessionId,
          step : {"verified", "revoking"}]

Issued(s) == s \in DOMAIN session
Unrevoked(s) == Issued(s) /\ ~session[s].revoked
Active(s) == Unrevoked(s) /\ s \notin expired
At(p, op, step) == request[p].op = op /\ request[p].step = step

\* Registering an account inserts the user and, like a login, a first session.
SessionsInit ==
    /\ password = FirstPassword
    /\ \E f \in SessionId :
        session = [s \in {f} |-> [origin |-> f, password |-> FirstPassword, revoked |-> FALSE]]
    /\ expired = {}
    /\ request = [p \in Handlers |-> Idle]
    /\ rowLock = [s \in SessionId |-> NoHandler]
    /\ userLock = NoHandler

Finish(p) ==
    /\ request' = [request EXCEPT ![p] = Idle]
    /\ rowLock' = [s \in SessionId |-> IF rowLock[s] = p THEN NoHandler ELSE rowLock[s]]
    /\ userLock' = IF userLock = p THEN NoHandler ELSE userLock
    /\ UNCHANGED expired

Inserted(s, row) ==
    [t \in DOMAIN session \cup {s} |-> IF t = s THEN row ELSE session[t]]
Revoked(table, ids) ==
    [s \in DOMAIN table |-> IF s \in ids THEN [table[s] EXCEPT !.revoked = TRUE] ELSE table[s]]

-----------------------------------------------------------------------------
\* A request arrives and passes what is checked before its first write: validateUser,
\* validateRefreshSession, the look-up of logout, the current password.
Start(p) ==
    /\ request[p] = Idle
    /\ \E r \in Request :
        /\ r.op \in Operations
        /\ \/ r.op = "login" /\ r.password = password
           \/ r.op = "refresh" /\ r.step = "valid" /\ Active(r.id)
           \/ r.op = "logout" /\ Unrevoked(r.id)
           \/ r.op = "changePassword" /\ r.step = "verified" /\ r.found = {}
        /\ request' = [request EXCEPT ![p] = r]
    /\ UNCHANGED <<rows, expired, locks>>

\* login: createSessionTokens inserts a session of its own.
CreateSession(p) ==
    /\ At(p, "login", "verified")
    /\ \E s \in SessionId \ DOMAIN session :
        session' = Inserted(s, [origin |-> s, password |-> request[p].password,
                                revoked |-> FALSE])
    /\ UNCHANGED password
    /\ Finish(p)

\* Mutant: the claim trusts what validateRefreshSession saw.
ClaimAny(p) ==
    /\ At(p, "refresh", "valid")
    /\ rowLock[request[p].id] = NoHandler
    /\ rowLock' = [rowLock EXCEPT ![request[p].id] = p]
    /\ request' = [request EXCEPT ![p].step = "claimed"]
    /\ UNCHANGED <<rows, expired, userLock>>

\* Mutant: the old session is revoked before the transaction, not in it.
ClaimAtOnce(p) ==
    /\ At(p, "refresh", "valid")
    /\ rowLock[request[p].id] = NoHandler
    /\ Active(request[p].id)
    /\ session' = Revoked(session, {request[p].id})
    /\ request' = [request EXCEPT ![p].step = "claimed"]
    /\ UNCHANGED <<password, expired, locks>>

\* rotateRefreshSession: the conditional update waits for the row, looks at it
\* again, and keeps it until the transaction ends.
Claim(p) ==
    /\ At(p, "refresh", "valid")
    /\ rowLock[request[p].id] = NoHandler
    /\ Active(request[p].id)
    /\ rowLock' = [rowLock EXCEPT ![request[p].id] = p]
    /\ request' = [request EXCEPT ![p].step = "claimed"]
    /\ UNCHANGED <<rows, expired, userLock>>

\* rotateRefreshSession inserts the successor and commits.
Rotate(p) ==
    LET old == request[p].id IN
    /\ At(p, "refresh", "claimed")
    /\ \E s \in SessionId \ DOMAIN session :
        session' = Revoked(Inserted(s, [session[old] EXCEPT !.revoked = FALSE]), {old})
    /\ UNCHANGED password
    /\ Finish(p)

\* logout: the update waits for the row and repeats no condition.
Logout(p) ==
    /\ At(p, "logout", "found")
    /\ rowLock[request[p].id] = NoHandler
    /\ session' = Revoked(session, {request[p].id})
    /\ UNCHANGED password
    /\ Finish(p)

\* changePassword: the account's row first; then the update of the sessions sees
\* those that are committed and unrevoked when it starts.
FindSessions(p) ==
    /\ At(p, "changePassword", "verified")
    /\ userLock = NoHandler
    /\ userLock' = p
    /\ request' = [request EXCEPT ![p].step = "revoking",
                                  ![p].found = {s \in DOMAIN session : Unrevoked(s)}]
    /\ UNCHANGED <<rows, expired, rowLock>>

\* changePassword revokes them, once no rotation holds one, and commits.
ChangePassword(p) ==
    /\ At(p, "changePassword", "revoking")
    /\ \A s \in request[p].found : rowLock[s] = NoHandler
    /\ password' = request[p].password
    /\ session' = Revoked(session, request[p].found)
    /\ Finish(p)

\* The request is refused, or the connection or the process is lost: rolled back.
Fail(p) ==
    /\ request[p] # Idle
    /\ Finish(p)
    /\ UNCHANGED rows

Expire(s) ==
    /\ Issued(s)
    /\ s \notin expired
    /\ expired' = expired \cup {s}
    /\ UNCHANGED <<rows, request, locks>>

SessionsNext ==
    \/ \E p \in Handlers :
        \/ Start(p) \/ CreateSession(p) \/ Claim(p) \/ Rotate(p) \/ Logout(p)
        \/ FindSessions(p) \/ ChangePassword(p) \/ Fail(p)
    \/ \E s \in SessionId : Expire(s)

SessionsSpec == SessionsInit /\ [][SessionsNext]_vars

-----------------------------------------------------------------------------
SessionsTypeOK ==
    /\ password \in Passwords
    /\ DOMAIN session \subseteq SessionId
    /\ \A s \in DOMAIN session : session[s] \in Session
    /\ expired \subseteq DOMAIN session
    /\ request \in [Handlers -> Request \cup {Idle}]
    /\ rowLock \in [SessionId -> Handlers \cup {NoHandler}]
    /\ userLock \in Handlers \cup {NoHandler}

\* One login has at most one refresh token that works, whichever of two tabs,
\* retries or stale cookies presents it: a token that was exchanged, or that a
\* logout revoked meanwhile, is never exchanged again (rotateRefreshSession).
OneTokenPerSignIn ==
    \A s, t \in DOMAIN session :
        Unrevoked(s) /\ Unrevoked(t) /\ session[s].origin = session[t].origin => s = t

\* A rotation that has claimed its session keeps it unrevoked until it ends.
ClaimsHold ==
    \A p \in Handlers : At(p, "refresh", "claimed") =>
        rowLock[request[p].id] = p /\ Unrevoked(request[p].id)

\* A sign-in is live while it has a session that can be exchanged, or one that a
\* rotation claimed in time.
Live(s) == Unrevoked(s) /\ (s \in expired => rowLock[s] # NoHandler)
SignInOf(c) ==
    IF ~Issued(c) THEN "none"
    ELSE IF session[c].origin # c THEN "none"
    ELSE IF \E s \in DOMAIN session : session[s].origin = c /\ Live(s) THEN "live"
    ELSE "ended"

SignIn == INSTANCE SignIns WITH
    SignInId <- SessionId, signIn <- [c \in SessionId |-> SignInOf(c)]

\* No interleaving of a rotation with a logout, an expiry, a password change or another
\* rotation brings back a sign-in that had ended.
SignInsSpec == SignIn!SignInsSpec

\* And nobody loses a sign-in without a cause: it ends when a logout presents a token of that
\* login, when the password changes, or when the token it has left has expired, never by a
\* request of another login, nor by a rotation, wherever that one fails.
LogsOut(p, c) == Logout(p) /\ session[request[p].id].origin = c
RunsOut(c) == \E s \in expired' : Unrevoked(s)' /\ session'[s].origin = c

SignInsEndForCause ==
    [][\A c \in SessionId : SignInOf(c) = "live" /\ SignInOf(c)' # "live" =>
          RunsOut(c) \/ \E p \in Handlers : LogsOut(p, c) \/ ChangePassword(p)]_vars

\* "Change password and revoke all refresh sessions" (auth.controller.ts): once the
\* password has changed, no session of a login with an older one is left.
NoSessionOfOldPassword ==
    \A s \in DOMAIN session : Active(s) => session[s].password = password
=============================================================================
