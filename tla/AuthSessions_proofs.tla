-------------------------- MODULE AuthSessions_proofs --------------------------
(***************************************************************************)
(* One refresh token per sign-in, and sign-ins that stay ended, for any    *)
(* number of sessions, passwords and concurrent requests.                  *)
(***************************************************************************)
EXTENDS AuthSessions, TLAPS

\* Every session belongs to the login that began its chain.
OriginsHold ==
    \A s \in DOMAIN session :
        /\ session[s].origin \in DOMAIN session
        /\ session[session[s].origin].origin = session[s].origin

\* Session rows are locked by the rotations that claimed them, and only by these.
LocksAreClaims ==
    \A s \in SessionId, p \in Handlers :
        rowLock[s] = p => At(p, "refresh", "claimed") /\ request[p].id = s

IInv == SessionsTypeOK /\ OriginsHold /\ ClaimsHold /\ LocksAreClaims /\ OneTokenPerSignIn

LEMMA RequestFields ==
  ASSUME SessionsTypeOK, NEW p \in Handlers
  PROVE  /\ \A step : At(p, "login", step) => request[p].password \in Passwords
         /\ \A step : At(p, "refresh", step) => request[p].id \in SessionId
         /\ \A step : At(p, "logout", step) => request[p].id \in SessionId
         /\ \A step : At(p, "changePassword", step) =>
                /\ request[p].password \in Passwords
                /\ request[p].found \in SUBSET SessionId
<1>1. request[p] \in Request \cup {Idle}
  BY DEF SessionsTypeOK
<1> QED BY <1>1 DEF At, Request, Idle

LEMMA InitHolds == SessionsInit => IInv
<1> SUFFICES ASSUME SessionsInit PROVE IInv
  OBVIOUS
<1>1. PICK f \in SessionId :
        session = [s \in {f} |-> [origin |-> f, password |-> FirstPassword, revoked |-> FALSE]]
  BY DEF SessionsInit
<1>2. DOMAIN session = {f}
      /\ session[f] = [origin |-> f, password |-> FirstPassword, revoked |-> FALSE]
  BY <1>1
<1>3. SessionsTypeOK
  BY <1>2, SessionsAssumption DEF SessionsInit, SessionsTypeOK, Session
<1>4. OriginsHold /\ OneTokenPerSignIn
  BY <1>2 DEF OriginsHold, OneTokenPerSignIn
<1>5. ClaimsHold /\ LocksAreClaims
  BY SessionsAssumption DEF SessionsInit, ClaimsHold, LocksAreClaims, At, Idle
<1> QED BY <1>3, <1>4, <1>5 DEF IInv

-----------------------------------------------------------------------------
(* What the writes do to the table of sessions.                             *)

LEMMA RevokedTable ==
  ASSUME SessionsTypeOK, NEW ids, session' = Revoked(session, ids)
  PROVE  /\ DOMAIN session' = DOMAIN session
         /\ \A s \in DOMAIN session :
              /\ session'[s] \in Session
              /\ session'[s].origin = session[s].origin
              /\ session'[s].revoked <=> (session[s].revoked \/ s \in ids)
BY DEF Revoked, SessionsTypeOK, Session

LEMMA InsertedTable ==
  ASSUME SessionsTypeOK, NEW s \in SessionId \ DOMAIN session, NEW row \in Session,
         session' = Inserted(s, row)
  PROVE  /\ DOMAIN session' = DOMAIN session \cup {s}
         /\ \A t \in DOMAIN session : session'[t] = session[t]
         /\ session'[s] = row
         /\ \A t \in DOMAIN session' : session'[t] \in Session
BY DEF Inserted, SessionsTypeOK

LEMMA RotatedTable ==
  ASSUME SessionsTypeOK, NEW old \in DOMAIN session, NEW s \in SessionId \ DOMAIN session,
         session' = Revoked(Inserted(s, [session[old] EXCEPT !.revoked = FALSE]), {old})
  PROVE  /\ DOMAIN session' = DOMAIN session \cup {s}
         /\ \A t \in DOMAIN session' : session'[t] \in Session
         /\ \A t \in DOMAIN session :
              /\ session'[t].origin = session[t].origin
              /\ session'[t].revoked <=> (session[t].revoked \/ t = old)
         /\ session'[s].origin = session[old].origin
         /\ ~session'[s].revoked
<1> DEFINE table == Inserted(s, [session[old] EXCEPT !.revoked = FALSE])
<1>1. session[old] \in Session /\ old # s
  BY DEF SessionsTypeOK
<1>2. /\ DOMAIN table = DOMAIN session \cup {s}
      /\ \A t \in DOMAIN session : table[t] = session[t]
      /\ table[s] = [session[old] EXCEPT !.revoked = FALSE]
  BY DEF Inserted
<1>3. \A t \in DOMAIN table : table[t] \in Session
  BY <1>1, <1>2 DEF SessionsTypeOK, Session
<1>4. /\ DOMAIN session' = DOMAIN table
      /\ \A t \in DOMAIN table :
           session'[t] = IF t \in {old} THEN [table[t] EXCEPT !.revoked = TRUE] ELSE table[t]
  BY DEF Revoked
<1>5. \A t \in DOMAIN table : t # old => session'[t] = table[t]
  BY <1>4
<1>6. session'[old] = [session[old] EXCEPT !.revoked = TRUE]
  BY <1>2, <1>4
<1>7. session'[s] = [session[old] EXCEPT !.revoked = FALSE]
  BY <1>1, <1>2, <1>5
<1> HIDE DEF table
<1>8. /\ session'[old] \in Session /\ session'[old].origin = session[old].origin
      /\ session'[old].revoked
      /\ session'[s].origin = session[old].origin /\ ~session'[s].revoked
  BY <1>1, <1>6, <1>7 DEF Session
<1>9. \A t \in DOMAIN session \ {old} : session'[t] = session[t] /\ session'[t] \in Session
  BY <1>2, <1>3, <1>5
<1>10. DOMAIN session' = DOMAIN session \cup {s} /\ session'[s] \in Session
  BY <1>1, <1>2, <1>3, <1>4, <1>5
<1>11. \A t \in DOMAIN session : session'[t].origin = session[t].origin
                              /\ (session'[t].revoked <=> (session[t].revoked \/ t = old))
  BY <1>8, <1>9
<1> QED BY ONLY <1>8, <1>9, <1>10, <1>11

\* Sessions that are only revoked keep their logins and share no new token.
LEMMA RevokingKeepsSessions ==
  ASSUME IInv, DOMAIN session' = DOMAIN session,
         \A s \in DOMAIN session :
            /\ session'[s].origin = session[s].origin
            /\ session[s].revoked => session'[s].revoked
  PROVE  OriginsHold' /\ OneTokenPerSignIn'
<1>1. OriginsHold'
  BY DEF IInv, OriginsHold
<1>2. OneTokenPerSignIn'
  BY DEF IInv, OneTokenPerSignIn, Unrevoked, Issued
<1> QED BY <1>1, <1>2

LEMMA FinishKeepsLocks ==
  ASSUME IInv, NEW p \in Handlers, Finish(p)
  PROVE  /\ request' \in [Handlers -> Request \cup {Idle}]
         /\ rowLock' \in [SessionId -> Handlers \cup {NoHandler}]
         /\ userLock' \in Handlers \cup {NoHandler}
         /\ expired' = expired
         /\ LocksAreClaims'
         /\ \A q \in Handlers \ {p} : request'[q] = request[q]
         /\ ~At(p, "refresh", "claimed")'
<1> USE SessionsAssumption
<1>1. /\ request' = [request EXCEPT ![p] = Idle]
      /\ rowLock' = [s \in SessionId |-> IF rowLock[s] = p THEN NoHandler ELSE rowLock[s]]
      /\ userLock' = IF userLock = p THEN NoHandler ELSE userLock
      /\ expired' = expired
  BY DEF Finish
<1>2. request \in [Handlers -> Request \cup {Idle}]
      /\ rowLock \in [SessionId -> Handlers \cup {NoHandler}]
      /\ userLock \in Handlers \cup {NoHandler}
  BY DEF IInv, SessionsTypeOK
<1>3. LocksAreClaims'
  <2> SUFFICES ASSUME NEW s \in SessionId, NEW q \in Handlers, rowLock'[s] = q
               PROVE  At(q, "refresh", "claimed")' /\ request'[q].id = s
    BY DEF LocksAreClaims
  <2>1. q # p /\ rowLock[s] = q
    BY <1>1, <1>2
  <2> QED BY <1>1, <1>2, <2>1 DEF IInv, LocksAreClaims, At
<1> QED BY <1>1, <1>2, <1>3 DEF At, Idle

\* Claims of the other handlers survive a step that leaves their sessions unrevoked.
LEMMA OthersKeepClaims ==
  ASSUME IInv, NEW p \in Handlers, Finish(p),
         \A s \in DOMAIN session : rowLock[s] \notin {p, NoHandler} =>
            s \in DOMAIN session' /\ (session'[s].revoked => session[s].revoked)
  PROVE  ClaimsHold'
<1> SUFFICES ASSUME NEW q \in Handlers, At(q, "refresh", "claimed")'
             PROVE  (rowLock[request[q].id] = q /\ Unrevoked(request[q].id))'
  BY DEF ClaimsHold
<1>1. q # p /\ request'[q] = request[q]
  BY FinishKeepsLocks
<1>2. rowLock[request[q].id] = q /\ Unrevoked(request[q].id)
  BY <1>1 DEF IInv, ClaimsHold, At
<1>3. request[q].id \in SessionId
  BY <1>2 DEF Unrevoked, Issued, IInv, SessionsTypeOK
<1>4. rowLock'[request[q].id] = q
  BY <1>1, <1>2, <1>3 DEF Finish
<1> QED BY <1>1, <1>2, <1>4, SessionsAssumption DEF Unrevoked, Issued

-----------------------------------------------------------------------------
(* Every step keeps the invariant.                                          *)

LEMMA StepKeepsInvariant ==
  ASSUME IInv, [SessionsNext]_vars
  PROVE  IInv'
<1> USE SessionsAssumption
<1>1. CASE UNCHANGED vars
  BY <1>1 DEF vars, rows, locks, IInv, SessionsTypeOK, OriginsHold, ClaimsHold,
              LocksAreClaims, OneTokenPerSignIn, At, Unrevoked, Issued
<1>2. ASSUME NEW p \in Handlers, Start(p) PROVE IInv'
  <2>1. PICK r \in Request :
          /\ r.op = "refresh" => r.step = "valid"
          /\ request' = [request EXCEPT ![p] = r]
    BY <1>2 DEF Start, Request
  <2>2. request[p] = Idle /\ UNCHANGED <<rows, expired, locks>>
    BY <1>2 DEF Start
  <2>3. SessionsTypeOK' /\ OriginsHold' /\ OneTokenPerSignIn'
    BY <2>1, <2>2 DEF IInv, SessionsTypeOK, OriginsHold, OneTokenPerSignIn, rows, locks,
                      Unrevoked, Issued
  <2>4. ClaimsHold' /\ LocksAreClaims'
    BY <2>1, <2>2 DEF IInv, SessionsTypeOK, ClaimsHold, LocksAreClaims, rows, locks, At,
                      Idle, Unrevoked, Issued
  <2> QED BY <2>3, <2>4 DEF IInv
<1>3. ASSUME NEW p \in Handlers, CreateSession(p) PROVE IInv'
  <2> DEFINE Row(s) == [origin |-> s, password |-> request[p].password, revoked |-> FALSE]
  <2>1. PICK s \in SessionId \ DOMAIN session : session' = Inserted(s, Row(s))
    BY <1>3 DEF CreateSession
  <2>2. Finish(p) /\ password' = password
    BY <1>3 DEF CreateSession
  <2>3. Row(s) \in Session /\ Row(s).origin = s
    BY <1>3, RequestFields DEF CreateSession, IInv, Session
  <2> HIDE DEF Row
  <2>4. /\ DOMAIN session' = DOMAIN session \cup {s}
        /\ \A t \in DOMAIN session : session'[t] = session[t]
        /\ session'[s].origin = s
        /\ \A t \in DOMAIN session' : session'[t] \in Session
    BY <2>1, <2>3, InsertedTable DEF IInv
  <2>5. SessionsTypeOK'
    BY <2>2, <2>4, FinishKeepsLocks DEF IInv, SessionsTypeOK
  <2>6. OriginsHold' /\ OneTokenPerSignIn'
    BY <2>4 DEF IInv, OriginsHold, OneTokenPerSignIn, Unrevoked, Issued
  <2>7. ClaimsHold'
    BY <2>2, <2>4, OthersKeepClaims
  <2> QED BY <2>2, <2>5, <2>6, <2>7, FinishKeepsLocks DEF IInv
<1>4. ASSUME NEW p \in Handlers, Claim(p) PROVE IInv'
  <2>1. /\ request[p] \in [op : {"refresh"}, id : SessionId, step : {"valid", "claimed"}]
        /\ request[p].step = "valid"
    BY <1>4 DEF Claim, At, IInv, SessionsTypeOK, Request, Idle
  <2>2. /\ request' = [request EXCEPT ![p].step = "claimed"]
        /\ rowLock[request[p].id] = NoHandler
        /\ rowLock' = [rowLock EXCEPT ![request[p].id] = p]
        /\ Unrevoked(request[p].id)
        /\ UNCHANGED <<rows, expired, userLock>>
    BY <1>4 DEF Claim, Active
  <2>3. SessionsTypeOK'
    BY <2>1, <2>2 DEF IInv, SessionsTypeOK, Request, rows
  <2>4. OriginsHold' /\ OneTokenPerSignIn'
    BY <2>2 DEF IInv, OriginsHold, OneTokenPerSignIn, rows, Unrevoked, Issued
  <2>5. request'[p] = [request[p] EXCEPT !.step = "claimed"]
        /\ \A q \in Handlers \ {p} : request'[q] = request[q]
    BY <2>2 DEF IInv, SessionsTypeOK
  <2>6. ClaimsHold'
    <3> SUFFICES ASSUME NEW q \in Handlers, At(q, "refresh", "claimed")'
                 PROVE  rowLock'[request'[q].id] = q /\ Unrevoked(request'[q].id)
      BY <2>2 DEF ClaimsHold, rows, Unrevoked, Issued
    <3>1. CASE q = p
      BY <2>1, <2>2, <2>5, <3>1 DEF IInv, SessionsTypeOK
    <3>2. CASE q # p
      BY <2>1, <2>2, <2>5, <3>2 DEF IInv, SessionsTypeOK, ClaimsHold, At, Unrevoked, Issued
    <3> QED BY <3>1, <3>2
  <2>7. LocksAreClaims'
    BY <2>1, <2>2, <2>5 DEF IInv, SessionsTypeOK, LocksAreClaims, At
  <2> QED BY <2>3, <2>4, <2>6, <2>7 DEF IInv
<1>5. ASSUME NEW p \in Handlers, Rotate(p) PROVE IInv'
  <2> DEFINE old == request[p].id
  <2>1. PICK s \in SessionId \ DOMAIN session :
          session' = Revoked(Inserted(s, [session[old] EXCEPT !.revoked = FALSE]), {old})
    BY <1>5 DEF Rotate
  <2>2. Finish(p) /\ password' = password /\ At(p, "refresh", "claimed")
    BY <1>5 DEF Rotate
  <2>3. rowLock[old] = p /\ old \in DOMAIN session /\ ~session[old].revoked
    BY <2>2 DEF IInv, ClaimsHold, Unrevoked, Issued
  <2>4. /\ DOMAIN session' = DOMAIN session \cup {s}
        /\ \A t \in DOMAIN session' : session'[t] \in Session
        /\ \A t \in DOMAIN session :
             /\ session'[t].origin = session[t].origin
             /\ session'[t].revoked <=> (session[t].revoked \/ t = old)
        /\ session'[s].origin = session[old].origin
        /\ ~session'[s].revoked
    BY <2>1, <2>3, RotatedTable DEF IInv
  <2>5. SessionsTypeOK'
    BY <2>2, <2>4, FinishKeepsLocks DEF IInv, SessionsTypeOK
  <2>6. OriginsHold'
    BY <2>3, <2>4 DEF IInv, OriginsHold
  <2>7. OneTokenPerSignIn'
    BY <2>3, <2>4 DEF IInv, OneTokenPerSignIn, Unrevoked, Issued
  <2>8. ClaimsHold'
    BY <2>2, <2>3, <2>4, OthersKeepClaims
  <2> QED BY <2>2, <2>5, <2>6, <2>7, <2>8, FinishKeepsLocks DEF IInv
<1>6. ASSUME NEW p \in Handlers, NEW ids, Finish(p), session' = Revoked(session, ids),
             password' \in Passwords, \A s \in ids : rowLock[s] = NoHandler
      PROVE  IInv'
  <2>1. /\ DOMAIN session' = DOMAIN session
        /\ \A s \in DOMAIN session :
             /\ session'[s] \in Session
             /\ session'[s].origin = session[s].origin
             /\ session'[s].revoked <=> (session[s].revoked \/ s \in ids)
    BY <1>6, RevokedTable DEF IInv
  <2>2. SessionsTypeOK'
    BY <1>6, <2>1, FinishKeepsLocks DEF IInv, SessionsTypeOK
  <2>3. OriginsHold' /\ OneTokenPerSignIn'
    BY <2>1, RevokingKeepsSessions
  <2>4. ClaimsHold'
    BY <1>6, <2>1, OthersKeepClaims
  <2> QED BY <1>6, <2>2, <2>3, <2>4, FinishKeepsLocks DEF IInv
<1>7. ASSUME NEW p \in Handlers, Logout(p) PROVE IInv'
  <2>1. /\ Finish(p) /\ rowLock[request[p].id] = NoHandler
        /\ session' = Revoked(session, {request[p].id}) /\ password' = password
    BY <1>7 DEF Logout
  <2>2. password \in Passwords
    BY DEF IInv, SessionsTypeOK
  <2> QED BY <1>6, <2>1, <2>2
<1>8. ASSUME NEW p \in Handlers, ChangePassword(p) PROVE IInv'
  <2>1. request[p].password \in Passwords
    BY <1>8, RequestFields DEF ChangePassword, IInv
  <2> QED BY <1>6, <1>8, <2>1 DEF ChangePassword
<1>9. ASSUME NEW p \in Handlers, FindSessions(p) PROVE IInv'
  <2>1. request[p] \in [op : {"changePassword"}, password : Passwords,
                        found : SUBSET SessionId, step : {"verified", "revoking"}]
    BY <1>9 DEF FindSessions, At, IInv, SessionsTypeOK, Request, Idle
  <2> DEFINE seen == {s \in DOMAIN session : Unrevoked(s)}
  <2>2. seen \in SUBSET SessionId
    BY DEF IInv, SessionsTypeOK
  <2>3. /\ request' = [request EXCEPT ![p] =
                          [request[p] EXCEPT !.step = "revoking", !.found = seen]]
        /\ userLock' = p
        /\ UNCHANGED <<rows, expired, rowLock>>
    BY <1>9 DEF FindSessions, IInv, SessionsTypeOK
  <2> HIDE DEF seen
  <2>4. /\ [request[p] EXCEPT !.step = "revoking", !.found = seen] \in Request
        /\ [request[p] EXCEPT !.step = "revoking", !.found = seen].op = "changePassword"
    BY <2>1, <2>2 DEF Request
  <2>5. SessionsTypeOK' /\ OriginsHold' /\ OneTokenPerSignIn'
    BY <2>3, <2>4 DEF IInv, SessionsTypeOK, OriginsHold, OneTokenPerSignIn, rows,
                      Unrevoked, Issued
  <2>6. /\ request[p].op # "refresh" /\ request'[p].op # "refresh"
        /\ \A q \in Handlers \ {p} : request'[q] = request[q]
    BY <2>1, <2>3, <2>4 DEF IInv, SessionsTypeOK
  <2>7. ClaimsHold' /\ LocksAreClaims'
    BY <2>3, <2>6 DEF IInv, ClaimsHold, LocksAreClaims, rows, At, Unrevoked, Issued
  <2> QED BY <2>5, <2>7 DEF IInv
<1>10. ASSUME NEW p \in Handlers, Fail(p) PROVE IInv'
  <2>1. Finish(p) /\ session' = session /\ password' = password
    BY <1>10 DEF Fail, rows
  <2>2. SessionsTypeOK'
    BY <2>1, FinishKeepsLocks DEF IInv, SessionsTypeOK
  <2>3. OriginsHold' /\ OneTokenPerSignIn'
    BY <2>1, RevokingKeepsSessions
  <2>4. ClaimsHold'
    BY <2>1, OthersKeepClaims
  <2> QED BY <2>1, <2>2, <2>3, <2>4, FinishKeepsLocks DEF IInv
<1>11. ASSUME NEW s \in SessionId, Expire(s) PROVE IInv'
  BY <1>11 DEF Expire, rows, locks, IInv, SessionsTypeOK, OriginsHold, ClaimsHold,
               LocksAreClaims, OneTokenPerSignIn, At, Unrevoked, Issued
<1> QED
  BY <1>1, <1>2, <1>3, <1>4, <1>5, <1>7, <1>8, <1>9, <1>10, <1>11 DEF SessionsNext

\* Under any interleaving one login has at most one refresh token that works.
THEOREM OneTokenAlways == SessionsSpec => []OneTokenPerSignIn
<1>1. IInv => OneTokenPerSignIn
  BY DEF IInv
<1> QED BY <1>1, InitHolds, StepKeepsInvariant, PTL DEF SessionsSpec

-----------------------------------------------------------------------------
(* Sign-ins.                                                                *)

\* A step after which every live session continues a live one of the same login
\* starts no sign-in and revives none.
LEMMA NoRevival ==
  ASSUME IInv,
         DOMAIN session \subseteq DOMAIN session',
         \A s \in DOMAIN session : session'[s].origin = session[s].origin,
         \A s \in DOMAIN session' \ DOMAIN session : session'[s].origin \in DOMAIN session,
         \A s \in DOMAIN session' : Live(s)' =>
            \E t \in DOMAIN session : Live(t) /\ session[t].origin = session'[s].origin
  PROVE  SignIn!SignInsNext
<1> DEFINE ended == {c \in SessionId : SignInOf(c) = "live" /\ SignInOf(c)' # "live"}
<1>1. ASSUME NEW c \in SessionId
      PROVE  SignInOf(c)' = IF c \in ended THEN "ended" ELSE SignInOf(c)
  <2>1. CASE c \notin DOMAIN session
    <3>1. SignInOf(c) = "none"
      BY <2>1 DEF SignInOf, Issued
    <3>2. SignInOf(c)' = "none"
      BY <2>1 DEF SignInOf, Issued
    <3> QED BY <3>1, <3>2
  <2>2. CASE c \in DOMAIN session /\ session[c].origin # c
    <3>1. SignInOf(c) = "none"
      BY <2>2 DEF SignInOf, Issued
    <3>2. SignInOf(c)' = "none"
      BY <2>2 DEF SignInOf, Issued
    <3> QED BY <3>1, <3>2
  <2>3. CASE c \in DOMAIN session /\ session[c].origin = c
    <3> DEFINE LiveNow == \E s \in DOMAIN session : session[s].origin = c /\ Live(s)
               LiveNext == \E s \in DOMAIN session' : session'[s].origin = c /\ Live(s)'
    <3>1. SignInOf(c) = IF LiveNow THEN "live" ELSE "ended"
      BY <2>3 DEF SignInOf, Issued
    <3>2. SignInOf(c)' = IF LiveNext THEN "live" ELSE "ended"
      BY <2>3 DEF SignInOf, Issued
    <3>3. LiveNext => LiveNow
      OBVIOUS
    <3> HIDE DEF LiveNow, LiveNext
    <3> QED BY <3>1, <3>2, <3>3
  <2> QED BY <2>1, <2>2, <2>3
<1>2. ended \in SUBSET SessionId
  OBVIOUS
<1>3. \A c \in ended : [d \in SessionId |-> SignInOf(d)][c] = "live"
  OBVIOUS
<1>4. [c \in SessionId |-> SignInOf(c)]' =
        [c \in SessionId |-> IF c \in ended THEN "ended"
                             ELSE [d \in SessionId |-> SignInOf(d)][c]]
  BY <1>1
<1>5. SignIn!End(ended)
  BY <1>3, <1>4 DEF SignIn!End
<1> QED BY <1>2, <1>5 DEF SignIn!SignInsNext

\* A session inserted by a login is a sign-in of its own, and a live one.
LEMMA NewSignIn ==
  ASSUME IInv, NEW s \in SessionId \ DOMAIN session,
         DOMAIN session' = DOMAIN session \cup {s},
         \A t \in DOMAIN session : session'[t] = session[t],
         session'[s].origin = s, ~session'[s].revoked,
         rowLock' = rowLock, expired' = expired, s \notin expired
  PROVE  SignIn!SignInsNext
<1>1. ASSUME NEW t \in DOMAIN session
      PROVE  (Live(t)' <=> Live(t)) /\ session[t].origin # s
  BY <1>1 DEF Live, Unrevoked, Issued, IInv, OriginsHold
<1>2. Live(s)'
  BY DEF Live, Unrevoked, Issued
<1>3. SignInOf(s) = "none" /\ SignInOf(s)' = "live"
  <2>1. SignInOf(s) = "none"
    BY DEF SignInOf, Issued
  <2>2. SignInOf(s)' = "live"
    BY <1>2 DEF SignInOf, Issued
  <2> QED BY <2>1, <2>2
<1>4. ASSUME NEW c \in SessionId, c # s
      PROVE  SignInOf(c)' = SignInOf(c)
  <2> DEFINE LiveNow == \E t \in DOMAIN session : session[t].origin = c /\ Live(t)
             LiveNext == \E t \in DOMAIN session' : session'[t].origin = c /\ Live(t)'
  <2>1. SignInOf(c) = IF c \notin DOMAIN session THEN "none"
                      ELSE IF session[c].origin # c THEN "none"
                      ELSE IF LiveNow THEN "live" ELSE "ended"
    BY DEF SignInOf, Issued
  <2>2. SignInOf(c)' = IF c \notin DOMAIN session' THEN "none"
                       ELSE IF session'[c].origin # c THEN "none"
                       ELSE IF LiveNext THEN "live" ELSE "ended"
    BY DEF SignInOf, Issued
  <2>3. LiveNext <=> LiveNow
    BY <1>1, <1>4
  <2>4. c \in DOMAIN session' <=> c \in DOMAIN session
    BY <1>4
  <2> HIDE DEF LiveNow, LiveNext
  <2> QED BY <2>1, <2>2, <2>3, <2>4
<1>5. [c \in SessionId |-> SignInOf(c)]' =
        [[c \in SessionId |-> SignInOf(c)] EXCEPT ![s] = "live"]
  BY <1>3, <1>4
<1>6. SignIn!Login(s)
  BY <1>3, <1>5 DEF SignIn!Login
<1> QED BY <1>6 DEF SignIn!SignInsNext

LEMMA StepImplementsSignIns ==
  ASSUME IInv, [SessionsNext]_vars
  PROVE  [SignIn!SignInsNext]_[c \in SessionId |-> SignInOf(c)]
<1> USE SessionsAssumption
<1>1. ASSUME session' = session, expired' = expired, rowLock' = rowLock
      PROVE  UNCHANGED [c \in SessionId |-> SignInOf(c)]
  BY <1>1 DEF SignInOf, Issued, Live, Unrevoked
<1>2. CASE UNCHANGED vars
  BY <1>1, <1>2 DEF vars, rows, locks
<1>3. ASSUME NEW p \in Handlers, Start(p) \/ FindSessions(p)
      PROVE  UNCHANGED [c \in SessionId |-> SignInOf(c)]
  BY <1>1, <1>3 DEF Start, FindSessions, rows, locks
<1>4. ASSUME NEW p \in Handlers, CreateSession(p) PROVE SignIn!SignInsNext
  <2> DEFINE Row(s) == [origin |-> s, password |-> request[p].password, revoked |-> FALSE]
  <2>1. PICK s \in SessionId \ DOMAIN session : session' = Inserted(s, Row(s))
    BY <1>4 DEF CreateSession
  <2>2. Row(s) \in Session /\ Row(s).origin = s /\ ~Row(s).revoked
    BY <1>4, RequestFields DEF CreateSession, IInv, Session
  <2> HIDE DEF Row
  <2>3. /\ DOMAIN session' = DOMAIN session \cup {s}
        /\ \A t \in DOMAIN session : session'[t] = session[t]
        /\ session'[s].origin = s /\ ~session'[s].revoked
    BY <2>1, <2>2, InsertedTable DEF IInv
  <2>4. rowLock' = rowLock /\ expired' = expired
    <3>1. \A t \in SessionId : rowLock[t] # p
      BY <1>4 DEF CreateSession, IInv, LocksAreClaims, At
    <3> QED BY <1>4, <3>1 DEF CreateSession, Finish, IInv, SessionsTypeOK
  <2>5. s \notin expired
    BY DEF IInv, SessionsTypeOK
  <2> QED BY <2>3, <2>4, <2>5, NewSignIn
<1>5. ASSUME NEW p \in Handlers, Claim(p) PROVE SignIn!SignInsNext
  <2>1. /\ UNCHANGED <<session, expired>>
        /\ rowLock' = [rowLock EXCEPT ![request[p].id] = p]
        /\ Active(request[p].id)
    BY <1>5 DEF Claim, rows
  <2>2. \A s \in DOMAIN session : Live(s)' => Live(s)
    BY <2>1 DEF Live, Active, Unrevoked, Issued, IInv, SessionsTypeOK
  <2> QED BY <2>1, <2>2, NoRevival
<1>6. ASSUME NEW p \in Handlers, Rotate(p) PROVE SignIn!SignInsNext
  <2> DEFINE old == request[p].id
  <2>1. PICK s \in SessionId \ DOMAIN session :
          session' = Revoked(Inserted(s, [session[old] EXCEPT !.revoked = FALSE]), {old})
    BY <1>6 DEF Rotate
  <2>2. Finish(p) /\ At(p, "refresh", "claimed")
    BY <1>6 DEF Rotate
  <2>3. rowLock[old] = p /\ old \in DOMAIN session /\ ~session[old].revoked
    BY <2>2 DEF IInv, ClaimsHold, Unrevoked, Issued
  <2>4. /\ DOMAIN session' = DOMAIN session \cup {s}
        /\ \A t \in DOMAIN session' : session'[t] \in Session
        /\ \A t \in DOMAIN session :
             /\ session'[t].origin = session[t].origin
             /\ session'[t].revoked <=> (session[t].revoked \/ t = old)
        /\ session'[s].origin = session[old].origin
        /\ ~session'[s].revoked
    BY <2>1, <2>3, RotatedTable DEF IInv
  <2>5. Live(old)
    BY <2>3 DEF Live, Unrevoked, Issued
  <2>6. \A t \in DOMAIN session : Live(t)' => Live(t)
    BY <2>2, <2>4 DEF Live, Unrevoked, Issued, Finish, IInv, SessionsTypeOK
  <2>7. session[old].origin \in DOMAIN session
    BY <2>3 DEF IInv, OriginsHold
  <2>8. \A t \in DOMAIN session' : Live(t)' =>
            \E d \in DOMAIN session : Live(d) /\ session[d].origin = session'[t].origin
    BY <2>3, <2>4, <2>5, <2>6
  <2> QED BY <2>4, <2>7, <2>8, NoRevival
<1>7. ASSUME NEW p \in Handlers, NEW ids, Finish(p),
             session' = Revoked(session, ids) \/ session' = session
      PROVE  SignIn!SignInsNext
  <2>1. /\ DOMAIN session' = DOMAIN session
        /\ \A s \in DOMAIN session :
             /\ session'[s].origin = session[s].origin
             /\ session[s].revoked => session'[s].revoked
    BY <1>7, RevokedTable DEF IInv
  <2>2. \A s \in DOMAIN session : Live(s)' => Live(s)
    BY <1>7, <2>1 DEF Live, Unrevoked, Issued, Finish, IInv, SessionsTypeOK
  <2> QED BY <2>1, <2>2, NoRevival
<1>8. ASSUME NEW p \in Handlers, Logout(p) \/ ChangePassword(p) \/ Fail(p)
      PROVE  SignIn!SignInsNext
  BY <1>7, <1>8 DEF Logout, ChangePassword, Fail, rows
<1>9. ASSUME NEW s \in SessionId, Expire(s) PROVE SignIn!SignInsNext
  <2>1. session' = session /\ rowLock' = rowLock /\ expired' = expired \cup {s}
    BY <1>9 DEF Expire, rows, locks
  <2>2. \A t \in DOMAIN session : Live(t)' => Live(t)
    BY <2>1 DEF Live, Unrevoked, Issued
  <2> QED BY <2>1, <2>2, NoRevival
<1> QED
  BY <1>2, <1>3, <1>4, <1>5, <1>6, <1>8, <1>9 DEF SessionsNext

\* Whatever the requests of an account interleave with, its sessions implement
\* sign-ins that end once and stay ended.
THEOREM SessionsImplementSignIns == SessionsSpec => SignInsSpec
<1>1. SessionsInit => SignIn!SignInsInit
  <2> SUFFICES ASSUME SessionsInit PROVE SignIn!SignInsInit
    OBVIOUS
  <2>1. PICK f \in SessionId :
          session = [s \in {f} |->
                        [origin |-> f, password |-> FirstPassword, revoked |-> FALSE]]
    BY DEF SessionsInit
  <2>2. DOMAIN session = {f} /\ session[f].origin = f /\ ~session[f].revoked
    BY <2>1
  <2>3. Live(f)
    BY <2>2 DEF SessionsInit, Live, Unrevoked, Issued
  <2>4. \A c \in SessionId : SignInOf(c) = IF c = f THEN "live" ELSE "none"
    BY <2>2, <2>3 DEF SignInOf, Issued
  <2>5. [c \in SessionId |-> SignInOf(c)] = [c \in SessionId |-> IF c = f THEN "live" ELSE "none"]
    BY <2>4
  <2> QED BY <2>5 DEF SignIn!SignInsInit
<1> QED BY <1>1, InitHolds, StepKeepsInvariant, StepImplementsSignIns, PTL
        DEF SessionsSpec, SignInsSpec, SignIn!SignInsSpec

-----------------------------------------------------------------------------
(* Why sign-ins end.                                                        *)

\* A sign-in that has a live session after the step has not ended.
LEMMA StaysLive ==
  ASSUME NEW c \in SessionId, SignInOf(c) = "live",
         DOMAIN session \subseteq DOMAIN session',
         \A s \in DOMAIN session : session'[s].origin = session[s].origin,
         NEW t \in DOMAIN session', session'[t].origin = c, Live(t)'
  PROVE  SignInOf(c)' = "live"
<1>1. c \in DOMAIN session /\ session[c].origin = c
  BY DEF SignInOf, Issued
<1> QED BY <1>1 DEF SignInOf, Issued

\* A handler that finishes lets go of the row it claimed, and of no other.
LEMMA FinishReleasesClaim ==
  ASSUME IInv, NEW p \in Handlers, Finish(p), NEW s \in SessionId, rowLock[s] # NoHandler,
         rowLock'[s] = NoHandler
  PROVE  At(p, "refresh", "claimed") /\ request[p].id = s
BY DEF Finish, IInv, SessionsTypeOK, LocksAreClaims

LEMMA StepEndsForCause ==
  ASSUME IInv, [SessionsNext]_vars, NEW c \in SessionId, SignInOf(c) = "live"
  PROVE  \/ SignInOf(c)' = "live"
         \/ RunsOut(c)
         \/ \E p \in Handlers : LogsOut(p, c) \/ ChangePassword(p)
<1> USE SessionsAssumption
<1>1. PICK s \in DOMAIN session : session[s].origin = c /\ Live(s)
  BY DEF SignInOf
<1>2. s \in SessionId /\ ~session[s].revoked /\ expired \subseteq DOMAIN session
  BY <1>1 DEF Live, Unrevoked, IInv, SessionsTypeOK
<1>3. ASSUME session' = session, expired' = expired, rowLock' = rowLock
      PROVE  SignInOf(c)' = "live"
  BY <1>1, <1>3, StaysLive DEF Live, Unrevoked, Issued
<1>4. CASE UNCHANGED vars
  BY <1>3, <1>4 DEF vars, rows, locks
<1>5. ASSUME NEW p \in Handlers, Start(p) \/ FindSessions(p) PROVE SignInOf(c)' = "live"
  BY <1>3, <1>5 DEF Start, FindSessions, rows, locks
<1>6. ASSUME NEW p \in Handlers, CreateSession(p) PROVE SignInOf(c)' = "live"
  <2>1. PICK n \in SessionId \ DOMAIN session :
          session' = Inserted(n, [origin |-> n, password |-> request[p].password, revoked |-> FALSE])
    BY <1>6 DEF CreateSession
  <2>2. /\ DOMAIN session \subseteq DOMAIN session'
        /\ \A t \in DOMAIN session : session'[t] = session[t]
    BY <2>1 DEF Inserted
  <2>3. Finish(p) /\ ~At(p, "refresh", "claimed")
    BY <1>6 DEF CreateSession, At
  <2>4. Live(s)'
    BY <1>1, <1>2, <2>2, <2>3, FinishReleasesClaim DEF Live, Unrevoked, Issued, Finish
  <2> QED BY <1>1, <2>2, <2>4, StaysLive
<1>7. ASSUME NEW p \in Handlers, Claim(p) PROVE SignInOf(c)' = "live"
  <2>1. session' = session /\ expired' = expired /\ rowLock' = [rowLock EXCEPT ![request[p].id] = p]
    BY <1>7 DEF Claim, rows
  <2>2. Live(s)'
    BY <1>1, <1>2, <2>1 DEF Live, Unrevoked, Issued, IInv, SessionsTypeOK
  <2> QED BY <1>1, <2>1, <2>2, StaysLive
<1>8. ASSUME NEW p \in Handlers, Rotate(p) PROVE SignInOf(c)' = "live"
  <2> DEFINE old == request[p].id
  <2>1. PICK n \in SessionId \ DOMAIN session :
          session' = Revoked(Inserted(n, [session[old] EXCEPT !.revoked = FALSE]), {old})
    BY <1>8 DEF Rotate
  <2>2. Finish(p) /\ At(p, "refresh", "claimed") /\ expired' = expired
    BY <1>8 DEF Rotate, Finish
  <2>3. old \in DOMAIN session
    BY <2>2 DEF IInv, ClaimsHold, Unrevoked, Issued
  <2>4. /\ DOMAIN session' = DOMAIN session \cup {n}
        /\ \A t \in DOMAIN session :
             /\ session'[t].origin = session[t].origin
             /\ session'[t].revoked <=> (session[t].revoked \/ t = old)
        /\ session'[n].origin = session[old].origin
        /\ ~session'[n].revoked
    BY <2>1, <2>3, RotatedTable DEF IInv
  <2>5. CASE s = old
    <3>1. Live(n)' /\ session'[n].origin = c
      BY <1>1, <1>2, <2>2, <2>4, <2>5 DEF Live, Unrevoked, Issued
    <3> QED BY <2>4, <3>1, StaysLive
  <2>6. CASE s # old
    <3>1. Live(s)'
      BY <1>1, <1>2, <2>2, <2>4, <2>6, FinishReleasesClaim DEF Live, Unrevoked, Issued
    <3> QED BY <1>1, <2>4, <3>1, StaysLive
  <2> QED BY <2>5, <2>6
<1>9. ASSUME NEW p \in Handlers, Logout(p) PROVE SignInOf(c)' = "live" \/ LogsOut(p, c)
  <2>1. Finish(p) /\ session' = Revoked(session, {request[p].id}) /\ expired' = expired
        /\ ~At(p, "refresh", "claimed")
    BY <1>9 DEF Logout, Finish, At
  <2>2. CASE s = request[p].id
    BY <1>1, <1>9, <2>2 DEF LogsOut
  <2>3. CASE s # request[p].id
    <3>1. /\ DOMAIN session' = DOMAIN session
          /\ \A t \in DOMAIN session : session'[t].origin = session[t].origin
          /\ ~session'[s].revoked
      <4> DEFINE ids == {request[p].id}
      <4>1. session' = Revoked(session, ids) /\ s \notin ids
        BY <2>1, <2>3
      <4> HIDE DEF ids
      <4> QED BY <1>2, <4>1, RevokedTable DEF IInv
    <3>2. Live(s)'
      BY <1>1, <1>2, <2>1, <3>1, FinishReleasesClaim DEF Live, Unrevoked, Issued
    <3> QED BY <1>1, <3>1, <3>2, StaysLive
  <2> QED BY <2>2, <2>3
<1>10. ASSUME NEW p \in Handlers, Fail(p) PROVE SignInOf(c)' = "live" \/ RunsOut(c)
  <2>1. session' = session /\ expired' = expired
    BY <1>10 DEF Fail, Finish, rows
  <2>2. CASE s \in expired
    BY <1>1, <2>1, <2>2 DEF RunsOut, Live, Unrevoked, Issued
  <2>3. CASE s \notin expired
    BY <1>1, <2>1, <2>3, StaysLive DEF Live, Unrevoked, Issued
  <2> QED BY <2>2, <2>3
<1>11. ASSUME NEW e \in SessionId, Expire(e) PROVE SignInOf(c)' = "live" \/ RunsOut(c)
  <2>1. session' = session /\ rowLock' = rowLock /\ expired' = expired \cup {e}
    BY <1>11 DEF Expire, rows, locks
  <2>2. CASE s = e
    BY <1>1, <2>1, <2>2 DEF RunsOut, Live, Unrevoked, Issued
  <2>3. CASE s # e
    BY <1>1, <2>1, <2>3, StaysLive DEF Live, Unrevoked, Issued
  <2> QED BY <2>2, <2>3
<1> QED
  BY <1>4, <1>5, <1>6, <1>7, <1>8, <1>9, <1>10, <1>11 DEF SessionsNext

\* Whatever the requests of an account interleave with, and wherever they fail, a sign-in ends
\* only by its own logout, by its expiry or by a password change.
THEOREM SignInsAlwaysEndForCause == SessionsSpec => SignInsEndForCause
<1>1. IInv /\ [SessionsNext]_vars =>
        [\A c \in SessionId : SignInOf(c) = "live" /\ SignInOf(c)' # "live" =>
            RunsOut(c) \/ \E p \in Handlers : LogsOut(p, c) \/ ChangePassword(p)]_vars
  BY StepEndsForCause
<1> QED BY <1>1, InitHolds, StepKeepsInvariant, PTL DEF SessionsSpec, SignInsEndForCause
=============================================================================
