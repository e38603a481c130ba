---------------------------- MODULE BrowserSession ----------------------------
(***************************************************************************)
(* The session of the browser's tabs (client.ts, auth-context.tsx,         *)
(* session-workspace.tsx).  A request the API answers with 401 awaits one  *)
(* refresh shared by its tab and is sent once more.  Tabs share nothing    *)
(* but the refresh cookie, which every refresh spends and replaces.        *)
(***************************************************************************)
EXTENDS Naturals, FiniteSets

CONSTANTS
    Tabs,
    MaxOpen,        \* requests each tab may have open at a time
    Users,          \* accounts the user signs in to
    FirstUser,      \* whose cookie the browser has at the start
    MaxSessions,    \* refresh sessions the server issues in all
    MaxExpiries,    \* access tokens that expire
    MaxCalls,       \* requests the pages start in all
    MaxSignIns      \* sign-ins in all

ASSUME BrowserSessionAssumption ==
    /\ {MaxSessions, MaxExpiries, MaxCalls, MaxSignIns} \subseteq Nat
    /\ MaxSessions > 0
    /\ MaxOpen \in [Tabs -> Nat]

VARIABLES
    owner,      \* owner[k]: the account of refresh session and access token k
    fate,       \* fate[k]: "live", "signedOut", "lost" (the answer with its successor never
                \* arrived) or the tab whose refresh spent it
    stale,      \* access tokens past their expiry
    cookie,     \* the refresh session in the browser's cookie, 0 if none
    token,      \* accessToken.current of each tab, 0 if null
    profile,    \* the account a tab shows
    phase,      \* phase[t]: "closed" (not opened yet), "restoring" (loading), "ready"
    refreshes,  \* the refreshes that have not ended, numbered by tab
    shared,     \* refreshPromise: the refresh to join, 0 if none
    call,       \* the requests of each tab
    snapshots,  \* accounts whose answers the tab's query cache holds
    crossed,    \* tabs where two sign-ins, or one and a refresh, were under way at once
    asked       \* how many requests and sign-ins there have been

serverState == <<owner, fate, stale>>
tabState == <<token, profile, phase, snapshots>>
refreshState == <<refreshes, shared, crossed>>
sessionVars == <<serverState, cookie, tabState, refreshState, call, asked>>

Nobody == "nobody"
Calls(t) == 1 .. MaxOpen[t]
Issued == Cardinality(DOMAIN owner)
Free == [op |-> "none", at |-> "idle", token |-> 0, retried |-> FALSE, on |-> 0, kept |-> FALSE]
FirstFree(t, c) == call[t][c] = Free /\ \A d \in 1 .. c - 1 : call[t][d] # Free
NewCall(op, k) == [op |-> op, at |-> "sent", token |-> k, retried |-> FALSE, on |-> 0, kept |-> TRUE]

SessionInit ==
    /\ owner = [k \in {1} |-> FirstUser] /\ fate = [k \in {1} |-> "live"]
    /\ stale = {} /\ cookie = 1
    /\ token = [t \in Tabs |-> 0] /\ profile = [t \in Tabs |-> Nobody]
    /\ phase = [t \in Tabs |-> "closed"] /\ snapshots = [t \in Tabs |-> {}]
    /\ refreshes = {} /\ shared = [t \in Tabs |-> 0] /\ crossed = {}
    /\ call = [t \in Tabs |-> [c \in Calls(t) |-> Free]]
    /\ asked = [calls |-> 0, signIns |-> 0]

-----------------------------------------------------------------------------
\* The server issues a session to u, in place of the session "spent".
Issue(u, spent, by) ==
    /\ Issued < MaxSessions
    /\ owner' = [k \in 1 .. Issued + 1 |-> IF k \in DOMAIN owner THEN owner[k] ELSE u]
    /\ fate' = [k \in 1 .. Issued + 1 |->
                   IF k \notin DOMAIN fate THEN "live" ELSE IF k = spent THEN by ELSE fate[k]]

StartRefresh(t) ==
    LET n == Cardinality({w \in refreshes : w.tab = t}) + 1
    IN  /\ shared' = [shared EXCEPT ![t] = n]
        /\ refreshes' = refreshes \cup {[tab |-> t, n |-> n, sent |-> cookie, at |-> "sent", got |-> 0]}
        /\ crossed' = crossed \cup {u \in {t} : \E c \in Calls(u) : call[u][c].op = "signIn"}

\* Mutant: every caller starts a refresh of its own.
RefreshAlone(t) == StartRefresh(t)

\* refresh(): join the one under way, or send the cookie in a new one.
Refresh(t) == IF shared[t] = 0 THEN StartRefresh(t) ELSE UNCHANGED refreshState

\* Mutant: the query cache outlives the account.
ShowOverCache(t, u, calls) ==
    /\ profile' = [profile EXCEPT ![t] = u]
    /\ call' = [call EXCEPT ![t] = calls]
    /\ UNCHANGED snapshots

\* setProfile: another account gets a QueryClient of its own, and the answers that are
\* still to come go to the one that is no longer shown.
Show(t, u, calls) ==
    LET same == u = profile[t]
    IN  /\ profile' = [profile EXCEPT ![t] = u]
        /\ snapshots' = [snapshots EXCEPT ![t] = IF same THEN @ ELSE {}]
        /\ call' = [call EXCEPT ![t] = [c \in Calls(t) |-> [calls[c] EXCEPT !.kept = @ /\ same]]]

-----------------------------------------------------------------------------
\* The tab is opened: the provider mounts and restores the session.
Restore(t) ==
    /\ phase[t] = "closed" /\ phase' = [phase EXCEPT ![t] = "restoring"]
    /\ Refresh(t)
    /\ UNCHANGED <<serverState, cookie, token, profile, snapshots, call, asked>>

\* A page sends a request, or the user signs out.
Ask(t, c, op) ==
    /\ profile[t] # Nobody /\ FirstFree(t, c)
    /\ asked.calls < MaxCalls /\ asked' = [asked EXCEPT !.calls = @ + 1]
    /\ call' = [call EXCEPT ![t][c] = NewCall(op, token[t])]
    /\ UNCHANGED <<serverState, cookie, tabState, refreshState>>

\* authenticate: the login is answered, and the profile is asked for with its token.
SignIn(t, c, u) ==
    /\ profile[t] = Nobody /\ phase[t] = "ready" /\ FirstFree(t, c)
    /\ asked.signIns < MaxSignIns /\ asked' = [asked EXCEPT !.signIns = @ + 1]
    /\ Issue(u, 0, t)
    /\ cookie' = Issued + 1 /\ token' = [token EXCEPT ![t] = Issued + 1]
    /\ call' = [call EXCEPT ![t][c] = NewCall("signIn", Issued + 1)]
    /\ crossed' = crossed \cup {v \in {t} : \/ \E w \in refreshes : w.tab = v
                                         \/ \E d \in Calls(v) : call[v][d].op = "signIn"}
    /\ UNCHANGED <<stale, profile, phase, snapshots, refreshes, shared>>

Expire(k) ==
    /\ k \in DOMAIN owner \ stale /\ Cardinality(stale) < MaxExpiries
    /\ stale' = stale \cup {k}
    /\ UNCHANGED <<owner, fate, cookie, tabState, refreshState, call, asked>>

Open(t, c) == call[t][c].at = "sent"
Authorized(t, c) == call[t][c].token \in DOMAIN owner \ stale

\* A request is answered: a page shows what it got, in the QueryClient it asked for.
Answer(t, c) ==
    LET r == call[t][c] IN
    /\ Open(t, c) /\ Authorized(t, c) /\ r.op = "page"
    /\ snapshots' = [snapshots EXCEPT ![t] = IF r.kept THEN @ \cup {owner[r.token]} ELSE @]
    /\ call' = [call EXCEPT ![t][c] = Free]
    /\ UNCHANGED <<serverState, cookie, token, profile, phase, refreshState, asked>>

SignedIn(t, c) ==
    /\ Open(t, c) /\ Authorized(t, c) /\ call[t][c].op = "signIn"
    /\ Show(t, owner[call[t][c].token], [call[t] EXCEPT ![c] = Free])
    /\ UNCHANGED <<serverState, cookie, token, phase, refreshState, asked>>

\* The logout is answered: the server revokes the session of the cookie, if it is the
\* caller's, and clears the cookie.
SignedOut(t, c) ==
    /\ Open(t, c) /\ Authorized(t, c) /\ call[t][c].op = "logout"
    /\ fate' = [k \in DOMAIN fate |->
                   IF k = cookie /\ fate[k] = "live" /\ owner[k] = owner[call[t][c].token]
                   THEN "signedOut" ELSE fate[k]]
    /\ cookie' = 0 /\ token' = [token EXCEPT ![t] = 0]
    /\ Show(t, Nobody, [call[t] EXCEPT ![c] = Free])
    /\ UNCHANGED <<owner, stale, phase, refreshState, asked>>

\* 401 on the first attempt: await a refresh.
Unauthorized(t, c) ==
    /\ Open(t, c) /\ ~Authorized(t, c) /\ ~call[t][c].retried
    /\ Refresh(t)
    /\ call' = [call EXCEPT ![t][c].at = "waiting", ![t][c].on = shared'[t]]
    /\ UNCHANGED <<serverState, cookie, tabState, asked>>

\* Another error, 401 again, or no answer: the request fails; sign-out ignores that.
Fail(t, c) ==
    LET out == call[t][c].op = "logout" IN
    /\ Open(t, c)
    /\ token' = [token EXCEPT ![t] = IF out THEN 0 ELSE @]
    /\ Show(t, IF out THEN Nobody ELSE profile[t], [call[t] EXCEPT ![c] = Free])
    /\ UNCHANGED <<serverState, cookie, phase, refreshState, asked>>

-----------------------------------------------------------------------------
\* Mutant: the server rotates a session that was spent or signed out as well.
RotateAny(w) ==
    /\ w.at = "sent" /\ w.sent # 0
    /\ Issue(owner[w.sent], w.sent, w.tab)
    /\ refreshes' = (refreshes \ {w}) \cup {[w EXCEPT !.at = "rotated", !.got = Issued + 1]}
    /\ UNCHANGED <<stale, cookie, tabState, shared, crossed, call, asked>>

\* The server rotates the session of the cookie a refresh carries, or refuses it.
Rotate(w) ==
    /\ w.at = "sent" /\ w.sent # 0 /\ fate[w.sent] = "live"
    /\ Issue(owner[w.sent], w.sent, w.tab)
    /\ refreshes' = (refreshes \ {w}) \cup {[w EXCEPT !.at = "rotated", !.got = Issued + 1]}
    /\ UNCHANGED <<stale, cookie, tabState, shared, crossed, call, asked>>

\* Mutant: the refresh itself, refused with 401, awaits the refresh it is.
RefuseJoining(w) ==
    /\ w.at = "sent" /\ (w.sent # 0 => fate[w.sent] # "live")
    /\ refreshes' = (refreshes \ {w}) \cup {[w EXCEPT !.at = "joined"]}
    /\ UNCHANGED <<serverState, cookie, tabState, shared, crossed, call, asked>>

Refuse(w) ==
    /\ w.at = "sent" /\ (w.sent # 0 => fate[w.sent] # "live")
    /\ refreshes' = (refreshes \ {w}) \cup {[w EXCEPT !.at = "refused"]}
    /\ UNCHANGED <<serverState, cookie, tabState, shared, crossed, call, asked>>

\* The new cookie and access token arrive; refresh() asks for the profile.
TakeToken(w) ==
    /\ w.at = "rotated"
    /\ cookie' = w.got /\ token' = [token EXCEPT ![w.tab] = w.got]
    /\ refreshes' = (refreshes \ {w}) \cup {[w EXCEPT !.at = "profile"]}
    /\ UNCHANGED <<serverState, profile, phase, snapshots, shared, crossed, call, asked>>

\* The refresh is over: whoever joined it goes on as Resumed says.
EndRefresh(w, u, Resumed(_)) ==
    LET t == w.tab IN
    /\ refreshes' = refreshes \ {w}
    /\ shared' = [shared EXCEPT ![t] = IF @ = w.n THEN 0 ELSE @]
    /\ phase' = [phase EXCEPT ![t] = "ready"]
    /\ Show(t, u, [c \in Calls(t) |-> LET r == call[t][c]
                                   IN  IF r.at = "waiting" /\ r.on = w.n THEN Resumed(r) ELSE r])
    /\ UNCHANGED <<owner, stale, crossed, asked>>

\* Mutant: a tab that shows an account asks for no profile.
RefreshedAsShown(w) ==
    /\ w.at = "profile" /\ w.got \notin stale
    /\ EndRefresh(w, IF profile[w.tab] = Nobody THEN owner[w.got] ELSE profile[w.tab], LAMBDA r :
           [r EXCEPT !.at = "sent", !.retried = TRUE, !.on = 0,
                     !.token = IF r.op = "signIn" THEN @ ELSE token[w.tab]])
    /\ UNCHANGED <<fate, cookie, token>>

\* The profile arrives; requests are sent again with the tab's token, but the one of a
\* sign-in with its own.
Refreshed(w) ==
    /\ w.at = "profile" /\ w.got \notin stale
    /\ EndRefresh(w, owner[w.got], LAMBDA r :
           [r EXCEPT !.at = "sent", !.retried = TRUE, !.on = 0,
                     !.token = IF r.op = "signIn" THEN @ ELSE token[w.tab]])
    /\ UNCHANGED <<fate, cookie, token>>

\* Mutant: nobody tells those who joined the refresh that it failed.
RefreshFailsQuietly(w) ==
    /\ w.at \in {"sent", "refused", "profile"} /\ UNCHANGED <<fate, cookie>>
    /\ token' = [token EXCEPT ![w.tab] = 0]
    /\ EndRefresh(w, Nobody, LAMBDA r : r)

\* The refresh fails: it is refused, it or its answer is lost, or there is no profile.
RefreshFails(w) ==
    /\ \/ w.at \in {"sent", "refused", "profile"} /\ UNCHANGED fate
       \/ w.at = "rotated" /\ fate' = [fate EXCEPT ![w.sent] = "lost"]
    /\ token' = [token EXCEPT ![w.tab] = 0]
    /\ EndRefresh(w, Nobody, LAMBDA r : Free)
    /\ UNCHANGED cookie

CallStep(t, c) ==
    \/ Answer(t, c) \/ SignedIn(t, c) \/ SignedOut(t, c) \/ Unauthorized(t, c) \/ Fail(t, c)
RefreshStep(w) == Rotate(w) \/ Refuse(w) \/ TakeToken(w) \/ Refreshed(w) \/ RefreshFails(w)

\* What happens without the user.
Proceed ==
    \/ \E t \in Tabs : \E c \in Calls(t) : CallStep(t, c)
    \/ \E w \in refreshes : RefreshStep(w)

SessionNext ==
    \/ Proceed
    \/ \E t \in Tabs : Restore(t)
    \/ \E t \in Tabs : \E c \in Calls(t), op \in {"page", "logout"} : Ask(t, c, op)
    \/ \E t \in Tabs : \E c \in Calls(t), u \in Users : SignIn(t, c, u)
    \/ \E k \in DOMAIN owner : Expire(k)

\* What was sent is answered or fails; nobody has to open a tab, ask or sign in, and
\* no token has to expire.
SessionFairness == WF_sessionVars(Proceed)

SessionSpec == SessionInit /\ [][SessionNext]_sessionVars /\ SessionFairness

-----------------------------------------------------------------------------
\* A tab never ends its own session by refreshing twice: a refresh is refused only when
\* the cookie it carried was gone, signed out, spent by another tab, or spent by a refresh
\* whose answer was lost (the parallel 401s of client.ts:85 share one refresh).
NoSelfInflictedSignOut ==
    \A w \in refreshes :
        w.at = "refused" => w.sent = 0 \/ fate[w.sent] \in {"signedOut", "lost"} \cup (Tabs \ {w.tab})

\* A tab that has its token waits for the profile that goes with it.
Settled(t) == \A w \in refreshes : w.tab = t => w.at # "profile"

\* "Server snapshots and notifications never carry over to another account"
\* (session-workspace.tsx:8): once a tab has settled on an account, its query cache holds
\* that account's answers only, also when another tab signed in as somebody else.  Where two
\* sign-ins, or one and a refresh of the tab, cross, either may set the token and the other
\* the profile, and the comment is wrong.
SnapshotsAreOwn ==
    \A t \in Tabs \ crossed : Settled(t) => snapshots[t] \subseteq {profile[t]}

\* The name shown in a tab is the name it acts in (auth-context.tsx:57-59 sets the token and
\* the profile one await apart): a settled tab and those of its requests that still have a
\* page to answer carry tokens of the account that is shown, whoever signed in elsewhere.
TokensAreOwn ==
    \A t \in Tabs \ crossed :
        Settled(t) /\ profile[t] # Nobody =>
            \A k \in {token[t]} \cup {call[t][c].token : c \in {d \in Calls(t) : call[t][d].kept}} :
                k # 0 => owner[k] = profile[t]

\* A tab shows and acts for the account whose name it shows.
TabsActAsShown == SnapshotsAreOwn /\ TokensAreOwn

\* Whoever waits for a refresh, a request or the restoring of the tab, waits for one that is
\* under way: none is left to a promise that has settled already (auth-context.tsx:67-70).
WaitersAreAwaited ==
    \A t \in Tabs :
        /\ phase[t] = "restoring" => \E w \in refreshes : w.tab = t
        /\ \A c \in Calls(t) : call[t][c].at = "waiting" =>
               \E w \in refreshes : w.tab = t /\ w.n = call[t][c].on

\* Every request ends, and so does the restoring of a session: no refresh loop (M2).
Pending(t, c) == phase[t] = "restoring" \/ call[t][c].at # "idle"

RequestsSettle == \A t \in Tabs : \A c \in Calls(t) : Pending(t, c) ~> ~Pending(t, c)
=============================================================================
