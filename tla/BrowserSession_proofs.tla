-------------------------- MODULE BrowserSession_proofs --------------------------
(***************************************************************************)
(* A tab never ends its own session by refreshing twice, and shows the     *)
(* answers of its own account only, for any number of tabs, requests,      *)
(* sign-ins, expiries and lost answers.                                    *)
(***************************************************************************)
EXTENDS BrowserSignIns, FiniteSetTheorems, TLAPS

Ended == {"live", "signedOut", "lost"}
Refreshes == [tab : Tabs, n : Nat, sent : Nat, at : {"sent", "refused", "rotated", "profile"}, got : Nat]

\* Sessions are numbered in the order in which they are issued.
Numbered ==
    /\ Issued \in Nat /\ DOMAIN owner = 1 .. Issued /\ DOMAIN fate = 1 .. Issued
    /\ cookie \in Nat /\ cookie <= Issued
    /\ refreshes \subseteq Refreshes
    /\ \A w \in refreshes : w.sent <= Issued /\ w.got <= Issued

\* A tab has one refresh at most, the one that its callers join.
OneEach ==
    /\ shared \in [Tabs -> Nat]
    /\ \A w \in refreshes : w.n # 0 /\ shared[w.tab] = w.n
    /\ \A v, w \in refreshes : v.tab = w.tab => v = w

\* What the server issued to a refresh has reached nobody before the refresh takes it.
IssuedUnseen ==
    \A w \in refreshes : w.at = "rotated" =>
        /\ w.got # 0 /\ w.got # cookie /\ fate[w.got] = "live"
        /\ \A v \in refreshes : v.sent # w.got
        /\ \A v \in refreshes : v.at = "rotated" /\ v # w => v.got # w.got

\* The cookie was spent by a refresh only while its answer is on the way.
CookieSpent ==
    cookie # 0 =>
        \/ fate[cookie] \in Ended
        \/ \E w \in refreshes : w.at = "rotated" /\ w.sent = cookie /\ w.tab = fate[cookie]

\* The cookie a refresh carries was not spent by another refresh of its tab.
SentUnspent ==
    \A w \in refreshes : w.sent # 0 =>
        /\ w.at = "sent" => fate[w.sent] \in Ended \cup (Tabs \ {w.tab})
        /\ w.at = "refused" => fate[w.sent] \in {"signedOut", "lost"} \cup (Tabs \ {w.tab})

SessionInv == Numbered /\ OneEach /\ IssuedUnseen /\ CookieSpent /\ SentUnspent

LEMMA SessionInitInv == SessionInit => SessionInv
<1> SUFFICES ASSUME SessionInit PROVE SessionInv
  OBVIOUS
<1>1. DOMAIN owner = {1} /\ DOMAIN fate = {1} /\ fate[1] = "live" /\ cookie = 1 /\ refreshes = {}
  BY DEF SessionInit
<1>2. Issued = 1
  BY <1>1, FS_Singleton DEF Issued
<1>3. {1} = 1 .. 1
  OBVIOUS
<1>4. Numbered
  BY <1>1, <1>2, <1>3 DEF Numbered
<1>5. OneEach
  BY <1>1 DEF SessionInit, OneEach
<1>6. IssuedUnseen /\ CookieSpent /\ SentUnspent
  BY <1>1 DEF IssuedUnseen, CookieSpent, SentUnspent, Ended
<1> QED BY <1>4, <1>5, <1>6 DEF SessionInv

\* A new session takes the next number, and the one it replaces is spent.
LEMMA IssueFacts ==
  ASSUME Numbered, NEW u, NEW spent, NEW by, Issue(u, spent, by)
  PROVE  /\ Issued' = Issued + 1
         /\ DOMAIN owner' = 1 .. Issued + 1 /\ DOMAIN fate' = 1 .. Issued + 1
         /\ fate'[Issued + 1] = "live"
         /\ \A k \in 1 .. Issued : fate'[k] = IF k = spent THEN by ELSE fate[k]
<1>1. /\ DOMAIN owner' = 1 .. Issued + 1
      /\ fate' = [k \in 1 .. Issued + 1 |->
                     IF k \notin DOMAIN fate THEN "live" ELSE IF k = spent THEN by ELSE fate[k]]
  BY DEF Issue
<1>2. Issued \in Nat /\ DOMAIN fate = 1 .. Issued
  BY DEF Numbered
<1>3. Cardinality(1 .. Issued + 1) = Issued + 1
  BY <1>2, FS_Interval
<1>4. Issued' = Issued + 1
  BY <1>1, <1>3 DEF Issued
<1>5. Issued + 1 \notin DOMAIN fate /\ Issued + 1 \in 1 .. Issued + 1
  BY <1>2
<1>6. \A k \in 1 .. Issued : k \in DOMAIN fate /\ k \in 1 .. Issued + 1
  BY <1>2
<1> QED BY <1>1, <1>4, <1>5, <1>6

\* A tab that needs a refresh has none under way, or joins it.
LEMMA RefreshKeeps ==
  ASSUME SessionInv, NEW t \in Tabs, Refresh(t), UNCHANGED <<owner, fate, cookie>>
  PROVE  SessionInv'
<1>1. Issued' = Issued
  BY DEF Issued
<1>2. CASE UNCHANGED refreshState
  BY <1>1, <1>2 DEF refreshState, SessionInv, Numbered, OneEach, IssuedUnseen, CookieSpent, SentUnspent
<1>3. CASE shared[t] = 0 /\ StartRefresh(t)
  <2>1. \A w \in refreshes : w.tab # t
    BY <1>3 DEF SessionInv, OneEach
  <2>2. {w \in refreshes : w.tab = t} = {}
    BY <2>1
  <2>3. Cardinality({w \in refreshes : w.tab = t}) + 1 = 1
    BY <2>2, FS_EmptySet
  <2> DEFINE new == [tab |-> t, n |-> 1, sent |-> cookie, at |-> "sent", got |-> 0]
  <2>4. shared' = [shared EXCEPT ![t] = 1] /\ refreshes' = refreshes \cup {new}
    BY <1>3, <2>3 DEF StartRefresh
  <2>5. /\ new \in Refreshes /\ new.tab = t /\ new.n = 1 /\ new.sent = cookie /\ new.at = "sent"
        /\ new.got = 0
    BY DEF Refreshes, SessionInv, Numbered
  <2> HIDE DEF new
  <2>6. Numbered'
    BY <1>1, <2>4, <2>5 DEF SessionInv, Numbered
  <2>7. OneEach'
    BY <2>1, <2>4, <2>5 DEF SessionInv, OneEach, Numbered, Refreshes
  <2>8. IssuedUnseen'
    BY <2>4, <2>5 DEF SessionInv, IssuedUnseen
  <2>9. CookieSpent'
    BY <2>4 DEF SessionInv, CookieSpent
  <2>10. cookie # 0 => fate[cookie] \in Ended \cup (Tabs \ {t})
    BY <2>1 DEF SessionInv, CookieSpent, Numbered, Refreshes
  <2>11. SentUnspent'
    BY <2>4, <2>5, <2>10 DEF SessionInv, SentUnspent
  <2> QED BY <2>6, <2>7, <2>8, <2>9, <2>11 DEF SessionInv
<1> QED BY <1>2, <1>3 DEF Refresh

\* Steps that change neither sessions nor refreshes.
LEMMA IdleKeeps ==
  ASSUME SessionInv, UNCHANGED <<owner, fate, cookie, refreshes, shared>>
  PROVE  SessionInv'
<1>1. Issued' = Issued
  BY DEF Issued
<1> QED
  BY <1>1 DEF SessionInv, Numbered, OneEach, IssuedUnseen, CookieSpent, SentUnspent

LEMMA SignInKeeps ==
  ASSUME SessionInv, NEW t \in Tabs, NEW c, NEW u, SignIn(t, c, u)
  PROVE  SessionInv'
<1>1. Issue(u, 0, t) /\ cookie' = Issued + 1 /\ UNCHANGED <<refreshes, shared>>
  BY DEF SignIn
<1>2. /\ Issued' = Issued + 1
      /\ DOMAIN owner' = 1 .. Issued + 1 /\ DOMAIN fate' = 1 .. Issued + 1
      /\ fate'[Issued + 1] = "live"
      /\ \A k \in 1 .. Issued : fate'[k] = IF k = 0 THEN t ELSE fate[k]
  BY <1>1, IssueFacts DEF SessionInv
<1>3. \A k \in 1 .. Issued : fate'[k] = fate[k]
  BY <1>2 DEF SessionInv, Numbered
<1>4. \A w \in refreshes : /\ w.sent # 0 => w.sent \in 1 .. Issued
                           /\ w.got # 0 => w.got \in 1 .. Issued
                           /\ w.got # Issued + 1
  BY DEF SessionInv, Numbered, Refreshes
<1>5. Numbered'
  BY <1>1, <1>2 DEF SessionInv, Numbered, Refreshes
<1>6. OneEach'
  BY <1>1 DEF SessionInv, OneEach
<1>7. IssuedUnseen'
  BY <1>1, <1>3, <1>4 DEF SessionInv, IssuedUnseen
<1>8. CookieSpent'
  BY <1>1, <1>2 DEF CookieSpent, Ended
<1>9. SentUnspent'
  BY <1>1, <1>3, <1>4 DEF SessionInv, SentUnspent
<1> QED BY <1>5, <1>6, <1>7, <1>8, <1>9 DEF SessionInv

LEMMA SignedOutKeeps ==
  ASSUME SessionInv, NEW t \in Tabs, NEW c, SignedOut(t, c)
  PROVE  SessionInv'
<1>1. /\ \E o : fate' = [k \in DOMAIN fate |->
                   IF k = cookie /\ fate[k] = "live" /\ owner[k] = o THEN "signedOut" ELSE fate[k]]
      /\ cookie' = 0 /\ UNCHANGED <<owner, refreshes, shared>>
  BY DEF SignedOut, refreshState
<1>2. Issued' = Issued
  BY <1>1 DEF Issued
<1>3. \A k \in 1 .. Issued : fate'[k] = fate[k] \/ (k = cookie /\ fate'[k] = "signedOut")
  BY <1>1 DEF SessionInv, Numbered
<1>4. \A w \in refreshes : /\ w.sent # 0 => w.sent \in 1 .. Issued
                           /\ w.got # 0 => w.got \in 1 .. Issued
  BY DEF SessionInv, Numbered, Refreshes
<1>5. Numbered'
  BY <1>1, <1>2 DEF SessionInv, Numbered
<1>6. OneEach'
  BY <1>1 DEF SessionInv, OneEach
<1>7. IssuedUnseen'
  BY <1>1, <1>3, <1>4 DEF SessionInv, IssuedUnseen
<1>8. CookieSpent'
  BY <1>1 DEF CookieSpent
<1>9. SentUnspent'
  BY <1>1, <1>3, <1>4 DEF SessionInv, SentUnspent, Ended
<1> QED BY <1>5, <1>6, <1>7, <1>8, <1>9 DEF SessionInv

\* Only a live session is spent, so another tab's refresh that carries it was not yet refused.
LEMMA RotateKeeps ==
  ASSUME SessionInv, NEW w \in refreshes, Rotate(w)
  PROVE  SessionInv'
<1> DEFINE new == [w EXCEPT !.at = "rotated", !.got = Issued + 1]
<1>1. /\ w.at = "sent" /\ w.sent # 0 /\ fate[w.sent] = "live"
      /\ Issue(owner[w.sent], w.sent, w.tab)
      /\ refreshes' = (refreshes \ {w}) \cup {new}
      /\ UNCHANGED <<cookie, shared>>
  BY DEF Rotate
<1>2. /\ Issued' = Issued + 1
      /\ DOMAIN owner' = 1 .. Issued + 1 /\ DOMAIN fate' = 1 .. Issued + 1
      /\ fate'[Issued + 1] = "live"
      /\ \A k \in 1 .. Issued : fate'[k] = IF k = w.sent THEN w.tab ELSE fate[k]
  BY <1>1, IssueFacts DEF SessionInv
<1>3. /\ new \in Refreshes /\ new.tab = w.tab /\ new.n = w.n /\ new.sent = w.sent
      /\ new.at = "rotated" /\ new.got = Issued + 1 /\ w \in Refreshes
  <2>1. w \in Refreshes /\ Issued + 1 \in Nat
    BY DEF SessionInv, Numbered
  <2> QED BY <2>1 DEF Refreshes
<1> HIDE DEF new
<1>4. \A v \in refreshes : /\ v.sent # 0 => v.sent \in 1 .. Issued
                           /\ v.got # 0 => v.got \in 1 .. Issued
                           /\ v.sent # Issued + 1 /\ v.got # Issued + 1
  BY DEF SessionInv, Numbered, Refreshes
<1>5. cookie # Issued + 1 /\ (cookie # 0 => cookie \in 1 .. Issued)
  BY DEF SessionInv, Numbered
<1>6. Numbered'
  BY <1>1, <1>2, <1>3 DEF SessionInv, Numbered, Refreshes
<1>7. OneEach'
  BY <1>1, <1>3 DEF SessionInv, OneEach
<1>8. IssuedUnseen'
  <2> SUFFICES ASSUME NEW v \in refreshes', v.at = "rotated"
               PROVE  /\ v.got # 0 /\ v.got # cookie /\ fate'[v.got] = "live"
                      /\ \A x \in refreshes' : x.sent # v.got
                      /\ \A x \in refreshes' : x.at = "rotated" /\ x # v => x.got # v.got
    BY <1>1 DEF IssuedUnseen
  <2>1. CASE v = new
    <3>1. Issued + 1 # 0
      BY DEF SessionInv, Numbered
    <3>2. \A x \in refreshes' : x.sent # Issued + 1 /\ (x # new => x.got # Issued + 1)
      BY <1>1, <1>3, <1>4
    <3> QED BY <1>2, <1>3, <1>5, <2>1, <3>1, <3>2
  <2>2. CASE v # new
    <3>1. v \in refreshes /\ v # w
      BY <1>1, <2>2
    <3>2. v.got # 0 /\ v.got # cookie /\ fate[v.got] = "live" /\ v.got # w.sent
          /\ (\A x \in refreshes : x.sent # v.got)
          /\ (\A x \in refreshes : x.at = "rotated" /\ x # v => x.got # v.got)
      BY <3>1 DEF SessionInv, IssuedUnseen
    <3>3. fate'[v.got] = "live"
      BY <1>2, <1>4, <3>1, <3>2
    <3> QED BY <1>1, <1>3, <1>4, <3>1, <3>2, <3>3
  <2> QED BY <2>1, <2>2
<1>9. CookieSpent'
  <2>1. CASE cookie = w.sent
    BY <1>1, <1>2, <1>3, <1>4, <2>1 DEF CookieSpent
  <2>2. CASE cookie # w.sent
    BY <1>1, <1>2, <1>5, <2>2 DEF SessionInv, CookieSpent
  <2> QED BY <2>1, <2>2
<1>10. SentUnspent'
  <2> SUFFICES ASSUME NEW v \in refreshes', v # new, v.sent # 0
               PROVE  /\ v.at = "sent" => fate'[v.sent] \in Ended \cup (Tabs \ {v.tab})
                      /\ v.at = "refused" => fate'[v.sent] \in {"signedOut", "lost"} \cup (Tabs \ {v.tab})
    BY <1>1, <1>3 DEF SentUnspent
  <2>1. v \in refreshes /\ v # w
    BY <1>1
  <2>2. v.tab # w.tab
    BY <2>1 DEF SessionInv, OneEach
  <2>3. fate'[v.sent] = IF v.sent = w.sent THEN w.tab ELSE fate[v.sent]
    BY <1>2, <1>4, <2>1
  <2>4. w.tab \in Tabs \ {v.tab}
    BY <1>3, <2>2 DEF Refreshes
  <2> QED BY <2>1, <2>3, <2>4 DEF SessionInv, SentUnspent
<1> QED BY <1>6, <1>7, <1>8, <1>9, <1>10 DEF SessionInv

LEMMA RefuseKeeps ==
  ASSUME SessionInv, NEW w \in refreshes, Refuse(w)
  PROVE  SessionInv'
<1> DEFINE new == [w EXCEPT !.at = "refused"]
<1>1. /\ w.at = "sent" /\ (w.sent # 0 => fate[w.sent] # "live")
      /\ refreshes' = (refreshes \ {w}) \cup {new}
      /\ UNCHANGED <<owner, fate, cookie, shared>>
  BY DEF Refuse, serverState
<1>2. Issued' = Issued
  BY <1>1 DEF Issued
<1>3. /\ new \in Refreshes /\ new.tab = w.tab /\ new.n = w.n /\ new.sent = w.sent
      /\ new.at = "refused" /\ new.got = w.got
  BY DEF SessionInv, Numbered, Refreshes
<1> HIDE DEF new
<1>4. Numbered'
  BY <1>1, <1>2, <1>3 DEF SessionInv, Numbered
<1>5. OneEach'
  BY <1>1, <1>3 DEF SessionInv, OneEach
<1>6. IssuedUnseen'
  BY <1>1, <1>3 DEF SessionInv, IssuedUnseen
<1>7. CookieSpent'
  BY <1>1 DEF SessionInv, CookieSpent
<1>8. SentUnspent'
  BY <1>1, <1>3 DEF SessionInv, SentUnspent, Ended
<1> QED BY <1>4, <1>5, <1>6, <1>7, <1>8 DEF SessionInv

LEMMA TakeTokenKeeps ==
  ASSUME SessionInv, NEW w \in refreshes, TakeToken(w)
  PROVE  SessionInv'
<1> DEFINE new == [w EXCEPT !.at = "profile"]
<1>1. /\ w.at = "rotated" /\ cookie' = w.got
      /\ refreshes' = (refreshes \ {w}) \cup {new}
      /\ UNCHANGED <<owner, fate, shared>>
  BY DEF TakeToken, serverState
<1>2. Issued' = Issued
  BY <1>1 DEF Issued
<1>3. /\ new \in Refreshes /\ new.tab = w.tab /\ new.n = w.n /\ new.sent = w.sent
      /\ new.at = "profile" /\ new.got = w.got
  BY DEF SessionInv, Numbered, Refreshes
<1> HIDE DEF new
<1>4. Numbered'
  BY <1>1, <1>2, <1>3 DEF SessionInv, Numbered, Refreshes
<1>5. OneEach'
  BY <1>1, <1>3 DEF SessionInv, OneEach
<1>6. IssuedUnseen'
  BY <1>1, <1>3 DEF SessionInv, IssuedUnseen
<1>7. CookieSpent'
  BY <1>1 DEF SessionInv, IssuedUnseen, CookieSpent, Ended
<1>8. SentUnspent'
  BY <1>1, <1>3 DEF SessionInv, SentUnspent
<1> QED BY <1>4, <1>5, <1>6, <1>7, <1>8 DEF SessionInv

\* A refresh that is over is the only one of its tab, and a cookie whose successor is lost
\* counts as lost.
LEMMA EndKeeps ==
  ASSUME SessionInv, NEW w \in refreshes, Refreshed(w) \/ RefreshFails(w)
  PROVE  SessionInv'
<1>1. /\ refreshes' = refreshes \ {w}
      /\ shared' = [shared EXCEPT ![w.tab] = IF @ = w.n THEN 0 ELSE @]
      /\ UNCHANGED <<owner, cookie>>
      /\ \/ w.at # "rotated" /\ fate' = fate
         \/ w.at = "rotated" /\ fate' = [fate EXCEPT ![w.sent] = "lost"]
  BY DEF Refreshed, RefreshFails, EndRefresh
<1>2. Issued' = Issued
  BY <1>1 DEF Issued
<1>3. \A k \in 1 .. Issued : fate'[k] = fate[k] \/ (w.at = "rotated" /\ k = w.sent /\ fate'[k] = "lost")
  BY <1>1 DEF SessionInv, Numbered
<1>4. \A v \in refreshes : /\ v.sent # 0 => v.sent \in 1 .. Issued
                           /\ v.got # 0 => v.got \in 1 .. Issued
  BY DEF SessionInv, Numbered, Refreshes
<1>5. Numbered'
  BY <1>1, <1>2 DEF SessionInv, Numbered
<1>6. OneEach'
  <2>1. shared' \in [Tabs -> Nat]
    BY <1>1 DEF SessionInv, OneEach
  <2>2. \A v \in refreshes' : v.tab # w.tab /\ v.tab \in Tabs
    BY <1>1 DEF SessionInv, OneEach, Numbered, Refreshes
  <2> QED BY <1>1, <2>1, <2>2 DEF SessionInv, OneEach
<1>7. IssuedUnseen'
  BY <1>1, <1>3, <1>4 DEF SessionInv, IssuedUnseen
<1>8. CookieSpent'
  <2>1. cookie # 0 => cookie \in 1 .. Issued
    BY DEF SessionInv, Numbered
  <2>2. cookie # 0 /\ fate'[cookie] \notin Ended => fate'[cookie] = fate[cookie]
    BY <1>3, <2>1 DEF Ended
  <2>3. w.at = "rotated" /\ w.sent = cookie /\ cookie # 0 => fate'[cookie] = "lost"
    BY <1>1, <2>1 DEF SessionInv, Numbered
  <2> QED BY <1>1, <2>2, <2>3 DEF SessionInv, CookieSpent, Ended
<1>9. SentUnspent'
  BY <1>1, <1>3, <1>4 DEF SessionInv, SentUnspent, Ended
<1> QED BY <1>5, <1>6, <1>7, <1>8, <1>9 DEF SessionInv

LEMMA SessionStep ==
  ASSUME SessionInv, [SessionNext]_sessionVars
  PROVE  SessionInv'
<1>1. ASSUME NEW t \in Tabs, Restore(t) PROVE SessionInv'
  BY <1>1, RefreshKeeps DEF Restore, serverState
<1>2. ASSUME NEW t \in Tabs, NEW c, NEW op, Ask(t, c, op) PROVE SessionInv'
  BY <1>2, IdleKeeps DEF Ask, serverState, refreshState
<1>3. ASSUME NEW t \in Tabs, NEW c, NEW u, SignIn(t, c, u) PROVE SessionInv'
  BY <1>3, SignInKeeps
<1>4. ASSUME NEW k, Expire(k) PROVE SessionInv'
  BY <1>4, IdleKeeps DEF Expire, refreshState
<1>5. ASSUME NEW t \in Tabs, NEW c, Answer(t, c) \/ SignedIn(t, c) \/ Fail(t, c) PROVE SessionInv'
  BY <1>5, IdleKeeps DEF Answer, SignedIn, Fail, serverState, refreshState
<1>6. ASSUME NEW t \in Tabs, NEW c, SignedOut(t, c) PROVE SessionInv'
  BY <1>6, SignedOutKeeps
<1>7. ASSUME NEW t \in Tabs, NEW c, Unauthorized(t, c) PROVE SessionInv'
  BY <1>7, RefreshKeeps DEF Unauthorized, serverState
<1>8. ASSUME NEW w \in refreshes, RefreshStep(w) PROVE SessionInv'
  BY <1>8, RotateKeeps, RefuseKeeps, TakeTokenKeeps, EndKeeps DEF RefreshStep
<1>9. CASE UNCHANGED sessionVars
  BY <1>9, IdleKeeps DEF sessionVars, serverState, refreshState
<1> QED
  BY <1>1, <1>2, <1>3, <1>4, <1>5, <1>6, <1>7, <1>8, <1>9 DEF SessionNext, Proceed, CallStep

\* A refresh is refused only for what somebody else did to the cookie, however many tabs,
\* requests and faults there are.
THEOREM NoTabSignsItselfOut == SessionSpec => []NoSelfInflictedSignOut
<1>1. SessionInv => NoSelfInflictedSignOut
  BY DEF SessionInv, SentUnspent, NoSelfInflictedSignOut
<1> QED BY <1>1, SessionInitInv, SessionStep, PTL DEF SessionSpec

-----------------------------------------------------------------------------
(* What a tab shows is its account's. *)

CallRecord ==
    [op : {"none", "page", "logout", "signIn"}, at : {"idle", "sent", "waiting"}, token : Nat,
     retried : BOOLEAN, on : Nat, kept : BOOLEAN]

\* Every token was issued by the server, and a refresh that callers join is under way.
TabsTyped ==
    /\ DOMAIN token = Tabs /\ DOMAIN profile = Tabs /\ DOMAIN snapshots = Tabs /\ DOMAIN call = Tabs
    /\ \A t \in Tabs : token[t] \in 0 .. Issued
    /\ \A t \in Tabs : DOMAIN call[t] = Calls(t)
    /\ \A t \in Tabs : \A c \in Calls(t) : call[t][c] \in CallRecord /\ call[t][c].token \in 0 .. Issued
    /\ \A w \in refreshes : w.at = "profile" => w.got # 0
    /\ \A t \in Tabs : shared[t] # 0 => \E w \in refreshes : w.tab = t

\* The account the tab shows, or the one it is about to show.
OwnAccount(t, u) ==
    u = profile[t] \/ \E w \in refreshes : w.tab = t /\ w.at = "profile" /\ owner[w.got] = u

SnapshotsOwned(t) == \A u \in snapshots[t] : OwnAccount(t, u)

\* The tab and its requests, whose answers will be kept, carry tokens of that account.
TokensOwned(t) ==
    profile[t] # Nobody =>
        /\ token[t] # 0 => OwnAccount(t, owner[token[t]])
        /\ \A c \in Calls(t) :
               call[t][c].kept /\ call[t][c].token # 0 => OwnAccount(t, owner[call[t][c].token])

RefreshSetsToken(t) == \A w \in refreshes : w.tab = t /\ w.at = "profile" => token[t] \in {0, w.got}

NobodyKeepsNothing(t) ==
    profile[t] = Nobody =>
        /\ snapshots[t] = {}
        /\ \A c \in Calls(t) : call[t][c].kept => call[t][c].op = "signIn"

\* A sign-in has the tab to itself.
SignInAlone(t) ==
    \A c \in Calls(t) : call[t][c].op = "signIn" =>
        /\ profile[t] = Nobody /\ token[t] \in {0, call[t][c].token}
        /\ \A w \in refreshes : w.tab # t
        /\ \A d \in Calls(t) : call[t][d].op = "signIn" => d = c

TabOwn(t) ==
    /\ SnapshotsOwned(t) /\ TokensOwned(t) /\ RefreshSetsToken(t)
    /\ NobodyKeepsNothing(t) /\ SignInAlone(t)

OwnInv == SessionInv /\ TabsTyped /\ \A t \in Tabs \ crossed : TabOwn(t)

LEMMA OwnInitInv == SessionInit => OwnInv
<1> SUFFICES ASSUME SessionInit PROVE OwnInv
  OBVIOUS
<1>1. SessionInv
  BY SessionInitInv
<1>2. /\ refreshes = {} /\ token = [t \in Tabs |-> 0] /\ profile = [t \in Tabs |-> Nobody]
      /\ snapshots = [t \in Tabs |-> {}] /\ shared = [t \in Tabs |-> 0]
      /\ call = [t \in Tabs |-> [c \in Calls(t) |-> Free]]
  BY DEF SessionInit
<1>3. Free \in CallRecord /\ Free.token = 0 /\ ~Free.kept /\ Free.op = "none"
  BY DEF Free, CallRecord
<1>4. 0 \in 0 .. Issued
  BY <1>1 DEF SessionInv, Numbered
<1>5. TabsTyped
  BY <1>2, <1>3, <1>4 DEF TabsTyped
<1>6. ASSUME NEW t \in Tabs PROVE TabOwn(t)
  BY <1>2, <1>3 DEF TabOwn, SnapshotsOwned, TokensOwned, RefreshSetsToken, NobodyKeepsNothing, SignInAlone
<1> QED BY <1>1, <1>5, <1>6 DEF OwnInv

\* The accounts of the sessions that were issued.
KeepsOwners == Issued' \in Nat /\ Issued <= Issued' /\ \A k \in 1 .. Issued : owner'[k] = owner[k]

LEMMA OwnersKept ==
  ASSUME SessionInv,
         UNCHANGED owner \/ \E u, spent, by : Issue(u, spent, by)
  PROVE  KeepsOwners
<1>1. Issued \in Nat /\ DOMAIN owner = 1 .. Issued
  BY DEF SessionInv, Numbered
<1>2. CASE UNCHANGED owner
  BY <1>1, <1>2 DEF KeepsOwners, Issued
<1>3. ASSUME NEW u, NEW spent, NEW by, Issue(u, spent, by) PROVE KeepsOwners
  <2>1. Issued' = Issued + 1
    BY <1>3, IssueFacts DEF SessionInv
  <2>2. owner' = [k \in 1 .. Issued + 1 |-> IF k \in DOMAIN owner THEN owner[k] ELSE u]
    BY <1>3 DEF Issue
  <2> QED BY <1>1, <2>1, <2>2 DEF KeepsOwners
<1> QED BY <1>2, <1>3

\* A step that leaves what the tab shows, ends some of its requests, and may take its token.
SameTab(t) ==
    /\ token'[t] \in {0, token[t]} /\ profile'[t] = profile[t] /\ snapshots'[t] = snapshots[t]
    /\ \A w \in refreshes \cup refreshes' :
           w.tab = t /\ w.at = "profile" => w \in refreshes /\ w \in refreshes'

SameOrEnded(t, new) ==
    \A c \in Calls(t) :
        \/ /\ new[c].op = call[t][c].op /\ new[c].token = call[t][c].token
           /\ new[c].kept = call[t][c].kept
        \/ new[c].op = "none" /\ ~new[c].kept

NoNewRefresh(t) ==
    \/ \A c \in Calls(t) : call[t][c].op # "signIn"
    \/ \A w \in refreshes' : w.tab = t => \E v \in refreshes : v.tab = t

LEMMA SameTabKeeps ==
  ASSUME OwnInv, NEW t \in Tabs \ crossed, KeepsOwners, SameTab(t), SameOrEnded(t, call'[t]),
         NoNewRefresh(t)
  PROVE  TabOwn(t)'
<1>1. TabOwn(t) /\ TabsTyped /\ Numbered
  BY DEF OwnInv, SessionInv
<1>2. \A w \in refreshes : w.tab = t /\ w.at = "profile" => w.got \in 1 .. Issued
  BY <1>1 DEF TabsTyped, Numbered, Refreshes
<1>3. \A w \in refreshes : w.tab = t /\ w.at = "profile" => owner'[w.got] = owner[w.got]
  BY <1>2 DEF KeepsOwners
<1>4. ASSUME NEW u, OwnAccount(t, u) PROVE OwnAccount(t, u)'
  BY <1>3, <1>4 DEF OwnAccount, SameTab
<1>5. SnapshotsOwned(t)'
  BY <1>1, <1>4 DEF TabOwn, SnapshotsOwned, SameTab
<1>6. \A k \in 0 .. Issued : k # 0 => owner'[k] = owner[k]
  BY <1>1 DEF KeepsOwners, Numbered
<1>7. TokensOwned(t)'
  BY <1>1, <1>4, <1>6 DEF TabOwn, TokensOwned, SameTab, TabsTyped, SameOrEnded
<1>8. RefreshSetsToken(t)'
  BY <1>1 DEF TabOwn, RefreshSetsToken, SameTab
<1>9. NobodyKeepsNothing(t)'
  BY <1>1 DEF TabOwn, NobodyKeepsNothing, SameTab, SameOrEnded
<1>10. SignInAlone(t)'
  BY <1>1 DEF TabOwn, SignInAlone, SameTab, SameOrEnded, NoNewRefresh
<1> QED BY <1>5, <1>7, <1>8, <1>9, <1>10 DEF TabOwn

\* What Show does to the tab, and to its requests.
LEMMA ShowFacts ==
  ASSUME TabsTyped, NEW t \in Tabs, NEW u, NEW calls, Show(t, u, calls),
         \A c \in Calls(t) : calls[c] \in CallRecord
  PROVE  /\ DOMAIN profile' = Tabs /\ DOMAIN snapshots' = Tabs /\ DOMAIN call' = Tabs
         /\ profile'[t] = u /\ snapshots'[t] = (IF u = profile[t] THEN snapshots[t] ELSE {})
         /\ DOMAIN call'[t] = Calls(t)
         /\ \A c \in Calls(t) :
                /\ call'[t][c] \in CallRecord
                /\ call'[t][c].op = calls[c].op /\ call'[t][c].token = calls[c].token
                /\ call'[t][c].at = calls[c].at /\ call'[t][c].on = calls[c].on
                /\ call'[t][c].kept = (calls[c].kept /\ u = profile[t])
         /\ \A x \in Tabs \ {t} : /\ profile'[x] = profile[x] /\ snapshots'[x] = snapshots[x]
                                  /\ call'[x] = call[x]
<1> DEFINE new == [c \in Calls(t) |-> [calls[c] EXCEPT !.kept = @ /\ u = profile[t]]]
<1>1. /\ profile' = [profile EXCEPT ![t] = u]
      /\ snapshots' = [snapshots EXCEPT ![t] = IF u = profile[t] THEN @ ELSE {}]
      /\ call' = [call EXCEPT ![t] = new]
  BY DEF Show
<1>2. ASSUME NEW c \in Calls(t)
      PROVE  /\ new[c] \in CallRecord /\ new[c].op = calls[c].op /\ new[c].token = calls[c].token
             /\ new[c].at = calls[c].at /\ new[c].on = calls[c].on
             /\ new[c].kept = (calls[c].kept /\ u = profile[t])
  <2>1. calls[c] \in CallRecord /\ new[c] = [calls[c] EXCEPT !.kept = @ /\ u = profile[t]]
    OBVIOUS
  <2> HIDE DEF new
  <2> QED BY <2>1 DEF CallRecord
<1>3. DOMAIN new = Calls(t)
  OBVIOUS
<1> HIDE DEF new
<1>4. call'[t] = new /\ DOMAIN call' = Tabs /\ \A x \in Tabs \ {t} : call'[x] = call[x]
  BY <1>1 DEF TabsTyped
<1> QED BY <1>1, <1>2, <1>3, <1>4 DEF TabsTyped

\* The tokens that are held were issued, after a step that shows an account.
LEMMA ShowTyped ==
  ASSUME OwnInv, SessionInv', KeepsOwners, NEW t \in Tabs, NEW u, NEW calls, Show(t, u, calls),
         \A c \in Calls(t) : calls[c] \in CallRecord /\ calls[c].token \in 0 .. Issued,
         DOMAIN token' = Tabs, \A x \in Tabs : token'[x] \in {0, token[x]},
         \A w \in refreshes' : w \in refreshes,
         \A x \in Tabs : shared'[x] # 0 => \E w \in refreshes' : w.tab = x
  PROVE  TabsTyped'
<1>1. /\ DOMAIN profile' = Tabs /\ DOMAIN snapshots' = Tabs /\ DOMAIN call' = Tabs
      /\ DOMAIN call'[t] = Calls(t)
      /\ \A c \in Calls(t) : call'[t][c] \in CallRecord /\ call'[t][c].token = calls[c].token
      /\ \A x \in Tabs \ {t} : call'[x] = call[x]
  BY ShowFacts DEF OwnInv
<1>2. \A k \in 0 .. Issued : k \in 0 .. Issued'
  BY DEF KeepsOwners, OwnInv, SessionInv, Numbered
<1>3. 0 \in 0 .. Issued'
  BY DEF KeepsOwners
<1> QED BY <1>1, <1>2, <1>3 DEF OwnInv, TabsTyped

\* The other tabs, in a step that shows an account in one of them.
LEMMA OthersKeep ==
  ASSUME OwnInv, NEW t \in Tabs, NEW x \in Tabs \ {t}, x \notin crossed, KeepsOwners,
         token'[x] = token[x], profile'[x] = profile[x], snapshots'[x] = snapshots[x],
         call'[x] = call[x],
         \A w \in refreshes \cup refreshes' : w.tab = x => w \in refreshes /\ w \in refreshes'
  PROVE  TabOwn(x)'
<1>1. SameTab(x) /\ SameOrEnded(x, call'[x]) /\ NoNewRefresh(x)
  BY DEF SameTab, SameOrEnded, NoNewRefresh
<1> QED BY <1>1, SameTabKeeps

\* A tab that shows nobody keeps nothing of what it showed.
LEMMA NobodyKeeps ==
  ASSUME OwnInv, NEW t \in Tabs \ crossed, NEW calls, Show(t, Nobody, calls),
         \A c \in Calls(t) : calls[c] \in CallRecord, SameOrEnded(t, calls),
         token'[t] = 0, \A w \in refreshes' : w \in refreshes
  PROVE  TabOwn(t)'
<1>1. TabOwn(t) /\ TabsTyped
  BY DEF OwnInv
<1>2. /\ profile'[t] = Nobody /\ snapshots'[t] = (IF Nobody = profile[t] THEN snapshots[t] ELSE {})
      /\ \A c \in Calls(t) :
             /\ call'[t][c].op = calls[c].op /\ call'[t][c].token = calls[c].token
             /\ call'[t][c].kept = (calls[c].kept /\ Nobody = profile[t])
  BY <1>1, ShowFacts
<1>3. snapshots'[t] = {}
  BY <1>1, <1>2 DEF TabOwn, NobodyKeepsNothing
<1>4. SnapshotsOwned(t)' /\ TokensOwned(t)' /\ RefreshSetsToken(t)'
  BY <1>2, <1>3 DEF SnapshotsOwned, TokensOwned, RefreshSetsToken
<1>5. NobodyKeepsNothing(t)'
  BY <1>1, <1>2, <1>3 DEF TabOwn, NobodyKeepsNothing, SameOrEnded
<1>6. SignInAlone(t)'
  BY <1>1, <1>2 DEF TabOwn, SignInAlone, SameOrEnded
<1> QED BY <1>4, <1>5, <1>6 DEF TabOwn

\* Freeing a request keeps its tab's requests well typed.
LEMMA FreeFacts ==
  ASSUME TabsTyped, 0 \in 0 .. Issued, NEW t \in Tabs, NEW c \in Calls(t)
  PROVE  LET calls == [call[t] EXCEPT ![c] = Free]
         IN  /\ \A d \in Calls(t) : calls[d] \in CallRecord /\ calls[d].token \in 0 .. Issued
             /\ SameOrEnded(t, calls)
             /\ calls[c] = Free /\ \A d \in Calls(t) \ {c} : calls[d] = call[t][d]
<1>1. Free \in CallRecord /\ Free.token = 0 /\ Free.op = "none" /\ Free.kept = FALSE
  BY DEF Free, CallRecord
<1> QED BY <1>1 DEF TabsTyped, SameOrEnded

\* A refresh is new to the tab only where no sign-in is under way, or the tab has crossed.
LEMMA RefreshFacts ==
  ASSUME OwnInv, NEW t \in Tabs, Refresh(t)
  PROVE  /\ crossed \subseteq crossed'
         /\ \A w \in refreshes' \ refreshes : w.tab = t /\ w.at = "sent"
         /\ refreshes \subseteq refreshes'
         /\ \A x \in Tabs \ crossed' : NoNewRefresh(x)
         /\ \A x \in Tabs : shared'[x] # 0 => \E w \in refreshes' : w.tab = x
<1>1. CASE UNCHANGED refreshState
  BY <1>1 DEF refreshState, NoNewRefresh, OwnInv, TabsTyped
<1>2. CASE StartRefresh(t)
  <2>1. \E n : refreshes' = refreshes \cup
                           {[tab |-> t, n |-> n, sent |-> cookie, at |-> "sent", got |-> 0]}
    BY <1>2 DEF StartRefresh
  <2>5. PICK new : refreshes' = refreshes \cup {new} /\ new.tab = t /\ new.at = "sent"
    <3>1. PICK n : refreshes' = refreshes \cup
                           {[tab |-> t, n |-> n, sent |-> cookie, at |-> "sent", got |-> 0]}
      BY <2>1
    <3> DEFINE new == [tab |-> t, n |-> n, sent |-> cookie, at |-> "sent", got |-> 0]
    <3>2. refreshes' = refreshes \cup {new} /\ new.tab = t /\ new.at = "sent"
      BY <3>1
    <3> HIDE DEF new
    <3> QED BY <3>2
  <2>2. \A x \in Tabs \ {t} : shared'[x] = shared[x]
    BY <1>2 DEF StartRefresh, OwnInv, SessionInv, OneEach
  <2>3. crossed' = crossed \cup {u \in {t} : \E c \in Calls(u) : call[u][c].op = "signIn"}
    BY <1>2 DEF StartRefresh
  <2>4. ASSUME NEW x \in Tabs \ crossed' PROVE NoNewRefresh(x)
    <3>1. CASE x = t
      BY <2>3, <2>4, <3>1 DEF NoNewRefresh
    <3>2. CASE x # t
      BY <2>5, <3>2 DEF NoNewRefresh
    <3> QED BY <3>1, <3>2
  <2> QED BY <2>2, <2>3, <2>4, <2>5 DEF OwnInv, TabsTyped
<1> QED BY <1>1, <1>2 DEF Refresh

LEMMA RestoreKeepsOwn ==
  ASSUME OwnInv, NEW t \in Tabs, Restore(t)
  PROVE  OwnInv'
<1>1. SessionInv' /\ KeepsOwners
  BY SessionStep, OwnersKept DEF OwnInv, Restore, serverState, SessionNext
<1>2. Refresh(t) /\ UNCHANGED <<owner, token, profile, snapshots, call>>
  BY DEF Restore, serverState
<1>3. TabsTyped'
  BY <1>2, RefreshFacts DEF OwnInv, TabsTyped, Issued
<1>4. ASSUME NEW x \in Tabs \ crossed' PROVE TabOwn(x)'
  <2>1. SameTab(x) /\ SameOrEnded(x, call'[x]) /\ NoNewRefresh(x) /\ x \notin crossed
    BY <1>2, <1>4, RefreshFacts DEF SameTab, SameOrEnded
  <2> QED BY <1>1, <2>1, SameTabKeeps
<1> QED BY <1>1, <1>3, <1>4 DEF OwnInv

LEMMA UnauthorizedKeepsOwn ==
  ASSUME OwnInv, NEW t \in Tabs, NEW c \in Calls(t), Unauthorized(t, c)
  PROVE  OwnInv'
<1>1. SessionInv' /\ KeepsOwners
  BY SessionStep, OwnersKept DEF OwnInv, Unauthorized, serverState, SessionNext, Proceed, CallStep
<1>2. /\ Refresh(t) /\ UNCHANGED <<owner, token, profile, snapshots>>
      /\ call' = [call EXCEPT ![t][c].at = "waiting", ![t][c].on = shared'[t]]
  BY DEF Unauthorized, serverState, tabState
<1>3. call[t][c] \in CallRecord /\ shared'[t] \in Nat
  BY <1>1 DEF OwnInv, TabsTyped, SessionInv, OneEach
<1> DEFINE new == [call[t][c] EXCEPT !.at = "waiting", !.on = shared'[t]]
<1>4. /\ new \in CallRecord /\ new.op = call[t][c].op /\ new.token = call[t][c].token
      /\ new.kept = call[t][c].kept
  BY <1>3 DEF CallRecord
<1>5. call' = [call EXCEPT ![t] = [call[t] EXCEPT ![c] = new]]
  BY <1>2 DEF OwnInv, TabsTyped
<1> HIDE DEF new
<1>6. /\ DOMAIN call' = Tabs /\ DOMAIN call'[t] = Calls(t) /\ call'[t][c] = new
      /\ \A d \in Calls(t) \ {c} : call'[t][d] = call[t][d]
      /\ \A x \in Tabs \ {t} : call'[x] = call[x]
  BY <1>5 DEF OwnInv, TabsTyped
<1>7. Issued' = Issued
  BY <1>2 DEF Issued
<1>8. TabsTyped'
  BY <1>2, <1>4, <1>6, <1>7, RefreshFacts DEF OwnInv, TabsTyped
<1>9. ASSUME NEW x \in Tabs \ crossed' PROVE TabOwn(x)'
  <2>1. SameOrEnded(x, call'[x])
    BY <1>4, <1>6 DEF SameOrEnded
  <2>2. SameTab(x) /\ NoNewRefresh(x) /\ x \notin crossed
    BY <1>2, <1>9, RefreshFacts DEF SameTab
  <2> QED BY <1>1, <2>1, <2>2, SameTabKeeps
<1> QED BY <1>1, <1>8, <1>9 DEF OwnInv

\* A page asks with the token of the account that the tab shows.
LEMMA AskKeepsOwn ==
  ASSUME OwnInv, NEW t \in Tabs, NEW c \in Calls(t), NEW op \in {"page", "logout"}, Ask(t, c, op)
  PROVE  OwnInv'
<1>1. SessionInv' /\ KeepsOwners
  BY SessionStep, OwnersKept DEF OwnInv, Ask, serverState, SessionNext
<1>2. /\ profile[t] # Nobody
      /\ UNCHANGED <<owner, token, profile, snapshots, refreshes, shared, crossed>>
      /\ call' = [call EXCEPT ![t][c] = NewCall(op, token[t])]
  BY DEF Ask, serverState, tabState, refreshState
<1>3. token[t] \in Nat /\ token[t] \in 0 .. Issued
  BY DEF OwnInv, TabsTyped, SessionInv, Numbered
<1>4. /\ DOMAIN call' = Tabs /\ DOMAIN call'[t] = Calls(t) /\ call'[t][c] = NewCall(op, token[t])
      /\ \A d \in Calls(t) \ {c} : call'[t][d] = call[t][d]
      /\ \A x \in Tabs \ {t} : call'[x] = call[x]
  BY <1>2 DEF OwnInv, TabsTyped
<1>5. /\ call'[t][c] \in CallRecord /\ call'[t][c].op = op /\ op # "signIn"
      /\ call'[t][c].token = token[t]
  BY <1>3, <1>4 DEF NewCall, CallRecord
<1>6. Issued' = Issued
  BY <1>2 DEF Issued
<1>7. TabsTyped'
  BY <1>2, <1>3, <1>4, <1>5, <1>6 DEF OwnInv, TabsTyped
<1>8. ASSUME t \notin crossed PROVE TabOwn(t)'
  <2>1. TabOwn(t)
    BY <1>8 DEF OwnInv
  <2>2. \A u : OwnAccount(t, u) => OwnAccount(t, u)'
    BY <1>2 DEF OwnAccount
  <2>3. SnapshotsOwned(t)' /\ RefreshSetsToken(t)' /\ NobodyKeepsNothing(t)'
    BY <1>2, <2>1, <2>2 DEF TabOwn, SnapshotsOwned, RefreshSetsToken, NobodyKeepsNothing
  <2>4. TokensOwned(t)'
    BY <1>2, <1>4, <1>5, <2>1, <2>2 DEF TabOwn, TokensOwned
  <2>5. SignInAlone(t)'
    BY <1>2, <1>4, <1>5, <2>1 DEF TabOwn, SignInAlone
  <2> QED BY <2>3, <2>4, <2>5 DEF TabOwn
<1>9. ASSUME NEW x \in Tabs \ crossed, x # t PROVE TabOwn(x)'
  BY <1>1, <1>2, <1>4, <1>9, OthersKeep
<1> QED BY <1>1, <1>2, <1>7, <1>8, <1>9 DEF OwnInv

\* A sign-in takes a tab that shows nobody, and crosses what is under way there.
LEMMA SignInKeepsOwn ==
  ASSUME OwnInv, NEW t \in Tabs, NEW c \in Calls(t), NEW u \in Users, SignIn(t, c, u)
  PROVE  OwnInv'
<1>1. SessionInv' /\ KeepsOwners
  BY SessionStep, OwnersKept DEF OwnInv, SignIn, SessionNext
<1>2. /\ profile[t] = Nobody /\ Issue(u, 0, t)
      /\ token' = [token EXCEPT ![t] = Issued + 1]
      /\ call' = [call EXCEPT ![t][c] = NewCall("signIn", Issued + 1)]
      /\ crossed' = crossed \cup {v \in {t} : \/ \E w \in refreshes : w.tab = v
                                           \/ \E d \in Calls(v) : call[v][d].op = "signIn"}
      /\ UNCHANGED <<profile, snapshots, refreshes, shared>>
  BY DEF SignIn
<1>3. Issued' = Issued + 1 /\ Issued + 1 \in Nat /\ Issued + 1 \in 0 .. Issued'
      /\ \A k \in 0 .. Issued : k \in 0 .. Issued'
  <2>1. Issued' = Issued + 1 /\ Issued \in Nat
    BY <1>2, IssueFacts DEF OwnInv, SessionInv, Numbered
  <2> QED BY <2>1
<1>4. /\ DOMAIN call' = Tabs /\ DOMAIN call'[t] = Calls(t)
      /\ call'[t][c] = NewCall("signIn", Issued + 1)
      /\ \A d \in Calls(t) \ {c} : call'[t][d] = call[t][d]
      /\ \A x \in Tabs \ {t} : call'[x] = call[x]
      /\ DOMAIN token' = Tabs /\ token'[t] = Issued + 1
      /\ \A x \in Tabs \ {t} : token'[x] = token[x]
  BY <1>2 DEF OwnInv, TabsTyped
<1>5. /\ call'[t][c] \in CallRecord /\ call'[t][c].op = "signIn" /\ call'[t][c].token = Issued + 1
  BY <1>3, <1>4 DEF NewCall, CallRecord
<1>6. TabsTyped'
  BY <1>2, <1>3, <1>4, <1>5 DEF OwnInv, TabsTyped
<1>7. ASSUME t \notin crossed' PROVE TabOwn(t)'
  <2>1. /\ TabOwn(t) /\ \A w \in refreshes : w.tab # t
        /\ \A d \in Calls(t) : call[t][d].op # "signIn"
    BY <1>2, <1>7 DEF OwnInv
  <2>2. SnapshotsOwned(t)' /\ TokensOwned(t)' /\ RefreshSetsToken(t)'
    BY <1>2, <2>1 DEF TabOwn, SnapshotsOwned, TokensOwned, RefreshSetsToken, NobodyKeepsNothing
  <2>3. NobodyKeepsNothing(t)'
    BY <1>2, <1>4, <1>5, <2>1 DEF TabOwn, NobodyKeepsNothing
  <2>4. SignInAlone(t)'
    BY <1>2, <1>4, <1>5, <2>1 DEF SignInAlone
  <2> QED BY <2>2, <2>3, <2>4 DEF TabOwn
<1>8. ASSUME NEW x \in Tabs \ crossed', x # t PROVE TabOwn(x)'
  BY <1>1, <1>2, <1>4, <1>8, OthersKeep
<1> QED BY <1>1, <1>6, <1>7, <1>8 DEF OwnInv

LEMMA AnswerKeepsOwn ==
  ASSUME OwnInv, NEW t \in Tabs, NEW c \in Calls(t), Answer(t, c)
  PROVE  OwnInv'
<1>1. SessionInv' /\ KeepsOwners
  BY SessionStep, OwnersKept DEF OwnInv, Answer, serverState, SessionNext, Proceed, CallStep
<1>2. /\ call[t][c].op = "page" /\ call[t][c].token \in DOMAIN owner
      /\ snapshots' = [snapshots EXCEPT ![t] =
                           IF call[t][c].kept THEN @ \cup {owner[call[t][c].token]} ELSE @]
      /\ call' = [call EXCEPT ![t][c] = Free]
      /\ UNCHANGED <<owner, token, profile, refreshes, shared, crossed>>
  BY DEF Answer, Authorized, serverState, refreshState
<1> DEFINE calls == [call[t] EXCEPT ![c] = Free]
<1>3. TabsTyped /\ 0 \in 0 .. Issued /\ DOMAIN owner = 1 .. Issued /\ Issued' = Issued
  BY <1>2 DEF OwnInv, SessionInv, Numbered, Issued
<1>4. /\ \A d \in Calls(t) : calls[d] \in CallRecord /\ calls[d].token \in 0 .. Issued
      /\ SameOrEnded(t, calls) /\ calls[c] = Free
  BY <1>3, FreeFacts
<1>5. DOMAIN calls = Calls(t) /\ call' = [call EXCEPT ![t] = calls]
  BY <1>2, <1>3 DEF TabsTyped
<1> HIDE DEF calls
<1>6. /\ DOMAIN call' = Tabs /\ call'[t] = calls
      /\ \A x \in Tabs \ {t} : call'[x] = call[x] /\ snapshots'[x] = snapshots[x]
  BY <1>2, <1>3, <1>5 DEF TabsTyped
<1>7. TabsTyped'
  BY <1>2, <1>3, <1>4, <1>5, <1>6 DEF TabsTyped
<1>8. ASSUME t \notin crossed PROVE TabOwn(t)'
  <2>1. TabOwn(t)
    BY <1>8 DEF OwnInv
  <2>2. \A u : OwnAccount(t, u) => OwnAccount(t, u)'
    BY <1>2 DEF OwnAccount
  <2>3. call[t][c].kept => profile[t] # Nobody /\ OwnAccount(t, owner[call[t][c].token])
    BY <1>2, <1>3, <2>1 DEF TabOwn, TokensOwned, NobodyKeepsNothing
  <2>4. snapshots'[t] = IF call[t][c].kept THEN snapshots[t] \cup {owner[call[t][c].token]} ELSE snapshots[t]
    BY <1>2, <1>3 DEF TabsTyped
  <2>5. SnapshotsOwned(t)'
    BY <2>1, <2>2, <2>3, <2>4 DEF TabOwn, SnapshotsOwned
  <2>6. TokensOwned(t)'
    BY <1>2, <1>4, <1>6, <2>1, <2>2 DEF TabOwn, TokensOwned, SameOrEnded
  <2>7. RefreshSetsToken(t)'
    BY <1>2, <2>1 DEF TabOwn, RefreshSetsToken
  <2>8. NobodyKeepsNothing(t)'
    BY <1>2, <1>4, <1>6, <2>1, <2>3, <2>4 DEF TabOwn, NobodyKeepsNothing, SameOrEnded
  <2>9. SignInAlone(t)'
    BY <1>2, <1>4, <1>6, <2>1 DEF TabOwn, SignInAlone, SameOrEnded
  <2> QED BY <2>5, <2>6, <2>7, <2>8, <2>9 DEF TabOwn
<1>9. ASSUME NEW x \in Tabs \ crossed, x # t PROVE TabOwn(x)'
  BY <1>1, <1>2, <1>6, <1>9, OthersKeep
<1> QED BY <1>1, <1>2, <1>7, <1>8, <1>9 DEF OwnInv

\* A sign-in that is alone in its tab shows the account of the tab's token.
LEMMA SignedInKeepsOwn ==
  ASSUME OwnInv, NEW t \in Tabs, NEW c \in Calls(t), SignedIn(t, c)
  PROVE  OwnInv'
<1> DEFINE u == owner[call[t][c].token]
<1> DEFINE calls == [call[t] EXCEPT ![c] = Free]
<1>1. SessionInv' /\ KeepsOwners
  BY SessionStep, OwnersKept DEF OwnInv, SignedIn, serverState, SessionNext, Proceed, CallStep
<1>2. /\ call[t][c].op = "signIn" /\ Show(t, u, calls)
      /\ UNCHANGED <<owner, token, refreshes, shared, crossed>>
  BY DEF SignedIn, serverState, refreshState
<1>3. TabsTyped /\ 0 \in 0 .. Issued
  BY DEF OwnInv, SessionInv, Numbered
<1>4. /\ \A d \in Calls(t) : calls[d] \in CallRecord /\ calls[d].token \in 0 .. Issued
      /\ SameOrEnded(t, calls) /\ calls[c] = Free
      /\ \A d \in Calls(t) \ {c} : calls[d] = call[t][d]
  BY <1>3, FreeFacts
<1> HIDE DEF calls
<1>5. /\ profile'[t] = u /\ snapshots'[t] = (IF u = profile[t] THEN snapshots[t] ELSE {})
      /\ \A d \in Calls(t) :
             /\ call'[t][d].op = calls[d].op /\ call'[t][d].token = calls[d].token
             /\ call'[t][d].kept = (calls[d].kept /\ u = profile[t])
      /\ \A x \in Tabs \ {t} : /\ profile'[x] = profile[x] /\ snapshots'[x] = snapshots[x]
                               /\ call'[x] = call[x]
  BY <1>2, <1>3, <1>4, ShowFacts
<1>6. TabsTyped'
  BY <1>1, <1>2, <1>3, <1>4, ShowTyped DEF TabsTyped
<1>7. ASSUME t \notin crossed PROVE TabOwn(t)'
  <2>1. TabOwn(t)
    BY <1>7 DEF OwnInv
  <2>2. /\ profile[t] = Nobody /\ token[t] \in {0, call[t][c].token}
        /\ \A w \in refreshes : w.tab # t
        /\ \A d \in Calls(t) : call[t][d].op = "signIn" => d = c
    BY <1>2, <2>1 DEF TabOwn, SignInAlone
  <2>3. Free.op = "none" /\ Free.kept = FALSE
    BY DEF Free
  <2>4. \A d \in Calls(t) : ~calls[d].kept /\ calls[d].op # "signIn"
    BY <1>4, <2>1, <2>2, <2>3 DEF TabOwn, NobodyKeepsNothing
  <2>5. \A d \in Calls(t) : ~call'[t][d].kept /\ call'[t][d].op # "signIn"
    BY <1>5, <2>4
  <2>6. snapshots'[t] = {}
    BY <1>5, <2>1, <2>2 DEF TabOwn, NobodyKeepsNothing
  <2>7. token'[t] # 0 => owner'[token'[t]] = profile'[t]
    BY <1>2, <1>5, <2>2
  <2>8. SnapshotsOwned(t)' /\ TokensOwned(t)' /\ RefreshSetsToken(t)'
    BY <1>2, <2>2, <2>5, <2>6, <2>7 DEF SnapshotsOwned, TokensOwned, RefreshSetsToken, OwnAccount
  <2>9. NobodyKeepsNothing(t)' /\ SignInAlone(t)'
    BY <2>5, <2>6 DEF NobodyKeepsNothing, SignInAlone
  <2> QED BY <2>8, <2>9 DEF TabOwn
<1>8. ASSUME NEW x \in Tabs \ crossed, x # t PROVE TabOwn(x)'
  BY <1>1, <1>2, <1>5, <1>8, OthersKeep
<1> QED BY <1>1, <1>2, <1>6, <1>7, <1>8 DEF OwnInv

\* Signing out, and a request that fails.
LEMMA EndedKeepsOwn ==
  ASSUME OwnInv, NEW t \in Tabs, NEW c \in Calls(t), SignedOut(t, c) \/ Fail(t, c)
  PROVE  OwnInv'
<1> DEFINE calls == [call[t] EXCEPT ![c] = Free]
<1>1. SessionInv' /\ KeepsOwners
  BY SessionStep, OwnersKept
     DEF OwnInv, SignedOut, Fail, serverState, SessionNext, Proceed, CallStep
<1>2. PICK u : /\ Show(t, u, calls) /\ u \in {Nobody, profile[t]}
               /\ token' = [token EXCEPT ![t] = IF u = profile[t] THEN token'[t] ELSE 0]
               /\ token'[t] = 0 \/ (token'[t] = token[t] /\ u = profile[t])
               /\ UNCHANGED <<owner, refreshes, shared, crossed>>
  <2>1. CASE SignedOut(t, c)
    <3>1. Show(t, Nobody, calls) /\ token' = [token EXCEPT ![t] = 0]
          /\ UNCHANGED <<owner, refreshes, shared, crossed>>
      BY <2>1 DEF SignedOut, refreshState
    <3>2. token'[t] = 0
      BY <3>1 DEF OwnInv, TabsTyped
    <3> QED BY <3>1, <3>2
  <2>2. CASE Fail(t, c) /\ call[t][c].op = "logout"
    <3>1. Show(t, Nobody, calls) /\ token' = [token EXCEPT ![t] = 0]
          /\ UNCHANGED <<owner, refreshes, shared, crossed>>
      BY <2>2 DEF Fail, refreshState, serverState
    <3>2. token'[t] = 0
      BY <3>1 DEF OwnInv, TabsTyped
    <3> QED BY <3>1, <3>2
  <2>3. CASE Fail(t, c) /\ call[t][c].op # "logout"
    <3>1. Show(t, profile[t], calls) /\ token' = [token EXCEPT ![t] = token[t]]
          /\ UNCHANGED <<owner, refreshes, shared, crossed>>
      BY <2>3 DEF Fail, refreshState, serverState, OwnInv, TabsTyped
    <3>2. token'[t] = token[t]
      BY <3>1 DEF OwnInv, TabsTyped
    <3> QED BY <3>1, <3>2
  <2> QED BY <2>1, <2>2, <2>3
<1>3. TabsTyped /\ 0 \in 0 .. Issued
  BY DEF OwnInv, SessionInv, Numbered
<1>4. /\ \A d \in Calls(t) : calls[d] \in CallRecord /\ calls[d].token \in 0 .. Issued
      /\ SameOrEnded(t, calls)
  BY <1>3, FreeFacts
<1> HIDE DEF calls
<1>5. /\ profile'[t] = u /\ snapshots'[t] = (IF u = profile[t] THEN snapshots[t] ELSE {})
      /\ \A d \in Calls(t) :
             /\ call'[t][d].op = calls[d].op /\ call'[t][d].token = calls[d].token
             /\ call'[t][d].kept = (calls[d].kept /\ u = profile[t])
      /\ \A x \in Tabs \ {t} : /\ profile'[x] = profile[x] /\ snapshots'[x] = snapshots[x]
                               /\ call'[x] = call[x]
  BY <1>2, <1>3, <1>4, ShowFacts
<1>6. DOMAIN token' = Tabs /\ \A x \in Tabs \ {t} : token'[x] = token[x]
  BY <1>2, <1>3 DEF TabsTyped
<1>7. TabsTyped'
  BY <1>1, <1>2, <1>3, <1>4, <1>6, ShowTyped DEF TabsTyped
<1>8. ASSUME t \notin crossed PROVE TabOwn(t)'
  <2>1. CASE u = profile[t]
    <3>1. \A d \in Calls(t) : call'[t][d].kept = calls[d].kept
      BY <1>4, <1>5, <2>1 DEF CallRecord
    <3>2. SameOrEnded(t, call'[t])
      BY <1>4, <1>5, <3>1 DEF SameOrEnded
    <3>3. SameTab(t) /\ NoNewRefresh(t)
      BY <1>2, <1>5, <2>1 DEF SameTab, NoNewRefresh
    <3> QED BY <1>1, <1>8, <3>2, <3>3, SameTabKeeps
  <2>2. CASE u # profile[t]
    <3>1. u = Nobody /\ token'[t] = 0
      BY <1>2, <2>2
    <3> QED BY <1>2, <1>4, <1>8, <3>1, NobodyKeeps
  <2> QED BY <2>1, <2>2
<1>9. ASSUME NEW x \in Tabs \ crossed, x # t PROVE TabOwn(x)'
  BY <1>1, <1>2, <1>5, <1>6, <1>9, OthersKeep
<1> QED BY <1>1, <1>2, <1>7, <1>8, <1>9 DEF OwnInv

\* The server's part of a refresh.
LEMMA ServerKeepsOwn ==
  ASSUME OwnInv, NEW w \in refreshes, Rotate(w) \/ Refuse(w)
  PROVE  OwnInv'
<1>1. SessionInv' /\ KeepsOwners
  BY SessionStep, OwnersKept DEF OwnInv, Rotate, Refuse, serverState, SessionNext, Proceed, RefreshStep
<1>2. w \in Refreshes /\ w.at = "sent" /\ UNCHANGED <<token, profile, snapshots, call, shared, crossed>>
  BY DEF Rotate, Refuse, tabState, OwnInv, SessionInv, Numbered
<1>3. PICK new : /\ refreshes' = (refreshes \ {w}) \cup {new}
                 /\ new.tab = w.tab /\ new.at \in {"rotated", "refused"}
  <2>1. CASE Rotate(w)
    <3> DEFINE new == [w EXCEPT !.at = "rotated", !.got = Issued + 1]
    <3>1. refreshes' = (refreshes \ {w}) \cup {new} /\ new.tab = w.tab /\ new.at = "rotated"
      BY <1>2, <2>1 DEF Rotate, Refreshes
    <3> HIDE DEF new
    <3> QED BY <3>1
  <2>2. CASE Refuse(w)
    <3> DEFINE new == [w EXCEPT !.at = "refused"]
    <3>1. refreshes' = (refreshes \ {w}) \cup {new} /\ new.tab = w.tab /\ new.at = "refused"
      BY <1>2, <2>2 DEF Refuse, Refreshes
    <3> HIDE DEF new
    <3> QED BY <3>1
  <2> QED BY <2>1, <2>2
<1>4. \A k \in 0 .. Issued : k \in 0 .. Issued'
  BY <1>1 DEF KeepsOwners, OwnInv, SessionInv, Numbered
<1>5. TabsTyped'
  BY <1>2, <1>3, <1>4 DEF OwnInv, TabsTyped
<1>6. ASSUME NEW x \in Tabs \ crossed PROVE TabOwn(x)'
  <2>1. SameTab(x) /\ SameOrEnded(x, call'[x]) /\ NoNewRefresh(x)
    BY <1>2, <1>3 DEF SameTab, SameOrEnded, NoNewRefresh
  <2> QED BY <1>1, <2>1, SameTabKeeps
<1> QED BY <1>1, <1>2, <1>5, <1>6 DEF OwnInv

\* With its new token the tab takes on the account that it is about to show.
LEMMA TakeTokenKeepsOwn ==
  ASSUME OwnInv, NEW w \in refreshes, TakeToken(w)
  PROVE  OwnInv'
<1> DEFINE t == w.tab
<1> DEFINE new == [w EXCEPT !.at = "profile"]
<1>1. SessionInv' /\ KeepsOwners
  BY SessionStep, OwnersKept DEF OwnInv, TakeToken, serverState, SessionNext, Proceed, RefreshStep
<1>2. /\ w.at = "rotated" /\ token' = [token EXCEPT ![t] = w.got]
      /\ refreshes' = (refreshes \ {w}) \cup {new}
      /\ UNCHANGED <<owner, profile, snapshots, call, shared, crossed>>
  BY DEF TakeToken, serverState
<1>3. w \in Refreshes /\ t \in Tabs /\ w.got # 0 /\ w.got \in 0 .. Issued
  BY <1>2 DEF OwnInv, SessionInv, Numbered, IssuedUnseen, Refreshes
<1>4. new.tab = t /\ new.at = "profile" /\ new.got = w.got
  BY <1>3 DEF Refreshes
<1> HIDE DEF new
<1>5. /\ DOMAIN token' = Tabs /\ token'[t] = w.got
      /\ \A x \in Tabs \ {t} : token'[x] = token[x]
  BY <1>2, <1>3 DEF OwnInv, TabsTyped
<1>6. Issued' = Issued
  BY <1>2 DEF Issued
<1>7. \A x \in Tabs : shared'[x] # 0 => \E v \in refreshes' : v.tab = x
  <2> SUFFICES ASSUME NEW x \in Tabs, shared'[x] # 0 PROVE \E v \in refreshes' : v.tab = x
    OBVIOUS
  <2>1. PICK v \in refreshes : v.tab = x
    BY <1>2 DEF OwnInv, TabsTyped
  <2>2. v \in refreshes' \/ v = w
    BY <1>2
  <2>3. new \in refreshes'
    BY <1>2
  <2> QED BY <1>4, <2>1, <2>2, <2>3
<1>8. TabsTyped'
  BY <1>2, <1>3, <1>4, <1>5, <1>6, <1>7 DEF OwnInv, TabsTyped
<1>9. ASSUME t \notin crossed PROVE TabOwn(t)'
  <2>1. TabOwn(t)
    BY <1>3, <1>9 DEF OwnInv
  <2>2. \A v \in refreshes : v.tab = t => v = w
    BY DEF OwnInv, SessionInv, OneEach
  <2>3. new \in refreshes' /\ \A v \in refreshes' : v.tab = t => v = new
    BY <1>2, <2>2
  <2>4. \A u : OwnAccount(t, u) => OwnAccount(t, u)'
    BY <1>2, <2>2 DEF OwnAccount
  <2>5. OwnAccount(t, owner[w.got])'
    BY <1>2, <1>4, <2>3 DEF OwnAccount
  <2>6. SnapshotsOwned(t)'
    BY <1>2, <2>1, <2>4 DEF TabOwn, SnapshotsOwned
  <2>7. TokensOwned(t)'
    BY <1>2, <1>5, <2>1, <2>4, <2>5 DEF TabOwn, TokensOwned
  <2>8. RefreshSetsToken(t)'
    BY <1>4, <1>5, <2>3 DEF RefreshSetsToken
  <2>9. NobodyKeepsNothing(t)'
    BY <1>2, <2>1 DEF TabOwn, NobodyKeepsNothing
  <2>10. SignInAlone(t)'
    BY <1>2, <2>1 DEF TabOwn, SignInAlone
  <2> QED BY <2>6, <2>7, <2>8, <2>9, <2>10 DEF TabOwn
<1>10. ASSUME NEW x \in Tabs \ crossed, x # t PROVE TabOwn(x)'
  <2>1. \A v \in refreshes \cup refreshes' : v.tab = x => v \in refreshes /\ v \in refreshes'
    BY <1>2, <1>4, <1>10
  <2> QED BY <1>1, <1>2, <1>3, <1>5, <1>10, <2>1, OthersKeep
<1> QED BY <1>1, <1>2, <1>8, <1>9, <1>10 DEF OwnInv

\* A refresh that ends leaves its tab none.
LEMMA EndFacts ==
  ASSUME OwnInv, NEW w \in refreshes, refreshes' = refreshes \ {w},
         shared' = [shared EXCEPT ![w.tab] = IF @ = w.n THEN 0 ELSE @]
  PROVE  /\ w.tab \in Tabs
         /\ \A v \in refreshes' : v \in refreshes /\ v.tab # w.tab
         /\ \A x \in Tabs : shared'[x] # 0 => \E v \in refreshes' : v.tab = x
<1>1. w.tab \in Tabs /\ shared[w.tab] = w.n
  BY DEF OwnInv, SessionInv, OneEach, Numbered, Refreshes
<1>2. \A v \in refreshes' : v \in refreshes /\ v.tab # w.tab
  BY DEF OwnInv, SessionInv, OneEach
<1>3. shared'[w.tab] = 0 /\ \A x \in Tabs \ {w.tab} : shared'[x] = shared[x]
  BY <1>1 DEF OwnInv, SessionInv, OneEach
<1>4. ASSUME NEW x \in Tabs, shared'[x] # 0 PROVE \E v \in refreshes' : v.tab = x
  <2>1. x # w.tab /\ shared[x] # 0
    BY <1>3, <1>4
  <2>2. PICK v \in refreshes : v.tab = x
    BY <2>1 DEF OwnInv, TabsTyped
  <2> QED BY <2>1, <2>2
<1> QED BY <1>1, <1>2, <1>4

LEMMA RefreshFailsKeepsOwn ==
  ASSUME OwnInv, NEW w \in refreshes, RefreshFails(w)
  PROVE  OwnInv'
<1> DEFINE t == w.tab
<1> DEFINE calls == [c \in Calls(t) |-> IF call[t][c].at = "waiting" /\ call[t][c].on = w.n
                                        THEN Free ELSE call[t][c]]
<1>1. SessionInv' /\ KeepsOwners
  BY SessionStep, OwnersKept DEF OwnInv, RefreshFails, EndRefresh, SessionNext, Proceed, RefreshStep
<1>2. /\ token' = [token EXCEPT ![t] = 0] /\ Show(t, Nobody, calls)
      /\ refreshes' = refreshes \ {w}
      /\ shared' = [shared EXCEPT ![w.tab] = IF @ = w.n THEN 0 ELSE @]
      /\ UNCHANGED <<owner, crossed>>
  BY DEF RefreshFails, EndRefresh
<1>3. /\ t \in Tabs /\ \A v \in refreshes' : v \in refreshes /\ v.tab # t
      /\ \A x \in Tabs : shared'[x] # 0 => \E v \in refreshes' : v.tab = x
  BY <1>2, EndFacts
<1>4. TabsTyped /\ 0 \in 0 .. Issued
  BY DEF OwnInv, SessionInv, Numbered
<1>5. Free \in CallRecord /\ Free.token = 0 /\ Free.op = "none" /\ Free.kept = FALSE
  BY DEF Free, CallRecord
<1>6. /\ \A c \in Calls(t) : calls[c] \in CallRecord /\ calls[c].token \in 0 .. Issued
      /\ SameOrEnded(t, calls)
  BY <1>3, <1>4, <1>5 DEF TabsTyped, SameOrEnded
<1> HIDE DEF calls
<1>7. /\ DOMAIN token' = Tabs /\ token'[t] = 0
      /\ \A x \in Tabs \ {t} : token'[x] = token[x]
  BY <1>2, <1>3, <1>4 DEF TabsTyped
<1>8. TabsTyped'
  BY <1>1, <1>2, <1>3, <1>6, <1>7, ShowTyped
<1>9. ASSUME t \notin crossed PROVE TabOwn(t)'
  BY <1>2, <1>3, <1>6, <1>7, <1>9, NobodyKeeps
<1>10. ASSUME NEW x \in Tabs \ crossed, x # t PROVE TabOwn(x)'
  <2>1. profile'[x] = profile[x] /\ snapshots'[x] = snapshots[x] /\ call'[x] = call[x]
    BY <1>2, <1>3, <1>4, <1>6, <1>10, ShowFacts
  <2>2. \A v \in refreshes \cup refreshes' : v.tab = x => v \in refreshes /\ v \in refreshes'
    BY <1>2, <1>10
  <2> QED BY <1>1, <1>3, <1>7, <1>10, <2>1, <2>2, OthersKeep
<1> QED BY <1>1, <1>2, <1>8, <1>9, <1>10 DEF OwnInv

\* A refresh that succeeds shows the account of the token that it gave the tab.
LEMMA RefreshedKeepsOwn ==
  ASSUME OwnInv, NEW w \in refreshes, Refreshed(w)
  PROVE  OwnInv'
<1> DEFINE t == w.tab
<1> DEFINE u == owner[w.got]
<1> DEFINE Again(r) == [r EXCEPT !.at = "sent", !.retried = TRUE, !.on = 0,
                                 !.token = IF r.op = "signIn" THEN @ ELSE token[t]]
<1> DEFINE calls == [c \in Calls(t) |-> IF call[t][c].at = "waiting" /\ call[t][c].on = w.n
                                        THEN Again(call[t][c]) ELSE call[t][c]]
<1>1. SessionInv' /\ KeepsOwners
  BY SessionStep, OwnersKept DEF OwnInv, Refreshed, EndRefresh, SessionNext, Proceed, RefreshStep
<1>2. /\ w.at = "profile" /\ Show(t, u, calls)
      /\ refreshes' = refreshes \ {w}
      /\ shared' = [shared EXCEPT ![w.tab] = IF @ = w.n THEN 0 ELSE @]
      /\ UNCHANGED <<owner, token, crossed>>
  BY DEF Refreshed, EndRefresh
<1>3. /\ t \in Tabs /\ \A v \in refreshes' : v \in refreshes /\ v.tab # t
      /\ \A x \in Tabs : shared'[x] # 0 => \E v \in refreshes' : v.tab = x
  BY <1>2, EndFacts
<1>4. TabsTyped /\ 0 \in 0 .. Issued /\ token[t] \in 0 .. Issued /\ token[t] \in Nat
  BY <1>3 DEF OwnInv, SessionInv, Numbered, TabsTyped
<1>5. ASSUME NEW r \in CallRecord
      PROVE  /\ Again(r) \in CallRecord /\ Again(r).op = r.op /\ Again(r).kept = r.kept
             /\ Again(r).token \in {r.token, token[t]}
  BY <1>4 DEF CallRecord
<1> HIDE DEF Again
<1>6. \A c \in Calls(t) :
        /\ calls[c] \in CallRecord /\ calls[c].token \in 0 .. Issued
        /\ calls[c].op = call[t][c].op /\ calls[c].kept = call[t][c].kept
        /\ calls[c].token \in {call[t][c].token, token[t]}
  BY <1>3, <1>4, <1>5 DEF TabsTyped
<1> HIDE DEF calls
<1>7. /\ profile'[t] = u /\ snapshots'[t] = (IF u = profile[t] THEN snapshots[t] ELSE {})
      /\ \A c \in Calls(t) :
             /\ call'[t][c].op = calls[c].op /\ call'[t][c].token = calls[c].token
             /\ call'[t][c].kept = (calls[c].kept /\ u = profile[t])
      /\ \A x \in Tabs \ {t} : /\ profile'[x] = profile[x] /\ snapshots'[x] = snapshots[x]
                               /\ call'[x] = call[x]
  BY <1>2, <1>3, <1>4, <1>6, ShowFacts
<1>8. TabsTyped'
  BY <1>1, <1>2, <1>3, <1>4, <1>6, ShowTyped DEF TabsTyped
<1>9. ASSUME t \notin crossed PROVE TabOwn(t)'
  <2>1. TabOwn(t)
    BY <1>3, <1>9 DEF OwnInv
  <2>2. u = profile[t] => \A x : OwnAccount(t, x) => x = u
    BY DEF OwnAccount, OwnInv, SessionInv, OneEach
  <2>3. token[t] \in {0, w.got}
    BY <1>2, <2>1 DEF TabOwn, RefreshSetsToken
  <2>4. SnapshotsOwned(t)'
    BY <1>7, <2>1, <2>2 DEF TabOwn, SnapshotsOwned, OwnAccount
  <2>5. TokensOwned(t)'
    <3> SUFFICES ASSUME u # Nobody PROVE TokensOwned(t)'
      BY <1>7 DEF TokensOwned
    <3>1. token[t] # 0 => owner[token[t]] = u
      BY <2>3
    <3>2. ASSUME NEW c \in Calls(t), call'[t][c].kept, call'[t][c].token # 0
          PROVE  owner[call'[t][c].token] = u
      <4>1. call[t][c].kept /\ u = profile[t] /\ call'[t][c].token \in {call[t][c].token, token[t]}
        BY <1>6, <1>7, <3>2
      <4>2. CASE call'[t][c].token = token[t]
        BY <3>1, <3>2, <4>2
      <4>3. CASE call'[t][c].token = call[t][c].token
        BY <2>1, <2>2, <3>2, <4>1, <4>3 DEF TabOwn, TokensOwned
      <4> QED BY <4>1, <4>2, <4>3
    <3> QED BY <1>2, <1>7, <3>1, <3>2 DEF TokensOwned, OwnAccount
  <2>6. RefreshSetsToken(t)'
    BY <1>3 DEF RefreshSetsToken
  <2>7. NobodyKeepsNothing(t)'
    BY <1>6, <1>7, <2>1 DEF TabOwn, NobodyKeepsNothing
  <2>8. SignInAlone(t)'
    BY <1>6, <1>7, <2>1 DEF TabOwn, SignInAlone
  <2> QED BY <2>4, <2>5, <2>6, <2>7, <2>8 DEF TabOwn
<1>10. ASSUME NEW x \in Tabs \ crossed, x # t PROVE TabOwn(x)'
  <2>1. \A v \in refreshes \cup refreshes' : v.tab = x => v \in refreshes /\ v \in refreshes'
    BY <1>2, <1>10
  <2> QED BY <1>1, <1>2, <1>3, <1>7, <1>10, <2>1, OthersKeep
<1> QED BY <1>1, <1>2, <1>8, <1>9, <1>10 DEF OwnInv

LEMMA OwnStep ==
  ASSUME OwnInv, [SessionNext]_sessionVars
  PROVE  OwnInv'
<1>1. ASSUME UNCHANGED <<owner, tabState, refreshState, call>> PROVE OwnInv'
  <2>1. SessionInv' /\ KeepsOwners
    BY <1>1, SessionStep, OwnersKept DEF OwnInv
  <2>2. Issued' = Issued
    BY <1>1 DEF Issued
  <2>3. TabsTyped'
    BY <1>1, <2>2 DEF OwnInv, TabsTyped, tabState, refreshState
  <2>4. ASSUME NEW x \in Tabs \ crossed PROVE TabOwn(x)'
    <3>1. SameTab(x) /\ SameOrEnded(x, call'[x]) /\ NoNewRefresh(x)
      BY <1>1 DEF SameTab, SameOrEnded, NoNewRefresh, tabState, refreshState
    <3> QED BY <2>1, <3>1, SameTabKeeps
  <2> QED BY <1>1, <2>1, <2>3, <2>4 DEF OwnInv, refreshState
<1>2. CASE UNCHANGED sessionVars
  BY <1>1, <1>2 DEF sessionVars, serverState
<1>3. ASSUME NEW k, Expire(k) PROVE OwnInv'
  BY <1>1, <1>3 DEF Expire
<1>4. ASSUME NEW t \in Tabs, NEW c \in Calls(t), CallStep(t, c) PROVE OwnInv'
  BY <1>4, AnswerKeepsOwn, SignedInKeepsOwn, EndedKeepsOwn, UnauthorizedKeepsOwn DEF CallStep
<1>5. ASSUME NEW w \in refreshes, RefreshStep(w) PROVE OwnInv'
  BY <1>5, ServerKeepsOwn, TakeTokenKeepsOwn, RefreshedKeepsOwn, RefreshFailsKeepsOwn DEF RefreshStep
<1> QED
  BY <1>2, <1>3, <1>4, <1>5, RestoreKeepsOwn, AskKeepsOwn, SignInKeepsOwn DEF SessionNext, Proceed

\* A tab that has settled on an account shows answers of that account only, however many tabs
\* sign in and out and refresh, unless two sign-ins, or one and a refresh, crossed there.
THEOREM SnapshotsAlwaysOwn == SessionSpec => []SnapshotsAreOwn
<1>1. OwnInv => SnapshotsAreOwn
  BY DEF OwnInv, TabOwn, SnapshotsOwned, OwnAccount, SnapshotsAreOwn, Settled
<1> QED BY <1>1, OwnInitInv, OwnStep, PTL DEF SessionSpec

\* A settled tab acts in the name of the account that it shows, and so do its requests whose
\* answers a page still awaits, with the same exception.
THEOREM TokensAlwaysOwn == SessionSpec => []TokensAreOwn
<1>1. OwnInv => TokensAreOwn
  <2> SUFFICES ASSUME OwnInv, NEW t \in Tabs \ crossed, Settled(t), profile[t] # Nobody,
                      NEW k, k # 0,
                      k = token[t] \/ \E c \in Calls(t) : call[t][c].kept /\ k = call[t][c].token
               PROVE  owner[k] = profile[t]
    BY DEF TokensAreOwn
  <2>1. TokensOwned(t)
    BY DEF OwnInv, TabOwn
  <2>2. OwnAccount(t, owner[k])
    BY <2>1 DEF TokensOwned
  <2> QED BY <2>2 DEF OwnAccount, Settled
<1> QED BY <1>1, OwnInitInv, OwnStep, PTL DEF SessionSpec

\* Both: what a tab shows and what it does is of the account whose name it shows.
THEOREM TabsAlwaysActAsShown == SessionSpec => []TabsActAsShown
BY SnapshotsAlwaysOwn, TokensAlwaysOwn, PTL DEF TabsActAsShown

-----------------------------------------------------------------------------
(* Nobody waits for a refresh that is over. *)

Awaits(t) ==
    /\ phase[t] = "restoring" => \E w \in refreshes : w.tab = t
    /\ \A c \in Calls(t) : call[t][c].at = "waiting" =>
           \E w \in refreshes : w.tab = t /\ w.n = call[t][c].on

AwaitInv == OwnInv /\ DOMAIN phase = Tabs /\ \A t \in Tabs : Awaits(t)

LEMMA AwaitInitInv == SessionInit => AwaitInv
<1> SUFFICES ASSUME SessionInit PROVE AwaitInv
  OBVIOUS
<1>1. /\ phase = [t \in Tabs |-> "closed"]
      /\ call = [t \in Tabs |-> [c \in Calls(t) |-> Free]] /\ Free.at = "idle"
  BY DEF SessionInit, Free
<1> QED BY <1>1, OwnInitInv DEF AwaitInv, Awaits

\* A tab in which nobody begins to wait, while its refresh goes on.
LEMMA StaysAwaited ==
  ASSUME NEW t \in Tabs, Awaits(t), phase'[t] \in {phase[t], "ready"},
         \A c \in Calls(t) : call'[t][c].at = "waiting" =>
             call[t][c].at = "waiting" /\ call'[t][c].on = call[t][c].on,
         \A w \in refreshes : w.tab = t => \E v \in refreshes' : v.tab = t /\ v.n = w.n
  PROVE  Awaits(t)'
BY DEF Awaits

\* Who needs a refresh has one to wait for.
LEMMA RefreshAwaited ==
  ASSUME OwnInv, NEW t \in Tabs, Refresh(t)
  PROVE  /\ \E w \in refreshes' : w.tab = t /\ w.n = shared'[t]
         /\ refreshes \subseteq refreshes'
<1>1. CASE shared[t] # 0 /\ UNCHANGED refreshState
  BY <1>1 DEF refreshState, OwnInv, TabsTyped, SessionInv, OneEach
<1>2. CASE StartRefresh(t)
  <2>1. \E n : /\ shared' = [shared EXCEPT ![t] = n]
               /\ refreshes' = refreshes \cup
                      {[tab |-> t, n |-> n, sent |-> cookie, at |-> "sent", got |-> 0]}
    BY <1>2 DEF StartRefresh
  <2>2. PICK n : /\ shared' = [shared EXCEPT ![t] = n]
                 /\ refreshes' = refreshes \cup
                        {[tab |-> t, n |-> n, sent |-> cookie, at |-> "sent", got |-> 0]}
    BY <2>1
  <2> DEFINE new == [tab |-> t, n |-> n, sent |-> cookie, at |-> "sent", got |-> 0]
  <2>3. new \in refreshes' /\ new.tab = t /\ new.n = n
    BY <2>2
  <2> HIDE DEF new
  <2>4. shared'[t] = n
    BY <2>2 DEF OwnInv, SessionInv, OneEach
  <2> QED BY <2>2, <2>3, <2>4
<1> QED BY <1>1, <1>2 DEF Refresh

\* A request that is sent, answered or failed waits for nothing.
LEMMA CallKeepsAwaited ==
  ASSUME AwaitInv, NEW t \in Tabs, NEW c \in Calls(t),
         \/ \E op : Ask(t, c, op)
         \/ \E u : SignIn(t, c, u)
         \/ Answer(t, c) \/ SignedIn(t, c) \/ SignedOut(t, c) \/ Fail(t, c)
  PROVE  \A x \in Tabs : Awaits(x)'
<1>1. TabsTyped /\ 0 \in 0 .. Issued
  BY DEF AwaitInv, OwnInv, SessionInv, Numbered
<1>2. Free.at = "idle" /\ \A op, k : NewCall(op, k).at = "sent"
  BY DEF Free, NewCall
<1>3. /\ UNCHANGED <<phase, refreshes>>
      /\ \/ \E new : new.at # "waiting" /\ call' = [call EXCEPT ![t][c] = new]
         \/ \E u : Show(t, u, [call[t] EXCEPT ![c] = Free])
  BY <1>2 DEF Ask, SignIn, Answer, SignedIn, SignedOut, Fail, tabState, refreshState
<1>4. ASSUME NEW x \in Tabs, NEW d \in Calls(x), call'[x][d].at = "waiting"
      PROVE  call[x][d].at = "waiting" /\ call'[x][d].on = call[x][d].on
  <2>1. ASSUME NEW new, new.at # "waiting", call' = [call EXCEPT ![t][c] = new]
        PROVE  call[x][d].at = "waiting" /\ call'[x][d].on = call[x][d].on
    <3>1. CASE x = t /\ d = c
      BY <1>1, <1>4, <2>1, <3>1 DEF TabsTyped
    <3>2. CASE x # t \/ d # c
      <4>1. call'[x][d] = call[x][d]
        BY <1>1, <2>1, <3>2 DEF TabsTyped
      <4> QED BY <1>4, <4>1
    <3> QED BY <3>1, <3>2
  <2>2. ASSUME NEW u, Show(t, u, [call[t] EXCEPT ![c] = Free])
        PROVE  call[x][d].at = "waiting" /\ call'[x][d].on = call[x][d].on
    <3> DEFINE calls == [call[t] EXCEPT ![c] = Free]
    <3>1. /\ \A e \in Calls(t) : calls[e] \in CallRecord
          /\ calls[c] = Free /\ \A e \in Calls(t) \ {c} : calls[e] = call[t][e]
      BY <1>1, FreeFacts
    <3> HIDE DEF calls
    <3>2. Show(t, u, calls)
      BY <2>2 DEF calls
    <3>3. /\ \A e \in Calls(t) : call'[t][e].at = calls[e].at /\ call'[t][e].on = calls[e].on
          /\ \A y \in Tabs \ {t} : call'[y] = call[y]
      BY <1>1, <3>1, <3>2, ShowFacts
    <3> QED BY <1>2, <1>4, <3>1, <3>3
  <2> QED BY <1>3, <2>1, <2>2
<1> QED BY <1>3, <1>4, StaysAwaited DEF AwaitInv

LEMMA WaitingKeepsAwaited ==
  ASSUME AwaitInv, NEW t \in Tabs, Restore(t) \/ \E c \in Calls(t) : Unauthorized(t, c)
  PROVE  \A x \in Tabs : Awaits(x)'
<1>1. OwnInv /\ TabsTyped /\ DOMAIN phase = Tabs
  BY DEF AwaitInv, OwnInv
<1>2. /\ \E w \in refreshes' : w.tab = t /\ w.n = shared'[t]
      /\ refreshes \subseteq refreshes'
  BY <1>1, RefreshAwaited DEF Restore, Unauthorized
<1>3. CASE Restore(t)
  <2>1. phase'[t] = "restoring" /\ call' = call /\ \A x \in Tabs \ {t} : phase'[x] = phase[x]
    BY <1>1, <1>3 DEF Restore
  <2>2. Awaits(t)'
    BY <1>2, <2>1 DEF AwaitInv, Awaits
  <2>3. ASSUME NEW x \in Tabs \ {t} PROVE Awaits(x)'
    BY <1>2, <2>1, StaysAwaited DEF AwaitInv
  <2> QED BY <2>2, <2>3
<1>4. ASSUME NEW c \in Calls(t), Unauthorized(t, c) PROVE \A x \in Tabs : Awaits(x)'
  <2>1. phase' = phase /\ call' = [call EXCEPT ![t][c].at = "waiting", ![t][c].on = shared'[t]]
    BY <1>4 DEF Unauthorized, tabState
  <2>2. /\ call'[t][c].on = shared'[t]
        /\ \A d \in Calls(t) \ {c} : call'[t][d] = call[t][d]
        /\ \A x \in Tabs \ {t} : call'[x] = call[x]
    BY <1>1, <2>1 DEF TabsTyped, CallRecord
  <2>3. ASSUME NEW d \in Calls(t), call'[t][d].at = "waiting"
        PROVE  \E w \in refreshes' : w.tab = t /\ w.n = call'[t][d].on
    <3>1. CASE d = c
      BY <1>2, <2>2, <3>1
    <3>2. CASE d # c
      BY <1>2, <2>2, <2>3, <3>2 DEF AwaitInv, Awaits
    <3> QED BY <3>1, <3>2
  <2>5. Awaits(t)'
    BY <1>2, <2>1, <2>3 DEF AwaitInv, Awaits
  <2>4. ASSUME NEW x \in Tabs \ {t} PROVE Awaits(x)'
    BY <1>2, <2>1, <2>2, StaysAwaited DEF AwaitInv
  <2> QED BY <2>4, <2>5
<1> QED BY <1>3, <1>4

\* A refresh that goes on stays the one its tab waits for.
LEMMA ServerKeepsAwaited ==
  ASSUME AwaitInv, NEW w \in refreshes, Rotate(w) \/ Refuse(w) \/ TakeToken(w)
  PROVE  \A x \in Tabs : Awaits(x)'
<1>1. w \in Refreshes
  BY DEF AwaitInv, OwnInv, SessionInv, Numbered
<1>2. PICK new : /\ refreshes' = (refreshes \ {w}) \cup {new}
                 /\ new.tab = w.tab /\ new.n = w.n
                 /\ UNCHANGED <<phase, call>>
  <2>1. CASE Rotate(w)
    <3> DEFINE new == [w EXCEPT !.at = "rotated", !.got = Issued + 1]
    <3>1. refreshes' = (refreshes \ {w}) \cup {new} /\ UNCHANGED <<phase, call>>
      BY <2>1 DEF Rotate, tabState
    <3>2. new.tab = w.tab /\ new.n = w.n
      BY <1>1 DEF Refreshes
    <3> HIDE DEF new
    <3> QED BY <3>1, <3>2
  <2>2. CASE Refuse(w) \/ TakeToken(w)
    <3>1. PICK at \in {"refused", "profile"} :
              /\ refreshes' = (refreshes \ {w}) \cup {[w EXCEPT !.at = at]}
              /\ UNCHANGED <<phase, call>>
      BY <2>2 DEF Refuse, TakeToken, tabState
    <3> DEFINE new == [w EXCEPT !.at = at]
    <3>2. refreshes' = (refreshes \ {w}) \cup {new} /\ new.tab = w.tab /\ new.n = w.n
      BY <1>1, <3>1 DEF Refreshes
    <3> HIDE DEF new
    <3> QED BY <3>1, <3>2
  <2> QED BY <2>1, <2>2
<1>4. new \in refreshes'
  BY <1>2
<1>5. \A v \in refreshes : v = w \/ v \in refreshes'
  BY <1>2
<1>6. \A v \in refreshes : \E x \in refreshes' : x.tab = v.tab /\ x.n = v.n
  BY <1>2, <1>4, <1>5
<1> QED BY <1>2, <1>6, StaysAwaited DEF AwaitInv

\* A refresh that ends was the only one of its tab, and everybody who waited there goes on.
LEMMA EndKeepsAwaited ==
  ASSUME AwaitInv, NEW w \in refreshes, NEW u, NEW calls, Show(w.tab, u, calls),
         refreshes' = refreshes \ {w}, phase' = [phase EXCEPT ![w.tab] = "ready"],
         \A c \in Calls(w.tab) : calls[c] \in CallRecord,
         \A c \in Calls(w.tab) : calls[c].at = "waiting" =>
             calls[c] = call[w.tab][c] /\ call[w.tab][c].on # w.n
  PROVE  \A x \in Tabs : Awaits(x)'
<1> DEFINE t == w.tab
<1>1. OwnInv /\ TabsTyped /\ DOMAIN phase = Tabs /\ t \in Tabs
  BY DEF AwaitInv, OwnInv, SessionInv, Numbered, Refreshes
<1>3. /\ \A c \in Calls(t) : call'[t][c].at = calls[c].at
      /\ \A x \in Tabs \ {t} : call'[x] = call[x]
  BY <1>1, ShowFacts
<1>4. phase'[t] = "ready" /\ \A x \in Tabs \ {t} : phase'[x] = phase[x]
  BY <1>1
<1>5. Awaits(t)'
  <2>1. \A v \in refreshes : v.tab = t => v = w
    BY <1>1 DEF OwnInv, SessionInv, OneEach
  <2>2. \A c \in Calls(t) : call'[t][c].at # "waiting"
    BY <1>1, <1>3, <2>1 DEF AwaitInv, Awaits
  <2> QED BY <1>4, <2>2 DEF Awaits
<1>6. ASSUME NEW x \in Tabs \ {t} PROVE Awaits(x)'
  BY <1>3, <1>4, StaysAwaited DEF AwaitInv
<1> QED BY <1>5, <1>6

LEMMA RefreshedKeepsAwaited ==
  ASSUME AwaitInv, NEW w \in refreshes, Refreshed(w)
  PROVE  \A x \in Tabs : Awaits(x)'
<1> DEFINE t == w.tab
<1> DEFINE u == owner[w.got]
<1> DEFINE Again(r) == [r EXCEPT !.at = "sent", !.retried = TRUE, !.on = 0,
                                 !.token = IF r.op = "signIn" THEN @ ELSE token[t]]
<1> DEFINE calls == [c \in Calls(t) |-> IF call[t][c].at = "waiting" /\ call[t][c].on = w.n
                                        THEN Again(call[t][c]) ELSE call[t][c]]
<1>1. /\ w.at = "profile" /\ Show(t, u, calls)
      /\ refreshes' = refreshes \ {w}
      /\ phase' = [phase EXCEPT ![w.tab] = "ready"]
      /\ UNCHANGED token
  BY DEF Refreshed, EndRefresh
<1>2. TabsTyped /\ t \in Tabs /\ token[t] \in Nat
  BY DEF AwaitInv, OwnInv, SessionInv, Numbered, Refreshes, TabsTyped
<1>3. ASSUME NEW r \in CallRecord PROVE Again(r) \in CallRecord /\ Again(r).at = "sent"
  BY <1>2 DEF CallRecord
<1> HIDE DEF Again
<1>4. \A c \in Calls(t) : /\ calls[c] \in CallRecord
                          /\ calls[c].at = "waiting" => calls[c] = call[t][c] /\ call[t][c].on # w.n
  BY <1>2, <1>3 DEF TabsTyped
<1> HIDE DEF calls, u
<1> QED BY <1>1, <1>4, EndKeepsAwaited

LEMMA RefreshFailsKeepsAwaited ==
  ASSUME AwaitInv, NEW w \in refreshes, RefreshFails(w)
  PROVE  \A x \in Tabs : Awaits(x)'
<1> DEFINE t == w.tab
<1> DEFINE calls == [c \in Calls(t) |-> IF call[t][c].at = "waiting" /\ call[t][c].on = w.n
                                        THEN Free ELSE call[t][c]]
<1>1. /\ Show(t, Nobody, calls) /\ refreshes' = refreshes \ {w}
      /\ phase' = [phase EXCEPT ![t] = "ready"]
  BY DEF RefreshFails, EndRefresh
<1>2. TabsTyped /\ t \in Tabs
  BY DEF AwaitInv, OwnInv, SessionInv, Numbered, Refreshes
<1>3. Free \in CallRecord /\ Free.at = "idle"
  BY DEF Free, CallRecord
<1>4. \A c \in Calls(t) : /\ calls[c] \in CallRecord
                          /\ calls[c].at = "waiting" => calls[c] = call[t][c] /\ call[t][c].on # w.n
  BY <1>2, <1>3 DEF TabsTyped
<1> HIDE DEF calls
<1> QED BY <1>1, <1>4, EndKeepsAwaited

LEMMA AwaitStep ==
  ASSUME AwaitInv, [SessionNext]_sessionVars
  PROVE  AwaitInv'
<1>1. OwnInv'
  BY OwnStep DEF AwaitInv
<1>2. DOMAIN phase' = Tabs
  BY DEF AwaitInv, SessionNext, Proceed, CallStep, RefreshStep, sessionVars, tabState, Restore, Ask, SignIn,
         Expire, Answer, SignedIn, SignedOut, Unauthorized, Fail, Rotate, Refuse, TakeToken, Refreshed,
         RefreshFails, EndRefresh
<1>3. CASE UNCHANGED <<phase, call, refreshes>>
  BY <1>1, <1>2, <1>3, StaysAwaited DEF AwaitInv
<1>4. CASE UNCHANGED sessionVars \/ \E k \in DOMAIN owner : Expire(k)
  BY <1>3, <1>4 DEF sessionVars, tabState, refreshState, Expire
<1>5. CASE \E t \in Tabs : Restore(t)
  BY <1>1, <1>2, <1>5, WaitingKeepsAwaited DEF AwaitInv
<1>6. CASE \E t \in Tabs : \E c \in Calls(t), op \in {"page", "logout"} : Ask(t, c, op)
  BY <1>1, <1>2, <1>6, CallKeepsAwaited DEF AwaitInv
<1>7. CASE \E t \in Tabs : \E c \in Calls(t), u \in Users : SignIn(t, c, u)
  BY <1>1, <1>2, <1>7, CallKeepsAwaited DEF AwaitInv
<1>8. CASE \E t \in Tabs : \E c \in Calls(t) : CallStep(t, c)
  BY <1>1, <1>2, <1>8, CallKeepsAwaited, WaitingKeepsAwaited DEF AwaitInv, CallStep
<1>9. CASE \E w \in refreshes : RefreshStep(w)
  BY <1>1, <1>2, <1>9, ServerKeepsAwaited, RefreshedKeepsAwaited, RefreshFailsKeepsAwaited
     DEF AwaitInv, RefreshStep
<1> QED BY <1>4, <1>5, <1>6, <1>7, <1>8, <1>9 DEF SessionNext, Proceed

\* Every request that waits for a refresh, and every tab that is being restored, waits for one
\* that is still under way, for any number of tabs and requests: what keeps a failed or refused
\* refresh from leaving somebody waiting for ever.
THEOREM WaitersAlwaysAwaited == SessionSpec => []WaitersAreAwaited
<1>1. AwaitInv => WaitersAreAwaited
  BY DEF AwaitInv, Awaits, WaitersAreAwaited
<1> QED BY <1>1, AwaitInitInv, AwaitStep, PTL DEF SessionSpec

-----------------------------------------------------------------------------
(* The server's sessions implement sign-ins. *)

\* Every session stems from a login, whose session stems from itself.
Rooted ==
    /\ origin \in [1 .. Issued -> 1 .. Issued] /\ Issued <= MaxSessions
    /\ \A k \in 1 .. Issued : origin[origin[k]] = origin[k]

TracedInv == SessionInv /\ Rooted

SignInTable == [c \in 1 .. MaxSessions |-> SignInOf(c)]

LEMMA TracedInitInv == TracedInit => TracedInv /\ SignInsHeld!SignInsInit
<1> SUFFICES ASSUME TracedInit PROVE TracedInv /\ SignInsHeld!SignInsInit
  OBVIOUS
<1>1. SessionInv /\ DOMAIN owner = {1} /\ fate[1] = "live" /\ DOMAIN origin = {1} /\ origin[1] = 1
  BY SessionInitInv DEF TracedInit, SessionInit
<1>2. Issued = 1
  BY <1>1, FS_Singleton DEF Issued
<1>3. 1 .. 1 = {1} /\ 1 \in 1 .. MaxSessions
  BY BrowserSessionAssumption
<1>4. origin = [k \in 1 .. 1 |-> 1] /\ 1 <= MaxSessions
  BY <1>3, BrowserSessionAssumption DEF TracedInit
<1>5. TracedInv
  BY <1>1, <1>2, <1>4 DEF TracedInv, Rooted
<1>6. \A c \in 1 .. MaxSessions : SignInOf(c) = IF c = 1 THEN "live" ELSE "none"
  BY <1>1 DEF SignInOf, Live
<1>7. SignInTable = [c \in 1 .. MaxSessions |-> IF c = 1 THEN "live" ELSE "none"]
  BY <1>6 DEF SignInTable
<1>8. SignInsHeld!SignInsInit
  BY <1>3, <1>7 DEF SignInTable, SignInsHeld!SignInsInit
<1> QED BY <1>5, <1>8

\* A step that issues no session.
LEMMA NothingIssued ==
  ASSUME TracedInv, Trace, UNCHANGED owner
  PROVE  UNCHANGED <<origin, Issued>> /\ Rooted'
<1>1. Issued' = Issued
  BY DEF Issued
<1>2. DOMAIN owner' = 1 .. Issued /\ origin \in [1 .. Issued -> 1 .. Issued]
  BY DEF TracedInv, SessionInv, Numbered, Rooted
<1>3. origin' = [k \in 1 .. Issued |-> origin[k]]
  BY <1>2 DEF Trace
<1>4. origin' = origin
  BY <1>2, <1>3
<1> QED BY <1>1, <1>4 DEF TracedInv, Rooted

\* Where no session is issued and none becomes live again, sign-ins end or stay as they are.
LEMMA NothingRevived ==
  ASSUME TracedInv, UNCHANGED origin, \A k \in 1 .. Issued : fate'[k] = "live" => fate[k] = "live"
  PROVE  SignInsHeld!SignInsNext
<1> DEFINE ended == {c \in 1 .. MaxSessions : SignInOf(c) = "live" /\ SignInOf(c)' = "ended"}
<1>1. DOMAIN origin = 1 .. Issued
  BY DEF TracedInv, Rooted
<1>2. \A c : Live(c)' => Live(c)
  BY <1>1 DEF Live
<1>3. \A c \in 1 .. MaxSessions : SignInOf(c)' = IF c \in ended THEN "ended" ELSE SignInOf(c)
  BY <1>2 DEF SignInOf
<1>4. /\ \A c \in ended : c \in 1 .. MaxSessions /\ SignInOf(c) = "live"
      /\ ended \in SUBSET (1 .. MaxSessions)
  OBVIOUS
<1> HIDE DEF ended
<1>5. SignInTable' = [c \in 1 .. MaxSessions |-> IF c \in ended THEN "ended" ELSE SignInTable[c]]
  BY <1>3 DEF SignInTable
<1>6. \A c \in ended : SignInTable[c] = "live"
  BY <1>4 DEF SignInTable
<1>7. SignInsHeld!End(ended)
  BY <1>5, <1>6 DEF SignInTable, SignInsHeld!End
<1> QED BY <1>4, <1>7 DEF SignInsHeld!SignInsNext

\* What a step that issues a session does to the origins.
LEMMA TraceFacts ==
  ASSUME TracedInv, NEW u, NEW spent, NEW by, Issue(u, spent, by), Trace, NEW o \in 1 .. Issued + 1,
         o = IF \E w \in refreshes' : w.got = Issued + 1
             THEN origin[(CHOOSE w \in refreshes' : w.got = Issued + 1).sent] ELSE Issued + 1,
         o = Issued + 1 \/ origin[o] = o
  PROVE  /\ Issued' = Issued + 1 /\ Issued + 1 \in 1 .. MaxSessions
         /\ DOMAIN origin = 1 .. Issued /\ DOMAIN origin' = 1 .. Issued + 1
         /\ origin'[Issued + 1] = o /\ \A k \in 1 .. Issued : origin'[k] = origin[k]
         /\ Rooted'
<1>1. /\ Issued \in Nat /\ Issued' = Issued + 1 /\ Issued < MaxSessions
      /\ DOMAIN owner' = 1 .. Issued + 1 /\ DOMAIN origin = 1 .. Issued
      /\ origin \in [1 .. Issued -> 1 .. Issued]
  <2>1. Issued' = Issued + 1 /\ DOMAIN owner' = 1 .. Issued + 1
    BY IssueFacts DEF TracedInv, SessionInv
  <2>2. Issued < MaxSessions
    BY DEF Issue
  <2> QED BY <2>1, <2>2 DEF TracedInv, SessionInv, Numbered, Rooted
<1>2. DOMAIN origin' = 1 .. Issued + 1 /\ \A k \in 1 .. Issued + 1 : origin'[k] =
          IF k \in 1 .. Issued THEN origin[k]
          ELSE IF \E w \in refreshes' : w.got = k
               THEN origin[(CHOOSE w \in refreshes' : w.got = k).sent] ELSE k
  BY <1>1 DEF Trace
<1>3. /\ Issued + 1 \in 1 .. Issued + 1 /\ Issued + 1 \notin 1 .. Issued
      /\ \A k \in 1 .. Issued + 1 : k \in 1 .. Issued \/ k = Issued + 1
      /\ \A k \in 1 .. Issued : k \in 1 .. Issued + 1
  BY <1>1
<1>4. origin'[Issued + 1] = o
  BY <1>2, <1>3
<1>5. \A k \in 1 .. Issued : origin'[k] = origin[k]
  BY <1>2, <1>3
<1>6. \A k \in 1 .. Issued + 1 : origin'[k] \in 1 .. Issued + 1 /\ origin'[origin'[k]] = origin'[k]
  <2>1. ASSUME NEW k \in 1 .. Issued
        PROVE  origin'[k] \in 1 .. Issued + 1 /\ origin'[origin'[k]] = origin'[k]
    BY <1>1, <1>3, <1>5 DEF TracedInv, Rooted
  <2>2. origin'[o] = o
    BY <1>3, <1>4, <1>5
  <2> QED BY <1>3, <1>4, <2>1, <2>2
<1>7. origin' \in [1 .. Issued + 1 -> 1 .. Issued + 1]
  <2>1. origin' = [k \in 1 .. Issued + 1 |-> origin'[k]]
    BY <1>1 DEF Trace
  <2> QED BY <1>6, <2>1
<1>8. Issued + 1 \in 1 .. MaxSessions /\ Issued' <= MaxSessions
  BY <1>1, BrowserSessionAssumption
<1>9. Rooted'
  BY <1>1, <1>6, <1>7, <1>8 DEF Rooted
<1> QED BY <1>1, <1>2, <1>4, <1>5, <1>8, <1>9

LEMMA SignInBegins ==
  ASSUME TracedInv, NEW t \in Tabs, NEW c, NEW u, SignIn(t, c, u), Trace
  PROVE  Rooted' /\ SignInsHeld!SignInsNext
<1> PICK n : n = Issued + 1
  OBVIOUS
<1>1. Issue(u, 0, t) /\ UNCHANGED refreshes
  BY DEF SignIn
<1>2. \A w \in refreshes' : w.got # Issued + 1
  BY <1>1 DEF TracedInv, SessionInv, Numbered, Refreshes
<1>3. Issued + 1 \in 1 .. Issued + 1 /\ Issued + 1 \notin 1 .. Issued
  BY DEF TracedInv, SessionInv, Numbered
<1>4. /\ Issued' = n /\ n \in 1 .. MaxSessions
      /\ DOMAIN origin = 1 .. Issued /\ DOMAIN origin' = 1 .. Issued + 1
      /\ origin'[n] = n /\ \A k \in 1 .. Issued : origin'[k] = origin[k]
      /\ Rooted'
  BY <1>1, <1>2, <1>3, TraceFacts
<1>5. fate'[n] = "live" /\ \A k \in 1 .. Issued : fate'[k] = fate[k]
  <2>1. fate'[n] = "live" /\ \A k \in 1 .. Issued : fate'[k] = IF k = 0 THEN t ELSE fate[k]
    BY <1>1, IssueFacts DEF TracedInv, SessionInv
  <2>2. \A k \in 1 .. Issued : k # 0
    BY DEF TracedInv, SessionInv, Numbered
  <2> QED BY <2>1, <2>2
<1>6. /\ n \in 1 .. Issued + 1 /\ n \notin 1 .. Issued
      /\ \A k \in 1 .. Issued + 1 : k \in 1 .. Issued \/ k = n
      /\ \A k \in 1 .. Issued : k \in 1 .. Issued + 1
  BY DEF TracedInv, SessionInv, Numbered
<1>7. SignInOf(n) = "none" /\ SignInOf(n)' = "live"
  <2>1. Live(n)'
    BY <1>4, <1>5, <1>6 DEF Live
  <2> QED BY <1>4, <1>6, <2>1 DEF SignInOf
<1>8. ASSUME NEW d \in 1 .. MaxSessions, d # n PROVE SignInOf(d)' = SignInOf(d)
  <2>1. Live(d)' <=> Live(d)
    BY <1>4, <1>5, <1>6, <1>8 DEF Live
  <2> QED BY <1>4, <1>6, <1>8, <2>1 DEF SignInOf
<1>9. SignInTable' = [SignInTable EXCEPT ![n] = "live"] /\ SignInTable[n] = "none"
  BY <1>4, <1>7, <1>8 DEF SignInTable
<1>10. SignInsHeld!Login(n)
  BY <1>9 DEF SignInTable, SignInsHeld!Login
<1> QED BY <1>4, <1>10 DEF SignInsHeld!SignInsNext

\* A rotation needs a live session, and what it issues stems from the same login.
LEMMA RotationGoesOn ==
  ASSUME TracedInv, NEW w \in refreshes, Rotate(w), Trace
  PROVE  Rooted' /\ SignInTable' = SignInTable
<1> PICK n : n = Issued + 1
  OBVIOUS
<1> DEFINE new == [w EXCEPT !.at = "rotated", !.got = n]
<1>1. /\ w.sent # 0 /\ fate[w.sent] = "live" /\ Issue(owner[w.sent], w.sent, w.tab)
      /\ refreshes' = (refreshes \ {w}) \cup {new}
  BY DEF Rotate
<1>2. w \in Refreshes /\ w.tab \in Tabs /\ w.sent \in 1 .. Issued /\ n \in Nat /\ Issued \in Nat
  BY <1>1 DEF TracedInv, SessionInv, Numbered, Refreshes
<1>3. new.got = n /\ new.sent = w.sent
  BY <1>2 DEF Refreshes
<1> HIDE DEF new
<1>4. \A v \in refreshes' : v.got = n => v = new
  BY <1>1 DEF TracedInv, SessionInv, Numbered, Refreshes
<1>5. (CHOOSE v \in refreshes' : v.got = n) = new /\ \E v \in refreshes' : v.got = n
  BY <1>1, <1>3, <1>4
<1> PICK o : o = origin[w.sent]
  OBVIOUS
<1>6. o \in 1 .. Issued /\ o \in 1 .. Issued + 1 /\ origin[o] = o
  <2>1. o \in 1 .. Issued /\ origin[o] = o
    BY <1>2 DEF TracedInv, Rooted
  <2> QED BY <1>2, <2>1
<1>7. o = IF \E v \in refreshes' : v.got = Issued + 1
          THEN origin[(CHOOSE v \in refreshes' : v.got = Issued + 1).sent] ELSE Issued + 1
  BY <1>3, <1>5
<1>8. /\ DOMAIN origin = 1 .. Issued /\ DOMAIN origin' = 1 .. Issued + 1
      /\ origin'[n] = o /\ \A k \in 1 .. Issued : origin'[k] = origin[k]
      /\ Rooted'
  BY <1>1, <1>6, <1>7, TraceFacts
<1>9. fate'[n] = "live" /\ \A k \in 1 .. Issued : fate'[k] = IF k = w.sent THEN w.tab ELSE fate[k]
  BY <1>1, IssueFacts DEF TracedInv, SessionInv
<1>10. /\ n \in 1 .. Issued + 1 /\ n \notin 1 .. Issued
       /\ \A k \in 1 .. Issued + 1 : k \in 1 .. Issued \/ k = n
       /\ \A k \in 1 .. Issued : k \in 1 .. Issued + 1
  BY <1>2
<1>11. Live(o) /\ Live(o)'
  BY <1>1, <1>2, <1>8, <1>9, <1>10 DEF Live
<1>12. ASSUME NEW c \in 1 .. MaxSessions, c # o PROVE Live(c)' <=> Live(c)
  BY <1>2, <1>8, <1>9, <1>10, <1>12 DEF Live
<1>13. \A c \in 1 .. MaxSessions : SignInOf(c)' = SignInOf(c)
  <2> SUFFICES ASSUME NEW c \in 1 .. MaxSessions PROVE SignInOf(c)' = SignInOf(c)
    OBVIOUS
  <2>1. Live(c)' <=> Live(c)
    BY <1>11, <1>12
  <2>2. (c \in DOMAIN origin' /\ origin'[c] = c) <=> (c \in DOMAIN origin /\ origin[c] = c)
    BY <1>6, <1>8, <1>10
  <2> QED BY <2>1, <2>2 DEF SignInOf
<1> QED BY <1>8, <1>13 DEF SignInTable

LEMMA TracedStep ==
  ASSUME TracedInv, [TracedNext]_tracedVars
  PROVE  TracedInv' /\ [SignInsHeld!SignInsNext]_SignInTable
<1>1. SessionInv'
  BY SessionStep DEF TracedInv, TracedNext, tracedVars
<1>2. CASE UNCHANGED tracedVars
  <2>1. UNCHANGED <<owner, fate, origin>>
    BY <1>2 DEF tracedVars, sessionVars, serverState
  <2>2. Issued' = Issued
    BY <2>1 DEF Issued
  <2>3. SignInTable' = SignInTable
    BY <2>1 DEF SignInTable, SignInOf, Live
  <2> QED BY <1>1, <2>1, <2>2, <2>3 DEF TracedInv, Rooted
<1>3. ASSUME Trace, NEW t \in Tabs, NEW c, NEW u, SignIn(t, c, u)
      PROVE  TracedInv' /\ SignInsHeld!SignInsNext
  BY <1>1, <1>3, SignInBegins DEF TracedInv
<1>4. ASSUME Trace, NEW w \in refreshes, Rotate(w) PROVE TracedInv' /\ SignInTable' = SignInTable
  BY <1>1, <1>4, RotationGoesOn DEF TracedInv
<1>5. ASSUME Trace, UNCHANGED owner, \A k \in 1 .. Issued : fate'[k] = "live" => fate[k] = "live"
      PROVE  TracedInv' /\ SignInsHeld!SignInsNext
  BY <1>1, <1>5, NothingIssued, NothingRevived DEF TracedInv
<1>6. ASSUME NEW t \in Tabs, NEW c \in Calls(t), SignedOut(t, c)
      PROVE  UNCHANGED owner /\ \A k \in 1 .. Issued : fate'[k] = "live" => fate[k] = "live"
  <2>1. DOMAIN fate = 1 .. Issued
    BY DEF TracedInv, SessionInv, Numbered
  <2> QED BY <1>6, <2>1 DEF SignedOut
<1>7. ASSUME NEW w \in refreshes, RefreshFails(w)
      PROVE  UNCHANGED owner /\ \A k \in 1 .. Issued : fate'[k] = "live" => fate[k] = "live"
  <2>1. DOMAIN fate = 1 .. Issued /\ UNCHANGED owner
        /\ (fate' = fate \/ fate' = [fate EXCEPT ![w.sent] = "lost"])
    BY <1>7 DEF TracedInv, SessionInv, Numbered, RefreshFails, EndRefresh
  <2> QED BY <2>1
<1>8. ASSUME NEW w \in refreshes, Refuse(w) \/ TakeToken(w) \/ Refreshed(w)
      PROVE  UNCHANGED <<owner, fate>>
  BY <1>8 DEF Refuse, TakeToken, Refreshed, EndRefresh, serverState
<1>9. ASSUME NEW t \in Tabs, NEW c \in Calls(t),
             \/ Restore(t) \/ Unauthorized(t, c) \/ \E op : Ask(t, c, op)
             \/ Answer(t, c) \/ SignedIn(t, c) \/ Fail(t, c)
      PROVE  UNCHANGED <<owner, fate>>
  BY <1>9 DEF Restore, Unauthorized, Ask, Answer, SignedIn, Fail, serverState
<1>10. ASSUME NEW k, Expire(k) PROVE UNCHANGED <<owner, fate>>
  BY <1>10 DEF Expire
<1>11. ASSUME NEW t \in Tabs, Restore(t) PROVE UNCHANGED <<owner, fate>>
  BY <1>11 DEF Restore, serverState
<1>12. CASE Trace /\ SessionNext
  BY <1>3, <1>4, <1>5, <1>6, <1>7, <1>8, <1>9, <1>10, <1>11, <1>12
     DEF SessionNext, Proceed, CallStep, RefreshStep
<1> QED BY <1>2, <1>12 DEF TracedNext

\* However many tabs spend the cookie, refresh, sign in and out and lose answers, the sessions
\* that the browser's model has of the server are sign-ins as SignIns promises them.
THEOREM BrowserKeepsSignIns == TracedSpec => BrowserSignInsSpec
<1>1. TracedInit => TracedInv /\ SignInsHeld!SignInsInit
  BY TracedInitInv
<1>2. TracedInv /\ [TracedNext]_tracedVars => TracedInv' /\ [SignInsHeld!SignInsNext]_SignInTable
  BY TracedStep
<1> QED BY <1>1, <1>2, PTL DEF TracedSpec, BrowserSignInsSpec, SignInsHeld!SignInsSpec, SignInTable
=============================================================================
