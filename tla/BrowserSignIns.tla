---------------------------- MODULE BrowserSignIns ----------------------------
(***************************************************************************)
(* The server's sessions as BrowserSession has them, traced back to the    *)
(* logins they stem from.  However many tabs spend the cookie, they        *)
(* implement SignIns, which the handlers of the server implement too       *)
(* (AuthSessions): both modules mean the same sign-ins.                    *)
(***************************************************************************)
EXTENDS BrowserSession

VARIABLE origin     \* origin[k]: the session that the login of session k began with

tracedVars == <<sessionVars, origin>>

\* A history variable: what a refresh got stems from what it sent; a login begins anew.
Trace ==
    origin' = [k \in DOMAIN owner' |->
                  IF k \in DOMAIN origin THEN origin[k]
                  ELSE IF \E w \in refreshes' : w.got = k
                       THEN origin[(CHOOSE w \in refreshes' : w.got = k).sent]
                       ELSE k]

TracedInit == SessionInit /\ origin = [k \in {1} |-> 1]
TracedNext == SessionNext /\ Trace

TracedSpec == TracedInit /\ [][TracedNext]_tracedVars

-----------------------------------------------------------------------------
Live(c) == \E k \in DOMAIN origin : origin[k] = c /\ fate[k] = "live"

SignInOf(c) ==
    IF c \notin DOMAIN origin \/ origin[c] # c THEN "none" ELSE IF Live(c) THEN "live" ELSE "ended"

SignInsHeld == INSTANCE SignIns WITH
    SignInId <- 1 .. MaxSessions, signIn <- [c \in 1 .. MaxSessions |-> SignInOf(c)]

\* A sign-in begins at a login and, once its session is signed out, stays ended: no refresh
\* of another tab, sent before with the same cookie, brings it back.
BrowserSignInsSpec == SignInsHeld!SignInsSpec
=============================================================================
