------------------------------- MODULE SignIns -------------------------------
(***************************************************************************)
(* What the refresh sessions of one account promise: a sign-in is live     *)
(* from a login until a logout, an expiry or a password change ends it,    *)
(* and one that has ended stays ended.                                     *)
(***************************************************************************)
CONSTANT SignInId

VARIABLE signIn     \* signIn[c] \in {"none", "live", "ended"}

\* Registering an account signs its user in.
SignInsInit ==
    \E f \in SignInId : signIn = [c \in SignInId |-> IF c = f THEN "live" ELSE "none"]

Login(c) ==
    /\ signIn[c] = "none"
    /\ signIn' = [signIn EXCEPT ![c] = "live"]

\* A password change may end many.
End(ended) ==
    /\ \A c \in ended : signIn[c] = "live"
    /\ signIn' = [c \in SignInId |-> IF c \in ended THEN "ended" ELSE signIn[c]]

SignInsNext ==
    \/ \E c \in SignInId : Login(c)
    \/ \E ended \in SUBSET SignInId : End(ended)

SignInsSpec == SignInsInit /\ [][SignInsNext]_signIn
=============================================================================
