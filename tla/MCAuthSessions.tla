---------------------------- MODULE MCAuthSessions ----------------------------
(* One account with a few devices; the run's cfg picks what they do. *)
EXTENDS AuthSessions, TLC

Symmetry == Permutations(Handlers) \cup Permutations(SessionId)
=============================================================================
