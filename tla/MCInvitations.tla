---------------------------- MODULE MCInvitations ----------------------------
(* Two invitees, two links and two requests at a time. *)
EXTENDS InvitationRequests
=============================================================================
