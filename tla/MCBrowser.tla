------------------------------- MODULE MCBrowser -------------------------------
(***************************************************************************)
(* The session, the addresses and the two list-like pages of the browser   *)
(* for TLC, one at a time.  Their modules share no variable; a behaviour   *)
(* explores the one chosen at the start, while the others stay in their    *)
(* initial state.  Fairness is stated for the chosen one only: actions of  *)
(* the others, enabled for ever and never taken, must not make a           *)
(* behaviour unfair.                                                       *)
(***************************************************************************)
EXTENDS BrowserSignIns, Navigation, EntityViews, Materials, TLC

CONSTANTS
    left, right,    \* the tabs
    MaxDeskWork     \* materials being deleted or changed, all together

VARIABLE part   \* the component that is explored

\* One tab sends two requests at a time, the other one.
OpenCalls == left :> 2 @@ right :> 1

DeskWork == Cardinality(toasts) + Cardinality(deletes)
            + Cardinality(dialog \cup {c.of : c \in change})

BrowserInit ==
    /\ part \in {"session", "navigation", "views", "materials"}
    /\ TracedInit /\ NavigationInit /\ ViewsInit /\ MaterialsInit

BrowserNext ==
    \/ /\ part = "session" /\ TracedNext
       /\ UNCHANGED <<part, navigationVars, viewVars, materialVars>>
    \/ /\ part = "navigation" /\ NavigationNext
       /\ UNCHANGED <<part, tracedVars, viewVars, materialVars>>
    \/ /\ part = "views" /\ ViewsNext
       /\ UNCHANGED <<part, tracedVars, navigationVars, materialVars>>
    \/ /\ part = "materials" /\ MaterialsNext /\ DeskWork' <= MaxDeskWork
       /\ UNCHANGED <<part, tracedVars, navigationVars, viewVars>>

browserVars == <<part, tracedVars, navigationVars, viewVars, materialVars>>

\* The fairness of SessionSpec, ViewsSpec and MaterialsSpec.
BrowserFairness ==
    /\ WF_sessionVars(part = "session" /\ Proceed)
    /\ WF_viewVars(part = "views" /\ Render)
    /\ WF_viewVars(part = "views" /\ Mark)
    /\ WF_viewVars(part = "views" /\ \E p \in posts : PostStep(p))
    /\ \A m \in MaterialIds, p \in 1 .. MaxPages :
           WF_materialVars(part = "materials" /\ Deleting(m, p))

BrowserSpec == BrowserInit /\ [][BrowserNext]_browserVars /\ BrowserFairness
=============================================================================
