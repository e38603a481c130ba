-------------------------- MODULE MCCampaignAtomic --------------------------
(* Instances of CampaignAtomic: one member beside the master and one element; *)
(* the run's cfg picks the operations and the ids.                           *)
EXTENDS CampaignAtomic, TLC

AllOperations == LockedOperation \cup UnlockedOperation
Symmetry == Permutations(ElementId) \cup Permutations(LinkId)
                \cup Permutations(CharacterId)
=============================================================================
