------------------------- MODULE MCCampaignRequests -------------------------
(* Instances of CampaignRequests: two handlers at work at the same time; the *)
(* run's cfg picks the operations and the ids.                               *)
EXTENDS CampaignRequests, TLC

BoardOperations ==
    {"createElement", "setAccess", "removeElement", "createCard", "deleteCard", "createLink",
     "deleteLink", "recordViews", "removeCampaign"}
MemberOperations ==
    {"createElement", "setAccess", "recordViews", "createCharacter",
     "updateCharacter", "removeCharacter", "updateText", "updateMember",
     "removeMember"}
TextOperations == {"createElement", "updateText", "updateMember"}
Symmetry == Permutations(ElementId) \cup Permutations(LinkId)
                \cup Permutations(CharacterId) \cup Permutations(Handlers)
=============================================================================
