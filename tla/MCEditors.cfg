SPECIFICATION EditorsSpec
CONSTANTS
    Drafts = {original, first, second, untitled}
    Invalid = {untitled}
    Original = original
    Faults = {"refused", "lost"}
    MaxWaiting = 2
    NoteTexts = {"a", "b"}
    MaxVisits = 3
    MaxSubmits = 2
    MaxRoleChanges = 3
    MaxSaves = 2
    MaxSheetFaults = 1
    SheetKeys <- AllKeys
    Places = {0, 1}
    FirstPlace = 0
    Pairs = {"ab", "ac"}
    MaxDrops = 2
    MaxLinkings = 3
    MaxOthers = 1
    MaxBoardSteps = 3
INVARIANTS
    OneSaveAtATime
    StatusIsTrue
    FlushIsTrueIfKnown
    TextIsKept
    SheetIsKept
    UnconfirmedStaysPut
    DrawnLinksExplained
PROPERTY
    DraftReachesServer
CHECK_DEADLOCK FALSE
