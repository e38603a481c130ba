SPECIFICATION BrowserSpec
CONSTANTS
    left = left
    right = right
    Tabs = {left, right}
    MaxOpen <- OpenCalls
    Users = {u2}
    FirstUser = u1
    MaxSessions = 4
    MaxExpiries = 1
    MaxCalls = 2
    MaxSignIns = 1
    MaxSteps = 3
    MaxEntities = 2
    BatchSize = 2
    MaxFaults = 1
    MaxRefreshes = 2
    MaterialIds = {"m1", "m2"}
    Existing = {"m1"}
    MaxPages = 2
    MaxDeleting = 2
    MaxDeskFaults = 1
    MaxDeskWork = 2
INVARIANTS
    NoSelfInflictedSignOut
    TabsActAsShown
    RedirectsEnd
    InvitationKept
    ViewsAreTrue
    HiddenWhileDeleting
PROPERTIES
    BrowserSignInsSpec
    RequestsSettle
    DisplayedIsRecorded
    HighlightSurvives
    MenuLeadsStraight
    DeletionEnds
CHECK_DEADLOCK FALSE
