SPECIFICATION AutosaveSpec
CONSTANTS
    Drafts = {original, first}
    Invalid = {}
    Original = original
    Faults = {"lost"}
    MaxWaiting = 1
INVARIANT FlushTellsTheTruth
CHECK_DEADLOCK FALSE
