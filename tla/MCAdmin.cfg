CONSTANTS
    NumDays = 2
    MaxJobs = 2
    MaxFaults = 1
    MaxCrashes = 1
    btc = btc
    plain = plain
    fine = fine
    Absent = Absent
    Symbols = {btc}
    Values = {plain, fine}
    Seed <- MCSeed
    Requests = {1, 2}

SPECIFICATION Spec

INVARIANTS
    AdminTypeOK
    LoadedOrExplained
    CompleteMeansDone
    CopiesAgree

PROPERTY
    PanelUsableAgain

CHECK_DEADLOCK FALSE
