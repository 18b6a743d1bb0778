SPECIFICATION FairSpec
CONSTANTS
    Boletos = {b1, b2}
    Emitters = {e1}
    Receivers = {}
    Syncers = {s1}
    Numbers = {n1}
    NoNumber = NoNumber
    ProviderOf <- AllMock
    CreatedAs <- AllCreated
    Faults = TRUE
    UnlistedTexts = FALSE
    Workers = {e1}
    Requests = {q1}
    Imports = {i1}
    NoImport = NoImport
    RowsEach = 2
    RowsOf <- SameRows
    Limit = 1
    Stops = TRUE
INVARIANT FinishedIsDone
PROPERTY FinishesIfRestarted
CHECK_DEADLOCK FALSE
