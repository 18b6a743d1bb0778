SPECIFICATION FairSpec
CONSTANTS
    Boletos = {b1}
    Emitters = {e1}
    Receivers = {}
    Syncers = {}
    Numbers = {n1}
    NoNumber = NoNumber
    ProviderOf <- AllMock
    CreatedAs <- AllCreated
    Faults = FALSE
    UnlistedTexts = FALSE
    Workers = {e1}
    Requests = {q1}
    Imports = {i1}
    NoImport = NoImport
    RowsEach = 1
    RowsOf <- SameRows
    Limit = 2
    Stops = FALSE
PROPERTY StartedFinishes
CHECK_DEADLOCK FALSE
