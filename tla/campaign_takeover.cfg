SPECIFICATION Spec
CONSTANTS
    Boletos = {b1}
    Emitters = {e1}
    Receivers = {}
    Syncers = {}
    Numbers = {n1, n2}
    NoNumber = NoNumber
    ProviderOf <- AllMoncalieri
    CreatedAs <- AllCreated
    Faults = FALSE
    UnlistedTexts = FALSE
    Workers = {e1}
    Requests = {q1}
    Imports = {i1}
    NoImport = NoImport
    RowsEach = 1
    RowsOf <- SameRows
    Limit = 2
    Stops = TRUE
INVARIANT OneTitleEach
CHECK_DEADLOCK FALSE
