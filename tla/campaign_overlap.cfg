SPECIFICATION Spec
CONSTANTS
    Boletos = {b1}
    Emitters = {e1, e2, e3}
    Receivers = {r1}
    Syncers = {}
    Numbers = {n1}
    NoNumber = NoNumber
    ProviderOf <- AllMoncalieri
    CreatedAs <- AllCreated
    Faults = FALSE
    UnlistedTexts = FALSE
    Workers = {e1, e2}
    Requests = {q1}
    Imports = {i1}
    NoImport = NoImport
    RowsEach = 1
    RowsOf <- SameRows
    Limit = 2
    Stops = FALSE
SYMMETRY WorkerSymmetry
INVARIANT TypeOK
INVARIANT CompletedIsRegistered
INVARIANT ClaimsAreExclusive
PROPERTY VerdictYieldsToBank
CHECK_DEADLOCK FALSE
