SPECIFICATION HistorySpec
CONSTANTS
    Boletos = {b1}
    Emitters = {e1}
    Receivers = {w1}
    Syncers = {s1}
    Numbers = {n1, n2}
    NoNumber = NoNumber
    ProviderOf <- AllMoncalieri
    CreatedAs <- AllCreated
    Faults = TRUE
    UnlistedTexts = FALSE
SYMMETRY Symmetry
INVARIANT SettledIsBacked
INVARIANT MemoryIsBacked
INVARIANT UndoubtedHasOneTitle
PROPERTY PaymentUndoneOnlyByRegistration
CHECK_DEADLOCK FALSE
