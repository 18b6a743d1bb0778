SPECIFICATION Spec
CONSTANTS
    Boletos = {b1}
    Emitters = {e1, e2}
    Receivers = {w1, w2}
    Syncers = {s1}
    Numbers = {n1}
    NoNumber = NoNumber
    ProviderOf <- AllMoncalieri
    CreatedAs <- AllCreated
    Faults = TRUE
    UnlistedTexts = TRUE
SYMMETRY Symmetry
INVARIANT TypeOK
INVARIANT PaymentDateIsReal
INVARIANT AppliedOnce
CHECK_DEADLOCK FALSE
