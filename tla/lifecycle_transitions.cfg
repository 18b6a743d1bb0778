SPECIFICATION Spec
CONSTANTS
    Boletos = {b1}
    Emitters = {e1}
    Receivers = {w1}
    Syncers = {s1}
    Numbers = {n1}
    NoNumber = NoNumber
    ProviderOf <- AllMoncalieri
    CreatedAs <- AllCreated
    Faults = FALSE
    UnlistedTexts = FALSE
PROPERTY TransitionsAreValidated
CHECK_DEADLOCK FALSE
