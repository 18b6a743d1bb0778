SPECIFICATION MCSpec
CONSTANTS
    c1 = c1  c2 = c2  d1 = d1  d2 = d2  d3 = d3
    ta = ta  tb = tb  tm = tm
    f1 = f1  f2 = f2  x1 = x1  x2 = x2
    pa = pa  pb = pb  pold = pold  alpha = alpha  beta = beta
\* TenantOutbox
    u1 = u1
    u2 = u2
    u3 = u3
    i1 = i1
    i2 = i2
    message = message
    Dead = {}
    Unset = {u2, i1}
    Updates = {u1, u2}
    Items = {i1}
    Posters = {c1, c2}
    Loop = Loop
    MessageOf <- OneMessage
    Endpoint <- Endpoints
    Limit = 2
    Nothing = Nothing
    Faults = TRUE
\* Compliance
    Entries = {d1, d2}
    Editors = {c1, c2}
    Issuers = {r1}
    Texts = {ta, tb, tm}
    Blank = Blank
    DigitsOf <- DigitsOfTexts
    AddressOf <- AddressOfTexts
    TenantOf <- OneTenant
    Bodies <- SomeBodies
    Payers <- SomePayers
\* CampaignImport
    Files = {f1, f2}
    LinesOf <- TwoFiles
    ExternalIds = {x1, x2}
    NoId = NoId
    NoFile = NoFile
    Uploads = {r1}
    Confirms = {c1, c2}
    Wraps = 8
    LastDay = 1
\* ApiTokens
    Scopes = {hml, prod}
    Production = {prod}
    AppEnv = "production"
    Issues = {d1, d2, d3}
    Requests = {r1}
\* ProviderCatalog
    Providers = {pa, pb}
    Clients = {beta}
    Platform = Platform
    OwnerOf <- OldIsAlphas
    Edits = {r1}
    Swaps = {c1, c2}
    Calls = {r2}
    Selections <- SomeSelections
\* References
    Rows = {d1, d2}
    Keys = {x1, x2}
    Titles = {n1, n2}
    NoKey = NoKey
    NoNumber = NoNumber
    Orderers = {alpha, beta}
    Batches <- SomeBatches
    Intakes = {r1}
    Writers = {c1, c2}
\* PollingOrder
    Queued = {d1, d2, d3}
    Pollers = {c1, c2}
    NoPoller = NoPoller
    BatchLimit = 1
    Tolerated = 0
\* Migrations
    LastVersion = 3
    Objects = {x1, x2, f1}
    Creates <- MadeByFiles
    Drops <- DroppedByFiles
    Runners = {c1, c2}
\* Dashboard
    Drawn = {f1, x1}
    Historical = {x1}
    Price <- TwoPrices
    LastInstant = 4
    Statuses = {"ISSUED", "PAID", "PARTIAL"}
    Unknown = Unknown
\* Pages
    Billed = {c1, c2, d1, d2}
    Viewers = {r1}
    PageLimit = 2
    LastMoment = 3
\* MoneyText
    Largest = 1023
    Wholes <- SomeWholes
    Fractions <- UpToTwoDigits
INVARIANT DeliveredWasReceived
PROPERTY DeliveredIsFinal
INVARIANT UpdatesProcessedOnce
INVARIANT ComplianceTypeOK
INVARIANT BlockHolds
INVARIANT KeptIsRefused
INVARIANT PreviewAddsUp
INVARIANT ConfirmedOnce
INVARIANT ReadyHasBoletos
INVARIANT TokensTypeOK
INVARIANT ExactlyOneActive
INVARIANT ServedInEnvironment
INVARIANT OffIsInactive
INVARIANT LeftOutIsNotCalled
INVARIANT ReplacementIsExact
INVARIANT ReferencesTypeOK
INVARIANT OrderedOnce
INVARIANT ItemReachesItsBoleto
INVARIANT NobodyIsPassedOver
INVARIANT MigrationsTypeOK
INVARIANT SchemaIsPrefix
INVARIANT DashboardAddsUp
INVARIANT FallbackAgrees
INVARIANT OnlyRacersHideBoletos
INVARIANT MoneyIsExact
CHECK_DEADLOCK FALSE
SYMMETRY Interchangeable
