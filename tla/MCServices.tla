----------------------------- MODULE MCServices -----------------------------
(***************************************************************************)
(* Instances for TLC of the modules that keep the tables around the         *)
(* boletos.  They share no variable and no action of one reads what another *)
(* writes, so that every reachable state of all of them together is a state *)
(* of each: TLC explores them one at a time, the one that `scene` names,    *)
(* and leaves the others at their initial states.                           *)
(***************************************************************************)
EXTENDS MCTenantOutbox, Compliance, CampaignImport, ApiTokens, ProviderCatalog,
        References, PollingOrder, Migrations, Dashboard, Pages, MoneyText

CONSTANTS
    c1, c2, d1, d2, d3,             \* calls and rows, of several modules each
    ta, tb, tm,                     \* Compliance
    f1, f2, x1, x2,                 \* CampaignImport
    pa, pb, pold, alpha, beta       \* ProviderCatalog, References

Interchangeable == Permutations({c1, c2}) \cup Permutations({d1, d2})

-----------------------------------------------------------------------------
(* Compliance: two documents, which are their own digits, and an address.   *)

DigitsOfTexts == (ta :> ta @@ tb :> tb @@ tm :> Blank)

AddressOfTexts == (ta :> Blank @@ tb :> Blank @@ tm :> tm)

OneTenant == [i \in Entries |-> alpha]

\* A document that is shown as ta and blocked as tb, an address, and a text that
\* is none.
SomeBodies ==
    {[kind |-> "DOCUMENT", document |-> ta, value |-> tb, active |-> FALSE],
     [kind |-> "EMAIL", document |-> Blank, value |-> tm, active |-> TRUE],
     [kind |-> "EMAIL", document |-> Blank, value |-> ta, active |-> TRUE]}

\* A boleto with an address and a document, for both look-ups.  A customer's
\* document is looked up as a boleto's own.
SomePayers == {[customer |-> Blank, email |-> tm, document |-> tb]}

-----------------------------------------------------------------------------
(* CampaignImport: the second file is sound on both days only in its middle *)
(* line, and both have an external id of their own line repeated.           *)

CsvLine(shape, cents, due, id) ==
    [shape |-> shape, cents |-> cents, due |-> due, id |-> id]

TwoFiles ==
    (f1 :> <<CsvLine("sound", 5, 1, x1), CsvLine("fields", 7, 1, x2),
             CsvLine("sound", 6, 0, NoId), CsvLine("sound", 7, 1, x2)>>
     @@ f2 :> <<CsvLine("columns", 1, 1, x2), CsvLine("sound", 7, 1, x2),
                CsvLine("sound", 7, 0, x1)>>)

-----------------------------------------------------------------------------
(* ProviderCatalog: a request that selects pa, and one that leaves it out   *)
(* and selects pb.                                                          *)

SomeSelections == {pa :> TRUE, (pa :> FALSE @@ pb :> TRUE)}

OldIsAlphas == [p \in Providers |-> IF p = pold THEN alpha ELSE Platform]

-----------------------------------------------------------------------------
(* References: a request of two orders, one without an external id, and one *)
(* of another tenant; the mock's boletos share an external id with the      *)
(* bank's and may be ordered again.                                         *)

Asks(tenant, key, provider) ==
    [tenant |-> tenant, key |-> key, provider |-> provider]

SomeBatches ==
    {<<Asks(alpha, x1, "moncalieri"), Asks(alpha, NoKey, "moncalieri")>>,
     <<Asks(beta, x2, "moncalieri")>>, <<Asks(alpha, x1, "mock")>>}

-----------------------------------------------------------------------------
(* Migrations: the third file drops what the first one creates, as 016 does *)
(* an index of 012.                                                         *)

MadeByFiles == <<{x1}, {x2}, {f1}>>

DroppedByFiles == <<{}, {}, {x1}>>

-----------------------------------------------------------------------------
(* Dashboard: a boleto of today, and one paid before the trigger existed.   *)

TwoPrices == (f1 :> 1 @@ x1 :> 2)

-----------------------------------------------------------------------------
(* MoneyText: whole parts around the largest one that fits, 10.23, and the   *)
(* largest integer, and decimal parts of up to two digits around it and     *)
(* at the ends.                                                             *)

SomeWholes == {<<>>, <<0>>, <<9>>, <<1, 0>>, <<1, 1>>, <<2, 1>>,
               <<1, 0, 2, 3>>, <<1, 0, 2, 4>>}

SomeDigits == {0, 2, 3, 4, 9}

UpToTwoDigits == {<<>>, <<1, 0, 0>>} \cup {<<d>> : d \in SomeDigits}
                 \cup {<<d, e>> : d \in SomeDigits, e \in SomeDigits}

-----------------------------------------------------------------------------
VARIABLE scene

Scenes == {"outbox", "compliance", "import", "tokens", "catalog", "references",
           "polling", "migrations", "dashboard", "pages", "money"}

MCInit ==
    /\ Init
    /\ ComplianceInit
    /\ ImportInit
    /\ TokensInit
    /\ CatalogInit
    /\ ReferencesInit
    /\ PollingInit
    /\ MigrationsInit
    /\ DashboardInit
    /\ PagesInit
    /\ MoneyInit
    /\ scene \in Scenes

Still(name, v) == scene # name => UNCHANGED v

\* The variables of the modules `scene` does not name stay as they are.
Rest ==
    /\ Still("outbox", vars)
    /\ Still("compliance", complianceVars)
    /\ Still("import", importVars)
    /\ Still("tokens", tokenVars)
    /\ Still("catalog", catalogVars)
    /\ Still("references", referenceVars)
    /\ Still("polling", pollingVars)
    /\ Still("migrations", migrationVars)
    /\ Still("dashboard", dashboardVars)
    /\ Still("pages", pagesVars)
    /\ Still("money", moneyVars)
    /\ UNCHANGED scene

MCNext ==
    \/ scene = "outbox" /\ Next /\ Rest
    \/ scene = "compliance" /\ ComplianceNext /\ Rest
    \/ scene = "import" /\ ImportNext /\ Rest
    \/ scene = "tokens" /\ TokensNext /\ Rest
    \/ scene = "catalog" /\ CatalogNext /\ Rest
    \/ scene = "references" /\ ReferencesNext /\ Rest
    \/ scene = "polling" /\ PollingNext /\ Rest
    \/ scene = "migrations" /\ MigrationsNext /\ Rest
    \/ scene = "dashboard" /\ DashboardNext /\ Rest
    \/ scene = "pages" /\ PagesNext /\ Rest
    \/ scene = "money" /\ MoneyNext /\ Rest

MCSpec == MCInit /\ [][MCNext]_<<vars, complianceVars, importVars, tokenVars,
                                 catalogVars, referenceVars, pollingVars,
                                 migrationVars, dashboardVars, pagesVars,
                                 moneyVars, scene>>
=============================================================================
