-------------------------- MODULE ProviderCatalog --------------------------
(***************************************************************************)
(* The catalogue of providers and the tenants they are enabled for:         *)
(*                                                                         *)
(*   /admin/providers        create, edit, activate, deactivate; an edit    *)
(*                           without a status reads the one it writes back; *)
(*   POST /admin/tenants     a tenant with its providers, in a transaction; *)
(*   PUT /admin/tenants/:id  replaces a tenant's providers, one statement   *)
(*                           per provider and in no transaction;            *)
(*   Emit                    looks the provider up and calls it later.      *)
(***************************************************************************)
EXTENDS FiniteSets, Naturals

CONSTANTS
    Providers,
    Clients,        \* the tenants
    Platform,       \* owner of the providers of the catalogue
    OwnerOf,        \* Platform, or the tenant an old provider belongs to
    Edits,          \* concurrent edits of a provider without a status
    Swaps,          \* concurrent replacements of a tenant's providers
    Calls,          \* concurrent calls of Emit
    Selections      \* what a replacement may send: providers and "active"

ASSUME CatalogOwners == /\ OwnerOf \in [Providers -> Clients \cup {Platform}]
                        /\ Platform \notin Clients
ASSUME CatalogSelections ==
    Selections \subseteq UNION {[S -> BOOLEAN] : S \in SUBSET Providers}

VARIABLES
    status,         \* providers.status, "absent" before the row exists
    enabled,        \* tenant_providers.active, "absent" without a row
    member,         \* the tenants that exist
    providerEdit,   \* edits between FindByID and Update
    swap,           \* replacements
    onboard,        \* onboarding of a tenant: providers it has found active
    emission,       \* calls of Emit from the look-up of the provider on
    off,            \* history: providers deactivated and not activated since
    settled         \* history: {S} if the last request on a tenant's providers
                    \* was answered and left S enabled, {} if nothing is known

catalogVars == <<status, enabled, member, providerEdit, swap, onboard, emission,
                 off, settled>>

-----------------------------------------------------------------------------
NoSwap == [pc |-> "idle"]
NoEmission == [pc |-> "idle"]
NoEdit == [pc |-> "idle"]
NoOnboard == [pc |-> "idle"]

Old == {p \in Providers : OwnerOf[p] # Platform}

\* Migration 014 has enabled the old providers for their owners.
CatalogInit ==
    /\ status = [p \in Providers |-> IF p \in Old THEN "ACTIVE" ELSE "absent"]
    /\ enabled = [t \in Clients |-> [p \in Providers |->
                    IF OwnerOf[p] = t THEN "yes" ELSE "absent"]]
    /\ member = {OwnerOf[p] : p \in Old}
    /\ providerEdit = [c \in Edits |-> NoEdit]
    /\ swap = [c \in Swaps |-> NoSwap]
    /\ onboard = [t \in Clients |-> NoOnboard]
    /\ emission = [e \in Calls |-> NoEmission]
    /\ off = {}
    /\ settled = [t \in Clients |-> {}]

-----------------------------------------------------------------------------
(* The catalogue                                                           *)

CreateCatalog(p) ==
    /\ status[p] = "absent"
    /\ status' = [status EXCEPT ![p] = "ACTIVE"]
    /\ UNCHANGED <<enabled, member, providerEdit, swap, onboard, emission, off,
                   settled>>

\* Edits that will write the status ACTIVE they have read.
Reviving(p) == {c \in Edits : /\ providerEdit[c] # NoEdit
                              /\ providerEdit[c].id = p
                              /\ providerEdit[c].status = "ACTIVE"}

Activate(p) ==
    /\ p \notin Old /\ status[p] # "absent"
    /\ status' = [status EXCEPT ![p] = "ACTIVE"]
    /\ off' = off \ {p}
    /\ UNCHANGED <<enabled, member, providerEdit, swap, onboard, emission, settled>>

Deactivate(p) ==
    /\ p \notin Old /\ status[p] # "absent"
    /\ status' = [status EXCEPT ![p] = "INACTIVE"]
    /\ off' = IF Reviving(p) = {} THEN off \cup {p} ELSE off
    /\ UNCHANGED <<enabled, member, providerEdit, swap, onboard, emission, settled>>

\* Mutant: a status that is not sent becomes ACTIVE, as it does in Create.
EditReadsDefault(c, p) ==
    /\ providerEdit[c] = NoEdit
    /\ status[p] # "absent"
    /\ providerEdit' = [providerEdit EXCEPT ![c] =
                          [pc |-> "write", id |-> p, status |-> "ACTIVE"]]
    /\ UNCHANGED <<status, enabled, member, swap, onboard, emission, off, settled>>

\* UpdateCatalog without a status: FindByID ...
EditReads(c, p) ==
    /\ providerEdit[c] = NoEdit
    /\ status[p] # "absent"
    /\ providerEdit' = [providerEdit EXCEPT ![c] =
                          [pc |-> "write", id |-> p, status |-> status[p]]]
    /\ UNCHANGED <<status, enabled, member, swap, onboard, emission, off, settled>>

\* ... and Update, of the whole row.
EditWrites(c) ==
    /\ providerEdit[c].pc = "write"
    /\ status' = [status EXCEPT ![providerEdit[c].id] = providerEdit[c].status]
    /\ providerEdit' = [providerEdit EXCEPT ![c] = NoEdit]
    /\ UNCHANGED <<enabled, member, swap, onboard, emission, off, settled>>

EditDies(c) ==
    /\ providerEdit[c] # NoEdit
    /\ providerEdit' = [providerEdit EXCEPT ![c] = NoEdit]
    /\ UNCHANGED <<status, enabled, member, swap, onboard, emission, off, settled>>

-----------------------------------------------------------------------------
(* Onboarding                                                              *)

Offered(p) == p \notin Old /\ status[p] = "ACTIVE"

\* Every provider of the request is read in the transaction that inserts it;
\* one that is not offered rolls everything back.
OnboardReads(t, chosen) ==
    /\ t \notin member /\ onboard[t] = NoOnboard
    /\ \A p \in chosen : Offered(p)
    /\ onboard' = [onboard EXCEPT ![t] = [pc |-> "commit", chosen |-> chosen]]
    /\ UNCHANGED <<status, enabled, member, providerEdit, swap, emission, off,
                   settled>>

\* A provider sent with "active": false is enabled all the same.
OnboardCommits(t) ==
    LET chosen == onboard[t].chosen IN
    /\ onboard[t].pc = "commit"
    /\ member' = member \cup {t}
    /\ enabled' = [enabled EXCEPT ![t] =
                     [p \in Providers |-> IF p \in chosen THEN "yes" ELSE @[p]]]
    /\ settled' = [settled EXCEPT ![t] = {chosen}]
    /\ onboard' = [onboard EXCEPT ![t] = NoOnboard]
    /\ UNCHANGED <<status, providerEdit, swap, emission, off>>

OnboardFails(t) ==
    /\ onboard[t] # NoOnboard
    /\ onboard' = [onboard EXCEPT ![t] = NoOnboard]
    /\ UNCHANGED <<status, enabled, member, providerEdit, swap, emission, off,
                   settled>>

-----------------------------------------------------------------------------
(* The replacement of a tenant's providers                                 *)

Swapping(t) == {c \in Swaps : swap[c] # NoSwap /\ swap[c].tenant = t}

Chosen(sel) == {p \in DOMAIN sel : sel[p]}

\* Mutant: only the providers that can be used are looked at.
ListedActive(t) == {p \in Providers : status[p] = "ACTIVE"
                                      /\ (OwnerOf[p] = t \/ enabled[t][p] = "yes")}

\* ListByTenant
Listed(t) == {p \in Providers : OwnerOf[p] = t \/ enabled[t][p] # "absent"}

SwapLists(c, t, sel) ==
    /\ swap[c] = NoSwap
    /\ t \in member
    /\ swap' = [d \in Swaps |->
         IF d = c
         THEN [pc |-> "assign", tenant |-> t, sel |-> sel,
               drop |-> Listed(t) \ Chosen(sel), add |-> DOMAIN sel,
               alone |-> Swapping(t) = {}]
         ELSE IF d \in Swapping(t) THEN [swap[d] EXCEPT !.alone = FALSE]
         ELSE swap[d]]
    /\ settled' = [settled EXCEPT ![t] = {}]
    /\ UNCHANGED <<status, enabled, member, providerEdit, onboard, emission, off>>

\* AssignToTenant: INSERT ... ON CONFLICT DO UPDATE.
Assign(t, p, active) ==
    enabled' = [enabled EXCEPT ![t][p] = IF active THEN "yes" ELSE "no"]

\* The providers that are not chosen are disabled first ...
SwapDrops(c, p) ==
    /\ swap[c].pc = "assign"
    /\ p \in swap[c].drop
    /\ p \notin Old
    /\ Assign(swap[c].tenant, p, FALSE)
    /\ swap' = [swap EXCEPT ![c].drop = @ \ {p}]
    /\ UNCHANGED <<status, member, providerEdit, onboard, emission, off, settled>>

\* ... then each one that was sent is written, in the order of a Go map.
SwapAdds(c, p) ==
    /\ swap[c].pc = "assign"
    /\ swap[c].drop = {} /\ p \in swap[c].add
    /\ p \notin Old /\ status[p] # "absent"
    /\ swap[c].sel[p] => status[p] = "ACTIVE"
    /\ Assign(swap[c].tenant, p, swap[c].sel[p])
    /\ swap' = [swap EXCEPT ![c].add = @ \ {p}]
    /\ UNCHANGED <<status, member, providerEdit, onboard, emission, off, settled>>

SwapEnds(c) ==
    LET t == swap[c].tenant IN
    /\ swap[c].pc = "assign"
    /\ swap[c].drop = {} /\ swap[c].add = {}
    /\ settled' = [settled EXCEPT ![t] =
                     IF swap[c].alone THEN {Chosen(swap[c].sel)} ELSE {}]
    /\ swap' = [swap EXCEPT ![c] = NoSwap]
    /\ UNCHANGED <<status, enabled, member, providerEdit, onboard, emission, off>>

\* A provider that may not be assigned, a statement that fails or the death of
\* the request: what has been written stays.
SwapFails(c) ==
    /\ swap[c] # NoSwap
    /\ swap' = [swap EXCEPT ![c] = NoSwap]
    /\ UNCHANGED <<status, enabled, member, providerEdit, onboard, emission, off,
                   settled>>

-----------------------------------------------------------------------------
(* Emit                                                                    *)

\* Mutant: the provider's own status is not looked at, as in Sync.
EnabledOnly(t, p) == status[p] # "absent" /\ enabled[t][p] = "yes"

\* providerConfigForTenant
Usable(t, p) == status[p] = "ACTIVE" /\ enabled[t][p] = "yes"

EmissionLooksUp(e, t, p) ==
    /\ emission[e] = NoEmission
    /\ Usable(t, p)
    /\ emission' = [emission EXCEPT ![e] =
                      [pc |-> "call", tenant |-> t, id |-> p, barred |-> off,
                       expected |-> settled[t]]]
    /\ UNCHANGED <<status, enabled, member, providerEdit, swap, onboard, off,
                   settled>>

EmissionEnds(e) ==
    /\ emission[e] # NoEmission
    /\ emission' = [emission EXCEPT ![e] = NoEmission]
    /\ UNCHANGED <<status, enabled, member, providerEdit, swap, onboard, off,
                   settled>>

-----------------------------------------------------------------------------
CatalogStep(p) == CreateCatalog(p) \/ Activate(p) \/ Deactivate(p)

ProviderEditStep(c) ==
    \/ \E p \in Providers : EditReads(c, p)
    \/ EditWrites(c)
    \/ EditDies(c)

OnboardStep(t) ==
    \/ \E chosen \in SUBSET Providers : OnboardReads(t, chosen)
    \/ OnboardCommits(t)
    \/ OnboardFails(t)

SwapStep(c) ==
    \/ \E t \in Clients, sel \in Selections : SwapLists(c, t, sel)
    \/ \E p \in Providers : SwapDrops(c, p) \/ SwapAdds(c, p)
    \/ SwapEnds(c)
    \/ SwapFails(c)

EmissionStep(e) ==
    \/ \E t \in Clients, p \in Providers : EmissionLooksUp(e, t, p)
    \/ EmissionEnds(e)

CatalogNext ==
    \/ \E p \in Providers : CatalogStep(p)
    \/ \E c \in Edits : ProviderEditStep(c)
    \/ \E t \in Clients : OnboardStep(t)
    \/ \E c \in Swaps : SwapStep(c)
    \/ \E e \in Calls : EmissionStep(e)

CatalogSpec == CatalogInit /\ [][CatalogNext]_catalogVars

-----------------------------------------------------------------------------
\* A deactivated provider stays so until it is activated, and no edit that
\* began after the deactivation brings it back.  An edit that had read the row
\* before does (UpdateCatalog writes back the status it read).
OffIsInactive == \A p \in off : status[p] = "INACTIVE"

\* Emit calls no provider that was deactivated before it looked it up, nor one
\* that the last request on its tenant's providers had left out.
LeftOutIsNotCalled ==
    \A e \in Calls : emission[e] # NoEmission =>
        /\ emission[e].id \notin emission[e].barred
        /\ \A S \in emission[e].expected : emission[e].id \in S

\* What an answered replacement, or onboarding, leaves enabled is what it was
\* sent, though it is written row by row, providers come and go meanwhile and
\* an earlier one may have died halfway; two that overlap promise nothing.
ReplacementIsExact ==
    \A t \in Clients : \A S \in settled[t] :
        {p \in Providers : enabled[t][p] = "yes"} = S
=============================================================================
