----------------------------- MODULE Compliance -----------------------------
(***************************************************************************)
(* The blacklist of each tenant and the checks Emit makes against it:       *)
(*                                                                         *)
(*   BlacklistService   Create, Update and Delete are one statement each;   *)
(*                      Block and Unblock read an entry and write it back   *)
(*                      whole in another one;                               *)
(*   BoletoService.Emit looks up each value of the payer in a query of its  *)
(*                      own and calls the provider later, while the list    *)
(*                      changes.                                            *)
(*                                                                         *)
(* What Emit writes to the boleto is BoletoLifecycle's subject.             *)
(***************************************************************************)
EXTENDS FiniteSets, Naturals

CONSTANTS
    Entries,        \* ids of blacklist rows
    TenantOf,       \* the tenant under whose route an id was created
    Editors,        \* concurrent calls of Block and Unblock
    Issuers,        \* concurrent calls of Emit
    Texts,          \* what a client may type as a document or an e-mail
    DigitsOf,       \* NormalizeDocument of a text
    AddressOf,      \* NormalizeEmail of a text, Blank if it is no address
    Bodies,         \* what POST and PUT may carry
    Payers,         \* the payers of the tenants' boletos
    Blank           \* the empty string

Values == {DigitsOf[t] : t \in Texts} \cup {AddressOf[t] : t \in Texts}
          \cup {Blank}

Kinds == {"DOCUMENT", "EMAIL"}

Body == [kind: Kinds \cup {Blank}, document: Texts \cup {Blank},
         value: Texts \cup {Blank}, active: BOOLEAN]

\* customer is the customer's document, if the boleto has one; email and
\* document are the boleto's recipient_email and payer_document.
Payer == [customer: Values, email: Values, document: Values]

ASSUME ComplianceTexts ==
    /\ Blank \notin Texts
    /\ DigitsOf \in [Texts -> Texts \cup {Blank}]
    /\ AddressOf \in [Texts -> Texts \cup {Blank}]
    /\ \A t \in Texts :
          /\ DigitsOf[t] # Blank => DigitsOf[DigitsOf[t]] = DigitsOf[t]
          /\ AddressOf[t] # Blank => AddressOf[AddressOf[t]] = AddressOf[t]
ASSUME ComplianceInputs ==
    /\ DOMAIN TenantOf = Entries
    /\ Bodies \subseteq Body
    /\ Payers \subseteq Payer
    /\ \A p \in Payers : {p.customer, p.email, p.document} # {Blank}

Tenants == {TenantOf[i] : i \in Entries}

VARIABLES
    entry,          \* the table blacklist
    edit,           \* calls of Block and Unblock between Get and Update
    check,          \* calls of Emit
    kept            \* history: what the last completed block of an entry, or
                    \* its creation, keeps blocked since

complianceVars == <<entry, edit, check, kept>>

-----------------------------------------------------------------------------
NoEntry == [kind |-> Blank]
NoCall == [pc |-> "idle"]

\* The row a lookup by type and normalised value finds.
Key(e) == <<e.kind, e.norm>>

Stored(i) == entry[i] # NoEntry /\ ~entry[i].deleted

Active(i) == Stored(i) /\ entry[i].active

ComplianceInit ==
    /\ entry = [i \in Entries |-> NoEntry]
    /\ edit = [c \in Editors |-> NoCall]
    /\ check = [c \in Issuers |-> NoCall]
    /\ kept = [i \in Entries |-> {}]

-----------------------------------------------------------------------------
(* normalizeBlacklistEntry                                                 *)

KindOf(body) ==
    IF body.kind # Blank THEN body.kind
    ELSE IF body.document # Blank THEN "DOCUMENT"
    ELSE IF body.value = Blank THEN Blank
    ELSE IF AddressOf[body.value] # Blank THEN "EMAIL" ELSE "DOCUMENT"

Digits(t) == IF t = Blank THEN Blank ELSE DigitsOf[t]

Address(t) == IF t = Blank THEN Blank ELSE AddressOf[t]

\* A value that differs from the document is the one that is blocked, and the
\* document the one that is shown.
NormalOf(body) ==
    IF KindOf(body) = "EMAIL" THEN Address(body.value)
    ELSE IF body.value # Blank /\ body.value # body.document
    THEN Digits(body.value) ELSE Digits(body.document)

ShownOf(body) ==
    IF KindOf(body) = "EMAIL" \/ body.document = Blank
    THEN NormalOf(body) ELSE body.document

\* Mutant: a value of which the normalisation leaves nothing is accepted.
AcceptedByKind(body) == KindOf(body) # Blank

Accepted(body) == KindOf(body) # Blank /\ NormalOf(body) # Blank

Normalized(body) ==
    [kind |-> KindOf(body), document |-> body.document,
     value |-> ShownOf(body), norm |-> NormalOf(body),
     active |-> body.active, deleted |-> FALSE]

-----------------------------------------------------------------------------
(* The statements of BlacklistRepo.                                        *)

\* idx_blacklist_tenant_type_value_unique
Collides(i, e) ==
    /\ e.active
    /\ \E j \in Entries \ {i} : /\ TenantOf[j] = TenantOf[i]
                                /\ Active(j)
                                /\ Key(entry[j]) = Key(e)

Write(i, e) == entry' = [entry EXCEPT ![i] = e]

Reading(i) == {c \in Editors : edit[c] # NoCall /\ edit[c].id = i}

\* Another request has touched the row since these read it.
Disturbed(i) ==
    [c \in Editors |-> IF c \in Reading(i) THEN [edit[c] EXCEPT !.alone = FALSE]
                       ELSE edit[c]]

\* What is promised of row i from now on; the emissions under way that began
\* under an older promise are released from it.
Keeps(i, keys) ==
    /\ kept' = [kept EXCEPT ![i] = keys]
    /\ check' = [c \in Issuers |->
                   IF check[c] = NoCall \/ keys = kept[i] THEN check[c]
                   ELSE [check[c] EXCEPT !.barred = @ \ {i}]]

\* Mutant: an entry sent without "active" is stored inactive.
CreateAsSent(i, body) ==
    LET e == Normalized(body) IN
    /\ entry[i] = NoEntry
    /\ Accepted(body)
    /\ ~Collides(i, e)
    /\ Write(i, e)
    /\ Keeps(i, {Key(e)})
    /\ UNCHANGED edit

\* Create; an INSERT that collides fails and leaves nothing.
CreateEntry(i, body) ==
    LET e == [Normalized(body) EXCEPT !.active = TRUE] IN
    /\ entry[i] = NoEntry
    /\ Accepted(body)
    /\ ~Collides(i, e)
    /\ Write(i, e)
    /\ Keeps(i, {Key(e)})
    /\ UNCHANGED edit

\* A form that shows the entry sends back what it shows.
AsShown(i) ==
    {[kind |-> entry[i].kind, document |-> entry[i].document,
      value |-> entry[i].value, active |-> a] : a \in BOOLEAN}

\* Update replaces every column with what the client sent: "active" too.
UpdateEntry(i, body) ==
    LET e == Normalized(body) IN
    /\ Stored(i)
    /\ Accepted(body)
    /\ ~Collides(i, e)
    /\ Write(i, e)
    /\ Keeps(i, IF e.active /\ Reading(i) = {} THEN {Key(e)} ELSE {})
    /\ edit' = Disturbed(i)

DeleteEntry(i) ==
    /\ Stored(i)
    /\ Write(i, [entry[i] EXCEPT !.active = FALSE, !.deleted = TRUE])
    /\ Keeps(i, {})
    /\ edit' = Disturbed(i)

\* Block and Unblock: Get ...
EditRead(c, i, act) ==
    /\ edit[c] = NoCall
    /\ Stored(i)
    /\ edit' = [Disturbed(i) EXCEPT ![c] =
                  [pc |-> "write", act |-> act, id |-> i, copy |-> entry[i],
                   alone |-> Reading(i) = {}]]
    /\ Keeps(i, IF act = "unblock" THEN {} ELSE kept[i])
    /\ UNCHANGED entry

\* ... and Update with the whole copy, which changes nothing if the row has
\* been deleted meanwhile.
EditWrite(c) ==
    LET i == edit[c].id
        e == [edit[c].copy EXCEPT !.active = edit[c].act = "block"] IN
    /\ edit[c].pc = "write"
    /\ \/ /\ Stored(i)
          /\ ~Collides(i, e)
          /\ Write(i, e)
       \/ ~Stored(i) /\ UNCHANGED entry
    /\ Keeps(i, IF edit[c].act = "unblock" THEN {}
                  ELSE IF edit[c].alone THEN {Key(e)} ELSE kept[i])
    /\ edit' = [edit EXCEPT ![c] = NoCall]

\* The request dies, or its UPDATE collides.
EditFails(c) ==
    /\ edit[c] # NoCall
    /\ edit' = [edit EXCEPT ![c] = NoCall]
    /\ UNCHANGED <<entry, check, kept>>

-----------------------------------------------------------------------------
(* Emit's compliance checks.                                               *)

Blocked(t, key) == \E i \in Entries : /\ TenantOf[i] = t
                                      /\ Active(i)
                                      /\ Key(entry[i]) = key

\* A boleto of a customer is checked by the customer's document alone; one
\* without by its recipient's e-mail first, if it has one.
EmitBegins(c, t, p) ==
    /\ check[c] = NoCall
    /\ check' = [check EXCEPT ![c] =
                   [pc |-> IF p.customer = Blank /\ p.email # Blank
                           THEN "email" ELSE "document",
                    tenant |-> t, payer |-> p,
                    barred |-> {i \in Entries : TenantOf[i] = t
                                                /\ kept[i] # {}}]]
    /\ UNCHANGED <<entry, edit, kept>>

CheckAt(c, pc) == check' = [check EXCEPT ![c].pc = pc]

\* Mutant: a boleto with an e-mail is not looked up by its document.
CheckEmailOnly(c) ==
    /\ check[c].pc = "email"
    /\ ~Blocked(check[c].tenant, <<"EMAIL", check[c].payer.email>>)
    /\ CheckAt(c, "clear")
    /\ UNCHANGED <<entry, edit, kept>>

CheckEmail(c) ==
    /\ check[c].pc = "email"
    /\ ~Blocked(check[c].tenant, <<"EMAIL", check[c].payer.email>>)
    /\ CheckAt(c, IF check[c].payer.document = Blank THEN "clear" ELSE "document")
    /\ UNCHANGED <<entry, edit, kept>>

Looked(p) == IF p.customer # Blank THEN p.customer ELSE p.document

CheckDocument(c) ==
    /\ check[c].pc = "document"
    /\ ~Blocked(check[c].tenant, <<"DOCUMENT", Looked(check[c].payer)>>)
    /\ CheckAt(c, "clear")
    /\ UNCHANGED <<entry, edit, kept>>

\* RecordBlockedEmissionAttempt only writes the audit log: the call ends.
EmitBlocked(c) ==
    /\ \/ /\ check[c].pc = "email"
          /\ Blocked(check[c].tenant, <<"EMAIL", check[c].payer.email>>)
       \/ /\ check[c].pc = "document"
          /\ Blocked(check[c].tenant, <<"DOCUMENT", Looked(check[c].payer)>>)
    /\ check' = [check EXCEPT ![c] = NoCall]
    /\ UNCHANGED <<entry, edit, kept>>

CallProvider(c) ==
    /\ check[c].pc = "clear"
    /\ CheckAt(c, "issue")
    /\ UNCHANGED <<entry, edit, kept>>

\* The provider answers, or any step after the checks fails.
EmitEnds(c) ==
    /\ check[c].pc \in {"clear", "issue"}
    /\ check' = [check EXCEPT ![c] = NoCall]
    /\ UNCHANGED <<entry, edit, kept>>

-----------------------------------------------------------------------------
EntryStep(i) ==
    \/ \E body \in Bodies : CreateEntry(i, body) \/ UpdateEntry(i, body)
    \/ Stored(i) /\ \E body \in AsShown(i) : UpdateEntry(i, body)
    \/ DeleteEntry(i)

EditStep(c) ==
    \/ \E i \in Entries, act \in {"block", "unblock"} : EditRead(c, i, act)
    \/ EditWrite(c)
    \/ EditFails(c)

EmitCheckStep(c) ==
    \/ \E t \in Tenants, p \in Payers : EmitBegins(c, t, p)
    \/ CheckEmail(c)
    \/ CheckDocument(c)
    \/ EmitBlocked(c)
    \/ CallProvider(c)
    \/ EmitEnds(c)

ComplianceNext ==
    \/ \E i \in Entries : EntryStep(i)
    \/ \E c \in Editors : EditStep(c)
    \/ \E c \in Issuers : EmitCheckStep(c)

ComplianceSpec == ComplianceInit /\ [][ComplianceNext]_complianceVars
-----------------------------------------------------------------------------
Entry == [kind: Kinds, document: Texts \cup {Blank}, value: Texts,
          norm: Values \ {Blank}, active: BOOLEAN, deleted: BOOLEAN]

Edit == [pc: {"write"}, act: {"block", "unblock"}, id: Entries, copy: Entry,
         alone: BOOLEAN]

Check == [pc: {"email", "document", "clear", "issue"}, tenant: Tenants,
          payer: Payers, barred: SUBSET Entries]

ComplianceTypeOK ==
    /\ entry \in [Entries -> {NoEntry} \cup Entry]
    /\ edit \in [Editors -> {NoCall} \cup Edit]
    /\ check \in [Issuers -> {NoCall} \cup Check]
    /\ kept \in [Entries -> SUBSET (Kinds \X Values)]

\* A block that was answered stays in force until a request that may lift it
\* arrives: neither a whole-row write with an old copy nor another Block
\* undoes it.  Overlapping requests on one entry promise nothing, since
\* Block and Unblock write back what they read.
BlockHolds ==
    \A i \in Entries :
        kept[i] # {} => Active(i) /\ kept[i] = {Key(entry[i])}

\* The values of the payer that Emit looks up.
LookedUp(p) ==
    IF p.customer # Blank THEN {<<"DOCUMENT", p.customer>>}
    ELSE {<<"EMAIL", p.email>>, <<"DOCUMENT", p.document>>}

\* No boleto is handed to the provider if a value of its payer that Emit looks
\* up was blocked before the call and has stayed blocked, however the two
\* look-ups and the requests on the list interleave.  A block that arrives
\* after the look-up does not stop the call (docs/architecture.md:50).
KeptIsRefused ==
    \A c \in Issuers :
        check[c] # NoCall /\ check[c].pc \in {"clear", "issue"} =>
            \A i \in check[c].barred : kept[i] \cap LookedUp(check[c].payer) = {}
=============================================================================
