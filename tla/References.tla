----------------------------- MODULE References -----------------------------
(***************************************************************************)
(* How a boleto is told from the others: by the tenant's external_id when   *)
(* it is ordered, by IdentificadorCliente at the bank, by either or by the  *)
(* bank's number when a REGISTRO item comes back.                           *)
(*                                                                         *)
(*   POST /boletos      creates the boletos of a request one by one;        *)
(*   Emit               sends the external_id, or else the row's id, and    *)
(*                      stores the external_id that the answer returns:     *)
(*                      Moncalieri's is the one sent, the mock's is new;    *)
(*   processItem, Sync  write back a whole row they have looked up.         *)
(*                                                                         *)
(* Statuses are BoletoLifecycle's subject: any row without a number may be  *)
(* emitted here.                                                            *)
(***************************************************************************)
EXTENDS FiniteSets, Sequences

CONSTANTS
    Rows,           \* ids of boletos
    Keys,           \* what tenants send as external_id
    Titles,         \* the bank's numbers, and the ids the mock coins
    NoKey, NoNumber,
    Orderers,       \* the tenants
    Batches,        \* what a request may carry: a sequence of orders
    Intakes,        \* concurrent requests that create boletos
    Writers         \* concurrent calls of Emit, processItem and Sync

Adapters == {"moncalieri", "mock"}

Order == [tenant: Orderers, key: Keys \cup {NoKey}, provider: Adapters]

\* No tenant sends the id of somebody's boleto as its external_id, nor an id
\* that the mock has coined.
ASSUME ReferenceKinds == /\ Keys \cap Rows = {}
                         /\ Titles \cap (Keys \cup Rows) = {}
                         /\ NoKey \notin Keys \cup Rows \cup Titles
                         /\ NoNumber \notin Titles
ASSUME ReferenceBatches == Batches \subseteq Seq(Order)

VARIABLES
    ref,            \* boletos: tenant_id, provider, external_id, our_number
    order,          \* history: the order each row was created for
    intake,         \* what each request has still to create
    writer,         \* calls with the copy of the row they have read
    title           \* what the bank and the mock have issued

referenceVars == <<ref, order, intake, writer, title>>

-----------------------------------------------------------------------------
NoRef == [state |-> "absent"]
NoTitle == [state |-> "absent"]
NoWriter == [pc |-> "idle"]

ReferencesInit ==
    /\ ref = [b \in Rows |-> NoRef]
    /\ order = [b \in Rows |-> NoRef]
    /\ intake = [q \in Intakes |-> <<>>]
    /\ writer = [c \in Writers |-> NoWriter]
    /\ title = [n \in Titles |-> NoTitle]

Others(b, tenant) ==
    {d \in Rows \ {b} : ref[d] # NoRef /\ ref[d].tenant = tenant}

\* Mutant: only the bank's number is unique.
ClashesByNumber(b, r) ==
    \E d \in Others(b, r.tenant) : r.number # NoNumber /\ ref[d].number = r.number

\* idx_boletos_tenant_external_id_unique, idx_boletos_tenant_our_number_unique
Clashes(b, r) ==
    \E d \in Others(b, r.tenant) :
        \/ r.key # NoKey /\ ref[d].key = r.key
        \/ r.number # NoNumber /\ ref[d].number = r.number

-----------------------------------------------------------------------------
(* Creation                                                                *)

\* A client sends a request, perhaps one it has sent before.
Post(q, batch) ==
    /\ intake[q] = <<>>
    /\ intake' = [intake EXCEPT ![q] = batch]
    /\ UNCHANGED <<ref, order, writer, title>>

CreateItem(q, b) ==
    LET item == Head(intake[q])
        r == [tenant |-> item.tenant, provider |-> item.provider,
              key |-> item.key, number |-> NoNumber] IN
    /\ intake[q] # <<>>
    /\ ref[b] = NoRef
    /\ ~Clashes(b, r)
    /\ ref' = [ref EXCEPT ![b] = r]
    /\ order' = [order EXCEPT ![b] = item]
    /\ intake' = [intake EXCEPT ![q] = Tail(@)]
    /\ UNCHANGED <<writer, title>>

\* An item clashes or cannot be stored, or the request dies: the items before it
\* stay and those after it are not created.
IntakeFails(q) ==
    /\ intake[q] # <<>>
    /\ intake' = [intake EXCEPT ![q] = <<>>]
    /\ UNCHANGED <<ref, order, writer, title>>

-----------------------------------------------------------------------------
(* Update writes a whole copy; one that clashes is an error.               *)

UpdateRow(c) ==
    /\ ~Clashes(writer[c].id, writer[c].copy)
    /\ ref' = [ref EXCEPT ![writer[c].id] = writer[c].copy]

\* The call's last write, if it gets that far.
WriterWrites(c) ==
    /\ writer[c].pc = "write"
    /\ UpdateRow(c)
    /\ writer' = [writer EXCEPT ![c] = NoWriter]
    /\ UNCHANGED <<order, intake, title>>

WriterFails(c) ==
    /\ writer[c] # NoWriter
    /\ writer' = [writer EXCEPT ![c] = NoWriter]
    /\ UNCHANGED <<ref, order, intake, title>>

Writes(c, b, copy, n) ==
    writer' = [writer EXCEPT ![c] = [pc |-> "write", id |-> b, copy |-> copy,
                                     about |-> n]]

-----------------------------------------------------------------------------
(* Emit                                                                    *)

EmitReads(c, b) ==
    /\ writer[c] = NoWriter
    /\ ref[b] # NoRef
    /\ ref[b].number = NoNumber
    /\ writer' = [writer EXCEPT ![c] = [pc |-> "mark", id |-> b, copy |-> ref[b],
                                        about |-> NoNumber]]
    /\ UNCHANGED <<ref, order, intake, title>>

EmitMarks(c) ==
    /\ writer[c].pc = "mark"
    /\ UpdateRow(c)
    /\ writer' = [writer EXCEPT ![c].pc = "issue"]
    /\ UNCHANGED <<order, intake, title>>

\* IdentificadorCliente
Identifier(b, copy) == IF copy.key # NoKey THEN copy.key ELSE b

\* Mutant: Moncalieri's answer is read as the mock's.
AnsweredNumber(b, copy, n) == n

\* mapIssueResponse returns the identifier that was sent as the external_id;
\* the mock answers "mock-" and a new uuid, of which its number is made too.
AnsweredKey(b, copy, n) ==
    IF copy.provider = "mock" THEN n ELSE Identifier(b, copy)

BankIssues(c, n) ==
    LET b == writer[c].id
        copy == writer[c].copy IN
    /\ writer[c].pc = "issue"
    /\ title[n] = NoTitle
    /\ title' = [title EXCEPT ![n] = [identifier |-> Identifier(b, copy),
                                      boleto |-> b, by |-> copy.provider]]
    /\ \/ Writes(c, b, [copy EXCEPT !.key = AnsweredKey(b, copy, n),
                                !.number = n], n)
       \/ /\ copy.provider # "mock"    \* the answer is lost: FAILED is stored
          /\ Writes(c, b, copy, n)
    /\ UNCHANGED <<ref, order, intake>>

BankRefuses(c) ==
    /\ writer[c].pc = "issue"
    /\ Writes(c, writer[c].id, writer[c].copy, NoNumber)
    /\ UNCHANGED <<ref, order, intake, title>>

-----------------------------------------------------------------------------
(* processItem and Sync                                                    *)

ByReference(x) == {b \in Rows : ref[b] # NoRef /\ (b = x \/ ref[b].key = x)}

ByNumber(n) == {b \in Rows : ref[b] # NoRef /\ ref[b].number = n}

\* FindByProviderReference: any row that matches the reference or else, if there
\* is none, the number.  The tenant is not part of the query.
FindByProviderReference(n) ==
    LET x == title[n].identifier IN
    IF ByReference(x) # {} THEN ByReference(x) ELSE ByNumber(n)

\* A REGISTRO item of title n: a registration stores the number, a failure does
\* not.  The mock sends none.
ItemFinds(c, n, registered) ==
    /\ writer[c] = NoWriter
    /\ title[n] # NoTitle
    /\ title[n].by = "moncalieri"
    /\ \E b \in FindByProviderReference(n) :
          Writes(c, b, IF registered THEN [ref[b] EXCEPT !.number = n]
                                     ELSE ref[b], n)
    /\ UNCHANGED <<ref, order, intake, title>>

\* Sync reads a row with a number and writes it back with another status.
SyncFinds(c, b) ==
    /\ writer[c] = NoWriter
    /\ ref[b] # NoRef
    /\ ref[b].number # NoNumber
    /\ Writes(c, b, ref[b], NoNumber)
    /\ UNCHANGED <<ref, order, intake, title>>

-----------------------------------------------------------------------------
IntakeStep(q) ==
    \/ \E batch \in Batches : Post(q, batch)
    \/ \E b \in Rows : CreateItem(q, b)
    \/ IntakeFails(q)

WriterStep(c) ==
    \/ \E b \in Rows : EmitReads(c, b) \/ SyncFinds(c, b)
    \/ EmitMarks(c)
    \/ \E n \in Titles : BankIssues(c, n)
    \/ BankRefuses(c)
    \/ \E n \in Titles, registered \in BOOLEAN : ItemFinds(c, n, registered)
    \/ WriterWrites(c)
    \/ WriterFails(c)

ReferencesNext ==
    \/ \E q \in Intakes : IntakeStep(q)
    \/ \E c \in Writers : WriterStep(c)

ReferencesSpec == ReferencesInit /\ [][ReferencesNext]_referenceVars

-----------------------------------------------------------------------------
RefOf(provider, keys) ==
    [tenant: Orderers, provider: {provider}, key: keys \cup {NoKey},
     number: Titles \cup {NoNumber}]

Ref == RefOf("moncalieri", Keys \cup Rows) \cup RefOf("mock", Keys \cup Titles)

Title == [identifier: Keys \cup Rows \cup Titles, boleto: Rows, by: Adapters]

Writer == [pc: {"mark", "issue", "write"}, id: Rows, copy: Ref,
           about: Titles \cup {NoNumber}]

ReferencesTypeOK ==
    /\ ref \in [Rows -> {NoRef} \cup Ref]
    /\ order \in [Rows -> {NoRef} \cup Order]
    /\ intake \in [Intakes -> Seq(Order)]
    /\ writer \in [Writers -> {NoWriter} \cup Writer]
    /\ title \in [Titles -> {NoTitle} \cup Title]

\* The mock's answer has taken the place of the external_id that was ordered.
KeyReplaced(b) == order[b].provider = "mock" /\ ref[b].key \in Titles

\* A tenant that repeats an external_id gets no second boleto, whatever Emit,
\* the webhook and the polls have written back to the first one meanwhile
\* (docs/api.md:639), unless the mock has issued one of the two: its answer is
\* stored over the external_id, and the index no longer sees the order.
OrderedOnce ==
    \A b, d \in Rows :
        /\ b # d /\ order[b] # NoRef /\ order[d] # NoRef
        /\ order[b].tenant = order[d].tenant
        /\ order[b].key = order[d].key /\ order[b].key # NoKey
        => KeyReplaced(b) \/ KeyReplaced(d)

\* A REGISTRO item is applied to the boleto whose title it is about.  It holds
\* while no two tenants use the same external_id, which docs/api.md:641 allows:
\* the look-up does not ask for the tenant.
ItemReachesItsBoleto ==
    \A c \in Writers :
        writer[c] # NoWriter /\ writer[c].about # NoNumber =>
            writer[c].id = title[writer[c].about].boleto
=============================================================================
