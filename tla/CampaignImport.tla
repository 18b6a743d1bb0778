--------------------------- MODULE CampaignImport ---------------------------
(***************************************************************************)
(* A campaign's CSV files before it is issued:                              *)
(*                                                                         *)
(*   PreviewCSV   checks each line, then asks which external ids the tenant *)
(*                uses already, then saves the lines and their totals under *)
(*                the file's checksum;                                      *)
(*   Confirm      inserts the valid lines of a saved preview as boletos;    *)
(*   Start        READY becomes PROCESSING.                                 *)
(*                                                                         *)
(* The lines of a file are judged at its first upload only: uploading it    *)
(* again just renews its 24 hours.                                          *)
(***************************************************************************)
EXTENDS FiniteSets, Functions, Integers, Sequences

CONSTANTS
    Files,          \* CSV files, told apart by their checksum
    LinesOf,        \* the lines of a file
    ExternalIds,    \* values of external_id
    NoId,           \* an empty external_id
    Uploads,        \* concurrent calls of the preview route
    Confirms,       \* concurrent calls of the confirm route
    NoFile,         \* no file
    Wraps,          \* int64 sums wrap at +-Wraps, which is 2^63
    LastDay         \* the clock stops here

Line == [shape: {"columns", "fields", "sound"}, cents: 1 .. Wraps - 1,
         due: 0 .. LastDay, id: ExternalIds \cup {NoId}]

ASSUME ImportFiles ==
    /\ LinesOf \in [Files -> Seq(Line)]
    /\ \A f \in Files : LinesOf[f] # <<>>
    /\ NoFile \notin Files /\ NoId \notin ExternalIds
ASSUME ImportBounds == Wraps \in Nat \ {0} /\ LastDay \in Nat

VARIABLES
    draft,          \* campaigns.status
    preview,        \* campaign_imports with its campaign_import_rows
    inserted,       \* how often the lines of a file have become boletos
    taken,          \* external ids of the tenant's boletos
    upload,         \* calls of the preview route
    confirm,        \* calls of the confirm route, with the row each one locks
    today           \* the date

importVars == <<draft, preview, inserted, taken, upload, confirm, today>>

-----------------------------------------------------------------------------
NoPreview == [status |-> "none"]
NoUpload == [pc |-> "idle"]
NoConfirm == [pc |-> "idle", file |-> NoFile]

Lines(f) == DOMAIN LinesOf[f]

ImportInit ==
    /\ draft = "DRAFT"
    /\ preview = [f \in Files |-> NoPreview]
    /\ inserted = [f \in Files |-> 0]
    /\ taken = {}
    /\ upload = [u \in Uploads |-> NoUpload]
    /\ confirm = [q \in Confirms |-> NoConfirm]
    /\ today = 0

-----------------------------------------------------------------------------
(* PreviewCSV                                                              *)

\* int64 arithmetic.
Wrapped(n) == ((n + Wraps) % (2 * Wraps)) - Wraps

Cents(f, lines) ==
    Wrapped(SumFunctionOnSet([n \in Lines(f) |-> LinesOf[f][n].cents], lines))

\* A line of five columns takes its external id even if it is invalid.
Repeated(f, n) ==
    /\ LinesOf[f][n].id # NoId
    /\ \E m \in 1 .. n - 1 : /\ LinesOf[f][m].shape # "columns"
                             /\ LinesOf[f][m].id = LinesOf[f][n].id

\* The error of a line in the loop over the file, if any.
FirstCode(f, n) ==
    IF LinesOf[f][n].shape = "columns" THEN "INVALID_COLUMNS"
    ELSE IF LinesOf[f][n].shape = "fields" THEN "INVALID_FIELD"
    ELSE IF LinesOf[f][n].due < today THEN "INVALID_DUE_DATE"
    ELSE IF Repeated(f, n) THEN "DUPLICATE_EXTERNAL_ID" ELSE "NULL"

\* The file is read and each line checked on its own ...
UploadParse(u, f) ==
    /\ upload[u] = NoUpload
    /\ draft = "DRAFT"
    /\ upload' = [upload EXCEPT ![u] =
                    [pc |-> "lookup", file |-> f,
                     code |-> [n \in Lines(f) |-> FirstCode(f, n)]]]
    /\ UNCHANGED <<draft, preview, inserted, taken, confirm, today>>

\* Mutant: the totals keep the lines whose external id is taken.
SummedTotals(f, code, known) ==
    LET valid == {n \in Lines(f) : code[n] = "NULL"} IN
    [valid |-> Cardinality(valid),
     invalid |-> Cardinality(Lines(f)) - Cardinality(valid),
     cents |-> Cents(f, valid)]

\* ValidRows, InvalidRows and TotalAmountCents: counted in the first loop and
\* corrected in the second.
Totals(f, code, known) ==
    LET valid == {n \in Lines(f) : code[n] = "NULL"}
        lost == {n \in valid : LinesOf[f][n].id \in known} IN
    [valid |-> Cardinality(valid) - Cardinality(lost),
     invalid |-> Cardinality(Lines(f) \ valid) + Cardinality(lost),
     cents |-> Wrapped(Cents(f, valid) - Cents(f, lost))]

\* ... then the external ids the tenant has boletos for are looked up ...
UploadLookup(u) ==
    LET f == upload[u].file
        code == upload[u].code IN
    /\ upload[u].pc = "lookup"
    /\ upload' = [upload EXCEPT ![u] =
         [pc |-> "save", file |-> f, totals |-> Totals(f, code, taken),
          code |-> [n \in Lines(f) |->
                      IF code[n] = "NULL" /\ LinesOf[f][n].id \in taken
                      THEN "DUPLICATE_EXTERNAL_ID" ELSE code[n]]]]
    /\ UNCHANGED <<draft, preview, inserted, taken, confirm, today>>

Locked(f) == \E q \in Confirms : confirm[q].pc = "insert" /\ confirm[q].file = f

\* ... and the result is saved, if the file is new; a known file keeps what its
\* first upload found, and the answer shows what this one has found.
SavePreview(u) ==
    LET f == upload[u].file
        t == upload[u].totals IN
    /\ upload[u].pc = "save"
    /\ ~Locked(f)
    /\ preview' = [preview EXCEPT ![f] =
         IF @ = NoPreview
         THEN [status |-> "PREVIEWED", code |-> upload[u].code,
               valid |-> t.valid, invalid |-> t.invalid, cents |-> t.cents,
               expires |-> today + 1]
         ELSE [@ EXCEPT !.expires = today + 1]]
    /\ upload' = [upload EXCEPT ![u] = NoUpload]
    /\ UNCHANGED <<draft, inserted, taken, confirm, today>>

\* The file is not a CSV, or a statement fails.
UploadFails(u) ==
    /\ upload[u] # NoUpload
    /\ upload' = [upload EXCEPT ![u] = NoUpload]
    /\ UNCHANGED <<draft, preview, inserted, taken, confirm, today>>

-----------------------------------------------------------------------------
(* Confirm                                                                 *)

\* The route has loaded the campaign and found a provider.
ConfirmBegin(q, f) ==
    /\ confirm[q].pc = "idle"
    /\ draft = "DRAFT"
    /\ confirm' = [confirm EXCEPT ![q] = [pc |-> "lock", file |-> f]]
    /\ UNCHANGED <<draft, preview, inserted, taken, upload, today>>

\* Mutant: the row is read without FOR UPDATE.
ConfirmReadUnlocked(q) ==
    LET f == confirm[q].file IN
    /\ confirm[q].pc = "lock"
    /\ preview[f] # NoPreview
    /\ preview[f].expires > today
    /\ preview[f].status = "PREVIEWED" /\ preview[f].valid > 0
    /\ confirm' = [confirm EXCEPT ![q].pc = "insert"]
    /\ UNCHANGED <<draft, preview, inserted, taken, upload, today>>

\* Mutant: an import without valid rows is confirmed like any other.
ConfirmLockEmpty(q) ==
    LET f == confirm[q].file IN
    /\ confirm[q].pc = "lock"
    /\ ~Locked(f)
    /\ preview[f] # NoPreview
    /\ preview[f].expires > today
    /\ preview[f].status = "PREVIEWED"
    /\ confirm' = [confirm EXCEPT ![q].pc = "insert"]
    /\ UNCHANGED <<draft, preview, inserted, taken, upload, today>>

\* SELECT ... FOR UPDATE of the import, and its checks, ...
ConfirmLock(q) ==
    LET f == confirm[q].file IN
    /\ confirm[q].pc = "lock"
    /\ ~Locked(f)
    /\ preview[f] # NoPreview
    /\ preview[f].expires > today
    /\ preview[f].status = "PREVIEWED" /\ preview[f].valid > 0
    /\ confirm' = [confirm EXCEPT ![q].pc = "insert"]
    /\ UNCHANGED <<draft, preview, inserted, taken, upload, today>>

ValidLines(f) == {n \in Lines(f) : preview[f].code[n] = "NULL"}

IdsOf(f) == {LinesOf[f][n].id : n \in ValidLines(f)} \ {NoId}

\* ... then one INSERT for all its valid lines, which fails as a whole if one
\* of their external ids is taken by now, and the two updates.
ConfirmCommit(q) ==
    LET f == confirm[q].file IN
    /\ confirm[q].pc = "insert"
    /\ IdsOf(f) \cap taken = {}
    /\ inserted' = [inserted EXCEPT ![f] = @ + 1]
    /\ taken' = taken \cup IdsOf(f)
    /\ preview' = [preview EXCEPT ![f].status = "CONFIRMED"]
    /\ draft' = IF draft = "DRAFT" THEN "READY" ELSE draft
    /\ confirm' = [confirm EXCEPT ![q] = NoConfirm]
    /\ UNCHANGED <<upload, today>>

\* The check or the INSERT fails, or the process dies: the transaction is
\* rolled back.
ConfirmRollback(q) ==
    /\ confirm[q].pc # "idle"
    /\ confirm' = [confirm EXCEPT ![q] = NoConfirm]
    /\ UNCHANGED <<draft, preview, inserted, taken, upload, today>>

StartIssuance ==
    /\ draft = "READY"
    /\ draft' = "PROCESSING"
    /\ UNCHANGED <<preview, inserted, taken, upload, confirm, today>>

-----------------------------------------------------------------------------
\* A boleto created by another route of the tenant.
TakeId(x) ==
    /\ x \notin taken
    /\ taken' = taken \cup {x}
    /\ UNCHANGED <<draft, preview, inserted, upload, confirm, today>>

NextDay ==
    /\ today < LastDay
    /\ today' = today + 1
    /\ UNCHANGED <<draft, preview, inserted, taken, upload, confirm>>

UploadStep(u) ==
    \/ \E f \in Files : UploadParse(u, f)
    \/ UploadLookup(u)
    \/ SavePreview(u)
    \/ UploadFails(u)

ConfirmStep(q) ==
    \/ \E f \in Files : ConfirmBegin(q, f)
    \/ ConfirmLock(q)
    \/ ConfirmCommit(q)
    \/ ConfirmRollback(q)

ImportNext ==
    \/ \E u \in Uploads : UploadStep(u)
    \/ \E q \in Confirms : ConfirmStep(q)
    \/ StartIssuance
    \/ \E x \in ExternalIds : TakeId(x)
    \/ NextDay

ImportSpec == ImportInit /\ [][ImportNext]_importVars

-----------------------------------------------------------------------------
\* What is saved of a preview adds up: its counters and its amount, which two
\* loops and a query in between compute, are those of the lines a confirmation
\* would insert, and no two of those lines have the same external id.
PreviewAddsUp ==
    \A f \in Files : preview[f] # NoPreview =>
        /\ preview[f].valid = Cardinality(ValidLines(f))
        /\ preview[f].valid + preview[f].invalid = Len(LinesOf[f])
        /\ preview[f].cents = Cents(f, ValidLines(f))
        /\ \A m, n \in ValidLines(f) :
              m # n => LinesOf[f][m].id # LinesOf[f][n].id
                       \/ LinesOf[f][n].id = NoId

\* However many confirmations race, and wherever they die, the lines of an
\* import become boletos once if it is CONFIRMED and never otherwise.
ConfirmedOnce ==
    \A f \in Files :
        inserted[f] = IF preview[f].status = "CONFIRMED" THEN 1 ELSE 0

\* A campaign that may be issued has a boleto to issue (ConfirmImport refuses
\* an import without valid lines, and counts them from the preview).
ReadyHasBoletos ==
    draft # "DRAFT" =>
        \E f \in Files : inserted[f] > 0 /\ ValidLines(f) # {}
=============================================================================
