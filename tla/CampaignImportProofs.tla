------------------------ MODULE CampaignImportProofs ------------------------
(***************************************************************************)
(* Proofs about CampaignImport, for any files, lines and numbers of uploads  *)
(* and confirmations, and about the amounts of its lines, MoneyText, for any *)
(* texts and width of integers.  The row lock makes the confirmations of a   *)
(* file take turns, and an upload that finds it known changes nothing but    *)
(* its expiry.                                                              *)
(***************************************************************************)
EXTENDS CampaignImport, MoneyText, Arithmetic, SequenceTheorems, TLAPS

\* A saved preview with all its fields.
Saved(p) == \E status \in {"PREVIEWED", "CONFIRMED"} :
    \E code, valid, invalid, cents, expires :
        p = [status |-> status, code |-> code, valid |-> valid,
             invalid |-> invalid, cents |-> cents, expires |-> expires]

NullLines(f, code) == {n \in Lines(f) : code[n] = "NULL"}

PreviewInv(f) ==
    \/ preview[f] = NoPreview
    \/ /\ Saved(preview[f])
       /\ preview[f].valid > 0 => NullLines(f, preview[f].code) # {}

\* What an upload is about to save counts lines that it has accepted.
UploadInv(u) ==
    /\ upload[u].pc \in {"lookup", "save"} => upload[u].file \in Files
    /\ upload[u].pc = "save" /\ upload[u].totals.valid > 0
          => NullLines(upload[u].file, upload[u].code) # {}

ConfirmInv(q) ==
    /\ confirm[q] = NoConfirm \/ confirm[q] \in [pc: {"lock", "insert"}, file: Files]
    /\ confirm[q].pc = "insert" =>
          /\ preview[confirm[q].file] # NoPreview
          /\ preview[confirm[q].file].status = "PREVIEWED"
          /\ preview[confirm[q].file].valid > 0

\* SELECT ... FOR UPDATE
OneHoldsLock ==
    \A q, r \in Confirms :
        /\ confirm[q].pc = "insert" /\ confirm[r].pc = "insert"
        /\ confirm[q].file = confirm[r].file
        => q = r

ImportInv ==
    /\ preview = [f \in Files |-> preview[f]]
    /\ inserted \in [Files -> Nat]
    /\ upload = [u \in Uploads |-> upload[u]]
    /\ confirm = [q \in Confirms |-> confirm[q]]
    /\ \A f \in Files : PreviewInv(f)
    /\ \A u \in Uploads : UploadInv(u)
    /\ \A q \in Confirms : ConfirmInv(q)
    /\ OneHoldsLock
    /\ ConfirmedOnce
    /\ ReadyHasBoletos

-----------------------------------------------------------------------------
\* The two loops of PreviewCSV: what is left of the count after the second one
\* are lines it has left alone.
LEMMA CountedLinesAreLeft ==
    ASSUME NEW f \in Files, NEW code, NEW known, Totals(f, code, known).valid > 0
    PROVE  \E n \in Lines(f) : code[n] = "NULL" /\ LinesOf[f][n].id \notin known
<1> DEFINE ok == {n \in Lines(f) : code[n] = "NULL"}
           lost == {n \in ok : LinesOf[f][n].id \in known}
<1>1. Totals(f, code, known).valid = Cardinality(ok) - Cardinality(lost)
  BY DEF Totals
<1>2. IsFiniteSet(ok)
  <2>1. LinesOf[f] \in Seq(Line)
    BY ImportFiles
  <2>2. Lines(f) = 1 .. Len(LinesOf[f]) /\ Len(LinesOf[f]) \in Nat
    BY <2>1 DEF Lines
  <2>3. IsFiniteSet(Lines(f))
    BY <2>2, FS_Interval
  <2>4. QED
    BY <2>3, FS_Subset
<1>3. Cardinality(ok) \in Nat
  BY <1>2, FS_CardinalityType
<1>4. ok # lost
  <2>1. ASSUME ok = lost PROVE FALSE
    <3>1. Cardinality(lost) = Cardinality(ok)
      BY <2>1
    <3>2. Cardinality(ok) - Cardinality(lost) = 0
      BY <1>3, <3>1
    <3>3. QED
      BY <1>1, <3>2
  <2>2. QED
    BY <2>1
<1>5. QED
  BY <1>4

\* A known file is renewed, and keeps everything else.
LEMMA RenewedIsSaved ==
    ASSUME NEW p, Saved(p), NEW day, NEW q, q = [p EXCEPT !.expires = day]
    PROVE  /\ Saved(q) /\ q.status = p.status /\ q.code = p.code
           /\ q.valid = p.valid /\ q.invalid = p.invalid /\ q.cents = p.cents
<1>. PICK status \in {"PREVIEWED", "CONFIRMED"} :
       \E code, valid, invalid, cents, expires :
           p = [status |-> status, code |-> code, valid |-> valid,
                invalid |-> invalid, cents |-> cents, expires |-> expires]
  BY DEF Saved
<1>. PICK code, valid, invalid, cents, expires :
       p = [status |-> status, code |-> code, valid |-> valid,
            invalid |-> invalid, cents |-> cents, expires |-> expires]
  OBVIOUS
<1>1. q = [status |-> status, code |-> code, valid |-> valid,
           invalid |-> invalid, cents |-> cents, expires |-> day]
  OBVIOUS
<1>2. Saved(q)
  BY <1>1 DEF Saved
<1>3. QED
  BY <1>1, <1>2

\* A step that inserts nothing has only to keep what is known of the calls and
\* of the previews.
LEMMA NothingInserted ==
    ASSUME ImportInv, UNCHANGED <<draft, inserted>>,
           preview' = [f \in Files |-> preview'[f]],
           upload' = [u \in Uploads |-> upload'[u]],
           confirm' = [q \in Confirms |-> confirm'[q]],
           \A f \in Files :
               /\ preview[f] # NoPreview =>
                     /\ preview'[f] # NoPreview
                     /\ preview'[f].status = preview[f].status
                     /\ preview'[f].code = preview[f].code
                     /\ preview'[f].valid = preview[f].valid
               /\ preview[f] = NoPreview =>
                     preview'[f] = NoPreview \/ preview'[f].status = "PREVIEWED",
           \A f \in Files : PreviewInv(f)', \A u \in Uploads : UploadInv(u)',
           \A q \in Confirms : ConfirmInv(q)', OneHoldsLock'
    PROVE  ImportInv'
<1>1. NoPreview.status # "CONFIRMED"
  BY DEF NoPreview
<1>2. ASSUME NEW f \in Files
      PROVE  (preview'[f].status = "CONFIRMED") <=> (preview[f].status = "CONFIRMED")
  BY <1>1
<1>3. ConfirmedOnce'
  BY <1>2 DEF ImportInv, ConfirmedOnce
<1>4. ReadyHasBoletos'
  <2>1. SUFFICES ASSUME draft # "DRAFT"
                 PROVE  ReadyHasBoletos'
    BY DEF ReadyHasBoletos
  <2>2. PICK f \in Files : inserted[f] > 0 /\ ValidLines(f) # {}
    BY <2>1 DEF ImportInv, ReadyHasBoletos
  <2>3. preview[f].status = "CONFIRMED"
    BY <2>2 DEF ImportInv, ConfirmedOnce
  <2>4. preview'[f].code = preview[f].code
    BY <1>1, <2>3
  <2>5. ValidLines(f)' = ValidLines(f)
    BY <2>4 DEF ValidLines
  <2>6. QED
    BY <2>2, <2>5 DEF ReadyHasBoletos
<1>5. QED
  BY <1>3, <1>4 DEF ImportInv

\* The calls' own steps.
LEMMA UploadKeepsInv ==
    ASSUME ImportInv, NEW u \in Uploads, UploadStep(u)
    PROVE  ImportInv'
<1>1. /\ \A f \in Files : PreviewInv(f)
      /\ \A v \in Uploads : UploadInv(v)
      /\ \A q \in Confirms : ConfirmInv(q)
      /\ OneHoldsLock
      /\ preview = [f \in Files |-> preview[f]]
      /\ upload = [v \in Uploads |-> upload[v]]
      /\ confirm = [q \in Confirms |-> confirm[q]]
  BY DEF ImportInv
<1>2. UNCHANGED <<draft, inserted, taken, confirm, today>>
  BY DEF UploadStep, UploadParse, UploadLookup, SavePreview, UploadFails
<1>3. PICK w : upload' = [upload EXCEPT ![u] = w]
  BY DEF UploadStep, UploadParse, UploadLookup, SavePreview, UploadFails
<1>4. /\ upload' = [v \in Uploads |-> upload'[v]] /\ upload'[u] = w
      /\ \A v \in Uploads \ {u} : upload'[v] = upload[v]
  BY <1>1, <1>3
<1>5. OneHoldsLock'
  BY <1>1, <1>2 DEF OneHoldsLock
<1>6. ASSUME UploadInv(u)', UNCHANGED preview
      PROVE  ImportInv'
  <2>1. \A f \in Files : PreviewInv(f)'
    BY <1>1, <1>6 DEF PreviewInv
  <2>2. ASSUME NEW v \in Uploads PROVE UploadInv(v)'
    <3>1. CASE v = u
      BY <1>6, <3>1
    <3>2. CASE v # u
      BY <1>1, <1>4, <3>2 DEF UploadInv
    <3>3. QED
      BY <3>1, <3>2
  <2>3. \A q \in Confirms : ConfirmInv(q)'
    BY <1>1, <1>2, <1>6 DEF ConfirmInv
  <2>4. confirm' = [q \in Confirms |-> confirm'[q]]
        /\ preview' = [f \in Files |-> preview'[f]]
    BY <1>1, <1>2, <1>6
  <2>5. \A f \in Files :
          /\ preview[f] # NoPreview =>
                /\ preview'[f] # NoPreview
                /\ preview'[f].status = preview[f].status
                /\ preview'[f].code = preview[f].code
                /\ preview'[f].valid = preview[f].valid
          /\ preview[f] = NoPreview =>
                preview'[f] = NoPreview \/ preview'[f].status = "PREVIEWED"
    BY <1>6
  <2>6. QED
    BY <1>2, <1>4, <1>5, <2>1, <2>2, <2>3, <2>4, <2>5, NothingInserted
<1>7. ASSUME NEW f \in Files, UploadParse(u, f)
      PROVE  ImportInv'
  <2>1. upload'[u].pc = "lookup" /\ upload'[u].file = f /\ UNCHANGED preview
    BY <1>1, <1>7 DEF UploadParse
  <2>2. QED
    BY <1>6, <2>1 DEF UploadInv
<1>8. CASE UploadLookup(u)
  <2>. PICK f : f = upload[u].file
    OBVIOUS
  <2>1. f \in Files /\ UNCHANGED preview
    BY <1>1, <1>8 DEF UploadLookup, UploadInv
  <2>2. /\ upload'[u].pc = "save" /\ upload'[u].file = f
        /\ upload'[u].totals = Totals(f, upload[u].code, taken)
        /\ upload'[u].code =
             [n \in Lines(f) |->
                IF upload[u].code[n] = "NULL" /\ LinesOf[f][n].id \in taken
                THEN "DUPLICATE_EXTERNAL_ID" ELSE upload[u].code[n]]
    BY <1>1, <1>8 DEF UploadLookup
  <2>3. ASSUME upload'[u].totals.valid > 0
        PROVE  NullLines(f, upload'[u].code) # {}
    <3>1. PICK n \in Lines(f) :
            upload[u].code[n] = "NULL" /\ LinesOf[f][n].id \notin taken
      BY <2>1, <2>2, <2>3, CountedLinesAreLeft
    <3>2. upload'[u].code[n] = "NULL"
      BY <2>2, <3>1
    <3>3. QED
      BY <3>2 DEF NullLines
  <2>4. UploadInv(u)'
    BY <2>1, <2>2, <2>3 DEF UploadInv, NullLines
  <2>5. QED
    BY <1>6, <2>1, <2>4
<1>9. CASE UploadFails(u)
  <2>1. upload'[u] = NoUpload /\ UNCHANGED preview
    BY <1>1, <1>9 DEF UploadFails
  <2>2. QED
    BY <1>6, <2>1 DEF UploadInv, NoUpload
<1>10. CASE SavePreview(u)
  <2>. PICK f \in Files : f = upload[u].file
    BY <1>1, <1>10 DEF SavePreview, UploadInv
  <2>1. /\ \A g \in Files \ {f} : preview'[g] = preview[g]
        /\ preview' = [g \in Files |-> preview'[g]]
        /\ upload'[u] = NoUpload /\ ~ Locked(f)
    BY <1>1, <1>10 DEF SavePreview
  <2>2. CASE preview[f] = NoPreview
    <3>1. preview'[f] = [status |-> "PREVIEWED", code |-> upload[u].code,
                         valid |-> upload[u].totals.valid,
                         invalid |-> upload[u].totals.invalid,
                         cents |-> upload[u].totals.cents, expires |-> today + 1]
      BY <1>1, <1>10, <2>2 DEF SavePreview
    <3>2. Saved(preview'[f])
      BY <3>1 DEF Saved
    <3>3. preview'[f].valid > 0 => NullLines(f, preview'[f].code) # {}
      BY <1>1, <1>10, <3>1 DEF SavePreview, UploadInv
    <3>4. PreviewInv(f)' /\ preview'[f].status = "PREVIEWED"
      BY <3>1, <3>2, <3>3 DEF PreviewInv, NullLines
    <3>5. QED
      <4>1. \A g \in Files : PreviewInv(g)'
        BY <1>1, <2>1, <3>4 DEF PreviewInv
      <4>2. \A q \in Confirms : ConfirmInv(q)'
        <5>1. \A g \in Files : preview[g] # NoPreview => preview'[g] = preview[g]
          BY <2>1, <2>2
        <5>2. QED
          BY <1>1, <1>2, <5>1 DEF ConfirmInv, NoConfirm
      <4>3. \A v \in Uploads : UploadInv(v)'
        <5>1. UploadInv(u)'
          BY <2>1 DEF UploadInv, NoUpload
        <5>2. \A v \in Uploads \ {u} : UploadInv(v)'
          BY <1>1, <1>4 DEF UploadInv
        <5>3. QED
          BY <5>1, <5>2
      <4>4. confirm' = [q \in Confirms |-> confirm'[q]]
        BY <1>1, <1>2
      <4>5. \A g \in Files :
              /\ preview[g] # NoPreview =>
                    /\ preview'[g] # NoPreview
                    /\ preview'[g].status = preview[g].status
                    /\ preview'[g].code = preview[g].code
                    /\ preview'[g].valid = preview[g].valid
              /\ preview[g] = NoPreview =>
                    preview'[g] = NoPreview \/ preview'[g].status = "PREVIEWED"
        BY <2>1, <2>2, <3>4
      <4>6. QED
        BY <1>2, <1>4, <1>5, <2>1, <4>1, <4>2, <4>3, <4>4, <4>5, NothingInserted
  <2>3. CASE preview[f] # NoPreview
    <3>1. preview'[f] = [preview[f] EXCEPT !.expires = today + 1]
      BY <1>1, <1>10, <2>3 DEF SavePreview
    <3>2. Saved(preview[f])
      BY <1>1, <2>3 DEF PreviewInv
    <3>3. /\ Saved(preview'[f])
          /\ preview'[f].status = preview[f].status
          /\ preview'[f].code = preview[f].code
          /\ preview'[f].valid = preview[f].valid
      BY <3>1, <3>2, RenewedIsSaved
    <3>4. preview'[f] # NoPreview
      BY <3>3 DEF Saved, NoPreview
    <3>5. PreviewInv(f)'
      BY <1>1, <2>3, <3>3 DEF PreviewInv, NullLines
    <3>6. QED
      <4>1. \A g \in Files : PreviewInv(g)'
        BY <1>1, <2>1, <3>5 DEF PreviewInv
      <4>2. \A q \in Confirms : ConfirmInv(q)'
        <5>1. \A g \in Files : preview[g] # NoPreview =>
                /\ preview'[g] # NoPreview
                /\ preview'[g].status = preview[g].status
                /\ preview'[g].valid = preview[g].valid
          BY <2>1, <3>3, <3>4
        <5>2. QED
          BY <1>1, <1>2, <5>1 DEF ConfirmInv, NoConfirm
      <4>3. \A v \in Uploads : UploadInv(v)'
        <5>1. UploadInv(u)'
          BY <2>1 DEF UploadInv, NoUpload
        <5>2. \A v \in Uploads \ {u} : UploadInv(v)'
          BY <1>1, <1>4 DEF UploadInv
        <5>3. QED
          BY <5>1, <5>2
      <4>4. confirm' = [q \in Confirms |-> confirm'[q]]
        BY <1>1, <1>2
      <4>5. \A g \in Files :
              /\ preview[g] # NoPreview =>
                    /\ preview'[g] # NoPreview
                    /\ preview'[g].status = preview[g].status
                    /\ preview'[g].code = preview[g].code
                    /\ preview'[g].valid = preview[g].valid
              /\ preview[g] = NoPreview =>
                    preview'[g] = NoPreview \/ preview'[g].status = "PREVIEWED"
        BY <2>1, <2>3, <3>3, <3>4
      <4>6. QED
        BY <1>2, <1>4, <1>5, <2>1, <4>1, <4>2, <4>3, <4>4, <4>5, NothingInserted
  <2>4. QED
    BY <2>2, <2>3
<1>11. QED
  BY <1>7, <1>8, <1>9, <1>10 DEF UploadStep

\* A call that does not insert locks nobody out.
LEMMA LockIsFree ==
    ASSUME OneHoldsLock, NEW q \in Confirms, confirm'[q].pc # "insert",
           \A r \in Confirms \ {q} : confirm'[r] = confirm[r]
    PROVE  OneHoldsLock'
<1>1. ASSUME NEW r \in Confirms, NEW t \in Confirms, confirm'[r].pc = "insert",
             confirm'[t].pc = "insert", confirm'[r].file = confirm'[t].file
      PROVE  r = t
  <2>1. r # q /\ t # q
    BY <1>1
  <2>2. confirm'[r] = confirm[r] /\ confirm'[t] = confirm[t]
    BY <2>1
  <2>3. QED
    BY <1>1, <2>2 DEF OneHoldsLock
<1>2. QED
  BY <1>1 DEF OneHoldsLock

\* Confirmations that write nothing: what they wait for is checked under the lock.
LEMMA ConfirmKeepsInv ==
    ASSUME ImportInv, NEW q \in Confirms,
           (\E f \in Files : ConfirmBegin(q, f)) \/ ConfirmLock(q) \/ ConfirmRollback(q)
    PROVE  ImportInv'
<1>1. /\ \A f \in Files : PreviewInv(f)
      /\ \A u \in Uploads : UploadInv(u)
      /\ \A r \in Confirms : ConfirmInv(r)
      /\ OneHoldsLock
      /\ preview = [f \in Files |-> preview[f]]
      /\ upload = [u \in Uploads |-> upload[u]]
      /\ confirm = [r \in Confirms |-> confirm[r]]
  BY DEF ImportInv
<1>2. UNCHANGED <<draft, preview, inserted, taken, upload, today>>
  BY DEF ConfirmBegin, ConfirmLock, ConfirmRollback
<1>3. /\ \A r \in Confirms \ {q} : confirm'[r] = confirm[r]
      /\ confirm' = [r \in Confirms |-> confirm'[r]]
  BY <1>1 DEF ConfirmBegin, ConfirmLock, ConfirmRollback
<1>4. ConfirmInv(q)' /\ OneHoldsLock'
  <2>1. ASSUME NEW f \in Files, ConfirmBegin(q, f)
        PROVE  ConfirmInv(q)' /\ OneHoldsLock'
    <3>1. confirm'[q] = [pc |-> "lock", file |-> f]
      BY <1>1, <2>1 DEF ConfirmBegin
    <3>2. ConfirmInv(q)'
      BY <3>1 DEF ConfirmInv
    <3>3. confirm'[q].pc # "insert"
      BY <3>1
    <3>4. QED
      BY <1>1, <1>3, <3>2, <3>3, LockIsFree
  <2>2. CASE ConfirmRollback(q)
    <3>1. confirm'[q] = NoConfirm
      BY <1>1, <2>2 DEF ConfirmRollback
    <3>2. ConfirmInv(q)' /\ confirm'[q].pc # "insert"
      BY <3>1 DEF ConfirmInv, NoConfirm
    <3>3. QED
      BY <1>1, <1>3, <3>2, LockIsFree
  <2>3. CASE ConfirmLock(q)
    <3>. PICK f : f = confirm[q].file
      OBVIOUS
    <3>1. /\ confirm[q].pc = "lock" /\ ~ Locked(f) /\ preview[f] # NoPreview
          /\ preview[f].status = "PREVIEWED" /\ preview[f].valid > 0
          /\ confirm' = [confirm EXCEPT ![q].pc = "insert"]
      BY <2>3 DEF ConfirmLock
    <3>2. confirm[q] \in [pc: {"lock", "insert"}, file: Files]
      BY <1>1, <3>1 DEF ConfirmInv, NoConfirm
    <3>3. confirm'[q] = [pc |-> "insert", file |-> f] /\ f \in Files
      BY <1>1, <3>1, <3>2
    <3>4. ConfirmInv(q)'
      BY <1>2, <3>1, <3>3 DEF ConfirmInv
    <3>5. OneHoldsLock'
      BY <1>1, <1>3, <3>1, <3>3 DEF OneHoldsLock, Locked
    <3>6. QED
      BY <3>4, <3>5
  <2>4. QED
    BY <2>1, <2>2, <2>3
<1>5. \A r \in Confirms : ConfirmInv(r)'
  BY <1>1, <1>2, <1>3, <1>4 DEF ConfirmInv
<1>6. (\A f \in Files : PreviewInv(f)') /\ \A u \in Uploads : UploadInv(u)'
  BY <1>1, <1>2 DEF PreviewInv, UploadInv
<1>7. \A f \in Files :
        /\ preview[f] # NoPreview =>
              /\ preview'[f] # NoPreview
              /\ preview'[f].status = preview[f].status
              /\ preview'[f].code = preview[f].code
              /\ preview'[f].valid = preview[f].valid
        /\ preview[f] = NoPreview =>
              preview'[f] = NoPreview \/ preview'[f].status = "PREVIEWED"
  BY <1>2
<1>8. /\ preview' = [f \in Files |-> preview'[f]]
      /\ upload' = [u \in Uploads |-> upload'[u]]
  BY <1>1, <1>2
<1>9. QED
  BY <1>2, <1>3, <1>4, <1>5, <1>6, <1>7, <1>8, NothingInserted

\* A confirmed preview keeps its lines.
LEMMA ConfirmedIsSaved ==
    ASSUME NEW p, Saved(p), NEW q, q = [p EXCEPT !.status = "CONFIRMED"]
    PROVE  /\ Saved(q) /\ q # NoPreview
           /\ q.status = "CONFIRMED" /\ q.code = p.code
           /\ q.valid = p.valid /\ q.invalid = p.invalid /\ q.cents = p.cents
<1>. PICK status \in {"PREVIEWED", "CONFIRMED"} :
       \E code, valid, invalid, cents, expires :
           p = [status |-> status, code |-> code, valid |-> valid,
                invalid |-> invalid, cents |-> cents, expires |-> expires]
  BY DEF Saved
<1>. PICK code, valid, invalid, cents, expires :
       p = [status |-> status, code |-> code, valid |-> valid,
            invalid |-> invalid, cents |-> cents, expires |-> expires]
  OBVIOUS
<1>1. q = [status |-> "CONFIRMED", code |-> code, valid |-> valid,
           invalid |-> invalid, cents |-> cents, expires |-> expires]
  OBVIOUS
<1>2. Saved(q)
  BY <1>1 DEF Saved
<1>3. q # NoPreview
  BY <1>1 DEF NoPreview
<1>4. QED
  BY <1>1, <1>2, <1>3

\* The confirmation that holds the lock is the only one of its file.
LEMMA CommitKeepsInv ==
    ASSUME ImportInv, NEW q \in Confirms, ConfirmCommit(q)
    PROVE  ImportInv'
<1>1. /\ \A f \in Files : PreviewInv(f)
      /\ \A u \in Uploads : UploadInv(u)
      /\ \A r \in Confirms : ConfirmInv(r)
      /\ OneHoldsLock /\ ConfirmedOnce
      /\ inserted \in [Files -> Nat]
      /\ preview = [f \in Files |-> preview[f]]
      /\ upload = [u \in Uploads |-> upload[u]]
      /\ confirm = [r \in Confirms |-> confirm[r]]
  BY DEF ImportInv
<1>2. confirm[q].pc = "insert" /\ confirm[q] \in [pc: {"lock", "insert"}, file: Files]
  BY <1>1 DEF ConfirmCommit, ConfirmInv, NoConfirm
<1>. PICK f \in Files : f = confirm[q].file
  BY <1>2
<1>3. /\ inserted' = [inserted EXCEPT ![f] = @ + 1]
      /\ preview' = [preview EXCEPT ![f].status = "CONFIRMED"]
      /\ confirm' = [confirm EXCEPT ![q] = NoConfirm]
      /\ UNCHANGED <<upload, today>>
      /\ draft' = IF draft = "DRAFT" THEN "READY" ELSE draft
  BY DEF ConfirmCommit
<1>4. /\ preview[f] # NoPreview /\ preview[f].status = "PREVIEWED"
      /\ preview[f].valid > 0 /\ Saved(preview[f])
      /\ NullLines(f, preview[f].code) # {}
  BY <1>1, <1>2 DEF ConfirmInv, PreviewInv
<1>5. /\ preview' = [g \in Files |-> preview'[g]]
      /\ preview'[f] = [preview[f] EXCEPT !.status = "CONFIRMED"]
      /\ \A g \in Files \ {f} : preview'[g] = preview[g]
  BY <1>1, <1>3
<1>6. /\ Saved(preview'[f]) /\ preview'[f] # NoPreview
      /\ preview'[f].status = "CONFIRMED" /\ preview'[f].code = preview[f].code
      /\ preview'[f].valid = preview[f].valid
  BY <1>4, <1>5, ConfirmedIsSaved
<1>7. /\ inserted' \in [Files -> Nat] /\ inserted'[f] = 1
      /\ \A g \in Files \ {f} : inserted'[g] = inserted[g]
  BY <1>1, <1>3, <1>4 DEF ConfirmedOnce
<1>8. /\ confirm' = [r \in Confirms |-> confirm'[r]] /\ confirm'[q] = NoConfirm
      /\ \A r \in Confirms \ {q} : confirm'[r] = confirm[r]
      /\ upload' = [u \in Uploads |-> upload'[u]]
  BY <1>1, <1>3
<1>9. \A g \in Files : PreviewInv(g)'
  BY <1>1, <1>4, <1>5, <1>6 DEF PreviewInv, NullLines
<1>10. \A u \in Uploads : UploadInv(u)'
  BY <1>1, <1>3 DEF UploadInv, NullLines
<1>11. ASSUME NEW r \in Confirms PROVE ConfirmInv(r)'
  <2>1. CASE r = q
    BY <1>8, <2>1 DEF ConfirmInv, NoConfirm
  <2>2. CASE r # q
    <3>1. confirm'[r] = confirm[r] /\ ConfirmInv(r)
      BY <1>1, <1>8, <2>2
    <3>2. confirm[r].pc = "insert" => confirm[r].file \in Files \ {f}
      BY <1>1, <1>2, <2>2, <3>1 DEF OneHoldsLock, ConfirmInv, NoConfirm
    <3>3. QED
      BY <1>5, <3>1, <3>2 DEF ConfirmInv
  <2>3. QED
    BY <2>1, <2>2
<1>12. OneHoldsLock'
  <2>1. confirm'[q].pc # "insert"
    BY <1>8 DEF NoConfirm
  <2>2. QED
    BY <1>1, <1>8, <2>1, LockIsFree
<1>13. ConfirmedOnce'
  BY <1>1, <1>5, <1>6, <1>7 DEF ConfirmedOnce
<1>14. ReadyHasBoletos'
  <2>1. ValidLines(f)' # {}
    BY <1>4, <1>6 DEF ValidLines, NullLines
  <2>2. QED
    BY <1>7, <2>1 DEF ReadyHasBoletos
<1>15. QED
  BY <1>5, <1>7, <1>8, <1>9, <1>10, <1>11, <1>12, <1>13, <1>14 DEF ImportInv

\* Every step keeps the invariant of the imports.
LEMMA ImportInvHolds == ImportSpec => []ImportInv
<1>1. ImportInit => ImportInv
  <2> SUFFICES ASSUME ImportInit PROVE ImportInv
    OBVIOUS
  <2>1. /\ \A f \in Files : PreviewInv(f)
        /\ \A u \in Uploads : UploadInv(u)
        /\ \A q \in Confirms : ConfirmInv(q)
        /\ OneHoldsLock
    <3>1. /\ \A f \in Files : preview[f] = NoPreview
          /\ \A u \in Uploads : upload[u].pc = "idle"
          /\ \A q \in Confirms : confirm[q] = NoConfirm /\ confirm[q].pc = "idle"
      BY DEF ImportInit, NoUpload, NoConfirm
    <3>2. QED
      BY <3>1 DEF PreviewInv, UploadInv, ConfirmInv, OneHoldsLock
  <2>2. ConfirmedOnce /\ ReadyHasBoletos
    BY DEF ImportInit, ConfirmedOnce, ReadyHasBoletos, NoPreview
  <2>3. /\ preview = [f \in Files |-> preview[f]]
        /\ inserted \in [Files -> Nat]
        /\ upload = [u \in Uploads |-> upload[u]]
        /\ confirm = [q \in Confirms |-> confirm[q]]
    BY DEF ImportInit
  <2>4. QED
    BY <2>1, <2>2, <2>3 DEF ImportInv
<1>2. ImportInv /\ [ImportNext]_importVars => ImportInv'
  <2> SUFFICES ASSUME ImportInv, [ImportNext]_importVars
               PROVE  ImportInv'
    OBVIOUS
  <2>1. ASSUME NEW u \in Uploads, UploadStep(u)
        PROVE  ImportInv'
    BY <2>1, UploadKeepsInv
  <2>2. ASSUME NEW q \in Confirms, ConfirmStep(q)
        PROVE  ImportInv'
    BY <2>2, ConfirmKeepsInv, CommitKeepsInv DEF ConfirmStep
  <2>3. CASE \/ StartIssuance \/ (\E x \in ExternalIds : TakeId(x)) \/ NextDay
             \/ UNCHANGED importVars
    <3>1. /\ UNCHANGED <<preview, inserted, upload, confirm>>
          /\ draft' # "DRAFT" => draft # "DRAFT"
      BY <2>3 DEF StartIssuance, TakeId, NextDay, importVars
    <3>2. ConfirmedOnce' /\ ReadyHasBoletos'
      BY <3>1 DEF ImportInv, ConfirmedOnce, ReadyHasBoletos, ValidLines
    <3>3. /\ \A f \in Files : PreviewInv(f)'
          /\ \A u \in Uploads : UploadInv(u)'
          /\ \A q \in Confirms : ConfirmInv(q)'
          /\ OneHoldsLock'
      BY <3>1 DEF ImportInv, PreviewInv, UploadInv, ConfirmInv, OneHoldsLock,
         NullLines
    <3>4. QED
      BY <3>1, <3>2, <3>3 DEF ImportInv
  <2>4. QED
    BY <2>1, <2>2, <2>3 DEF ImportNext
<1>3. QED
  BY <1>1, <1>2, PTL DEF ImportSpec

\* However many confirmations race and wherever they die, the lines of an import
\* become boletos once if it is CONFIRMED and never otherwise.
THEOREM ImportsAreConfirmedOnce == ImportSpec => []ConfirmedOnce
<1>1. ImportInv => ConfirmedOnce
  BY DEF ImportInv
<1>2. QED
  BY <1>1, ImportInvHolds, PTL

\* A campaign that may be issued has a boleto to issue, though the counter that
\* Confirm looks at is computed by two loops with a query in between.
THEOREM ReadyCampaignsHaveBoletos == ImportSpec => []ReadyHasBoletos
<1>1. ImportInv => ReadyHasBoletos
  BY DEF ImportInv
<1>2. QED
  BY <1>1, ImportInvHolds, PTL

-----------------------------------------------------------------------------
(* What is saved of a preview adds up.                                     *)

\* The counters and the amount are those of the lines without an error.
Balanced(f, code, valid, invalid, cents) ==
    /\ valid = Cardinality(NullLines(f, code))
    /\ valid + invalid = Len(LinesOf[f])
    /\ cents = Cents(f, NullLines(f, code))

\* No two lines without an error have the same external id.
Distinct(f, code) ==
    \A m, n \in NullLines(f, code) :
        m # n => LinesOf[f][m].id # LinesOf[f][n].id \/ LinesOf[f][n].id = NoId

SavedAddsUp(f) ==
    preview[f] # NoPreview =>
        /\ Balanced(f, preview[f].code, preview[f].valid, preview[f].invalid,
                    preview[f].cents)
        /\ Distinct(f, preview[f].code)

\* The calls' lines are distinct after the first loop, and balanced after the
\* second one.
UploadAddsUp(u) ==
    /\ upload[u].pc \in {"lookup", "save"} => Distinct(upload[u].file, upload[u].code)
    /\ upload[u].pc = "save" =>
          Balanced(upload[u].file, upload[u].code, upload[u].totals.valid,
                   upload[u].totals.invalid, upload[u].totals.cents)

AddsUpInv ==
    /\ \A f \in Files : SavedAddsUp(f)
    /\ \A u \in Uploads : UploadAddsUp(u)

\* A file has finitely many lines.
LEMMA LinesAreFinite ==
    ASSUME NEW f \in Files
    PROVE  /\ Lines(f) = 1 .. Len(LinesOf[f]) /\ Len(LinesOf[f]) \in Nat
           /\ \A n \in Lines(f) : LinesOf[f][n] \in Line
           /\ IsFiniteSet(Lines(f)) /\ Cardinality(Lines(f)) = Len(LinesOf[f])
<1>1. LinesOf[f] \in Seq(Line)
  BY ImportFiles
<1>2. /\ Lines(f) = 1 .. Len(LinesOf[f]) /\ Len(LinesOf[f]) \in Nat
      /\ \A n \in Lines(f) : LinesOf[f][n] \in Line
  BY <1>1 DEF Lines
<1>3. PICK k \in Nat : k = Len(LinesOf[f])
  BY <1>2
<1>4. IsFiniteSet(1 .. k) /\ Cardinality(1 .. k) = k
  <2>1. IsFiniteSet(1 .. k) /\ Cardinality(1 .. k) = IF 1 > k THEN 0 ELSE k - 1 + 1
    BY FS_Interval
  <2>2. QED
    BY <2>1
<1>5. QED
  BY <1>2, <1>3, <1>4

\* The difference of two amounts wraps to what the amount of the difference
\* wraps to.
LEMMA WrappedDifference ==
    ASSUME NEW a \in Int, NEW b \in Int
    PROVE  Wrapped(Wrapped(a) - Wrapped(b)) = Wrapped(a - b)
<1> DEFINE m == 2 * Wraps
           x == a + Wraps
           y == b + Wraps
           z == a - b + Wraps
<1>1. m \in Nat \ {0} /\ x \in Int /\ y \in Int /\ z \in Int /\ Wraps \in Nat
  BY ImportBounds
<1>2. PICK p \in Int, q \in Int : x % m = x - m * p /\ y % m = y - m * q
  <2> HIDE DEF m, x, y
  <2> QED
    BY <1>1, Quotient
<1>3. Wrapped(a) = (x - m * p) - Wraps /\ Wrapped(b) = (y - m * q) - Wraps
  BY <1>2 DEF Wrapped
<1>4. Wrapped(a) - Wrapped(b) + Wraps = z + m * (q - p)
  BY <1>1, <1>3
<1>5. (z + m * (q - p)) % m = z % m
  <2>1. q - p \in Int
    OBVIOUS
  <2> HIDE DEF m, z
  <2>2. QED
    BY <1>1, <2>1, ModPlus
<1>6. QED
  BY <1>4, <1>5 DEF Wrapped

\* The amount of the lines that are left.
LEMMA CentsOfTheRest ==
    ASSUME NEW f \in Files, NEW T \in SUBSET Lines(f), NEW P \in SUBSET T
    PROVE  Wrapped(Cents(f, T) - Cents(f, P)) = Cents(f, T \ P)
<1> DEFINE g == [n \in Lines(f) |-> LinesOf[f][n].cents]
           sum(X) == SumFunctionOnSet(g, X)
<1>1. IsFiniteSet(T) /\ IsFiniteSet(P) /\ IsFiniteSet(T \ P)
  BY LinesAreFinite, FS_Subset
<1>2. \A n \in Lines(f) : g[n] \in Int
  BY LinesAreFinite, ImportBounds DEF Line
<1>3. IsIntOn(g, T) /\ IsIntOn(g, P) /\ IsIntOn(g, T \ P)
  BY <1>2 DEF IsIntOn
<1>4. Cents(f, T) = Wrapped(sum(T)) /\ Cents(f, P) = Wrapped(sum(P))
      /\ Cents(f, T \ P) = Wrapped(sum(T \ P))
  BY DEF Cents
<1> HIDE DEF g
<1>5. sum(T) = sum(P) + sum(T \ P)
  BY <1>1, <1>3, SumDisjoint
<1>6. sum(T) \in Int /\ sum(P) \in Int /\ sum(T \ P) \in Int
  BY <1>1, <1>3, SumType
<1> HIDE DEF sum
<1>7. sum(T) - sum(P) = sum(T \ P)
  BY <1>5, <1>6
<1>8. QED
  BY <1>4, <1>6, <1>7, WrappedDifference

\* The first loop: a line whose external id an earlier one has is an error.
LEMMA ParsedAreDistinct ==
    ASSUME NEW f \in Files, NEW code, code = [n \in Lines(f) |-> FirstCode(f, n)]
    PROVE  Distinct(f, code)
<1>1. ASSUME NEW m \in NullLines(f, code), NEW n \in NullLines(f, code), m < n
      PROVE  LinesOf[f][m].id # LinesOf[f][n].id \/ LinesOf[f][n].id = NoId
  <2>1. /\ m \in Lines(f) /\ n \in Lines(f)
        /\ FirstCode(f, m) = "NULL" /\ FirstCode(f, n) = "NULL"
    BY DEF NullLines
  <2>2. LinesOf[f][m].shape # "columns" /\ ~ Repeated(f, n)
    BY <2>1 DEF FirstCode
  <2>3. m \in 1 .. n - 1
    BY <1>1, <2>1, LinesAreFinite
  <2>4. QED
    BY <2>2, <2>3 DEF Repeated
<1>2. ASSUME NEW m \in NullLines(f, code), NEW n \in NullLines(f, code), m # n
      PROVE  LinesOf[f][m].id # LinesOf[f][n].id \/ LinesOf[f][n].id = NoId
  <2>1. m < n \/ n < m
    <3>1. m \in Lines(f) /\ n \in Lines(f)
      BY DEF NullLines
    <3>2. QED
      BY <1>2, <3>1, LinesAreFinite
  <2>2. QED
    BY <1>1, <2>1
<1>3. QED
  BY <1>2 DEF Distinct

\* The second loop: what is left are lines the first one accepted, and counters
\* and amount are corrected by what is lost.
LEMMA LookedUpAddsUp ==
    ASSUME NEW f \in Files, NEW code, NEW known, NEW after,
           after = [n \in Lines(f) |->
                      IF code[n] = "NULL" /\ LinesOf[f][n].id \in known
                      THEN "DUPLICATE_EXTERNAL_ID" ELSE code[n]],
           NEW t, t = Totals(f, code, known)
    PROVE  /\ Distinct(f, code) => Distinct(f, after)
           /\ Balanced(f, after, t.valid, t.invalid, t.cents)
<1> DEFINE all == Lines(f)
           ok == NullLines(f, code)
           lost == {n \in ok : LinesOf[f][n].id \in known}
<1>1. NullLines(f, after) = ok \ lost /\ ok \in SUBSET all /\ lost \in SUBSET ok
  BY DEF NullLines
<1>2. /\ t.valid = Cardinality(ok) - Cardinality(lost)
      /\ t.invalid = Cardinality(all \ ok) + Cardinality(lost)
      /\ t.cents = Wrapped(Cents(f, ok) - Cents(f, lost))
  BY DEF Totals, NullLines
<1>3. /\ IsFiniteSet(all) /\ IsFiniteSet(ok) /\ IsFiniteSet(lost)
      /\ Cardinality(all) = Len(LinesOf[f])
  BY <1>1, LinesAreFinite, FS_Subset
<1>4. /\ Cardinality(all) \in Nat /\ Cardinality(ok) \in Nat /\ Cardinality(lost) \in Nat
  BY <1>3, FS_CardinalityType
<1>5. /\ Cardinality(ok \ lost) = Cardinality(ok) - Cardinality(lost)
      /\ Cardinality(all \ ok) = Cardinality(all) - Cardinality(ok)
  <2>1. ok \cap lost = lost /\ all \cap ok = ok
    BY <1>1
  <2>2. /\ Cardinality(ok \ lost) = Cardinality(ok) - Cardinality(ok \cap lost)
        /\ Cardinality(all \ ok) = Cardinality(all) - Cardinality(all \cap ok)
    BY <1>3, FS_Difference
  <2>3. QED
    BY <2>1, <2>2
<1>6. Distinct(f, code) => Distinct(f, after)
  BY <1>1 DEF Distinct
<1>7. t.cents = Cents(f, ok \ lost)
  BY <1>1, <1>2, CentsOfTheRest
<1>8. t.valid = Cardinality(ok \ lost) /\ t.valid + t.invalid = Cardinality(all)
  <2> PICK c, d, e : c = Cardinality(all) /\ d = Cardinality(ok) /\ e = Cardinality(lost)
    OBVIOUS
  <2>1. t.valid = d - e /\ t.invalid = c - d + e /\ c \in Nat /\ d \in Nat /\ e \in Nat
    BY <1>2, <1>4, <1>5
  <2>2. QED
    BY <1>5, <2>1
<1>9. QED
  BY <1>1, <1>3, <1>6, <1>7, <1>8 DEF Balanced

\* A step that saves nothing new keeps what is saved.
LEMMA KeptAddsUp ==
    ASSUME \A f \in Files : SavedAddsUp(f), NEW f \in Files,
           preview'[f] # NoPreview =>
              /\ preview[f] # NoPreview
              /\ preview'[f].code = preview[f].code
              /\ preview'[f].valid = preview[f].valid
              /\ preview'[f].invalid = preview[f].invalid
              /\ preview'[f].cents = preview[f].cents
    PROVE  SavedAddsUp(f)'
BY DEF SavedAddsUp, Balanced, Distinct, NullLines, Cents

\* An upload's steps.
LEMMA UploadKeepsSums ==
    ASSUME ImportInv, AddsUpInv, NEW u \in Uploads, UploadStep(u)
    PROVE  AddsUpInv'
<1>1. /\ \A f \in Files : SavedAddsUp(f) /\ PreviewInv(f)
      /\ \A v \in Uploads : UploadAddsUp(v) /\ UploadInv(v)
      /\ preview = [f \in Files |-> preview[f]]
      /\ upload = [v \in Uploads |-> upload[v]]
  BY DEF AddsUpInv, ImportInv
<1>2. PICK w : upload' = [upload EXCEPT ![u] = w]
  BY DEF UploadStep, UploadParse, UploadLookup, SavePreview, UploadFails
<1>3. upload'[u] = w /\ \A v \in Uploads \ {u} : upload'[v] = upload[v]
  BY <1>1, <1>2
<1>4. ASSUME UploadAddsUp(u)' PROVE \A v \in Uploads : UploadAddsUp(v)'
  <2>1. ASSUME NEW v \in Uploads, v # u PROVE UploadAddsUp(v)'
    <3>1. upload'[v] = upload[v] /\ UploadAddsUp(v)
      BY <1>1, <1>3, <2>1
    <3>2. QED
      BY <3>1 DEF UploadAddsUp, Balanced, Distinct, NullLines, Cents
  <2>2. QED
    BY <1>4, <2>1
<1>5. ASSUME UploadAddsUp(u)', UNCHANGED preview PROVE AddsUpInv'
  <2>1. \A f \in Files : SavedAddsUp(f)'
    BY <1>1, <1>5, KeptAddsUp
  <2>2. QED
    BY <1>4, <1>5, <2>1 DEF AddsUpInv
<1>6. ASSUME NEW f \in Files, UploadParse(u, f) PROVE AddsUpInv'
  <2>1. /\ upload'[u].pc = "lookup" /\ upload'[u].file = f /\ UNCHANGED preview
        /\ upload'[u].code = [n \in Lines(f) |-> FirstCode(f, n)]
    BY <1>1, <1>6 DEF UploadParse
  <2>2. Distinct(f, upload'[u].code)
    BY <2>1, ParsedAreDistinct
  <2>3. UploadAddsUp(u)'
    BY <2>1, <2>2 DEF UploadAddsUp, Distinct, NullLines
  <2>4. QED
    BY <1>5, <2>1, <2>3
<1>7. CASE UploadLookup(u)
  <2>1. PICK f \in Files : f = upload[u].file
    BY <1>1, <1>7 DEF UploadLookup, UploadInv
  <2>2. PICK code, after, t : /\ code = upload[u].code /\ after = upload'[u].code
                              /\ t = upload'[u].totals
    OBVIOUS
  <2>3. /\ upload'[u].pc = "save" /\ upload'[u].file = f /\ UNCHANGED preview
        /\ t = Totals(f, code, taken)
        /\ after = [n \in Lines(f) |->
                      IF code[n] = "NULL" /\ LinesOf[f][n].id \in taken
                      THEN "DUPLICATE_EXTERNAL_ID" ELSE code[n]]
    BY <1>1, <1>7, <2>1, <2>2 DEF UploadLookup
  <2>4. Distinct(f, code)
    BY <1>1, <1>7, <2>1, <2>2 DEF UploadLookup, UploadAddsUp
  <2>5. Distinct(f, after) /\ Balanced(f, after, t.valid, t.invalid, t.cents)
    BY <2>3, <2>4, LookedUpAddsUp
  <2>6. UploadAddsUp(u)'
    BY <2>2, <2>3, <2>5 DEF UploadAddsUp, Distinct, Balanced, NullLines, Cents
  <2>7. QED
    BY <1>5, <2>3, <2>6
<1>8. CASE UploadFails(u)
  <2>1. upload'[u] = NoUpload /\ UNCHANGED preview
    BY <1>1, <1>8 DEF UploadFails
  <2>2. QED
    BY <1>5, <2>1 DEF UploadAddsUp, NoUpload
<1>9. CASE SavePreview(u)
  <2>1. PICK f \in Files : f = upload[u].file
    BY <1>1, <1>9 DEF SavePreview, UploadInv
  <2>2. upload'[u] = NoUpload /\ \A g \in Files \ {f} : preview'[g] = preview[g]
    BY <1>1, <1>9, <2>1 DEF SavePreview
  <2>3. UploadAddsUp(u)'
    BY <2>2 DEF UploadAddsUp, NoUpload
  <2>4. SavedAddsUp(f)'
    <3>1. CASE preview[f] = NoPreview
      <4>1. preview'[f] = [status |-> "PREVIEWED", code |-> upload[u].code,
                           valid |-> upload[u].totals.valid,
                           invalid |-> upload[u].totals.invalid,
                           cents |-> upload[u].totals.cents, expires |-> today + 1]
        BY <1>1, <1>9, <2>1, <3>1 DEF SavePreview
      <4>2. /\ Distinct(f, upload[u].code)
            /\ Balanced(f, upload[u].code, upload[u].totals.valid,
                        upload[u].totals.invalid, upload[u].totals.cents)
        BY <1>1, <1>9, <2>1 DEF SavePreview, UploadAddsUp
      <4>3. QED
        BY <4>1, <4>2 DEF SavedAddsUp, Distinct, Balanced, NullLines, Cents
    <3>2. CASE preview[f] # NoPreview
      <4>1. preview'[f] = [preview[f] EXCEPT !.expires = today + 1]
        BY <1>1, <1>9, <2>1, <3>2 DEF SavePreview
      <4>2. Saved(preview[f])
        BY <1>1, <3>2 DEF PreviewInv
      <4>3. /\ preview'[f].code = preview[f].code
            /\ preview'[f].valid = preview[f].valid
            /\ preview'[f].invalid = preview[f].invalid
            /\ preview'[f].cents = preview[f].cents
        BY <4>1, <4>2, RenewedIsSaved
      <4>4. QED
        BY <1>1, <3>2, <4>3, KeptAddsUp
    <3>3. QED
      BY <3>1, <3>2
  <2>5. \A g \in Files \ {f} : SavedAddsUp(g)'
    BY <1>1, <2>2, KeptAddsUp
  <2>6. QED
    BY <1>4, <2>3, <2>4, <2>5 DEF AddsUpInv
<1>10. QED
  BY <1>6, <1>7, <1>8, <1>9 DEF UploadStep

\* A confirmation changes the status only.
LEMMA CommitKeepsSums ==
    ASSUME ImportInv, AddsUpInv, NEW q \in Confirms, ConfirmCommit(q)
    PROVE  AddsUpInv'
<1>1. /\ \A f \in Files : SavedAddsUp(f) /\ PreviewInv(f)
      /\ \A u \in Uploads : UploadAddsUp(u)
      /\ ConfirmInv(q)
      /\ preview = [f \in Files |-> preview[f]]
  BY DEF AddsUpInv, ImportInv
<1>2. PICK f \in Files : f = confirm[q].file /\ preview[f] # NoPreview
  BY <1>1 DEF ConfirmCommit, ConfirmInv, NoConfirm
<1>3. /\ preview'[f] = [preview[f] EXCEPT !.status = "CONFIRMED"]
      /\ \A g \in Files \ {f} : preview'[g] = preview[g]
      /\ UNCHANGED upload
  BY <1>1, <1>2 DEF ConfirmCommit
<1>4. Saved(preview[f])
  BY <1>1, <1>2 DEF PreviewInv
<1>5. /\ preview'[f].code = preview[f].code /\ preview'[f].valid = preview[f].valid
      /\ preview'[f].invalid = preview[f].invalid /\ preview'[f].cents = preview[f].cents
  BY <1>3, <1>4, ConfirmedIsSaved
<1>6. SavedAddsUp(f)'
  BY <1>1, <1>2, <1>5, KeptAddsUp
<1>7. \A g \in Files \ {f} : SavedAddsUp(g)'
  BY <1>1, <1>3, KeptAddsUp
<1>8. \A u \in Uploads : UploadAddsUp(u)'
  BY <1>1, <1>3 DEF UploadAddsUp, Balanced, Distinct, NullLines, Cents
<1>9. QED
  BY <1>6, <1>7, <1>8 DEF AddsUpInv

\* Every step keeps what is saved, and about to be saved, adding up.
LEMMA AddsUpInvHolds == ImportSpec => []AddsUpInv
<1>1. ImportInit => AddsUpInv
  BY DEF ImportInit, AddsUpInv, SavedAddsUp, UploadAddsUp, NoUpload
<1>2. ASSUME ImportInv, AddsUpInv, [ImportNext]_importVars PROVE AddsUpInv'
  <2>1. ASSUME NEW u \in Uploads, UploadStep(u) PROVE AddsUpInv'
    BY <1>2, <2>1, UploadKeepsSums
  <2>2. ASSUME NEW q \in Confirms, ConfirmCommit(q) PROVE AddsUpInv'
    BY <1>2, <2>2, CommitKeepsSums
  <2>3. ASSUME UNCHANGED <<preview, upload>> PROVE AddsUpInv'
    <3>1. \A f \in Files : SavedAddsUp(f)'
      BY <1>2, <2>3, KeptAddsUp DEF AddsUpInv
    <3>2. ASSUME NEW u \in Uploads PROVE UploadAddsUp(u)'
      <4>1. UploadAddsUp(u) /\ upload'[u] = upload[u]
        BY <1>2, <2>3 DEF AddsUpInv
      <4>2. QED
        BY <4>1 DEF UploadAddsUp, Balanced, Distinct, NullLines, Cents
    <3>3. QED
      BY <3>1, <3>2 DEF AddsUpInv
  <2>4. CASE \/ \E q \in Confirms : \/ \E f \in Files : ConfirmBegin(q, f)
                                    \/ ConfirmLock(q) \/ ConfirmRollback(q)
             \/ StartIssuance \/ (\E x \in ExternalIds : TakeId(x)) \/ NextDay
             \/ UNCHANGED importVars
    <3>1. UNCHANGED <<preview, upload>>
      BY <2>4 DEF ConfirmBegin, ConfirmLock, ConfirmRollback, StartIssuance, TakeId,
         NextDay, importVars
    <3>2. QED
      BY <2>3, <3>1
  <2>5. QED
    BY <1>2, <2>1, <2>2, <2>4 DEF ImportNext, ConfirmStep
<1>3. QED
  BY <1>1, <1>2, ImportInvHolds, PTL DEF ImportSpec

\* What is saved of a preview adds up, for any file, with int64 sums that may
\* wrap: counters and amount are those of the lines a confirmation would insert,
\* and no two of those have the same external id.
THEOREM PreviewsAddUp == ImportSpec => []PreviewAddsUp
<1>1. AddsUpInv => PreviewAddsUp
  BY DEF AddsUpInv, SavedAddsUp, Balanced, Distinct, PreviewAddsUp, ValidLines, NullLines
<1>2. QED
  BY <1>1, AddsUpInvHolds, PTL

-----------------------------------------------------------------------------
(* MoneyText: what parseMoneyCents reads in the column valor.              *)

\* What FoldLeft computes for the digits of a part, by its definition.
LEMMA MagnitudeIsDecimal ==
    ASSUME NEW digits \in Seq(Nat)
    PROVE  /\ Magnitude(digits) = Decimal(DOMAIN digits, digits)[DOMAIN digits]
           /\ IsDecimal(Decimal(DOMAIN digits, digits), DOMAIN digits, digits)
           /\ Magnitude(digits) \in Nat
           /\ IsFiniteSet(DOMAIN digits) /\ DOMAIN digits \subseteq Int
<1>1. Magnitude(digits) = Decimal(DOMAIN digits, digits)[DOMAIN digits]
  BY DEF Magnitude, FoldLeft, MapThenFoldSet, Decimal
<1>2. DOMAIN digits = 1 .. Len(digits) /\ Len(digits) \in Nat
  BY LenProperties
<1>3. IsFiniteSet(DOMAIN digits) /\ DOMAIN digits \subseteq Int
  <2>1. IsFiniteSet(1 .. Len(digits))
    BY <1>2, FS_Interval
  <2>2. QED
    BY <1>2, <2>1
<1>4. \A i \in DOMAIN digits : digits[i] \in Nat
  BY <1>2, ElementOfSeq
<1>5. QED
  BY <1>1, <1>3, <1>4, DecimalDefined

\* No digits are zero.
LEMMA MagnitudeOfNone == Magnitude(<<>>) = 0
<1>1. <<>> \in Seq(Nat) /\ DOMAIN <<>> = {}
  OBVIOUS
<1>2. IsDecimal(Decimal({}, <<>>), {}, <<>>) /\ Magnitude(<<>>) = Decimal({}, <<>>)[{}]
  BY <1>1, MagnitudeIsDecimal
<1>3. QED
  BY <1>2 DEF IsDecimal

\* A digit more is ten times as much and the digit.
LEMMA MagnitudeOfAppend ==
    ASSUME NEW digits \in Seq(Nat), NEW d \in Nat
    PROVE  Magnitude(Append(digits, d)) = 10 * Magnitude(digits) + d
<1>1. PICK more, n, I, J, g :
         /\ more = Append(digits, d) /\ n = Len(digits) + 1
         /\ I = DOMAIN digits /\ J = DOMAIN more /\ g = digits
  OBVIOUS
<1>2. /\ I = 1 .. Len(digits) /\ J = 1 .. n /\ n \in Nat /\ more \in Seq(Nat)
      /\ Len(digits) \in Nat /\ more[n] = d /\ (\A i \in I : more[i] = g[i])
  BY <1>1, AppendProperties, LenProperties
<1>3. PICK h, k : h = Decimal(I, g) /\ k = Decimal(J, more)
  OBVIOUS
<1>4. Magnitude(digits) = h[I] /\ IsDecimal(h, I, g)
  BY <1>1, <1>3, MagnitudeIsDecimal
<1>5. Magnitude(more) = k[J] /\ IsDecimal(k, J, more) /\ IsFiniteSet(J) /\ J \subseteq Int
  BY <1>1, <1>2, <1>3, MagnitudeIsDecimal
<1>6. I \in SUBSET J /\ J \ {n} = I /\ n \in J /\ \A y \in J : n >= y /\ y \in Int
  BY <1>1, <1>2
<1>7. Includes(J, more, I, g)
  <2>1. IsFiniteSet(J) /\ J \subseteq Int /\ I \in SUBSET J
    BY <1>5, <1>6
  <2>2. \A i \in I : g[i] = more[i]
    BY <1>2
  <2>3. QED
    BY <2>1, <2>2 DEF Includes
<1>8. h[I] = k[I]
  <2>1. IsDecimal(h, I, g)
    BY <1>4
  <2>2. IsDecimal(k, J, more)
    BY <1>5
  <2>3. QED
    BY <1>7, <2>1, <2>2, DecimalUnique
<1>9. Max(J) = n
  <2>1. J # {} /\ J \in SUBSET J
    BY <1>6
  <2>2. Max(J) \in J /\ Max(J) >= n
    BY <1>5, <1>6, <2>1, MaxExists
  <2>3. QED
    BY <1>2, <1>6, <2>2
<1>10. k[J] = 10 * k[I] + more[n]
  BY <1>5, <1>6, <1>9 DEF IsDecimal
<1>11. QED
  BY <1>1, <1>2, <1>4, <1>5, <1>8, <1>10

-----------------------------------------------------------------------------
\* An integer in range does not wrap.
LEMMA Int64InRange ==
    ASSUME NEW n \in -Largest - 1 .. Largest
    PROVE  Int64(n) = n
<1> DEFINE m == 2 * (Largest + 1)
           x == n + Largest + 1
<1>1. m \in Nat \ {0} /\ x \in 0 .. m - 1
  BY MoneyWidth
<1>2. x % m = x
  <2> HIDE DEF m, x
  <2>1. (m * 0 + x) % m = x
    BY <1>1, ModUnique
  <2>2. m * 0 + x = x
    BY <1>1
  <2>3. QED
    BY <2>1, <2>2
<1>3. QED
  BY <1>2, MoneyWidth DEF Int64

\* Two elements more are one more, twice.
LEMMA TwoMore ==
    ASSUME NEW S, NEW w \in Seq(S), NEW a \in S, NEW b \in S
    PROVE  w \o <<a, b>> = Append(Append(w, a), b) /\ Append(w, a) \in Seq(S)
OBVIOUS

\* The digits of a number after which come none, one or two more.
LEMMA MoreDigits ==
    ASSUME NEW w \in Seq(Nat)
    PROVE  /\ Magnitude(w \o <<>>) = Magnitude(w)
           /\ \A a \in Nat : Magnitude(w \o <<a>>) = 10 * Magnitude(w) + a
           /\ \A a, b \in Nat :
                 Magnitude(w \o <<a, b>>) = 100 * Magnitude(w) + 10 * a + b
<1>1. Magnitude(w \o <<>>) = Magnitude(w)
  BY ConcatEmptySeq
<1>2. ASSUME NEW v \in Seq(Nat), NEW a \in Nat
      PROVE  v \o <<a>> \in Seq(Nat) /\ Magnitude(v \o <<a>>) = 10 * Magnitude(v) + a
  <2>1. Append(v, a) = v \o <<a>> /\ Append(v, a) \in Seq(Nat)
    BY AppendIsConcat
  <2>2. QED
    BY <2>1, MagnitudeOfAppend
<1>3. ASSUME NEW a \in Nat, NEW b \in Nat
      PROVE  Magnitude(w \o <<a, b>>) = 100 * Magnitude(w) + 10 * a + b
  <2>1. w \o <<a, b>> = Append(Append(w, a), b) /\ Append(w, a) \in Seq(Nat)
    <3>1. PICK S : S = Nat
      OBVIOUS
    <3>2. w \in Seq(S) /\ a \in S /\ b \in S
      BY <3>1
    <3>3. w \o <<a, b>> = Append(Append(w, a), b) /\ Append(w, a) \in Seq(S)
      BY <3>2, TwoMore
    <3>4. QED
      BY <3>1, <3>3
  <2>2. Magnitude(Append(w, a)) = 10 * Magnitude(w) + a
    BY MagnitudeOfAppend
  <2>3. Magnitude(Append(Append(w, a), b)) = 10 * Magnitude(Append(w, a)) + b
    BY <2>1, MagnitudeOfAppend
  <2>11. Magnitude(w) \in Nat
    BY MagnitudeIsDecimal
  <2>12. PICK x, y, z : /\ x = Magnitude(w) /\ y = Magnitude(Append(w, a))
                        /\ z = Magnitude(w \o <<a, b>>)
    OBVIOUS
  <2>13. x \in Nat /\ y = 10 * x + a /\ z = 10 * y + b
    BY <2>1, <2>2, <2>3, <2>11, <2>12
  <2>14. z = 100 * x + 10 * a + b
    BY <2>13
  <2>15. QED
    BY <2>12, <2>14
<1>4. QED
  BY <1>1, <1>2, <1>3

\* At most two digits.
LEMMA OneOrTwo ==
    ASSUME NEW S, NEW d \in Seq(S)
    PROVE  /\ Len(d) = 0 => d = <<>>
           /\ Len(d) = 1 => d[1] \in S /\ d = <<d[1]>>
           /\ Len(d) = 2 => d[1] \in S /\ d[2] \in S /\ d = <<d[1], d[2]>>
OBVIOUS

\* A sequence of at most two elements is of one of three shapes.
LEMMA AtMostTwo ==
    ASSUME NEW S, NEW d \in Seq(S), NEW n, n = Len(d), n <= 2
    PROVE  \/ d = <<>>
           \/ \E a \in S : d = <<a>>
           \/ \E a, b \in S : d = <<a, b>>
<1>1. n = 0 \/ n = 1 \/ n = 2
  <2>1. n \in Nat
    BY LenProperties
  <2>2. QED
    BY <2>1
<1>2. QED
  BY <1>1, OneOrTwo

\* Short sequences: one element and one more, ...
LEMMA AppendToOne ==
    ASSUME NEW S, NEW a \in S, NEW b \in S
    PROVE  Append(<<a>>, b) = <<a, b>>
<1>1. <<>> \in Seq(S) /\ <<a, b>> \in Seq(S)
  OBVIOUS
<1>2. <<>> \o <<a, b>> = Append(Append(<<>>, a), b) /\ Append(<<>>, a) = <<a>>
  BY <1>1, TwoMore
<1>3. QED
  BY <1>1, <1>2, ConcatEmptySeq

\* ... and none, one or two.
LEMMA TwoAlone ==
    ASSUME NEW S, NEW a \in S, NEW b \in S
    PROVE  /\ <<>> \in Seq(S) /\ <<a>> \in Seq(S) /\ <<a, b>> \in Seq(S)
           /\ Append(<<>>, a) = <<a>> /\ <<>> \o <<a, b>> = <<a, b>>
<1>1. <<>> \in Seq(S) /\ <<a>> \in Seq(S) /\ <<a, b>> \in Seq(S)
  OBVIOUS
<1>2. Append(<<>>, a) = <<a>>
  OBVIOUS
<1>3. <<>> \o <<a, b>> = <<a, b>>
  BY <1>1, ConcatEmptySeq
<1>4. QED
  BY <1>1, <1>2, <1>3

\* Two digits.
LEMMA MagnitudeOfTwo ==
    ASSUME NEW a \in Nat, NEW b \in Nat
    PROVE  Magnitude(<<a, b>>) = 10 * a + b
<1>1. PICK S, none : S = Nat /\ none = <<>>
  OBVIOUS
<1>2. none \in Seq(S) /\ none \o <<a, b>> = <<a, b>>
  BY <1>1, TwoAlone
<1>3. Magnitude(none) = 0
  BY <1>1, MagnitudeOfNone
<1>4. Magnitude(none \o <<a, b>>) = 100 * Magnitude(none) + 10 * a + b
  <2>1. none \in Seq(Nat)
    BY <1>1, <1>2
  <2>2. QED
    BY <2>1, MoreDigits
<1>5. Magnitude(<<a, b>>) = 100 * 0 + 10 * a + b
  BY <1>2, <1>3, <1>4
<1>6. QED
  BY <1>5

-----------------------------------------------------------------------------
\* What parseMoneyCents adds to a hundred times the whole part.
Frac(text) == IF Len(text) = 2 THEN Hundredths(text[2]) ELSE Part(FALSE, <<0, 0>>)

\* The digits of parts are natural numbers.
LEMMA DigitsAreNat ==
    ASSUME NEW d \in Seq(0 .. 9)
    PROVE  d \in Seq(Nat)
OBVIOUS

\* Two digits after the dot, also where there are fewer.
LEMMA HundredthsOfDigits ==
    ASSUME NEW a \in Nat, NEW b \in Nat
    PROVE  /\ Hundredths(Part(FALSE, <<>>)) = Part(FALSE, <<0, 0>>)
           /\ Hundredths(Part(FALSE, <<a>>)) = Part(FALSE, <<a, 0>>)
           /\ Hundredths(Part(FALSE, <<a, b>>)) = Part(FALSE, <<a, b>>)
<1>1. Hundredths(Part(FALSE, <<>>)) = Part(FALSE, <<0, 0>>)
  BY DEF Hundredths, Length, Part
<1>2. Hundredths(Part(FALSE, <<a>>)) = Part(FALSE, <<a, 0>>)
  <2>1. PICK d, e : d = <<a>> /\ e = <<a, 0>>
    OBVIOUS
  <2>2. Len(d) = 1 /\ Append(d, 0) = e
    <3>1. Append(<<a>>, 0) = <<a, 0>>
      BY AppendToOne
    <3>2. Len(<<a>>) = 1
      OBVIOUS
    <3>3. QED
      BY <2>1, <3>1, <3>2
  <2>3. Hundredths(Part(FALSE, d)) = Part(FALSE, e)
    <3>1. PICK p : p = Part(FALSE, d)
      OBVIOUS
    <3>2. p.digits = d /\ p.minus = FALSE
      BY <3>1 DEF Part
    <3>3. Length(p) = 1
      BY <2>2, <3>2 DEF Length
    <3>4. Hundredths(p) = Part(p.minus, Append(p.digits, 0))
      BY <3>3 DEF Hundredths
    <3>5. QED
      BY <2>2, <3>1, <3>2, <3>4
  <2>4. QED
    BY <2>1, <2>3
<1>3. Hundredths(Part(FALSE, <<a, b>>)) = Part(FALSE, <<a, b>>)
  BY DEF Hundredths, Length, Part
<1>4. QED
  BY <1>1, <1>2, <1>3

\* A text reads as the number w, and a and b after the dot.
ReadsAs(text, w, a, b) ==
    /\ Frac(text) = Part(FALSE, <<a, b>>)
    /\ Says(text) = 100 * Magnitude(w) + 10 * a + b

\* A text without a dot reads as its digits, ...
LEMMA WholeReads ==
    ASSUME NEW w \in Seq(Nat)
    PROVE  ReadsAs(<<Part(FALSE, w)>>, w, 0, 0)
<1>1. PICK text : text = <<Part(FALSE, w)>>
  OBVIOUS
<1>2. Len(text) = 1 /\ text[1].digits = w
  BY <1>1 DEF Part
<1>3. Frac(text) = Part(FALSE, <<0, 0>>)
  BY <1>2 DEF Frac
<1>4. Says(text) = Magnitude(w \o <<>>) * 100
  BY <1>2 DEF Says
<1>5. Magnitude(w \o <<>>) = Magnitude(w) /\ Magnitude(w) \in Nat
  BY MoreDigits, MagnitudeIsDecimal
<1>6. Says(text) = 100 * Magnitude(w) + 10 * 0 + 0
  BY <1>4, <1>5
<1>7. QED
  BY <1>1, <1>3, <1>6 DEF ReadsAs

\* ... one with a dot takes its hundredths from the part after it, ...
LEMMA DottedReads ==
    ASSUME NEW w \in Seq(Nat), NEW f, NEW text, text = <<Part(FALSE, w), Part(FALSE, f)>>
    PROVE  /\ Frac(text) = Hundredths(Part(FALSE, f))
           /\ Len(f) = 0 => Says(text) = Magnitude(w \o f) * 100
           /\ Len(f) = 1 => Says(text) = Magnitude(w \o f) * 10
           /\ Len(f) = 2 => Says(text) = Magnitude(w \o f) * 1
<1>1. Len(text) = 2 /\ text[2] = Part(FALSE, f)
  OBVIOUS
<1>2. text[1].digits = w /\ text[2].digits = f
  BY DEF Part
<1>3. Says(text) = Magnitude(w \o f) * <<100, 10, 1>>[Len(f) + 1]
  BY <1>1, <1>2 DEF Says
<1>4. /\ <<100, 10, 1>>[0 + 1] = 100 /\ <<100, 10, 1>>[1 + 1] = 10
      /\ <<100, 10, 1>>[2 + 1] = 1
  OBVIOUS
<1>5. QED
  BY <1>1, <1>3, <1>4 DEF Frac

\* ... which are what its none, one or two digits say.
LEMMA HundredthsRead ==
    ASSUME NEW w \in Seq(Nat), NEW a \in Nat, NEW b \in Nat
    PROVE  /\ ReadsAs(<<Part(FALSE, w), Part(FALSE, <<>>)>>, w, 0, 0)
           /\ ReadsAs(<<Part(FALSE, w), Part(FALSE, <<a>>)>>, w, a, 0)
           /\ ReadsAs(<<Part(FALSE, w), Part(FALSE, <<a, b>>)>>, w, a, b)
<1>1. PICK x \in Nat : x = Magnitude(w)
  BY MagnitudeIsDecimal
<1>2. ReadsAs(<<Part(FALSE, w), Part(FALSE, <<>>)>>, w, 0, 0)
  <2>1. PICK text, f : text = <<Part(FALSE, w), Part(FALSE, f)>> /\ f = <<>>
    OBVIOUS
  <2>2. /\ Frac(text) = Hundredths(Part(FALSE, f))
        /\ Hundredths(Part(FALSE, f)) = Part(FALSE, <<0, 0>>)
    <3>1. Frac(text) = Hundredths(Part(FALSE, f))
      BY <2>1, DottedReads
    <3>2. Hundredths(Part(FALSE, f)) = Part(FALSE, <<0, 0>>)
      BY <2>1, HundredthsOfDigits
    <3>3. QED
      BY <3>1, <3>2
  <2>3. Len(f) = 0
    BY <2>1
  <2>4. Says(text) = Magnitude(w \o f) * 100
    BY <2>1, <2>3, DottedReads
  <2>5. Says(text) = 100 * Magnitude(w) + 10 * 0 + 0
    BY <1>1, <2>1, <2>4, MoreDigits
  <2>6. QED
    BY <2>1, <2>2, <2>5 DEF ReadsAs
<1>3. ReadsAs(<<Part(FALSE, w), Part(FALSE, <<a>>)>>, w, a, 0)
  <2>1. PICK text, f : text = <<Part(FALSE, w), Part(FALSE, f)>> /\ f = <<a>>
    OBVIOUS
  <2>2. /\ Frac(text) = Hundredths(Part(FALSE, f))
        /\ Hundredths(Part(FALSE, f)) = Part(FALSE, <<a, 0>>)
    <3>1. Frac(text) = Hundredths(Part(FALSE, f))
      BY <2>1, DottedReads
    <3>2. Hundredths(Part(FALSE, f)) = Part(FALSE, <<a, 0>>)
      BY <2>1, HundredthsOfDigits
    <3>3. QED
      BY <3>1, <3>2
  <2>3. Len(f) = 1
    BY <2>1
  <2>4. Says(text) = Magnitude(w \o f) * 10
    BY <2>1, <2>3, DottedReads
  <2>5. Magnitude(w \o <<a>>) = 10 * x + a
    BY <1>1, MoreDigits
  <2>6. Says(text) = 100 * x + 10 * a + 0
    BY <2>1, <2>4, <2>5
  <2>7. QED
    BY <1>1, <2>1, <2>2, <2>6 DEF ReadsAs
<1>4. ReadsAs(<<Part(FALSE, w), Part(FALSE, <<a, b>>)>>, w, a, b)
  <2>1. PICK text, f : text = <<Part(FALSE, w), Part(FALSE, f)>> /\ f = <<a, b>>
    OBVIOUS
  <2>2. /\ Frac(text) = Hundredths(Part(FALSE, f))
        /\ Hundredths(Part(FALSE, f)) = Part(FALSE, <<a, b>>)
    <3>1. Frac(text) = Hundredths(Part(FALSE, f))
      BY <2>1, DottedReads
    <3>2. Hundredths(Part(FALSE, f)) = Part(FALSE, <<a, b>>)
      BY <2>1, HundredthsOfDigits
    <3>3. QED
      BY <3>1, <3>2
  <2>3. Len(f) = 2
    BY <2>1
  <2>4. Says(text) = Magnitude(w \o f) * 1
    BY <2>1, <2>3, DottedReads
  <2>5. Magnitude(w \o <<a, b>>) = 100 * x + 10 * a + b
    BY <1>1, MoreDigits
  <2>6. Says(text) = 100 * x + 10 * a + b
    BY <2>1, <2>4, <2>5
  <2>7. QED
    BY <1>1, <2>1, <2>2, <2>6 DEF ReadsAs
<1>5. QED
  BY <1>2, <1>3, <1>4

-----------------------------------------------------------------------------
\* A part with a digit is not empty.
LEMMA LengthOfDigits ==
    ASSUME NEW w \in Seq(Nat), w # <<>>
    PROVE  Length(Part(FALSE, w)) > 0
<1>1. PICK n \in Nat : n = Len(w) /\ n > 0
  BY EmptySeq, LenProperties
<1>2. PICK p : p = Part(FALSE, w)
  OBVIOUS
<1>3. p.minus = FALSE /\ p.digits = w
  BY <1>2 DEF Part
<1>4. n + 0 = n /\ n \in Nat /\ n > 0
  BY <1>1
<1>5. Length(p) = n
  BY <1>1, <1>3, <1>4 DEF Length
<1>6. Length(p) > 0
  BY <1>4, <1>5
<1>7. QED
  BY <1>2, <1>6

\* A text without a sign is read exactly, ...
LEMMA ExactIfItReads ==
    ASSUME NEW w \in Seq(Nat), w # <<>>, NEW a \in 0 .. 9, NEW b \in 0 .. 9,
           NEW text, ReadsAs(text, w, a, b), text[1] = Part(FALSE, w),
           Len(text) = 1 \/ Len(text) = 2, Len(text) = 2 => Length(text[2]) <= 2
    PROVE  ParseMoneyCents(text) =
              IF Says(text) \in 1 .. Largest THEN Says(text) ELSE Rejected
<1>1. PICK x \in Nat : x = Magnitude(w)
  BY MagnitudeIsDecimal
<1>2. PICK f \in 0 .. 99 : f = 10 * a + b
  OBVIOUS
<1>3. PICK said \in Nat : said = 100 * x + f
  OBVIOUS
<1>4. Says(text) = said
  BY <1>1, <1>2, <1>3 DEF ReadsAs
<1>5. IntOf(text[1]) = x /\ (IsInt(text[1]) <=> x <= Largest) /\ Length(text[1]) > 0
  <2>1. text[1].minus = FALSE /\ text[1].digits = w
    BY DEF Part
  <2>4. IntOf(text[1]) = x /\ (IsInt(text[1]) <=> x <= Largest)
    BY <1>1, <2>1 DEF IntOf, IsInt
  <2>5. Length(text[1]) > 0
    BY LengthOfDigits
  <2>6. QED
    BY <2>4, <2>5
<1>6. IntOf(Frac(text)) = f /\ (IsInt(Frac(text)) <=> f <= Largest)
  <2>1. PICK d : d = <<a, b>>
    OBVIOUS
  <2>2. Frac(text).minus = FALSE /\ Frac(text).digits = d /\ d # <<>>
    BY <2>1 DEF ReadsAs, Part
  <2>3. Magnitude(d) = f
    BY <1>2, <2>1, MagnitudeOfTwo
  <2>4. QED
    BY <2>2, <2>3 DEF IntOf, IsInt
<1>7. f <= Largest => (Fits(x, f) <=> said <= Largest)
  <2>1. ASSUME f <= Largest PROVE Fits(x, f) <=> said <= Largest
    <3>1. PICK room \in Nat : room = Largest - f
      BY <2>1, MoneyWidth
    <3>2. Int64(room) = room
      <4>1. room \in -Largest - 1 .. Largest
        BY <3>1, MoneyWidth
      <4>2. QED
        BY <4>1, Int64InRange
    <3>3. Fits(x, f) <=> x <= room \div 100
      BY <3>1, <3>2 DEF Fits
    <3>4. x <= room \div 100 <=> 100 * x <= room
      OBVIOUS
    <3>5. QED
      BY <1>3, <3>1, <3>3, <3>4, MoneyWidth
  <2>2. QED
    BY <2>1
<1>8. said <= Largest => x <= Largest /\ f <= Largest /\ Int64(said) = said
  <2>1. ASSUME said <= Largest PROVE x <= Largest /\ f <= Largest /\ Int64(said) = said
    <3>1. said \in -Largest - 1 .. Largest /\ x <= Largest /\ f <= Largest
      BY <1>3, <2>1, MoneyWidth
    <3>2. QED
      BY <3>1, Int64InRange
  <2>2. QED
    BY <2>1
<1>9. ParseMoneyCents(text) =
         IF /\ x <= Largest /\ x >= 0 /\ f <= Largest
            /\ Fits(x, f) /\ Int64(said) > 0
         THEN Int64(said) ELSE Rejected
  <2>1. x * 100 + f = said /\ (x <= Largest /\ x >= 0 <=> x <= Largest)
    BY <1>3
  <2>2. Len(text) <= 2
    <3>1. PICK n : n = Len(text)
      OBVIOUS
    <3>2. n = 1 \/ n = 2
      BY <3>1
    <3>3. n <= 2
      BY <3>2
    <3>4. QED
      BY <3>1, <3>3
  <2>3. QED
    BY <1>5, <1>6, <2>1, <2>2 DEF ParseMoneyCents, Frac
<1>10. CASE said <= Largest
  <2>1. x <= Largest /\ x >= 0 /\ f <= Largest /\ Fits(x, f) /\ Int64(said) = said
    BY <1>7, <1>8, <1>10
  <2>2. said > 0 <=> said \in 1 .. Largest
    BY <1>10
  <2>3. QED
    BY <1>4, <1>9, <2>1, <2>2
<1>11. CASE ~(said <= Largest)
  <2>1. ~(f <= Largest /\ Fits(x, f)) /\ said \notin 1 .. Largest
    BY <1>7, <1>11
  <2>2. QED
    BY <1>4, <1>9, <2>1
<1>12. QED
  BY <1>10, <1>11

\* ... and one that is no number only if it has a sign.
LEMMA RefusedUnlessSigned ==
    ASSUME NEW text, Len(text) \in Nat, Len(text) > 0,
           \A i \in DOMAIN text :
              text[i].minus \in BOOLEAN /\ text[i].digits \in Seq(Nat),
           DOMAIN text = 1 .. Len(text), ParseMoneyCents(text) # Rejected
    PROVE  IsPlain(text) \/ Signed(text)
<1>1. SUFFICES ASSUME ~Signed(text) PROVE IsPlain(text)
  OBVIOUS
<1>2. /\ Len(text) <= 2 /\ (Len(text) = 2 => Length(text[2]) <= 2)
      /\ IsInt(text[1])
  BY DEF ParseMoneyCents
<1>3. \A i \in DOMAIN text : ~text[i].minus
  BY <1>1 DEF Signed
<1>4. text[1].digits # <<>>
  BY <1>2 DEF IsInt
<1>5. Len(text) = 2 => Len(text[2].digits) <= 2
  <2>1. SUFFICES ASSUME Len(text) = 2 PROVE Len(text[2].digits) <= 2
    OBVIOUS
  <2>2. ~text[2].minus /\ Len(text[2].digits) \in Nat
    BY <1>3, <2>1, LenProperties
  <2>3. QED
    BY <1>2, <2>1, <2>2 DEF Length
<1>6. Len(text) \in {1, 2}
  BY <1>2
<1>7. QED
  BY <1>3, <1>4, <1>5, <1>6 DEF IsPlain

\* The texts that are tried, by their shape.
OneOf(text, v, w) == text = <<Part(v, w)>>
TwoOf(text, v, w, u, f) == text = <<Part(v, w), Part(u, f)>>
ThreeOf(text, v, w, u, f) == text = <<Part(v, w), Part(u, f), Part(u, f)>>

\* A text is one, two or three parts.
LEMMA TextsAreParts ==
    ASSUME NEW text \in MoneyTexts
    PROVE  \E w \in Seq(0 .. 9), v \in BOOLEAN :
              \/ OneOf(text, v, w)
              \/ \E f \in Seq(0 .. 9), u \in BOOLEAN :
                    TwoOf(text, v, w, u, f) \/ ThreeOf(text, v, w, u, f)
BY MoneyDigits DEF MoneyTexts, OneOf, TwoOf, ThreeOf

\* What the parts of a text are: of one part, ...
LEMMA ShapeOfOne ==
    ASSUME NEW text, NEW v, NEW w, OneOf(text, v, w)
    PROVE  /\ Len(text) = 1 /\ DOMAIN text = {1} /\ text[1] = Part(v, w)
           /\ text[1].minus = v /\ text[1].digits = w
BY DEF OneOf, Part

\* ... of two parts, ...
LEMMA ShapeOfTwo ==
    ASSUME NEW text, NEW v, NEW w, NEW u, NEW f, TwoOf(text, v, w, u, f)
    PROVE  /\ Len(text) = 2 /\ DOMAIN text = {1, 2}
           /\ text[1] = Part(v, w) /\ text[2] = Part(u, f)
           /\ text[1].minus = v /\ text[1].digits = w
           /\ text[2].minus = u /\ text[2].digits = f
BY DEF TwoOf, Part

\* ... and of three.
LEMMA ShapeOfThree ==
    ASSUME NEW text, NEW v, NEW w, NEW u, NEW f, ThreeOf(text, v, w, u, f)
    PROVE  /\ Len(text) = 3 /\ DOMAIN text = {1, 2, 3}
           /\ text[1].minus = v /\ text[1].digits = w
           /\ text[2].minus = u /\ text[2].digits = f
           /\ text[3].minus = u /\ text[3].digits = f
BY DEF ThreeOf, Part

\* A text of digits, and at most two more after a dot, is read as its digits say.
LEMMA TwoReads ==
    ASSUME NEW w \in Seq(Nat), NEW f, NEW text, TwoOf(text, FALSE, w, FALSE, f),
           NEW S, S = 0 .. 9, NEW a \in S, NEW b \in S
    PROVE  /\ f = <<>> => ReadsAs(text, w, 0, 0)
           /\ f = <<a>> => ReadsAs(text, w, a, 0)
           /\ f = <<a, b>> => ReadsAs(text, w, a, b)
<1>1. a \in Nat /\ b \in Nat
  OBVIOUS
<1>2. text = <<Part(FALSE, w), Part(FALSE, f)>>
  BY DEF TwoOf
<1>3. QED
  BY <1>1, <1>2, HundredthsRead

\* parseMoneyCents, of any text: exact without a sign, and refusing what is no
\* number unless it has one.
LEMMA ReadsExactly ==
    ASSUME NEW text \in MoneyTexts
    PROVE  IF IsPlain(text)
           THEN ParseMoneyCents(text) = IF Says(text) \in 1 .. Largest
                                        THEN Says(text) ELSE Rejected
           ELSE ParseMoneyCents(text) # Rejected => Signed(text)
<1>1. PICK w \in Seq(0 .. 9), v \in BOOLEAN :
              \/ OneOf(text, v, w)
              \/ \E f \in Seq(0 .. 9), u \in BOOLEAN :
                    TwoOf(text, v, w, u, f) \/ ThreeOf(text, v, w, u, f)
  BY TextsAreParts
<1>2. w \in Seq(Nat)
  BY DigitsAreNat
<1>3. CASE ~IsPlain(text)
  <2>1. /\ Len(text) \in Nat /\ Len(text) > 0 /\ DOMAIN text = 1 .. Len(text)
        /\ \A i \in DOMAIN text :
              text[i].minus \in BOOLEAN /\ text[i].digits \in Seq(Nat)
    <3>1. PICK D : D = Seq(Nat)
      OBVIOUS
    <3>2. CASE OneOf(text, v, w)
      BY <1>2, <3>1, <3>2, ShapeOfOne
    <3>3. ASSUME NEW f \in Seq(0 .. 9), NEW u \in BOOLEAN, TwoOf(text, v, w, u, f)
          PROVE  /\ Len(text) = 2 /\ DOMAIN text = {1, 2}
                 /\ \A i \in DOMAIN text : text[i].minus \in BOOLEAN /\ text[i].digits \in D
      <4>1. f \in D /\ w \in D
        BY <1>2, <3>1, DigitsAreNat
      <4>2. QED
        BY <3>3, <4>1, ShapeOfTwo
    <3>4. ASSUME NEW f \in Seq(0 .. 9), NEW u \in BOOLEAN, ThreeOf(text, v, w, u, f)
          PROVE  /\ Len(text) = 3 /\ DOMAIN text = {1, 2, 3}
                 /\ \A i \in DOMAIN text : text[i].minus \in BOOLEAN /\ text[i].digits \in D
      <4>1. f \in D /\ w \in D
        BY <1>2, <3>1, DigitsAreNat
      <4>2. QED
        BY <3>4, <4>1, ShapeOfThree
    <3>5. PICK n : n = Len(text)
      OBVIOUS
    <3>6. /\ n \in {1, 2, 3} /\ DOMAIN text = 1 .. n
          /\ \A i \in DOMAIN text : text[i].minus \in BOOLEAN /\ text[i].digits \in D
      <4>1. 1 .. 1 = {1} /\ 1 .. 2 = {1, 2} /\ 1 .. 3 = {1, 2, 3}
        OBVIOUS
      <4>2. CASE OneOf(text, v, w)
        <5>1. n = 1 /\ DOMAIN text = {1} /\ text[1].minus = v /\ text[1].digits = w
          BY <3>5, <4>2, ShapeOfOne
        <5>2. QED
          BY <1>2, <3>1, <4>1, <5>1
      <4>3. QED
        BY <1>1, <3>3, <3>4, <3>5, <4>1, <4>2
    <3>7. QED
      BY <3>1, <3>5, <3>6
  <2>2. QED
    BY <1>3, <2>1, RefusedUnlessSigned
<1>4. CASE IsPlain(text)
  <2>1. CASE OneOf(text, v, w)
    <3>1. Len(text) = 1 /\ text[1].minus = v /\ text[1].digits = w /\ text[1] = Part(v, w)
      BY <2>1, ShapeOfOne
    <3>2. w # <<>> /\ v = FALSE /\ 1 \in DOMAIN text
      BY <1>4, <2>1, <3>1, ShapeOfOne DEF IsPlain
    <3>3. ReadsAs(text, w, 0, 0)
      BY <1>2, <2>1, <3>2, WholeReads DEF OneOf
    <3>4. 0 \in 0 .. 9
      OBVIOUS
    <3>5. PICK one : one = Len(text)
      OBVIOUS
    <3>6. (one = 1 \/ one = 2) /\ ~(one = 2)
      BY <3>1, <3>5
    <3>7. (Len(text) = 1 \/ Len(text) = 2) /\ (Len(text) = 2 => Length(text[2]) <= 2)
      BY <3>5, <3>6
    <3>8. QED
      BY <1>2, <1>4, <3>1, <3>2, <3>3, <3>4, <3>7, ExactIfItReads
  <2>2. ASSUME NEW f \in Seq(0 .. 9), NEW u \in BOOLEAN, TwoOf(text, v, w, u, f)
        PROVE  ParseMoneyCents(text) = IF Says(text) \in 1 .. Largest
                                       THEN Says(text) ELSE Rejected
    <3>1. /\ Len(text) = 2 /\ text[1] = Part(v, w) /\ text[2] = Part(u, f)
          /\ DOMAIN text = {1, 2}
          /\ text[1].minus = v /\ text[1].digits = w
          /\ text[2].minus = u /\ text[2].digits = f
      BY <2>2, ShapeOfTwo
    <3>2. w # <<>> /\ v = FALSE /\ u = FALSE /\ Len(f) <= 2
      BY <1>4, <3>1 DEF IsPlain
    <3>3. PICK S : S = 0 .. 9
      OBVIOUS
    <3>4. \E a \in S, b \in S : ReadsAs(text, w, a, b)
      <4>1. \/ f = <<>>
            \/ \E a \in S : f = <<a>>
            \/ \E a, b \in S : f = <<a, b>>
        BY <3>2, <3>3, AtMostTwo
      <4>2. 0 \in S
        BY <3>3
      <4>3. TwoOf(text, FALSE, w, FALSE, f)
        BY <2>2, <3>2
      <4>4. CASE f = <<>>
        BY <1>2, <3>3, <4>2, <4>3, <4>4, TwoReads
      <4>5. ASSUME NEW a \in S, f = <<a>> PROVE ReadsAs(text, w, a, 0)
        BY <1>2, <3>3, <4>2, <4>3, <4>5, TwoReads
      <4>6. ASSUME NEW a \in S, NEW b \in S, f = <<a, b>> PROVE ReadsAs(text, w, a, b)
        BY <1>2, <3>3, <4>3, <4>6, TwoReads
      <4>7. QED
        BY <4>1, <4>2, <4>4, <4>5, <4>6
    <3>5. Length(text[2]) <= 2
      <4>1. PICK n : n = Len(f) /\ n \in Nat /\ n <= 2
        BY <3>2, LenProperties
      <4>2. Length(text[2]) = n + 0
        BY <3>1, <3>2, <4>1 DEF Length
      <4>3. QED
        BY <4>1, <4>2
    <3>6. QED
      BY <1>2, <3>1, <3>2, <3>3, <3>4, <3>5, ExactIfItReads
  <2>3. ASSUME NEW f, NEW u, ThreeOf(text, v, w, u, f) PROVE FALSE
    <3>1. PICK n : n = Len(text)
      OBVIOUS
    <3>2. n = 3 /\ n \in {1, 2}
      BY <1>4, <2>3, <3>1, ShapeOfThree DEF IsPlain
    <3>3. QED
      BY <3>2
  <2>4. QED
    BY <1>1, <1>4, <2>1, <2>2, <2>3
<1>5. QED
  BY <1>3, <1>4

\* parseMoneyCents reads an amount to the cent or not at all, for integers of
\* any width and texts of any length.
THEOREM MoneyExact == MoneySpec => []MoneyIsExact
<1>1. MoneyInit => MoneyIsExact
  BY DEF MoneyInit, MoneyIsExact
<1>2. ASSUME MoneyIsExact, [MoneyNext]_moneyVars PROVE MoneyIsExact'
  <2>1. ASSUME NEW text \in MoneyTexts, ReadsValor(text) PROVE MoneyIsExact'
    <3>1. valor' = text /\ parsed' = ParseMoneyCents(text)
      BY <2>1 DEF ReadsValor
    <3>2. QED
      BY <3>1, ReadsExactly DEF MoneyIsExact
  <2>2. CASE UNCHANGED moneyVars
    BY <1>2, <2>2 DEF moneyVars, MoneyIsExact
  <2>3. QED
    BY <1>2, <2>1, <2>2 DEF MoneyNext
<1>3. QED
  BY <1>1, <1>2, PTL DEF MoneySpec
=============================================================================
