------------------------ MODULE EmissionHistoryProofs ------------------------
(***************************************************************************)
(* Machine-checked proof about EmissionHistory: whatever the number of     *)
(* boletos, numbers, emissions, deliveries and polls, only overlapping or  *)
(* dead emissions give a boleto two titles.                                *)
(***************************************************************************)
EXTENDS EmissionHistory, BoletoLifecycleProofs

HasTitle(b) == \E n \in Numbers : title[b][n] # "none"

OneEmission(b) ==
    \A e, f \in Emitters : EmissionOf(e, b) /\ EmissionOf(f, b) => e = f

OneTitle(b) ==
    \A n, m \in Numbers : title[b][n] # "none" /\ title[b][m] # "none" => n = m

\* Once the bank has been asked, the emission under way has its answer, and
\* when none is under way Emit does not take the row up.
AskedAndClosed(b) ==
    HasTitle(b) =>
        /\ \A e \in Emitters :
              EmissionOf(e, b) => emit[e].pc \in {"answered", "failing"}
        /\ (\A e \in Emitters : ~ EmissionOf(e, b)) => ~ MayEmit(row[b])

HistoryInv ==
    \A b \in Boletos \ doubted :
        OneEmission(b) /\ OneTitle(b) /\ AskedAndClosed(b)

-----------------------------------------------------------------------------
(* Nothing leads to PROCESSING but CREATED and PROCESSING themselves.       *)
LEMMA ClosedRows ==
  ASSUME NEW r,
         \/ r.status \notin {"CREATED", "PROCESSING"}
         \/ r.status = "PROCESSING" /\ r.our # NoNumber
  PROVE  ~ MayEmit(r)
BY DEF MayEmit, AlreadyIssued, CanTransition, Transitions

(* What a webhook or a poll writes is not taken up again: an outcome, or a  *)
(* summary of a title whose number the copy carries.                       *)
LEMMA ReportsCloseRows ==
  ASSUME TypeOK, BackedInv, ReissueInv, [Next]_vars, NEW b \in Boletos,
         row'[b] # row[b], \A e \in Emitters : ~ EmissionOf(e, b)
  PROVE  ~ MayEmit(row'[b])
<1>1. ASSUME NEW w \in Receivers, row'[b] = Outcome(recv[w])
      PROVE  ~ MayEmit(row'[b])
  <2>1. Outcome(recv[w]).status \in {"FAILED", "ISSUED"}
    BY DEF Outcome, WithStatus
  <2>2. QED
    BY <1>1, <2>1, ClosedRows
<1>2. ASSUME NEW s \in Syncers, sync[s].pc = "write", row'[b] = sync[s].copy
      PROVE  ~ MayEmit(row'[b])
  <2>1. sync[s].copy.our # NoNumber
    BY <1>2 DEF BackedInv, MemoryIsBacked, SyncBacked, Idle
  <2>2. sync[s].copy.status \in Answered
    BY <1>2 DEF ReissueInv, PollsAreAnswers
  <2>3. QED
    BY <1>2, <2>1, <2>2, ClosedRows DEF Answered
<1>3. QED
  BY <1>1, <1>2, WhoStores DEF EmissionOf

(* The bank opens a title only for an emission that asks.                  *)
LEMMA TitlesAreAskedFor ==
  ASSUME TypeOK, [Next]_vars, NEW b \in Boletos, NEW n \in Numbers,
         title'[b][n] # "none", title[b][n] = "none"
  PROVE  \E e \in Emitters :
            /\ IssueAccepted(e) /\ EmissionOf(e, b) /\ emit[e].pc = "issue"
            /\ emit'[e].pc = "answered"
            /\ \A m \in Numbers \ {n} : title'[b][m] = title[b][m]
<1>1. ASSUME NEW c \in Boletos, NEW m \in Numbers, BankMoves(c, m)
      PROVE  FALSE
  <2>1. PICK t \in TitleTexts : /\ <<title[c][m], t>> \in TitleSteps
                                /\ title' = [title EXCEPT ![c][m] = t]
    BY <1>1 DEF BankMoves
  <2>2. title[c][m] # "none"
    BY <2>1 DEF TitleSteps
  <2>3. QED
    BY <2>1, <2>2 DEF TypeOK
<1>2. PICK e \in Emitters : IssueAccepted(e)
  BY <1>1 DEF Next, vars, EmitStep, EmitRead, EmitMark, IssueRefused,
     AnswerLost, EmitStore, EmitFail, EmitAbandon, RecvStep, RecvFind,
     Reserve, RecvStore, RecvStoreFails, Release, Deliver, RecvAbandon,
     SyncStep, SyncRead, SyncConsult, SyncStore, SyncAbandon
<1>3. PICK m \in Numbers :
         /\ title' = [title EXCEPT ![emit[e].boleto][m] =
                        IF ProviderOf[emit[e].boleto] = "mock"
                        THEN "registrado" ELSE "recebido"]
         /\ emit' = [emit EXCEPT ![e] =
                       [pc |-> "answered", boleto |-> emit[e].boleto,
                        copy |-> emit[e].copy, num |-> m]]
  BY <1>2 DEF IssueAccepted
<1>4. emit[e].boleto = b /\ m = n
  BY <1>3 DEF TypeOK
<1>5. emit[e].pc = "issue" /\ emit[e] # Idle
  BY <1>2 DEF IssueAccepted, Idle
<1>6. emit'[e].pc = "answered"
  BY <1>3 DEF TypeOK
<1>7. \A k \in Numbers \ {n} : title'[b][k] = title[b][k]
  BY <1>3, <1>4 DEF TypeOK
<1>8. QED
  BY <1>2, <1>4, <1>5, <1>6, <1>7 DEF EmissionOf

(* How an emission of a boleto may change: it starts on a row Emit takes    *)
(* up, moves on, or ends with a number, a refusal or nothing stored.        *)
LEMMA EmissionChanges ==
  ASSUME TypeOK, [Next]_vars, NEW e \in Emitters, NEW b \in Boletos,
         emit'[e] # emit[e], EmissionOf(e, b) \/ EmissionOf(e, b)'
  PROVE  \/ emit[e] = Idle /\ MayEmit(row[b])
         \/ emit[e].pc = "mark" /\ EmissionOf(e, b)
         \/ emit[e].pc = "issue" /\ EmissionOf(e, b)
         \/ EmissionOf(e, b) /\ EmissionOf(e, b)' /\ emit'[e].pc = "failing"
         \/ EmissionOf(e, b) /\ emit'[e] = Idle /\ ~ MayEmit(row'[b])
         \/ /\ EmissionOf(e, b) /\ emit'[e] = Idle
            /\ emit[e].pc # "mark" /\ EmitAbandon(e)
<1>1. PICK f \in Emitters : EmitStep(f)
  BY DEF Next, vars, BankMoves, RecvStep, RecvFind, Reserve, RecvStore,
     RecvStoreFails, Release, Deliver, RecvAbandon, SyncStep, SyncRead,
     SyncConsult, SyncStore, SyncAbandon
<1>2. f = e
  BY <1>1 DEF EmitStep, EmitRead, EmitMark, IssueAccepted, IssueRefused,
     AnswerLost, EmitStore, EmitFail, EmitAbandon, TypeOK
<1>3. CASE \E c \in Boletos : EmitRead(e, c)
  <2>1. PICK c \in Boletos : EmitRead(e, c)
    BY <1>3
  <2>2. emit[e] = Idle /\ emit'[e].boleto = c /\ MayEmit(row[c])
    BY <2>1 DEF EmitRead, TypeOK
  <2>3. QED
    BY <2>2 DEF EmissionOf
<1>4. CASE ~ \E c \in Boletos : EmitRead(e, c)
  <2>1. emit[e] # Idle
    BY <1>1, <1>2, <1>4 DEF EmitStep, EmitMark, IssueAccepted, IssueRefused,
       AnswerLost, EmitStore, EmitFail, EmitAbandon, Idle
  <2>2. emit[e] \in EmitCall \cup AnsweredCall /\ emit[e].boleto \in Boletos
    BY <2>1 DEF TypeOK, EmitCall, AnsweredCall
  <2>3. AnswerLost(e) => /\ emit'[e].boleto = emit[e].boleto
                         /\ emit'[e].pc = "failing"
    BY DEF AnswerLost, TypeOK
  <2>4. EmitStore(e) \/ EmitFail(e) \/ EmitAbandon(e) => emit'[e] = Idle
    BY DEF EmitStore, EmitFail, EmitAbandon, TypeOK
  <2>5. EmissionOf(e, b)
    <3>1. emit'[e] = Idle \/ emit'[e].boleto = emit[e].boleto
      <4>1. CASE EmitMark(e) \/ IssueRefused(e)
        <5>1. emit[e] \in EmitCall
          BY <2>2, <4>1 DEF EmitMark, IssueRefused, AnsweredCall
        <5>2. emit'[e].boleto = emit[e].boleto
          BY <4>1, <5>1 DEF EmitMark, IssueRefused, TypeOK, EmitCall
        <5>3. QED
          BY <5>2
      <4>2. CASE IssueAccepted(e)
        <5>1. PICK m : emit' = [emit EXCEPT ![e] =
                                  [pc |-> "answered", boleto |-> emit[e].boleto,
                                   copy |-> emit[e].copy, num |-> m]]
          BY <4>2 DEF IssueAccepted
        <5>2. QED
          BY <5>1 DEF TypeOK
      <4>3. CASE AnswerLost(e)
        BY <2>3, <4>3
      <4>4. CASE EmitStore(e) \/ EmitFail(e) \/ EmitAbandon(e)
        BY <2>4, <4>4
      <4>5. QED
        BY <1>1, <1>2, <1>4, <4>1, <4>2, <4>3, <4>4 DEF EmitStep
    <3>2. QED
      BY <2>1, <3>1 DEF EmissionOf
  <2>6. CASE EmitMark(e) \/ IssueAccepted(e) \/ IssueRefused(e)
    BY <2>5, <2>6 DEF EmitMark, IssueAccepted, IssueRefused
  <2>7. CASE AnswerLost(e)
    BY <2>5, <2>7, <2>3 DEF EmissionOf, Idle
  <2>8. CASE EmitStore(e)
    <3> DEFINE stored == [status |-> IssueStatus(emit[e].boleto),
                          our |-> emit[e].num,
                          issued |-> emit[e].copy.issued
                                     \/ ProviderOf[emit[e].boleto] = "mock"]
    <3>1. stored.status \in {"PROCESSING", "ISSUED"} /\ stored.our = emit[e].num
      BY DEF IssueStatus
    <3>2. emit[e].num \in Numbers
      BY <2>2, <2>8 DEF EmitStore, EmitCall, AnsweredCall
    <3>3. row' = [row EXCEPT ![emit[e].boleto] = stored]
      BY <2>8 DEF EmitStore, Update
    <3> HIDE DEF stored
    <3>4. row'[b] = stored
      BY <2>5, <3>3 DEF EmissionOf, TypeOK
    <3>5. ~ MayEmit(stored)
      BY <3>1, <3>2, NumberAssumption, ClosedRows
    <3>6. QED
      BY <2>5, <2>8, <2>4, <3>4, <3>5
  <2>9. CASE EmitFail(e)
    <3>1. WithStatus(emit[e].copy, "FAILED").status = "FAILED"
      BY DEF WithStatus
    <3>2. row'[b] = WithStatus(emit[e].copy, "FAILED")
      BY <2>5, <2>9 DEF EmitFail, Update, EmissionOf, TypeOK
    <3>3. QED
      BY <2>5, <2>9, <2>4, <3>1, <3>2, ClosedRows
  <2>10. CASE EmitAbandon(e)
    BY <2>5, <2>10, <2>4
  <2>11. QED
    BY <1>1, <1>2, <1>4, <2>6, <2>7, <2>8, <2>9, <2>10 DEF EmitStep
<1>5. QED
  BY <1>3, <1>4

(* So a boleto that stays undoubted keeps one title.                       *)
LEMMA HistoryIsKept ==
  ASSUME TypeOK, BackedInv, ReissueInv, HistoryInv,
         [HistoryNext]_historyVars
  PROVE  HistoryInv'
<1>1. [Next]_vars
  BY DEF HistoryNext, historyVars
<1>2. CASE UNCHANGED historyVars
  BY <1>2 DEF historyVars, vars, HistoryInv, OneEmission, OneTitle,
     AskedAndClosed, HasTitle, EmissionOf
<1>3. CASE HistoryNext
  <2> SUFFICES ASSUME NEW b \in Boletos, b \notin doubted'
               PROVE  OneEmission(b)' /\ OneTitle(b)' /\ AskedAndClosed(b)'
    BY DEF HistoryInv
  <2>1. b \notin doubted /\ b \notin Overlapping' /\ b \notin LeftUnstored
    BY <1>3 DEF HistoryNext
  <2>2. OneEmission(b) /\ OneTitle(b) /\ AskedAndClosed(b)
    BY <2>1 DEF HistoryInv
  <2>3. OneEmission(b)'
    BY <2>1 DEF Overlapping, OneEmission, EmissionOf
  <2>4. \A e \in Emitters : ~ (/\ EmissionOf(e, b) /\ emit[e].pc # "mark"
                               /\ EmitAbandon(e))
    BY <2>1 DEF LeftUnstored, EmissionOf
  <2>5. CASE \E n \in Numbers : title'[b][n] # "none" /\ title[b][n] = "none"
    <3>1. PICK n \in Numbers : title'[b][n] # "none" /\ title[b][n] = "none"
      BY <2>5
    <3>2. PICK e \in Emitters :
             /\ IssueAccepted(e) /\ EmissionOf(e, b) /\ emit[e].pc = "issue"
             /\ emit'[e].pc = "answered"
             /\ \A m \in Numbers \ {n} : title'[b][m] = title[b][m]
      BY <1>1, <3>1, TitlesAreAskedFor
    <3>3. ~ HasTitle(b)
      BY <2>2, <3>2 DEF AskedAndClosed
    <3>4. OneTitle(b)'
      BY <3>2, <3>3 DEF HasTitle, OneTitle
    <3>5. EmissionOf(e, b)'
      <4>1. PICK m : emit' = [emit EXCEPT ![e] =
                                [pc |-> "answered", boleto |-> emit[e].boleto,
                                 copy |-> emit[e].copy, num |-> m]]
        BY <3>2 DEF IssueAccepted
      <4>2. emit'[e].boleto = emit[e].boleto
        BY <4>1 DEF TypeOK
      <4>3. QED
        BY <3>2, <4>2 DEF EmissionOf, Idle
    <3>6. AskedAndClosed(b)'
      BY <2>3, <3>2, <3>5 DEF OneEmission, AskedAndClosed
    <3>7. QED
      BY <2>3, <3>4, <3>6
  <2>6. CASE ~ \E n \in Numbers : title'[b][n] # "none" /\ title[b][n] = "none"
    <3>1. OneTitle(b)'
      BY <2>2, <2>6 DEF OneTitle
    <3>2. SUFFICES ASSUME HasTitle(b)'
                   PROVE  AskedAndClosed(b)'
      BY <2>3, <3>1 DEF AskedAndClosed
    <3>3. HasTitle(b)
      BY <2>6, <3>2 DEF HasTitle
    <3>4. \A e \in Emitters :
             EmissionOf(e, b) => emit[e].pc \in {"answered", "failing"}
      BY <2>2, <3>3 DEF AskedAndClosed
    <3>5. ASSUME NEW e \in Emitters, EmissionOf(e, b)'
          PROVE  emit'[e].pc \in {"answered", "failing"}
      <4>1. CASE emit'[e] = emit[e]
        BY <3>4, <3>5, <4>1 DEF EmissionOf
      <4>2. CASE emit'[e] # emit[e] /\ emit[e] = Idle
        <5>1. MayEmit(row[b])
          BY <1>1, <3>5, <4>2, EmissionChanges DEF EmissionOf
        <5>2. PICK f \in Emitters : EmissionOf(f, b)
          BY <2>2, <3>3, <5>1 DEF AskedAndClosed
        <5>3. emit'[f] = emit[f]
          BY <1>1, <4>2, <5>2 DEF EmissionOf, Next, vars, BankMoves, EmitStep,
             EmitRead, EmitMark, IssueAccepted, IssueRefused, AnswerLost,
             EmitStore, EmitFail, EmitAbandon, RecvStep, RecvFind, Reserve,
             RecvStore, RecvStoreFails, Release, Deliver, RecvAbandon,
             SyncStep, SyncRead, SyncConsult, SyncStore, SyncAbandon, TypeOK
        <5>4. e # f /\ EmissionOf(f, b)'
          BY <4>2, <5>2, <5>3 DEF EmissionOf
        <5>5. QED
          BY <2>3, <3>5, <5>4 DEF OneEmission
      <4>3. CASE emit'[e] # emit[e] /\ emit[e] # Idle
        <5>1. EmissionOf(e, b)
          BY <1>1, <3>5, <4>3, EmissionChanges
        <5>2. emit'[e].pc = "failing" \/ emit'[e] = Idle
          BY <1>1, <3>4, <4>3, <5>1, EmissionChanges
        <5>3. QED
          BY <3>5, <5>2 DEF EmissionOf
      <4>4. QED
        BY <4>1, <4>2, <4>3
    <3>6. ASSUME \A e \in Emitters : ~ EmissionOf(e, b)'
          PROVE  ~ MayEmit(row'[b])
      <4>1. CASE \A e \in Emitters : ~ EmissionOf(e, b)
        BY <1>1, <2>2, <3>3, <4>1, ReportsCloseRows DEF AskedAndClosed
      <4>2. CASE \E e \in Emitters : EmissionOf(e, b)
        <5>1. PICK e \in Emitters : EmissionOf(e, b)
          BY <4>2
        <5>2. emit'[e] # emit[e]
          BY <3>6, <5>1 DEF EmissionOf
        <5>3. QED
          BY <1>1, <2>4, <3>4, <3>6, <5>1, <5>2, EmissionChanges DEF EmissionOf
      <4>3. QED
        BY <4>1, <4>2
    <3>7. QED
      BY <3>5, <3>6 DEF AskedAndClosed
  <2>7. QED
    BY <2>5, <2>6
<1>4. QED
  BY <1>2, <1>3

(* An emission that neither overlapped another nor died past its mark is the *)
(* only one that reached the bank for its boleto, for any number of           *)
(* deliveries, polls and refusals around it, and wherever those die           *)
(* (BoletoService.Emit, processItem, Sync).                                  *)
THEOREM UndoubtedEmissionsAreSingle == HistorySpec => []UndoubtedHasOneTitle
<1>1. HistoryInit => HistoryInv
  BY DEF HistoryInit, Init, HistoryInv, OneEmission, OneTitle, AskedAndClosed,
     HasTitle, EmissionOf
<1>2. TypeOK /\ BackedInv /\ ReissueInv /\ HistoryInv
         /\ [HistoryNext]_historyVars => HistoryInv'
  BY HistoryIsKept
<1>3. HistoryInit => Init
  BY DEF HistoryInit
<1>4. [HistoryNext]_historyVars => [Next]_vars
  BY DEF HistoryNext, historyVars
<1>5. HistorySpec => Spec
  BY <1>3, <1>4, PTL DEF HistorySpec, Spec
<1>6. HistoryInv => UndoubtedHasOneTitle
  BY DEF HistoryInv, OneTitle, UndoubtedHasOneTitle
<1>7. QED
  BY <1>1, <1>2, <1>5, <1>6, TypeCorrect, BackedInvHolds, ReissueInvHolds, PTL
     DEF HistorySpec
=============================================================================
