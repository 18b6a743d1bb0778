------------------------ MODULE BoletoLifecycleProofs ------------------------
(***************************************************************************)
(* Machine-checked proofs about BoletoLifecycle, for any sets of boletos,  *)
(* numbers and concurrent calls, with and without faults.                  *)
(***************************************************************************)
EXTENDS BoletoLifecycle, TLAPS

(* The mapper only ever produces statuses the table knows (mapper.go).      *)
LEMMA MapStatusKnown == \A text : MapStatus(text) \in KnownStatuses
  BY DEF MapStatus, Wording, KnownStatuses

(* No step of the three handlers or of the bank leaves the types.          *)
LEMMA TypeIsKept ==
  ASSUME TypeOK, [Next]_vars
  PROVE  TypeOK'
<1> USE DEF TypeOK
<1>1. ASSUME NEW b \in Boletos, NEW n \in Numbers, BankMoves(b, n)
      PROVE  TypeOK'
  BY <1>1 DEF BankMoves, TitleState, TitleTexts
<1>2. ASSUME NEW e \in Emitters, NEW b \in Boletos, EmitRead(e, b)
      PROVE  TypeOK'
  BY <1>2 DEF EmitRead, EmitCall
<1>3. ASSUME NEW e \in Emitters, EmitMark(e)
      PROVE  TypeOK'
  <2>1. emit[e] \in EmitCall
    BY <1>3 DEF EmitMark, EmitCall, AnsweredCall, Idle
  <2>2. WithStatus(emit[e].copy, "PROCESSING") \in Copy
    BY <2>1 DEF WithStatus, EmitCall, Copy, KnownStatuses, StoredStatuses
  <2>3. row' \in [Boletos -> Copy] /\ paidAt' \in [Boletos -> BOOLEAN]
    BY <1>3, <2>1, <2>2 DEF EmitMark, Update, EmitCall
  <2>4. emit' \in [Emitters -> {Idle} \cup EmitCall \cup AnsweredCall]
    BY <1>3, <2>1, <2>2 DEF EmitMark, EmitCall
  <2>5. QED
    BY <1>3, <2>3, <2>4 DEF EmitMark
<1>4. ASSUME NEW e \in Emitters, IssueAccepted(e)
      PROVE  TypeOK'
  BY <1>4 DEF IssueAccepted, EmitCall, AnsweredCall, Idle, TitleState,
     TitleTexts
<1>5. ASSUME NEW e \in Emitters, IssueRefused(e)
      PROVE  TypeOK'
  <2>1. emit[e] \in EmitCall
    BY <1>5 DEF IssueRefused, EmitCall, AnsweredCall, Idle
  <2>2. emit' \in [Emitters -> {Idle} \cup EmitCall \cup AnsweredCall]
    BY <1>5, <2>1 DEF IssueRefused, EmitCall
  <2>3. QED
    BY <1>5, <2>2 DEF IssueRefused
<1>6. ASSUME NEW e \in Emitters, AnswerLost(e)
      PROVE  TypeOK'
  BY <1>6 DEF AnswerLost, EmitCall, AnsweredCall, Idle
<1>7. ASSUME NEW e \in Emitters, EmitStore(e)
      PROVE  TypeOK'
  <2> DEFINE stored == [status |-> IssueStatus(emit[e].boleto),
                        our |-> emit[e].num,
                        issued |-> emit[e].copy.issued
                                   \/ ProviderOf[emit[e].boleto] = "mock"]
  <2>1. emit[e] \in AnsweredCall
    <3>1. emit[e] \in {Idle} \cup EmitCall \cup AnsweredCall
      OBVIOUS
    <3>2. emit[e].pc = "answered"
      BY <1>7 DEF EmitStore
    <3>3. emit[e] # Idle /\ emit[e] \notin EmitCall
      BY <3>2 DEF Idle, EmitCall
    <3>4. QED
      BY <3>1, <3>3
  <2>2. stored \in Copy /\ emit[e].boleto \in Boletos
    <3>1. emit[e].boleto \in Boletos /\ emit[e].num \in Numbers
      BY <2>1 DEF AnsweredCall
    <3>2. emit[e].copy.issued \in BOOLEAN
      BY <2>1 DEF AnsweredCall, Copy
    <3>3. IssueStatus(emit[e].boleto) \in StoredStatuses
      BY DEF IssueStatus, StoredStatuses, KnownStatuses
    <3>4. QED
      BY <3>1, <3>2, <3>3 DEF Copy, MaybeNumber
  <2>3. Update(emit[e].boleto, stored)
    BY <1>7 DEF EmitStore
  <2> HIDE DEF stored
  <2>4. row' \in [Boletos -> Copy] /\ paidAt' \in [Boletos -> BOOLEAN]
    BY <2>2, <2>3 DEF Update
  <2>5. QED
    BY <1>7, <2>4 DEF EmitStore
<1>8. ASSUME NEW e \in Emitters, EmitFail(e)
      PROVE  TypeOK'
  BY <1>8 DEF EmitFail, Update, WithStatus, EmitCall, AnsweredCall, Idle,
     Copy, KnownStatuses, StoredStatuses
<1>9. ASSUME NEW e \in Emitters, EmitAbandon(e)
      PROVE  TypeOK'
  BY <1>9 DEF EmitAbandon
<1>10. ASSUME NEW w \in Receivers, NEW b \in Boletos, NEW n \in Numbers,
              RecvFind(w, b, n)
       PROVE  TypeOK'
  BY <1>10 DEF RecvFind, RecvCall
<1>11. ASSUME NEW w \in Receivers, Reserve(w)
       PROVE  TypeOK'
  <2>1. recv[w] \in RecvCall
    BY <1>11 DEF Reserve, RecvCall, Idle
  <2>2. event' \in [Boletos -> [Numbers -> EventState]]
    BY <1>11, <2>1 DEF Reserve, RecvCall, EventState
  <2>3. recv' \in [Receivers -> {Idle} \cup RecvCall]
    <3>1. CASE event[recv[w].boleto][recv[w].num] = "delivered"
      BY <1>11, <3>1 DEF Reserve
    <3>2. CASE event[recv[w].boleto][recv[w].num] # "delivered"
      <4> DEFINE pc == IF event[recv[w].boleto][recv[w].num] = "absent"
                       THEN "update" ELSE "deliver"
      <4>1. recv' = [recv EXCEPT ![w].pc = pc]
        BY <1>11, <3>2 DEF Reserve
      <4>2. pc \in {"update", "deliver"}
        OBVIOUS
      <4> HIDE DEF pc
      <4>3. QED
        BY <2>1, <4>1, <4>2 DEF RecvCall
    <3>3. QED
      BY <3>1, <3>2
  <2>4. QED
    BY <1>11, <2>2, <2>3 DEF Reserve
<1>12. ASSUME NEW w \in Receivers, RecvStore(w)
       PROVE  TypeOK'
  <2>1. recv[w] \in RecvCall
    BY <1>12 DEF RecvStore, RecvCall, Idle
  <2>2. Outcome(recv[w]) \in Copy
    BY <2>1 DEF Outcome, WithStatus, RecvCall, Copy, KnownStatuses,
       StoredStatuses, MaybeNumber
  <2>3. row' \in [Boletos -> Copy] /\ paidAt' \in [Boletos -> BOOLEAN]
    BY <1>12, <2>1, <2>2 DEF RecvStore, Update, RecvCall
  <2>4. recv' \in [Receivers -> {Idle} \cup RecvCall]
    BY <1>12, <2>1 DEF RecvStore, RecvCall
  <2>5. QED
    BY <1>12, <2>1, <2>3, <2>4 DEF RecvStore, RecvCall
<1>13. ASSUME NEW w \in Receivers, RecvStoreFails(w)
       PROVE  TypeOK'
  <2>1. recv[w] \in RecvCall
    BY <1>13 DEF RecvStoreFails, RecvCall, Idle
  <2>2. QED
    BY <1>13, <2>1 DEF RecvStoreFails, RecvCall
<1>14. ASSUME NEW w \in Receivers, Release(w)
       PROVE  TypeOK'
  BY <1>14 DEF Release, RecvCall, Idle, EventState
<1>15. ASSUME NEW w \in Receivers, Deliver(w)
       PROVE  TypeOK'
  BY <1>15 DEF Deliver, RecvCall, Idle, EventState
<1>16. ASSUME NEW w \in Receivers, RecvAbandon(w)
       PROVE  TypeOK'
  BY <1>16 DEF RecvAbandon
<1>17. ASSUME NEW s \in Syncers, NEW b \in Boletos, SyncRead(s, b)
       PROVE  TypeOK'
  BY <1>17 DEF SyncRead, SyncCall
<1>18. ASSUME NEW s \in Syncers, SyncConsult(s)
       PROVE  TypeOK'
  <2>1. Answers(sync[s].boleto, sync[s].copy.our) \subseteq StoredStatuses
    BY MapStatusKnown DEF Answers, KnownStatuses, StoredStatuses
  <2>2. PICK status \in StoredStatuses :
          \/ sync' = [sync EXCEPT ![s].pc = "write",
                         ![s].copy = ApplySummary(sync[s].copy, status)]
          \/ sync' = [sync EXCEPT ![s] = Idle]
    BY <1>18, <2>1 DEF SyncConsult
  <2>3. sync[s] \in SyncCall
    BY <1>18 DEF SyncConsult, SyncCall, Idle
  <2>4. ApplySummary(sync[s].copy, status) \in Copy
    BY <2>3 DEF ApplySummary, SyncCall, Copy
  <2> DEFINE summary == ApplySummary(sync[s].copy, status)
  <2> HIDE DEF summary
  <2>5. sync' \in [Syncers -> {Idle} \cup SyncCall]
    <3>1. CASE sync' = [sync EXCEPT ![s].pc = "write", ![s].copy = summary]
      BY <2>3, <2>4, <3>1 DEF SyncCall, summary
    <3>2. CASE sync' = [sync EXCEPT ![s] = Idle]
      BY <3>2
    <3>3. QED
      BY <2>2, <3>1, <3>2 DEF summary
  <2>6. QED
    BY <1>18, <2>5 DEF SyncConsult
<1>19. ASSUME NEW s \in Syncers, SyncStore(s)
       PROVE  TypeOK'
  BY <1>19 DEF SyncStore, Update, SyncCall, Idle
<1>20. ASSUME NEW s \in Syncers, SyncAbandon(s)
       PROVE  TypeOK'
  BY <1>20 DEF SyncAbandon
<1>21. CASE UNCHANGED vars
  BY <1>21 DEF vars
<1>22. QED
  BY <1>1, <1>2, <1>3, <1>4, <1>5, <1>6, <1>7, <1>8, <1>9, <1>10, <1>11,
     <1>12, <1>13, <1>14, <1>15, <1>16, <1>17, <1>18, <1>19, <1>20, <1>21
     DEF Next, EmitStep, RecvStep, SyncStep

(* Every variable keeps its type.                                          *)
THEOREM TypeCorrect == Spec => []TypeOK
<1>1. Init => TypeOK
  BY CreatedAssumption DEF Init, TypeOK, Copy, StoredStatuses,
     MaybeNumber, TitleState, EventState, Idle
<1>2. TypeOK /\ [Next]_vars => TypeOK'
  BY TypeIsKept
<1>3. QED
  BY <1>1, <1>2, PTL DEF Spec

-----------------------------------------------------------------------------
(* The bank never takes back what it said: a title given out stays given   *)
(* out, a registered one stays registered, a closed or refused one final.   *)
Final == {"pago", "baixado", "vencido", "erro"}

LEMMA TitlesOnlyAdvance ==
  ASSUME TypeOK, [Next]_vars, NEW b \in Boletos, NEW n \in Numbers
  PROVE  /\ title[b][n] # "none" => title'[b][n] # "none"
         /\ title[b][n] \in Registered => title'[b][n] \in Registered
         /\ \A t \in Final :
               title[b][n] = t => title'[b][n] = t
<1>1. \/ UNCHANGED title
      \/ \E c \in Boletos, m \in Numbers : BankMoves(c, m)
      \/ \E e \in Emitters : IssueAccepted(e)
  BY DEF Next, vars, EmitStep, RecvStep, SyncStep, EmitRead, EmitMark,
     IssueRefused, AnswerLost, EmitStore, EmitFail, EmitAbandon, RecvFind,
     Reserve, RecvStore, RecvStoreFails, Release, Deliver, RecvAbandon,
     SyncRead, SyncConsult, SyncStore, SyncAbandon
<1>2. CASE UNCHANGED title
  BY <1>2
<1>3. ASSUME NEW c \in Boletos, NEW m \in Numbers, BankMoves(c, m)
      PROVE  /\ title[b][n] # "none" => title'[b][n] # "none"
             /\ title[b][n] \in Registered => title'[b][n] \in Registered
             /\ \A t \in Final :
                   title[b][n] = t => title'[b][n] = t
  BY <1>3 DEF BankMoves, TypeOK, TitleSteps, TitleTexts, Registered, Final
<1>4. ASSUME NEW e \in Emitters, IssueAccepted(e)
      PROVE  /\ title[b][n] # "none" => title'[b][n] # "none"
             /\ title[b][n] \in Registered => title'[b][n] \in Registered
             /\ \A t \in Final :
                   title[b][n] = t => title'[b][n] = t
  BY <1>4 DEF IssueAccepted, TypeOK, EmitCall, AnsweredCall, Idle, Registered,
     Final
<1>5. QED
  BY <1>1, <1>2, <1>3, <1>4

(* So a row or a memory copy that was backed before a step is backed after.*)
LEMMA BackedStays ==
  ASSUME TypeOK, [Next]_vars, NEW b \in Boletos, NEW r \in Copy
  PROVE  /\ NumberIsKnown(b, r) => NumberIsKnown(b, r)'
         /\ Backed(b, r) => Backed(b, r)'
<1>1. r.our \in Numbers \cup {NoNumber} /\ r.status \in StoredStatuses
  BY DEF Copy, MaybeNumber
<1>2. CASE r.our = NoNumber
  BY <1>2 DEF NumberIsKnown, Backed
<1>3. CASE r.our # NoNumber
  BY <1>1, <1>3, TitlesOnlyAdvance
     DEF NumberIsKnown, Backed, Justified, Settled, KnownStatuses,
         StoredStatuses, Registered, Final
<1>4. QED
  BY <1>2, <1>3

(* A call that a step leaves alone keeps a memory the bank stands by.       *)
LEMMA CallsStayBacked ==
  ASSUME TypeOK, [Next]_vars
  PROVE  /\ \A e \in Emitters : EmitBacked(e) /\ emit'[e] = emit[e]
                                => EmitBacked(e)'
         /\ \A w \in Receivers : RecvBacked(w) /\ recv'[w] = recv[w]
                                => RecvBacked(w)'
         /\ \A s \in Syncers : SyncBacked(s) /\ sync'[s] = sync[s]
                                => SyncBacked(s)'
<1>1. ASSUME NEW e \in Emitters, EmitBacked(e), emit'[e] = emit[e]
      PROVE  EmitBacked(e)'
  <2>1. CASE emit[e] = Idle
    BY <1>1, <2>1 DEF EmitBacked
  <2>2. CASE emit[e] # Idle
    <3>1. emit[e] \in EmitCall \cup AnsweredCall
      BY <2>2 DEF TypeOK
    <3>2. emit[e].boleto \in Boletos /\ emit[e].copy \in Copy
      BY <3>1 DEF EmitCall, AnsweredCall
    <3>3. emit[e].pc = "answered" => emit[e].num \in Numbers
      BY <3>1 DEF EmitCall, AnsweredCall
    <3>4. NumberIsKnown(emit[e].boleto, emit[e].copy)'
      BY <1>1, <2>2, <3>2, BackedStays DEF EmitBacked, NumberIsKnown
    <3>5. QED
      BY <1>1, <2>2, <3>2, <3>3, <3>4, TitlesOnlyAdvance DEF EmitBacked
  <2>3. QED
    BY <2>1, <2>2
<1>2. ASSUME NEW w \in Receivers, RecvBacked(w), recv'[w] = recv[w]
      PROVE  RecvBacked(w)'
  <2>1. CASE recv[w] = Idle
    BY <1>2, <2>1 DEF RecvBacked
  <2>2. CASE recv[w] # Idle
    <3>1. /\ recv[w].boleto \in Boletos
          /\ recv[w].num \in Numbers
          /\ recv[w].copy \in Copy
      BY <2>2 DEF TypeOK, RecvCall
    <3>2. NumberIsKnown(recv[w].boleto, recv[w].copy)'
      BY <1>2, <2>2, <3>1, BackedStays DEF RecvBacked, NumberIsKnown
    <3>3. QED
      BY <1>2, <2>2, <3>1, <3>2, TitlesOnlyAdvance DEF RecvBacked
  <2>3. QED
    BY <2>1, <2>2
<1>3. ASSUME NEW s \in Syncers, SyncBacked(s), sync'[s] = sync[s]
      PROVE  SyncBacked(s)'
  <2>1. CASE sync[s] = Idle
    BY <1>3, <2>1 DEF SyncBacked
  <2>2. CASE sync[s] # Idle
    <3>1. sync[s].boleto \in Boletos /\ sync[s].copy \in Copy
      BY <2>2 DEF TypeOK, SyncCall
    <3>2. /\ NumberIsKnown(sync[s].boleto, sync[s].copy)'
          /\ Backed(sync[s].boleto, sync[s].copy)
                => Backed(sync[s].boleto, sync[s].copy)'
      BY <1>3, <2>2, <3>1, BackedStays
         DEF SyncBacked, NumberIsKnown, Backed, Justified
    <3>3. QED
      BY <1>3, <2>2, <3>1, <3>2 DEF SyncBacked
  <2>3. QED
    BY <2>1, <2>2
<1>4. QED
  BY <1>1, <1>2, <1>3

(* A step that stores one whole row keeps the rows backed when what it      *)
(* stores is backed: no other row, and no title, changes to the worse.      *)
LEMMA StoredRowsStayBacked ==
  ASSUME TypeOK, SettledIsBacked, \A b \in Boletos : NumberIsKnown(b, row[b]),
         [Next]_vars, NEW c \in Boletos, NEW r \in Copy,
         row' = [row EXCEPT ![c] = r],
         NumberIsKnown(c, r), CreatedAs[c] \notin Settled => Backed(c, r)
  PROVE  SettledIsBacked' /\ (\A b \in Boletos : NumberIsKnown(b, row[b]))'
<1>1. ASSUME NEW b \in Boletos
      PROVE  /\ NumberIsKnown(b, row[b])'
             /\ CreatedAs[b] \notin Settled => Backed(b, row[b])'
  <2>1. row[b] \in Copy
    BY DEF TypeOK
  <2>2. CASE b = c
    <3>1. row'[b] = r
      BY <2>2 DEF TypeOK
    <3>2. QED
      BY <2>2, <3>1, BackedStays DEF NumberIsKnown, Backed
  <2>3. CASE b # c
    <3>1. row'[b] = row[b]
      BY <2>3 DEF TypeOK
    <3>2. NumberIsKnown(b, row[b]) /\ (CreatedAs[b] \notin Settled => Backed(b, row[b]))
      BY DEF SettledIsBacked
    <3>3. QED
      BY <2>1, <3>1, <3>2, BackedStays DEF NumberIsKnown, Backed
  <2>4. QED
    BY <2>2, <2>3
<1>2. QED
  BY <1>1 DEF SettledIsBacked

(* The same for a step that stores no row.                                 *)
LEMMA UntouchedRowsStayBacked ==
  ASSUME TypeOK, SettledIsBacked, \A b \in Boletos : NumberIsKnown(b, row[b]),
         [Next]_vars, UNCHANGED row
  PROVE  SettledIsBacked' /\ (\A b \in Boletos : NumberIsKnown(b, row[b]))'
<1>1. ASSUME NEW b \in Boletos
      PROVE  /\ NumberIsKnown(b, row[b])'
             /\ CreatedAs[b] \notin Settled => Backed(b, row[b])'
  <2>1. row[b] \in Copy /\ row'[b] = row[b]
    BY DEF TypeOK
  <2>2. NumberIsKnown(b, row[b]) /\ (CreatedAs[b] \notin Settled => Backed(b, row[b]))
    BY DEF SettledIsBacked
  <2>3. QED
    BY <2>1, <2>2, BackedStays DEF NumberIsKnown, Backed
<1>2. QED
  BY <1>1 DEF SettledIsBacked

-----------------------------------------------------------------------------
(* Whatever settled status a consultation may answer, the title supports it. *)
LEMMA AnswersAreJustified ==
  ASSUME TypeOK, MockIsInstant, NEW b \in Boletos, NEW n \in Numbers,
         title[b][n] # "none",
         NEW status \in Answers(b, n), status \in Settled
  PROVE  <<status, title[b][n]>> \in Justified
<1>1. CASE ProviderOf[b] = "mock"
  BY <1>1 DEF MockIsInstant, Answers, Justified, Registered
<1>2. CASE ProviderOf[b] # "mock"
  <2>1. MapStatus(Unlisted) = "PROCESSING"
    BY DEF MapStatus, Unlisted, Wording
  <2>2. status = MapStatus(title[b][n])
    BY <1>2, <2>1 DEF Answers, Settled
  <2>3. title[b][n] \in TitleTexts
    BY DEF TypeOK, TitleState
  <2>4. QED
    BY <2>2, <2>3 DEF MapStatus, Wording, TitleTexts, Justified, Registered,
       Settled
<1>3. QED
  BY <1>1, <1>2

(* SettledIsBacked is not inductive alone: a handler may store a row it read *)
(* or built long before, so its memory has to be backed too.               *)
BackedInv == SettledIsBacked /\ MemoryIsBacked

LEMMA BackedIsKept ==
  ASSUME TypeOK, BackedInv, [Next]_vars
  PROVE  BackedInv'
<1> DEFINE Rows == SettledIsBacked /\ \A b \in Boletos : NumberIsKnown(b, row[b])
           Emits == \A e \in Emitters : EmitBacked(e)
           Recvs == \A w \in Receivers : RecvBacked(w)
           Syncs == \A s \in Syncers : SyncBacked(s)
<1>a. Rows /\ Emits /\ Recvs /\ Syncs /\ MockIsInstant
  BY DEF BackedInv, MemoryIsBacked
<1>b. UNCHANGED row => Rows'
  BY <1>a, UntouchedRowsStayBacked
<1>c. UNCHANGED emit => Emits'
  BY <1>a, CallsStayBacked
<1>d. UNCHANGED recv => Recvs'
  BY <1>a, CallsStayBacked
<1>e. UNCHANGED sync => Syncs'
  BY <1>a, CallsStayBacked
<1>f. UNCHANGED title => MockIsInstant'
  BY <1>a DEF MockIsInstant
<1>g. Rows' /\ Emits' /\ Recvs' /\ Syncs' /\ MockIsInstant' => BackedInv'
  BY DEF BackedInv, MemoryIsBacked
<1> HIDE DEF Rows, Emits, Recvs, Syncs
<1>1. ASSUME NEW b \in Boletos, NEW n \in Numbers, BankMoves(b, n)
      PROVE  BackedInv'
  <2>1. MockIsInstant'
    BY <1>1, <1>a DEF BankMoves, MockIsInstant, TypeOK
  <2>2. QED
    BY <1>1, <2>1, <1>b, <1>c, <1>d, <1>e, <1>g DEF BankMoves
<1>2. ASSUME NEW e \in Emitters, NEW b \in Boletos, EmitRead(e, b)
      PROVE  BackedInv'
  <2>1. EmitBacked(e)'
    BY <1>2, <1>a, UntouchedRowsStayBacked DEF EmitRead, EmitBacked,
       NumberIsKnown, Rows, TypeOK
  <2>2. Emits'
    <3>1. \A y \in Emitters \ {e} : emit'[y] = emit[y]
      BY <1>2 DEF EmitRead, TypeOK
    <3>2. QED
      BY <1>a, <2>1, <3>1, CallsStayBacked DEF Emits
  <2>3. QED
    BY <1>2, <2>2, <1>b, <1>f, <1>d, <1>e, <1>g DEF EmitRead
<1>3. ASSUME NEW e \in Emitters, EmitMark(e)
      PROVE  BackedInv'
  <2>1. EmitBacked(e)'
    BY <1>3, <1>a, TitlesOnlyAdvance DEF EmitMark, EmitBacked, NumberIsKnown,
       Emits, TypeOK, WithStatus, EmitCall, AnsweredCall, Idle, Copy,
       MaybeNumber
  <2>2. Emits'
    <3>1. \A y \in Emitters \ {e} : emit'[y] = emit[y]
      BY <1>3 DEF EmitMark, TypeOK
    <3>2. QED
      BY <1>a, <2>1, <3>1, CallsStayBacked DEF Emits
  <2>3. Rows'
    <3>1. emit[e] \in EmitCall
      BY <1>3 DEF EmitMark, TypeOK, EmitCall, AnsweredCall, RecvCall,
         SyncCall, Idle
    <3>2. /\ WithStatus(emit[e].copy, "PROCESSING") \in Copy
          /\ NumberIsKnown(emit[e].boleto, WithStatus(emit[e].copy, "PROCESSING"))
          /\ CreatedAs[emit[e].boleto] \notin Settled
               => Backed(emit[e].boleto, WithStatus(emit[e].copy, "PROCESSING"))
      BY <1>3, <1>a, <3>1 DEF Emits, EmitBacked, EmitMark, EmitCall, Copy,
         WithStatus, KnownStatuses, StoredStatuses, NumberIsKnown, Backed,
         Settled, Idle
    <3>3. row' = [row EXCEPT ![emit[e].boleto] = WithStatus(emit[e].copy, "PROCESSING")]
      BY <1>3 DEF EmitMark, Update
    <3>4. emit[e].boleto \in Boletos
      BY <3>1 DEF EmitCall
    <3>5. QED
      BY <1>a, <3>2, <3>3, <3>4, StoredRowsStayBacked DEF Rows
  <2>4. QED
    BY <1>3, <2>2, <2>3, <1>f, <1>d, <1>e, <1>g DEF EmitMark
<1>4. ASSUME NEW e \in Emitters, IssueAccepted(e)
      PROVE  BackedInv'
  <2>1. EmitBacked(e)'
    BY <1>4, <1>a, TitlesOnlyAdvance DEF IssueAccepted, EmitBacked,
       NumberIsKnown, Emits, TypeOK, EmitCall, AnsweredCall, Idle, Copy,
       MaybeNumber
  <2>2. Emits'
    <3>1. \A y \in Emitters \ {e} : emit'[y] = emit[y]
      BY <1>4 DEF IssueAccepted, TypeOK
    <3>2. QED
      BY <1>a, <2>1, <3>1, CallsStayBacked DEF Emits
  <2>3. MockIsInstant'
    BY <1>4, <1>a DEF IssueAccepted, MockIsInstant, TypeOK, EmitCall,
       AnsweredCall, Idle
  <2>4. QED
    BY <1>4, <2>2, <1>b, <2>3, <1>d, <1>e, <1>g DEF IssueAccepted
<1>5. ASSUME NEW e \in Emitters, IssueRefused(e)
      PROVE  BackedInv'
  <2>1. EmitBacked(e)'
    BY <1>5, <1>a DEF IssueRefused, EmitBacked, NumberIsKnown, Emits, TypeOK,
       EmitCall, AnsweredCall, Idle
  <2>2. Emits'
    <3>1. \A y \in Emitters \ {e} : emit'[y] = emit[y]
      BY <1>5 DEF IssueRefused, TypeOK
    <3>2. QED
      BY <1>a, <2>1, <3>1, CallsStayBacked DEF Emits
  <2>3. QED
    BY <1>5, <2>2, <1>b, <1>f, <1>d, <1>e, <1>g DEF IssueRefused
<1>6. ASSUME NEW e \in Emitters, AnswerLost(e)
      PROVE  BackedInv'
  <2>1. EmitBacked(e)'
    BY <1>6, <1>a DEF AnswerLost, EmitBacked, NumberIsKnown, Emits, TypeOK,
       EmitCall, AnsweredCall, Idle
  <2>2. Emits'
    <3>1. \A y \in Emitters \ {e} : emit'[y] = emit[y]
      BY <1>6 DEF AnswerLost, TypeOK
    <3>2. QED
      BY <1>a, <2>1, <3>1, CallsStayBacked DEF Emits
  <2>3. QED
    BY <1>6, <2>2, <1>b, <1>f, <1>d, <1>e, <1>g DEF AnswerLost
<1>7. ASSUME NEW e \in Emitters, EmitStore(e)
      PROVE  BackedInv'
  <2>1. EmitBacked(e)'
    BY <1>7 DEF EmitStore, EmitBacked, TypeOK
  <2>2. Emits'
    <3>1. \A y \in Emitters \ {e} : emit'[y] = emit[y]
      BY <1>7 DEF EmitStore, TypeOK
    <3>2. QED
      BY <1>a, <2>1, <3>1, CallsStayBacked DEF Emits
  <2>3. Rows'
    <3> DEFINE stored == [status |-> IssueStatus(emit[e].boleto),
                          our |-> emit[e].num,
                          issued |-> emit[e].copy.issued
                            \/ ProviderOf[emit[e].boleto] = "mock"]
    <3>1. emit[e] \in AnsweredCall
      BY <1>7 DEF EmitStore, TypeOK, EmitCall, AnsweredCall, RecvCall,
         SyncCall, Idle
    <3>2. /\ stored \in Copy
          /\ NumberIsKnown(emit[e].boleto, stored)
          /\ CreatedAs[emit[e].boleto] \notin Settled
               => Backed(emit[e].boleto, stored)
      <4>1. stored \in Copy
        BY <3>1 DEF AnsweredCall, Copy, IssueStatus, KnownStatuses,
           StoredStatuses, MaybeNumber
      <4>2. title[emit[e].boleto][emit[e].num] # "none"
        BY <1>7, <1>a, <3>1 DEF EmitStore, Emits, EmitBacked, AnsweredCall,
           Idle
      <4>3. stored.status \in Settled => ProviderOf[emit[e].boleto] = "mock"
        BY DEF IssueStatus, Settled
      <4>4. Backed(emit[e].boleto, stored)
        BY <1>a, <3>1, <4>2, <4>3, NumberAssumption DEF AnsweredCall,
           MockIsInstant, Backed, Justified, Registered, IssueStatus
      <4>5. QED
        BY <4>1, <4>2, <4>4 DEF NumberIsKnown
    <3>3. row' = [row EXCEPT ![emit[e].boleto] = stored]
      BY <1>7 DEF EmitStore, Update
    <3>4. emit[e].boleto \in Boletos
      BY <3>1 DEF AnsweredCall
    <3>5. QED
      BY <1>a, <3>2, <3>3, <3>4, StoredRowsStayBacked DEF Rows
  <2>4. QED
    BY <1>7, <2>2, <2>3, <1>f, <1>d, <1>e, <1>g DEF EmitStore
<1>8. ASSUME NEW e \in Emitters, EmitFail(e)
      PROVE  BackedInv'
  <2>1. EmitBacked(e)'
    BY <1>8 DEF EmitFail, EmitBacked, TypeOK
  <2>2. Emits'
    <3>1. \A y \in Emitters \ {e} : emit'[y] = emit[y]
      BY <1>8 DEF EmitFail, TypeOK
    <3>2. QED
      BY <1>a, <2>1, <3>1, CallsStayBacked DEF Emits
  <2>3. Rows'
    <3>1. emit[e] \in EmitCall
      BY <1>8 DEF EmitFail, TypeOK, EmitCall, AnsweredCall, RecvCall,
         SyncCall, Idle
    <3>2. /\ WithStatus(emit[e].copy, "FAILED") \in Copy
          /\ NumberIsKnown(emit[e].boleto, WithStatus(emit[e].copy, "FAILED"))
          /\ CreatedAs[emit[e].boleto] \notin Settled
               => Backed(emit[e].boleto, WithStatus(emit[e].copy, "FAILED"))
      BY <1>8, <1>a, <3>1 DEF Emits, EmitBacked, EmitFail, EmitCall, Copy,
         WithStatus, KnownStatuses, StoredStatuses, NumberIsKnown, Backed,
         Settled, Idle
    <3>3. row' = [row EXCEPT ![emit[e].boleto] = WithStatus(emit[e].copy, "FAILED")]
      BY <1>8 DEF EmitFail, Update
    <3>4. emit[e].boleto \in Boletos
      BY <3>1 DEF EmitCall
    <3>5. QED
      BY <1>a, <3>2, <3>3, <3>4, StoredRowsStayBacked DEF Rows
  <2>4. QED
    BY <1>8, <2>2, <2>3, <1>f, <1>d, <1>e, <1>g DEF EmitFail
<1>9. ASSUME NEW e \in Emitters, EmitAbandon(e)
      PROVE  BackedInv'
  <2>1. EmitBacked(e)'
    BY <1>9 DEF EmitAbandon, EmitBacked, TypeOK
  <2>2. Emits'
    <3>1. \A y \in Emitters \ {e} : emit'[y] = emit[y]
      BY <1>9 DEF EmitAbandon, TypeOK
    <3>2. QED
      BY <1>a, <2>1, <3>1, CallsStayBacked DEF Emits
  <2>3. QED
    BY <1>9, <2>2, <1>b, <1>f, <1>d, <1>e, <1>g DEF EmitAbandon
<1>10. ASSUME NEW w \in Receivers, NEW b \in Boletos, NEW n \in Numbers,
             RecvFind(w, b, n)
      PROVE  BackedInv'
  <2>1. RecvBacked(w)'
    BY <1>10, <1>a, UntouchedRowsStayBacked DEF RecvFind, RecvBacked,
       NumberIsKnown, Rows, TypeOK, Decided, Registered
  <2>2. Recvs'
    <3>1. \A y \in Receivers \ {w} : recv'[y] = recv[y]
      BY <1>10 DEF RecvFind, TypeOK
    <3>2. QED
      BY <1>a, <2>1, <3>1, CallsStayBacked DEF Recvs
  <2>3. QED
    BY <1>10, <2>2, <1>b, <1>c, <1>e, <1>f, <1>g DEF RecvFind
<1>11. ASSUME NEW w \in Receivers, Reserve(w)
      PROVE  BackedInv'
  <2>1. RecvBacked(w)'
    <3>1. recv[w] \in RecvCall /\ RecvBacked(w)
      BY <1>11, <1>a DEF Reserve, Recvs, TypeOK, Idle
    <3>2. CASE event[recv[w].boleto][recv[w].num] = "delivered"
      BY <1>11, <3>2 DEF Reserve, RecvBacked, TypeOK
    <3>3. CASE event[recv[w].boleto][recv[w].num] # "delivered"
      <4>1. PICK pc \in {"update", "deliver"} :
              recv' = [recv EXCEPT ![w].pc = pc]
        BY <1>11, <3>3 DEF Reserve
      <4>2. QED
        BY <1>11, <3>1, <4>1
           DEF Reserve, RecvBacked, NumberIsKnown, RecvCall, TypeOK, Idle
    <3>4. QED
      BY <3>2, <3>3
  <2>2. Recvs'
    <3>1. \A y \in Receivers \ {w} : recv'[y] = recv[y]
      BY <1>11 DEF Reserve, TypeOK
    <3>2. QED
      BY <1>a, <2>1, <3>1, CallsStayBacked DEF Recvs
  <2>3. QED
    BY <1>11, <2>2, <1>b, <1>c, <1>e, <1>f, <1>g DEF Reserve
<1>12. ASSUME NEW w \in Receivers, RecvStore(w)
      PROVE  BackedInv'
  <2>1. RecvBacked(w)'
    BY <1>12, <1>a DEF RecvStore, RecvBacked, NumberIsKnown, Recvs, TypeOK,
       RecvCall, Idle
  <2>2. Recvs'
    <3>1. \A y \in Receivers \ {w} : recv'[y] = recv[y]
      BY <1>12 DEF RecvStore, TypeOK
    <3>2. QED
      BY <1>a, <2>1, <3>1, CallsStayBacked DEF Recvs
  <2>3. Rows'
    <3>1. recv[w] \in RecvCall
      BY <1>12 DEF RecvStore, TypeOK, EmitCall, AnsweredCall, RecvCall,
         SyncCall, Idle
    <3>2. /\ Outcome(recv[w]) \in Copy
          /\ NumberIsKnown(recv[w].boleto, Outcome(recv[w]))
          /\ CreatedAs[recv[w].boleto] \notin Settled
               => Backed(recv[w].boleto, Outcome(recv[w]))
      <4>1. RecvBacked(w)
        BY <1>a DEF Recvs
      <4>2. QED
        BY <1>12, <4>1, <3>1, NumberAssumption DEF RecvBacked, RecvStore,
           RecvCall, Outcome, WithStatus, Copy, KnownStatuses, StoredStatuses,
           MaybeNumber,
           NumberIsKnown, Backed, Justified, Registered, Settled, Idle
    <3>3. row' = [row EXCEPT ![recv[w].boleto] = Outcome(recv[w])]
      BY <1>12 DEF RecvStore, Update
    <3>4. recv[w].boleto \in Boletos
      BY <3>1 DEF RecvCall
    <3>5. QED
      BY <1>a, <3>2, <3>3, <3>4, StoredRowsStayBacked DEF Rows
  <2>4. QED
    BY <1>12, <2>2, <2>3, <1>c, <1>e, <1>f, <1>g DEF RecvStore
<1>13. ASSUME NEW w \in Receivers, RecvStoreFails(w)
      PROVE  BackedInv'
  <2>1. RecvBacked(w)'
    BY <1>13, <1>a DEF RecvStoreFails, RecvBacked, NumberIsKnown, Recvs,
       TypeOK, RecvCall, Idle
  <2>2. Recvs'
    <3>1. \A y \in Receivers \ {w} : recv'[y] = recv[y]
      BY <1>13 DEF RecvStoreFails, TypeOK
    <3>2. QED
      BY <1>a, <2>1, <3>1, CallsStayBacked DEF Recvs
  <2>3. QED
    BY <1>13, <2>2, <1>b, <1>c, <1>e, <1>f, <1>g DEF RecvStoreFails
<1>14. ASSUME NEW w \in Receivers, Release(w)
      PROVE  BackedInv'
  <2>1. RecvBacked(w)'
    BY <1>14 DEF Release, RecvBacked, TypeOK
  <2>2. Recvs'
    <3>1. \A y \in Receivers \ {w} : recv'[y] = recv[y]
      BY <1>14 DEF Release, TypeOK
    <3>2. QED
      BY <1>a, <2>1, <3>1, CallsStayBacked DEF Recvs
  <2>3. QED
    BY <1>14, <2>2, <1>b, <1>c, <1>e, <1>f, <1>g DEF Release
<1>15. ASSUME NEW w \in Receivers, Deliver(w)
      PROVE  BackedInv'
  <2>1. RecvBacked(w)'
    BY <1>15 DEF Deliver, RecvBacked, TypeOK
  <2>2. Recvs'
    <3>1. \A y \in Receivers \ {w} : recv'[y] = recv[y]
      BY <1>15 DEF Deliver, TypeOK
    <3>2. QED
      BY <1>a, <2>1, <3>1, CallsStayBacked DEF Recvs
  <2>3. QED
    BY <1>15, <2>2, <1>b, <1>c, <1>e, <1>f, <1>g DEF Deliver
<1>16. ASSUME NEW w \in Receivers, RecvAbandon(w)
      PROVE  BackedInv'
  <2>1. RecvBacked(w)'
    BY <1>16 DEF RecvAbandon, RecvBacked, TypeOK
  <2>2. Recvs'
    <3>1. \A y \in Receivers \ {w} : recv'[y] = recv[y]
      BY <1>16 DEF RecvAbandon, TypeOK
    <3>2. QED
      BY <1>a, <2>1, <3>1, CallsStayBacked DEF Recvs
  <2>3. QED
    BY <1>16, <2>2, <1>b, <1>c, <1>e, <1>f, <1>g DEF RecvAbandon
<1>17. ASSUME NEW s \in Syncers, NEW b \in Boletos, SyncRead(s, b)
      PROVE  BackedInv'
  <2>1. SyncBacked(s)'
    BY <1>17, <1>a, UntouchedRowsStayBacked DEF SyncRead, SyncBacked,
       NumberIsKnown, Rows, TypeOK
  <2>2. Syncs'
    <3>1. \A y \in Syncers \ {s} : sync'[y] = sync[y]
      BY <1>17 DEF SyncRead, TypeOK
    <3>2. QED
      BY <1>a, <2>1, <3>1, CallsStayBacked DEF Syncs
  <2>3. QED
    BY <1>17, <2>2, <1>b, <1>c, <1>d, <1>f, <1>g DEF SyncRead
<1>18. ASSUME NEW s \in Syncers, SyncConsult(s)
      PROVE  BackedInv'
  <2>1. SyncBacked(s)'
    <3> DEFINE c == sync[s]
    <3>1. c \in SyncCall /\ SyncBacked(s)
      BY <1>18, <1>a DEF SyncConsult, Syncs, TypeOK, SyncCall, Idle
    <3>2. PICK status \in Answers(c.boleto, c.copy.our) :
            \/ sync' = [sync EXCEPT ![s].pc = "write",
                                   ![s].copy = ApplySummary(c.copy, status)]
            \/ sync' = [sync EXCEPT ![s] = Idle]
      BY <1>18 DEF SyncConsult
    <3>3. c.boleto \in Boletos /\ c.copy.our \in Numbers
      BY <1>18, <3>1 DEF SyncConsult, SyncCall, SyncBacked, Copy,
         MaybeNumber, Idle
    <3>4. title[c.boleto][c.copy.our] # "none"
      BY <1>18, <3>1, <3>3, NumberAssumption
         DEF SyncConsult, SyncBacked, NumberIsKnown, Idle
    <3>5. Backed(c.boleto, ApplySummary(c.copy, status))
      BY <1>a, <3>2, <3>3, <3>4, AnswersAreJustified, NumberAssumption
         DEF Backed, ApplySummary
    <3>6. UNCHANGED title
      BY <1>18 DEF SyncConsult
    <3> HIDE DEF c
    <3>7. CASE sync' = [sync EXCEPT ![s].pc = "write",
                            ![s].copy = ApplySummary(c.copy, status)]
      <4>1. /\ sync'[s].boleto = c.boleto
            /\ sync'[s].copy = ApplySummary(c.copy, status)
        BY <3>1, <3>7 DEF SyncCall, TypeOK, c
      <4>2. QED
        BY <3>3, <3>4, <3>5, <3>6, <4>1, NumberAssumption
           DEF SyncBacked, NumberIsKnown, Backed, ApplySummary
    <3>8. CASE sync' = [sync EXCEPT ![s] = Idle]
      BY <3>8 DEF SyncBacked, TypeOK
    <3>9. QED
      BY <3>2, <3>7, <3>8
  <2>2. Syncs'
    <3>1. \A y \in Syncers \ {s} : sync'[y] = sync[y]
      BY <1>18 DEF SyncConsult, TypeOK
    <3>2. QED
      BY <1>a, <2>1, <3>1, CallsStayBacked DEF Syncs
  <2>3. QED
    BY <1>18, <2>2, <1>b, <1>c, <1>d, <1>f, <1>g DEF SyncConsult
<1>19. ASSUME NEW s \in Syncers, SyncStore(s)
      PROVE  BackedInv'
  <2>1. SyncBacked(s)'
    BY <1>19 DEF SyncStore, SyncBacked, TypeOK
  <2>2. Syncs'
    <3>1. \A y \in Syncers \ {s} : sync'[y] = sync[y]
      BY <1>19 DEF SyncStore, TypeOK
    <3>2. QED
      BY <1>a, <2>1, <3>1, CallsStayBacked DEF Syncs
  <2>3. Rows'
    <3>1. sync[s] \in SyncCall
      BY <1>19 DEF SyncStore, TypeOK, EmitCall, AnsweredCall, RecvCall,
         SyncCall, Idle
    <3>2. /\ sync[s].copy \in Copy
          /\ NumberIsKnown(sync[s].boleto, sync[s].copy)
          /\ CreatedAs[sync[s].boleto] \notin Settled
               => Backed(sync[s].boleto, sync[s].copy)
      BY <1>19, <1>a, <3>1 DEF Syncs, SyncBacked, SyncStore, SyncCall, Idle
    <3>3. row' = [row EXCEPT ![sync[s].boleto] = sync[s].copy]
      BY <1>19 DEF SyncStore, Update
    <3>4. sync[s].boleto \in Boletos
      BY <3>1 DEF SyncCall
    <3>5. QED
      BY <1>a, <3>2, <3>3, <3>4, StoredRowsStayBacked DEF Rows
  <2>4. QED
    BY <1>19, <2>2, <2>3, <1>c, <1>d, <1>f, <1>g DEF SyncStore
<1>20. ASSUME NEW s \in Syncers, SyncAbandon(s)
      PROVE  BackedInv'
  <2>1. SyncBacked(s)'
    BY <1>20 DEF SyncAbandon, SyncBacked, TypeOK
  <2>2. Syncs'
    <3>1. \A y \in Syncers \ {s} : sync'[y] = sync[y]
      BY <1>20 DEF SyncAbandon, TypeOK
    <3>2. QED
      BY <1>a, <2>1, <3>1, CallsStayBacked DEF Syncs
  <2>3. QED
    BY <1>20, <2>2, <1>b, <1>c, <1>d, <1>f, <1>g DEF SyncAbandon
<1>21. CASE UNCHANGED vars
  BY <1>21, <1>b, <1>c, <1>d, <1>e, <1>f, <1>g DEF vars
<1>22. QED
  BY <1>1, <1>2, <1>3, <1>4, <1>5, <1>6, <1>7, <1>8, <1>9, <1>10, <1>11,
     <1>12, <1>13, <1>14, <1>15, <1>16, <1>17, <1>18, <1>19, <1>20, <1>21
     DEF Next, EmitStep, RecvStep, SyncStep

LEMMA BackedInvHolds == Spec => []BackedInv
<1>1. Init => BackedInv
  BY NumberAssumption DEF Init, BackedInv, SettledIsBacked, MemoryIsBacked,
     Backed,
     NumberIsKnown, EmitBacked, RecvBacked, SyncBacked, MockIsInstant
<1>2. TypeOK /\ BackedInv /\ [Next]_vars => BackedInv'
  BY BackedIsKept
<1>3. QED
  BY <1>1, <1>2, TypeCorrect, PTL DEF Spec

(* A boleto never shows an outcome the bank did not reach for its number.   *)
THEOREM OutcomesAreBacked == Spec => []SettledIsBacked
<1>1. BackedInv => SettledIsBacked
  BY DEF BackedInv
<1>2. QED
  BY <1>1, BackedInvHolds, PTL

(* Nor does any call still hold, in the row it read, one that it could write *)
(* back: what MemoryIsBacked adds is what makes the row's own part hold.    *)
THEOREM MemoryStaysBacked == Spec => []MemoryIsBacked
<1>1. BackedInv => MemoryIsBacked
  BY DEF BackedInv
<1>2. QED
  BY <1>1, BackedInvHolds, PTL

-----------------------------------------------------------------------------
(* A PAID that a step stores was answered for a title the bank holds money  *)
(* for: only SyncStore stores one, and what it holds is backed.            *)
LEMMA StoredPaymentIsReal ==
  ASSUME TypeOK, BackedInv, [Next]_vars, NEW b \in Boletos,
         CreatedAs[b] \notin Settled, paidAt'[b], ~ paidAt[b]
  PROVE  \E n \in Numbers : title[b][n] = "pago"
<1>1. ASSUME NEW c \in Boletos, NEW r \in Copy, r.status # "PAID", Update(c, r)
      PROVE  FALSE
  BY <1>1 DEF Update, TypeOK
<1>2. ASSUME NEW e \in Emitters, EmitStep(e)
      PROVE  FALSE
  <2>1. CASE EmitMark(e) \/ EmitFail(e)
    <3>1. emit[e] \in EmitCall
      BY <2>1 DEF EmitMark, EmitFail, TypeOK, EmitCall, AnsweredCall, Idle
    <3>2. PICK status \in {"PROCESSING", "FAILED"} :
             Update(emit[e].boleto, WithStatus(emit[e].copy, status))
      BY <2>1 DEF EmitMark, EmitFail
    <3>3. /\ emit[e].boleto \in Boletos
          /\ WithStatus(emit[e].copy, status) \in Copy
          /\ WithStatus(emit[e].copy, status).status # "PAID"
      BY <3>1 DEF EmitCall, WithStatus, Copy, KnownStatuses, StoredStatuses
    <3>4. QED
      BY <1>1, <3>2, <3>3
  <2>2. CASE EmitStore(e)
    <3>1. emit[e] \in AnsweredCall
      <4>1. emit[e] \in {Idle} \cup EmitCall \cup AnsweredCall
        BY DEF TypeOK
      <4>2. emit[e].pc = "answered"
        BY <2>2 DEF EmitStore
      <4>3. emit[e] # Idle /\ emit[e] \notin EmitCall
        BY <4>2 DEF Idle, EmitCall
      <4>4. QED
        BY <4>1, <4>3
    <3>2. PICK r \in Copy : r.status # "PAID" /\ Update(emit[e].boleto, r)
      <4> DEFINE stored == [status |-> IssueStatus(emit[e].boleto),
                            our |-> emit[e].num,
                            issued |-> emit[e].copy.issued
                                       \/ ProviderOf[emit[e].boleto] = "mock"]
      <4>1. stored \in Copy /\ stored.status # "PAID"
        BY <3>1 DEF AnsweredCall, IssueStatus, Copy, KnownStatuses,
           StoredStatuses, MaybeNumber
      <4>2. Update(emit[e].boleto, stored)
        BY <2>2 DEF EmitStore
      <4>3. QED
        BY <4>1, <4>2
    <3>3. QED
      BY <1>1, <3>1, <3>2 DEF AnsweredCall
  <2>3. CASE \/ \E c \in Boletos : EmitRead(e, c)
             \/ IssueAccepted(e) \/ IssueRefused(e) \/ AnswerLost(e)
             \/ EmitAbandon(e)
    BY <2>3 DEF EmitRead, IssueAccepted, IssueRefused, AnswerLost, EmitAbandon
  <2>4. QED
    BY <1>2, <2>1, <2>2, <2>3 DEF EmitStep
<1>3. ASSUME NEW w \in Receivers, RecvStep(w)
      PROVE  FALSE
  <2>1. CASE RecvStore(w)
    <3>1. recv[w] \in RecvCall
      BY <2>1 DEF RecvStore, TypeOK, RecvCall, Idle
    <3>2. Outcome(recv[w]) \in Copy /\ Outcome(recv[w]).status # "PAID"
      BY <3>1 DEF Outcome, WithStatus, RecvCall, Copy, KnownStatuses,
         StoredStatuses, MaybeNumber
    <3>3. QED
      BY <1>1, <2>1, <3>1, <3>2 DEF RecvStore, RecvCall
  <2>2. CASE ~ RecvStore(w)
    BY <1>3, <2>2 DEF RecvStep, RecvFind, Reserve, RecvStoreFails, Release,
       Deliver, RecvAbandon
  <2>3. QED
    BY <2>1, <2>2
<1>4. ASSUME NEW s \in Syncers, SyncStep(s)
      PROVE  \E n \in Numbers : title[b][n] = "pago"
  <2>1. SyncStore(s)
    BY <1>4 DEF SyncStep, SyncRead, SyncConsult, SyncAbandon
  <2>2. /\ sync[s] # Idle /\ sync[s] \in SyncCall
        /\ Update(sync[s].boleto, sync[s].copy)
    BY <2>1 DEF SyncStore, TypeOK, SyncCall, Idle
  <2>3. sync[s].boleto = b /\ sync[s].copy.status = "PAID"
    BY <2>2 DEF Update, TypeOK, SyncCall
  <2>4. Backed(b, sync[s].copy)
    BY <2>1, <2>2, <2>3 DEF BackedInv, MemoryIsBacked, SyncBacked, SyncStore
  <2>5. /\ sync[s].copy.our \in Numbers
        /\ title[b][sync[s].copy.our] = "pago"
    BY <2>2, <2>3, <2>4 DEF Backed, Justified, Settled, Registered, SyncCall,
       Copy, MaybeNumber
  <2>6. QED
    BY <2>5
<1>5. ~ UNCHANGED vars /\ ~ \E c \in Boletos, n \in Numbers : BankMoves(c, n)
  BY DEF vars, BankMoves
<1>6. QED
  BY <1>2, <1>3, <1>4, <1>5 DEF Next

(* And the paid title it was dated for stays paid.                         *)
LEMMA PaymentDateIsKept ==
  ASSUME TypeOK, BackedInv, PaymentDateIsReal, [Next]_vars
  PROVE  PaymentDateIsReal'
<1> SUFFICES ASSUME NEW b \in Boletos, CreatedAs[b] \notin Settled, paidAt'[b]
             PROVE  \E n \in Numbers : title'[b][n] = "pago"
  BY DEF PaymentDateIsReal
<1>1. PICK n \in Numbers : title[b][n] = "pago"
  BY StoredPaymentIsReal DEF PaymentDateIsReal
<1>2. QED
  BY <1>1, TitlesOnlyAdvance DEF Final

(* paid_at is only ever dated for a boleto whose money the bank holds, and  *)
(* stays so: the trigger of migration 028 fires on whole-row writes, and   *)
(* none of them, however old, carries a payment that did not happen.       *)
THEOREM PaymentDatesAreReal == Spec => []PaymentDateIsReal
<1>1. Init => PaymentDateIsReal
  BY DEF Init, PaymentDateIsReal, Settled
<1>2. TypeOK /\ BackedInv /\ PaymentDateIsReal /\ [Next]_vars
      => PaymentDateIsReal'
  BY PaymentDateIsKept
<1>3. QED
  BY <1>1, <1>2, TypeCorrect, BackedInvHolds, PTL DEF Spec

-----------------------------------------------------------------------------
(* AppliedOnce needs that an item that reached the table left its row in    *)
(* webhook_events: a release comes only before the store.                  *)
AppliedIsReserved ==
    \A b \in Boletos, n \in Numbers : n \in applied[b] => event[b][n] # "absent"

ReservationInv == AppliedOnce /\ AppliedIsReserved

LEMMA OnlyReceiversReserve ==
  ASSUME TypeOK, [Next]_vars, ~ \E w \in Receivers : RecvStep(w)
  PROVE  UNCHANGED <<recv, event, applied>>
BY DEF Next, vars, BankMoves, EmitStep, EmitRead, EmitMark, IssueAccepted,
   IssueRefused, AnswerLost, EmitStore, EmitFail, EmitAbandon, SyncStep,
   SyncRead, SyncConsult, SyncStore, SyncAbandon

(* Only the insert of reserveEvent makes a delivery the one that applies.   *)
LEMMA ReservationIsKept ==
  ASSUME TypeOK, ReservationInv, [Next]_vars
  PROVE  ReservationInv'
<1> USE DEF ReservationInv
<1>1. CASE UNCHANGED <<recv, event, applied>>
  BY <1>1 DEF AppliedOnce, AppliedIsReserved, Applying
<1>2. ASSUME NEW w \in Receivers, RecvStep(w)
      PROVE  ReservationInv'
  <2>1. ASSUME NEW b \in Boletos, NEW n \in Numbers, RecvFind(w, b, n)
        PROVE  ReservationInv'
    <3>1. \A v \in Receivers, c \in Boletos, m \in Numbers :
             Applying(v, c, m)' => v # w /\ Applying(v, c, m)
      BY <2>1 DEF RecvFind, Applying, TypeOK
    <3>2. QED
      BY <2>1, <3>1 DEF RecvFind, AppliedOnce, AppliedIsReserved
  <2>2. CASE Reserve(w)
    <3> DEFINE b == recv[w].boleto
               n == recv[w].num
    <3>1. b \in Boletos /\ n \in Numbers /\ recv[w] \in RecvCall
      BY <2>2 DEF Reserve, TypeOK, RecvCall, Idle
    <3>2. UNCHANGED applied
      BY <2>2 DEF Reserve
    <3>3. CASE event[b][n] = "absent"
      <4>1. \A c \in Boletos, m \in Numbers :
               event'[c][m] = IF c = b /\ m = n THEN "reserved" ELSE event[c][m]
        BY <2>2, <3>1, <3>3 DEF Reserve, TypeOK
      <4>2. recv' = [recv EXCEPT ![w].pc = "update"]
        BY <2>2, <3>3 DEF Reserve
      <4>3. \A v \in Receivers, c \in Boletos, m \in Numbers :
               Applying(v, c, m)' => \/ v = w /\ c = b /\ m = n
                                     \/ v # w /\ Applying(v, c, m)
        BY <3>1, <4>2 DEF Applying, TypeOK, RecvCall
      <4>4. n \notin applied[b] /\ \A v \in Receivers : ~ Applying(v, b, n)
        BY <3>1, <3>3 DEF AppliedOnce, AppliedIsReserved
      <4> HIDE DEF b, n
      <4>5. AppliedOnce'
        BY <3>1, <3>2, <4>1, <4>3, <4>4 DEF AppliedOnce
      <4>6. AppliedIsReserved'
        BY <3>2, <4>1 DEF AppliedIsReserved
      <4>7. QED
        BY <4>5, <4>6
    <3>4. CASE event[b][n] # "absent"
      <4>1. \A c \in Boletos, m \in Numbers : event'[c][m] = event[c][m]
        BY <2>2, <3>1, <3>4 DEF Reserve, TypeOK
      <4>2. \/ recv' = [recv EXCEPT ![w] = Idle]
            \/ recv' = [recv EXCEPT ![w].pc = "deliver"]
        BY <2>2, <3>4 DEF Reserve
      <4>3. \A v \in Receivers, c \in Boletos, m \in Numbers :
               Applying(v, c, m)' => v # w /\ Applying(v, c, m)
        BY <3>1, <4>2 DEF Applying, TypeOK, RecvCall, Idle
      <4>4. QED
        BY <3>2, <4>1, <4>3 DEF AppliedOnce, AppliedIsReserved
    <3>5. QED
      BY <3>3, <3>4
  <2>3. CASE RecvStore(w)
    <3> DEFINE b == recv[w].boleto
               n == recv[w].num
    <3>1. b \in Boletos /\ n \in Numbers /\ Applying(w, b, n)
      BY <2>3 DEF RecvStore, TypeOK, RecvCall, Idle, Applying
    <3>2. \A c \in Boletos, m \in Numbers :
             m \in applied'[c] => m \in applied[c] \/ (c = b /\ m = n)
      BY <2>3, <3>1 DEF RecvStore, TypeOK
    <3>3. \A v \in Receivers, c \in Boletos, m \in Numbers :
             Applying(v, c, m)' => v # w /\ Applying(v, c, m)
      BY <2>3, <3>1 DEF RecvStore, Applying, TypeOK, RecvCall, Idle
    <3>4. UNCHANGED event
      BY <2>3 DEF RecvStore
    <3> HIDE DEF b, n
    <3>5. QED
      BY <3>1, <3>2, <3>3, <3>4 DEF AppliedOnce, AppliedIsReserved
  <2>4. CASE RecvStoreFails(w)
    <3>1. \A v \in Receivers, c \in Boletos, m \in Numbers :
             Applying(v, c, m)' => Applying(v, c, m)
      BY <2>4 DEF RecvStoreFails, Applying, TypeOK, RecvCall, Idle
    <3>2. QED
      BY <2>4, <3>1 DEF RecvStoreFails, AppliedOnce, AppliedIsReserved
  <2>5. CASE Release(w)
    <3> DEFINE b == recv[w].boleto
               n == recv[w].num
    <3>1. b \in Boletos /\ n \in Numbers /\ Applying(w, b, n)
      BY <2>5 DEF Release, TypeOK, RecvCall, Idle, Applying
    <3>2. UNCHANGED applied
      BY <2>5 DEF Release
    <3>3. \A v \in Receivers, c \in Boletos, m \in Numbers :
             Applying(v, c, m)' => v # w /\ Applying(v, c, m)
      BY <2>5 DEF Release, Applying, TypeOK, Idle
    <3>4. \A c \in Boletos, m \in Numbers :
             event'[c][m] = event[c][m] \/ (c = b /\ m = n)
      BY <2>5, <3>1 DEF Release, TypeOK
    <3> HIDE DEF b, n
    <3>5. QED
      BY <3>1, <3>2, <3>3, <3>4 DEF AppliedOnce, AppliedIsReserved
  <2>6. CASE Deliver(w)
    <3>1. recv[w].boleto \in Boletos /\ recv[w].num \in Numbers
      BY <2>6 DEF Deliver, TypeOK, RecvCall, Idle
    <3>2. \A c \in Boletos, m \in Numbers :
             event[c][m] # "absent" => event'[c][m] # "absent"
      BY <2>6, <3>1 DEF Deliver, TypeOK
    <3>3. \A v \in Receivers, c \in Boletos, m \in Numbers :
             Applying(v, c, m)' => v # w /\ Applying(v, c, m)
      BY <2>6 DEF Deliver, Applying, TypeOK, Idle
    <3>4. UNCHANGED applied
      BY <2>6 DEF Deliver
    <3>5. QED
      BY <3>2, <3>3, <3>4 DEF AppliedOnce, AppliedIsReserved
  <2>7. CASE RecvAbandon(w)
    <3>1. \A v \in Receivers, c \in Boletos, m \in Numbers :
             Applying(v, c, m)' => v # w /\ Applying(v, c, m)
      BY <2>7 DEF RecvAbandon, Applying, TypeOK, Idle
    <3>2. QED
      BY <2>7, <3>1 DEF RecvAbandon, AppliedOnce, AppliedIsReserved
  <2>8. QED
    BY <1>2, <2>1, <2>2, <2>3, <2>4, <2>5, <2>6, <2>7 DEF RecvStep
<1>3. QED
  BY <1>1, <1>2, OnlyReceiversReserve

(* Among redelivered and concurrent copies of a REGISTRO item, at most one  *)
(* is about to store its outcome, and only if none did before: the insert   *)
(* of reserveEvent is atomic, and releaseEvent undoes it only for the one   *)
(* that holds it, before it stored anything.                               *)
THEOREM ItemsAreAppliedOnce == Spec => []AppliedOnce
<1>1. Init => ReservationInv
  BY DEF Init, Idle, ReservationInv, AppliedOnce, AppliedIsReserved, Applying
<1>2. TypeOK /\ ReservationInv /\ [Next]_vars => ReservationInv'
  BY ReservationIsKept
<1>3. ReservationInv => AppliedOnce
  BY DEF ReservationInv
<1>4. QED
  BY <1>1, <1>2, <1>3, TypeCorrect, PTL DEF Spec

-----------------------------------------------------------------------------
(* Emit takes up a boleto that is CREATED, or PROCESSING without a number,   *)
(* and no write makes a boleto with a number CREATED again: no handler      *)
(* builds a CREATED row, and no poll answers it.  So the copy an emission   *)
(* works on was read without a number.  (The row may have gained one since.) *)
EmissionsReadNoNumber ==
    \A e \in Emitters : emit[e] # Idle => emit[e].copy.our = NoNumber

CreatedHasNoNumber ==
    \A b \in Boletos : row[b].status = "CREATED" => row[b].our = NoNumber

\* What a provider's summary may say: what the mapper yields for a wording.
Answered == {"PROCESSING", "ISSUED", "PAID", "CANCELLED", "EXPIRED", "FAILED"}

PollsAreAnswers ==
    \A s \in Syncers : sync[s].pc = "write" => sync[s].copy.status \in Answered

ReissueInv == EmissionsReadNoNumber /\ CreatedHasNoNumber /\ PollsAreAnswers

(* Who may have changed a row, and what was stored.                        *)
LEMMA WhoStores ==
  ASSUME TypeOK, [Next]_vars, NEW b \in Boletos, row'[b] # row[b]
  PROVE  \/ \E e \in Emitters :
               /\ emit[e] # Idle /\ emit[e].boleto = b
               /\ \/ row'[b].status \in {"PROCESSING", "ISSUED"}
                  \/ emit[e].pc = "failing" /\ row'[b].status = "FAILED"
         \/ \E w \in Receivers :
               /\ recv[w] # Idle /\ recv[w].boleto = b
               /\ row'[b] = Outcome(recv[w])
               /\ recv[w].pc = "update"
               /\ applied'[b] = applied[b] \cup {recv[w].num}
         \/ \E s \in Syncers :
               /\ sync[s].pc = "write" /\ sync[s].boleto = b
               /\ row'[b] = sync[s].copy
               /\ sync'[s] = Idle
<1>1. ASSUME NEW c \in Boletos, NEW r, Update(c, r)
      PROVE  c = b /\ row'[b] = r
  BY <1>1 DEF Update, TypeOK
<1>2. ASSUME NEW e \in Emitters, EmitStep(e)
      PROVE  /\ emit[e] # Idle /\ emit[e].boleto = b
             /\ \/ row'[b].status \in {"PROCESSING", "ISSUED"}
                \/ emit[e].pc = "failing" /\ row'[b].status = "FAILED"
  <2>1. EmitMark(e) \/ EmitFail(e) \/ EmitStore(e)
    BY <1>2 DEF EmitStep, EmitRead, IssueAccepted, IssueRefused, AnswerLost,
       EmitAbandon
  <2>2. emit[e].boleto \in Boletos /\ emit[e] # Idle
    BY <2>1 DEF EmitMark, EmitFail, EmitStore, TypeOK, EmitCall, AnsweredCall,
       Idle
  <2>3. CASE EmitMark(e)
    <3>1. WithStatus(emit[e].copy, "PROCESSING").status = "PROCESSING"
      BY DEF WithStatus
    <3>2. QED
      BY <1>1, <2>2, <2>3, <3>1 DEF EmitMark
  <2>4. CASE EmitFail(e)
    <3>1. WithStatus(emit[e].copy, "FAILED").status = "FAILED"
      BY DEF WithStatus
    <3>2. QED
      BY <1>1, <2>2, <2>4, <3>1 DEF EmitFail
  <2>5. CASE EmitStore(e)
    <3> DEFINE stored == [status |-> IssueStatus(emit[e].boleto),
                          our |-> emit[e].num,
                          issued |-> emit[e].copy.issued
                                     \/ ProviderOf[emit[e].boleto] = "mock"]
    <3>1. stored.status \in {"PROCESSING", "ISSUED"}
      BY DEF IssueStatus
    <3>2. Update(emit[e].boleto, stored)
      BY <2>5 DEF EmitStore
    <3>3. QED
      BY <1>1, <2>2, <3>1, <3>2
  <2>6. QED
    BY <2>1, <2>3, <2>4, <2>5
<1>3. ASSUME NEW w \in Receivers, RecvStep(w)
      PROVE  /\ recv[w] # Idle /\ recv[w].boleto = b
             /\ row'[b] = Outcome(recv[w])
             /\ recv[w].pc = "update"
             /\ applied'[b] = applied[b] \cup {recv[w].num}
  <2>1. RecvStore(w)
    BY <1>3 DEF RecvStep, RecvFind, Reserve, RecvStoreFails, Release, Deliver,
       RecvAbandon
  <2>2. recv[w].boleto \in Boletos /\ recv[w] # Idle
    BY <2>1 DEF RecvStore, TypeOK, RecvCall, Idle
  <2>3. recv[w].boleto = b /\ row'[b] = Outcome(recv[w]) /\ recv[w].pc = "update"
    BY <1>1, <2>1, <2>2 DEF RecvStore
  <2>4. applied'[b] = applied[b] \cup {recv[w].num}
    BY <2>1, <2>3 DEF RecvStore, TypeOK
  <2>5. QED
    BY <2>2, <2>3, <2>4
<1>4. ASSUME NEW s \in Syncers, SyncStep(s)
      PROVE  /\ sync[s].pc = "write" /\ sync[s].boleto = b
             /\ row'[b] = sync[s].copy
             /\ sync'[s] = Idle
  <2>1. SyncStore(s)
    BY <1>4 DEF SyncStep, SyncRead, SyncConsult, SyncAbandon
  <2>2. sync[s].boleto \in Boletos
    BY <2>1 DEF SyncStore, TypeOK, SyncCall, Idle
  <2>3. sync[s].pc = "write" /\ sync[s].boleto = b /\ row'[b] = sync[s].copy
    BY <1>1, <2>1, <2>2 DEF SyncStore
  <2>4. sync'[s] = Idle
    BY <2>1 DEF SyncStore, TypeOK
  <2>5. QED
    BY <2>3, <2>4
<1>5. ~ UNCHANGED vars /\ ~ \E c \in Boletos, n \in Numbers : BankMoves(c, n)
  BY DEF vars, BankMoves
<1>6. QED
  BY <1>2, <1>3, <1>4, <1>5 DEF Next

(* None of it is CREATED.                                                  *)
LEMMA StoresAreNotCreated ==
  ASSUME TypeOK, PollsAreAnswers, [Next]_vars, NEW b \in Boletos,
         row'[b] # row[b]
  PROVE  row'[b].status # "CREATED"
<1>1. \A w \in Receivers : Outcome(recv[w]).status # "CREATED"
  BY DEF Outcome, WithStatus
<1>2. QED
  BY <1>1, WhoStores DEF PollsAreAnswers, Answered

(* MapStatus has no wording for CREATED, so no summary carries it.         *)
LEMMA AnswersAreMapped ==
  ASSUME TypeOK, NEW b \in Boletos, NEW n, NEW status \in Answers(b, n)
  PROVE  status \in Answered
<1>1. \A text : MapStatus(text) \in Answered
  BY DEF MapStatus, Wording, Answered
<1>2. QED
  BY <1>1 DEF Answers, Answered

(* A poll comes to write only with a summary the provider answered.        *)
LEMMA PollsStayFresh ==
  ASSUME TypeOK, PollsAreAnswers, [Next]_vars
  PROVE  PollsAreAnswers'
<1>1. CASE UNCHANGED sync
  BY <1>1 DEF PollsAreAnswers
<1>2. ASSUME NEW s \in Syncers, SyncStep(s)
      PROVE  PollsAreAnswers'
  <2>1. CASE SyncConsult(s)
    <3>1. sync[s].boleto \in Boletos /\ sync[s] \in SyncCall
      BY <2>1 DEF SyncConsult, TypeOK, SyncCall, Idle
    <3>2. PICK status \in Answers(sync[s].boleto, sync[s].copy.our) :
            \/ sync' = [sync EXCEPT ![s].pc = "write",
                                    ![s].copy = ApplySummary(sync[s].copy, status)]
            \/ sync' = [sync EXCEPT ![s] = Idle]
      BY <2>1 DEF SyncConsult
    <3>3. ApplySummary(sync[s].copy, status).status \in Answered
      BY <3>1, AnswersAreMapped DEF ApplySummary
    <3>4. sync'[s].pc = "write" => sync'[s].copy.status \in Answered
      <4> DEFINE summary == ApplySummary(sync[s].copy, status)
      <4>1. sync'[s] = Idle \/ sync'[s].copy = summary
        BY <3>1, <3>2 DEF TypeOK, SyncCall
      <4> HIDE DEF summary
      <4>2. QED
        BY <3>3, <4>1 DEF Idle, summary
    <3>5. \A t \in Syncers \ {s} : sync'[t] = sync[t]
      BY <3>2 DEF TypeOK
    <3>6. QED
      BY <3>4, <3>5 DEF PollsAreAnswers
  <2>2. CASE ~ SyncConsult(s)
    <3>1. \A t \in Syncers : sync'[t] = sync[t] \/ sync'[t].pc # "write"
      BY <1>2, <2>2 DEF SyncStep, SyncRead, SyncStore, SyncAbandon, TypeOK,
         Idle
    <3>2. QED
      BY <3>1 DEF PollsAreAnswers
  <2>3. QED
    BY <2>1, <2>2
<1>3. QED
  BY <1>1, <1>2 DEF Next, vars, BankMoves, EmitStep, EmitRead, EmitMark,
     IssueAccepted, IssueRefused, AnswerLost, EmitStore, EmitFail, EmitAbandon,
     RecvStep, RecvFind, Reserve, RecvStore, RecvStoreFails, Release, Deliver,
     RecvAbandon

(* What Emit takes up has no number.                                       *)
LEMMA TakenUpHasNoNumber ==
  ASSUME CreatedHasNoNumber, NEW b \in Boletos, MayEmit(row[b])
  PROVE  row[b].our = NoNumber
BY DEF CreatedHasNoNumber, MayEmit, AlreadyIssued, CanTransition, Transitions

(* An emission under way never gains a number before it has its answer.    *)
LEMMA EmissionsStayNumberless ==
  ASSUME TypeOK, EmissionsReadNoNumber, CreatedHasNoNumber, [Next]_vars
  PROVE  EmissionsReadNoNumber'
<1>1. CASE UNCHANGED emit
  BY <1>1 DEF EmissionsReadNoNumber
<1>2. ASSUME NEW e \in Emitters, EmitStep(e)
      PROVE  EmissionsReadNoNumber'
  <2>1. ASSUME NEW b \in Boletos, EmitRead(e, b)
        PROVE  EmissionsReadNoNumber'
    BY <2>1, TakenUpHasNoNumber
       DEF EmitRead, EmissionsReadNoNumber, TypeOK
  <2>2. CASE EmitStore(e) \/ EmitFail(e) \/ EmitAbandon(e)
    BY <2>2 DEF EmitStore, EmitFail, EmitAbandon, EmissionsReadNoNumber,
       TypeOK
  <2>3. CASE EmitMark(e) \/ IssueAccepted(e) \/ IssueRefused(e) \/ AnswerLost(e)
    <3>1. emit[e] # Idle /\ emit[e].copy.our = NoNumber
      BY <2>3 DEF EmitMark, IssueAccepted, IssueRefused, AnswerLost, Idle,
         EmissionsReadNoNumber
    <3>2. emit[e] \in EmitCall \cup AnsweredCall
      BY <3>1 DEF TypeOK
    <3>3. emit'[e].copy.our = NoNumber
      <4>1. CASE EmitMark(e)
        <5>1. emit[e] \in EmitCall
          BY <3>2, <4>1 DEF EmitMark, AnsweredCall
        <5>2. emit'[e].copy = WithStatus(emit[e].copy, "PROCESSING")
          BY <4>1, <5>1 DEF EmitMark, TypeOK, EmitCall
        <5>3. QED
          BY <3>1, <5>2 DEF WithStatus
      <4>2. CASE IssueRefused(e)
        <5>1. emit[e] \in EmitCall
          BY <3>2, <4>2 DEF IssueRefused, AnsweredCall
        <5>2. emit'[e].copy = emit[e].copy
          BY <4>2, <5>1 DEF IssueRefused, TypeOK, EmitCall
        <5>3. QED
          BY <3>1, <5>2
      <4>3. CASE IssueAccepted(e) \/ AnswerLost(e)
        <5>1. emit'[e].copy = emit[e].copy
          <6>1. CASE IssueAccepted(e)
            <7>1. PICK n \in Numbers :
                     emit' = [emit EXCEPT ![e] =
                                [pc |-> "answered", boleto |-> emit[e].boleto,
                                 copy |-> emit[e].copy, num |-> n]]
              BY <6>1 DEF IssueAccepted
            <7>2. QED
              BY <7>1 DEF TypeOK
          <6>2. CASE AnswerLost(e)
            <7>1. emit' = [emit EXCEPT ![e] =
                             [pc |-> "failing", boleto |-> emit[e].boleto,
                              copy |-> emit[e].copy]]
              BY <6>2 DEF AnswerLost
            <7>2. QED
              BY <7>1 DEF TypeOK
          <6>3. QED
            BY <4>3, <6>1, <6>2
        <5>2. QED
          BY <3>1, <5>1
      <4>4. QED
        BY <2>3, <4>1, <4>2, <4>3
    <3>4. \A x \in Emitters \ {e} : emit'[x] = emit[x]
      BY <2>3 DEF EmitMark, IssueAccepted, IssueRefused, AnswerLost, TypeOK
    <3>5. QED
      BY <3>3, <3>4 DEF EmissionsReadNoNumber
  <2>4. QED
    BY <1>2, <2>1, <2>2, <2>3 DEF EmitStep
<1>3. QED
  BY <1>1, <1>2 DEF Next, vars, BankMoves, RecvStep, RecvFind, Reserve,
     RecvStore, RecvStoreFails, Release, Deliver, RecvAbandon, SyncStep,
     SyncRead, SyncConsult, SyncStore, SyncAbandon

(* The three parts hold each other up.                                    *)
LEMMA ReissueIsKept ==
  ASSUME TypeOK, ReissueInv, [Next]_vars
  PROVE  ReissueInv'
<1> USE DEF ReissueInv
<1>1. CreatedHasNoNumber'
  BY StoresAreNotCreated DEF CreatedHasNoNumber
<1>2. QED
  BY <1>1, PollsStayFresh, EmissionsStayNumberless

LEMMA ReissueInvHolds == Spec => []ReissueInv
<1>1. Init => ReissueInv
  BY DEF Init, Idle, ReissueInv, EmissionsReadNoNumber, CreatedHasNoNumber,
     PollsAreAnswers
<1>2. TypeOK /\ ReissueInv /\ [Next]_vars => ReissueInv'
  BY ReissueIsKept
<1>3. QED
  BY <1>1, <1>2, TypeCorrect, PTL DEF Spec

-----------------------------------------------------------------------------
(* Only a refused title is answered for with FAILED.                       *)
LEMMA FailedIsRefused ==
  ASSUME TypeOK, NEW b \in Boletos, NEW n \in Numbers, "FAILED" \in Answers(b, n)
  PROVE  title[b][n] = "erro"
<1>1. MapStatus(title[b][n]) = "FAILED"
  BY DEF Answers, MapStatus, Unlisted, Wording
<1>2. title[b][n] \in TitleTexts \cup {"none"}
  BY DEF TypeOK, TitleState
<1>3. QED
  BY <1>1, <1>2 DEF MapStatus, Wording, TitleTexts

(* A refusal that a call holds was answered for a title the bank refused,   *)
(* and refused it stays: nobody can be about to store FAILED over a row for *)
(* a title that is registered.                                             *)
RefusalsAreReal ==
    /\ \A w \in Receivers : recv[w] # Idle /\ recv[w].failed =>
          title[recv[w].boleto][recv[w].num] = "erro"
    /\ \A s \in Syncers : sync[s].pc = "write" /\ sync[s].copy.status = "FAILED" =>
          title[sync[s].boleto][sync[s].copy.our] = "erro"

LEMMA RefusalsAreKept ==
  ASSUME TypeOK, BackedInv, RefusalsAreReal, [Next]_vars
  PROVE  RefusalsAreReal'
<1>1. ASSUME NEW w \in Receivers, recv'[w] # Idle, recv'[w].failed
      PROVE  title'[recv'[w].boleto][recv'[w].num] = "erro"
  <2>1. CASE /\ recv[w] # Idle
             /\ recv'[w].boleto = recv[w].boleto
             /\ recv'[w].num = recv[w].num
             /\ recv'[w].failed = recv[w].failed
    <3>1. recv[w].boleto \in Boletos /\ recv[w].num \in Numbers
      BY <2>1 DEF TypeOK, RecvCall
    <3>2. title[recv[w].boleto][recv[w].num] = "erro"
      BY <1>1, <2>1 DEF RefusalsAreReal
    <3>3. QED
      BY <2>1, <3>1, <3>2, TitlesOnlyAdvance DEF Final
  <2>2. ASSUME NEW b \in Boletos, NEW n \in Numbers, RecvFind(w, b, n)
        PROVE  title'[recv'[w].boleto][recv'[w].num] = "erro"
    BY <1>1, <2>2 DEF RecvFind, TypeOK
  <2>3. ASSUME NEW v \in Receivers, RecvStep(v),
               ~ \E b \in Boletos, n \in Numbers : RecvFind(w, b, n)
        PROVE  /\ recv[w] # Idle
               /\ recv'[w].boleto = recv[w].boleto
               /\ recv'[w].num = recv[w].num
               /\ recv'[w].failed = recv[w].failed
    <3>1. CASE v # w
      <4>1. recv'[w] = recv[w]
        BY <2>3, <3>1 DEF RecvStep, RecvFind, Reserve, RecvStore,
           RecvStoreFails, Release, Deliver, RecvAbandon, TypeOK
      <4>2. QED
        BY <1>1, <4>1
    <3>2. CASE v = w
      <4>1. \/ Reserve(w) /\ recv[w] # Idle
            \/ RecvStore(w) /\ recv[w] # Idle
            \/ RecvStoreFails(w) /\ recv[w] # Idle
        BY <1>1, <2>3, <3>2 DEF RecvStep, Release, Deliver, RecvAbandon,
           Reserve, RecvStore, RecvStoreFails, TypeOK, Idle
      <4>2. recv[w] \in RecvCall
        BY <4>1 DEF TypeOK
      <4>3. PICK pc : recv' = [recv EXCEPT ![w].pc = pc]
        BY <1>1, <4>1 DEF Reserve, RecvStore, RecvStoreFails, TypeOK
      <4>4. QED
        BY <4>1, <4>2, <4>3 DEF TypeOK, RecvCall
    <3>3. QED
      BY <3>1, <3>2
  <2>4. CASE UNCHANGED recv
    BY <1>1, <2>1, <2>4
  <2>5. QED
    BY <2>1, <2>2, <2>3, <2>4 DEF Next, vars, BankMoves, EmitStep, EmitRead,
       EmitMark, IssueAccepted, IssueRefused, AnswerLost, EmitStore, EmitFail,
       EmitAbandon, SyncStep, SyncRead, SyncConsult, SyncStore, SyncAbandon
<1>2. ASSUME NEW s \in Syncers, sync'[s].pc = "write",
             sync'[s].copy.status = "FAILED"
      PROVE  title'[sync'[s].boleto][sync'[s].copy.our] = "erro"
  <2>1. CASE sync'[s] = sync[s]
    <3>1. sync[s] \in SyncCall /\ SyncBacked(s)
      BY <1>2, <2>1 DEF TypeOK, Idle, BackedInv, MemoryIsBacked
    <3>2. sync[s].boleto \in Boletos /\ sync[s].copy.our \in Numbers
      BY <1>2, <2>1, <3>1 DEF SyncBacked, SyncCall, Copy, MaybeNumber, Idle
    <3>3. title[sync[s].boleto][sync[s].copy.our] = "erro"
      BY <1>2, <2>1 DEF RefusalsAreReal
    <3>4. QED
      BY <2>1, <3>2, <3>3, TitlesOnlyAdvance DEF Final
  <2>2. CASE SyncConsult(s)
    <3>1. sync[s] \in SyncCall /\ SyncBacked(s)
      BY <2>2 DEF SyncConsult, TypeOK, Idle, BackedInv, MemoryIsBacked
    <3>2. sync[s].boleto \in Boletos /\ sync[s].copy.our \in Numbers
      BY <2>2, <3>1 DEF SyncConsult, SyncBacked, SyncCall, Copy, MaybeNumber,
         Idle
    <3>3. PICK status \in Answers(sync[s].boleto, sync[s].copy.our) :
            \/ sync' = [sync EXCEPT ![s].pc = "write",
                           ![s].copy = ApplySummary(sync[s].copy, status)]
            \/ sync' = [sync EXCEPT ![s] = Idle]
      BY <2>2 DEF SyncConsult
    <3> DEFINE summary == ApplySummary(sync[s].copy, status)
    <3>4. summary.our = sync[s].copy.our /\ summary.status = status
      BY DEF ApplySummary
    <3> HIDE DEF summary
    <3>5. sync' = [sync EXCEPT ![s].pc = "write", ![s].copy = summary]
      <4>1. sync' # [sync EXCEPT ![s] = Idle]
        BY <1>2 DEF TypeOK, Idle
      <4>2. QED
        BY <3>3, <4>1 DEF summary
    <3>6. sync'[s].boleto = sync[s].boleto /\ sync'[s].copy = summary
      BY <3>1, <3>5 DEF TypeOK, SyncCall
    <3>7. status = "FAILED"
      BY <1>2, <3>4, <3>6
    <3>8. title' = title
      BY <2>2 DEF SyncConsult
    <3>9. title[sync[s].boleto][sync[s].copy.our] = "erro"
      BY <3>2, <3>3, <3>7, FailedIsRefused
    <3>10. QED
      BY <3>4, <3>6, <3>8, <3>9
  <2>3. CASE ~ SyncConsult(s)
    <3>1. ASSUME NEW t \in Syncers, SyncStep(t)
          PROVE  sync'[s] = sync[s]
      <4>1. CASE t # s
        BY <3>1, <4>1 DEF SyncStep, SyncRead, SyncConsult, SyncStore,
           SyncAbandon, TypeOK
      <4>2. CASE t = s
        BY <1>2, <2>3, <3>1, <4>2 DEF SyncStep, SyncRead, SyncStore,
           SyncAbandon, TypeOK, Idle
      <4>3. QED
        BY <4>1, <4>2
    <3>2. sync'[s] = sync[s] \/ \E t \in Syncers : SyncStep(t)
      BY DEF Next, vars, BankMoves, EmitStep, EmitRead, EmitMark,
         IssueAccepted, IssueRefused, AnswerLost, EmitStore, EmitFail,
         EmitAbandon, RecvStep, RecvFind, Reserve, RecvStore, RecvStoreFails,
         Release, Deliver, RecvAbandon
    <3>3. QED
      BY <2>1, <3>1, <3>2
  <2>4. QED
    BY <2>2, <2>3
<1>3. QED
  BY <1>1, <1>2 DEF RefusalsAreReal

-----------------------------------------------------------------------------
(* What takes a row away from PAID.  Everything rests on what the poll in    *)
(* progress knows: with a single poll nothing can make its copy older than  *)
(* the payment that the row shows.                                          *)
OnePoll == \A s \in Syncers, t \in Syncers : s = t

(* A boleto that was created settled is never emitted, and so has no title. *)
CreatedSettled(b) == CreatedAs[b] \in Settled =>
    /\ row[b].status = CreatedAs[b]
    /\ \A n \in Numbers : title[b][n] = "none"
    /\ \A e \in Emitters : emit[e] # Idle => emit[e].boleto # b

(* A poll of a boleto that is PAID consults the title that was paid.         *)
PollSeesPayment(s) ==
    sync[s] # Idle /\ row[sync[s].boleto].status = "PAID" =>
        /\ title[sync[s].boleto][sync[s].copy.our] = "pago"
        /\ sync[s].pc = "write" => sync[s].copy.status = "PAID"

PaidInv ==
    /\ \A b \in Boletos : CreatedSettled(b)
    /\ \A s \in Syncers : PollSeesPayment(s)

(* Any row that is PAID shows a payment of its own number, or has none.      *)
LEMMA PaidRowsAreReal ==
  ASSUME TypeOK, BackedInv, PaidInv, NEW b \in Boletos,
         row[b].status = "PAID", row[b].our # NoNumber
  PROVE  title[b][row[b].our] = "pago"
<1>1. row[b].our \in Numbers /\ NumberIsKnown(b, row[b])
  BY DEF TypeOK, Copy, MaybeNumber, BackedInv, MemoryIsBacked
<1>2. CreatedAs[b] \notin Settled
  BY <1>1 DEF PaidInv, CreatedSettled, NumberIsKnown
<1>3. Backed(b, row[b])
  BY <1>2 DEF BackedInv, SettledIsBacked
<1>4. QED
  BY <1>1, <1>3 DEF Backed, Settled, Justified, Registered

LEMMA CreatedSettledIsKept ==
  ASSUME TypeOK, BackedInv, PaidInv, [Next]_vars, NEW b \in Boletos
  PROVE  CreatedSettled(b)'
<1> SUFFICES ASSUME CreatedAs[b] \in Settled
             PROVE  /\ row'[b].status = CreatedAs[b]
                    /\ \A n \in Numbers : title'[b][n] = "none"
                    /\ \A e \in Emitters : emit'[e] # Idle => emit'[e].boleto # b
  BY DEF CreatedSettled
<1>1. /\ row[b].status = CreatedAs[b]
      /\ \A n \in Numbers : title[b][n] = "none"
      /\ \A e \in Emitters : emit[e] # Idle => emit[e].boleto # b
  BY DEF PaidInv, CreatedSettled
<1>2. /\ \A w \in Receivers : recv[w] # Idle => recv[w].boleto # b
      /\ \A s \in Syncers : sync[s] # Idle => sync[s].boleto # b
  BY <1>1 DEF BackedInv, MemoryIsBacked, RecvBacked, SyncBacked, NumberIsKnown,
     TypeOK, RecvCall, SyncCall, Copy, MaybeNumber
<1>3. row'[b] = row[b]
  <2>1. \A s \in Syncers : sync[s].pc = "write" => sync[s] # Idle
    BY DEF Idle
  <2>2. QED
    BY <1>1, <1>2, <2>1, WhoStores
<1>4. ~ MayEmit(row[b])
  BY <1>1 DEF MayEmit, CanTransition, Transitions, Settled
<1>5. ASSUME NEW n \in Numbers PROVE title'[b][n] = "none"
  <2>1. CASE UNCHANGED title
    BY <1>1, <2>1
  <2>2. ASSUME NEW c \in Boletos, NEW m \in Numbers, BankMoves(c, m)
        PROVE  title'[b][n] = "none"
    BY <1>1, <2>2 DEF BankMoves, TitleSteps, TypeOK
  <2>3. ASSUME NEW e \in Emitters, IssueAccepted(e)
        PROVE  title'[b][n] = "none"
    <3>1. emit[e] # Idle /\ emit[e].boleto # b
      BY <1>1, <2>3 DEF IssueAccepted, Idle
    <3>2. QED
      BY <1>1, <2>3, <3>1 DEF IssueAccepted, TypeOK
  <2>4. QED
    BY <2>1, <2>2, <2>3 DEF Next, vars, EmitStep, RecvStep, SyncStep, EmitRead,
       EmitMark, IssueRefused, AnswerLost, EmitStore, EmitFail, EmitAbandon,
       RecvFind, Reserve, RecvStore, RecvStoreFails, Release, Deliver,
       RecvAbandon, SyncRead, SyncConsult, SyncStore, SyncAbandon
<1>6. ASSUME NEW e \in Emitters, emit'[e] # Idle
      PROVE  emit'[e].boleto # b
  <2>1. CASE emit'[e] = emit[e]
    BY <1>1, <1>6, <2>1
  <2>2. ASSUME NEW c \in Boletos, EmitRead(e, c)
        PROVE  emit'[e].boleto # b
    BY <1>4, <2>2 DEF EmitRead, TypeOK
  <2>3. CASE EmitMark(e) \/ IssueAccepted(e) \/ IssueRefused(e) \/ AnswerLost(e)
    <3>1. emit[e] # Idle
      BY <2>3 DEF EmitMark, IssueAccepted, IssueRefused, AnswerLost, Idle
    <3>2. emit[e] \in EmitCall \cup AnsweredCall
      BY <3>1 DEF TypeOK
    <3>3. emit'[e].boleto = emit[e].boleto
      <4>1. CASE EmitMark(e)
        <5>1. emit[e] \in EmitCall
          BY <3>2, <4>1 DEF EmitMark, AnsweredCall
        <5>2. QED
          BY <4>1, <5>1 DEF EmitMark, TypeOK, EmitCall
      <4>2. CASE IssueRefused(e)
        <5>1. emit[e] \in EmitCall
          BY <3>2, <4>2 DEF IssueRefused, AnsweredCall
        <5>2. QED
          BY <4>2, <5>1 DEF IssueRefused, TypeOK, EmitCall
      <4>3. CASE IssueAccepted(e)
        <5>1. PICK n \in Numbers :
                 emit' = [emit EXCEPT ![e] =
                            [pc |-> "answered", boleto |-> emit[e].boleto,
                             copy |-> emit[e].copy, num |-> n]]
          BY <4>3 DEF IssueAccepted
        <5>2. QED
          BY <5>1 DEF TypeOK
      <4>4. CASE AnswerLost(e)
        <5>1. emit' = [emit EXCEPT ![e] =
                         [pc |-> "failing", boleto |-> emit[e].boleto,
                          copy |-> emit[e].copy]]
          BY <4>4 DEF AnswerLost
        <5>2. QED
          BY <5>1 DEF TypeOK
      <4>5. QED
        BY <2>3, <4>1, <4>2, <4>3, <4>4
    <3>4. QED
      BY <1>1, <3>1, <3>3
  <2>4. ASSUME NEW x \in Emitters, EmitStep(x)
        PROVE  emit'[e].boleto # b
    <3>1. CASE x # e
      <4>1. emit'[e] = emit[e]
        BY <2>4, <3>1 DEF EmitStep, EmitRead, EmitMark, IssueAccepted,
           IssueRefused, AnswerLost, EmitStore, EmitFail, EmitAbandon, TypeOK
      <4>2. QED
        BY <2>1, <4>1
    <3>2. CASE x = e
      <4>1. ~ (EmitStore(e) \/ EmitFail(e) \/ EmitAbandon(e))
        BY <1>6 DEF EmitStore, EmitFail, EmitAbandon, TypeOK
      <4>2. QED
        BY <2>2, <2>3, <2>4, <3>2, <4>1 DEF EmitStep
    <3>3. QED
      BY <3>1, <3>2
  <2>5. QED
    BY <2>1, <2>4 DEF Next, vars, BankMoves, RecvStep, RecvFind, Reserve,
       RecvStore, RecvStoreFails, Release, Deliver, RecvAbandon, SyncStep,
       SyncRead, SyncConsult, SyncStore, SyncAbandon
<1>7. QED
  BY <1>1, <1>3, <1>5, <1>6

(* With one poll at a time and listed wordings, what it will store of a paid *)
(* boleto is the payment.                                                  *)
LEMMA PollKeepsPayment ==
  ASSUME TypeOK, BackedInv, PaidInv, [Next]_vars, OnePoll, ~ UnlistedTexts,
         NEW s \in Syncers
  PROVE  PollSeesPayment(s)'
<1> SUFFICES ASSUME sync'[s] # Idle, row'[sync'[s].boleto].status = "PAID"
             PROVE  /\ title'[sync'[s].boleto][sync'[s].copy.our] = "pago"
                    /\ sync'[s].pc = "write" => sync'[s].copy.status = "PAID"
  BY DEF PollSeesPayment
<1>1. CASE sync'[s] = sync[s]
  <2> DEFINE b == sync[s].boleto
             n == sync[s].copy.our
  <2>1. SyncBacked(s) /\ sync[s] \in SyncCall
    BY <1>1 DEF BackedInv, MemoryIsBacked, TypeOK
  <2>2. b \in Boletos /\ n \in Numbers
    BY <1>1, <2>1 DEF SyncBacked, SyncCall, Copy, MaybeNumber
  <2> HIDE DEF b, n
  <2>3. row'[b] = row[b]
    <3> SUFFICES ASSUME row'[b] # row[b] PROVE FALSE
      OBVIOUS
    <3>1. row'[b].status = "PAID"
      BY <1>1 DEF b
    <3>2. \A w \in Receivers : Outcome(recv[w]).status # "PAID"
      BY DEF Outcome, WithStatus
    <3>3. PICK t \in Syncers : sync'[t] = Idle
      BY <2>2, <3>1, <3>2, WhoStores
    <3>4. QED
      BY <3>3 DEF OnePoll
  <2>4. /\ title[b][n] = "pago"
        /\ sync[s].pc = "write" => sync[s].copy.status = "PAID"
    BY <1>1, <2>3 DEF PaidInv, PollSeesPayment, b, n
  <2>5. title'[b][n] = "pago"
    BY <2>2, <2>4, TitlesOnlyAdvance DEF Final
  <2>6. QED
    BY <1>1, <2>4, <2>5 DEF b, n
<1>2. ASSUME NEW b \in Boletos, SyncRead(s, b)
      PROVE  /\ title'[sync'[s].boleto][sync'[s].copy.our] = "pago"
             /\ sync'[s].pc = "write" => sync'[s].copy.status = "PAID"
  <2>1. /\ sync'[s].boleto = b /\ sync'[s].copy = row[b]
        /\ sync'[s].pc = "consult" /\ row[b].our # NoNumber
        /\ UNCHANGED <<row, title>>
    BY <1>2 DEF SyncRead, TypeOK
  <2>2. title[b][row[b].our] = "pago"
    BY <2>1, PaidRowsAreReal
  <2>3. QED
    BY <2>1, <2>2
<1>3. CASE SyncConsult(s)
  <2>1. sync[s] \in SyncCall /\ SyncBacked(s) /\ UNCHANGED <<row, title>>
        /\ sync[s] # Idle
    BY <1>3 DEF SyncConsult, TypeOK, Idle, BackedInv, MemoryIsBacked
  <2>2. sync[s].boleto \in Boletos /\ sync[s].copy.our \in Numbers
    BY <2>1 DEF SyncBacked, SyncCall, Copy, MaybeNumber
  <2>3. PICK status \in Answers(sync[s].boleto, sync[s].copy.our) :
          \/ sync' = [sync EXCEPT ![s].pc = "write",
                         ![s].copy = ApplySummary(sync[s].copy, status)]
          \/ sync' = [sync EXCEPT ![s] = Idle]
    BY <1>3 DEF SyncConsult
  <2> DEFINE summary == ApplySummary(sync[s].copy, status)
  <2>4. summary.our = sync[s].copy.our /\ summary.status = status
    BY DEF ApplySummary
  <2> HIDE DEF summary
  <2>5. sync' = [sync EXCEPT ![s].pc = "write", ![s].copy = summary]
    <3>1. sync' # [sync EXCEPT ![s] = Idle]
      BY DEF TypeOK
    <3>2. QED
      BY <2>3, <3>1 DEF summary
  <2>6. sync'[s].boleto = sync[s].boleto /\ sync'[s].copy = summary
    BY <2>1, <2>5 DEF TypeOK, SyncCall
  <2>7. title[sync[s].boleto][sync[s].copy.our] = "pago"
    BY <2>1, <2>6 DEF PaidInv, PollSeesPayment
  <2>8. status = "PAID"
    <3>1. ProviderOf[sync[s].boleto] # "mock"
      BY <2>2, <2>7 DEF BackedInv, MemoryIsBacked, MockIsInstant
    <3>2. status = MapStatus("pago")
      BY <2>3, <2>7, <3>1 DEF Answers
    <3>3. QED
      BY <3>2 DEF MapStatus, Wording
  <2>9. QED
    BY <2>1, <2>4, <2>6, <2>7, <2>8
<1>4. \/ sync'[s] = sync[s]
      \/ SyncConsult(s)
      \/ \E b \in Boletos : SyncRead(s, b)
  <2>1. ASSUME NEW t \in Syncers, SyncStep(t)
        PROVE  \/ sync'[s] = sync[s] \/ SyncConsult(s)
               \/ \E b \in Boletos : SyncRead(s, b)
    <3>1. t = s
      BY DEF OnePoll
    <3>2. ~ SyncStore(s) /\ ~ SyncAbandon(s)
      BY DEF SyncStore, SyncAbandon, TypeOK
    <3>3. QED
      BY <2>1, <3>1, <3>2 DEF SyncStep
  <2>2. QED
    BY <2>1 DEF Next, vars, BankMoves, EmitStep, EmitRead, EmitMark,
       IssueAccepted, IssueRefused, AnswerLost, EmitStore, EmitFail,
       EmitAbandon, RecvStep, RecvFind, Reserve, RecvStore, RecvStoreFails,
       Release, Deliver, RecvAbandon
<1>5. QED
  BY <1>1, <1>2, <1>3, <1>4

(* So whoever takes a row away from PAID is an emission under way, or the    *)
(* first and only storing of a REGISTRO item.                               *)
LEMMA PaymentsAreExplained ==
  ASSUME TypeOK, AppliedOnce, PaidInv, [Next]_vars, NEW b \in Boletos,
         row[b].status = "PAID", row'[b].status # "PAID",
         \A e \in Emitters : emit[e] = Idle
  PROVE  applied'[b] # applied[b]
<1>1. ASSUME NEW s \in Syncers, sync[s].pc = "write", sync[s].boleto = b
      PROVE  sync[s].copy.status = "PAID"
  BY <1>1 DEF PaidInv, PollSeesPayment, Idle
<1>2. PICK w \in Receivers : /\ recv[w].boleto = b /\ recv[w].pc = "update"
                             /\ recv[w] # Idle
                             /\ applied'[b] = applied[b] \cup {recv[w].num}
  BY <1>1, WhoStores
<1>3. recv[w].num \in Numbers
  BY <1>2 DEF TypeOK, RecvCall
<1>4. recv[w].num \notin applied[b]
  BY <1>2, <1>3 DEF AppliedOnce, Applying
<1>5. QED
  BY <1>2, <1>4

(* With no emission under way, a payment that a poll has stored is undone by *)
(* nothing but the first delivery of a registration, for any number of      *)
(* boletos, titles and concurrent deliveries, wherever they die: with one    *)
(* poll at a time and a bank whose wordings MapStatus lists.                 *)
THEOREM PaymentsAreUndoneByRegistration ==
  ASSUME OnePoll, ~ UnlistedTexts
  PROVE  Spec => PaymentUndoneOnlyByRegistration
<1>1. Init => PaidInv
  BY CreatedAssumption DEF Init, Idle, PaidInv, CreatedSettled, PollSeesPayment
<1>2. TypeOK /\ BackedInv /\ PaidInv /\ [Next]_vars => PaidInv'
  BY CreatedSettledIsKept, PollKeepsPayment DEF PaidInv
<1>3. TypeOK /\ AppliedOnce /\ PaidInv /\ [Next]_vars =>
         [\A b \in Boletos :
             /\ row[b].status = "PAID" /\ row'[b].status # "PAID"
             /\ \A e \in Emitters : emit[e] = Idle
             => applied'[b] # applied[b]]_vars
  BY PaymentsAreExplained
<1>4. QED
  BY <1>1, <1>2, <1>3, TypeCorrect, BackedInvHolds, ItemsAreAppliedOnce, PTL
     DEF Spec, PaymentUndoneOnlyByRegistration

-----------------------------------------------------------------------------
(* All of it holds of an empty table.                                      *)
LEMMA LifecycleStarts ==
  ASSUME Init
  PROVE  /\ TypeOK /\ BackedInv /\ ReissueInv /\ ReservationInv
         /\ PaymentDateIsReal /\ RefusalsAreReal
<1>1. TypeOK
  BY CreatedAssumption DEF Init, TypeOK, Copy, StoredStatuses,
     MaybeNumber, TitleState, EventState, Idle
<1>2. BackedInv
  BY NumberAssumption DEF Init, BackedInv, SettledIsBacked, MemoryIsBacked,
     Backed, NumberIsKnown, EmitBacked, RecvBacked, SyncBacked, MockIsInstant
<1>3. ReissueInv /\ ReservationInv
  BY DEF Init, Idle, ReissueInv, EmissionsReadNoNumber, CreatedHasNoNumber,
     PollsAreAnswers, ReservationInv, AppliedOnce, AppliedIsReserved, Applying
<1>4. PaymentDateIsReal /\ RefusalsAreReal
  BY DEF Init, Idle, PaymentDateIsReal, RefusalsAreReal, Settled
<1>5. QED
  BY <1>1, <1>2, <1>3, <1>4
=============================================================================
