---------------------------- MODULE TenantsProofs ---------------------------
(***************************************************************************)
(* Proofs about what a tenant works with: the API tokens, for any tenants, *)
(* rotations and requests; the providers of the catalogue, for any         *)
(* providers, tenants and requests; the blacklist, for any entries, texts  *)
(* and requests; and the names of their boletos, for any keys, requests    *)
(* and calls that write back old copies of rows.                           *)
(***************************************************************************)
EXTENDS ApiTokens, ProviderCatalog, Compliance, References, FiniteSetTheorems,
        SequenceTheorems, TLAPS

-----------------------------------------------------------------------------
(* ApiTokens: a rotation revokes only rows it holds and no other rotation  *)
(* holds, and inserts only when what it holds is all there is.             *)

IssueRecord ==
    [pc: {"select", "revoke", "insert", "commit", "answer"}, scope: Scopes,
     seen: SUBSET Issues, held: SUBSET Issues]

\* What a call has made, seen and taken hold of.
CallInv(c) == issue[c] # NoIssue =>
    /\ issue[c].pc # "answer" => token[c] = NoToken
    /\ \A k \in issue[c].seen : token[k] # NoToken /\ token[k].scope = issue[c].scope
    /\ issue[c].held \subseteq Live(issue[c].scope)
    /\ issue[c].pc \in {"select", "revoke", "answer"} => issue[c].held = {}
    /\ issue[c].pc = "commit" => Live(issue[c].scope) \subseteq issue[c].held

\* Two calls hold different rows, and only one of a scope has inserted.
Apart(c, d) ==
    /\ HeldBy(c) \cap HeldBy(d) = {}
    /\ ~ (/\ issue[c].pc = "commit" /\ issue[d].pc = "commit"
          /\ issue[c].scope = issue[d].scope)

Exists(s) == \E c \in Issues : token[c] # NoToken /\ token[c].scope = s

ActiveInv(s) == Exists(s) => \E c \in Issues : Live(s) = {c}

RequestInv(r) == request[r] # NoRequest =>
    /\ EnvironmentAllowed(request[r].scope)
    /\ token[request[r].token] # NoToken
    /\ token[request[r].token].scope = request[r].scope

TokensInv ==
    /\ TokensTypeOK
    /\ \A c \in Issues : CallInv(c)
    /\ \A c \in Issues : \A d \in Issues \ {c} : Apart(c, d)
    /\ \A s \in Scopes : ActiveInv(s)
    /\ \A r \in Requests : RequestInv(r)

-----------------------------------------------------------------------------
\* A call that is under way has all its fields.
LEMMA CallUnderWay ==
    ASSUME TokensTypeOK, NEW c \in Issues, issue[c].pc # "idle"
    PROVE  issue[c] # NoIssue /\ issue[c] \in IssueRecord
<1>1. issue[c] # NoIssue
  BY DEF NoIssue
<1>2. QED
  BY <1>1 DEF TokensTypeOK, IssueCall, IssueRecord

\* A call that goes one step further and writes no row disturbs nobody.
LEMMA OnlyCallMoves ==
    ASSUME TokensInv, NEW c \in Issues, NEW call \in IssueCall,
           issue' = [issue EXCEPT ![c] = call],
           UNCHANGED <<token, request>>, known' \subseteq Issues,
           CallInv(c)', \A d \in Issues \ {c} : Apart(c, d)'
    PROVE  TokensInv'
<1>1. TokensTypeOK'
  BY DEF TokensInv, TokensTypeOK
<1>2. /\ \A d \in Issues \ {c} : issue'[d] = issue[d]
      /\ \A s : Live(s)' = Live(s)
  BY DEF TokensInv, TokensTypeOK, Live
<1>3. ASSUME NEW d \in Issues PROVE CallInv(d)'
  <2>1. CASE d = c
    BY <2>1
  <2>2. CASE d # c
    <3>1. CallInv(d)
      BY DEF TokensInv
    <3>2. issue'[d] = issue[d]
      BY <1>2, <2>2
    <3>3. QED
      BY <3>1, <3>2 DEF CallInv, Live
  <2>3. QED
    BY <2>1, <2>2
<1>4. ASSUME NEW d \in Issues, NEW e \in Issues \ {d} PROVE Apart(d, e)'
  <2>1. CASE d = c
    BY <2>1
  <2>2. CASE e = c
    <3>1. Apart(c, d)'
      BY <2>2
    <3>2. QED
      BY <2>2, <3>1 DEF Apart
  <2>3. CASE d # c /\ e # c
    <3>1. Apart(d, e) /\ issue'[d] = issue[d] /\ issue'[e] = issue[e]
      BY <1>2, <2>3 DEF TokensInv
    <3>2. QED
      BY <3>1 DEF Apart, HeldBy
  <2>4. QED
    BY <2>1, <2>2, <2>3
<1>5. \A s \in Scopes : ActiveInv(s)'
  BY <1>2 DEF TokensInv, ActiveInv, Exists
<1>6. \A r \in Requests : RequestInv(r)'
  BY DEF TokensInv, RequestInv, EnvironmentAllowed
<1>7. QED
  BY <1>1, <1>3, <1>4, <1>5, <1>6 DEF TokensInv

\* A commit replaces the active rows of its scope, which it holds, by its own.
LEMMA CommitReplaces ==
    ASSUME TokensInv, NEW c \in Issues, RotateCommits(c)
    PROVE  TokensInv'
<1>c. /\ issue[c] # NoIssue /\ issue[c] \in IssueRecord /\ issue[c].pc = "commit"
      /\ token[c] = NoToken /\ Live(issue[c].scope) = issue[c].held
  <2>1. issue[c].pc = "commit" /\ issue[c].pc # "idle" /\ CallInv(c) /\ TokensTypeOK
    BY DEF RotateCommits, TokensInv
  <2>2. issue[c] # NoIssue /\ issue[c] \in IssueRecord
    BY <2>1, CallUnderWay
  <2>3. QED
    BY <2>1, <2>2 DEF CallInv
<1>. PICK s, held : s = issue[c].scope /\ held = issue[c].held
  OBVIOUS
<1>s. s \in Scopes /\ held \subseteq Issues /\ c \notin held
  BY <1>c DEF IssueRecord, Live, NoToken
<1>1. /\ token'[c] = [state |-> "ACTIVE", scope |-> s]
      /\ \A k \in held : /\ token'[k].state = "REVOKED"
                         /\ token'[k].scope = token[k].scope
                         /\ token'[k] # NoToken
      /\ \A k \in Issues \ (held \cup {c}) : token'[k] = token[k]
  <2>1. /\ token'[c] = [state |-> "ACTIVE", scope |-> s]
        /\ \A k \in held : token'[k] = [token[k] EXCEPT !.state = "REVOKED"]
        /\ \A k \in Issues \ (held \cup {c}) : token'[k] = token[k]
    BY <1>s DEF RotateCommits
  <2>2. ASSUME NEW k \in held
        PROVE  token[k] \in [state: {"ACTIVE", "REVOKED"}, scope: Scopes]
    <3>1. k \in Issues /\ token[k].state = "ACTIVE"
      BY <1>c DEF Live
    <3>2. QED
      BY <3>1 DEF TokensInv, TokensTypeOK, TokenRow, NoToken
  <2>3. QED
    BY <2>1, <2>2 DEF NoToken
<1>2. /\ \A d \in Issues \ {c} : issue'[d] = issue[d]
      /\ issue'[c] = [issue[c] EXCEPT !.pc = "answer", !.held = {}]
  BY <1>c DEF RotateCommits, TokensInv, TokensTypeOK
<1>3. issue'[c] \in IssueRecord /\ issue'[c].pc = "answer" /\ issue'[c].held = {}
      /\ issue'[c].seen = issue[c].seen /\ issue'[c].scope = s
  BY <1>c, <1>2 DEF IssueRecord
<1>4. TokensTypeOK'
  <2>1. \A k \in Issues : token'[k] \in TokenRow
    <3>1. \A k \in held : token[k] \in [state: {"ACTIVE", "REVOKED"}, scope: Scopes]
      BY <1>c DEF Live, TokensInv, TokensTypeOK, TokenRow, NoToken
    <3>2. \A k \in held : token'[k] = [token[k] EXCEPT !.state = "REVOKED"]
      BY <1>s DEF RotateCommits
    <3>3. \A k \in held : token'[k] \in TokenRow
      BY <3>1, <3>2 DEF TokenRow
    <3>4. token'[c] \in TokenRow
      BY <1>1, <1>s DEF TokenRow
    <3>5. \A k \in Issues \ (held \cup {c}) : token'[k] \in TokenRow
      BY <1>1 DEF TokensInv, TokensTypeOK
    <3>6. QED
      BY <3>3, <3>4, <3>5
  <2>2. token' \in [Issues -> TokenRow]
    BY <2>1 DEF RotateCommits
  <2>3. issue' \in [Issues -> IssueCall]
    <3>1. issue'[c] \in IssueCall
      BY <1>3 DEF IssueCall, IssueRecord
    <3>2. QED
      BY <1>2, <3>1 DEF RotateCommits, TokensInv, TokensTypeOK
  <2>4. QED
    BY <2>2, <2>3 DEF RotateCommits, TokensInv, TokensTypeOK
<1>5. Live(s)' = {c}
  BY <1>1, <1>c, <1>s DEF Live
<1>6. \A t \in Scopes \ {s} : Live(t)' = Live(t)
  BY <1>1, <1>c, <1>s DEF Live, NoToken
<1>7. \A k \in Issues : token[k] # NoToken =>
        token'[k] # NoToken /\ token'[k].scope = token[k].scope
  BY <1>1, <1>c
<1>8. ASSUME NEW d \in Issues PROVE CallInv(d)'
  <2>1. CASE d = c
    <3>1. \A k \in issue[c].seen : k \in Issues /\ token[k] # NoToken
                                  /\ token[k].scope = s
      BY <1>c DEF CallInv, TokensInv, IssueRecord
    <3>2. QED
      BY <1>3, <1>7, <2>1, <3>1 DEF CallInv
  <2>2. CASE d # c
    <3>1. CallInv(d) /\ Apart(c, d) /\ issue'[d] = issue[d]
      BY <1>2, <2>2 DEF TokensInv
    <3>2. SUFFICES ASSUME issue[d] # NoIssue
                   PROVE  CallInv(d)'
      BY <3>1 DEF CallInv
    <3>3. issue[d] \in IssueRecord /\ HeldBy(d) = issue[d].held /\ HeldBy(c) = held
      BY <1>c, <3>2 DEF TokensInv, TokensTypeOK, IssueCall, IssueRecord, HeldBy
    <3>4. issue[d].pc # "answer" => token'[d] = NoToken
      <4>1. SUFFICES ASSUME issue[d].pc # "answer"
                     PROVE  token'[d] = NoToken
        OBVIOUS
      <4>2. token[d] = NoToken
        BY <3>1, <3>2, <4>1 DEF CallInv
      <4>3. d \notin held
        BY <1>c, <4>2 DEF Live, NoToken
      <4>4. QED
        BY <1>1, <2>2, <4>2, <4>3
    <3>5. \A k \in issue[d].seen : token'[k] # NoToken
                                   /\ token'[k].scope = issue[d].scope
      BY <1>7, <3>1, <3>2, <3>3 DEF CallInv, IssueRecord
    <3>6. issue[d].held \subseteq Live(issue[d].scope)'
      <4>1. issue[d].held \cap held = {} /\ issue[d].held \subseteq Live(issue[d].scope)
        BY <3>1, <3>2, <3>3 DEF Apart, CallInv
      <4>2. QED
        BY <1>1, <1>c, <3>1, <4>1 DEF Live, NoToken
    <3>7. issue[d].pc = "commit" => Live(issue[d].scope)' \subseteq issue[d].held
      <4>1. issue[d].pc = "commit" => issue[d].scope \in Scopes \ {s}
        BY <1>c, <3>1, <3>3 DEF Apart, IssueRecord
      <4>2. QED
        BY <1>6, <3>1, <3>2, <4>1 DEF CallInv
    <3>8. QED
      BY <3>1, <3>2, <3>4, <3>5, <3>6, <3>7 DEF CallInv
  <2>3. QED
    BY <2>1, <2>2
<1>9. ASSUME NEW d \in Issues, NEW e \in Issues \ {d} PROVE Apart(d, e)'
  <2>1. /\ Apart(d, e)
        /\ d # c => issue'[d] = issue[d]
        /\ e # c => issue'[e] = issue[e]
    BY <1>2 DEF TokensInv
  <2>2. HeldBy(c)' = {}
    BY <1>3 DEF HeldBy
  <2>3. QED
    BY <1>3, <2>1, <2>2 DEF Apart, HeldBy
<1>10. ASSUME NEW t \in Scopes PROVE ActiveInv(t)'
  <2>1. CASE t = s
    BY <1>5, <2>1 DEF ActiveInv
  <2>2. CASE t # s
    <3>1. Exists(t)' => Exists(t)
      BY <1>1, <1>7, <2>2, <1>c DEF Exists, Live, NoToken
    <3>2. QED
      BY <1>6, <2>2, <3>1 DEF TokensInv, ActiveInv
  <2>3. QED
    BY <2>1, <2>2
<1>11. ASSUME NEW r \in Requests PROVE RequestInv(r)'
  <2>1. RequestInv(r) /\ request'[r] = request[r]
    BY DEF TokensInv, RotateCommits
  <2>2. request[r] # NoRequest => request[r].token \in Issues
    BY DEF TokensInv, TokensTypeOK, RequestCall
  <2>3. QED
    BY <1>7, <2>1, <2>2 DEF RequestInv, EnvironmentAllowed
<1>12. QED
  BY <1>4, <1>8, <1>9, <1>10, <1>11 DEF TokensInv

\* Every step keeps the invariant of the tokens.
LEMMA TokensInvHolds == TokensSpec => []TokensInv
<1>1. TokensInit => TokensInv
  <2> SUFFICES ASSUME TokensInit
               PROVE  TokensInv
    OBVIOUS
  <2>1. TokensTypeOK
    BY DEF TokensInit, TokensTypeOK, TokenRow, IssueCall, RequestCall
  <2>2. /\ \A c \in Issues : CallInv(c) /\ token[c] = NoToken
        /\ \A c, d \in Issues : Apart(c, d)
        /\ \A r \in Requests : RequestInv(r)
    BY DEF TokensInit, CallInv, Apart, HeldBy, RequestInv, NoIssue
  <2>3. \A s \in Scopes : ActiveInv(s)
    BY <2>2 DEF ActiveInv, Exists
  <2>4. QED
    BY <2>1, <2>2, <2>3 DEF TokensInv
<1>2. TokensInv /\ [TokensNext]_tokenVars => TokensInv'
  <2> SUFFICES ASSUME TokensInv, [TokensNext]_tokenVars
               PROVE  TokensInv'
    OBVIOUS
  <2>t. TokensTypeOK
    BY DEF TokensInv
  <2>1. ASSUME NEW c \in Issues, NEW s \in Scopes, IssueBegins(c, s)
        PROVE  TokensInv'
    <3> DEFINE call == [pc |-> "select", scope |-> s, seen |-> {}, held |-> {}]
    <3>1. call \in IssueCall /\ issue' = [issue EXCEPT ![c] = call]
      BY <2>1 DEF IssueBegins, IssueCall
    <3>2. issue'[c] = call /\ \A d \in Issues \ {c} : issue'[d] = issue[d]
      BY <2>t, <3>1 DEF TokensTypeOK
    <3>3. CallInv(c)'
      BY <2>1, <3>2 DEF CallInv, IssueBegins
    <3>4. \A d \in Issues \ {c} : Apart(c, d)'
      BY <3>2 DEF Apart, HeldBy
    <3>5. UNCHANGED <<token, request>> /\ known' \subseteq Issues
      BY <2>1, <2>t DEF IssueBegins, TokensTypeOK
    <3>6. QED
      BY <3>1, <3>3, <3>4, <3>5, OnlyCallMoves
  <2>2. ASSUME NEW c \in Issues, RevokeSelects(c)
        PROVE  TokensInv'
    <3>1. issue[c] # NoIssue /\ issue[c] \in IssueRecord
          /\ CallInv(c) /\ issue[c].pc = "select"
      BY <2>2, <2>t, CallUnderWay DEF RevokeSelects, TokensInv
    <3> DEFINE call == [issue[c] EXCEPT !.pc = "revoke",
                                        !.seen = Live(issue[c].scope)]
    <3>2. call \in IssueCall /\ issue' = [issue EXCEPT ![c] = call]
      BY <2>2, <3>1 DEF RevokeSelects, IssueCall, IssueRecord, Live
    <3>3. /\ issue'[c].pc = "revoke" /\ issue'[c].scope = issue[c].scope
          /\ issue'[c].seen = Live(issue[c].scope) /\ issue'[c].held = {}
      BY <2>t, <3>1, <3>2 DEF TokensTypeOK, CallInv, IssueRecord
    <3>4. UNCHANGED <<token, request>> /\ known' \subseteq Issues
      BY <2>2, <2>t DEF RevokeSelects, TokensTypeOK
    <3>5. CallInv(c)'
      BY <3>1, <3>3, <3>4 DEF CallInv, Live, NoToken
    <3>6. \A d \in Issues \ {c} : Apart(c, d)'
      BY <3>3 DEF Apart, HeldBy
    <3>7. QED
      BY <3>2, <3>4, <3>5, <3>6, OnlyCallMoves
  <2>3. ASSUME NEW c \in Issues, RevokeUpdates(c)
        PROVE  TokensInv'
    <3>1. issue[c] # NoIssue /\ issue[c] \in IssueRecord
          /\ CallInv(c) /\ issue[c].pc = "revoke"
      BY <2>3, <2>t, CallUnderWay DEF RevokeUpdates, TokensInv
    <3> DEFINE held == {k \in issue[c].seen : token[k].state = "ACTIVE"}
               call == [issue[c] EXCEPT !.pc = "insert", !.held = held]
    <3>2. call \in IssueCall /\ issue' = [issue EXCEPT ![c] = call]
      BY <2>3, <3>1 DEF RevokeUpdates, IssueCall, IssueRecord
    <3>3. /\ issue'[c].pc = "insert" /\ issue'[c].scope = issue[c].scope
          /\ issue'[c].seen = issue[c].seen /\ issue'[c].held = held
          /\ \A d \in Issues \ {c} : issue'[d] = issue[d]
      BY <2>t, <3>1, <3>2 DEF TokensTypeOK, IssueRecord
    <3>4. UNCHANGED <<token, request>> /\ known' \subseteq Issues
      BY <2>3, <2>t DEF RevokeUpdates, TokensTypeOK
    <3>5. held \subseteq Live(issue[c].scope)
      BY <3>1 DEF CallInv, Live, IssueRecord
    <3>6. CallInv(c)'
      BY <3>1, <3>3, <3>4, <3>5 DEF CallInv, Live
    <3>7. \A d \in Issues \ {c} : Apart(c, d)'
      BY <2>3, <3>3 DEF RevokeUpdates, Apart, HeldBy
    <3>8. QED
      BY <3>2, <3>4, <3>6, <3>7, OnlyCallMoves
  <2>4. ASSUME NEW c \in Issues, RotateInserts(c)
        PROVE  TokensInv'
    <3>1. issue[c] # NoIssue /\ issue[c] \in IssueRecord
          /\ CallInv(c) /\ issue[c].pc = "insert"
      BY <2>4, <2>t, CallUnderWay DEF RotateInserts, TokensInv
    <3> DEFINE call == [issue[c] EXCEPT !.pc = "commit"]
    <3>2. call \in IssueCall /\ issue' = [issue EXCEPT ![c] = call]
      BY <2>4, <3>1 DEF RotateInserts, IssueCall, IssueRecord
    <3>3. /\ issue'[c].pc = "commit" /\ issue'[c].scope = issue[c].scope
          /\ issue'[c].seen = issue[c].seen /\ issue'[c].held = issue[c].held
          /\ \A d \in Issues \ {c} : issue'[d] = issue[d]
      BY <2>t, <3>1, <3>2 DEF TokensTypeOK, IssueRecord
    <3>4. UNCHANGED <<token, request>> /\ known' \subseteq Issues
      BY <2>4, <2>t DEF RotateInserts, TokensTypeOK
    <3>5. CallInv(c)'
      BY <2>4, <3>1, <3>3, <3>4 DEF CallInv, RotateInserts, Live
    <3>6. \A d \in Issues \ {c} : Apart(c, d)'
      <4>1. ASSUME NEW d \in Issues \ {c} PROVE Apart(c, d)'
        <5>1. Apart(c, d) /\ ~ Inserted(d, issue[c].scope)
          BY <2>4 DEF TokensInv, RotateInserts
        <5>2. HeldBy(c)' = HeldBy(c) /\ HeldBy(d)' = HeldBy(d)
          BY <3>1, <3>3 DEF HeldBy, NoIssue
        <5>3. QED
          BY <3>3, <5>1, <5>2 DEF Apart, Inserted
      <4>2. QED
        BY <4>1
    <3>7. QED
      BY <3>2, <3>4, <3>5, <3>6, OnlyCallMoves
  <2>5. ASSUME NEW c \in Issues, RotateCommits(c)
        PROVE  TokensInv'
    BY <2>5, CommitReplaces
  <2>6. ASSUME NEW c \in Issues, IssueAnswers(c) \/ IssueFails(c)
        PROVE  TokensInv'
    <3>1. NoIssue \in IssueCall /\ issue' = [issue EXCEPT ![c] = NoIssue]
      BY <2>6 DEF IssueAnswers, IssueFails, IssueCall
    <3>2. issue'[c] = NoIssue
      BY <2>t, <3>1 DEF TokensTypeOK
    <3>3. UNCHANGED <<token, request>> /\ known' \subseteq Issues
      BY <2>6, <2>t DEF IssueAnswers, IssueFails, TokensTypeOK
    <3>4. CallInv(c)' /\ \A d \in Issues \ {c} : Apart(c, d)'
      BY <3>2 DEF CallInv, Apart, HeldBy, NoIssue
    <3>5. QED
      BY <3>1, <3>3, <3>4, OnlyCallMoves
  <2>7. ASSUME NEW s \in Scopes, Reveal(s)
        PROVE  TokensInv'
    <3>1. known' \subseteq Issues
      BY <2>7, <2>t DEF Reveal, TokensTypeOK, Live
    <3>2. QED
      BY <2>7, <3>1 DEF Reveal, TokensInv, TokensTypeOK, CallInv, Apart, HeldBy,
         ActiveInv, Exists, RequestInv, Live, EnvironmentAllowed
  <2>8. ASSUME NEW r \in Requests, RequestStep(r)
        PROVE  TokensInv'
    <3>1. UNCHANGED <<token, issue, known>>
      BY <2>8 DEF RequestStep, Authenticate, RequestEnds
    <3>2. request' \in [Requests -> RequestCall] /\ \A q \in Requests : RequestInv(q)'
      <4>1. ASSUME NEW c \in Issues, Authenticate(r, c)
            PROVE  request' \in [Requests -> RequestCall]
                   /\ \A q \in Requests : RequestInv(q)'
        <5>1. token[c] # NoToken /\ token[c].scope \in Scopes
          BY <2>t, <4>1 DEF Authenticate, NoToken, TokensTypeOK, TokenRow
        <5>2. [pc |-> "serving", token |-> c, scope |-> token[c].scope] \in RequestCall
          BY <5>1 DEF RequestCall
        <5>3. QED
          BY <2>t, <3>1, <4>1, <5>1, <5>2
             DEF Authenticate, TokensInv, TokensTypeOK, RequestInv, EnvironmentAllowed
      <4>2. CASE RequestEnds(r)
        BY <2>t, <3>1, <4>2
           DEF RequestEnds, TokensInv, TokensTypeOK, RequestInv, RequestCall,
               EnvironmentAllowed
      <4>3. QED
        BY <2>8, <4>1, <4>2 DEF RequestStep
    <3>3. QED
      BY <3>1, <3>2 DEF TokensInv, TokensTypeOK, CallInv, Apart, HeldBy,
         ActiveInv, Exists, Live
  <2>9. CASE UNCHANGED tokenVars
    BY <2>9 DEF tokenVars, TokensInv, TokensTypeOK, CallInv, Apart, HeldBy,
       ActiveInv, Exists, RequestInv, Live, EnvironmentAllowed
  <2>10. QED
    BY <2>1, <2>2, <2>3, <2>4, <2>5, <2>6, <2>7, <2>8, <2>9
       DEF TokensNext, IssueStep
<1>3. QED
  BY <1>1, <1>2, PTL DEF TokensSpec

\* The variables of ApiTokens keep their types.
THEOREM TokensTypeCorrect == TokensSpec => []TokensTypeOK
<1>1. TokensInv => TokensTypeOK
  BY DEF TokensInv
<1>2. QED
  BY <1>1, TokensInvHolds, PTL

\* However many rotations of a scope overlap and wherever they fail, a scope
\* that ever had a token has exactly one active token.
THEOREM OneTokenStaysActive == TokensSpec => []ExactlyOneActive
<1>1. TokensInv => ExactlyOneActive
  BY FS_Singleton DEF TokensInv, ActiveInv, Exists, ExactlyOneActive
<1>2. QED
  BY <1>1, TokensInvHolds, PTL

\* A request is served for the environment of its process, under a token of a
\* scope that still has an active one, whatever is rotated meanwhile.
THEOREM RequestsStayInEnvironment == TokensSpec => []ServedInEnvironment
<1>1. TokensInv => ServedInEnvironment
  <2> SUFFICES ASSUME TokensInv, NEW r \in Requests, request[r] # NoRequest
               PROVE  /\ (AppEnv = "production") <=> (request[r].scope \in Production)
                      /\ token[request[r].token].scope = request[r].scope
                      /\ Live(request[r].scope) # {}
    BY DEF ServedInEnvironment
  <2>1. RequestInv(r)
    BY DEF TokensInv
  <2>2. request[r].token \in Issues /\ request[r].scope \in Scopes
    BY DEF TokensInv, TokensTypeOK, RequestCall
  <2>3. Live(request[r].scope) # {}
    BY <2>1, <2>2 DEF TokensInv, ActiveInv, Exists, RequestInv
  <2>4. QED
    BY <2>1, <2>3 DEF RequestInv, EnvironmentAllowed
<1>2. QED
  BY <1>1, TokensInvHolds, PTL

-----------------------------------------------------------------------------
(* ProviderCatalog: a replacement is written row by row; what makes it exact*)
(* is that every row that is not yet as it was sent is one the request has *)
(* still to write, as long as no other request is at work on the tenant.   *)

EditRecord == [pc: {"write"}, id: Providers, status: {"ACTIVE", "INACTIVE"}]

SwapRecord == [pc: {"assign"}, tenant: Clients, sel: Selections,
               drop: SUBSET Providers, add: SUBSET Providers, alone: BOOLEAN]

EmissionRecord == [pc: {"call"}, tenant: Clients, id: Providers,
                   barred: SUBSET Providers, expected: SUBSET SUBSET Providers]

OnboardRecord == [pc: {"commit"}, chosen: SUBSET Providers]

CatalogTypes ==
    /\ status \in [Providers -> {"absent", "ACTIVE", "INACTIVE"}]
    /\ enabled \in [Clients -> [Providers -> {"absent", "yes", "no"}]]
    /\ member \subseteq Clients
    /\ providerEdit \in [Edits -> {NoEdit} \cup EditRecord]
    /\ swap \in [Swaps -> {NoSwap} \cup SwapRecord]
    /\ onboard \in [Clients -> {NoOnboard} \cup OnboardRecord]
    /\ emission \in [Calls -> {NoEmission} \cup EmissionRecord]
    /\ off \subseteq Providers
    /\ settled \in [Clients -> SUBSET SUBSET Providers]

Enabled(t) == {p \in Providers : enabled[t][p] = "yes"}

\* No edit is about to bring a deactivated provider back.
OffInv == \A p \in off : status[p] = "INACTIVE" /\ Reviving(p) = {}

\* A tenant is onboarded once, with nothing enabled before.
MemberInv(t) ==
    /\ onboard[t] # NoOnboard => t \notin member
    /\ t \notin member => Enabled(t) = {} /\ Swapping(t) = {}

\* What a request has still to write.
SwapInv(c) == swap[c] # NoSwap /\ swap[c].alone =>
    /\ Swapping(swap[c].tenant) = {c}
    /\ Enabled(swap[c].tenant) \ Chosen(swap[c].sel) \subseteq swap[c].drop
    /\ Chosen(swap[c].sel) \ Enabled(swap[c].tenant) \subseteq swap[c].add
    /\ swap[c].drop \cap Chosen(swap[c].sel) = {}
    /\ swap[c].add \subseteq DOMAIN swap[c].sel

SettledInv(t) ==
    /\ Swapping(t) # {} => settled[t] = {}
    /\ \A S \in settled[t] : Enabled(t) = S

CatalogInv ==
    /\ CatalogTypes
    /\ OffInv
    /\ \A t \in Clients : MemberInv(t) /\ SettledInv(t)
    /\ \A c \in Swaps : SwapInv(c)
    /\ LeftOutIsNotCalled

-----------------------------------------------------------------------------
LEMMA InitCatalogInv == CatalogInit => CatalogInv
<1> SUFFICES ASSUME CatalogInit PROVE CatalogInv
  OBVIOUS
<1>1. CatalogTypes
  BY CatalogOwners DEF CatalogInit, CatalogTypes, Old
<1>2. OffInv /\ LeftOutIsNotCalled
  BY DEF CatalogInit, OffInv, LeftOutIsNotCalled
<1>3. ASSUME NEW t \in Clients PROVE MemberInv(t) /\ SettledInv(t)
  <2>1. Swapping(t) = {} /\ onboard[t] = NoOnboard /\ settled[t] = {}
    BY DEF CatalogInit, Swapping
  <2>2. t \notin member => Enabled(t) = {}
    BY CatalogOwners DEF CatalogInit, Enabled, Old
  <2>3. QED
    BY <2>1, <2>2 DEF MemberInv, SettledInv
<1>4. \A c \in Swaps : SwapInv(c)
  BY DEF CatalogInit, SwapInv
<1>5. QED
  BY <1>1, <1>2, <1>3, <1>4 DEF CatalogInv

\* The requests on the catalogue do not touch what is enabled, nor the reverse.
LEMMA CatalogSideKeepsInv ==
    ASSUME CatalogInv, CatalogTypes', OffInv',
           UNCHANGED <<enabled, member, swap, onboard, emission, settled>>
    PROVE  CatalogInv'
BY DEF CatalogInv, MemberInv, SettledInv, SwapInv, LeftOutIsNotCalled, Enabled,
   Swapping

LEMMA CatalogStepKeepsInv ==
    ASSUME CatalogInv, NEW p \in Providers, CatalogStep(p)
    PROVE  CatalogInv'
<1>1. CatalogTypes'
  BY DEF CatalogInv, CatalogTypes, CatalogStep, CreateCatalog, Activate, Deactivate
<1>2. OffInv'
  <2>1. /\ UNCHANGED providerEdit
        /\ \A q \in Providers \ {p} : status'[q] = status[q]
    BY DEF CatalogInv, CatalogTypes, CatalogStep, CreateCatalog, Activate, Deactivate
  <2>2. \A q : Reviving(q)' = Reviving(q)
    BY <2>1 DEF Reviving
  <2>3. CASE CreateCatalog(p)
    BY <2>1, <2>2, <2>3 DEF CatalogInv, CatalogTypes, CreateCatalog, OffInv
  <2>4. CASE Activate(p)
    BY <2>1, <2>2, <2>4 DEF CatalogInv, CatalogTypes, Activate, OffInv
  <2>5. CASE Deactivate(p)
    BY <2>1, <2>2, <2>5 DEF CatalogInv, CatalogTypes, Deactivate, OffInv
  <2>6. QED
    BY <2>3, <2>4, <2>5 DEF CatalogStep
<1>3. QED
  BY <1>1, <1>2, CatalogSideKeepsInv
     DEF CatalogStep, CreateCatalog, Activate, Deactivate

LEMMA EditStepKeepsInv ==
    ASSUME CatalogInv, NEW c \in Edits, ProviderEditStep(c)
    PROVE  CatalogInv'
<1>t. CatalogTypes /\ OffInv
  BY DEF CatalogInv
<1>u. UNCHANGED <<enabled, member, swap, onboard, emission, off, settled>>
  BY DEF ProviderEditStep, EditReads, EditWrites, EditDies
<1>1. ASSUME NEW p \in Providers, EditReads(c, p)
      PROVE  CatalogTypes' /\ OffInv'
  <2>. PICK w : w = [pc |-> "write", id |-> p, status |-> status[p]]
    OBVIOUS
  <2>1. w \in EditRecord /\ w.id = p /\ w.status = status[p]
    BY <1>t, <1>1 DEF EditReads, CatalogTypes, EditRecord
  <2>2. providerEdit' = [providerEdit EXCEPT ![c] = w] /\ status' = status
    BY <1>1 DEF EditReads
  <2>3. CatalogTypes'
    BY <1>t, <1>u, <2>1, <2>2 DEF CatalogTypes
  <2>4. ASSUME NEW q \in off PROVE Reviving(q)' = {}
    BY <1>t, <2>1, <2>2 DEF OffInv, Reviving, CatalogTypes
  <2>5. QED
    BY <1>t, <1>u, <2>2, <2>3, <2>4 DEF OffInv
<1>2. ASSUME EditWrites(c) PROVE CatalogTypes' /\ OffInv'
  <2>1. providerEdit[c] # NoEdit /\ providerEdit[c] \in EditRecord
    BY <1>t, <1>2 DEF EditWrites, NoEdit, CatalogTypes
  <2>. PICK p \in Providers, s \in {"ACTIVE", "INACTIVE"} :
         p = providerEdit[c].id /\ s = providerEdit[c].status
    BY <2>1 DEF EditRecord
  <2>2. /\ status' = [status EXCEPT ![p] = s]
        /\ providerEdit' = [providerEdit EXCEPT ![c] = NoEdit]
    BY <1>2 DEF EditWrites
  <2>3. CatalogTypes'
    BY <1>t, <1>u, <2>2 DEF CatalogTypes
  <2>4. p \in off => s = "INACTIVE"
    BY <1>t, <2>1 DEF OffInv, Reviving
  <2>5. \A q : Reviving(q)' \subseteq Reviving(q)
    BY <1>t, <2>2 DEF Reviving, CatalogTypes
  <2>6. QED
    BY <1>t, <1>u, <2>2, <2>3, <2>4, <2>5 DEF OffInv, CatalogTypes
<1>3. ASSUME EditDies(c) PROVE CatalogTypes' /\ OffInv'
  <2>1. providerEdit' = [providerEdit EXCEPT ![c] = NoEdit] /\ status' = status
    BY <1>3 DEF EditDies
  <2>2. \A q : Reviving(q)' \subseteq Reviving(q)
    BY <1>t, <2>1 DEF Reviving, CatalogTypes
  <2>3. QED
    BY <1>t, <1>u, <2>1, <2>2 DEF OffInv, CatalogTypes
<1>4. CatalogTypes' /\ OffInv'
  BY <1>1, <1>2, <1>3 DEF ProviderEditStep
<1>5. QED
  BY <1>u, <1>4, CatalogSideKeepsInv

LEMMA EmissionStepKeepsInv ==
    ASSUME CatalogInv, NEW e \in Calls, EmissionStep(e)
    PROVE  CatalogInv'
<1>t. CatalogTypes /\ OffInv /\ LeftOutIsNotCalled
      /\ \A t \in Clients : SettledInv(t)
  BY DEF CatalogInv
<1>u. UNCHANGED <<status, enabled, member, providerEdit, swap, onboard, off, settled>>
  BY DEF EmissionStep, EmissionLooksUp, EmissionEnds
<1>1. PICK w \in {NoEmission} \cup EmissionRecord :
        /\ emission' = [emission EXCEPT ![e] = w]
        /\ w # NoEmission => /\ w.id \notin w.barred
                             /\ \A S \in w.expected : w.id \in S
  <2>1. CASE EmissionEnds(e)
    BY <2>1 DEF EmissionEnds
  <2>2. ASSUME NEW t \in Clients, NEW p \in Providers, EmissionLooksUp(e, t, p)
        PROVE  \E w \in {NoEmission} \cup EmissionRecord :
                 /\ emission' = [emission EXCEPT ![e] = w]
                 /\ w # NoEmission => /\ w.id \notin w.barred
                                      /\ \A S \in w.expected : w.id \in S
    <3>. PICK w : w = [pc |-> "call", tenant |-> t, id |-> p, barred |-> off,
                       expected |-> settled[t]]
      OBVIOUS
    <3>1. w \in EmissionRecord
      BY <1>t DEF EmissionRecord, CatalogTypes
    <3>2. p \notin off /\ p \in Enabled(t)
      BY <1>t, <2>2 DEF EmissionLooksUp, Usable, OffInv, Enabled
    <3>3. w.id \notin w.barred /\ \A S \in w.expected : w.id \in S
      BY <1>t, <3>2 DEF SettledInv
    <3>4. emission' = [emission EXCEPT ![e] = w]
      BY <2>2 DEF EmissionLooksUp
    <3>5. QED
      BY <3>1, <3>3, <3>4
  <2>3. QED
    BY <2>1, <2>2 DEF EmissionStep
<1>2. CatalogTypes'
  BY <1>t, <1>u, <1>1 DEF CatalogTypes
<1>3. LeftOutIsNotCalled'
  BY <1>t, <1>1 DEF LeftOutIsNotCalled, CatalogTypes
<1>4. QED
  BY <1>u, <1>2, <1>3 DEF CatalogInv, OffInv, Reviving, MemberInv, SettledInv,
     SwapInv, Enabled, Swapping

LEMMA OnboardStepKeepsInv ==
    ASSUME CatalogInv, NEW t \in Clients, OnboardStep(t)
    PROVE  CatalogInv'
<1>t. /\ CatalogTypes /\ OffInv /\ LeftOutIsNotCalled
      /\ \A u \in Clients : MemberInv(u) /\ SettledInv(u)
      /\ \A c \in Swaps : SwapInv(c)
  BY DEF CatalogInv
<1>u. UNCHANGED <<status, providerEdit, swap, emission, off>>
  BY DEF OnboardStep, OnboardReads, OnboardCommits, OnboardFails
<1>v. OffInv' /\ LeftOutIsNotCalled' /\ \A u : Swapping(u)' = Swapping(u)
  BY <1>t, <1>u DEF OffInv, Reviving, LeftOutIsNotCalled, Swapping
<1>1. ASSUME UNCHANGED <<enabled, member, settled>>,
             NEW w \in {NoOnboard} \cup OnboardRecord,
             w # NoOnboard => t \notin member,
             onboard' = [onboard EXCEPT ![t] = w]
      PROVE  CatalogInv'
  <2>1. CatalogTypes'
    BY <1>t, <1>u, <1>1 DEF CatalogTypes
  <2>2. \A u \in Clients : MemberInv(u)' /\ SettledInv(u)'
    BY <1>t, <1>v, <1>1 DEF MemberInv, SettledInv, Enabled, CatalogTypes
  <2>3. \A c \in Swaps : SwapInv(c)'
    BY <1>t, <1>u, <1>v, <1>1 DEF SwapInv, Enabled
  <2>4. QED
    BY <1>v, <2>1, <2>2, <2>3 DEF CatalogInv
<1>2. ASSUME NEW chosen \in SUBSET Providers, OnboardReads(t, chosen)
      PROVE  CatalogInv'
  <2>. PICK w : w = [pc |-> "commit", chosen |-> chosen]
    OBVIOUS
  <2>1. w \in OnboardRecord
    BY DEF OnboardRecord
  <2>2. QED
    BY <1>1, <1>2, <2>1 DEF OnboardReads
<1>3. ASSUME OnboardFails(t) PROVE CatalogInv'
  BY <1>1, <1>3 DEF OnboardFails
<1>4. ASSUME OnboardCommits(t) PROVE CatalogInv'
  <2>1. onboard[t] # NoOnboard /\ onboard[t] \in OnboardRecord
    BY <1>t, <1>4 DEF OnboardCommits, NoOnboard, CatalogTypes
  <2>. PICK chosen \in SUBSET Providers : chosen = onboard[t].chosen
    BY <2>1 DEF OnboardRecord
  <2>2. Enabled(t) = {} /\ Swapping(t) = {}
    BY <1>t, <2>1 DEF MemberInv
  <2>. PICK row : row = [p \in Providers |-> IF p \in chosen THEN "yes"
                                            ELSE enabled[t][p]]
    OBVIOUS
  <2>r. row \in [Providers -> {"absent", "yes", "no"}]
    <3>1. \A p \in Providers : enabled[t][p] \in {"absent", "yes", "no"}
      BY <1>t DEF CatalogTypes
    <3>2. QED
      BY <3>1
  <2>3. /\ member' = member \cup {t}
        /\ enabled' = [enabled EXCEPT ![t] = row]
        /\ settled' = [settled EXCEPT ![t] = {chosen}]
        /\ onboard' = [onboard EXCEPT ![t] = NoOnboard]
    BY <1>4 DEF OnboardCommits
  <2>4. CatalogTypes'
    BY <1>t, <1>u, <2>r, <2>3 DEF CatalogTypes
  <2>5. Enabled(t)' = chosen
    BY <1>t, <2>2, <2>3 DEF Enabled, CatalogTypes
  <2>6. \A u \in Clients \ {t} : Enabled(u)' = Enabled(u)
    BY <1>t, <2>3 DEF Enabled, CatalogTypes
  <2>7. MemberInv(t)' /\ SettledInv(t)'
    BY <1>t, <1>v, <2>2, <2>3, <2>5 DEF MemberInv, SettledInv, CatalogTypes
  <2>8. \A u \in Clients \ {t} : MemberInv(u)' /\ SettledInv(u)'
    BY <1>t, <1>v, <2>3, <2>6 DEF MemberInv, SettledInv, CatalogTypes
  <2>9. ASSUME NEW c \in Swaps PROVE SwapInv(c)'
    <3>1. swap[c] # NoSwap => swap[c].tenant \in Clients \ {t}
      BY <1>t, <2>2 DEF Swapping, CatalogTypes, SwapRecord
    <3>2. QED
      BY <1>t, <1>u, <1>v, <2>6, <3>1 DEF SwapInv
  <2>10. QED
    BY <1>v, <2>4, <2>7, <2>8, <2>9 DEF CatalogInv
<1>5. QED
  BY <1>2, <1>3, <1>4 DEF OnboardStep

-----------------------------------------------------------------------------
\* A request that is alone shares its tenant with no other.
LEMMA AloneIsApart ==
    ASSUME CatalogInv, NEW c \in Swaps, swap[c] # NoSwap,
           NEW d \in Swaps, d # c, swap[d] # NoSwap, swap[d].alone
    PROVE  swap[d].tenant # swap[c].tenant
BY DEF CatalogInv, SwapInv, Swapping

LEMMA SwapListsKeepsInv ==
    ASSUME CatalogInv, NEW c \in Swaps, NEW t \in Clients, NEW sel \in Selections,
           SwapLists(c, t, sel)
    PROVE  CatalogInv'
<1>t. /\ CatalogTypes /\ OffInv /\ LeftOutIsNotCalled
      /\ \A u \in Clients : MemberInv(u) /\ SettledInv(u)
      /\ \A d \in Swaps : SwapInv(d)
  BY DEF CatalogInv
<1>u. /\ UNCHANGED <<status, enabled, member, providerEdit, onboard, emission, off>>
      /\ swap[c] = NoSwap /\ t \in member
      /\ settled' = [settled EXCEPT ![t] = {}]
  BY DEF SwapLists
<1>. PICK w : w = [pc |-> "assign", tenant |-> t, sel |-> sel,
                   drop |-> Listed(t) \ Chosen(sel), add |-> DOMAIN sel,
                   alone |-> Swapping(t) = {}]
  OBVIOUS
<1>1. /\ w.tenant = t /\ w.sel = sel /\ w.drop = Listed(t) \ Chosen(sel)
      /\ w.add = DOMAIN sel /\ w.alone = (Swapping(t) = {}) /\ w # NoSwap
  BY DEF NoSwap
<1>2. w \in SwapRecord
  <2>1. DOMAIN sel \subseteq Providers
    BY CatalogSelections
  <2>2. Listed(t) \ Chosen(sel) \subseteq Providers
    BY DEF Listed
  <2>3. QED
    BY <2>1, <2>2 DEF SwapRecord
<1>3. swap' = [d \in Swaps |-> IF d = c THEN w
                 ELSE IF d \in Swapping(t) THEN [swap[d] EXCEPT !.alone = FALSE]
                 ELSE swap[d]]
  BY DEF SwapLists
<1>4. ASSUME NEW d \in Swapping(t)
      PROVE  /\ d \in Swaps /\ swap[d] # NoSwap /\ swap'[d] \in SwapRecord
             /\ ~swap'[d].alone /\ swap'[d].tenant = t
  <2>1. d \in Swaps /\ swap[d] # NoSwap /\ swap[d] \in SwapRecord /\ swap[d].tenant = t
    BY <1>t DEF Swapping, CatalogTypes
  <2>2. d # c
    BY <1>u, <2>1
  <2>3. swap'[d] = [swap[d] EXCEPT !.alone = FALSE]
    BY <1>3, <2>1, <2>2
  <2>4. QED
    BY <2>1, <2>3 DEF SwapRecord
<1>5. \A d \in SwapRecord : d # NoSwap
  BY DEF SwapRecord, NoSwap
<1>6. CatalogTypes'
  <2>1. swap' \in [Swaps -> {NoSwap} \cup SwapRecord]
    BY <1>t, <1>2, <1>3, <1>4 DEF CatalogTypes
  <2>2. settled' \in [Clients -> SUBSET SUBSET Providers]
    BY <1>t, <1>u DEF CatalogTypes
  <2>3. QED
    BY <1>t, <1>u, <2>1, <2>2 DEF CatalogTypes
<1>7. /\ OffInv' /\ LeftOutIsNotCalled'
      /\ \A u \in Clients : Enabled(u)' = Enabled(u)
  BY <1>t, <1>u DEF OffInv, Reviving, LeftOutIsNotCalled, Enabled
<1>8. Swapping(t)' = Swapping(t) \cup {c}
  <2>1. ASSUME NEW d \in Swaps
        PROVE  d \in Swapping(t)' <=> d = c \/ d \in Swapping(t)
    BY <1>1, <1>3, <1>4, <1>5 DEF Swapping
  <2>2. Swapping(t)' \subseteq Swaps /\ Swapping(t) \subseteq Swaps
    BY DEF Swapping
  <2>3. QED
    BY <2>1, <2>2
<1>9. ASSUME NEW u \in Clients \ {t} PROVE Swapping(u)' = Swapping(u)
  <2>1. ASSUME NEW d \in Swaps
        PROVE  d \in Swapping(u)' <=> d \in Swapping(u)
    <3>1. d \in Swapping(t) => d \notin Swapping(u)' /\ d \notin Swapping(u)
      BY <1>4 DEF Swapping
    <3>2. d = c => d \notin Swapping(u)' /\ d \notin Swapping(u)
      BY <1>1, <1>3, <1>u DEF Swapping
    <3>3. QED
      BY <1>3, <3>1, <3>2 DEF Swapping
  <2>2. QED
    BY <2>1 DEF Swapping
<1>10. ASSUME NEW u \in Clients PROVE MemberInv(u)' /\ SettledInv(u)'
  <2>1. CASE u = t
    BY <1>t, <1>u, <1>7, <2>1 DEF MemberInv, SettledInv, CatalogTypes
  <2>2. CASE u # t
    BY <1>t, <1>u, <1>7, <1>9, <2>2 DEF MemberInv, SettledInv, CatalogTypes
  <2>3. QED
    BY <2>1, <2>2
<1>11. ASSUME NEW d \in Swaps PROVE SwapInv(d)'
  <2>1. CASE d = c
    <3>1. swap'[c] = w
      BY <1>3
    <3>2. Enabled(t) \subseteq Listed(t)
      BY DEF Enabled, Listed
    <3>3. Chosen(sel) \subseteq DOMAIN sel
      BY DEF Chosen
    <3>4. /\ w.alone => Swapping(t)' = {c}
          /\ Enabled(t)' \ Chosen(sel) \subseteq w.drop
          /\ Chosen(sel) \ Enabled(t)' \subseteq w.add
          /\ w.drop \cap Chosen(sel) = {}
          /\ w.add \subseteq DOMAIN sel
      BY <1>1, <1>7, <1>8, <3>2, <3>3
    <3>5. Chosen(sel)' = Chosen(sel)
      BY DEF Chosen
    <3>6. SwapInv(c)'
      BY <1>1, <3>1, <3>4, <3>5 DEF SwapInv
    <3>7. QED
      BY <2>1, <3>6
  <2>2. CASE d \in Swapping(t)
    BY <1>4, <2>2 DEF SwapInv
  <2>3. ASSUME d # c, d \notin Swapping(t) PROVE SwapInv(d)'
    <3>1. swap'[d] = swap[d]
      BY <1>3, <2>3
    <3>2. swap[d] # NoSwap => swap[d].tenant \in Clients \ {t}
      BY <1>t, <2>3 DEF Swapping, CatalogTypes, SwapRecord
    <3>3. QED
      BY <1>t, <1>7, <1>9, <3>1, <3>2 DEF SwapInv
  <2>4. QED
    BY <2>1, <2>2, <2>3
<1>12. QED
  BY <1>6, <1>7, <1>10, <1>11 DEF CatalogInv

\* A row written by a request that keeps its own part of the invariant.
LEMMA AssignKeepsInv ==
    ASSUME CatalogInv, NEW c \in Swaps, swap[c] # NoSwap,
           NEW t \in Clients, swap[c].tenant = t,
           NEW p \in Providers, NEW v \in {"yes", "no"},
           NEW w \in SwapRecord, w.tenant = t,
           enabled' = [enabled EXCEPT ![t][p] = v],
           swap' = [swap EXCEPT ![c] = w],
           UNCHANGED <<status, member, providerEdit, onboard, emission, off, settled>>,
           SwapInv(c)'
    PROVE  CatalogInv'
<1>t. /\ CatalogTypes /\ OffInv /\ LeftOutIsNotCalled
      /\ \A u \in Clients : MemberInv(u) /\ SettledInv(u)
      /\ \A d \in Swaps : SwapInv(d)
  BY DEF CatalogInv
<1>1. w # NoSwap
  BY DEF SwapRecord, NoSwap
<1>2. CatalogTypes'
  BY <1>t DEF CatalogTypes
<1>3. OffInv' /\ LeftOutIsNotCalled'
  BY <1>t DEF OffInv, Reviving, LeftOutIsNotCalled
<1>4. \A u : Swapping(u)' = Swapping(u)
  BY <1>t, <1>1 DEF Swapping, CatalogTypes
<1>5. \A u \in Clients \ {t} : Enabled(u)' = Enabled(u)
  BY <1>t DEF Enabled, CatalogTypes
<1>6. c \in Swapping(t)
  BY DEF Swapping
<1>7. ASSUME NEW u \in Clients PROVE MemberInv(u)' /\ SettledInv(u)'
  <2>1. CASE u = t
    BY <1>t, <1>4, <1>6, <2>1 DEF MemberInv, SettledInv
  <2>2. CASE u # t
    BY <1>t, <1>4, <1>5, <2>2 DEF MemberInv, SettledInv
  <2>3. QED
    BY <2>1, <2>2
<1>8. ASSUME NEW d \in Swaps, d # c PROVE SwapInv(d)'
  <2>1. swap'[d] = swap[d]
    BY <1>t, <1>8 DEF CatalogTypes
  <2>2. swap[d] # NoSwap /\ swap[d].alone => swap[d].tenant \in Clients \ {t}
    BY <1>t, <1>8, AloneIsApart DEF CatalogTypes, SwapRecord
  <2>3. QED
    BY <1>t, <1>4, <1>5, <2>1, <2>2 DEF SwapInv
<1>9. QED
  BY <1>2, <1>3, <1>7, <1>8 DEF CatalogInv

\* A request that leaves, and what is known of its tenant then.
LEMMA LeavingKeepsInv ==
    ASSUME CatalogInv, NEW c \in Swaps, swap[c] # NoSwap,
           NEW t \in Clients, swap[c].tenant = t,
           NEW told \in SUBSET SUBSET Providers,
           \A S \in told : Enabled(t) = S,
           told # {} => Swapping(t) = {c},
           settled' = [settled EXCEPT ![t] = told],
           swap' = [swap EXCEPT ![c] = NoSwap],
           UNCHANGED <<status, enabled, member, providerEdit, onboard, emission, off>>
    PROVE  CatalogInv'
<1>t. /\ CatalogTypes /\ OffInv /\ LeftOutIsNotCalled
      /\ \A u \in Clients : MemberInv(u) /\ SettledInv(u)
      /\ \A d \in Swaps : SwapInv(d)
  BY DEF CatalogInv
<1>1. CatalogTypes'
  BY <1>t DEF CatalogTypes
<1>2. OffInv' /\ LeftOutIsNotCalled' /\ \A u : Enabled(u)' = Enabled(u)
  BY <1>t DEF OffInv, Reviving, LeftOutIsNotCalled, Enabled
<1>3. \A u : Swapping(u)' = Swapping(u) \ {c}
  BY <1>t DEF Swapping, CatalogTypes
<1>4. \A u : u # t => Swapping(u)' = Swapping(u)
  BY <1>3 DEF Swapping
<1>5. ASSUME NEW u \in Clients PROVE MemberInv(u)' /\ SettledInv(u)'
  <2>1. MemberInv(u)'
    BY <1>t, <1>2, <1>3 DEF MemberInv
  <2>2. CASE u = t
    BY <1>t, <1>2, <1>3, <2>1, <2>2 DEF SettledInv, CatalogTypes
  <2>3. CASE u # t
    BY <1>t, <1>2, <1>4, <2>1, <2>3 DEF SettledInv, CatalogTypes
  <2>4. QED
    BY <2>2, <2>3
<1>6. ASSUME NEW d \in Swaps PROVE SwapInv(d)'
  <2>1. CASE d = c
    BY <1>t, <2>1 DEF SwapInv, CatalogTypes
  <2>2. ASSUME d # c PROVE SwapInv(d)'
    <3>1. swap'[d] = swap[d]
      BY <1>t, <2>2 DEF CatalogTypes
    <3>2. swap[d] # NoSwap /\ swap[d].alone => swap[d].tenant # t
      BY <2>2, AloneIsApart
    <3>3. QED
      BY <1>t, <1>2, <1>4, <3>1, <3>2 DEF SwapInv
  <2>3. QED
    BY <2>1, <2>2
<1>7. QED
  BY <1>1, <1>2, <1>5, <1>6 DEF CatalogInv

LEMMA SwapStepKeepsInv ==
    ASSUME CatalogInv, NEW c \in Swaps, SwapStep(c)
    PROVE  CatalogInv'
<1>t. /\ CatalogTypes /\ SwapInv(c)
      /\ \A u \in Clients : SettledInv(u)
  BY DEF CatalogInv
<1>1. ASSUME NEW t \in Clients, NEW sel \in Selections, SwapLists(c, t, sel)
      PROVE  CatalogInv'
  BY <1>1, SwapListsKeepsInv
<1>2. ASSUME swap[c] # NoSwap,
             \/ \E p \in Providers : SwapDrops(c, p) \/ SwapAdds(c, p)
             \/ SwapEnds(c)
             \/ SwapFails(c)
      PROVE  CatalogInv'
  <2>1. swap[c] \in SwapRecord
    BY <1>t, <1>2 DEF CatalogTypes
  <2>. PICK old \in SwapRecord, t \in Clients : old = swap[c] /\ t = old.tenant
    BY <2>1 DEF SwapRecord
  <2>2. /\ old # NoSwap /\ c \in Swapping(t)
        /\ old.drop \subseteq Providers /\ old.add \subseteq Providers
        /\ old.alone => /\ Swapping(t) = {c}
                        /\ Enabled(t) \ Chosen(old.sel) \subseteq old.drop
                        /\ Chosen(old.sel) \ Enabled(t) \subseteq old.add
                        /\ old.drop \cap Chosen(old.sel) = {}
                        /\ old.add \subseteq DOMAIN old.sel
    BY <1>t, <1>2 DEF SwapInv, SwapRecord, Swapping
  <2>3. ASSUME NEW p \in Providers, SwapDrops(c, p) PROVE CatalogInv'
    <3>. PICK w : w = [old EXCEPT !.drop = @ \ {p}]
      OBVIOUS
    <3>1. /\ w \in SwapRecord /\ w.tenant = t /\ w.sel = old.sel
          /\ w.drop = old.drop \ {p} /\ w.add = old.add /\ w.alone = old.alone
      BY DEF SwapRecord
    <3>2. /\ enabled' = [enabled EXCEPT ![t][p] = "no"]
          /\ swap' = [swap EXCEPT ![c] = w]
          /\ p \in old.drop
          /\ UNCHANGED <<status, member, providerEdit, onboard, emission, off,
                         settled>>
      BY <2>3 DEF SwapDrops, Assign
    <3>3. Enabled(t)' = Enabled(t) \ {p}
      BY <1>t, <3>2 DEF Enabled, CatalogTypes
    <3>4. Swapping(t)' = Swapping(t) /\ swap'[c] = w
      BY <1>t, <1>2, <3>1, <3>2 DEF Swapping, CatalogTypes, SwapRecord, NoSwap
    <3>5. SwapInv(c)'
      BY <2>2, <3>1, <3>2, <3>3, <3>4 DEF SwapInv
    <3>6. QED
      BY <1>2, <3>1, <3>2, <3>5, AssignKeepsInv
  <2>4. ASSUME NEW p \in Providers, SwapAdds(c, p) PROVE CatalogInv'
    <3>. PICK w : w = [old EXCEPT !.add = @ \ {p}]
      OBVIOUS
    <3>. PICK v \in {"yes", "no"} : v = IF old.sel[p] THEN "yes" ELSE "no"
      OBVIOUS
    <3>1. /\ w \in SwapRecord /\ w.tenant = t /\ w.sel = old.sel
          /\ w.drop = old.drop /\ w.add = old.add \ {p} /\ w.alone = old.alone
      BY DEF SwapRecord
    <3>2. /\ enabled' = [enabled EXCEPT ![t][p] = v]
          /\ swap' = [swap EXCEPT ![c] = w]
          /\ old.drop = {} /\ p \in old.add
          /\ UNCHANGED <<status, member, providerEdit, onboard, emission, off,
                         settled>>
      BY <2>4 DEF SwapAdds, Assign
    <3>3. Enabled(t)' = IF v = "yes" THEN Enabled(t) \cup {p} ELSE Enabled(t) \ {p}
      BY <1>t, <3>2 DEF Enabled, CatalogTypes
    <3>4. Swapping(t)' = Swapping(t) /\ swap'[c] = w
      BY <1>t, <1>2, <3>1, <3>2 DEF Swapping, CatalogTypes, SwapRecord, NoSwap
    <3>5. old.alone => (p \in Chosen(old.sel) <=> v = "yes")
      BY <2>2, <3>2 DEF Chosen
    <3>6. SwapInv(c)'
      BY <2>2, <3>1, <3>2, <3>3, <3>4, <3>5 DEF SwapInv
    <3>7. QED
      BY <1>2, <3>1, <3>2, <3>6, AssignKeepsInv
  <2>5. ASSUME SwapEnds(c) PROVE CatalogInv'
    <3>1. Chosen(old.sel) \subseteq Providers
      BY CatalogSelections DEF Chosen, SwapRecord
    <3>. PICK told \in SUBSET SUBSET Providers :
           told = IF old.alone THEN {Chosen(old.sel)} ELSE {}
      BY <3>1
    <3>2. old.drop = {} /\ old.add = {}
      BY <2>5 DEF SwapEnds
    <3>3. old.alone => Enabled(t) = Chosen(old.sel)
      BY <2>2, <3>2
    <3>4. /\ settled' = [settled EXCEPT ![t] = told]
          /\ swap' = [swap EXCEPT ![c] = NoSwap]
          /\ UNCHANGED <<status, enabled, member, providerEdit, onboard, emission,
                         off>>
      BY <2>5 DEF SwapEnds
    <3>5. told # {} => Swapping(t) = {c}
      BY <2>2
    <3>6. \A S \in told : Enabled(t) = S
      BY <3>3
    <3>7. QED
      BY <1>2, <3>4, <3>5, <3>6, LeavingKeepsInv
  <2>6. ASSUME SwapFails(c) PROVE CatalogInv'
    <3>1. settled[t] = {}
      BY <1>t, <2>2 DEF SettledInv
    <3>. PICK told \in SUBSET SUBSET Providers : told = {}
      OBVIOUS
    <3>2. settled' = [settled EXCEPT ![t] = told]
      BY <1>t, <2>6, <3>1 DEF SwapFails, CatalogTypes
    <3>3. /\ swap' = [swap EXCEPT ![c] = NoSwap]
          /\ UNCHANGED <<status, enabled, member, providerEdit, onboard, emission,
                         off>>
      BY <2>6 DEF SwapFails
    <3>4. QED
      BY <1>2, <3>2, <3>3, LeavingKeepsInv
  <2>7. QED
    BY <1>2, <2>3, <2>4, <2>5, <2>6
<1>3. swap[c].pc = "assign" => swap[c] # NoSwap
  BY DEF NoSwap
<1>4. /\ \A p \in Providers : SwapDrops(c, p) \/ SwapAdds(c, p) => swap[c] # NoSwap
      /\ SwapEnds(c) \/ SwapFails(c) => swap[c] # NoSwap
  BY <1>3 DEF SwapDrops, SwapAdds, SwapEnds, SwapFails
<1>5. QED
  BY <1>1, <1>2, <1>4 DEF SwapStep

-----------------------------------------------------------------------------
\* Every step keeps the invariant of the catalogue.
LEMMA CatalogInvHolds == CatalogSpec => []CatalogInv
<1>1. ASSUME CatalogInv, [CatalogNext]_catalogVars PROVE CatalogInv'
  <2>1. CASE UNCHANGED catalogVars
    BY <1>1, <2>1
       DEF catalogVars, CatalogInv, CatalogTypes, OffInv, Reviving, MemberInv,
           SettledInv, SwapInv, LeftOutIsNotCalled, Enabled, Swapping
  <2>2. CASE CatalogNext
    BY <1>1, <2>2, CatalogStepKeepsInv, EditStepKeepsInv, OnboardStepKeepsInv,
       SwapStepKeepsInv, EmissionStepKeepsInv DEF CatalogNext
  <2>3. QED
    BY <1>1, <2>1, <2>2
<1>2. QED
  BY <1>1, InitCatalogInv, PTL DEF CatalogSpec

\* A provider that was deactivated stays so until it is activated, whatever
\* edits that began later write back (UpdateCatalog without a status).
THEOREM OffStaysInactive == CatalogSpec => []OffIsInactive
<1>1. CatalogInv => OffIsInactive
  BY DEF CatalogInv, OffInv, OffIsInactive
<1>2. QED
  BY <1>1, CatalogInvHolds, PTL

\* Emit calls no provider that was off, or left out of its tenant's, when it
\* looked the provider up.
THEOREM LeftOutStaysUncalled == CatalogSpec => []LeftOutIsNotCalled
<1>1. CatalogInv => LeftOutIsNotCalled
  BY DEF CatalogInv
<1>2. QED
  BY <1>1, CatalogInvHolds, PTL

\* A replacement that was alone until it was answered leaves exactly what it
\* was sent, whatever earlier requests left halfway.
THEOREM ReplacementsAreExact == CatalogSpec => []ReplacementIsExact
<1>1. CatalogInv => ReplacementIsExact
  BY DEF CatalogInv, SettledInv, Enabled, ReplacementIsExact
<1>2. QED
  BY <1>1, CatalogInvHolds, PTL

-----------------------------------------------------------------------------
(* Compliance: a block that was answered is lifted only by a request that    *)
(* may lift it because whoever holds an older copy of the entry would write  *)
(* the same value back, active.                                             *)

\* BlockHolds, of one entry.
HoldInv(i) == kept[i] # {} => Active(i) /\ kept[i] = {Key(entry[i])}

\* What a call of Block or Unblock holds of the entry it read.
EditInv(c) == edit[c] # NoCall =>
    /\ entry[edit[c].id] # NoEntry
    /\ edit[c].copy.deleted = FALSE
    /\ edit[c].alone => Stored(edit[c].id) /\ Reading(edit[c].id) \subseteq {c}
    /\ kept[edit[c].id] # {} => /\ edit[c].act = "block"
                                /\ Key(edit[c].copy) = Key(entry[edit[c].id])

\* What an emission has made sure of, look-up by look-up.
CheckInv(c) == check[c] # NoCall =>
    /\ check[c].pc = "email" => check[c].payer.customer = Blank
    /\ \A i \in check[c].barred :
          /\ TenantOf[i] = check[c].tenant /\ kept[i] # {}
          /\ check[c].pc = "document" /\ check[c].payer.customer = Blank
                => <<"EMAIL", check[c].payer.email>> \notin kept[i]
          /\ check[c].pc \in {"clear", "issue"}
                => kept[i] \cap LookedUp(check[c].payer) = {}

ComplianceInv ==
    /\ ComplianceTypeOK
    /\ \A i \in Entries : HoldInv(i)
    /\ \A c \in Editors : EditInv(c)
    /\ \A c \in Issuers : CheckInv(c)

-----------------------------------------------------------------------------
\* A body that is accepted becomes an entry.
LEMMA NormalizedIsEntry ==
    ASSUME NEW body \in Body, Accepted(body)
    PROVE  Normalized(body) \in Entry /\ Normalized(body).deleted = FALSE
           /\ Normalized(body).active = body.active
<1>1. KindOf(body) \in Kinds
  BY DEF Accepted, KindOf, Body, Kinds
<1>2. NormalOf(body) \in Texts /\ NormalOf(body) \in Values \ {Blank}
  <2>1. ASSUME NEW t \in Texts \cup {Blank}
        PROVE  /\ Digits(t) \in Values /\ Digits(t) \in Texts \cup {Blank}
               /\ Address(t) \in Values /\ Address(t) \in Texts \cup {Blank}
    BY <2>1, ComplianceTexts DEF Digits, Address, Values
  <2>2. NormalOf(body) \in {Address(body.value), Digits(body.value),
                            Digits(body.document)}
    BY DEF NormalOf
  <2>3. body.value \in Texts \cup {Blank} /\ body.document \in Texts \cup {Blank}
    BY DEF Body
  <2>4. QED
    BY <2>1, <2>2, <2>3 DEF Accepted
<1>3. ShownOf(body) \in Texts /\ body.document \in Texts \cup {Blank}
  BY <1>2 DEF ShownOf, Body
<1>4. QED
  BY <1>1, <1>2, <1>3 DEF Normalized, Entry, Body

\* Whatever is promised of an entry, an emission is held to what it has found.
LEMMA ChecksSurvive ==
    ASSUME ComplianceTypeOK, \A c \in Issuers : CheckInv(c),
           NEW i \in Entries, NEW keys \in SUBSET (Kinds \X Values), Keeps(i, keys)
    PROVE  /\ kept' \in [Entries -> SUBSET (Kinds \X Values)]
           /\ kept'[i] = keys /\ \A j \in Entries \ {i} : kept'[j] = kept[j]
           /\ check' \in [Issuers -> {NoCall} \cup Check]
           /\ \A c \in Issuers : CheckInv(c)'
<1>1. /\ kept' \in [Entries -> SUBSET (Kinds \X Values)]
      /\ kept'[i] = keys /\ \A j \in Entries \ {i} : kept'[j] = kept[j]
  BY DEF Keeps, ComplianceTypeOK
<1>2. ASSUME NEW c \in Issuers
      PROVE  check'[c] \in {NoCall} \cup Check /\ CheckInv(c)'
  <2>1. check[c] \in {NoCall} \cup Check /\ CheckInv(c)
    BY DEF ComplianceTypeOK
  <2>2. CASE check[c] = NoCall \/ keys = kept[i]
    <3>1. check'[c] = check[c]
      BY <2>2 DEF Keeps
    <3>2. CASE check[c] = NoCall
      BY <2>1, <3>1, <3>2 DEF CheckInv
    <3>3. CASE keys = kept[i]
      <4>1. kept' = kept
        BY <3>3 DEF Keeps, ComplianceTypeOK
      <4>2. QED
        BY <2>1, <3>1, <4>1 DEF CheckInv, LookedUp
    <3>4. QED
      BY <2>2, <3>2, <3>3
  <2>3. CASE check[c] # NoCall /\ keys # kept[i]
    <3>1. check'[c] = [check[c] EXCEPT !.barred = @ \ {i}]
      BY <2>3 DEF Keeps
    <3>2. /\ check'[c] \in Check /\ check'[c].barred = check[c].barred \ {i}
          /\ check'[c].pc = check[c].pc /\ check'[c].payer = check[c].payer
          /\ check'[c].tenant = check[c].tenant
          /\ check[c].barred \subseteq Entries
      BY <2>1, <2>3, <3>1 DEF Check
    <3>3. ASSUME NEW j \in check'[c].barred
          PROVE  j \in check[c].barred /\ kept'[j] = kept[j]
      BY <1>1, <3>2
    <3>4. QED
      BY <2>1, <2>3, <3>2, <3>3 DEF CheckInv, LookedUp
  <2>4. QED
    BY <2>2, <2>3
<1>3. check' \in [Issuers -> {NoCall} \cup Check]
  BY <1>2 DEF Keeps
<1>4. QED
  BY <1>1, <1>2, <1>3

\* A call of Block or Unblock on another entry is not concerned.
LEMMA OthersUnconcerned ==
    ASSUME ComplianceTypeOK, \A c \in Editors : EditInv(c),
           NEW i \in Entries, NEW c \in Editors, edit[c] # NoCall,
           edit[c].id # i, edit'[c] = edit[c],
           \A j \in Entries \ {i} : entry'[j] = entry[j] /\ kept'[j] = kept[j],
           \A d \in Editors : edit'[d] # NoCall =>
               edit'[d].id = i \/ edit'[d] = edit[d]
    PROVE  EditInv(c)'
<1>. PICK j \in Entries \ {i} : j = edit[c].id
  BY DEF ComplianceTypeOK, Edit
<1>1. EditInv(c) /\ entry'[j] = entry[j] /\ kept'[j] = kept[j]
  OBVIOUS
<1>2. Reading(j)' \subseteq Reading(j)
  BY DEF Reading
<1>3. Stored(j)' = Stored(j)
  BY <1>1 DEF Stored
<1>4. QED
  BY <1>1, <1>2, <1>3 DEF EditInv

\* A step about entry i has to establish what is known of it and of the calls
\* that have read it.
LEMMA OneEntryMoves ==
    ASSUME ComplianceInv, NEW i \in Entries,
           NEW keys \in SUBSET (Kinds \X Values), Keeps(i, keys),
           entry' \in [Entries -> {NoEntry} \cup Entry],
           edit' \in [Editors -> {NoCall} \cup Edit],
           \A j \in Entries \ {i} : entry'[j] = entry[j],
           \A c \in Editors : edit'[c] # NoCall =>
               edit'[c].id = i \/ edit'[c] = edit[c],
           keys # {} => Active(i)' /\ keys = {Key(entry[i])'},
           \A c \in Editors :
               edit'[c] # NoCall /\ edit'[c].id = i => EditInv(c)'
    PROVE  ComplianceInv'
<1>1. /\ kept' \in [Entries -> SUBSET (Kinds \X Values)]
      /\ kept'[i] = keys /\ \A j \in Entries \ {i} : kept'[j] = kept[j]
      /\ check' \in [Issuers -> {NoCall} \cup Check]
      /\ \A c \in Issuers : CheckInv(c)'
  BY ChecksSurvive DEF ComplianceInv
<1>2. ComplianceTypeOK'
  BY <1>1 DEF ComplianceTypeOK
<1>3. ASSUME NEW j \in Entries PROVE HoldInv(j)'
  <2>1. CASE j = i
    BY <1>1, <2>1 DEF HoldInv
  <2>2. CASE j # i
    <3>1. HoldInv(j) /\ entry'[j] = entry[j] /\ kept'[j] = kept[j]
      BY <1>1, <2>2 DEF ComplianceInv
    <3>2. QED
      BY <3>1 DEF HoldInv, Active, Stored, Key
  <2>3. QED
    BY <2>1, <2>2
<1>4. ASSUME NEW c \in Editors PROVE EditInv(c)'
  <2>1. CASE edit'[c] = NoCall
    BY <2>1 DEF EditInv
  <2>2. CASE edit'[c] # NoCall /\ edit'[c].id = i
    BY <2>2
  <2>3. CASE edit'[c] # NoCall /\ edit'[c].id # i
    <3>1. edit'[c] = edit[c]
      BY <2>3
    <3>2. ComplianceTypeOK /\ \A d \in Editors : EditInv(d)
      BY DEF ComplianceInv
    <3>3. QED
      BY <1>1, <2>3, <3>1, <3>2, OthersUnconcerned
  <2>4. QED
    BY <2>1, <2>2, <2>3
<1>5. QED
  BY <1>1, <1>2, <1>3, <1>4 DEF ComplianceInv

LEMMA KeyOfEntry ==
    ASSUME NEW e \in Entry
    PROVE  {Key(e)} \in SUBSET (Kinds \X Values) /\ e # NoEntry
BY DEF Entry, Key, NoEntry

\* Every call that has read entry i knows from now on that it is not alone.
LEMMA ReadersAreDisturbed ==
    ASSUME ComplianceTypeOK, NEW i \in Entries
    PROVE  /\ Disturbed(i) \in [Editors -> {NoCall} \cup Edit]
           /\ \A c \in Editors :
                 /\ edit[c] = NoCall \/ edit[c].id # i => Disturbed(i)[c] = edit[c]
                 /\ edit[c] # NoCall /\ edit[c].id = i =>
                       /\ Disturbed(i)[c] # NoCall /\ ~ Disturbed(i)[c].alone
                       /\ Disturbed(i)[c].id = i
                       /\ Disturbed(i)[c].copy = edit[c].copy
                       /\ Disturbed(i)[c].act = edit[c].act
<1>1. ASSUME NEW d \in Editors, edit[d] # NoCall
      PROVE  [edit[d] EXCEPT !.alone = FALSE] \in Edit
             /\ [edit[d] EXCEPT !.alone = FALSE].alone = FALSE
             /\ [edit[d] EXCEPT !.alone = FALSE].id = edit[d].id
             /\ [edit[d] EXCEPT !.alone = FALSE].copy = edit[d].copy
             /\ [edit[d] EXCEPT !.alone = FALSE].act = edit[d].act
             /\ [edit[d] EXCEPT !.alone = FALSE] # NoCall
  <2>1. edit[d] \in Edit
    BY <1>1 DEF ComplianceTypeOK
  <2>2. [edit[d] EXCEPT !.alone = FALSE] \in Edit
    BY <2>1 DEF Edit
  <2>3. [edit[d] EXCEPT !.alone = FALSE] # NoCall
    BY <2>2 DEF Edit, NoCall
  <2>4. QED
    BY <2>1, <2>2, <2>3 DEF Edit
<1>2. QED
  BY <1>1 DEF Disturbed, Reading, ComplianceTypeOK

-----------------------------------------------------------------------------
\* No call has read an entry that does not exist yet.
LEMMA CreateKeepsInv ==
    ASSUME ComplianceInv, NEW i \in Entries, NEW body \in Body,
           CreateEntry(i, body)
    PROVE  ComplianceInv'
<1>. PICK e : e = [Normalized(body) EXCEPT !.active = TRUE]
  OBVIOUS
<1>1. /\ Accepted(body) /\ entry[i] = NoEntry /\ Write(i, e)
      /\ Keeps(i, {Key(e)}) /\ edit' = edit
  BY DEF CreateEntry
<1>2. e \in Entry /\ e.active /\ ~ e.deleted
  BY <1>1, NormalizedIsEntry DEF Entry
<1>3. /\ entry' \in [Entries -> {NoEntry} \cup Entry] /\ entry'[i] = e
      /\ \A j \in Entries \ {i} : entry'[j] = entry[j]
  BY <1>1, <1>2 DEF Write, ComplianceInv, ComplianceTypeOK
<1>4. e # NoEntry /\ {Key(e)} \in SUBSET (Kinds \X Values)
  BY <1>2, KeyOfEntry
<1>5. Active(i)' /\ Key(entry[i])' = Key(e)
  BY <1>2, <1>3, <1>4 DEF Active, Stored, Key
<1>6. \A c \in Editors : edit'[c] # NoCall => edit'[c].id # i
  BY <1>1 DEF ComplianceInv, EditInv
<1>7. edit' \in [Editors -> {NoCall} \cup Edit]
  BY <1>1 DEF ComplianceInv, ComplianceTypeOK
<1>8. QED
  BY <1>1, <1>3, <1>4, <1>5, <1>6, <1>7, OneEntryMoves

\* A whole-row write promises something only if no call has read the entry.
LEMMA UpdateKeepsInv ==
    ASSUME ComplianceInv, NEW i \in Entries, NEW body \in Body,
           UpdateEntry(i, body)
    PROVE  ComplianceInv'
<1>. PICK e, keys : /\ e = Normalized(body)
                    /\ keys = IF e.active /\ Reading(i) = {} THEN {Key(e)} ELSE {}
  OBVIOUS
<1>1. /\ Accepted(body) /\ Write(i, e) /\ Keeps(i, keys) /\ edit' = Disturbed(i)
  BY DEF UpdateEntry
<1>2. e \in Entry /\ ~ e.deleted
  BY <1>1, NormalizedIsEntry DEF Entry
<1>3. /\ entry' \in [Entries -> {NoEntry} \cup Entry] /\ entry'[i] = e
      /\ \A j \in Entries \ {i} : entry'[j] = entry[j]
  BY <1>1, <1>2 DEF Write, ComplianceInv, ComplianceTypeOK
<1>4. e # NoEntry /\ {Key(e)} \in SUBSET (Kinds \X Values)
      /\ keys \in SUBSET (Kinds \X Values)
  BY <1>2, KeyOfEntry
<1>5. keys # {} => Active(i)' /\ keys = {Key(entry[i])'}
  BY <1>2, <1>3, <1>4 DEF Active, Stored, Key
<1>6. ComplianceTypeOK /\ \A c \in Editors : EditInv(c)
  BY DEF ComplianceInv
<1>7. edit' \in [Editors -> {NoCall} \cup Edit]
      /\ \A c \in Editors : edit'[c] # NoCall => edit'[c].id = i \/ edit'[c] = edit[c]
  BY <1>1, <1>6, ReadersAreDisturbed
<1>8. kept'[i] = keys
  BY <1>1, <1>4, <1>6 DEF Keeps, ComplianceTypeOK
<1>9. ASSUME NEW c \in Editors, edit'[c] # NoCall, edit'[c].id = i
      PROVE  EditInv(c)'
  <2>1. edit[c] # NoCall /\ edit[c].id = i
    BY <1>1, <1>6, <1>9, ReadersAreDisturbed
  <2>2. ~ edit'[c].alone /\ edit'[c].copy = edit[c].copy
    BY <1>1, <1>6, <2>1, ReadersAreDisturbed
  <2>3. keys = {}
    BY <2>1 DEF Reading
  <2>4. QED
    BY <1>3, <1>4, <1>6, <1>8, <1>9, <2>1, <2>2, <2>3 DEF EditInv
<1>10. QED
  BY <1>1, <1>3, <1>4, <1>5, <1>7, <1>9, OneEntryMoves

LEMMA DeleteKeepsInv ==
    ASSUME ComplianceInv, NEW i \in Entries, DeleteEntry(i)
    PROVE  ComplianceInv'
<1>. PICK e : e = [entry[i] EXCEPT !.active = FALSE, !.deleted = TRUE]
  OBVIOUS
<1>1. Stored(i) /\ Write(i, e) /\ Keeps(i, {}) /\ edit' = Disturbed(i)
  BY DEF DeleteEntry
<1>2. e \in Entry /\ e # NoEntry
  <2>1. entry[i] \in Entry
    BY <1>1 DEF Stored, ComplianceInv, ComplianceTypeOK
  <2>2. e \in Entry
    BY <2>1 DEF Entry
  <2>3. QED
    BY <2>2, KeyOfEntry
<1>3. /\ entry' \in [Entries -> {NoEntry} \cup Entry] /\ entry'[i] = e
      /\ \A j \in Entries \ {i} : entry'[j] = entry[j]
  BY <1>1, <1>2 DEF Write, ComplianceInv, ComplianceTypeOK
<1>4. ComplianceTypeOK /\ \A c \in Editors : EditInv(c)
  BY DEF ComplianceInv
<1>5. edit' \in [Editors -> {NoCall} \cup Edit]
      /\ \A c \in Editors : edit'[c] # NoCall => edit'[c].id = i \/ edit'[c] = edit[c]
  BY <1>1, <1>4, ReadersAreDisturbed
<1>6. kept'[i] = {}
  BY <1>1, <1>4 DEF Keeps, ComplianceTypeOK
<1>7. ASSUME NEW c \in Editors, edit'[c] # NoCall, edit'[c].id = i
      PROVE  EditInv(c)'
  <2>1. edit[c] # NoCall /\ edit[c].id = i
    BY <1>1, <1>4, <1>7, ReadersAreDisturbed
  <2>2. ~ edit'[c].alone /\ edit'[c].copy = edit[c].copy
    BY <1>1, <1>4, <2>1, ReadersAreDisturbed
  <2>3. QED
    BY <1>2, <1>3, <1>4, <1>6, <1>7, <2>1, <2>2 DEF EditInv
<1>8. QED
  BY <1>1, <1>3, <1>5, <1>7, OneEntryMoves

\* A call that reads an entry is alone only if nobody else has read it, and
\* nobody is alone after that.
LEMMA ReadKeepsInv ==
    ASSUME ComplianceInv, NEW c \in Editors, NEW i \in Entries,
           NEW act \in {"block", "unblock"}, EditRead(c, i, act)
    PROVE  ComplianceInv'
<1>. PICK e, keys, call :
       /\ e = entry[i]
       /\ keys = IF act = "unblock" THEN {} ELSE kept[i]
       /\ call = [pc |-> "write", act |-> act, id |-> i, copy |-> e,
                  alone |-> Reading(i) = {}]
  OBVIOUS
<1>1. /\ edit[c] = NoCall /\ Stored(i) /\ Keeps(i, keys) /\ entry' = entry
      /\ edit' = [Disturbed(i) EXCEPT ![c] = call]
  BY DEF EditRead
<1>2. ComplianceTypeOK /\ HoldInv(i) /\ \A d \in Editors : EditInv(d)
  BY DEF ComplianceInv
<1>3. e \in Entry /\ ~ e.deleted /\ e # NoEntry /\ e.deleted = FALSE
  BY <1>1, <1>2 DEF Stored, ComplianceTypeOK, Entry
<1>4. call \in Edit /\ call # NoCall
  <2>1. call \in Edit
    BY <1>3 DEF Edit
  <2>2. QED
    BY <2>1 DEF Edit, NoCall
<1>5. /\ edit' \in [Editors -> {NoCall} \cup Edit] /\ edit'[c] = call
      /\ \A d \in Editors \ {c} : edit'[d] = Disturbed(i)[d]
  BY <1>1, <1>2, <1>4, ReadersAreDisturbed
<1>6. \A d \in Editors : edit'[d] # NoCall => edit'[d].id = i \/ edit'[d] = edit[d]
  BY <1>2, <1>5, ReadersAreDisturbed
<1>7. kept'[i] = keys /\ keys \in SUBSET (Kinds \X Values)
  BY <1>1, <1>2 DEF Keeps, ComplianceTypeOK
<1>8. keys # {} => Active(i)' /\ keys = {Key(entry[i])'}
  BY <1>1, <1>2 DEF HoldInv, Active, Stored, Key
<1>9. ASSUME NEW d \in Editors, edit'[d] # NoCall, edit'[d].id = i
      PROVE  EditInv(d)'
  <2>1. CASE d = c
    <3>1. /\ edit'[d].copy = e /\ edit'[d].act = act
          /\ edit'[d].alone = (Reading(i) = {})
      BY <1>5, <2>1
    <3>2. Reading(i) = {} => Reading(i)' \subseteq {c}
      <4>1. ASSUME NEW k \in Editors \ {c}, edit'[k] # NoCall, edit'[k].id = i
            PROVE  edit[k] # NoCall /\ edit[k].id = i
        BY <1>2, <1>5, <4>1, ReadersAreDisturbed
      <4>2. QED
        BY <4>1 DEF Reading
    <3>3. Stored(i)'
      BY <1>1 DEF Stored
    <3>4. QED
      BY <1>1, <1>3, <1>7, <1>9, <2>1, <3>1, <3>2, <3>3 DEF EditInv
  <2>2. CASE d # c
    <3>1. edit[d] # NoCall /\ edit[d].id = i
      BY <1>2, <1>5, <1>9, <2>2, ReadersAreDisturbed
    <3>2. /\ ~ edit'[d].alone /\ edit'[d].copy = edit[d].copy
          /\ edit'[d].act = edit[d].act
      BY <1>2, <1>5, <2>2, <3>1, ReadersAreDisturbed
    <3>3. keys # {} => keys = kept[i]
      OBVIOUS
    <3>4. QED
      BY <1>1, <1>2, <1>7, <1>9, <3>1, <3>2, <3>3 DEF EditInv
  <2>3. QED
    BY <2>1, <2>2
<1>10. QED
  BY <1>1, <1>2, <1>5, <1>6, <1>7, <1>8, <1>9, OneEntryMoves DEF ComplianceTypeOK

\* The copy that is written back says of the entry what is promised of it.
LEMMA WriteKeepsInv ==
    ASSUME ComplianceInv, NEW c \in Editors, EditWrite(c)
    PROVE  ComplianceInv'
<1>1. ComplianceTypeOK /\ (\A i \in Entries : HoldInv(i)) /\ \A d \in Editors : EditInv(d)
  BY DEF ComplianceInv
<1>2. edit[c] # NoCall /\ edit[c] \in Edit
  <2>1. edit[c] # NoCall
    BY DEF EditWrite, NoCall
  <2>2. QED
    BY <1>1, <2>1 DEF ComplianceTypeOK
<1>. PICK i, act, copy :
       /\ i \in Entries /\ act \in {"block", "unblock"} /\ copy \in Entry
       /\ i = edit[c].id /\ act = edit[c].act /\ copy = edit[c].copy
  BY <1>2 DEF Edit
<1>. PICK e : e = [copy EXCEPT !.active = act = "block"]
  OBVIOUS
<1>. PICK keys : keys = IF act = "unblock" THEN {}
                        ELSE IF edit[c].alone THEN {Key(e)} ELSE kept[i]
  OBVIOUS
<1>3. /\ e \in Entry /\ Key(e) = Key(copy) /\ e.active = (act = "block")
      /\ e.deleted = FALSE /\ e # NoEntry /\ {Key(e)} \in SUBSET (Kinds \X Values)
  <2>1. /\ e \in Entry /\ Key(e) = Key(copy) /\ e.active = (act = "block")
        /\ e.deleted = copy.deleted
    BY DEF Entry, Key
  <2>2. copy.deleted = FALSE
    BY <1>1, <1>2 DEF EditInv
  <2>3. QED
    BY <2>1, <2>2, KeyOfEntry
<1>4. /\ \/ Stored(i) /\ Write(i, e)
         \/ ~ Stored(i) /\ UNCHANGED entry
      /\ Keeps(i, keys)
      /\ edit' = [edit EXCEPT ![c] = NoCall]
  BY DEF EditWrite
<1>5. /\ edit' \in [Editors -> {NoCall} \cup Edit] /\ edit'[c] = NoCall
      /\ \A d \in Editors \ {c} : edit'[d] = edit[d]
  BY <1>1, <1>4 DEF ComplianceTypeOK
<1>6. /\ entry' \in [Entries -> {NoEntry} \cup Entry]
      /\ \A j \in Entries \ {i} : entry'[j] = entry[j]
      /\ Stored(i) => entry'[i] = e
      /\ ~ Stored(i) => entry'[i] = entry[i]
  BY <1>1, <1>3, <1>4 DEF Write, ComplianceTypeOK
<1>7. keys \in SUBSET (Kinds \X Values)
  BY <1>1, <1>3 DEF ComplianceTypeOK
<1>8. kept'[i] = keys
  BY <1>1, <1>4, <1>7 DEF Keeps, ComplianceTypeOK
<1>9. keys # {} => /\ Stored(i) /\ act = "block" /\ keys = {Key(e)}
                   /\ ~ edit[c].alone => keys = kept[i]
  <2>1. SUFFICES ASSUME keys # {}
                 PROVE  /\ Stored(i) /\ act = "block" /\ keys = {Key(e)}
                        /\ ~ edit[c].alone => keys = kept[i]
    OBVIOUS
  <2>2. CASE edit[c].alone
    BY <1>1, <1>2, <2>1, <2>2 DEF EditInv
  <2>3. CASE ~ edit[c].alone
    <3>1. keys = kept[i] /\ act = "block"
      BY <2>1, <2>3
    <3>2. Active(i) /\ kept[i] = {Key(entry[i])} /\ Key(copy) = Key(entry[i])
      BY <1>1, <1>2, <2>1, <3>1 DEF HoldInv, EditInv
    <3>3. QED
      BY <1>3, <3>1, <3>2 DEF Active
  <2>4. QED
    BY <2>2, <2>3
<1>10. keys # {} => Active(i)' /\ keys = {Key(entry[i])'}
  BY <1>3, <1>6, <1>9 DEF Active, Stored, Key
<1>11. ASSUME NEW d \in Editors, edit'[d] # NoCall, edit'[d].id = i
       PROVE  EditInv(d)'
  <2>1. d # c /\ edit'[d] = edit[d] /\ EditInv(d) /\ EditInv(c)
    BY <1>1, <1>5, <1>11
  <2>2. {c, d} \subseteq Reading(i)
    BY <1>2, <1>11, <2>1 DEF Reading
  <2>3. ~ edit[d].alone /\ ~ edit[c].alone
    BY <1>2, <1>11, <2>1, <2>2 DEF EditInv
  <2>4. entry'[i] # NoEntry
    BY <1>3, <1>6, <1>11, <2>1 DEF EditInv
  <2>5. keys # {} => /\ edit[d].act = "block" /\ Key(edit[d].copy) = Key(entry[i])
                     /\ Key(entry[i]) = Key(entry'[i])
    <3>1. SUFFICES ASSUME keys # {}
                   PROVE  /\ edit[d].act = "block"
                          /\ Key(edit[d].copy) = Key(entry[i])
                          /\ Key(entry[i]) = Key(entry'[i])
      OBVIOUS
    <3>2. keys = kept[i] /\ entry'[i] = e
      BY <1>6, <1>9, <2>3, <3>1
    <3>3. Key(copy) = Key(entry[i])
      BY <1>2, <2>1, <3>1, <3>2 DEF EditInv
    <3>4. QED
      BY <1>3, <1>11, <2>1, <3>1, <3>2, <3>3 DEF EditInv
  <2>6. QED
    BY <1>8, <1>11, <2>1, <2>3, <2>4, <2>5 DEF EditInv, Key
<1>12. \A d \in Editors : edit'[d] # NoCall => edit'[d].id = i \/ edit'[d] = edit[d]
  BY <1>5
<1>13. QED
  BY <1>1, <1>4, <1>5, <1>6, <1>7, <1>10, <1>11, <1>12, OneEntryMoves
     DEF ComplianceInv

\* A call of Block or Unblock that dies leaves the entry and its readers alone.
LEMMA FailKeepsInv ==
    ASSUME ComplianceInv, NEW c \in Editors, EditFails(c)
    PROVE  ComplianceInv'
<1>1. /\ edit' \in [Editors -> {NoCall} \cup Edit] /\ edit'[c] = NoCall
      /\ \A d \in Editors \ {c} : edit'[d] = edit[d]
      /\ UNCHANGED <<entry, check, kept>>
  BY DEF EditFails, ComplianceInv, ComplianceTypeOK
<1>2. ASSUME NEW d \in Editors PROVE EditInv(d)'
  <2>1. CASE d = c
    BY <1>1, <2>1 DEF EditInv
  <2>2. CASE d # c
    <3>1. EditInv(d) /\ edit'[d] = edit[d]
      BY <1>1, <2>2 DEF ComplianceInv
    <3>2. \A i : Reading(i)' \subseteq Reading(i)
      BY <1>1 DEF Reading
    <3>3. \A i : Stored(i)' = Stored(i)
      BY <1>1 DEF Stored
    <3>4. QED
      BY <1>1, <3>1, <3>2, <3>3 DEF EditInv, Key
  <2>3. QED
    BY <2>1, <2>2
<1>3. (\A i \in Entries : HoldInv(i)') /\ \A d \in Issuers : CheckInv(d)'
  BY <1>1 DEF ComplianceInv, HoldInv, Active, Stored, Key, CheckInv, LookedUp
<1>4. QED
  BY <1>1, <1>2, <1>3 DEF ComplianceInv, ComplianceTypeOK

-----------------------------------------------------------------------------
\* Emissions read the list only.
LEMMA OnlyCheckMoves ==
    ASSUME ComplianceInv, NEW c \in Issuers, NEW w \in {NoCall} \cup Check,
           check' = [check EXCEPT ![c] = w], UNCHANGED <<entry, edit, kept>>,
           CheckInv(c)'
    PROVE  ComplianceInv'
<1>1. ComplianceTypeOK'
  BY DEF ComplianceInv, ComplianceTypeOK
<1>2. (\A i \in Entries : HoldInv(i)') /\ \A d \in Editors : EditInv(d)'
  BY DEF ComplianceInv, HoldInv, EditInv, Active, Stored, Key, Reading
<1>3. ASSUME NEW d \in Issuers PROVE CheckInv(d)'
  <2>1. CASE d = c
    BY <2>1
  <2>2. CASE d # c
    <3>1. CheckInv(d) /\ check'[d] = check[d]
      BY <2>2 DEF ComplianceInv, ComplianceTypeOK
    <3>2. QED
      BY <3>1 DEF CheckInv, LookedUp
  <2>3. QED
    BY <2>1, <2>2
<1>4. QED
  BY <1>1, <1>2, <1>3 DEF ComplianceInv

\* What a look-up does not find is not promised by any entry of the tenant, and
\* no entry promises the empty value.
LEMMA NotFoundIsNotKept ==
    ASSUME ComplianceInv, NEW i \in Entries, NEW k, NEW x,
           ~ Blocked(TenantOf[i], <<k, x>>) \/ x = Blank
    PROVE  <<k, x>> \notin kept[i]
<1>1. SUFFICES ASSUME kept[i] # {}
               PROVE  <<k, x>> \notin kept[i]
  OBVIOUS
<1>2. Active(i) /\ kept[i] = {Key(entry[i])}
  BY <1>1 DEF ComplianceInv, HoldInv
<1>3. entry[i] \in Entry
  BY <1>2 DEF Active, Stored, ComplianceInv, ComplianceTypeOK
<1>4. CASE x = Blank
  BY <1>2, <1>3, <1>4 DEF Key, Entry
<1>5. CASE ~ Blocked(TenantOf[i], <<k, x>>)
  BY <1>2, <1>5 DEF Blocked
<1>6. QED
  BY <1>4, <1>5

LEMMA BeginKeepsInv ==
    ASSUME ComplianceInv, NEW c \in Issuers, NEW t \in Tenants, NEW p \in Payers,
           EmitBegins(c, t, p)
    PROVE  ComplianceInv'
<1>. PICK w : w = [pc |-> IF p.customer = Blank /\ p.email # Blank
                          THEN "email" ELSE "document",
                   tenant |-> t, payer |-> p,
                   barred |-> {i \in Entries : TenantOf[i] = t /\ kept[i] # {}}]
  OBVIOUS
<1>1. check' = [check EXCEPT ![c] = w] /\ UNCHANGED <<entry, edit, kept>>
  BY DEF EmitBegins
<1>2. w \in Check
  BY DEF Check
<1>3. check'[c] = w
  BY <1>1 DEF ComplianceInv, ComplianceTypeOK
<1>4. \A i \in w.barred : p.email = Blank => <<"EMAIL", p.email>> \notin kept[i]
  BY NotFoundIsNotKept
<1>5. CheckInv(c)'
  BY <1>1, <1>3, <1>4 DEF CheckInv
<1>6. QED
  BY <1>1, <1>2, <1>5, OnlyCheckMoves

\* A call that goes on has found nothing, so that it may be held to that.
LEMMA CheckAtKeepsInv ==
    ASSUME ComplianceInv, NEW c \in Issuers,
           NEW pc \in {"document", "clear", "issue"}, check[c] # NoCall,
           CheckAt(c, pc), UNCHANGED <<entry, edit, kept>>,
           \A i \in check[c].barred :
               /\ pc = "document" /\ check[c].payer.customer = Blank
                     => <<"EMAIL", check[c].payer.email>> \notin kept[i]
               /\ pc # "document"
                     => kept[i] \cap LookedUp(check[c].payer) = {}
    PROVE  ComplianceInv'
<1>. PICK w : w = [check[c] EXCEPT !.pc = pc]
  OBVIOUS
<1>1. /\ w \in Check /\ w.pc = pc /\ w.tenant = check[c].tenant
      /\ w.payer = check[c].payer /\ w.barred = check[c].barred
  BY DEF ComplianceInv, ComplianceTypeOK, Check
<1>2. check' = [check EXCEPT ![c] = w] /\ check'[c] = w
  BY DEF CheckAt, ComplianceInv, ComplianceTypeOK
<1>3. CheckInv(c)
  BY DEF ComplianceInv
<1>4. CheckInv(c)'
  BY <1>1, <1>2, <1>3 DEF CheckInv, LookedUp
<1>5. QED
  BY <1>1, <1>2, <1>4, OnlyCheckMoves

LEMMA CheckKeepsInv ==
    ASSUME ComplianceInv, NEW c \in Issuers,
           CheckEmail(c) \/ CheckDocument(c) \/ CallProvider(c)
    PROVE  ComplianceInv'
<1>. PICK p : p = check[c].payer
  OBVIOUS
<1>1. check[c] # NoCall /\ CheckInv(c) /\ UNCHANGED <<entry, edit, kept>>
  BY DEF CheckEmail, CheckDocument, CallProvider, NoCall, ComplianceInv
<1>2. \A i \in check[c].barred : i \in Entries /\ TenantOf[i] = check[c].tenant
  BY <1>1 DEF CheckInv, ComplianceInv, ComplianceTypeOK, Check
<1>3. CASE CheckEmail(c)
  <2>1. \A i \in check[c].barred : <<"EMAIL", p.email>> \notin kept[i]
    BY <1>2, <1>3, NotFoundIsNotKept DEF CheckEmail
  <2>2. CASE p.document # Blank
    BY <1>1, <1>3, <2>1, <2>2, CheckAtKeepsInv DEF CheckEmail
  <2>3. CASE p.document = Blank
    <3>1. \A i \in check[c].barred : <<"DOCUMENT", p.document>> \notin kept[i]
      BY <1>2, <2>3, NotFoundIsNotKept
    <3>2. LookedUp(p) = {<<"EMAIL", p.email>>, <<"DOCUMENT", p.document>>}
      BY <1>1, <1>3 DEF CheckInv, CheckEmail, LookedUp
    <3>3. CheckAt(c, "clear")
      BY <1>3, <2>3 DEF CheckEmail
    <3>4. QED
      BY <1>1, <2>1, <3>1, <3>2, <3>3, CheckAtKeepsInv
  <2>4. QED
    BY <2>2, <2>3
<1>4. CASE CheckDocument(c)
  <2>1. \A i \in check[c].barred : <<"DOCUMENT", Looked(p)>> \notin kept[i]
    BY <1>2, <1>4, NotFoundIsNotKept DEF CheckDocument
  <2>2. \A i \in check[c].barred :
          p.customer = Blank => <<"EMAIL", p.email>> \notin kept[i]
    BY <1>1, <1>4 DEF CheckInv, CheckDocument
  <2>3. \A i \in check[c].barred : kept[i] \cap LookedUp(p) = {}
    BY <2>1, <2>2 DEF LookedUp, Looked
  <2>4. CheckAt(c, "clear")
    BY <1>4 DEF CheckDocument
  <2>5. QED
    BY <1>1, <2>3, <2>4, CheckAtKeepsInv
<1>5. CASE CallProvider(c)
  <2>1. \A i \in check[c].barred : kept[i] \cap LookedUp(p) = {}
    BY <1>1, <1>5 DEF CheckInv, CallProvider
  <2>2. CheckAt(c, "issue")
    BY <1>5 DEF CallProvider
  <2>3. QED
    BY <1>1, <2>1, <2>2, CheckAtKeepsInv
<1>6. QED
  BY <1>3, <1>4, <1>5

\* Every step keeps the invariant of the blacklist.
LEMMA ComplianceInvHolds == ComplianceSpec => []ComplianceInv
<1>1. ComplianceInit => ComplianceInv
  BY DEF ComplianceInit, ComplianceInv, ComplianceTypeOK, HoldInv, EditInv,
     CheckInv
<1>2. ComplianceInv /\ [ComplianceNext]_complianceVars => ComplianceInv'
  <2> SUFFICES ASSUME ComplianceInv, [ComplianceNext]_complianceVars
               PROVE  ComplianceInv'
    OBVIOUS
  <2>1. ASSUME NEW i \in Entries, EntryStep(i)
        PROVE  ComplianceInv'
    <3>1. \A body \in Bodies : body \in Body
      BY ComplianceInputs
    <3>2. Stored(i) => \A body \in AsShown(i) : body \in Body
      <4>1. Stored(i) => entry[i] \in Entry
        BY DEF Stored, ComplianceInv, ComplianceTypeOK
      <4>2. QED
        BY <4>1 DEF AsShown, Entry, Body
    <3>3. QED
      BY <2>1, <3>1, <3>2, CreateKeepsInv, UpdateKeepsInv, DeleteKeepsInv
         DEF EntryStep
  <2>2. ASSUME NEW c \in Editors, EditStep(c)
        PROVE  ComplianceInv'
    BY <2>2, ReadKeepsInv, WriteKeepsInv, FailKeepsInv DEF EditStep
  <2>3. ASSUME NEW c \in Issuers, EmitCheckStep(c)
        PROVE  ComplianceInv'
    <3>1. CASE EmitBlocked(c) \/ EmitEnds(c)
      <4>1. check' = [check EXCEPT ![c] = NoCall] /\ UNCHANGED <<entry, edit, kept>>
        BY <3>1 DEF EmitBlocked, EmitEnds
      <4>2. CheckInv(c)'
        BY <4>1 DEF CheckInv, ComplianceInv, ComplianceTypeOK
      <4>3. QED
        BY <4>1, <4>2, OnlyCheckMoves
    <3>2. CASE CheckEmail(c) \/ CheckDocument(c) \/ CallProvider(c)
      BY <3>2, CheckKeepsInv
    <3>3. QED
      BY <2>3, <3>1, <3>2, BeginKeepsInv DEF EmitCheckStep
  <2>4. CASE UNCHANGED complianceVars
    BY <2>4 DEF complianceVars, ComplianceInv, ComplianceTypeOK, HoldInv, EditInv,
       CheckInv, Active, Stored, Key, Reading, LookedUp
  <2>5. QED
    BY <2>1, <2>2, <2>3, <2>4 DEF ComplianceNext
<1>3. QED
  BY <1>1, <1>2, PTL DEF ComplianceSpec

\* The variables of Compliance keep their types: normalisation stores no entry
\* without a value.
THEOREM ComplianceTypeCorrect == ComplianceSpec => []ComplianceTypeOK
<1>1. ComplianceInv => ComplianceTypeOK
  BY DEF ComplianceInv
<1>2. QED
  BY <1>1, ComplianceInvHolds, PTL

\* A block that was answered stays in force until a request that may lift it
\* arrives, however many whole-row writes with old copies are under way.
THEOREM BlocksHold == ComplianceSpec => []BlockHolds
<1>1. ComplianceInv => BlockHolds
  BY DEF ComplianceInv, HoldInv, BlockHolds
<1>2. QED
  BY <1>1, ComplianceInvHolds, PTL

\* No boleto is handed to the provider if a value of its payer that Emit looks
\* up was blocked before the call and has stayed so.
THEOREM KeptIsAlwaysRefused == ComplianceSpec => []KeptIsRefused
<1>1. ComplianceInv => KeptIsRefused
  BY DEF ComplianceInv, CheckInv, KeptIsRefused
<1>2. QED
  BY <1>1, ComplianceInvHolds, PTL

-----------------------------------------------------------------------------
(* References: what makes an order unique is not the index alone: a key     *)
(* that a tenant sent has to stay the row's key through everything that     *)
(* Moncalieri answers and the calls write back.                             *)

\* What r may be if it is row b as ordered: only the mock replaces a key.
AsOrdered(b, r) ==
    /\ r.tenant = order[b].tenant /\ r.provider = order[b].provider
    /\ order[b].key # NoKey => \/ r.key = order[b].key
                               \/ r.provider = "mock" /\ r.key \in Titles

\* A row is its order's, whatever has been written over it.
RowInv(b) ==
    /\ ref[b] = NoRef <=> order[b] = NoRef
    /\ ref[b] # NoRef => AsOrdered(b, ref[b])

\* So is every copy that may still be written back.
WriterInv(c) == writer[c] # NoWriter =>
    /\ ref[writer[c].id] # NoRef
    /\ AsOrdered(writer[c].id, writer[c].copy)

\* idx_boletos_tenant_external_id_unique
KeysDiffer ==
    \A b \in Rows, d \in Rows :
        /\ b # d /\ ref[b] # NoRef /\ ref[d] # NoRef
        /\ ref[b].tenant = ref[d].tenant /\ ref[b].key # NoKey
        => ref[b].key # ref[d].key

ReferencesInv ==
    /\ ReferencesTypeOK
    /\ \A b \in Rows : RowInv(b)
    /\ \A c \in Writers : WriterInv(c)
    /\ KeysDiffer

-----------------------------------------------------------------------------
\* A call under way has all its fields.
LEMMA WriterUnderWay ==
    ASSUME ReferencesTypeOK, NEW c \in Writers, writer[c].pc # "idle"
    PROVE  writer[c] # NoWriter /\ writer[c] \in Writer
<1>1. writer[c] # NoWriter
  BY DEF NoWriter
<1>2. QED
  BY <1>1 DEF ReferencesTypeOK

\* A call that takes a copy which is the order's writes no row.
LEMMA OnlyWriterMoves ==
    ASSUME ReferencesInv, NEW c \in Writers, NEW w \in {NoWriter} \cup Writer,
           writer' = [writer EXCEPT ![c] = w],
           UNCHANGED <<ref, order, intake>>,
           title' \in [Titles -> {NoTitle} \cup Title],
           WriterInv(c)'
    PROVE  ReferencesInv'
<1>1. ReferencesTypeOK'
  BY DEF ReferencesInv, ReferencesTypeOK
<1>2. ASSUME NEW d \in Writers PROVE WriterInv(d)'
  <2>1. CASE d = c
    BY <2>1
  <2>2. CASE d # c
    <3>1. WriterInv(d) /\ writer'[d] = writer[d]
      BY <2>2 DEF ReferencesInv, ReferencesTypeOK
    <3>2. QED
      BY <3>1 DEF WriterInv, AsOrdered
  <2>3. QED
    BY <2>1, <2>2
<1>3. (\A b \in Rows : RowInv(b)') /\ KeysDiffer'
  BY DEF ReferencesInv, RowInv, AsOrdered, KeysDiffer
<1>4. QED
  BY <1>1, <1>2, <1>3 DEF ReferencesInv

\* A write that clashes with nothing and is the order's keeps the rows apart.
LEMMA RowsStayApart ==
    ASSUME ReferencesInv, NEW b \in Rows, NEW r \in Ref,
           ~ Clashes(b, r), ref' = [ref EXCEPT ![b] = r],
           order' \in [Rows -> {NoRef} \cup Order],
           order'[b] # NoRef, AsOrdered(b, r)',
           \A d \in Rows \ {b} : order'[d] = order[d]
    PROVE  /\ ref' \in [Rows -> {NoRef} \cup Ref]
           /\ \A d \in Rows : RowInv(d)'
           /\ KeysDiffer'
<1>1. /\ ref' \in [Rows -> {NoRef} \cup Ref]
      /\ ref'[b] = r /\ \A d \in Rows \ {b} : ref'[d] = ref[d]
  BY DEF ReferencesInv, ReferencesTypeOK
<1>2. r # NoRef
  BY DEF Ref, RefOf, NoRef
<1>3. ASSUME NEW d \in Rows PROVE RowInv(d)'
  <2>1. CASE d = b
    BY <1>1, <1>2, <2>1 DEF RowInv, AsOrdered
  <2>2. CASE d # b
    <3>1. RowInv(d) /\ ref'[d] = ref[d] /\ order'[d] = order[d]
      BY <1>1, <2>2 DEF ReferencesInv
    <3>2. QED
      BY <3>1 DEF RowInv, AsOrdered
  <2>3. QED
    BY <2>1, <2>2
<1>4. KeysDiffer'
  <2>1. ASSUME NEW d \in Rows \ {b}, ref[d] # NoRef, ref[d].tenant = r.tenant,
               r.key # NoKey
        PROVE  ref[d].key # r.key
    BY <2>1 DEF Clashes, Others
  <2>2. SUFFICES ASSUME NEW d \in Rows, NEW e \in Rows, d # e,
                        ref'[d] # NoRef, ref'[e] # NoRef,
                        ref'[d].tenant = ref'[e].tenant, ref'[d].key # NoKey
                 PROVE  ref'[d].key # ref'[e].key
    BY DEF KeysDiffer
  <2>3. CASE d = b
    BY <1>1, <2>1, <2>2, <2>3
  <2>4. CASE e = b
    BY <1>1, <2>1, <2>2, <2>4
  <2>5. CASE d # b /\ e # b
    BY <1>1, <2>2, <2>5 DEF ReferencesInv, KeysDiffer
  <2>6. QED
    BY <2>3, <2>4, <2>5
<1>5. QED
  BY <1>1, <1>3, <1>4

\* A copy is written back to the row it was read from.
LEMMA WriteBack ==
    ASSUME ReferencesInv, NEW c \in Writers, writer[c] # NoWriter, UpdateRow(c),
           UNCHANGED <<order, intake, title>>,
           NEW w \in {NoWriter} \cup Writer, writer' = [writer EXCEPT ![c] = w],
           w # NoWriter => w.id = writer[c].id /\ w.copy = writer[c].copy
    PROVE  ReferencesInv'
<1>. PICK b \in Rows, r \in Ref : b = writer[c].id /\ r = writer[c].copy
  BY DEF ReferencesInv, ReferencesTypeOK, Writer
<1>1. ref[b] # NoRef /\ AsOrdered(b, r) /\ order[b] # NoRef
  BY DEF ReferencesInv, WriterInv, RowInv
<1>2. ~ Clashes(b, r) /\ ref' = [ref EXCEPT ![b] = r]
  BY DEF UpdateRow
<1>3. /\ ref' \in [Rows -> {NoRef} \cup Ref]
      /\ \A d \in Rows : RowInv(d)'
      /\ KeysDiffer'
  <2>1. order' \in [Rows -> {NoRef} \cup Order] /\ order' = order
    BY DEF ReferencesInv, ReferencesTypeOK
  <2>2. AsOrdered(b, r)'
    BY <1>1, <2>1 DEF AsOrdered
  <2>3. QED
    BY <1>1, <1>2, <2>1, <2>2, RowsStayApart
<1>4. ReferencesTypeOK'
  BY <1>3 DEF ReferencesInv, ReferencesTypeOK
<1>5. \A d \in Rows : ref[d] # NoRef => ref'[d] # NoRef
  <2>1. r # NoRef
    BY DEF Ref, RefOf, NoRef
  <2>2. QED
    BY <1>2, <2>1 DEF ReferencesInv, ReferencesTypeOK
<1>6. ASSUME NEW d \in Writers PROVE WriterInv(d)'
  <2>1. CASE d = c
    <3>1. writer'[c] = w
      BY DEF ReferencesInv, ReferencesTypeOK
    <3>2. w # NoWriter => w.id = b /\ w.copy = r
      OBVIOUS
    <3>3. QED
      BY <1>1, <1>5, <2>1, <3>1, <3>2 DEF WriterInv, AsOrdered
  <2>2. CASE d # c
    <3>1. WriterInv(d) /\ writer'[d] = writer[d]
      BY <2>2 DEF ReferencesInv, ReferencesTypeOK
    <3>2. writer[d] # NoWriter => writer[d].id \in Rows
      BY DEF ReferencesInv, ReferencesTypeOK, Writer
    <3>3. QED
      BY <1>5, <3>1, <3>2 DEF WriterInv, AsOrdered
  <2>3. QED
    BY <2>1, <2>2
<1>7. QED
  BY <1>3, <1>4, <1>6 DEF ReferencesInv

\* Every step keeps the invariant of the references.
LEMMA ReferencesInvHolds == ReferencesSpec => []ReferencesInv
<1>1. ReferencesInit => ReferencesInv
  BY DEF ReferencesInit, ReferencesInv, ReferencesTypeOK, RowInv, WriterInv,
     AsOrdered, KeysDiffer
<1>2. ReferencesInv /\ [ReferencesNext]_referenceVars => ReferencesInv'
  <2> SUFFICES ASSUME ReferencesInv, [ReferencesNext]_referenceVars
               PROVE  ReferencesInv'
    OBVIOUS
  <2>t. ReferencesTypeOK
    BY DEF ReferencesInv
  <2>1. ASSUME NEW q \in Intakes, NEW batch \in Batches, Post(q, batch)
        PROVE  ReferencesInv'
    <3>1. intake' \in [Intakes -> Seq(Order)]
      BY <2>1, <2>t, ReferenceBatches DEF Post, ReferencesTypeOK
    <3>2. QED
      BY <2>1, <3>1 DEF Post, ReferencesInv, ReferencesTypeOK, RowInv,
         WriterInv, AsOrdered, KeysDiffer
  <2>2. ASSUME NEW q \in Intakes, NEW b \in Rows, CreateItem(q, b)
        PROVE  ReferencesInv'
    <3>1. PICK item : item = Head(intake[q])
      OBVIOUS
    <3>2. item \in Order /\ Tail(intake[q]) \in Seq(Order)
      BY <2>2, <2>t, <3>1, HeadTailProperties DEF CreateItem, ReferencesTypeOK
    <3>3. PICK r \in Ref :
            r = [tenant |-> item.tenant, provider |-> item.provider,
                 key |-> item.key, number |-> NoNumber]
      BY <3>2 DEF Order, Adapters, Ref, RefOf
    <3>4. /\ ref[b] = NoRef /\ ~ Clashes(b, r) /\ ref' = [ref EXCEPT ![b] = r]
          /\ order' = [order EXCEPT ![b] = item]
          /\ intake' = [intake EXCEPT ![q] = Tail(@)]
          /\ UNCHANGED <<writer, title>>
      BY <2>2, <3>1, <3>3 DEF CreateItem
    <3>5. /\ order' \in [Rows -> {NoRef} \cup Order] /\ order'[b] = item
          /\ \A d \in Rows \ {b} : order'[d] = order[d]
      BY <2>t, <3>2, <3>4 DEF ReferencesTypeOK
    <3>6. item # NoRef /\ AsOrdered(b, r)'
      BY <3>2, <3>3, <3>5 DEF Order, NoRef, AsOrdered
    <3>7. /\ ref' \in [Rows -> {NoRef} \cup Ref]
          /\ \A d \in Rows : RowInv(d)'
          /\ KeysDiffer'
      BY <3>4, <3>5, <3>6, RowsStayApart
    <3>8. ReferencesTypeOK'
      <4>1. intake' \in [Intakes -> Seq(Order)]
        BY <2>t, <3>2, <3>4 DEF ReferencesTypeOK
      <4>2. QED
        BY <2>t, <3>4, <3>5, <3>7, <4>1 DEF ReferencesTypeOK
    <3>9. ASSUME NEW d \in Writers PROVE WriterInv(d)'
      <4>1. WriterInv(d) /\ writer'[d] = writer[d]
        BY <3>4 DEF ReferencesInv
      <4>2. writer[d] # NoWriter => writer[d].id \in Rows \ {b}
        BY <2>t, <3>4, <4>1 DEF ReferencesTypeOK, Writer, WriterInv
      <4>3. \A e \in Rows \ {b} : ref'[e] = ref[e] /\ order'[e] = order[e]
        BY <2>t, <3>4, <3>5 DEF ReferencesTypeOK
      <4>4. QED
        BY <4>1, <4>2, <4>3 DEF WriterInv, AsOrdered
    <3>10. QED
      BY <3>7, <3>8, <3>9 DEF ReferencesInv
  <2>3. ASSUME NEW q \in Intakes, IntakeFails(q)
        PROVE  ReferencesInv'
    <3>1. intake' \in [Intakes -> Seq(Order)]
      BY <2>3, <2>t DEF IntakeFails, ReferencesTypeOK
    <3>2. QED
      BY <2>3, <3>1 DEF IntakeFails, ReferencesInv, ReferencesTypeOK, RowInv,
         WriterInv, AsOrdered, KeysDiffer
  <2>4. ASSUME NEW c \in Writers, NEW b \in Rows, NEW w, NEW r,
               writer' = [writer EXCEPT ![c] = w], w \in Writer,
               w.id = b, w.copy = r, ref[b] # NoRef,
               r.tenant = ref[b].tenant, r.provider = ref[b].provider,
               r.key = ref[b].key,
               UNCHANGED <<ref, order, intake, title>>
        PROVE  ReferencesInv'
    <3>1. writer'[c] = w
      BY <2>4, <2>t DEF ReferencesTypeOK
    <3>2. WriterInv(c)'
      BY <2>4, <3>1 DEF ReferencesInv, RowInv, WriterInv, AsOrdered
    <3>3. QED
      BY <2>4, <2>t, <3>2, OnlyWriterMoves DEF ReferencesTypeOK
  <2>5. ASSUME NEW c \in Writers, NEW b \in Rows, EmitReads(c, b) \/ SyncFinds(c, b)
        PROVE  ReferencesInv'
    <3>1. ref[b] # NoRef /\ ref[b] \in Ref
      BY <2>5, <2>t DEF EmitReads, SyncFinds, ReferencesTypeOK
    <3>2. PICK w : /\ w \in Writer /\ w.id = b /\ w.copy = ref[b]
                   /\ writer' = [writer EXCEPT ![c] = w]
      <4>1. PICK pc \in {"mark", "write"} :
              writer' = [writer EXCEPT ![c] =
                  [pc |-> pc, id |-> b, copy |-> ref[b], about |-> NoNumber]]
        BY <2>5 DEF EmitReads, SyncFinds, Writes
      <4>2. PICK w :
              w = [pc |-> pc, id |-> b, copy |-> ref[b], about |-> NoNumber]
        OBVIOUS
      <4>3. w \in Writer /\ w.id = b /\ w.copy = ref[b]
        BY <3>1, <4>2 DEF Writer
      <4>4. QED
        BY <4>1, <4>2, <4>3
    <3>3. UNCHANGED <<ref, order, intake, title>>
      BY <2>5 DEF EmitReads, SyncFinds
    <3>4. PICK r : r = ref[b]
      OBVIOUS
    <3>5. QED
      BY <2>4, <3>1, <3>2, <3>3, <3>4
  <2>6. ASSUME NEW c \in Writers, NEW n \in Titles, NEW registered \in BOOLEAN,
               ItemFinds(c, n, registered)
        PROVE  ReferencesInv'
    <3>1. PICK b \in FindByProviderReference(n) :
            Writes(c, b, IF registered THEN [ref[b] EXCEPT !.number = n]
                                       ELSE ref[b], n)
      BY <2>6 DEF ItemFinds
    <3>2. b \in Rows /\ ref[b] # NoRef /\ ref[b] \in Ref
      BY <2>t DEF FindByProviderReference, ByReference, ByNumber, ReferencesTypeOK
    <3>3. PICK r : r = IF registered THEN [ref[b] EXCEPT !.number = n] ELSE ref[b]
      OBVIOUS
    <3>4. /\ r \in Ref /\ r.tenant = ref[b].tenant
          /\ r.provider = ref[b].provider /\ r.key = ref[b].key
      <4>1. CASE registered
        <5>1. r = [ref[b] EXCEPT !.number = n]
          BY <3>3, <4>1
        <5>2. QED
          BY <3>2, <5>1 DEF Ref, RefOf
      <4>2. CASE ~ registered
        BY <3>2, <3>3, <4>2
      <4>3. QED
        BY <4>1, <4>2
    <3>5. PICK w : w = [pc |-> "write", id |-> b, copy |-> r, about |-> n]
      OBVIOUS
    <3>6. w \in Writer /\ w.id = b /\ w.copy = r
      BY <3>2, <3>4, <3>5 DEF Writer
    <3>7. writer' = [writer EXCEPT ![c] = w]
      BY <3>1, <3>3, <3>5 DEF Writes
    <3>8. UNCHANGED <<ref, order, intake, title>>
      BY <2>6 DEF ItemFinds
    <3>9. QED
      BY <2>4, <3>2, <3>4, <3>6, <3>7, <3>8
  <2>7. ASSUME NEW c \in Writers, EmitMarks(c) \/ WriterWrites(c)
        PROVE  ReferencesInv'
    <3>1. writer[c] # NoWriter /\ writer[c] \in Writer
      BY <2>7, <2>t, WriterUnderWay DEF EmitMarks, WriterWrites
    <3>2. UpdateRow(c) /\ UNCHANGED <<order, intake, title>>
      BY <2>7 DEF EmitMarks, WriterWrites
    <3>3. CASE EmitMarks(c)
      <4>1. PICK w : w = [writer[c] EXCEPT !.pc = "issue"]
        OBVIOUS
      <4>2. w \in Writer /\ w.id = writer[c].id /\ w.copy = writer[c].copy
        BY <3>1, <4>1 DEF Writer
      <4>3. writer' = [writer EXCEPT ![c] = w]
        BY <3>3, <4>1 DEF EmitMarks
      <4>4. QED
        BY <3>1, <3>2, <4>2, <4>3, WriteBack
    <3>4. CASE WriterWrites(c)
      BY <3>1, <3>2, <3>4, WriteBack DEF WriterWrites
    <3>5. QED
      BY <2>7, <3>3, <3>4
  <2>8. ASSUME NEW c \in Writers, BankRefuses(c) \/ \E n \in Titles : BankIssues(c, n)
        PROVE  ReferencesInv'
    <3>1. writer[c] # NoWriter /\ writer[c] \in Writer /\ WriterInv(c)
      BY <2>8, <2>t, WriterUnderWay DEF BankRefuses, BankIssues, ReferencesInv
    <3>. PICK b \in Rows, copy \in Ref : b = writer[c].id /\ copy = writer[c].copy
      BY <3>1 DEF Writer
    <3>2. PICK r \in Ref, n \in Titles \cup {NoNumber} :
            /\ writer' = [writer EXCEPT ![c] = [pc |-> "write", id |-> b,
                                                copy |-> r, about |-> n]]
            /\ AsOrdered(b, r)
      <4>1. CASE BankRefuses(c)
        BY <3>1, <4>1 DEF BankRefuses, Writes, WriterInv
      <4>2. ASSUME NEW n \in Titles, BankIssues(c, n)
            PROVE  \E r \in Ref, m \in Titles \cup {NoNumber} :
                     /\ writer' = [writer EXCEPT ![c] = [pc |-> "write", id |-> b,
                                                         copy |-> r, about |-> m]]
                     /\ AsOrdered(b, r)
        <5>1. PICK r : r = [copy EXCEPT !.key = AnsweredKey(b, copy, n), !.number = n]
          OBVIOUS
        <5>2. /\ r.tenant = copy.tenant /\ r.provider = copy.provider
              /\ r.key = AnsweredKey(b, copy, n) /\ r \in Ref
          BY <5>1 DEF Ref, RefOf, AnsweredKey, Identifier
        <5>3. AsOrdered(b, copy)
          BY <3>1 DEF WriterInv
        <5>4. AsOrdered(b, r)
          BY <5>2, <5>3 DEF AsOrdered, AnsweredKey, Identifier
        <5>5. Writes(c, b, r, n) \/ Writes(c, b, copy, n)
          BY <4>2, <5>1 DEF BankIssues
        <5>6. QED
          BY <5>2, <5>3, <5>4, <5>5 DEF Writes
      <4>3. QED
        BY <2>8, <4>1, <4>2
    <3>3. UNCHANGED <<ref, order, intake>>
      BY <2>8 DEF BankRefuses, BankIssues
    <3>4. title' \in [Titles -> {NoTitle} \cup Title]
      <4>1. CASE BankRefuses(c)
        BY <2>t, <4>1 DEF BankRefuses, ReferencesTypeOK
      <4>2. ASSUME NEW m \in Titles, BankIssues(c, m)
            PROVE  title' \in [Titles -> {NoTitle} \cup Title]
        <5>1. Identifier(b, copy) \in Keys \cup Rows \cup Titles
              /\ copy.provider \in Adapters
          BY DEF Identifier, Ref, RefOf, Adapters
        <5>2. title' = [title EXCEPT ![m] = [identifier |-> Identifier(b, copy),
                                             boleto |-> b, by |-> copy.provider]]
          BY <4>2 DEF BankIssues
        <5>3. QED
          BY <2>t, <5>1, <5>2 DEF ReferencesTypeOK, Title
      <4>3. QED
        BY <2>8, <4>1, <4>2
    <3>5. [pc |-> "write", id |-> b, copy |-> r, about |-> n] \in Writer
      BY DEF Writer
    <3>6. writer'[c] = [pc |-> "write", id |-> b, copy |-> r, about |-> n]
      BY <2>t, <3>2 DEF ReferencesTypeOK
    <3>7. WriterInv(c)'
      BY <3>1, <3>2, <3>3, <3>6 DEF WriterInv, AsOrdered
    <3>8. QED
      BY <3>2, <3>3, <3>4, <3>5, <3>7, OnlyWriterMoves
  <2>9. ASSUME NEW c \in Writers, WriterFails(c)
        PROVE  ReferencesInv'
    <3>1. writer' = [writer EXCEPT ![c] = NoWriter] /\ writer'[c] = NoWriter
          /\ UNCHANGED <<ref, order, intake, title>>
      BY <2>9, <2>t DEF WriterFails, ReferencesTypeOK
    <3>2. WriterInv(c)'
      BY <3>1 DEF WriterInv
    <3>3. QED
      BY <2>t, <3>1, <3>2, OnlyWriterMoves DEF ReferencesTypeOK
  <2>10. CASE UNCHANGED referenceVars
    BY <2>10 DEF referenceVars, ReferencesInv, ReferencesTypeOK, RowInv,
       WriterInv, AsOrdered, KeysDiffer
  <2>11. QED
    BY <2>1, <2>2, <2>3, <2>5, <2>6, <2>7, <2>8, <2>9, <2>10
       DEF ReferencesNext, IntakeStep, WriterStep
<1>3. QED
  BY <1>1, <1>2, PTL DEF ReferencesSpec

\* The variables of References keep their types: an external_id is a key that
\* a tenant sent, or with Moncalieri the row's own id, or with the mock an id
\* that it coined.
THEOREM ReferencesTypeCorrect == ReferencesSpec => []ReferencesTypeOK
<1>1. ReferencesInv => ReferencesTypeOK
  BY DEF ReferencesInv
<1>2. QED
  BY <1>1, ReferencesInvHolds, PTL

\* A tenant that repeats an external_id gets no second boleto, whatever
\* emissions, webhooks and polls have written back, unless the mock's answer has
\* replaced the external_id of one of the two.
THEOREM OrdersStaySingle == ReferencesSpec => []OrderedOnce
<1>1. ReferencesInv => OrderedOnce
  BY DEF ReferencesInv, RowInv, AsOrdered, KeysDiffer,
     OrderedOnce, KeyReplaced
<1>2. QED
  BY <1>1, ReferencesInvHolds, PTL

-----------------------------------------------------------------------------
(* Which boleto a REGISTRO item finds.                                      *)

\* The orders that clients send.
Ordered == {o \in Order : \E batch \in Batches : \E i \in DOMAIN batch : batch[i] = o}

\* No two tenants send the same external_id: the look-up does not ask for the
\* tenant.
KeysApart ==
    \A o \in Ordered, p \in Ordered : o.key # NoKey /\ o.key = p.key => o.tenant = p.tenant

\* What the boleto is called at the bank.
CalledAtBank(b) == IF order[b].key # NoKey THEN order[b].key ELSE b

\* A row that was ordered without a key has none, its own id or a coined one.
OwnKey(b) ==
    ref[b] # NoRef /\ order[b].key = NoKey => ref[b].key \in {NoKey, b} \cup Titles

\* So has a copy, and a call about a title is a call on the title's boleto.
OwnCopy(c) == writer[c] # NoWriter =>
    /\ order[writer[c].id].key = NoKey =>
          writer[c].copy.key \in {NoKey, writer[c].id} \cup Titles
    /\ writer[c].about # NoNumber =>
          /\ title[writer[c].about] # NoTitle
          /\ writer[c].id = title[writer[c].about].boleto

OwnTitle(n) == title[n] # NoTitle =>
    /\ order[title[n].boleto] # NoRef
    /\ title[n].by = "moncalieri" =>
          /\ order[title[n].boleto].provider = "moncalieri"
          /\ title[n].identifier = CalledAtBank(title[n].boleto)

\* ItemReachesItsBoleto is about the calls under way; what it needs is that a
\* title's identifier still leads to its boleto when the item arrives.
ItemInv ==
    /\ \A q \in Intakes : intake[q] \in Seq(Ordered)
    /\ \A b \in Rows : order[b] # NoRef => order[b] \in Ordered
    /\ \A b \in Rows : OwnKey(b)
    /\ \A c \in Writers : OwnCopy(c)
    /\ \A n \in Titles : OwnTitle(n)

\* The two ways FindByProviderReference goes end at the title's boleto.
LEMMA ReferenceLeadsBack ==
    ASSUME ReferencesInv, ItemInv, KeysApart, NEW n \in Titles, title[n] # NoTitle,
           title[n].by = "moncalieri", NEW d \in FindByProviderReference(n)
    PROVE  d = title[n].boleto
<1>. PICK b \in Rows, x \in Keys \cup Rows \cup Titles :
         b = title[n].boleto /\ x = title[n].identifier
  BY DEF ReferencesInv, ReferencesTypeOK, Title
<1>1. /\ order[b] # NoRef /\ ref[b] # NoRef /\ x = CalledAtBank(b)
      /\ order[b] \in Ordered /\ order[b] \in Order
      /\ order[b].provider = "moncalieri" /\ AsOrdered(b, ref[b])
  BY DEF ItemInv, OwnTitle, ReferencesInv, RowInv, Ordered
<1>2. x \in Keys \cup Rows /\ x \notin Titles
  BY <1>1, ReferenceKinds DEF CalledAtBank, Order
<1>3. order[b].key # NoKey => ref[b].key = x
  BY <1>1 DEF AsOrdered, CalledAtBank
<1>4. ASSUME NEW e \in Rows, ref[e] # NoRef, e = x \/ ref[e].key = x
      PROVE  e = b
  <2>1. /\ order[e] # NoRef /\ order[e] \in Ordered /\ order[e] \in Order
        /\ ref[e].tenant = order[e].tenant
        /\ order[e].key # NoKey => ref[e].key = order[e].key \/ ref[e].key \in Titles
        /\ order[e].key = NoKey => ref[e].key \in {NoKey, e} \cup Titles
    BY <1>4 DEF ItemInv, OwnKey, ReferencesInv, RowInv, AsOrdered, Ordered
  <2>2. CASE order[b].key # NoKey
    <3>1. x = order[b].key /\ x \in Keys /\ x # NoKey /\ x \notin Rows
      BY <1>1, <2>2, ReferenceKinds DEF CalledAtBank, Order
    <3>2. order[e].key = x
      BY <1>4, <1>2, <2>1, <3>1
    <3>3. order[e].tenant = order[b].tenant
      BY <1>1, <2>1, <3>1, <3>2 DEF KeysApart
    <3>4. ref[b].tenant = order[b].tenant /\ ref[b].key = x
      BY <1>1, <1>3, <2>2 DEF AsOrdered
    <3>5. ref[e].key = x
      BY <1>4, <3>1
    <3>6. QED
      BY <1>1, <1>4, <2>1, <3>1, <3>3, <3>4, <3>5 DEF ReferencesInv, KeysDiffer
  <2>3. CASE order[b].key = NoKey
    <3>1. x = b /\ x \notin Keys /\ x # NoKey
      BY <1>1, <2>3, ReferenceKinds DEF CalledAtBank
    <3>2. QED
      BY <1>4, <1>2, <2>1, <3>1 DEF Order
  <2>4. QED
    BY <2>2, <2>3
<1>5. b \in ByReference(x)
  <2>1. CASE order[b].key # NoKey
    BY <1>1, <1>3, <2>1 DEF ByReference
  <2>2. CASE order[b].key = NoKey
    BY <1>1, <2>2 DEF ByReference, CalledAtBank
  <2>3. QED
    BY <2>1, <2>2
<1>6. d \in ByReference(x)
  BY <1>5 DEF FindByProviderReference
<1>7. QED
  BY <1>4, <1>6 DEF ByReference

\* A call takes a copy, and the rows stay as they are.
LEMMA CopyIsTaken ==
    ASSUME ReferencesInv, ItemInv, UNCHANGED <<ref, order, intake>>,
           NEW c \in Writers, NEW w, writer' = [writer EXCEPT ![c] = w],
           \A n \in Titles : title[n] # NoTitle => title'[n] = title[n],
           \A n \in Titles : OwnTitle(n)', OwnCopy(c)'
    PROVE  ItemInv'
<1>1. ASSUME NEW d \in Writers, d # c
      PROVE  OwnCopy(d)'
  <2>1. writer'[d] = writer[d] /\ OwnCopy(d)
    BY <1>1 DEF ReferencesInv, ReferencesTypeOK, ItemInv
  <2>2. CASE writer[d] = NoWriter
    BY <2>1, <2>2 DEF OwnCopy
  <2>3. CASE writer[d] # NoWriter
    <3>1. writer[d].about \in Titles \cup {NoNumber}
      BY <2>3 DEF ReferencesInv, ReferencesTypeOK, Writer
    <3>2. writer[d].about # NoNumber =>
             title'[writer[d].about] = title[writer[d].about]
      BY <2>1, <2>3, <3>1 DEF OwnCopy
    <3>3. QED
      BY <2>1, <2>3, <3>2 DEF OwnCopy
  <2>4. QED
    BY <2>2, <2>3
<1>2. QED
  BY <1>1 DEF ItemInv, OwnKey

\* A copy is written over its row.
LEMMA CopyIsWritten ==
    ASSUME ReferencesInv, ItemInv, NEW c \in Writers, writer[c] # NoWriter,
           UpdateRow(c), UNCHANGED <<order, intake, title>>,
           NEW w \in {NoWriter, [writer[c] EXCEPT !.pc = "issue"]},
           writer' = [writer EXCEPT ![c] = w]
    PROVE  ItemInv'
<1>1. writer[c] \in Writer /\ writer[c].id \in Rows
      /\ ref' = [ref EXCEPT ![writer[c].id] = writer[c].copy] /\ OwnCopy(c)
  BY DEF ReferencesInv, ReferencesTypeOK, Writer, ItemInv, UpdateRow
<1>2. ASSUME NEW b \in Rows PROVE OwnKey(b)'
  <2>1. OwnKey(b) /\ ref'[b] = IF b = writer[c].id THEN writer[c].copy ELSE ref[b]
    BY <1>1 DEF ItemInv, ReferencesInv, ReferencesTypeOK
  <2>2. QED
    BY <1>1, <2>1 DEF OwnKey, OwnCopy
<1>3. ASSUME NEW d \in Writers PROVE OwnCopy(d)'
  <2>1. OwnCopy(d) /\ writer'[d] = IF d = c THEN w ELSE writer[d]
    BY DEF ReferencesInv, ReferencesTypeOK, ItemInv
  <2>2. w # NoWriter => /\ w.id = writer[c].id /\ w.copy = writer[c].copy
                        /\ w.about = writer[c].about
    BY <1>1 DEF Writer
  <2>3. QED
    BY <1>1, <2>1, <2>2 DEF OwnCopy
<1>4. QED
  BY <1>2, <1>3 DEF ItemInv, OwnTitle, CalledAtBank

LEMMA ItemInvHolds ==
    ASSUME KeysApart
    PROVE  ReferencesSpec => []ItemInv
<1>1. ReferencesInit => ItemInv
  <2> SUFFICES ASSUME ReferencesInit PROVE ItemInv
    OBVIOUS
  <2>1. \A q \in Intakes : intake[q] \in Seq(Ordered)
    BY EmptySeq DEF ReferencesInit
  <2>2. QED
    BY <2>1 DEF ReferencesInit, ItemInv, OwnKey, OwnCopy, OwnTitle
<1>2. ReferencesInv /\ ItemInv /\ [ReferencesNext]_referenceVars => ItemInv'
  <2> SUFFICES ASSUME ReferencesInv, ItemInv, [ReferencesNext]_referenceVars
               PROVE  ItemInv'
    OBVIOUS
  <2>t. ReferencesTypeOK
    BY DEF ReferencesInv
  <2>1. ASSUME NEW q \in Intakes, NEW s \in Seq(Ordered),
               intake' = [intake EXCEPT ![q] = s],
               UNCHANGED <<ref, order, writer, title>>
        PROVE  ItemInv'
    <3>1. \A r \in Intakes : intake'[r] \in Seq(Ordered)
      BY <2>1, <2>t DEF ReferencesTypeOK, ItemInv
    <3>2. QED
      BY <2>1, <3>1 DEF ItemInv, OwnKey, OwnCopy, OwnTitle, CalledAtBank
  <2>2. ASSUME NEW q \in Intakes, NEW batch \in Batches, Post(q, batch)
        PROVE  ItemInv'
    <3>1. batch \in Seq(Order)
      BY ReferenceBatches
    <3>2. \A i \in 1 .. Len(batch) : batch[i] \in Ordered
      <4>1. DOMAIN batch = 1 .. Len(batch)
            /\ \A i \in 1 .. Len(batch) : batch[i] \in Order
        BY <3>1, ElementOfSeq, LenProperties
      <4>2. QED
        BY <4>1 DEF Ordered
    <3>3. batch \in Seq(Ordered)
      <4>1. Len(batch) \in Nat /\ batch = [i \in 1 .. Len(batch) |-> batch[i]]
        BY <3>1, LenProperties
      <4>2. QED
        BY <3>2, <4>1, SeqDef
    <3>4. QED
      BY <2>1, <2>2, <3>3 DEF Post
  <2>3. ASSUME NEW q \in Intakes, IntakeFails(q)
        PROVE  ItemInv'
    <3>1. <<>> \in Seq(Ordered)
      BY EmptySeq
    <3>2. QED
      BY <2>1, <2>3, <3>1 DEF IntakeFails
  <2>4. ASSUME NEW q \in Intakes, NEW b \in Rows, CreateItem(q, b)
        PROVE  ItemInv'
    <3>1. PICK item : item = Head(intake[q])
      OBVIOUS
    <3>2. intake[q] \in Seq(Ordered) /\ intake[q] # <<>>
      BY <2>4 DEF ItemInv, CreateItem
    <3>3. item \in Ordered /\ item \in Order /\ Tail(intake[q]) \in Seq(Ordered)
      BY <3>1, <3>2, HeadTailProperties DEF Ordered
    <3>4. PICK r : r = [tenant |-> item.tenant, provider |-> item.provider,
                        key |-> item.key, number |-> NoNumber]
      OBVIOUS
    <3>5. /\ ref[b] = NoRef /\ ref' = [ref EXCEPT ![b] = r]
          /\ order' = [order EXCEPT ![b] = item]
          /\ intake' = [intake EXCEPT ![q] = Tail(@)]
          /\ UNCHANGED <<writer, title>>
      BY <2>4, <3>1, <3>4 DEF CreateItem
    <3>6. /\ order'[b] = item /\ ref'[b] = r
          /\ \A d \in Rows \ {b} : order'[d] = order[d] /\ ref'[d] = ref[d]
          /\ order[b] = NoRef
      BY <2>t, <3>5 DEF ReferencesTypeOK, ReferencesInv, RowInv
    <3>7. \A p \in Intakes : intake'[p] \in Seq(Ordered)
      BY <2>t, <3>3, <3>5 DEF ItemInv, ReferencesTypeOK
    <3>8. \A d \in Rows : order'[d] # NoRef => order'[d] \in Ordered
      BY <3>3, <3>6 DEF ItemInv
    <3>9. ASSUME NEW d \in Rows PROVE OwnKey(d)'
      BY <3>4, <3>6 DEF ItemInv, OwnKey
    <3>10. ASSUME NEW d \in Writers PROVE OwnCopy(d)'
      <4>1. writer[d] # NoWriter => writer[d].id \in Rows /\ writer[d].id # b
        BY <2>t, <3>5 DEF ReferencesTypeOK, Writer, ReferencesInv, WriterInv
      <4>2. QED
        BY <3>5, <3>6, <4>1 DEF ItemInv, OwnCopy
    <3>11. ASSUME NEW n \in Titles PROVE OwnTitle(n)'
      <4>1. title[n] # NoTitle => title[n].boleto \in Rows /\ title[n].boleto # b
        BY <2>t, <3>6 DEF ReferencesTypeOK, Title, ItemInv, OwnTitle
      <4>2. QED
        BY <3>3, <3>5, <3>6, <4>1 DEF ItemInv, OwnTitle, CalledAtBank
    <3>12. QED
      BY <3>7, <3>8, <3>9, <3>10, <3>11 DEF ItemInv
  <2>5. ASSUME NEW c \in Writers, NEW b \in Rows, EmitReads(c, b) \/ SyncFinds(c, b)
        PROVE  ItemInv'
    <3>1. PICK pc \in {"mark", "write"} :
            writer' = [writer EXCEPT ![c] =
                  [pc |-> pc, id |-> b, copy |-> ref[b], about |-> NoNumber]]
      BY <2>5 DEF EmitReads, SyncFinds, Writes
    <3>2. PICK w : w = [pc |-> pc, id |-> b, copy |-> ref[b], about |-> NoNumber]
      OBVIOUS
    <3>3. writer' = [writer EXCEPT ![c] = w] /\ writer'[c] = w
          /\ w.id = b /\ w.copy = ref[b] /\ w.about = NoNumber
      BY <2>t, <3>1, <3>2 DEF ReferencesTypeOK
    <3>4. ref[b] # NoRef /\ UNCHANGED <<ref, order, intake, title>> /\ OwnKey(b)
      BY <2>5 DEF EmitReads, SyncFinds, ItemInv
    <3>5. OwnCopy(c)'
      BY <3>3, <3>4 DEF OwnCopy, OwnKey
    <3>6. \A n \in Titles : OwnTitle(n)'
      BY <3>4 DEF ItemInv, OwnTitle, CalledAtBank
    <3>7. QED
      BY <3>3, <3>4, <3>5, <3>6, CopyIsTaken
  <2>6. ASSUME NEW c \in Writers, NEW n \in Titles, NEW registered \in BOOLEAN,
               ItemFinds(c, n, registered)
        PROVE  ItemInv'
    <3>1. PICK b \in FindByProviderReference(n) :
            Writes(c, b, IF registered THEN [ref[b] EXCEPT !.number = n]
                                       ELSE ref[b], n)
      BY <2>6 DEF ItemFinds
    <3>2. b \in Rows /\ ref[b] # NoRef /\ ref[b] \in Ref
      BY <2>t DEF FindByProviderReference, ByReference, ByNumber, ReferencesTypeOK
    <3>3. title[n] # NoTitle /\ title[n].by = "moncalieri"
          /\ UNCHANGED <<ref, order, intake, title>>
      BY <2>6 DEF ItemFinds
    <3>4. b = title[n].boleto
      BY <3>1, <3>3, ReferenceLeadsBack
    <3>5. PICK r : r = IF registered THEN [ref[b] EXCEPT !.number = n] ELSE ref[b]
      OBVIOUS
    <3>6. r.key = ref[b].key
      BY <3>2, <3>5 DEF Ref, RefOf
    <3>7. PICK w : w = [pc |-> "write", id |-> b, copy |-> r, about |-> n]
      OBVIOUS
    <3>8. writer' = [writer EXCEPT ![c] = w] /\ writer'[c] = w
          /\ w.id = b /\ w.copy = r /\ w.about = n
      BY <2>t, <3>1, <3>5, <3>7 DEF ReferencesTypeOK, Writes
    <3>9. OwnCopy(c)'
      BY <3>2, <3>3, <3>4, <3>6, <3>8 DEF OwnCopy, ItemInv, OwnKey
    <3>10. \A m \in Titles : OwnTitle(m)'
      BY <3>3 DEF ItemInv, OwnTitle, CalledAtBank
    <3>11. QED
      BY <3>3, <3>8, <3>9, <3>10, CopyIsTaken
  <2>7. ASSUME NEW c \in Writers, EmitMarks(c) \/ WriterWrites(c)
        PROVE  ItemInv'
    <3>1. writer[c] # NoWriter
      BY <2>7, <2>t, WriterUnderWay DEF EmitMarks, WriterWrites
    <3>2. CASE EmitMarks(c)
      <4>1. PICK w \in {NoWriter, [writer[c] EXCEPT !.pc = "issue"]} :
               writer' = [writer EXCEPT ![c] = w]
        BY <3>2 DEF EmitMarks
      <4>2. QED
        BY <3>1, <3>2, <4>1, CopyIsWritten DEF EmitMarks
    <3>3. CASE WriterWrites(c)
      BY <3>1, <3>3, CopyIsWritten DEF WriterWrites
    <3>4. QED
      BY <2>7, <3>2, <3>3
  <2>8. ASSUME NEW c \in Writers, BankRefuses(c)
        PROVE  ItemInv'
    <3>1. writer[c] # NoWriter /\ writer[c] \in Writer /\ OwnCopy(c)
      BY <2>8, <2>t, WriterUnderWay DEF BankRefuses, ItemInv
    <3>2. PICK w : w = [pc |-> "write", id |-> writer[c].id,
                        copy |-> writer[c].copy, about |-> NoNumber]
      OBVIOUS
    <3>3. writer' = [writer EXCEPT ![c] = w] /\ writer'[c] = w
          /\ w.id = writer[c].id /\ w.copy = writer[c].copy /\ w.about = NoNumber
          /\ UNCHANGED <<ref, order, intake, title>>
      BY <2>8, <2>t, <3>2 DEF ReferencesTypeOK, BankRefuses, Writes
    <3>4. OwnCopy(c)'
      BY <3>1, <3>3 DEF OwnCopy
    <3>5. \A n \in Titles : OwnTitle(n)'
      BY <3>3 DEF ItemInv, OwnTitle, CalledAtBank
    <3>6. QED
      BY <3>3, <3>4, <3>5, CopyIsTaken
  <2>9. ASSUME NEW c \in Writers, NEW n \in Titles, BankIssues(c, n)
        PROVE  ItemInv'
    <3>1. writer[c] # NoWriter /\ writer[c] \in Writer /\ OwnCopy(c)
          /\ WriterInv(c)
      BY <2>9, <2>t, WriterUnderWay DEF BankIssues, ItemInv, ReferencesInv
    <3>. PICK b \in Rows, copy \in Ref : b = writer[c].id /\ copy = writer[c].copy
      BY <3>1 DEF Writer
    <3>2. /\ order[b] # NoRef /\ AsOrdered(b, copy)
          /\ order[b].key = NoKey => copy.key \in {NoKey, b} \cup Titles
      BY <3>1 DEF OwnCopy, WriterInv, ReferencesInv, RowInv
    <3>3. copy.provider = "moncalieri" =>
              /\ order[b].provider = "moncalieri"
              /\ Identifier(b, copy) = CalledAtBank(b)
      <4>1. copy.provider = "moncalieri" => copy.key \notin Titles
        BY ReferenceKinds DEF Ref, RefOf
      <4>2. QED
        BY <3>2, <4>1 DEF AsOrdered, Identifier, CalledAtBank
    <3>4. /\ title[n] = NoTitle /\ UNCHANGED <<ref, order, intake>>
          /\ title' = [title EXCEPT ![n] = [identifier |-> Identifier(b, copy),
                                            boleto |-> b, by |-> copy.provider]]
      BY <2>9 DEF BankIssues
    <3>5. /\ title'[n].identifier = Identifier(b, copy) /\ title'[n].boleto = b
          /\ title'[n].by = copy.provider /\ title'[n] # NoTitle
          /\ \A m \in Titles \ {n} : title'[m] = title[m]
      BY <2>t, <3>4 DEF ReferencesTypeOK, NoTitle
    <3>6. ASSUME NEW m \in Titles PROVE OwnTitle(m)'
      <4>1. CASE m = n
        BY <3>2, <3>4, <3>5, <3>3, <4>1 DEF OwnTitle, CalledAtBank
      <4>2. CASE m # n
        BY <3>4, <3>5, <4>2 DEF ItemInv, OwnTitle, CalledAtBank
      <4>3. QED
        BY <4>1, <4>2
    <3>7. PICK r \in Ref : /\ Writes(c, b, r, n)
                           /\ order[b].key = NoKey =>
                                 r.key \in {NoKey, b} \cup Titles
      <4>1. PICK r : r = [copy EXCEPT !.key = AnsweredKey(b, copy, n), !.number = n]
        OBVIOUS
      <4>2. r \in Ref /\ r.key \in {Identifier(b, copy), n}
        BY <4>1 DEF Ref, RefOf, AnsweredKey, Identifier
      <4>3. Writes(c, b, r, n) \/ Writes(c, b, copy, n)
        BY <2>9, <4>1 DEF BankIssues
      <4>4. QED
        BY <3>2, <4>2, <4>3 DEF Identifier
    <3>8. PICK w : w = [pc |-> "write", id |-> b, copy |-> r, about |-> n]
      OBVIOUS
    <3>9. writer' = [writer EXCEPT ![c] = w] /\ writer'[c] = w
          /\ w.id = b /\ w.copy = r /\ w.about = n
      BY <2>t, <3>7, <3>8 DEF ReferencesTypeOK, Writes
    <3>10. OwnCopy(c)'
      BY <3>4, <3>5, <3>7, <3>9 DEF OwnCopy
    <3>11. QED
      BY <3>4, <3>5, <3>6, <3>9, <3>10, CopyIsTaken
  <2>10. ASSUME NEW c \in Writers, WriterFails(c)
         PROVE  ItemInv'
    <3>1. writer' = [writer EXCEPT ![c] = NoWriter] /\ writer'[c] = NoWriter
          /\ UNCHANGED <<ref, order, intake, title>>
      BY <2>10, <2>t DEF WriterFails, ReferencesTypeOK
    <3>2. OwnCopy(c)' /\ \A n \in Titles : OwnTitle(n)'
      BY <3>1 DEF OwnCopy, ItemInv, OwnTitle, CalledAtBank
    <3>3. QED
      BY <3>1, <3>2, CopyIsTaken
  <2>11. CASE UNCHANGED referenceVars
    BY <2>11 DEF referenceVars, ItemInv, OwnKey, OwnCopy, OwnTitle, CalledAtBank
  <2>12. QED
    BY <2>2, <2>3, <2>4, <2>5, <2>6, <2>7, <2>8, <2>9, <2>10, <2>11
       DEF ReferencesNext, IntakeStep, WriterStep
<1>3. QED
  BY <1>1, <1>2, ReferencesInvHolds, PTL DEF ReferencesSpec

\* A REGISTRO item is applied to the boleto whose title it is about, when no two
\* tenants send the same external_id (references_tenants shows what happens when
\* they do): a boleto's identifier at the bank leads back to it, whether or not
\* the answer that carried its number was stored.
THEOREM ItemsReachTheirBoletos ==
    ASSUME KeysApart
    PROVE  ReferencesSpec => []ItemReachesItsBoleto
<1>1. ItemInv => ItemReachesItsBoleto
  BY DEF ItemInv, OwnCopy, ItemReachesItsBoleto
<1>2. QED
  BY <1>1, ItemInvHolds, PTL
=============================================================================
