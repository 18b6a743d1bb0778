----------------------------- MODULE ApiTokens -----------------------------
(***************************************************************************)
(* The API tokens of the tenants.  Issue rotates the token of a scope (a    *)
(* tenant and an environment) in one READ COMMITTED transaction:            *)
(*                                                                         *)
(*   UPDATE ... SET status='REVOKED' WHERE ... AND status='ACTIVE'          *)
(*   INSERT ... 'ACTIVE'                                                    *)
(*   COMMIT                                                                 *)
(*                                                                         *)
(* A statement sees what was committed when it began, waits for the locks   *)
(* of the rows it found, and looks at them again.  Requests authenticate    *)
(* with a token while it is being rotated.                                  *)
(***************************************************************************)
EXTENDS FiniteSets, Naturals

CONSTANTS
    Scopes,         \* pairs of a tenant and an environment
    Production,     \* the scopes of the environment PRODUCTION
    AppEnv,         \* APP_ENV of the process
    Issues,         \* calls of Issue; each one makes a token of its own
    Requests        \* API requests that carry a token

ASSUME TokenScopes == Production \subseteq Scopes
ASSUME TokenAppEnv == AppEnv \in {"development", "production"}

NoToken == [state |-> "absent"]
NoIssue == [pc |-> "idle"]
NoRequest == [pc |-> "idle"]

VARIABLES
    token,          \* tenant_api_tokens: committed rows, by the call that made them
    issue,          \* calls of Issue, with the rows their transaction holds
    request,        \* API requests between authentication and answer
    known           \* tokens an answer has shown to somebody

tokenVars == <<token, issue, request, known>>

-----------------------------------------------------------------------------
TokensInit ==
    /\ token = [c \in Issues |-> NoToken]
    /\ issue = [c \in Issues |-> NoIssue]
    /\ request = [r \in Requests |-> NoRequest]
    /\ known = {}

Live(s) == {c \in Issues : token[c].state = "ACTIVE" /\ token[c].scope = s}

\* The rows other transactions have changed and not committed.
HeldBy(d) == IF issue[d] = NoIssue THEN {} ELSE issue[d].held

Inserted(d, s) == issue[d].pc = "commit" /\ issue[d].scope = s

-----------------------------------------------------------------------------
(* Issue and RotateSecure                                                  *)

\* The admin route, or onboarding, which only does it outside production.
IssueBegins(c, s) ==
    /\ issue[c] = NoIssue /\ token[c] = NoToken
    /\ issue' = [issue EXCEPT ![c] = [pc |-> "select", scope |-> s,
                                      seen |-> {}, held |-> {}]]
    /\ UNCHANGED <<token, request, known>>

\* The UPDATE finds the active rows of its snapshot ...
RevokeSelects(c) ==
    /\ issue[c].pc = "select"
    /\ issue' = [issue EXCEPT ![c].pc = "revoke",
                              ![c].seen = Live(issue[c].scope)]
    /\ UNCHANGED <<token, request, known>>

\* ... and revokes, once their locks are free, those that are still active.
RevokeUpdates(c) ==
    LET seen == issue[c].seen IN
    /\ issue[c].pc = "revoke"
    /\ \A d \in Issues \ {c} : HeldBy(d) \cap seen = {}
    /\ issue' = [issue EXCEPT
                   ![c].pc = "insert",
                   ![c].held = {k \in seen : token[k].state = "ACTIVE"}]
    /\ UNCHANGED <<token, request, known>>

\* Mutant: no unique index over the active rows of a scope.
RotateInsertsAnyway(c) ==
    /\ issue[c].pc = "insert"
    /\ issue' = [issue EXCEPT ![c].pc = "commit"]
    /\ UNCHANGED <<token, request, known>>

\* uq_tenant_api_tokens_active_environment: the INSERT waits for whoever has
\* inserted or revoked in the scope, and fails if another row is active.
RotateInserts(c) ==
    LET s == issue[c].scope IN
    /\ issue[c].pc = "insert"
    /\ Live(s) \subseteq issue[c].held
    /\ \A d \in Issues \ {c} : ~Inserted(d, s) /\ HeldBy(d) \cap Live(s) = {}
    /\ issue' = [issue EXCEPT ![c].pc = "commit"]
    /\ UNCHANGED <<token, request, known>>

RotateCommits(c) ==
    /\ issue[c].pc = "commit"
    /\ token' = [k \in Issues |->
                   IF k = c THEN [state |-> "ACTIVE", scope |-> issue[c].scope]
                   ELSE IF k \in issue[c].held
                   THEN [token[k] EXCEPT !.state = "REVOKED"] ELSE token[k]]
    /\ issue' = [issue EXCEPT ![c].pc = "answer", ![c].held = {}]
    /\ UNCHANGED <<request, known>>

\* The answer shows the token; it may get lost.
IssueAnswers(c) ==
    /\ issue[c].pc = "answer"
    /\ issue' = [issue EXCEPT ![c] = NoIssue]
    /\ known' \in {known, known \cup {c}}
    /\ UNCHANGED <<token, request>>

\* Mutant: the call ends and what it held stays behind.
IssueFailsHolding(c) ==
    /\ issue[c].pc \in {"select", "revoke", "insert", "commit"}
    /\ issue' = [issue EXCEPT ![c].pc = "idle"]
    /\ UNCHANGED <<token, request, known>>

\* A statement fails or the process dies: the transaction is rolled back.
IssueFails(c) ==
    /\ issue[c].pc \in {"select", "revoke", "insert", "commit"}
    /\ issue' = [issue EXCEPT ![c] = NoIssue]
    /\ UNCHANGED <<token, request, known>>

\* Reveal shows the active token of a scope again.
Reveal(s) ==
    /\ Live(s) # {}
    /\ known' = known \cup Live(s)
    /\ UNCHANGED <<token, issue, request>>

-----------------------------------------------------------------------------
(* RequestAuthenticator                                                    *)

\* Mutant: any environment's token is good for any process.
AllowedAnywhere(s) == TRUE

\* tokenEnvironmentAllowed
EnvironmentAllowed(s) == (AppEnv = "production") <=> (s \in Production)

\* FindActiveByHash, and the identity the request keeps from then on.
Authenticate(r, c) ==
    /\ request[r] = NoRequest
    /\ c \in known
    /\ token[c].state = "ACTIVE"
    /\ EnvironmentAllowed(token[c].scope)
    /\ request' = [request EXCEPT ![r] = [pc |-> "serving", token |-> c,
                                          scope |-> token[c].scope]]
    /\ UNCHANGED <<token, issue, known>>

RequestEnds(r) ==
    /\ request[r] # NoRequest
    /\ request' = [request EXCEPT ![r] = NoRequest]
    /\ UNCHANGED <<token, issue, known>>

IssueStep(c) ==
    \/ \E s \in Scopes : IssueBegins(c, s)
    \/ RevokeSelects(c)
    \/ RevokeUpdates(c)
    \/ RotateInserts(c)
    \/ RotateCommits(c)
    \/ IssueAnswers(c)
    \/ IssueFails(c)

RequestStep(r) ==
    \/ \E c \in Issues : Authenticate(r, c)
    \/ RequestEnds(r)

TokensNext ==
    \/ \E c \in Issues : IssueStep(c)
    \/ \E s \in Scopes : Reveal(s)
    \/ \E r \in Requests : RequestStep(r)

TokensSpec == TokensInit /\ [][TokensNext]_tokenVars

-----------------------------------------------------------------------------
TokenRow == {NoToken} \cup [state: {"ACTIVE", "REVOKED"}, scope: Scopes]

IssueCall == {NoIssue} \cup
    [pc: {"select", "revoke", "insert", "commit", "answer"}, scope: Scopes,
     seen: SUBSET Issues, held: SUBSET Issues]

RequestCall == {NoRequest} \cup
    [pc: {"serving"}, token: Issues, scope: Scopes]

TokensTypeOK ==
    /\ token \in [Issues -> TokenRow]
    /\ issue \in [Issues -> IssueCall]
    /\ request \in [Requests -> RequestCall]
    /\ known \subseteq Issues

\* However many rotations of a scope overlap, and wherever they fail, a scope
\* that ever had a token has exactly one active token: a rotation leaves no
\* second one behind and never a moment without one.
ExactlyOneActive ==
    \A s \in Scopes :
        (\E c \in Issues : token[c] # NoToken /\ token[c].scope = s)
            => Cardinality(Live(s)) = 1

\* A request is served for the environment its process runs in, under a token
\* that is active or was replaced by another one of its scope since.
ServedInEnvironment ==
    \A r \in Requests : request[r] # NoRequest =>
        /\ (AppEnv = "production") <=> (request[r].scope \in Production)
        /\ token[request[r].token].scope = request[r].scope
        /\ Live(request[r].scope) # {}
=============================================================================
