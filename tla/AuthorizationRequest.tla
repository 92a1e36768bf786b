------------------------ MODULE AuthorizationRequest ------------------------
(***************************************************************************)
(* The authorization endpoint, for one application and the identity users  *)
(* of its workspace: pushed requests, the pending request a browser is     *)
(* taken through, login, consent, policies and the codes that result       *)
(* (oauth/authorization.ts).                                               *)
(*                                                                         *)
(* Several handlers may work on one pending request: a browser has tabs,   *)
(* buttons are pressed twice, links are shared.  Each handler loads the    *)
(* row once, without a lock, and acts on that snapshot; the steps between  *)
(* its queries are separate actions.  Expiry only forbids an arrival, and  *)
(* no arrival is ever forced, so there is no clock.  Requests refused      *)
(* before a row is stored are left out; so is the variant for MCP clients. *)
(***************************************************************************)
EXTENDS Naturals

CONSTANTS Handlers,        \* HTTP requests being served
          Requests,        \* pending_authorization_requests rows
          Pushes,          \* pushed_authorization_requests rows
          Users,           \* identity users
          Scopes,          \* scopes assigned to the application
          None,            \* no user, no row
          Parameters,      \* parameters an authorization request may carry
          RequiresConsent  \* require_consent of the application

Prompts == {"unset", "none", "login", "select_account", "consent"}

\* agent: authorization_details of a registered agent; only a pushed request
\* has them.
Parameter == [prompt: Prompts, scopes: SUBSET Scopes, agent: BOOLEAN]

ASSUME NoneIsNobody == None \notin Users \cup Requests \cup Pushes
ASSUME ParametersAreKnown == Parameters \subseteq Parameter /\ RequiresConsent \in BOOLEAN

VARIABLES pushed,     \* pushed_authorization_requests rows
          pending,    \* pending_authorization_requests rows
          consent,    \* scopes of each user's consent_grants row
          signedIn,   \* users with a live session cookie
          codes,      \* authorization_codes rows
          hand,       \* where each handler stands
          shown,      \* requests whose id a browser was sent to login or consent with
          log         \* what users did (history)

vars == <<pushed, pending, consent, signedIn, codes, hand, shown, log>>
-----------------------------------------------------------------------------
(* Rows and handlers.                                                      *)

NoParameter == [prompt |-> "unset", scopes |-> {}, agent |-> FALSE]

PushedRow == [status: {"absent", "stored", "consumed"}, params: Parameters \cup {NoParameter}]

PendingRow == [status: {"absent", "pending", "awaiting_consent", "completed", "denied"},
               user: Users \cup {None}, push: Pushes \cup {None},
               params: Parameters \cup {NoParameter}]

CodeRow == [request: Requests, user: Users]

Steps == {"idle",
          "opening",         \* pushed request consumed, pending row to be stored
          "deciding",        \* pending row stored, session read
          "asking",          \* consent is needed, the row is to say so
          "authenticating",  \* row loaded for a login, credentials being checked
          "signed_in",       \* session stored, consent to be read
          "asking_again",    \* consent is needed after a login
          "denying",         \* row loaded, the user refused
          "approving",       \* row loaded, the user agreed
          "issuing"}         \* a code is due, policies to be evaluated

Handler == [step: Steps, request: Requests \cup {None}, push: Pushes \cup {None},
            user: Users \cup {None}]

Idle == [step |-> "idle", request |-> None, push |-> None, user |-> None]

\* What users did: the scopes each one ever agreed to, who agreed to and who
\* logged in for which request, who ever logged in, and what was refused.
Log == [given: [Users -> SUBSET Scopes], approved: SUBSET (Requests \X Users),
        logins: SUBSET (Requests \X Users), proven: SUBSET Users, refused: SUBSET Requests]

Init ==
    /\ pushed = [p \in Pushes |-> [status |-> "absent", params |-> NoParameter]]
    /\ pending = [q \in Requests |-> [status |-> "absent", user |-> None, push |-> None,
                                      params |-> NoParameter]]
    /\ consent = [u \in Users |-> {}]
    /\ signedIn = {}
    /\ codes = {}
    /\ hand = [h \in Handlers |-> Idle]
    /\ shown = {}
    /\ log = [given |-> [u \in Users |-> {}], approved |-> {}, logins |-> {},
              proven |-> {}, refused |-> {}]

Goto(h, s) == hand' = [hand EXCEPT ![h].step = s]
Finish(h) == hand' = [hand EXCEPT ![h] = Idle]
ParamsOf(h) == pending[hand[h].request].params

\* The stored consent of the handler's user covers the scopes asked for.
Covers(h) == ParamsOf(h).scopes \subseteq consent[hand[h].user]

\* The row passes loadPending.
Loadable(q) == q \in shown /\ pending[q].status \in {"pending", "awaiting_consent"}
-----------------------------------------------------------------------------
(* Opening a request.                                                      *)

\* /par stores the parameters an agent signed for.
Push(p, params) ==
    /\ pushed[p].status = "absent"
    /\ params.agent
    /\ pushed' = [pushed EXCEPT ![p] = [status |-> "stored", params |-> params]]
    /\ UNCHANGED <<pending, consent, signedIn, codes, hand, shown, log>>

\* Mutant: the pushed request is read, and not marked.
ReadPushed(h, p) ==
    /\ hand[h] = Idle
    /\ pushed[p].status = "stored"
    /\ hand' = [hand EXCEPT ![h] = [Idle EXCEPT !.step = "opening", !.push = p]]
    /\ UNCHANGED <<pushed, pending, consent, signedIn, codes, shown, log>>

\* One UPDATE finds the pushed request unused and marks it consumed; whatever
\* goes wrong afterwards, it is spent.
ResolvePushed(h, p) ==
    /\ hand[h] = Idle
    /\ pushed[p].status = "stored"
    /\ pushed' = [pushed EXCEPT ![p].status = "consumed"]
    /\ hand' = [hand EXCEPT ![h] = [Idle EXCEPT !.step = "opening", !.push = p]]
    /\ UNCHANGED <<pending, consent, signedIn, codes, shown, log>>

\* Mutant: the session is used whatever the prompt.
AnySession(params) == signedIn \cup {None}

\* The users the session cookie may stand for: prompt=login and select_account
\* ignore it, and so may max_age.
SessionUsers(params) ==
    IF params.prompt \in {"login", "select_account"} THEN {None} ELSE signedIn \cup {None}

\* The pending row is stored and the session is looked up.
Open(h, q, p, params) ==
    /\ pending[q].status = "absent"
    /\ \E u \in SessionUsers(params) :
         /\ pending' = [pending EXCEPT ![q] = [status |-> "pending", user |-> None,
                                               push |-> p, params |-> params]]
         /\ hand' = [hand EXCEPT ![h] = [step |-> "deciding", request |-> q,
                                         push |-> None, user |-> u]]
    /\ UNCHANGED <<pushed, consent, signedIn, codes, shown, log>>

OpenPushed(h, q) ==
    /\ hand[h].step = "opening"
    /\ Open(h, q, hand[h].push, pushed[hand[h].push].params)

OpenPlain(h, q, params) ==
    /\ hand[h] = Idle
    /\ ~params.agent
    /\ Open(h, q, None, params)

\* No session: the browser is sent to the login page.
SendToLogin(h) ==
    /\ hand[h].step = "deciding"
    /\ hand[h].user = None
    /\ ParamsOf(h).prompt # "none"
    /\ shown' = shown \cup {hand[h].request}
    /\ Finish(h)
    /\ UNCHANGED <<pushed, pending, consent, signedIn, codes, log>>

\* There is a session, and what its user agreed to before is enough.
NeedsNoConsent(h) ==
    /\ hand[h].user # None
    /\ ~ParamsOf(h).agent
    /\ RequiresConsent => ParamsOf(h).prompt # "consent" /\ Covers(h)

GoOnWithSession(h) ==
    /\ hand[h].step = "deciding"
    /\ NeedsNoConsent(h)
    /\ Goto(h, "issuing")
    /\ UNCHANGED <<pushed, pending, consent, signedIn, codes, shown, log>>

\* prompt=none answers login_required or consent_required; the row stays.
AnswerSilently(h) ==
    /\ hand[h].step = "deciding"
    /\ ParamsOf(h).prompt = "none"
    /\ ~NeedsNoConsent(h)
    /\ Finish(h)
    /\ UNCHANGED <<pushed, pending, consent, signedIn, codes, shown, log>>

\* Mutant: prompt=none is only honoured when nobody is signed in.
NeedConsentWhateverPrompt(h) ==
    /\ hand[h].step = "deciding"
    /\ hand[h].user # None
    /\ ~NeedsNoConsent(h)
    /\ Goto(h, "asking")
    /\ UNCHANGED <<pushed, pending, consent, signedIn, codes, shown, log>>

NeedConsent(h) ==
    /\ hand[h].step = "deciding"
    /\ hand[h].user # None
    /\ ~NeedsNoConsent(h)
    /\ ParamsOf(h).prompt # "none"
    /\ Goto(h, "asking")
    /\ UNCHANGED <<pushed, pending, consent, signedIn, codes, shown, log>>

\* The row waits for the consent of the session's user.
AskConsent(h) ==
    /\ hand[h].step = "asking"
    /\ pending' = [pending EXCEPT ![hand[h].request].status = "awaiting_consent",
                                  ![hand[h].request].user = hand[h].user]
    /\ shown' = shown \cup {hand[h].request}
    /\ Finish(h)
    /\ UNCHANGED <<pushed, consent, signedIn, codes, log>>
-----------------------------------------------------------------------------
(* Login, with a password or through a social provider.                    *)

LoadForLogin(h, q) ==
    /\ hand[h] = Idle
    /\ Loadable(q)
    /\ hand' = [hand EXCEPT ![h] = [Idle EXCEPT !.step = "authenticating", !.request = q]]
    /\ UNCHANGED <<pushed, pending, consent, signedIn, codes, shown, log>>

\* One transaction stores the session and names the user in the row.
SignIn(h, u) ==
    /\ hand[h].step = "authenticating"
    /\ signedIn' = signedIn \cup {u}
    /\ pending' = [pending EXCEPT ![hand[h].request].user = u]
    /\ hand' = [hand EXCEPT ![h].step = "signed_in", ![h].user = u]
    /\ log' = [log EXCEPT !.proven = @ \cup {u},
                          !.logins = @ \cup {<<hand[h].request, u>>}]
    /\ UNCHANGED <<pushed, consent, codes, shown>>

\* Mutant: an agent's request is treated like any other after a login.
NeedsConsentIfUncovered(h) == RequiresConsent /\ ~Covers(h)

\* prompt=consent is not looked at again after a login.
NeedsConsentAfterLogin(h) == ParamsOf(h).agent \/ (RequiresConsent /\ ~Covers(h))

ReadConsent(h) ==
    /\ hand[h].step = "signed_in"
    /\ Goto(h, IF NeedsConsentAfterLogin(h) THEN "asking_again" ELSE "issuing")
    /\ UNCHANGED <<pushed, pending, consent, signedIn, codes, shown, log>>

\* The status is overwritten, whatever became of the request meanwhile.
AskConsentAgain(h) ==
    /\ hand[h].step = "asking_again"
    /\ pending' = [pending EXCEPT ![hand[h].request].status = "awaiting_consent"]
    /\ Finish(h)
    /\ UNCHANGED <<pushed, consent, signedIn, codes, shown, log>>
-----------------------------------------------------------------------------
(* Consent.                                                                *)

\* Whoever has the request id decides, for the user the row names.
LoadForConsent(h, q, step) ==
    /\ hand[h] = Idle
    /\ Loadable(q)
    /\ step = "approving" => pending[q].user # None
    /\ hand' = [hand EXCEPT ![h] = [Idle EXCEPT !.step = step, !.request = q,
                                                !.user = pending[q].user]]
    /\ UNCHANGED <<pushed, pending, consent, signedIn, codes, shown, log>>

Deny(h) ==
    /\ hand[h].step = "denying"
    /\ pending' = [pending EXCEPT ![hand[h].request].status = "denied"]
    /\ log' = [log EXCEPT !.refused = @ \cup {hand[h].request}]
    /\ Finish(h)
    /\ UNCHANGED <<pushed, consent, signedIn, codes, shown>>

\* The consent row is replaced by the scopes of this request.
Approve(h) ==
    /\ hand[h].step = "approving"
    /\ consent' = [consent EXCEPT ![hand[h].user] = ParamsOf(h).scopes]
    /\ log' = [log EXCEPT !.given[hand[h].user] = @ \cup ParamsOf(h).scopes,
                          !.approved = @ \cup {<<hand[h].request, hand[h].user>>}]
    /\ Goto(h, "issuing")
    /\ UNCHANGED <<pushed, pending, signedIn, codes, shown>>
-----------------------------------------------------------------------------
(* Codes.                                                                  *)

\* Mutant: a status the schema does not know.
DenyWithPolicyStatus(h) ==
    /\ hand[h].step = "issuing"
    /\ pending' = [pending EXCEPT ![hand[h].request].status = "policy_denied"]
    /\ Finish(h)
    /\ UNCHANGED <<pushed, consent, signedIn, codes, shown, log>>

\* A policy refuses; policies may change at any time.
DenyByPolicy(h) ==
    /\ hand[h].step = "issuing"
    /\ pending' = [pending EXCEPT ![hand[h].request].status = "denied"]
    /\ Finish(h)
    /\ UNCHANGED <<pushed, consent, signedIn, codes, shown, log>>

\* One transaction stores the code and completes the request, whatever its
\* status; of an agent it also stores the grant (AgentGrants).
IssueCode(h) ==
    /\ hand[h].step = "issuing"
    /\ codes' = codes \cup {[request |-> hand[h].request, user |-> hand[h].user]}
    /\ pending' = [pending EXCEPT ![hand[h].request].status = "completed",
                                  ![hand[h].request].user = hand[h].user]
    /\ Finish(h)
    /\ UNCHANGED <<pushed, consent, signedIn, shown, log>>

\* The handler fails, is refused, or its process dies: every statement it has
\* run is committed.
GiveUp(h) ==
    /\ hand[h] # Idle
    /\ Finish(h)
    /\ UNCHANGED <<pushed, pending, consent, signedIn, codes, shown, log>>

\* A session is revoked or expires, or its user is disabled.
EndSession(u) ==
    /\ u \in signedIn
    /\ signedIn' = signedIn \ {u}
    /\ UNCHANGED <<pushed, pending, consent, codes, hand, shown, log>>
-----------------------------------------------------------------------------
Serve(h) ==
    \/ \E p \in Pushes : ResolvePushed(h, p)
    \/ \E q \in Requests : OpenPushed(h, q) \/ \E params \in Parameters : OpenPlain(h, q, params)
    \/ SendToLogin(h) \/ GoOnWithSession(h) \/ AnswerSilently(h) \/ NeedConsent(h) \/ AskConsent(h)
    \/ \E q \in Requests : LoadForLogin(h, q)
    \/ \E u \in Users : SignIn(h, u)
    \/ ReadConsent(h) \/ AskConsentAgain(h)
    \/ \E q \in Requests, step \in {"denying", "approving"} : LoadForConsent(h, q, step)
    \/ Deny(h) \/ Approve(h)
    \/ DenyByPolicy(h) \/ IssueCode(h) \/ GiveUp(h)

Next ==
    \/ \E p \in Pushes, params \in Parameters : Push(p, params)
    \/ \E h \in Handlers : Serve(h)
    \/ \E u \in Users : EndSession(u)

Spec == Init /\ [][Next]_vars
-----------------------------------------------------------------------------
(* Properties.                                                             *)

\* Rows and handlers have the shape the schema gives them.
TypeOK ==
    /\ pushed \in [Pushes -> PushedRow]
    /\ pending \in [Requests -> PendingRow]
    /\ consent \in [Users -> SUBSET Scopes]
    /\ signedIn \subseteq Users
    /\ codes \subseteq CodeRow
    /\ hand \in [Handlers -> Handler]
    /\ shown \subseteq Requests
    /\ log \in Log

\* No code without consent, however logins and decisions of several tabs on
\* several requests interleave: its user once agreed to every scope it carries,
\* and to this very request if an agent asked (authorize, continueAfter-
\* Authentication, /consent).
CodesAreConsented ==
    \A c \in codes : LET params == pending[c.request].params IN
        /\ RequiresConsent => params.scopes \subseteq log.given[c.user]
        /\ params.agent => <<c.request, c.user>> \in log.approved

\* A code is for a user who logged in, and, if the client asked for a fresh
\* login, who logged in for this request (prompt=login and select_account).
CodesAreAuthenticated ==
    \A c \in codes :
        /\ c.user \in log.proven
        /\ pending[c.request].params.prompt \in {"login", "select_account"} =>
             <<c.request, c.user>> \in log.logins

\* A "single-use" request_uri (docs/oauth-and-oidc.md:198) opens one request,
\* even when it is visited from two tabs at once (resolveAuthorizationParameters).
PushedRequestsOpenOnce ==
    \A q, s \in Requests : pending[q].push # None /\ pending[q].push = pending[s].push => q = s

\* "prompt=none never renders interaction" (docs/oauth-and-oidc.md:214): such a
\* request is never put before a user, nor waits for one.
PromptNoneIsSilent ==
    \A q \in Requests : pending[q].params.prompt = "none" =>
        q \notin shown /\ pending[q].status # "awaiting_consent"

\* "No authorization code is issued after consent is denied."
\* (the trace step of /consent, authorization.ts:1495)  The code does not keep it:
\* a handler that loaded the request before the denial issues the code.
NoCodeAfterDenial ==
    [][\A c \in codes' \ codes : c.request \notin log.refused]_vars
-----------------------------------------------------------------------------
(* The inductive invariant: why the safety properties hold.                *)

FreshPrompts == {"login", "select_account"}
Stored(q) == pending[q].status # "absent"

\* A code for this user is due an answer to the request: the login is there, and
\* so is the consent.
Authenticated(q, u) ==
    u \in log.proven /\ (pending[q].params.prompt \in FreshPrompts => <<q, u>> \in log.logins)

Agreed(q, u) ==
    /\ RequiresConsent => pending[q].params.scopes \subseteq log.given[u]
    /\ pending[q].params.agent => <<q, u>> \in log.approved

\* What a handler knows of its request, whatever other handlers did to the row
\* since it was loaded.
Grounded(h) ==
    LET x == hand[h] IN
    /\ x.step = "opening" => /\ x.push \in Pushes
                             /\ pushed[x.push].status = "consumed"
                             /\ \A q \in Requests : pending[q].push # x.push
    /\ x.step \notin {"idle", "opening"} => x.request \in Requests /\ Stored(x.request)
    /\ x.step \in {"asking", "authenticating", "signed_in", "asking_again", "denying", "approving"} =>
         pending[x.request].params.prompt # "none"
    /\ x.step \in {"asking", "signed_in", "asking_again", "approving", "issuing"} => x.user \in Users
    /\ x.step \notin {"idle", "opening", "denying"} /\ x.user # None => Authenticated(x.request, x.user)
    /\ x.step = "issuing" => Agreed(x.request, x.user)

HandlersAreGrounded == \A h \in Handlers : Grounded(h)

\* A pushed request is in one handler's hands.
OpeningsAreExclusive ==
    \A h, i \in Handlers :
        hand[h].step = "opening" /\ hand[i].step = "opening" /\ hand[h].push = hand[i].push => h = i

\* The user a row names has logged in for it; what was put before a user may be;
\* a pushed request that opened a row is spent.
RowGrounded(q) ==
    LET row == pending[q] IN
    /\ row.user # None => Authenticated(q, row.user)
    /\ q \in shown => Stored(q) /\ row.params.prompt # "none"
    /\ row.status = "awaiting_consent" => row.params.prompt # "none"
    /\ row.push # None => pushed[row.push].status = "consumed"

RowsAreGrounded == \A q \in Requests : RowGrounded(q)

\* Sessions come from logins, consent rows from what users agreed to.
RecordsAreGrounded ==
    /\ signedIn \subseteq log.proven
    /\ \A u \in Users : consent[u] \subseteq log.given[u]

CodesAreGrounded ==
    \A c \in codes : Stored(c.request) /\ Authenticated(c.request, c.user) /\ Agreed(c.request, c.user)

RequestInv ==
    /\ TypeOK
    /\ HandlersAreGrounded
    /\ OpeningsAreExclusive
    /\ RowsAreGrounded
    /\ PushedRequestsOpenOnce
    /\ RecordsAreGrounded
    /\ CodesAreGrounded
=============================================================================
