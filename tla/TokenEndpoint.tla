---------------------------- MODULE TokenEndpoint ----------------------------
(***************************************************************************)
(* The token endpoint of the Authometry server: redemption of              *)
(* authorization codes, rotation of refresh tokens with reuse detection,   *)
(* and revocation of families (oauth/tokens.ts, lib/oauth.ts, db.ts).      *)
(*                                                                         *)
(* Every handler runs in a PostgreSQL transaction at READ COMMITTED.  The  *)
(* variables code, family, token hold the COMMITTED rows; a transaction's  *)
(* writes appear in them only in the action that commits.  Row locks are   *)
(* derived from where each request stands (HoldsCode, HoldsToken,          *)
(* HoldsFamily), a statement that needs a locked row is simply not enabled *)
(* and a rollback returns the request to Idle without touching the rows.   *)
(* A request the handler refuses before it has written or locked anything  *)
(* that matters changes no row and is left out.                            *)
(***************************************************************************)
EXTENDS Naturals, FiniteSets

CONSTANTS Requests,    \* HTTP requests in flight, each with its own connection
          Clients,     \* OAuth applications
          Codes,       \* authorization_codes rows
          Families,    \* refresh_token_families rows
          Tokens,      \* refresh_tokens rows, by token value
          None,        \* no row
          Faults,      \* what may go wrong, a subset of AllFaults
          Lifetimes,   \* values refresh_token_lifetime_seconds takes
          CodeLifetime,\* authorization_code_lifetime_seconds
          MaxClock     \* bound on the clock

AllFaults == {"signing", "connection", "deadlock", "response"}

ASSUME NoneIsNoRow == None \notin Clients \cup Codes \cup Families \cup Tokens
ASSUME FaultsAreKnown == Faults \subseteq AllFaults
ASSUME TimesAreNaturals ==
    Lifetimes \subseteq Nat /\ CodeLifetime \in Nat /\ MaxClock \in Nat

VARIABLES code,     \* committed authorization_codes rows
          family,   \* committed refresh_token_families rows
          token,    \* committed refresh_tokens rows
          req,      \* where each request stands
          known,    \* tokens that reached a client in a response
          now       \* the clock

vars == <<code, family, token, req, known, now>>
rows == <<code, family, token>>

-----------------------------------------------------------------------------
(* Rows and requests.                                                      *)

CodeRow == [status: {"absent", "issued", "consumed"}, client: Clients \cup {None},
            offline: BOOLEAN, expires: Nat]

FamilyRow == [status: {"absent", "active", "revoked", "reused"},
              client: Clients \cup {None}, code: Codes \cup {None}, expires: Nat]

TokenRow == [family: Families \cup {None}, parent: Tokens \cup {None},
             consumed: BOOLEAN, revoked: BOOLEAN, expires: Nat]

Steps == {"idle",      \* no transaction
          "issuing",   \* code row locked, tokens being signed
          "issued",    \* issueTokenSet returned, COMMIT still to come
          "locking",   \* refresh: token row locked, family row wanted
          "rotating",  \* refresh: both rows locked, tokens being signed
          "reuse",     \* refresh: both rows locked, family being revoked
          "revoke",    \* revocation: family id read, family row wanted
          "revoking",  \* revocation: family row updated, token rows wanted
          "respond"}   \* committed, response on its way

Request == [step: Steps, client: Clients \cup {None}, code: Codes \cup {None},
            token: Tokens \cup {None}, family: Families \cup {None},
            next: Tokens \cup {None}]

Idle == [step |-> "idle", client |-> None, code |-> None,
         token |-> None, family |-> None, next |-> None]

NoCode == [status |-> "absent", client |-> None, offline |-> FALSE, expires |-> 0]
NoFamily == [status |-> "absent", client |-> None, code |-> None, expires |-> 0]

\* A refresh_tokens row as it is inserted.
NewToken(f, parent, expires) ==
    [family |-> f, parent |-> parent, consumed |-> FALSE, revoked |-> FALSE,
     expires |-> expires]
NoToken == NewToken(None, None, 0)

Init ==
    /\ code = [c \in Codes |-> NoCode]
    /\ family = [f \in Families |-> NoFamily]
    /\ token = [t \in Tokens |-> NoToken]
    /\ req = [r \in Requests |-> Idle]
    /\ known = {}
    /\ now = 0

-----------------------------------------------------------------------------
(* Row locks, and what a row says to the transaction that holds it.        *)

HoldsCode(r, c) == req[r].code = c /\ req[r].step \in {"issuing", "issued"}
HoldsToken(r, t) == req[r].token = t /\ req[r].step \in {"locking", "rotating", "reuse"}
HoldsFamily(r, f) == req[r].family = f /\ req[r].step \in {"rotating", "reuse", "revoking"}

\* Mutant: the code row is read without FOR UPDATE.
CodeUnlocked(c) == TRUE

CodeFree(c) == \A q \in Requests : ~HoldsCode(q, c)
TokenFree(t) == \A q \in Requests : ~HoldsToken(q, t)
FamilyFree(f) == \A q \in Requests : ~HoldsFamily(q, f)

\* The committed token rows of family f.
TokensOf(f) == {t \in Tokens : token[t].family = f}

\* Request r can lock every token row of family f.
TokensFree(r, f) ==
    \A t \in TokensOf(f) : \A q \in Requests \ {r} : ~HoldsToken(q, t)

\* A random value that is no row, committed or about to be.
Fresh(t) == token[t].family = None /\ \A q \in Requests : req[q].next # t

Expired(t) == token[t].expires < now \/ family[token[t].family].expires < now

\* Mutant: a revoked token and a closed family are not refused.
HonouredByOwner(r) == family[req[r].family].client = req[r].client

\* The presented token passes the ownership, revocation and status checks.
Honoured(r) ==
    /\ family[req[r].family].client = req[r].client
    /\ ~token[req[r].token].revoked
    /\ family[req[r].family].status = "active"

\* Mutant: the expiry of the family does not bound its tokens.
Sliding(a, b) == b
Earliest(a, b) == IF a <= b THEN a ELSE b

Goto(r, s) == req' = [req EXCEPT ![r].step = s]
Finish(r) == req' = [req EXCEPT ![r] = Idle]
-----------------------------------------------------------------------------
(* Authorization codes.                                                    *)

\* The authorization endpoint stores a code for a client.
GrantCode(c, cl, off) ==
    /\ code[c] = NoCode
    /\ code' = [code EXCEPT ![c] = [status |-> "issued", client |-> cl,
                                    offline |-> off, expires |-> now + CodeLifetime]]
    /\ UNCHANGED <<family, token, req, known, now>>

\* SELECT ... FOR UPDATE finds the code good and marks it consumed; the mark
\* is not committed.  A bad redirect URI, verifier or resource is refused.
RedeemCode(r, c, cl) ==
    /\ req[r] = Idle
    /\ CodeFree(c)
    /\ code[c].status = "issued"
    /\ code[c].client = cl
    /\ ~(code[c].expires < now)
    /\ req' = [req EXCEPT ![r] = [Idle EXCEPT !.step = "issuing",
                                              !.client = cl, !.code = c]]
    /\ UNCHANGED <<rows, known, now>>

\* issueTokenSet signs, then stores the family and its first token in a
\* transaction of its own, on another connection: both rows are committed
\* while the code row is still locked and unconsumed.
IssueFamily(r, f, t, life) ==
    /\ req[r].step = "issuing"
    /\ code[req[r].code].offline
    /\ family[f] = NoFamily
    /\ Fresh(t)
    /\ family' = [family EXCEPT ![f] = [status |-> "active", client |-> req[r].client,
                                        code |-> req[r].code, expires |-> now + life]]
    /\ token' = [token EXCEPT ![t] = NewToken(f, None, now + life)]
    /\ req' = [req EXCEPT ![r] = [@ EXCEPT !.step = "issued", !.family = f, !.next = t]]
    /\ UNCHANGED <<code, known, now>>

\* Without offline_access only signed tokens are issued.
IssueAccessOnly(r) ==
    /\ req[r].step = "issuing"
    /\ ~code[req[r].code].offline
    /\ Goto(r, "issued")
    /\ UNCHANGED <<rows, known, now>>

\* COMMIT of the redemption.
CommitRedemption(r) ==
    /\ req[r].step = "issued"
    /\ code' = [code EXCEPT ![req[r].code].status = "consumed"]
    /\ Goto(r, "respond")
    /\ UNCHANGED <<family, token, known, now>>
-----------------------------------------------------------------------------
(* Refresh tokens.                                                         *)

\* The joined SELECT ... FOR UPDATE locks the token row first.
PresentToken(r, t, cl) ==
    /\ req[r] = Idle
    /\ t \in known
    /\ TokenFree(t)
    /\ req' = [req EXCEPT ![r] = [Idle EXCEPT !.step = "locking", !.client = cl,
                                              !.token = t, !.family = token[t].family]]
    /\ UNCHANGED <<rows, known, now>>

\* The statement also gets the family row; only now are the rows examined.
GetsFamily(r) == req[r].step = "locking" /\ FamilyFree(req[r].family)

\* Mutant: the refusal commits the status 'expired'.
RefuseAndExpire(r) ==
    /\ GetsFamily(r)
    /\ Honoured(r) => ~token[req[r].token].consumed
    /\ family' = [family EXCEPT ![req[r].family].status = "expired"]
    /\ Finish(r)
    /\ UNCHANGED <<code, token, known, now>>

\* Mutant: the refusal neither commits nor rolls back.
RefuseWithoutRollback(r) == GetsFamily(r) /\ Goto(r, "locking") /\ UNCHANGED <<rows, known, now>>

\* Refused and rolled back: a foreign, revoked or dead token, an expired one
\* (the UPDATE to 'expired' is rolled back with the rest), or one presented
\* with a scope or a resource that was never granted.
RefuseRefresh(r) ==
    /\ GetsFamily(r)
    /\ Honoured(r) => ~token[req[r].token].consumed
    /\ Finish(r)
    /\ UNCHANGED <<rows, known, now>>

\* A consumed token of an active family: reuse, whatever its expiry.
DetectReuse(r) ==
    /\ GetsFamily(r)
    /\ Honoured(r)
    /\ token[req[r].token].consumed
    /\ Goto(r, "reuse")
    /\ UNCHANGED <<rows, known, now>>

\* Mutant: a consumed token is rotated again.
BeginAnyRotation(r, n) ==
    /\ GetsFamily(r)
    /\ Honoured(r)
    /\ ~Expired(req[r].token)
    /\ Fresh(n)
    /\ req' = [req EXCEPT ![r] = [@ EXCEPT !.step = "rotating", !.next = n]]
    /\ UNCHANGED <<rows, known, now>>

\* The current token: its successor is drawn and the response is signed.
BeginRotation(r, n) ==
    /\ GetsFamily(r)
    /\ Honoured(r)
    /\ ~token[req[r].token].consumed
    /\ ~Expired(req[r].token)
    /\ Fresh(n)
    /\ req' = [req EXCEPT ![r] = [@ EXCEPT !.step = "rotating", !.next = n]]
    /\ UNCHANGED <<rows, known, now>>

\* Mutant: the presented token is not marked consumed.
RotateWithoutConsuming(r, life) ==
    /\ req[r].step = "rotating"
    /\ token' = [token EXCEPT
                    ![req[r].next] = NewToken(req[r].family, req[r].token,
                        Earliest(family[req[r].family].expires, now + life))]
    /\ Goto(r, "respond")
    /\ UNCHANGED <<code, family, known, now>>

\* COMMIT of the rotation.  The successor's expiry counts from BEGIN; a tick
\* since then is the same as a shorter lifetime.
CommitRotation(r, life) ==
    /\ req[r].step = "rotating"
    /\ token' = [token EXCEPT
                    ![req[r].token].consumed = TRUE,
                    ![req[r].next] = NewToken(req[r].family, req[r].token,
                        Earliest(family[req[r].family].expires, now + life))]
    /\ Goto(r, "respond")
    /\ UNCHANGED <<code, family, known, now>>

\* Mutant: only the tokens that were not exchanged yet are revoked.
CloseUnspentOnly(f, status) ==
    /\ family' = [family EXCEPT ![f].status = status]
    /\ token' = [t \in Tokens |-> IF token[t].family = f /\ ~token[t].consumed
                                    THEN [token[t] EXCEPT !.revoked = TRUE]
                                    ELSE token[t]]

\* The rows of family f once it is closed with the given status.
CloseFamily(f, status) ==
    /\ family' = [family EXCEPT ![f].status = status]
    /\ token' = [t \in Tokens |-> IF token[t].family = f
                                    THEN [token[t] EXCEPT !.revoked = TRUE]
                                    ELSE token[t]]

\* The reuse branch revokes every token of the family, commits, and only
\* then answers invalid_grant.
CommitReuse(r) ==
    /\ req[r].step = "reuse"
    /\ TokensFree(r, req[r].family)
    /\ CloseFamily(req[r].family, "reused")
    /\ Finish(r)
    /\ UNCHANGED <<code, known, now>>
-----------------------------------------------------------------------------
(* Revocation by a client.                                                 *)

\* The family id is read without a lock, and whoever presents the token may
\* revoke it: the client is not compared with the family's.
RequestRevocation(r, t, cl) ==
    /\ req[r] = Idle
    /\ t \in known
    /\ req' = [req EXCEPT ![r] = [Idle EXCEPT !.step = "revoke", !.client = cl,
                                              !.family = token[t].family]]
    /\ UNCHANGED <<rows, known, now>>

\* UPDATE refresh_token_families takes the family row.
RevokeFamily(r) ==
    /\ req[r].step = "revoke"
    /\ FamilyFree(req[r].family)
    /\ Goto(r, "revoking")
    /\ UNCHANGED <<rows, known, now>>

\* UPDATE refresh_tokens takes the token rows, then COMMIT and 200.
CommitRevocation(r) ==
    /\ req[r].step = "revoking"
    /\ TokensFree(r, req[r].family)
    /\ CloseFamily(req[r].family, "revoked")
    /\ Finish(r)
    /\ UNCHANGED <<code, known, now>>
-----------------------------------------------------------------------------
(* Responses, faults and time.                                             *)

\* The response reaches the client, with the refresh token if there is one.
Respond(r) ==
    /\ req[r].step = "respond"
    /\ known' = known \cup ({req[r].next} \ {None})
    /\ Finish(r)
    /\ UNCHANGED <<rows, now>>

\* The response is lost: a crash after COMMIT, a failing trace write, a
\* dropped connection.
LoseResponse(r) ==
    /\ "response" \in Faults
    /\ req[r].step = "respond"
    /\ Finish(r)
    /\ UNCHANGED <<rows, known, now>>

\* No usable signing key: issueTokenSet throws and the transaction around it
\* is rolled back.
SigningFails(r) ==
    /\ "signing" \in Faults
    /\ req[r].step \in {"issuing", "rotating"}
    /\ Finish(r)
    /\ UNCHANGED <<rows, known, now>>

\* The process dies, or a statement or COMMIT fails: rollback.
ConnectionFails(r) ==
    /\ "connection" \in Faults
    /\ req[r].step \notin {"idle", "respond"}
    /\ Finish(r)
    /\ UNCHANGED <<rows, known, now>>

\* r closes a family, q holds one of its tokens and wants the family row.
Deadlocked(r, q) ==
    /\ req[r].step \in {"reuse", "revoking"}
    /\ q # r
    /\ req[q].step = "locking"
    /\ req[q].family = req[r].family

\* PostgreSQL breaks the cycle by aborting either transaction.
DeadlockVictim(r) ==
    /\ "deadlock" \in Faults
    /\ \E q \in Requests : Deadlocked(r, q) \/ Deadlocked(q, r)
    /\ Finish(r)
    /\ UNCHANGED <<rows, known, now>>

Tick ==
    /\ now < MaxClock
    /\ now' = now + 1
    /\ UNCHANGED <<rows, req, known>>
-----------------------------------------------------------------------------
\* The steps the server takes on its own once a request has arrived.
Proceed(r) ==
    \/ \E f \in Families, t \in Tokens, life \in Lifetimes : IssueFamily(r, f, t, life)
    \/ IssueAccessOnly(r)
    \/ CommitRedemption(r)
    \/ RefuseRefresh(r)
    \/ DetectReuse(r)
    \/ \E n \in Tokens : BeginRotation(r, n)
    \/ \E life \in Lifetimes : CommitRotation(r, life)
    \/ CommitReuse(r)
    \/ RevokeFamily(r)
    \/ CommitRevocation(r)
    \/ Respond(r)

Arrive(r) ==
    \/ \E c \in Codes, cl \in Clients : RedeemCode(r, c, cl)
    \/ \E t \in Tokens, cl \in Clients : PresentToken(r, t, cl) \/ RequestRevocation(r, t, cl)

Fail(r) == LoseResponse(r) \/ SigningFails(r) \/ ConnectionFails(r) \/ DeadlockVictim(r)

Next ==
    \/ \E c \in Codes, cl \in Clients, off \in BOOLEAN : GrantCode(c, cl, off)
    \/ \E r \in Requests : Arrive(r) \/ Proceed(r) \/ Fail(r)
    \/ Tick

Spec == Init /\ [][Next]_vars

\* PostgreSQL queues the waiters of a row and detects deadlocks; the event
\* loop keeps running every handler.
Fairness ==
    \A r \in Requests : SF_vars(Proceed(r)) /\ WF_vars(DeadlockVictim(r))

FairSpec == Spec /\ Fairness
-----------------------------------------------------------------------------
(* Properties.                                                             *)

\* Rows and requests have the shape the schema gives them.
TypeOK ==
    /\ code \in [Codes -> CodeRow]
    /\ family \in [Families -> FamilyRow]
    /\ token \in [Tokens -> TokenRow]
    /\ req \in [Requests -> Request]
    /\ known \subseteq Tokens
    /\ now \in Nat

Unspent(t) == ~token[t].consumed /\ ~token[t].revoked

\* While a family is active exactly one of its tokens can still be exchanged,
\* however many requests present its tokens at once (refreshTokenGrant).
ExactlyOneCurrentToken ==
    \A f \in Families : family[f].status = "active" =>
        /\ \E t \in TokensOf(f) : Unspent(t)
        /\ \A t, u \in TokensOf(f) : Unspent(t) /\ Unspent(u) => t = u

\* Closing a family leaves none of its tokens behind, not even one that a
\* concurrent rotation was inserting when the family was closed (/revoke and
\* the reuse branch of refreshTokenGrant).
ClosedFamilyIsFullyRevoked ==
    \A f \in Families : family[f].status \in {"revoked", "reused"} =>
        \A t \in TokensOf(f) : token[t].revoked

\* No token is ever exchanged twice: rotations of a family form a chain.
RotationIsAChain ==
    \A t, u \in Tokens :
        /\ token[t].parent # None /\ token[t].parent = token[u].parent => t = u
        /\ token[t].parent = u => token[u].consumed /\ token[u].family = token[t].family

\* However its redemption is interleaved or repeated, one authorization code
\* brings at most one family into clients' hands (authorizationCodeGrant).
OneDeliveredFamilyPerCode ==
    \A t, u \in known :
        family[token[t].family].code = family[token[u].family].code
            => token[t].family = token[u].family

\* Rotation never stretches the lifetime fixed when the family was opened,
\* whatever the application's lifetime is changed to meanwhile.
NoTokenOutlivesItsFamily ==
    \A t \in Tokens : token[t].family # None =>
        token[t].expires <= family[token[t].family].expires

\* What request r is about to commit is still true of the rows.
Grounded(r) ==
    /\ req[r].step \in {"issuing", "issued"} => req[r].code \in Codes
    /\ req[r].step = "issuing" => req[r].next = None
    /\ req[r].step \in {"locking", "rotating", "reuse"} =>
        /\ req[r].token \in Tokens
        /\ req[r].family \in Families
        /\ token[req[r].token].family = req[r].family
    /\ req[r].step \in {"rotating", "reuse"} => family[req[r].family].status = "active"
    /\ req[r].step = "rotating" =>
        /\ Unspent(req[r].token)
        /\ req[r].next \in Tokens
        /\ token[req[r].next] = NoToken
    /\ req[r].step \in {"revoke", "revoking"} =>
        /\ req[r].family \in Families
        /\ family[req[r].family].status # "absent"
    /\ req[r].step \in {"issued", "respond"} /\ req[r].next # None =>
        token[req[r].next].family # None

\* Nothing moves under a transaction between its SELECT ... FOR UPDATE and its
\* COMMIT (refreshTokenGrant, /revoke).
RequestsAreGrounded == \A r \in Requests : Grounded(r)

\* Requests that are about to write the same rows do not coexist.
LocksAreExclusive ==
    \A r, q \in Requests :
        /\ \A f \in Families : HoldsFamily(r, f) /\ HoldsFamily(q, f) => r = q
        /\ req[r].step = "rotating" /\ req[q].step = "rotating" /\ req[r].next = req[q].next
              => r = q

\* Token rows belong to stored families; unused token values have no trace.
TokensAreGrounded ==
    /\ \A t \in Tokens :
         IF token[t].family = None
           THEN token[t] = NoToken
           ELSE family[token[t].family].status # "absent"
    /\ \A f \in Families : family[f].status = "absent" => family[f] = NoFamily
    /\ \A t \in known : token[t].family # None

\* The inductive invariant of the family rows.
FamilyInv ==
    /\ TypeOK
    /\ RequestsAreGrounded
    /\ LocksAreExclusive
    /\ TokensAreGrounded
    /\ ExactlyOneCurrentToken
    /\ ClosedFamilyIsFullyRevoked
    /\ RotationIsAChain

\* Tokens that were put in a response, delivered or on its way.
Released ==
    known \cup ({req[r].next : r \in {q \in Requests : req[q].step = "respond"}} \ {None})

\* The code a stored token goes back to.
CodeOf(t) == family[token[t].family].code

\* What request r knows of its code, its new family and its presented token.
CodeGrounded(r) ==
    /\ req[r].step \in {"issuing", "issued"} => code[req[r].code].status = "issued"
    /\ req[r].step = "issued" /\ req[r].next # None =>
         /\ req[r].family \in Families
         /\ token[req[r].next].family = req[r].family
         /\ family[req[r].family].code = req[r].code
    /\ req[r].step \in {"locking", "rotating", "reuse"} => req[r].token \in known

\* Why a code yields one family: the code row stays locked and unconsumed until
\* the redemption commits, and released tokens only go back to consumed codes.
CodesAreGrounded ==
    /\ \A r, q \in Requests : \A c \in Codes : HoldsCode(r, c) /\ HoldsCode(q, c) => r = q
    /\ \A r \in Requests : CodeGrounded(r)
    /\ \A t \in Released : CodeOf(t) \in Codes /\ code[CodeOf(t)].status = "consumed"
    /\ \A t, u \in Released : CodeOf(t) = CodeOf(u) => token[t].family = token[u].family

\* The refinement mapping onto RefreshFamily.
FamilyState(f) ==
    CASE family[f].status = "absent" -> "absent"
      [] family[f].status = "active" -> "live"
      [] OTHER -> "dead"

CurrentToken(f) ==
    IF \E t \in TokensOf(f) : Unspent(t) THEN CHOOSE t \in TokensOf(f) : Unspent(t) ELSE None

SpentTokens == {t \in Tokens : ~Unspent(t)}

Promise == INSTANCE RefreshFamily WITH
    state <- [f \in Families |-> FamilyState(f)],
    current <- [f \in Families |-> CurrentToken(f)],
    spent <- SpentTokens

\* The endpoint implements the abstract family (refreshTokenGrant, /revoke and
\* issueTokenSet): every step opens, rotates or kills one family or leaves all
\* of them alone, so a dead family never revives and a spent token never works.
KeepsPromise == Promise!Spec

\* Every request is answered: no set of requests waits for each other's rows
\* for ever.
RequestsFinish == \A r \in Requests : req[r].step # "idle" ~> req[r].step = "idle"

\* "The code remains one-time even if signing fails" (tokens.ts:212): a
\* redemption that ends without a response leaves the code consumed.  The code does
\* not keep it: issueTokenSet is called before the COMMIT.
CodeIsOneTimeEvenIfSigningFails ==
    [][\A r \in Requests :
         req[r].step \in {"issuing", "issued"} /\ req'[r].step = "idle"
            => code'[req[r].code].status = "consumed"]_vars

\* "Reusing a consumed token marks the family as reused and revokes the entire
\* family" (docs/oauth-and-oidc.md:138): once reuse is detected, the request
\* does not end with the family still active.  The code does not keep it when the
\* transaction is the victim of a deadlock.
DetectedReuseClosesFamily ==
    [][\A r \in Requests :
         req[r].step = "reuse" /\ req'[r].step = "idle"
            => family'[req[r].family].status # "active"]_vars
=============================================================================
