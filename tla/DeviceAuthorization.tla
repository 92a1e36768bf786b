------------------------- MODULE DeviceAuthorization -------------------------
(***************************************************************************)
(* Device authorization: the device polls the token endpoint while a user, *)
(* who types the user code and a password on another device, approves or   *)
(* denies (oauth/tokens.ts, oauth/resources.ts).  As in TokenEndpoint,     *)
(* device holds committed rows; both handlers lock the row with SELECT ... *)
(* FOR UPDATE and hold it to the end of their transaction, and a rollback  *)
(* leaves the row alone.  The unit of time is the polling interval step.   *)
(***************************************************************************)
EXTENDS Naturals, FiniteSets

CONSTANTS Requests,  \* HTTP requests being served
          Devices,   \* device_authorizations rows
          Users,     \* identity users
          None,      \* nobody, never
          Lifetime,  \* time a device code lives
          MaxClock,  \* bound on the clock
          MaxInterval \* bound on the polling interval; above MaxClock it is of no account

ASSUME NoneIsNobody == None \notin Users \cup Devices \cup Nat
ASSUME TimesAreNaturals == Lifetime \in Nat /\ MaxClock \in Nat /\ MaxInterval \in Nat

VARIABLES device,    \* committed device_authorizations rows
          req,       \* where each request stands
          decided,   \* decisions taken for each device, and by whom (history)
          delivered, \* token responses that reached each device, by user (history)
          now        \* the clock

vars == <<device, req, decided, delivered, now>>
-----------------------------------------------------------------------------
Decisions == {"approved", "denied"}

DeviceRow == [status: {"absent", "pending", "consumed"} \cup Decisions,
              user: Users \cup {None}, interval: Nat, polled: Nat \cup {None}, expires: Nat]

Steps == {"idle",
          "decide",    \* decision: transaction begun, row wanted
          "deciding",  \* decision: row locked, password being compared
          "poll",      \* poll: transaction begun, row wanted
          "issuing",   \* row locked, tokens being signed
          "issued",    \* tokens made, COMMIT still to come
          "respond"}   \* committed, token response on its way

\* began: when the transaction began, which is what now() means in it.
Request == [step: Steps, device: Devices \cup {None}, user: Users \cup {None}, began: Nat]

Idle == [step |-> "idle", device |-> None, user |-> None, began |-> 0]

NoDevice == [status |-> "absent", user |-> None, interval |-> 1, polled |-> None, expires |-> 0]

Init ==
    /\ device = [d \in Devices |-> NoDevice]
    /\ req = [r \in Requests |-> Idle]
    /\ decided = [d \in Devices |-> {}]
    /\ delivered = [d \in Devices |-> [u \in Users |-> 0]]
    /\ now = 0

Holds(r, d) == req[r].device = d /\ req[r].step \in {"deciding", "issuing", "issued"}

\* Mutant: the row is read without FOR UPDATE.
Unlocked(d) == TRUE
Free(d) == \A r \in Requests : ~Holds(r, d)

Expired(d) == device[d].expires < now

Goto(r, s) == req' = [req EXCEPT ![r].step = s]
Finish(r) == req' = [req EXCEPT ![r] = Idle]
-----------------------------------------------------------------------------
\* /device/authorization stores a row and answers both codes.
Register(d) ==
    /\ device[d] = NoDevice
    /\ device' = [device EXCEPT ![d] = [NoDevice EXCEPT !.status = "pending",
                                                        !.expires = now + Lifetime]]
    /\ UNCHANGED <<req, decided, delivered, now>>

\* A user decides, or the device polls: the transaction begins.
Arrive(r, d, step, u) ==
    /\ req[r] = Idle
    /\ device[d].status # "absent"
    /\ req' = [req EXCEPT ![r] = [step |-> step, device |-> d, user |-> u, began |-> now]]
    /\ UNCHANGED <<device, decided, delivered, now>>

\* The row is had: the handler looks at it.
Gets(r, step) == req[r].step = step /\ Free(req[r].device)
-----------------------------------------------------------------------------
(* The user's decision (POST /device).                                     *)

\* Mutant: the status is not looked at.
DecidableWhileAlive(d) == ~Expired(d)
Decidable(d) == device[d].status = "pending" /\ ~Expired(d)

LockForDecision(r) ==
    /\ Gets(r, "decide")
    /\ Decidable(req[r].device)
    /\ Goto(r, "deciding")
    /\ UNCHANGED <<device, decided, delivered, now>>

RefuseDecision(r) ==
    /\ Gets(r, "decide")
    /\ ~Decidable(req[r].device)
    /\ Finish(r)
    /\ UNCHANGED <<device, decided, delivered, now>>

\* The password is right.
Decide(r, choice) ==
    /\ req[r].step = "deciding"
    /\ device' = [device EXCEPT ![req[r].device].status = choice,
                                ![req[r].device].user = req[r].user]
    /\ decided' = [decided EXCEPT ![req[r].device] = @ \cup {<<req[r].user, choice>>}]
    /\ Finish(r)
    /\ UNCHANGED <<delivered, now>>
-----------------------------------------------------------------------------
(* Polling (deviceCodeGrant).                                              *)

TooFast(d) == device[d].polled # None /\ now - device[d].polled < device[d].interval

\* slow_down is committed, though only the interval changes.
SlowDown(r) ==
    /\ Gets(r, "poll")
    /\ ~Expired(req[r].device)
    /\ TooFast(req[r].device)
    /\ device[req[r].device].interval < MaxInterval
    /\ device' = [device EXCEPT ![req[r].device].interval = @ + 1]
    /\ Finish(r)
    /\ UNCHANGED <<decided, delivered, now>>

Examined(r) ==
    /\ Gets(r, "poll")
    /\ ~Expired(req[r].device)
    /\ ~TooFast(req[r].device)

\* authorization_pending and access_denied are committed with the time of BEGIN.
AnswerPoll(r) ==
    /\ Examined(r)
    /\ device[req[r].device].status \in {"pending", "denied"}
    /\ device' = [device EXCEPT ![req[r].device].polled = req[r].began]
    /\ Finish(r)
    /\ UNCHANGED <<decided, delivered, now>>

\* Mutant: the refusal commits the status 'expired'.
RefuseAndExpire(r) ==
    /\ Gets(r, "poll")
    /\ Expired(req[r].device)
    /\ device' = [device EXCEPT ![req[r].device].status = "expired"]
    /\ Finish(r)
    /\ UNCHANGED <<decided, delivered, now>>

\* The code is expired or consumed: rolled back.
RefusePoll(r) ==
    /\ Gets(r, "poll")
    /\ Expired(req[r].device) \/ (Examined(r) /\ device[req[r].device].status = "consumed")
    /\ Finish(r)
    /\ UNCHANGED <<device, decided, delivered, now>>

\* Approved: the row is marked consumed, uncommitted, and tokens are issued for
\* its user.
Redeem(r) ==
    /\ Examined(r)
    /\ device[req[r].device].status = "approved"
    /\ req' = [req EXCEPT ![r] = [@ EXCEPT !.step = "issuing", !.user = device[req[r].device].user]]
    /\ UNCHANGED <<device, decided, delivered, now>>

\* A refresh-token family is stored on another connection (TokenEndpoint).
IssueTokens(r) ==
    /\ req[r].step = "issuing"
    /\ Goto(r, "issued")
    /\ UNCHANGED <<device, decided, delivered, now>>

CommitRedemption(r) ==
    /\ req[r].step = "issued"
    /\ device' = [device EXCEPT ![req[r].device].status = "consumed",
                                ![req[r].device].polled = req[r].began]
    /\ Goto(r, "respond")
    /\ UNCHANGED <<decided, delivered, now>>

Respond(r) ==
    /\ req[r].step = "respond"
    /\ delivered' = [delivered EXCEPT ![req[r].device][req[r].user] = @ + 1]
    /\ Finish(r)
    /\ UNCHANGED <<device, decided, now>>
-----------------------------------------------------------------------------
\* A wrong password, a missing signing key, a lost connection or response:
\* nothing that was not committed remains.
Fail(r) ==
    /\ req[r] # Idle
    /\ Finish(r)
    /\ UNCHANGED <<device, decided, delivered, now>>

Tick ==
    /\ now < MaxClock
    /\ now' = now + 1
    /\ UNCHANGED <<device, req, decided, delivered>>

Serve(r) ==
    \/ \E d \in Devices : Arrive(r, d, "poll", None) \/ \E u \in Users : Arrive(r, d, "decide", u)
    \/ LockForDecision(r) \/ RefuseDecision(r) \/ \E choice \in Decisions : Decide(r, choice)
    \/ SlowDown(r) \/ AnswerPoll(r) \/ RefusePoll(r) \/ Redeem(r)
    \/ IssueTokens(r) \/ CommitRedemption(r) \/ Respond(r) \/ Fail(r)

Next ==
    \/ \E d \in Devices : Register(d)
    \/ \E r \in Requests : Serve(r)
    \/ Tick

Spec == Init /\ [][Next]_vars
-----------------------------------------------------------------------------
(* Properties.                                                             *)

\* Rows and requests have the shape the schema gives them.
TypeOK ==
    /\ device \in [Devices -> DeviceRow]
    /\ req \in [Requests -> Request]
    /\ decided \in [Devices -> SUBSET (Users \X Decisions)]
    /\ delivered \in [Devices -> [Users -> Nat]]
    /\ now \in Nat

\* "A device code is consumed only once" (docs/oauth-and-oidc.md:175): retried,
\* failed and concurrent polls bring the device at most one token response.
DeliveredOnce ==
    \A d \in Devices : \A u, v \in Users :
        /\ delivered[d][u] <= 1
        /\ delivered[d][u] > 0 /\ delivered[d][v] > 0 => u = v

\* Tokens are for the user who approved, and nobody else ever decided: of
\* decisions that race, the first settles the code (POST /device).
DeliveryFollowsTheOnlyDecision ==
    \A d \in Devices, u \in Users : delivered[d][u] > 0 => decided[d] = {<<u, "approved">>}
-----------------------------------------------------------------------------
(* The inductive invariant: why the properties hold.                       *)

\* What a request knows of its row: a locked row does not change under it, and
\* a response on its way is the first.
Grounded(r) ==
    LET row == device[req[r].device] IN
    /\ req[r].step # "idle" => req[r].device \in Devices /\ row.status # "absent"
    /\ req[r].step \in {"decide", "deciding"} => req[r].user \in Users
    /\ req[r].step = "deciding" => row.status = "pending"
    /\ req[r].step \in {"issuing", "issued"} => row.status = "approved" /\ req[r].user = row.user
    /\ req[r].step = "respond" => /\ row.status = "consumed" /\ req[r].user = row.user
                                  /\ \A u \in Users : delivered[req[r].device][u] = 0

RequestsAreGrounded == \A r \in Requests : Grounded(r)

LocksAreExclusive ==
    \A p, q \in Requests, d \in Devices : Holds(p, d) /\ Holds(q, d) => p = q

OneResponse ==
    \A p, q \in Requests :
        /\ req[p].step = "respond" /\ req[q].step = "respond"
        /\ req[p].device = req[q].device
        => p = q

\* The row tells which decisions were taken, and who may have tokens.
RowTellsAll(d) ==
    LET row == device[d] IN
    /\ row.status \in {"absent", "pending"} => decided[d] = {}
    /\ row.status = "denied" => \A w \in decided[d] : w[2] = "denied"
    /\ row.status \in {"approved", "consumed"} =>
         row.user \in Users /\ decided[d] = {<<row.user, "approved">>}
    /\ \A u \in Users : /\ delivered[d][u] <= 1
                        /\ delivered[d][u] > 0 => row.status = "consumed" /\ u = row.user

RowsTellAll == \A d \in Devices : RowTellsAll(d)

DeviceInv == TypeOK /\ RequestsAreGrounded /\ LocksAreExclusive /\ OneResponse /\ RowsTellAll
=============================================================================
