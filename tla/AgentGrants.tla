----------------------------- MODULE AgentGrants -----------------------------
(***************************************************************************)
(* Delegation grants of registered agents: approval by the user, delivery  *)
(* of the first token, delegation to another agent by token exchange,      *)
(* recording of usage along the ancestry, revocation of a subtree, the     *)
(* kill switch of an agent and the hourly expiry (oauth/authorization.ts,  *)
(* oauth/tokens.ts, api/agents.ts, workers.ts).                            *)
(*                                                                         *)
(* As in TokenEndpoint, agent and grant hold committed rows, a transaction *)
(* writes when it commits, and row locks follow from where a request       *)
(* stands: it holds the grants in its field locked and, between the steps  *)
(* named in HoldsAgent, one agent row.  PostgreSQL aborts one transaction  *)
(* of every cycle of waiters.                                              *)
(***************************************************************************)
EXTENDS Naturals, FiniteSets, Functions

CONSTANTS Requests,   \* requests in flight
          Agents,     \* agent_identities rows
          Grants,     \* delegation_grants rows; the numbers are the order of their ids
          None,       \* no agent, no grant, no maximum_usage
          MaxDepth,   \* maximum_delegation_depth of each agent, 0 when it may not delegate
          Budgets,    \* values maximum_usage takes
          Lifetimes,  \* lifetimes a new grant takes
          MaxClock,   \* bound on the clock
          MaxReports  \* bound on the reports a grant counts, for unlimited budgets

ASSUME GrantsAreOrdered == Grants \subseteq Nat
ASSUME NoneIsNobody == None \notin Agents \cup Grants \cup Nat
ASSUME RegistrationsAreSane ==
    /\ MaxDepth \in [Agents -> 0..5]
    /\ Budgets \subseteq (Nat \ {0}) \cup {None}
    /\ Lifetimes \subseteq Nat
    /\ MaxClock \in Nat

VARIABLES agent,   \* status of each agent and of its OAuth client
          grant,   \* committed delegation_grants rows
          held,    \* grants whose access token was delivered
          req,     \* where each request stands
          uses,    \* usage reports accepted for each grant (history)
          now      \* the clock

vars == <<agent, grant, held, req, uses, now>>
rows == <<agent, grant>>
-----------------------------------------------------------------------------
(* Rows and requests.                                                      *)

Ended == {"completed", "revoked", "expired"}

GrantRow == [status: {"absent", "active"} \cup Ended, actor: Agents \cup {None},
             parent: Grants \cup {None}, depth: 0..5, max: Nat \cup {None},
             usage: Nat, expires: Nat]

Steps == {"idle",
          "approving",    \* approval: the agent was read, the grant is to be stored
          "exchanging",   \* token exchange: agents read, parent grant row wanted
          "examining",    \* token exchange: parent grant locked, actor's row wanted
          "delegating",   \* token exchange: parent accepted, child to be stored
          "using",        \* usage: the lineage is being locked
          "counting",     \* usage: lineage locked and found usable
          "revoking",     \* revocation: the affected grants are being locked
          "killing",      \* kill switch: agent row updated
          "sweeping"}     \* kill switch: the affected grants are being locked

Request == [step: Steps, agent: Agents \cup {None}, grant: Grants \cup {None},
            wanted: SUBSET Grants, locked: SUBSET Grants]

Idle == [step |-> "idle", agent |-> None, grant |-> None, wanted |-> {}, locked |-> {}]

NewGrant(a, parent, depth, max, expires) ==
    [status |-> "active", actor |-> a, parent |-> parent, depth |-> depth,
     max |-> max, usage |-> 0, expires |-> expires]

NoGrant == [NewGrant(None, None, 0, None, 0) EXCEPT !.status = "absent"]

Init ==
    /\ agent = [a \in Agents |-> "active"]
    /\ grant = [g \in Grants |-> NoGrant]
    /\ held = {}
    /\ req = [r \in Requests |-> Idle]
    /\ uses = [g \in Grants |-> 0]
    /\ now = 0
-----------------------------------------------------------------------------
(* Ancestry, as the recursive queries walk it, and row locks.              *)

\* The grants S and everything above them.
Above(S) ==
    LET up[n \in 0..5] ==
          IF n = 0 THEN S ELSE up[n - 1] \cup ({grant[g].parent : g \in up[n - 1]} \ {None})
    IN up[5]

\* The grants S and everything delegated from them.
Below(S) ==
    LET down[n \in 0..5] ==
          IF n = 0 THEN S ELSE down[n - 1] \cup {g \in Grants : grant[g].parent \in down[n - 1]}
    IN down[5]

Active(S) == {g \in S : grant[g].status = "active"}

HoldsAgent(r, a) ==
    \/ req[r].step = "delegating" /\ grant[req[r].grant].actor = a
    \/ req[r].step \in {"killing", "sweeping"} /\ req[r].agent = a

\* SELECT ... FOR UPDATE also blocks the foreign-key check of an INSERT; the
\* kill switch's UPDATE does not.
BlocksInsert(r, a) == req[r].step = "delegating" /\ HoldsAgent(r, a)

\* Mutant: the rows are read without FOR UPDATE.
GrantUnlocked(r, g) == TRUE

GrantFree(r, g) == \A q \in Requests \ {r} : g \notin req[q].locked
AgentFree(r, a) == \A q \in Requests \ {r} : ~HoldsAgent(q, a)
InsertFree(r, a) == \A q \in Requests \ {r} : ~BlocksInsert(q, a)

\* Bound: a request that will store a grant starts only while a row is left for it.
Room ==
    Cardinality({g \in Grants : grant[g] = NoGrant}) >
    Cardinality({q \in Requests :
        req[q].step \in {"approving", "exchanging", "examining", "delegating"}})

Goto(r, s) == req' = [req EXCEPT ![r].step = s]
Finish(r) == req' = [req EXCEPT ![r] = Idle]
Start(r, s, a, g, wanted) ==
    /\ req[r] = Idle
    /\ req' = [req EXCEPT ![r] = [step |-> s, agent |-> a, grant |-> g,
                                  wanted |-> wanted, locked |-> {}]]
-----------------------------------------------------------------------------
(* Approval and the first token.                                           *)

\* The user approved an agent's request; the agent is read without a lock, on
\* another connection.
ReadAgent(r, a) ==
    /\ Room
    /\ agent[a] = "active"
    /\ Start(r, "approving", a, None, {})
    /\ UNCHANGED <<rows, held, uses, now>>

\* The root grant is stored with its authorization code.
StoreGrant(r, g, max, life) ==
    /\ req[r].step = "approving"
    /\ grant[g] = NoGrant
    /\ InsertFree(r, req[r].agent)
    /\ grant' = [grant EXCEPT ![g] = NewGrant(req[r].agent, None, 0, max, now + life)]
    /\ Finish(r)
    /\ UNCHANGED <<agent, held, uses, now>>

\* The code of a root grant is exchanged (TokenEndpoint sees to its single use):
\* the grant, locked, and its agent, read on another connection, must be usable.
\* The transaction changes nothing of the grant but the key it is bound to.
RedeemRoot(g) ==
    /\ grant[g].parent = None
    /\ grant[g].status = "active"
    /\ ~(grant[g].expires < now)
    /\ agent[grant[g].actor] = "active"
    /\ \A r \in Requests : g \notin req[r].locked
    /\ held' = held \cup {g}
    /\ UNCHANGED <<rows, req, uses, now>>
-----------------------------------------------------------------------------
(* Delegation by token exchange.                                           *)

\* The agent acting under g presents its access token and another agent's
\* assertion: both agents are read before the transaction, without a lock.
PresentToken(r, g, b) ==
    /\ Room
    /\ g \in held
    /\ agent[grant[g].actor] = "active"
    /\ agent[b] = "active"
    /\ Start(r, "exchanging", b, g, {})
    /\ UNCHANGED <<rows, held, uses, now>>

\* SELECT ... FOR UPDATE of the join locks the parent grant, then its actor.
LockParent(r) ==
    /\ req[r].step = "exchanging"
    /\ GrantFree(r, req[r].grant)
    /\ req' = [req EXCEPT ![r] = [@ EXCEPT !.step = "examining", !.locked = {req[r].grant}]]
    /\ UNCHANGED <<rows, held, uses, now>>

Delegable(g) ==
    /\ grant[g].status = "active"
    /\ ~(grant[g].expires < now)
    /\ grant[g].depth < MaxDepth[grant[g].actor]

AcceptParent(r) ==
    /\ req[r].step = "examining"
    /\ AgentFree(r, grant[req[r].grant].actor)
    /\ Delegable(req[r].grant)
    /\ Goto(r, "delegating")
    /\ UNCHANGED <<rows, held, uses, now>>

\* The parent cannot be delegated, or the resource, the scopes or the actions
\* asked for do not fit it or the receiving agent.
RefuseExchange(r) ==
    /\ req[r].step = "examining"
    /\ AgentFree(r, grant[req[r].grant].actor)
    /\ Finish(r)
    /\ UNCHANGED <<rows, held, uses, now>>

\* Mutant: the child is stored at the parent's depth.
StoreSibling(r, c) ==
    /\ req[r].step = "delegating"
    /\ grant[c] = NoGrant
    /\ InsertFree(r, req[r].agent)
    /\ LET p == req[r].grant IN
         grant' = [grant EXCEPT ![c] =
            NewGrant(req[r].agent, p, grant[p].depth, grant[p].max, grant[p].expires)]
    /\ held' \in {held, held \cup {c}}
    /\ Finish(r)
    /\ UNCHANGED <<agent, uses, now>>

\* The child copies the parent's budget and expiry, and is committed before
\* its token is issued: the token may be missing, for a disabled subject, for
\* want of a signing key or because the response is lost.
StoreChild(r, c) ==
    /\ req[r].step = "delegating"
    /\ grant[c] = NoGrant
    /\ InsertFree(r, req[r].agent)
    /\ LET p == req[r].grant IN
         grant' = [grant EXCEPT ![c] =
            NewGrant(req[r].agent, p, grant[p].depth + 1, grant[p].max, grant[p].expires)]
    /\ held' \in {held, held \cup {c}}
    /\ Finish(r)
    /\ UNCHANGED <<agent, uses, now>>
-----------------------------------------------------------------------------
(* Usage.                                                                  *)

\* The ancestry is read without a lock: parents never change.
ReportUsage(r, g) ==
    /\ grant[g].status # "absent"
    /\ \A h \in Above({g}) : grant[h].usage < MaxReports
    /\ Start(r, "using", None, g, Above({g}))
    /\ UNCHANGED <<rows, held, uses, now>>

\* Mutant: the rows are locked as the plan meets them, without ORDER BY.
LockLineageInAnyOrder(r, g) ==
    /\ req[r].step = "using"
    /\ g \in req[r].wanted
    /\ GrantFree(r, g)
    /\ req' = [req EXCEPT ![r].wanted = @ \ {g}, ![r].locked = @ \cup {g}]
    /\ UNCHANGED <<rows, held, uses, now>>

\* ORDER BY id FOR UPDATE.
LockLineage(r, g) ==
    /\ req[r].step = "using"
    /\ g \in req[r].wanted
    /\ \A h \in req[r].wanted : g <= h
    /\ GrantFree(r, g)
    /\ req' = [req EXCEPT ![r].wanted = @ \ {g}, ![r].locked = @ \cup {g}]
    /\ UNCHANGED <<rows, held, uses, now>>

Exhausted(g) == grant[g].max # None /\ grant[g].usage >= grant[g].max

Usable(g) == grant[g].status = "active" /\ ~(grant[g].expires <= now) /\ ~Exhausted(g)

\* The locked rows are examined.
AcceptUsage(r) ==
    /\ req[r].step = "using"
    /\ req[r].wanted = {}
    /\ \A g \in req[r].locked : Usable(g)
    /\ Goto(r, "counting")
    /\ UNCHANGED <<rows, held, uses, now>>

\* Mutant: the budget is compared with the count before the use.
UsedBeforeCounting(row) ==
    [row EXCEPT !.usage = @ + 1,
                !.status = IF row.max # None /\ row.usage >= row.max THEN "completed" ELSE @]

\* One more use of a grant; its last one completes it.
Used(row) ==
    [row EXCEPT !.usage = @ + 1,
                !.status = IF row.max # None /\ row.usage + 1 >= row.max THEN "completed" ELSE @]

\* Mutant: only the reported grant is charged.
CountOwnUsage(r) ==
    /\ req[r].step = "counting"
    /\ grant' = [grant EXCEPT ![req[r].grant] = Used(@)]
    /\ uses' = [uses EXCEPT ![req[r].grant] = @ + 1]
    /\ Finish(r)
    /\ UNCHANGED <<agent, held, now>>

\* UPDATE of the whole lineage, then COMMIT.
CountUsage(r) ==
    /\ req[r].step = "counting"
    /\ grant' = [g \in Grants |-> IF g \in req[r].locked THEN Used(grant[g]) ELSE grant[g]]
    /\ uses' = [uses EXCEPT ![req[r].grant] = @ + 1]
    /\ Finish(r)
    /\ UNCHANGED <<agent, held, now>>

\* Mutant: the refusal leaves its transaction open.
RefuseWithoutRollback(r) ==
    /\ req[r].step = "using"
    /\ req[r].wanted = {}
    /\ \E g \in req[r].locked : ~Usable(g)
    /\ Goto(r, "using")
    /\ UNCHANGED <<rows, held, uses, now>>

RefuseUsage(r) ==
    /\ req[r].step = "using"
    /\ req[r].wanted = {}
    /\ \E g \in req[r].locked : ~Usable(g)
    /\ Finish(r)
    /\ UNCHANGED <<rows, held, uses, now>>
-----------------------------------------------------------------------------
(* Revocation and the kill switch.                                         *)

\* The statement's snapshot fixes which grants are affected.
BeginRevoke(r, g) ==
    /\ grant[g].status = "active"
    /\ Start(r, "revoking", None, g, Active(Below({g})))
    /\ UNCHANGED <<rows, held, uses, now>>

\* UPDATE agent_identities: the agent's row is taken.
BeginKill(r, a) ==
    /\ agent[a] = "active"
    /\ AgentFree(r, a)
    /\ Start(r, "killing", a, None, {})
    /\ UNCHANGED <<rows, held, uses, now>>

\* UPDATE delegation_grants starts, with a snapshot of its own.
BeginSweep(r) ==
    /\ req[r].step = "killing"
    /\ req' = [req EXCEPT ![r] = [@ EXCEPT !.step = "sweeping",
          !.wanted = Active(Below({g \in Grants : grant[g].actor = req[r].agent}))]]
    /\ UNCHANGED <<rows, held, uses, now>>

\* The affected rows are locked as the plan meets them.
LockAffected(r, g) ==
    /\ req[r].step \in {"revoking", "sweeping"}
    /\ g \in req[r].wanted
    /\ GrantFree(r, g)
    /\ req' = [req EXCEPT ![r].wanted = @ \ {g}, ![r].locked = @ \cup {g}]
    /\ UNCHANGED <<rows, held, uses, now>>

\* Mutant: the rows found affected are revoked, whatever became of them.
RevokedAsFound(S) ==
    [g \in Grants |-> IF g \in S THEN [grant[g] EXCEPT !.status = "revoked"] ELSE grant[g]]

\* Mutant: the status of the agent is written to its grants.
DisabledGrants(S) ==
    [g \in Grants |-> IF g \in Active(S) THEN [grant[g] EXCEPT !.status = "disabled"]
                                         ELSE grant[g]]

\* A row that ended while the statement waited for it is left alone.
Revoked(S) ==
    [g \in Grants |-> IF g \in Active(S) THEN [grant[g] EXCEPT !.status = "revoked"]
                                         ELSE grant[g]]

CommitRevoke(r) ==
    /\ req[r].step = "revoking"
    /\ req[r].wanted = {}
    /\ grant' = Revoked(req[r].locked)
    /\ Finish(r)
    /\ UNCHANGED <<agent, held, uses, now>>

CommitKill(r) ==
    /\ req[r].step = "sweeping"
    /\ req[r].wanted = {}
    /\ grant' = Revoked(req[r].locked)
    /\ agent' = [agent EXCEPT ![req[r].agent] = "disabled"]
    /\ Finish(r)
    /\ UNCHANGED <<held, uses, now>>

\* Only the agent and its client come back.
Enable(a) ==
    /\ agent[a] = "disabled"
    /\ \A r \in Requests : ~HoldsAgent(r, a)
    /\ agent' = [agent EXCEPT ![a] = "active"]
    /\ UNCHANGED <<grant, held, req, uses, now>>
-----------------------------------------------------------------------------
(* Time, retention and deadlocks.                                          *)

Overdue == {g \in Grants : grant[g].status = "active" /\ grant[g].expires <= now}

\* The hourly UPDATE; it waits until it has every overdue row.
ExpireGrants ==
    /\ Overdue # {}
    /\ \A g \in Overdue, r \in Requests : g \notin req[r].locked
    /\ grant' = [g \in Grants |-> IF g \in Overdue THEN [grant[g] EXCEPT !.status = "expired"]
                                                  ELSE grant[g]]
    /\ UNCHANGED <<agent, held, req, uses, now>>

Tick ==
    /\ now < MaxClock
    /\ now' = now + 1
    /\ UNCHANGED <<rows, held, req, uses>>

\* The grant rows request r is waiting to lock.
WantsGrant(r) ==
    CASE req[r].step = "exchanging" -> {req[r].grant}
      [] req[r].step = "using" -> {g \in req[r].wanted : \A h \in req[r].wanted : g <= h}
      [] OTHER -> req[r].wanted

\* r cannot move before q ends.
WaitsFor(r, q) ==
    /\ q # r
    /\ \/ WantsGrant(r) \cap req[q].locked # {}
       \/ req[r].step = "examining" /\ HoldsAgent(q, grant[req[r].grant].actor)
       \/ req[r].step \in {"approving", "delegating"} /\ BlocksInsert(q, req[r].agent)

\* r waits, through others, for itself.
InCycle(r) ==
    \A S \in SUBSET Requests :
        (\A q \in Requests, p \in S \cup {r} : WaitsFor(p, q) => q \in S) => r \in S

DeadlockVictim(r) ==
    /\ InCycle(r)
    /\ Finish(r)
    /\ UNCHANGED <<rows, held, uses, now>>
-----------------------------------------------------------------------------
Arrive(r) ==
    \/ \E a \in Agents : ReadAgent(r, a) \/ BeginKill(r, a)
    \/ \E g \in Grants : ReportUsage(r, g) \/ BeginRevoke(r, g)
    \/ \E g \in Grants, b \in Agents : PresentToken(r, g, b)

Proceed(r) ==
    \/ \E g \in Grants, max \in Budgets, life \in Lifetimes : StoreGrant(r, g, max, life)
    \/ LockParent(r) \/ AcceptParent(r) \/ RefuseExchange(r)
    \/ \E c \in Grants : StoreChild(r, c)
    \/ \E g \in Grants : LockLineage(r, g) \/ LockAffected(r, g)
    \/ AcceptUsage(r) \/ CountUsage(r) \/ RefuseUsage(r)
    \/ BeginSweep(r) \/ CommitRevoke(r) \/ CommitKill(r)

Next ==
    \/ \E r \in Requests : Arrive(r) \/ Proceed(r) \/ DeadlockVictim(r)
    \/ \E a \in Agents : Enable(a)
    \/ \E g \in Grants : RedeemRoot(g)
    \/ ExpireGrants
    \/ Tick

Spec == Init /\ [][Next]_vars
-----------------------------------------------------------------------------
(* Properties.                                                             *)

\* Rows and requests have the shape the schema gives them; the depth CHECK of
\* delegation_grants never fires.
TypeOK ==
    /\ agent \in [Agents -> {"active", "disabled"}]
    /\ grant \in [Grants -> GrantRow]
    /\ held \subseteq Grants
    /\ req \in [Requests -> Request]
    /\ uses \in [Grants -> Nat]
    /\ now \in Nat

\* A budget is never overdrawn, not even by reports that arrive together, and
\* the use that exhausts it completes the grant (/agent-grants/:grantId/usage).
BudgetsHold ==
    \A g \in Grants : grant[g].max # None =>
        /\ grant[g].usage <= grant[g].max
        /\ grant[g].status = "active" => grant[g].usage < grant[g].max
        /\ grant[g].status = "completed" => grant[g].usage = grant[g].max

\* Usage is consumed "atomically across the complete grant ancestry"
\* (docs/api.md:122): every grant has counted exactly the reports accepted for
\* it and all that its children have counted.
UsageCountsTheSubtree ==
    \A g \in Grants :
        grant[g].usage = uses[g] + SumFunctionOnSet([h \in Grants |-> grant[h].usage],
                                                    {h \in Grants : grant[h].parent = g})

\* A report is counted only while the grant and every grant above it is active
\* and within its budget: whatever was revoked, expired or used up since the
\* ancestry was read or while its rows were being locked stops the report
\* (/agent-grants/:grantId/usage).
UsesAreAuthorized ==
    [][\A g \in Grants : uses'[g] # uses[g] =>
         \A h \in Above({g}) : grant[h].status = "active" /\ ~Exhausted(h)]_vars

\* How a grant ended is settled once: a revocation that waited for a grant does
\* not overwrite its completion, and nothing brings it back (api/agents.ts).
EndingsAreFinal ==
    [][\A g \in Grants : grant[g].status \in Ended => grant'[g].status = grant[g].status]_vars

\* A child stays within the grant it was delegated from, which was still active
\* when the child was stored: it is one deeper and no deeper than the parent's
\* agent was registered for, ends no later, and never counts more uses
\* (tokenExchangeGrant).
DelegationNarrows ==
    \A c \in Grants : \A p \in Grants : grant[c].parent = p =>
        /\ grant[c].depth = grant[p].depth + 1
        /\ grant[c].depth <= MaxDepth[grant[p].actor]
        /\ grant[c].expires <= grant[p].expires
        /\ grant[c].usage <= grant[p].usage

\* A child is stored only under a grant that is active at that very moment.
ParentsAreActive ==
    [][\A c \in Grants : grant[c] = NoGrant /\ grant'[c].parent # None =>
         grant[grant'[c].parent].status = "active"]_vars

\* Usage reports alone never deadlock, however many arrive together and however
\* their ancestries overlap: some report always waits for no other one.  This is
\* what the ORDER BY of /agent-grants/:grantId/usage is for.
ReportsNeverDeadlock ==
    \A S \in SUBSET {r \in Requests : req[r].step \in {"using", "counting"}} :
        S # {} /\ IsFiniteSet(S) => \E r \in S : \A q \in S : ~WaitsFor(r, q)

\* Every request ends: the lock order of the usage reports and PostgreSQL's
\* deadlock detection leave nobody waiting.
RequestsFinish == \A r \in Requests : req[r].step # "idle" ~> req[r].step = "idle"

\* PostgreSQL queues the waiters of a row and aborts one of a cycle; a handler
\* that can go on does.
Fairness ==
    \A r \in Requests : SF_vars(Proceed(r)) /\ WF_vars(DeadlockVictim(r))

FairSpec == Spec /\ Fairness

\* "Disabling an agent also disables its OAuth client and revokes all of its
\* active grants" (docs/oauth-and-oidc.md).  The code does not keep it: a grant that
\* is being approved is stored after the sweep.
DisabledAgentsHaveNoActiveGrant ==
    \A g \in Grants : grant[g].status = "active" => agent[grant[g].actor] = "active"

\* "Recursively revoke a grant and all delegated descendants" (docs/api.md:121).
RevocationReachesDescendants ==
    \A g \in Grants : grant[g].status = "revoked" =>
        \A d \in Below({g}) : grant[d].status # "active"
-----------------------------------------------------------------------------
(* Refinement.                                                             *)

\* What DelegationTree sees of a row: neither the agent nor the expiry.
Node(row) == [status |-> row.status, parent |-> row.parent, level |-> row.depth,
              max |-> row.max, used |-> row.usage]

Forest == [g \in Grants |-> Node(grant[g])]

Tree == INSTANCE DelegationTree WITH MaxLevel <- 5, tree <- Forest

\* The forest of grants behaves as DelegationTree promises, whatever requests do
\* at once (api/agents.ts, tokenExchangeGrant, workers.ts).
KeepsDelegation == Tree!Spec
-----------------------------------------------------------------------------
(* The inductive invariants: why the properties hold.                      *)

Stored == {g \in Grants : grant[g].status # "absent"}

Authorizes(g) == grant[g].status = "active" /\ ~Exhausted(g)

\* An unused row is as it was created; a stored grant has an actor and, when it
\* was delegated, a stored parent; only a stored one is delivered.
GrantsAreGrounded ==
    /\ \A g \in Grants : /\ g \notin Stored => grant[g] = NoGrant
                         /\ g \in Stored => grant[g].actor \in Agents
                         /\ grant[g].parent # None => grant[g].parent \in Stored
    /\ held \subseteq Stored

\* What a request knows of the grants it locked: nobody else changes them.
Grounded(r) ==
    LET x == req[r] IN
    /\ x.wanted \cup x.locked \subseteq Stored
    /\ x.step \in {"approving", "exchanging", "examining", "delegating", "killing", "sweeping"} =>
         x.agent \in Agents
    /\ x.step \in {"exchanging", "examining", "delegating", "using", "counting"} => x.grant \in Stored
    /\ x.step \in {"examining", "delegating"} => x.grant \in x.locked
    /\ x.step = "delegating" => /\ grant[x.grant].status = "active"
                                /\ grant[x.grant].depth < MaxDepth[grant[x.grant].actor]
    /\ x.step \in {"using", "counting"} => x.wanted \cup x.locked = Above({x.grant})
    /\ x.step = "counting" => x.wanted = {} /\ \A g \in x.locked : Authorizes(g)

RequestsAreGrounded == \A r \in Requests : Grounded(r)

LocksAreExclusive ==
    \A q, r \in Requests : q # r => req[q].locked \cap req[r].locked = {}

GrantInv ==
    /\ TypeOK
    /\ GrantsAreGrounded
    /\ DelegationNarrows
    /\ BudgetsHold
    /\ RequestsAreGrounded
    /\ LocksAreExclusive

\* A report has locked the lower ids of its lineage and wants the higher ones.
LocksInOrder ==
    \A r \in Requests : req[r].step = "using" =>
        \A g \in req[r].locked, h \in req[r].wanted : g < h

\* The books as well: only finitely many grants are ever stored.
LedgerInv ==
    /\ GrantInv
    /\ IsFiniteSet(Stored)
    /\ UsageCountsTheSubtree
=============================================================================
