# Authometry in TLA+

Authometry is an OAuth 2.x / OpenID Connect server with support for registered
agents (`src/apps/server`), a console (`src/apps/web`), a command-line client and
an MCP transport. Everything it knows is in PostgreSQL; its HTTP handlers are
stateless and run concurrently, on several connections and possibly several
processes. What can go wrong is therefore in the interleaving of transactions:
which rows a handler locks, what it reads without a lock and uses later, what a
rollback undoes, and what is committed on another connection meanwhile.

This directory specifies that behaviour in TLA+, checks it with TLC on small
instances and, but for liveness, proves it with TLAPS for every instance.
Line numbers refer to files under `src/apps/server/src` unless a path says more.

## 1. Inventory

| Component | State (tables) | Operations | What is hard | What makes it correct |
|---|---|---|---|---|
| Token endpoint: codes, refresh tokens (`oauth/tokens.ts`, `lib/oauth.ts`) | `authorization_codes`, `refresh_token_families`, `refresh_tokens` | redeem a code, rotate, detect reuse, revoke | row locks in opposite orders; a family committed on another connection inside an open transaction; rollback by throwing; lost responses | a code yields one delivered family, a live family has one current token, a closed family is dead, no token outlives its family |
| Delegation grants (`api/agents.ts`, `oauth/tokens.ts`, `oauth/authorization.ts`, `workers.ts`) | `agent_identities`, `delegation_grants` | approve, first token, token exchange, usage, revoke a subtree, disable and enable an agent, hourly expiry | recursive queries on a snapshot, then locks; budgets shared by a whole ancestry; agents read outside the transaction | budgets hold, usage adds up, children stay within their parents, endings are final, revocation reaches everything |
| Authorization requests (`oauth/authorization.ts`) | `pushed_authorization_requests`, `pending_authorization_requests`, `consent_grants`, sessions, codes | PAR, authorize, login, social callback, consent, policy, code | a pending request is loaded once without a lock and acted upon by several tabs | no code without login and consent, single-use `request_uri`, silence under `prompt=none` |
| Device authorization (`oauth/tokens.ts`, `oauth/resources.ts`) | `device_authorizations` | register, poll, slow down, approve, deny, redeem | polls race with each other and with decisions, and fail midway | one delivery, for the user whose decision was the only one |
| Client authentication, assertions, DPoP (`oauth/common.ts`, `oauth/agents.ts`) | replay tables of `jti`s | verify and remember | replay against retention | a `jti` is accepted once while its assertion is valid |
| Accounts and social login (`auth/portal.ts`, `oauth/authorization.ts`, `lib/identity-password.ts`, `lib/identity-mfa.ts`, users in `api/dashboard.ts`) | `identity_users`, `identity_mfa_recovery_codes`, `social_identities`, `user_sessions`, states and link tokens | sign in, sign up, link, unlink, change and reset a password, enable and disable a second factor, create and delete users | what was compared, counted or looked up is used in a later statement; only some handlers lock the user | sessions on an old password end, a user keeps a way in, a provider's account belongs to one user |
| Administrators, CLI sign-in (`auth/admin.ts`, `auth/cli.ts`, `api/settings.ts`) | `admin_users`, `workspace_memberships`, `admin_refresh_sessions`, `one_time_tokens`, `cli_authorization_codes`, `personal_access_tokens`; cookies | bootstrap, sign in, renew, log out, reset, invite, change roles, authorize the CLI | a cookie states a role that has changed; renewals overlap logouts; two owners demote each other | one bootstrap, stale claims fade, a reset ends sessions, a workspace keeps an owner |
| Signing keys (`lib/signing.ts`, `api/settings.ts`, `workers.ts`) | `signing_keys` | rotate, retire | rotation against the life of issued tokens | one active key; a live token's key is published |
| Webhooks (`workers.ts`, provisioning in `api/settings.ts`) | `webhooks`, `audit_events`, `webhook_deliveries`; the connected service | queue, dispatch, retry, synchronise, disconnect | overlapping runs without locks, lost answers, crashes, events that one statement queues | the service ends up with the right accounts, every delivery ends after bounded attempts |
| Configuration (`api/configuration.ts`, `packages/config`, editing in `api/dashboard.ts`) | applications, scopes, policies with `version` and `ownership`; `workspace_settings`, `configuration_deployments` | plan, apply, status; create, edit and delete in the dashboard | a plan computed before the advisory lock; ownership checked in an earlier statement; an edit on a stale page | an apply is what its plan said, drift has a cause, no edit is lost, manifests and dashboard respect each other |
| Policies, claims; read-only endpoints; traces and audit; plumbing; CLI; MCP transport; web application | no protocol state | – | – | – |

`PROJECT.json` lists the same components with their source files and status, and
under `hazards` the places in the code that a test would hardly reach, each with
the properties that would notice.

The parts interact through rows and calls. The authorization endpoint stores a code, and for an
agent also its root grant; the token endpoint redeems the code, and for an agent
looks at the grant; the device flow ends in the same `issueTokenSet`, which
opens a refresh-token family; token exchange turns a grant's access token into a
child grant; the worker expires grants. Each module stops at such a boundary and says
so in a comment: the code that `AuthorizationRequest` issues is `GrantCode` of
`TokenEndpoint`, the family that `DeviceAuthorization` obtains is one that
`IssueFamily` opens, the grant that an agent's code carries is `StoreGrant` of
`AgentGrants`. `AuthorizationRequest` and `Accounts` look at the same login from two sides: the
first at what it does to a pending request, the second at what it does to the user's links and
sessions. `Webhooks` sees of a user only that it was created and deleted.

## 2. Modules

How a handler becomes actions is the same everywhere. A variable that stands for a table
holds the **committed** rows. A handler's transaction is a sequence of actions on
`req` (`hand` for the authorization endpoint): one per statement that may
wait, fail or let another request in; its writes appear in the row variables only in
the action that commits. Row locks are derived from where each request
stands (`HoldsToken`, `HoldsFamily`, `HoldsAgent`, the field `locked`), so a rollback is
just the request going back to `Idle`. Isolation is READ COMMITTED, PostgreSQL's
default, which `db.ts` does not change: a row
is examined in the version that is committed when its lock is obtained. Errors
thrown inside `transaction()` (`db.ts`) roll back whatever the handler had written, the
UPDATE to `expired` of `refreshTokenGrant` included.

Operators commented "Mutant" are the code with a plausible bug in it; no behaviour
of the modules uses them. `PROJECT.json` says which property each one breaks.

### RefreshFamily
What a client may rely on: a family opens once, while live it accepts exactly one
token, a rotation replaces it by one never seen before, and a dead family stays dead.

### DelegationTree
What the owner of a delegation may rely on: grants form a forest that only grows at active leaves no
deeper than the schema allows, a use is charged in one step to a grant and to everything above it, and only while all
of them may be used, the last use completes a grant, and an ending is final. Requests, locks, agents
and expiry dates do not occur in it.

### TokenEndpoint (`oauth/tokens.ts`, `lib/oauth.ts`, `db.ts`)

| State | Code |
|---|---|
| `code`, `family`, `token` | committed rows of the three tables |
| `req[r].step` | the statement a request has reached, from which its locks follow |
| `known` | refresh tokens that reached a client |
| `now` | the clock of `expires_at` comparisons |

`RedeemCode`, `IssueFamily`/`IssueAccessOnly`, `CommitRedemption` are
`authorizationCodeGrant`; the family is committed by `issueTokenSet` on a
connection of its own before the redemption commits. `PresentToken` … `CommitReuse` are
`refreshTokenGrant`: the joined `SELECT … FOR UPDATE` takes the token row, then the
family row. `RequestRevocation`, `RevokeFamily`, `CommitRevocation` are `/revoke`,
which takes the family row, then the token rows. `LoseResponse`, `SigningFails`,
`ConnectionFails` and `DeadlockVictim` are the faults, each switched on by `Faults`.

### AgentGrants (`api/agents.ts`, `oauth/tokens.ts`, `oauth/authorization.ts`, `workers.ts`)
`agent` and `grant` are rows; `held` the grants whose access token was delivered;
`uses` counts accepted reports. Ancestry is what the recursive queries compute
(`Above`, `Below`); revocation and the kill switch fix the affected grants by the snapshot of
their statement (`BeginRevoke`, `BeginSweep`) and lock them one by one, in any order
(`LockAffected`), a usage report locks in id order (`LockLineage`), a
token exchange locks the parent grant and then its agent. A waiter re-examines the status
of a row it gets (`Revoked`). `InCycle` is PostgreSQL's deadlock detection over `WaitsFor`.
`Forest` is what `DelegationTree` sees of the rows.

### AuthorizationRequest (`oauth/authorization.ts`)
`pushed`, `pending`, `consent`, `signedIn`, `codes` are rows; `hand` where each handler
stands; `shown` the requests whose id a browser got; `log` what users really
did. There are no long transactions here: every statement commits on its own, so between
any two of them another handler may move. `Open…`, `SendToLogin`, `GoOnWithSession`,
`AnswerSilently`, `NeedConsent`, `AskConsent` are `authorize`; `LoadForLogin`, `SignIn`,
`ReadConsent`, `AskConsentAgain` the login and `continueAfterAuthentication`; `Deny` and
`Approve` are `/consent`; `DenyByPolicy` and `IssueCode` `authorizationRedirect`.

### DeviceAuthorization (`oauth/tokens.ts`, `oauth/resources.ts`)
`device` are rows, `decided` and `delivered` what users chose and what devices got.
`Register`, `LockForDecision`/`Decide`/`RefuseDecision` (POST `/device`) and
`SlowDown`, `AnswerPoll`, `RefusePoll`, `Redeem`, `IssueTokens`, `CommitRedemption`
(`deviceCodeGrant`). `began` is the transaction's `now()`, which is what `last_polled_at`
gets, while the pace is checked against the time after the lock was obtained.

### Configuration (`api/configuration.ts`, `packages/config`, `api/dashboard.ts`)
`row` are the applications, scopes and policies by name, each with the columns
`version` and `ownership`; `settings` what the instance manifest declares; `deployed` the deployment
that `/config/status` looks at, which is the one with the latest `applied_at`, that is, the latest
BEGIN. The endpoint (`Status`) fails when something cannot be read back as a manifest (`Readable`). `PlanApply` is
the handler up to the plan (`CurrentManifests`, `BuildPlan`), `BeginApply` the
BEGIN, `CommitApply` everything from the advisory lock to COMMIT
(`ApplyPlan`: applications, then policies, then scopes, the order of the keys), `FailApply` the ROLLBACK when an
entry fails. `ReadResource`,
`CheckApplication`, `UpdateApplication`, `PatchScope`, `PatchPolicy`, `Create…`, `DeleteApplication`
and `PatchSettings` are the dashboard. The read, the check and the UPDATE of an application are three steps; scopes
and policies are checked by the UPDATE itself. The settings belong to the workspace, not to the
environment: `ApplyElsewhere` is another environment's apply. `causes` is history: why the environment may
differ from the last apply. A request that is over forgets what it worked on.

A directory is whatever the handler accepts (`ValidDirectory`), including what it never reads back as it was:
- a document spelled otherwise than `rowToManifest` spells it ("60s", which is the default of an application's code lifetime and
  comes back as "1m"; "168h"; an issuer with a trailing slash; an empty description);
- a key written twice: the plan has the last document, the hash of the deployment all of them;
- a Scope whose `spec.value` is not its name. `docs` is indexed by the name, `of` is the value, which is the name of the row.
  One plan may so create a row and delete it again, or delete it and then create it, as the key order has it (`Entry`, `KeyOrder`);
- a Scope that is one of the system scopes (`seedSystemScopes`), which `resourceRows` never reads, adopted or not (`ReadBackRows`);
- a policy for several applications, which the database returns in an order of its own choice.

`AsReadBack` holds of the other directories. Before the first deployment the
instance is compared with fixed defaults except for issuer and session lifetime, and is parsed, which refuses a session lifetime
in seconds (`CurrentInstance`, `Readable`).

What is simplified: names stand for the keys kind/name and kinds do not share names; the issuer goes with the session lifetime, and instances have
one name and one list of algorithms; the queries of `currentManifests` are one moment; no two deployments begin at the same
microsecond; several documents for one row count as one new version.

### Administrators (`auth/admin.ts`, `auth/cli.ts`, `api/settings.ts`)
`role`, `session`, `link`, `code` are rows, `jar` the cookies of a browser whose tabs share
them, `request` and `cli` the handlers at work. `AuthenticateByAccess` trusts the claims
of the access cookie; `ReadSession`/`RenewSession` renew it from the refresh session in two
steps that a logout or a reset may separate. `Login`, `CountAdmins`/`Bootstrap` and
`AcceptInvitation` lead to `CreateSession`, an INSERT of its own. `InviteMember` and
`PatchMember` act with the role the request was authenticated with. `ExchangeCode` and
`IssueToken` are `/auth/cli/token`. `Tick` is a lifetime of the access cookie; the
history variables say how long ago a role or a session ended, and how the last owner went.

### Webhooks (`workers.ts`, `api/settings.ts`)
One provisioning connection is followed to its deletion. `Enqueue` and `Select` are the two statements with which a run of
`dispatchPendingWebhooks` starts; then every delivery of the batch is sent (`Deliver`, `Miss`)
and recorded (`Record`). The SELECT … FOR UPDATE SKIP LOCKED commits at once, so
that it protects nothing afterwards, but it passes over rows whose connection a synchronisation
holds, and the foreign key makes `Enqueue` wait for it. Rows inserted by one statement share
`created_at`: the order of one user's events within it is lost (`Tied`). `receiver` is the connected
service, which processes a delivery once, as the documents ask of it. `Crash` ends a run or an
open transaction.

### Accounts (`auth/portal.ts`, `oauth/authorization.ts`, `lib/identity-*.ts`, `api/dashboard.ts`)
`account`, `link`, `session` are rows; `hand` the handlers at work. Two strengths of row lock
matter: a user selected FOR UPDATE stops the foreign-key check of every INSERT that names the
user (`HeldForUpdate`), a plain UPDATE does not (`BeingUpdated`). A sign-in is `ReadLogin`,
`Prove` (second factor) and `InsertSession`; `SocialLogin` and `SocialSignUp` come from the providers,
`OfferLink` gives a user with a password the token with which `CheckTokenLink` and
`InsertTokenLink` link the account. The portal links by `StartLink`, `CheckPortalLink` and `InsertPortalLink`, and
unlinks by `CountLinks` and `Unlink`. `ComparePassword`, `BeginChange`, `CommitPassword` change a
password, `BeginReset` resets it; `SetUpMfa`, `EnableMfa`, `ReadFactor`, `DisableMfa` are the second factor. The
INSERTs of sessions by the portal and by the authorization server are one action (the
portal's, which may happen more often). Where a request names a provider, it is chosen at the later step.
`accepted`, `mark`, `stale` and `missed` are history.

### MC modules
`MC…` modules give the constants of an instance and the symmetry sets.
`MCConfiguration` holds the manifest directories. Each `…_proofs` module holds the theorems about
the module it is named after, with the lemmas they rest on.

## 3. What TLC checks

Deadlock checking is off everywhere: an instance has finitely many rows and ticks, and
once they are used up the system rightly stops.
Symmetry is used for rows and requests that nothing distinguishes, never under liveness
properties.

| Run | Instance | Shows |
|---|---|---|
| `token_endpoint` | 3 requests, 2 clients, 1 code, 2 families, 3 tokens, all faults, 2 lifetimes, clock to 2 | `TypeOK`; `ExactlyOneCurrentToken`; `ClosedFamilyIsFullyRevoked`; `RotationIsAChain`; `OneDeliveredFamilyPerCode`; `NoTokenOutlivesItsFamily`; `KeepsPromise` (refinement of `RefreshFamily`) |
| `token_liveness` | 3 requests, 1 family, 3 tokens, deadlocks | `RequestsFinish` |
| `agent_delegation` | 2 requests, 3 grants of one agent, budget 1 | `TypeOK`; `UsageCountsTheSubtree`; `BudgetsHold`; `DelegationNarrows`; `ReportsNeverDeadlock`; `KeepsDelegation` (refinement of `DelegationTree`) |
| `agent_usage` | 2 requests, 2 grants, a clock that passes their expiry | `UsesAreAuthorized`; `RequestsFinish` |
| `agent_revocation` | 2 requests, 2 agents, 2 grants | **violated**: `RevocationReachesDescendants` |
| `authorization_request` | 2 handlers, 2 requests, 1 pushed request, 1 user, 2 scopes, six kinds of request | `TypeOK`; `CodesAreConsented`; `PushedRequestsOpenOnce`; `PromptNoneIsSilent` |
| `authorization_fresh_login` | 2 handlers, 2 requests, 2 users, `prompt=login` | `CodesAreAuthenticated` |
| `device_authorization` | 3 requests, 2 users, 1 device code, lifetime 2, clock to 3 | `TypeOK`; `DeliveredOnce`; `DeliveryFollowsTheOnlyDecision` |
| `configuration` | 3 applies, 2 edits, 3 directories, an application, a policy and three scopes, one of them a system scope | `TypeOK` (with `PublishedHasLaunchUri`); `DriftHasACause`; `RestrictedStaysRestricted`; `OwnershipIsRespected`; `NoLostUpdate` |
| `administrators` | 2 administrators, 2 requests in one browser, 2 CLI processes, 2 sessions, 1 link, 1 code | `TypeOK` (with `OneBootstrap`, `CodeYieldsOneToken`); `AccessFades`; `ResetEndsSessions`; `OwnerRemains` |
| `webhooks` | 1 user, 2 overlapping runs, 2 attempts, batches of 1, 1 synchronisation, 1 crash | `TypeOK` (with `AttemptsAreBounded`); `ServiceAgrees`; `SucceededStays`; `EventsAreSettled` |
| `accounts` | 2 users, 2 handlers, 2 sessions, 2 Google accounts and 1 at GitHub | `TypeOK`; `SessionsAreEarned`; `SocialLinksAreSafe` |

Why these bounds are enough to meet the interesting cases. Two requests are
needed for any race or deadlock; the third of `token_endpoint` lets a rotation, a
detected reuse and a revocation meet on one family, and three tokens let a family be
rotated twice or two families compete for one code. The clock goes one tick beyond the
lifetimes, so that rows are met alive, at their expiry and expired. Three grants make
both a chain of depth two and a parent with two children; budget 1 is exhausted by the
first of two reports that arrive together. Unlimited budgets occur in the instance of
`agent_revocation` only. The requests of `authorization_request` carry overlapping scopes,
so that one consent does and another does not cover what is asked for. `MaxInterval` bounds
the interval of a device just above `MaxClock`: beyond it every poll is too fast anyway.
In `configuration` every request happens once; three applies are needed for a plan that is
stale in two ways and for two deployments that commit in the other order, two edits for
every stale page. Two directories are as the server reads them, one with other default lifetimes than a new workspace has; the third is
odd in every way at once: another spelling of an application and of the instance, the system scope `email`, and twice a document of scope
`a` that declares scope `b`, so that `b` is planned for deletion next time. Each of the five causes is needed: without any one of them TLC finds
a drift. In `administrators` two requests suffice for every overlap of two handlers, and one tick
is the lifetime of an access cookie. In `webhooks` one user's two
events are what can be reordered; a batch of two was checked apart (`Limit = 2` changes nothing in the
results). In `accounts` both Google accounts may carry alice's address, so that two links of one
provider and a conflict over one account occur, while GitHub's gives a user two methods;
only alice enrols a second factor (`Enrolling`), and an address is used again only when no handler
knows its last user (`IsFree`).

`MaxReports`, `MaxClock`, `MaxInterval`, `MaxSyncs`, `MaxCrashes`, `Enrolling` and the operator `Room` (a request that
will store a grant starts only while a row is left) are the only bounds in guards; the other
sets bound rows and requests.

### Fairness
`FairSpec` asks, for every request, strong fairness of `Proceed` (the steps the server takes by itself
once a request has arrived) and weak fairness of `DeadlockVictim`. The first is what
PostgreSQL's queues of row waiters give: a row that is released is handed to a waiter,
and a waiter that is passed over again and again eventually gets it; the event loop runs every handler whose
statement has returned. The second is the deadlock detector. Arrivals, failures and the clock have no
fairness: nobody has to call. `RequestsFinish` needs both parts, because the token and the grant handlers do
lock in opposite orders.

`Webhooks!FairSpec` asks weak fairness of `Work`, the disjunction of what server and time do by
themselves: the timer starts runs for ever, a fetch gives up after ten seconds, a transaction ends
and a retry time comes. One condition for the whole is enough, because every run of `Work` is finite:
attempts are bounded, so work that can be done runs out, and only
when all of it is done does the system rest. Crashes are bounded and have no fairness.

### Where the code and its documents disagree
`agent_revocation` is a run, expected to be violated:

- **Revocation misses a child that is being stored.** The recursive query of the revocation saw the tree before it
  waited for the row that the token exchange holds; docs/api.md:121 says "Recursively revoke a
  grant and all delegated descendants."

The others are stated as formulas of the modules, with a comment that they do not hold, and are not runs. To
see a counterexample, name the formula in the .cfg given here.

| Formula | In | What happens |
|---|---|---|
| `CodeIsOneTimeEvenIfSigningFails` | TokenEndpoint.cfg, PROPERTIES | `oauth/tokens.ts:212` says "Token issuance performs its own writes after this code is committed. The code remains one-time even if signing fails"; `issueTokenSet` is called inside the transaction, and its failure rolls the mark back. One code still delivers one family (`OneDeliveredFamilyPerCode`). |
| `DetectedReuseClosesFamily` | TokenEndpoint.cfg, PROPERTIES | docs/oauth-and-oidc.md:138 says that reuse "revokes the entire family". The reuse branch holds the family and wants every token row, another refresh holds one of those and wants the family. If PostgreSQL aborts the first, the family stays active. |
| `DisabledAgentsHaveNoActiveGrant` | AgentRevocation.cfg, INVARIANTS | docs/oauth-and-oidc.md says that disabling an agent "revokes all of its active grants"; a grant that is being approved is missed: the agent was read, active, before the sweep, its grant is stored after it. |
| `NoCodeAfterDenial` | AuthorizationRequest.cfg, PROPERTIES | The trace step at `oauth/authorization.ts:1495` says "No authorization code is issued after consent is denied."; a handler that loaded the pending request before another tab denied it issues the code and overwrites the status. |
| `StaysManageable` | Configuration.cfg, INVARIANTS, with `Scopes <- DocumentedScopes`, `SystemScopes = {}`, `Slugs = {"invoices-read"}`, `KeyOrder <- DocumentedOrder`, `Directories <- DocumentedDirectories` | The scope `invoices:read` of docs/configuration.md is stored under its value, which `manifestSchema` refuses as a name when it is read back: after one apply, plan, status and export fail. |
| `RolesAreTheOwners` | Administrators.cfg, PROPERTIES | docs/api.md:177 says that role changes require the owner; POST `/settings/members` by an administrator gives an existing member another role. |

One more disagreement needs no model. docs/api.md:130 says of `/sessions/:sessionId/revoke` "Revoke a session
and its refresh family"; `api/dashboard.ts`, `auth/portal.ts` and `lib/identity-password.ts` revoke the family that
`user_sessions.refresh_family_id` names, but no statement of the repository writes that column, so a family never
ends with a session or a password. `Accounts` therefore has sessions without families, and `TokenEndpoint` closes
families by reuse and `/oauth/revoke` only.

Other things the models make visible, of which no document says otherwise: a directory that is not `AsReadBack` is
reported as drift as soon as it is applied, and for ever: a lifetime written "60s", a key written twice, a Scope document named like a system
scope, which is planned as "create" by every apply; a Scope document that declares another scope writes a row that the next apply
of the same directory plans to delete and then to create or, by the order of the names, creates and then deletes; before the first deployment an instance with the
default lifetimes and consent is "unchanged" although the workspace has others; until then a session lifetime in seconds
(PATCH `/settings/general` accepts any whole number) makes plan, status and export fail; two unlinks at once can
take the last sign-in method, two links from the portal at once can add a second account of a
provider, a link to an account that somebody else has just linked reports success (exempted in `SocialLinksAreSafe`); a login
that overlaps a change of password keeps its session (`SessionsAreEarned`); a social sign-in does not ask for
the second factor; an old setup token replaces a factor enabled meanwhile; a change that compared the old password
overrides a reset in between; an overlapped dispatcher turns `succeeded` into `failed` (`SucceededStays`).

## 4. What TLAPS proves

A module `X_proofs` proves of `X!Spec`, for every value of the constants that satisfies the
assumptions `X` makes of them, what the runs check on an instance. The runs evaluate the
assumptions. Sets are arbitrary, infinite ones included, unless the table says finite.

| Theorem | States |
|---|---|
| **TokenEndpoint** | assumes `NoneIsNoRow`, `FaultsAreKnown`, `TimesAreNaturals` |
| `TypeCorrect`, `OneCurrentToken`, `ClosedMeansRevoked`, `ChainOfRotations`, `FamilyBoundsLifetimes`, `OneFamilyPerCode` | `[]` of `TypeOK`, `ExactlyOneCurrentToken`, `ClosedFamilyIsFullyRevoked`, `RotationIsAChain`, `NoTokenOutlivesItsFamily`, `OneDeliveredFamilyPerCode` |
| `ImplementsRefreshFamily` | `KeepsPromise`: every step is a step of `RefreshFamily` or leaves it unchanged |
| **DeviceAuthorization** | assumes `NoneIsNobody`, `TimesAreNaturals` |
| `DeviceInvariant`, `TypeCorrect`, `DeliveredOnceHolds`, `DeliveryFollowsTheOnlyDecisionHolds` | `[]` of `DeviceInv`, `TypeOK`, `DeliveredOnce`, `DeliveryFollowsTheOnlyDecision` |
| **AuthorizationRequest** | assumes `NoneIsNobody`, `ParametersAreKnown` |
| `RequestInvariant`, `TypeCorrect`, `CodesAreConsentedHolds`, `CodesAreAuthenticatedHolds`, `PushedRequestsOpenOnceHolds`, `PromptNoneIsSilentHolds` | `[]` of `RequestInv`, `TypeOK`, `CodesAreConsented`, `CodesAreAuthenticated`, `PushedRequestsOpenOnce`, `PromptNoneIsSilent` |
| **AgentGrants** | assumes `GrantsAreOrdered`, `NoneIsNobody`, `RegistrationsAreSane` (depths up to 5: the CHECK of `delegation_grants`) |
| `GrantInvariant`, `TypeCorrect`, `BudgetsHoldAlways`, `DelegationNarrowsAlways`, `UsageCountsTheSubtreeAlways`, `ReportsNeverDeadlockAlways` | `[]` of `GrantInv`, `TypeOK`, `BudgetsHold`, `DelegationNarrows`, `UsageCountsTheSubtree`, `ReportsNeverDeadlock` |
| `ImplementsDelegationTree` | `KeepsDelegation`: every step is a step of `DelegationTree` or leaves the forest unchanged |
| `EndingsStayFinal`, `ParentsAreActiveThen`, `UsesStayAuthorized` | the action properties `UsesAreAuthorized`, which a run checks, and `EndingsAreFinal` and `ParentsAreActive`, which the refinement implies |
| **Administrators** | assumes `LifetimeIsPositive`, `NoneIsNobody` |
| `AdminInvariant`, `TypeCorrect`, `AccessFadesAlways`, `ResetEndsSessionsAlways`, `OwnerRemainsAlways` | `[]` of `AdminInv`, `TypeOK`, `AccessFades`, `ResetEndsSessions`, `OwnerRemains` |
| **Accounts** | assumes `SubjectsHaveProviders`, `SubjectsHaveAddresses`, `SubjectsAreFinite` (methods are counted), `NoneIsNobody` |
| `AccountInvariant`, `TypeCorrect`, `SessionsAreEarnedAlways` | `[]` of `AccountInv`, `TypeOK`, `SessionsAreEarned` |
| `SocialLinksAreSafeAlways` | the action property `SocialLinksAreSafe` |
| **Configuration** | assumes `RequestsAreFinite` (writes are counted), `DefaultIsAText`, `SystemScopesAreScopes`, `NamesAreDisjoint`, `KeysAreSorted` (of some scopes' keys one is the last), `DirectoriesAreValid` (what the handler accepts, and no more) |
| `ConfigInvariant`, `TypeCorrect`, `DriftHasACauseAlways` | `[]` of `ConfigInv`, `TypeOK`, `DriftHasACause` |
| `NoLostUpdateAlways`, `OwnershipIsRespectedAlways`, `RestrictedStaysRestrictedAlways` | the action properties `NoLostUpdate`, `OwnershipIsRespected`, `RestrictedStaysRestricted` |
| **Webhooks** | assumes `UsersAndRunsAreFinite` (holders, rows and events are counted), `BoundsAreNaturals` |
| `WebhooksInvariant`, `TypeCorrect`, `ServiceAgreesAlways` | `[]` of `WebhooksInv`, `TypeOK`, `ServiceAgrees` |
| `SucceededStaysAlways` | the action property `SucceededStays` |

### The arguments
Hardly any of the properties is inductive. Each module but `TokenEndpoint`, whose invariants are
with their proofs, ends with its inductive invariant, a conjunction of named parts that TLC
checked on the instance of the run. What they have in common: a part for every
handler says, for each place where it can stand, what it knows of the rows; the rest says which
of that other handlers can make untrue meanwhile. `Next` is split by action, and the parts that an
action cannot disturb are settled by lemmas that say so once.

- **TokenEndpoint.** That a family has one current
  token after `CommitRotation` depends on what the request saw when it got its locks still
  being true. `FamilyInv` adds: `RequestsAreGrounded` (a rotating request's family is active and its
  token unspent; its successor is not stored), `LocksAreExclusive` (no two
  requests hold one family or draw one successor), `TokensAreGrounded` (token rows belong to stored
  families). Each action belongs to the request that holds the
  family, or leaves that family's rows alone, or creates rows nobody refers to.
  For `OneFamilyPerCode`, `CodesAreGrounded` adds that a code's row is held by one request at a time,
  remains issued until that request commits, and that released
  tokens go back to consumed codes only. The refinement uses the mapping at the end of `TokenEndpoint`;
  by `ExactlyOneCurrentToken` the CHOOSE in `CurrentToken` has one candidate.
- **DeviceAuthorization.** A poll works on the row as it was when it took the lock
  (`RequestsAreGrounded`), locks exclude each other, and the row's status tells who decided and
  whether tokens were obtained (`RowsTellAll`), so that a second poll finds it consumed.
- **AuthorizationRequest.** Handlers act on a snapshot of an unlocked row. `HandlersAreGrounded`
  says what the snapshot still guarantees whatever others did since. `Authenticated` and `Agreed` are
  about the logins and consents there have been, which only grow, and a row's parameters never change.
- **AgentGrants.** The rows of an ancestry are locked before they are counted:
  `RequestsAreGrounded` and `LocksAreExclusive` make what a report saw still true when it
  commits. By `DelegationNarrows` a parent is one less deep than its child, and no grant is deeper than 5: the
  ancestry that the recursive query collects is closed under parents after five rounds
  (`AboveCloses`), without induction.
  `UsageCountsTheSubtree` is inductive together with the rest of `LedgerInv`: the ancestry of a grant is a chain
  (`AncestryIsAChain`), so a report adds one to a grant's own reports or to exactly one of its children, and a new
  child has counted nothing. `SumFunctionOnSet` is a recursive function; that it has a value, and how the value changes with
  one element (`SumTakesOut`), goes by induction over finite sets, as an argument about the least
  counterexample (`LeastSet`): only finitely many rows are ever stored.
  `LocksInOrder` says that a report has the lower ids of its ancestry and wants the higher ones.
  If each of finitely many reports waited for another, the one that waits for the largest id would wait for a report that
  holds this id and waits for a larger one.
  The refinement maps a row to its status, parent, depth, budget and usage (`Forest`); `CountUsage` is `Use`, for the
  rows it locked are the ancestry at that moment (`AncestryIsAbove`), and
  revocations, completions and expiries are `End`.
- **Administrators.** A cookie carries a claim and a lifetime. `CookieOK` says that what it claims and has been untrue for
  some time leaves the cookie less than the rest of its lifetime; `RequestOK` says the same of
  a handler that read the cookie or a row.
- **Accounts.** Three handlers act on what they counted or compared earlier. `LinkerOK`, `CounterOK` and
  `CommitterOK` say that it is still so, or that another handler committed in between in one of the
  ways the properties except (`missed`, `stale`), or that the row is locked (`HoldersAreAlone`).
- **Configuration.** The main lemma is convergence: carrying out a plan that is not stale, for a directory that
  is `AsReadBack`, leaves rows that read back as that directory (`PlanConverges`). What an entry makes of a row is
  said for every accepted directory first (`EntryOutcome`, `PlanIsCommitted`): it is written by one of the documents that
  declare it, or deleted, or left alone. Besides,
  id and version identify what a row said when a client saw it (`EditOK`), although the
  versions of a recreated row start anew; applies have distinct stamps (`ApplyOK`), so that the
  latest deployment is the last commit unless two applies overlapped.
- **Webhooks.** An attempt is bounded together with the runs that are about to make one: `AttemptsOK` adds
  the holders of a row to its attempts, and says that two holders have marked it as shared.
  For `ServiceAgrees` the order of a user's two events is followed through: the removal is queued after
  everything else about the user (`LastOK`), a run has a user's earlier rows before the removal or the service
  knows of them (`BatchOK`; this is where ORDER BY and LIMIT are needed), and so the service hears of the removal
  last (`ReceiverOK`), unless the user is in `unordered`. `RowsAreIds` counts the rows: one per event, one per
  user and synchronisation.

### Only model-checked
Liveness under fairness (`RequestsFinish`, `EventsAreSettled`) and ENABLED are out of the prover's reach.
Every invariant and action property of the passing runs has a theorem. `RevocationReachesDescendants` is what
the code does not do. Nor does it do what
the table at the end of §3 lists.

## 5. What is not modelled
- Requests that a handler refuses before it has locked or written anything that
  matters, and the wording of every answer.
- Signatures, hashing, TLS, mail and other pure functions; a policy's verdict, a password's
  correctness and a signing key's presence are nondeterministic choices.
- The connection pool. `issueTokenSet` takes a second connection while its caller holds the
  first, so that enough concurrent redemptions can exhaust the pool until the five-second
  time-out of `db.ts` fails them; the models let the second connection always be there, and
  let it fail (`ConnectionFails`).
- Access tokens as JWTs: signing keys, introspection, revocation by `jti`, client credentials,
  replay tables. Each is one atomic statement, or one look at rows that other modules change.
- Agent registration and key rotation; the variant of the authorization endpoint for MCP clients.
- Groups, assignments, profiles, avatars, invitations of users, launching of applications.
- Several workspaces of one administrator, social sign-in of administrators beyond the session it opens, and the danger zone.
- In `Configuration`: claim mappings, which are stored like scopes; refusals by the validation of documents; new secrets of applications; migrations that
  change rows in an upgrade. In `Webhooks`: events older than
  24 hours, secrets that do not decrypt, and subscriptions other than provisioning.
- The web application, the CLI and the MCP transport, two thirds of the lines: they keep no state of the protocols.
- The components with status `not_modelled` in `PROJECT.json`, with the reasons given there.

## 6. Plan
What is left: signing keys with the access tokens they sign, and a connection pool over the token endpoint.
