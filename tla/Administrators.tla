---- MODULE Administrators ----
(***************************************************************************)
(* Administrators of a workspace: bootstrap, sign-in, the access cookie    *)
(* (a JWT that carries the role) and the refresh session that renews it,   *)
(* password reset, invitations, roles, and the sign-in of the CLI          *)
(* (auth/admin.ts, auth/cli.ts, api/settings.ts members and tokens).       *)
(*                                                                         *)
(* Handlers are split where they wait between two looks at the database;   *)
(* requests (the tabs of a browser share its cookies) interleave.  There   *)
(* is one workspace, and time passes only between requests.                *)
(***************************************************************************)
EXTENDS Integers, FiniteSets

CONSTANTS
  Admins,                  \* the people, by email address
  Browsers, Requests,      \* cookie jars, and the requests in flight
  Clis,                    \* processes of the CLI
  Sessions, Links, Codes,  \* rows there can be: sessions, one-time tokens, CLI codes
  AccessLifetime,          \* of the access cookie: 10 minutes
  None                     \* null

ASSUME LifetimeIsPositive == AccessLifetime \in Nat \ {0}
ASSUME NoneIsNobody == None \notin Admins \union Browsers \union Sessions \union Codes
                                     \union {"owner", "admin"}

Roles  == {"owner", "admin"}   \* the other three may do none of what is here
NoJar  == [access |-> None, refresh |-> None]
NoRow  == [user |-> None, live |-> FALSE, resets |-> 0]
NoLink == [user |-> None, purpose |-> "none", live |-> FALSE]
NoCode == [user |-> None, live |-> FALSE, token |-> "none"]
NoLogin == [verified |-> None]
Idle   == [step |-> "idle", browser |-> None, user |-> None, role |-> None,
           session |-> None]

VARIABLES
  role,      \* workspace_memberships; None: no such account
  session,   \* admin_refresh_sessions
  link,      \* one_time_tokens: password_reset and account_link
  code,      \* cli_authorization_codes, and the token each was exchanged for
  jar,       \* Browsers -> access and refresh cookies
  request,   \* Requests -> the handler at work
  cli,       \* Clis -> progress of `authometry login`
  \* history; how long ago is counted up to LongAgo
  held,      \* Admins -> Roles -> how long ago the account had the role
  ended,     \* Sessions -> how long ago it was revoked
  resets,    \* Admins -> password resets so far
  founders,  \* the owners bootstrap made
  unowned    \* why the workspace has no owner any more

history == <<held, ended, resets, founders, unowned>>
vars == <<role, session, link, code, jar, request, cli, history>>

LongAgo      == AccessLifetime
Later(age)   == IF age < LongAgo THEN age + 1 ELSE age
Exists(u)    == role[u] # None
Unused(T, none) == {i \in DOMAIN T : T[i] = none}
HasOwner(m)  == \E u \in Admins : m[u] = "owner"
Start(r, s)  == request[r].step = "idle" /\ request' = [request EXCEPT ![r] = s]
Goto(r, s)   == request' = [request EXCEPT ![r].step = s]
Respond(r)   == request' = [request EXCEPT ![r] = Idle]

----
(* Cookies and sessions *)

\* Mutant: the JWT is good for longer than the properties of the session allow.
AccessCookieLong(u, m, s) == [user |-> u, role |-> m, session |-> s,
                              ttl |-> AccessLifetime + 1]

\* signAdminAccessToken: user and role stay as signed until the cookie expires.  The
\* session is there for the properties: the JWT does not name it.
AccessCookie(u, m, s) == [user |-> u, role |-> m, session |-> s,
                          ttl |-> AccessLifetime]

\* requireAdmin, access cookie: no query, the claims are the administrator.
AuthenticateByAccess(r, b) ==
  LET access == jar[b].access IN
  /\ access # None
  /\ Start(r, [step |-> "acting", browser |-> b, user |-> access.user,
               role |-> access.role, session |-> access.session])
  /\ UNCHANGED <<role, session, link, code, jar, cli, history>>

\* readAdminRefreshSession
SessionReads(s) == session[s].live

\* POST /auth/refresh, whether or not there is an access cookie, and requireAdmin
\* without one, which are not told apart: the SELECT, which joins the session with the
\* membership as it is now.
ReadSession(r, b) ==
  LET s == jar[b].refresh IN
  /\ s # None
  /\ SessionReads(s)
  /\ Start(r, [step |-> "renewing", browser |-> b, user |-> session[s].user,
               role |-> role[session[s].user], session |-> s])
  /\ UNCHANGED <<role, session, link, code, jar, cli, history>>

\* renewAdminSession does not look at the row again; the handler behind
\* requireAdmin goes on with the role that was read.
RenewSession(r) ==
  LET q == request[r] IN
  /\ q.step = "renewing"
  /\ jar' = [jar EXCEPT ![q.browser] = [access |-> AccessCookie(q.user, q.role, q.session),
                                        refresh |-> q.session]]
  /\ Goto(r, "acting")
  /\ UNCHANGED <<role, session, link, code, cli, history>>

\* clearAdminSession: the cookies of a session that no longer reads.
RefuseSession(b) ==
  /\ jar[b].refresh # None /\ jar[b].access = None
  /\ ~SessionReads(jar[b].refresh)
  /\ jar' = [jar EXCEPT ![b] = NoJar]
  /\ UNCHANGED <<role, session, link, code, request, cli, history>>

\* A handler that changes nothing of this module's state.
Answer(r) ==
  /\ request[r].step = "acting"
  /\ Respond(r)
  /\ UNCHANGED <<role, session, link, code, jar, cli, history>>

Revoked(S)  == [s \in Sessions |-> IF s \in S THEN [session[s] EXCEPT !.live = FALSE]
                                   ELSE session[s]]
EndedNow(S) == [s \in Sessions |-> IF s \in S /\ session[s].live THEN 0 ELSE ended[s]]

\* POST /auth/logout: the session is revoked and the browser's cookies go.
Logout(b) ==
  LET s == jar[b].refresh IN
  /\ s # None
  /\ session' = Revoked({s})
  /\ ended' = EndedNow({s})
  /\ jar' = [jar EXCEPT ![b] = NoJar]
  /\ UNCHANGED <<role, link, code, request, cli, held, resets, founders, unowned>>

\* createSession, after the handler made sure of the user: an INSERT of its own, then
\* both cookies, with the role that was read before.
CreateSession(r) ==
  LET q == request[r] IN
  /\ q.step = "signing-in"
  /\ \E s \in Unused(session, NoRow) :
       /\ session' = [session EXCEPT ![s] = [user |-> q.user, live |-> TRUE,
                                             resets |-> resets[q.user]]]
       /\ jar' = [jar EXCEPT ![q.browser] = [access |-> AccessCookie(q.user, q.role, s),
                                             refresh |-> s]]
  /\ Respond(r)
  /\ UNCHANGED <<role, link, code, cli, history>>

SigningIn(b, u, m) == [Idle EXCEPT !.step = "signing-in", !.browser = b, !.user = u, !.role = m]

----
(* Ways in *)

\* POST /auth/login and the last transaction of a social login: the account and its
\* role are read; bcrypt's compare lies between this and createSession.
Login(r, b, u) ==
  /\ Exists(u)
  /\ Start(r, SigningIn(b, u, role[u]))
  /\ UNCHANGED <<role, session, link, code, jar, cli, history>>

\* POST /auth/bootstrap: SELECT count(*) FROM admin_users takes no lock ...
CountAdmins(r, b) ==
  /\ \A u \in Admins : ~Exists(u)
  /\ Start(r, [Idle EXCEPT !.step = "bootstrapping", !.browser = b])
  /\ UNCHANGED <<role, session, link, code, jar, cli, history>>

\* Mutant: no unique index stands in the way of a second installation.
IssuerFreeAlways == TRUE

\* ... but environments.issuer is UNIQUE, and every bootstrap's production
\* environment has the public origin as its issuer.
IssuerFree == founders = {}

Bootstrap(r, u) ==
  /\ request[r].step = "bootstrapping"
  /\ IssuerFree /\ ~Exists(u)
  /\ role' = [role EXCEPT ![u] = "owner"]
  /\ held' = [held EXCEPT ![u]["owner"] = 0]
  /\ founders' = founders \union {u}
  /\ request' = [request EXCEPT ![r] = SigningIn(request[r].browser, u, "owner")]
  /\ UNCHANGED <<session, link, code, jar, cli, ended, resets, unowned>>

\* POST /auth/forgot-password: earlier links stay good.
ForgotPassword(u) ==
  /\ Exists(u)
  /\ \E l \in Unused(link, NoLink) :
       link' = [link EXCEPT ![l] = [user |-> u, purpose |-> "password_reset", live |-> TRUE]]
  /\ UNCHANGED <<role, session, code, jar, request, cli, history>>

\* Mutant: no session is revoked.
SessionsToEndNone(u) == {}

SessionsToEnd(u) == {s \in Sessions : session[s].user = u}

\* POST /auth/reset-password: one transaction behind FOR UPDATE of the link.
ResetPassword(l) ==
  LET u == link[l].user IN
  /\ link[l].live /\ link[l].purpose = "password_reset"
  /\ link' = [link EXCEPT ![l].live = FALSE]
  /\ resets' = [resets EXCEPT ![u] = @ + 1]
  /\ session' = Revoked(SessionsToEnd(u))
  /\ ended' = EndedNow(SessionsToEnd(u))
  /\ UNCHANGED <<role, code, jar, request, cli, held, founders, unowned>>

\* POST /auth/invitation: sets the password, and leaves sessions as they are.
AcceptInvitation(r, b, l) ==
  LET u == link[l].user IN
  /\ link[l].live /\ link[l].purpose = "account_link"
  /\ link' = [link EXCEPT ![l].live = FALSE]
  /\ Start(r, SigningIn(b, u, role[u]))
  /\ UNCHANGED <<role, session, code, jar, cli, history>>

----
(* Members *)

\* The role of u becomes m: held closes the old role's time, unowned says how the
\* last owner went.
SetRole(u, m, cause) ==
  /\ role' = [role EXCEPT ![u] = m]
  /\ held' = [held EXCEPT ![u][m] = 0]
  /\ unowned' = IF HasOwner(role) /\ ~HasOwner(role') THEN unowned \union {cause} ELSE unowned

\* POST /settings/members: whoever has the address gets the role, member or not.
InviteMember(r, u, m) ==
  /\ request[r].step = "acting" /\ request[r].role \in {"owner", "admin"}
  /\ m # "owner"
  /\ SetRole(u, m, "invited again")
  /\ \/ Exists(u) /\ UNCHANGED link
     \/ ~Exists(u) /\ \E l \in Unused(link, NoLink) :
          link' = [link EXCEPT ![l] = [user |-> u, purpose |-> "account_link", live |-> TRUE]]
  /\ Respond(r)
  /\ UNCHANGED <<session, code, jar, cli, ended, resets, founders>>

\* Mutant: owners may demote themselves.
MayDemoteSelf(self, u, m) == TRUE

\* cannot_demote_self
MayDemote(self, u, m) == u # self \/ m = "owner"

\* PATCH /settings/members/:memberId
PatchMember(r, u, m) ==
  LET q == request[r] IN
  /\ q.step = "acting" /\ q.role = "owner"
  /\ MayDemote(q.user, u, m)
  /\ Exists(u)
  /\ SetRole(u, m, IF role[q.user] = "owner" THEN "demoted" ELSE "stale owner")
  /\ Respond(r)
  /\ UNCHANGED <<session, link, code, jar, cli, ended, resets, founders>>

----
(* The CLI *)

\* POST /auth/cli/authorize, by a session of the dashboard.
AuthorizeCli(r) ==
  /\ request[r].step = "acting" /\ request[r].session # None
  /\ \E c \in Unused(code, NoCode) :
       code' = [code EXCEPT ![c] = [user |-> request[r].user, live |-> TRUE, token |-> "none"]]
  /\ Respond(r)
  /\ UNCHANGED <<role, session, link, jar, cli, history>>

\* consumed_at IS NULL
CodeOpens(c) == code[c].live

\* POST /auth/cli/token: the UPDATE consumes the code, then the verifier is compared:
\* a wrong one burns the code.
ExchangeCode(k, c, right) ==
  /\ cli[k] = NoLogin /\ CodeOpens(c)
  /\ code' = [code EXCEPT ![c].live = FALSE]
  /\ cli' = [cli EXCEPT ![k].verified = IF right THEN c ELSE None]
  /\ UNCHANGED <<role, session, link, jar, request, history>>

\* The membership is read, the personal access token inserted.
IssueToken(k) ==
  LET c == cli[k].verified IN
  /\ c # None /\ Exists(code[c].user)
  /\ code' = [code EXCEPT ![c].token = "live"]
  /\ cli' = [cli EXCEPT ![k] = NoLogin]
  /\ UNCHANGED <<role, session, link, jar, request, history>>

\* requireAdmin, personal access token: the row is joined with the membership.
AuthenticateByToken(r, c) ==
  LET u == code[c].user IN
  /\ code[c].token = "live"
  /\ Start(r, [Idle EXCEPT !.step = "acting", !.user = u, !.role = role[u]])
  /\ UNCHANGED <<role, session, link, code, jar, cli, history>>

\* POST /auth/cli/revoke and POST /settings/tokens/:id/revoke.
RevokeToken(c) ==
  /\ code[c].token = "live"
  /\ code' = [code EXCEPT ![c].token = "revoked"]
  /\ UNCHANGED <<role, session, link, jar, request, cli, history>>

----
\* Time, counted in lifetimes of the access cookie.  Requests are short beside it:
\* they end before time passes, and so does a login code (60 seconds).
Aged(access) == IF access = None \/ access.ttl = 1 THEN None
                ELSE [access EXCEPT !.ttl = @ - 1]
Tick ==
  /\ \A r \in Requests : request[r].step = "idle"
  /\ \A k \in Clis : cli[k] = NoLogin
  /\ code' = [c \in Codes |-> [code[c] EXCEPT !.live = FALSE]]
  /\ jar' = [b \in Browsers |-> [jar[b] EXCEPT !.access = Aged(@)]]
  /\ held' = [u \in Admins |-> [m \in Roles |-> IF role[u] = m THEN 0 ELSE Later(held[u][m])]]
  /\ ended' = [s \in Sessions |-> IF session[s].live THEN 0 ELSE Later(ended[s])]
  /\ UNCHANGED <<role, session, link, request, cli, resets, founders, unowned>>

Init ==
  /\ role = [u \in Admins |-> None]
  /\ session = [s \in Sessions |-> NoRow]
  /\ link = [l \in Links |-> NoLink]
  /\ code = [c \in Codes |-> NoCode]
  /\ jar = [b \in Browsers |-> NoJar]
  /\ request = [r \in Requests |-> Idle]
  /\ cli = [k \in Clis |-> NoLogin]
  /\ held = [u \in Admins |-> [m \in Roles |-> LongAgo]]
  /\ ended = [s \in Sessions |-> 0]
  /\ resets = [u \in Admins |-> 0]
  /\ founders = {} /\ unowned = {}

RequestStep(r) ==
  \/ \E b \in Browsers : \/ AuthenticateByAccess(r, b) \/ ReadSession(r, b) \/ CountAdmins(r, b)
                         \/ \E u \in Admins : Login(r, b, u)
                         \/ \E l \in Links : AcceptInvitation(r, b, l)
  \/ RenewSession(r) \/ CreateSession(r) \/ Answer(r) \/ AuthorizeCli(r)
  \/ \E u \in Admins : \/ Bootstrap(r, u)
                       \/ \E m \in Roles : InviteMember(r, u, m) \/ PatchMember(r, u, m)
  \/ \E c \in Codes : AuthenticateByToken(r, c)

Next ==
  \/ \E r \in Requests : RequestStep(r)
  \/ \E b \in Browsers : RefuseSession(b) \/ Logout(b)
  \/ \E u \in Admins : ForgotPassword(u)
  \/ \E l \in Links : ResetPassword(l)
  \/ \E k \in Clis : IssueToken(k) \/ \E c \in Codes, right \in BOOLEAN : ExchangeCode(k, c, right)
  \/ \E c \in Codes : RevokeToken(c)
  \/ Tick

Spec == Init /\ [][Next]_vars

----
(* Properties *)

\* Of several bootstraps at once, all of which saw no administrator, one succeeds.
OneBootstrap == Cardinality(founders) <= 1

\* A login code is exchanged for at most one personal access token, whichever CLI
\* processes present it.
CodeYieldsOneToken ==
  \A k \in Clis : cli[k].verified # None =>
    /\ code[cli[k].verified].token = "none"
    /\ \A j \in Clis \ {k} : cli[j].verified # cli[k].verified

Steps   == {"idle", "acting", "renewing", "signing-in", "bootstrapping"}
Someone == Admins \union {None}
Row     == [user : Someone, live : BOOLEAN, resets : Nat]
Link    == [user : Someone, purpose : {"none", "password_reset", "account_link"}, live : BOOLEAN]
Code    == [user : Someone, live : BOOLEAN, token : {"none", "live", "revoked"}]
Cookie  == [user : Admins, role : Roles, session : Sessions, ttl : Nat \ {0}]
Jar     == [access : Cookie \union {None}, refresh : Sessions \union {None}]
Handler == [step : Steps, browser : Browsers \union {None}, user : Someone,
            role : Roles \union {None}, session : Sessions \union {None}]

\* The types of rows, cookies and requests, and what happens once.
TypeOK ==
  /\ role \in [Admins -> Roles \union {None}]
  /\ session \in [Sessions -> Row] /\ link \in [Links -> Link] /\ code \in [Codes -> Code]
  /\ jar \in [Browsers -> Jar] /\ request \in [Requests -> Handler]
  /\ cli \in [Clis -> [verified : Codes \union {None}]]
  /\ held \in [Admins -> [Roles -> 0 .. LongAgo]] /\ ended \in [Sessions -> 0 .. LongAgo]
  /\ resets \in [Admins -> Nat] /\ founders \subseteq Admins
  /\ OneBootstrap /\ CodeYieldsOneToken

\* A handler acts with a role its administrator had less than one cookie lifetime
\* ago, however often the session is renewed.
RoleIsRecent ==
  \A r \in Requests : request[r].step = "acting" =>
    LET q == request[r]
    IN  role[q.user] = q.role \/ held[q.user][q.role] < AccessLifetime

\* Logging out and resetting a password end a session: what its cookies still open
\* fades within one cookie lifetime, a renewal that overlapped the end included.
SessionsFade ==
  \A r \in Requests : request[r].step = "acting" /\ request[r].session # None =>
    LET s == request[r].session
    IN  session[s].live \/ ended[s] < AccessLifetime

\* What the access cookie still says after the database has changed is gone within
\* its lifetime: the role, and the session it was issued for.
AccessFades == RoleIsRecent /\ SessionsFade

\* A session that reads was inserted after the last reset of its user's password.
\* (It can be that of a login that compared the old password before the reset.)
ResetEndsSessions ==
  \A s \in Sessions : session[s].live => session[s].resets = resets[session[s].user]

\* A workspace loses its last owner only through an owner who was demoted while
\* acting, or by an invitation of the owner's own address.
OwnerRemains ==
  founders # {} /\ ~HasOwner(role) => unowned \intersect {"stale owner", "invited again"} # {}

\* docs/api.md: "Membership role changes and danger operations require the owner."
\* (Violated: POST /settings/members gives an existing member another role.)
RolesAreTheOwners ==
  [][\A u \in Admins : Exists(u) /\ role'[u] # role[u] =>
       \E r \in Requests : request[r].step = "acting" /\ request[r].role = "owner"
                           /\ request'[r].step = "idle"]_vars

----
(* The inductive invariant: why TypeOK, AccessFades, ResetEndsSessions and *)
(* OwnerRemains hold.                                                      *)

IsAccount(u) == u \in Admins /\ Exists(u)

\* A row that is still good for something belongs to an account.
SessionOK(s) == session[s].live => IsAccount(session[s].user)
LinkOK(l)    == link[l].live => IsAccount(link[l].user)

\* A code that was used stays used; a process that verified one has it for itself.
CodeOK(c) == /\ code[c] # NoCode => IsAccount(code[c].user)
             /\ code[c].live => code[c].user # None /\ code[c].token = "none"
CliOK(k)  == cli[k].verified # None => /\ code[cli[k].verified].user # None
                                       /\ ~code[cli[k].verified].live

\* The role an account has now it had a moment ago.
RoleOK(u) == Exists(u) => held[u][role[u]] = 0

\* What an access cookie says was true when it was issued, and it does not say it
\* for longer than its lifetime.
CookieOK(k) ==
  /\ Exists(k.user)
  /\ held[k.user][k.role] + k.ttl <= AccessLifetime
  /\ session[k.session].live \/ ended[k.session] + k.ttl <= AccessLifetime
JarOK(b) == jar[b].access # None => CookieOK(jar[b].access)

\* What a handler read of its administrator was true since time last passed; with an
\* access cookie, no longer ago than the cookie's age.
RequestOK(r) ==
  LET q == request[r] IN
  /\ q.step \in {"acting", "renewing", "signing-in"} => IsAccount(q.user) /\ q.role \in Roles
  /\ q.step \in {"renewing", "signing-in", "bootstrapping"} => q.browser \in Browsers
  /\ q.step \in {"renewing", "signing-in"} => held[q.user][q.role] = 0
  /\ q.step = "acting" => held[q.user][q.role] < AccessLifetime
  /\ q.step = "renewing" => /\ q.session \in Sessions
                            /\ session[q.session].live \/ ended[q.session] = 0
  /\ q.step = "acting" /\ q.session # None =>
       session[q.session].live \/ ended[q.session] < AccessLifetime

AdminInv ==
  /\ TypeOK
  /\ \A s \in Sessions : SessionOK(s)
  /\ \A l \in Links : LinkOK(l)
  /\ \A c \in Codes : CodeOK(c)
  /\ \A k \in Clis : CliOK(k)
  /\ \A u \in Admins : RoleOK(u)
  /\ \A b \in Browsers : JarOK(b)
  /\ \A r \in Requests : RequestOK(r)
  /\ ResetEndsSessions
  /\ OwnerRemains

====
