------------------------ MODULE Administrators_proofs ------------------------
(***************************************************************************)
(* Proofs about Administrators, for every number of accounts, browsers,    *)
(* requests and rows, and every lifetime of the access cookie.             *)
(***************************************************************************)
EXTENDS Administrators, FiniteSetTheorems, TLAPS

-----------------------------------------------------------------------------
(* Steps in which no time passes.                                          *)

\* Accounts stay, nobody loses more than the present role, and a session that
\* ends does so now.
Calm ==
  /\ \A u \in Admins : Exists(u) => Exists(u)'
  /\ \A u \in Admins, m \in Roles : held'[u][m] \in {held[u][m], 0}
  /\ \A s \in Sessions : \/ session'[s].live \/ ended'[s] = 0
                         \/ ~session[s].live /\ ended'[s] = ended[s]

LEMMA NoTime ==
  ASSUME UNCHANGED <<role, session, held, ended>>
  PROVE  Calm
  BY DEF Calm, Exists

\* A cookie that is kept is as good as it was.
LEMMA JarStays ==
  ASSUME AdminInv, TypeOK', Calm, NEW b \in Browsers, jar'[b] = jar[b] \/ jar'[b] = NoJar
  PROVE  JarOK(b)'
<1>1. CASE jar'[b] = NoJar
  BY <1>1 DEF JarOK, NoJar
<1>2. CASE jar'[b] = jar[b]
  <2> SUFFICES ASSUME jar[b].access # None
               PROVE  CookieOK(jar[b].access)'
    BY <1>2 DEF JarOK
  <2>1. PICK k \in Cookie : k = jar[b].access /\ CookieOK(k)
    BY DEF AdminInv, TypeOK, Jar, JarOK
  <2>2. k.user \in Admins /\ k.role \in Roles /\ k.session \in Sessions /\ k.ttl \in Nat \ {0}
    BY DEF Cookie
  <2>3. Exists(k.user)'
    BY <2>1, <2>2 DEF Calm, CookieOK
  <2>4. /\ held[k.user][k.role] \in 0 .. LongAgo /\ held'[k.user][k.role] \in 0 .. LongAgo
        /\ ended[k.session] \in 0 .. LongAgo /\ ended'[k.session] \in 0 .. LongAgo
    BY <2>2 DEF AdminInv, TypeOK
  <2>5. held'[k.user][k.role] + k.ttl <= AccessLifetime
    BY <2>1, <2>2, <2>4, LifetimeIsPositive DEF Calm, CookieOK, LongAgo
  <2>6. k.ttl <= AccessLifetime
    BY <2>1, <2>2, <2>4, LifetimeIsPositive DEF CookieOK, LongAgo
  <2>7. session'[k.session].live \/ ended'[k.session] + k.ttl <= AccessLifetime
    BY <2>1, <2>2, <2>4, <2>6, LifetimeIsPositive DEF Calm, CookieOK, LongAgo
  <2> QED BY <1>2, <2>1, <2>3, <2>5, <2>7 DEF CookieOK
<1> QED BY <1>1, <1>2

\* So is what a handler holds that takes no part, or ends.
LEMMA RequestStays ==
  ASSUME AdminInv, TypeOK', Calm, NEW r \in Requests, request'[r] = request[r] \/ request'[r] = Idle
  PROVE  RequestOK(r)'
<1>1. CASE request'[r] = Idle
  BY <1>1 DEF RequestOK, Idle
<1>2. CASE request'[r] = request[r]
  <2>1. PICK q \in Handler : q = request[r] /\ q = request'[r]
    BY <1>2 DEF AdminInv, TypeOK
  <2>2. RequestOK(r)
    BY DEF AdminInv
  <2>3. /\ \A u \in Admins, m \in Roles : held[u][m] \in 0 .. LongAgo
        /\ \A s \in Sessions : ended[s] \in 0 .. LongAgo
    BY DEF AdminInv, TypeOK
  <2>4. q.session \in Sessions \union {None}
    BY DEF Handler
  <2>5. q.step \in {"acting", "renewing", "signing-in"} => IsAccount(q.user)' /\ q.role \in Roles
    BY <2>1, <2>2 DEF RequestOK, IsAccount, Calm
  <2>6. q.step \in {"renewing", "signing-in"} => held'[q.user][q.role] = 0
    BY <2>1, <2>2, <2>5 DEF RequestOK, IsAccount, Calm
  <2>7. q.step = "acting" => held'[q.user][q.role] < AccessLifetime
    BY <2>1, <2>2, <2>3, <2>5, LifetimeIsPositive DEF RequestOK, IsAccount, Calm, LongAgo
  <2>8. q.step = "renewing" => /\ q.session \in Sessions
                               /\ session'[q.session].live \/ ended'[q.session] = 0
    BY <2>1, <2>2 DEF RequestOK, Calm
  <2>9. q.step = "acting" /\ q.session # None =>
          session'[q.session].live \/ ended'[q.session] < AccessLifetime
    BY <2>1, <2>2, <2>3, <2>4, LifetimeIsPositive DEF RequestOK, Calm, LongAgo
  <2> QED BY <2>1, <2>2, <2>5, <2>6, <2>7, <2>8, <2>9 DEF RequestOK
<1> QED BY <1>1, <1>2

\* What is left of the invariant when no time passes, part by part.
LEMMA RowsStay ==
  ASSUME AdminInv, TypeOK', Calm
  PROVE  /\ UNCHANGED <<session, resets>> => (\A s \in Sessions : SessionOK(s)') /\ ResetEndsSessions'
         /\ UNCHANGED link => \A l \in Links : LinkOK(l)'
         /\ UNCHANGED <<code, cli>> => (\A c \in Codes : CodeOK(c)') /\ (\A k \in Clis : CliOK(k)')
         /\ UNCHANGED <<role, held>> => \A u \in Admins : RoleOK(u)'
         /\ UNCHANGED <<role, founders, unowned>> => OwnerRemains'
<1> USE DEF AdminInv
<1>1. UNCHANGED <<session, resets>> => (\A s \in Sessions : SessionOK(s)') /\ ResetEndsSessions'
  BY DEF SessionOK, IsAccount, Calm, ResetEndsSessions
<1>2. UNCHANGED link => \A l \in Links : LinkOK(l)'
  BY DEF LinkOK, IsAccount, Calm
<1>3. UNCHANGED <<code, cli>> => (\A c \in Codes : CodeOK(c)') /\ (\A k \in Clis : CliOK(k)')
  BY DEF CodeOK, CliOK, IsAccount, Calm
<1>4. UNCHANGED <<role, held>> => \A u \in Admins : RoleOK(u)'
  BY DEF RoleOK, Exists
<1>5. UNCHANGED <<role, founders, unowned>> => OwnerRemains'
  BY DEF OwnerRemains, HasOwner
<1> QED BY <1>1, <1>2, <1>3, <1>4, <1>5

\* Each part of the state is left alone, or what the invariant says of it is
\* established by the step itself.
SessionsFine == \/ UNCHANGED <<session, resets>>
                \/ (\A s \in Sessions : SessionOK(s)') /\ ResetEndsSessions'
LinksFine    == UNCHANGED link \/ \A l \in Links : LinkOK(l)'
CodesFine    == \/ UNCHANGED <<code, cli>>
                \/ (\A c \in Codes : CodeOK(c)') /\ (\A k \in Clis : CliOK(k)')
RolesFine    == /\ UNCHANGED <<role, held>> \/ \A u \in Admins : RoleOK(u)'
                /\ UNCHANGED <<role, founders, unowned>> \/ OwnerRemains'
JarsFine     == \A b \in Browsers : jar'[b] = jar[b] \/ jar'[b] = NoJar \/ JarOK(b)'
RequestsFine == \A r \in Requests : request'[r] = request[r] \/ request'[r] = Idle \/ RequestOK(r)'

\* A step in which no time passes keeps the invariant if it does so where it
\* changes something.
LEMMA CalmKeepsInv ==
  ASSUME AdminInv, TypeOK', Calm, SessionsFine, LinksFine, CodesFine, RolesFine, JarsFine, RequestsFine
  PROVE  AdminInv'
<1>1. \A r \in Requests : RequestOK(r)'
  BY RequestStays DEF RequestsFine
<1>2. \A b \in Browsers : JarOK(b)'
  BY JarStays DEF JarsFine
<1>3. /\ (\A s \in Sessions : SessionOK(s)') /\ ResetEndsSessions'
      /\ \A l \in Links : LinkOK(l)'
      /\ (\A c \in Codes : CodeOK(c)') /\ (\A k \in Clis : CliOK(k)')
      /\ \A u \in Admins : RoleOK(u)'
      /\ OwnerRemains'
  BY RowsStay DEF SessionsFine, LinksFine, CodesFine, RolesFine
<1> QED BY <1>1, <1>2, <1>3 DEF AdminInv

\* A handler that only moves on.
LEMMA MoveKeepsInv ==
  ASSUME AdminInv, NEW r \in Requests, NEW q \in Handler, request' = [request EXCEPT ![r] = q],
         UNCHANGED <<role, session, link, code, jar, cli, history>>, RequestOK(r)'
  PROVE  AdminInv'
<1>1. /\ \A p \in Requests \ {r} : request'[p] = request[p]
      /\ request' \in [Requests -> Handler]
  BY DEF AdminInv, TypeOK
<1>2. TypeOK'
  BY <1>1 DEF AdminInv, TypeOK, OneBootstrap, CodeYieldsOneToken, history
<1>3. Calm
  BY NoTime DEF history
<1>4. SessionsFine /\ LinksFine /\ CodesFine /\ RolesFine /\ JarsFine
  <2>1. UNCHANGED <<role, session, link, code, jar, cli, held, resets, founders, unowned>>
    BY DEF history
  <2>2. SessionsFine /\ LinksFine
    BY <2>1 DEF SessionsFine, LinksFine
  <2>3. CodesFine
    BY <2>1 DEF CodesFine
  <2>4. RolesFine /\ JarsFine
    BY <2>1 DEF RolesFine, JarsFine
  <2> QED BY <2>2, <2>3, <2>4
<1>5. RequestsFine
  BY <1>1 DEF RequestsFine
<1> QED BY <1>2, <1>3, <1>4, <1>5, CalmKeepsInv

\* Handlers that read: what they go on with was true when they read it.
LEMMA ReadersKeepInv ==
  ASSUME AdminInv, NEW r \in Requests, NEW b \in Browsers,
         \/ AuthenticateByAccess(r, b) \/ ReadSession(r, b) \/ CountAdmins(r, b)
         \/ \E u \in Admins : Login(r, b, u)
  PROVE  AdminInv'
<1> USE DEF Roles
<1>1. CASE AuthenticateByAccess(r, b)
  <2>1. PICK k \in Cookie : k = jar[b].access /\ CookieOK(k)
    BY <1>1 DEF AuthenticateByAccess, AdminInv, TypeOK, Jar, JarOK
  <2>2. k.user \in Admins /\ k.role \in Roles /\ k.session \in Sessions /\ k.ttl \in Nat \ {0}
    BY DEF Cookie
  <2>3. PICK q \in Handler :
          /\ request' = [request EXCEPT ![r] = q]
          /\ q.step = "acting" /\ q.user = k.user /\ q.role = k.role /\ q.session = k.session
    <3> DEFINE w == [step |-> "acting", browser |-> b, user |-> k.user, role |-> k.role,
                     session |-> k.session]
    <3>1. /\ w \in Handler
          /\ w.step = "acting" /\ w.user = k.user /\ w.role = k.role /\ w.session = k.session
      BY <2>2 DEF Handler, Steps, Someone
    <3>2. request' = [request EXCEPT ![r] = w]
      BY <1>1, <2>1 DEF AuthenticateByAccess, Start
    <3> HIDE DEF w
    <3> QED BY <3>1, <3>2
  <2>4. request'[r] = q
    BY <2>3 DEF AdminInv, TypeOK
  <2>5. UNCHANGED <<role, session, link, code, jar, cli, history>>
    BY <1>1 DEF AuthenticateByAccess
  <2>6. held[k.user][k.role] \in 0 .. LongAgo /\ ended[k.session] \in 0 .. LongAgo
    BY <2>2 DEF AdminInv, TypeOK
  <2>7. RequestOK(r)'
    BY <2>1, <2>2, <2>3, <2>4, <2>5, <2>6, LifetimeIsPositive
       DEF RequestOK, CookieOK, IsAccount, Exists, history, LongAgo
  <2> QED BY <2>3, <2>5, <2>7, MoveKeepsInv
<1>2. CASE ReadSession(r, b)
  <2>1. PICK s \in Sessions : s = jar[b].refresh /\ session[s].live
    BY <1>2 DEF ReadSession, SessionReads, AdminInv, TypeOK, Jar
  <2>2. PICK u \in Admins : u = session[s].user /\ Exists(u)
    BY <2>1 DEF AdminInv, SessionOK, IsAccount
  <2>3. PICK m \in Roles : m = role[u] /\ held[u][m] = 0
    BY <2>2 DEF AdminInv, RoleOK, TypeOK, Exists
  <2>4. PICK q \in Handler :
          /\ request' = [request EXCEPT ![r] = q]
          /\ q.step = "renewing" /\ q.browser = b /\ q.user = u /\ q.role = m /\ q.session = s
    <3> DEFINE w == [step |-> "renewing", browser |-> b, user |-> u, role |-> m, session |-> s]
    <3>1. /\ w \in Handler
          /\ w.step = "renewing" /\ w.browser = b /\ w.user = u /\ w.role = m /\ w.session = s
      BY DEF Handler, Steps, Someone
    <3>2. request' = [request EXCEPT ![r] = w]
      BY <1>2, <2>1, <2>2, <2>3 DEF ReadSession, Start
    <3> HIDE DEF w
    <3> QED BY <3>1, <3>2
  <2>5. request'[r] = q
    BY <2>4 DEF AdminInv, TypeOK
  <2>6. UNCHANGED <<role, session, link, code, jar, cli, history>>
    BY <1>2 DEF ReadSession
  <2>7. RequestOK(r)'
    BY <2>1, <2>2, <2>3, <2>4, <2>5, <2>6 DEF RequestOK, IsAccount, Exists, history
  <2> QED BY <2>4, <2>6, <2>7, MoveKeepsInv
<1>3. CASE CountAdmins(r, b)
  <2>1. PICK q \in Handler :
          request' = [request EXCEPT ![r] = q] /\ q.step = "bootstrapping" /\ q.browser = b
    <3> DEFINE w == [Idle EXCEPT !.step = "bootstrapping", !.browser = b]
    <3>1. w \in Handler /\ w.step = "bootstrapping" /\ w.browser = b
      BY DEF Handler, Steps, Someone, Idle
    <3>2. request' = [request EXCEPT ![r] = w]
      BY <1>3 DEF CountAdmins, Start
    <3> HIDE DEF w
    <3> QED BY <3>1, <3>2
  <2>2. request'[r] = q
    BY <2>1 DEF AdminInv, TypeOK
  <2>3. RequestOK(r)'
    BY <2>1, <2>2 DEF RequestOK
  <2> QED BY <1>3, <2>1, <2>3, MoveKeepsInv DEF CountAdmins
<1>4. ASSUME NEW u \in Admins, Login(r, b, u) PROVE AdminInv'
  <2>1. PICK m \in Roles : m = role[u] /\ held[u][m] = 0
    BY <1>4 DEF AdminInv, RoleOK, TypeOK, Exists, Login
  <2>2. PICK q \in Handler :
          /\ request' = [request EXCEPT ![r] = q]
          /\ q.step = "signing-in" /\ q.browser = b /\ q.user = u /\ q.role = m
    <3> DEFINE w == SigningIn(b, u, m)
    <3>1. w \in Handler /\ w.step = "signing-in" /\ w.browser = b /\ w.user = u /\ w.role = m
      BY DEF Handler, Steps, Someone, Idle, SigningIn
    <3>2. request' = [request EXCEPT ![r] = w]
      BY <1>4, <2>1 DEF Login, Start
    <3> HIDE DEF w
    <3> QED BY <3>1, <3>2
  <2>3. request'[r] = q
    BY <2>2 DEF AdminInv, TypeOK
  <2>4. UNCHANGED <<role, session, link, code, jar, cli, history>> /\ Exists(u)
    BY <1>4 DEF Login
  <2>5. RequestOK(r)'
    BY <2>1, <2>2, <2>3, <2>4 DEF RequestOK, IsAccount, Exists, history
  <2> QED BY <2>2, <2>4, <2>5, MoveKeepsInv
<1> QED
  BY <1>1, <1>2, <1>3, <1>4

-----------------------------------------------------------------------------
(* Sessions.                                                               *)

\* What remains unchanged is fine.
LEMMA FineByRest ==
  /\ UNCHANGED <<session, resets>> => SessionsFine
  /\ UNCHANGED link => LinksFine
  /\ UNCHANGED <<code, cli>> => CodesFine
  /\ UNCHANGED <<role, held, founders, unowned>> => RolesFine
  /\ UNCHANGED jar => JarsFine
  /\ UNCHANGED request => RequestsFine
<1>1. UNCHANGED <<session, resets>> => SessionsFine
  BY DEF SessionsFine
<1>2. UNCHANGED link => LinksFine
  BY DEF LinksFine
<1>3. UNCHANGED <<code, cli>> => CodesFine
  BY DEF CodesFine
<1>4. UNCHANGED <<role, held, founders, unowned>> => RolesFine
  BY DEF RolesFine
<1>5. UNCHANGED jar => JarsFine
  BY DEF JarsFine
<1>6. UNCHANGED request => RequestsFine
  BY DEF RequestsFine
<1> QED BY <1>1, <1>2, <1>3, <1>4, <1>5, <1>6

\* A handler that answers.
LEMMA RespondIsFine ==
  ASSUME AdminInv, NEW r \in Requests, Respond(r)
  PROVE  RequestsFine /\ request' \in [Requests -> Handler]
<1>1. Idle \in Handler
  BY DEF Idle, Handler, Steps, Someone
<1>2. request' = [request EXCEPT ![r] = Idle]
  BY DEF Respond
<1> HIDE DEF Idle
<1> QED BY <1>1, <1>2 DEF RequestsFine, AdminInv, TypeOK

\* Both cookies, as they are set.
LEMMA CookiesAreSet ==
  ASSUME NEW u \in Admins, NEW m \in Roles, NEW s \in Sessions
  PROVE  \E j \in Jar, k \in Cookie :
           /\ j = [access |-> AccessCookie(u, m, s), refresh |-> s]
           /\ j.access = k /\ j.refresh = s
           /\ k.user = u /\ k.role = m /\ k.session = s /\ k.ttl = AccessLifetime
<1> DEFINE k == AccessCookie(u, m, s)
           j == [access |-> k, refresh |-> s]
<1>1. /\ k \in Cookie
      /\ k.user = u /\ k.role = m /\ k.session = s /\ k.ttl = AccessLifetime
  BY LifetimeIsPositive DEF AccessCookie, Cookie
<1> HIDE DEF k
<1>2. j \in Jar /\ j.access = k /\ j.refresh = s
  BY <1>1 DEF Jar
<1>3. j = [access |-> AccessCookie(u, m, s), refresh |-> s]
  BY DEF k
<1> HIDE DEF j
<1> QED BY <1>1, <1>2, <1>3

\* Cookies issued for what was just read are as good as new, and the handler
\* behind requireAdmin may act on it.
LEMMA RenewKeepsInv ==
  ASSUME AdminInv, NEW r \in Requests, RenewSession(r)
  PROVE  AdminInv'
<1>1. PICK q \in Handler : q = request[r] /\ q.step = "renewing"
  BY DEF RenewSession, AdminInv, TypeOK
<1>2. /\ q.user \in Admins /\ Exists(q.user) /\ q.role \in Roles /\ q.browser \in Browsers
      /\ held[q.user][q.role] = 0 /\ q.session \in Sessions
      /\ session[q.session].live \/ ended[q.session] = 0
  BY <1>1 DEF AdminInv, RequestOK, IsAccount
<1>3. PICK j \in Jar, k \in Cookie :
        /\ j = [access |-> AccessCookie(q.user, q.role, q.session), refresh |-> q.session]
        /\ j.access = k /\ j.refresh = q.session
        /\ k.user = q.user /\ k.role = q.role /\ k.session = q.session /\ k.ttl = AccessLifetime
  BY <1>2, CookiesAreSet
<1>5. jar' = [jar EXCEPT ![q.browser] = j]
  BY <1>1, <1>3 DEF RenewSession
<1>6. PICK p \in Handler :
        /\ request' = [request EXCEPT ![r] = p]
        /\ p.step = "acting" /\ p.user = q.user /\ p.role = q.role /\ p.session = q.session
  <2> DEFINE w == [q EXCEPT !.step = "acting"]
  <2>1. /\ w \in Handler
        /\ w.step = "acting" /\ w.user = q.user /\ w.role = q.role /\ w.session = q.session
    BY DEF Handler, Steps
  <2>2. request' = [request EXCEPT ![r] = w]
    BY <1>1 DEF RenewSession, Goto
  <2> HIDE DEF w
  <2> QED BY <2>1, <2>2
<1>7. /\ jar'[q.browser] = j /\ \A b \in Browsers \ {q.browser} : jar'[b] = jar[b]
      /\ request'[r] = p /\ \A o \in Requests \ {r} : request'[o] = request[o]
      /\ jar' \in [Browsers -> Jar] /\ request' \in [Requests -> Handler]
  BY <1>2, <1>5, <1>6 DEF AdminInv, TypeOK
<1>8. UNCHANGED <<role, session, link, code, cli, held, ended, resets, founders, unowned>>
  BY DEF RenewSession, history
<1>9. TypeOK'
  BY <1>7, <1>8 DEF AdminInv, TypeOK, OneBootstrap, CodeYieldsOneToken
<1>10. CookieOK(k)'
  BY <1>2, <1>3, <1>8, LifetimeIsPositive DEF CookieOK, Exists
<1>11. JarsFine
  BY <1>3, <1>7, <1>10 DEF JarsFine, JarOK
<1>12. RequestOK(r)'
  BY <1>2, <1>6, <1>7, <1>8, LifetimeIsPositive DEF RequestOK, IsAccount, Exists
<1>13. RequestsFine
  BY <1>7, <1>12 DEF RequestsFine
<1>14. Calm
  BY <1>8, NoTime
<1> QED BY <1>8, <1>9, <1>11, <1>13, <1>14, FineByRest, CalmKeepsInv

LEMMA CreateKeepsInv ==
  ASSUME AdminInv, NEW r \in Requests, CreateSession(r)
  PROVE  AdminInv'
<1>1. PICK q \in Handler : q = request[r] /\ q.step = "signing-in"
  BY DEF CreateSession, AdminInv, TypeOK
<1>2. /\ q.user \in Admins /\ Exists(q.user) /\ q.role \in Roles /\ q.browser \in Browsers
      /\ held[q.user][q.role] = 0 /\ resets[q.user] \in Nat
  BY <1>1 DEF AdminInv, RequestOK, IsAccount, TypeOK
<1>3. PICK x \in Row : /\ x = [user |-> q.user, live |-> TRUE, resets |-> resets[q.user]]
                       /\ x.user = q.user /\ x.live /\ x.resets = resets[q.user]
  <2> DEFINE w == [user |-> q.user, live |-> TRUE, resets |-> resets[q.user]]
  <2>1. w \in Row /\ w.user = q.user /\ w.live /\ w.resets = resets[q.user]
    BY <1>2 DEF Row, Someone
  <2> HIDE DEF w
  <2> QED BY <2>1 DEF w
<1>4. PICK s \in Sessions :
        /\ session' = [session EXCEPT ![s] = x]
        /\ jar' = [jar EXCEPT ![q.browser] = [access |-> AccessCookie(q.user, q.role, s),
                                              refresh |-> s]]
  BY <1>1, <1>3 DEF CreateSession, Unused, AdminInv, TypeOK
<1>5. PICK j \in Jar, k \in Cookie :
        /\ j = [access |-> AccessCookie(q.user, q.role, s), refresh |-> s]
        /\ j.access = k /\ j.refresh = s
        /\ k.user = q.user /\ k.role = q.role /\ k.session = s /\ k.ttl = AccessLifetime
  BY <1>2, CookiesAreSet
<1>6. jar' = [jar EXCEPT ![q.browser] = j]
  BY <1>4, <1>5
<1>7. /\ jar'[q.browser] = j /\ \A b \in Browsers \ {q.browser} : jar'[b] = jar[b]
      /\ session'[s] = x /\ \A t \in Sessions \ {s} : session'[t] = session[t]
      /\ jar' \in [Browsers -> Jar] /\ session' \in [Sessions -> Row]
  BY <1>2, <1>4, <1>5, <1>6 DEF AdminInv, TypeOK
<1>8. UNCHANGED <<role, link, code, cli, held, ended, resets, founders, unowned>> /\ Respond(r)
  BY DEF CreateSession, history
<1>9. RequestsFine /\ request' \in [Requests -> Handler]
  BY <1>8, RespondIsFine
<1>10. TypeOK'
  BY <1>7, <1>8, <1>9 DEF AdminInv, TypeOK, OneBootstrap, CodeYieldsOneToken
<1>11. CookieOK(k)'
  BY <1>2, <1>3, <1>5, <1>7, <1>8, LifetimeIsPositive DEF CookieOK, Exists
<1>12. JarsFine
  BY <1>5, <1>7, <1>11 DEF JarsFine, JarOK
<1>13. Calm
  BY <1>3, <1>7, <1>8 DEF Calm, Exists
<1>14. SessionsFine
  BY <1>2, <1>3, <1>7, <1>8 DEF SessionsFine, SessionOK, IsAccount, Exists, ResetEndsSessions, AdminInv
<1> QED BY <1>8, <1>9, <1>10, <1>12, <1>13, <1>14, FineByRest, CalmKeepsInv

\* Sessions that end do so now.
LEMMA RevokedSessions ==
  ASSUME AdminInv, NEW S \in SUBSET Sessions, session' = Revoked(S), ended' = EndedNow(S),
         UNCHANGED <<role, held>>
  PROVE  /\ session' \in [Sessions -> Row] /\ ended' \in [Sessions -> 0 .. LongAgo] /\ Calm
         /\ \A s \in Sessions : /\ session'[s].user = session[s].user
                                /\ session'[s].resets = session[s].resets
                                /\ session'[s].live => session[s].live /\ s \notin S
<1>1. 0 \in 0 .. LongAgo
  BY LifetimeIsPositive DEF LongAgo
<1>2. ASSUME NEW s \in Sessions
      PROVE  /\ session'[s] \in Row /\ session'[s].user = session[s].user
             /\ session'[s].resets = session[s].resets
             /\ session'[s].live = (session[s].live /\ s \notin S)
  <2>1. PICK x \in Row : x = session[s]
    BY DEF AdminInv, TypeOK
  <2>2. session'[s] = IF s \in S THEN [x EXCEPT !.live = FALSE] ELSE x
    BY <2>1 DEF Revoked
  <2>3. CASE s \in S
    BY <2>1, <2>2, <2>3 DEF Row
  <2>4. CASE s \notin S
    BY <2>1, <2>2, <2>4 DEF Row
  <2> QED BY <2>3, <2>4
<1>3. \A s \in Sessions : ended'[s] = IF s \in S /\ session[s].live THEN 0 ELSE ended[s]
  BY DEF EndedNow
<1>4. session' \in [Sessions -> Row]
  BY <1>2 DEF Revoked
<1>5. ended' \in [Sessions -> 0 .. LongAgo]
  BY <1>1 DEF EndedNow, AdminInv, TypeOK
<1>6. \A s \in Sessions : session[s].live \in BOOLEAN
  BY DEF AdminInv, TypeOK, Row
<1>7. Calm
  BY <1>2, <1>3, <1>6 DEF Calm, Exists
<1> QED BY <1>2, <1>4, <1>5, <1>7

\* The jar without cookies, and an end of the browser's session.
LEMMA JarEmptied ==
  ASSUME AdminInv, NEW b \in Browsers, jar' = [jar EXCEPT ![b] = NoJar]
  PROVE  JarsFine /\ jar' \in [Browsers -> Jar]
<1>1. NoJar \in Jar
  BY DEF NoJar, Jar
<1> HIDE DEF NoJar
<1> QED BY <1>1 DEF JarsFine, AdminInv, TypeOK

LEMMA RefuseKeepsInv ==
  ASSUME AdminInv, NEW b \in Browsers, RefuseSession(b)
  PROVE  AdminInv'
<1>1. UNCHANGED <<role, session, link, code, request, cli, held, ended, resets, founders, unowned>>
      /\ jar' = [jar EXCEPT ![b] = NoJar]
  BY DEF RefuseSession, history
<1>2. JarsFine /\ jar' \in [Browsers -> Jar]
  BY <1>1, JarEmptied
<1>3. TypeOK'
  BY <1>1, <1>2 DEF AdminInv, TypeOK, OneBootstrap, CodeYieldsOneToken
<1>4. Calm
  BY <1>1, NoTime
<1> QED BY <1>1, <1>2, <1>3, <1>4, FineByRest, CalmKeepsInv

LEMMA LogoutKeepsInv ==
  ASSUME AdminInv, NEW b \in Browsers, Logout(b)
  PROVE  AdminInv'
<1>1. PICK s \in Sessions : s = jar[b].refresh
  BY DEF Logout, AdminInv, TypeOK, Jar
<1>2. PICK S \in SUBSET Sessions : S = {s}
  OBVIOUS
<1>3. /\ UNCHANGED <<role, link, code, request, cli, held, resets, founders, unowned>>
      /\ session' = Revoked(S) /\ ended' = EndedNow(S) /\ jar' = [jar EXCEPT ![b] = NoJar]
  BY <1>1, <1>2 DEF Logout
<1>4. /\ session' \in [Sessions -> Row] /\ ended' \in [Sessions -> 0 .. LongAgo] /\ Calm
      /\ \A t \in Sessions : /\ session'[t].user = session[t].user
                             /\ session'[t].resets = session[t].resets
                             /\ session'[t].live => session[t].live
  BY <1>3, RevokedSessions
<1>5. JarsFine /\ jar' \in [Browsers -> Jar]
  BY <1>3, JarEmptied
<1>6. TypeOK'
  BY <1>3, <1>4, <1>5 DEF AdminInv, TypeOK, OneBootstrap, CodeYieldsOneToken
<1>7. SessionsFine
  BY <1>3, <1>4 DEF SessionsFine, SessionOK, IsAccount, Exists, ResetEndsSessions, AdminInv
<1> QED BY <1>3, <1>4, <1>5, <1>6, <1>7, FineByRest, CalmKeepsInv

-----------------------------------------------------------------------------
(* Links.                                                                  *)

\* A link is issued to somebody, or used.
LEMMA LinkIssued ==
  ASSUME AdminInv, NEW u \in Admins, NEW l \in Links, NEW p \in {"password_reset", "account_link"},
         link' = [link EXCEPT ![l] = [user |-> u, purpose |-> p, live |-> TRUE]]
  PROVE  link' \in [Links -> Link] /\ (Calm /\ Exists(u)' => LinksFine)
<1>1. PICK x \in Link : x = [user |-> u, purpose |-> p, live |-> TRUE] /\ x.user = u
  <2> DEFINE w == [user |-> u, purpose |-> p, live |-> TRUE]
  <2>1. w \in Link /\ w.user = u
    BY DEF Link, Someone
  <2> HIDE DEF w
  <2> QED BY <2>1 DEF w
<1>2. link' = [link EXCEPT ![l] = x]
  BY <1>1
<1>3. link' \in [Links -> Link] /\ link'[l] = x /\ \A k \in Links \ {l} : link'[k] = link[k]
  BY <1>2 DEF AdminInv, TypeOK
<1>4. Calm /\ Exists(u)' => LinksFine
  BY <1>1, <1>3 DEF LinksFine, LinkOK, IsAccount, AdminInv, Calm
<1> QED BY <1>3, <1>4

LEMMA LinkUsed ==
  ASSUME AdminInv, NEW l \in Links, link' = [link EXCEPT ![l].live = FALSE]
  PROVE  link' \in [Links -> Link] /\ (Calm => LinksFine)
<1>1. PICK x \in Link : x = [link[l] EXCEPT !.live = FALSE] /\ ~x.live
  <2> DEFINE w == [link[l] EXCEPT !.live = FALSE]
  <2>1. w \in Link /\ ~w.live
    BY DEF Link, AdminInv, TypeOK
  <2> HIDE DEF w
  <2> QED BY <2>1 DEF w
<1>2. link' = [link EXCEPT ![l] = x]
  BY <1>1
<1>3. link' \in [Links -> Link] /\ link'[l] = x /\ \A k \in Links \ {l} : link'[k] = link[k]
  BY <1>2 DEF AdminInv, TypeOK
<1>4. Calm => LinksFine
  BY <1>1, <1>3 DEF LinksFine, LinkOK, IsAccount, AdminInv, Calm
<1> QED BY <1>3, <1>4

LEMMA ForgotKeepsInv ==
  ASSUME AdminInv, NEW u \in Admins, ForgotPassword(u)
  PROVE  AdminInv'
<1>1. PICK l \in Links :
        link' = [link EXCEPT ![l] = [user |-> u, purpose |-> "password_reset", live |-> TRUE]]
  BY DEF ForgotPassword, Unused, AdminInv, TypeOK
<1>2. /\ UNCHANGED <<role, session, code, jar, request, cli, held, ended, resets, founders, unowned>>
      /\ Exists(u)
  BY DEF ForgotPassword, history
<1>3. Calm /\ Exists(u)'
  BY <1>2, NoTime DEF Exists
<1>4. link' \in [Links -> Link] /\ LinksFine
  BY <1>1, <1>3, LinkIssued
<1>5. TypeOK'
  BY <1>2, <1>4 DEF AdminInv, TypeOK, OneBootstrap, CodeYieldsOneToken
<1> QED BY <1>2, <1>3, <1>4, <1>5, FineByRest, CalmKeepsInv

LEMMA ResetKeepsInv ==
  ASSUME AdminInv, NEW l \in Links, ResetPassword(l)
  PROVE  AdminInv'
<1>1. PICK u \in Admins : u = link[l].user
  BY DEF ResetPassword, AdminInv, LinkOK, IsAccount
<1>2. PICK S \in SUBSET Sessions : S = SessionsToEnd(u)
  BY DEF SessionsToEnd
<1>3. /\ UNCHANGED <<role, code, jar, request, cli, held, founders, unowned>>
      /\ session' = Revoked(S) /\ ended' = EndedNow(S)
      /\ link' = [link EXCEPT ![l].live = FALSE]
      /\ resets' = [resets EXCEPT ![u] = @ + 1]
  BY <1>1, <1>2 DEF ResetPassword
<1>4. /\ session' \in [Sessions -> Row] /\ ended' \in [Sessions -> 0 .. LongAgo] /\ Calm
      /\ \A t \in Sessions : /\ session'[t].user = session[t].user
                             /\ session'[t].resets = session[t].resets
                             /\ session'[t].live => session[t].live /\ t \notin S
  BY <1>3, RevokedSessions
<1>5. link' \in [Links -> Link] /\ LinksFine
  BY <1>3, <1>4, LinkUsed
<1>6. resets' \in [Admins -> Nat] /\ \A v \in Admins \ {u} : resets'[v] = resets[v]
  BY <1>3 DEF AdminInv, TypeOK
<1>7. TypeOK'
  BY <1>3, <1>4, <1>5, <1>6 DEF AdminInv, TypeOK, OneBootstrap, CodeYieldsOneToken
<1>8. \A t \in Sessions \ S : session[t].user # u
  BY <1>2 DEF SessionsToEnd
<1>9. SessionsFine
  BY <1>3, <1>4, <1>6, <1>8 DEF SessionsFine, SessionOK, IsAccount, Exists, ResetEndsSessions, AdminInv
<1> QED BY <1>3, <1>4, <1>5, <1>7, <1>9, FineByRest, CalmKeepsInv

\* Signing in with a role that was read in the same step.
LEMMA SigningInIsFine ==
  ASSUME AdminInv, NEW r \in Requests, NEW b \in Browsers, NEW u \in Admins, NEW m \in Roles,
         request' = [request EXCEPT ![r] = SigningIn(b, u, m)],
         Exists(u)', held'[u][m] = 0
  PROVE  RequestsFine /\ request' \in [Requests -> Handler]
<1>1. PICK q \in Handler : q = SigningIn(b, u, m) /\ q.step = "signing-in" /\ q.browser = b
                           /\ q.user = u /\ q.role = m
  <2> DEFINE w == SigningIn(b, u, m)
  <2>1. w \in Handler /\ w.step = "signing-in" /\ w.browser = b /\ w.user = u /\ w.role = m
    BY DEF Handler, Steps, Someone, Idle, SigningIn
  <2> HIDE DEF w
  <2> QED BY <2>1 DEF w
<1>2. request' = [request EXCEPT ![r] = q]
  BY <1>1
<1>3. /\ request'[r] = q /\ \A p \in Requests \ {r} : request'[p] = request[p]
      /\ request' \in [Requests -> Handler]
  BY <1>2 DEF AdminInv, TypeOK
<1>4. RequestOK(r)'
  BY <1>1, <1>3 DEF RequestOK, IsAccount
<1> QED BY <1>3, <1>4 DEF RequestsFine

LEMMA AcceptKeepsInv ==
  ASSUME AdminInv, NEW r \in Requests, NEW b \in Browsers, NEW l \in Links, AcceptInvitation(r, b, l)
  PROVE  AdminInv'
<1>1. PICK u \in Admins : u = link[l].user /\ Exists(u)
  BY DEF AcceptInvitation, AdminInv, LinkOK, IsAccount
<1>2. PICK m \in Roles : m = role[u] /\ held[u][m] = 0
  BY <1>1 DEF AdminInv, RoleOK, TypeOK, Exists
<1>3. /\ UNCHANGED <<role, session, code, jar, cli, held, ended, resets, founders, unowned>>
      /\ link' = [link EXCEPT ![l].live = FALSE]
      /\ request' = [request EXCEPT ![r] = SigningIn(b, u, m)]
  BY <1>1, <1>2 DEF AcceptInvitation, Start, history
<1>4. Calm /\ Exists(u)' /\ held'[u][m] = 0
  BY <1>1, <1>2, <1>3, NoTime DEF Exists
<1>5. RequestsFine /\ request' \in [Requests -> Handler]
  BY <1>3, <1>4, SigningInIsFine
<1>6. link' \in [Links -> Link] /\ LinksFine
  BY <1>3, <1>4, LinkUsed
<1>7. TypeOK'
  BY <1>3, <1>5, <1>6 DEF AdminInv, TypeOK, OneBootstrap, CodeYieldsOneToken
<1> QED BY <1>3, <1>4, <1>5, <1>6, <1>7, FineByRest, CalmKeepsInv

-----------------------------------------------------------------------------
(* Roles.                                                                  *)

\* A role that is set has been held for no time, and nobody else's is touched.
LEMMA RoleSet ==
  ASSUME AdminInv, NEW u \in Admins, NEW m \in Roles, role' = [role EXCEPT ![u] = m],
         held' = [held EXCEPT ![u][m] = 0], UNCHANGED <<session, ended>>
  PROVE  /\ role' \in [Admins -> Roles \union {None}] /\ role'[u] = m
         /\ \A v \in Admins \ {u} : role'[v] = role[v]
         /\ held' \in [Admins -> [Roles -> 0 .. LongAgo]] /\ held'[u][m] = 0
         /\ Calm /\ Exists(u)' /\ \A v \in Admins : RoleOK(v)'
<1>1. 0 \in 0 .. LongAgo /\ m # None
  BY LifetimeIsPositive, NoneIsNobody DEF LongAgo, Roles
<1>2. PICK h \in [Roles -> 0 .. LongAgo] : h = [held[u] EXCEPT ![m] = 0]
  BY <1>1 DEF AdminInv, TypeOK
<1>3. held' = [held EXCEPT ![u] = h]
  BY <1>2
<1>4. /\ held' \in [Admins -> [Roles -> 0 .. LongAgo]] /\ held'[u] = h
      /\ \A v \in Admins \ {u} : held'[v] = held[v]
  BY <1>3 DEF AdminInv, TypeOK
<1>5. h[m] = 0 /\ \A n \in Roles \ {m} : h[n] = held[u][n]
  BY <1>2 DEF AdminInv, TypeOK
<1>6. /\ role' \in [Admins -> Roles \union {None}] /\ role'[u] = m
      /\ \A v \in Admins \ {u} : role'[v] = role[v]
  BY DEF AdminInv, TypeOK
<1>7. \A v \in Admins, n \in Roles : held'[v][n] \in {held[v][n], 0}
  BY <1>4, <1>5
<1>8. Calm /\ Exists(u)'
  BY <1>1, <1>6, <1>7 DEF Calm, Exists
<1>9. \A v \in Admins : RoleOK(v)'
  BY <1>4, <1>5, <1>6 DEF RoleOK, Exists, AdminInv
<1> QED BY <1>4, <1>5, <1>6, <1>8, <1>9

LEMMA BootstrapKeepsInv ==
  ASSUME AdminInv, NEW r \in Requests, NEW u \in Admins, Bootstrap(r, u)
  PROVE  AdminInv'
<1>1. PICK b \in Browsers : b = request[r].browser
  BY DEF Bootstrap, AdminInv, RequestOK
<1>2. "owner" \in Roles
  BY DEF Roles
<1>3. /\ UNCHANGED <<session, link, code, jar, cli, ended, resets, unowned>>
      /\ role' = [role EXCEPT ![u] = "owner"] /\ held' = [held EXCEPT ![u]["owner"] = 0]
      /\ founders = {} /\ founders' = founders \union {u}
      /\ request' = [request EXCEPT ![r] = SigningIn(b, u, "owner")]
  BY <1>1 DEF Bootstrap, IssuerFree
<1>4. /\ role' \in [Admins -> Roles \union {None}] /\ role'[u] = "owner"
      /\ held' \in [Admins -> [Roles -> 0 .. LongAgo]] /\ held'[u]["owner"] = 0
      /\ Calm /\ Exists(u)' /\ \A v \in Admins : RoleOK(v)'
  BY <1>2, <1>3, RoleSet
<1>5. RequestsFine /\ request' \in [Requests -> Handler]
  BY <1>2, <1>3, <1>4, SigningInIsFine
<1>6. founders' \subseteq Admins /\ OneBootstrap'
  <2>1. founders' = {u}
    BY <1>3
  <2>2. Cardinality(founders') = 1
    BY <2>1, FS_Singleton
  <2> QED BY <2>1, <2>2 DEF OneBootstrap
<1>7. TypeOK'
  BY <1>3, <1>4, <1>5, <1>6 DEF AdminInv, TypeOK, CodeYieldsOneToken
<1>8. OwnerRemains'
  BY <1>4 DEF OwnerRemains, HasOwner
<1>9. RolesFine
  BY <1>4, <1>8 DEF RolesFine
<1> QED BY <1>3, <1>4, <1>5, <1>7, <1>9, FineByRest, CalmKeepsInv

\* An invitation may take the last owner's role: OwnerRemains names that reason.
LEMMA InviteKeepsInv ==
  ASSUME AdminInv, NEW r \in Requests, NEW u \in Admins, NEW m \in Roles, InviteMember(r, u, m)
  PROVE  AdminInv'
<1>1. /\ UNCHANGED <<session, code, jar, cli, ended, resets, founders>> /\ Respond(r)
      /\ role' = [role EXCEPT ![u] = m] /\ held' = [held EXCEPT ![u][m] = 0]
      /\ unowned' = IF HasOwner(role) /\ ~HasOwner(role') THEN unowned \union {"invited again"}
                                                          ELSE unowned
  BY DEF InviteMember, SetRole
<1>2. /\ role' \in [Admins -> Roles \union {None}]
      /\ held' \in [Admins -> [Roles -> 0 .. LongAgo]]
      /\ Calm /\ Exists(u)' /\ \A v \in Admins : RoleOK(v)'
  BY <1>1, RoleSet
<1>3. RequestsFine /\ request' \in [Requests -> Handler]
  BY <1>1, RespondIsFine
<1>4. link' \in [Links -> Link] /\ LinksFine
  <2>1. CASE UNCHANGED link
    BY <2>1, FineByRest DEF AdminInv, TypeOK
  <2>2. CASE ~UNCHANGED link
    <3>1. PICK l \in Links :
            link' = [link EXCEPT ![l] = [user |-> u, purpose |-> "account_link", live |-> TRUE]]
      BY <2>2 DEF InviteMember, Unused, AdminInv, TypeOK
    <3> QED BY <1>2, <3>1, LinkIssued
  <2> QED BY <2>1, <2>2
<1>5. TypeOK'
  BY <1>1, <1>2, <1>3, <1>4 DEF AdminInv, TypeOK, OneBootstrap, CodeYieldsOneToken
<1>6. OwnerRemains'
  BY <1>1 DEF AdminInv, OwnerRemains
<1>7. RolesFine
  BY <1>2, <1>6 DEF RolesFine
<1> QED BY <1>1, <1>2, <1>3, <1>4, <1>5, <1>7, FineByRest, CalmKeepsInv

\* An owner who demotes another remains one.
LEMMA PatchKeepsInv ==
  ASSUME AdminInv, NEW r \in Requests, NEW u \in Admins, NEW m \in Roles, PatchMember(r, u, m)
  PROVE  AdminInv'
<1>1. PICK self \in Admins : self = request[r].user
  BY DEF PatchMember, AdminInv, RequestOK, IsAccount
<1>2. /\ UNCHANGED <<session, link, code, jar, cli, ended, resets, founders>> /\ Respond(r)
      /\ role' = [role EXCEPT ![u] = m] /\ held' = [held EXCEPT ![u][m] = 0]
      /\ unowned' = IF HasOwner(role) /\ ~HasOwner(role')
                    THEN unowned \union {IF role[self] = "owner" THEN "demoted" ELSE "stale owner"}
                    ELSE unowned
      /\ u # self \/ m = "owner"
  BY <1>1 DEF PatchMember, SetRole, MayDemote
<1>3. /\ role' \in [Admins -> Roles \union {None}] /\ role'[u] = m
      /\ \A v \in Admins \ {u} : role'[v] = role[v]
      /\ held' \in [Admins -> [Roles -> 0 .. LongAgo]]
      /\ Calm /\ \A v \in Admins : RoleOK(v)'
  BY <1>2, RoleSet
<1>4. RequestsFine /\ request' \in [Requests -> Handler]
  BY <1>2, RespondIsFine
<1>5. TypeOK'
  BY <1>2, <1>3, <1>4 DEF AdminInv, TypeOK, OneBootstrap, CodeYieldsOneToken
<1>6. OwnerRemains'
  <2>1. CASE role[self] = "owner"
    <3>1. HasOwner(role')
      BY <1>2, <1>3, <2>1 DEF HasOwner
    <3> QED BY <3>1 DEF OwnerRemains
  <2>2. CASE role[self] # "owner"
    <3>1. HasOwner(role) /\ ~HasOwner(role') => "stale owner" \in unowned'
      BY <1>2, <2>2
    <3>2. ~HasOwner(role) => unowned' = unowned
      BY <1>2
    <3> QED BY <1>2, <3>1, <3>2 DEF AdminInv, OwnerRemains
  <2> QED BY <2>1, <2>2
<1>7. RolesFine
  BY <1>3, <1>6 DEF RolesFine
<1> QED BY <1>2, <1>3, <1>4, <1>5, <1>7, FineByRest, CalmKeepsInv

LEMMA AnswerKeepsInv ==
  ASSUME AdminInv, NEW r \in Requests, Answer(r)
  PROVE  AdminInv'
<1>1. UNCHANGED <<role, session, link, code, jar, cli, held, ended, resets, founders, unowned>>
      /\ Respond(r)
  BY DEF Answer, history
<1>2. RequestsFine /\ request' \in [Requests -> Handler]
  BY <1>1, RespondIsFine
<1>3. TypeOK'
  BY <1>1, <1>2 DEF AdminInv, TypeOK, OneBootstrap, CodeYieldsOneToken
<1>4. Calm
  BY <1>1, NoTime
<1> QED BY <1>1, <1>2, <1>3, <1>4, FineByRest, CalmKeepsInv

-----------------------------------------------------------------------------
(* The CLI.                                                                *)

LEMMA TokenKeepsInv ==
  ASSUME AdminInv, NEW r \in Requests, NEW c \in Codes, AuthenticateByToken(r, c)
  PROVE  AdminInv'
<1>1. PICK u \in Admins : u = code[c].user /\ Exists(u)
  <2>1. code[c] # NoCode
    BY DEF AuthenticateByToken, NoCode
  <2> QED BY <2>1 DEF AdminInv, CodeOK, IsAccount
<1>2. PICK m \in Roles : m = role[u] /\ held[u][m] = 0
  BY <1>1 DEF AdminInv, RoleOK, TypeOK, Exists
<1>3. PICK q \in Handler :
        /\ request' = [request EXCEPT ![r] = q]
        /\ q.step = "acting" /\ q.user = u /\ q.role = m /\ q.session = None
  <2> DEFINE w == [Idle EXCEPT !.step = "acting", !.user = u, !.role = m]
  <2>1. w \in Handler /\ w.step = "acting" /\ w.user = u /\ w.role = m /\ w.session = None
    BY DEF Handler, Steps, Someone, Idle
  <2>2. request' = [request EXCEPT ![r] = w]
    BY <1>1, <1>2 DEF AuthenticateByToken, Start
  <2> HIDE DEF w
  <2> QED BY <2>1, <2>2
<1>4. request'[r] = q
  BY <1>3 DEF AdminInv, TypeOK
<1>5. UNCHANGED <<role, session, link, code, jar, cli, history>>
  BY DEF AuthenticateByToken
<1>6. RequestOK(r)'
  BY <1>1, <1>2, <1>3, <1>4, <1>5, LifetimeIsPositive DEF RequestOK, IsAccount, Exists, history
<1> QED BY <1>3, <1>5, <1>6, MoveKeepsInv

\* A step on the codes alone.
LEMMA CodeStepKeepsInv ==
  ASSUME AdminInv, code' \in [Codes -> Code], cli' \in [Clis -> [verified : Codes \union {None}]],
         request' \in [Requests -> Handler], RequestsFine, CodeYieldsOneToken', CodesFine,
         UNCHANGED <<role, session, link, jar, history>>
  PROVE  AdminInv'
<1>1. UNCHANGED <<role, session, link, jar, held, ended, resets, founders, unowned>>
  BY DEF history
<1>2. TypeOK'
  BY <1>1 DEF AdminInv, TypeOK, OneBootstrap
<1>3. Calm
  BY <1>1, NoTime
<1> QED BY <1>1, <1>2, <1>3, FineByRest, CalmKeepsInv

LEMMA AuthorizeKeepsInv ==
  ASSUME AdminInv, NEW r \in Requests, AuthorizeCli(r)
  PROVE  AdminInv'
<1>1. PICK u \in Admins : u = request[r].user /\ Exists(u)
  BY DEF AuthorizeCli, AdminInv, RequestOK, IsAccount
<1>2. PICK c \in Codes :
        /\ code[c] = NoCode
        /\ code' = [code EXCEPT ![c] = [user |-> u, live |-> TRUE, token |-> "none"]]
  BY <1>1 DEF AuthorizeCli, Unused, AdminInv, TypeOK
<1>3. PICK x \in Code : /\ x = [user |-> u, live |-> TRUE, token |-> "none"]
                        /\ x.user = u /\ x.token = "none"
  <2> DEFINE w == [user |-> u, live |-> TRUE, token |-> "none"]
  <2>1. w \in Code /\ w.user = u /\ w.token = "none"
    BY DEF Code, Someone
  <2> HIDE DEF w
  <2> QED BY <2>1 DEF w
<1>4. code' = [code EXCEPT ![c] = x]
  BY <1>2, <1>3
<1>5. code' \in [Codes -> Code] /\ code'[c] = x /\ \A d \in Codes \ {c} : code'[d] = code[d]
  BY <1>4 DEF AdminInv, TypeOK
<1>6. UNCHANGED <<role, session, link, jar, cli, history>> /\ Respond(r)
  BY DEF AuthorizeCli
<1>7. RequestsFine /\ request' \in [Requests -> Handler]
  BY <1>6, RespondIsFine
<1>8. \A k \in Clis : cli[k].verified # c
  <2>1. code[c].user = None
    BY <1>2 DEF NoCode
  <2>2. c # None
    BY NoneIsNobody
  <2> QED BY <2>1, <2>2 DEF AdminInv, CliOK
<1>9. \A k \in Clis : cli[k].verified \in Codes \union {None}
  BY DEF AdminInv, TypeOK
<1>10. CodeYieldsOneToken'
  BY <1>5, <1>6, <1>8, <1>9 DEF CodeYieldsOneToken, AdminInv, TypeOK
<1>11. u # None
  BY NoneIsNobody
<1>12. \A d \in Codes : CodeOK(d)'
  BY <1>1, <1>3, <1>5, <1>6, <1>11 DEF CodeOK, IsAccount, Exists, AdminInv
<1>13. \A k \in Clis : CliOK(k)'
  BY <1>5, <1>6, <1>8, <1>9 DEF CliOK, AdminInv
<1>14. CodesFine
  BY <1>12, <1>13 DEF CodesFine
<1>15. cli' \in [Clis -> [verified : Codes \union {None}]]
  BY <1>6 DEF AdminInv, TypeOK
<1> QED BY <1>5, <1>6, <1>7, <1>10, <1>14, <1>15, CodeStepKeepsInv

\* A code that was verified cannot be verified again.
LEMMA ExchangeKeepsInv ==
  ASSUME AdminInv, NEW k \in Clis, NEW c \in Codes, NEW right \in BOOLEAN, ExchangeCode(k, c, right)
  PROVE  AdminInv'
<1>1. PICK x \in Code : /\ x = [code[c] EXCEPT !.live = FALSE]
                        /\ ~x.live /\ x.user = code[c].user /\ x.token = code[c].token
  <2> DEFINE w == [code[c] EXCEPT !.live = FALSE]
  <2>1. w \in Code /\ ~w.live /\ w.user = code[c].user /\ w.token = code[c].token
    BY DEF Code, AdminInv, TypeOK
  <2> HIDE DEF w
  <2> QED BY <2>1 DEF w
<1>2. PICK v \in Codes \union {None} : v = IF right THEN c ELSE None
  OBVIOUS
<1>3. PICK y \in [verified : Codes \union {None}] :
        y = [cli[k] EXCEPT !.verified = v] /\ y.verified = v
  <2> DEFINE w == [cli[k] EXCEPT !.verified = v]
  <2>1. w \in [verified : Codes \union {None}] /\ w.verified = v
    BY DEF AdminInv, TypeOK
  <2> HIDE DEF w
  <2> QED BY <2>1 DEF w
<1>4. /\ code' = [code EXCEPT ![c] = x] /\ cli' = [cli EXCEPT ![k] = y]
      /\ UNCHANGED <<role, session, link, jar, request, history>>
      /\ code[c].live
  BY <1>1, <1>2, <1>3 DEF ExchangeCode, CodeOpens
<1>5. /\ code' \in [Codes -> Code] /\ code'[c] = x /\ \A d \in Codes \ {c} : code'[d] = code[d]
      /\ cli' \in [Clis -> [verified : Codes \union {None}]]
      /\ cli'[k] = y /\ \A j \in Clis \ {k} : cli'[j] = cli[j]
  BY <1>4 DEF AdminInv, TypeOK
<1>6. /\ code[c].user # None /\ code[c].token = "none" /\ IsAccount(code[c].user)
      /\ \A j \in Clis : cli[j].verified # c
  BY <1>4, NoneIsNobody DEF AdminInv, CodeOK, CliOK, NoCode
<1>7. \A j \in Clis : cli[j].verified \in Codes \union {None}
  BY DEF AdminInv, TypeOK
<1>8. CodeYieldsOneToken'
  <2>1. ASSUME NEW j \in Clis, cli'[j].verified # None
        PROVE  /\ code'[cli'[j].verified].token = "none"
               /\ \A i \in Clis \ {j} : cli'[i].verified # cli'[j].verified
    <3>1. CASE j = k
      <4>1. cli'[j].verified = c
        BY <1>2, <1>3, <1>5, <2>1, <3>1
      <4> QED BY <1>1, <1>5, <1>6, <3>1, <4>1
    <3>2. CASE j # k
      <4>1. PICK d \in Codes : d = cli[j].verified /\ d = cli'[j].verified /\ d # c /\ d # None
        BY <1>5, <1>6, <1>7, <2>1, <3>2
      <4>2. code[d].token = "none" /\ \A i \in Clis \ {j} : cli[i].verified # d
        BY <4>1 DEF AdminInv, TypeOK, CodeYieldsOneToken
      <4>3. cli'[k].verified # d
        BY <1>2, <1>3, <1>5, <4>1
      <4> QED BY <1>5, <4>1, <4>2, <4>3
    <3> QED BY <3>1, <3>2
  <2> QED BY <2>1 DEF CodeYieldsOneToken
<1>9. \A d \in Codes : CodeOK(d)'
  BY <1>1, <1>4, <1>5, <1>6 DEF CodeOK, IsAccount, Exists, AdminInv
<1>10. ASSUME NEW j \in Clis PROVE CliOK(j)'
  <2>1. CASE j = k
    <3>1. cli'[j].verified \in {c, None}
      BY <1>2, <1>3, <1>5, <2>1
    <3>2. code'[c].user # None /\ ~code'[c].live
      BY <1>1, <1>5, <1>6
    <3> QED BY <3>1, <3>2 DEF CliOK
  <2>2. CASE j # k
    <3>1. PICK d \in Codes \union {None} : d = cli[j].verified /\ d = cli'[j].verified /\ d # c
      BY <1>5, <1>6, <1>7, <2>2
    <3>2. d # None => code[d].user # None /\ ~code[d].live
      BY <3>1 DEF AdminInv, CliOK
    <3>3. d # None => code'[d] = code[d]
      BY <1>5, <3>1
    <3> QED BY <3>1, <3>2, <3>3 DEF CliOK
  <2> QED BY <2>1, <2>2
<1>11. CodesFine
  BY <1>9, <1>10 DEF CodesFine
<1>12. RequestsFine /\ request' \in [Requests -> Handler]
  BY <1>4, FineByRest DEF AdminInv, TypeOK
<1> QED BY <1>4, <1>5, <1>8, <1>11, <1>12, CodeStepKeepsInv

\* The process that verified a code is the only one that did.
LEMMA IssueKeepsInv ==
  ASSUME AdminInv, NEW k \in Clis, IssueToken(k)
  PROVE  AdminInv'
<1>1. PICK c \in Codes : c = cli[k].verified /\ c # None
  BY DEF IssueToken, AdminInv, TypeOK
<1>2. PICK x \in Code : /\ x = [code[c] EXCEPT !.token = "live"]
                        /\ x.live = code[c].live /\ x.user = code[c].user
  <2> DEFINE w == [code[c] EXCEPT !.token = "live"]
  <2>1. w \in Code /\ w.live = code[c].live /\ w.user = code[c].user
    BY DEF Code, AdminInv, TypeOK
  <2> HIDE DEF w
  <2> QED BY <2>1 DEF w
<1>3. NoLogin \in [verified : Codes \union {None}] /\ NoLogin.verified = None
  BY DEF NoLogin
<1>4. /\ code' = [code EXCEPT ![c] = x] /\ cli' = [cli EXCEPT ![k] = NoLogin]
      /\ UNCHANGED <<role, session, link, jar, request, history>>
  BY <1>1, <1>2 DEF IssueToken
<1>5. /\ code' \in [Codes -> Code] /\ code'[c] = x /\ \A d \in Codes \ {c} : code'[d] = code[d]
      /\ cli' \in [Clis -> [verified : Codes \union {None}]]
      /\ cli'[k] = NoLogin /\ \A j \in Clis \ {k} : cli'[j] = cli[j]
  BY <1>3, <1>4 DEF AdminInv, TypeOK
<1>6. /\ code[c].user # None /\ ~code[c].live
      /\ \A j \in Clis \ {k} : cli[j].verified # c
  BY <1>1 DEF AdminInv, TypeOK, CliOK, CodeYieldsOneToken
<1>7. \A j \in Clis : cli[j].verified \in Codes \union {None}
  BY DEF AdminInv, TypeOK
<1>8. CodeYieldsOneToken'
  <2>1. ASSUME NEW j \in Clis, cli'[j].verified # None
        PROVE  /\ code'[cli'[j].verified].token = "none"
               /\ \A i \in Clis \ {j} : cli'[i].verified # cli'[j].verified
    <3>1. j # k
      BY <1>3, <1>5, <2>1
    <3>2. PICK d \in Codes : d = cli[j].verified /\ d = cli'[j].verified /\ d # c /\ d # None
      BY <1>5, <1>6, <1>7, <2>1, <3>1
    <3>3. code[d].token = "none" /\ \A i \in Clis \ {j} : cli[i].verified # d
      BY <3>2 DEF AdminInv, TypeOK, CodeYieldsOneToken
    <3> QED BY <1>3, <1>5, <3>2, <3>3
  <2> QED BY <2>1 DEF CodeYieldsOneToken
<1>9. \A d \in Codes : CodeOK(d)'
  <2>1. code[c] # NoCode
    BY <1>6 DEF NoCode
  <2> QED BY <1>2, <1>4, <1>5, <1>6, <2>1 DEF CodeOK, IsAccount, Exists, AdminInv
<1>10. \A j \in Clis : CliOK(j)'
  BY <1>3, <1>5, <1>6, <1>7 DEF CliOK, AdminInv
<1>11. CodesFine
  BY <1>9, <1>10 DEF CodesFine
<1>12. RequestsFine /\ request' \in [Requests -> Handler]
  BY <1>4, FineByRest DEF AdminInv, TypeOK
<1> QED BY <1>4, <1>5, <1>8, <1>11, <1>12, CodeStepKeepsInv

LEMMA RevokeKeepsInv ==
  ASSUME AdminInv, NEW c \in Codes, RevokeToken(c)
  PROVE  AdminInv'
<1>1. PICK x \in Code : /\ x = [code[c] EXCEPT !.token = "revoked"]
                        /\ x.live = code[c].live /\ x.user = code[c].user
  <2> DEFINE w == [code[c] EXCEPT !.token = "revoked"]
  <2>1. w \in Code /\ w.live = code[c].live /\ w.user = code[c].user
    BY DEF Code, AdminInv, TypeOK
  <2> HIDE DEF w
  <2> QED BY <2>1 DEF w
<1>2. /\ code' = [code EXCEPT ![c] = x] /\ code[c].token = "live"
      /\ UNCHANGED <<role, session, link, jar, request, cli, history>>
  BY <1>1 DEF RevokeToken
<1>3. code' \in [Codes -> Code] /\ code'[c] = x /\ \A d \in Codes \ {c} : code'[d] = code[d]
  BY <1>2 DEF AdminInv, TypeOK
<1>4. \A j \in Clis : cli[j].verified \in Codes \union {None}
  BY DEF AdminInv, TypeOK
<1>5. \A j \in Clis : cli[j].verified # c
  BY <1>2, NoneIsNobody DEF AdminInv, TypeOK, CodeYieldsOneToken
<1>6. CodeYieldsOneToken'
  BY <1>2, <1>3, <1>4, <1>5 DEF CodeYieldsOneToken, AdminInv, TypeOK
<1>7. \A d \in Codes : CodeOK(d)'
  <2>1. code[c] # NoCode /\ ~code[c].live
    BY <1>2 DEF NoCode, AdminInv, CodeOK
  <2> QED BY <1>1, <1>2, <1>3, <2>1 DEF CodeOK, IsAccount, Exists, AdminInv
<1>8. \A j \in Clis : CliOK(j)'
  BY <1>2, <1>3, <1>4, <1>5 DEF CliOK, AdminInv
<1>9. CodesFine
  BY <1>7, <1>8 DEF CodesFine
<1>10. /\ RequestsFine /\ request' \in [Requests -> Handler]
       /\ cli' \in [Clis -> [verified : Codes \union {None}]]
  BY <1>2, FineByRest DEF AdminInv, TypeOK
<1> QED BY <1>2, <1>3, <1>6, <1>9, <1>10, CodeStepKeepsInv

-----------------------------------------------------------------------------
(* Time passes.                                                            *)

\* What a cookie says may have changed by one unit of time more, and the cookie is
\* good for one less.
LEMMA TickKeepsInv ==
  ASSUME AdminInv, Tick
  PROVE  AdminInv'
<1>1. \A age \in 0 .. LongAgo : Later(age) \in 0 .. LongAgo /\ Later(age) <= age + 1
  BY LifetimeIsPositive DEF Later, LongAgo
<1>2. 0 \in 0 .. LongAgo
  BY LifetimeIsPositive DEF LongAgo
<1>3. UNCHANGED <<role, session, link, request, cli, resets, founders, unowned>>
  BY DEF Tick
<1>4. /\ held \in [Admins -> [Roles -> 0 .. LongAgo]] /\ ended \in [Sessions -> 0 .. LongAgo]
      /\ jar \in [Browsers -> Jar] /\ code \in [Codes -> Code]
  BY DEF AdminInv, TypeOK
<1>5. /\ held' \in [Admins -> [Roles -> 0 .. LongAgo]]
      /\ \A u \in Admins, m \in Roles :
           held'[u][m] = IF role[u] = m THEN 0 ELSE Later(held[u][m])
  <2>1. held' = [u \in Admins |-> [m \in Roles |-> IF role[u] = m THEN 0 ELSE Later(held[u][m])]]
    BY DEF Tick
  <2>2. \A u \in Admins, m \in Roles :
          (IF role[u] = m THEN 0 ELSE Later(held[u][m])) \in 0 .. LongAgo
    BY <1>1, <1>2, <1>4
  <2> QED BY <2>1, <2>2
<1>6. /\ ended' \in [Sessions -> 0 .. LongAgo]
      /\ \A s \in Sessions : ~session[s].live => ended'[s] = Later(ended[s])
  BY <1>1, <1>2, <1>4 DEF Tick
<1>7. \A u \in Admins : RoleOK(u)'
  BY <1>3, <1>5 DEF AdminInv, TypeOK, RoleOK, Exists
<1>8. ASSUME NEW c \in Codes
      PROVE  /\ code'[c] \in Code /\ ~code'[c].live
             /\ code'[c].user = code[c].user /\ code'[c].token = code[c].token
  <2>1. code'[c] = [code[c] EXCEPT !.live = FALSE] /\ code[c] \in Code
    BY <1>4 DEF Tick
  <2> QED BY <2>1 DEF Code
<1>9. code' \in [Codes -> Code]
  BY <1>8 DEF Tick
<1>10. \A c \in Codes : code[c] = NoCode => code'[c] = NoCode
  <2>1. \A x \in Code : x.user = None /\ ~x.live /\ x.token = "none" => x = NoCode
    BY DEF Code, NoCode
  <2>2. NoCode.user = None /\ NoCode.token = "none"
    BY DEF NoCode
  <2> QED BY <1>8, <2>1, <2>2
<1>11. /\ \A c \in Codes : CodeOK(c)'
       /\ \A k \in Clis : CliOK(k)'
       /\ CodeYieldsOneToken'
  <2>1. \A k \in Clis : cli[k].verified \in Codes \union {None}
    BY DEF AdminInv, TypeOK
  <2>2. \A c \in Codes : CodeOK(c)'
    BY <1>3, <1>8, <1>10 DEF AdminInv, CodeOK, IsAccount, Exists
  <2>3. \A k \in Clis : CliOK(k)'
    BY <1>3, <1>8, <2>1 DEF AdminInv, CliOK
  <2>4. CodeYieldsOneToken'
    BY <1>3, <1>8, <2>1 DEF AdminInv, TypeOK, CodeYieldsOneToken
  <2> QED BY <2>2, <2>3, <2>4
<1>12. ASSUME NEW b \in Browsers
       PROVE  jar'[b] \in Jar /\ JarOK(b)'
  <2>1. PICK j \in Jar : j = jar[b] /\ (j.access # None => CookieOK(j.access))
    BY <1>4 DEF AdminInv, JarOK
  <2>2. jar'[b] = [j EXCEPT !.access = Aged(j.access)]
    BY <2>1 DEF Tick
  <2>3. PICK a : a = Aged(j.access)
    OBVIOUS
  <2>4. a = None \/ (a \in Cookie /\ CookieOK(a)')
    <3> SUFFICES ASSUME a # None PROVE a \in Cookie /\ CookieOK(a)'
      OBVIOUS
    <3>1. PICK k \in Cookie : /\ k = j.access /\ k.ttl # 1 /\ CookieOK(k)
                              /\ a = [k EXCEPT !.ttl = k.ttl - 1]
      BY <2>1, <2>3 DEF Aged, Jar
    <3>2. /\ a \in Cookie /\ a.user = k.user /\ a.role = k.role /\ a.session = k.session
          /\ a.ttl = k.ttl - 1 /\ k.ttl \in Nat /\ k.user \in Admins /\ k.role \in Roles
          /\ k.session \in Sessions
      BY <3>1 DEF Cookie
    <3>3. held'[k.user][k.role] <= held[k.user][k.role] + 1
      BY <1>1, <1>4, <1>5, <3>2
    <3>4. held'[k.user][k.role] + (k.ttl - 1) <= AccessLifetime
      <4>1. /\ held[k.user][k.role] \in 0 .. LongAgo /\ held'[k.user][k.role] \in 0 .. LongAgo
            /\ held[k.user][k.role] + k.ttl <= AccessLifetime
        BY <1>4, <1>5, <3>1, <3>2 DEF CookieOK
      <4> QED BY <3>2, <3>3, <4>1, LifetimeIsPositive DEF LongAgo
    <3>5. session[k.session].live \/ ended'[k.session] + (k.ttl - 1) <= AccessLifetime
      <4> SUFFICES ASSUME ~session[k.session].live
                   PROVE  ended'[k.session] + (k.ttl - 1) <= AccessLifetime
        OBVIOUS
      <4>1. /\ ended[k.session] \in 0 .. LongAgo /\ ended'[k.session] \in 0 .. LongAgo
            /\ ended'[k.session] <= ended[k.session] + 1
            /\ ended[k.session] + k.ttl <= AccessLifetime
        BY <1>1, <1>4, <1>6, <3>1, <3>2 DEF CookieOK
      <4> QED BY <3>2, <4>1, LifetimeIsPositive DEF LongAgo
    <3> QED BY <1>3, <3>1, <3>2, <3>4, <3>5 DEF CookieOK, Exists
  <2>5. jar'[b] \in Jar /\ jar'[b].access = a
    BY <2>2, <2>3, <2>4 DEF Jar
  <2> QED BY <2>4, <2>5 DEF JarOK
<1>13. jar' \in [Browsers -> Jar]
  BY <1>12 DEF Tick
<1>14. \A r \in Requests : RequestOK(r)'
  BY <1>3 DEF Tick, RequestOK
<1>15. TypeOK'
  BY <1>3, <1>5, <1>6, <1>9, <1>11, <1>13 DEF AdminInv, TypeOK, OneBootstrap
<1>16. /\ \A s \in Sessions : SessionOK(s)'
       /\ \A l \in Links : LinkOK(l)'
       /\ ResetEndsSessions' /\ OwnerRemains'
  BY <1>3 DEF AdminInv, SessionOK, LinkOK, IsAccount, Exists, ResetEndsSessions, OwnerRemains, HasOwner
<1> QED BY <1>7, <1>11, <1>12, <1>14, <1>15, <1>16 DEF AdminInv

-----------------------------------------------------------------------------
(* The theorems.                                                           *)

\* A fresh installation satisfies the invariant.
LEMMA InitAdminInv == Init => AdminInv
<1> SUFFICES ASSUME Init PROVE AdminInv
  OBVIOUS
<1>1. /\ NoRow \in Row /\ ~NoRow.live /\ NoLink \in Link /\ ~NoLink.live
      /\ NoCode \in Code /\ ~NoCode.live
  BY DEF NoRow, Row, NoLink, Link, NoCode, Code, Someone
<1>2. /\ NoJar \in Jar /\ NoJar.access = None
      /\ NoLogin \in [verified : Codes \union {None}] /\ NoLogin.verified = None
  BY DEF NoJar, Jar, NoLogin
<1>3. Idle \in Handler /\ Idle.step = "idle"
  BY DEF Idle, Handler, Steps, Someone
<1>4. 0 \in 0 .. LongAgo /\ LongAgo \in 0 .. LongAgo
  BY LifetimeIsPositive DEF LongAgo
<1>5. CodeYieldsOneToken
  BY <1>2 DEF Init, CodeYieldsOneToken
<1>6. OneBootstrap
  BY FS_EmptySet DEF Init, OneBootstrap
<1>7. /\ role \in [Admins -> Roles \union {None}]
      /\ session \in [Sessions -> Row] /\ link \in [Links -> Link] /\ code \in [Codes -> Code]
      /\ jar \in [Browsers -> Jar] /\ request \in [Requests -> Handler]
      /\ cli \in [Clis -> [verified : Codes \union {None}]]
      /\ held \in [Admins -> [Roles -> 0 .. LongAgo]] /\ ended \in [Sessions -> 0 .. LongAgo]
      /\ resets \in [Admins -> Nat] /\ founders \subseteq Admins
  BY <1>1, <1>2, <1>3, <1>4 DEF Init
<1>8. TypeOK
  BY <1>5, <1>6, <1>7 DEF TypeOK
<1>9. /\ \A s \in Sessions : SessionOK(s)
      /\ \A l \in Links : LinkOK(l)
      /\ \A c \in Codes : CodeOK(c)
      /\ \A k \in Clis : CliOK(k)
      /\ \A u \in Admins : RoleOK(u)
      /\ \A b \in Browsers : JarOK(b)
  BY <1>1, <1>2 DEF Init, SessionOK, LinkOK, CodeOK, CliOK, RoleOK, Exists, JarOK
<1>10. \A r \in Requests : RequestOK(r)
  BY <1>3 DEF Init, RequestOK
<1>11. ResetEndsSessions /\ OwnerRemains
  BY <1>1 DEF Init, ResetEndsSessions, OwnerRemains
<1> QED BY <1>8, <1>9, <1>10, <1>11 DEF AdminInv

\* Every step keeps the invariant.
LEMMA NextKeepsAdminInv == AdminInv /\ [Next]_vars => AdminInv'
<1> SUFFICES ASSUME AdminInv, [Next]_vars PROVE AdminInv'
  OBVIOUS
<1>1. ASSUME NEW r \in Requests, RequestStep(r) PROVE AdminInv'
  <2>1. ASSUME NEW b \in Browsers, NEW l \in Links, AcceptInvitation(r, b, l) PROVE AdminInv'
    BY <2>1, AcceptKeepsInv
  <2>2. ASSUME NEW b \in Browsers,
               \/ AuthenticateByAccess(r, b) \/ ReadSession(r, b) \/ CountAdmins(r, b)
               \/ \E u \in Admins : Login(r, b, u)
        PROVE  AdminInv'
    BY <2>2, ReadersKeepInv
  <2>3. CASE RenewSession(r) \/ CreateSession(r) \/ Answer(r) \/ AuthorizeCli(r)
    BY <2>3, RenewKeepsInv, CreateKeepsInv, AnswerKeepsInv, AuthorizeKeepsInv
  <2>4. ASSUME NEW u \in Admins, Bootstrap(r, u) PROVE AdminInv'
    BY <2>4, BootstrapKeepsInv
  <2>5. ASSUME NEW u \in Admins, NEW m \in Roles, InviteMember(r, u, m) \/ PatchMember(r, u, m)
        PROVE  AdminInv'
    BY <2>5, InviteKeepsInv, PatchKeepsInv
  <2>6. ASSUME NEW c \in Codes, AuthenticateByToken(r, c) PROVE AdminInv'
    BY <2>6, TokenKeepsInv
  <2> QED BY <1>1, <2>1, <2>2, <2>3, <2>4, <2>5, <2>6 DEF RequestStep
<1>2. ASSUME NEW b \in Browsers, RefuseSession(b) \/ Logout(b) PROVE AdminInv'
  BY <1>2, RefuseKeepsInv, LogoutKeepsInv
<1>3. ASSUME NEW u \in Admins, ForgotPassword(u) PROVE AdminInv'
  BY <1>3, ForgotKeepsInv
<1>4. ASSUME NEW l \in Links, ResetPassword(l) PROVE AdminInv'
  BY <1>4, ResetKeepsInv
<1>5. ASSUME NEW k \in Clis, IssueToken(k) PROVE AdminInv'
  BY <1>5, IssueKeepsInv
<1>6. ASSUME NEW k \in Clis, NEW c \in Codes, NEW right \in BOOLEAN, ExchangeCode(k, c, right)
      PROVE  AdminInv'
  BY <1>6, ExchangeKeepsInv
<1>7. ASSUME NEW c \in Codes, RevokeToken(c) PROVE AdminInv'
  BY <1>7, RevokeKeepsInv
<1>8. CASE Tick
  BY <1>8, TickKeepsInv
<1>9. CASE UNCHANGED vars
  <2>1. /\ UNCHANGED <<role, session, link, code, jar, request, cli>>
        /\ UNCHANGED <<held, ended, resets, founders, unowned>>
    BY <1>9 DEF vars, history
  <2>2. TypeOK'
    BY <2>1 DEF AdminInv, TypeOK, OneBootstrap, CodeYieldsOneToken
  <2>3. Calm
    BY <2>1, NoTime
  <2> QED BY <2>1, <2>2, <2>3, FineByRest, CalmKeepsInv
<1> QED
  BY <1>1, <1>2, <1>3, <1>4, <1>5, <1>6, <1>7, <1>8, <1>9 DEF Next

\* The inductive invariant holds of every reachable state.
THEOREM AdminInvariant == Spec => []AdminInv
<1>1. Init => AdminInv
  BY InitAdminInv
<1>2. AdminInv /\ [Next]_vars => AdminInv'
  BY NextKeepsAdminInv
<1> QED
  BY <1>1, <1>2, PTL DEF Spec

\* Rows, cookies and handlers keep their types; of several bootstraps at once one
\* succeeds, and a login code of the CLI is verified by one process and yields one
\* token (auth/admin.ts, auth/cli.ts).
THEOREM TypeCorrect == Spec => []TypeOK
<1>1. AdminInv => TypeOK
  BY DEF AdminInv
<1> QED
  BY <1>1, AdminInvariant, PTL

\* However often a session is renewed and however requests overlap with a change of
\* role, a logout or a reset, a handler acts on what was true less than one cookie
\* lifetime ago (requireAdmin, renewAdminSession).
THEOREM AccessFadesAlways == Spec => []AccessFades
<1>1. AdminInv => AccessFades
  <2> SUFFICES ASSUME AdminInv, NEW r \in Requests, request[r].step = "acting"
               PROVE  /\ held[request[r].user][request[r].role] < AccessLifetime
                      /\ request[r].session # None =>
                           \/ session[request[r].session].live
                           \/ ended[request[r].session] < AccessLifetime
    BY DEF AccessFades, RoleIsRecent, SessionsFade
  <2> QED BY DEF AdminInv, RequestOK
<1> QED
  BY <1>1, AdminInvariant, PTL

\* A session that reads was inserted after its user's last password reset
\* (POST /auth/reset-password).
THEOREM ResetEndsSessionsAlways == Spec => []ResetEndsSessions
<1>1. AdminInv => ResetEndsSessions
  BY DEF AdminInv
<1> QED
  BY <1>1, AdminInvariant, PTL

\* A workspace loses its last owner only through an owner demoted while acting, or an
\* invitation of the owner's own address (api/settings.ts members).
THEOREM OwnerRemainsAlways == Spec => []OwnerRemains
<1>1. AdminInv => OwnerRemains
  BY DEF AdminInv
<1> QED
  BY <1>1, AdminInvariant, PTL
=============================================================================
