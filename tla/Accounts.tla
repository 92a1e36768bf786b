---- MODULE Accounts ----
(***************************************************************************)
(* The accounts of a workspace's users: their passwords, second factor,    *)
(* linked Google and GitHub accounts, and the sessions sign-in opens       *)
(* (auth/portal.ts, the login and social callback of oauth/authorization.ts,*)
(* lib/identity-password.ts, lib/identity-mfa.ts, api/dashboard.ts users). *)
(*                                                                         *)
(* A handler is split where it waits between two looks at the database.    *)
(* Two row locks of PostgreSQL matter: a handler that selected the user    *)
(* FOR UPDATE stops the foreign-key check of every INSERT that names the   *)
(* user; a plain UPDATE of the user does not.  A session has no refresh     *)
(* family: nothing writes user_sessions.refresh_family_id.                  *)
(***************************************************************************)
EXTENDS Integers, FiniteSets

CONSTANTS
  Users,      \* by email address
  Subjects,   \* accounts at the providers
  Providers,
  ProviderOf, \* Subjects -> Providers
  EmailOf,    \* Subjects -> the address the provider verified; None: not one of Users
  Enrolling,  \* a bound: the users who may enable a second factor
  Requests,   \* handlers at work at a time
  Sessions,   \* rows of sessions that are not over
  None        \* null

ASSUME SubjectsHaveProviders == ProviderOf \in [Subjects -> Providers]
ASSUME SubjectsHaveAddresses == EmailOf \in [Subjects -> Users \union {None}]
ASSUME SubjectsAreFinite == IsFiniteSet(Subjects)
ASSUME NoneIsNobody == None \notin Users \union Sessions \union Subjects

Absent    == [exists |-> FALSE, password |-> FALSE, code |-> "none", accepted |-> 0]
NoSession == [user |-> None, mark |-> "none"]
Idle      == [step |-> "idle", via |-> "none", user |-> None, session |-> None,
              subject |-> None, known |-> FALSE, ends |-> {},
              stale |-> FALSE, missed |-> FALSE]

VARIABLES
  account,  \* identity_users; code is a recovery code, "none" without a second factor
  link,     \* social_identities: Subjects -> user
  session,  \* user_sessions that are active; others are NoSession again
  hand      \* Requests -> the handler at work
  \* Of these, for the properties only: account.accepted, how often the recovery code
  \* was accepted; session.mark, how the session came through the user's last password
  \* change; hand.stale, the password changed since the handler read it; hand.missed,
  \* links of the user changed since the handler looked at them.

vars == <<account, link, session, hand>>

Start(r, h)  == hand[r] = Idle /\ hand' = [hand EXCEPT ![r] = h]
Goto(r, s)   == hand' = [hand EXCEPT ![r].step = s]
Respond(r)   == hand' = [hand EXCEPT ![r] = Idle]
Exists(u)    == account[u].exists
HasFactor(u) == account[u].code # "none"
Live(s)      == session[s] # NoSession
LinkedTo(l, u)        == {x \in Subjects : l[x] = u}
OfProvider(l, u, p)   == {x \in LinkedTo(l, u) : ProviderOf[x] = p}

Doing(u, step, vias) == \E r \in Requests : /\ hand[r].user = u /\ hand[r].step = step
                                            /\ hand[r].via \in vias

\* Mutant: the link-token transaction no longer selects the user FOR UPDATE.
HeldForUpdateByResetOnly(u) == Doing(u, "committing", {"dashboard"})

\* The user's row is locked FOR UPDATE: by a login with a link token, or by a reset.
HeldForUpdate(u) == \/ Doing(u, "linking", {"offer"})
                    \/ Doing(u, "committing", {"dashboard"})

\* The user's row has been updated by a transaction that is still open.
BeingUpdated(u) == Doing(u, "committing", {"portal", "dashboard"})

----
(* Sign-in *)

\* POST /auth/login of the portal and /login of the authorization server: the user is
\* read and the password compared with what was read.  Only the latter takes a link token.
ReadLogin(r, u) ==
  /\ Exists(u) /\ account[u].password
  /\ \/ hand[r] = Idle
     \/ hand[r].step = "offered" /\ hand[r].user = u
  /\ hand' = [hand EXCEPT ![r].step = IF HasFactor(u) THEN "proving" ELSE "entering",
                          ![r].user = u]
  /\ UNCHANGED <<account, link, session>>

\* Mutant: a code that was used is accepted again.
CodeIsUnusedUnchecked(u) == HasFactor(u)

\* UPDATE identity_mfa_recovery_codes ... WHERE used_at IS NULL FOR UPDATE SKIP LOCKED
CodeIsUnused(u) == account[u].code = "unused"

\* verifyIdentityMfa: a TOTP code proves the secret that was read, whatever became of
\* it since; a recovery code is looked up, and used up, now.
Prove(r) ==
  LET u == hand[r].user IN
  /\ hand[r].step = "proving"
  /\ Goto(r, IF hand[r].via = "disable" THEN "disabling" ELSE "entering")
  /\ \/ UNCHANGED account
     \/ /\ CodeIsUnused(u)
        /\ account' = [account EXCEPT ![u].code = "used", ![u].accepted = @ + 1]
  /\ UNCHANGED <<link, session>>

\* The foreign key lets the INSERT wait for FOR UPDATE, and fail when the user is gone.
\* continueAfterAuthentication updates the user first, and so waits for every change of
\* the row; what it may insert then, the portal may insert at any time.
MayInsertSession(u) == Exists(u) /\ ~HeldForUpdate(u)

\* No handler at work refers to the row.
Unreferenced(s) == \A r \in Requests : hand[r].session # s /\ s \notin hand[r].ends

\* createPortalSession and continueAfterAuthentication
InsertSession(r) ==
  LET h == hand[r] IN
  /\ h.step = "entering" /\ h.via # "offer"
  /\ MayInsertSession(h.user)
  /\ \E s \in Sessions :
       /\ ~Live(s) /\ Unreferenced(s)
       /\ session' = [session EXCEPT ![s] =
            [user |-> h.user, mark |-> IF h.stale \/ BeingUpdated(h.user) THEN "raced"
                                       ELSE "current"]]
  /\ Respond(r)
  /\ UNCHANGED <<account, link>>

\* completePortalSocialLogin and the social callback of the authorization server, when
\* the provider's account is linked.  Neither asks for the second factor.
SocialLogin(r, x) ==
  /\ link[x] # None
  /\ Start(r, [Idle EXCEPT !.step = "entering", !.user = link[x]])
  /\ UNCHANGED <<account, link, session>>

\* The social callback when the account is not linked, and its address is a user's:
\* only a user with a password gets a token, with which one login links the account.
OfferLink(r, x) ==
  LET u == EmailOf[x] IN
  /\ u # None /\ link[x] = None
  /\ Exists(u) /\ account[u].password
  /\ ~HeldForUpdate(u)
  /\ Start(r, [Idle EXCEPT !.step = "offered", !.via = "offer", !.user = u, !.subject = x])
  /\ UNCHANGED <<account, link, session>>

\* Nobody has the address.  A new user gets an id of its own, which no handler knows:
\* an address is taken again only when no handler is at work for its last user.
IsFree(u) == ~Exists(u) /\ \A r \in Requests : hand[r].user # u

\* The social callback for an address nobody has: user and link, in one transaction.
SocialSignUp(r, x) ==
  LET u == EmailOf[x] IN
  /\ u # None /\ link[x] = None
  /\ IsFree(u)
  /\ account' = [account EXCEPT ![u].exists = TRUE]
  /\ link' = [link EXCEPT ![x] = u]
  /\ Start(r, [Idle EXCEPT !.step = "entering", !.user = u])
  /\ UNCHANGED session

----
(* Linking *)

\* Neither handler links what another user has, or a second account of a provider.
LinkMayBeMade(x, u) ==
  /\ link[x] \in {None, u}
  /\ OfProvider(link, u, ProviderOf[x]) \subseteq {x}

\* GET /auth/social/:provider?intent=link: the state is stored and the user sent off.
\* The provider is chosen by the account that comes back.
StartLink(r, s) ==
  /\ Live(s)
  /\ Start(r, [Idle EXCEPT !.step = "away", !.via = "portal", !.user = session[s].user])
  /\ UNCHANGED <<account, link, session>>

\* The callback: the state is used up, the profile fetched and both conflicts looked
\* for.  It does not ask whether the session that began it still lives.
CheckPortalLink(r, x) ==
  LET h == hand[r] IN
  /\ h.step = "away" /\ Exists(h.user)
  /\ LinkMayBeMade(x, h.user)
  /\ hand' = [hand EXCEPT ![r] = [h EXCEPT !.step = "linking", !.subject = x]]
  /\ UNCHANGED <<account, link, session>>

\* A login with the link token, after the password and the second factor: token and user
\* are locked, both conflicts looked for.
CheckTokenLink(r) ==
  LET h == hand[r] IN
  /\ h.step = "entering" /\ h.via = "offer"
  /\ Exists(h.user) /\ ~HeldForUpdate(h.user) /\ ~BeingUpdated(h.user)
  /\ LinkMayBeMade(h.subject, h.user)
  /\ hand' = [hand EXCEPT ![r] = [h EXCEPT !.step = "linking",
                                           !.known = link[h.subject] = h.user]]
  /\ UNCHANGED <<account, link, session>>

\* What the other handlers know of u's links is no longer so.
MissedBy(h, u, step) ==
  [r \in Requests |-> IF h[r].user = u /\ h[r].step = step
                      THEN [h[r] EXCEPT !.missed = TRUE] ELSE h[r]]

\* The portal's INSERT ... ON CONFLICT leaves a link that is there as it is, whoever
\* has it, and the request succeeds.
InsertPortalLink(r) ==
  LET h == hand[r] IN
  /\ h.step = "linking" /\ h.via = "portal"
  /\ Exists(h.user) /\ ~HeldForUpdate(h.user)
  /\ IF link[h.subject] = None
     THEN /\ link' = [link EXCEPT ![h.subject] = h.user]
          /\ hand' = MissedBy([hand EXCEPT ![r] = Idle], h.user, "linking")
     ELSE Respond(r) /\ UNCHANGED link
  /\ UNCHANGED <<account, session>>

\* The login's INSERT has no ON CONFLICT and fails when the link is there by now; a
\* link it knew of is updated, if it is still there.  Then the login goes on.
InsertTokenLink(r) ==
  LET h == hand[r] IN
  /\ h.step = "linking" /\ h.via = "offer"
  /\ LET next == [hand EXCEPT ![r] = [h EXCEPT !.step = "entering", !.via = "none",
                                               !.subject = None, !.known = FALSE]] IN
     \/ h.known /\ hand' = next /\ UNCHANGED link
     \/ /\ ~h.known /\ link[h.subject] = None
        /\ link' = [link EXCEPT ![h.subject] = h.user]
        /\ hand' = MissedBy(next, h.user, "linking")
  /\ UNCHANGED <<account, session>>

\* Mutant: off by one.
MayUnlinkTheLast(u) == account[u].password \/ Cardinality(LinkedTo(link, u)) >= 1

MayUnlink(u) == account[u].password \/ Cardinality(LinkedTo(link, u)) > 1

\* DELETE /social/:provider: the links are counted (and the password was read) ...
CountLinks(r, s) ==
  /\ Live(s) /\ MayUnlink(session[s].user)
  /\ Start(r, [Idle EXCEPT !.step = "counted", !.user = session[s].user])
  /\ UNCHANGED <<account, link, session>>

\* ... and deleted, in another statement: all the user has of the provider the
\* request named.
Unlink(r, p) ==
  LET h    == hand[r]
      gone == OfProvider(link, h.user, p)
  IN
  /\ h.step = "counted"
  /\ link' = [x \in Subjects |-> IF x \in gone THEN None ELSE link[x]]
  /\ hand' = IF gone = {} THEN [hand EXCEPT ![r] = Idle]
             ELSE MissedBy([hand EXCEPT ![r] = Idle], h.user, "counted")
  /\ UNCHANGED <<account, session>>

----
(* Passwords and the second factor *)

\* PUT /password: the current password is compared with what requirePortal read; no
\* later step looks at it again.
ComparePassword(r, s) ==
  /\ Live(s)
  /\ Start(r, [Idle EXCEPT !.step = "changing", !.via = "portal", !.session = s,
                           !.user = session[s].user])
  /\ UNCHANGED <<account, link, session>>

\* Mutant: the sessions of applications are forgotten, say.
SessionsToEndForgotten(u, except) == {}

SessionsToEnd(u, except) == {s \in Sessions : session[s].user = u} \ {except}

\* setIdentityUserPassword: the user is updated, and then the sessions, up to COMMIT.
BeginChange(r) ==
  LET h == hand[r] IN
  /\ h.step = "changing"
  /\ Exists(h.user) /\ ~HeldForUpdate(h.user) /\ ~BeingUpdated(h.user)
  /\ hand' = [hand EXCEPT ![r] = [h EXCEPT !.step = "committing",
                                           !.ends = SessionsToEnd(h.user, h.session)]]
  /\ UNCHANGED <<account, link, session>>

\* PUT /users/:userId/password of the dashboard: behind FOR UPDATE, and no session is
\* spared.
BeginReset(r, u) ==
  /\ Exists(u) /\ ~HeldForUpdate(u) /\ ~BeingUpdated(u)
  /\ Start(r, [Idle EXCEPT !.step = "committing", !.via = "dashboard", !.user = u,
                           !.ends = SessionsToEnd(u, None)])
  /\ UNCHANGED <<account, link, session>>

\* How a session that does not end comes through a change of its user's password.
MarkAfter(s, own) == IF s = own THEN "current"
                     ELSE IF session[s].mark = "raced" THEN "raced" ELSE "outlived"

CommitPassword(r) ==
  LET h == hand[r] IN
  /\ h.step = "committing"
  /\ account' = [account EXCEPT ![h.user].password = TRUE]
  /\ session' = [s \in Sessions |->
                   IF s \in h.ends THEN NoSession
                   ELSE IF session[s].user = h.user
                   THEN [session[s] EXCEPT !.mark = MarkAfter(s, h.session)]
                   ELSE session[s]]
  /\ hand' = [q \in Requests |->
                IF q = r THEN Idle
                ELSE [hand[q] EXCEPT !.stale =
                        @ \/ (hand[q].user = h.user /\ hand[q].step \in {"proving", "entering", "linking"}
                                                    /\ hand[q].via # "disable")]]
  /\ UNCHANGED link

\* POST /mfa/setup: nothing is stored; the browser keeps the encrypted setup token.
SetUpMfa(r, s) ==
  /\ Live(s) /\ ~HasFactor(session[s].user) /\ session[s].user \in Enrolling
  /\ Start(r, [Idle EXCEPT !.step = "enrolling", !.user = session[s].user])
  /\ UNCHANGED <<account, link, session>>

\* POST /mfa/enable: the token is good in any session of the user for ten minutes, also
\* when a factor was enabled meanwhile, which it then replaces.
EnableMfa(r) ==
  LET u == hand[r].user IN
  /\ hand[r].step = "enrolling"
  /\ \E s \in Sessions : session[s].user = u
  /\ ~HeldForUpdate(u) /\ ~BeingUpdated(u)
  /\ account' = [account EXCEPT ![u].code = "unused", ![u].accepted = 0]
  /\ Respond(r)
  /\ UNCHANGED <<link, session>>

\* DELETE /mfa, after the password: a code of the factor, then the transaction.
ReadFactor(r, s) ==
  /\ Live(s) /\ HasFactor(session[s].user)
  /\ Start(r, [Idle EXCEPT !.step = "proving", !.via = "disable", !.user = session[s].user])
  /\ UNCHANGED <<account, link, session>>

DisableMfa(r) ==
  LET u == hand[r].user IN
  /\ hand[r].step = "disabling"
  /\ Exists(u) /\ ~HeldForUpdate(u) /\ ~BeingUpdated(u)
  /\ account' = [account EXCEPT ![u].code = "none", ![u].accepted = 0]
  /\ Respond(r)
  /\ UNCHANGED <<link, session>>

----
(* Sessions end; accounts come and go *)

\* POST /auth/logout, DELETE /sessions/:sessionId of the portal, .../revoke of the
\* dashboard, and expires_at.
EndSession(s) ==
  /\ Live(s)
  /\ session' = [session EXCEPT ![s] = NoSession]
  /\ UNCHANGED <<account, link, hand>>

\* POST /users of the dashboard.
CreateUser(u) ==
  /\ IsFree(u)
  /\ account' = [account EXCEPT ![u].exists = TRUE, ![u].password = TRUE]
  /\ UNCHANGED <<link, session, hand>>

\* DELETE /users/:userId of the dashboard: the rows that refer to the user go with it.
DeleteUser(u) ==
  /\ Exists(u) /\ ~HeldForUpdate(u) /\ ~BeingUpdated(u)
  /\ account' = [account EXCEPT ![u] = Absent]
  /\ link' = [x \in Subjects |-> IF link[x] = u THEN None ELSE link[x]]
  /\ session' = [s \in Sessions |-> IF session[s].user = u THEN NoSession ELSE session[s]]
  /\ UNCHANGED hand

\* A handler ends with an error: a conflict, a wrong code, an expired state, a crash.
\* Its open transaction is rolled back.
Fail(r) ==
  /\ hand[r] # Idle
  /\ Respond(r)
  /\ UNCHANGED <<account, link, session>>

----
Init ==
  /\ account = [u \in Users |-> Absent]
  /\ link = [x \in Subjects |-> None]
  /\ session = [s \in Sessions |-> NoSession]
  /\ hand = [r \in Requests |-> Idle]

Next ==
  \/ \E r \in Requests :
       \/ \E u \in Users : ReadLogin(r, u) \/ BeginReset(r, u)
       \/ \E x \in Subjects : \/ SocialLogin(r, x) \/ SocialSignUp(r, x)
                              \/ OfferLink(r, x) \/ CheckPortalLink(r, x)
       \/ \E s \in Sessions :
            \/ StartLink(r, s) \/ CountLinks(r, s)
            \/ ComparePassword(r, s) \/ SetUpMfa(r, s) \/ ReadFactor(r, s)
       \/ Prove(r) \/ InsertSession(r)
       \/ InsertPortalLink(r) \/ CheckTokenLink(r) \/ InsertTokenLink(r)
       \/ \E p \in Providers : Unlink(r, p)
       \/ BeginChange(r) \/ CommitPassword(r)
       \/ EnableMfa(r) \/ DisableMfa(r)
       \/ Fail(r)
  \/ \E s \in Sessions : EndSession(s)
  \/ \E u \in Users : CreateUser(u) \/ DeleteUser(u)

Spec == Init /\ [][Next]_vars

----
(* Properties *)

Account == [exists : BOOLEAN, password : BOOLEAN, code : {"none", "unused", "used"},
            accepted : 0 .. 1]
Session == [user : Users \union {None}, mark : {"none", "current", "raced", "outlived"}]
Steps   == {"idle", "proving", "entering", "offered", "away", "linking", "counted", "changing",
            "committing", "enrolling", "disabling"}
Handler == [step : Steps, via : {"none", "portal", "dashboard", "offer", "disable"},
            user : Users \union {None}, session : Sessions \union {None},
            subject : Subjects \union {None}, known : BOOLEAN, ends : SUBSET Sessions,
            stale : BOOLEAN, missed : BOOLEAN]

\* Every variable has its type: in particular a recovery code is accepted at most once
\* between two enrolments, and what refers to a user goes with it.
TypeOK ==
  /\ account \in [Users -> Account]
  /\ link \in [Subjects -> Users \union {None}]
  /\ session \in [Sessions -> Session]
  /\ hand \in [Requests -> Handler]
  /\ \A u \in Users : ~Exists(u) =>
       /\ LinkedTo(link, u) = {}
       /\ \A s \in Sessions : session[s].user # u

\* When a user's password has been changed or reset, the sessions opened on the old
\* one have ended: all but the one that made the change, and those whose login
\* overlapped the change (setIdentityUserPassword).
SessionsAreEarned == \A s \in Sessions : session[s].mark # "outlived"

Answers(r, step, u) == hand[r].step = step /\ hand[r].user = u /\ hand'[r] = Idle

\* A user who can sign in loses the last way to do so only by an unlink during which
\* another unlink took a link it had counted, or that takes two accounts of one
\* provider (DELETE /social/:provider).
MethodRemains ==
  \A u \in Users :
    (Exists(u) /\ (account[u].password \/ LinkedTo(link, u) # {})
       /\ account'[u].exists /\ ~account'[u].password /\ LinkedTo(link', u) = {})
    => \E r \in Requests :
         /\ Answers(r, "counted", u)
         /\ \/ hand[r].missed
            \/ \E p \in Providers : Cardinality(OfProvider(link, u, p)) > 1

\* A link never passes from one user to another, and a user gets a second account of a
\* provider only by a link from the portal during which another link was made: a login
\* with a link token never adds one (the row lock and the portal's foreign key).
LinksAreUnique ==
  /\ \A x \in Subjects : link[x] # None => link'[x] \in {link[x], None}
  /\ \A u \in Users, p \in Providers :
       (Cardinality(OfProvider(link, u, p)) <= 1 /\ Cardinality(OfProvider(link', u, p)) > 1)
       => \E r \in Requests : Answers(r, "linking", u) /\ hand[r].via = "portal"
                                                       /\ hand[r].missed

\* Both, of every step.
SocialLinksAreSafe == [][MethodRemains /\ LinksAreUnique]_vars
----
(* The inductive invariant: why TypeOK, SessionsAreEarned and               *)
(* SocialLinksAreSafe hold.                                                *)

\* A code that is good has not been accepted since the enrolment.
CodeOK(u) == account[u].code = "unused" => account[u].accepted = 0

SessionOK(s) == Live(s) => session[s].user \in Users /\ session[s].mark # "outlived"

\* The handler has the user's row locked, or updated in an open transaction.
Holds(r) == \/ hand[r].step = "linking" /\ hand[r].via = "offer"
            \/ hand[r].step = "committing"

\* What a handler found out about its user and goes on with.
HandlerOK(r) ==
  LET h == hand[r] IN
  /\ h.step # "idle" => h.user \in Users
  /\ h.via = "offer" \/ h.step = "linking" => h.subject \in Subjects
  /\ h.step = "linking" => h.via \in {"portal", "offer"}
  /\ h.step \in {"away", "changing"} => h.via = "portal"
  /\ h.step = "committing" => h.via \in {"portal", "dashboard"}
  /\ Holds(r) => Exists(h.user)

\* A handler that is to link an account knows of no other of the provider, unless
\* another link was made under it, which the row lock excludes for a login.
LinkerOK(r) ==
  LET h == hand[r] IN
  h.step = "linking" /\ (h.via = "offer" \/ ~h.missed) =>
    OfProvider(link, h.user, ProviderOf[h.subject]) \subseteq {h.subject}

\* A handler that counted leaves its user a way in, unless another took a link.
CounterOK(r) ==
  LET h == hand[r] IN
  h.step = "counted" /\ ~h.missed /\ Exists(h.user) =>
    account[h.user].password \/ Cardinality(LinkedTo(link, h.user)) > 1

\* A change of password that is to be committed ends every session of its user but
\* its own, and those a login inserts meanwhile.
CommitterOK(r) ==
  LET h == hand[r] IN
  h.step = "committing" =>
    \A s \in Sessions : session[s].user = h.user =>
      s \in h.ends \/ s = h.session \/ session[s].mark = "raced"

HoldersAreAlone ==
  \A q, r \in Requests : q # r /\ Holds(q) /\ Holds(r) => hand[q].user # hand[r].user

AccountInv ==
  /\ TypeOK
  /\ \A u \in Users : CodeOK(u)
  /\ \A s \in Sessions : SessionOK(s)
  /\ \A r \in Requests : HandlerOK(r) /\ LinkerOK(r) /\ CounterOK(r) /\ CommitterOK(r)
  /\ HoldersAreAlone

====
