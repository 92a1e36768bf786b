---------------------------- MODULE Accounts_proofs ----------------------------
(***************************************************************************)
(* Proofs about Accounts, for every set of users, accounts at providers,   *)
(* sessions and handlers at work.                                          *)
(***************************************************************************)
EXTENDS Accounts, FiniteSetTheorems, TLAPS

-----------------------------------------------------------------------------
(* Handlers that take no part in a step.                                   *)

\* The handler is where it was; other handlers may have told it that something changed.
Kept(q) ==
  /\ hand'[q].step = hand[q].step /\ hand'[q].via = hand[q].via
  /\ hand'[q].user = hand[q].user /\ hand'[q].session = hand[q].session
  /\ hand'[q].subject = hand[q].subject /\ hand'[q].ends = hand[q].ends
  /\ hand[q].missed => hand'[q].missed

\* Nothing it relies on has changed.
Undisturbed(q) ==
  /\ Kept(q)
  /\ Holds(q) => account'[hand[q].user].exists
  /\ hand[q].step = "linking" /\ (hand[q].via = "offer" \/ ~hand'[q].missed) =>
       LinkedTo(link', hand[q].user) \subseteq LinkedTo(link, hand[q].user)
  /\ hand[q].step = "counted" /\ ~hand'[q].missed /\ account'[hand[q].user].exists =>
       \/ account'[hand[q].user].password
       \/ /\ Exists(hand[q].user) /\ ~account[hand[q].user].password
          /\ LinkedTo(link, hand[q].user) \subseteq LinkedTo(link', hand[q].user)
  /\ hand[q].step = "committing" =>
       \A s \in Sessions : session'[s].user = hand[q].user =>
         \/ session[s].user = hand[q].user /\ session'[s].mark = session[s].mark
         \/ session'[s].mark = "raced"

AllOK(r) == HandlerOK(r) /\ LinkerOK(r) /\ CounterOK(r) /\ CommitterOK(r)

\* More links are more, counted.
LEMMA MoreLinks ==
  ASSUME NEW S \in SUBSET Subjects, NEW T \in SUBSET Subjects, S \subseteq T, Cardinality(S) > 1
  PROVE  Cardinality(T) > 1
<1>1. IsFiniteSet(T)
  BY SubjectsAreFinite, FS_Subset
<1>2. IsFiniteSet(S) /\ Cardinality(S) <= Cardinality(T)
  BY <1>1, FS_Subset
<1>3. Cardinality(S) \in Nat /\ Cardinality(T) \in Nat
  BY <1>1, <1>2, FS_CardinalityType
<1> QED BY <1>2, <1>3

LEMMA UndisturbedIsOK ==
  ASSUME AccountInv, TypeOK', NEW q \in Requests, Undisturbed(q)
  PROVE  AllOK(q)'
<1>1. PICK h \in Handler : h = hand[q]
  BY DEF AccountInv, TypeOK
<1>2. PICK k \in Handler : k = hand'[q]
  BY DEF TypeOK
<1>3. /\ k.step = h.step /\ k.via = h.via /\ k.user = h.user /\ k.session = h.session
      /\ k.subject = h.subject /\ k.ends = h.ends /\ (h.missed => k.missed)
  BY <1>1, <1>2 DEF Undisturbed, Kept
<1>4. HandlerOK(q) /\ LinkerOK(q) /\ CounterOK(q) /\ CommitterOK(q)
  BY DEF AccountInv
<1>5. HandlerOK(q)'
  BY <1>1, <1>2, <1>3, <1>4 DEF HandlerOK, Undisturbed, Holds, Exists
<1>6. LinkerOK(q)'
  <2> SUFFICES ASSUME h.step = "linking", h.via = "offer" \/ ~k.missed
               PROVE  OfProvider(link', h.user, ProviderOf[h.subject]) \subseteq {h.subject}
    BY <1>2, <1>3 DEF LinkerOK
  <2>1. OfProvider(link, h.user, ProviderOf[h.subject]) \subseteq {h.subject}
    BY <1>1, <1>3, <1>4 DEF LinkerOK
  <2>2. LinkedTo(link', h.user) \subseteq LinkedTo(link, h.user)
    BY <1>1, <1>2 DEF Undisturbed
  <2> QED BY <2>1, <2>2 DEF OfProvider
<1>7. CounterOK(q)'
  <2> SUFFICES ASSUME h.step = "counted", ~k.missed, account'[h.user].exists
               PROVE  account'[h.user].password \/ Cardinality(LinkedTo(link', h.user)) > 1
    BY <1>2, <1>3 DEF CounterOK, Exists
  <2>1. \/ account'[h.user].password
        \/ /\ Exists(h.user) /\ ~account[h.user].password
           /\ LinkedTo(link, h.user) \subseteq LinkedTo(link', h.user)
    BY <1>1, <1>2 DEF Undisturbed
  <2>2. ~account[h.user].password /\ Exists(h.user) => Cardinality(LinkedTo(link, h.user)) > 1
    BY <1>1, <1>3, <1>4 DEF CounterOK
  <2>3. LinkedTo(link, h.user) \in SUBSET Subjects /\ LinkedTo(link', h.user) \in SUBSET Subjects
    BY DEF LinkedTo
  <2> QED BY <2>1, <2>2, <2>3, MoreLinks
<1>8. CommitterOK(q)'
  <2> SUFFICES ASSUME h.step = "committing", NEW s \in Sessions, session'[s].user = h.user
               PROVE  s \in h.ends \/ s = h.session \/ session'[s].mark = "raced"
    BY <1>2, <1>3 DEF CommitterOK
  <2>1. \/ session[s].user = h.user /\ session'[s].mark = session[s].mark
        \/ session'[s].mark = "raced"
    BY <1>1 DEF Undisturbed
  <2> QED BY <1>1, <1>4, <2>1 DEF CommitterOK
<1> QED BY <1>5, <1>6, <1>7, <1>8 DEF AllOK

\* A handler that has ended relies on nothing.
LEMMA IdleIsOK ==
  /\ Idle \in Handler /\ Idle.step = "idle" /\ Idle.via = "none" /\ Idle.user = None
  /\ \A r \in Requests : hand'[r] = Idle => AllOK(r)' /\ ~Holds(r)'
<1>1. Idle \in Handler /\ Idle.step = "idle" /\ Idle.via = "none" /\ Idle.user = None
  BY DEF Idle, Handler, Steps
<1>2. ASSUME NEW r \in Requests, hand'[r] = Idle PROVE AllOK(r)' /\ ~Holds(r)'
  <2> HIDE DEF Idle
  <2> QED BY <1>1, <1>2 DEF AllOK, HandlerOK, LinkerOK, CounterOK, CommitterOK, Holds
<1> QED BY <1>1, <1>2

\* A step of r keeps the invariant if it disturbs nobody and if what r then relies on is
\* so; and if r then holds its user's row, nobody else does.
LEMMA StepKeepsInv ==
  ASSUME AccountInv, TypeOK', \A u \in Users : CodeOK(u)', \A s \in Sessions : SessionOK(s)',
         NEW r \in Requests, AllOK(r)',
         \A q \in Requests \ {r} : Undisturbed(q),
         Holds(r)' => \A q \in Requests \ {r} : Holds(q) => hand[q].user # hand'[r].user
  PROVE  AccountInv'
<1>1. \A q \in Requests : AllOK(q)'
  BY UndisturbedIsOK
<1>2. \A q \in Requests \ {r} : (Holds(q)' <=> Holds(q)) /\ hand'[q].user = hand[q].user
  BY DEF Undisturbed, Kept, Holds
<1>3. HoldersAreAlone'
  BY <1>2 DEF AccountInv, HoldersAreAlone
<1> QED BY <1>1, <1>3 DEF AccountInv, AllOK

\* A step of nobody.
LEMMA OutsideKeepsInv ==
  ASSUME AccountInv, TypeOK', \A u \in Users : CodeOK(u)', \A s \in Sessions : SessionOK(s)',
         \A q \in Requests : Undisturbed(q)
  PROVE  AccountInv'
<1>1. \A q \in Requests : AllOK(q)'
  BY UndisturbedIsOK
<1>2. \A q \in Requests : (Holds(q)' <=> Holds(q)) /\ hand'[q].user = hand[q].user
  BY DEF Undisturbed, Kept, Holds
<1>3. HoldersAreAlone'
  BY <1>2 DEF AccountInv, HoldersAreAlone
<1> QED BY <1>1, <1>3 DEF AccountInv, AllOK

\* Whoever has all he relies on unchanged.
LEMMA UnchangedIsUndisturbed ==
  ASSUME AccountInv, NEW q \in Requests, hand'[q] = hand[q], UNCHANGED <<account, link, session>>
  PROVE  Undisturbed(q)
<1>1. Holds(q) => Exists(hand[q].user)
  BY DEF AccountInv, HandlerOK
<1> QED BY <1>1 DEF Undisturbed, Kept, Exists

\* A handler that only moves on.
LEMMA MoveKeepsInv ==
  ASSUME AccountInv, NEW r \in Requests, NEW k \in Handler, hand' = [hand EXCEPT ![r] = k],
         UNCHANGED <<account, link, session>>, AllOK(r)',
         Holds(r)' => \A q \in Requests \ {r} : Holds(q) => hand[q].user # k.user
  PROVE  AccountInv'
<1>1. /\ hand'[r] = k /\ hand' \in [Requests -> Handler]
      /\ \A q \in Requests \ {r} : hand'[q] = hand[q]
  BY DEF AccountInv, TypeOK
<1>2. TypeOK'
  BY <1>1 DEF AccountInv, TypeOK, Exists
<1>3. /\ \A u \in Users : CodeOK(u)'
      /\ \A s \in Sessions : SessionOK(s)'
  BY DEF AccountInv, CodeOK, SessionOK, Live
<1>4. \A q \in Requests \ {r} : Undisturbed(q)
  BY <1>1, UnchangedIsUndisturbed
<1> QED BY <1>1, <1>2, <1>3, <1>4, StepKeepsInv

\* Most moves leave nothing to rely on but the user's name.
LEMMA EasyMoveKeepsInv ==
  ASSUME AccountInv, NEW r \in Requests, NEW k \in Handler, hand' = [hand EXCEPT ![r] = k],
         UNCHANGED <<account, link, session>>,
         k.step \notin {"linking", "counted", "committing"},
         k.step # "idle" => k.user \in Users,
         k.via = "offer" => k.subject \in Subjects,
         k.step \in {"away", "changing"} => k.via = "portal"
  PROVE  AccountInv'
<1>1. hand'[r] = k
  BY DEF AccountInv, TypeOK
<1>2. ~Holds(r)'
  BY <1>1 DEF Holds
<1>3. AllOK(r)'
  BY <1>1, <1>2 DEF AllOK, HandlerOK, LinkerOK, CounterOK, CommitterOK
<1> QED BY <1>1, <1>2, <1>3, MoveKeepsInv

-----------------------------------------------------------------------------
(* Moves of one handler.                                                   *)

\* A live session is a user's.
LEMMA LiveSession ==
  ASSUME AccountInv, NEW s \in Sessions, Live(s)
  PROVE  session[s].user \in Users
  BY DEF AccountInv, SessionOK

LEMMA StartsKeepInv ==
  ASSUME AccountInv, NEW r \in Requests,
         \/ \E x \in Subjects : SocialLogin(r, x) \/ OfferLink(r, x)
         \/ \E s \in Sessions : StartLink(r, s) \/ ComparePassword(r, s) \/ SetUpMfa(r, s)
                                \/ ReadFactor(r, s)
  PROVE  AccountInv'
<1>1. ASSUME NEW x \in Subjects, SocialLogin(r, x) PROVE AccountInv'
  <2>1. PICK u \in Users : u = link[x]
    BY <1>1 DEF SocialLogin, AccountInv, TypeOK
  <2>2. PICK k \in Handler : hand' = [hand EXCEPT ![r] = k]
                           /\ k.step = "entering" /\ k.user = u /\ k.via = "none"
    <3> DEFINE w == [Idle EXCEPT !.step = "entering", !.user = u]
    <3>1. w \in Handler /\ w.step = "entering" /\ w.user = u /\ w.via = "none"
      BY DEF Idle, Handler, Steps
    <3>2. hand' = [hand EXCEPT ![r] = w]
      BY <1>1, <2>1 DEF SocialLogin, Start
    <3> HIDE DEF w
    <3> QED BY <3>1, <3>2
  <2> QED BY <1>1, <2>2, EasyMoveKeepsInv, NoneIsNobody DEF SocialLogin
<1>2. ASSUME NEW x \in Subjects, OfferLink(r, x) PROVE AccountInv'
  <2>1. PICK u \in Users : u = EmailOf[x]
    BY <1>2, SubjectsHaveAddresses DEF OfferLink
  <2>2. PICK k \in Handler : hand' = [hand EXCEPT ![r] = k]
                           /\ k.step = "offered" /\ k.via = "offer" /\ k.user = u /\ k.subject = x
    <3> DEFINE w == [Idle EXCEPT !.step = "offered", !.via = "offer", !.user = u, !.subject = x]
    <3>1. w \in Handler /\ w.step = "offered" /\ w.via = "offer" /\ w.user = u /\ w.subject = x
      BY DEF Idle, Handler, Steps
    <3>2. hand' = [hand EXCEPT ![r] = w]
      BY <1>2, <2>1 DEF OfferLink, Start
    <3> HIDE DEF w
    <3> QED BY <3>1, <3>2
  <2> QED BY <1>2, <2>2, EasyMoveKeepsInv, NoneIsNobody DEF OfferLink
<1>3. ASSUME NEW s \in Sessions, StartLink(r, s) PROVE AccountInv'
  <2>1. PICK u \in Users : u = session[s].user
    BY <1>3, LiveSession DEF StartLink
  <2>2. PICK k \in Handler : hand' = [hand EXCEPT ![r] = k]
                           /\ k.step = "away" /\ k.via = "portal" /\ k.user = u
    <3> DEFINE w == [Idle EXCEPT !.step = "away", !.via = "portal", !.user = u]
    <3>1. w \in Handler /\ w.step = "away" /\ w.via = "portal" /\ w.user = u
      BY DEF Idle, Handler, Steps
    <3>2. hand' = [hand EXCEPT ![r] = w]
      BY <1>3, <2>1 DEF StartLink, Start
    <3> HIDE DEF w
    <3> QED BY <3>1, <3>2
  <2> QED BY <1>3, <2>2, EasyMoveKeepsInv, NoneIsNobody DEF StartLink
<1>4. ASSUME NEW s \in Sessions, ComparePassword(r, s) PROVE AccountInv'
  <2>1. PICK u \in Users : u = session[s].user
    BY <1>4, LiveSession DEF ComparePassword
  <2>2. PICK k \in Handler : hand' = [hand EXCEPT ![r] = k]
                           /\ k.step = "changing" /\ k.via = "portal" /\ k.session = s /\ k.user = u
    <3> DEFINE w == [Idle EXCEPT !.step = "changing", !.via = "portal", !.session = s, !.user = u]
    <3>1. w \in Handler /\ w.step = "changing" /\ w.via = "portal" /\ w.session = s /\ w.user = u
      BY DEF Idle, Handler, Steps
    <3>2. hand' = [hand EXCEPT ![r] = w]
      BY <1>4, <2>1 DEF ComparePassword, Start
    <3> HIDE DEF w
    <3> QED BY <3>1, <3>2
  <2> QED BY <1>4, <2>2, EasyMoveKeepsInv, NoneIsNobody DEF ComparePassword
<1>5. ASSUME NEW s \in Sessions, SetUpMfa(r, s) PROVE AccountInv'
  <2>1. PICK u \in Users : u = session[s].user
    BY <1>5, LiveSession DEF SetUpMfa
  <2>2. PICK k \in Handler : hand' = [hand EXCEPT ![r] = k]
                           /\ k.step = "enrolling" /\ k.user = u /\ k.via = "none"
    <3> DEFINE w == [Idle EXCEPT !.step = "enrolling", !.user = u]
    <3>1. w \in Handler /\ w.step = "enrolling" /\ w.user = u /\ w.via = "none"
      BY DEF Idle, Handler, Steps
    <3>2. hand' = [hand EXCEPT ![r] = w]
      BY <1>5, <2>1 DEF SetUpMfa, Start
    <3> HIDE DEF w
    <3> QED BY <3>1, <3>2
  <2> QED BY <1>5, <2>2, EasyMoveKeepsInv, NoneIsNobody DEF SetUpMfa
<1>6. ASSUME NEW s \in Sessions, ReadFactor(r, s) PROVE AccountInv'
  <2>1. PICK u \in Users : u = session[s].user
    BY <1>6, LiveSession DEF ReadFactor
  <2>2. PICK k \in Handler : hand' = [hand EXCEPT ![r] = k]
                           /\ k.step = "proving" /\ k.via = "disable" /\ k.user = u
    <3> DEFINE w == [Idle EXCEPT !.step = "proving", !.via = "disable", !.user = u]
    <3>1. w \in Handler /\ w.step = "proving" /\ w.via = "disable" /\ w.user = u
      BY DEF Idle, Handler, Steps
    <3>2. hand' = [hand EXCEPT ![r] = w]
      BY <1>6, <2>1 DEF ReadFactor, Start
    <3> HIDE DEF w
    <3> QED BY <3>1, <3>2
  <2> QED BY <1>6, <2>2, EasyMoveKeepsInv, NoneIsNobody DEF ReadFactor
<1> QED
  BY <1>1, <1>2, <1>3, <1>4, <1>5, <1>6

LEMMA LoginKeepsInv ==
  ASSUME AccountInv, NEW r \in Requests, NEW u \in Users, ReadLogin(r, u)
  PROVE  AccountInv'
<1>1. PICK h \in Handler : h = hand[r] /\ (h.via = "offer" => h.subject \in Subjects)
  BY DEF AccountInv, TypeOK, HandlerOK
<1>2. PICK t \in {"proving", "entering"} : t = IF HasFactor(u) THEN "proving" ELSE "entering"
  OBVIOUS
<1>3. PICK k \in Handler : /\ hand' = [hand EXCEPT ![r] = k]
                           /\ k.step = t /\ k.user = u /\ k.via = h.via /\ k.subject = h.subject
  <2> DEFINE v == [h EXCEPT !.step = t]
             w == [v EXCEPT !.user = u]
             mid == [hand EXCEPT ![r] = v]
  <2>1. v \in Handler /\ v.step = t /\ v.via = h.via /\ v.subject = h.subject
    BY DEF Handler, Steps
  <2>2. hand' = [mid EXCEPT ![r] = [mid[r] EXCEPT !.user = u]]
    BY <1>1, <1>2 DEF ReadLogin
  <2>3. mid[r] = v
    BY DEF AccountInv, TypeOK
  <2> HIDE DEF v
  <2>4. w \in Handler /\ w.step = t /\ w.user = u /\ w.via = h.via /\ w.subject = h.subject
    BY <2>1 DEF Handler
  <2>5. hand' = [hand EXCEPT ![r] = w]
    BY <2>2, <2>3
  <2> HIDE DEF w
  <2> QED BY <2>4, <2>5
<1> QED BY <1>1, <1>3, EasyMoveKeepsInv DEF ReadLogin

\* A handler that ends, whatever the reason, without a change.
LEMMA RespondKeepsInv ==
  ASSUME AccountInv, NEW r \in Requests, Respond(r), UNCHANGED <<account, link, session>>
  PROVE  AccountInv'
<1>1. hand' = [hand EXCEPT ![r] = Idle]
  BY DEF Respond
<1> HIDE DEF Idle
<1> QED BY <1>1, IdleIsOK, EasyMoveKeepsInv

\* A handler that waits for FOR UPDATE and for the update of the user's row gets it
\* alone.
LEMMA NobodyHolds ==
  ASSUME AccountInv, NEW u \in Users, ~HeldForUpdate(u), ~BeingUpdated(u)
  PROVE  \A q \in Requests : Holds(q) => hand[q].user # u
  BY DEF AccountInv, HandlerOK, Holds, HeldForUpdate, BeingUpdated, Doing

LEMMA CheckPortalKeepsInv ==
  ASSUME AccountInv, NEW r \in Requests, NEW x \in Subjects, CheckPortalLink(r, x)
  PROVE  AccountInv'
<1>1. PICK h \in Handler : h = hand[r] /\ h.user \in Users /\ h.step = "away" /\ h.via = "portal"
  BY DEF CheckPortalLink, AccountInv, TypeOK, HandlerOK
<1>2. PICK k \in Handler : /\ hand' = [hand EXCEPT ![r] = k]
                           /\ k.step = "linking" /\ k.via = "portal" /\ k.user = h.user /\ k.subject = x
  <2> DEFINE w == [h EXCEPT !.step = "linking", !.subject = x]
  <2>1. /\ w \in Handler
        /\ w.step = "linking" /\ w.via = "portal" /\ w.user = h.user /\ w.subject = x
    BY <1>1 DEF Handler, Steps
  <2>2. hand' = [hand EXCEPT ![r] = w]
    BY <1>1 DEF CheckPortalLink
  <2> HIDE DEF w
  <2> QED BY <2>1, <2>2
<1>3. hand'[r] = k
  BY <1>2 DEF AccountInv, TypeOK
<1>4. UNCHANGED <<account, link, session>> /\ LinkMayBeMade(x, h.user)
  BY <1>1 DEF CheckPortalLink
<1>5. AllOK(r)' /\ ~Holds(r)'
  BY <1>1, <1>2, <1>3, <1>4
     DEF AllOK, HandlerOK, LinkerOK, CounterOK, CommitterOK, Holds, LinkMayBeMade, OfProvider, LinkedTo
<1> QED BY <1>2, <1>4, <1>5, MoveKeepsInv

LEMMA CheckTokenKeepsInv ==
  ASSUME AccountInv, NEW r \in Requests, CheckTokenLink(r)
  PROVE  AccountInv'
<1>1. PICK h \in Handler : /\ h = hand[r] /\ h.user \in Users /\ h.via = "offer" /\ h.subject \in Subjects
                           /\ h.step = "entering"
  BY DEF CheckTokenLink, AccountInv, TypeOK, HandlerOK
<1>2. PICK b \in BOOLEAN : b = (link[h.subject] = h.user)
  OBVIOUS
<1>3. PICK k \in Handler : /\ hand' = [hand EXCEPT ![r] = k]
                           /\ k.step = "linking" /\ k.via = "offer" /\ k.user = h.user
                           /\ k.subject = h.subject
  <2> DEFINE w == [h EXCEPT !.step = "linking", !.known = b]
  <2>1. /\ w \in Handler
        /\ w.step = "linking" /\ w.via = "offer" /\ w.user = h.user /\ w.subject = h.subject
    BY <1>1 DEF Handler, Steps
  <2>2. hand' = [hand EXCEPT ![r] = w]
    BY <1>1, <1>2 DEF CheckTokenLink
  <2> HIDE DEF w
  <2> QED BY <2>1, <2>2
<1>4. hand'[r] = k
  BY <1>3 DEF AccountInv, TypeOK
<1>5. /\ UNCHANGED <<account, link, session>> /\ LinkMayBeMade(h.subject, h.user)
      /\ Exists(h.user) /\ ~HeldForUpdate(h.user) /\ ~BeingUpdated(h.user)
  BY <1>1 DEF CheckTokenLink
<1>6. \A q \in Requests : Holds(q) => hand[q].user # h.user
  BY <1>1, <1>5, NobodyHolds
<1>7. AllOK(r)'
  BY <1>1, <1>3, <1>4, <1>5
     DEF AllOK, HandlerOK, LinkerOK, CounterOK, CommitterOK, Holds, LinkMayBeMade, OfProvider, LinkedTo, Exists
<1> QED BY <1>3, <1>5, <1>6, <1>7, MoveKeepsInv

LEMMA CountKeepsInv ==
  ASSUME AccountInv, NEW r \in Requests, NEW s \in Sessions, CountLinks(r, s)
  PROVE  AccountInv'
<1>1. PICK u \in Users : u = session[s].user
  BY LiveSession DEF CountLinks
<1>2. PICK k \in Handler : /\ hand' = [hand EXCEPT ![r] = k]
                           /\ k.step = "counted" /\ k.user = u /\ k.via = "none" /\ ~k.missed
  <2> DEFINE w == [Idle EXCEPT !.step = "counted", !.user = u]
  <2>1. w \in Handler /\ w.step = "counted" /\ w.user = u /\ w.via = "none" /\ ~w.missed
    BY DEF Idle, Handler, Steps
  <2>2. hand' = [hand EXCEPT ![r] = w]
    BY <1>1 DEF CountLinks, Start
  <2> HIDE DEF w
  <2> QED BY <2>1, <2>2
<1>3. hand'[r] = k
  BY <1>2 DEF AccountInv, TypeOK
<1>4. UNCHANGED <<account, link, session>> /\ MayUnlink(u)
  BY <1>1 DEF CountLinks
<1>5. AllOK(r)' /\ ~Holds(r)'
  BY <1>2, <1>3, <1>4
     DEF AllOK, HandlerOK, LinkerOK, CounterOK, CommitterOK, Holds, MayUnlink
<1> QED BY <1>2, <1>4, <1>5, MoveKeepsInv

\* A change begins with every session of the user in view.
LEMMA ChangeKeepsInv ==
  ASSUME AccountInv, NEW r \in Requests, BeginChange(r)
  PROVE  AccountInv'
<1>1. PICK h \in Handler : h = hand[r] /\ h.user \in Users /\ h.step = "changing" /\ h.via = "portal"
  BY DEF BeginChange, AccountInv, TypeOK, HandlerOK
<1>2. PICK E \in SUBSET Sessions : E = SessionsToEnd(h.user, h.session)
  BY DEF SessionsToEnd
<1>3. PICK k \in Handler : /\ hand' = [hand EXCEPT ![r] = k]
                           /\ k.step = "committing" /\ k.via = "portal" /\ k.user = h.user
                           /\ k.ends = E /\ k.session = h.session
  <2> DEFINE w == [h EXCEPT !.step = "committing", !.ends = E]
  <2>1. /\ w \in Handler
        /\ w.step = "committing" /\ w.via = "portal" /\ w.user = h.user
        /\ w.ends = E /\ w.session = h.session
    BY <1>1 DEF Handler, Steps
  <2>2. hand' = [hand EXCEPT ![r] = w]
    BY <1>1, <1>2 DEF BeginChange
  <2> HIDE DEF w
  <2> QED BY <2>1, <2>2
<1>4. hand'[r] = k
  BY <1>3 DEF AccountInv, TypeOK
<1>5. /\ UNCHANGED <<account, link, session>>
      /\ Exists(h.user) /\ ~HeldForUpdate(h.user) /\ ~BeingUpdated(h.user)
  BY <1>1 DEF BeginChange
<1>6. \A q \in Requests : Holds(q) => hand[q].user # h.user
  BY <1>1, <1>5, NobodyHolds
<1>7. AllOK(r)'
  BY <1>1, <1>2, <1>3, <1>4, <1>5
     DEF AllOK, HandlerOK, LinkerOK, CounterOK, CommitterOK, Holds, SessionsToEnd, Exists
<1> QED BY <1>3, <1>5, <1>6, <1>7, MoveKeepsInv

LEMMA ResetKeepsInv ==
  ASSUME AccountInv, NEW r \in Requests, NEW u \in Users, BeginReset(r, u)
  PROVE  AccountInv'
<1>1. PICK E \in SUBSET Sessions : E = SessionsToEnd(u, None)
  BY DEF SessionsToEnd
<1>2. PICK k \in Handler : /\ hand' = [hand EXCEPT ![r] = k]
                           /\ k.step = "committing" /\ k.via = "dashboard" /\ k.user = u /\ k.ends = E
  <2> DEFINE w == [Idle EXCEPT !.step = "committing", !.via = "dashboard", !.user = u, !.ends = E]
  <2>1. /\ w \in Handler
        /\ w.step = "committing" /\ w.via = "dashboard" /\ w.user = u /\ w.ends = E
    BY DEF Idle, Handler, Steps
  <2>2. hand' = [hand EXCEPT ![r] = w]
    BY <1>1 DEF BeginReset, Start
  <2> HIDE DEF w
  <2> QED BY <2>1, <2>2
<1>3. hand'[r] = k
  BY <1>2 DEF AccountInv, TypeOK
<1>4. /\ UNCHANGED <<account, link, session>>
      /\ Exists(u) /\ ~HeldForUpdate(u) /\ ~BeingUpdated(u)
  BY DEF BeginReset
<1>5. \A q \in Requests : Holds(q) => hand[q].user # u
  BY <1>4, NobodyHolds
<1>6. AllOK(r)'
  BY <1>1, <1>2, <1>3, <1>4, NoneIsNobody
     DEF AllOK, HandlerOK, LinkerOK, CounterOK, CommitterOK, Holds, SessionsToEnd, Exists
<1> QED BY <1>2, <1>4, <1>5, <1>6, MoveKeepsInv

-----------------------------------------------------------------------------
(* The second factor.                                                      *)

\* A step that changes nothing of an account but its recovery code.
LEMMA FactorKeepsInv ==
  ASSUME AccountInv, NEW r \in Requests, NEW k \in Handler, hand' = [hand EXCEPT ![r] = k],
         NEW u \in Users, NEW a \in Account, account' = [account EXCEPT ![u] = a],
         a.exists = account[u].exists, a.password = account[u].password,
         a.code = "unused" => a.accepted = 0, UNCHANGED <<link, session>>,
         k.step \notin {"linking", "counted", "committing"},
         k.step # "idle" => k.user \in Users,
         k.via = "offer" => k.subject \in Subjects,
         k.step \notin {"away", "changing"}
  PROVE  AccountInv'
<1>1. /\ hand'[r] = k /\ hand' \in [Requests -> Handler]
      /\ \A q \in Requests \ {r} : hand'[q] = hand[q]
      /\ account'[u] = a /\ account' \in [Users -> Account]
      /\ \A v \in Users \ {u} : account'[v] = account[v]
  BY DEF AccountInv, TypeOK
<1>2. \A v \in Users : /\ account'[v].exists = account[v].exists
                       /\ account'[v].password = account[v].password
  BY <1>1
<1>3. TypeOK'
  BY <1>1, <1>2 DEF AccountInv, TypeOK, Exists
<1>4. /\ \A v \in Users : CodeOK(v)'
      /\ \A s \in Sessions : SessionOK(s)'
  BY <1>1 DEF AccountInv, CodeOK, SessionOK, Live
<1>5. ~Holds(r)'
  BY <1>1 DEF Holds
<1>6. AllOK(r)'
  BY <1>1, <1>5 DEF AllOK, HandlerOK, LinkerOK, CounterOK, CommitterOK
<1>7. ASSUME NEW q \in Requests \ {r} PROVE Undisturbed(q)
  <2>1. HandlerOK(q) /\ hand'[q] = hand[q]
    BY <1>1 DEF AccountInv
  <2>2. Holds(q) => account'[hand[q].user].exists
    BY <1>2, <2>1 DEF HandlerOK, Holds, Exists
  <2>3. hand[q].step = "counted" /\ account'[hand[q].user].exists =>
          Exists(hand[q].user) /\ account[hand[q].user].password = account'[hand[q].user].password
    BY <1>2, <2>1 DEF HandlerOK, Exists
  <2> QED BY <2>1, <2>2, <2>3 DEF Undisturbed, Kept
<1> QED BY <1>3, <1>4, <1>5, <1>6, <1>7, StepKeepsInv

FactorBecomes(u, c, n) == account' = [account EXCEPT ![u].code = c, ![u].accepted = n]

FactorOnly(u, c, n) ==
  \E a \in Account : /\ account' = [account EXCEPT ![u] = a]
                     /\ a.exists = account[u].exists /\ a.password = account[u].password
                     /\ a.code = c /\ a.accepted = n

\* The rows that verifyIdentityMfa, enable and disable write.
LEMMA FactorRow ==
  ASSUME AccountInv, NEW u \in Users, NEW c \in {"none", "unused", "used"}, NEW n \in 0 .. 1,
         FactorBecomes(u, c, n)
  PROVE  FactorOnly(u, c, n)
<1>1. PICK x \in Account : x = account[u]
  BY DEF AccountInv, TypeOK
<1> DEFINE v == [x EXCEPT !.code = c]
           w == [v EXCEPT !.accepted = n]
           mid == [account EXCEPT ![u] = v]
<1>2. v \in Account /\ v.exists = x.exists /\ v.password = x.password /\ v.code = c
  BY DEF Account
<1>3. account' = [mid EXCEPT ![u] = [mid[u] EXCEPT !.accepted = n]]
  BY <1>1 DEF FactorBecomes
<1>4. mid[u] = v
  BY DEF AccountInv, TypeOK
<1> HIDE DEF v
<1>5. /\ w \in Account /\ w.exists = x.exists /\ w.password = x.password /\ w.code = c
      /\ w.accepted = n
  BY <1>2 DEF Account
<1>6. account' = [account EXCEPT ![u] = w]
  BY <1>3, <1>4
<1> HIDE DEF w
<1> QED BY <1>1, <1>5, <1>6 DEF FactorOnly

LEMMA ProveKeepsInv ==
  ASSUME AccountInv, NEW r \in Requests, Prove(r)
  PROVE  AccountInv'
<1>1. PICK h \in Handler : /\ h = hand[r] /\ h.user \in Users /\ (h.via = "offer" => h.subject \in Subjects)
  BY DEF Prove, AccountInv, TypeOK, HandlerOK
<1>2. PICK t \in {"disabling", "entering"} : t = IF h.via = "disable" THEN "disabling" ELSE "entering"
  OBVIOUS
<1>3. PICK k \in Handler : /\ hand' = [hand EXCEPT ![r] = k]
                           /\ k.step = t /\ k.user = h.user /\ k.via = h.via /\ k.subject = h.subject
  <2> DEFINE w == [h EXCEPT !.step = t]
  <2>1. w \in Handler /\ w.step = t /\ w.user = h.user /\ w.via = h.via /\ w.subject = h.subject
    BY DEF Handler, Steps
  <2>2. hand' = [hand EXCEPT ![r] = w]
    BY <1>1, <1>2 DEF Prove, Goto
  <2> HIDE DEF w
  <2> QED BY <2>1, <2>2
<1>4. UNCHANGED <<link, session>>
  BY DEF Prove
<1>5. CASE UNCHANGED account
  BY <1>1, <1>3, <1>4, <1>5, EasyMoveKeepsInv
<1>6. CASE ~UNCHANGED account
  <2>1. /\ account[h.user].code = "unused" /\ account[h.user].accepted = 0
        /\ account' = [account EXCEPT ![h.user].code = "used", ![h.user].accepted = @ + 1]
    BY <1>1, <1>6 DEF Prove, CodeIsUnused, AccountInv, CodeOK
  <2>2. account' = [account EXCEPT ![h.user].code = "used", ![h.user].accepted = 1]
    <3> DEFINE mid == [account EXCEPT ![h.user].code = "used"]
    <3>1. mid[h.user].accepted = 0
      BY <1>1, <2>1 DEF AccountInv, TypeOK, Account
    <3>2. account' = [mid EXCEPT ![h.user].accepted = mid[h.user].accepted + 1]
      BY <2>1
    <3>3. mid[h.user].accepted + 1 = 1
      BY <3>1
    <3> HIDE DEF mid
    <3>4. account' = [mid EXCEPT ![h.user].accepted = 1]
      BY <3>2, <3>3
    <3> QED BY <3>4 DEF mid
  <2>3. PICK a \in Account : /\ account' = [account EXCEPT ![h.user] = a]
                             /\ a.exists = account[h.user].exists
                             /\ a.password = account[h.user].password
                             /\ a.code = "used" /\ a.accepted = 1
    <3>1. PICK u \in Users, c \in {"none", "unused", "used"}, n \in 0 .. 1 :
            u = h.user /\ c = "used" /\ n = 1
      BY <1>1
    <3>2. FactorBecomes(u, c, n)
      BY <2>2, <3>1 DEF FactorBecomes
    <3>3. FactorOnly(u, c, n)
      BY <3>2, FactorRow
    <3> QED BY <3>1, <3>3 DEF FactorOnly
  <2> QED BY <1>1, <1>3, <1>4, <2>3, FactorKeepsInv
<1> QED BY <1>5, <1>6

LEMMA EnableDisableKeepInv ==
  ASSUME AccountInv, NEW r \in Requests, EnableMfa(r) \/ DisableMfa(r)
  PROVE  AccountInv'
<1>1. PICK u \in Users : u = hand[r].user
  BY DEF EnableMfa, DisableMfa, AccountInv, HandlerOK
<1>2. PICK c \in {"none", "unused", "used"}, n \in 0 .. 1 :
        FactorBecomes(u, c, n) /\ n = 0
  BY <1>1 DEF EnableMfa, DisableMfa, FactorBecomes
<1>3. PICK a \in Account : /\ account' = [account EXCEPT ![u] = a]
                           /\ a.exists = account[u].exists /\ a.password = account[u].password
                           /\ a.code = c /\ a.accepted = n
  <2>1. FactorOnly(u, c, n)
    BY <1>2, FactorRow
  <2> QED BY <2>1 DEF FactorOnly
<1>4. UNCHANGED <<link, session>> /\ hand' = [hand EXCEPT ![r] = Idle]
  BY DEF EnableMfa, DisableMfa, Respond
<1> HIDE DEF Idle
<1>5. a.code # "unused" \/ a.accepted = 0
  BY <1>2, <1>3
<1>6. Idle \in Handler /\ Idle.step = "idle" /\ Idle.via = "none"
  BY IdleIsOK
<1> QED BY <1>3, <1>4, <1>5, <1>6, FactorKeepsInv

-----------------------------------------------------------------------------
(* Sessions.                                                               *)

LEMMA InsertKeepsInv ==
  ASSUME AccountInv, NEW r \in Requests, InsertSession(r)
  PROVE  AccountInv'
<1>1. PICK u \in Users : u = hand[r].user /\ Exists(u) /\ ~HeldForUpdate(u)
  BY DEF InsertSession, MayInsertSession, AccountInv, HandlerOK
<1>2. PICK m \in {"raced", "current"} :
        m = IF hand[r].stale \/ BeingUpdated(u) THEN "raced" ELSE "current"
  OBVIOUS
<1>3. PICK s \in Sessions : session' = [session EXCEPT ![s] = [user |-> u, mark |-> m]]
  BY <1>1, <1>2 DEF InsertSession
<1>4. PICK x \in Session : x = [user |-> u, mark |-> m] /\ x.user = u /\ x.mark = m
  <2> DEFINE w == [user |-> u, mark |-> m]
  <2>1. w \in Session /\ w.user = u /\ w.mark = m
    BY DEF Session
  <2> HIDE DEF w
  <2> QED BY <2>1 DEF w
<1>5. session' = [session EXCEPT ![s] = x]
  BY <1>3, <1>4
<1>6. UNCHANGED <<account, link>> /\ hand' = [hand EXCEPT ![r] = Idle]
  BY DEF InsertSession, Respond
<1> HIDE DEF Idle
<1>7. /\ hand'[r] = Idle /\ hand' \in [Requests -> Handler]
      /\ \A q \in Requests \ {r} : hand'[q] = hand[q]
      /\ session'[s] = x /\ session' \in [Sessions -> Session]
      /\ \A t \in Sessions \ {s} : session'[t] = session[t]
  BY <1>5, <1>6, IdleIsOK DEF AccountInv, TypeOK
<1>8. TypeOK'
  BY <1>1, <1>4, <1>6, <1>7 DEF AccountInv, TypeOK, Exists
<1>9. /\ \A v \in Users : CodeOK(v)'
      /\ \A t \in Sessions : SessionOK(t)'
  BY <1>4, <1>6, <1>7 DEF AccountInv, CodeOK, SessionOK, Live
<1>10. ASSUME NEW q \in Requests \ {r} PROVE Undisturbed(q)
  <2>1. HandlerOK(q) /\ hand'[q] = hand[q]
    BY <1>7 DEF AccountInv
  <2>2. Holds(q) => Exists(hand[q].user)
    BY <2>1 DEF HandlerOK
  <2>3. hand[q].step = "committing" /\ hand[q].user = u => m = "raced"
    BY <1>1, <1>2, <2>1 DEF HandlerOK, BeingUpdated, Doing
  <2> QED BY <1>4, <1>6, <1>7, <2>1, <2>2, <2>3 DEF Undisturbed, Kept, Exists
<1>11. AllOK(r)' /\ ~Holds(r)'
  BY <1>7, IdleIsOK
<1> QED BY <1>8, <1>9, <1>10, <1>11, StepKeepsInv

\* Sessions that are no more leave less to end.
LEMMA EndKeepsInv ==
  ASSUME AccountInv, NEW s \in Sessions, EndSession(s)
  PROVE  AccountInv'
<1>1. NoSession \in Session /\ NoSession.user = None
  BY DEF NoSession, Session
<1>2. UNCHANGED <<account, link, hand>> /\ session' = [session EXCEPT ![s] = NoSession]
  BY DEF EndSession
<1> HIDE DEF NoSession
<1>3. /\ session'[s] = NoSession /\ session' \in [Sessions -> Session]
      /\ \A t \in Sessions \ {s} : session'[t] = session[t]
  BY <1>1, <1>2 DEF AccountInv, TypeOK
<1>4. TypeOK'
  BY <1>1, <1>2, <1>3, NoneIsNobody DEF AccountInv, TypeOK, Exists
<1>5. /\ \A v \in Users : CodeOK(v)'
      /\ \A t \in Sessions : SessionOK(t)'
  BY <1>2, <1>3 DEF AccountInv, CodeOK, SessionOK, Live
<1>6. ASSUME NEW q \in Requests PROVE Undisturbed(q)
  <2>1. HandlerOK(q) /\ hand'[q] = hand[q]
    BY <1>2 DEF AccountInv
  <2>2. Holds(q) => Exists(hand[q].user)
    BY <2>1 DEF HandlerOK
  <2>3. hand[q].step = "committing" => hand[q].user # None
    BY <2>1, NoneIsNobody DEF HandlerOK
  <2> QED BY <1>1, <1>2, <1>3, <2>1, <2>2, <2>3 DEF Undisturbed, Kept, Exists
<1> QED BY <1>4, <1>5, <1>6, OutsideKeepsInv
-----------------------------------------------------------------------------
(* Links.                                                                  *)

\* r goes on as k, and every handler of u at the step misses a change.
Told(r, k, u, step) == hand' = MissedBy([hand EXCEPT ![r] = k], u, step)

\* All that MissedBy does to the handlers that take no part.
LEMMA MissedKeeps ==
  ASSUME AccountInv, NEW r \in Requests, NEW k \in Handler, NEW u \in Users, NEW step \in Steps,
         Told(r, k, u, step), k.step # step
  PROVE  /\ hand' \in [Requests -> Handler]
         /\ hand'[r] = k
         /\ \A q \in Requests \ {r} :
              /\ Kept(q)
              /\ hand[q].user = u /\ hand[q].step = step => hand'[q].missed
<1> DEFINE mid == [hand EXCEPT ![r] = k]
<1>1. mid \in [Requests -> Handler] /\ mid[r] = k /\ \A q \in Requests \ {r} : mid[q] = hand[q]
  BY DEF AccountInv, TypeOK
<1>2. hand' = [q \in Requests |-> IF mid[q].user = u /\ mid[q].step = step
                                  THEN [mid[q] EXCEPT !.missed = TRUE] ELSE mid[q]]
  BY DEF MissedBy, Told
<1> HIDE DEF mid
<1>3. ASSUME NEW h \in Handler
      PROVE  LET w == [h EXCEPT !.missed = TRUE] IN
             /\ w \in Handler /\ w.step = h.step /\ w.via = h.via /\ w.user = h.user
             /\ w.session = h.session /\ w.subject = h.subject /\ w.ends = h.ends /\ w.missed
  BY DEF Handler
<1>4. hand' \in [Requests -> Handler] /\ hand'[r] = k
  BY <1>1, <1>2, <1>3
<1>5. ASSUME NEW q \in Requests \ {r}
      PROVE  Kept(q) /\ (hand[q].user = u /\ hand[q].step = step => hand'[q].missed)
  <2>1. PICK h \in Handler : h = hand[q] /\ mid[q] = h
    BY <1>1
  <2>2. hand'[q] = IF h.user = u /\ h.step = step THEN [h EXCEPT !.missed = TRUE] ELSE h
    BY <1>2, <2>1
  <2> QED BY <1>3, <2>1, <2>2 DEF Kept
<1> QED BY <1>4, <1>5

\* One more link, which every other handler that is to make one of the user's missed.
LEMMA LinkKeepsInv ==
  ASSUME AccountInv, NEW r \in Requests, NEW k \in Handler, NEW u \in Users, NEW x \in Subjects,
         Exists(u), link[x] = None, link' = [link EXCEPT ![x] = u],
         hand' = MissedBy([hand EXCEPT ![r] = k], u, "linking"),
         UNCHANGED <<account, session>>,
         k.step \in {"idle", "entering"}, k.via # "offer", k.step = "entering" => k.user \in Users,
         \A q \in Requests \ {r} :
           ~(hand[q].user = u /\ hand[q].step = "linking" /\ hand[q].via = "offer")
  PROVE  AccountInv'
<1>1. /\ hand' \in [Requests -> Handler] /\ hand'[r] = k
      /\ \A q \in Requests \ {r} :
           /\ Kept(q)
           /\ hand[q].user = u /\ hand[q].step = "linking" => hand'[q].missed
  <2>1. PICK t \in Steps : t = "linking"
    BY DEF Steps
  <2>2. Told(r, k, u, t) /\ k.step # t
    BY <2>1 DEF Told
  <2>3. /\ hand' \in [Requests -> Handler] /\ hand'[r] = k
        /\ \A q \in Requests \ {r} :
             Kept(q) /\ (hand[q].user = u /\ hand[q].step = t => hand'[q].missed)
    BY ONLY AccountInv, r \in Requests, k \in Handler, u \in Users, <2>1, <2>2, MissedKeeps
  <2> QED BY <2>1, <2>3
<1>2. /\ link' \in [Subjects -> Users \union {None}] /\ link'[x] = u
      /\ \A y \in Subjects \ {x} : link'[y] = link[y]
  BY DEF AccountInv, TypeOK
<1>3. TypeOK'
  BY <1>1, <1>2 DEF AccountInv, TypeOK, Exists, LinkedTo
<1>4. /\ \A v \in Users : CodeOK(v)'
      /\ \A s \in Sessions : SessionOK(s)'
  BY DEF AccountInv, CodeOK, SessionOK, Live
<1>5. ~Holds(r)' /\ AllOK(r)'
  BY <1>1 DEF Holds, AllOK, HandlerOK, LinkerOK, CounterOK, CommitterOK
<1>6. ASSUME NEW q \in Requests \ {r} PROVE Undisturbed(q)
  <2>1. HandlerOK(q) /\ Kept(q)
    BY <1>1 DEF AccountInv
  <2>2. Holds(q) => account'[hand[q].user].exists
    BY <2>1 DEF HandlerOK, Exists
  <2>3. ASSUME hand[q].step = "linking", hand[q].via = "offer" \/ ~hand'[q].missed
        PROVE  LinkedTo(link', hand[q].user) \subseteq LinkedTo(link, hand[q].user)
    <3>1. hand[q].user # u
      BY <1>1, <2>3
    <3> QED BY <1>2, <3>1 DEF LinkedTo
  <2>4. hand[q].step = "counted" =>
          hand[q].user \in Users /\ LinkedTo(link, hand[q].user) \subseteq LinkedTo(link', hand[q].user)
    BY <1>2, <2>1, NoneIsNobody DEF HandlerOK, LinkedTo
  <2> QED BY <2>1, <2>2, <2>3, <2>4 DEF Undisturbed, Exists
<1> QED BY <1>3, <1>4, <1>5, <1>6, StepKeepsInv

LEMMA PortalLinkKeepsInv ==
  ASSUME AccountInv, NEW r \in Requests, InsertPortalLink(r)
  PROVE  AccountInv'
<1>1. PICK u \in Users : u = hand[r].user /\ Exists(u) /\ ~HeldForUpdate(u)
  BY DEF InsertPortalLink, AccountInv, HandlerOK
<1>2. PICK x \in Subjects : x = hand[r].subject
  BY DEF InsertPortalLink, AccountInv, HandlerOK
<1> HIDE DEF Idle
<1>3. CASE link[x] = None
  <2>1. /\ link' = [link EXCEPT ![x] = u]
        /\ hand' = MissedBy([hand EXCEPT ![r] = Idle], u, "linking")
        /\ UNCHANGED <<account, session>>
    BY <1>1, <1>2, <1>3 DEF InsertPortalLink
  <2>2. \A q \in Requests \ {r} :
           ~(hand[q].user = u /\ hand[q].step = "linking" /\ hand[q].via = "offer")
    BY <1>1 DEF HeldForUpdate, Doing
  <2>3. Idle \in Handler /\ Idle.step \in {"idle", "entering"} /\ Idle.via # "offer"
        /\ Idle.step # "entering"
    BY IdleIsOK
  <2> QED BY <1>1, <1>3, <2>1, <2>2, <2>3, LinkKeepsInv
<1>4. CASE link[x] # None
  BY <1>2, <1>4, RespondKeepsInv DEF InsertPortalLink
<1> QED BY <1>3, <1>4

\* The handler a login with a link token becomes when the link is there.
LEMMA LinkedLogin ==
  ASSUME AccountInv, NEW r \in Requests, InsertTokenLink(r)
  PROVE  \E k \in Handler, u \in Users, x \in Subjects :
           /\ k.step = "entering" /\ k.via = "none" /\ k.user = u
           /\ hand[r].user = u /\ hand[r].subject = x
           /\ hand[r].step = "linking" /\ hand[r].via = "offer"
           /\ UNCHANGED <<account, session>>
           /\ \/ hand' = [hand EXCEPT ![r] = k] /\ UNCHANGED link
              \/ /\ link[x] = None /\ link' = [link EXCEPT ![x] = u]
                 /\ hand' = MissedBy([hand EXCEPT ![r] = k], u, "linking")
<1>1. PICK h \in Handler : /\ h = hand[r] /\ h.user \in Users /\ h.subject \in Subjects
                           /\ h.step = "linking" /\ h.via = "offer"
  BY DEF InsertTokenLink, AccountInv, TypeOK, HandlerOK
<1> DEFINE w == [h EXCEPT !.step = "entering", !.via = "none", !.subject = None, !.known = FALSE]
<1>2. w \in Handler /\ w.step = "entering" /\ w.via = "none" /\ w.user = h.user
  BY <1>1 DEF Handler, Steps
<1>3. \/ hand' = [hand EXCEPT ![r] = w] /\ UNCHANGED link
      \/ /\ link[h.subject] = None /\ link' = [link EXCEPT ![h.subject] = h.user]
         /\ hand' = MissedBy([hand EXCEPT ![r] = w], h.user, "linking")
  BY <1>1 DEF InsertTokenLink
<1>4. UNCHANGED <<account, session>>
  BY DEF InsertTokenLink
<1> HIDE DEF w
<1> QED BY <1>1, <1>2, <1>3, <1>4

LEMMA TokenLinkKeepsInv ==
  ASSUME AccountInv, NEW r \in Requests, InsertTokenLink(r)
  PROVE  AccountInv'
<1>1. PICK k \in Handler, u \in Users, x \in Subjects :
           /\ k.step = "entering" /\ k.via = "none" /\ k.user = u
           /\ hand[r].user = u /\ hand[r].subject = x
           /\ hand[r].step = "linking" /\ hand[r].via = "offer"
           /\ UNCHANGED <<account, session>>
           /\ \/ hand' = [hand EXCEPT ![r] = k] /\ UNCHANGED link
              \/ /\ link[x] = None /\ link' = [link EXCEPT ![x] = u]
                 /\ hand' = MissedBy([hand EXCEPT ![r] = k], u, "linking")
  BY LinkedLogin
<1>2. Holds(r) /\ Exists(u)
  BY <1>1 DEF Holds, AccountInv, HandlerOK
<1>3. CASE hand' = [hand EXCEPT ![r] = k] /\ UNCHANGED link
  BY <1>1, <1>3, EasyMoveKeepsInv
<1>4. CASE /\ link[x] = None /\ link' = [link EXCEPT ![x] = u]
           /\ hand' = MissedBy([hand EXCEPT ![r] = k], u, "linking")
  <2>1. \A q \in Requests \ {r} :
           ~(hand[q].user = u /\ hand[q].step = "linking" /\ hand[q].via = "offer")
    BY <1>1, <1>2 DEF AccountInv, HoldersAreAlone, Holds
  <2> QED BY <1>1, <1>2, <1>4, <2>1, LinkKeepsInv
<1> QED BY <1>1, <1>3, <1>4
\* Links that are gone, which every other handler that counted them missed.
LEMMA UnlinkKeepsInv ==
  ASSUME AccountInv, NEW r \in Requests, NEW p \in Providers, Unlink(r, p)
  PROVE  AccountInv'
<1>1. PICK u \in Users : u = hand[r].user
  BY DEF Unlink, AccountInv, HandlerOK
<1>2. PICK gone \in SUBSET Subjects : gone = OfProvider(link, u, p)
  BY DEF OfProvider, LinkedTo
<1>3. /\ link' = [x \in Subjects |-> IF x \in gone THEN None ELSE link[x]]
      /\ UNCHANGED <<account, session>>
  BY <1>1, <1>2 DEF Unlink
<1> HIDE DEF Idle
<1>4. CASE gone = {}
  <2>1. Respond(r)
    BY <1>1, <1>2, <1>4 DEF Unlink, Respond
  <2>2. UNCHANGED link
    BY <1>3, <1>4 DEF AccountInv, TypeOK
  <2> QED BY <1>3, <2>1, <2>2, RespondKeepsInv
<1>5. CASE gone # {}
  <2>1. Told(r, Idle, u, "counted")
    BY <1>1, <1>2, <1>5 DEF Unlink, Told
  <2>2. /\ hand' \in [Requests -> Handler] /\ hand'[r] = Idle
        /\ \A q \in Requests \ {r} :
             /\ Kept(q)
             /\ hand[q].user = u /\ hand[q].step = "counted" => hand'[q].missed
    <3>1. PICK t \in Steps : t = "counted"
      BY DEF Steps
    <3>2. Told(r, Idle, u, t) /\ Idle.step # t /\ Idle \in Handler
      BY <2>1, <3>1, IdleIsOK
    <3> QED BY <3>1, <3>2, MissedKeeps
  <2>3. /\ link' \in [Subjects -> Users \union {None}]
        /\ \A x \in Subjects : IF x \in gone THEN link[x] = u /\ link'[x] = None
                                             ELSE link'[x] = link[x]
    BY <1>2, <1>3 DEF AccountInv, TypeOK, OfProvider, LinkedTo
  <2>4. \A v \in Users : LinkedTo(link', v) \subseteq LinkedTo(link, v)
    BY <2>3, NoneIsNobody DEF LinkedTo
  <2>5. \A v \in Users \ {u} : LinkedTo(link, v) \subseteq LinkedTo(link', v)
    BY <2>3 DEF LinkedTo
  <2>6. TypeOK'
    BY <1>3, <2>2, <2>3, <2>4 DEF AccountInv, TypeOK, Exists
  <2>7. /\ \A v \in Users : CodeOK(v)'
        /\ \A s \in Sessions : SessionOK(s)'
    BY <1>3 DEF AccountInv, CodeOK, SessionOK, Live
  <2>8. AllOK(r)' /\ ~Holds(r)'
    BY <2>2, IdleIsOK
  <2>9. ASSUME NEW q \in Requests \ {r} PROVE Undisturbed(q)
    <3>1. HandlerOK(q) /\ Kept(q)
      BY <2>2 DEF AccountInv
    <3>2. Holds(q) => account'[hand[q].user].exists
      BY <1>3, <3>1 DEF HandlerOK, Exists
    <3>3. hand[q].step = "linking" => LinkedTo(link', hand[q].user) \subseteq LinkedTo(link, hand[q].user)
      BY <2>4, <3>1 DEF HandlerOK
    <3>4. hand[q].step = "counted" /\ ~hand'[q].missed =>
            LinkedTo(link, hand[q].user) \subseteq LinkedTo(link', hand[q].user)
      BY <2>2, <2>5, <3>1 DEF HandlerOK
    <3> QED BY <1>3, <3>1, <3>2, <3>3, <3>4 DEF Undisturbed, Exists
  <2> QED BY <2>6, <2>7, <2>8, <2>9, StepKeepsInv
<1> QED BY <1>4, <1>5

-----------------------------------------------------------------------------
(* Accounts.                                                               *)

\* The user of an account that is made is new, and so nobody works for it.
LEMMA NewUser ==
  ASSUME AccountInv, NEW u \in Users, IsFree(u), NEW a \in Account, a.exists,
         a.code = account[u].code, a.accepted = account[u].accepted,
         account' = [account EXCEPT ![u] = a], NEW q \in Requests, hand'[q] = hand[q],
         UNCHANGED session, \A v \in Users \ {u} : LinkedTo(link', v) = LinkedTo(link, v)
  PROVE  Undisturbed(q)
<1>1. HandlerOK(q) /\ hand[q].user # u
  BY DEF AccountInv, IsFree
<1>2. \A v \in Users \ {u} : account'[v] = account[v]
  BY DEF AccountInv, TypeOK
<1>3. CASE hand[q].step = "idle"
  BY <1>3 DEF Undisturbed, Kept, Holds
<1>4. CASE hand[q].step # "idle"
  <2>1. hand[q].user \in Users \ {u}
    BY <1>1, <1>4 DEF HandlerOK
  <2>2. /\ account'[hand[q].user] = account[hand[q].user]
        /\ LinkedTo(link', hand[q].user) = LinkedTo(link, hand[q].user)
    BY <1>2, <2>1
  <2> QED BY <1>1, <2>2 DEF Undisturbed, Kept, HandlerOK, Exists
<1> QED BY <1>3, <1>4

LEMMA CreateKeepsInv ==
  ASSUME AccountInv, NEW u \in Users, CreateUser(u)
  PROVE  AccountInv'
<1>1. PICK x \in Account : x = account[u]
  BY DEF AccountInv, TypeOK
<1>2. PICK a \in Account : /\ account' = [account EXCEPT ![u] = a]
                           /\ a.exists /\ a.code = x.code /\ a.accepted = x.accepted
  <2> DEFINE v == [x EXCEPT !.exists = TRUE]
             w == [v EXCEPT !.password = TRUE]
             mid == [account EXCEPT ![u] = v]
  <2>1. v \in Account /\ v.exists /\ v.code = x.code /\ v.accepted = x.accepted
    BY DEF Account
  <2>2. account' = [mid EXCEPT ![u] = [mid[u] EXCEPT !.password = TRUE]]
    BY <1>1 DEF CreateUser
  <2>3. mid[u] = v
    BY DEF AccountInv, TypeOK
  <2> HIDE DEF v
  <2>4. w \in Account /\ w.exists /\ w.code = x.code /\ w.accepted = x.accepted
    BY <2>1 DEF Account
  <2>5. account' = [account EXCEPT ![u] = w]
    BY <2>2, <2>3
  <2> HIDE DEF w
  <2> QED BY <2>4, <2>5
<1>3. UNCHANGED <<link, session, hand>> /\ IsFree(u)
  BY DEF CreateUser
<1>4. /\ account'[u] = a /\ account' \in [Users -> Account]
      /\ \A v \in Users \ {u} : account'[v] = account[v]
  BY <1>2 DEF AccountInv, TypeOK
<1>5. TypeOK'
  BY <1>2, <1>3, <1>4 DEF AccountInv, TypeOK, Exists, LinkedTo
<1>6. /\ \A v \in Users : CodeOK(v)'
      /\ \A s \in Sessions : SessionOK(s)'
  BY <1>1, <1>2, <1>3, <1>4 DEF AccountInv, CodeOK, SessionOK, Live
<1>7. \A v \in Users \ {u} : LinkedTo(link', v) = LinkedTo(link, v)
  BY <1>3 DEF LinkedTo
<1>8. \A q \in Requests : hand'[q] = hand[q]
  BY <1>3
<1>9. \A q \in Requests : Undisturbed(q)
  BY <1>1, <1>2, <1>3, <1>7, <1>8, NewUser
<1> QED BY <1>5, <1>6, <1>9, OutsideKeepsInv

LEMMA SignUpKeepsInv ==
  ASSUME AccountInv, NEW r \in Requests, NEW x \in Subjects, SocialSignUp(r, x)
  PROVE  AccountInv'
<1>1. PICK u \in Users : u = EmailOf[x]
  BY SubjectsHaveAddresses DEF SocialSignUp
<1>2. PICK o \in Account : o = account[u]
  BY DEF AccountInv, TypeOK
<1>3. PICK a \in Account : /\ account' = [account EXCEPT ![u] = a]
                           /\ a.exists /\ a.code = o.code /\ a.accepted = o.accepted
  <2> DEFINE w == [o EXCEPT !.exists = TRUE]
  <2>1. w \in Account /\ w.exists /\ w.code = o.code /\ w.accepted = o.accepted
    BY DEF Account
  <2>2. account' = [account EXCEPT ![u] = w]
    BY <1>1, <1>2 DEF SocialSignUp
  <2> HIDE DEF w
  <2> QED BY <2>1, <2>2
<1>4. PICK k \in Handler : hand' = [hand EXCEPT ![r] = k]
                         /\ k.step = "entering" /\ k.user = u /\ k.via = "none"
  <2> DEFINE w == [Idle EXCEPT !.step = "entering", !.user = u]
  <2>1. w \in Handler /\ w.step = "entering" /\ w.user = u /\ w.via = "none"
    BY DEF Idle, Handler, Steps
  <2>2. hand' = [hand EXCEPT ![r] = w]
    BY <1>1 DEF SocialSignUp, Start
  <2> HIDE DEF w
  <2> QED BY <2>1, <2>2
<1>5. /\ UNCHANGED session /\ IsFree(u) /\ link[x] = None
      /\ link' = [link EXCEPT ![x] = u]
  BY <1>1 DEF SocialSignUp
<1>6. /\ account'[u] = a /\ account' \in [Users -> Account]
      /\ \A v \in Users \ {u} : account'[v] = account[v]
      /\ hand'[r] = k /\ hand' \in [Requests -> Handler]
      /\ \A q \in Requests \ {r} : hand'[q] = hand[q]
      /\ link' \in [Subjects -> Users \union {None}] /\ link'[x] = u
      /\ \A y \in Subjects \ {x} : link'[y] = link[y]
  BY <1>3, <1>4, <1>5 DEF AccountInv, TypeOK
<1>7. \A v \in Users \ {u} : LinkedTo(link', v) = LinkedTo(link, v)
  BY <1>5, <1>6, NoneIsNobody DEF LinkedTo
<1>8. TypeOK'
  BY <1>3, <1>5, <1>6, <1>7 DEF AccountInv, TypeOK, Exists
<1>9. /\ \A v \in Users : CodeOK(v)'
      /\ \A s \in Sessions : SessionOK(s)'
  BY <1>2, <1>3, <1>5, <1>6 DEF AccountInv, CodeOK, SessionOK, Live
<1>10. \A q \in Requests \ {r} : Undisturbed(q)
  BY <1>2, <1>3, <1>5, <1>6, <1>7, NewUser
<1>11. ~Holds(r)' /\ AllOK(r)'
  BY <1>4, <1>6 DEF Holds, AllOK, HandlerOK, LinkerOK, CounterOK, CommitterOK
<1> QED BY <1>8, <1>9, <1>10, <1>11, StepKeepsInv

LEMMA DeleteKeepsInv ==
  ASSUME AccountInv, NEW u \in Users, DeleteUser(u)
  PROVE  AccountInv'
<1>1. /\ Absent \in Account /\ ~Absent.exists /\ Absent.code = "none"
      /\ NoSession \in Session /\ NoSession.user = None
  BY DEF Absent, Account, NoSession, Session
<1> HIDE DEF Absent, NoSession
<1>2. /\ account' = [account EXCEPT ![u] = Absent]
      /\ link' = [x \in Subjects |-> IF link[x] = u THEN None ELSE link[x]]
      /\ session' = [s \in Sessions |-> IF session[s].user = u THEN NoSession ELSE session[s]]
      /\ UNCHANGED hand
      /\ ~HeldForUpdate(u) /\ ~BeingUpdated(u)
  BY DEF DeleteUser
<1>3. /\ account'[u] = Absent /\ account' \in [Users -> Account]
      /\ \A v \in Users \ {u} : account'[v] = account[v]
      /\ link' \in [Subjects -> Users \union {None}]
      /\ session' \in [Sessions -> Session]
  BY <1>1, <1>2 DEF AccountInv, TypeOK
<1>4. /\ LinkedTo(link', u) = {}
      /\ \A v \in Users \ {u} : LinkedTo(link', v) = LinkedTo(link, v)
  BY <1>2, NoneIsNobody DEF LinkedTo
<1>5. \A s \in Sessions : /\ session'[s].user # u
                          /\ session'[s] = session[s] \/ session'[s] = NoSession
  BY <1>1, <1>2, NoneIsNobody
<1>6. TypeOK'
  <2>1. ASSUME NEW v \in Users, ~account'[v].exists
        PROVE  LinkedTo(link', v) = {} /\ \A s \in Sessions : session'[s].user # v
    <3>1. CASE v = u
      BY <1>4, <1>5, <3>1
    <3>2. CASE v # u
      BY <1>1, <1>3, <1>4, <1>5, <2>1, <3>2, NoneIsNobody DEF AccountInv, TypeOK, Exists
    <3> QED BY <3>1, <3>2
  <2> QED BY <1>2, <1>3, <2>1 DEF AccountInv, TypeOK, Exists
<1>7. /\ \A v \in Users : CodeOK(v)'
      /\ \A s \in Sessions : SessionOK(s)'
  BY <1>1, <1>3, <1>5 DEF AccountInv, CodeOK, SessionOK, Live
<1>8. ASSUME NEW q \in Requests PROVE Undisturbed(q)
  <2>1. HandlerOK(q) /\ hand'[q] = hand[q] /\ (Holds(q) => hand[q].user # u)
    BY <1>2, NobodyHolds DEF AccountInv
  <2>2. CASE hand[q].step = "idle"
    BY <2>1, <2>2 DEF Undisturbed, Kept, Holds
  <2>3. CASE hand[q].user = u
    BY <1>1, <1>3, <1>4, <1>5, <2>1, <2>3 DEF Undisturbed, Kept, Holds
  <2>4. CASE hand[q].step # "idle" /\ hand[q].user # u
    <3>1. hand[q].user \in Users \ {u}
      BY <2>1, <2>4 DEF HandlerOK
    <3>2. /\ account'[hand[q].user] = account[hand[q].user]
          /\ LinkedTo(link', hand[q].user) = LinkedTo(link, hand[q].user)
      BY <1>3, <1>4, <3>1
    <3>3. \A s \in Sessions : session'[s].user = hand[q].user => session'[s] = session[s]
      BY <1>1, <1>5, <3>1, NoneIsNobody
    <3> QED BY <2>1, <3>2, <3>3 DEF Undisturbed, Kept, HandlerOK, Exists
  <2> QED BY <2>2, <2>3, <2>4
<1> QED BY <1>6, <1>7, <1>8, OutsideKeepsInv
\* A change is committed: the sessions opened on the old password end, and no other
\* handler is about to commit a change of the same user.
LEMMA CommitKeepsInv ==
  ASSUME AccountInv, NEW r \in Requests, CommitPassword(r)
  PROVE  AccountInv'
<1>1. PICK h \in Handler : /\ h = hand[r] /\ h.user \in Users /\ h.step = "committing"
                           /\ \A s \in Sessions : session[s].user = h.user =>
                                s \in h.ends \/ s = h.session \/ session[s].mark = "raced"
  BY DEF CommitPassword, AccountInv, TypeOK, HandlerOK, CommitterOK
<1>2. PICK u \in Users : u = h.user
  BY <1>1
<1>3. PICK x \in Account : x = account[u]
  BY DEF AccountInv, TypeOK
<1>4. PICK a \in Account : /\ account' = [account EXCEPT ![u] = a]
                           /\ a.exists = x.exists /\ a.password
                           /\ a.code = x.code /\ a.accepted = x.accepted
  <2> DEFINE w == [x EXCEPT !.password = TRUE]
  <2>1. /\ w \in Account /\ w.exists = x.exists /\ w.password
        /\ w.code = x.code /\ w.accepted = x.accepted
    BY DEF Account
  <2>2. account' = [account EXCEPT ![u] = w]
    BY <1>1, <1>2, <1>3 DEF CommitPassword
  <2> HIDE DEF w
  <2> QED BY <2>1, <2>2
<1>5. /\ account'[u] = a /\ account' \in [Users -> Account]
      /\ \A v \in Users \ {u} : account'[v] = account[v]
      /\ \A v \in Users : account'[v].exists = account[v].exists
  BY <1>3, <1>4 DEF AccountInv, TypeOK
<1>6. UNCHANGED link
  BY DEF CommitPassword
<1>7. ASSUME NEW s \in Sessions
      PROVE  /\ session'[s] \in Session
             /\ session'[s] = NoSession
                \/ (session[s].user # u /\ session'[s] = session[s])
                \/ (session[s].user = u /\ session'[s].user = u /\ session'[s].mark # "outlived")
  <2>1. PICK o \in Session : o = session[s]
    BY DEF AccountInv, TypeOK
  <2>2. CASE s \in h.ends
    <3>1. session'[s] = NoSession
      BY <1>1, <2>2 DEF CommitPassword
    <3>2. NoSession \in Session
      BY DEF NoSession, Session
    <3> QED BY <3>1, <3>2
  <2>3. CASE s \notin h.ends /\ o.user # u
    <3>1. session'[s] = session[s]
      BY <1>1, <1>2, <2>1, <2>3 DEF CommitPassword
    <3> QED BY <2>1, <2>3, <3>1
  <2>4. CASE s \notin h.ends /\ o.user = u
    <3>1. PICK m \in {"current", "raced"} : m = MarkAfter(s, h.session)
      BY <1>1, <1>2, <2>1, <2>4 DEF MarkAfter
    <3>2. session'[s] = [o EXCEPT !.mark = m]
      BY <1>1, <1>2, <2>1, <2>4, <3>1 DEF CommitPassword
    <3>3. /\ [o EXCEPT !.mark = m] \in Session
          /\ [o EXCEPT !.mark = m].user = o.user /\ [o EXCEPT !.mark = m].mark = m
      BY DEF Session
    <3> QED BY <2>1, <2>4, <3>2, <3>3
  <2> QED BY <2>2, <2>3, <2>4
<1>8. session' \in [Sessions -> Session]
  <2>1. \E T : session' = [s \in Sessions |-> T[s]]
    <3> DEFINE T == [s \in Sessions |->
                      IF s \in h.ends THEN NoSession
                      ELSE IF session[s].user = h.user
                      THEN [session[s] EXCEPT !.mark = MarkAfter(s, h.session)]
                      ELSE session[s]]
    <3>1. session' = T
      BY <1>1 DEF CommitPassword
    <3>2. T = [s \in Sessions |-> T[s]]
      OBVIOUS
    <3> HIDE DEF T
    <3> QED BY <3>1, <3>2
  <2> QED BY <1>7, <2>1
<1>9. ASSUME NEW q \in Requests
      PROVE  /\ hand'[q] \in Handler
             /\ q # r => /\ Kept(q)
  <2>1. PICK k \in Handler : k = hand[q]
    BY DEF AccountInv, TypeOK
  <2>2. CASE q = r
    <3>1. hand'[q] = Idle
      BY <2>2 DEF CommitPassword
    <3> QED BY <2>2, <3>1, IdleIsOK
  <2>3. CASE q # r
    <3>1. PICK b \in BOOLEAN :
            b = (k.stale \/ (k.user = h.user /\ k.step \in {"proving", "entering", "linking"}
                                             /\ k.via # "disable"))
      BY <2>1 DEF Handler
    <3>2. hand'[q] = [k EXCEPT !.stale = b]
      BY <1>1, <2>1, <2>3, <3>1 DEF CommitPassword
    <3>3. /\ [k EXCEPT !.stale = b] \in Handler
          /\ [k EXCEPT !.stale = b].step = k.step /\ [k EXCEPT !.stale = b].via = k.via
          /\ [k EXCEPT !.stale = b].user = k.user /\ [k EXCEPT !.stale = b].session = k.session
          /\ [k EXCEPT !.stale = b].subject = k.subject /\ [k EXCEPT !.stale = b].ends = k.ends
          /\ [k EXCEPT !.stale = b].missed = k.missed
      BY DEF Handler
    <3> QED BY <2>1, <3>2, <3>3 DEF Kept
  <2> QED BY <2>2, <2>3
<1>10. hand' \in [Requests -> Handler] /\ hand'[r] = Idle
  <2>1. \E T : hand' = [q \in Requests |-> T[q]]
    <3> DEFINE T == [q \in Requests |->
                IF q = r THEN Idle
                ELSE [hand[q] EXCEPT !.stale =
                        @ \/ (hand[q].user = h.user /\ hand[q].step \in {"proving", "entering", "linking"}
                                                    /\ hand[q].via # "disable")]]
    <3>1. hand' = T
      BY <1>1 DEF CommitPassword
    <3>2. T = [q \in Requests |-> T[q]]
      OBVIOUS
    <3> HIDE DEF T
    <3> QED BY <3>1, <3>2
  <2>2. hand'[r] = Idle
    BY DEF CommitPassword
  <2> QED BY <1>9, <2>1, <2>2
<1>11. NoSession.user = None /\ NoSession.mark # "outlived"
  BY DEF NoSession
<1> HIDE DEF NoSession, Idle
<1>12. TypeOK'
  <2>1. \A v \in Users, s \in Sessions : session'[s].user = v => session[s].user = v
    BY <1>7, <1>11, NoneIsNobody
  <2> QED BY <1>5, <1>6, <1>8, <1>10, <2>1 DEF AccountInv, TypeOK, Exists, LinkedTo
<1>13. \A v \in Users : CodeOK(v)'
  BY <1>3, <1>4, <1>5 DEF AccountInv, CodeOK
<1>14. ASSUME NEW s \in Sessions PROVE SessionOK(s)'
  BY <1>7 DEF AccountInv, SessionOK, Live
<1>15. AllOK(r)' /\ ~Holds(r)'
  BY <1>10, IdleIsOK
<1>16. ASSUME NEW q \in Requests \ {r} PROVE Undisturbed(q)
  <2>1. HandlerOK(q) /\ Kept(q)
    BY <1>9 DEF AccountInv
  <2>2. Holds(q) => hand[q].user # u /\ account'[hand[q].user].exists
    BY <1>1, <1>2, <1>5, <2>1 DEF HandlerOK, Exists, AccountInv, HoldersAreAlone, Holds
  <2>3. hand[q].step = "counted" /\ account'[hand[q].user].exists =>
          \/ account'[hand[q].user].password
          \/ /\ Exists(hand[q].user) /\ ~account[hand[q].user].password
             /\ LinkedTo(link, hand[q].user) \subseteq LinkedTo(link', hand[q].user)
    BY <1>4, <1>5, <1>6, <2>1 DEF HandlerOK, Exists
  <2>4. hand[q].step = "committing" =>
          \A s \in Sessions : session'[s].user = hand[q].user => session'[s] = session[s]
    BY <1>7, <1>11, <2>1, <2>2, NoneIsNobody DEF HandlerOK, Holds
  <2> QED BY <1>6, <2>1, <2>2, <2>3, <2>4 DEF Undisturbed
<1> QED BY <1>12, <1>13, <1>14, <1>15, <1>16, StepKeepsInv
-----------------------------------------------------------------------------
(* The invariant.                                                          *)

LEMMA InitAccountInv == Init => AccountInv
<1> SUFFICES ASSUME Init PROVE AccountInv
  OBVIOUS
<1>1. /\ Absent \in Account /\ Absent.code = "none" /\ ~Absent.exists
      /\ NoSession \in Session /\ NoSession.user = None
      /\ Idle \in Handler /\ Idle.step = "idle" /\ Idle.via = "none"
  BY DEF Absent, Account, NoSession, Session, Idle, Handler, Steps
<1> HIDE DEF Absent, NoSession, Idle
<1>2. /\ account \in [Users -> Account] /\ \A u \in Users : account[u] = Absent
      /\ link \in [Subjects -> Users \union {None}] /\ \A x \in Subjects : link[x] = None
      /\ session \in [Sessions -> Session] /\ \A s \in Sessions : session[s] = NoSession
      /\ hand \in [Requests -> Handler] /\ \A r \in Requests : hand[r] = Idle
  BY <1>1 DEF Init
<1>3. TypeOK
  BY <1>1, <1>2, NoneIsNobody DEF TypeOK, LinkedTo
<1>4. \A u \in Users : CodeOK(u)
  BY <1>1, <1>2 DEF CodeOK
<1>5. \A s \in Sessions : SessionOK(s)
  BY <1>2 DEF SessionOK, Live
<1>6. \A r \in Requests : HandlerOK(r) /\ LinkerOK(r) /\ CounterOK(r) /\ CommitterOK(r) /\ ~Holds(r)
  BY <1>1, <1>2 DEF HandlerOK, LinkerOK, CounterOK, CommitterOK, Holds
<1> QED BY <1>3, <1>4, <1>5, <1>6 DEF AccountInv, HoldersAreAlone

\* A step that changes nothing keeps the invariant.
LEMMA StutterKeepsInv ==
  ASSUME AccountInv, UNCHANGED vars
  PROVE  AccountInv'
<1>1. TypeOK'
  BY DEF vars, AccountInv, TypeOK, Exists, LinkedTo
<1>2. /\ \A u \in Users : CodeOK(u)'
      /\ \A s \in Sessions : SessionOK(s)'
  BY DEF vars, AccountInv, CodeOK, SessionOK, Live
<1>3. UNCHANGED <<account, link, session>> /\ \A q \in Requests : hand'[q] = hand[q]
  BY DEF vars
<1>4. \A q \in Requests : Undisturbed(q)
  BY <1>3, UnchangedIsUndisturbed
<1> QED BY <1>1, <1>2, <1>4, OutsideKeepsInv

LEMMA NextKeepsAccountInv == AccountInv /\ [Next]_vars => AccountInv'
<1> SUFFICES ASSUME AccountInv, [Next]_vars PROVE AccountInv'
  OBVIOUS
<1>1. ASSUME NEW r \in Requests, NEW u \in Users, ReadLogin(r, u) \/ BeginReset(r, u)
      PROVE  AccountInv'
  BY <1>1, LoginKeepsInv, ResetKeepsInv
<1>2. ASSUME NEW r \in Requests, NEW x \in Subjects,
             \/ SocialLogin(r, x) \/ SocialSignUp(r, x)
             \/ OfferLink(r, x) \/ CheckPortalLink(r, x)
      PROVE  AccountInv'
  BY <1>2, StartsKeepInv, SignUpKeepsInv, CheckPortalKeepsInv
<1>3. ASSUME NEW r \in Requests, NEW s \in Sessions,
             \/ StartLink(r, s) \/ CountLinks(r, s)
             \/ ComparePassword(r, s) \/ SetUpMfa(r, s) \/ ReadFactor(r, s)
      PROVE  AccountInv'
  BY <1>3, StartsKeepInv, CountKeepsInv
<1>4. ASSUME NEW r \in Requests, Prove(r) \/ InsertSession(r) PROVE AccountInv'
  BY <1>4, ProveKeepsInv, InsertKeepsInv
<1>5. ASSUME NEW r \in Requests, InsertPortalLink(r) \/ CheckTokenLink(r) \/ InsertTokenLink(r)
      PROVE  AccountInv'
  BY <1>5, PortalLinkKeepsInv, CheckTokenKeepsInv, TokenLinkKeepsInv
<1>6. ASSUME NEW r \in Requests, NEW p \in Providers, Unlink(r, p) PROVE AccountInv'
  BY <1>6, UnlinkKeepsInv
<1>7. ASSUME NEW r \in Requests, BeginChange(r) \/ CommitPassword(r) PROVE AccountInv'
  BY <1>7, ChangeKeepsInv, CommitKeepsInv
<1>8. ASSUME NEW r \in Requests, EnableMfa(r) \/ DisableMfa(r) PROVE AccountInv'
  BY <1>8, EnableDisableKeepInv
<1>9. ASSUME NEW r \in Requests, Fail(r) PROVE AccountInv'
  BY <1>9, RespondKeepsInv DEF Fail
<1>10. ASSUME NEW s \in Sessions, EndSession(s) PROVE AccountInv'
  BY <1>10, EndKeepsInv
<1>11. ASSUME NEW u \in Users, CreateUser(u) \/ DeleteUser(u) PROVE AccountInv'
  BY <1>11, CreateKeepsInv, DeleteKeepsInv
<1>12. CASE UNCHANGED vars
  BY <1>12, StutterKeepsInv
<1> QED
  BY <1>1, <1>2, <1>3, <1>4, <1>5, <1>6, <1>7, <1>8, <1>9, <1>10, <1>11, <1>12 DEF Next

\* The inductive invariant holds of every reachable state of the accounts.
THEOREM AccountInvariant == Spec => []AccountInv
BY InitAccountInv, NextKeepsAccountInv, PTL DEF Spec

\* Every variable has its type: a recovery code is accepted at most once between two
\* enrolments, and nothing refers to a user that is gone.
THEOREM TypeCorrect == Spec => []TypeOK
<1>1. AccountInv => TypeOK
  BY DEF AccountInv
<1> QED BY <1>1, AccountInvariant, PTL

\* No session opened on a password outlives its change, but the one that made it and
\* those whose login overlapped it (setIdentityUserPassword).
THEOREM SessionsAreEarnedAlways == Spec => []SessionsAreEarned
<1>1. NoSession.mark # "outlived"
  BY DEF NoSession
<1>2. AccountInv => SessionsAreEarned
  BY <1>1 DEF AccountInv, SessionOK, Live, SessionsAreEarned
<1> QED BY <1>2, AccountInvariant, PTL

-----------------------------------------------------------------------------
(* What a step may do to the links.                                        *)

LinksAreSafe == MethodRemains /\ LinksAreUnique

PasswordsStay == \A u \in Users : account[u].password => account'[u].password

\* A user's links are one at most when there is one account they can be of.
LEMMA OneLink ==
  ASSUME NEW x \in Subjects, NEW S \in SUBSET Subjects, S \subseteq {x}
  PROVE  ~(Cardinality(S) > 1)
<1>1. S = {} \/ S = {x}
  OBVIOUS
<1>2. Cardinality(S) = 0 \/ Cardinality(S) = 1
  BY <1>1, FS_EmptySet, FS_Singleton
<1> QED BY <1>2

\* Where no link is made and no password goes, a user loses the last link only to an
\* unlink of all of them.
LEMMA FewerLinks ==
  ASSUME AccountInv, NEW gone \in SUBSET Subjects,
         link' = [x \in Subjects |-> IF x \in gone THEN None ELSE link[x]], PasswordsStay,
         \A u \in Users :
           (Exists(u) /\ account'[u].exists /\ LinkedTo(link, u) # {} /\ LinkedTo(link, u) \subseteq gone
              /\ ~account[u].password)
           => \E r \in Requests :
                /\ Answers(r, "counted", u)
                /\ \/ hand[r].missed
                   \/ \E p \in Providers : Cardinality(OfProvider(link, u, p)) > 1
  PROVE  LinksAreSafe
<1>1. \A x \in Subjects : link'[x] = (IF x \in gone THEN None ELSE link[x])
  OBVIOUS
<1>2. \A u \in Users : LinkedTo(link', u) = LinkedTo(link, u) \ gone
  BY <1>1, NoneIsNobody DEF LinkedTo
<1>3. MethodRemains
  BY <1>2 DEF MethodRemains, PasswordsStay
<1>4. ASSUME NEW u \in Users, NEW p \in Providers, Cardinality(OfProvider(link', u, p)) > 1
      PROVE  Cardinality(OfProvider(link, u, p)) > 1
  <2>1. PICK S \in SUBSET Subjects : S = OfProvider(link', u, p)
    BY DEF OfProvider, LinkedTo
  <2>2. PICK T \in SUBSET Subjects : T = OfProvider(link, u, p)
    BY DEF OfProvider, LinkedTo
  <2>3. S \subseteq T
    BY <1>2, <2>1, <2>2 DEF OfProvider
  <2> QED BY <1>4, <2>1, <2>2, <2>3, MoreLinks
<1>5. \A u \in Users, p \in Providers :
        ~(Cardinality(OfProvider(link, u, p)) <= 1 /\ Cardinality(OfProvider(link, u, p)) > 1)
  <2>1. ASSUME NEW u \in Users, NEW p \in Providers PROVE Cardinality(OfProvider(link, u, p)) \in Nat
    <3>1. OfProvider(link, u, p) \subseteq Subjects
      BY DEF OfProvider, LinkedTo
    <3>2. IsFiniteSet(OfProvider(link, u, p))
      BY <3>1, SubjectsAreFinite, FS_Subset
    <3> QED BY <3>2, FS_CardinalityType
  <2> QED BY <2>1
<1>6. LinksAreUnique
  BY <1>1, <1>4, <1>5 DEF LinksAreUnique
<1> QED BY <1>3, <1>6 DEF LinksAreSafe

\* Most steps leave the links as they are.
LEMMA SameLinks ==
  ASSUME AccountInv, UNCHANGED link, PasswordsStay
  PROVE  LinksAreSafe
<1>1. link' = [x \in Subjects |-> IF x \in {} THEN None ELSE link[x]]
  BY DEF AccountInv, TypeOK
<1>2. {} \in SUBSET Subjects
  OBVIOUS
<1> QED BY <1>1, <1>2, FewerLinks

\* A link is made: of the only account of the provider, or by a handler from the portal
\* that missed another.
LEMMA OneMoreLink ==
  ASSUME AccountInv, NEW u \in Users, NEW x \in Subjects,
         link[x] = None, link' = [link EXCEPT ![x] = u], PasswordsStay,
         \/ OfProvider(link, u, ProviderOf[x]) \subseteq {x}
         \/ \E r \in Requests : Answers(r, "linking", u) /\ hand[r].via = "portal" /\ hand[r].missed
  PROVE  LinksAreSafe
<1>1. link'[x] = u /\ \A y \in Subjects \ {x} : link'[y] = link[y]
  BY DEF AccountInv, TypeOK
<1>2. \A v \in Users : LinkedTo(link, v) \subseteq LinkedTo(link', v)
  BY <1>1, NoneIsNobody DEF LinkedTo
<1>3. MethodRemains
  BY <1>2 DEF MethodRemains, PasswordsStay
<1>4. ASSUME NEW v \in Users, NEW p \in Providers,
             Cardinality(OfProvider(link, v, p)) <= 1, Cardinality(OfProvider(link', v, p)) > 1
      PROVE  \E r \in Requests : Answers(r, "linking", v) /\ hand[r].via = "portal" /\ hand[r].missed
  <2>1. PICK S \in SUBSET Subjects : S = OfProvider(link', v, p)
    BY DEF OfProvider, LinkedTo
  <2>2. PICK T \in SUBSET Subjects : T = OfProvider(link, v, p)
    BY DEF OfProvider, LinkedTo
  <2>3. CASE v = u /\ p = ProviderOf[x]
    <3>1. S \subseteq T \union {x}
      BY <1>1, <2>1, <2>2 DEF OfProvider, LinkedTo
    <3>2. CASE T \subseteq {x}
      <4>1. S \subseteq {x}
        BY <3>1, <3>2
      <4> QED BY <1>4, <2>1, <4>1, OneLink
    <3> QED BY <2>2, <2>3, <3>2
  <2>4. CASE ~(v = u /\ p = ProviderOf[x])
    <3>1. S = T
      BY <1>1, <2>1, <2>2, <2>4, NoneIsNobody DEF OfProvider, LinkedTo
    <3>2. Cardinality(T) \in Nat
      <4>1. IsFiniteSet(T)
        BY SubjectsAreFinite, FS_Subset
      <4> QED BY <4>1, FS_CardinalityType
    <3> QED BY <1>4, <2>1, <2>2, <3>1, <3>2
  <2> QED BY <2>3, <2>4
<1>5. LinksAreUnique
  BY <1>1, <1>4 DEF LinksAreUnique
<1> QED BY <1>3, <1>5 DEF LinksAreSafe

\* DELETE /social/:provider takes the last link of a user without a password only when
\* the count it made is out of date, or there were two of the provider.
LEMMA UnlinkIsSafe ==
  ASSUME AccountInv, NEW r \in Requests, NEW p \in Providers, Unlink(r, p)
  PROVE  LinksAreSafe
<1>1. PICK u \in Users : u = hand[r].user
  BY DEF Unlink, AccountInv, HandlerOK
<1>2. PICK gone \in SUBSET Subjects : gone = OfProvider(link, u, p)
  BY DEF OfProvider, LinkedTo
<1>3. /\ link' = [x \in Subjects |-> IF x \in gone THEN None ELSE link[x]]
      /\ UNCHANGED <<account, session>> /\ hand[r].step = "counted"
  BY <1>1, <1>2 DEF Unlink
<1>4. hand'[r] = Idle
  <2>1. Idle.user # u
    BY IdleIsOK, NoneIsNobody
  <2>2. CASE gone = {}
    <3>1. hand' = [hand EXCEPT ![r] = Idle]
      BY <1>1, <1>2, <2>2 DEF Unlink
    <3> HIDE DEF Idle
    <3> QED BY <3>1 DEF AccountInv, TypeOK
  <2>3. CASE gone # {}
    <3>1. hand' = MissedBy([hand EXCEPT ![r] = Idle], u, "counted")
      BY <1>1, <1>2, <2>3 DEF Unlink
    <3> HIDE DEF Idle
    <3> QED BY <2>1, <3>1 DEF AccountInv, TypeOK, MissedBy
  <2> QED BY <2>2, <2>3
<1>5. ASSUME NEW v \in Users, Exists(v), LinkedTo(link, v) # {}, LinkedTo(link, v) \subseteq gone,
             ~account[v].password, ~hand[r].missed
      PROVE  v = u /\ Cardinality(OfProvider(link, u, p)) > 1
  <2>1. v = u
    BY <1>2, <1>5 DEF OfProvider, LinkedTo
  <2>2. Cardinality(LinkedTo(link, u)) > 1
    BY <1>1, <1>3, <1>5, <2>1 DEF AccountInv, CounterOK
  <2>3. LinkedTo(link, u) = OfProvider(link, u, p)
    BY <1>2, <1>5, <2>1 DEF OfProvider
  <2> QED BY <2>1, <2>2, <2>3
<1>6. ASSUME NEW v \in Users, Exists(v), LinkedTo(link, v) # {}, LinkedTo(link, v) \subseteq gone,
             ~account[v].password
      PROVE  \E q \in Requests :
                /\ Answers(q, "counted", v)
                /\ \/ hand[q].missed
                   \/ \E o \in Providers : Cardinality(OfProvider(link, v, o)) > 1
  <2>1. v = u
    BY <1>2, <1>6 DEF OfProvider, LinkedTo
  <2>2. Answers(r, "counted", v)
    BY <1>1, <1>3, <1>4, <2>1 DEF Answers
  <2> QED BY <1>5, <1>6, <2>1, <2>2
<1>7. PasswordsStay
  BY <1>3 DEF PasswordsStay
<1> QED BY <1>3, <1>6, <1>7, FewerLinks

LEMMA PortalLinkIsSafe ==
  ASSUME AccountInv, NEW r \in Requests, InsertPortalLink(r)
  PROVE  LinksAreSafe
<1>1. PICK u \in Users : u = hand[r].user
  BY DEF InsertPortalLink, AccountInv, HandlerOK
<1>2. PICK x \in Subjects : x = hand[r].subject
  BY DEF InsertPortalLink, AccountInv, HandlerOK
<1>3. /\ UNCHANGED account /\ hand[r].step = "linking" /\ hand[r].via = "portal"
      /\ PasswordsStay
  BY DEF InsertPortalLink, PasswordsStay
<1> HIDE DEF Idle
<1>4. CASE link[x] = None
  <2>1. /\ link' = [link EXCEPT ![x] = u]
        /\ hand' = MissedBy([hand EXCEPT ![r] = Idle], u, "linking")
    BY <1>1, <1>2, <1>4 DEF InsertPortalLink
  <2>2. Idle.user # u
    BY IdleIsOK, NoneIsNobody
  <2>3. hand'[r] = Idle
    BY <2>1, <2>2 DEF AccountInv, TypeOK, MissedBy
  <2>4. hand[r].missed => Answers(r, "linking", u)
    BY <1>1, <1>3, <2>3 DEF Answers
  <2>5. ~hand[r].missed => OfProvider(link, u, ProviderOf[x]) \subseteq {x}
    BY <1>1, <1>2, <1>3 DEF AccountInv, LinkerOK
  <2> QED BY <1>3, <1>4, <2>1, <2>4, <2>5, OneMoreLink
<1>5. CASE link[x] # None
  BY <1>2, <1>3, <1>5, SameLinks DEF InsertPortalLink
<1> QED BY <1>4, <1>5

LEMMA TokenLinkIsSafe ==
  ASSUME AccountInv, NEW r \in Requests, InsertTokenLink(r)
  PROVE  LinksAreSafe
<1>1. PICK k \in Handler, u \in Users, x \in Subjects :
           /\ k.step = "entering" /\ k.via = "none" /\ k.user = u
           /\ hand[r].user = u /\ hand[r].subject = x
           /\ hand[r].step = "linking" /\ hand[r].via = "offer"
           /\ UNCHANGED <<account, session>>
           /\ \/ hand' = [hand EXCEPT ![r] = k] /\ UNCHANGED link
              \/ /\ link[x] = None /\ link' = [link EXCEPT ![x] = u]
                 /\ hand' = MissedBy([hand EXCEPT ![r] = k], u, "linking")
  BY LinkedLogin
<1>2. PasswordsStay
  BY <1>1 DEF PasswordsStay
<1>3. OfProvider(link, u, ProviderOf[x]) \subseteq {x}
  BY <1>1 DEF AccountInv, LinkerOK
<1> QED BY <1>1, <1>2, <1>3, SameLinks, OneMoreLink

LEMMA SignUpIsSafe ==
  ASSUME AccountInv, NEW r \in Requests, NEW x \in Subjects, SocialSignUp(r, x)
  PROVE  LinksAreSafe
<1>1. PICK u \in Users : u = EmailOf[x]
  BY SubjectsHaveAddresses DEF SocialSignUp
<1>2. /\ account' = [account EXCEPT ![u].exists = TRUE] /\ ~Exists(u)
      /\ link' = [link EXCEPT ![x] = u] /\ link[x] = None
  BY <1>1 DEF SocialSignUp, IsFree
<1>3. PasswordsStay
  BY <1>2 DEF PasswordsStay, AccountInv, TypeOK, Account
<1>4. OfProvider(link, u, ProviderOf[x]) \subseteq {x}
  BY <1>2 DEF AccountInv, TypeOK, OfProvider
<1> QED BY <1>2, <1>3, <1>4, OneMoreLink

LEMMA DeleteIsSafe ==
  ASSUME AccountInv, NEW u \in Users, DeleteUser(u)
  PROVE  LinksAreSafe
<1>1. PICK gone \in SUBSET Subjects : gone = LinkedTo(link, u)
  BY DEF LinkedTo
<1>2. link' = [x \in Subjects |-> IF x \in gone THEN None ELSE link[x]]
  BY <1>1 DEF DeleteUser, LinkedTo
<1>3. account' = [account EXCEPT ![u] = Absent]
  BY DEF DeleteUser
<1>4. /\ account'[u].exists = FALSE
      /\ \A v \in Users \ {u} : account'[v] = account[v]
  BY <1>3 DEF AccountInv, TypeOK, Absent
<1>5. \A x \in Subjects : link'[x] = (IF x \in gone THEN None ELSE link[x])
  BY <1>2
<1>6. \A v \in Users : LinkedTo(link', v) \subseteq LinkedTo(link, v)
  BY <1>5, NoneIsNobody DEF LinkedTo
<1>7. \A v \in Users \ {u} : LinkedTo(link', v) = LinkedTo(link, v)
  BY <1>1, <1>5, NoneIsNobody DEF LinkedTo
<1>8. MethodRemains
  BY <1>4, <1>7 DEF MethodRemains
<1>9. ASSUME NEW v \in Users, NEW p \in Providers, Cardinality(OfProvider(link', v, p)) > 1
      PROVE  ~(Cardinality(OfProvider(link, v, p)) <= 1)
  <2>1. PICK S \in SUBSET Subjects : S = OfProvider(link', v, p)
    BY DEF OfProvider, LinkedTo
  <2>2. PICK T \in SUBSET Subjects : T = OfProvider(link, v, p)
    BY DEF OfProvider, LinkedTo
  <2>3. S \subseteq T
    BY <1>6, <2>1, <2>2 DEF OfProvider
  <2>4. Cardinality(T) > 1
    BY <1>9, <2>1, <2>3, MoreLinks
  <2>5. IsFiniteSet(T)
    BY SubjectsAreFinite, FS_Subset
  <2>6. Cardinality(T) \in Nat
    BY <2>5, FS_CardinalityType
  <2> QED BY <2>2, <2>4, <2>6
<1>10. LinksAreUnique
  BY <1>5, <1>9 DEF LinksAreUnique
<1> QED BY <1>8, <1>10 DEF LinksAreSafe

\* Every other step leaves the links, and takes nobody's password.
LEMMA OtherStepsAreSafe ==
  ASSUME AccountInv, UNCHANGED link,
         \/ UNCHANGED account
         \/ \E r \in Requests : Prove(r) \/ EnableMfa(r) \/ DisableMfa(r) \/ CommitPassword(r)
         \/ \E u \in Users : CreateUser(u)
  PROVE  LinksAreSafe
<1>1. CASE UNCHANGED account
  BY <1>1, SameLinks DEF PasswordsStay
<1>2. ASSUME NEW r \in Requests, Prove(r) \/ EnableMfa(r) \/ DisableMfa(r) PROVE LinksAreSafe
  <2>1. PasswordsStay
    BY <1>2 DEF PasswordsStay, Prove, EnableMfa, DisableMfa, AccountInv, TypeOK, Account
  <2> QED BY <2>1, SameLinks
<1>3. ASSUME NEW r \in Requests, CommitPassword(r) PROVE LinksAreSafe
  <2>1. PasswordsStay
    BY <1>3 DEF PasswordsStay, CommitPassword, AccountInv, TypeOK, Account
  <2> QED BY <2>1, SameLinks
<1>4. ASSUME NEW u \in Users, CreateUser(u) PROVE LinksAreSafe
  <2>1. PasswordsStay
    BY <1>4 DEF PasswordsStay, CreateUser, AccountInv, TypeOK, Account
  <2> QED BY <2>1, SameLinks
<1> QED BY <1>1, <1>2, <1>3, <1>4

LEMMA NextIsSafe == AccountInv /\ [Next]_vars => [LinksAreSafe]_vars
<1> SUFFICES ASSUME AccountInv, Next PROVE LinksAreSafe
  OBVIOUS
<1>1. ASSUME NEW r \in Requests, NEW u \in Users, ReadLogin(r, u) \/ BeginReset(r, u)
      PROVE  LinksAreSafe
  BY <1>1, OtherStepsAreSafe DEF ReadLogin, BeginReset
<1>2. ASSUME NEW r \in Requests, NEW x \in Subjects,
             SocialLogin(r, x) \/ OfferLink(r, x) \/ CheckPortalLink(r, x)
      PROVE  LinksAreSafe
  BY <1>2, OtherStepsAreSafe DEF SocialLogin, OfferLink, CheckPortalLink
<1>3. ASSUME NEW r \in Requests, NEW s \in Sessions,
             \/ StartLink(r, s) \/ CountLinks(r, s)
             \/ ComparePassword(r, s) \/ SetUpMfa(r, s) \/ ReadFactor(r, s)
      PROVE  LinksAreSafe
  BY <1>3, OtherStepsAreSafe DEF StartLink, CountLinks, ComparePassword, SetUpMfa, ReadFactor
<1>4. ASSUME NEW r \in Requests,
             \/ Prove(r) \/ InsertSession(r) \/ CheckTokenLink(r)
             \/ BeginChange(r) \/ CommitPassword(r)
             \/ EnableMfa(r) \/ DisableMfa(r) \/ Fail(r)
      PROVE  LinksAreSafe
  BY <1>4, OtherStepsAreSafe
     DEF Prove, InsertSession, CheckTokenLink, BeginChange, CommitPassword, EnableMfa, DisableMfa, Fail
<1>5. ASSUME NEW r \in Requests, InsertPortalLink(r) \/ InsertTokenLink(r) PROVE LinksAreSafe
  BY <1>5, PortalLinkIsSafe, TokenLinkIsSafe
<1>6. ASSUME NEW r \in Requests, NEW p \in Providers, Unlink(r, p) PROVE LinksAreSafe
  BY <1>6, UnlinkIsSafe
<1>7. ASSUME NEW r \in Requests, NEW x \in Subjects, SocialSignUp(r, x) PROVE LinksAreSafe
  BY <1>7, SignUpIsSafe
<1>8. ASSUME NEW s \in Sessions, EndSession(s) PROVE LinksAreSafe
  BY <1>8, OtherStepsAreSafe DEF EndSession
<1>9. ASSUME NEW u \in Users, CreateUser(u) PROVE LinksAreSafe
  BY <1>9, OtherStepsAreSafe DEF CreateUser
<1>10. ASSUME NEW u \in Users, DeleteUser(u) PROVE LinksAreSafe
  BY <1>10, DeleteIsSafe
<1> QED
  BY <1>1, <1>2, <1>3, <1>4, <1>5, <1>6, <1>7, <1>8, <1>9, <1>10 DEF Next

\* A link never passes to another user, a second account of a provider is linked only
\* by overlapping links from the portal, and the last way in goes only by overlapping
\* unlinks, or one unlink of two accounts of a provider (auth/portal.ts).
THEOREM SocialLinksAreSafeAlways == Spec => SocialLinksAreSafe
<1>1. AccountInv /\ [Next]_vars => [MethodRemains /\ LinksAreUnique]_vars
  BY NextIsSafe DEF LinksAreSafe
<1> QED BY <1>1, AccountInvariant, PTL DEF Spec, SocialLinksAreSafe
=============================================================================
