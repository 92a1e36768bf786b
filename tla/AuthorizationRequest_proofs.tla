---------------------- MODULE AuthorizationRequest_proofs ----------------------
(***************************************************************************)
(* Proofs about AuthorizationRequest, for every number of handlers, rows,  *)
(* users and scopes, every set of parameters and both settings of          *)
(* require_consent.                                                        *)
(***************************************************************************)
EXTENDS AuthorizationRequest, TLAPS

\* The initial state satisfies the inductive invariant.
LEMMA InitRequestInv == Init => RequestInv
<1> SUFFICES ASSUME Init PROVE RequestInv
  OBVIOUS
<1>1. TypeOK
  <2>1. pushed \in [Pushes -> PushedRow] /\ pending \in [Requests -> PendingRow]
    BY DEF Init, PushedRow, PendingRow
  <2>2. hand \in [Handlers -> Handler]
    BY DEF Init, Handler, Idle, Steps
  <2>3. log \in Log
    BY DEF Init, Log
  <2> QED BY <2>1, <2>2, <2>3 DEF Init, TypeOK
<1>2. HandlersAreGrounded /\ OpeningsAreExclusive
  BY DEF Init, HandlersAreGrounded, Grounded, OpeningsAreExclusive, Idle
<1>3. RowsAreGrounded /\ PushedRequestsOpenOnce
  BY DEF Init, RowsAreGrounded, RowGrounded, PushedRequestsOpenOnce
<1>4. RecordsAreGrounded /\ CodesAreGrounded
  BY DEF Init, RecordsAreGrounded, CodesAreGrounded
<1> QED
  BY <1>1, <1>2, <1>3, <1>4 DEF RequestInv

-----------------------------------------------------------------------------
(* What every step leaves: what users did is not undone, and a stored row  *)
(* answers the request it was opened for.                                  *)

LogGrows ==
    /\ log.proven \subseteq log'.proven
    /\ log.logins \subseteq log'.logins
    /\ log.approved \subseteq log'.approved
    /\ \A u \in Users : log.given[u] \subseteq log'.given[u]

RowsKeepTheirRequest ==
    \A q \in Requests : /\ pending'[q].params = pending[q].params
                        /\ pending'[q].push = pending[q].push
                        /\ Stored(q) => Stored(q)'

\* A login and a consent stay good for the row they were given for.
LEMMA AnswersStay ==
    ASSUME LogGrows, NEW q, pending'[q].params = pending[q].params, NEW u \in Users
    PROVE  /\ Authenticated(q, u) => Authenticated(q, u)'
           /\ Agreed(q, u) => Agreed(q, u)'
  BY DEF LogGrows, Authenticated, Agreed, FreshPrompts

\* A step of one handler that opens no row keeps the invariant, provided that what
\* it adds to the rows, the codes and the records is grounded.
LEMMA HandlerKeepsInv ==
    ASSUME RequestInv, TypeOK', LogGrows, RowsKeepTheirRequest, UNCHANGED pushed,
           NEW h \in Handlers, \A i \in Handlers \ {h} : hand'[i] = hand[i],
           Grounded(h)', hand'[h].step # "opening",
           \A q \in Requests : pending'[q].user # None =>
             pending'[q].user = pending[q].user \/ Authenticated(q, pending[q].user)',
           \A q \in Requests : pending'[q].status = "awaiting_consent" =>
             pending[q].status = "awaiting_consent" \/ pending[q].params.prompt # "none",
           \A q \in shown' \ shown : Stored(q) /\ pending[q].params.prompt # "none",
           \A c \in codes' \ codes :
             Stored(c.request)' /\ Authenticated(c.request, c.user)' /\ Agreed(c.request, c.user)',
           RecordsAreGrounded'
    PROVE  RequestInv'
<1> USE DEF RequestInv
<1>1. HandlersAreGrounded'
  <2> SUFFICES ASSUME NEW i \in Handlers, i # h PROVE Grounded(i)'
    BY DEF HandlersAreGrounded
  <2>1. Grounded(i) /\ hand'[i] = hand[i] /\ hand[i] \in Handler
    BY DEF HandlersAreGrounded, TypeOK
  <2>2. PICK x \in Handler : hand[i] = x /\ hand'[i] = x
    BY <2>1
  <2>3. CASE x.step = "opening"
    BY <2>1, <2>2, <2>3 DEF Grounded, RowsKeepTheirRequest
  <2>4. CASE x.step = "idle"
    BY <2>2, <2>4 DEF Grounded
  <2>5. CASE x.step \notin {"idle", "opening"}
    <3>1. /\ x.request \in Requests /\ Stored(x.request)'
          /\ pending'[x.request].params = pending[x.request].params
      BY <2>1, <2>2, <2>5 DEF Grounded, RowsKeepTheirRequest
    <3>2. \A u \in Users : /\ Authenticated(x.request, u) => Authenticated(x.request, u)'
                           /\ Agreed(x.request, u) => Agreed(x.request, u)'
      BY <3>1, AnswersStay
    <3>3. x.user # None => x.user \in Users
      BY DEF Handler
    <3>4. x.step = "issuing" => x.user \in Users
      BY <2>1, <2>2 DEF Grounded
    <3> QED BY <2>1, <2>2, <2>5, <3>1, <3>2, <3>3, <3>4 DEF Grounded
  <2> QED BY <2>3, <2>4, <2>5
<1>2. OpeningsAreExclusive'
  BY DEF OpeningsAreExclusive
<1>3. RowsAreGrounded'
  <2> SUFFICES ASSUME NEW q \in Requests PROVE RowGrounded(q)'
    BY DEF RowsAreGrounded
  <2>1. RowGrounded(q)
    BY DEF RowsAreGrounded
  <2>2. /\ pending'[q].params = pending[q].params /\ pending'[q].push = pending[q].push
        /\ Stored(q) => Stored(q)'
    BY DEF RowsKeepTheirRequest
  <2>3. PICK u \in Users \cup {None} : pending'[q].user = u
    BY DEF TypeOK, PendingRow
  <2>4. u # None => Authenticated(q, u)'
    <3>1. CASE u = pending[q].user
      BY <2>1, <2>2, <3>1, AnswersStay DEF RowGrounded
    <3>2. CASE u # pending[q].user
      BY <2>3, <3>2 DEF Authenticated
    <3> QED BY <3>1, <3>2
  <2> QED BY <2>1, <2>2, <2>3, <2>4 DEF RowGrounded
<1>4. PushedRequestsOpenOnce'
  BY DEF PushedRequestsOpenOnce, RowsKeepTheirRequest
<1>5. CodesAreGrounded'
  <2> SUFFICES ASSUME NEW c \in codes
               PROVE  /\ Stored(c.request)'
                      /\ Authenticated(c.request, c.user)' /\ Agreed(c.request, c.user)'
    BY DEF CodesAreGrounded
  <2>1. c.request \in Requests /\ c.user \in Users
    BY DEF TypeOK, CodeRow
  <2> QED BY <2>1, AnswersStay DEF CodesAreGrounded, RowsKeepTheirRequest
<1> QED
  BY <1>1, <1>2, <1>3, <1>4, <1>5

\* A handler that only moves on keeps the invariant, if what it goes on with is
\* grounded, and if what it shows a user is a stored row that may be shown.
LEMMA MoveKeepsInv ==
    ASSUME RequestInv, NEW h \in Handlers, NEW x \in Handler, hand' = [hand EXCEPT ![h] = x],
           UNCHANGED <<pushed, pending, consent, signedIn, codes, log>>,
           shown' \subseteq Requests,
           \A q \in shown' \ shown : Stored(q) /\ pending[q].params.prompt # "none",
           Grounded(h)', x.step # "opening"
    PROVE  RequestInv'
<1> USE DEF RequestInv
<1>1. /\ hand'[h] = x
      /\ \A i \in Handlers \ {h} : hand'[i] = hand[i]
      /\ hand' \in [Handlers -> Handler]
  BY DEF TypeOK
<1>2. TypeOK'
  BY <1>1 DEF TypeOK
<1>3. LogGrows /\ RowsKeepTheirRequest /\ RecordsAreGrounded'
  BY DEF LogGrows, RowsKeepTheirRequest, Stored, RecordsAreGrounded
<1>4. \A q \in Requests : pending'[q].user # None => pending'[q].user = pending[q].user
  OBVIOUS
<1> QED
  BY <1>1, <1>2, <1>3, <1>4, HandlerKeepsInv

\* A handler that writes the status and the user of its row and ends keeps the
\* invariant, if that user is the one it named or one who logged in.
LEMMA WriteKeepsInv ==
    ASSUME RequestInv, NEW h \in Handlers, hand[h].step \notin {"idle", "opening"},
           NEW s \in {"awaiting_consent", "completed", "denied"}, NEW u \in Users \cup {None},
           pending' = [pending EXCEPT ![hand[h].request] =
                         [pending[hand[h].request] EXCEPT !.status = s, !.user = u]],
           u # None => u = pending[hand[h].request].user \/ Authenticated(hand[h].request, u),
           s = "awaiting_consent" => ParamsOf(h).prompt # "none",
           Finish(h), UNCHANGED <<pushed, consent, signedIn>>,
           \A v \in Users : log'.given[v] = log.given[v],
           log'.approved = log.approved, log'.logins = log.logins, log'.proven = log.proven,
           log' \in Log,
           shown' \subseteq shown \cup {hand[h].request}, shown' # shown => s = "awaiting_consent",
           codes' \subseteq CodeRow,
           \A c \in codes' \ codes :
             /\ c.request = hand[h].request
             /\ Authenticated(c.request, c.user) /\ Agreed(c.request, c.user)
    PROVE  RequestInv'
<1> USE DEF RequestInv
<1>1. PICK q \in Requests : q = hand[h].request /\ Stored(q)
  BY DEF HandlersAreGrounded, Grounded
<1>2. PICK row \in PendingRow :
        /\ row = [pending[q] EXCEPT !.status = s, !.user = u]
        /\ row.status = s /\ row.user = u
        /\ row.params = pending[q].params /\ row.push = pending[q].push
  <2> DEFINE w == [pending[q] EXCEPT !.status = s, !.user = u]
  <2>1. pending[q] \in PendingRow
    BY <1>1 DEF TypeOK
  <2>2. w.status = s /\ w.user = u /\ w.params = pending[q].params /\ w.push = pending[q].push
    BY <2>1 DEF PendingRow
  <2>3. w \in PendingRow
    BY <2>1 DEF PendingRow
  <2> HIDE DEF w
  <2> QED BY <2>2, <2>3 DEF w
<1>3. /\ pending'[q] = row
      /\ \A r \in Requests \ {q} : pending'[r] = pending[r]
      /\ pending' \in [Requests -> PendingRow]
  BY <1>1, <1>2 DEF TypeOK
<1>4. /\ hand'[h] = Idle
      /\ \A i \in Handlers \ {h} : hand'[i] = hand[i]
      /\ hand' \in [Handlers -> Handler]
  BY DEF Finish, TypeOK, Handler, Idle, Steps
<1>5. TypeOK'
  BY <1>1, <1>3, <1>4 DEF TypeOK
<1>6. LogGrows
  BY DEF LogGrows
<1>7. RowsKeepTheirRequest
  BY <1>2, <1>3 DEF RowsKeepTheirRequest, Stored
<1>8. RecordsAreGrounded'
  BY DEF RecordsAreGrounded
<1>9. Grounded(h)' /\ hand'[h].step # "opening"
  BY <1>4 DEF Grounded, Idle
<1>10. \A r \in Requests : pending'[r].user # None =>
         pending'[r].user = pending[r].user \/ Authenticated(r, pending[r].user)'
  <2>1. u # None => u = pending[q].user \/ Authenticated(q, u)'
    BY <1>1, <1>2, <1>3, <1>6, AnswersStay
  <2> QED BY <1>2, <1>3, <2>1 DEF Authenticated
<1>11. \A r \in Requests : pending'[r].status = "awaiting_consent" =>
         pending[r].status = "awaiting_consent" \/ pending[r].params.prompt # "none"
  BY <1>1, <1>2, <1>3 DEF ParamsOf
<1>12. \A r \in shown' \ shown : Stored(r) /\ pending[r].params.prompt # "none"
  BY <1>1 DEF ParamsOf
<1>13. \A c \in codes' \ codes :
         Stored(c.request)' /\ Authenticated(c.request, c.user)' /\ Agreed(c.request, c.user)'
  <2> SUFFICES ASSUME NEW c \in codes' \ codes
               PROVE  /\ Stored(c.request)' /\ Authenticated(c.request, c.user)'
                      /\ Agreed(c.request, c.user)'
    OBVIOUS
  <2>1. c.request = q /\ c.user \in Users /\ Authenticated(q, c.user) /\ Agreed(q, c.user)
    BY <1>1 DEF CodeRow
  <2>2. pending'[q].params = pending[q].params /\ Stored(q)'
    BY <1>1, <1>7 DEF RowsKeepTheirRequest
  <2> QED BY <1>6, <2>1, <2>2, AnswersStay
<1> QED
  BY <1>4, <1>5, <1>6, <1>7, <1>8, <1>9, <1>10, <1>11, <1>12, <1>13, HandlerKeepsInv

-----------------------------------------------------------------------------
(* Opening a request.                                                      *)

\* A row opened for a request nobody answers yet: what follows from the session
\* does so from a login, and a pushed request opens no second row.
LEMMA OpenKeepsInv ==
    ASSUME RequestInv, NEW h \in Handlers, NEW q \in Requests, NEW p \in Pushes \cup {None},
           NEW params \in Parameters \cup {NoParameter}, Open(h, q, p, params),
           p # None => hand[h].step = "opening" /\ p = hand[h].push
    PROVE  RequestInv'
<1> USE DEF RequestInv
<1>1. ~Stored(q)
  BY DEF Open, Stored
<1>2. PICK u \in SessionUsers(params) :
        /\ pending' = [pending EXCEPT ![q] = [status |-> "pending", user |-> None,
                                              push |-> p, params |-> params]]
        /\ hand' = [hand EXCEPT ![h] = [step |-> "deciding", request |-> q,
                                        push |-> None, user |-> u]]
  BY DEF Open
<1>3. UNCHANGED <<pushed, consent, signedIn, codes, shown, log>>
  BY DEF Open
<1>4. PICK row \in PendingRow :
        /\ row = [status |-> "pending", user |-> None, push |-> p, params |-> params]
        /\ row.status = "pending" /\ row.user = None /\ row.push = p /\ row.params = params
  <2> DEFINE w == [status |-> "pending", user |-> None, push |-> p, params |-> params]
  <2>1. w \in PendingRow /\ w.status = "pending" /\ w.user = None /\ w.push = p /\ w.params = params
    BY DEF PendingRow
  <2> HIDE DEF w
  <2> QED BY <2>1 DEF w
<1>5. /\ pending'[q] = row
      /\ \A r \in Requests \ {q} : pending'[r] = pending[r]
      /\ pending' \in [Requests -> PendingRow]
  BY <1>2, <1>4 DEF TypeOK
<1>6. u \in Users \cup {None}
  BY DEF SessionUsers, TypeOK
<1>7. PICK x \in Handler :
        /\ x = [step |-> "deciding", request |-> q, push |-> None, user |-> u]
        /\ x.step = "deciding" /\ x.request = q /\ x.user = u
  <2> DEFINE w == [step |-> "deciding", request |-> q, push |-> None, user |-> u]
  <2>1. w \in Handler /\ w.step = "deciding" /\ w.request = q /\ w.user = u
    BY <1>6 DEF Handler, Steps
  <2> HIDE DEF w
  <2> QED BY <2>1 DEF w
<1>8. /\ hand'[h] = x
      /\ \A i \in Handlers \ {h} : hand'[i] = hand[i]
      /\ hand' \in [Handlers -> Handler]
  BY <1>2, <1>7 DEF TypeOK
<1>9. TypeOK'
  BY <1>3, <1>5, <1>8 DEF TypeOK
<1>10. \A r \in Requests \ {q} : \A v :
         /\ Stored(r)' <=> Stored(r)
         /\ Authenticated(r, v)' <=> Authenticated(r, v)
         /\ Agreed(r, v)' <=> Agreed(r, v)
  BY <1>3, <1>5 DEF Stored, Authenticated, Agreed
<1>11. Grounded(h)'
  <2>1. Stored(q)'
    BY <1>4, <1>5 DEF Stored
  <2>2. u # None => u \in signedIn /\ params.prompt \notin FreshPrompts
    BY DEF SessionUsers, FreshPrompts
  <2>3. u # None => Authenticated(q, u)'
    BY <1>3, <1>4, <1>5, <2>2 DEF Authenticated, RecordsAreGrounded
  <2> QED BY <1>7, <1>8, <2>1, <2>3 DEF Grounded
<1>12. HandlersAreGrounded'
  <2> SUFFICES ASSUME NEW i \in Handlers, i # h PROVE Grounded(i)'
    BY <1>11 DEF HandlersAreGrounded
  <2>1. PICK y \in Handler : hand[i] = y /\ hand'[i] = y
    BY <1>8 DEF TypeOK
  <2>2. Grounded(i)
    BY DEF HandlersAreGrounded
  <2>3. CASE y.step = "opening"
    <3>1. y.push \in Pushes /\ pushed[y.push].status = "consumed"
          /\ \A r \in Requests : pending[r].push # y.push
      BY <2>1, <2>2, <2>3 DEF Grounded
    <3>2. p # y.push
      BY <2>1, <2>3, <3>1, NoneIsNobody DEF OpeningsAreExclusive
    <3>3. \A r \in Requests : pending'[r].push # y.push
      BY <1>4, <1>5, <3>1, <3>2
    <3> QED BY <1>3, <2>1, <2>3, <3>1, <3>3 DEF Grounded
  <2>4. CASE y.step = "idle"
    BY <2>1, <2>4 DEF Grounded
  <2>5. CASE y.step \notin {"idle", "opening"}
    <3>1. y.request \in Requests \ {q}
      BY <1>1, <2>1, <2>2, <2>5 DEF Grounded
    <3> QED BY <1>5, <1>10, <2>1, <2>2, <2>5, <3>1 DEF Grounded
  <2> QED BY <2>3, <2>4, <2>5
<1>13. OpeningsAreExclusive'
  BY <1>7, <1>8 DEF OpeningsAreExclusive
<1>14. p # None => /\ pushed[p].status = "consumed"
                   /\ \A r \in Requests : pending[r].push # p
  BY DEF HandlersAreGrounded, Grounded
<1>15. RowsAreGrounded'
  <2> SUFFICES ASSUME NEW r \in Requests PROVE RowGrounded(r)'
    BY DEF RowsAreGrounded
  <2>1. RowGrounded(r)
    BY DEF RowsAreGrounded
  <2>2. CASE r = q
    <3>1. q \notin shown
      BY <1>1, <2>1, <2>2 DEF RowGrounded
    <3> QED BY <1>3, <1>4, <1>5, <1>14, <2>2, <3>1 DEF RowGrounded
  <2>3. CASE r # q
    BY <1>3, <1>5, <1>10, <2>1, <2>3 DEF RowGrounded
  <2> QED BY <2>2, <2>3
<1>16. PushedRequestsOpenOnce'
  BY <1>4, <1>5, <1>14 DEF PushedRequestsOpenOnce
<1>17. RecordsAreGrounded'
  BY <1>3 DEF RecordsAreGrounded
<1>18. CodesAreGrounded'
  <2> SUFFICES ASSUME NEW c \in codes
               PROVE  /\ Stored(c.request)'
                      /\ Authenticated(c.request, c.user)' /\ Agreed(c.request, c.user)'
    BY <1>3 DEF CodesAreGrounded
  <2>1. /\ Stored(c.request) /\ Authenticated(c.request, c.user) /\ Agreed(c.request, c.user)
        /\ c.request \in Requests
    BY DEF CodesAreGrounded, TypeOK, CodeRow
  <2> QED BY <1>1, <1>10, <2>1
<1> QED
  BY <1>9, <1>12, <1>13, <1>15, <1>16, <1>17, <1>18

\* Marking a pushed request consumed puts it in this handler's hands alone.
LEMMA ResolveKeepsInv ==
    ASSUME RequestInv, NEW h \in Handlers, NEW p \in Pushes, ResolvePushed(h, p)
    PROVE  RequestInv'
<1> USE DEF RequestInv
<1>1. PICK x \in Handler :
        /\ x = [Idle EXCEPT !.step = "opening", !.push = p]
        /\ x.step = "opening" /\ x.push = p
  <2> DEFINE w == [Idle EXCEPT !.step = "opening", !.push = p]
  <2>1. w \in Handler /\ w.step = "opening" /\ w.push = p
    BY DEF Idle, Handler, Steps
  <2> HIDE DEF w
  <2> QED BY <2>1 DEF w
<1>2. /\ pushed[p].status = "stored"
      /\ pushed' = [pushed EXCEPT ![p].status = "consumed"]
      /\ hand' = [hand EXCEPT ![h] = x]
      /\ UNCHANGED <<pending, consent, signedIn, codes, shown, log>>
  BY <1>1 DEF ResolvePushed
<1>3. /\ pushed' \in [Pushes -> PushedRow]
      /\ pushed'[p].status = "consumed"
      /\ \A t \in Pushes \ {p} : pushed'[t] = pushed[t]
  BY <1>2 DEF TypeOK, PushedRow
<1>4. /\ hand'[h] = x
      /\ \A i \in Handlers \ {h} : hand'[i] = hand[i]
      /\ hand' \in [Handlers -> Handler]
  BY <1>2 DEF TypeOK
<1>5. TypeOK'
  BY <1>2, <1>3, <1>4 DEF TypeOK
<1>6. \A q \in Requests : pending[q].push # None => pending[q].push \in Pushes \ {p}
  BY <1>2 DEF RowsAreGrounded, RowGrounded, TypeOK, PendingRow
<1>7. \A i \in Handlers : hand[i].step = "opening" => hand[i].push \in Pushes \ {p}
  BY <1>2 DEF HandlersAreGrounded, Grounded
<1>8. \A q : \A v : /\ Stored(q)' <=> Stored(q)
                    /\ Authenticated(q, v)' <=> Authenticated(q, v)
                    /\ Agreed(q, v)' <=> Agreed(q, v)
  BY <1>2 DEF Stored, Authenticated, Agreed
<1>9. HandlersAreGrounded'
  <2> SUFFICES ASSUME NEW i \in Handlers PROVE Grounded(i)'
    BY DEF HandlersAreGrounded
  <2>1. CASE i = h
    <3>1. \A q \in Requests : pending'[q].push # p
      BY <1>2, <1>6, NoneIsNobody
    <3> QED BY <1>1, <1>3, <1>4, <2>1, <3>1 DEF Grounded
  <2>2. CASE i # h
    <3>1. PICK y \in Handler : hand[i] = y /\ hand'[i] = y
      BY <1>4, <2>2 DEF TypeOK
    <3>2. Grounded(i) /\ pending' = pending
      BY <1>2 DEF HandlersAreGrounded
    <3>3. CASE y.step = "opening"
      <4>1. y.push \in Pushes \ {p} /\ pushed'[y.push].status = "consumed"
        BY <1>3, <1>7, <3>1, <3>2, <3>3 DEF Grounded
      <4> QED BY <3>1, <3>2, <3>3, <4>1 DEF Grounded
    <3>4. CASE y.step # "opening"
      BY <1>8, <3>1, <3>2, <3>4 DEF Grounded
    <3> QED BY <3>3, <3>4
  <2> QED BY <2>1, <2>2
<1>10. OpeningsAreExclusive'
  BY <1>1, <1>4, <1>7 DEF OpeningsAreExclusive
<1>11. RowsAreGrounded' /\ PushedRequestsOpenOnce'
  <2>1. PushedRequestsOpenOnce'
    BY <1>2 DEF PushedRequestsOpenOnce
  <2>2. ASSUME NEW q \in Requests PROVE RowGrounded(q)'
    <3>1. RowGrounded(q) /\ UNCHANGED <<pending, shown>>
      BY <1>2 DEF RowsAreGrounded
    <3>2. pending'[q].push # None => pushed'[pending'[q].push].status = "consumed"
      BY <1>3, <1>6, <3>1 DEF RowGrounded
    <3> QED BY <1>8, <3>1, <3>2 DEF RowGrounded
  <2> QED BY <2>1, <2>2 DEF RowsAreGrounded
<1>12. RecordsAreGrounded' /\ CodesAreGrounded'
  BY <1>2, <1>8 DEF RecordsAreGrounded, CodesAreGrounded
<1> QED
  BY <1>5, <1>9, <1>10, <1>11, <1>12

\* A pushed request being stored was nobody's, and a session that ends takes no
\* login back.
LEMMA PushKeepsInv ==
    ASSUME RequestInv, NEW p \in Pushes, NEW params \in Parameters, Push(p, params)
    PROVE  RequestInv'
<1> USE DEF RequestInv
<1>1. /\ pushed' \in [Pushes -> PushedRow]
      /\ \A t \in Pushes : pushed[t].status = "consumed" => pushed'[t].status = "consumed"
      /\ UNCHANGED <<pending, consent, signedIn, codes, hand, shown, log>>
  BY DEF Push, TypeOK, PushedRow
<1>2. TypeOK'
  BY <1>1 DEF TypeOK
<1>3. HandlersAreGrounded' /\ OpeningsAreExclusive'
  BY <1>1 DEF HandlersAreGrounded, Grounded, OpeningsAreExclusive, Stored, Authenticated, Agreed
<1>4. RowsAreGrounded' /\ PushedRequestsOpenOnce'
  <2>1. \A q \in Requests : pending[q].push # None => pending[q].push \in Pushes
    BY DEF TypeOK, PendingRow
  <2> QED BY <1>1, <2>1 DEF RowsAreGrounded, RowGrounded, PushedRequestsOpenOnce, Stored,
                            Authenticated
<1>5. RecordsAreGrounded' /\ CodesAreGrounded'
  BY <1>1 DEF RecordsAreGrounded, CodesAreGrounded, Stored, Authenticated, Agreed
<1> QED
  BY <1>2, <1>3, <1>4, <1>5

\* A session that ends, like a step that changes nothing, takes no login back.
LEMMA EndSessionKeepsInv ==
    ASSUME RequestInv, signedIn' \subseteq signedIn,
           UNCHANGED <<pushed, pending, consent, codes, hand, shown, log>>
    PROVE  RequestInv'
<1> USE DEF RequestInv
<1>1. TypeOK'
  BY DEF TypeOK
<1>2. HandlersAreGrounded' /\ OpeningsAreExclusive'
  BY DEF HandlersAreGrounded, Grounded, OpeningsAreExclusive, Stored, Authenticated, Agreed
<1>3. RowsAreGrounded' /\ PushedRequestsOpenOnce'
  BY DEF RowsAreGrounded, RowGrounded, PushedRequestsOpenOnce, Stored, Authenticated
<1>4. RecordsAreGrounded' /\ CodesAreGrounded'
  BY DEF RecordsAreGrounded, CodesAreGrounded, Stored, Authenticated, Agreed
<1> QED
  BY <1>1, <1>2, <1>3, <1>4

-----------------------------------------------------------------------------
(* The steps of a handler on a stored row.                                 *)

\* A handler that ends has nothing to answer for.
LEMMA FinishKeepsInv ==
    ASSUME RequestInv, NEW h \in Handlers, Finish(h),
           UNCHANGED <<pushed, pending, consent, signedIn, codes, log>>,
           shown' \subseteq Requests,
           \A q \in shown' \ shown : Stored(q) /\ pending[q].params.prompt # "none"
    PROVE  RequestInv'
<1>1. Idle \in Handler /\ Idle.step = "idle"
  BY DEF Idle, Handler, Steps
<1>2. hand' = [hand EXCEPT ![h] = Idle] /\ hand'[h] = Idle
  BY DEF Finish, RequestInv, TypeOK
<1>3. Grounded(h)'
  BY <1>1, <1>2 DEF Grounded
<1> QED
  BY <1>1, <1>2, <1>3, MoveKeepsInv

\* Going on to the consent page or to the code, with the same request and user.
LEMMA GotoKeepsInv ==
    ASSUME RequestInv, NEW h \in Handlers, NEW s \in {"asking", "asking_again", "issuing"},
           Goto(h, s), UNCHANGED <<pushed, pending, consent, signedIn, codes, shown, log>>,
           hand[h].step \in {"deciding", "signed_in"}, hand[h].user # None,
           s = "issuing" => Agreed(hand[h].request, hand[h].user),
           s # "issuing" => ParamsOf(h).prompt # "none"
    PROVE  RequestInv'
<1> USE DEF RequestInv
<1>1. PICK x \in Handler :
        /\ hand' = [hand EXCEPT ![h] = x] /\ hand'[h] = x
        /\ x.step = s /\ x.request = hand[h].request /\ x.user = hand[h].user
  <2> DEFINE w == [hand[h] EXCEPT !.step = s]
  <2>1. w \in Handler /\ w.step = s /\ w.request = hand[h].request /\ w.user = hand[h].user
    BY DEF TypeOK, Handler, Steps
  <2>2. hand' = [hand EXCEPT ![h] = w]
    BY DEF Goto
  <2> HIDE DEF w
  <2> QED BY <2>1, <2>2 DEF TypeOK
<1>2. PICK q \in Requests : q = hand[h].request /\ Stored(q)
  BY DEF HandlersAreGrounded, Grounded
<1>3. PICK u \in Users : u = hand[h].user /\ Authenticated(q, u)
  BY <1>2 DEF HandlersAreGrounded, Grounded, TypeOK, Handler
<1>4. Stored(q)' /\ Authenticated(q, u)'
  BY <1>2, <1>3 DEF Stored, Authenticated
<1>5. s = "issuing" => Agreed(q, u)'
  BY <1>2, <1>3 DEF Agreed
<1>6. s # "issuing" => pending'[q].params.prompt # "none"
  BY <1>2 DEF ParamsOf
<1>7. Grounded(h)'
  BY <1>1, <1>2, <1>3, <1>4, <1>5, <1>6 DEF Grounded
<1> QED
  BY <1>1, <1>7, MoveKeepsInv DEF TypeOK

\* A handler that loads a row that was put before a user.
LEMMA LoadKeepsInv ==
    ASSUME RequestInv, NEW h \in Handlers, NEW q \in Requests, Loadable(q), NEW x \in Handler,
           x.step \in {"authenticating", "denying", "approving"}, x.request = q,
           x.user # None => x.user = pending[q].user, x.step = "approving" => x.user # None,
           hand' = [hand EXCEPT ![h] = x],
           UNCHANGED <<pushed, pending, consent, signedIn, codes, shown, log>>
    PROVE  RequestInv'
<1> USE DEF RequestInv
<1>1. hand'[h] = x /\ x.user \in Users \cup {None}
  BY DEF TypeOK, Handler
<1>2. RowGrounded(q) /\ q \in shown
  BY DEF RowsAreGrounded, Loadable
<1>3. Stored(q)' /\ pending'[q].params.prompt # "none"
  BY <1>2 DEF RowGrounded, Stored
<1>4. x.user # None => Authenticated(q, x.user)'
  BY <1>2 DEF RowGrounded, Authenticated
<1>5. Grounded(h)'
  BY <1>1, <1>3, <1>4 DEF Grounded
<1> QED
  BY <1>1, <1>5, MoveKeepsInv DEF TypeOK

\* The row and the session of a login name the user who logged in.
LEMMA SignInKeepsInv ==
    ASSUME RequestInv, NEW h \in Handlers, NEW u \in Users, SignIn(h, u)
    PROVE  RequestInv'
<1> USE DEF RequestInv
<1>1. PICK q \in Requests : q = hand[h].request /\ Stored(q) /\ pending[q].params.prompt # "none"
  BY DEF SignIn, HandlersAreGrounded, Grounded
<1>2. PICK row \in PendingRow :
        /\ row.status = pending[q].status /\ row.user = u
        /\ row.params = pending[q].params /\ row.push = pending[q].push
        /\ pending' = [pending EXCEPT ![q] = row]
  <2> DEFINE w == [pending[q] EXCEPT !.user = u]
  <2>1. /\ w \in PendingRow /\ w.user = u /\ w.status = pending[q].status
        /\ w.params = pending[q].params /\ w.push = pending[q].push
    BY DEF TypeOK, PendingRow
  <2>2. pending' = [pending EXCEPT ![q] = w]
    BY <1>1 DEF SignIn
  <2> HIDE DEF w
  <2> QED BY <2>1, <2>2
<1>3. PICK x \in Handler :
        /\ hand' = [hand EXCEPT ![h] = x]
        /\ x.step = "signed_in" /\ x.request = q /\ x.user = u
  <2> DEFINE w == [hand[h] EXCEPT !.step = "signed_in", !.user = u]
  <2>1. w \in Handler /\ w.step = "signed_in" /\ w.request = q /\ w.user = u
    BY <1>1 DEF TypeOK, Handler, Steps
  <2>2. hand' = [hand EXCEPT ![h] = w]
    BY DEF SignIn
  <2> HIDE DEF w
  <2> QED BY <2>1, <2>2
<1>4. /\ pending'[q] = row
      /\ \A r \in Requests \ {q} : pending'[r] = pending[r]
      /\ pending' \in [Requests -> PendingRow]
  BY <1>2 DEF TypeOK
<1>5. /\ hand'[h] = x
      /\ \A i \in Handlers \ {h} : hand'[i] = hand[i]
      /\ hand' \in [Handlers -> Handler]
  BY <1>3 DEF TypeOK
<1>6. /\ log'.proven = log.proven \cup {u} /\ log'.logins = log.logins \cup {<<q, u>>}
      /\ log'.given = log.given /\ log'.approved = log.approved
      /\ log' \in Log
  <2> DEFINE p == log.proven \cup {u}
             l == log.logins \cup {<<q, u>>}
  <2>1. log \in Log /\ log' = [log EXCEPT !.proven = p, !.logins = l]
    BY <1>1 DEF SignIn, TypeOK
  <2>2. p \in SUBSET Users /\ l \in SUBSET (Requests \X Users)
    BY <2>1 DEF Log
  <2> HIDE DEF p, l
  <2>3. log' \in Log
    BY <2>1, <2>2 DEF Log
  <2>4. log'.proven = p /\ log'.logins = l /\ log'.given = log.given /\ log'.approved = log.approved
    BY <2>1 DEF Log
  <2> QED BY <2>3, <2>4 DEF p, l
<1>7. signedIn' = signedIn \cup {u} /\ UNCHANGED <<pushed, consent, codes, shown>>
  BY DEF SignIn
<1>8. TypeOK'
  BY <1>4, <1>5, <1>6, <1>7 DEF TypeOK
<1>9. LogGrows
  BY <1>6 DEF LogGrows
<1>10. RowsKeepTheirRequest
  BY <1>2, <1>4 DEF RowsKeepTheirRequest, Stored
<1>11. Stored(q)' /\ Authenticated(q, u)'
  BY <1>1, <1>6, <1>10 DEF RowsKeepTheirRequest, Authenticated
<1>12. Grounded(h)' /\ hand'[h].step # "opening"
  <2>1. pending'[q].params.prompt # "none"
    BY <1>1, <1>2, <1>4
  <2> QED BY <1>3, <1>5, <1>11, <2>1 DEF Grounded
<1>13. \A r \in Requests : pending'[r].user # None =>
         pending'[r].user = pending[r].user \/ Authenticated(r, pending[r].user)'
  BY <1>2, <1>4, <1>11 DEF Authenticated
<1>14. \A r \in Requests : pending'[r].status = "awaiting_consent" =>
         pending[r].status = "awaiting_consent" \/ pending[r].params.prompt # "none"
  BY <1>1, <1>4
<1>15. RecordsAreGrounded'
  BY <1>6, <1>7 DEF RecordsAreGrounded
<1> QED
  BY <1>5, <1>7, <1>8, <1>9, <1>10, <1>12, <1>13, <1>14, <1>15, HandlerKeepsInv

\* The user who agreed gave the scopes the row asks for.
LEMMA ApproveKeepsInv ==
    ASSUME RequestInv, NEW h \in Handlers, Approve(h)
    PROVE  RequestInv'
<1> USE DEF RequestInv
<1>1. PICK q \in Requests : q = hand[h].request /\ Stored(q)
  BY DEF Approve, HandlersAreGrounded, Grounded
<1>2. PICK u \in Users : u = hand[h].user /\ Authenticated(q, u)
  BY <1>1, NoneIsNobody DEF Approve, HandlersAreGrounded, Grounded
<1>3. PICK new \in SUBSET Scopes : new = pending[q].params.scopes
  BY ParametersAreKnown DEF TypeOK, PendingRow, Parameter, NoParameter
<1>4. /\ consent' = [consent EXCEPT ![u] = new]
      /\ log' = [log EXCEPT !.given = [log.given EXCEPT ![u] = log.given[u] \cup new],
                            !.approved = log.approved \cup {<<q, u>>}]
      /\ Goto(h, "issuing")
      /\ UNCHANGED <<pushed, pending, signedIn, codes, shown>>
  BY <1>1, <1>2, <1>3 DEF Approve, ParamsOf
<1>5. /\ log'.proven = log.proven /\ log'.logins = log.logins
      /\ log'.given = [log.given EXCEPT ![u] = log.given[u] \cup new]
      /\ log'.approved = log.approved \cup {<<q, u>>}
      /\ log' \in Log
  <2> DEFINE g == [log.given EXCEPT ![u] = log.given[u] \cup new]
             a == log.approved \cup {<<q, u>>}
  <2>1. log \in Log /\ log' = [log EXCEPT !.given = g, !.approved = a]
    BY <1>4 DEF TypeOK
  <2>2. g \in [Users -> SUBSET Scopes] /\ a \in SUBSET (Requests \X Users)
    BY <2>1 DEF Log
  <2> HIDE DEF g, a
  <2>3. log' \in Log
    BY <2>1, <2>2 DEF Log
  <2>4. log'.proven = log.proven /\ log'.logins = log.logins /\ log'.given = g /\ log'.approved = a
    BY <2>1 DEF Log
  <2> QED BY <2>3, <2>4 DEF g, a
<1>6. PICK x \in Handler :
        /\ hand' = [hand EXCEPT ![h] = x]
        /\ x.step = "issuing" /\ x.request = q /\ x.user = u
  <2> DEFINE w == [hand[h] EXCEPT !.step = "issuing"]
  <2>1. w \in Handler /\ w.step = "issuing" /\ w.request = q /\ w.user = u
    BY <1>1, <1>2 DEF TypeOK, Handler, Steps
  <2>2. hand' = [hand EXCEPT ![h] = w]
    BY <1>4 DEF Goto
  <2> HIDE DEF w
  <2> QED BY <2>1, <2>2
<1>7. /\ hand'[h] = x
      /\ \A i \in Handlers \ {h} : hand'[i] = hand[i]
      /\ hand' \in [Handlers -> Handler]
  BY <1>6 DEF TypeOK
<1>8. log.given \in [Users -> SUBSET Scopes] /\ consent' \in [Users -> SUBSET Scopes]
  BY <1>4 DEF TypeOK, Log
<1>9. TypeOK'
  BY <1>4, <1>5, <1>7, <1>8 DEF TypeOK
<1>10. LogGrows
  BY <1>5, <1>8 DEF LogGrows
<1>11. RowsKeepTheirRequest
  BY <1>4 DEF RowsKeepTheirRequest, Stored
<1>12. Stored(q)' /\ Authenticated(q, u)' /\ Agreed(q, u)'
  <2>1. Stored(q)' /\ Authenticated(q, u)'
    BY <1>1, <1>2, <1>4, <1>10, AnswersStay DEF Stored
  <2>2. pending'[q].params.scopes \subseteq log'.given[u] /\ <<q, u>> \in log'.approved
    BY <1>3, <1>4, <1>5, <1>8
  <2> QED BY <2>1, <2>2 DEF Agreed
<1>13. Grounded(h)' /\ hand'[h].step # "opening"
  BY <1>6, <1>7, <1>12 DEF Grounded
<1>14. RecordsAreGrounded'
  <2>1. \A v \in Users : consent'[v] \subseteq log'.given[v]
    BY <1>4, <1>5, <1>8 DEF RecordsAreGrounded, TypeOK
  <2> QED BY <1>4, <1>5, <2>1 DEF RecordsAreGrounded
<1>15. \A r \in Requests : pending'[r] = pending[r]
  BY <1>4
<1> QED
  BY <1>4, <1>7, <1>9, <1>10, <1>11, <1>13, <1>14, <1>15, HandlerKeepsInv

-----------------------------------------------------------------------------
\* Writing a status alone is writing it with the user the row names.
LEMMA StatusKeepsInv ==
    ASSUME RequestInv, NEW h \in Handlers, hand[h].step \notin {"idle", "opening"},
           NEW s \in {"awaiting_consent", "denied"},
           pending' = [pending EXCEPT ![hand[h].request].status = s],
           s = "awaiting_consent" => ParamsOf(h).prompt # "none",
           Finish(h), UNCHANGED <<pushed, consent, signedIn, codes, shown>>,
           \A v \in Users : log'.given[v] = log.given[v],
           log'.approved = log.approved, log'.logins = log.logins, log'.proven = log.proven,
           log' \in Log
    PROVE  RequestInv'
<1>1. PICK q \in Requests : q = hand[h].request
  BY DEF RequestInv, HandlersAreGrounded, Grounded
<1>2. pending[q] \in PendingRow /\ codes \subseteq CodeRow
  BY DEF RequestInv, TypeOK
<1>3. PICK u \in Users \cup {None} : u = pending[q].user
  BY <1>2 DEF PendingRow
<1>4. [pending[q] EXCEPT !.status = s] = [pending[q] EXCEPT !.status = s, !.user = u]
  BY <1>2, <1>3 DEF PendingRow
<1>5. pending' = [pending EXCEPT ![hand[h].request] =
                    [pending[hand[h].request] EXCEPT !.status = s, !.user = u]]
  BY <1>1, <1>4
<1> QED
  BY <1>1, <1>2, <1>3, <1>5, WriteKeepsInv

\* Every step of a handler keeps the inductive invariant.
LEMMA ServeKeepsInv ==
    ASSUME RequestInv, NEW h \in Handlers, Serve(h)
    PROVE  RequestInv'
<1> USE DEF RequestInv
<1>1. /\ Grounded(h) /\ log \in Log /\ codes \subseteq CodeRow /\ shown \subseteq Requests
      /\ hand[h] \in Handler
  BY DEF TypeOK, HandlersAreGrounded
<1>2. hand[h].step \notin {"idle", "opening"} =>
        hand[h].request \in Requests /\ Stored(hand[h].request)
  BY <1>1 DEF Grounded
<1>3. CASE \E p \in Pushes : ResolvePushed(h, p)
  BY <1>3, ResolveKeepsInv
<1>4. ASSUME NEW q \in Requests, OpenPushed(h, q) PROVE RequestInv'
  <2>1. PICK p \in Pushes : p = hand[h].push /\ hand[h].step = "opening"
    BY <1>1, <1>4 DEF OpenPushed, Grounded
  <2>2. pushed[p].params \in Parameters \cup {NoParameter}
    BY DEF TypeOK, PushedRow
  <2> QED BY <1>4, <2>1, <2>2, OpenKeepsInv DEF OpenPushed
<1>5. ASSUME NEW q \in Requests, NEW params \in Parameters, OpenPlain(h, q, params)
      PROVE  RequestInv'
  BY <1>5, OpenKeepsInv DEF OpenPlain
<1>6. CASE SendToLogin(h)
  <2>1. \A q \in shown' \ shown : Stored(q) /\ pending[q].params.prompt # "none"
    BY <1>2, <1>6 DEF SendToLogin, ParamsOf
  <2>2. shown' \subseteq Requests
    BY <1>1, <1>2, <1>6 DEF SendToLogin
  <2> QED BY <1>6, <2>1, <2>2, FinishKeepsInv DEF SendToLogin
<1>7. CASE AnswerSilently(h) \/ GiveUp(h)
  BY <1>1, <1>7, FinishKeepsInv DEF AnswerSilently, GiveUp
<1>8. CASE GoOnWithSession(h)
  <2>1. Agreed(hand[h].request, hand[h].user)
    BY <1>1, <1>8 DEF GoOnWithSession, NeedsNoConsent, Covers, ParamsOf, Agreed,
                      RecordsAreGrounded, Handler
  <2> QED BY <1>8, <2>1, GotoKeepsInv DEF GoOnWithSession, NeedsNoConsent
<1>9. CASE NeedConsent(h)
  BY <1>9, GotoKeepsInv DEF NeedConsent
<1>10. CASE ReadConsent(h)
  <2>1. hand[h].step = "signed_in" /\ hand[h].user \in Users /\ ParamsOf(h).prompt # "none"
    BY <1>1, <1>10 DEF ReadConsent, Grounded, ParamsOf
  <2>2. ~NeedsConsentAfterLogin(h) => Agreed(hand[h].request, hand[h].user)
    BY <2>1 DEF NeedsConsentAfterLogin, Covers, ParamsOf, Agreed, RecordsAreGrounded
  <2>3. CASE NeedsConsentAfterLogin(h)
    BY <1>10, <2>1, <2>3, NoneIsNobody, GotoKeepsInv DEF ReadConsent
  <2>4. CASE ~NeedsConsentAfterLogin(h)
    BY <1>10, <2>1, <2>2, <2>4, NoneIsNobody, GotoKeepsInv DEF ReadConsent
  <2> QED BY <2>3, <2>4
<1>11. CASE AskConsent(h)
  <2>1. PICK q \in Requests : q = hand[h].request /\ ParamsOf(h).prompt # "none"
    BY <1>1, <1>2, <1>11 DEF AskConsent, Grounded, ParamsOf
  <2>2. PICK u \in Users : u = hand[h].user /\ Authenticated(hand[h].request, u)
    BY <1>1, <1>11, NoneIsNobody DEF AskConsent, Grounded
  <2>3. pending' = [pending EXCEPT ![hand[h].request] =
                      [pending[hand[h].request] EXCEPT !.status = "awaiting_consent", !.user = u]]
    BY <1>11, <2>1, <2>2 DEF AskConsent, TypeOK
  <2> QED BY <1>1, <1>11, <2>1, <2>2, <2>3, WriteKeepsInv DEF AskConsent
<1>12. CASE \E q \in Requests : LoadForLogin(h, q)
  <2>1. PICK q \in Requests : LoadForLogin(h, q)
    BY <1>12
  <2> DEFINE x == [Idle EXCEPT !.step = "authenticating", !.request = q]
  <2>2. x \in Handler /\ x.step = "authenticating" /\ x.request = q /\ x.user = None
    BY DEF Idle, Handler, Steps
  <2>3. hand' = [hand EXCEPT ![h] = x]
    BY <2>1 DEF LoadForLogin
  <2> HIDE DEF x
  <2> QED BY <2>1, <2>2, <2>3, LoadKeepsInv DEF LoadForLogin
<1>13. CASE \E u \in Users : SignIn(h, u)
  BY <1>13, SignInKeepsInv
<1>14. CASE AskConsentAgain(h)
  <2>1. ParamsOf(h).prompt # "none"
    BY <1>1, <1>14 DEF AskConsentAgain, Grounded, ParamsOf
  <2> QED BY <1>1, <1>14, <2>1, StatusKeepsInv DEF AskConsentAgain
<1>15. ASSUME NEW q \in Requests, NEW s \in {"denying", "approving"}, LoadForConsent(h, q, s)
       PROVE  RequestInv'
  <2>1. PICK u \in Users \cup {None} : u = pending[q].user
    BY DEF TypeOK, PendingRow
  <2> DEFINE x == [Idle EXCEPT !.step = s, !.request = q, !.user = u]
  <2>2. x \in Handler /\ x.step = s /\ x.request = q /\ x.user = u
    BY DEF Idle, Handler, Steps
  <2>3. hand' = [hand EXCEPT ![h] = x]
    BY <1>15, <2>1 DEF LoadForConsent
  <2> HIDE DEF x
  <2>4. /\ Loadable(q) /\ (s = "approving" => u # None)
        /\ UNCHANGED <<pushed, pending, consent, signedIn, codes, shown, log>>
    BY <1>15, <2>1 DEF LoadForConsent
  <2>5. x.step \in {"authenticating", "denying", "approving"}
    BY <2>2
  <2> QED BY <2>1, <2>2, <2>3, <2>4, <2>5, LoadKeepsInv
<1>16. CASE Deny(h)
  <2>1. log'.given = log.given /\ log'.approved = log.approved /\ log'.logins = log.logins
        /\ log'.proven = log.proven
    BY <1>1, <1>16 DEF Deny, Log
  <2>2. log' \in Log
    <3> DEFINE f == log.refused \cup {hand[h].request}
    <3>1. f \in SUBSET Requests
      BY <1>1, <1>2, <1>16 DEF Deny, Log
    <3>2. log' = [log EXCEPT !.refused = f]
      BY <1>16 DEF Deny
    <3> HIDE DEF f
    <3> QED BY <1>1, <3>1, <3>2 DEF Log
  <2> QED BY <1>16, <2>1, <2>2, StatusKeepsInv DEF Deny
<1>17. CASE Approve(h)
  BY <1>17, ApproveKeepsInv
<1>18. CASE DenyByPolicy(h)
  BY <1>1, <1>18, StatusKeepsInv DEF DenyByPolicy
<1>19. CASE IssueCode(h)
  <2>1. PICK q \in Requests : q = hand[h].request
    BY <1>2, <1>19 DEF IssueCode
  <2>2. PICK u \in Users : /\ u = hand[h].user /\ Authenticated(hand[h].request, u)
                           /\ Agreed(hand[h].request, u)
    BY <1>1, <1>19, NoneIsNobody DEF IssueCode, Grounded
  <2>3. pending' = [pending EXCEPT ![hand[h].request] =
                      [pending[hand[h].request] EXCEPT !.status = "completed", !.user = u]]
    BY <1>19, <2>1, <2>2 DEF IssueCode, TypeOK
  <2>4. codes' = codes \cup {[request |-> q, user |-> u]}
    BY <1>19, <2>1, <2>2 DEF IssueCode
  <2>5. codes' \subseteq CodeRow
    BY <1>1, <2>4 DEF CodeRow
  <2>6. \A c \in codes' \ codes :
          c.request = hand[h].request /\ Authenticated(c.request, c.user) /\ Agreed(c.request, c.user)
    BY <2>1, <2>2, <2>4
  <2> QED BY <1>1, <1>19, <2>2, <2>3, <2>5, <2>6, WriteKeepsInv DEF IssueCode
<1> QED
  BY <1>3, <1>4, <1>5, <1>6, <1>7, <1>8, <1>9, <1>10, <1>11, <1>12, <1>13, <1>14, <1>15,
     <1>16, <1>17, <1>18, <1>19 DEF Serve

\* Every step keeps the inductive invariant.
LEMMA NextKeepsRequestInv == RequestInv /\ [Next]_vars => RequestInv'
<1> SUFFICES ASSUME RequestInv, [Next]_vars PROVE RequestInv'
  OBVIOUS
<1>1. ASSUME NEW u \in Users, EndSession(u) PROVE RequestInv'
  BY <1>1, EndSessionKeepsInv DEF EndSession
<1>2. CASE UNCHANGED vars
  BY <1>2, EndSessionKeepsInv DEF vars
<1> QED
  BY <1>1, <1>2, PushKeepsInv, ServeKeepsInv DEF Next

\* Whatever handlers do to a row after it was loaded, each one has the login and
\* the consent for what it does next (authorize, continueAfterAuthentication,
\* /consent).
THEOREM RequestInvariant == Spec => []RequestInv
  BY InitRequestInv, NextKeepsRequestInv, PTL DEF Spec

\* Rows and handlers keep their shape.
THEOREM TypeCorrect == Spec => []TypeOK
<1>1. RequestInv => TypeOK
  BY DEF RequestInv
<1> QED BY <1>1, RequestInvariant, PTL

\* No code without consent (authorize and continueAfterAuthentication, /consent).
THEOREM CodesAreConsentedHolds == Spec => []CodesAreConsented
<1>1. RequestInv => CodesAreConsented
  BY DEF RequestInv, CodesAreGrounded, Agreed, CodesAreConsented
<1> QED BY <1>1, RequestInvariant, PTL

\* No code without a login, nor without a fresh one where the client asked for it.
THEOREM CodesAreAuthenticatedHolds == Spec => []CodesAreAuthenticated
<1>1. RequestInv => CodesAreAuthenticated
  BY DEF RequestInv, CodesAreGrounded, Authenticated, FreshPrompts, CodesAreAuthenticated
<1> QED BY <1>1, RequestInvariant, PTL

\* A pushed request opens one row (resolveAuthorizationParameters).
THEOREM PushedRequestsOpenOnceHolds == Spec => []PushedRequestsOpenOnce
<1>1. RequestInv => PushedRequestsOpenOnce
  BY DEF RequestInv
<1> QED BY <1>1, RequestInvariant, PTL

\* A request with prompt=none is never put before a user (authorize).
THEOREM PromptNoneIsSilentHolds == Spec => []PromptNoneIsSilent
<1>1. RequestInv => PromptNoneIsSilent
  BY DEF RequestInv, RowsAreGrounded, RowGrounded, PromptNoneIsSilent
<1> QED BY <1>1, RequestInvariant, PTL
=============================================================================
