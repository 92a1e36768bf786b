------------------------- MODULE TokenEndpoint_proofs -------------------------
(***************************************************************************)
(* Proofs about TokenEndpoint, for every number of requests, clients,      *)
(* codes, families and tokens, every choice of faults and every clock.     *)
(***************************************************************************)
EXTENDS TokenEndpoint, TLAPS

USE DEF rows

\* The initial state satisfies the inductive invariant.
LEMMA InitFamilyInv == Init => FamilyInv
<1> SUFFICES ASSUME Init PROVE FamilyInv
  OBVIOUS
<1>1. TypeOK
  BY DEF Init, TypeOK, CodeRow, FamilyRow, TokenRow, Request, Steps,
         NoCode, NoFamily, NoToken, NewToken, Idle
<1>2. RequestsAreGrounded /\ LocksAreExclusive
  BY DEF Init, RequestsAreGrounded, Grounded, LocksAreExclusive, HoldsFamily, Idle
<1>3. TokensAreGrounded
  BY DEF Init, TokensAreGrounded, NoToken, NewToken, NoFamily
<1>4. ExactlyOneCurrentToken /\ ClosedFamilyIsFullyRevoked
  BY DEF Init, ExactlyOneCurrentToken, ClosedFamilyIsFullyRevoked, NoFamily
<1>5. RotationIsAChain
  <2> SUFFICES ASSUME NEW t \in Tokens, NEW u \in Tokens
               PROVE  /\ token[t].parent # None /\ token[t].parent = token[u].parent => t = u
                      /\ token[t].parent = u => token[u].consumed /\ token[u].family = token[t].family
    BY DEF RotationIsAChain
  <2> QED
    BY NoneIsNoRow DEF Init, NoToken, NewToken
<1> QED
  BY <1>1, <1>2, <1>3, <1>4, <1>5 DEF FamilyInv

\* Every step keeps the types.
LEMMA TypeStep == FamilyInv /\ [Next]_vars => TypeOK'
<1> SUFFICES ASSUME TypeOK, RequestsAreGrounded, [Next]_vars PROVE TypeOK'
  BY DEF FamilyInv
<1> USE DEF TypeOK
<1>1. ASSUME NEW c \in Codes, NEW cl \in Clients, NEW off \in BOOLEAN, GrantCode(c, cl, off)
      PROVE  TypeOK'
  BY <1>1, TimesAreNaturals DEF GrantCode, CodeRow
<1>2. ASSUME NEW r \in Requests, Arrive(r) PROVE TypeOK'
  <2>1. ASSUME NEW c \in Codes, NEW cl \in Clients, RedeemCode(r, c, cl) PROVE TypeOK'
    BY <2>1 DEF RedeemCode, Request, Steps, Idle
  <2>2. ASSUME NEW t \in Tokens, NEW cl \in Clients, PresentToken(r, t, cl) PROVE TypeOK'
    BY <2>2 DEF PresentToken, Request, Steps, Idle, TokenRow
  <2>3. ASSUME NEW t \in Tokens, NEW cl \in Clients, RequestRevocation(r, t, cl) PROVE TypeOK'
    BY <2>3 DEF RequestRevocation, Request, Steps, Idle, TokenRow
  <2> QED BY <1>2, <2>1, <2>2, <2>3 DEF Arrive
<1>3. ASSUME NEW r \in Requests, Proceed(r) PROVE TypeOK'
  <2>1. ASSUME NEW f \in Families, NEW t \in Tokens, NEW life \in Lifetimes,
               IssueFamily(r, f, t, life)
        PROVE  TypeOK'
    <3>1. req[r] \in Request /\ life \in Nat
      BY TimesAreNaturals
    <3>2. family' \in [Families -> FamilyRow]
      BY <2>1, <3>1 DEF IssueFamily, FamilyRow, Request
    <3>3. token' \in [Tokens -> TokenRow]
      BY <2>1, <3>1 DEF IssueFamily, TokenRow, NoToken, NewToken
    <3>4. [req[r] EXCEPT !.step = "issued", !.family = f, !.next = t] \in Request
      BY <3>1 DEF Request, Steps
    <3> QED BY <2>1, <3>2, <3>3, <3>4 DEF IssueFamily
  <2>2. CASE IssueAccessOnly(r)
    BY <2>2 DEF IssueAccessOnly, Goto, Request, Steps
  <2>3. CASE CommitRedemption(r)
    <3>1. req' \in [Requests -> Request]
      BY <2>3 DEF CommitRedemption, Goto, Request, Steps
    <3>2. code' \in [Codes -> CodeRow]
      BY <2>3 DEF CommitRedemption, CodeRow
    <3> QED BY <2>3, <3>1, <3>2 DEF CommitRedemption
  <2>4. CASE RefuseRefresh(r)
    BY <2>4 DEF RefuseRefresh, Finish, Request, Steps, Idle
  <2>5. CASE DetectReuse(r)
    BY <2>5 DEF DetectReuse, Goto, Request, Steps
  <2>6. ASSUME NEW n \in Tokens, BeginRotation(r, n) PROVE TypeOK'
    <3>1. [req[r] EXCEPT !.step = "rotating", !.next = n] \in Request
      BY DEF Request, Steps
    <3> QED BY <2>6, <3>1 DEF BeginRotation
  <2>7. ASSUME NEW life \in Lifetimes, CommitRotation(r, life) PROVE TypeOK'
    <3> DEFINE exp == Earliest(family[req[r].family].expires, now + life)
               succ == NewToken(req[r].family, req[r].token, exp)
    <3>1. req' \in [Requests -> Request]
      BY <2>7 DEF CommitRotation, Goto, Request, Steps
    <3>2. /\ req[r].family \in Families
          /\ req[r].token \in Tokens
          /\ req[r].next \in Tokens
      BY <2>7 DEF CommitRotation, RequestsAreGrounded, Grounded
    <3>3. exp \in Nat
      BY <3>2, TimesAreNaturals DEF FamilyRow, Earliest
    <3>4. succ \in TokenRow /\ [token[req[r].token] EXCEPT !.consumed = TRUE] \in TokenRow
      BY <3>2, <3>3 DEF NewToken, TokenRow
    <3>5. token' \in [Tokens -> TokenRow]
      <4> HIDE DEF succ
      <4> QED BY <2>7, <3>2, <3>4 DEF CommitRotation, succ
    <3> QED BY <2>7, <3>1, <3>5 DEF CommitRotation
  <2>8. ASSUME NEW s \in {"revoked", "reused"}, CloseFamily(req[r].family, s), Finish(r),
               UNCHANGED <<code, known, now>>
        PROVE  TypeOK'
    <3>1. family' \in [Families -> FamilyRow]
      BY <2>8 DEF CloseFamily, FamilyRow
    <3>2. token' \in [Tokens -> TokenRow]
      BY <2>8 DEF CloseFamily, TokenRow
    <3>3. req' \in [Requests -> Request]
      BY <2>8 DEF Finish, Request, Steps, Idle
    <3> QED BY <2>8, <3>1, <3>2, <3>3
  <2>9. CASE CommitReuse(r) BY <2>8, <2>9 DEF CommitReuse
  <2>10. CASE CommitRevocation(r) BY <2>8, <2>10 DEF CommitRevocation
  <2>11. CASE RevokeFamily(r)
    BY <2>11 DEF RevokeFamily, Goto, Request, Steps
  <2>12. CASE Respond(r)
    BY <2>12 DEF Respond, Finish, Request, Steps, Idle
  <2> QED
    BY <1>3, <2>1, <2>2, <2>3, <2>4, <2>5, <2>6, <2>7, <2>9, <2>10, <2>11, <2>12 DEF Proceed
<1>4. ASSUME NEW r \in Requests, Fail(r) PROVE TypeOK'
  <2>1. Finish(r) /\ UNCHANGED <<code, family, token, known, now>>
    BY <1>4 DEF Fail, LoseResponse, SigningFails, ConnectionFails, DeadlockVictim
  <2> QED BY <2>1 DEF Finish, Request, Steps, Idle
<1>5. CASE Tick BY <1>5 DEF Tick
<1>6. CASE UNCHANGED vars BY <1>6 DEF vars
<1> QED BY <1>1, <1>2, <1>3, <1>4, <1>5, <1>6 DEF Next

-----------------------------------------------------------------------------
(* The three ways the family and token rows change, and what each leaves   *)
(* of the invariant about the rows themselves.                             *)

\* The conjuncts of FamilyInv that speak of family and token rows only.
RowsInv ==
    /\ ExactlyOneCurrentToken
    /\ ClosedFamilyIsFullyRevoked
    /\ RotationIsAChain

\* A closing request holds its family row, so it changes a stored family.
LEMMA CloseIsAuthorized ==
    ASSUME FamilyInv, NEW r \in Requests, CommitReuse(r) \/ CommitRevocation(r)
    PROVE  /\ req[r].family \in Families
           /\ family[req[r].family].status # "absent"
           /\ HoldsFamily(r, req[r].family)
           /\ \E s \in {"revoked", "reused"} : CloseFamily(req[r].family, s)
           /\ Finish(r)
           /\ UNCHANGED <<code, known, now>>
  BY DEF FamilyInv, RequestsAreGrounded, Grounded, CommitReuse, CommitRevocation, HoldsFamily

\* Opening a family with a fresh token keeps the row invariants.
LEMMA IssueKeepsRows ==
    ASSUME FamilyInv, TypeOK',
           NEW r \in Requests, NEW f \in Families, NEW t \in Tokens, NEW life \in Lifetimes,
           IssueFamily(r, f, t, life)
    PROVE  RowsInv'
<1>1. /\ token[t] = NoToken /\ family[f] = NoFamily
      /\ \A u \in Tokens : token[u].family # f
  BY NoneIsNoRow DEF IssueFamily, Fresh, FamilyInv, TokensAreGrounded, NoFamily
<1>2. /\ token'[t] = NewToken(f, None, now + life)
      /\ \A u \in Tokens \ {t} : token'[u] = token[u]
  BY DEF IssueFamily, FamilyInv, TypeOK
<1>3. /\ family'[f].status = "active"
      /\ \A g \in Families \ {f} : family'[g] = family[g]
  BY DEF IssueFamily, FamilyInv, TypeOK
<1>4. \A u \in Tokens : token[u].parent # t
  BY <1>1 DEF FamilyInv, RotationIsAChain, NoToken, NewToken
<1>5. ExactlyOneCurrentToken'
  BY <1>1, <1>2, <1>3, NoneIsNoRow
     DEF FamilyInv, ExactlyOneCurrentToken, TokensOf, Unspent, NewToken, NoToken
<1>6. ClosedFamilyIsFullyRevoked'
  BY <1>1, <1>2, <1>3, NoneIsNoRow
     DEF FamilyInv, ClosedFamilyIsFullyRevoked, TokensOf, NewToken, NoToken
<1>7. RotationIsAChain'
  BY <1>1, <1>2, <1>4, NoneIsNoRow
     DEF FamilyInv, RotationIsAChain, NewToken, NoToken
<1> QED BY <1>5, <1>6, <1>7 DEF RowsInv

\* Exchanging the current token for a fresh one keeps the row invariants.
LEMMA RotationKeepsRows ==
    ASSUME FamilyInv, TypeOK', NEW r \in Requests, NEW life \in Lifetimes,
           CommitRotation(r, life)
    PROVE  RowsInv'
<1> DEFINE t == req[r].token
           n == req[r].next
           f == req[r].family
<1>1. /\ t \in Tokens /\ n \in Tokens /\ f \in Families
      /\ token[t].family = f /\ Unspent(t)
      /\ token[n] = NoToken /\ family[f].status = "active"
  BY DEF CommitRotation, FamilyInv, RequestsAreGrounded, Grounded
<1>2. n # t
  BY <1>1, NoneIsNoRow DEF NoToken, NewToken
<1>3. /\ token'[t] = [token[t] EXCEPT !.consumed = TRUE]
      /\ \E e : token'[n] = NewToken(f, t, e)
      /\ \A u \in Tokens \ {t, n} : token'[u] = token[u]
      /\ family' = family
  BY <1>1, <1>2 DEF CommitRotation, FamilyInv, TypeOK
<1>4. /\ token'[t].family = f /\ token'[t].consumed
      /\ token'[t].parent = token[t].parent /\ token'[t].revoked = token[t].revoked
      /\ token'[n].family = f /\ token'[n].parent = t
      /\ ~token'[n].consumed /\ ~token'[n].revoked
      /\ token[n].family = None /\ token[t].family = f /\ f # None
  BY <1>1, <1>3, NoneIsNoRow DEF NoToken, NewToken, FamilyInv, TypeOK, TokenRow
<1>5. \A u \in Tokens : token[u].parent # n /\ token[u].parent # t
  BY <1>1, NoneIsNoRow DEF FamilyInv, RotationIsAChain, NoToken, NewToken, Unspent
<1> HIDE DEF t, n, f
<1>6. ExactlyOneCurrentToken'
  <2>1. \A u \in Tokens : token[u].family = f /\ Unspent(u) => u = t
    BY <1>1 DEF FamilyInv, ExactlyOneCurrentToken, TokensOf
  <2>2. \A u \in Tokens :
          token'[u].family = f /\ ~token'[u].consumed /\ ~token'[u].revoked => u = n
    BY <1>3, <1>4, <2>1 DEF Unspent
  <2> SUFFICES ASSUME NEW g \in Families, family'[g].status = "active"
               PROVE  /\ \E u \in Tokens : token'[u].family = g
                              /\ ~token'[u].consumed /\ ~token'[u].revoked
                      /\ \A u, v \in Tokens :
                            /\ token'[u].family = g /\ ~token'[u].consumed /\ ~token'[u].revoked
                            /\ token'[v].family = g /\ ~token'[v].consumed /\ ~token'[v].revoked
                            => u = v
    BY DEF ExactlyOneCurrentToken, TokensOf, Unspent
  <2>3. CASE g = f
    BY <1>1, <1>4, <2>2, <2>3
  <2>4. CASE g # f
    <3>1. \A u \in Tokens : (token'[u].family = g \/ token[u].family = g)
                            => token'[u] = token[u]
      BY <1>3, <1>4, <2>4, NoneIsNoRow
    <3>2. /\ \E u \in Tokens : token[u].family = g /\ Unspent(u)
          /\ \A u, v \in Tokens : /\ token[u].family = g /\ Unspent(u)
                                  /\ token[v].family = g /\ Unspent(v)
                                  => u = v
      BY <1>3 DEF FamilyInv, ExactlyOneCurrentToken, TokensOf
    <3> QED BY <3>1, <3>2 DEF Unspent
  <2> QED BY <2>3, <2>4
<1>7. ClosedFamilyIsFullyRevoked'
  <2> SUFFICES ASSUME NEW g \in Families, family'[g].status \in {"revoked", "reused"},
                      NEW u \in Tokens, token'[u].family = g
               PROVE  token'[u].revoked
    BY DEF ClosedFamilyIsFullyRevoked, TokensOf
  <2>1. g # f /\ family[g].status \in {"revoked", "reused"}
    BY <1>1, <1>3
  <2>2. token'[u] = token[u]
    BY <1>3, <1>4, <2>1
  <2> QED BY <2>1, <2>2 DEF FamilyInv, ClosedFamilyIsFullyRevoked, TokensOf
<1>8. RotationIsAChain'
  <2>1. \A u \in Tokens \ {n} :
          /\ token'[u].parent = token[u].parent /\ token'[u].family = token[u].family
          /\ token[u].consumed => token'[u].consumed
    BY <1>1, <1>3, <1>4
  <2> SUFFICES ASSUME NEW u \in Tokens, NEW v \in Tokens
               PROVE  /\ token'[u].parent # None /\ token'[u].parent = token'[v].parent => u = v
                      /\ token'[u].parent = v
                            => token'[v].consumed /\ token'[v].family = token'[u].family
    BY DEF RotationIsAChain
  <2>2. CASE u = n
    BY <1>4, <1>5, <2>1, <2>2
  <2>3. CASE u # n /\ v = n
    BY <1>4, <1>5, <2>1, <2>3
  <2>4. CASE u # n /\ v # n
    BY <2>1, <2>4 DEF FamilyInv, RotationIsAChain
  <2> QED BY <2>2, <2>3, <2>4
<1> QED BY <1>6, <1>7, <1>8 DEF RowsInv

\* Closing a family keeps the row invariants.
LEMMA CloseKeepsRows ==
    ASSUME FamilyInv, TypeOK', NEW f \in Families, NEW s \in {"revoked", "reused"},
           CloseFamily(f, s)
    PROVE  RowsInv'
<1>1. /\ family'[f].status = s
      /\ \A g \in Families \ {f} : family'[g] = family[g]
  BY DEF CloseFamily, FamilyInv, TypeOK, FamilyRow
<1>2. \A u \in Tokens :
        /\ token'[u].family = token[u].family
        /\ token'[u].parent = token[u].parent
        /\ token'[u].consumed = token[u].consumed
        /\ token[u].family = f => token'[u].revoked
        /\ token[u].family # f => token'[u].revoked = token[u].revoked
  <2> SUFFICES ASSUME NEW u \in Tokens
               PROVE  /\ token'[u].family = token[u].family
                      /\ token'[u].parent = token[u].parent
                      /\ token'[u].consumed = token[u].consumed
                      /\ token[u].family = f => token'[u].revoked
                      /\ token[u].family # f => token'[u].revoked = token[u].revoked
    OBVIOUS
  <2>1. token'[u] = IF token[u].family = f
                      THEN [token[u] EXCEPT !.revoked = TRUE] ELSE token[u]
    BY DEF CloseFamily
  <2>2. token[u] \in TokenRow
    BY DEF FamilyInv, TypeOK
  <2> QED BY <2>1, <2>2 DEF TokenRow
<1>3. ExactlyOneCurrentToken'
  BY <1>1, <1>2 DEF FamilyInv, ExactlyOneCurrentToken, TokensOf, Unspent
<1>4. ClosedFamilyIsFullyRevoked'
  BY <1>1, <1>2 DEF FamilyInv, ClosedFamilyIsFullyRevoked, TokensOf
<1>5. RotationIsAChain'
  BY <1>2 DEF FamilyInv, RotationIsAChain
<1> QED BY <1>3, <1>4, <1>5 DEF RowsInv

-----------------------------------------------------------------------------
(* What a step does to the requests: it moves one of them.                 *)

\* The steps that leave every family and token row alone.
LEMMA QuietKeepsRows ==
    ASSUME FamilyInv, UNCHANGED <<family, token>>
    PROVE  RowsInv'
  BY DEF FamilyInv, RowsInv, ExactlyOneCurrentToken, ClosedFamilyIsFullyRevoked,
         RotationIsAChain, TokensOf, Unspent

\* A request that no longer holds a family row, or never did, cannot break the
\* lock invariant.
LEMMA MoveKeepsLocks ==
    ASSUME FamilyInv, NEW r \in Requests, NEW m,
           req' = [req EXCEPT ![r] = m],
           m.step \in {"rotating", "reuse", "revoking"} =>
               \A q \in Requests : q # r => ~HoldsFamily(q, m.family),
           m.step = "rotating" => \A q \in Requests : req[q].next # m.next
    PROVE  LocksAreExclusive'
<1>1. req'[r] = m /\ \A q \in Requests : q # r => req'[q] = req[q]
  BY DEF FamilyInv, TypeOK
<1> SUFFICES ASSUME NEW p \in Requests, NEW q \in Requests, p # q
             PROVE  /\ \A f \in Families : ~(HoldsFamily(p, f)' /\ HoldsFamily(q, f)')
                    /\ ~(/\ req'[p].step = "rotating" /\ req'[q].step = "rotating"
                         /\ req'[p].next = req'[q].next)
  BY DEF LocksAreExclusive
<1>2. CASE p # r /\ q # r
  BY <1>1, <1>2 DEF FamilyInv, LocksAreExclusive, HoldsFamily
<1>3. CASE p = r /\ q # r
  BY <1>1, <1>3 DEF HoldsFamily
<1>4. CASE p # r /\ q = r
  BY <1>1, <1>4 DEF HoldsFamily
<1> QED BY <1>2, <1>3, <1>4

\* A step that changes no family or token row keeps the other requests
\* grounded.
LEMMA QuietKeepsGrounded ==
    ASSUME FamilyInv, UNCHANGED <<family, token>>, NEW r \in Requests, NEW m,
           req' = [req EXCEPT ![r] = m], Grounded(r)'
    PROVE  RequestsAreGrounded'
<1>1. \A q \in Requests : q # r => req'[q] = req[q]
  BY DEF FamilyInv, TypeOK
<1>2. \A q \in Requests : q # r => Grounded(q)'
  BY <1>1 DEF FamilyInv, RequestsAreGrounded, Grounded, Unspent
<1> QED BY <1>2 DEF RequestsAreGrounded

\* Requests that are idle, arriving, answered or rolled back.
LEMMA QuietStep ==
    ASSUME FamilyInv, [Next]_vars,
           NEW r \in Requests,
           \/ Arrive(r) \/ Fail(r) \/ IssueAccessOnly(r) \/ CommitRedemption(r)
           \/ RefuseRefresh(r) \/ DetectReuse(r) \/ \E n \in Tokens : BeginRotation(r, n)
           \/ RevokeFamily(r) \/ Respond(r)
    PROVE  FamilyInv'
<1>1. TypeOK'
  BY TypeStep
<1>2. UNCHANGED <<family, token>>
  BY DEF Arrive, Fail, RedeemCode, PresentToken, RequestRevocation, LoseResponse,
         SigningFails, ConnectionFails, DeadlockVictim, IssueAccessOnly, CommitRedemption,
         RefuseRefresh, DetectReuse, BeginRotation, RevokeFamily, Respond
<1>3. TokensAreGrounded'
  <2>1. CASE known' = known
    BY <1>2, <2>1 DEF FamilyInv, TokensAreGrounded
  <2>2. CASE Respond(r)
    BY <1>2, <2>2 DEF Respond, FamilyInv, TokensAreGrounded, RequestsAreGrounded, Grounded
  <2> QED
    BY <2>1, <2>2 DEF Arrive, Fail, RedeemCode, PresentToken, RequestRevocation, LoseResponse,
         SigningFails, ConnectionFails, DeadlockVictim, IssueAccessOnly, CommitRedemption,
         RefuseRefresh, DetectReuse, BeginRotation, RevokeFamily
<1>4. RequestsAreGrounded' /\ LocksAreExclusive'
  <2>1. ASSUME NEW c \in Codes, NEW cl \in Clients, RedeemCode(r, c, cl)
        PROVE  RequestsAreGrounded' /\ LocksAreExclusive'
    <3> DEFINE m == [Idle EXCEPT !.step = "issuing", !.client = cl, !.code = c]
    <3>1. Grounded(r)' BY <1>1, <2>1 DEF RedeemCode, Grounded, TypeOK, Idle
    <3>2. req' = [req EXCEPT ![r] = m] /\ m.step = "issuing" BY <2>1 DEF RedeemCode, Idle
    <3> HIDE DEF m
    <3> QED BY <1>2, <3>1, <3>2, QuietKeepsGrounded, MoveKeepsLocks
  <2>2. ASSUME NEW t \in Tokens, NEW cl \in Clients, PresentToken(r, t, cl)
        PROVE  RequestsAreGrounded' /\ LocksAreExclusive'
    <3> DEFINE m == [Idle EXCEPT !.step = "locking", !.client = cl,
                                 !.token = t, !.family = token[t].family]
    <3>1. token[t].family \in Families
      BY <2>2 DEF PresentToken, FamilyInv, TokensAreGrounded, TypeOK, TokenRow
    <3>2. Grounded(r)' BY <1>1, <1>2, <2>2, <3>1 DEF PresentToken, Grounded, TypeOK, Idle
    <3>3. req' = [req EXCEPT ![r] = m] /\ m.step = "locking" BY <2>2 DEF PresentToken, Idle
    <3> HIDE DEF m
    <3> QED BY <1>2, <3>2, <3>3, QuietKeepsGrounded, MoveKeepsLocks
  <2>3. ASSUME NEW t \in Tokens, NEW cl \in Clients, RequestRevocation(r, t, cl)
        PROVE  RequestsAreGrounded' /\ LocksAreExclusive'
    <3> DEFINE m == [Idle EXCEPT !.step = "revoke", !.client = cl, !.family = token[t].family]
    <3>1. token[t].family \in Families /\ family[token[t].family].status # "absent"
      BY <2>3 DEF RequestRevocation, FamilyInv, TokensAreGrounded, TypeOK, TokenRow
    <3>2. Grounded(r)' BY <1>1, <1>2, <2>3, <3>1 DEF RequestRevocation, Grounded, TypeOK, Idle
    <3>3. req' = [req EXCEPT ![r] = m] /\ m.step = "revoke" BY <2>3 DEF RequestRevocation, Idle
    <3> HIDE DEF m
    <3> QED BY <1>2, <3>2, <3>3, QuietKeepsGrounded, MoveKeepsLocks
  <2>4. CASE Finish(r)
    <3>1. Grounded(r)' BY <1>1, <2>4 DEF Finish, Grounded, TypeOK, Idle
    <3>2. req' = [req EXCEPT ![r] = Idle] /\ Idle.step = "idle" BY <2>4 DEF Finish, Idle
    <3> QED BY <1>2, <3>1, <3>2, QuietKeepsGrounded, MoveKeepsLocks
  <2>5. ASSUME NEW s \in {"issued", "respond", "revoking", "reuse"}, Goto(r, s),
               Grounded(r)', s \in {"reuse", "revoking"} => FamilyFree(req[r].family)
        PROVE  RequestsAreGrounded' /\ LocksAreExclusive'
    <3> DEFINE m == [req[r] EXCEPT !.step = s]
    <3>1. req' = [req EXCEPT ![r] = m] BY <2>5 DEF Goto
    <3>2. m.step = s /\ m.family = req[r].family
      BY DEF FamilyInv, TypeOK, Request
    <3> HIDE DEF m
    <3>3. LocksAreExclusive' BY <2>5, <3>1, <3>2, MoveKeepsLocks DEF FamilyFree
    <3> QED BY <1>2, <2>5, <3>1, <3>3, QuietKeepsGrounded
  <2>6. CASE IssueAccessOnly(r)
    <3>1. Grounded(r)'
      BY <1>1, <1>2, <2>6 DEF IssueAccessOnly, Goto, FamilyInv, TypeOK, Request,
         RequestsAreGrounded, Grounded
    <3> QED BY <2>5, <2>6, <3>1 DEF IssueAccessOnly
  <2>7. CASE CommitRedemption(r)
    <3>1. Grounded(r)'
      BY <1>1, <1>2, <2>7 DEF CommitRedemption, Goto, FamilyInv, TypeOK, Request,
         RequestsAreGrounded, Grounded
    <3> QED BY <2>5, <2>7, <3>1 DEF CommitRedemption
  <2>8. CASE DetectReuse(r)
    <3>1. Grounded(r)'
      BY <1>1, <1>2, <2>8 DEF DetectReuse, GetsFamily, Honoured, Goto, FamilyInv, TypeOK, Request,
         RequestsAreGrounded, Grounded
    <3> QED BY <2>5, <2>8, <3>1 DEF DetectReuse, GetsFamily
  <2>9. CASE RevokeFamily(r)
    <3>1. Grounded(r)'
      BY <1>1, <1>2, <2>9 DEF RevokeFamily, Goto, FamilyInv, TypeOK, Request,
         RequestsAreGrounded, Grounded
    <3> QED BY <2>5, <2>9, <3>1 DEF RevokeFamily
  <2>10. ASSUME NEW n \in Tokens, BeginRotation(r, n)
         PROVE  RequestsAreGrounded' /\ LocksAreExclusive'
    <3> DEFINE m == [req[r] EXCEPT !.step = "rotating", !.next = n]
    <3>1. token[n] = NoToken
      BY <2>10 DEF BeginRotation, Fresh, FamilyInv, TokensAreGrounded
    <3>2. /\ m.step = "rotating" /\ m.family = req[r].family /\ m.next = n
          /\ m.token = req[r].token
      BY DEF FamilyInv, TypeOK, Request
    <3>3. req' = [req EXCEPT ![r] = m] BY <2>10 DEF BeginRotation
    <3>4. req'[r] = m BY <3>3 DEF FamilyInv, TypeOK
    <3> HIDE DEF m
    <3>5. Grounded(r)'
      BY <1>2, <2>10, <3>1, <3>2, <3>4
         DEF BeginRotation, GetsFamily, Honoured, FamilyInv, RequestsAreGrounded, Grounded,
             Unspent
    <3>6. LocksAreExclusive'
      BY <2>10, <3>2, <3>3, MoveKeepsLocks DEF BeginRotation, GetsFamily, FamilyFree, Fresh
    <3> QED BY <1>2, <3>3, <3>5, <3>6, QuietKeepsGrounded
  <2> QED
    BY <2>1, <2>2, <2>3, <2>4, <2>6, <2>7, <2>8, <2>9, <2>10
       DEF Arrive, Fail, LoseResponse, SigningFails, ConnectionFails, DeadlockVictim,
           RefuseRefresh, Respond
<1> QED
  BY <1>1, <1>2, <1>3, <1>4, QuietKeepsRows DEF FamilyInv, RowsInv

\* A redemption opens its family.
LEMMA IssueStep ==
    ASSUME FamilyInv, [Next]_vars,
           NEW r \in Requests, NEW f \in Families, NEW t \in Tokens, NEW life \in Lifetimes,
           IssueFamily(r, f, t, life)
    PROVE  FamilyInv'
<1> DEFINE m == [req[r] EXCEPT !.step = "issued", !.family = f, !.next = t]
<1>1. TypeOK'
  BY TypeStep
<1>2. /\ req' = [req EXCEPT ![r] = m] /\ m.step = "issued" /\ m.next = t
      /\ m.code = req[r].code
      /\ req'[r] = m /\ \A q \in Requests : q # r => req'[q] = req[q]
  BY DEF IssueFamily, FamilyInv, TypeOK, Request
<1>3. /\ token[t].family = None /\ \A q \in Requests : req[q].next # t
      /\ token'[t].family = f /\ f # None
      /\ \A u \in Tokens : u # t => token'[u] = token[u]
      /\ family[f].status = "absent" /\ family'[f].status = "active"
      /\ \A g \in Families : g # f => family'[g] = family[g]
  BY NoneIsNoRow DEF IssueFamily, Fresh, FamilyInv, TypeOK, NewToken, NoFamily
<1> HIDE DEF m
<1>4. RequestsAreGrounded'
  <2>1. Grounded(r)'
    BY <1>2, <1>3 DEF IssueFamily, FamilyInv, RequestsAreGrounded, Grounded
  <2>2. ASSUME NEW q \in Requests, q # r PROVE Grounded(q)'
    <3>1. Grounded(q)
      BY DEF FamilyInv, RequestsAreGrounded
    <3>2. req[q].token \in Tokens /\ token[req[q].token].family # None => req[q].token # t
      BY <1>3
    <3> QED
      BY <1>2, <1>3, <2>2, <3>1, <3>2, NoneIsNoRow DEF Grounded, Unspent, FamilyInv, TypeOK, Request
  <2> QED BY <2>1, <2>2 DEF RequestsAreGrounded
<1>5. LocksAreExclusive'
  BY <1>2, MoveKeepsLocks
<1>6. TokensAreGrounded'
  <2>1. \A u \in Tokens : IF token'[u].family = None
           THEN token'[u] = NoToken
           ELSE family'[token'[u].family].status # "absent"
    BY <1>3 DEF FamilyInv, TokensAreGrounded, TypeOK, TokenRow
  <2>2. \A g \in Families : family'[g].status = "absent" => family'[g] = NoFamily
    BY <1>3 DEF FamilyInv, TokensAreGrounded
  <2>3. \A u \in known' : token'[u].family # None
    BY <1>3 DEF IssueFamily, FamilyInv, TokensAreGrounded, TypeOK
  <2> QED BY <2>1, <2>2, <2>3 DEF TokensAreGrounded
<1> QED
  BY <1>1, <1>4, <1>5, <1>6, IssueKeepsRows DEF FamilyInv, RowsInv

\* A rotation commits.
LEMMA RotationStep ==
    ASSUME FamilyInv, [Next]_vars, NEW r \in Requests, NEW life \in Lifetimes,
           CommitRotation(r, life)
    PROVE  FamilyInv'
<1> DEFINE m == [req[r] EXCEPT !.step = "respond"]
           t == req[r].token
           n == req[r].next
           f == req[r].family
<1>1. TypeOK'
  BY TypeStep
<1>2. /\ req' = [req EXCEPT ![r] = m] /\ m.step = "respond" /\ m.next = n
      /\ req'[r] = m /\ \A q \in Requests : q # r => req'[q] = req[q]
  BY DEF CommitRotation, Goto, FamilyInv, TypeOK, Request
<1>3. /\ t \in Tokens /\ n \in Tokens /\ f \in Families /\ f # None
      /\ token[t].family = f /\ token[n].family = None /\ token[n] = NoToken
      /\ family[f].status = "active" /\ HoldsFamily(r, f)
  <2>1. req[r].step = "rotating" /\ Grounded(r)
    BY DEF CommitRotation, FamilyInv, RequestsAreGrounded
  <2>2. HoldsFamily(r, f)
    BY <2>1 DEF HoldsFamily
  <2> QED BY <2>1, <2>2, NoneIsNoRow DEF Grounded, NoToken, NewToken
<1>4. /\ token'[t].family = f /\ token'[n].family = f
      /\ \A u \in Tokens : u # t /\ u # n => token'[u] = token[u]
      /\ family' = family /\ known' = known
  BY <1>3 DEF CommitRotation, FamilyInv, TypeOK, TokenRow, NewToken
<1> HIDE DEF m, t, n, f
<1>5. RequestsAreGrounded'
  <2>1. Grounded(r)'
    BY <1>2, <1>3, <1>4 DEF Grounded
  <2>2. ASSUME NEW q \in Requests, q # r PROVE Grounded(q)'
    <3>1. Grounded(q)
      BY DEF FamilyInv, RequestsAreGrounded
    <3>2. req[q].step \in {"locking", "rotating", "reuse"}
            => token'[req[q].token].family = req[q].family
      BY <1>3, <1>4, <3>1, NoneIsNoRow DEF Grounded
    <3>3. req[q].step = "rotating" =>
            /\ Unspent(req[q].token)'
            /\ token'[req[q].next] = NoToken
      <4> SUFFICES ASSUME req[q].step = "rotating"
                   PROVE  token'[req[q].token] = token[req[q].token]
                          /\ token'[req[q].next] = NoToken
        BY <1>2, <2>2, <3>1 DEF Grounded, Unspent
      <4>1. req[q].family # f
        BY <1>3, <2>2, <3>1 DEF FamilyInv, LocksAreExclusive, HoldsFamily, Grounded
      <4>2. req[q].next # n
        BY <2>2 DEF CommitRotation, FamilyInv, LocksAreExclusive, n
      <4> QED BY <1>3, <1>4, <3>1, <4>1, <4>2, NoneIsNoRow DEF Grounded, NoToken, NewToken
    <3>4. req[q].step \in {"issued", "respond"} /\ req[q].next # None
            => token'[req[q].next].family # None
      BY <1>3, <1>4, <3>1 DEF Grounded, FamilyInv, TypeOK, Request
    <3> QED
      BY <1>2, <1>4, <2>2, <3>1, <3>2, <3>3, <3>4 DEF Grounded
  <2> QED BY <2>1, <2>2 DEF RequestsAreGrounded
<1>6. LocksAreExclusive'
  BY <1>2, MoveKeepsLocks
<1>7. TokensAreGrounded'
  <2>1. \A u \in Tokens : IF token'[u].family = None
           THEN token'[u] = NoToken
           ELSE family'[token'[u].family].status # "absent"
    BY <1>3, <1>4 DEF FamilyInv, TokensAreGrounded
  <2>2. \A u \in known' : token'[u].family # None
    BY <1>3, <1>4 DEF FamilyInv, TokensAreGrounded, TypeOK
  <2> QED BY <1>4, <2>1, <2>2 DEF FamilyInv, TokensAreGrounded
<1> QED
  BY <1>1, <1>5, <1>6, <1>7, RotationKeepsRows DEF FamilyInv, RowsInv

\* A family is closed, by reuse detection or by a revocation request.
LEMMA CloseStep ==
    ASSUME FamilyInv, [Next]_vars, NEW r \in Requests, CommitReuse(r) \/ CommitRevocation(r)
    PROVE  FamilyInv'
<1> DEFINE f == req[r].family
<1>1. TypeOK'
  BY TypeStep
<1>2. /\ f \in Families /\ f # None /\ family[f].status # "absent" /\ HoldsFamily(r, f)
      /\ UNCHANGED <<code, known, now>>
      /\ Finish(r)
  BY CloseIsAuthorized, NoneIsNoRow
<1>3. PICK s \in {"revoked", "reused"} : CloseFamily(f, s)
  BY CloseIsAuthorized
<1>4. /\ req' = [req EXCEPT ![r] = Idle] /\ req'[r] = Idle /\ Idle.step = "idle"
      /\ \A q \in Requests : q # r => req'[q] = req[q]
  BY <1>2 DEF Finish, Idle, FamilyInv, TypeOK
<1>5. /\ family'[f].status = s
      /\ \A g \in Families : g # f => family'[g] = family[g]
      /\ \A u \in Tokens : token'[u].family = token[u].family
      /\ \A u \in Tokens : token[u].family # f => token'[u] = token[u]
  BY <1>2, <1>3 DEF CloseFamily, FamilyInv, TypeOK, FamilyRow, TokenRow
<1> HIDE DEF f
<1>6. RequestsAreGrounded'
  <2>1. Grounded(r)'
    BY <1>4 DEF Grounded
  <2>2. ASSUME NEW q \in Requests, q # r PROVE Grounded(q)'
    <3>1. Grounded(q)
      BY DEF FamilyInv, RequestsAreGrounded
    <3>2. req[q].step \in {"rotating", "reuse"} => req[q].family # f
      BY <1>2, <2>2 DEF FamilyInv, LocksAreExclusive, HoldsFamily
    <3>3. req[q].step = "rotating" =>
            token'[req[q].token] = token[req[q].token] /\ token'[req[q].next] = NoToken
      BY <1>2, <1>5, <3>1, <3>2 DEF Grounded, NoToken, NewToken
    <3>4. req[q].step \in {"issued", "respond"} /\ req[q].next # None
            => token'[req[q].next].family # None
      BY <1>5, <3>1 DEF Grounded, FamilyInv, TypeOK, Request
    <3>5. req[q].step \in {"rotating", "reuse"} => family'[req[q].family].status = "active"
      BY <1>5, <3>1, <3>2 DEF Grounded
    <3>6. req[q].step \in {"revoke", "revoking"} => family'[req[q].family].status # "absent"
      BY <1>5, <3>1 DEF Grounded
    <3> QED
      BY <1>4, <1>5, <2>2, <3>1, <3>3, <3>4, <3>5, <3>6 DEF Grounded, Unspent
  <2> QED BY <2>1, <2>2 DEF RequestsAreGrounded
<1>7. LocksAreExclusive'
  BY <1>4, MoveKeepsLocks
<1>8. TokensAreGrounded'
  <2>1. \A u \in Tokens : IF token'[u].family = None
           THEN token'[u] = NoToken
           ELSE family'[token'[u].family].status # "absent"
    BY <1>2, <1>5 DEF FamilyInv, TokensAreGrounded, TypeOK, TokenRow
  <2>2. \A g \in Families : family'[g].status = "absent" => family'[g] = NoFamily
    BY <1>5 DEF FamilyInv, TokensAreGrounded
  <2>3. \A u \in known' : token'[u].family # None
    BY <1>2, <1>5 DEF FamilyInv, TokensAreGrounded, TypeOK
  <2> QED BY <2>1, <2>2, <2>3 DEF TokensAreGrounded
<1>9. RowsInv'
  BY <1>1, <1>2, <1>3, CloseKeepsRows
<1> QED
  BY <1>1, <1>6, <1>7, <1>8, <1>9 DEF FamilyInv, RowsInv

\* Every step keeps the inductive invariant.
LEMMA FamilyInvStep == FamilyInv /\ [Next]_vars => FamilyInv'
<1> SUFFICES ASSUME FamilyInv, [Next]_vars PROVE FamilyInv'
  OBVIOUS
<1>1. TypeOK'
  BY TypeStep
<1>2. CASE UNCHANGED <<family, token, req, known>>
  BY <1>1, <1>2, QuietKeepsRows
     DEF FamilyInv, RowsInv, RequestsAreGrounded, Grounded, Unspent, LocksAreExclusive,
         HoldsFamily, TokensAreGrounded
<1>3. ASSUME NEW r \in Requests, Arrive(r) \/ Proceed(r) \/ Fail(r)
      PROVE  FamilyInv'
  BY <1>3, QuietStep, IssueStep, RotationStep, CloseStep DEF Proceed
<1>4. CASE \E c \in Codes, cl \in Clients, off \in BOOLEAN : GrantCode(c, cl, off)
  BY <1>2, <1>4 DEF GrantCode
<1>5. CASE Tick
  BY <1>2, <1>5 DEF Tick
<1>6. CASE UNCHANGED vars
  BY <1>2, <1>6 DEF vars
<1> QED BY <1>3, <1>4, <1>5, <1>6 DEF Next

\* The inductive invariant holds in every reachable state.
THEOREM FamilyInvariant == Spec => []FamilyInv
  BY InitFamilyInv, FamilyInvStep, PTL DEF Spec

\* Rows and requests always have the shape the schema gives them.
THEOREM TypeCorrect == Spec => []TypeOK
<1>1. FamilyInv => TypeOK BY DEF FamilyInv
<1> QED BY <1>1, FamilyInvariant, PTL

\* An active family always has exactly one exchangeable token, for any number
\* of concurrent refresh, redemption and revocation requests.
THEOREM OneCurrentToken == Spec => []ExactlyOneCurrentToken
<1>1. FamilyInv => ExactlyOneCurrentToken BY DEF FamilyInv
<1> QED BY <1>1, FamilyInvariant, PTL

\* A closed family has no token left, not even one being inserted while it
\* was closed.
THEOREM ClosedMeansRevoked == Spec => []ClosedFamilyIsFullyRevoked
<1>1. FamilyInv => ClosedFamilyIsFullyRevoked BY DEF FamilyInv
<1> QED BY <1>1, FamilyInvariant, PTL

\* No refresh token is ever exchanged twice.
THEOREM ChainOfRotations == Spec => []RotationIsAChain
<1>1. FamilyInv => RotationIsAChain BY DEF FamilyInv
<1> QED BY <1>1, FamilyInvariant, PTL

-----------------------------------------------------------------------------
(* Lifetimes.                                                              *)

\* Rotation takes the earlier of the family's expiry and its own.
LEMMA LifetimeStep ==
    FamilyInv /\ NoTokenOutlivesItsFamily /\ [Next]_vars => NoTokenOutlivesItsFamily'
<1> SUFFICES ASSUME FamilyInv, NoTokenOutlivesItsFamily, [Next]_vars
             PROVE  NoTokenOutlivesItsFamily'
  OBVIOUS
<1> USE DEF NoTokenOutlivesItsFamily
<1>1. CASE UNCHANGED <<family, token>>
  BY <1>1
<1>2. ASSUME NEW r \in Requests, NEW f \in Families, NEW t \in Tokens, NEW life \in Lifetimes,
             IssueFamily(r, f, t, life)
      PROVE  NoTokenOutlivesItsFamily'
  <2>1. /\ token'[t].family = f /\ token'[t].expires = family'[f].expires
        /\ family'[f].expires \in Nat
        /\ \A u \in Tokens : u # t => token'[u] = token[u] /\ token[u].family # f
        /\ \A g \in Families : g # f => family'[g] = family[g]
    BY <1>2, TimesAreNaturals, NoneIsNoRow
       DEF IssueFamily, FamilyInv, TokensAreGrounded, TypeOK, NewToken, NoFamily
  <2> QED BY <2>1 DEF FamilyInv, TypeOK, TokenRow
<1>3. ASSUME NEW r \in Requests, NEW life \in Lifetimes, CommitRotation(r, life)
      PROVE  NoTokenOutlivesItsFamily'
  <2> DEFINE n == req[r].next
             f == req[r].family
             e == Earliest(family[f].expires, now + life)
  <2>1. n \in Tokens /\ f \in Families /\ req[r].token \in Tokens
    BY <1>3 DEF CommitRotation, FamilyInv, RequestsAreGrounded, Grounded
  <2>2. e <= family[f].expires
    BY <2>1, TimesAreNaturals DEF Earliest, FamilyInv, TypeOK, FamilyRow
  <2> HIDE DEF e
  <2>3. /\ token'[n].family = f /\ token'[n].expires = e /\ family' = family
        /\ \A u \in Tokens : u # n => token'[u].family = token[u].family
                                  /\ token'[u].expires = token[u].expires
    BY <1>3, <2>1 DEF CommitRotation, FamilyInv, TypeOK, TokenRow, NewToken, e
  <2> QED BY <2>1, <2>2, <2>3
<1>4. ASSUME NEW r \in Requests, CommitReuse(r) \/ CommitRevocation(r)
      PROVE  NoTokenOutlivesItsFamily'
  <2>1. PICK s \in {"revoked", "reused"} : CloseFamily(req[r].family, s)
    BY <1>4, CloseIsAuthorized
  <2>2. \A g \in Families : family'[g].expires = family[g].expires
    BY <2>1 DEF CloseFamily, FamilyInv, TypeOK, FamilyRow
  <2>3. \A u \in Tokens : token'[u].family = token[u].family
                        /\ token'[u].expires = token[u].expires
    BY <2>1 DEF CloseFamily, FamilyInv, TypeOK, TokenRow
  <2> QED BY <2>2, <2>3 DEF FamilyInv, TypeOK, TokenRow
<1> QED
  BY <1>1, <1>2, <1>3, <1>4
     DEF Next, vars, GrantCode, Tick, Arrive, Proceed, Fail, RedeemCode, PresentToken,
         RequestRevocation, LoseResponse, SigningFails, ConnectionFails, DeadlockVictim,
         IssueAccessOnly, CommitRedemption, RefuseRefresh, DetectReuse, BeginRotation,
         RevokeFamily, Respond

\* No rotation stretches the lifetime fixed when the family was opened.
THEOREM FamilyBoundsLifetimes == Spec => []NoTokenOutlivesItsFamily
<1>1. Init => NoTokenOutlivesItsFamily
  BY DEF Init, NoTokenOutlivesItsFamily, NoToken, NewToken
<1> QED BY <1>1, LifetimeStep, FamilyInvariant, PTL DEF Spec

-----------------------------------------------------------------------------
(* The endpoint implements the abstract family.                            *)

\* The mapped current token is the one exchangeable token of an active family.
LEMMA CurrentTokenIs ==
    ASSUME ExactlyOneCurrentToken, NEW f \in Families, family[f].status = "active"
    PROVE  /\ CurrentToken(f) \in Tokens
           /\ token[CurrentToken(f)].family = f
           /\ Unspent(CurrentToken(f))
           /\ \A u \in Tokens : token[u].family = f /\ Unspent(u) => u = CurrentToken(f)
<1>1. \E t \in TokensOf(f) : Unspent(t)
  BY DEF ExactlyOneCurrentToken
<1>2. CurrentToken(f) \in TokensOf(f) /\ Unspent(CurrentToken(f))
  BY <1>1 DEF CurrentToken
<1> QED BY <1>2 DEF ExactlyOneCurrentToken, TokensOf

\* The same in the next state.
LEMMA CurrentTokenIsPrimed ==
    ASSUME ExactlyOneCurrentToken', NEW f \in Families, family'[f].status = "active"
    PROVE  /\ CurrentToken(f)' \in Tokens
           /\ token'[CurrentToken(f)'].family = f
           /\ ~token'[CurrentToken(f)'].consumed /\ ~token'[CurrentToken(f)'].revoked
           /\ \A u \in Tokens :
                token'[u].family = f /\ ~token'[u].consumed /\ ~token'[u].revoked
                  => u = CurrentToken(f)'
<1>1. \E t \in TokensOf(f)' : Unspent(t)'
  BY DEF ExactlyOneCurrentToken
<1>2. CurrentToken(f)' \in TokensOf(f)' /\ Unspent(CurrentToken(f))'
  BY <1>1 DEF CurrentToken
<1>3. \A u, v \in TokensOf(f)' : Unspent(u)' /\ Unspent(v)' => u = v
  BY DEF ExactlyOneCurrentToken
<1> QED BY <1>2, <1>3 DEF TokensOf, Unspent

\* A family that is absent or closed has no exchangeable token.
LEMMA NoCurrentToken ==
    ASSUME FamilyInv, NEW f \in Families, family[f].status # "active"
    PROVE  CurrentToken(f) = None
<1>1. ASSUME NEW t \in TokensOf(f) PROVE ~Unspent(t)
  <2>1. t \in Tokens /\ token[t].family = f /\ f # None
    BY NoneIsNoRow DEF TokensOf
  <2>2. family[f].status \in {"revoked", "reused"}
    BY <2>1 DEF FamilyInv, TypeOK, FamilyRow, TokensAreGrounded
  <2> QED BY <2>2 DEF FamilyInv, ClosedFamilyIsFullyRevoked, Unspent
<1> QED BY <1>1 DEF CurrentToken

\* The same in the next state.
LEMMA NoCurrentTokenPrimed ==
    ASSUME FamilyInv', NEW f \in Families, family'[f].status # "active"
    PROVE  CurrentToken(f)' = None
<1>1. ASSUME NEW t \in TokensOf(f)' PROVE ~Unspent(t)'
  <2>1. t \in Tokens /\ token'[t].family = f /\ f # None
    BY NoneIsNoRow DEF TokensOf
  <2>2. family'[f].status \in {"revoked", "reused"}
    BY <2>1 DEF FamilyInv, TypeOK, FamilyRow, TokensAreGrounded
  <2> QED BY <2>1, <2>2 DEF FamilyInv, ClosedFamilyIsFullyRevoked, Unspent, TokensOf
<1> QED BY <1>1 DEF CurrentToken

\* A token value without a row was never accepted by any family.
LEMMA FreshIsUnused ==
    ASSUME FamilyInv, NEW t \in Tokens, token[t].family = None
    PROVE  Promise!Unused(t)
<1>1. Unspent(t)
  BY DEF FamilyInv, TokensAreGrounded, NoToken, NewToken, Unspent
<1>2. ASSUME NEW f \in Families PROVE CurrentToken(f) # t
  <2>1. CASE family[f].status = "active"
    BY <2>1, CurrentTokenIs, NoneIsNoRow DEF FamilyInv
  <2>2. CASE family[f].status # "active"
    BY <2>2, NoneIsNoRow, NoCurrentToken
  <2> QED BY <2>1, <2>2
<1> QED BY <1>1, <1>2 DEF Promise!Unused, SpentTokens

\* A step that changes no family or token row is a stutter.
LEMMA QuietMapsToStutter ==
    ASSUME FamilyInv, FamilyInv', UNCHANGED <<family, token>>
    PROVE  UNCHANGED Promise!familyVars
<1>1. \A f \in Families : FamilyState(f)' = FamilyState(f) /\ CurrentToken(f)' = CurrentToken(f)
  BY DEF FamilyState, CurrentToken, TokensOf, Unspent
<1>2. SpentTokens' = SpentTokens
  BY DEF SpentTokens, Unspent
<1> QED BY <1>1, <1>2 DEF Promise!familyVars

\* Opening a family opens the abstract one.
LEMMA IssueMapsToOpen ==
    ASSUME FamilyInv, FamilyInv',
           NEW r \in Requests, NEW f \in Families, NEW t \in Tokens, NEW life \in Lifetimes,
           IssueFamily(r, f, t, life)
    PROVE  Promise!Open(f, t)
<1>1. /\ token[t].family = None /\ Unspent(t) /\ family[f].status = "absent"
      /\ token'[t].family = f /\ ~token'[t].consumed /\ ~token'[t].revoked
      /\ \A u \in Tokens : u # t => token'[u] = token[u]
      /\ family'[f].status = "active"
      /\ \A g \in Families : g # f => family'[g] = family[g]
  BY NoneIsNoRow
     DEF IssueFamily, Fresh, FamilyInv, TypeOK, TokensAreGrounded, NewToken, NoToken, NoFamily,
         Unspent
<1>2. Promise!Unused(t)
  BY <1>1, FreshIsUnused
<1>3. FamilyState(f) = "absent" /\ CurrentToken(f) = None /\ FamilyState(f)' = "live"
  BY <1>1, NoCurrentToken DEF FamilyState
<1>4. CurrentToken(f)' = t
  BY <1>1, CurrentTokenIsPrimed DEF FamilyInv
<1>5. ASSUME NEW g \in Families, g # f
      PROVE  FamilyState(g)' = FamilyState(g) /\ CurrentToken(g)' = CurrentToken(g)
  <2>1. FamilyState(g)' = FamilyState(g)
    BY <1>1, <1>5 DEF FamilyState
  <2>2. CASE family[g].status = "active"
    BY <1>1, <1>5, <2>1, <2>2, CurrentTokenIs, CurrentTokenIsPrimed, NoneIsNoRow
       DEF FamilyInv, Unspent
  <2>3. CASE family[g].status # "active"
    BY <1>1, <1>5, <2>1, <2>3, NoCurrentToken, NoCurrentTokenPrimed
  <2> QED BY <2>1, <2>2, <2>3
<1>6. SpentTokens' = SpentTokens
  BY <1>1 DEF SpentTokens, Unspent
<1> QED BY <1>2, <1>3, <1>4, <1>5, <1>6 DEF Promise!Open

\* Committing a rotation rotates the abstract family.
LEMMA RotationMapsToRotate ==
    ASSUME FamilyInv, FamilyInv', NEW r \in Requests, NEW life \in Lifetimes,
           CommitRotation(r, life),
           NEW f \in Families, f = req[r].family,
           NEW t \in Tokens, t = req[r].token,
           NEW n \in Tokens, n = req[r].next
    PROVE  Promise!Rotate(f, n)
<1>1. /\ f # None
      /\ token[t].family = f /\ Unspent(t) /\ family[f].status = "active"
      /\ token[n].family = None /\ Unspent(n)
  <2>1. req[r].step = "rotating" /\ Grounded(r)
    BY DEF CommitRotation, FamilyInv, RequestsAreGrounded
  <2> QED BY <2>1, NoneIsNoRow DEF Grounded, NoToken, NewToken, Unspent
<1>2. /\ token'[t].family = f /\ token'[t].consumed
      /\ token'[n].family = f /\ ~token'[n].consumed /\ ~token'[n].revoked
      /\ \A u \in Tokens : u # t /\ u # n => token'[u] = token[u]
      /\ family' = family
  BY <1>1 DEF CommitRotation, FamilyInv, TypeOK, TokenRow, NewToken
<1>3. Promise!Unused(n)
  BY <1>1, FreshIsUnused
<1>4. CurrentToken(f) = t /\ CurrentToken(f)' = n
  BY <1>1, <1>2, CurrentTokenIs, CurrentTokenIsPrimed DEF FamilyInv
<1>5. ASSUME NEW g \in Families PROVE FamilyState(g)' = FamilyState(g)
  BY <1>2 DEF FamilyState
<1>6. ASSUME NEW g \in Families, g # f PROVE CurrentToken(g)' = CurrentToken(g)
  <2>1. CASE family[g].status = "active"
    BY <1>1, <1>2, <1>6, <2>1, CurrentTokenIs, CurrentTokenIsPrimed, NoneIsNoRow
       DEF FamilyInv, Unspent
  <2>2. CASE family[g].status # "active"
    BY <1>2, <2>2, NoCurrentToken, NoCurrentTokenPrimed
  <2> QED BY <2>1, <2>2
<1>7. SpentTokens' = SpentTokens \cup {t}
  BY <1>1, <1>2 DEF SpentTokens, Unspent
<1>8. FamilyState(f) = "live"
  BY <1>1 DEF FamilyState
<1> QED BY <1>1, <1>3, <1>4, <1>5, <1>6, <1>7, <1>8 DEF Promise!Rotate

\* Closing a family kills the abstract one, or finds it dead.
LEMMA CloseMapsToKill ==
    ASSUME FamilyInv, FamilyInv', NEW r \in Requests, CommitReuse(r) \/ CommitRevocation(r),
           NEW f \in Families, f = req[r].family
    PROVE  Promise!Kill(f) \/ UNCHANGED Promise!familyVars
<1>1. family[f].status # "absent"
  BY CloseIsAuthorized
<1>2. PICK s \in {"revoked", "reused"} : CloseFamily(f, s)
  BY CloseIsAuthorized
<1>3. /\ family'[f].status = s
      /\ \A g \in Families : g # f => family'[g] = family[g]
      /\ \A u \in Tokens : token[u].family = f => token'[u].revoked
      /\ \A u \in Tokens : token'[u].family = token[u].family
      /\ \A u \in Tokens : token[u].family # f => token'[u] = token[u]
      /\ \A u \in Tokens : token'[u].consumed = token[u].consumed
  BY <1>1, <1>2 DEF CloseFamily, FamilyInv, TypeOK, FamilyRow, TokenRow
<1>4. FamilyState(f)' = "dead" /\ CurrentToken(f)' = None
  BY <1>3, NoCurrentTokenPrimed DEF FamilyState
<1>5. ASSUME NEW g \in Families, g # f
      PROVE  FamilyState(g)' = FamilyState(g) /\ CurrentToken(g)' = CurrentToken(g)
  <2>1. FamilyState(g)' = FamilyState(g)
    BY <1>3, <1>5 DEF FamilyState
  <2>2. CASE family[g].status = "active"
    BY <1>3, <1>5, <2>1, <2>2, CurrentTokenIs, CurrentTokenIsPrimed DEF FamilyInv, Unspent
  <2>3. CASE family[g].status # "active"
    BY <1>3, <1>5, <2>1, <2>3, NoCurrentToken, NoCurrentTokenPrimed
  <2> QED BY <2>1, <2>2, <2>3
<1>6. CASE family[f].status = "active"
  <2>1. FamilyState(f) = "live"
    BY <1>6 DEF FamilyState
  <2>2. SpentTokens' = SpentTokens \cup {CurrentToken(f)}
    BY <1>1, <1>3, <1>6, CurrentTokenIs DEF SpentTokens, Unspent, FamilyInv
  <2> QED BY <1>1, <1>4, <1>5, <2>1, <2>2 DEF Promise!Kill
<1>7. CASE family[f].status # "active"
  <2>1. family[f].status \in {"revoked", "reused"}
    BY <1>1, <1>7 DEF FamilyInv, TypeOK, FamilyRow
  <2>2. FamilyState(f) = "dead" /\ CurrentToken(f) = None
    BY <1>7, <2>1, NoCurrentToken DEF FamilyState
  <2>3. SpentTokens' = SpentTokens
    BY <1>1, <1>3, <2>1
       DEF SpentTokens, Unspent, FamilyInv, ClosedFamilyIsFullyRevoked, TokensOf
  <2> QED BY <1>4, <1>5, <2>2, <2>3 DEF Promise!familyVars
<1> QED BY <1>6, <1>7

\* Every behaviour of the endpoint is one of the abstract family.
THEOREM ImplementsRefreshFamily == Spec => KeepsPromise
<1>1. Init => Promise!Init
  <2> SUFFICES ASSUME Init PROVE Promise!Init
    OBVIOUS
  <2>1. \A f \in Families : FamilyState(f) = "absent" /\ CurrentToken(f) = None
    BY InitFamilyInv, NoCurrentToken DEF Init, FamilyState, NoFamily
  <2>2. SpentTokens = {}
    BY DEF Init, SpentTokens, Unspent, NoToken, NewToken
  <2> QED BY <2>1, <2>2 DEF Promise!Init
<1>2. FamilyInv /\ FamilyInv' /\ [Next]_vars => [Promise!Next]_(Promise!familyVars)
  <2> SUFFICES ASSUME FamilyInv, FamilyInv', [Next]_vars
               PROVE  [Promise!Next]_(Promise!familyVars)
    OBVIOUS
  <2>1. CASE UNCHANGED <<family, token>>
    BY <2>1, QuietMapsToStutter
  <2>2. ASSUME NEW r \in Requests, NEW f \in Families, NEW t \in Tokens,
               NEW life \in Lifetimes, IssueFamily(r, f, t, life)
        PROVE  Promise!Next
    BY <2>2, IssueMapsToOpen DEF Promise!Next
  <2>3. ASSUME NEW r \in Requests, NEW life \in Lifetimes, CommitRotation(r, life)
        PROVE  Promise!Next
    <3>1. /\ req[r].family \in Families /\ req[r].token \in Tokens
          /\ req[r].next \in Tokens
      BY <2>3 DEF CommitRotation, FamilyInv, RequestsAreGrounded, Grounded
    <3> QED BY <2>3, <3>1, RotationMapsToRotate DEF Promise!Next
  <2>4. ASSUME NEW r \in Requests, CommitReuse(r) \/ CommitRevocation(r)
        PROVE  [Promise!Next]_(Promise!familyVars)
    <3>1. req[r].family \in Families
      BY <2>4, CloseIsAuthorized
    <3> QED BY <2>4, <3>1, CloseMapsToKill DEF Promise!Next
  <2> QED
    BY <2>1, <2>2, <2>3, <2>4
       DEF Next, vars, GrantCode, Tick, Arrive, Proceed, Fail, RedeemCode, PresentToken,
           RequestRevocation, LoseResponse, SigningFails, ConnectionFails, DeadlockVictim,
           IssueAccessOnly, CommitRedemption, RefuseRefresh, DetectReuse, BeginRotation,
           RevokeFamily, Respond
<1> QED BY <1>1, <1>2, FamilyInvariant, PTL DEF Spec, KeepsPromise, Promise!Spec

-----------------------------------------------------------------------------
(* One authorization code, one delivered family.                           *)

\* Released tokens have rows.
LEMMA ReleasedAreRows ==
    ASSUME FamilyInv, NEW t \in Released
    PROVE  t \in Tokens /\ token[t].family \in Families /\ token[t].family # None
<1>1. t \in Tokens /\ token[t].family # None
  BY DEF Released, FamilyInv, TypeOK, Request, RequestsAreGrounded, Grounded, TokensAreGrounded
<1> QED BY <1>1 DEF FamilyInv, TypeOK, TokenRow

\* A step of one request that changes no row and releases no token.
LEMMA QuietKeepsCodes ==
    ASSUME FamilyInv, CodesAreGrounded, UNCHANGED <<code, family, token, known>>,
           NEW r \in Requests, NEW m, req' = [req EXCEPT ![r] = m], m.step # "respond",
           CodeGrounded(r)',
           m.step \in {"issuing", "issued"} =>
                \A q \in Requests : q # r => ~HoldsCode(q, m.code)
    PROVE  CodesAreGrounded'
<1>1. req'[r] = m /\ \A q \in Requests : q # r => req'[q] = req[q]
  BY DEF FamilyInv, TypeOK
<1>2. Released' \subseteq Released
  BY <1>1 DEF Released
<1>3. \A q \in Requests : CodeGrounded(q)'
  BY <1>1 DEF CodesAreGrounded, CodeGrounded
<1>4. ASSUME NEW p \in Requests, NEW q \in Requests, NEW c \in Codes,
             HoldsCode(p, c)', HoldsCode(q, c)', p # q
      PROVE  FALSE
  <2>1. CASE p # r /\ q # r
    BY <1>1, <1>4, <2>1 DEF CodesAreGrounded, HoldsCode
  <2>2. CASE p = r
    BY <1>1, <1>4, <2>2 DEF HoldsCode
  <2>3. CASE q = r
    BY <1>1, <1>4, <2>3 DEF HoldsCode
  <2> QED BY <2>1, <2>2, <2>3
<1>5. \A t \in Tokens : CodeOf(t)' = CodeOf(t)
  BY DEF CodeOf
<1>6. Released \subseteq Tokens
  BY ReleasedAreRows
<1> QED BY <1>2, <1>3, <1>4, <1>5, <1>6 DEF CodesAreGrounded

\* The steps of that kind.
LEMMA QuietCodeStep ==
    ASSUME FamilyInv, CodesAreGrounded, NEW r \in Requests,
           \/ Arrive(r) \/ Fail(r) \/ IssueAccessOnly(r) \/ RefuseRefresh(r) \/ DetectReuse(r)
           \/ \E n \in Tokens : BeginRotation(r, n)
           \/ RevokeFamily(r)
    PROVE  CodesAreGrounded'
<1>1. UNCHANGED <<code, family, token, known>>
  BY DEF Arrive, Fail, RedeemCode, PresentToken, RequestRevocation, LoseResponse, SigningFails,
         ConnectionFails, DeadlockVictim, IssueAccessOnly, RefuseRefresh, DetectReuse,
         BeginRotation, RevokeFamily
<1>2. ASSUME NEW c \in Codes, NEW cl \in Clients, RedeemCode(r, c, cl)
      PROVE  CodesAreGrounded'
  <2> DEFINE m == [Idle EXCEPT !.step = "issuing", !.client = cl, !.code = c]
  <2>1. /\ req' = [req EXCEPT ![r] = m] /\ m.step = "issuing" /\ m.code = c
        /\ req'[r] = m /\ code[c].status = "issued" /\ CodeFree(c)
    BY <1>2 DEF RedeemCode, Idle, FamilyInv, TypeOK
  <2> HIDE DEF m
  <2>2. CodeGrounded(r)'
    BY <1>1, <2>1 DEF CodeGrounded
  <2> QED BY <1>1, <2>1, <2>2, QuietKeepsCodes DEF CodeFree
<1>3. ASSUME NEW t \in Tokens, NEW cl \in Clients, PresentToken(r, t, cl)
      PROVE  CodesAreGrounded'
  <2> DEFINE m == [Idle EXCEPT !.step = "locking", !.client = cl,
                               !.token = t, !.family = token[t].family]
  <2>1. /\ req' = [req EXCEPT ![r] = m] /\ m.step = "locking" /\ m.token = t
        /\ req'[r] = m /\ t \in known
    BY <1>3 DEF PresentToken, Idle, FamilyInv, TypeOK
  <2> HIDE DEF m
  <2>2. CodeGrounded(r)'
    BY <1>1, <2>1 DEF CodeGrounded
  <2> QED BY <1>1, <2>1, <2>2, QuietKeepsCodes
<1>4. ASSUME NEW t \in Tokens, NEW cl \in Clients, RequestRevocation(r, t, cl)
      PROVE  CodesAreGrounded'
  <2> DEFINE m == [Idle EXCEPT !.step = "revoke", !.client = cl, !.family = token[t].family]
  <2>1. /\ req' = [req EXCEPT ![r] = m] /\ m.step = "revoke" /\ req'[r] = m
    BY <1>4 DEF RequestRevocation, Idle, FamilyInv, TypeOK
  <2> HIDE DEF m
  <2>2. CodeGrounded(r)'
    BY <1>1, <2>1 DEF CodeGrounded
  <2> QED BY <1>1, <2>1, <2>2, QuietKeepsCodes
<1>5. CASE Finish(r)
  <2>1. req' = [req EXCEPT ![r] = Idle] /\ req'[r] = Idle /\ Idle.step = "idle"
    BY <1>5 DEF Finish, Idle, FamilyInv, TypeOK
  <2>2. CodeGrounded(r)'
    BY <2>1 DEF CodeGrounded
  <2> QED BY <1>1, <2>1, <2>2, QuietKeepsCodes
<1>6. ASSUME NEW s \in {"issued", "reuse", "revoking"}, Goto(r, s), CodeGrounded(r)',
             s = "issued" => req[r].step = "issuing" /\ req[r].code \in Codes
      PROVE  CodesAreGrounded'
  <2> DEFINE m == [req[r] EXCEPT !.step = s]
  <2>1. req' = [req EXCEPT ![r] = m] /\ m.step = s /\ m.code = req[r].code
    BY <1>6 DEF Goto, FamilyInv, TypeOK, Request
  <2> HIDE DEF m
  <2>2. s = "issued" => \A q \in Requests : q # r => ~HoldsCode(q, m.code)
    BY <1>6, <2>1 DEF CodesAreGrounded, HoldsCode
  <2> QED BY <1>1, <1>6, <2>1, <2>2, QuietKeepsCodes
<1>7. CASE IssueAccessOnly(r)
  <2>1. req[r].step = "issuing" /\ req[r].code \in Codes /\ req[r].next = None
        /\ req'[r] = [req[r] EXCEPT !.step = "issued"]
    BY <1>7 DEF IssueAccessOnly, Goto, FamilyInv, TypeOK, RequestsAreGrounded, Grounded
  <2>2. CodeGrounded(r)'
    BY <1>1, <2>1 DEF CodesAreGrounded, CodeGrounded, FamilyInv, TypeOK, Request
  <2> QED BY <1>6, <1>7, <2>1, <2>2 DEF IssueAccessOnly
<1>8. CASE DetectReuse(r)
  <2>1. req[r].step = "locking" /\ req'[r] = [req[r] EXCEPT !.step = "reuse"]
    BY <1>8 DEF DetectReuse, GetsFamily, Goto, FamilyInv, TypeOK
  <2>2. CodeGrounded(r)'
    BY <1>1, <2>1 DEF CodesAreGrounded, CodeGrounded, FamilyInv, TypeOK, Request
  <2> QED BY <1>6, <1>8, <2>2 DEF DetectReuse
<1>9. CASE RevokeFamily(r)
  <2>1. req'[r] = [req[r] EXCEPT !.step = "revoking"]
    BY <1>9 DEF RevokeFamily, Goto, FamilyInv, TypeOK
  <2>2. CodeGrounded(r)'
    BY <1>1, <2>1 DEF CodeGrounded, FamilyInv, TypeOK, Request
  <2> QED BY <1>6, <1>9, <2>2 DEF RevokeFamily
<1>10. ASSUME NEW n \in Tokens, BeginRotation(r, n) PROVE CodesAreGrounded'
  <2> DEFINE m == [req[r] EXCEPT !.step = "rotating", !.next = n]
  <2>1. /\ req' = [req EXCEPT ![r] = m] /\ m.step = "rotating" /\ m.token = req[r].token
        /\ req'[r] = m /\ req[r].step = "locking"
    BY <1>10 DEF BeginRotation, GetsFamily, FamilyInv, TypeOK, Request
  <2> HIDE DEF m
  <2>2. CodeGrounded(r)'
    BY <1>1, <2>1 DEF CodesAreGrounded, CodeGrounded
  <2> QED BY <1>1, <2>1, <2>2, QuietKeepsCodes
<1> QED
  BY <1>2, <1>3, <1>4, <1>5, <1>7, <1>8, <1>9, <1>10
     DEF Arrive, Fail, LoseResponse, SigningFails, ConnectionFails, DeadlockVictim, RefuseRefresh

\* Committing a redemption releases a token of a code nothing else goes back to.
LEMMA RedemptionCodeStep ==
    ASSUME FamilyInv, CodesAreGrounded, NEW r \in Requests, CommitRedemption(r),
           NEW c \in Codes, c = req[r].code,
           NEW n, n = req[r].next
    PROVE  CodesAreGrounded'
<1>1. /\ req[r].step = "issued" /\ code[c].status = "issued" /\ HoldsCode(r, c)
      /\ req'[r].step = "respond" /\ req'[r].next = n
      /\ \A q \in Requests : q # r => req'[q] = req[q]
      /\ code'[c].status = "consumed"
      /\ \A d \in Codes : d # c => code'[d] = code[d]
      /\ UNCHANGED <<family, token, known>>
  BY DEF CommitRedemption, Goto, HoldsCode, CodesAreGrounded, CodeGrounded, FamilyInv, TypeOK,
         CodeRow, Request
<1>2. n # None => n \in Tokens /\ token[n].family = req[r].family /\ CodeOf(n) = c
  BY <1>1 DEF CodesAreGrounded, CodeGrounded, CodeOf, FamilyInv, TypeOK, Request
<1>3. Released' \subseteq Released \cup ({n} \ {None})
  BY <1>1 DEF Released
<1>4. \A t \in Tokens : CodeOf(t)' = CodeOf(t)
  BY <1>1 DEF CodeOf
<1>5. \A t \in Released : t \in Tokens /\ CodeOf(t) \in Codes /\ CodeOf(t) # c
                        /\ code[CodeOf(t)].status = "consumed"
  BY <1>1, ReleasedAreRows DEF CodesAreGrounded
<1>6. \A t \in Released' : CodeOf(t)' \in Codes /\ code'[CodeOf(t)'].status = "consumed"
  BY <1>1, <1>2, <1>3, <1>4, <1>5
<1>7. \A t, u \in Released' : CodeOf(t)' = CodeOf(u)' => token'[t].family = token'[u].family
  BY <1>1, <1>2, <1>3, <1>4, <1>5 DEF CodesAreGrounded
<1>8. \A q \in Requests : CodeGrounded(q)'
  <2>1. ASSUME NEW q \in Requests, q # r PROVE CodeGrounded(q)'
    <3>1. CodeGrounded(q)
      BY DEF CodesAreGrounded
    <3>2. req[q].step \in {"issuing", "issued"} => req[q].code \in Codes /\ req[q].code # c
      BY <1>1, <2>1
         DEF CodesAreGrounded, HoldsCode, FamilyInv, RequestsAreGrounded, Grounded
    <3> QED BY <1>1, <2>1, <3>1, <3>2 DEF CodeGrounded
  <2> QED BY <1>1, <2>1 DEF CodeGrounded
<1>9. \A p, q \in Requests : \A d \in Codes : HoldsCode(p, d)' /\ HoldsCode(q, d)' => p = q
  BY <1>1 DEF CodesAreGrounded, HoldsCode
<1> QED BY <1>6, <1>7, <1>8, <1>9 DEF CodesAreGrounded

\* A new family goes back to a code that is still unconsumed.
LEMMA IssueCodeStep ==
    ASSUME FamilyInv, CodesAreGrounded,
           NEW r \in Requests, NEW f \in Families, NEW t \in Tokens, NEW life \in Lifetimes,
           IssueFamily(r, f, t, life)
    PROVE  CodesAreGrounded'
<1>1. /\ req[r].step = "issuing" /\ code[req[r].code].status = "issued"
      /\ req'[r].step = "issued" /\ req'[r].next = t /\ req'[r].family = f
      /\ req'[r].code = req[r].code
      /\ \A q \in Requests : q # r => req'[q] = req[q]
      /\ UNCHANGED <<code, known>>
  BY DEF IssueFamily, CodesAreGrounded, CodeGrounded, FamilyInv, TypeOK, Request
<1>2. /\ token[t].family = None /\ family[f].status = "absent"
      /\ token'[t].family = f /\ family'[f].code = req[r].code
      /\ \A u \in Tokens : u # t => token'[u] = token[u]
      /\ \A g \in Families : g # f => family'[g] = family[g]
      /\ \A q \in Requests : req[q].next # t
  BY DEF IssueFamily, Fresh, FamilyInv, TypeOK, NewToken, NoFamily
<1>3. Released' \subseteq Released
  BY <1>1 DEF Released
<1>4. ASSUME NEW u \in Released
      PROVE  u \in Tokens /\ token'[u] = token[u] /\ CodeOf(u)' = CodeOf(u)
  <2>1. u \in Tokens /\ token[u].family \in Families /\ token[u].family # None
    BY <1>4, ReleasedAreRows
  <2>2. token'[u] = token[u] /\ token[u].family # f
    BY <1>2, <2>1 DEF FamilyInv, TokensAreGrounded
  <2> QED BY <1>2, <2>1, <2>2 DEF CodeOf
<1>5. \A u \in Released' : CodeOf(u)' \in Codes /\ code'[CodeOf(u)'].status = "consumed"
  BY <1>1, <1>3, <1>4 DEF CodesAreGrounded
<1>6. \A u, v \in Released' : CodeOf(u)' = CodeOf(v)' => token'[u].family = token'[v].family
  BY <1>3, <1>4 DEF CodesAreGrounded
<1>7. \A q \in Requests : CodeGrounded(q)'
  <2>1. CodeGrounded(r)'
    BY <1>1, <1>2 DEF CodeGrounded
  <2>2. ASSUME NEW q \in Requests, q # r PROVE CodeGrounded(q)'
    <3>1. CodeGrounded(q) /\ Grounded(q)
      BY DEF CodesAreGrounded, FamilyInv, RequestsAreGrounded
    <3>2. req[q].step = "issued" /\ req[q].next # None =>
            token'[req[q].next] = token[req[q].next] /\ req[q].family # f
      BY <1>2, <3>1
         DEF CodeGrounded, Grounded, FamilyInv, TypeOK, Request, TokensAreGrounded
    <3> QED BY <1>1, <1>2, <2>2, <3>1, <3>2 DEF CodeGrounded
  <2> QED BY <2>1, <2>2
<1>8. \A p, q \in Requests : \A d \in Codes : HoldsCode(p, d)' /\ HoldsCode(q, d)' => p = q
  BY <1>1 DEF CodesAreGrounded, HoldsCode
<1> QED BY <1>5, <1>6, <1>7, <1>8 DEF CodesAreGrounded

\* A successor belongs to the family of a token that was already delivered.
LEMMA RotationCodeStep ==
    ASSUME FamilyInv, CodesAreGrounded, NEW r \in Requests, NEW life \in Lifetimes,
           CommitRotation(r, life),
           NEW f \in Families, f = req[r].family,
           NEW t \in Tokens, t = req[r].token,
           NEW n \in Tokens, n = req[r].next
    PROVE  CodesAreGrounded'
<1>1. /\ req[r].step = "rotating" /\ t \in Released
      /\ req'[r].step = "respond" /\ req'[r].next = n
      /\ \A q \in Requests : q # r => req'[q] = req[q]
      /\ UNCHANGED <<code, family, known>>
  BY DEF CommitRotation, Goto, CodesAreGrounded, CodeGrounded, Released, FamilyInv, TypeOK, Request
<1>2. /\ token[n].family = None /\ token[t].family = f
      /\ token'[n].family = f
      /\ \A u \in Tokens : u # n => token'[u].family = token[u].family
  <2>1. Grounded(r)
    BY DEF FamilyInv, RequestsAreGrounded
  <2>2. token[n].family = None /\ token[t].family = f
    BY <1>1, <2>1 DEF Grounded, NoToken, NewToken
  <2> QED BY <2>2 DEF CommitRotation, FamilyInv, TypeOK, TokenRow, NewToken
<1>3. Released' \subseteq Released \cup {n}
  BY <1>1 DEF Released
<1>4. \A u \in Released : u \in Tokens /\ u # n /\ CodeOf(u)' = CodeOf(u)
                        /\ token'[u].family = token[u].family
  BY <1>1, <1>2, ReleasedAreRows, NoneIsNoRow DEF CodeOf
<1>5. CodeOf(n)' = CodeOf(t) /\ token'[n].family = token[t].family
  BY <1>1, <1>2 DEF CodeOf
<1>6. \A u \in Released' : CodeOf(u)' \in Codes /\ code'[CodeOf(u)'].status = "consumed"
  BY <1>1, <1>3, <1>4, <1>5 DEF CodesAreGrounded
<1>7. \A u, v \in Released' : CodeOf(u)' = CodeOf(v)' => token'[u].family = token'[v].family
  BY <1>1, <1>3, <1>4, <1>5 DEF CodesAreGrounded
<1>8. \A q \in Requests : CodeGrounded(q)'
  <2>1. CodeGrounded(r)'
    BY <1>1 DEF CodeGrounded
  <2>2. ASSUME NEW q \in Requests, q # r PROVE CodeGrounded(q)'
    <3>1. CodeGrounded(q) /\ Grounded(q)
      BY DEF CodesAreGrounded, FamilyInv, RequestsAreGrounded
    <3>2. req[q].step = "issued" /\ req[q].next # None =>
            token'[req[q].next].family = token[req[q].next].family
      BY <1>2, <3>1 DEF Grounded, FamilyInv, TypeOK, Request
    <3> QED BY <1>1, <2>2, <3>1, <3>2 DEF CodeGrounded
  <2> QED BY <2>1, <2>2
<1>9. \A p, q \in Requests : \A d \in Codes : HoldsCode(p, d)' /\ HoldsCode(q, d)' => p = q
  BY <1>1 DEF CodesAreGrounded, HoldsCode
<1> QED BY <1>6, <1>7, <1>8, <1>9 DEF CodesAreGrounded

\* Closing a family, granting a code and answering leave the released tokens
\* with the codes they have.
LEMMA CloseCodeStep ==
    ASSUME FamilyInv, CodesAreGrounded, NEW r \in Requests,
           CommitReuse(r) \/ CommitRevocation(r)
    PROVE  CodesAreGrounded'
<1>1. PICK s \in {"revoked", "reused"} : CloseFamily(req[r].family, s)
  BY CloseIsAuthorized
<1>2. UNCHANGED <<code, known>> /\ Finish(r)
  BY DEF CommitReuse, CommitRevocation
<1>3. /\ req'[r].step = "idle"
      /\ \A q \in Requests : q # r => req'[q] = req[q]
  BY <1>2 DEF Finish, Idle, FamilyInv, TypeOK
<1>4. /\ \A g \in Families : family'[g].code = family[g].code
      /\ \A u \in Tokens : token'[u].family = token[u].family
  BY <1>1 DEF CloseFamily, FamilyInv, TypeOK, FamilyRow, TokenRow
<1>5. Released' \subseteq Released
  BY <1>2, <1>3 DEF Released
<1>6. \A u \in Released : u \in Tokens /\ CodeOf(u)' = CodeOf(u)
                        /\ token'[u].family = token[u].family
  BY <1>4, ReleasedAreRows DEF CodeOf
<1>7. \A q \in Requests : CodeGrounded(q)'
  <2>1. CodeGrounded(r)'
    BY <1>3 DEF CodeGrounded
  <2>2. ASSUME NEW q \in Requests, q # r PROVE CodeGrounded(q)'
    <3>1. CodeGrounded(q)
      BY DEF CodesAreGrounded
    <3>2. req[q].step = "issued" /\ req[q].next # None => req[q].next \in Tokens
      BY DEF FamilyInv, TypeOK, Request
    <3> QED BY <1>2, <1>3, <1>4, <2>2, <3>1, <3>2 DEF CodeGrounded
  <2> QED BY <2>1, <2>2
<1>8. \A p, q \in Requests : \A d \in Codes : HoldsCode(p, d)' /\ HoldsCode(q, d)' => p = q
  BY <1>3 DEF CodesAreGrounded, HoldsCode
<1>9. /\ \A u \in Released' : CodeOf(u)' \in Codes /\ code'[CodeOf(u)'].status = "consumed"
      /\ \A u, v \in Released' : CodeOf(u)' = CodeOf(v)' => token'[u].family = token'[v].family
  BY <1>2, <1>5, <1>6 DEF CodesAreGrounded
<1> QED BY <1>7, <1>8, <1>9 DEF CodesAreGrounded

LEMMA GrantCodeStep ==
    ASSUME FamilyInv, CodesAreGrounded,
           NEW c \in Codes, NEW cl \in Clients, NEW off \in BOOLEAN, GrantCode(c, cl, off)
    PROVE  CodesAreGrounded'
<1>1. /\ code[c].status = "absent"
      /\ \A d \in Codes : d # c => code'[d] = code[d]
      /\ UNCHANGED <<family, token, known, req>>
  BY DEF GrantCode, FamilyInv, TypeOK, NoCode
<1>2. Released' = Released /\ Released \subseteq Tokens
  BY <1>1, ReleasedAreRows DEF Released
<1>3. \A t \in Tokens : CodeOf(t)' = CodeOf(t)
  BY <1>1 DEF CodeOf
<1>4. \A q \in Requests : CodeGrounded(q)'
  BY <1>1 DEF CodesAreGrounded, CodeGrounded, FamilyInv, RequestsAreGrounded, Grounded
<1>5. \A t \in Released : CodeOf(t) # c
  BY <1>1 DEF CodesAreGrounded
<1>6. \A p, q \in Requests : \A d \in Codes : HoldsCode(p, d)' /\ HoldsCode(q, d)' => p = q
  BY <1>1 DEF CodesAreGrounded, HoldsCode
<1> QED BY <1>1, <1>2, <1>3, <1>4, <1>5, <1>6 DEF CodesAreGrounded

LEMMA RespondCodeStep ==
    ASSUME FamilyInv, CodesAreGrounded, NEW r \in Requests, Respond(r)
    PROVE  CodesAreGrounded'
<1>1. /\ req[r].step = "respond" /\ req'[r].step = "idle"
      /\ \A q \in Requests : q # r => req'[q] = req[q]
      /\ known' = known \cup ({req[r].next} \ {None})
      /\ UNCHANGED <<code, family, token>>
  BY DEF Respond, Finish, Idle, FamilyInv, TypeOK
<1>2. Released' \subseteq Released /\ Released \subseteq Tokens
  BY <1>1, ReleasedAreRows DEF Released
<1>3. \A t \in Tokens : CodeOf(t)' = CodeOf(t)
  BY <1>1 DEF CodeOf
<1>4. \A q \in Requests : CodeGrounded(q)'
  BY <1>1 DEF CodesAreGrounded, CodeGrounded
<1>5. \A p, q \in Requests : \A d \in Codes : HoldsCode(p, d)' /\ HoldsCode(q, d)' => p = q
  BY <1>1 DEF CodesAreGrounded, HoldsCode
<1> QED BY <1>1, <1>2, <1>3, <1>4, <1>5 DEF CodesAreGrounded

\* Every step keeps released tokens with consumed codes.
LEMMA CodeStep == FamilyInv /\ CodesAreGrounded /\ [Next]_vars => CodesAreGrounded'
<1> SUFFICES ASSUME FamilyInv, CodesAreGrounded, [Next]_vars PROVE CodesAreGrounded'
  OBVIOUS
<1>1. CASE UNCHANGED <<code, family, token, req, known>>
  BY <1>1
     DEF CodesAreGrounded, CodeGrounded, HoldsCode, Released, CodeOf
<1>2. ASSUME NEW r \in Requests, CommitRedemption(r) PROVE CodesAreGrounded'
  <2>1. req[r].code \in Codes
    BY <1>2 DEF CommitRedemption, FamilyInv, RequestsAreGrounded, Grounded
  <2> QED BY <1>2, <2>1, RedemptionCodeStep
<1>3. ASSUME NEW r \in Requests, NEW life \in Lifetimes, CommitRotation(r, life)
      PROVE  CodesAreGrounded'
  <2>1. req[r].family \in Families /\ req[r].token \in Tokens /\ req[r].next \in Tokens
    BY <1>3 DEF CommitRotation, FamilyInv, RequestsAreGrounded, Grounded
  <2> QED BY <1>3, <2>1, RotationCodeStep
<1>4. ASSUME NEW r \in Requests, Arrive(r) \/ Proceed(r) \/ Fail(r)
      PROVE  CodesAreGrounded'
  BY <1>2, <1>3, <1>4, QuietCodeStep, IssueCodeStep, CloseCodeStep, RespondCodeStep DEF Proceed
<1>5. CASE \E c \in Codes, cl \in Clients, off \in BOOLEAN : GrantCode(c, cl, off)
  BY <1>5, GrantCodeStep
<1>6. CASE Tick
  BY <1>1, <1>6 DEF Tick
<1>7. CASE UNCHANGED vars
  BY <1>1, <1>7 DEF vars
<1> QED BY <1>4, <1>5, <1>6, <1>7 DEF Next

\* One authorization code never brings two families into clients' hands,
\* whatever redemptions overlap, fail or repeat.
THEOREM OneFamilyPerCode == Spec => []OneDeliveredFamilyPerCode
<1>1. Init => CodesAreGrounded
  BY NoneIsNoRow DEF Init, Idle, CodesAreGrounded, CodeGrounded, HoldsCode, Released
<1>2. CodesAreGrounded => OneDeliveredFamilyPerCode
  BY DEF CodesAreGrounded, OneDeliveredFamilyPerCode, Released, CodeOf
<1> QED BY <1>1, <1>2, CodeStep, FamilyInvariant, PTL DEF Spec
=============================================================================
