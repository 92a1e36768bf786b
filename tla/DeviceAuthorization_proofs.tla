---------------------- MODULE DeviceAuthorization_proofs ----------------------
(***************************************************************************)
(* Proofs about DeviceAuthorization, for every number of requests, devices *)
(* and users, every lifetime, and every bound on the clock and interval.   *)
(***************************************************************************)
EXTENDS DeviceAuthorization, TLAPS

\* The initial state satisfies the inductive invariant.
LEMMA InitDeviceInv == Init => DeviceInv
<1> SUFFICES ASSUME Init PROVE DeviceInv
  OBVIOUS
<1>1. TypeOK
  BY DEF Init, TypeOK, DeviceRow, Request, Steps, Idle, NoDevice
<1>2. RequestsAreGrounded /\ LocksAreExclusive /\ OneResponse
  BY DEF Init, RequestsAreGrounded, Grounded, LocksAreExclusive, Holds, OneResponse, Idle
<1>3. RowsTellAll
  BY DEF Init, RowsTellAll, RowTellsAll, NoDevice
<1> QED
  BY <1>1, <1>2, <1>3 DEF DeviceInv

-----------------------------------------------------------------------------
(* The ways a step may change a request and the rows.                      *)

\* A request that ends, or that never locked a row, takes nothing from anyone:
\* if the rows stay as they are, so does the invariant.
LEMMA FinishKeepsInv ==
    ASSUME DeviceInv, NEW r \in Requests, Finish(r),
           UNCHANGED <<device, decided, delivered>>, now' \in Nat
    PROVE  DeviceInv'
<1> USE DEF DeviceInv
<1>1. /\ req'[r] = Idle
      /\ \A p \in Requests \ {r} : req'[p] = req[p]
      /\ req' \in [Requests -> Request]
  BY DEF Finish, TypeOK, Request, Idle, Steps
<1>2. TypeOK'
  BY <1>1 DEF TypeOK
<1>3. RequestsAreGrounded'
  BY <1>1 DEF RequestsAreGrounded, Grounded, Idle
<1>4. LocksAreExclusive' /\ OneResponse'
  BY <1>1 DEF LocksAreExclusive, OneResponse, Holds, Idle
<1>5. RowsTellAll'
  BY DEF RowsTellAll, RowTellsAll
<1> QED
  BY <1>2, <1>3, <1>4, <1>5

\* A request that finishes may leave the row's interval and the time of its last
\* poll changed: nothing but the pace of polling depends on them.
LEMMA PaceKeepsInv ==
    ASSUME DeviceInv, NEW r \in Requests, Finish(r), NEW d \in Devices,
           NEW row \in DeviceRow, row.status = device[d].status, row.user = device[d].user,
           device' = [device EXCEPT ![d] = row], UNCHANGED <<decided, delivered, now>>
    PROVE  DeviceInv'
<1> USE DEF DeviceInv
<1>1. /\ req'[r] = Idle
      /\ \A p \in Requests \ {r} : req'[p] = req[p]
      /\ req' \in [Requests -> Request]
  BY DEF Finish, TypeOK, Request, Idle, Steps
<1>2. /\ device' \in [Devices -> DeviceRow]
      /\ \A e \in Devices : device'[e].status = device[e].status /\ device'[e].user = device[e].user
  BY DEF TypeOK
<1> HIDE DEF DeviceRow
<1>3. TypeOK'
  BY <1>1, <1>2 DEF TypeOK
<1>4. RequestsAreGrounded'
  BY <1>1, <1>2 DEF RequestsAreGrounded, Grounded, Idle
<1>5. LocksAreExclusive' /\ OneResponse'
  BY <1>1 DEF LocksAreExclusive, OneResponse, Holds, Idle
<1>6. RowsTellAll'
  BY <1>2 DEF RowsTellAll, RowTellsAll
<1> QED
  BY <1>3, <1>4, <1>5, <1>6

\* A request that goes on, with the rows as they are, keeps the invariant if what
\* it says of its row is true and it locks only a free one.
LEMMA RequestKeepsInv ==
    ASSUME DeviceInv, NEW r \in Requests, NEW x \in Request, req' = [req EXCEPT ![r] = x],
           UNCHANGED <<device, decided, delivered, now>>,
           Grounded(r)', x.step # "respond",
           x.step \in {"deciding", "issuing", "issued"} =>
             \A p \in Requests \ {r} : ~Holds(p, x.device)
    PROVE  DeviceInv'
<1> USE DEF DeviceInv
<1>1. /\ req'[r] = x
      /\ \A p \in Requests \ {r} : req'[p] = req[p]
      /\ req' \in [Requests -> Request]
  BY DEF TypeOK
<1>2. TypeOK'
  BY <1>1 DEF TypeOK
<1>3. RequestsAreGrounded'
  BY <1>1 DEF RequestsAreGrounded, Grounded
<1>4. LocksAreExclusive'
  BY <1>1 DEF LocksAreExclusive, Holds
<1>5. OneResponse'
  BY <1>1 DEF OneResponse
<1>6. RowsTellAll'
  BY DEF RowsTellAll, RowTellsAll
<1> QED
  BY <1>2, <1>3, <1>4, <1>5, <1>6

-----------------------------------------------------------------------------
(* The steps that change what a row tells.                                 *)

\* A new row is pending, and nothing was decided for it or delivered.
LEMMA RegisterKeepsInv ==
    ASSUME DeviceInv, NEW d \in Devices, Register(d)
    PROVE  DeviceInv'
<1> USE DEF DeviceInv
<1> DEFINE row == [NoDevice EXCEPT !.status = "pending", !.expires = now + Lifetime]
<1>1. row \in DeviceRow /\ row.status = "pending"
  <2>1. now + Lifetime \in Nat
    BY TimesAreNaturals DEF TypeOK
  <2>2. NoDevice \in DeviceRow
    BY DEF NoDevice, DeviceRow
  <2> QED BY <2>1, <2>2 DEF DeviceRow
<1>2. device[d].status = "absent"
  BY DEF Register, NoDevice
<1> HIDE DEF row
<1>3. /\ device'[d] = row
      /\ \A e \in Devices \ {d} : device'[e] = device[e]
      /\ device' \in [Devices -> DeviceRow]
      /\ UNCHANGED <<req, decided, delivered, now>>
  BY <1>1 DEF Register, TypeOK, row
<1>4. TypeOK'
  BY <1>3 DEF TypeOK
<1>5. \A p \in Requests : req[p].step # "idle" => req[p].device # d
  BY <1>2 DEF RequestsAreGrounded, Grounded
<1>6. RequestsAreGrounded'
  BY <1>3, <1>5 DEF RequestsAreGrounded, Grounded, TypeOK, Request
<1>7. LocksAreExclusive' /\ OneResponse'
  BY <1>3 DEF LocksAreExclusive, OneResponse, Holds
<1>8. RowsTellAll'
  <2> SUFFICES ASSUME NEW e \in Devices PROVE RowTellsAll(e)'
    BY DEF RowsTellAll
  <2>1. RowTellsAll(e)
    BY DEF RowsTellAll
  <2>2. CASE e = d
    BY <1>1, <1>2, <1>3, <2>1, <2>2 DEF RowTellsAll
  <2>3. CASE e # d
    BY <1>3, <2>1, <2>3 DEF RowTellsAll
  <2> QED BY <2>2, <2>3
<1> QED
  BY <1>4, <1>6, <1>7, <1>8

\* The decision is the first: the row was pending and its lock was held since.
LEMMA DecideKeepsInv ==
    ASSUME DeviceInv, NEW r \in Requests, NEW choice \in Decisions, Decide(r, choice)
    PROVE  DeviceInv'
<1> USE DEF DeviceInv
<1> DEFINE d == req[r].device
           u == req[r].user
<1>1. /\ req[r].step = "deciding" /\ d \in Devices /\ u \in Users
      /\ device[d].status = "pending" /\ decided[d] = {}
      /\ \A v \in Users : delivered[d][v] = 0
  <2>1. req[r].step = "deciding" /\ d \in Devices /\ u \in Users /\ device[d].status = "pending"
    BY DEF Decide, RequestsAreGrounded, Grounded
  <2>2. RowTellsAll(d)
    BY <2>1 DEF RowsTellAll
  <2>3. decided[d] = {} /\ \A v \in Users : ~(delivered[d][v] > 0) /\ delivered[d][v] \in Nat
    BY <2>1, <2>2 DEF RowTellsAll, TypeOK
  <2> QED BY <2>1, <2>3
<1>2. /\ device' = [device EXCEPT ![d] = [device[d] EXCEPT !.status = choice, !.user = u]]
      /\ decided' = [decided EXCEPT ![d] = decided[d] \cup {<<u, choice>>}]
  <2>1. device' = [device EXCEPT ![d].status = choice, ![d].user = u]
    BY DEF Decide
  <2> QED BY <2>1, <1>1 DEF Decide, TypeOK
<1>3. /\ Finish(r) /\ UNCHANGED <<delivered, now>>
  BY DEF Decide
<1>4. /\ req'[r] = Idle
      /\ \A p \in Requests \ {r} : req'[p] = req[p]
      /\ req' \in [Requests -> Request]
  BY <1>3 DEF Finish, TypeOK, Request, Idle, Steps
<1>5. [device[d] EXCEPT !.status = choice, !.user = u] \in DeviceRow
  BY <1>1 DEF TypeOK, DeviceRow
<1>6. /\ device'[d].status = choice /\ device'[d].user = u
      /\ decided'[d] = {<<u, choice>>}
      /\ \A e \in Devices \ {d} : device'[e] = device[e] /\ decided'[e] = decided[e]
  BY <1>1, <1>2 DEF TypeOK, DeviceRow
<1>7. TypeOK'
  <2>1. device' \in [Devices -> DeviceRow]
    BY <1>1, <1>2, <1>5 DEF TypeOK
  <2>2. decided' \in [Devices -> SUBSET (Users \X Decisions)]
    BY <1>1, <1>2 DEF TypeOK
  <2> QED BY <2>1, <2>2, <1>3, <1>4 DEF TypeOK
<1>8. \A p \in Requests \ {r} : ~Holds(p, d)
  BY <1>1 DEF LocksAreExclusive, Holds
<1>9. RequestsAreGrounded'
  <2> SUFFICES ASSUME NEW p \in Requests PROVE Grounded(p)'
    BY DEF RequestsAreGrounded
  <2>1. Grounded(p)
    BY DEF RequestsAreGrounded
  <2>2. CASE p = r
    BY <1>4, <2>2 DEF Grounded, Idle
  <2>3. CASE p # r /\ req[p].device = d
    <3>1. req[p].step \notin {"deciding", "issuing", "issued", "respond"}
      BY <1>1, <1>8, <2>1, <2>3 DEF Grounded, Holds
    <3>2. device'[d].status # "absent"
      BY <1>6 DEF Decisions
    <3> QED BY <1>4, <2>1, <2>3, <3>1, <3>2 DEF Grounded
  <2>4. CASE p # r /\ req[p].device # d
    BY <1>3, <1>4, <1>6, <2>1, <2>4 DEF Grounded
  <2> QED BY <2>2, <2>3, <2>4
<1>10. LocksAreExclusive' /\ OneResponse'
  BY <1>4 DEF LocksAreExclusive, OneResponse, Holds, Idle
<1>11. RowsTellAll'
  <2> SUFFICES ASSUME NEW e \in Devices PROVE RowTellsAll(e)'
    BY DEF RowsTellAll
  <2>1. RowTellsAll(e)
    BY DEF RowsTellAll
  <2>2. CASE e = d
    <3>1. \A v \in Users : delivered'[e][v] = 0
      BY <1>1, <1>3, <2>2
    <3>2. CASE choice = "approved"
      BY <1>1, <1>6, <2>2, <3>1, <3>2 DEF RowTellsAll
    <3>3. CASE choice = "denied"
      BY <1>6, <2>2, <3>1, <3>3 DEF RowTellsAll
    <3> QED BY <3>2, <3>3 DEF Decisions
  <2>3. CASE e # d
    BY <1>3, <1>6, <2>1, <2>3 DEF RowTellsAll
  <2> QED BY <2>2, <2>3
<1> QED
  BY <1>7, <1>9, <1>10, <1>11

\* The redemption that commits is the only one: it held the row's lock, and no
\* response for a row that was not consumed can be on its way.
LEMMA CommitKeepsInv ==
    ASSUME DeviceInv, NEW r \in Requests, CommitRedemption(r)
    PROVE  DeviceInv'
<1> USE DEF DeviceInv
<1> DEFINE d == req[r].device
<1>1. /\ req[r].step = "issued" /\ d \in Devices
      /\ device[d].status = "approved" /\ req[r].user = device[d].user
      /\ \A v \in Users : delivered[d][v] = 0
  <2>1. req[r].step = "issued" /\ d \in Devices /\ device[d].status = "approved"
        /\ req[r].user = device[d].user
    BY DEF CommitRedemption, RequestsAreGrounded, Grounded
  <2>2. RowTellsAll(d)
    BY <2>1 DEF RowsTellAll
  <2>3. \A v \in Users : ~(delivered[d][v] > 0) /\ delivered[d][v] \in Nat
    BY <2>1, <2>2 DEF RowTellsAll, TypeOK
  <2> QED BY <2>1, <2>3
<1> DEFINE row == [device[d] EXCEPT !.status = "consumed", !.polled = req[r].began]
           x == [req[r] EXCEPT !.step = "respond"]
<1>2. /\ row \in DeviceRow /\ row.status = "consumed" /\ row.user = device[d].user
      /\ x \in Request /\ x.step = "respond" /\ x.device = d /\ x.user = req[r].user
  BY <1>1 DEF TypeOK, DeviceRow, Request, Steps
<1>3. device' = [device EXCEPT ![d] = row] /\ req' = [req EXCEPT ![r] = x]
      /\ UNCHANGED <<decided, delivered, now>>
  <2>1. device' = [device EXCEPT ![d].status = "consumed", ![d].polled = req[r].began]
    BY DEF CommitRedemption
  <2>2. device' = [device EXCEPT ![d] = row]
    BY <2>1, <1>1 DEF TypeOK
  <2> QED BY <2>2 DEF CommitRedemption, Goto
<1> HIDE DEF row, x
<1>4. /\ device'[d] = row /\ \A e \in Devices \ {d} : device'[e] = device[e]
      /\ req'[r] = x /\ \A p \in Requests \ {r} : req'[p] = req[p]
  BY <1>1, <1>3 DEF TypeOK
<1>5. TypeOK'
  BY <1>1, <1>2, <1>3 DEF TypeOK
<1>6. \A p \in Requests \ {r} : req[p].device = d =>
        req[p].step \notin {"deciding", "issuing", "issued", "respond"}
  BY <1>1 DEF LocksAreExclusive, Holds, RequestsAreGrounded, Grounded
<1>7. RequestsAreGrounded'
  <2> SUFFICES ASSUME NEW p \in Requests PROVE Grounded(p)'
    BY DEF RequestsAreGrounded
  <2>1. Grounded(p)
    BY DEF RequestsAreGrounded
  <2>2. CASE p = r
    BY <1>1, <1>2, <1>3, <1>4, <2>2 DEF Grounded
  <2>3. CASE p # r /\ req[p].device = d
    BY <1>2, <1>4, <1>6, <2>1, <2>3 DEF Grounded
  <2>4. CASE p # r /\ req[p].device # d
    BY <1>3, <1>4, <2>1, <2>4 DEF Grounded
  <2> QED BY <2>2, <2>3, <2>4
<1>8. LocksAreExclusive'
  BY <1>2, <1>4 DEF LocksAreExclusive, Holds
<1>9. OneResponse'
  BY <1>2, <1>4, <1>6 DEF OneResponse
<1>10. RowsTellAll'
  <2> SUFFICES ASSUME NEW e \in Devices PROVE RowTellsAll(e)'
    BY DEF RowsTellAll
  <2>1. RowTellsAll(e)
    BY DEF RowsTellAll
  <2>2. CASE e = d
    BY <1>1, <1>2, <1>3, <1>4, <2>1, <2>2 DEF RowTellsAll
  <2>3. CASE e # d
    BY <1>3, <1>4, <2>1, <2>3 DEF RowTellsAll
  <2> QED BY <2>2, <2>3
<1> QED
  BY <1>5, <1>7, <1>8, <1>9, <1>10

\* The response that arrives is the first for its device, and for the row's user.
LEMMA RespondKeepsInv ==
    ASSUME DeviceInv, NEW r \in Requests, Respond(r)
    PROVE  DeviceInv'
<1> USE DEF DeviceInv
<1> DEFINE d == req[r].device
           u == req[r].user
<1>1. /\ req[r].step = "respond" /\ d \in Devices /\ u \in Users
      /\ device[d].status = "consumed" /\ u = device[d].user
      /\ \A v \in Users : delivered[d][v] = 0
  BY DEF Respond, RequestsAreGrounded, Grounded, RowsTellAll, RowTellsAll
<1>2. /\ delivered' = [delivered EXCEPT ![d] = [delivered[d] EXCEPT ![u] = 1]]
      /\ Finish(r) /\ UNCHANGED <<device, decided, now>>
  <2>1. delivered' = [delivered EXCEPT ![d] = [delivered[d] EXCEPT ![u] = delivered[d][u] + 1]]
    BY DEF Respond
  <2>2. delivered[d][u] + 1 = 1
    BY <1>1
  <2> QED BY <2>1, <2>2 DEF Respond
<1>3. /\ delivered'[d][u] = 1
      /\ \A v \in Users \ {u} : delivered'[d][v] = 0
      /\ \A e \in Devices \ {d} : delivered'[e] = delivered[e]
      /\ delivered' \in [Devices -> [Users -> Nat]]
  BY <1>1, <1>2 DEF TypeOK
<1>4. /\ req'[r] = Idle
      /\ \A p \in Requests \ {r} : req'[p] = req[p]
      /\ req' \in [Requests -> Request]
  BY <1>2 DEF Finish, TypeOK, Request, Idle, Steps
<1>5. TypeOK'
  BY <1>2, <1>3, <1>4 DEF TypeOK
<1>6. RequestsAreGrounded'
  <2> SUFFICES ASSUME NEW p \in Requests PROVE Grounded(p)'
    BY DEF RequestsAreGrounded
  <2>1. Grounded(p)
    BY DEF RequestsAreGrounded
  <2>2. CASE p = r
    BY <1>4, <2>2 DEF Grounded, Idle
  <2>3. CASE p # r
    <3>1. req[p].step = "respond" => req[p].device # d
      BY <1>1, <2>3 DEF OneResponse
    <3> QED BY <1>2, <1>3, <1>4, <2>1, <2>3, <3>1 DEF Grounded
  <2> QED BY <2>2, <2>3
<1>7. LocksAreExclusive' /\ OneResponse'
  BY <1>4 DEF LocksAreExclusive, OneResponse, Holds, Idle
<1>8. RowsTellAll'
  <2> SUFFICES ASSUME NEW e \in Devices PROVE RowTellsAll(e)'
    BY DEF RowsTellAll
  <2>1. RowTellsAll(e)
    BY DEF RowsTellAll
  <2>2. CASE e = d
    <3>1. \A v \in Users : delivered'[e][v] <= 1 /\ (delivered'[e][v] > 0 => v = u)
      BY <1>3, <2>2
    <3> QED BY <1>1, <1>2, <2>1, <2>2, <3>1 DEF RowTellsAll
  <2>3. CASE e # d
    BY <1>2, <1>3, <2>1, <2>3 DEF RowTellsAll
  <2> QED BY <2>2, <2>3
<1> QED
  BY <1>5, <1>6, <1>7, <1>8

-----------------------------------------------------------------------------
\* Every step of a request keeps the invariant.
LEMMA ServeKeepsInv ==
    ASSUME DeviceInv, NEW r \in Requests, Serve(r)
    PROVE  DeviceInv'
<1> USE DEF DeviceInv
<1>0. req[r] \in Request /\ Grounded(r) /\ now \in Nat
  BY DEF TypeOK, RequestsAreGrounded
<1>1. ASSUME NEW d \in Devices, NEW step \in {"poll", "decide"}, NEW u \in Users \cup {None},
             step = "decide" => u \in Users, Arrive(r, d, step, u)
      PROVE  DeviceInv'
  <2> DEFINE x == [step |-> step, device |-> d, user |-> u, began |-> now]
  <2>1. x \in Request /\ x.step = step /\ x.device = d /\ x.user = u
    BY <1>0 DEF Request, Steps
  <2>2. /\ req' = [req EXCEPT ![r] = x] /\ device[d].status # "absent"
        /\ UNCHANGED <<device, decided, delivered, now>>
    BY <1>1 DEF Arrive
  <2> HIDE DEF x
  <2>3. req'[r] = x
    BY <2>2 DEF TypeOK
  <2>4. Grounded(r)'
    BY <1>1, <2>1, <2>2, <2>3 DEF Grounded
  <2> QED BY <2>1, <2>2, <2>4, RequestKeepsInv
<1>2. ASSUME NEW s \in Steps, Goto(r, s), s # "respond", Grounded(r)',
             UNCHANGED <<device, decided, delivered, now>>,
             s \in {"deciding", "issuing", "issued"} =>
               \A p \in Requests \ {r} : ~Holds(p, req[r].device)
      PROVE  DeviceInv'
  <2> DEFINE x == [req[r] EXCEPT !.step = s]
  <2>1. x \in Request /\ x.step = s /\ x.device = req[r].device
    BY <1>0 DEF Request
  <2>2. req' = [req EXCEPT ![r] = x]
    BY <1>2 DEF Goto, TypeOK
  <2> HIDE DEF x
  <2> QED BY <1>2, <2>1, <2>2, RequestKeepsInv
<1>3. CASE LockForDecision(r)
  <2>1. Grounded(r)'
    BY <1>0, <1>3 DEF LockForDecision, Gets, Decidable, Goto, Grounded, TypeOK, Request
  <2>2. \A p \in Requests \ {r} : ~Holds(p, req[r].device)
    BY <1>3 DEF LockForDecision, Gets, Free
  <2> QED BY <1>2, <1>3, <2>1, <2>2 DEF LockForDecision, Steps
<1>4. CASE RefuseDecision(r) \/ RefusePoll(r) \/ Fail(r)
  BY <1>0, <1>4, FinishKeepsInv DEF RefuseDecision, RefusePoll, Fail
<1>5. CASE \E choice \in Decisions : Decide(r, choice)
  BY <1>5, DecideKeepsInv
<1>6. ASSUME Gets(r, "poll") PROVE req[r].device \in Devices /\ device[req[r].device] \in DeviceRow
  BY <1>0, <1>6 DEF Gets, Grounded, TypeOK
<1>7. CASE SlowDown(r)
  <2> DEFINE row == [device[req[r].device] EXCEPT !.interval = @ + 1]
  <2>1. req[r].device \in Devices /\ device[req[r].device] \in DeviceRow
    BY <1>6, <1>7 DEF SlowDown
  <2>2. /\ row \in DeviceRow /\ row.status = device[req[r].device].status
        /\ row.user = device[req[r].device].user
    BY <2>1 DEF DeviceRow
  <2>3. device' = [device EXCEPT ![req[r].device] = row]
    BY <1>7, <2>1 DEF SlowDown, TypeOK
  <2> HIDE DEF row
  <2> QED BY <1>7, <2>1, <2>2, <2>3, PaceKeepsInv DEF SlowDown
<1>8. CASE AnswerPoll(r)
  <2> DEFINE row == [device[req[r].device] EXCEPT !.polled = req[r].began]
  <2>1. req[r].device \in Devices /\ device[req[r].device] \in DeviceRow /\ req[r].began \in Nat
    BY <1>0, <1>6, <1>8 DEF AnswerPoll, Examined, Request
  <2>2. /\ row \in DeviceRow /\ row.status = device[req[r].device].status
        /\ row.user = device[req[r].device].user
    BY <2>1 DEF DeviceRow
  <2>3. device' = [device EXCEPT ![req[r].device] = row]
    BY <1>8, <2>1 DEF AnswerPoll, TypeOK
  <2> HIDE DEF row
  <2> QED BY <1>8, <2>1, <2>2, <2>3, PaceKeepsInv DEF AnswerPoll
<1>9. CASE Redeem(r)
  <2> DEFINE x == [req[r] EXCEPT !.step = "issuing", !.user = device[req[r].device].user]
  <2>1. req[r].device \in Devices /\ device[req[r].device] \in DeviceRow
    BY <1>6, <1>9 DEF Redeem, Examined
  <2>2. /\ x \in Request /\ x.step = "issuing" /\ x.device = req[r].device
        /\ x.user = device[req[r].device].user
    BY <1>0, <2>1 DEF DeviceRow, Request, Steps
  <2>3. req' = [req EXCEPT ![r] = x] /\ UNCHANGED <<device, decided, delivered, now>>
    BY <1>9 DEF Redeem, TypeOK
  <2> HIDE DEF x
  <2>4. req'[r] = x
    BY <2>3 DEF TypeOK
  <2>5. Grounded(r)'
    BY <1>9, <2>1, <2>2, <2>3, <2>4 DEF Grounded, Redeem
  <2>6. \A p \in Requests \ {r} : ~Holds(p, x.device)
    BY <1>9, <2>2 DEF Redeem, Examined, Gets, Free
  <2> QED BY <2>2, <2>3, <2>5, <2>6, RequestKeepsInv
<1>10. CASE IssueTokens(r)
  <2>1. Grounded(r)'
    BY <1>0, <1>10 DEF IssueTokens, Goto, Grounded, TypeOK, Request
  <2>2. \A p \in Requests \ {r} : ~Holds(p, req[r].device)
    BY <1>0, <1>10 DEF IssueTokens, LocksAreExclusive, Holds, Grounded
  <2> QED BY <1>2, <1>10, <2>1, <2>2 DEF IssueTokens, Steps
<1>11. CASE CommitRedemption(r)
  BY <1>11, CommitKeepsInv
<1>12. CASE Respond(r)
  BY <1>12, RespondKeepsInv
<1>13. CASE \E d \in Devices : Arrive(r, d, "poll", None) \/ \E u \in Users : Arrive(r, d, "decide", u)
  <2>1. PICK d \in Devices : Arrive(r, d, "poll", None) \/ \E u \in Users : Arrive(r, d, "decide", u)
    BY <1>13
  <2>2. CASE Arrive(r, d, "poll", None)
    BY <2>2, <1>1
  <2>3. CASE \E u \in Users : Arrive(r, d, "decide", u)
    BY <2>3, <1>1
  <2> QED BY <2>1, <2>2, <2>3
<1> QED
  BY <1>3, <1>4, <1>5, <1>7, <1>8, <1>9, <1>10, <1>11, <1>12, <1>13 DEF Serve

\* Every step keeps the inductive invariant.
LEMMA NextKeepsDeviceInv == DeviceInv /\ [Next]_vars => DeviceInv'
<1> SUFFICES ASSUME DeviceInv, [Next]_vars PROVE DeviceInv'
  OBVIOUS
<1>1. ASSUME UNCHANGED <<device, req, decided, delivered>>, now' \in Nat PROVE DeviceInv'
  BY <1>1 DEF DeviceInv, TypeOK, RequestsAreGrounded, Grounded, LocksAreExclusive, Holds,
              OneResponse, RowsTellAll, RowTellsAll
<1>2. now \in Nat
  BY DEF DeviceInv, TypeOK
<1>3. CASE Tick
  BY <1>1, <1>2, <1>3 DEF Tick
<1>4. CASE UNCHANGED vars
  BY <1>1, <1>2, <1>4 DEF vars
<1> QED
  BY <1>3, <1>4, RegisterKeepsInv, ServeKeepsInv DEF Next

\* Requests see their rows as they were when locked, locks exclude each other, and
\* rows tell which decisions were taken (decision and deviceCodeGrant).
THEOREM DeviceInvariant == Spec => []DeviceInv
  BY InitDeviceInv, NextKeepsDeviceInv, PTL DEF Spec

\* Rows and requests keep their shape.
THEOREM TypeCorrect == Spec => []TypeOK
<1>1. DeviceInv => TypeOK
  BY DEF DeviceInv
<1> QED BY <1>1, DeviceInvariant, PTL

\* Any number of polls and failures bring a device one token response at most
\* (deviceCodeGrant).
THEOREM DeliveredOnceHolds == Spec => []DeliveredOnce
<1>1. DeviceInv => DeliveredOnce
  BY DEF DeviceInv, RowsTellAll, RowTellsAll, DeliveredOnce
<1> QED BY <1>1, DeviceInvariant, PTL

\* Tokens are for the one user who decided, and who approved (POST /device).
THEOREM DeliveryFollowsTheOnlyDecisionHolds == Spec => []DeliveryFollowsTheOnlyDecision
<1>1. DeviceInv => DeliveryFollowsTheOnlyDecision
  BY DEF DeviceInv, RowsTellAll, RowTellsAll, DeliveryFollowsTheOnlyDecision
<1> QED BY <1>1, DeviceInvariant, PTL
=============================================================================
