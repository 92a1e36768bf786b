--------------------------- MODULE Webhooks_proofs ---------------------------
(***************************************************************************)
(* Proofs about Webhooks, for every finite set of users and of runs and    *)
(* every bound.                                                            *)
(***************************************************************************)
EXTENDS Webhooks, FiniteSetTheorems, SequenceTheorems, TLAPS

-----------------------------------------------------------------------------
(* Sets as sequences.                                                      *)

\* A sequence of the elements of a set, each once.
Permutation(us, S) ==
    /\ us \in Seq(S) /\ Len(us) = Cardinality(S) /\ Cardinality(S) \in Nat
    /\ \A i, j \in 1 .. Len(us) : us[i] = us[j] => i = j
    /\ \A x \in S : \E i \in 1 .. Len(us) : us[i] = x

LEMMA InjectionsArePermutations ==
  ASSUME NEW S, IsFiniteSet(S), NEW us \in Injection(1 .. Cardinality(S), S)
  PROVE  Permutation(us, S)
<1>1. PICK n \in Nat : n = Cardinality(S)
  BY FS_CardinalityType
<1>2. us \in [1 .. n -> S] /\ \A i, j \in 1 .. n : us[i] = us[j] => i = j
  BY <1>1 DEF Injection, IsInjective
<1>3. us \in Seq(S) /\ Len(us) = n
  BY <1>2
<1>4. Cardinality(1 .. n) = n
  BY FS_Interval
<1>5. us \in Surjection(1 .. n, S)
  BY <1>1, <1>4, FS_Injection
<1>6. \A x \in S : \E i \in 1 .. n : us[i] = x
  BY <1>5 DEF Surjection
<1> QED BY <1>1, <1>2, <1>3, <1>6 DEF Permutation

LEMMA SetToSeqsPermutes ==
  ASSUME NEW S, IsFiniteSet(S), NEW us \in SetToSeqs(S)
  PROVE  Permutation(us, S)
<1>1. us \in Injection(1 .. Cardinality(S), S)
  BY DEF SetToSeqs, Injection, IsInjective
<1> QED BY <1>1, InjectionsArePermutations

LEMMA SetToSeqPermutes ==
  ASSUME NEW S, IsFiniteSet(S), NEW us, us = SetToSeq(S)
  PROVE  Permutation(us, S)
<1>1. ExistsBijection(1 .. Cardinality(S), S)
  BY FS_CardinalityType
<1>2. \E f \in [1 .. Cardinality(S) -> S] : IsInjective(f)
  BY <1>1 DEF ExistsBijection, Bijection, Injection
<1>3. us \in [1 .. Cardinality(S) -> S] /\ IsInjective(us)
  BY <1>2 DEF SetToSeq
<1>4. us \in Injection(1 .. Cardinality(S), S)
  BY <1>3 DEF Injection
<1> QED BY <1>4, InjectionsArePermutations

-----------------------------------------------------------------------------
(* What the invariant says of the variables.                               *)

LEMMA Facts ==
  ASSUME WebhooksInv
  PROVE  /\ TypeOK /\ EventsOK /\ SyncOK /\ CountOK /\ ReceiverOK
         /\ \A d \in Rows : RowOK(d) /\ LastOK(d) /\ AttemptsOK(d) /\ StatusOK(d)
         /\ \A r \in Runs : RunOK(r)
         /\ delivery \in Seq(Delivery) /\ Rows = 1 .. Len(delivery) /\ Len(delivery) \in Nat
         /\ \A d \in Rows : delivery[d] \in Delivery
         /\ events \in Seq([type: Types, user: Users])
         /\ DOMAIN events = 1 .. Len(events) /\ Len(events) \in Nat
         /\ \A e \in DOMAIN events : events[e] \in [type: Types, user: Users]
         /\ clock \in Nat
<1>1. TypeOK
  BY DEF WebhooksInv
<1>2. delivery \in Seq(Delivery) /\ events \in Seq([type: Types, user: Users]) /\ clock \in Nat
  BY <1>1 DEF TypeOK
<1>3. /\ Len(delivery) \in Nat /\ DOMAIN delivery = 1 .. Len(delivery)
      /\ \A d \in DOMAIN delivery : delivery[d] \in Delivery
  BY <1>2
<1>4. /\ Len(events) \in Nat /\ DOMAIN events = 1 .. Len(events)
      /\ \A e \in DOMAIN events : events[e] \in [type: Types, user: Users]
  <2>1. PICK E : E = [type: Types, user: Users]
    OBVIOUS
  <2>2. events \in Seq(E)
    BY <1>2, <2>1
  <2>3. Len(events) \in Nat /\ DOMAIN events = 1 .. Len(events) /\ \A e \in DOMAIN events : events[e] \in E
    BY <2>2
  <2> QED BY <2>1, <2>3
<1> QED BY <1>2, <1>3, <1>4 DEF WebhooksInv, Rows

LEMMA BatchFacts ==
  ASSUME WebhooksInv, NEW r \in Runs
  PROVE  /\ run[r] \in Run /\ run[r].batch \in Seq(Copy) /\ Len(run[r].batch) \in Nat
         /\ DOMAIN run[r].batch = 1 .. Len(run[r].batch)
         /\ \A i \in DOMAIN run[r].batch : run[r].batch[i] \in Copy
         /\ run[r].batch # <<>> => /\ 1 \in DOMAIN run[r].batch
                                   /\ Head(run[r].batch) = run[r].batch[1]
<1>1. run[r] \in Run
  BY DEF WebhooksInv, TypeOK
<1>2. run[r].batch \in Seq(Copy)
  BY <1>1 DEF Run
<1> QED BY <1>1, <1>2

-----------------------------------------------------------------------------
(* What steps make of the rows.                                            *)

\* No row comes or goes, and none changes but for its attempts.
RowsStay ==
    /\ delivery' \in Seq(Delivery) /\ Rows' = Rows
    /\ \A d \in Rows : /\ delivery'[d] \in Delivery
                       /\ delivery'[d].event = delivery[d].event /\ delivery'[d].at = delivery[d].at
                       /\ delivery'[d].type = delivery[d].type /\ delivery'[d].user = delivery[d].user

LEMMA UnchangedRowsStay ==
  ASSUME WebhooksInv, UNCHANGED delivery
  PROVE  RowsStay
  BY Facts DEF RowsStay, Rows

\* A run takes rows: those another run has in hand are shared from now on.
Taken(r) == {d \in Rows : \E i \in DOMAIN run'[r].batch : run'[r].batch[i].id = d}

LEMMA SelectIs ==
  ASSUME WebhooksInv, NEW r \in Runs, Select(r)
  PROVE  /\ run[r] = Waiting /\ connection = "enabled" /\ ~Locked
         /\ UNCHANGED <<connection, user, events, sync, clock, receiver, unordered, spent>>
         /\ run' = [q \in Runs |-> run'[q]] /\ \A q \in Runs \ {r} : run'[q] = run[q]
         /\ run'[r] \in Run /\ run'[r].step = "sending" /\ run'[r].batch # <<>>
         /\ \A i \in DOMAIN run'[r].batch :
               LET d == run'[r].batch[i].id
               IN  d \in Rows /\ Selectable(d) /\ run'[r].batch[i] = CopyOf(d)
         /\ \A i, j \in DOMAIN run'[r].batch :
               run'[r].batch[i].id = run'[r].batch[j].id => i = j
         /\ \A j \in DOMAIN run'[r].batch, d \in Rows :
               Selectable(d) /\ delivery[d].at < delivery[run'[r].batch[j].id].at
                   => \E i \in DOMAIN run'[r].batch : i < j /\ run'[r].batch[i].id = d
         /\ delivery' \in Seq(Delivery) /\ Rows' = Rows
         /\ \A d \in Rows :
               /\ delivery'[d] = [delivery[d] EXCEPT !.shared = delivery'[d].shared]
               /\ delivery'[d].shared = (delivery[d].shared
                     \/ (d \in Taken(r) /\ \E q \in Runs \ {r} : InHand(q, d)))
<1> DEFINE S == {d \in Rows : Selectable(d)}
<1>1. IsFiniteSet(S)
  <2>1. IsFiniteSet(Rows)
    BY Facts, FS_Interval
  <2> QED BY <2>1, FS_Subset
<1>2. PICK q \in SetToSeqs(S) :
        /\ \A i, j \in DOMAIN q : i < j => delivery[q[i]].at <= delivery[q[j]].at
        /\ LET taken == SubSeq(q, 1, IF Len(q) < Limit THEN Len(q) ELSE Limit)
           IN  /\ taken # <<>>
               /\ run' = [run EXCEPT ![r] = [@ EXCEPT !.step = "sending",
                                         !.batch = [i \in DOMAIN taken |-> CopyOf(taken[i])]]]
               /\ delivery' = [d \in DOMAIN delivery |->
                      IF d \in Range(taken) /\ \E p \in Runs \ {r} : InHand(p, d)
                      THEN [delivery[d] EXCEPT !.shared = TRUE] ELSE delivery[d]]
  <2>1. PICK taken \in Oldest({d \in DOMAIN delivery : Selectable(d)}) :
          /\ taken # <<>>
          /\ run' = [run EXCEPT ![r] = [@ EXCEPT !.step = "sending",
                                    !.batch = [i \in DOMAIN taken |-> CopyOf(taken[i])]]]
          /\ delivery' = [d \in DOMAIN delivery |->
                 IF d \in Range(taken) /\ \E p \in Runs \ {r} : InHand(p, d)
                 THEN [delivery[d] EXCEPT !.shared = TRUE] ELSE delivery[d]]
    BY DEF Select
  <2>2. S = {d \in DOMAIN delivery : Selectable(d)}
    BY DEF Rows
  <2>3. PICK q \in SetToSeqs(S) :
          /\ \A i, j \in DOMAIN q : i < j => delivery[q[i]].at <= delivery[q[j]].at
          /\ taken = SubSeq(q, 1, IF Len(q) < Limit THEN Len(q) ELSE Limit)
    BY <2>1, <2>2 DEF Oldest
  <2> QED BY <2>1, <2>3
<1>3. Permutation(q, S)
  BY <1>1, SetToSeqsPermutes
<1>4. PICK n \in Nat : n = Len(q) /\ q \in [1 .. n -> S]
  <2>1. q \in Seq(S)
    BY <1>3 DEF Permutation
  <2>2. Len(q) \in Nat /\ q \in [1 .. Len(q) -> S]
    BY <2>1, LenProperties
  <2> QED BY <2>2
<1>5. PICK m \in 0 .. n : m = IF n < Limit THEN n ELSE Limit
  BY BoundsAreNaturals
<1>6. PICK taken : taken = SubSeq(q, 1, m)
  OBVIOUS
<1>7. /\ taken \in Seq(S) /\ Len(taken) = m /\ DOMAIN taken = 1 .. m
      /\ \A i \in 1 .. m : taken[i] = q[i]
  <2>1. \A i \in 1 .. m : q[i] \in S
    BY <1>4
  <2>2. taken \in Seq(S) /\ Len(taken) = m /\ \A i \in 1 .. m : taken[i] = q[i]
    BY <1>5, <1>6, <2>1, SubSeqProperties
  <2> QED BY <2>2
<1>8. /\ taken # <<>>
      /\ run' = [run EXCEPT ![r] = [@ EXCEPT !.step = "sending",
                                    !.batch = [i \in 1 .. m |-> CopyOf(taken[i])]]]
      /\ delivery' = [d \in DOMAIN delivery |->
             IF d \in Range(taken) /\ \E p \in Runs \ {r} : InHand(p, d)
             THEN [delivery[d] EXCEPT !.shared = TRUE] ELSE delivery[d]]
  BY <1>2, <1>4, <1>5, <1>6, <1>7
<1>9. m # 0
  BY <1>7, <1>8
<1>10. PICK batch : batch = [i \in 1 .. m |-> CopyOf(taken[i])]
  OBVIOUS
<1>11. /\ batch \in Seq(Copy) /\ DOMAIN batch = 1 .. m /\ batch # <<>>
       /\ \A i \in 1 .. m : batch[i] = CopyOf(q[i]) /\ batch[i].id = q[i] /\ q[i] \in S
  <2>1. \A i \in 1 .. m : q[i] \in S /\ CopyOf(q[i]) \in Copy /\ CopyOf(q[i]).id = q[i]
    <3> SUFFICES ASSUME NEW i \in 1 .. m
                 PROVE  q[i] \in S /\ CopyOf(q[i]) \in Copy /\ CopyOf(q[i]).id = q[i]
      OBVIOUS
    <3>1. q[i] \in S /\ q[i] \in Rows /\ q[i] \in Nat /\ delivery[q[i]] \in Delivery
      BY <1>4, Facts
    <3> QED BY <3>1 DEF CopyOf, Copy, Delivery
  <2>2. batch \in [1 .. m -> Copy]
    BY <1>7, <1>10, <2>1
  <2>3. batch \in Seq(Copy)
    BY <2>2
  <2> QED BY <1>7, <1>9, <1>10, <2>1, <2>2, <2>3
<1>12. run[r] = Waiting /\ connection = "enabled" /\ ~Locked
       /\ UNCHANGED <<connection, user, events, sync, clock, receiver, unordered, spent>>
  BY DEF Select
<1>13. /\ run' = [p \in Runs |-> run'[p]] /\ \A p \in Runs \ {r} : run'[p] = run[p]
       /\ run'[r] = [step |-> "sending", batch |-> batch, ok |-> FALSE]
  <2>1. run = [p \in Runs |-> run[p]]
    BY DEF WebhooksInv, TypeOK
  <2>2. run' = [run EXCEPT ![r] = [step |-> "sending", batch |-> batch, ok |-> FALSE]]
    <3>1. PICK x \in Run : x = Waiting /\ x.ok = FALSE
      BY <1>12, BatchFacts DEF Waiting
    <3>2. PICK w : w = [x EXCEPT !.step = "sending", !.batch = batch]
      OBVIOUS
    <3>3. run' = [run EXCEPT ![r] = w]
      BY <1>8, <1>10, <1>12, <3>1, <3>2
    <3>4. w = [step |-> "sending", batch |-> batch, ok |-> x.ok]
      BY <3>2 DEF Run
    <3> QED BY <3>1, <3>3, <3>4
  <2> QED BY <2>1, <2>2
<1>14. run'[r] \in Run /\ run'[r].batch = batch /\ run'[r].step = "sending"
  BY <1>11, <1>13 DEF Run
<1>15. \A i, j \in 1 .. m : q[i] = q[j] => i = j
  BY <1>3, <1>4 DEF Permutation
<1>16. ASSUME NEW j \in 1 .. m, NEW d \in Rows, Selectable(d), delivery[d].at < delivery[q[j]].at
       PROVE  \E i \in 1 .. m : i < j /\ q[i] = d
  <2>1. PICK i \in 1 .. n : q[i] = d
    BY <1>3, <1>4, <1>16 DEF Permutation
  <2>2. delivery[d].at \in Nat /\ delivery[q[j]].at \in Nat /\ j \in 1 .. n
    <3>1. delivery[d] \in Delivery /\ delivery[q[j]] \in Delivery
      BY <1>11, Facts
    <3> QED BY <3>1 DEF Delivery
  <2>3. i # j
    BY <1>16, <2>1, <2>2
  <2>4. ~(j < i)
    <3>1. j < i => delivery[q[j]].at <= delivery[q[i]].at
      BY <1>2, <1>4, <2>2
    <3> QED BY <1>16, <2>1, <2>2, <3>1
  <2> QED BY <2>1, <2>3, <2>4
<1>17. Taken(r) = Range(taken) /\ Range(taken) \subseteq Rows
  <2>1. Range(taken) = {q[i] : i \in 1 .. m}
    BY <1>7 DEF Range
  <2> QED BY <1>11, <1>14, <2>1 DEF Taken
<1>18. /\ Rows' = Rows
       /\ \A d \in Rows :
             /\ delivery'[d] = [delivery[d] EXCEPT !.shared = delivery'[d].shared]
             /\ delivery'[d] \in Delivery
             /\ delivery'[d].shared = (delivery[d].shared
                   \/ (d \in Taken(r) /\ \E p \in Runs \ {r} : InHand(p, d)))
  <2>1. Rows' = Rows
    BY <1>8 DEF Rows
  <2>2. ASSUME NEW d \in Rows
        PROVE  /\ delivery'[d] = [delivery[d] EXCEPT !.shared = delivery'[d].shared]
               /\ delivery'[d] \in Delivery
               /\ delivery'[d].shared = (delivery[d].shared
                     \/ (d \in Taken(r) /\ \E p \in Runs \ {r} : InHand(p, d)))
    <3>1. PICK x \in Delivery : x = delivery[d]
      BY Facts
    <3>2. delivery'[d] = IF d \in Taken(r) /\ \E p \in Runs \ {r} : InHand(p, d)
                         THEN [x EXCEPT !.shared = TRUE] ELSE x
      BY <1>8, <1>17, <3>1 DEF Rows
    <3> QED BY <3>1, <3>2 DEF Delivery
  <2> QED BY <2>1, <2>2
<1>19. delivery' \in Seq(Delivery)
  <2>1. delivery' \in [1 .. Len(delivery) -> Delivery]
    BY <1>8, <1>18, Facts DEF Rows
  <2> QED BY <2>1, Facts
<1> QED BY <1>11, <1>12, <1>13, <1>14, <1>15, <1>16, <1>18, <1>19
-----------------------------------------------------------------------------
(* The invariant of the next state, part by part.                          *)

\* TypeOK without what AttemptsOK and RunOK imply.
Shapes ==
    /\ connection \in {"none", "enabled", "deleted"}
    /\ user \in [Users -> {"new", "present", "deleted"}]
    /\ events \in Seq([type: Types, user: Users])
    /\ delivery \in Seq(Delivery)
    /\ sync \in [step: {"none", "read"}, users: SUBSET Users, at: Nat]
    /\ run \in [Runs -> Run]
    /\ receiver \in [accounts: SUBSET Users, seen: SUBSET Ids]
    /\ unordered \subseteq Users
    /\ clock \in Nat /\ spent \in [syncs: Nat, crashes: Nat]

Parts ==
    /\ Shapes /\ EventsOK /\ SyncOK /\ CountOK /\ ReceiverOK
    /\ \A d \in Rows : RowOK(d) /\ LastOK(d) /\ AttemptsOK(d) /\ StatusOK(d)
    /\ \A r \in Runs : RunOK(r)

LEMMA HoldersAreFinite ==
  ASSUME NEW H, H \subseteq Runs
  PROVE  Cardinality(H) \in Nat /\ Cardinality(H) <= Cardinality(Runs) /\ Cardinality(Runs) \in Nat
  BY UsersAndRunsAreFinite, FS_Subset, FS_CardinalityType

LEMMA InvHasParts == WebhooksInv => Parts
  BY DEF WebhooksInv, Parts, TypeOK, Shapes

LEMMA PartsMakeInv == Parts => WebhooksInv
<1> SUFFICES ASSUME Parts
             PROVE  AttemptsAreBounded /\ \A r \in Runs : IsInjective(run[r].batch)
  BY DEF WebhooksInv, Parts, TypeOK, Shapes
<1>1. AttemptsAreBounded
  <2> SUFFICES ASSUME NEW d \in Rows
               PROVE  delivery[d].attempt
                        <= Attempts + (IF delivery[d].shared THEN Cardinality(Runs) ELSE 1)
    BY DEF AttemptsAreBounded, Rows
  <2>1. delivery[d].attempt \in Nat
    <3>1. delivery[d] \in Delivery
      BY DEF Parts, Shapes, Rows
    <3> QED BY <3>1 DEF Delivery
  <2>2. Cardinality(Holders(d)) \in Nat /\ Cardinality(Runs) \in Nat
    BY HoldersAreFinite DEF Holders
  <2>3. delivery[d].attempt + Cardinality(Holders(d))
          <= Attempts + (IF delivery[d].shared THEN Cardinality(Runs) ELSE 1)
    BY DEF Parts, AttemptsOK
  <2> QED BY <2>1, <2>2, <2>3, BoundsAreNaturals
<1>2. ASSUME NEW r \in Runs
      PROVE  IsInjective(run[r].batch)
  BY DEF Parts, RunOK, BatchOK, IsInjective
<1> QED BY <1>1, <1>2

LEMMA PartsMakeInvNext == Parts' => WebhooksInv'
<1> SUFFICES ASSUME Parts'
             PROVE  AttemptsAreBounded' /\ \A r \in Runs : IsInjective(run'[r].batch)
  BY DEF WebhooksInv, Parts, TypeOK, Shapes
<1>1. AttemptsAreBounded'
  <2> SUFFICES ASSUME NEW d \in Rows'
               PROVE  delivery'[d].attempt
                        <= Attempts + (IF delivery'[d].shared THEN Cardinality(Runs) ELSE 1)
    BY DEF AttemptsAreBounded, Rows
  <2>1. delivery'[d].attempt \in Nat
    <3>1. delivery'[d] \in Delivery
      BY DEF Parts, Shapes, Rows
    <3> QED BY <3>1 DEF Delivery
  <2>2. Cardinality(Holders(d)') \in Nat /\ Cardinality(Runs) \in Nat
    BY HoldersAreFinite DEF Holders
  <2>3. delivery'[d].attempt + Cardinality(Holders(d)')
          <= Attempts + (IF delivery'[d].shared THEN Cardinality(Runs) ELSE 1)
    BY DEF Parts, AttemptsOK
  <2> QED BY <2>1, <2>2, <2>3, BoundsAreNaturals
<1>2. ASSUME NEW r \in Runs
      PROVE  IsInjective(run'[r].batch)
  BY DEF Parts, RunOK, BatchOK, IsInjective
<1> QED BY <1>1, <1>2

LEMMA UnqueuedStays ==
  ASSUME RowsStay, UNCHANGED events
  PROVE  Unqueued' = Unqueued
  BY DEF RowsStay, Unqueued, Rows

\* What a row is about, and what it is not followed by, depends on no attempt.
LEMMA StayKeepsRows ==
  ASSUME WebhooksInv, RowsStay, UNCHANGED <<user, events>>,
         clock' \in Nat, clock <= clock', unordered \subseteq unordered'
  PROVE  EventsOK' /\ \A d \in Rows' : RowOK(d)' /\ LastOK(d)'
<1>1. EventsOK'
  BY Facts DEF EventsOK
<1>2. Rows' = Rows /\ Unqueued' = Unqueued
  BY UnqueuedStays DEF RowsStay
<1>3. ASSUME NEW d \in Rows
      PROVE  RowOK(d)'
  <2>1. RowOK(d) /\ delivery[d] \in Delivery /\ delivery[d].at \in Nat
    BY Facts DEF Delivery
  <2>2. /\ delivery'[d].event = delivery[d].event /\ delivery'[d].at = delivery[d].at
        /\ delivery'[d].type = delivery[d].type /\ delivery'[d].user = delivery[d].user
        /\ \A c \in Rows : delivery'[c].event = delivery[c].event
    BY DEF RowsStay
  <2>3. delivery'[d].at <= clock'
    BY <2>1, <2>2, Facts DEF RowOK
  <2>4. \A c \in Rows' : delivery'[c].event = delivery'[d].event /\ delivery'[c].event # 0 => c = d
    BY <1>2, <2>1, <2>2 DEF RowOK
  <2> QED BY <2>1, <2>2, <2>3, <2>4 DEF RowOK, Created
<1>4. ASSUME NEW d \in Rows
      PROVE  LastOK(d)'
  <2>1. LastOK(d)
    BY Facts
  <2>2. /\ delivery'[d].at = delivery[d].at
        /\ delivery'[d].type = delivery[d].type /\ delivery'[d].user = delivery[d].user
        /\ \A c \in Rows : /\ delivery'[c].type = delivery[c].type
                           /\ delivery'[c].user = delivery[c].user
                           /\ delivery'[c].at = delivery[c].at
    BY DEF RowsStay
  <2> QED BY <1>2, <2>1, <2>2 DEF LastOK, Created
<1> QED BY <1>1, <1>2, <1>3, <1>4

LEMMA StayKeepsCount ==
  ASSUME WebhooksInv, RowsStay, UNCHANGED sync, spent'.syncs = spent.syncs
  PROVE  CountOK'
<1>1. {d \in Rows : delivery[d].event = 0}' = {d \in Rows : delivery[d].event = 0}
  BY DEF RowsStay
<1>2. CountOK
  BY Facts
<1> QED BY <1>1, <1>2 DEF CountOK

LEMMA StayKeepsSync ==
  ASSUME WebhooksInv, RowsStay, UNCHANGED <<connection, user, sync, clock>>,
         spent'.syncs = spent.syncs, connection = "none" => receiver'.seen = {}
  PROVE  SyncOK'
<1>1. SyncOK
  BY Facts
<1>2. delivery = <<>> => delivery' = <<>>
  <2> SUFFICES ASSUME delivery = <<>>
               PROVE  delivery' = <<>>
    OBVIOUS
  <2>1. DOMAIN delivery' = {} /\ delivery' \in Seq(Delivery)
    BY DEF RowsStay, Rows
  <2> QED BY <2>1, EmptySeq
<1>3. \A u \in Users : (\A d \in Rows : ~DeletedOf(d, u)) => (\A d \in Rows' : ~DeletedOf(d, u)')
  BY DEF RowsStay, DeletedOf
<1>4. sync.users \subseteq Users
  BY DEF WebhooksInv, TypeOK
<1>5. ASSUME sync # NoSync
      PROVE  /\ sync.step = "read" /\ sync.at <= clock /\ spent.syncs # 0
             /\ \A u \in sync.users : user[u] # "new" /\ \A d \in Rows' : ~DeletedOf(d, u)'
  BY <1>1, <1>3, <1>4, <1>5 DEF SyncOK
<1>6. connection = "none" => delivery' = <<>> /\ receiver'.seen = {}
  BY <1>1, <1>2 DEF SyncOK
<1>7. connection = "deleted" => delivery' = <<>> /\ sync = NoSync
  BY <1>1, <1>2 DEF SyncOK
<1> QED BY <1>5, <1>6, <1>7 DEF SyncOK

LEMMA StayKeepsReceiver ==
  ASSUME WebhooksInv, RowsStay, UNCHANGED <<connection, user, receiver>>,
         unordered \subseteq unordered'
  PROVE  ReceiverOK'
<1>1. ReceiverOK
  BY Facts
<1>2. Rows' = Rows /\ \A d \in Rows : /\ delivery'[d].type = delivery[d].type
                                      /\ delivery'[d].user = delivery[d].user
  BY DEF RowsStay
<1>3. ASSUME NEW d \in Rows, d \in receiver.seen
      PROVE  /\ Created(d)' /\ (\A c \in receiver.seen : ~DeletedOf(c, delivery[d].user)')
                   => delivery[d].user \in receiver.accounts
             /\ delivery[d].type = "user.deleted" /\ delivery[d].user \notin unordered'
                   => /\ delivery[d].user \notin receiver.accounts
                      /\ \A c \in Rows : delivery[c].user = delivery[d].user => c \in receiver.seen
  <2>1. connection # "deleted"
    <3>1. connection = "deleted" => Rows = {}
      BY Facts DEF SyncOK, Rows
    <3> QED BY <3>1
  <2>2. receiver.seen \subseteq Rows
    BY <1>1, <2>1 DEF ReceiverOK
  <2>3. \A c \in receiver.seen : DeletedOf(c, delivery[d].user)' <=> DeletedOf(c, delivery[d].user)
    BY <1>2, <2>2 DEF DeletedOf
  <2> QED BY <1>1, <1>2, <1>3, <2>3 DEF ReceiverOK, Created
<1> QED BY <1>1, <1>2, <1>3 DEF ReceiverOK, Created, DeletedOf

LEMMA StayKeepsBatch ==
  ASSUME WebhooksInv, RowsStay, UNCHANGED <<connection, user>>,
         receiver.seen \subseteq receiver'.seen, unordered \subseteq unordered',
         NEW q \in Runs, run'[q].batch = run[q].batch
  PROVE  BatchOK(q)'
<1>1. BatchOK(q)
  BY Facts DEF RunOK
<1>2. Rows' = Rows /\ \A d \in Rows : /\ delivery'[d].type = delivery[d].type
                                      /\ delivery'[d].user = delivery[d].user
  BY DEF RowsStay
<1>3. \A d \in Rows : CopyOf(d)' = CopyOf(d)
  BY <1>2 DEF CopyOf
<1> QED BY <1>1, <1>2, <1>3 DEF BatchOK, Created

LEMMA StayKeepsRun ==
  ASSUME WebhooksInv, RowsStay, UNCHANGED <<connection, user>>,
         receiver.seen \subseteq receiver'.seen, unordered \subseteq unordered',
         NEW q \in Runs, run'[q] = run[q]
  PROVE  RunOK(q)'
<1>1. RunOK(q) /\ BatchOK(q)'
  BY Facts, StayKeepsBatch
<1> QED BY <1>1 DEF RunOK
-----------------------------------------------------------------------------
(* Users.                                                                  *)

LEMMA UserStepKeepsParts ==
  ASSUME WebhooksInv, NEW u \in Users, NEW t \in Types, NEW x \in {"present", "deleted"},
         \/ t = "user.created" /\ x = "present" /\ user[u] = "new"
         \/ t = "user.deleted" /\ x = "deleted" /\ user[u] = "present",
         user' = [user EXCEPT ![u] = x],
         events' = Append(events, [type |-> t, user |-> u]),
         UNCHANGED <<connection, delivery, sync, run, clock, receiver, unordered, spent>>
  PROVE  Parts'
<1>1. PICK n \in Nat : n = Len(events) /\ DOMAIN events = 1 .. n
  BY Facts
<1>2. PICK E : E = [type: Types, user: Users]
  OBVIOUS
<1>3. PICK new \in E : new = [type |-> t, user |-> u]
  BY <1>2
<1>4. /\ events' \in Seq(E) /\ DOMAIN events' = 1 .. n + 1 /\ events'[n + 1] = new
      /\ \A e \in 1 .. n : events'[e] = events[e]
  <2>1. events \in Seq(E)
    BY <1>2, Facts
  <2>2. events' = Append(events, new)
    BY <1>3
  <2> QED BY <1>1, <2>1, <2>2
<1>5. user \in [Users -> {"new", "present", "deleted"}]
  BY DEF WebhooksInv, TypeOK
<1>6. /\ user' \in [Users -> {"new", "present", "deleted"}] /\ user'[u] = x
      /\ \A v \in Users : (user[v] # "new" => user'[v] # "new") /\ (v # u => user'[v] = user[v])
      /\ user[u] # "deleted" /\ \A v \in Users : user[v] = "deleted" => user'[v] = "deleted"
  BY <1>5
<1>7. Shapes'
  BY <1>2, <1>4, <1>6, InvHasParts DEF Parts, Shapes
<1>8. EventsOK
  BY Facts
<1>9. \A e \in 1 .. n : events[e] \in E /\ events[e].user \in Users /\ events[e].type \in Types /\ events[e] # new
  <2>1. \A e \in 1 .. n : events[e] \in [type: Types, user: Users]
    BY <1>1, Facts
  <2> SUFFICES ASSUME NEW e \in 1 .. n, events[e] = new
               PROVE  FALSE
    BY <1>2, <2>1
  <2>2. events[e].type = t /\ events[e].user = u
    BY <1>3
  <2>3. IF events[e].type = "user.created" THEN user[events[e].user] # "new"
        ELSE user[events[e].user] = "deleted"
    BY <1>1, <1>8 DEF EventsOK
  <2> QED BY <2>2, <2>3
<1>10. EventsOK'
  <2>1. IsInjective(events')
    <3>1. \A a, b \in 1 .. n : events[a] = events[b] => a = b
      BY <1>1, <1>8 DEF EventsOK, IsInjective
    <3> SUFFICES ASSUME NEW a \in 1 .. n + 1, NEW b \in 1 .. n + 1, events'[a] = events'[b]
                 PROVE  a = b
      BY <1>4 DEF IsInjective
    <3>2. CASE a = n + 1
      BY <1>4, <1>9, <3>2
    <3>3. CASE b = n + 1
      BY <1>4, <1>9, <3>3
    <3>4. CASE a # n + 1 /\ b # n + 1
      BY <1>4, <3>1, <3>4
    <3> QED BY <3>2, <3>3, <3>4
  <2>2. ASSUME NEW e \in 1 .. n + 1
        PROVE  IF events'[e].type = "user.created" THEN user'[events'[e].user] # "new"
               ELSE user'[events'[e].user] = "deleted"
    <3>1. CASE e = n + 1
      <4>1. events'[e].type = t /\ events'[e].user = u
        BY <1>3, <1>4, <3>1
      <4> QED BY <1>6, <4>1 DEF Types
    <3>2. CASE e # n + 1
      <4>1. e \in 1 .. n /\ events'[e] = events[e]
        BY <1>4, <3>2
      <4>2. IF events[e].type = "user.created" THEN user[events[e].user] # "new"
            ELSE user[events[e].user] = "deleted"
        BY <1>1, <1>8, <4>1 DEF EventsOK
      <4> QED BY <1>6, <1>9, <4>1, <4>2
    <3> QED BY <3>1, <3>2
  <2>3. ASSUME NEW v \in Users, user'[v] = "deleted"
        PROVE  \E e \in 1 .. n + 1 : events'[e] = [type |-> "user.deleted", user |-> v]
    <3>1. CASE v = u
      BY <1>3, <1>4, <1>6, <2>3, <3>1
    <3>2. CASE v # u
      BY <1>1, <1>4, <1>6, <1>8, <2>3, <3>2 DEF EventsOK
    <3> QED BY <3>1, <3>2
  <2> QED BY <1>4, <2>1, <2>2, <2>3 DEF EventsOK
<1>11. SyncOK' /\ CountOK'
  <2>1. sync.users \subseteq Users
    BY DEF WebhooksInv, TypeOK
  <2> QED BY <1>6, <2>1, Facts DEF SyncOK, CountOK, DeletedOf, Rows
<1>12. /\ Rows' = Rows
       /\ \A d \in Rows : delivery[d] \in Delivery /\ delivery[d].user \in Users /\ delivery[d].type \in Types
  BY Facts DEF Rows, Delivery
\* Who is removed in a row already was removed before.
<1>13. ASSUME NEW d \in Rows
       PROVE  delivery[d].type = "user.deleted" => user[delivery[d].user] = "deleted"
  <2>1. RowOK(d)
    BY Facts
  <2>2. SUFFICES ASSUME delivery[d].type = "user.deleted"
                 PROVE  user[delivery[d].user] = "deleted"
    OBVIOUS
  <2>3. /\ delivery[d].event \in DOMAIN events
        /\ events[delivery[d].event].type = "user.deleted"
        /\ events[delivery[d].event].user = delivery[d].user
    BY <2>1, <2>2 DEF RowOK, Created
  <2> QED BY <1>8, <2>3 DEF EventsOK
<1>14. ASSUME NEW d \in Rows'
       PROVE  RowOK(d)' /\ LastOK(d)' /\ AttemptsOK(d)' /\ StatusOK(d)'
  <2>1. d \in Rows /\ RowOK(d) /\ LastOK(d) /\ AttemptsOK(d) /\ StatusOK(d)
    BY <1>12, Facts
  <2>2. AttemptsOK(d)' /\ StatusOK(d)'
    BY <2>1 DEF AttemptsOK, StatusOK, Holders, InHand
  <2>3. RowOK(d)'
    BY <1>1, <1>4, <1>6, <1>12, <2>1 DEF RowOK, Created
  <2>4. LastOK(d)'
    <3>1. SUFFICES ASSUME delivery[d].type = "user.deleted", NEW e \in Unqueued'
                   PROVE  events'[e].user # delivery[d].user
      BY <1>12, <2>1 DEF LastOK, Created
    <3>2. e \in 1 .. n + 1 /\ \A c \in DOMAIN delivery : delivery[c].event # e
      BY <1>4 DEF Unqueued
    <3>3. CASE e = n + 1
      BY <1>3, <1>4, <1>6, <1>13, <2>1, <3>1, <3>3
    <3>4. CASE e # n + 1
      <4>1. e \in Unqueued /\ events'[e] = events[e]
        BY <1>1, <1>4, <3>2, <3>4 DEF Unqueued
      <4> QED BY <2>1, <3>1, <4>1 DEF LastOK
    <3> QED BY <3>2, <3>3, <3>4
  <2> QED BY <2>2, <2>3, <2>4
<1>15. ReceiverOK'
  <2>1. receiver.accounts \subseteq Users
    BY DEF WebhooksInv, TypeOK
  <2> QED BY <1>6, <1>12, <2>1, Facts DEF ReceiverOK, Created, DeletedOf, Rows
<1>16. ASSUME NEW r \in Runs
       PROVE  RunOK(r)'
  <2>1. RunOK(r) /\ \A i \in DOMAIN run[r].batch : run[r].batch[i].user \in Users
    BY Facts, BatchFacts DEF Copy
  <2>2. BatchOK(r)'
    <3>1. BatchOK(r)
      BY <2>1 DEF RunOK
    <3>2. \A c \in Rows : CopyOf(c)' = CopyOf(c)
      BY DEF CopyOf
    <3> QED BY <1>6, <1>12, <2>1, <3>1, <3>2 DEF BatchOK, Created
  <2> QED BY <2>1, <2>2 DEF RunOK
<1> QED BY <1>7, <1>10, <1>11, <1>14, <1>15, <1>16 DEF Parts

LEMMA UsersKeepParts ==
  ASSUME WebhooksInv, NEW u \in Users, CreateUser(u) \/ DeleteUser(u)
  PROVE  Parts'
<1>1. CASE CreateUser(u)
  BY <1>1, UserStepKeepsParts DEF CreateUser, Types
<1>2. CASE DeleteUser(u)
  BY <1>2, UserStepKeepsParts DEF DeleteUser, Types
<1> QED BY <1>1, <1>2
-----------------------------------------------------------------------------
(* Synchronisations begin; processes crash; retry times come.              *)

\* The removal of a user comes from its event.
LEMMA RemovedUsers ==
  ASSUME WebhooksInv, NEW d \in Rows, NEW u, DeletedOf(d, u)
  PROVE  u \in Users /\ user[u] = "deleted"
<1>1. RowOK(d) /\ EventsOK /\ delivery[d] \in Delivery
  BY Facts
<1>2. /\ delivery[d].event \in DOMAIN events
      /\ events[delivery[d].event].type = "user.deleted" /\ events[delivery[d].event].user = u
  BY <1>1 DEF RowOK, Created, DeletedOf
<1> QED BY <1>1, <1>2 DEF EventsOK, DeletedOf, Delivery

LEMMA BeginKeepsParts ==
  ASSUME WebhooksInv, NEW existing \in BOOLEAN, BeginSync(existing)
  PROVE  Parts'
<1>1. /\ sync = NoSync /\ spent.syncs < MaxSyncs /\ connection \in {"none", "enabled"}
      /\ clock' = clock + 1
      /\ UNCHANGED <<connection, user, events, delivery, run, receiver, unordered>>
  BY DEF BeginSync
<1>2. PICK us \in SUBSET Users :
        us = IF existing THEN {u \in Users : user[u] = "present"} ELSE {}
  OBVIOUS
<1>3. sync' = [step |-> "read", at |-> clock + 1, users |-> us]
  BY <1>1, <1>2 DEF BeginSync
<1>4. clock \in Nat /\ sync' # NoSync
      /\ sync' \in [step: {"none", "read"}, users: SUBSET Users, at: Nat]
  BY <1>3, Facts DEF NoSync
<1>5. spent' \in [syncs: Nat, crashes: Nat] /\ spent'.syncs = spent.syncs + 1 /\ spent.syncs \in Nat
  <2>1. spent \in [syncs: Nat, crashes: Nat]
    BY DEF WebhooksInv, TypeOK
  <2>2. spent' = [spent EXCEPT !.syncs = @ + 1]
    BY DEF BeginSync
  <2> QED BY <2>1, <2>2
<1>6. Shapes'
  BY <1>1, <1>4, <1>5, InvHasParts DEF Parts, Shapes
<1>7. RowsStay
  BY <1>1, UnchangedRowsStay
<1>8. EventsOK' /\ \A d \in Rows' : RowOK(d)' /\ LastOK(d)'
  BY <1>1, <1>4, <1>7, StayKeepsRows
<1>9. SyncOK'
  <2>1. \A u \in us : user[u] # "new" /\ \A d \in Rows : ~DeletedOf(d, u)
    BY <1>2, RemovedUsers
  <2>2. \A u \in us : \A d \in Rows' : ~DeletedOf(d, u)'
    BY <1>1, <2>1 DEF DeletedOf, Rows
  <2>3. sync'.step = "read" /\ sync'.at = clock' /\ sync'.users = us /\ spent'.syncs # 0
    BY <1>1, <1>3, <1>5
  <2> QED BY <1>1, <1>4, <2>1, <2>2, <2>3, Facts DEF SyncOK
<1>10. CountOK'
  <2>1. CountOK
    BY Facts
  <2>2. spent'.syncs <= MaxSyncs /\ spent'.syncs - 1 = spent.syncs
    BY <1>1, <1>5, BoundsAreNaturals
  <2> QED BY <1>1, <1>4, <2>1, <2>2 DEF CountOK, Rows
<1>11. ReceiverOK'
  BY <1>1, <1>7, StayKeepsReceiver
<1>12. \A r \in Runs : RunOK(r)'
  BY <1>1, <1>7, StayKeepsRun
<1>13. ASSUME NEW d \in Rows
       PROVE  AttemptsOK(d)' /\ StatusOK(d)'
  <2>1. AttemptsOK(d) /\ StatusOK(d)
    BY Facts
  <2> QED BY <1>1, <2>1 DEF AttemptsOK, StatusOK, Holders, InHand
<1> QED BY <1>6, <1>7, <1>8, <1>9, <1>10, <1>11, <1>12, <1>13 DEF Parts, RowsStay

LEMMA DueKeepsParts ==
  ASSUME WebhooksInv, NEW d, Due(d)
  PROVE  Parts'
<1>1. PICK x \in Delivery : x = delivery[d]
  BY Facts DEF Due, Rows
<1>2. PICK y \in Delivery : y = [x EXCEPT !.status = "due"]
  BY DEF Delivery
<1>3. /\ d \in Rows /\ x.status = "failed" /\ delivery' = [delivery EXCEPT ![d] = y]
      /\ UNCHANGED <<connection, user, events, sync, run, clock, receiver, unordered, spent>>
  BY <1>1, <1>2 DEF Due, Rows
<1>4. /\ y.status = "due" /\ y.attempt = x.attempt /\ y.shared = x.shared
      /\ y.event = x.event /\ y.at = x.at /\ y.type = x.type /\ y.user = x.user
  BY <1>2 DEF Delivery
<1>5. RowsStay /\ \A c \in Rows : delivery'[c] = IF c = d THEN y ELSE delivery[c]
  BY <1>1, <1>3, <1>4, Facts DEF RowsStay, Rows
<1>6. Shapes'
  BY <1>3, <1>5, InvHasParts DEF Parts, Shapes, RowsStay
<1>7. EventsOK' /\ \A c \in Rows' : RowOK(c)' /\ LastOK(c)'
  BY <1>3, <1>5, StayKeepsRows, Facts
<1>8. SyncOK' /\ CountOK'
  BY <1>3, <1>5, StayKeepsCount, StayKeepsSync, Facts DEF SyncOK
<1>9. ReceiverOK'
  BY <1>3, <1>5, StayKeepsReceiver
<1>10. \A r \in Runs : RunOK(r)'
  BY <1>3, <1>5, StayKeepsRun
<1>11. ASSUME NEW c \in Rows
       PROVE  AttemptsOK(c)' /\ StatusOK(c)'
  <2>1. AttemptsOK(c) /\ StatusOK(c) /\ Holders(c)' = Holders(c)
    BY <1>3, Facts DEF Holders, InHand
  <2> QED BY <1>1, <1>3, <1>4, <1>5, <2>1 DEF AttemptsOK, StatusOK
<1> QED BY <1>5, <1>6, <1>7, <1>8, <1>9, <1>10, <1>11 DEF Parts, RowsStay
LEMMA CrashKeepsParts ==
  ASSUME WebhooksInv, Crash
  PROVE  Parts'
<1>1. UNCHANGED <<connection, user, events, delivery, clock, receiver, unordered>>
  BY DEF Crash
<1>2. spent' \in [syncs: Nat, crashes: Nat] /\ spent'.syncs = spent.syncs
  <2>1. spent \in [syncs: Nat, crashes: Nat]
    BY DEF WebhooksInv, TypeOK
  <2>2. spent' = [spent EXCEPT !.crashes = @ + 1]
    BY DEF Crash
  <2> QED BY <2>1, <2>2
<1>3. RowsStay /\ Rows' = Rows
  BY <1>1, UnchangedRowsStay DEF RowsStay
<1>4. EventsOK' /\ \A d \in Rows' : RowOK(d)' /\ LastOK(d)'
  BY <1>1, <1>3, StayKeepsRows, Facts
<1>5. ReceiverOK' /\ \A d \in Rows' : StatusOK(d)'
  BY <1>1, <1>3, StayKeepsReceiver, Facts DEF StatusOK
<1>6. CASE UNCHANGED sync
  <2>1. PICK r \in Runs : run' = [run EXCEPT ![r] = Waiting]
    <3>1. sync # NoSync /\ sync' = NoSync /\ UNCHANGED run => FALSE
      BY <1>6
    <3> QED BY <3>1 DEF Crash
  <2>2. Waiting \in Run /\ run \in [Runs -> Run]
    BY DEF Waiting, Run, WebhooksInv, TypeOK
  <2>3. run' \in [Runs -> Run] /\ run'[r] = Waiting /\ \A q \in Runs \ {r} : run'[q] = run[q]
    BY <2>1, <2>2
  <2>4. Shapes'
    BY <1>1, <1>2, <1>6, <2>3, InvHasParts DEF Parts, Shapes
  <2>5. SyncOK' /\ CountOK'
    BY <1>1, <1>2, <1>3, <1>6, StayKeepsCount, StayKeepsSync, Facts DEF SyncOK
  <2>6. ASSUME NEW q \in Runs
        PROVE  RunOK(q)'
    <3>1. CASE q = r
      BY <2>3, <3>1 DEF RunOK, BatchOK, Waiting
    <3>2. CASE q # r
      BY <1>1, <1>3, <2>3, <3>2, StayKeepsRun
    <3> QED BY <3>1, <3>2
  <2>7. ASSUME NEW d \in Rows
        PROVE  AttemptsOK(d)'
    <3>1. Holders(d)' \subseteq Holders(d)
      BY <2>3 DEF Holders, InHand, Waiting
    <3>2. /\ Cardinality(Holders(d)') <= Cardinality(Holders(d))
          /\ Cardinality(Holders(d)') \in Nat /\ Cardinality(Holders(d)) \in Nat
          /\ Cardinality(Runs) \in Nat
      <4>1. IsFiniteSet(Holders(d))
        BY UsersAndRunsAreFinite, FS_Subset DEF Holders
      <4> QED BY <3>1, <4>1, FS_Subset, FS_CardinalityType, UsersAndRunsAreFinite
    <3>3. AttemptsOK(d) /\ delivery[d].attempt \in Nat
      BY Facts DEF Delivery
    <3> QED BY <1>1, <3>1, <3>2, <3>3, BoundsAreNaturals DEF AttemptsOK
  <2> QED BY <1>3, <1>4, <1>5, <2>4, <2>5, <2>6, <2>7 DEF Parts
<1>7. CASE UNCHANGED run /\ sync' = NoSync /\ sync # NoSync
  <2>1. Shapes'
    <3>1. NoSync \in [step: {"none", "read"}, users: SUBSET Users, at: Nat]
      BY DEF NoSync
    <3> QED BY <1>1, <1>2, <1>7, <3>1, InvHasParts DEF Parts, Shapes
  <2>2. SyncOK'
    BY <1>1, <1>7, Facts DEF SyncOK
  <2>3. CountOK'
    <3>1. CountOK /\ spent.syncs \in Nat /\ spent.syncs # 0
      BY <1>7, Facts DEF SyncOK, WebhooksInv, TypeOK
    <3>2. PICK k \in Nat : k = Cardinality(Users)
      BY UsersAndRunsAreFinite, FS_CardinalityType
    <3>3. PICK s \in Nat : spent.syncs = s + 1
      BY <3>1
    <3>4. PICK c \in Nat : c = Cardinality({d \in Rows : delivery[d].event = 0})
      <4>1. IsFiniteSet({d \in Rows : delivery[d].event = 0})
        <5>1. IsFiniteSet(Rows) /\ {d \in Rows : delivery[d].event = 0} \subseteq Rows
          BY Facts, FS_Interval
        <5> QED BY <5>1, FS_Subset
      <4> QED BY <4>1, FS_CardinalityType
    <3>5. c <= k * s
      BY <1>7, <3>1, <3>2, <3>3, <3>4 DEF CountOK
    <3>6. k * s \in Nat /\ k * (s + 1) = k * s + k
      BY SMT
    <3>7. c <= k * (s + 1)
      BY <3>5, <3>6
    <3>8. spent'.syncs = s + 1 /\ spent'.syncs <= MaxSyncs
      BY <1>2, <3>1, <3>3 DEF CountOK
    <3> QED BY <1>1, <1>7, <3>2, <3>4, <3>7, <3>8 DEF CountOK, Rows
  <2>4. \A r \in Runs : RunOK(r)'
    BY <1>1, <1>3, <1>7, StayKeepsRun
  <2>5. ASSUME NEW d \in Rows
        PROVE  AttemptsOK(d)'
    <3>1. AttemptsOK(d)
      BY Facts
    <3> QED BY <1>1, <1>7, <3>1 DEF AttemptsOK, Holders, InHand
  <2> QED BY <1>3, <1>4, <1>5, <2>1, <2>2, <2>3, <2>4, <2>5 DEF Parts
<1> QED BY <1>6, <1>7 DEF Crash
-----------------------------------------------------------------------------
(* The connection is deleted, and its rows.                                *)

LEMMA DisconnectKeepsParts ==
  ASSUME WebhooksInv, Disconnect
  PROVE  Parts'
<1>1. /\ connection = "enabled" /\ sync = NoSync /\ connection' = "deleted" /\ delivery' = <<>>
      /\ UNCHANGED <<user, events, sync, run, clock, receiver, unordered, spent>>
  BY DEF Disconnect, Locked
<1>2. Rows' = {} /\ delivery' \in Seq(Delivery)
  BY <1>1 DEF Rows
<1>3. Shapes'
  BY <1>1, <1>2, InvHasParts DEF Parts, Shapes
<1>4. EventsOK' /\ SyncOK'
  BY <1>1, Facts DEF EventsOK, SyncOK
<1>5. CountOK'
  <2>1. CountOK
    BY Facts
  <2>2. Cardinality({d \in Rows' : delivery'[d].event = 0}) = 0
    <3>1. {d \in Rows' : delivery'[d].event = 0} = {}
      BY <1>2
    <3> QED BY <3>1, FS_EmptySet
  <2>3. Cardinality(Users) * spent.syncs >= 0
    <3>1. PICK k \in Nat : k = Cardinality(Users)
      BY UsersAndRunsAreFinite, FS_CardinalityType
    <3>2. PICK s \in Nat : s = spent.syncs
      BY DEF WebhooksInv, TypeOK
    <3>3. k * s >= 0
      OBVIOUS
    <3> QED BY <3>1, <3>2, <3>3
  <2> QED BY <1>1, <2>1, <2>2, <2>3 DEF CountOK
<1>6. ReceiverOK'
  BY <1>1, <1>2, Facts DEF ReceiverOK
<1>7. ASSUME NEW r \in Runs
      PROVE  RunOK(r)'
  <2>1. RunOK(r) /\ BatchOK(r)
    BY Facts DEF RunOK
  <2>2. BatchOK(r)'
    BY <1>1, <1>2, <2>1 DEF BatchOK
  <2> QED BY <1>1, <2>1, <2>2 DEF RunOK
<1> QED BY <1>2, <1>3, <1>4, <1>5, <1>6, <1>7 DEF Parts
-----------------------------------------------------------------------------
(* Rows are inserted.                                                      *)

LEMMA AppendedRows ==
  ASSUME WebhooksInv, NEW n \in Nat, NEW w \in [1 .. n -> Delivery], delivery' = delivery \o w
  PROVE  /\ delivery' \in Seq(Delivery) /\ Rows' = 1 .. (Len(delivery) + n)
         /\ \A d \in Rows : d \in Rows' /\ delivery'[d] = delivery[d]
         /\ \A d \in Rows' \ Rows : \E i \in 1 .. n : d = Len(delivery) + i /\ delivery'[d] = w[i]
<1>1. PICK k \in Nat : k = Len(delivery) /\ Rows = 1 .. k
  BY Facts
<1>2. delivery \in Seq(Delivery) /\ w \in Seq(Delivery) /\ Len(w) = n
  BY Facts
<1>3. /\ delivery' \in Seq(Delivery) /\ Len(delivery') = k + n
      /\ \A d \in 1 .. k + n : delivery'[d] = IF d <= k THEN delivery[d] ELSE w[d - k]
  <2>1. PICK x \in Seq(Delivery) : x = delivery
    BY <1>2
  <2>2. PICK y \in Seq(Delivery) : y = x \o w /\ y = delivery'
    BY <1>2, <2>1, ConcatProperties
  <2> QED BY <1>1, <1>2, <2>1, <2>2, ConcatProperties
<1>4. Rows' = 1 .. k + n
  BY <1>3 DEF Rows
<1>5. ASSUME NEW d \in Rows' \ Rows
      PROVE  \E i \in 1 .. n : d = k + i /\ delivery'[d] = w[i]
  <2>1. d - k \in 1 .. n /\ d = k + (d - k) /\ ~(d <= k)
    BY <1>1, <1>4
  <2> QED BY <1>3, <1>4, <2>1
<1>6. \A d \in Rows : d \in Rows' /\ delivery'[d] = delivery[d]
  BY <1>1, <1>3, <1>4
<1> QED BY <1>1, <1>3, <1>4, <1>5, <1>6

\* New rows are untried, and of no user whose removal is a row.
RowsGrow ==
    /\ delivery' \in Seq(Delivery)
    /\ \A d \in Rows : d \in Rows' /\ delivery'[d] = delivery[d]
    /\ \A c \in Rows' \ Rows :
          /\ delivery'[c].status = "pending" /\ delivery'[c].attempt = 1 /\ ~delivery'[c].shared
          /\ \A d \in Rows : ~DeletedOf(d, delivery'[c].user)

LEMMA GrowthKeeps ==
  ASSUME WebhooksInv, RowsGrow, connection # "deleted", connection' # "deleted",
         unordered \subseteq unordered', UNCHANGED <<user, run, receiver>>
  PROVE  /\ ReceiverOK' /\ \A r \in Runs : RunOK(r)'
         /\ \A d \in Rows' : AttemptsOK(d)' /\ StatusOK(d)'
<1>1. ReceiverOK /\ receiver.seen \subseteq Rows
  BY Facts DEF ReceiverOK
<1>2. \A d \in Rows : d \in Rows' /\ delivery'[d] = delivery[d]
  BY DEF RowsGrow
<1>3. ASSUME NEW c \in Rows' \ Rows, NEW d \in Rows, delivery[d].type = "user.deleted"
      PROVE  delivery'[c].user # delivery[d].user
  BY <1>3 DEF RowsGrow, DeletedOf
<1>4. ReceiverOK'
  <2>0. \A u \in receiver.accounts : user[u] # "new"
    BY <1>1 DEF ReceiverOK
  <2>00. receiver.seen \subseteq Rows'
    BY <1>1, <1>2
  <2>1. ASSUME NEW c \in receiver.seen, NEW u
        PROVE  DeletedOf(c, u)' <=> DeletedOf(c, u)
    BY <1>1, <1>2 DEF DeletedOf
  <2>2. SUFFICES ASSUME NEW d \in Rows', d \in receiver.seen, NEW u, u = delivery'[d].user
                 PROVE  /\ Created(d)' /\ (\A c \in receiver.seen : ~DeletedOf(c, u)')
                             => u \in receiver.accounts
                        /\ delivery'[d].type = "user.deleted" /\ u \notin unordered'
                             => /\ u \notin receiver.accounts
                                /\ \A c \in Rows' : delivery'[c].user = u => c \in receiver.seen
    BY <2>0, <2>00 DEF ReceiverOK, DeletedOf
  <2>3. d \in Rows /\ delivery'[d] = delivery[d] /\ u = delivery[d].user
    BY <1>1, <1>2, <2>2
  <2>4. Created(d)' /\ (\A c \in receiver.seen : ~DeletedOf(c, u)') => u \in receiver.accounts
    <3>1. \A c \in receiver.seen : DeletedOf(c, u)' <=> DeletedOf(c, u)
      BY <2>1
    <3>2. Created(d) /\ (\A c \in receiver.seen : ~DeletedOf(c, u)) => u \in receiver.accounts
      BY <1>1, <2>2, <2>3 DEF ReceiverOK
    <3>3. Created(d)' <=> Created(d)
      BY <2>3 DEF Created
    <3> QED BY <3>1, <3>2, <3>3
  <2>5. ASSUME delivery[d].type = "user.deleted", delivery[d].user \notin unordered'
        PROVE  /\ delivery[d].user \notin receiver.accounts
               /\ \A c \in Rows' : delivery'[c].user = delivery[d].user => c \in receiver.seen
    <3>1. /\ delivery[d].user \notin receiver.accounts
          /\ \A c \in Rows : delivery[c].user = delivery[d].user => c \in receiver.seen
      BY <1>1, <2>2, <2>3, <2>5 DEF ReceiverOK
    <3> QED BY <1>2, <1>3, <2>3, <2>5, <3>1
  <2> QED BY <2>3, <2>4, <2>5
<1>5. ASSUME NEW r \in Runs
      PROVE  RunOK(r)'
  <2>1. RunOK(r) /\ BatchOK(r)
    BY Facts DEF RunOK
  <2>2. \A i \in DOMAIN run[r].batch :
          run[r].batch[i].id \in Rows /\ run[r].batch[i] = CopyOf(run[r].batch[i].id)
    BY <2>1 DEF BatchOK
  <2>3. \A d \in Rows : CopyOf(d)' = CopyOf(d)
    BY <1>2 DEF CopyOf
  <2>4. ASSUME NEW j \in DOMAIN run[r].batch, NEW d \in Rows',
               run[r].batch[j].type = "user.deleted", Created(d)',
               delivery'[d].user = run[r].batch[j].user, run[r].batch[j].user \notin unordered'
        PROVE  d \in receiver.seen \/ \E i \in DOMAIN run[r].batch : i < j /\ run[r].batch[i].id = d
    <3>1. PICK b \in Rows : b = run[r].batch[j].id /\ run[r].batch[j] = CopyOf(b)
      BY <2>2
    <3>2. delivery[b].type = "user.deleted" /\ delivery[b].user = run[r].batch[j].user
      BY <2>4, <3>1 DEF CopyOf
    <3>3. d \in Rows
      BY <1>3, <2>4, <3>2
    <3> QED BY <1>2, <2>1, <2>4, <3>3 DEF BatchOK, Created
  <2>5. BatchOK(r)'
    <3>1. UNCHANGED <<run, user, receiver>>
      OBVIOUS
    <3>2. \A i \in DOMAIN run[r].batch :
            run[r].batch[i].id \in Rows' /\ run[r].batch[i] = CopyOf(run[r].batch[i].id)'
      BY <1>2, <2>2, <2>3
    <3> QED BY <2>1, <2>4, <3>1, <3>2 DEF BatchOK
  <2> QED BY <2>1, <2>5 DEF RunOK
<1>6. ASSUME NEW d \in Rows'
      PROVE  AttemptsOK(d)' /\ StatusOK(d)'
  <2>1. Holders(d)' = Holders(d)
    BY DEF Holders, InHand
  <2>2. CASE d \in Rows
    BY <1>2, <2>1, <2>2, Facts DEF AttemptsOK, StatusOK
  <2>3. CASE d \notin Rows
    <3>1. Holders(d) = {}
      <4>1. \A r \in Runs : \A i \in DOMAIN run[r].batch : run[r].batch[i].id \in Rows
        BY Facts DEF RunOK, BatchOK
      <4> QED BY <2>3, <4>1 DEF Holders, InHand
    <3>2. delivery'[d].status = "pending" /\ delivery'[d].attempt = 1 /\ ~delivery'[d].shared
      BY <2>3 DEF RowsGrow
    <3>3. Cardinality(Holders(d)') = 0
      BY <2>1, <3>1, FS_EmptySet
    <3> QED BY <2>1, <3>1, <3>2, <3>3, BoundsAreNaturals DEF AttemptsOK, StatusOK
  <2> QED BY <2>2, <2>3
<1> QED BY <1>4, <1>5, <1>6

LEMMA NewRow ==
  ASSUME NEW e \in Nat, NEW t \in Types, NEW u \in Users, NEW at \in Nat
  PROVE  Row(e, t, u, at) \in Delivery
  BY DEF Row, Delivery

LEMMA CommitSyncIs ==
  ASSUME WebhooksInv, CommitSync
  PROVE  /\ sync # NoSync /\ connection # "deleted" /\ connection' = "enabled" /\ sync' = NoSync
         /\ sync.at <= clock /\ spent.syncs # 0 /\ sync.users \subseteq Users /\ sync.at \in Nat
         /\ UNCHANGED <<user, events, run, clock, receiver, unordered, spent>>
         /\ delivery' \in Seq(Delivery) /\ Rows' = 1 .. (Len(delivery) + Cardinality(sync.users))
         /\ \A d \in Rows : d \in Rows' /\ delivery'[d] = delivery[d]
         /\ \A c \in Rows' \ Rows : /\ \E u \in sync.users :
                                          delivery'[c] = Row(0, "user.created", u, sync.at)
                                    /\ c > Len(delivery)
<1>1. sync # NoSync /\ connection' = "enabled" /\ sync' = NoSync
      /\ UNCHANGED <<user, events, run, clock, receiver, unordered, spent>>
  BY DEF CommitSync, NoSync
<1>2. SyncOK /\ sync.users \subseteq Users /\ sync.at \in Nat
  BY Facts DEF WebhooksInv, TypeOK
<1>3. connection # "deleted" /\ sync.at <= clock /\ spent.syncs # 0
  BY <1>1, <1>2 DEF SyncOK
<1>4. PICK S \in SUBSET Users : S = sync.users /\ IsFiniteSet(S)
  BY <1>2, UsersAndRunsAreFinite, FS_Subset
<1>5. PICK us \in SetToSeqs(S) :
        delivery' = delivery \o [i \in 1 .. Len(us) |-> Row(0, "user.created", us[i], sync.at)]
  BY <1>4 DEF CommitSync
<1>6. Permutation(us, S)
  BY <1>4, SetToSeqsPermutes
<1>7. PICK n \in Nat : n = Len(us) /\ n = Cardinality(S)
  BY <1>6 DEF Permutation
<1>8. \A i \in 1 .. n : us[i] \in S
  <2>1. us \in Seq(S)
    BY <1>6 DEF Permutation
  <2> QED BY <1>7, <2>1, ElementOfSeq
<1>9. PICK w \in [1 .. n -> Delivery] : w = [i \in 1 .. n |-> Row(0, "user.created", us[i], sync.at)]
  <2>1. \A i \in 1 .. n : Row(0, "user.created", us[i], sync.at) \in Delivery
    BY <1>2, <1>4, <1>8, NewRow DEF Types
  <2> QED BY <2>1
<1>10. delivery' = delivery \o w
  BY <1>5, <1>7, <1>9
<1>11. /\ delivery' \in Seq(Delivery) /\ Rows' = 1 .. (Len(delivery) + n)
       /\ \A d \in Rows : d \in Rows' /\ delivery'[d] = delivery[d]
       /\ \A d \in Rows' \ Rows : \E i \in 1 .. n : d = Len(delivery) + i /\ delivery'[d] = w[i]
  BY <1>10, AppendedRows
<1>12. ASSUME NEW c \in Rows' \ Rows
       PROVE  c > Len(delivery) /\ \E u \in sync.users : delivery'[c] = Row(0, "user.created", u, sync.at)
  <2>1. PICK i \in 1 .. n : c = Len(delivery) + i /\ delivery'[c] = w[i]
    BY <1>11
  <2>2. c > Len(delivery)
    BY <2>1, Facts
  <2>3. delivery'[c] = Row(0, "user.created", us[i], sync.at) /\ us[i] \in sync.users
    BY <1>4, <1>8, <1>9, <2>1
  <2> QED BY <2>2, <2>3
<1> QED BY <1>1, <1>2, <1>3, <1>4, <1>7, <1>11, <1>12

LEMMA CommitSyncKeepsParts ==
  ASSUME WebhooksInv, CommitSync
  PROVE  Parts'
<1>1. /\ sync # NoSync /\ connection # "deleted" /\ connection' = "enabled" /\ sync' = NoSync
      /\ sync.at <= clock /\ spent.syncs # 0 /\ sync.users \subseteq Users /\ sync.at \in Nat
      /\ UNCHANGED <<user, events, run, clock, receiver, unordered, spent>>
      /\ delivery' \in Seq(Delivery) /\ Rows' = 1 .. (Len(delivery) + Cardinality(sync.users))
  BY CommitSyncIs
<1>2. \A d \in Rows : d \in Rows' /\ delivery'[d] = delivery[d]
  BY CommitSyncIs
<1>3. ASSUME NEW c \in Rows' \ Rows
      PROVE  /\ delivery'[c].event = 0 /\ delivery'[c].type = "user.created"
             /\ delivery'[c].user \in sync.users /\ delivery'[c].at = sync.at
             /\ delivery'[c].status = "pending" /\ delivery'[c].attempt = 1 /\ ~delivery'[c].shared
             /\ c > Len(delivery)
  <2>1. PICK u \in sync.users : delivery'[c] = Row(0, "user.created", u, sync.at)
    BY CommitSyncIs
  <2> QED BY <2>1, CommitSyncIs DEF Row
<1>4. \A u \in sync.users : user[u] # "new" /\ \A d \in Rows : ~DeletedOf(d, u)
  BY <1>1, Facts DEF SyncOK
<1>5. RowsGrow
  BY <1>1, <1>2, <1>3, <1>4 DEF RowsGrow
<1>6. /\ ReceiverOK' /\ \A r \in Runs : RunOK(r)'
      /\ \A d \in Rows' : AttemptsOK(d)' /\ StatusOK(d)'
  BY <1>1, <1>5, GrowthKeeps
<1>7. Shapes'
  <2>1. NoSync \in [step: {"none", "read"}, users: SUBSET Users, at: Nat]
    BY DEF NoSync
  <2> QED BY <1>1, <2>1, InvHasParts DEF Parts, Shapes
<1>8. EventsOK' /\ SyncOK'
  BY <1>1, Facts DEF EventsOK, SyncOK
<1>9. DOMAIN events = 1 .. Len(events) /\ Len(events) \in Nat
  BY Facts
<1>10. ASSUME NEW d \in Rows'
       PROVE  RowOK(d)'
  <2>1. CASE d \in Rows
    <3>1. RowOK(d) /\ delivery'[d] = delivery[d]
      BY <1>2, <2>1, Facts
    <3>2. \A c \in Rows' : delivery'[c].event = delivery[d].event /\ delivery'[c].event # 0 => c = d
      <4> SUFFICES ASSUME NEW c \in Rows', delivery'[c].event = delivery[d].event, delivery'[c].event # 0
                   PROVE  c = d
        OBVIOUS
      <4>1. c \in Rows /\ delivery'[c] = delivery[c]
        BY <1>2, <1>3
      <4> QED BY <3>1, <4>1 DEF RowOK
    <3> QED BY <1>1, <3>1, <3>2 DEF RowOK, Created
  <2>2. CASE d \notin Rows
    <3>1. /\ delivery'[d].event = 0 /\ delivery'[d].type = "user.created"
          /\ delivery'[d].user \in sync.users /\ delivery'[d].at = sync.at
      BY <1>3, <2>2
    <3> QED BY <1>1, <1>4, <3>1 DEF RowOK, Created
  <2> QED BY <2>1, <2>2
<1>11. ASSUME NEW d \in Rows'
       PROVE  LastOK(d)'
  <2>1. CASE d \in Rows
    <3>1. LastOK(d) /\ delivery'[d] = delivery[d]
      BY <1>2, <2>1, Facts
    <3>2. Unqueued' \subseteq Unqueued
      <4> SUFFICES ASSUME NEW e \in Unqueued'
                   PROVE  e \in Unqueued
        OBVIOUS
      <4>1. e \in DOMAIN events /\ \A c \in DOMAIN delivery' : delivery'[c].event # e
        BY <1>1 DEF Unqueued
      <4>2. \A c \in DOMAIN delivery : delivery[c].event # e
        BY <1>2, <4>1 DEF Rows
      <4> QED BY <4>1, <4>2 DEF Unqueued
    <3>3. delivery[d].type = "user.deleted" => \A c \in Rows' \ Rows : delivery'[c].user # delivery[d].user
      BY <1>3, <1>4, <2>1 DEF DeletedOf
    <3> QED BY <1>1, <1>2, <3>1, <3>2, <3>3 DEF LastOK, Created
  <2>2. CASE d \notin Rows
    BY <1>3, <2>2 DEF LastOK
  <2> QED BY <2>1, <2>2
<1>12. CountOK'
  <2>1. PICK s \in Nat : spent.syncs = s + 1
    <3>1. PICK t \in Nat : spent.syncs = t
      BY DEF WebhooksInv, TypeOK
    <3>2. t - 1 \in Nat /\ t = (t - 1) + 1
      BY <1>1, <3>1
    <3> QED BY <3>1, <3>2
  <2>2. PICK k \in Nat : k = Cardinality(Users)
    BY UsersAndRunsAreFinite, FS_CardinalityType
  <2>3. PICK n \in Nat : n = Cardinality(sync.users) /\ n <= k
    <3>1. IsFiniteSet(sync.users) /\ Cardinality(sync.users) <= Cardinality(Users)
      BY <1>1, UsersAndRunsAreFinite, FS_Subset
    <3> QED BY <2>2, <3>1, FS_CardinalityType
  <2>4. PICK l \in Nat : l = Len(delivery) /\ Rows = 1 .. l
    BY Facts
  <2>5. PICK Z \in SUBSET Rows : Z = {d \in Rows : delivery[d].event = 0}
    OBVIOUS
  <2>6. {d \in Rows' : delivery'[d].event = 0} \subseteq Z \union (l + 1 .. l + n)
    <3> SUFFICES ASSUME NEW d \in Rows', delivery'[d].event = 0, d \notin l + 1 .. l + n
                 PROVE  d \in Z
      OBVIOUS
    <3>1. d \in Rows
      BY <1>1, <2>3, <2>4
    <3> QED BY <1>2, <2>5, <3>1
  <2>7. /\ IsFiniteSet(Z) /\ Cardinality(Z) \in Nat
        /\ IsFiniteSet(l + 1 .. l + n) /\ Cardinality(l + 1 .. l + n) = n
        /\ Z \intersect (l + 1 .. l + n) = {}
    <3>1. IsFiniteSet(Rows)
      BY <2>4, FS_Interval
    <3>2. IsFiniteSet(Z) /\ Cardinality(Z) \in Nat
      BY <3>1, FS_Subset, FS_CardinalityType
    <3>3. IsFiniteSet(l + 1 .. l + n) /\ Cardinality(l + 1 .. l + n) = n
      BY FS_Interval
    <3> QED BY <2>4, <3>2, <3>3
  <2>8. PICK W : W = Z \union (l + 1 .. l + n)
    OBVIOUS
  <2>9. IsFiniteSet(W) /\ Cardinality(W) = Cardinality(Z) + n
    <3>1. Cardinality(Z \intersect (l + 1 .. l + n)) = 0
      BY <2>7, FS_EmptySet
    <3>2. IsFiniteSet(W) /\ Cardinality(W) = Cardinality(Z) + n - 0
      BY <2>7, <2>8, <3>1, FS_Union
    <3> QED BY <2>7, <3>2
  <2>10. Cardinality({d \in Rows' : delivery'[d].event = 0}) \in Nat
         /\ Cardinality({d \in Rows' : delivery'[d].event = 0}) <= Cardinality(Z) + n
    <3>1. PICK V \in SUBSET W : V = {d \in Rows' : delivery'[d].event = 0}
      BY <2>6, <2>8
    <3>2. Cardinality(V) \in Nat /\ Cardinality(V) <= Cardinality(W)
      BY <2>9, FS_Subset, FS_CardinalityType
    <3> QED BY <2>9, <3>1, <3>2
  <2>11. Cardinality(Z) <= k * s /\ spent.syncs <= MaxSyncs
    BY <1>1, <2>1, <2>2, <2>5, Facts DEF CountOK
  <2>12. k * s \in Nat /\ k * (s + 1) = k * s + k
    OBVIOUS
  <2>13. Cardinality({d \in Rows' : delivery'[d].event = 0}) <= k * (s + 1)
    BY <2>3, <2>7, <2>10, <2>11, <2>12
  <2> QED BY <1>1, <2>1, <2>2, <2>11, <2>13 DEF CountOK
<1> QED BY <1>6, <1>7, <1>8, <1>10, <1>11, <1>12 DEF Parts

LEMMA EnqueueIs ==
  ASSUME WebhooksInv, Enqueue
  PROVE  /\ connection = "enabled" /\ sync = NoSync /\ clock' = clock + 1
         /\ unordered' = unordered \union Tied
         /\ UNCHANGED <<connection, user, events, sync, run, receiver, spent>>
         /\ delivery' \in Seq(Delivery)
         /\ \A d \in Rows : d \in Rows' /\ delivery'[d] = delivery[d]
         /\ \A c \in Rows' \ Rows : \E e \in Unqueued :
               delivery'[c] = Row(e, events[e].type, events[e].user, clock + 1)
         /\ \A c, d \in Rows' \ Rows : delivery'[c].event = delivery'[d].event => c = d
         /\ \A e \in Unqueued : \E c \in Rows' : delivery'[c].event = e
<1>1. /\ connection = "enabled" /\ sync = NoSync /\ clock' = clock + 1
      /\ unordered' = unordered \union Tied
      /\ UNCHANGED <<connection, user, events, sync, run, receiver, spent>>
  BY DEF Enqueue, Locked
<1>2. PICK U \in SUBSET DOMAIN events : U = Unqueued
  BY DEF Unqueued
<1>3. IsFiniteSet(U)
  <2>1. IsFiniteSet(DOMAIN events)
    BY Facts, FS_Interval
  <2> QED BY <2>1, FS_Subset
<1>4. PICK new : new = SetToSeq(U)
  OBVIOUS
<1>5. Permutation(new, U)
  BY <1>3, <1>4, SetToSeqPermutes
<1>6. PICK n \in Nat : n = Len(new)
  BY <1>5 DEF Permutation
<1>7. ASSUME NEW i \in 1 .. n
      PROVE  /\ new[i] \in U /\ new[i] \in Nat
             /\ events[new[i]].type \in Types /\ events[new[i]].user \in Users
  <2>1. new \in Seq(U)
    BY <1>5 DEF Permutation
  <2>2. new[i] \in U
    BY <1>6, <2>1, ElementOfSeq
  <2> QED BY <2>2, Facts
<1>8. PICK w \in [1 .. n -> Delivery] :
        w = [i \in 1 .. n |-> Row(new[i], events[new[i]].type, events[new[i]].user, clock + 1)]
  <2>1. clock + 1 \in Nat
    BY Facts
  <2>2. \A i \in 1 .. n : Row(new[i], events[new[i]].type, events[new[i]].user, clock + 1) \in Delivery
    BY <1>7, <2>1, NewRow
  <2> QED BY <2>2
<1>9. delivery' = delivery \o w
  BY <1>1, <1>2, <1>4, <1>6, <1>8 DEF Enqueue
<1>10. /\ delivery' \in Seq(Delivery) /\ Rows' = 1 .. (Len(delivery) + n)
       /\ \A d \in Rows : d \in Rows' /\ delivery'[d] = delivery[d]
       /\ \A d \in Rows' \ Rows : \E i \in 1 .. n : d = Len(delivery) + i /\ delivery'[d] = w[i]
  BY <1>9, AppendedRows
<1>11. PICK l \in Nat : l = Len(delivery) /\ Rows = 1 .. l
  BY Facts
<1>12. \A i \in 1 .. n : w[i] = Row(new[i], events[new[i]].type, events[new[i]].user, clock + 1)
                         /\ w[i].event = new[i]
  BY <1>8 DEF Row
<1>13. ASSUME NEW c \in Rows' \ Rows
       PROVE  \E e \in Unqueued : delivery'[c] = Row(e, events[e].type, events[e].user, clock + 1)
  BY <1>2, <1>7, <1>10, <1>12
<1>14. ASSUME NEW c \in Rows' \ Rows, NEW d \in Rows' \ Rows, delivery'[c].event = delivery'[d].event
       PROVE  c = d
  <2>1. PICK i \in 1 .. n : c = l + i /\ delivery'[c] = w[i]
    BY <1>10, <1>11
  <2>2. PICK j \in 1 .. n : d = l + j /\ delivery'[d] = w[j]
    BY <1>10, <1>11
  <2>3. new[i] = new[j]
    BY <1>12, <1>14, <2>1, <2>2
  <2>4. i = j
    BY <1>5, <1>6, <2>3 DEF Permutation
  <2> QED BY <2>1, <2>2, <2>4
<1>15. ASSUME NEW e \in Unqueued
       PROVE  \E c \in Rows' : delivery'[c].event = e
  <2>1. PICK i \in 1 .. n : new[i] = e
    BY <1>2, <1>5, <1>6 DEF Permutation
  <2>2. PICK c : c = l + i
    OBVIOUS
  <2>3. c \in Rows' \ Rows
    BY <1>10, <1>11, <2>2
  <2>4. PICK j \in 1 .. n : c = l + j /\ delivery'[c] = w[j]
    BY <1>10, <1>11, <2>3
  <2>5. j = i
    BY <2>2, <2>4
  <2> QED BY <1>12, <2>1, <2>3, <2>4, <2>5
<1> QED BY <1>1, <1>10, <1>13, <1>14, <1>15

LEMMA EnqueueKeepsParts ==
  ASSUME WebhooksInv, Enqueue
  PROVE  Parts'
<1>1. /\ connection = "enabled" /\ sync = NoSync /\ clock' = clock + 1
      /\ unordered' = unordered \union Tied
      /\ UNCHANGED <<connection, user, events, sync, run, receiver, spent>>
      /\ delivery' \in Seq(Delivery)
  BY EnqueueIs
<1>2. \A d \in Rows : d \in Rows' /\ delivery'[d] = delivery[d]
  BY EnqueueIs
<1>3. Unqueued \subseteq DOMAIN events /\ Tied \subseteq Users /\ 0 \notin Unqueued
      /\ DOMAIN events \subseteq Nat
      /\ \A e \in Unqueued : events[e].type \in Types /\ events[e].user \in Users
  <2>1. Unqueued \subseteq DOMAIN events /\ Tied \subseteq Users
    BY DEF Unqueued, Tied
  <2> QED BY <2>1, Facts
<1>4. ASSUME NEW c \in Rows' \ Rows
      PROVE  /\ delivery'[c].event \in Unqueued /\ delivery'[c].at = clock + 1
             /\ delivery'[c].type = events[delivery'[c].event].type
             /\ delivery'[c].user = events[delivery'[c].event].user
             /\ delivery'[c].status = "pending" /\ delivery'[c].attempt = 1 /\ ~delivery'[c].shared
  <2>1. PICK e \in Unqueued : delivery'[c] = Row(e, events[e].type, events[e].user, clock + 1)
    BY EnqueueIs
  <2> QED BY <2>1 DEF Row
<1>5. \A c, d \in Rows' \ Rows : delivery'[c].event = delivery'[d].event => c = d
  BY EnqueueIs
<1>6. \A e \in Unqueued : \E c \in Rows' : delivery'[c].event = e
  BY EnqueueIs
\* Who is removed in a row has no event without one.
<1>7. ASSUME NEW d \in Rows, NEW u, DeletedOf(d, u), NEW e \in Unqueued
      PROVE  events[e].user # u
  BY <1>7, Facts DEF LastOK, DeletedOf
<1>8. RowsGrow
  BY <1>1, <1>2, <1>4, <1>7 DEF RowsGrow
<1>9. /\ ReceiverOK' /\ \A r \in Runs : RunOK(r)'
      /\ \A d \in Rows' : AttemptsOK(d)' /\ StatusOK(d)'
  <2>1. unordered \subseteq unordered'
    BY <1>1
  <2>2. connection # "deleted" /\ connection' # "deleted" /\ UNCHANGED <<user, run, receiver>>
    BY <1>1
  <2> QED BY <1>8, <2>1, <2>2, GrowthKeeps
<1>10. Shapes'
  <2>1. clock' \in Nat /\ unordered' \subseteq Users
    BY <1>1, <1>3, Facts DEF TypeOK
  <2> QED BY <1>1, <2>1, InvHasParts DEF Parts, Shapes
<1>11. EventsOK' /\ SyncOK'
  <2>1. SyncOK' <=> TRUE
    BY <1>1 DEF SyncOK
  <2> QED BY <1>1, <2>1, Facts DEF EventsOK
<1>12. ASSUME NEW d \in Rows'
       PROVE  RowOK(d)'
  <2>1. CASE d \in Rows
    <3>1. RowOK(d) /\ delivery'[d] = delivery[d] /\ delivery[d].at \in Nat /\ clock \in Nat
      BY <1>2, <2>1, Facts DEF Delivery
    <3>2. \A c \in Rows' : delivery'[c].event = delivery[d].event /\ delivery'[c].event # 0 => c = d
      <4> SUFFICES ASSUME NEW c \in Rows', delivery'[c].event = delivery[d].event, delivery'[c].event # 0
                   PROVE  c = d
        OBVIOUS
      <4>1. CASE c \in Rows
        BY <1>2, <3>1, <4>1 DEF RowOK
      <4>2. CASE c \notin Rows
        BY <1>4, <2>1, <4>2 DEF Unqueued, Rows
      <4> QED BY <4>1, <4>2
    <3>3. delivery'[d].at <= clock'
      BY <1>1, <3>1 DEF RowOK
    <3> QED BY <1>1, <3>1, <3>2, <3>3 DEF RowOK, Created
  <2>2. CASE d \notin Rows
    <3>1. PICK e \in Unqueued : e = delivery'[d].event
      BY <1>4, <2>2
    <3>2. /\ delivery'[d].at = clock + 1 /\ delivery'[d].type = events[e].type
          /\ delivery'[d].user = events[e].user
      BY <1>4, <2>2, <3>1
    <3>3. events[e] \in [type: Types, user: Users] /\ e # 0 /\ e \in DOMAIN events
      BY <1>3, Facts
    <3>4. events[e] = [type |-> delivery'[d].type, user |-> delivery'[d].user]
      BY <3>2, <3>3
    <3>5. user[events[e].user] # "new"
      BY <3>3, Facts DEF EventsOK
    <3>6. ASSUME NEW c \in Rows', delivery'[c].event = e
          PROVE  c = d
      <4>1. c \notin Rows
        BY <1>2, <3>1, <3>6 DEF Unqueued, Rows
      <4> QED BY <1>5, <2>2, <3>1, <3>6, <4>1
    <3>7. delivery'[d].at <= clock'
      BY <1>1, <3>2, Facts
    <3> QED BY <1>1, <3>1, <3>2, <3>3, <3>4, <3>5, <3>6, <3>7 DEF RowOK
  <2> QED BY <2>1, <2>2
\* Nothing is left to be queued.
<1>13. Unqueued' = {}
  <2> SUFFICES ASSUME NEW e \in Unqueued'
               PROVE  FALSE
    OBVIOUS
  <2>1. e \in DOMAIN events /\ \A c \in Rows' : delivery'[c].event # e
    BY <1>1 DEF Unqueued, Rows
  <2>2. e \in Unqueued
    BY <1>2, <2>1 DEF Unqueued, Rows
  <2> QED BY <1>6, <2>1, <2>2
<1>14. ASSUME NEW d \in Rows', NEW c \in Rows', delivery'[d].type = "user.deleted", Created(c)',
              delivery'[c].user = delivery'[d].user, delivery'[d].user \notin unordered'
       PROVE  delivery'[c].at < delivery'[d].at
  <2>1. CASE d \in Rows /\ c \in Rows
    <3>1. LastOK(d) /\ delivery'[c] = delivery[c] /\ delivery'[d] = delivery[d]
      BY <1>2, <2>1, Facts
    <3> QED BY <1>1, <1>14, <2>1, <3>1 DEF LastOK, Created
  <2>2. CASE d \in Rows /\ c \notin Rows
    <3>1. DeletedOf(d, delivery'[c].user)
      BY <1>2, <1>14, <2>2 DEF DeletedOf
    <3> QED BY <1>4, <1>7, <2>2, <3>1
  <2>3. CASE d \notin Rows /\ c \in Rows
    <3>1. delivery'[d].at = clock + 1 /\ RowOK(c) /\ delivery'[c] = delivery[c]
      BY <1>2, <1>4, <2>3, Facts
    <3>2. delivery[c].at \in Nat /\ clock \in Nat
      BY <2>3, Facts DEF Delivery
    <3> QED BY <3>1, <3>2 DEF RowOK
  <2>4. CASE d \notin Rows /\ c \notin Rows
    <3>1. PICK a \in Unqueued : a = delivery'[c].event /\ events[a].user = delivery'[c].user
                                /\ events[a].type = delivery'[c].type
      BY <1>4, <2>4
    <3>2. PICK b \in Unqueued : b = delivery'[d].event /\ events[b].user = delivery'[d].user
                                /\ events[b].type = delivery'[d].type
      BY <1>4, <2>4
    <3>3. a # b
      BY <1>14, <3>1, <3>2 DEF Created
    <3>4. PICK u \in Users : u = delivery'[d].user /\ u = events[a].user /\ u = events[b].user
      BY <1>3, <1>14, <3>1, <3>2
    <3>5. PICK T \in SUBSET Unqueued : T = {e \in Unqueued : events[e].user = u}
      OBVIOUS
    <3>6. IsFiniteSet(T)
      <4>1. PICK n \in Nat : DOMAIN events = 1 .. n
        BY Facts
      <4>2. IsFiniteSet(DOMAIN events)
        BY <4>1, FS_Interval
      <4> QED BY <1>3, <4>2, FS_Subset
    <3>7. Cardinality(T) > 1
      <4>1. a \in T /\ b \in T
        BY <3>4, <3>5
      <4>2. Cardinality(T) \in Nat /\ Cardinality(T) # 0
        BY <3>6, <4>1, FS_CardinalityType, FS_EmptySet
      <4>3. Cardinality(T) # 1
        <5> SUFFICES ASSUME Cardinality(T) = 1
                     PROVE  FALSE
          OBVIOUS
        <5>1. PICK x : T = {x}
          BY <3>6, FS_Singleton
        <5> QED BY <3>3, <4>1, <5>1
      <4> QED BY <4>2, <4>3
    <3>8. u \in Tied
      BY <3>5, <3>7 DEF Tied
    <3> QED BY <1>1, <1>14, <3>4, <3>8
  <2> QED BY <2>1, <2>2, <2>3, <2>4
<1>15. \A d \in Rows' : LastOK(d)'
  BY <1>13, <1>14 DEF LastOK
<1>16. CountOK'
  <2>1. {d \in Rows' : delivery'[d].event = 0} = {d \in Rows : delivery[d].event = 0}
    BY <1>2, <1>3, <1>4
  <2> QED BY <1>1, <2>1, Facts DEF CountOK
<1> QED BY <1>9, <1>10, <1>11, <1>12, <1>15, <1>16 DEF Parts
-----------------------------------------------------------------------------
(* Runs.                                                                   *)

\* The rows there are have their ids: one for each event, one for each user and
\* synchronisation.
LEMMA RowsAreIds ==
  ASSUME WebhooksInv
  PROVE  Rows \subseteq Ids
<1>1. PICK l \in Nat : l = Len(delivery) /\ Rows = 1 .. l
  BY Facts
<1>2. PICK k \in Nat : k = Cardinality(Users)
  BY UsersAndRunsAreFinite, FS_CardinalityType
<1>3. PICK n \in Nat : n = Len(events) /\ DOMAIN events = 1 .. n
  BY Facts
<1>4. PICK Z \in SUBSET Rows : Z = {d \in Rows : delivery[d].event = 0}
  OBVIOUS
<1>5. PICK Y \in SUBSET Rows : Y = {d \in Rows : delivery[d].event # 0}
  OBVIOUS
<1>6. /\ IsFiniteSet(Z) /\ Cardinality(Z) \in Nat /\ IsFiniteSet(Y) /\ Cardinality(Y) \in Nat
      /\ Cardinality(Rows) = l
  <2>1. IsFiniteSet(Rows) /\ Cardinality(Rows) = l
    <3>1. IsFiniteSet(1 .. l) /\ Cardinality(1 .. l) = l
      BY FS_Interval
    <3> QED BY <1>1, <3>1
  <2> QED BY <2>1, FS_Subset, FS_CardinalityType
<1>7. l = Cardinality(Z) + Cardinality(Y)
  <2>1. PICK W : W = Z \union Y
    OBVIOUS
  <2>2. W = Rows
    BY <1>4, <1>5, <2>1
  <2>3. Z \intersect Y = {}
    BY <1>4, <1>5
  <2>4. Cardinality(Z \intersect Y) = 0
    BY <2>3, FS_EmptySet
  <2>5. Cardinality(W) = Cardinality(Z) + Cardinality(Y) - 0
    BY <1>6, <2>1, <2>4, FS_Union
  <2> QED BY <1>6, <2>2, <2>5
<1>8. Cardinality(Z) <= k * MaxSyncs
  <2>1. PICK s \in Nat : s <= MaxSyncs /\ Cardinality(Z) <= k * s
    <3>1. CountOK /\ SyncOK
      BY Facts
    <3>2. PICK t \in Nat : t = spent.syncs
      BY DEF WebhooksInv, TypeOK
    <3>3. t <= MaxSyncs /\ Cardinality(Z) <= k * (IF sync = NoSync THEN t ELSE t - 1)
      BY <1>2, <1>4, <3>1, <3>2 DEF CountOK
    <3>4. CASE sync = NoSync
      BY <3>3, <3>4
    <3>5. CASE sync # NoSync
      <4>1. t # 0
        BY <3>1, <3>2, <3>5 DEF SyncOK
      <4>2. PICK s \in Nat : s = t - 1
        BY <4>1
      <4>3. s <= MaxSyncs /\ Cardinality(Z) <= k * s
        BY <3>3, <3>5, <4>2, BoundsAreNaturals
      <4> QED BY <4>3
    <3> QED BY <3>4, <3>5
  <2>2. PICK x \in Nat : MaxSyncs = s + x
    <3>1. MaxSyncs - s \in Nat /\ MaxSyncs = s + (MaxSyncs - s)
      BY <2>1, BoundsAreNaturals
    <3> QED BY <3>1
  <2>3. k * (s + x) = k * s + k * x /\ k * x \in Nat /\ k * s \in Nat
    OBVIOUS
  <2> QED BY <1>6, <2>1, <2>2, <2>3
<1>9. Cardinality(Y) <= n
  <2>1. PICK f : f = [d \in Y |-> delivery[d].event]
    OBVIOUS
  <2>2. f \in [Y -> 1 .. n]
    <3>1. \A d \in Y : delivery[d].event \in 1 .. n
      BY <1>3, <1>5, Facts DEF RowOK
    <3> QED BY <2>1, <3>1
  <2>3. \A c, d \in Y : f[c] = f[d] => c = d
    BY <1>5, <2>1, Facts DEF RowOK
  <2>4. f \in Injection(Y, 1 .. n)
    BY <2>2, <2>3 DEF Injection, IsInjective
  <2>5. IsFiniteSet(1 .. n) /\ Cardinality(1 .. n) = n
    BY FS_Interval
  <2>6. Cardinality(Y) <= Cardinality(1 .. n)
    BY <2>4, <2>5, FS_Injection
  <2> QED BY <2>5, <2>6
<1>10. n <= k + k
  <2> DEFINE Of(t) == {e \in 1 .. n : events[e].type = t}
  <2>1. ASSUME NEW t \in Types
        PROVE  IsFiniteSet(Of(t)) /\ Cardinality(Of(t)) \in Nat /\ Cardinality(Of(t)) <= k
    <3>1. PICK E \in SUBSET (1 .. n) : E = Of(t)
      OBVIOUS
    <3>2. PICK f : f = [e \in E |-> events[e].user]
      OBVIOUS
    <3>3. \A e \in E : events[e] \in [type: Types, user: Users] /\ events[e].type = t
      BY <1>3, <3>1, Facts
    <3>4. f \in [E -> Users]
      BY <3>2, <3>3
    <3>5. \A a, b \in E : f[a] = f[b] => a = b
      <4> SUFFICES ASSUME NEW a \in E, NEW b \in E, f[a] = f[b]
                   PROVE  a = b
        OBVIOUS
      <4>1. events[a] = events[b]
        BY <3>2, <3>3
      <4>2. IsInjective(events)
        BY Facts DEF EventsOK
      <4> QED BY <1>3, <4>1, <4>2 DEF IsInjective
    <3>6. f \in Injection(E, Users)
      BY <3>4, <3>5 DEF Injection, IsInjective
    <3>7. IsFiniteSet(E) /\ Cardinality(E) <= Cardinality(Users)
      BY <3>6, UsersAndRunsAreFinite, FS_Injection
    <3> QED BY <1>2, <3>1, <3>7, FS_CardinalityType
  <2>2. PICK C \in SUBSET (1 .. n) : C = Of("user.created")
    OBVIOUS
  <2>3. PICK D \in SUBSET (1 .. n) : D = Of("user.deleted")
    OBVIOUS
  <2>4. /\ IsFiniteSet(C) /\ Cardinality(C) \in Nat /\ Cardinality(C) <= k
        /\ IsFiniteSet(D) /\ Cardinality(D) \in Nat /\ Cardinality(D) <= k
    BY <2>1, <2>2, <2>3 DEF Types
  <2>5. 1 .. n = C \union D /\ C \intersect D = {}
    <3>1. \A e \in 1 .. n : events[e].type \in {"user.created", "user.deleted"}
      BY <1>3, Facts DEF Types
    <3> QED BY <2>2, <2>3, <3>1
  <2>6. Cardinality(C \intersect D) = 0
    BY <2>5, FS_EmptySet
  <2>7. Cardinality(1 .. n) = Cardinality(C) + Cardinality(D) - 0
    BY <2>4, <2>5, <2>6, FS_Union
  <2>8. Cardinality(1 .. n) = n
    BY FS_Interval
  <2> QED BY <2>4, <2>7, <2>8
<1>11. k * (2 + MaxSyncs) = k + k + k * MaxSyncs /\ k * MaxSyncs \in Nat
  BY BoundsAreNaturals
<1>12. l <= k * (2 + MaxSyncs)
  BY <1>6, <1>7, <1>8, <1>9, <1>10, <1>11
<1> QED BY <1>1, <1>2, <1>11, <1>12 DEF Ids

LEMMA SelectKeepsParts ==
  ASSUME WebhooksInv, NEW r \in Runs, Select(r)
  PROVE  Parts'
<1>1. /\ run[r] = Waiting /\ connection = "enabled"
      /\ UNCHANGED <<connection, user, events, sync, clock, receiver, unordered, spent>>
      /\ run' = [q \in Runs |-> run'[q]] /\ \A q \in Runs \ {r} : run'[q] = run[q]
      /\ run'[r] \in Run /\ run'[r].step = "sending" /\ run'[r].batch # <<>>
      /\ delivery' \in Seq(Delivery) /\ Rows' = Rows
  BY SelectIs
<1>2. \A i \in DOMAIN run'[r].batch :
         LET d == run'[r].batch[i].id
         IN  d \in Rows /\ Selectable(d) /\ run'[r].batch[i] = CopyOf(d)
  BY SelectIs
<1>3. \A i, j \in DOMAIN run'[r].batch : run'[r].batch[i].id = run'[r].batch[j].id => i = j
  BY SelectIs
<1>4. \A j \in DOMAIN run'[r].batch, d \in Rows :
         Selectable(d) /\ delivery[d].at < delivery[run'[r].batch[j].id].at
             => \E i \in DOMAIN run'[r].batch : i < j /\ run'[r].batch[i].id = d
  BY SelectIs
<1>5. ASSUME NEW d \in Rows
      PROVE  /\ delivery'[d].event = delivery[d].event /\ delivery'[d].type = delivery[d].type
             /\ delivery'[d].user = delivery[d].user /\ delivery'[d].at = delivery[d].at
             /\ delivery'[d].attempt = delivery[d].attempt /\ delivery'[d].status = delivery[d].status
             /\ delivery'[d].shared = (delivery[d].shared
                    \/ (d \in Taken(r) /\ \E q \in Runs \ {r} : InHand(q, d)))
             /\ delivery'[d] \in Delivery
  <2>1. PICK x \in Delivery : x = delivery[d]
    BY Facts
  <2>2. PICK b : b = delivery'[d].shared
    OBVIOUS
  <2>3. delivery'[d] = [x EXCEPT !.shared = b]
    BY <2>1, <2>2, SelectIs
  <2>4. delivery'[d] \in Delivery
    BY <1>1 DEF Rows
  <2>5. delivery'[d].shared = (delivery[d].shared \/ (d \in Taken(r) /\ \E q \in Runs \ {r} : InHand(q, d)))
    BY SelectIs
  <2> QED BY <2>1, <2>3, <2>4, <2>5 DEF Delivery
<1>6. RowsStay
  BY <1>1, <1>5 DEF RowsStay
<1>7. Shapes'
  BY <1>1, InvHasParts DEF Parts, Shapes
<1>8. EventsOK' /\ \A d \in Rows' : RowOK(d)' /\ LastOK(d)'
  BY <1>1, <1>6, StayKeepsRows, Facts
<1>9. SyncOK' /\ CountOK' /\ ReceiverOK'
  BY <1>1, <1>6, StayKeepsCount, StayKeepsSync, StayKeepsReceiver, Facts DEF SyncOK
<1>10. run[r].batch = <<>> /\ r \notin UNION {Holders(d) : d \in Rows}
  BY <1>1 DEF Waiting, Holders, InHand
<1>11. ASSUME NEW d \in Rows
       PROVE  /\ d \notin Taken(r) => Holders(d)' = Holders(d)
              /\ d \in Taken(r) => Holders(d)' = Holders(d) \union {r} /\ Selectable(d)
  <2>1. r \in Holders(d)' <=> d \in Taken(r)
    BY DEF Holders, InHand, Taken
  <2>2. \A q \in Runs \ {r} : q \in Holders(d)' <=> q \in Holders(d)
    BY <1>1 DEF Holders, InHand
  <2>3. r \notin Holders(d)
    BY <1>10
  <2>4. Holders(d)' \subseteq Runs /\ Holders(d) \subseteq Runs
    BY DEF Holders
  <2>5. d \in Taken(r) => Selectable(d)
    BY <1>2 DEF Taken
  <2> QED BY <2>1, <2>2, <2>3, <2>4, <2>5
<1>12. ASSUME NEW d \in Rows
       PROVE  AttemptsOK(d)'
  <2>1. AttemptsOK(d) /\ delivery[d].attempt \in Nat /\ delivery[d].shared \in BOOLEAN
    BY Facts DEF Delivery
  <2>2. CASE d \notin Taken(r)
    BY <1>5, <1>11, <2>1, <2>2 DEF AttemptsOK
  <2>3. CASE d \in Taken(r)
    <3>1. PICK H \in SUBSET Runs : H = Holders(d)
      BY DEF Holders
    <3>2. Holders(d)' = H \union {r} /\ delivery[d].attempt <= Attempts
          /\ delivery[d].status # "succeeded" /\ r \notin H
      <4>1. Selectable(d) /\ Holders(d)' = H \union {r}
        BY <1>11, <2>3, <3>1
      <4>2. r \notin H
        BY <1>10, <3>1
      <4> QED BY <4>1, <4>2 DEF Selectable
    <3>3. delivery'[d].shared = (delivery[d].shared \/ H # {})
      <4>1. (\E q \in Runs \ {r} : InHand(q, d)) <=> H # {}
        BY <3>1, <3>2 DEF Holders
      <4> QED BY <1>5, <2>3, <4>1
    <3>4. /\ Cardinality(H \union {r}) \in Nat /\ Cardinality(Runs) \in Nat
          /\ Cardinality(H \union {r}) <= Cardinality(Runs)
          /\ H = {} => Cardinality(H \union {r}) = 1
      <4>1. H \union {r} \subseteq Runs
        OBVIOUS
      <4>2. H = {} => H \union {r} = {r}
        OBVIOUS
      <4>3. Cardinality({r}) = 1
        BY FS_Singleton
      <4> QED BY <4>1, <4>2, <4>3, HoldersAreFinite
    <3>5. delivery'[d].attempt + Cardinality(Holders(d)')
            <= Attempts + (IF delivery'[d].shared THEN Cardinality(Runs) ELSE 1)
      <4>1. PICK c \in Nat : c = Cardinality(H \union {r})
        BY <3>4
      <4>2. PICK b \in BOOLEAN : b = delivery'[d].shared
        BY <2>1, <3>3
      <4>3. CASE b
        BY <1>5, <2>1, <3>2, <3>4, <4>1, <4>2, <4>3, BoundsAreNaturals
      <4>4. CASE ~b
        <5>1. H = {}
          BY <3>3, <4>2, <4>4
        <5> QED BY <1>5, <2>1, <3>2, <3>4, <4>1, <4>2, <4>4, <5>1, BoundsAreNaturals
      <4> QED BY <4>3, <4>4
    <3>6. \A p, q \in Holders(d)' : p # q => delivery'[d].shared
      BY <3>2, <3>3
    <3>7. delivery'[d].status # "succeeded" /\ delivery'[d].attempt >= 1
      BY <1>5, <2>1, <3>2 DEF AttemptsOK
    <3> QED BY <3>5, <3>6, <3>7 DEF AttemptsOK
  <2> QED BY <2>2, <2>3
<1>13. \A d \in Rows : StatusOK(d)'
  BY <1>1, <1>5, Facts DEF StatusOK
<1>14. RunOK(r)'
  <2>1. run'[r].batch \in Seq(Copy) /\ \A i \in DOMAIN run'[r].batch : run'[r].batch[i] \in Copy
    BY <1>1 DEF Run
  <2>2. ASSUME NEW i \in DOMAIN run'[r].batch
        PROVE  /\ run'[r].batch[i].id \in Ids /\ user[run'[r].batch[i].user] # "new"
               /\ run'[r].batch[i].id \in Rows
               /\ run'[r].batch[i] = [id |-> run'[r].batch[i].id,
                                      type |-> delivery'[run'[r].batch[i].id].type,
                                      user |-> delivery'[run'[r].batch[i].id].user]
    <3>1. PICK d \in Rows : d = run'[r].batch[i].id /\ run'[r].batch[i] = CopyOf(d)
      BY <1>2
    <3>2. CopyOf(d)' = CopyOf(d) /\ CopyOf(d).user = delivery[d].user
      BY <1>5 DEF CopyOf
    <3>3. user[delivery[d].user] # "new"
      BY Facts DEF RowOK
    <3>4. d \in Ids
      BY RowsAreIds
    <3>5. CopyOf(d)' = [id |-> d, type |-> delivery'[d].type, user |-> delivery'[d].user]
      BY DEF CopyOf
    <3>6. run'[r].batch[i].user = delivery[d].user
      BY <3>1, <3>2
    <3>7. run'[r].batch[i] = [id |-> d, type |-> delivery'[d].type, user |-> delivery'[d].user]
      BY <3>1, <3>2, <3>5
    <3> QED BY <3>1, <3>3, <3>4, <3>6, <3>7
  <2>3. ASSUME NEW j \in DOMAIN run'[r].batch, NEW d \in Rows,
               run'[r].batch[j].type = "user.deleted", Created(d),
               delivery[d].user = run'[r].batch[j].user, run'[r].batch[j].user \notin unordered
        PROVE  d \in receiver.seen \/ \E i \in DOMAIN run'[r].batch : i < j /\ run'[r].batch[i].id = d
    <3>1. PICK b \in Rows : b = run'[r].batch[j].id /\ run'[r].batch[j] = CopyOf(b)
      BY <1>2
    <3>2. delivery[b].type = "user.deleted" /\ delivery[b].user = delivery[d].user
      BY <2>3, <3>1 DEF CopyOf
    <3>3. delivery[d].at < delivery[b].at
      <4>1. LastOK(b)
        BY Facts
      <4> QED BY <2>3, <3>2, <4>1 DEF LastOK
    <3>4. CASE delivery[d].status = "pending"
      <4>1. Selectable(d)
        BY <3>4, Facts, BoundsAreNaturals DEF StatusOK, Selectable
      <4> QED BY <1>4, <3>1, <3>3, <4>1
    <3>5. CASE delivery[d].status # "pending"
      BY <2>3, <3>5, Facts DEF StatusOK
    <3> QED BY <3>4, <3>5
  <2>4. BatchOK(r)'
    <3>1. \A d \in Rows : Created(d)' <=> Created(d)
      BY <1>5 DEF Created
    <3>2. PICK batch : batch = run'[r].batch
      OBVIOUS
    <3>3. \A i, j \in DOMAIN batch : batch[i].id = batch[j].id => i = j
      BY <1>3, <3>2
    <3>4. \A i \in DOMAIN batch : batch[i].id \in Ids /\ user'[batch[i].user] # "new"
      BY <1>1, <2>2, <3>2
    <3>5. \A i \in DOMAIN batch :
            /\ batch[i].id \in Rows'
            /\ batch[i] = [id |-> batch[i].id, type |-> delivery'[batch[i].id].type,
                           user |-> delivery'[batch[i].id].user]
      BY <1>1, <2>2, <3>2
    <3>6. ASSUME NEW j \in DOMAIN batch, NEW d \in Rows', batch[j].type = "user.deleted", Created(d)',
                 delivery'[d].user = batch[j].user, batch[j].user \notin unordered'
          PROVE  d \in receiver'.seen \/ \E i \in DOMAIN batch : i < j /\ batch[i].id = d
      <4>1. d \in Rows /\ Created(d) /\ delivery[d].user = batch[j].user
        BY <1>1, <1>5, <3>1, <3>6
      <4>2. batch[j].user \notin unordered
        BY <1>1, <3>6
      <4>3. d \in receiver.seen \/ \E i \in DOMAIN batch : i < j /\ batch[i].id = d
        BY <2>3, <3>2, <3>6, <4>1, <4>2
      <4> QED BY <1>1, <4>3
    <3> QED BY <3>2, <3>3, <3>4, <3>5, <3>6 DEF BatchOK, CopyOf
  <2> QED BY <1>1, <2>4 DEF RunOK
<1>15. \A q \in Runs : RunOK(q)'
  <2>1. ASSUME NEW q \in Runs \ {r}
        PROVE  RunOK(q)'
    BY <1>1, <1>6, StayKeepsRun
  <2> QED BY <1>14, <2>1
<1> QED BY <1>1, <1>7, <1>8, <1>9, <1>12, <1>13, <1>15 DEF Parts

LEMMA AnsweredIs ==
  ASSUME WebhooksInv, NEW r \in Runs, run[r].step = "sending", NEW ok \in BOOLEAN, Answered(r, ok)
  PROVE  /\ run' \in [Runs -> Run] /\ run'[r].step = "answered" /\ run'[r].ok = ok
         /\ run'[r].batch = run[r].batch /\ \A q \in Runs \ {r} : run'[q] = run[q]
         /\ \A d : Holders(d)' = Holders(d)
         /\ run[r].batch # <<>> /\ Head(run[r].batch) \in Copy
         /\ 1 \in DOMAIN run[r].batch /\ Head(run[r].batch) = run[r].batch[1]
<1>1. run \in [Runs -> Run] /\ run[r].batch # <<>>
  BY Facts DEF TypeOK, RunOK, Waiting
<1>2. PICK x \in Run : x = run[r]
  BY <1>1
<1>3. PICK w : w = [x EXCEPT !.step = "answered", !.ok = ok]
  OBVIOUS
<1>4. w \in Run /\ w.step = "answered" /\ w.ok = ok /\ w.batch = x.batch
  BY <1>3 DEF Run
<1>5. run' = [run EXCEPT ![r] = w]
  BY <1>1, <1>2, <1>3 DEF Answered
<1>6. /\ run' \in [Runs -> Run] /\ run'[r].step = "answered" /\ run'[r].ok = ok
      /\ run'[r].batch = run[r].batch /\ \A q \in Runs \ {r} : run'[q] = run[q]
  BY <1>1, <1>2, <1>4, <1>5
<1>7. \A q \in Runs : run'[q].batch = run[q].batch
  BY <1>6
<1>8. ASSUME NEW d
      PROVE  Holders(d)' = Holders(d)
  BY <1>7 DEF Holders, InHand
<1>9. /\ 1 \in DOMAIN run[r].batch /\ Head(run[r].batch) = run[r].batch[1]
      /\ Head(run[r].batch) \in Copy
  BY <1>1, BatchFacts
<1> QED BY <1>1, <1>6, <1>8, <1>9

LEMMA MissKeepsParts ==
  ASSUME WebhooksInv, NEW r \in Runs, Miss(r)
  PROVE  Parts'
<1>1. /\ run[r].step = "sending" /\ Answered(r, FALSE)
      /\ unordered' = unordered \union {Head(run[r].batch).user}
      /\ UNCHANGED <<connection, user, events, delivery, sync, clock, receiver, spent>>
  BY DEF Miss
<1>2. /\ run' \in [Runs -> Run] /\ run'[r].step = "answered" /\ run'[r].ok = FALSE
      /\ run'[r].batch = run[r].batch /\ \A q \in Runs \ {r} : run'[q] = run[q]
      /\ \A d : Holders(d)' = Holders(d)
      /\ run[r].batch # <<>> /\ Head(run[r].batch) \in Copy
  BY <1>1, AnsweredIs
<1>3. RowsStay /\ Rows' = Rows
  BY <1>1, UnchangedRowsStay DEF RowsStay
<1>4. unordered \subseteq unordered'
  BY <1>1
<1>5. Shapes'
  <2>1. unordered' \subseteq Users
    BY <1>1, <1>2, Facts DEF Copy, TypeOK
  <2> QED BY <1>1, <1>2, <2>1, InvHasParts DEF Parts, Shapes
<1>6. EventsOK' /\ \A d \in Rows' : RowOK(d)' /\ LastOK(d)'
  BY <1>1, <1>3, <1>4, StayKeepsRows, Facts
<1>7. SyncOK' /\ CountOK' /\ ReceiverOK'
  BY <1>1, <1>3, <1>4, StayKeepsCount, StayKeepsSync, StayKeepsReceiver, Facts DEF SyncOK
<1>8. ASSUME NEW d \in Rows
      PROVE  AttemptsOK(d)' /\ StatusOK(d)'
  <2>1. AttemptsOK(d) /\ StatusOK(d)
    BY Facts
  <2>2. AttemptsOK(d)'
    BY <1>1, <1>2, <2>1 DEF AttemptsOK
  <2> QED BY <1>1, <2>1, <2>2 DEF StatusOK
<1>9. ASSUME NEW q \in Runs
      PROVE  RunOK(q)'
  <2>1. CASE q = r
    <3>1. BatchOK(r)'
      BY <1>1, <1>2, <1>3, <1>4, StayKeepsBatch
    <3>2. Head(run[r].batch).user \in unordered'
      BY <1>1
    <3> QED BY <1>2, <2>1, <3>1, <3>2 DEF RunOK
  <2>2. CASE q # r
    BY <1>1, <1>2, <1>3, <1>4, <2>2, StayKeepsRun
  <2> QED BY <2>1, <2>2
<1> QED BY <1>3, <1>5, <1>6, <1>7, <1>8, <1>9 DEF Parts

\* A user is removed once.
LEMMA OneRemoval ==
  ASSUME WebhooksInv, NEW c \in Rows, NEW d \in Rows, NEW u, DeletedOf(c, u), DeletedOf(d, u)
  PROVE  c = d
<1>1. RowOK(c) /\ RowOK(d) /\ IsInjective(events)
  BY Facts DEF EventsOK
<1>2. /\ delivery[c].event \in DOMAIN events
      /\ events[delivery[c].event] = [type |-> "user.deleted", user |-> u]
      /\ delivery[d].event \in DOMAIN events
      /\ events[delivery[d].event] = [type |-> "user.deleted", user |-> u]
  BY <1>1 DEF RowOK, DeletedOf, Created
<1>3. delivery[c].event = delivery[d].event /\ delivery[c].event # 0
  <2>1. delivery[c].event = delivery[d].event
    BY <1>1, <1>2 DEF IsInjective
  <2> QED BY <1>2, <2>1, Facts
<1> QED BY <1>1, <1>3 DEF RowOK

LEMMA DeliverKeepsReceiver ==
  ASSUME WebhooksInv, NEW r \in Runs, run[r].step = "sending",
         receiver' = Processed(Head(run[r].batch)),
         UNCHANGED <<connection, user, delivery, unordered>>
  PROVE  /\ ReceiverOK' /\ receiver.seen \subseteq receiver'.seen
         /\ Head(run[r].batch).id \in receiver'.seen
         /\ receiver' \in [accounts: SUBSET Users, seen: SUBSET Ids]
         /\ connection = "none" => receiver'.seen = {}
<1>1. PICK h \in Copy : h = Head(run[r].batch) /\ h = run[r].batch[1] /\ 1 \in DOMAIN run[r].batch
                        /\ DOMAIN run[r].batch \subseteq Nat \ {0}
  <2>1. run[r].batch # <<>>
    BY Facts DEF RunOK, Waiting
  <2> QED BY <2>1, BatchFacts
<1>2. /\ h.id \in Ids /\ user[h.user] # "new" /\ h.user \in Users /\ h.type \in Types
      /\ connection # "deleted" => h.id \in Rows /\ h = CopyOf(h.id)
  BY <1>1, Facts DEF RunOK, BatchOK, Copy
<1>3. receiver \in [accounts: SUBSET Users, seen: SUBSET Ids]
  BY Facts DEF TypeOK
<1>4. ReceiverOK /\ SyncOK
  BY Facts
<1>5. CASE h.id \in receiver.seen
  <2>1. UNCHANGED receiver
    BY <1>1, <1>5 DEF Processed
  <2>2. ReceiverOK'
    BY <2>1, UnchangedRowsStay, StayKeepsReceiver
  <2> QED BY <1>1, <1>3, <1>4, <1>5, <2>1, <2>2 DEF SyncOK
<1>6. CASE h.id \notin receiver.seen
  <2>1. PICK accounts \in SUBSET Users :
          accounts = IF h.type = "user.created" THEN receiver.accounts \union {h.user}
                     ELSE receiver.accounts \ {h.user}
    BY <1>2, <1>3
  <2>2. receiver' = [seen |-> receiver.seen \union {h.id}, accounts |-> accounts]
    BY <1>1, <1>6, <2>1 DEF Processed
  <2>3. /\ receiver'.seen = receiver.seen \union {h.id} /\ receiver'.accounts = accounts
        /\ receiver' \in [accounts: SUBSET Users, seen: SUBSET Ids]
    BY <1>2, <1>3, <2>2
  <2>4. connection # "none"
    <3>1. connection = "none" => Rows = {}
      BY <1>4 DEF SyncOK, Rows
    <3> QED BY <1>2, <3>1
  <2>5. \A u \in accounts : user[u] # "new"
    BY <1>2, <1>4, <2>1 DEF ReceiverOK
  <2>6. CASE connection = "deleted"
    <3>1. Rows = {}
      BY <1>4, <2>6 DEF SyncOK, Rows
    <3> QED BY <1>1, <2>3, <2>4, <2>5, <2>6, <3>1 DEF ReceiverOK, Rows
  <2>7. CASE connection # "deleted"
    <3>1. receiver.seen \subseteq Rows /\ h.id \in Rows /\ h = CopyOf(h.id)
      BY <1>2, <1>4, <2>7 DEF ReceiverOK
    <3>2. delivery[h.id].type = h.type /\ delivery[h.id].user = h.user
      BY <3>1 DEF CopyOf
    <3>3. ASSUME NEW d \in Rows, d \in receiver.seen \union {h.id}, Created(d),
                 \A c \in receiver.seen \union {h.id} : ~DeletedOf(c, delivery[d].user)
          PROVE  delivery[d].user \in accounts
      <4>1. CASE d = h.id
        BY <2>1, <3>2, <3>3, <4>1 DEF Created
      <4>2. CASE d # h.id
        <5>1. delivery[d].user \in receiver.accounts
          BY <1>4, <3>3, <4>2 DEF ReceiverOK
        <5>2. h.type = "user.deleted" => h.user # delivery[d].user
          BY <3>2, <3>3 DEF DeletedOf
        <5> QED BY <1>2, <2>1, <5>1, <5>2 DEF Types
      <4> QED BY <4>1, <4>2
    <3>4. ASSUME NEW d \in Rows, d \in receiver.seen \union {h.id}, delivery[d].type = "user.deleted",
                 delivery[d].user \notin unordered
          PROVE  /\ delivery[d].user \notin accounts
                 /\ \A c \in Rows : delivery[c].user = delivery[d].user
                                      => c \in receiver.seen \union {h.id}
      <4>1. CASE d = h.id
        <5>1. h.type = "user.deleted" /\ h.user = delivery[d].user
          BY <3>2, <3>4, <4>1
        <5>2. h.user \notin accounts
          BY <2>1, <5>1
        <5>3. ASSUME NEW c \in Rows, delivery[c].user = delivery[d].user
              PROVE  c \in receiver.seen \union {h.id}
          <6>1. CASE Created(c)
            <7>1. BatchOK(r)
              BY Facts DEF RunOK
            <7>2. c \in receiver.seen \/ \E i \in DOMAIN run[r].batch : i < 1 /\ run[r].batch[i].id = c
              BY <1>1, <3>4, <5>1, <5>3, <6>1, <7>1 DEF BatchOK
            <7> QED BY <1>1, <7>2
          <6>2. CASE ~Created(c)
            <7>1. DeletedOf(c, h.user) /\ DeletedOf(h.id, h.user)
              BY <3>2, <5>1, <5>3, <6>2, Facts DEF Created, DeletedOf, Delivery, Types
            <7> QED BY <3>1, <7>1, OneRemoval
          <6> QED BY <6>1, <6>2
        <5> QED BY <5>1, <5>2, <5>3
      <4>2. CASE d # h.id
        <5>1. /\ delivery[d].user \notin receiver.accounts
              /\ \A c \in Rows : delivery[c].user = delivery[d].user => c \in receiver.seen
          BY <1>4, <3>4, <4>2 DEF ReceiverOK
        <5>2. h.user # delivery[d].user
          BY <1>6, <3>1, <3>2, <5>1
        <5> QED BY <2>1, <5>1, <5>2
      <4> QED BY <4>1, <4>2
    <3>5. ReceiverOK'
      <4>1. receiver'.seen \subseteq Rows'
        BY <2>3, <3>1 DEF Rows
      <4> QED BY <2>3, <2>5, <3>3, <3>4, <4>1 DEF ReceiverOK, Created, DeletedOf, Rows
    <3> QED BY <1>1, <2>3, <2>4, <3>5
  <2> QED BY <2>6, <2>7
<1> QED BY <1>5, <1>6

LEMMA DeliverKeepsParts ==
  ASSUME WebhooksInv, NEW r \in Runs, Deliver(r)
  PROVE  Parts'
<1>1. PICK ok \in BOOLEAN :
        /\ run[r].step = "sending" /\ Answered(r, ok)
        /\ receiver' = Processed(Head(run[r].batch))
        /\ UNCHANGED <<connection, user, events, delivery, sync, clock, unordered, spent>>
  BY DEF Deliver
<1>2. /\ run' \in [Runs -> Run] /\ run'[r].step = "answered"
      /\ run'[r].batch = run[r].batch /\ \A q \in Runs \ {r} : run'[q] = run[q]
      /\ \A d : Holders(d)' = Holders(d)
      /\ run[r].batch # <<>>
  BY <1>1, AnsweredIs
<1>3. RowsStay /\ Rows' = Rows
  BY <1>1, UnchangedRowsStay DEF RowsStay
<1>4. /\ ReceiverOK' /\ receiver.seen \subseteq receiver'.seen
      /\ Head(run[r].batch).id \in receiver'.seen
      /\ receiver' \in [accounts: SUBSET Users, seen: SUBSET Ids]
      /\ connection = "none" => receiver'.seen = {}
  BY <1>1, DeliverKeepsReceiver
<1>5. Shapes'
  BY <1>1, <1>2, <1>4, InvHasParts DEF Parts, Shapes
<1>6. EventsOK' /\ \A d \in Rows' : RowOK(d)' /\ LastOK(d)'
  BY <1>1, <1>3, StayKeepsRows, Facts
<1>7. SyncOK' /\ CountOK'
  BY <1>1, <1>3, <1>4, StayKeepsCount, StayKeepsSync
<1>8. ASSUME NEW d \in Rows
      PROVE  AttemptsOK(d)' /\ StatusOK(d)'
  <2>1. AttemptsOK(d) /\ StatusOK(d)
    BY Facts
  <2>2. AttemptsOK(d)'
    BY <1>1, <1>2, <2>1 DEF AttemptsOK
  <2> QED BY <1>1, <1>4, <2>1, <2>2 DEF StatusOK
<1>9. ASSUME NEW q \in Runs
      PROVE  RunOK(q)'
  <2>1. CASE q = r
    <3>1. BatchOK(r)'
      BY <1>1, <1>2, <1>3, <1>4, StayKeepsBatch
    <3> QED BY <1>2, <1>4, <2>1, <3>1 DEF RunOK
  <2>2. CASE q # r
    BY <1>1, <1>2, <1>3, <1>4, <2>2, StayKeepsRun
  <2> QED BY <2>1, <2>2
<1> QED BY <1>3, <1>4, <1>5, <1>6, <1>7, <1>8, <1>9 DEF Parts

\* What Record makes of the run and of the row of its first delivery.
LEMMA RecordIs ==
  ASSUME WebhooksInv, NEW r \in Runs, Record(r)
  PROVE  /\ run[r].step = "answered" /\ run[r].batch # <<>> /\ Len(run[r].batch) \in Nat \ {0}
         /\ DOMAIN run[r].batch = 1 .. Len(run[r].batch)
         /\ Head(run[r].batch) = run[r].batch[1]
         /\ UNCHANGED <<connection, user, events, sync, clock, receiver, unordered, spent>>
         /\ run' \in [Runs -> Run] /\ \A q \in Runs \ {r} : run'[q] = run[q]
         /\ \/ run'[r] = Waiting
            \/ run'[r].step = "sending" /\ run'[r].batch # <<>>
         /\ DOMAIN run'[r].batch = 1 .. (Len(run[r].batch) - 1)
         /\ \A i \in DOMAIN run'[r].batch : run'[r].batch[i] = run[r].batch[i + 1]
         /\ RowsStay /\ Rows' = Rows
         /\ \A d \in Rows : d # Head(run[r].batch).id => delivery'[d] = delivery[d]
         /\ \A d \in Rows : d = Head(run[r].batch).id =>
               /\ delivery'[d].shared = delivery[d].shared
               /\ run[r].ok => /\ delivery'[d].status = "succeeded"
                               /\ delivery'[d].attempt = delivery[d].attempt
               /\ ~run[r].ok => /\ delivery'[d].status = "failed"
                                /\ delivery'[d].attempt = delivery[d].attempt + 1
<1>1. /\ run[r].step = "answered"
      /\ UNCHANGED <<connection, user, events, sync, clock, receiver, unordered, spent>>
  BY DEF Record
<1>2. run[r].batch # <<>>
  BY <1>1, Facts DEF RunOK, Waiting
<1>3. PICK b \in Seq(Copy) : b = run[r].batch /\ b # <<>> /\ Head(b) = b[1] /\ b[1] \in Copy
  BY <1>2, BatchFacts
<1>4. PICK n \in Nat \ {0} : n = Len(b) /\ DOMAIN b = 1 .. n
  BY <1>3, EmptySeq
<1>5. PICK rest \in Seq(Copy) : rest = Tail(b) /\ DOMAIN rest = 1 .. n - 1 /\ Len(rest) = n - 1
                                /\ \A i \in 1 .. n - 1 : rest[i] = b[i + 1]
  <2>1. b \in [1 .. n -> Copy] /\ Tail(b) \in Seq(Copy) /\ Len(Tail(b)) = n - 1
    BY <1>3, <1>4, HeadTailProperties
  <2>2. \A i \in 1 .. n - 1 : Tail(b)[i] = b[i + 1]
    BY <1>3, <1>4, <2>1, HeadTailProperties
  <2>3. PICK rest \in Seq(Copy) : rest = Tail(b)
    BY <2>1
  <2>4. DOMAIN rest = 1 .. n - 1
    BY <2>1, <2>3
  <2> QED BY <2>1, <2>2, <2>3, <2>4
<1>6. run \in [Runs -> Run] /\ run[r].ok \in BOOLEAN /\ delivery \in Seq(Delivery)
  BY Facts, BatchFacts DEF TypeOK, Run
<1>7. PICK w : w = IF rest = <<>> THEN Waiting ELSE [step |-> "sending", batch |-> rest, ok |-> FALSE]
  OBVIOUS
<1>8. w \in Run /\ w.batch = rest /\ (w = Waiting \/ (w.step = "sending" /\ w.batch # <<>>))
  <2>1. CASE rest = <<>>
    BY <1>5, <1>7, <2>1 DEF Waiting, Run
  <2>2. CASE rest # <<>>
    BY <1>5, <1>7, <2>2 DEF Run
  <2> QED BY <2>1, <2>2
<1>9. run' = [run EXCEPT ![r] = w]
  BY <1>3, <1>5, <1>7 DEF Record
<1>10. /\ run' \in [Runs -> Run] /\ \A q \in Runs \ {r} : run'[q] = run[q]
       /\ run'[r] = w /\ run'[r].batch = rest
  BY <1>6, <1>8, <1>9
<1>11. delivery' = IF b[1].id \in DOMAIN delivery
                   THEN [delivery EXCEPT ![b[1].id] = Recorded(delivery[b[1].id], run[r].ok)] ELSE delivery
  BY <1>3 DEF Record
<1>12. /\ RowsStay /\ Rows' = Rows
       /\ \A d \in Rows : d # b[1].id => delivery'[d] = delivery[d]
       /\ \A d \in Rows : d = b[1].id =>
             /\ delivery'[d].shared = delivery[d].shared
             /\ run[r].ok => /\ delivery'[d].status = "succeeded"
                             /\ delivery'[d].attempt = delivery[d].attempt
             /\ ~run[r].ok => /\ delivery'[d].status = "failed"
                              /\ delivery'[d].attempt = delivery[d].attempt + 1
  <2>1. CASE b[1].id \notin DOMAIN delivery
    <3>1. UNCHANGED delivery
      BY <1>11, <2>1
    <3>2. RowsStay
      BY <3>1, UnchangedRowsStay
    <3> QED BY <2>1, <3>1, <3>2 DEF Rows
  <2>2. CASE b[1].id \in DOMAIN delivery
    <3>1. PICK h \in Rows : h = b[1].id
      BY <2>2 DEF Rows
    <3>2. PICK x \in Delivery : x = delivery[h]
      BY Facts
    <3>3. PICK ok \in BOOLEAN : ok = run[r].ok
      BY <1>6
    <3>4. PICK y : y = Recorded(x, ok)
      OBVIOUS
    <3>5. /\ y \in Delivery /\ y.shared = x.shared /\ y.event = x.event /\ y.type = x.type
          /\ y.user = x.user /\ y.at = x.at
          /\ ok => y.status = "succeeded" /\ y.attempt = x.attempt
          /\ ~ok => y.status = "failed" /\ y.attempt = x.attempt + 1
      <4>1. CASE ok
        BY <3>2, <3>4, <4>1 DEF Recorded, Delivery
      <4>2. CASE ~ok
        <5>1. PICK z \in Delivery : z = [x EXCEPT !.status = "failed"]
          BY DEF Delivery
        <5>2. /\ z.shared = x.shared /\ z.event = x.event /\ z.type = x.type /\ z.attempt = x.attempt
              /\ z.user = x.user /\ z.at = x.at /\ z.status = "failed" /\ x.attempt + 1 \in Nat
          BY <5>1 DEF Delivery
        <5>3. y = [z EXCEPT !.attempt = x.attempt + 1]
          BY <3>4, <4>2, <5>1 DEF Recorded
        <5> QED BY <4>2, <5>2, <5>3 DEF Delivery
      <4> QED BY <4>1, <4>2
    <3>6. delivery' = [delivery EXCEPT ![h] = y]
      BY <1>11, <2>2, <3>1, <3>2, <3>3, <3>4
    <3>7. delivery' \in Seq(Delivery) /\ Rows' = Rows
      BY <1>6, <3>5, <3>6 DEF Rows
    <3>8. \A d \in Rows : delivery'[d] = IF d = h THEN y ELSE delivery[d]
      BY <3>6 DEF Rows
    <3>9. RowsStay
      BY <3>2, <3>5, <3>7, <3>8, Facts DEF RowsStay
    <3> QED BY <3>1, <3>2, <3>3, <3>5, <3>7, <3>8, <3>9
  <2> QED BY <2>1, <2>2
<1>13. /\ DOMAIN run'[r].batch = 1 .. (Len(run[r].batch) - 1)
       /\ \A i \in DOMAIN run'[r].batch : run'[r].batch[i] = run[r].batch[i + 1]
       /\ run'[r] = Waiting \/ (run'[r].step = "sending" /\ run'[r].batch # <<>>)
  BY <1>3, <1>4, <1>5, <1>8, <1>10
<1>14. /\ Len(run[r].batch) \in Nat \ {0} /\ DOMAIN run[r].batch = 1 .. Len(run[r].batch)
       /\ Head(run[r].batch) = run[r].batch[1]
  BY <1>3, <1>4
<1> QED BY <1>1, <1>2, <1>3, <1>10, <1>12, <1>13, <1>14

LEMMA RecordKeepsParts ==
  ASSUME WebhooksInv, NEW r \in Runs, Record(r)
  PROVE  Parts'
<1>1. /\ run[r].step = "answered" /\ run[r].batch # <<>>
      /\ UNCHANGED <<connection, user, events, sync, clock, receiver, unordered, spent>>
      /\ run' \in [Runs -> Run] /\ \A q \in Runs \ {r} : run'[q] = run[q]
      /\ run'[r] = Waiting \/ (run'[r].step = "sending" /\ run'[r].batch # <<>>)
      /\ RowsStay /\ Rows' = Rows
  BY RecordIs
<1>2. PICK n \in Nat \ {0} : n = Len(run[r].batch)
  BY RecordIs
<1>3. PICK b : b = run[r].batch /\ DOMAIN b = 1 .. n /\ Head(run[r].batch) = b[1]
  BY <1>2, RecordIs
<1>4. /\ DOMAIN run'[r].batch = 1 .. n - 1
      /\ \A i \in 1 .. n - 1 : run'[r].batch[i] = b[i + 1]
  BY <1>2, <1>3, RecordIs
<1>5. PICK h : h = b[1].id
  OBVIOUS
<1>6. /\ \A d \in Rows : d # h => delivery'[d] = delivery[d]
      /\ \A d \in Rows : d = h =>
             /\ delivery'[d].shared = delivery[d].shared
             /\ run[r].ok => /\ delivery'[d].status = "succeeded"
                             /\ delivery'[d].attempt = delivery[d].attempt
             /\ ~run[r].ok => /\ delivery'[d].status = "failed"
                              /\ delivery'[d].attempt = delivery[d].attempt + 1
  BY <1>3, <1>5, RecordIs
<1>7. RunOK(r) /\ BatchOK(r) /\ (h \in receiver.seen \/ (~run[r].ok /\ b[1].user \in unordered))
  BY <1>1, <1>3, <1>5, Facts DEF RunOK
<1>8. \A i, j \in 1 .. n : b[i].id = b[j].id => i = j
  BY <1>3, <1>7 DEF BatchOK
<1>9. Shapes'
  BY <1>1, InvHasParts DEF Parts, Shapes, RowsStay
<1>10. EventsOK' /\ \A d \in Rows' : RowOK(d)' /\ LastOK(d)'
  BY <1>1, StayKeepsRows, Facts
<1>11. SyncOK' /\ CountOK' /\ ReceiverOK'
  BY <1>1, StayKeepsCount, StayKeepsSync, StayKeepsReceiver, Facts DEF SyncOK
\* The run lets go of the row, and of no other.
<1>12. ASSUME NEW d \in Rows
       PROVE  /\ d # h => Holders(d)' = Holders(d)
              /\ d = h => Holders(d)' = Holders(d) \ {r} /\ r \in Holders(d)
  <2>1. \A q \in Runs \ {r} : q \in Holders(d)' <=> q \in Holders(d)
    BY <1>1 DEF Holders, InHand
  <2>2. r \in Holders(d)' <=> \E i \in 1 .. n - 1 : b[i + 1].id = d
    BY <1>4 DEF Holders, InHand
  <2>3. r \in Holders(d) <=> \E i \in 1 .. n : b[i].id = d
    BY <1>3 DEF Holders, InHand
  <2>4. Holders(d)' \subseteq Runs /\ Holders(d) \subseteq Runs
    BY DEF Holders
  <2>5. CASE d # h
    <3>1. (\E i \in 1 .. n - 1 : b[i + 1].id = d) <=> \E i \in 1 .. n : b[i].id = d
      <4>1. ASSUME NEW i \in 1 .. n, b[i].id = d
            PROVE  \E j \in 1 .. n - 1 : b[j + 1].id = d
        <5>1. i # 1 /\ i - 1 \in 1 .. n - 1 /\ (i - 1) + 1 = i
          BY <1>5, <2>5, <4>1
        <5> QED BY <4>1, <5>1
      <4>2. ASSUME NEW i \in 1 .. n - 1, b[i + 1].id = d
            PROVE  \E j \in 1 .. n : b[j].id = d
        <5>1. i + 1 \in 1 .. n
          OBVIOUS
        <5> QED BY <4>2, <5>1
      <4> QED BY <4>1, <4>2
    <3> QED BY <2>1, <2>2, <2>3, <2>4, <2>5, <3>1
  <2>6. CASE d = h
    <3>1. ~ \E i \in 1 .. n - 1 : b[i + 1].id = d
      <4> SUFFICES ASSUME NEW i \in 1 .. n - 1, b[i + 1].id = d
                   PROVE  FALSE
        OBVIOUS
      <4>1. i + 1 \in 1 .. n /\ 1 \in 1 .. n /\ i + 1 # 1
        OBVIOUS
      <4> QED BY <1>5, <1>8, <2>6, <4>1
    <3>2. 1 \in 1 .. n /\ b[1].id = d
      BY <1>5, <2>6
    <3> QED BY <2>1, <2>2, <2>3, <2>4, <2>6, <3>1, <3>2
  <2> QED BY <2>5, <2>6
<1>13. ASSUME NEW d \in Rows
       PROVE  AttemptsOK(d)' /\ StatusOK(d)'
  <2>1. /\ AttemptsOK(d) /\ StatusOK(d) /\ delivery[d].attempt \in Nat /\ delivery[d].shared \in BOOLEAN
        /\ run[r].ok \in BOOLEAN
    BY Facts, BatchFacts DEF Delivery, Run
  <2>2. CASE d # h
    BY <1>1, <1>6, <1>12, <2>1, <2>2 DEF AttemptsOK, StatusOK
  <2>3. CASE d = h
    <3>1. PICK H \in SUBSET Runs : H = Holders(d)
      BY DEF Holders
    <3>2. Holders(d)' = H \ {r} /\ r \in H
      BY <1>12, <2>3, <3>1
    <3>3. PICK c \in Nat : Cardinality(H) = c + 1 /\ Cardinality(H \ {r}) = c
      <4>1. IsFiniteSet(H)
        BY UsersAndRunsAreFinite, FS_Subset
      <4>2. Cardinality(H) \in Nat /\ Cardinality(H \ {r}) = Cardinality(H) - 1
            /\ Cardinality(H \ {r}) \in Nat
        <5>1. IsFiniteSet(H \ {r}) /\ Cardinality(H \ {r}) = Cardinality(H) - 1
          BY <3>2, <4>1, FS_RemoveElement
        <5> QED BY <4>1, <5>1, FS_CardinalityType
      <4> QED BY <4>2
    <3>4. /\ delivery'[d].shared = delivery[d].shared
          /\ run[r].ok => delivery'[d].status = "succeeded" /\ delivery'[d].attempt = delivery[d].attempt
          /\ ~run[r].ok => delivery'[d].status = "failed" /\ delivery'[d].attempt = delivery[d].attempt + 1
      BY <1>6, <2>3
    <3>5. PICK bound \in Nat :
            bound = Attempts + (IF delivery[d].shared THEN Cardinality(Runs) ELSE 1)
      BY HoldersAreFinite, BoundsAreNaturals
    <3>6. delivery[d].attempt + (c + 1) <= bound /\ delivery[d].attempt >= 1
      BY <2>1, <3>1, <3>3, <3>5 DEF AttemptsOK
    <3>7. delivery'[d].attempt + c <= bound /\ delivery'[d].attempt >= 1
      BY <2>1, <3>3, <3>4, <3>6
    <3>8. \A p, q \in H \ {r} : p # q => delivery[d].shared
      BY <2>1, <3>1 DEF AttemptsOK
    <3>9. H \ {r} # {} => delivery[d].shared
      BY <2>1, <3>1, <3>2 DEF AttemptsOK
    <3>10. AttemptsOK(d)'
      BY <3>2, <3>3, <3>4, <3>5, <3>7, <3>8, <3>9 DEF AttemptsOK
    <3>11. d \in receiver.seen \/ (~run[r].ok /\ delivery[d].user \in unordered)
      <4>1. connection # "deleted"
        <5>1. connection = "deleted" => Rows = {}
          BY Facts DEF SyncOK, Rows
        <5> QED BY <5>1
      <4>2. b[1] = CopyOf(h)
        BY <1>3, <1>5, <1>7, <4>1 DEF BatchOK
      <4>3. b[1].user = delivery[d].user
        BY <2>3, <4>2 DEF CopyOf
      <4> QED BY <1>7, <2>3, <4>3
    <3>12. StatusOK(d)'
      <4>1. delivery'[d].user = delivery[d].user
        BY <1>1 DEF RowsStay
      <4>2. CASE run[r].ok
        BY <1>1, <3>4, <3>11, <4>1, <4>2 DEF StatusOK
      <4>3. CASE ~run[r].ok
        BY <1>1, <3>4, <3>11, <4>1, <4>3 DEF StatusOK
      <4> QED BY <4>2, <4>3
    <3> QED BY <3>10, <3>12
  <2> QED BY <2>2, <2>3
<1>14. BatchOK(r)'
  <2>1. PICK batch : batch = run'[r].batch /\ DOMAIN batch = 1 .. n - 1
                     /\ \A i \in 1 .. n - 1 : batch[i] = b[i + 1] /\ i + 1 \in 1 .. n
    BY <1>4
  <2>2. ASSUME NEW i \in DOMAIN batch, NEW j \in DOMAIN batch, batch[i].id = batch[j].id
        PROVE  i = j
    <3>1. i \in 1 .. n - 1 /\ j \in 1 .. n - 1 /\ b[i + 1].id = b[j + 1].id
      BY <2>1, <2>2
    <3>2. i + 1 \in 1 .. n /\ j + 1 \in 1 .. n
      BY <2>1, <3>1
    <3>3. i + 1 = j + 1
      BY <1>8, <3>1, <3>2
    <3> QED BY <3>1, <3>3
  <2>3. ASSUME NEW i \in DOMAIN batch
        PROVE  batch[i].id \in Ids /\ user'[batch[i].user] # "new"
    <3>1. PICK k \in 1 .. n : batch[i] = b[k]
      BY <2>1
    <3> QED BY <1>1, <1>3, <1>7, <3>1 DEF BatchOK
  <2>4. ASSUME connection' # "deleted", NEW i \in DOMAIN batch
        PROVE  /\ batch[i].id \in Rows'
               /\ batch[i] = [id |-> batch[i].id, type |-> delivery'[batch[i].id].type,
                              user |-> delivery'[batch[i].id].user]
    <3>1. PICK d \in Rows : d = batch[i].id /\ batch[i] = CopyOf(d)
      <4>1. PICK k \in 1 .. n : batch[i] = b[k]
        BY <2>1
      <4> QED BY <1>1, <1>3, <1>7, <2>4, <4>1 DEF BatchOK
    <3>2. delivery'[d].type = delivery[d].type /\ delivery'[d].user = delivery[d].user
      BY <1>1 DEF RowsStay
    <3> QED BY <1>1, <3>1, <3>2 DEF CopyOf
  <2>5. ASSUME NEW j \in DOMAIN batch, NEW d \in Rows', batch[j].type = "user.deleted", Created(d)',
               delivery'[d].user = batch[j].user, batch[j].user \notin unordered'
        PROVE  d \in receiver'.seen \/ \E i \in DOMAIN batch : i < j /\ batch[i].id = d
    <3>1. d \in Rows /\ Created(d) /\ delivery[d].user = batch[j].user /\ batch[j].user \notin unordered
      BY <1>1, <2>5 DEF RowsStay, Created
    <3>2. j \in 1 .. n - 1 /\ j + 1 \in 1 .. n /\ batch[j] = b[j + 1]
      BY <2>1
    <3>3. d \in receiver.seen \/ \E i \in 1 .. n : i < j + 1 /\ b[i].id = d
      BY <1>3, <1>7, <2>5, <3>1, <3>2 DEF BatchOK
    <3>4. ASSUME NEW i \in 1 .. n, i < j + 1, b[i].id = d
          PROVE  d \in receiver.seen \/ \E k \in DOMAIN batch : k < j /\ batch[k].id = d
      <4>1. CASE i = 1
        <5>1. connection # "deleted"
          <6>1. connection = "deleted" => Rows = {}
            BY Facts DEF SyncOK, Rows
          <6> QED BY <3>1, <6>1
        <5>2. b[1] = CopyOf(h)
          BY <1>3, <1>5, <1>7, <5>1 DEF BatchOK
        <5>3. h = d /\ b[1].user = delivery[d].user
          BY <1>5, <3>4, <4>1, <5>2 DEF CopyOf
        <5> QED BY <1>7, <3>1, <5>3
      <4>2. CASE i # 1
        <5>1. i - 1 \in 1 .. n - 1 /\ i - 1 < j /\ (i - 1) + 1 = i
          BY <3>2, <3>4, <4>2
        <5>2. batch[i - 1] = b[i]
          BY <2>1, <5>1
        <5> QED BY <2>1, <3>4, <5>1, <5>2
      <4> QED BY <4>1, <4>2
    <3> QED BY <1>1, <3>3, <3>4
  <2> QED BY <2>1, <2>2, <2>3, <2>4, <2>5 DEF BatchOK, CopyOf
<1>15. ASSUME NEW q \in Runs
       PROVE  RunOK(q)'
  <2>1. CASE q = r
    BY <1>1, <1>14, <2>1 DEF RunOK, Waiting
  <2>2. CASE q # r
    BY <1>1, <2>2, StayKeepsRun
  <2> QED BY <2>1, <2>2
<1> QED BY <1>1, <1>9, <1>10, <1>11, <1>13, <1>15 DEF Parts
-----------------------------------------------------------------------------
(* The theorems.                                                           *)

LEMMA InitWebhooksInv == Init => WebhooksInv
<1> SUFFICES ASSUME Init
             PROVE  Parts
  BY PartsMakeInv
<1>1. Rows = {} /\ DOMAIN events = {} /\ events \in Seq([type: Types, user: Users])
      /\ delivery \in Seq(Delivery)
  <2>1. PICK E : E = [type: Types, user: Users]
    OBVIOUS
  <2>2. events \in Seq(E) /\ DOMAIN events = {}
    BY DEF Init
  <2> QED BY <2>1, <2>2 DEF Init, Rows
<1>2. Shapes
  <2>1. Waiting \in Run
    BY DEF Waiting, Run
  <2>2. user \in [Users -> {"new", "present", "deleted"}] /\ connection \in {"none", "enabled", "deleted"}
    BY DEF Init
  <2>3. run \in [Runs -> Run]
    BY <2>1 DEF Init
  <2>4. receiver \in [accounts: SUBSET Users, seen: SUBSET Ids] /\ unordered \subseteq Users
    BY DEF Init
  <2>5. sync \in [step: {"none", "read"}, users: SUBSET Users, at: Nat]
    BY DEF Init, NoSync
  <2>6. clock \in Nat /\ spent \in [syncs: Nat, crashes: Nat]
    BY DEF Init
  <2> QED BY <1>1, <2>2, <2>3, <2>4, <2>5, <2>6 DEF Shapes
<1>3. EventsOK
  <2>1. \A u \in Users : user[u] # "deleted"
    BY DEF Init
  <2> QED BY <1>1, <2>1 DEF EventsOK, IsInjective
<1>4. SyncOK /\ ReceiverOK
  BY <1>1 DEF Init, SyncOK, ReceiverOK
<1>5. CountOK
  <2>1. {d \in Rows : delivery[d].event = 0} = {}
    BY <1>1
  <2>2. Cardinality({d \in Rows : delivery[d].event = 0}) = 0
    BY <2>1, FS_EmptySet
  <2>3. PICK k \in Nat : k = Cardinality(Users)
    BY UsersAndRunsAreFinite, FS_CardinalityType
  <2>4. spent.syncs = 0 /\ sync = NoSync
    BY DEF Init
  <2> QED BY <2>2, <2>3, <2>4, BoundsAreNaturals DEF CountOK
<1>6. \A r \in Runs : RunOK(r)
  BY <1>1 DEF Init, RunOK, BatchOK, Waiting
<1> QED BY <1>1, <1>2, <1>3, <1>4, <1>5, <1>6 DEF Parts

LEMMA StutteringKeepsInv ==
  ASSUME WebhooksInv, UNCHANGED vars
  PROVE  Parts'
<1>1. UNCHANGED <<connection, user, events, delivery, sync, run, clock, receiver, unordered, spent>>
  BY DEF vars
<1>2. RowsStay /\ Rows' = Rows
  BY <1>1, UnchangedRowsStay DEF RowsStay
<1>3. Shapes'
  BY <1>1, InvHasParts DEF Parts, Shapes
<1>4. EventsOK' /\ \A d \in Rows' : RowOK(d)' /\ LastOK(d)'
  BY <1>1, <1>2, StayKeepsRows, Facts
<1>5. SyncOK' /\ CountOK' /\ ReceiverOK'
  BY <1>1, <1>2, StayKeepsCount, StayKeepsSync, StayKeepsReceiver, Facts DEF SyncOK
<1>6. ASSUME NEW d \in Rows
      PROVE  AttemptsOK(d)' /\ StatusOK(d)'
  <2>1. AttemptsOK(d) /\ StatusOK(d)
    BY Facts
  <2> QED BY <1>1, <2>1 DEF AttemptsOK, StatusOK, Holders, InHand
<1>7. \A q \in Runs : RunOK(q)'
  BY <1>1, <1>2, StayKeepsRun
<1> QED BY <1>2, <1>3, <1>4, <1>5, <1>6, <1>7 DEF Parts

LEMMA NextKeepsWebhooksInv == WebhooksInv /\ [Next]_vars => WebhooksInv'
<1> SUFFICES ASSUME WebhooksInv, [Next]_vars
             PROVE  Parts'
  BY PartsMakeInvNext
<1>1. CASE \E u \in Users : CreateUser(u) \/ DeleteUser(u)
  BY <1>1, UsersKeepParts
<1>2. CASE \E existing \in BOOLEAN : BeginSync(existing)
  BY <1>2, BeginKeepsParts
<1>3. CASE Disconnect
  BY <1>3, DisconnectKeepsParts
<1>4. CASE Crash
  BY <1>4, CrashKeepsParts
<1>5. CASE CommitSync
  BY <1>5, CommitSyncKeepsParts
<1>6. CASE Enqueue
  BY <1>6, EnqueueKeepsParts
<1>7. ASSUME NEW r \in Runs, Dispatch(r)
      PROVE  Parts'
  BY <1>7, SelectKeepsParts, DeliverKeepsParts, MissKeepsParts, RecordKeepsParts DEF Dispatch
<1>8. CASE \E d \in Ids : Due(d)
  BY <1>8, DueKeepsParts
<1>9. CASE UNCHANGED vars
  BY <1>9, StutteringKeepsInv
<1> QED BY <1>1, <1>2, <1>3, <1>4, <1>5, <1>6, <1>7, <1>8, <1>9 DEF Next, Work

\* The inductive invariant holds of every reachable state: rows belong to events or
\* synchronisations, a user's removal is queued and sent last, overlapping runs are
\* counted, and the service has the accounts it was told of.
THEOREM WebhooksInvariant == Spec => []WebhooksInv
<1>1. Init => WebhooksInv
  BY InitWebhooksInv
<1>2. WebhooksInv /\ [Next]_vars => WebhooksInv'
  BY NextKeepsWebhooksInv
<1> QED BY <1>1, <1>2, PTL DEF Spec

\* Rows and runs keep their shape; a delivery is attempted one time more than the limit at
\* most, and more often only by runs that had it at the same time, one time each.
THEOREM TypeCorrect == Spec => []TypeOK
<1>1. WebhooksInv => TypeOK
  BY DEF WebhooksInv
<1> QED BY <1>1, WebhooksInvariant, PTL

LEMMA InvMeansAgreement == WebhooksInv => ServiceAgrees
<1> SUFFICES ASSUME WebhooksInv, connection = "enabled", Unqueued = {},
                    \A d \in DOMAIN delivery : delivery[d].status = "succeeded",
                    NEW u \in Users
             PROVE  /\ user[u] = "present" /\ (\E d \in DOMAIN delivery : delivery[d].user = u)
                           => u \in receiver.accounts
                    /\ u \in receiver.accounts => user[u] = "present" \/ u \in unordered
  BY DEF ServiceAgrees
<1>1. ReceiverOK /\ receiver.seen \subseteq Rows /\ EventsOK
  BY Facts DEF ReceiverOK
<1>2. \A d \in Rows : d \in receiver.seen
  BY Facts DEF StatusOK, Rows
<1>3. ASSUME user[u] = "present", NEW d \in Rows, delivery[d].user = u
      PROVE  u \in receiver.accounts
  <2>1. \A c \in Rows : ~DeletedOf(c, u)
    BY <1>3, RemovedUsers
  <2>2. delivery[d].type \in Types
    BY Facts DEF Delivery
  <2>3. Created(d)
    BY <1>3, <2>1, <2>2 DEF Created, DeletedOf, Types
  <2> QED BY <1>1, <1>2, <1>3, <2>1, <2>3 DEF ReceiverOK
<1>4. ASSUME u \in receiver.accounts, user[u] # "present"
      PROVE  u \in unordered
  <2>1. user[u] = "deleted"
    <3>1. user[u] \in {"new", "present", "deleted"} /\ user[u] # "new"
      BY <1>1, <1>4, Facts DEF ReceiverOK, TypeOK
    <3> QED BY <1>4, <3>1
  <2>2. PICK e \in DOMAIN events : events[e] = [type |-> "user.deleted", user |-> u]
    BY <1>1, <2>1 DEF EventsOK
  <2>3. PICK d \in Rows : delivery[d].event = e
    BY DEF Unqueued, Rows
  <2>4. e # 0 /\ RowOK(d)
    BY Facts
  <2>5. delivery[d].type = "user.deleted" /\ delivery[d].user = u
    BY <2>2, <2>3, <2>4 DEF RowOK
  <2> QED BY <1>1, <1>2, <1>4, <2>5 DEF ReceiverOK
<1> QED BY <1>3, <1>4 DEF Rows

\* When everything is queued and acknowledged, the service has the accounts of the users
\* it was told of, and others only of users whose deliveries may have gone out of order,
\* whatever was retried, overlapped or lost in a crash.
THEOREM ServiceAgreesAlways == Spec => []ServiceAgrees
<1>1. WebhooksInv => ServiceAgrees
  BY InvMeansAgreement
<1> QED BY <1>1, WebhooksInvariant, PTL

\* Only Record takes a result back, and only of a row that runs share.
LEMMA ResultsStay ==
  ASSUME WebhooksInv, [Next]_vars, NEW d \in DOMAIN delivery, delivery[d].status = "succeeded",
         d \in DOMAIN delivery', delivery'[d].status # "succeeded"
  PROVE  delivery[d].shared
<1>1. d \in Rows /\ delivery[d] \in Delivery
  BY Facts DEF Rows
<1>2. CASE UNCHANGED delivery
  BY <1>2
<1>3. CASE Disconnect
  BY <1>3 DEF Disconnect
<1>4. CASE CommitSync
  BY <1>1, <1>4, CommitSyncIs
<1>5. CASE Enqueue
  BY <1>1, <1>5, EnqueueIs
<1>6. ASSUME NEW r \in Runs, Select(r)
      PROVE  FALSE
  <2>1. PICK x \in Delivery : x = delivery[d]
    BY <1>1
  <2>2. PICK b : b = delivery'[d].shared
    OBVIOUS
  <2>3. delivery'[d] = [x EXCEPT !.shared = b]
    BY <1>1, <1>6, <2>1, <2>2, SelectIs
  <2> QED BY <2>1, <2>3 DEF Delivery
<1>7. ASSUME NEW r \in Runs, Record(r)
      PROVE  delivery[d].shared
  <2>1. PICK h : h = Head(run[r].batch).id
    OBVIOUS
  <2>2. d = h
    BY <1>1, <1>7, <2>1, RecordIs
  <2>3. r \in Holders(d)
    <3>1. /\ DOMAIN run[r].batch = 1 .. Len(run[r].batch) /\ Len(run[r].batch) \in Nat \ {0}
          /\ Head(run[r].batch) = run[r].batch[1]
      BY <1>7, RecordIs
    <3>2. 1 \in DOMAIN run[r].batch /\ run[r].batch[1].id = d
      BY <2>1, <2>2, <3>1
    <3> QED BY <3>2 DEF Holders, InHand
  <2>4. AttemptsOK(d)
    BY <1>1, Facts
  <2> QED BY <2>3, <2>4 DEF AttemptsOK
<1>8. ASSUME NEW c \in Ids, Due(c)
      PROVE  FALSE
  <2>1. c # d /\ delivery'[d] = delivery[d]
    BY <1>1, <1>8 DEF Due, Rows
  <2> QED BY <2>1
<1>9. UNCHANGED delivery \/ Disconnect \/ CommitSync \/ Enqueue
      \/ (\E r \in Runs : Select(r) \/ Record(r)) \/ (\E c \in Ids : Due(c))
  BY DEF Next, Work, Dispatch, CreateUser, DeleteUser, BeginSync, Crash, Deliver, Miss, vars
<1> QED BY <1>2, <1>3, <1>4, <1>5, <1>6, <1>7, <1>8, <1>9

\* An acknowledged delivery is not sent again, but by runs that had it at the same time.
THEOREM SucceededStaysAlways == Spec => SucceededStays
<1>1. WebhooksInv /\ [Next]_vars =>
        [\A d \in DOMAIN delivery :
            delivery[d].status = "succeeded" /\ d \in DOMAIN delivery'
            /\ delivery'[d].status # "succeeded"
                => delivery[d].shared]_vars
  BY ResultsStay
<1> QED BY <1>1, WebhooksInvariant, PTL DEF Spec, SucceededStays
=============================================================================
