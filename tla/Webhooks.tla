------------------------------- MODULE Webhooks -------------------------------
(***************************************************************************)
(* Account provisioning by webhooks: audit events become delivery rows, a  *)
(* timer in every server process sends them, and the connected service     *)
(* creates and removes accounts accordingly (workers.ts, api/settings.ts,  *)
(* api/dashboard.ts).  One connection is followed to its deletion: from    *)
(* before its creation or, made without the users there were, from a time  *)
(* when it had nothing to deliver.  All events are of the last 24 hours,   *)
(* except the creation of users who are present at the start.              *)
(***************************************************************************)
EXTENDS Naturals, Sequences, FiniteSets, SequencesExt

CONSTANTS Users,      \* identity users
          Runs,       \* runs of dispatchPendingWebhooks that may overlap
          Attempts,   \* attempts a delivery is given: 5
          Limit,      \* deliveries a run takes: 25
          MaxSyncs,   \* bound on the synchronisations asked for
          MaxCrashes  \* bound on the crashes

ASSUME UsersAndRunsAreFinite == IsFiniteSet(Users) /\ IsFiniteSet(Runs)
ASSUME BoundsAreNaturals ==
    Attempts \in Nat \ {0} /\ Limit \in Nat \ {0} /\ MaxSyncs \in Nat /\ MaxCrashes \in Nat

VARIABLES connection, \* the provisioning connection: a row of webhooks
          user,       \* identity_users
          events,     \* audit_events, in the order of their commits
          delivery,   \* webhook_deliveries, in the order of their insertion
          sync,       \* the transaction that queues the existing users
          run,        \* where each run of the dispatcher stands
          clock,      \* what now() yields, advanced where rows are stamped
          receiver,   \* the connected service: its accounts, the deliveries it has seen
          unordered,  \* users whose deliveries may have gone out of order (history)
          spent       \* synchronisations and crashes so far

vars == <<connection, user, events, delivery, sync, run, clock, receiver, unordered, spent>>
-----------------------------------------------------------------------------
Types == {"user.created", "user.deleted"}

\* event is 0 for a row of a synchronisation.  shared: two runs had the row at once
\* (history).  "due" is a failed row whose next_retry_at has passed.
Delivery == [event: Nat, type: Types, user: Users, at: Nat, attempt: Nat, shared: BOOLEAN,
             status: {"pending", "failed", "due", "succeeded"}]

\* What a run keeps of a row it has read.
Copy == [id: Nat, type: Types, user: Users]

\* sending: a batch is in memory; answered: its first delivery has its answer.
Run == [step: {"idle", "sending", "answered"}, batch: Seq(Copy), ok: BOOLEAN]

Waiting == [step |-> "idle", batch |-> <<>>, ok |-> FALSE]
NoSync == [step |-> "none", users |-> {}, at |-> 0]

Init ==
    /\ connection \in {"none", "enabled"}
    /\ user \in [Users -> {"new", "present"}]
    /\ connection = "enabled" => \A u \in Users : user[u] = "present"
    /\ events = <<>>
    /\ delivery = <<>>
    /\ sync = NoSync
    /\ run = [r \in Runs |-> Waiting]
    /\ clock = 0
    /\ receiver = [accounts |-> {}, seen |-> {}]
    /\ unordered = {}
    /\ spent = [syncs |-> 0, crashes |-> 0]

Row(e, t, u, at) == [event |-> e, type |-> t, user |-> u, at |-> at, attempt |-> 1,
                     shared |-> FALSE, status |-> "pending"]
-----------------------------------------------------------------------------
(* Users, each with its audit event in one transaction.                    *)

CreateUser(u) ==
    /\ user[u] = "new"
    /\ user' = [user EXCEPT ![u] = "present"]
    /\ events' = Append(events, [type |-> "user.created", user |-> u])
    /\ UNCHANGED <<connection, delivery, sync, run, clock, receiver, unordered, spent>>

DeleteUser(u) ==
    /\ user[u] = "present"
    /\ user' = [user EXCEPT ![u] = "deleted"]
    /\ events' = Append(events, [type |-> "user.deleted", user |-> u])
    /\ UNCHANGED <<connection, delivery, sync, run, clock, receiver, unordered, spent>>
-----------------------------------------------------------------------------
(* The connection.                                                         *)

\* A synchronisation holds the connection FOR UPDATE: no row that refers to it is
\* inserted (FOR KEY SHARE) or taken (SKIP LOCKED) meanwhile.  A new connection is
\* invisible.
\* Mutant: it is read without FOR UPDATE.
LockedNever == FALSE
Locked == sync # NoSync

\* POST /settings/provisioning, and .../sync: the transaction begins and reads the users.
\* A new connection may leave the existing users alone.
BeginSync(existing) ==
    /\ ~Locked
    /\ sync = NoSync
    /\ spent.syncs < MaxSyncs
    /\ connection = "none" \/ (connection = "enabled" /\ existing)
    /\ clock' = clock + 1
    /\ sync' = [step |-> "read", at |-> clock',
                users |-> IF existing THEN {u \in Users : user[u] = "present"} ELSE {}]
    /\ spent' = [spent EXCEPT !.syncs = @ + 1]
    /\ UNCHANGED <<connection, user, events, delivery, run, receiver, unordered>>

\* One row per user is inserted; COMMIT.
CommitSync ==
    /\ sync.step = "read"
    /\ connection' = "enabled"
    /\ \E us \in SetToSeqs(sync.users) :
        delivery' = delivery \o [i \in 1..Len(us) |-> Row(0, "user.created", us[i], sync.at)]
    /\ sync' = NoSync
    /\ UNCHANGED <<user, events, run, clock, receiver, unordered, spent>>

\* DELETE /settings/provisioning/:id waits for a synchronisation; the rows go with it.
Disconnect ==
    /\ connection = "enabled"
    /\ ~Locked
    /\ connection' = "deleted"
    /\ delivery' = <<>>
    /\ UNCHANGED <<user, events, sync, run, clock, receiver, unordered, spent>>
-----------------------------------------------------------------------------
(* dispatchPendingWebhooks, at startup and every 30 seconds: a run that    *)
(* lasts longer is overlapped by the next.                                 *)

\* Events without a row: ON CONFLICT (webhook_id, audit_event_id) DO NOTHING.
Unqueued == {e \in DOMAIN events : \A d \in DOMAIN delivery : delivery[d].event # e}

\* Events that one statement queues have one created_at: their order is lost.
Tied == {u \in Users : Cardinality({e \in Unqueued : events[e].user = u}) > 1}

\* The first statement of a run; whose, and whether it finds nothing, is of no account.
Enqueue ==
    /\ connection = "enabled"
    /\ ~Locked
    /\ Unqueued # {}
    /\ clock' = clock + 1
    /\ LET new == SetToSeq(Unqueued)
       IN  delivery' = delivery \o [i \in 1..Len(new) |->
                           Row(new[i], events[new[i]].type, events[new[i]].user, clock')]
    /\ unordered' = unordered \cup Tied
    /\ UNCHANGED <<connection, user, events, sync, run, receiver, spent>>

\* Mutants: attempts and retry times are not looked at; delivered rows are taken again;
\* failed rows are not taken.
SelectableForever(d) == delivery[d].status \in {"pending", "failed", "due"}
SelectableAgain(d) ==
    delivery[d].attempt <= Attempts /\ delivery[d].status \in {"pending", "due", "succeeded"}
SelectablePending(d) == delivery[d].attempt <= Attempts /\ delivery[d].status = "pending"
Selectable(d) == delivery[d].attempt <= Attempts /\ delivery[d].status \in {"pending", "due"}

\* ORDER BY created_at LIMIT 25.
Oldest(ids) == {SubSeq(s, 1, IF Len(s) < Limit THEN Len(s) ELSE Limit) :
                   s \in {q \in SetToSeqs(ids) : \A i, j \in DOMAIN q :
                              i < j => delivery[q[i]].at <= delivery[q[j]].at}}

InHand(r, d) == \E i \in DOMAIN run[r].batch : run[r].batch[i].id = d

CopyOf(d) == [id |-> d, type |-> delivery[d].type, user |-> delivery[d].user]

\* The second statement, if it finds something.  The SELECT commits at once: FOR UPDATE
\* protects nothing afterwards.
Select(r) ==
    /\ run[r] = Waiting
    /\ connection = "enabled"
    /\ ~Locked
    /\ \E taken \in Oldest({d \in DOMAIN delivery : Selectable(d)}) :
        /\ taken # <<>>
        /\ run' = [run EXCEPT ![r] = [@ EXCEPT !.step = "sending",
                                     !.batch = [i \in DOMAIN taken |-> CopyOf(taken[i])]]]
        /\ delivery' = [d \in DOMAIN delivery |->
               IF d \in Range(taken) /\ \E q \in Runs \ {r} : InHand(q, d)
               THEN [delivery[d] EXCEPT !.shared = TRUE] ELSE delivery[d]]
    /\ UNCHANGED <<connection, user, events, sync, clock, receiver, unordered, spent>>

Answered(r, ok) == run' = [run EXCEPT ![r].step = "answered", ![r].ok = ok]

\* What the service does with a delivery it has not seen (docs/api.md, "Account
\* provisioning"; docs/security.md, "Webhook verification").
Processed(copy) ==
    IF copy.id \in receiver.seen THEN receiver
    ELSE [seen |-> receiver.seen \cup {copy.id},
          accounts |-> IF copy.type = "user.created" THEN receiver.accounts \cup {copy.user}
                       ELSE receiver.accounts \ {copy.user}]

\* The service processes the delivery; its answer may be an error, late or lost.
Deliver(r) ==
    /\ run[r].step = "sending"
    /\ receiver' = Processed(Head(run[r].batch))
    /\ \E ok \in BOOLEAN : Answered(r, ok)
    /\ UNCHANGED <<connection, user, events, delivery, sync, clock, unordered, spent>>

\* The service is not reached: later deliveries overtake this one.
Miss(r) ==
    /\ run[r].step = "sending"
    /\ Answered(r, FALSE)
    /\ unordered' = unordered \cup {Head(run[r].batch).user}
    /\ UNCHANGED <<connection, user, events, delivery, sync, clock, receiver, spent>>

\* The row is updated by its id, whatever has become of it.
Recorded(row, ok) ==
    IF ok THEN [row EXCEPT !.status = "succeeded"]
          ELSE [row EXCEPT !.status = "failed", !.attempt = @ + 1]

Record(r) ==
    /\ run[r].step = "answered"
    /\ LET d == Head(run[r].batch).id
           rest == Tail(run[r].batch)
       IN /\ delivery' = IF d \in DOMAIN delivery
                         THEN [delivery EXCEPT ![d] = Recorded(@, run[r].ok)] ELSE delivery
          /\ run' = [run EXCEPT ![r] = IF rest = <<>> THEN Waiting
                                       ELSE [step |-> "sending", batch |-> rest, ok |-> FALSE]]
    /\ UNCHANGED <<connection, user, events, sync, clock, receiver, unordered, spent>>

\* next_retry_at passes, which is of account while attempts are left.
Due(d) ==
    /\ d \in DOMAIN delivery
    /\ delivery[d].status = "failed"
    /\ delivery[d].attempt <= Attempts
    /\ delivery' = [delivery EXCEPT ![d].status = "due"]
    /\ UNCHANGED <<connection, user, events, sync, run, clock, receiver, unordered, spent>>
-----------------------------------------------------------------------------
\* A server process dies, and with it a run or the open transaction.
Crash ==
    /\ spent.crashes < MaxCrashes
    /\ spent' = [spent EXCEPT !.crashes = @ + 1]
    /\ \/ \E r \in Runs : run[r] # Waiting /\ run' = [run EXCEPT ![r] = Waiting] /\ UNCHANGED sync
       \/ sync # NoSync /\ sync' = NoSync /\ UNCHANGED run
    /\ UNCHANGED <<connection, user, events, delivery, clock, receiver, unordered>>

\* The rows there can be: one per event, one per user and synchronisation.
Ids == 1..(Cardinality(Users) * (2 + MaxSyncs))

Dispatch(r) == Select(r) \/ Deliver(r) \/ Miss(r) \/ Record(r)

\* What the server and the time do by themselves.
Work == CommitSync \/ Enqueue \/ (\E r \in Runs : Dispatch(r)) \/ \E d \in Ids : Due(d)

Next ==
    \/ \E u \in Users : CreateUser(u) \/ DeleteUser(u)
    \/ \E existing \in BOOLEAN : BeginSync(existing)
    \/ Disconnect \/ Crash \/ Work

Spec == Init /\ [][Next]_vars

\* The timer starts runs for ever, fetch gives up after ten seconds, transactions
\* end, retry times come: while any of this can happen, some of it does.
FairSpec == Spec /\ WF_vars(Work)
-----------------------------------------------------------------------------
(* Properties.                                                             *)

\* "Failed deliveries ... are attempted up to the worker's bounded retry limit"
\* (docs/api.md:227): the count passes the limit by one, and further only for rows
\* that overlapping runs had at once, by one for each run.
AttemptsAreBounded ==
    \A d \in DOMAIN delivery :
        delivery[d].attempt <= Attempts + (IF delivery[d].shared THEN Cardinality(Runs) ELSE 1)

\* Rows and runs have the shape of the schema and of the code; events are queued once.
TypeOK ==
    /\ connection \in {"none", "enabled", "deleted"}
    /\ user \in [Users -> {"new", "present", "deleted"}]
    /\ events \in Seq([type: Types, user: Users])
    /\ delivery \in Seq(Delivery)
    /\ sync \in [step: {"none", "read"}, users: SUBSET Users, at: Nat]
    /\ run \in [Runs -> Run]
    /\ \A r \in Runs : IsInjective(run[r].batch)
    /\ receiver \in [accounts: SUBSET Users, seen: SUBSET Ids]
    /\ unordered \subseteq Users
    /\ clock \in Nat /\ spent \in [syncs: Nat, crashes: Nat]
    /\ AttemptsAreBounded

\* A delivery the service acknowledged is not sent again: it becomes failed only
\* through a run that had it at the same time as the run that succeeded.
SucceededStays ==
    [][\A d \in DOMAIN delivery :
          delivery[d].status = "succeeded" /\ d \in DOMAIN delivery'
          /\ delivery'[d].status # "succeeded"
              => delivery[d].shared]_vars

\* Every event queued and every delivery acknowledged: the service has an account for
\* every user it was told of who is still there, and an account without its user only if
\* a delivery for that user was missed or two of their events were queued by one
\* statement.  Retries after lost answers, overlapping runs, crashes and
\* synchronisations during a deletion do no harm.
ServiceAgrees ==
    connection = "enabled" /\ sync = NoSync /\ Unqueued = {}
    /\ (\A d \in DOMAIN delivery : delivery[d].status = "succeeded")
    => \A u \in Users :
          /\ user[u] = "present" /\ (\E d \in DOMAIN delivery : delivery[d].user = u)
                 => u \in receiver.accounts
          /\ u \in receiver.accounts => user[u] = "present" \/ u \in unordered

Exhausted(d) == delivery[d].status \in {"failed", "due"} /\ delivery[d].attempt > Attempts

\* Every event of a connection that stays is delivered or, after the last attempt,
\* given up, in spite of failures, crashes and overlapping runs.
EventsAreSettled ==
    <>[](connection = "enabled" =>
            /\ Unqueued = {}
            /\ \A d \in DOMAIN delivery : delivery[d].status = "succeeded" \/ Exhausted(d))
-----------------------------------------------------------------------------
(* The inductive invariant: why the properties above hold, but for         *)
(* EventsAreSettled.                                                       *)

Rows == DOMAIN delivery
Holders(d) == {r \in Runs : InHand(r, d)}
Created(d) == delivery[d].type = "user.created"
DeletedOf(d, u) == delivery[d].type = "user.deleted" /\ delivery[d].user = u

\* No user has two events of a type; the user is what the events say.
EventsOK ==
    /\ IsInjective(events)
    /\ \A e \in DOMAIN events :
          IF events[e].type = "user.created" THEN user[events[e].user] # "new"
          ELSE user[events[e].user] = "deleted"
    /\ \A u \in Users : user[u] = "deleted" =>
          \E e \in DOMAIN events : events[e] = [type |-> "user.deleted", user |-> u]

\* A synchronisation reads users who are there, and its rows are the next.
SyncOK ==
    /\ connection = "none" => delivery = <<>> /\ receiver.seen = {}
    /\ connection = "deleted" => delivery = <<>> /\ sync = NoSync
    /\ sync # NoSync =>
          /\ sync.step = "read" /\ sync.at <= clock /\ spent.syncs # 0
          /\ \A u \in sync.users : user[u] # "new" /\ \A d \in Rows : ~DeletedOf(d, u)

\* A row is of an event, one for each, or of a synchronisation.
RowOK(d) ==
    /\ delivery[d].at <= clock /\ user[delivery[d].user] # "new"
    /\ IF delivery[d].event = 0 THEN Created(d)
       ELSE /\ delivery[d].event \in DOMAIN events
            /\ events[delivery[d].event] = [type |-> delivery[d].type, user |-> delivery[d].user]
    /\ \A c \in Rows : delivery[c].event = delivery[d].event /\ delivery[c].event # 0 => c = d

\* The removal of a user is queued after everything else about the user.
LastOK(d) ==
    delivery[d].type = "user.deleted" =>
        /\ \A e \in Unqueued : events[e].user # delivery[d].user
        /\ \A c \in Rows : Created(c) /\ delivery[c].user = delivery[d].user
              /\ delivery[d].user \notin unordered => delivery[c].at < delivery[d].at

\* Attempts and the runs that are about to make one; a row that was acknowledged is in
\* the hand of nobody who did not share it.
AttemptsOK(d) ==
    /\ delivery[d].attempt >= 1
    /\ delivery[d].attempt + Cardinality(Holders(d))
          <= Attempts + (IF delivery[d].shared THEN Cardinality(Runs) ELSE 1)
    /\ \A q, r \in Holders(d) : q # r => delivery[d].shared
    /\ delivery[d].status = "succeeded" /\ Holders(d) # {} => delivery[d].shared

\* A row with a result has reached the service, or its user's order is lost.
StatusOK(d) ==
    /\ delivery[d].status = "pending" => delivery[d].attempt = 1
    /\ delivery[d].status = "succeeded" => d \in receiver.seen
    /\ delivery[d].status # "pending" => d \in receiver.seen \/ delivery[d].user \in unordered

\* A run has each row once, and copies that agree with the rows.  Whoever has the removal
\* of a user has what created the user before it, unless the service knows of it.
BatchOK(r) ==
    LET batch == run[r].batch IN
    /\ \A i, j \in DOMAIN batch : batch[i].id = batch[j].id => i = j
    /\ \A i \in DOMAIN batch : batch[i].id \in Ids /\ user[batch[i].user] # "new"
    /\ connection # "deleted" => \A i \in DOMAIN batch :
          batch[i].id \in Rows /\ batch[i] = CopyOf(batch[i].id)
    /\ \A j \in DOMAIN batch, d \in Rows :
          batch[j].type = "user.deleted" /\ Created(d) /\ delivery[d].user = batch[j].user
          /\ batch[j].user \notin unordered
              => d \in receiver.seen \/ \E i \in DOMAIN batch : i < j /\ batch[i].id = d

RunOK(r) ==
    /\ run[r] = Waiting \/ (run[r].step # "idle" /\ run[r].batch # <<>>)
    /\ run[r].step = "answered" =>
          LET h == Head(run[r].batch)
          IN  h.id \in receiver.seen \/ (~run[r].ok /\ h.user \in unordered)
    /\ BatchOK(r)

\* The service has the accounts it was told of last, user by user.
ReceiverOK ==
    /\ connection # "deleted" => receiver.seen \subseteq Rows
    /\ \A u \in receiver.accounts : user[u] # "new"
    /\ \A d \in Rows : d \in receiver.seen =>
          /\ Created(d) /\ (\A c \in receiver.seen : ~DeletedOf(c, delivery[d].user))
                => delivery[d].user \in receiver.accounts
          /\ delivery[d].type = "user.deleted" /\ delivery[d].user \notin unordered
                => /\ delivery[d].user \notin receiver.accounts
                   /\ \A c \in Rows : delivery[c].user = delivery[d].user => c \in receiver.seen

\* Rows of synchronisations: one per user and synchronisation committed.
CountOK ==
    /\ spent.syncs <= MaxSyncs
    /\ Cardinality({d \in Rows : delivery[d].event = 0})
          <= Cardinality(Users) * (IF sync = NoSync THEN spent.syncs ELSE spent.syncs - 1)

WebhooksInv ==
    /\ TypeOK /\ EventsOK /\ SyncOK /\ CountOK /\ ReceiverOK
    /\ \A d \in Rows : RowOK(d) /\ LastOK(d) /\ AttemptsOK(d) /\ StatusOK(d)
    /\ \A r \in Runs : RunOK(r)
=============================================================================
