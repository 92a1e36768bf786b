---- MODULE Configuration ----
(***************************************************************************)
(* Configuration as code (api/configuration.ts, packages/config) beside   *)
(* the dashboard's own editing of the same tables (api/dashboard.ts).     *)
(*                                                                         *)
(* POST /config/apply reads the manifest-owned resources, plans, and only  *)
(* then begins the transaction that takes the advisory lock and carries    *)
(* the plan out.  Dashboard handlers read a row, check it, and update it   *)
(* with WHERE version = $n.  Both bump the same version column.  Every     *)
(* request happens once, so the request sets bound versions and stamps.    *)
(***************************************************************************)
EXTENDS Integers, FiniteSets

CONSTANTS
  Apps, Scopes, Policies,  \* keys: slugs of applications, names of scopes and policies
  SystemScopes,            \* the scopes every environment is created with (is_system)
  Slugs,                   \* the names slugSchema accepts
  KeyOrder,                \* <<c, d>>: the document of scope c sorts before that of d
  Texts,                   \* contents of a scope, a policy or the settings
  Seconds,                 \* session lifetimes that are no whole number of minutes
  Default,                 \* the settings a new workspace has
  Directories,             \* the manifest directories a client may apply
  Established,             \* resources the dashboard may have created before
  Applies, Edits           \* requests: to apply, and of the dashboard

Names == Apps \union Scopes \union Policies

ASSUME RequestsAreFinite == IsFiniteSet(Applies) /\ IsFiniteSet(Edits)
ASSUME SystemScopesAreScopes == SystemScopes \subseteq Scopes
ASSUME DefaultIsAText == Default \in Texts \ Seconds
ASSUME NamesAreDisjoint ==
  Apps \intersect (Scopes \union Policies) = {} /\ Scopes \intersect Policies = {}

\* The entry that runs last of those of some scopes.
IsLast(d, keys) == d \in keys /\ \A c \in keys \ {d} : <<c, d>> \in KeyOrder
ASSUME KeysAreSorted ==
  \A keys \in (SUBSET Scopes) \ {{}} : \E d \in keys : IsLast(d, keys)

Flags == {"portal", "launch"}        \* of an application: portal_enabled, launch_uri
Bodies(n) == IF n \in Apps THEN SUBSET Flags ELSE {{t} : t \in Texts}

\* A document, and the row it writes: a Scope's spec.value, or metadata.name.  Only one
\* spelling is "normal", that of rowToManifest: "1m" and not "60s", no empty
\* description, the applications of a policy in the order the database gives them.
Document(of, body, apps, spelling) ==
  [of |-> of, body |-> body, apps |-> apps, spelling |-> spelling]
\* The AuthometryInstance: sessionLifetime; default token lifetimes and requireConsent.
Instance(session, tokens, spelling) ==
  [session |-> session, tokens |-> tokens, spelling |-> spelling]

\* A directory the handler accepts (manifestSchema, validateManifestRelationships):
\* names are slugs, a policy names applications of the directory, the session lifetime
\* is in minutes, hours or days.  A scope's document may declare any scope, and a key
\* may be written more than once: docs has the last document of each.
ValidDirectory(d) ==
  /\ d = [instance |-> d.instance, docs |-> d.docs, repeated |-> d.repeated]
  /\ d.instance = Instance(d.instance.session, d.instance.tokens, d.instance.spelling)
  /\ d.instance.session \in Texts \ Seconds /\ d.instance.tokens \in Texts
  /\ DOMAIN d.docs \subseteq Names \ (Scopes \ Slugs) /\ d.repeated \subseteq DOMAIN d.docs
  /\ d.docs = [n \in DOMAIN d.docs |-> Document(d.docs[n].of, d.docs[n].body,
                                                d.docs[n].apps, d.docs[n].spelling)]
  /\ \A n \in DOMAIN d.docs :
       /\ d.docs[n].of \in IF n \in Scopes THEN Scopes ELSE {n}
       /\ d.docs[n].body \in Bodies(n)
       /\ d.docs[n].apps \subseteq IF n \in Policies THEN Apps \intersect DOMAIN d.docs ELSE {}

ASSUME DirectoriesAreValid == \A d \in Directories : ValidDirectory(d)

\* A directory that is sure to be what the server reads back once it is in force: no
\* key twice, nothing spelled otherwise, no scope under another name, no system scope,
\* no list of applications that has several orders.
AsReadBack(d) ==
  /\ d.repeated = {} /\ d.instance.spelling = "normal"
  /\ \A n \in DOMAIN d.docs :
       /\ d.docs[n].spelling = "normal" /\ d.docs[n].of = n /\ n \notin SystemScopes
       /\ \A a, b \in d.docs[n].apps : a = b

\* A row of one of the tables: id counts the rows that have had the name, as a
\* deleted row's uuid is never used again, while its version starts again at 1.
NoRow == [id |-> 0, version |-> 0, ownership |-> "none", body |-> {}, apps |-> {}]

VARIABLES
  row,       \* Names -> row
  born,      \* Names -> the rows the name has had
  settings,  \* workspace_settings, shared by the environments of the workspace
  deployed,  \* configuration_deployments: its row with the latest applied_at
  apply,     \* Applies -> the request's progress, its directory and its plan
  clock,     \* transactions begun: the order of now()
  edit,      \* Edits -> the request's progress and the row its client saw
  causes     \* ghost: why the environment may differ from the last apply

vars == <<row, born, settings, deployed, apply, clock, edit, causes>>

Live(r, n) == r[n].id # 0
AppId(r, a) == <<a, r[a].id>>        \* oauth_applications.id
Manifested(r) == {n \in Names : Live(r, n) /\ r[n].ownership = "manifest"}

----
(* What the server reads back. *)

\* rowToManifest: a policy's applications are the slugs of those that still exist.
RowToManifest(r, n) ==
  Document(n, r[n].body, {a \in Apps : Live(r, a) /\ AppId(r, a) \in r[n].apps}, "normal")

\* resourceRows: a system scope is never read back, not even one that was adopted.
ReadBackRows(r) == Manifested(r) \ SystemScopes

\* manifestSchema.parse refuses a row whose name is not a slug and, as long as there is
\* no snapshot to take the instance from, a session lifetime in seconds.
Readable(r, s, dep) ==
  /\ ReadBackRows(r) \intersect Scopes \subseteq Slugs
  /\ dep.stamp = 0 => s.session \notin Seconds

\* The instance has the settings' values but, before the first deployment, fixed
\* defaults for all but the session lifetime.
CurrentInstance(s, dep) ==
  Instance(s.session, IF dep.stamp = 0 THEN Default ELSE s.tokens, "normal")

CurrentManifests(r, s, dep) ==
  [instance |-> CurrentInstance(s, dep),
   docs |-> [n \in ReadBackRows(r) |-> RowToManifest(r, n)], repeated |-> {}]

\* GET /config/status, which fails when something cannot be read back.
Status ==
  IF ~Readable(row, settings, deployed) THEN "failure"
  ELSE IF deployed.stamp = 0 THEN "not_applied"
  ELSE IF deployed.directory = CurrentManifests(row, settings, deployed) THEN "in_sync"
  ELSE "drifted"

\* Mutant: every document is written again, but nothing is ever deleted.
BuildPlanKeepsRemoved(directory, current) ==
  [n \in DOMAIN directory.docs |->
     IF n \notin DOMAIN current.docs THEN "create" ELSE "update"]

\* buildConfigurationPlan: desired and current documents compared key by key.
BuildPlan(directory, current) ==
  [n \in DOMAIN directory.docs \union DOMAIN current.docs |->
     IF n \notin DOMAIN current.docs THEN "create"
     ELSE IF n \notin DOMAIN directory.docs THEN "delete"
     ELSE IF directory.docs[n] = current.docs[n] THEN "unchanged" ELSE "update"]

----
(* POST /config/apply *)

Planned == {"create", "update", "delete", "unchanged"}

\* INSERT ... ON CONFLICT (environment_id, name) DO UPDATE: a row there is is adopted
\* whoever owns it, and its version moves on.
Upserted(r, id, doc, appIds) ==
  IF r.id # 0
    THEN [r EXCEPT !.version = @ + 1, !.ownership = "manifest",
                   !.body = doc.body, !.apps = appIds]
    ELSE [id |-> id, version |-> 1, ownership |-> "manifest",
          body |-> doc.body, apps |-> appIds]

\* Mutant: whatever has the name is deleted.
DeletedWhoeverOwns(r, n) == NoRow

\* DELETE ... AND ownership = 'manifest'; policies keep the ids of deleted applications.
Deleted(r, n) == IF r[n].ownership = "manifest" THEN NoRow ELSE r[n]

\* The documents whose entries write the row of a name.
WrittenBy(plan, docs, n) ==
  {d \in DOMAIN plan : plan[d] \in {"create", "update"} /\ docs[d].of = n}
Removes(plan, n) == n \in DOMAIN plan /\ plan[n] = "delete"

\* SELECT id FROM oauth_applications WHERE slug = ANY(...)
IdsIn(r, doc) == {AppId(r, a) : a \in {b \in doc.apps : Live(r, b)}}

\* What the entries make of the row of a name, in key order.  A row that is deleted is
\* deleted under its own name, before or after the documents that declare it; of
\* several documents the last stays.
Entry(r, plan, docs, n) ==
  LET writers == WrittenBy(plan, docs, n)
      removed == Removes(plan, n)
      lasting == IF removed THEN {d \in writers : <<n, d>> \in KeyOrder} ELSE writers
      before  == IF ~removed THEN r[n]
                 ELSE IF writers = lasting THEN Deleted(r, n) ELSE NoRow
  IN  IF lasting = {} THEN before
      ELSE LET doc == docs[CHOOSE d \in lasting : IsLast(d, lasting)]
           IN  Upserted(before, born[n] + 1, doc, IdsIn(r, doc))

\* The entries of one kind; what they write does not depend on other rows of it.
ApplyEntries(r, kind, plan, docs) ==
  [n \in Names |-> IF n \in kind THEN Entry(r, plan, docs, n) ELSE r[n]]

\* Mutant: policies are written before the applications they name.
ApplyPlanPoliciesFirst(r, plan, docs) ==
  LET r1 == ApplyEntries(r, Policies, plan, docs)
      r2 == ApplyEntries(r1, Apps, plan, docs)
  IN  ApplyEntries(r2, Scopes, plan, docs)

\* The entries in key order: Application/..., then Policy/..., then Scope/....
ApplyPlan(r, plan, docs) ==
  LET r1 == ApplyEntries(r, Apps, plan, docs)
      r2 == ApplyEntries(r1, Policies, plan, docs)
  IN  ApplyEntries(r2, Scopes, plan, docs)

\* gen_random_uuid: a row with an id the name has not had is a new one.
BornOf(r) == [n \in Names |-> IF r[n].id > born[n] THEN r[n].id ELSE born[n]]

\* The handler validates the request and plans against the state it reads now.
PlanApply(a) ==
  /\ apply[a].step = "idle"
  /\ Readable(row, settings, deployed)
  /\ \E d \in Directories :
       LET current == CurrentManifests(row, settings, deployed)
       IN  apply' = [apply EXCEPT ![a] =
                       [step |-> "planned", directory |-> d, stamp |-> 0,
                        plan |-> BuildPlan(d, current),
                        instance |-> current.instance = d.instance]]
  /\ UNCHANGED <<row, born, settings, deployed, clock, edit, causes>>

\* BEGIN: from here on now(), and with it applied_at, is fixed.
BeginApply(a) ==
  /\ apply[a].step = "planned"
  /\ clock' = clock + 1
  /\ apply' = [apply EXCEPT ![a].step = "begun", ![a].stamp = clock + 1]
  /\ UNCHANGED <<row, born, settings, deployed, edit, causes>>

\* pg_advisory_xact_lock, every entry, the deployment row, COMMIT.
CommitApply(a) ==
  LET request == apply[a]
      d       == request.directory
      fresh   == CurrentManifests(row, settings, deployed)
  IN
  /\ request.step = "begun"
  /\ row' = ApplyPlan(row, request.plan, d.docs)
  /\ born' = BornOf(row')
  /\ settings' = IF request.instance THEN settings
                 ELSE [session |-> d.instance.session, tokens |-> d.instance.tokens]
  /\ deployed' = IF request.stamp > deployed.stamp
                   THEN [stamp |-> request.stamp, directory |-> d] ELSE deployed
  /\ apply' = [apply EXCEPT ![a] = [step |-> "done"]]
  /\ causes' =
       {c \in {"stale plan", "order", "directory", "defaults"} :
          \/ c = "stale plan" /\ \/ BuildPlan(d, fresh) # request.plan
                                 \/ request.instance # (fresh.instance = d.instance)
          \/ c = "order" /\ request.stamp < deployed.stamp
          \/ c = "directory" /\ ~AsReadBack(d)
          \/ c = "defaults" /\ deployed.stamp = 0 /\ request.instance
                            /\ settings.tokens # Default}
  /\ UNCHANGED <<clock, edit>>

\* An entry fails (a client_id another application has, a default lifetime that is no
\* duration): ROLLBACK.
FailApply(a) ==
  /\ apply[a].step = "begun"
  /\ apply' = [apply EXCEPT ![a] = [step |-> "failed"]]
  /\ UNCHANGED <<row, born, settings, deployed, clock, edit, causes>>

----
(* The dashboard *)

Idle(e) == edit[e].step = "idle"
At(step) == [step |-> step, name |-> "none", seen |-> NoRow,
             change |-> [set |-> {}, clear |-> {}]]
Finish(e) == edit' = [edit EXCEPT ![e] = At("done")]

\* GET of one resource: what the administrator looks at, version included.
ReadResource(e, n) ==
  /\ Idle(e) /\ Live(row, n)
  /\ edit' = [edit EXCEPT ![e] = [@ EXCEPT !.step = "open", !.name = n, !.seen = row[n]]]
  /\ UNCHANGED <<row, born, settings, deployed, apply, clock, causes>>

\* What a PATCH of an application asks for: columns to set, columns to clear.
Changes == {c \in [set : SUBSET Flags, clear : SUBSET Flags] : c.set \intersect c.clear = {}}
Changed(body, change) == (body \ change.clear) \union change.set

\* PATCH /applications/:id, the SELECT and the checks on what it returned.
CheckApplication(e, change) ==
  LET existing == row[edit[e].name]
      next     == Changed(existing.body, change)
  IN
  /\ edit[e].step = "open" /\ edit[e].name \in Apps
  /\ existing.id = edit[e].seen.id
  /\ existing.ownership # "manifest"
  /\ "portal" \in next => "launch" \in next
  /\ edit' = [edit EXCEPT ![e].step = "checked", ![e].change = change]
  /\ UNCHANGED <<row, born, settings, deployed, apply, clock, causes>>

\* Mutant: the update does not compare the version.
SameVersionUnchecked(e) == row[edit[e].name].id = edit[e].seen.id

\* WHERE id = $1 AND version = $n
SameVersion(e) ==
  LET seen == edit[e].seen
  IN  row[edit[e].name].id = seen.id /\ row[edit[e].name].version = seen.version

\* PATCH /applications/:id, the UPDATE.
UpdateApplication(e) ==
  LET n == edit[e].name IN
  /\ edit[e].step = "checked"
  /\ SameVersion(e)
  /\ row' = [row EXCEPT ![n].body = Changed(@, edit[e].change), ![n].version = @ + 1]
  /\ Finish(e)
  /\ UNCHANGED <<born, settings, deployed, apply, clock, causes>>

\* PATCH /scopes/:id and PATCH /policies/:id: ownership and version in one UPDATE.
UpdateOwned(e, body, appIds) ==
  LET n == edit[e].name IN
  /\ edit[e].step = "open" /\ n \notin Apps
  /\ SameVersion(e)
  /\ row[n].ownership = "dashboard"
  /\ row' = [row EXCEPT ![n].body = body, ![n].apps = appIds, ![n].version = @ + 1]
  /\ Finish(e)
  /\ UNCHANGED <<born, settings, deployed, apply, clock, causes>>

PatchScope(e)  == /\ edit[e].name \in Scopes \ SystemScopes
                  /\ \E t \in Texts : UpdateOwned(e, {t}, {})
LiveAppIds     == {AppId(row, a) : a \in {b \in Apps : Live(row, b)}}
PatchPolicy(e) == /\ edit[e].name \in Policies
                  /\ \E t \in Texts, ids \in SUBSET LiveAppIds : UpdateOwned(e, {t}, ids)

\* POST of a resource: the unique index on (environment_id, name) refuses a second.
Create(e, n, body, appIds) ==
  /\ Idle(e) /\ ~Live(row, n)
  /\ row' = [row EXCEPT ![n] = [id |-> born[n] + 1, version |-> 1, ownership |-> "dashboard",
                                body |-> body, apps |-> appIds]]
  /\ born' = BornOf(row')
  /\ Finish(e)
  /\ UNCHANGED <<settings, deployed, apply, clock, causes>>

CreateApplication(e) == \E a \in Apps, body \in SUBSET Flags :
  ("portal" \in body => "launch" \in body) /\ Create(e, a, body, {})
CreateScope(e)  == \E n \in Scopes, t \in Texts : Create(e, n, {t}, {})
CreatePolicy(e) == \E n \in Policies, t \in Texts, ids \in SUBSET LiveAppIds :
                     Create(e, n, {t}, ids)

\* Mutant: the policies' versions stay.
WithoutApplicationSilently(r, a) ==
  [n \in Names |->
     IF n = a THEN NoRow
     ELSE IF n \in Policies THEN [r[n] EXCEPT !.apps = @ \ {AppId(r, a)}] ELSE r[n]]

\* array_remove from every policy that names the application, whoever owns it.
WithoutApplication(r, a) ==
  [n \in Names |->
     IF n = a THEN NoRow
     ELSE IF n \in Policies /\ AppId(r, a) \in r[n].apps
       THEN [r[n] EXCEPT !.apps = @ \ {AppId(r, a)}, !.version = @ + 1] ELSE r[n]]

\* DELETE /applications/:id, one transaction behind SELECT ... FOR UPDATE.
DeleteApplication(e) == \E a \in Apps :
  /\ Idle(e) /\ Live(row, a)
  /\ row[a].ownership # "manifest"
  /\ row' = WithoutApplication(row, a)
  /\ Finish(e)
  /\ UNCHANGED <<born, settings, deployed, apply, clock, causes>>

ChangeSettings(e, session, tokens) ==
  /\ Idle(e)
  /\ settings' = [session |-> session, tokens |-> tokens]
  /\ causes' = causes \union {"settings"}
  /\ Finish(e)
  /\ UNCHANGED <<row, born, deployed, apply, clock>>

\* PATCH /settings/general: of what the instance declares, the session lifetime.
PatchSettings(e) == \E t \in Texts : ChangeSettings(e, t, settings.tokens)

\* The instance of another environment of the workspace is applied.
ApplyElsewhere(e) ==
  \E session \in Texts \ Seconds, tokens \in Texts : ChangeSettings(e, session, tokens)

----
\* Resources from before: system scopes, and some made in the dashboard, where a policy
\* names the applications there are.
Seeded(n, there) ==
  IF n \in there
    THEN [id |-> 1, version |-> 1, ownership |-> "dashboard",
          body |-> IF n \in Apps THEN Flags ELSE CHOOSE b \in Bodies(n) : TRUE,
          apps |-> IF n \in Policies THEN {<<a, 1>> : a \in Apps \intersect there} ELSE {}]
    ELSE NoRow

Init ==
  /\ \E there \in {{}, Established} :
       row = [n \in Names |-> Seeded(n, there \union SystemScopes)]
  /\ born = [n \in Names |-> row[n].id]
  /\ settings = [session |-> Default, tokens |-> Default]
  /\ deployed = [stamp |-> 0, directory |-> "none"]
  /\ apply = [a \in Applies |-> [step |-> "idle"]]
  /\ clock = 0
  /\ edit = [e \in Edits |-> At("idle")]
  /\ causes = {}

ApplyStep == \E a \in Applies :
  PlanApply(a) \/ BeginApply(a) \/ CommitApply(a) \/ FailApply(a)
PatchStep == \E e \in Edits :
  \/ \E change \in Changes : CheckApplication(e, change)
  \/ UpdateApplication(e) \/ PatchScope(e) \/ PatchPolicy(e)
DashboardStep == PatchStep \/ \E e \in Edits :
  \/ \E n \in Names : ReadResource(e, n)
  \/ CreateApplication(e) \/ CreateScope(e) \/ CreatePolicy(e)
  \/ DeleteApplication(e) \/ PatchSettings(e)

Next == ApplyStep \/ DashboardStep \/ \E e \in Edits : ApplyElsewhere(e)
Spec == Init /\ [][Next]_vars

----
(* Properties *)

\* An application of the dashboard that employees see always has a sign-in URL,
\* although the two columns are checked before they are written.
PublishedHasLaunchUri ==
  \A a \in Apps : row[a].ownership = "dashboard" /\ "portal" \in row[a].body
                    => "launch" \in row[a].body

\* The types of the state: rows, with the relation of their columns, and what refers
\* to them, requests, deployments.
Count == 1 + Cardinality(Applies) + Cardinality(Edits)   \* writes of a row at most
RowsUpTo(count) ==
  [id : 0 .. count, version : 0 .. count,
   ownership : {"none", "dashboard", "manifest"},
   body : (SUBSET Flags) \union (SUBSET Texts), apps : SUBSET (Apps \X (1 .. count))]
Rows == RowsUpTo(Count)
Settings == [session : Texts, tokens : Texts]
TypeOK ==
  /\ row \in [Names -> Rows]
  /\ \A n \in Names : row[n] = NoRow \/ row[n].body \in Bodies(n)
  /\ \A n \in Names : row[n].id \in 0 .. born[n]
  /\ settings \in Settings
  /\ deployed.stamp \in 0 .. clock /\ clock \in 0 .. Cardinality(Applies)
  /\ \A a \in Applies : apply[a].step \in {"idle", "planned", "begun", "done", "failed"}
  /\ \A e \in Edits : /\ edit[e].step \in {"idle", "open", "checked", "done"}
                      /\ edit[e].seen \in Rows
  /\ PublishedHasLaunchUri

\* GET /config/status says "drifted" only for one of five reasons: the settings were
\* edited, or set by another environment; the last apply ran a plan that was stale when
\* it got the lock; applies committed in another order than they began; the directory is
\* none the server reads back (a document twice, another spelling, a scope under another
\* name, a system scope, several applications of a policy); or the first apply took default lifetimes for the workspace's.
\* No dashboard edit of a resource is a reason.
DriftHasACause == Status = "drifted" => causes # {}

\* An apply that declares a policy for named applications never leaves it with
\* none, which would make it govern every application, unless its plan was stale.
Global(r, n) == Live(r, n) /\ r[n].apps = {}
RestrictedStaysRestricted ==
  [][\A a \in Applies, n \in Policies :
       LET docs == apply[a].directory.docs
       IN  apply[a].step = "begun" /\ apply'[a].step = "done" =>
             (n \in DOMAIN docs /\ docs[n].apps # {} /\ Global(row', n)
                => "stale plan" \in causes')]_vars

\* A PATCH replaces only what its client saw: nobody else's change is lost.
NoLostUpdate ==
  [][PatchStep => \A e \in Edits :
       edit'[e].step = "done" /\ edit[e].step # "done" =>
         row[edit[e].name] = edit[e].seen]_vars

\* Dashboard requests never change the content of what a manifest owns, although the
\* PATCH of an application reads the ownership in a statement of its own; applying
\* manifests removes no row the dashboard owns, even when the row with that name was
\* a manifest's at the time of the plan, unless a scope's document of another name
\* adopts it first.
Claimed(docs, n) == \E d \in DOMAIN docs \ {n} : docs[d].of = n
OwnershipIsRespected ==
  [][/\ DashboardStep => \A n \in Manifested(row) :
          n \in Manifested(row') /\ row'[n].body = row[n].body
     /\ \A a \in Applies, n \in Names :
          apply'[a] # apply[a] /\ row[n].ownership = "dashboard" =>
            \/ row'[n].id = row[n].id
            \/ n \in Scopes /\ Claimed(apply[a].directory.docs, n)]_vars

\* Once configuration was applied the server can still read it back, to report the
\* status, to plan or to export (violated when a scope's value is not a slug).
StaysManageable == deployed.stamp # 0 => Readable(row, settings, deployed)

----
(* The inductive invariant: why the properties above hold, but for         *)
(* StaysManageable.                                                        *)

\* Requests that are over; each wrote a row once at most.
Finished == Cardinality({a \in Applies : apply[a].step = "done"})
              + Cardinality({e \in Edits : edit[e].step = "done"})

\* A row that is there has an owner; only policies name applications, and only some
\* that have been.
RowOK(n) ==
  /\ row[n] \in RowsUpTo(1 + Finished)
  /\ born[n] \in 0 .. 1 + Finished /\ row[n].id <= born[n]
  /\ row[n].id = 0 => row[n] = NoRow
  /\ row[n].id # 0 => row[n].body \in Bodies(n) /\ row[n].ownership # "none"
  /\ n \notin Policies => row[n].apps = {}
  /\ \A id \in row[n].apps : id[2] <= born[id[1]]

Plans    == UNION {[N -> Planned] : N \in SUBSET Names}
Progress == [step : {"planned", "begun"}, directory : Directories, stamp : Nat,
             plan : Plans, instance : BOOLEAN]

Begun(a) == apply[a].step = "begun"

\* What a plan writes is in its directory; stamps are given out once.
ApplyOK(a) ==
  \/ apply[a] \in {[step |-> "idle"], [step |-> "done"], [step |-> "failed"]}
  \/ /\ apply[a] \in Progress
     /\ \A n \in DOMAIN apply[a].plan :
          apply[a].plan[n] \in {"create", "update"} => n \in DOMAIN apply[a].directory.docs
     /\ Begun(a) => /\ apply[a].stamp \in 1 .. clock /\ apply[a].stamp # deployed.stamp
                    /\ \A b \in Applies \ {a} : Begun(b) => apply[b].stamp # apply[a].stamp

ClockOK == clock = Cardinality({a \in Applies : apply[a].step \in {"begun", "done", "failed"}})

DeployedOK ==
  \/ deployed = [stamp |-> 0, directory |-> "none"]
  \/ deployed \in [stamp : 1 .. clock, directory : Directories]

Editing == [step : {"idle", "open", "checked", "done"}, name : Names \union {"none"},
            seen : RowsUpTo(1 + Finished),
            change : [set : SUBSET Flags, clear : SUBSET Flags]]

Publishable(body) == "portal" \in body => "launch" \in body

\* A row with the id and the version its client saw is what the client saw; and the
\* checks on an application hold of it.
EditOK(e) ==
  LET n    == edit[e].name
      seen == edit[e].seen
  IN
  /\ edit[e] \in Editing
  /\ edit[e].step \in {"open", "checked"} =>
       /\ n \in Names /\ seen.id \in 1 .. born[n]
       /\ row[n].id = seen.id =>
            row[n].version >= seen.version /\ (row[n].version = seen.version => row[n] = seen)
  /\ edit[e].step = "checked" =>
       /\ n \in Apps
       /\ SameVersion(e) => seen.ownership # "manifest" /\ Publishable(Changed(seen.body, edit[e].change))

\* What was applied last is what there is, but for the causes of a drift.
InSync == causes = {} /\ deployed.stamp # 0 /\ Readable(row, settings, deployed) =>
            deployed.directory = CurrentManifests(row, settings, deployed)

ConfigInv ==
  /\ row \in [Names -> RowsUpTo(1 + Finished)] /\ born \in [Names -> Nat]
  /\ \A n \in Names : RowOK(n)
  /\ PublishedHasLaunchUri
  /\ settings \in Settings
  /\ apply = [a \in Applies |-> apply[a]] /\ \A a \in Applies : ApplyOK(a)
  /\ ClockOK /\ DeployedOK
  /\ edit \in [Edits -> Editing] /\ \A e \in Edits : EditOK(e)
  /\ InSync

====
