---- MODULE MCConfiguration ----
(* Directories of manifests for TLC.  Both declares an application and a policy for it,
   Alone the policy for every application and other default lifetimes.  Odd is accepted
   and never what the server reads back: the lifetime of a code as docs/configuration.md
   writes it ("60s", read back as "1m"), a session of "168h", the system scope email,
   and twice a document of scope a that declares scope b. *)
EXTENDS Configuration, TLC

Portal(spelling)  == Document("portal", {"portal", "launch"}, {}, spelling)
Staff(text, apps) == Document("staff", {text}, apps, "normal")
Scope(of, text)   == Document(of, {text}, {}, "normal")

Both  == [instance |-> Instance("t0", "t0", "normal"), repeated |-> {},
          docs |-> ("portal" :> Portal("normal")) @@ ("staff" :> Staff("t0", {"portal"}))]
Alone == [instance |-> Instance("t0", "t1", "normal"), repeated |-> {},
          docs |-> "staff" :> Staff("t1", {})]
Odd   == [instance |-> Instance("t0", "t0", "168h"), repeated |-> {"a"},
          docs |-> ("portal" :> Portal("60s")) @@ ("a" :> Scope("b", "t0"))
                                               @@ ("email" :> Scope("email", "t1"))]

FullDirectories == {Both, Alone, Odd}
Alphabetical    == {<<"a", "b">>, <<"a", "email">>, <<"b", "email">>}

\* The scope of the documents, whose value is no slug: StaysManageable fails on it.
Documented == [instance |-> Instance("t0", "t0", "normal"), repeated |-> {},
               docs |-> "invoices-read" :> Scope("invoices:read", "t0")]
DocumentedDirectories == {Both, Documented}
DocumentedScopes      == {"invoices-read", "invoices:read"}
DocumentedOrder       == {<<"invoices-read", "invoices:read">>}
Requests == Permutations(Applies) \union Permutations(Edits)
====
