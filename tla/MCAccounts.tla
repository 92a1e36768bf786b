---- MODULE MCAccounts ----
(* Two Google accounts verified for alice's address (which can have passed from one to *)
(* the other), and one at GitHub for no user's; bob is created by the dashboard.       *)
(* Requests are alike, and so are the rows of sessions and the Google accounts.        *)
EXTENDS Accounts, TLC

CONSTANTS alice, g1, g2, h1, google, github

MCProviderOf == g1 :> google @@ g2 :> google @@ h1 :> github
MCEmailOf    == g1 :> alice @@ g2 :> alice @@ h1 :> None

Alike == Permutations(Requests) \union Permutations(Sessions) \union Permutations({g1, g2})
====
