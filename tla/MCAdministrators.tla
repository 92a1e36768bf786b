---- MODULE MCAdministrators ----
(* Requests and browsers are alike, and so are the rows of each kind. *)
EXTENDS Administrators, TLC

Alike == Permutations(Requests) \union Permutations(Browsers) \union Permutations(Sessions)
           \union Permutations(Links) \union Permutations(Admins) \union Permutations(Clis)
====
