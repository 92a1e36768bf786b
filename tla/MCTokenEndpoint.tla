--------------------------- MODULE MCTokenEndpoint ---------------------------
(* TokenEndpoint on small instances.                                       *)
EXTENDS TokenEndpoint, TLC

RowSymmetry ==
    Permutations(Requests) \cup Permutations(Families) \cup Permutations(Tokens)
=============================================================================
