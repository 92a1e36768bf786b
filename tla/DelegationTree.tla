--------------------------- MODULE DelegationTree ---------------------------
(***************************************************************************)
(* What the owner of a delegation may rely on, with nothing of requests,   *)
(* row locks or agents: grants form a forest that only grows at its leaves,*)
(* a grant is delegated while it is active and no deeper than the schema   *)
(* allows, a use is charged to a grant and to everything above it in one   *)
(* step and only while all of them may be used, the last use completes a   *)
(* grant, and an ending is final.  AgentGrants implements it.              *)
(***************************************************************************)
EXTENDS Naturals

CONSTANTS Grants,    \* delegation_grants rows
          None,      \* no grant, no maximum_usage
          Budgets,   \* values maximum_usage takes
          MaxLevel   \* the depth no grant exceeds

VARIABLE tree   \* what is known of each grant: status, parent, level, max and used

Fresh(parent, level, max) ==
    [status |-> "active", parent |-> parent, level |-> level, max |-> max, used |-> 0]

Unused == [Fresh(None, 0, None) EXCEPT !.status = "absent"]

Init == tree = [g \in Grants |-> Unused]

\* The grant and everything it was delegated from: the least set of grants with g
\* in it and the parents of all its members.
Ancestry(g) ==
    {a \in Grants : \A T \in SUBSET Grants :
        g \in T /\ (\A c \in T : tree[c].parent # None => tree[c].parent \in T) => a \in T}

MayBeUsed(g) ==
    /\ tree[g].status = "active"
    /\ tree[g].max = None \/ tree[g].used < tree[g].max

Charged(node) ==
    [node EXCEPT !.used = @ + 1,
                 !.status = IF node.max # None /\ node.used + 1 = node.max THEN "completed" ELSE @]

\* A user approves an agent.
Approve(g, max) ==
    /\ tree[g] = Unused
    /\ tree' = [tree EXCEPT ![g] = Fresh(None, 0, max)]

\* An agent hands its grant p on.
Delegate(p, c) ==
    /\ tree[p].status = "active"
    /\ tree[p].level < MaxLevel
    /\ tree[c] = Unused
    /\ tree' = [tree EXCEPT ![c] = Fresh(p, tree[p].level + 1, tree[p].max)]

\* A use of g is reported.
Use(g) ==
    /\ \A a \in Ancestry(g) : MayBeUsed(a)
    /\ tree' = [a \in Grants |-> IF a \in Ancestry(g) THEN Charged(tree[a]) ELSE tree[a]]

\* Active grants are revoked, or expire.
End(S, how) ==
    /\ \A g \in S : tree[g].status = "active"
    /\ tree' = [g \in Grants |-> IF g \in S THEN [tree[g] EXCEPT !.status = how] ELSE tree[g]]

Next ==
    \/ \E g \in Grants, max \in Budgets : Approve(g, max)
    \/ \E p \in Grants, c \in Grants : Delegate(p, c)
    \/ \E g \in Grants : Use(g)
    \/ \E S \in SUBSET Grants, how \in {"revoked", "expired"} : End(S, how)

Spec == Init /\ [][Next]_tree
=============================================================================
