---------------------------- MODULE RefreshFamily ----------------------------
(***************************************************************************)
(* What a client may rely on about a refresh-token family, with nothing of *)
(* how PostgreSQL transactions achieve it: a family opens once, has        *)
(* exactly one current token while it is live, each rotation replaces the  *)
(* current token by one never used before, and a family that was killed    *)
(* (reuse or revocation) is dead for good.  TokenEndpoint implements it.   *)
(***************************************************************************)
CONSTANTS Families,   \* identifiers of refresh_token_families rows
          Tokens,     \* refresh-token values
          None        \* no token

VARIABLES state,      \* [Families -> {"absent", "live", "dead"}]
          current,    \* the one token a live family accepts
          spent       \* tokens that were superseded or killed

familyVars == <<state, current, spent>>

TypeOK ==
    /\ state \in [Families -> {"absent", "live", "dead"}]
    /\ current \in [Families -> Tokens \cup {None}]
    /\ spent \subseteq Tokens

Init ==
    /\ state = [f \in Families |-> "absent"]
    /\ current = [f \in Families |-> None]
    /\ spent = {}

\* A token that no family has ever accepted.
Unused(t) == t \notin spent /\ \A f \in Families : current[f] # t

\* Token issuance opens a family with its first token.
Open(f, t) ==
    /\ state[f] = "absent"
    /\ Unused(t)
    /\ state' = [state EXCEPT ![f] = "live"]
    /\ current' = [current EXCEPT ![f] = t]
    /\ UNCHANGED spent

\* A successful refresh: the current token is exchanged for an unused one.
Rotate(f, t) ==
    /\ state[f] = "live"
    /\ Unused(t)
    /\ current' = [current EXCEPT ![f] = t]
    /\ spent' = spent \cup {current[f]}
    /\ UNCHANGED state

\* Reuse of a spent token, or a revocation request, ends the family.
Kill(f) ==
    /\ state[f] = "live"
    /\ state' = [state EXCEPT ![f] = "dead"]
    /\ current' = [current EXCEPT ![f] = None]
    /\ spent' = spent \cup {current[f]}

Next ==
    \/ \E f \in Families, t \in Tokens : Open(f, t) \/ Rotate(f, t)
    \/ \E f \in Families : Kill(f)

Spec == Init /\ [][Next]_familyVars
=============================================================================
