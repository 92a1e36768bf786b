----------------------- MODULE MCAuthorizationRequest -----------------------
(* AuthorizationRequest on small instances.                                *)
EXTENDS AuthorizationRequest, TLC

Plain(prompt, scopes) == [prompt |-> prompt, scopes |-> scopes, agent |-> FALSE]
Agent(prompt, scopes) == [prompt |-> prompt, scopes |-> scopes, agent |-> TRUE]

\* Prompts that a session may satisfy, overlapping scopes, and an agent's request.
Mixed == {Plain("unset", {"read"}), Plain("unset", {"read", "write"}), Plain("none", {"read"}),
          Plain("consent", {"read"}),
          Agent("unset", {"read"}), Agent("none", {"read"})}

\* A fresh login, which two users may give at one request.
Fresh == {Plain("login", {"read"})}

RowSymmetry == Permutations(Handlers) \cup Permutations(Requests) \cup Permutations(Users)
=============================================================================
