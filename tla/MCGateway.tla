------------------------------ MODULE MCGateway ------------------------------
(* Small instances of Gateway for TLC. *)
EXTENDS Gateway, TLC

\* Everything one request can ask.
AllAsks == Askable

\* Everything the server can be configured to check, and nothing of it.
AllSettings == Setting
Open == {[authn |-> FALSE, mcpAuth |-> FALSE, mcpWrite |-> TRUE]}

\* Requests that pass every gate and get in each other's way upstream.
RacingAsks ==
  {a \in Askable : /\ a.op \in {"deleteStream", "deleteConsumer", "streamInfo"}
                   /\ a.role = "admin" /\ a.confirm /\ a.configured
                   /\ a.args = "good" /\ a.id}

Symmetry == Permutations(Request)

=============================================================================
