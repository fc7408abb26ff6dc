----------------------------- MODULE MCOverview -----------------------------
(* Small instances of Overview for TLC.  Servers differ by what they host only, so one  *)
(* placement stands for all that rename the servers: every server hosts everything, and *)
(* one server hosts nothing and another the stream without its consumers.               *)
EXTENDS Overview

Everywhere == [g \in Group |-> Server]

Spread(idle, bare) ==
  [g \in Group |-> IF g \in Stream THEN Server \ {idle} ELSE Server \ {idle, bare}]

MCPlacements ==
  LET idle == CHOOSE n \in Server : TRUE
  IN {Everywhere} \cup {Spread(idle, CHOOSE n \in Server \ {idle} : TRUE)}

=============================================================================
