------------------------------ MODULE MCMcpStdio ------------------------------
(* Small instances of McpStdio for TLC. *)
EXTENDS McpStdio

L(kind, id) == [kind |-> kind, id |-> id]

\* Three lines: slow and quick requests, and a line the reader fails on.
Triples == [1..3 -> {L("call", TRUE), L("plain", TRUE), L("long", TRUE)}]

\* Every kind of line before a call and before a notification, and shorter scripts.
Pairs == {<<l, L("call", id)>> : l \in Line, id \in BOOLEAN}
Shorter == {<<>>} \cup {<<l>> : l \in Line}

AllScripts == Triples \cup Pairs \cup Shorter

=============================================================================
