------------------------------- MODULE MCLogin -------------------------------
(* Small instances of Login for TLC. *)
EXTENDS Login, TLC

CONSTANTS ann, bob

File(base, admin, key) == [base |-> base, admin |-> admin, key |-> key]

\* An admin and a reader; and only the reader, without an admin list and with a new key.
SomeFiles == {File({bob}, {ann}, 1), File({bob}, {}, 2)}

Symmetry == Permutations(Tab)

=============================================================================
