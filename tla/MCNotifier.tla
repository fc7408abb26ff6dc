------------------------------ MODULE MCNotifier ------------------------------
(* Small instances of Notifier for TLC. *)
EXTENDS Notifier

A(kind, action, tokens) == [kind |-> kind, action |-> action, tokens |-> tokens]

\* A stream and a consumer event, one without a formatter and one cut short.
Mixed == {A("STREAM", "CREATED", 3), A("CONSUMER", "UPDATED", 4), A("CONSUMER", "DELETED", 3)}

=============================================================================
