---------------------------- MODULE OverviewFeed ----------------------------
(***************************************************************************)
(* What the overview cache promises its subscribers, without goroutines,   *)
(* locks or channels.  Snapshots of a cluster are numbered in the order in *)
(* which they are published.  A subscriber joins the feed of one cluster   *)
(* once and leaves it once; in between it is handed some of the snapshots  *)
(* published so far, in ascending order except for one of them.            *)
(***************************************************************************)
EXTENDS Naturals, Sequences

CONSTANTS Cluster, Subscriber

VARIABLES
  latest,   \* the number of the last published snapshot of each cluster
  member,   \* whether each subscriber is out, in, or over
  feed,     \* the cluster each subscriber is about
  stream    \* the snapshots handed to each subscriber

vars == <<latest, member, feed, stream>>

Init ==
  /\ latest = [c \in Cluster |-> 0]
  /\ member = [s \in Subscriber |-> "out"]
  /\ feed \in [Subscriber -> Cluster]
  /\ stream = [s \in Subscriber |-> <<>>]

AscendingButOne(q) ==
  \E k \in 0..Len(q) : \A i, j \in DOMAIN q \ {k} : i < j => q[i] < q[j]

Publish(c) ==
  /\ latest' = [latest EXCEPT ![c] = @ + 1]
  /\ UNCHANGED <<member, feed, stream>>

Join(s) ==
  /\ member[s] = "out"
  /\ member' = [member EXCEPT ![s] = "in"]
  /\ UNCHANGED <<latest, feed, stream>>

\* Only a member is handed anything, and only what is published already.
Hand(s, n) ==
  /\ member[s] = "in"
  /\ n \in 1..latest[feed[s]]
  /\ stream' = [stream EXCEPT ![s] = Append(@, n)]
  /\ AscendingButOne(stream'[s])
  /\ UNCHANGED <<latest, member, feed>>

\* Members leave alone, or all those of a cluster at once when its feed ends.
Leave(S) ==
  /\ \A s \in S : member[s] = "in"
  /\ member' = [s \in Subscriber |-> IF s \in S THEN "over" ELSE member[s]]
  /\ UNCHANGED <<latest, feed, stream>>

Next ==
  \/ \E c \in Cluster : Publish(c)
  \/ \E s \in Subscriber : Join(s) \/ \E n \in 1..latest[feed[s]] : Hand(s, n)
  \/ \E S \in SUBSET Subscriber : Leave(S)

Spec == Init /\ [][Next]_vars

=============================================================================
