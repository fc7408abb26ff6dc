------------------------------ MODULE Overview ------------------------------
(***************************************************************************)
(* A fan-out of Cluster.discover (internal/natsx/cluster.go) from the      *)
(* subscription of its inbox to the end of its window, many at a time on   *)
(* one connection, and what aggregateOverview (frontend/src/api.ts) makes  *)
(* of the replies.                                                         *)
(*                                                                         *)
(* A server reports the groups it hosts, with their leaders as it knows    *)
(* them when it replies: after an election it may hear of the new leader   *)
(* late.  Accounts, configurations and statistics are left out; whose      *)
(* report an entry's data comes from is kept.                              *)
(***************************************************************************)
EXTENDS Naturals, SequencesExt

CONSTANTS
  Server,    \* the servers of the cluster
  Stream,    \* the streams, and
  Consumer,  \* the consumers each of them has
  Placements, \* which servers may host each group
  Call,      \* the calls of discover
  MaxMoves,  \* how many elections there may be
  None       \* no server: a group that has no leader, an entry without data

ASSUME NoneAssumption == None \notin Server
ASSUME BoundAssumption == MaxMoves \in Nat
ASSUME ConsumerAssumption == IsFiniteSet(Consumer)

\* A stream and its consumers are raft groups of their own; a consumer may be kept by
\* some of the stream's servers only.
Group == Stream \cup (Stream \X Consumer)

ASSUME PlacementsAssumption ==
  /\ Placements \subseteq [Group -> SUBSET Server]
  /\ \A p \in Placements, st \in Stream, k \in Consumer : p[<<st, k>>] \subseteq p[st]

VARIABLES
  hosts,    \* the servers that host each group
  leader,   \* its leader
  known,    \* what each server knows of the leaders of the groups it hosts
  moves,    \* how many elections there have been
  up,       \* is the connection open?
  pc,       \* where each call is
  sub,      \* which inboxes are subscribed
  asked,    \* which servers have the request and have not replied
  inbox,    \* what has arrived and has not been read
  replies,  \* what the call has collected
  steady    \* has every server known the leaders since the request was sent?

natsVars == <<hosts, leader, known, moves, up>>
callVars == <<pc, sub, asked, inbox, replies, steady>>
vars == <<natsVars, callVars>>

Hosted(n) == {g \in Group : n \in hosts[g]}

\* The leaders of some groups.
Leaders == UNION {[G -> Server \cup {None}] : G \in SUBSET Group}

Report == [from : Server, leaders : Leaders, valid : BOOLEAN]

Init ==
  /\ hosts \in Placements
  /\ leader \in [Group -> Server \cup {None}]
  /\ \A g \in Group : leader[g] \in hosts[g] \cup {None}
  /\ known = [n \in Server |-> [g \in Hosted(n) |-> leader[g]]]
  /\ moves = 0
  /\ up = TRUE
  /\ pc = [c \in Call |-> "start"]
  /\ sub = {}
  /\ asked = [c \in Call |-> {}]
  /\ inbox = [c \in Call |-> <<>>]
  /\ replies = [c \in Call |-> <<>>]
  /\ steady = [c \in Call |-> TRUE]

-----------------------------------------------------------------------------
(* The call. *)

Step(c, from, to) == pc[c] = from /\ pc' = [pc EXCEPT ![c] = to]

\* NewRespInbox and SubscribeSync; on a closed connection the call ends here.
Subscribe(c) ==
  /\ \/ up /\ Step(c, "start", "publish") /\ sub' = sub \cup {c}
     \/ ~up /\ Step(c, "start", "failed") /\ UNCHANGED sub
  /\ UNCHANGED <<natsVars, asked, inbox, replies, steady>>

\* The deferred Unsubscribe: what has not been read is dropped.
Unsubscribe(c) == sub' = sub \ {c} /\ inbox' = [inbox EXCEPT ![c] = <<>>]

Agreed == \A n \in Server : known[n] = [g \in Hosted(n) |-> leader[g]]

\* PublishRequest with the inbox as reply subject.
Publish(c) ==
  /\ \/ /\ up
        /\ Step(c, "publish", "flush")
        /\ asked' = [asked EXCEPT ![c] = Server]
        /\ steady' = [steady EXCEPT ![c] = Agreed]
        /\ UNCHANGED <<sub, inbox>>
     \/ ~up /\ Step(c, "publish", "failed") /\ Unsubscribe(c) /\ UNCHANGED <<asked, steady>>
  /\ UNCHANGED <<natsVars, replies>>

\* Mutation: the error path leaves the inbox subscribed.
FlushLeaks(c) ==
  /\ Step(c, "flush", "failed")
  /\ UNCHANGED <<natsVars, sub, inbox, asked, replies, steady>>

\* The pong comes, or the connection is closed or too slow for Flush.
FlushFails(c) ==
  /\ Step(c, "flush", "failed")
  /\ Unsubscribe(c)
  /\ UNCHANGED <<natsVars, asked, replies, steady>>

Flush(c) ==
  /\ up
  /\ Step(c, "flush", "collect")
  /\ UNCHANGED <<natsVars, sub, asked, inbox, replies, steady>>

\* NextMsg: a reply that is no JSON is dropped.
Collect(c) ==
  /\ Step(c, "collect", "collect")
  /\ inbox[c] # <<>>
  /\ inbox' = [inbox EXCEPT ![c] = Tail(@)]
  /\ replies' = IF Head(inbox[c]).valid
                THEN [replies EXCEPT ![c] = Append(@, Head(inbox[c]))] ELSE replies
  /\ UNCHANGED <<natsVars, sub, asked, steady>>

\* Mutation: the window starts anew with every reply and ends only with the connection.
WindowRestarts(c) ==
  /\ ~up
  /\ Step(c, "collect", "done")
  /\ Unsubscribe(c)
  /\ UNCHANGED <<natsVars, asked, replies, steady>>

\* The deadline, or NextMsg fails because the connection is closed: what has been
\* collected is the answer, if only nothing.
WindowEnds(c) ==
  /\ Step(c, "collect", "done")
  /\ Unsubscribe(c)
  /\ UNCHANGED <<natsVars, asked, replies, steady>>

-----------------------------------------------------------------------------
(* The servers and the connection. *)

\* A server replies to whom asked, while the inbox is subscribed; a reply after that
\* reaches nobody, and one may be damaged.
Reply(n, c) ==
  /\ up
  /\ n \in asked[c]
  /\ asked' = [asked EXCEPT ![c] = @ \ {n}]
  /\ \E valid \in BOOLEAN :
       inbox' = IF c \in sub
                THEN [inbox EXCEPT ![c] =
                        Append(@, [from |-> n, leaders |-> known[n], valid |-> valid])]
                ELSE inbox
  /\ UNCHANGED <<natsVars, pc, sub, replies, steady>>

\* A leader is lost, or elected among the hosts: a new leader knows, the others will hear
\* of it.
Elect(g, n) ==
  /\ moves < MaxMoves
  /\ n \in hosts[g] \cup {None}
  /\ leader[g] # n
  /\ moves' = moves + 1
  /\ leader' = [leader EXCEPT ![g] = n]
  /\ known' = [m \in Server |-> IF m = n THEN [known[m] EXCEPT ![g] = n] ELSE known[m]]
  /\ steady' = [c \in Call |-> steady[c] /\ pc[c] \in {"start", "publish", "failed"}]
  /\ UNCHANGED <<hosts, up, pc, sub, asked, inbox, replies>>

Hear(n, g) ==
  /\ n \in hosts[g]
  /\ known[n][g] # leader[g]
  /\ known' = [known EXCEPT ![n][g] = leader[g]]
  /\ UNCHANGED <<hosts, leader, moves, up, callVars>>

\* The connection is closed, by the shutdown of the process.
Close ==
  /\ up
  /\ up' = FALSE
  /\ UNCHANGED <<hosts, leader, known, moves, callVars>>

-----------------------------------------------------------------------------
(* aggregateOverview. *)

Nothing == [count |-> 0, by |-> None, shown |-> FALSE, consumers |-> {}, total |-> 0]

\* Mutation: every report counts, not the leader's alone.
AddEvery(entry, report, st) ==
  IF st \notin DOMAIN report.leaders THEN entry
  ELSE [entry EXCEPT !.count = @ + 1, !.shown = TRUE, !.by = report.from]

\* One report added to the entry of a stream: the first that mentions it makes the
\* entry, the leader's counts it and brings the consumers that the leader leads too.
Add(entry, report, st) ==
  LET led == {k \in Consumer : /\ <<st, k>> \in DOMAIN report.leaders
                               /\ report.leaders[<<st, k>>] \in {None, report.from}}
  IN IF st \notin DOMAIN report.leaders THEN entry
     ELSE IF report.leaders[st] # report.from
     THEN [entry EXCEPT !.shown = TRUE, !.by = IF entry.shown THEN @ ELSE report.from]
     ELSE [count |-> entry.count + 1, by |-> report.from, shown |-> TRUE,
           consumers |-> led, total |-> entry.total + Cardinality(led)]

aggregateOverview(reports) ==
  [st \in Stream |->
     LET entry[n \in 0..Len(reports)] ==
           IF n = 0 THEN Nothing ELSE Add(entry[n - 1], reports[n], st)
     IN entry[Len(reports)]]

-----------------------------------------------------------------------------
CallStep(c) ==
  Subscribe(c) \/ Publish(c) \/ Flush(c) \/ FlushFails(c) \/ Collect(c) \/ WindowEnds(c)

Next ==
  \/ \E c \in Call : CallStep(c)
  \/ \E n \in Server, c \in Call : Reply(n, c)
  \/ \E g \in Group, n \in Server \cup {None} : Elect(g, n)
  \/ \E g \in Group, n \in Server : Hear(n, g)
  \/ Close

\* A call that can go on goes on; Flush and the window have their timers.  Nothing is
\* assumed of the servers.
Fairness ==
  \A c \in Call :
    /\ WF_vars(Subscribe(c)) /\ WF_vars(Publish(c))
    /\ WF_vars(FlushFails(c)) /\ WF_vars(WindowEnds(c))

Spec == Init /\ [][Next]_vars /\ Fairness

-----------------------------------------------------------------------------
(* Properties. *)

\* The values the state ranges over.
TypeOK ==
  /\ hosts \in Placements
  /\ leader \in [Group -> Server \cup {None}]
  /\ known \in [Server -> Leaders]
  /\ \A n \in Server : DOMAIN known[n] = Hosted(n)
  /\ moves \in 0 .. MaxMoves
  /\ up \in BOOLEAN
  /\ pc \in [Call -> {"start", "publish", "flush", "collect", "done", "failed"}]
  /\ sub \subseteq Call
  /\ asked \in [Call -> SUBSET Server]
  /\ \A c \in Call : Range(inbox[c]) \cup Range(replies[c]) \subseteq Report
  /\ steady \in [Call -> BOOLEAN]

Ended(c) == pc[c] \in {"done", "failed"}

\* Whichever step fails, a call that has returned holds no inbox, and each server's
\* report is in its answer at most once.
InboxGivenBack ==
  \A c \in Call :
    /\ Ended(c) => c \notin sub /\ inbox[c] = <<>>
    /\ \A i, j \in DOMAIN replies[c] : replies[c][i].from = replies[c][j].from => i = j

Answered(c) == {replies[c][i].from : i \in DOMAIN replies[c]}
Shown(c) == aggregateOverview(replies[c])

\* api.ts:112-114.  In every answer, complete or cut short by the window, in whatever
\* order the servers replied, a stream is shown if a server that hosts it replied.  If
\* the servers knew the leaders all along, it is counted once if its leader replied and
\* else not at all, the numbers shown are the leader's, and with it are counted the
\* consumers that the leader hosts and that it leads itself or nobody leads.
StreamCountedOnce ==
  \A c \in Call, st \in Stream :
    pc[c] = "done" =>
      /\ Shown(c)[st].shown <=> Answered(c) \cap hosts[st] # {}
      /\ steady[c] =>
           /\ Shown(c)[st].count = (IF leader[st] \in Answered(c) THEN 1 ELSE 0)
           /\ leader[st] \in Answered(c) =>
                /\ Shown(c)[st].by = leader[st]
                /\ Shown(c)[st].total =
                     Cardinality({k \in Consumer :
                                    /\ leader[st] \in hosts[<<st, k>>]
                                    /\ leader[<<st, k>>] \in {None, leader[st]}})

\* A call returns, however many servers stay silent and whatever becomes of the
\* connection.
CallsEnd == \A c \in Call : pc[c] = "start" ~> Ended(c)

\* api.ts:113, "Each stream and consumer is counted once via its leader's report".
ConsumerCountedOnce ==
  \A c \in Call :
    pc[c] = "done" /\ steady[c] /\ Answered(c) = Server /\ None \notin Range(leader) =>
      \A st \in Stream : Shown(c)[st].total = Cardinality(Consumer)

=============================================================================
