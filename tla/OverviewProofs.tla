---------------------------- MODULE OverviewProofs ----------------------------
(***************************************************************************)
(* Theorems about Overview, for any servers, groups and calls.             *)
(*                                                                         *)
(* A server is in one place at a time: it has been asked and has not       *)
(* replied, or its report lies in the inbox, or the call has it.  That the *)
(* reports of a call are of different servers follows.  An inbox is        *)
(* subscribed in the steps between Subscribe and the end of the call, and  *)
(* what is unsubscribed is empty.  A report names the groups its server    *)
(* hosts, and what a steady call is told of them is how things are; that   *)
(* aggregateOverview then counts each stream once is shown by induction    *)
(* over the reports, as the absence of a least number of reports that are  *)
(* added up wrongly.                                                       *)
(***************************************************************************)
EXTENDS Overview, FiniteSetTheorems, WellFoundedInduction, TLAPS

\* The values the state ranges over, reports in the order they came.
TypeInv ==
  /\ TypeOK
  /\ \A c \in Call : inbox[c] \in Seq(Report) /\ replies[c] \in Seq(Report)
  /\ DOMAIN inbox = Call /\ DOMAIN replies = Call
  /\ \A g \in Group : leader[g] \in hosts[g] \cup {None}

\* Where the inbox of a call is subscribed, and where there is nothing in it.
SubInv ==
  \A c \in Call :
    /\ c \in sub <=> pc[c] \in {"publish", "flush", "collect"}
    /\ c \notin sub => inbox[c] = <<>>
    /\ pc[c] \in {"start", "publish"} => asked[c] = {} /\ inbox[c] = <<>> /\ replies[c] = <<>>

Distinct(reports) ==
  \A i, j \in 1..Len(reports) : reports[i].from = reports[j].from => i = j
Apart(reports, others) ==
  \A i \in 1..Len(reports), j \in 1..Len(others) : reports[i].from # others[j].from
NoneFrom(reports, servers) == \A i \in 1..Len(reports) : reports[i].from \notin servers

\* A server is in one place at a time.
FromInv ==
  \A c \in Call :
    /\ Distinct(inbox[c]) /\ Distinct(replies[c]) /\ Apart(inbox[c], replies[c])
    /\ NoneFrom(inbox[c], asked[c]) /\ NoneFrom(replies[c], asked[c])

\* A report names what its server hosts, right or wrong.
Honest(reports) ==
  \A i \in 1..Len(reports) : DOMAIN reports[i].leaders = Hosted(reports[i].from)

HostInv == \A c \in Call : Honest(inbox[c]) /\ Honest(replies[c])

\* What a steady call has been told is how things are.
Truth(n) == [g \in Hosted(n) |-> leader[g]]
Told(reports) == \A i \in 1..Len(reports) : reports[i].leaders = Truth(reports[i].from)

SteadyInv ==
  \A c \in Call :
    pc[c] \in {"flush", "collect", "done"} /\ steady[c] =>
      Agreed /\ Told(inbox[c]) /\ Told(replies[c])

IInv == TypeInv /\ SubInv /\ FromInv /\ HostInv /\ SteadyInv

-----------------------------------------------------------------------------
(* Lemmas about sequences of reports. *)

LEMMA AppendMeans ==
  ASSUME NEW q \in Seq(Report), NEW r \in Report
  PROVE  /\ Append(q, r) \in Seq(Report) /\ Len(Append(q, r)) = Len(q) + 1
         /\ Append(q, r)[Len(q) + 1] = r
         /\ \A i \in 1..Len(q) : Append(q, r)[i] = q[i]
  OBVIOUS

LEMMA TailMeans ==
  ASSUME NEW q \in Seq(Report), q # <<>>
  PROVE  /\ Tail(q) \in Seq(Report) /\ Len(Tail(q)) = Len(q) - 1 /\ Len(q) > 0
         /\ Head(q) = q[1] /\ Head(q) \in Report
         /\ \A i \in 1..Len(Tail(q)) : Tail(q)[i] = q[i + 1]
  OBVIOUS

\* A report from a server that is nowhere in a sequence may be added to it.
LEMMA AppendDistinct ==
  ASSUME NEW q \in Seq(Report), NEW r \in Report, Distinct(q),
         \A i \in 1..Len(q) : q[i].from # r.from
  PROVE  Distinct(Append(q, r))
<1>. DEFINE a == Append(q, r)
<1>1. /\ Len(a) = Len(q) + 1 /\ Len(q) \in Nat /\ a[Len(q) + 1] = r
      /\ \A i \in 1..Len(q) : a[i] = q[i]
  BY AppendMeans
<1>. HIDE DEF a
<1>2. ASSUME NEW i \in 1..Len(a), NEW j \in 1..Len(a), a[i].from = a[j].from PROVE i = j
  <2>1. CASE i \in 1..Len(q) /\ j \in 1..Len(q)
    BY <1>1, <1>2, <2>1 DEF Distinct
  <2>2. CASE i = Len(q) + 1 /\ j \in 1..Len(q)
    BY <1>1, <1>2, <2>2
  <2>3. CASE i \in 1..Len(q) /\ j = Len(q) + 1
    BY <1>1, <1>2, <2>3
  <2>. QED  BY <1>1, <2>1, <2>2, <2>3
<1>. QED  BY <1>2 DEF Distinct, a

\* Reading the first report of an inbox.
LEMMA ReadMeans ==
  ASSUME NEW q \in Seq(Report), NEW p \in Seq(Report), NEW servers, q # <<>>,
         Distinct(q), Distinct(p), Apart(q, p), NoneFrom(q, servers), NoneFrom(p, servers)
  PROVE  /\ Distinct(Tail(q)) /\ Apart(Tail(q), p) /\ NoneFrom(Tail(q), servers)
         /\ Distinct(Append(p, Head(q))) /\ Apart(Tail(q), Append(p, Head(q)))
         /\ NoneFrom(Append(p, Head(q)), servers)
<1>. DEFINE t == Tail(q)
            a == Append(p, Head(q))
<1>1. /\ Len(q) \in Nat /\ Len(q) > 0 /\ Len(t) = Len(q) - 1
      /\ Head(q) = q[1] /\ q[1] \in Report
      /\ \A i \in 1..Len(t) : t[i] = q[i + 1]
  BY TailMeans
<1>2. \A i \in 1..Len(t) : i + 1 \in 1..Len(q) /\ i + 1 # 1
  BY <1>1
<1>3. 1 \in 1..Len(q)
  BY <1>1
<1>4. \A i \in 1..Len(p) : p[i].from # q[1].from
  BY <1>3 DEF Apart
<1>5. Distinct(a)
  BY <1>1, <1>4, AppendDistinct
<1>6. /\ Len(a) = Len(p) + 1 /\ Len(p) \in Nat /\ a[Len(p) + 1] = q[1]
      /\ \A i \in 1..Len(p) : a[i] = p[i]
  BY <1>1, AppendMeans
<1>. HIDE DEF t, a
<1>7. Distinct(t)
  BY <1>1, <1>2 DEF Distinct
<1>8. Apart(t, p) /\ NoneFrom(t, servers)
  BY <1>1, <1>2 DEF Apart, NoneFrom
<1>9. ASSUME NEW j \in 1..Len(a) PROVE j \in 1..Len(p) \/ a[j] = q[1]
  BY <1>6
<1>10. \A i \in 1..Len(t) : t[i].from # q[1].from
  BY <1>1, <1>2, <1>3 DEF Distinct
<1>11. Apart(t, a)
  BY <1>6, <1>8, <1>9, <1>10 DEF Apart
<1>12. NoneFrom(a, servers)
  BY <1>3, <1>6, <1>9 DEF NoneFrom
<1>. QED  BY <1>5, <1>7, <1>8, <1>11, <1>12 DEF t, a

-----------------------------------------------------------------------------
(* Every step keeps the invariant. *)

LEMMA InvInit == Init => IInv
<1>. SUFFICES ASSUME Init PROVE IInv
  OBVIOUS
<1>1. <<>> \in Seq(Report)
  OBVIOUS
<1>2. TypeInv
  <2>1. \A c \in Call : Range(inbox[c]) \cup Range(replies[c]) \subseteq Report
    BY DEF Init, Range
  <2>2. moves \in 0..MaxMoves
    BY BoundAssumption DEF Init
  <2>3. ASSUME NEW n \in Server
        PROVE  known[n] \in Leaders /\ DOMAIN known[n] = Hosted(n)
    <3>1. Hosted(n) \in SUBSET Group
      BY DEF Hosted
    <3>2. known[n] = [g \in Hosted(n) |-> leader[g]]
      BY DEF Init
    <3>3. known[n] \in [Hosted(n) -> Server \cup {None}]
      BY <3>1, <3>2 DEF Init
    <3>. QED  BY <3>1, <3>3 DEF Leaders
  <2>4. known \in [Server -> Leaders]
    BY <2>3 DEF Init
  <2>. QED  BY <1>1, <2>1, <2>2, <2>3, <2>4 DEF Init, TypeInv, TypeOK
<1>3. SubInv /\ SteadyInv
  BY DEF Init, SubInv, SteadyInv
<1>4. FromInv
  BY DEF Init, FromInv, Distinct, Apart, NoneFrom
<1>5. HostInv
  BY DEF Init, HostInv, Honest
<1>. QED  BY <1>2, <1>3, <1>4, <1>5 DEF IInv

\* What a report names stays so: hosts do not change.
LEMMA HostStays ==
  ASSUME UNCHANGED hosts, \A c \in Call : Honest(inbox'[c]) /\ Honest(replies'[c])
  PROVE  HostInv'
  BY DEF HostInv, Honest, Hosted

\* What was the truth stays so while nothing happens among the servers.
LEMMA SteadyStays ==
  ASSUME UNCHANGED natsVars,
         \A c \in Call : pc'[c] \in {"flush", "collect", "done"} /\ steady'[c] =>
                          Agreed /\ Told(inbox'[c]) /\ Told(replies'[c])
  PROVE  SteadyInv'
<1>1. /\ hosts' = hosts /\ leader' = leader /\ known' = known
      /\ \A n : Hosted(n)' = Hosted(n)
  BY DEF natsVars, Hosted
<1>2. Agreed' <=> Agreed
  BY <1>1 DEF Agreed
<1>3. \A n : Truth(n)' = Truth(n)
  BY <1>1 DEF Truth
<1>4. ASSUME NEW c \in Call, Told(inbox'[c]), Told(replies'[c])
      PROVE  Told(inbox[c])' /\ Told(replies[c])'
  BY <1>3, <1>4 DEF Told
<1>. QED  BY <1>2, <1>4 DEF SteadyInv

LEMMA RangeMeans ==
  ASSUME NEW q \in Seq(Report)
  PROVE  Range(q) \subseteq Report
  BY DEF Range

\* A step that moves a call on and leaves servers, inboxes and replies alone.
LEMMA InvSubscribe ==
  ASSUME IInv, NEW c \in Call, Subscribe(c)
  PROVE  IInv'
<1>. USE DEF IInv
<1>1. /\ UNCHANGED <<natsVars, asked, inbox, replies, steady>>
      /\ pc[c] = "start"
      /\ \/ pc' = [pc EXCEPT ![c] = "publish"] /\ sub' = sub \cup {c}
         \/ pc' = [pc EXCEPT ![c] = "failed"] /\ sub' = sub
  BY DEF Subscribe, Step
<1>2. TypeInv'
  <2>1. /\ pc' \in [Call -> {"start", "publish", "flush", "collect", "done", "failed"}]
        /\ sub' \subseteq Call
    BY <1>1 DEF TypeInv, TypeOK
  <2>. QED  BY <1>1, <2>1 DEF TypeInv, TypeOK, Hosted, natsVars
<1>3. SubInv'
  BY <1>1 DEF SubInv, TypeInv, TypeOK
<1>4. FromInv'
  BY <1>1 DEF FromInv
<1>5. SteadyInv'
  BY <1>1, SteadyStays DEF SteadyInv, TypeInv, TypeOK
<1>6. HostInv'
  BY <1>1, HostStays DEF HostInv, natsVars
<1>. QED  BY <1>2, <1>3, <1>4, <1>5, <1>6

LEMMA InvFlush ==
  ASSUME IInv, NEW c \in Call, Flush(c)
  PROVE  IInv'
<1>. USE DEF IInv
<1>1. /\ UNCHANGED <<natsVars, sub, asked, inbox, replies, steady>>
      /\ pc[c] = "flush" /\ pc' = [pc EXCEPT ![c] = "collect"]
  BY DEF Flush, Step
<1>2. TypeInv'
  BY <1>1 DEF TypeInv, TypeOK, Hosted, natsVars
<1>3. SubInv'
  BY <1>1 DEF SubInv, TypeInv, TypeOK
<1>4. FromInv'
  BY <1>1 DEF FromInv
<1>5. SteadyInv'
  BY <1>1, SteadyStays DEF SteadyInv, TypeInv, TypeOK
<1>6. HostInv'
  BY <1>1, HostStays DEF HostInv, natsVars
<1>. QED  BY <1>2, <1>3, <1>4, <1>5, <1>6

\* A call that ends gives its inbox back, whatever it was about to do.
LEMMA InvEnds ==
  ASSUME IInv, NEW c \in Call, NEW from \in {"publish", "flush", "collect"},
         NEW to \in {"done", "failed"}, to = "done" => from = "collect",
         Step(c, from, to), Unsubscribe(c), UNCHANGED <<natsVars, asked, replies, steady>>
  PROVE  IInv'
<1>. USE DEF IInv
<1>1. /\ pc[c] = from /\ pc' = [pc EXCEPT ![c] = to]
      /\ sub' = sub \ {c} /\ inbox' = [inbox EXCEPT ![c] = <<>>]
  BY DEF Step, Unsubscribe
<1>2. /\ inbox'[c] = <<>> /\ \A d \in Call : d # c => inbox'[d] = inbox[d]
      /\ pc'[c] = to /\ \A d \in Call : d # c => pc'[d] = pc[d]
      /\ DOMAIN inbox' = Call /\ <<>> \in Seq(Report)
  BY <1>1 DEF TypeInv, TypeOK
<1>3. TypeInv'
  <2>1. pc' \in [Call -> {"start", "publish", "flush", "collect", "done", "failed"}]
    BY <1>1 DEF TypeInv, TypeOK
  <2>2. \A d \in Call : inbox'[d] \in Seq(Report) /\ replies'[d] \in Seq(Report)
    BY <1>2 DEF TypeInv
  <2>3. \A d \in Call : Range(inbox'[d]) \cup Range(replies'[d]) \subseteq Report
    BY <2>2, RangeMeans
  <2>. QED  BY <1>1, <1>2, <2>1, <2>2, <2>3 DEF TypeInv, TypeOK, Hosted, natsVars
<1>4. SubInv'
  BY <1>1, <1>2 DEF SubInv
<1>5. FromInv'
  <2>1. Distinct(<<>>) /\ Apart(<<>>, replies[c]) /\ NoneFrom(<<>>, asked[c])
    BY DEF Distinct, Apart, NoneFrom
  <2>. QED  BY <1>2, <2>1 DEF FromInv
<1>6. SteadyInv'
  <2>1. Told(<<>>)
    BY DEF Told
  <2>2. ASSUME NEW d \in Call, pc'[d] \in {"flush", "collect", "done"}, steady'[d]
        PROVE  Agreed /\ Told(inbox[d]) /\ Told(replies[d])
    BY <1>1, <1>2, <2>2 DEF SteadyInv
  <2>. QED  BY <1>2, <2>1, <2>2, SteadyStays
<1>7. HostInv'
  <2>1. Honest(<<>>)
    BY DEF Honest
  <2>2. \A d \in Call : Honest(inbox'[d]) /\ Honest(replies'[d])
    BY <1>2, <2>1 DEF HostInv
  <2>. QED  BY <2>2, HostStays DEF natsVars
<1>. QED  BY <1>3, <1>4, <1>5, <1>6, <1>7

LEMMA InvPublish ==
  ASSUME IInv, NEW c \in Call, Publish(c)
  PROVE  IInv'
<1>1. CASE up
  <2>. USE DEF IInv
  <2>1. /\ UNCHANGED <<natsVars, sub, inbox, replies>>
        /\ pc[c] = "publish" /\ pc' = [pc EXCEPT ![c] = "flush"]
        /\ asked' = [asked EXCEPT ![c] = Server]
        /\ steady' = [steady EXCEPT ![c] = Agreed]
    BY <1>1 DEF Publish, Step
  <2>2. /\ inbox[c] = <<>> /\ replies[c] = <<>>
    BY <2>1 DEF SubInv
  <2>3. Agreed \in BOOLEAN
    BY DEF Agreed
  <2>4. /\ steady'[c] = Agreed /\ \A d \in Call : d # c => steady'[d] = steady[d]
        /\ pc'[c] = "flush" /\ \A d \in Call : d # c => pc'[d] = pc[d]
        /\ asked'[c] = Server /\ \A d \in Call : d # c => asked'[d] = asked[d]
    BY <2>1 DEF TypeInv, TypeOK
  <2>5. TypeInv'
    BY <2>1, <2>3 DEF TypeInv, TypeOK, Hosted, natsVars
  <2>6. SubInv'
    BY <2>1, <2>4 DEF SubInv
  <2>7. FromInv'
    <3>1. NoneFrom(inbox[c], Server) /\ NoneFrom(replies[c], Server)
      BY <2>2 DEF NoneFrom
    <3>. QED  BY <2>1, <2>4, <3>1 DEF FromInv
  <2>8. SteadyInv'
    <3>1. Told(inbox[c]) /\ Told(replies[c])
      BY <2>2 DEF Told
    <3>3. ASSUME NEW d \in Call, pc'[d] \in {"flush", "collect", "done"}, steady'[d]
          PROVE  Agreed /\ Told(inbox[d]) /\ Told(replies[d])
      BY <2>4, <3>1, <3>3 DEF SteadyInv
    <3>. QED  BY <2>1, <3>3, SteadyStays
  <2>9. HostInv'
    BY <2>1, HostStays DEF HostInv, natsVars
  <2>. QED  BY <2>5, <2>6, <2>7, <2>8, <2>9
<1>2. CASE ~up
  BY <1>2, InvEnds DEF Publish
<1>. QED  BY <1>1, <1>2

LEMMA InvCollect ==
  ASSUME IInv, NEW c \in Call, Collect(c)
  PROVE  IInv'
<1>. USE DEF IInv
<1>. DEFINE q == inbox[c]
            p == replies[c]
<1>1. /\ UNCHANGED <<natsVars, sub, asked, steady>>
      /\ pc[c] = "collect" /\ pc' = [pc EXCEPT ![c] = "collect"]
      /\ q # <<>>
      /\ inbox' = [inbox EXCEPT ![c] = Tail(q)]
      /\ \/ replies' = replies
         \/ replies' = [replies EXCEPT ![c] = Append(p, Head(q))]
  BY DEF Collect, Step
<1>2. /\ q \in Seq(Report) /\ p \in Seq(Report) /\ pc' = pc
  BY <1>1 DEF TypeInv, TypeOK
<1>3. /\ Tail(q) \in Seq(Report) /\ Len(Tail(q)) = Len(q) - 1 /\ Len(q) > 0
      /\ Head(q) = q[1] /\ Head(q) \in Report
      /\ \A i \in 1..Len(Tail(q)) : Tail(q)[i] = q[i + 1]
  BY <1>1, <1>2, TailMeans
<1>4. /\ Append(p, Head(q)) \in Seq(Report) /\ Len(Append(p, Head(q))) = Len(p) + 1
      /\ Append(p, Head(q))[Len(p) + 1] = Head(q)
      /\ \A i \in 1..Len(p) : Append(p, Head(q))[i] = p[i]
  BY <1>2, <1>3, AppendMeans
<1>5. /\ inbox'[c] = Tail(q) /\ \A d \in Call : d # c => inbox'[d] = inbox[d]
      /\ DOMAIN inbox' = Call /\ DOMAIN replies' = Call
      /\ replies'[c] \in {p, Append(p, Head(q))}
      /\ \A d \in Call : d # c => replies'[d] = replies[d]
  BY <1>1 DEF TypeInv
<1>6. TypeInv'
  <2>1. \A d \in Call : inbox'[d] \in Seq(Report) /\ replies'[d] \in Seq(Report)
    BY <1>2, <1>3, <1>4, <1>5 DEF TypeInv
  <2>2. \A d \in Call : Range(inbox'[d]) \cup Range(replies'[d]) \subseteq Report
    BY <2>1, RangeMeans
  <2>. QED  BY <1>1, <1>2, <1>5, <2>1, <2>2 DEF TypeInv, TypeOK, Hosted, natsVars
<1>7. SubInv'
  <2>1. c \in sub
    BY <1>1 DEF SubInv
  <2>. QED  BY <1>1, <1>2, <1>5, <2>1 DEF SubInv
<1>8. FromInv'
  <2>1. /\ Distinct(Tail(q)) /\ Apart(Tail(q), p) /\ NoneFrom(Tail(q), asked[c])
        /\ Distinct(Append(p, Head(q))) /\ Apart(Tail(q), Append(p, Head(q)))
        /\ NoneFrom(Append(p, Head(q)), asked[c])
    BY <1>1, <1>2, ReadMeans DEF FromInv
  <2>2. Distinct(p) /\ NoneFrom(p, asked[c])
    BY DEF FromInv
  <2>. QED  BY <1>1, <1>5, <2>1, <2>2 DEF FromInv
<1>9. SteadyInv'
  <2>1. ASSUME NEW d \in Call, pc[d] \in {"flush", "collect", "done"}, steady[d]
        PROVE  Agreed /\ Told(inbox'[d]) /\ Told(replies'[d])
    <3>1. Agreed /\ Told(inbox[d]) /\ Told(replies[d])
      BY <2>1 DEF SteadyInv
    <3>2. CASE d # c
      BY <1>5, <3>1, <3>2
    <3>3. CASE d = c
      <4>1. \A i \in 1..Len(Tail(q)) : i + 1 \in 1..Len(q)
        BY <1>2, <1>3
      <4>2. Told(Tail(q))
        BY <1>3, <3>1, <3>3, <4>1 DEF Told
      <4>3. Head(q).leaders = Truth(Head(q).from)
        BY <1>2, <1>3, <3>1, <3>3 DEF Told
      <4>4. \A i \in 1..(Len(p) + 1) : i \in 1..Len(p) \/ i = Len(p) + 1
        BY <1>2
      <4>5. Told(Append(p, Head(q)))
        BY <1>4, <3>1, <3>3, <4>3, <4>4 DEF Told
      <4>. QED  BY <1>5, <3>1, <3>3, <4>2, <4>5
    <3>. QED  BY <3>2, <3>3
  <2>. QED  BY <1>1, <1>2, <2>1, SteadyStays
<1>10. HostInv'
  <2>1. Honest(q) /\ Honest(p)
    BY DEF HostInv
  <2>2. \A i \in 1..Len(Tail(q)) : i + 1 \in 1..Len(q)
    BY <1>2, <1>3
  <2>3. Honest(Tail(q))
    BY <1>3, <2>1, <2>2 DEF Honest
  <2>4. DOMAIN Head(q).leaders = Hosted(Head(q).from)
    BY <1>2, <1>3, <2>1 DEF Honest
  <2>5. \A i \in 1..(Len(p) + 1) : i \in 1..Len(p) \/ i = Len(p) + 1
    BY <1>2
  <2>6. Honest(Append(p, Head(q)))
    BY <1>4, <2>1, <2>4, <2>5 DEF Honest
  <2>7. \A d \in Call : Honest(inbox'[d]) /\ Honest(replies'[d])
    BY <1>5, <2>1, <2>3, <2>6 DEF HostInv
  <2>. QED  BY <1>1, <2>7, HostStays DEF natsVars
<1>. QED  BY <1>6, <1>7, <1>8, <1>9, <1>10

LEMMA InvReply ==
  ASSUME IInv, NEW n \in Server, NEW c \in Call, Reply(n, c)
  PROVE  IInv'
<1>. USE DEF IInv
<1>. DEFINE q == inbox[c]
            left == asked[c] \ {n}
<1>1. /\ UNCHANGED <<natsVars, pc, sub, replies, steady>>
      /\ n \in asked[c]
      /\ asked' = [asked EXCEPT ![c] = left]
  BY DEF Reply
<1>2. PICK valid \in BOOLEAN :
        inbox' = IF c \in sub
                 THEN [inbox EXCEPT ![c] =
                         Append(@, [from |-> n, leaders |-> known[n], valid |-> valid])]
                 ELSE inbox
  BY DEF Reply
<1>. DEFINE r == [from |-> n, leaders |-> known[n], valid |-> valid]
<1>3. r \in Report /\ r.from = n /\ r.leaders = known[n] /\ q \in Seq(Report)
  BY DEF Report, TypeInv, TypeOK
<1>4. inbox' \in {inbox, [inbox EXCEPT ![c] = Append(q, r)]} /\ (c \notin sub => inbox' = inbox)
  BY <1>2
<1>. HIDE DEF r
<1>5. /\ Append(q, r) \in Seq(Report) /\ Len(Append(q, r)) = Len(q) + 1 /\ Len(q) \in Nat
      /\ Append(q, r)[Len(q) + 1] = r
      /\ \A i \in 1..Len(q) : Append(q, r)[i] = q[i]
  BY <1>3, AppendMeans
<1>6. /\ inbox'[c] \in {q, Append(q, r)} /\ \A d \in Call : d # c => inbox'[d] = inbox[d]
      /\ DOMAIN inbox' = Call
      /\ asked'[c] = left /\ \A d \in Call : d # c => asked'[d] = asked[d]
  BY <1>1, <1>4 DEF TypeInv, TypeOK
<1>7. \A i \in 1..(Len(q) + 1) : i \in 1..Len(q) \/ i = Len(q) + 1
  BY <1>5
<1>8. TypeInv'
  <2>1. \A d \in Call : inbox'[d] \in Seq(Report) /\ replies'[d] \in Seq(Report)
    BY <1>1, <1>3, <1>5, <1>6 DEF TypeInv
  <2>2. \A d \in Call : Range(inbox'[d]) \cup Range(replies'[d]) \subseteq Report
    BY <2>1, RangeMeans
  <2>3. asked' \in [Call -> SUBSET Server]
    BY <1>1 DEF TypeInv, TypeOK
  <2>. QED  BY <1>1, <1>6, <2>1, <2>2, <2>3 DEF TypeInv, TypeOK, Hosted, natsVars
<1>9. SubInv'
  <2>1. pc[c] \notin {"start", "publish"}
    BY <1>1 DEF SubInv
  <2>. QED  BY <1>1, <1>4, <1>6, <2>1 DEF SubInv
<1>10. FromInv'
  <2>1. /\ Distinct(q) /\ Distinct(replies[c]) /\ Apart(q, replies[c])
        /\ NoneFrom(q, asked[c]) /\ NoneFrom(replies[c], asked[c])
    BY DEF FromInv
  <2>2. NoneFrom(q, left) /\ NoneFrom(replies[c], left)
    BY <2>1 DEF NoneFrom
  <2>3. \A i \in 1..Len(q) : q[i].from # r.from
    BY <1>1, <1>3, <2>1 DEF NoneFrom
  <2>4. Distinct(Append(q, r))
    BY <1>3, <2>1, <2>3, AppendDistinct
  <2>5. \A j \in 1..Len(replies[c]) : r.from # replies[c][j].from
    BY <1>1, <1>3, <2>1 DEF NoneFrom
  <2>6. Apart(Append(q, r), replies[c])
    BY <1>5, <1>7, <2>1, <2>5 DEF Apart
  <2>7. NoneFrom(Append(q, r), left)
    BY <1>3, <1>5, <1>7, <2>2 DEF NoneFrom
  <2>. QED  BY <1>1, <1>6, <2>1, <2>2, <2>4, <2>6, <2>7 DEF FromInv
<1>11. SteadyInv'
  <2>1. ASSUME NEW d \in Call, pc[d] \in {"flush", "collect", "done"}, steady[d]
        PROVE  Agreed /\ Told(inbox'[d]) /\ Told(replies[d])
    <3>1. Agreed /\ Told(inbox[d]) /\ Told(replies[d])
      BY <2>1 DEF SteadyInv
    <3>2. r.leaders = Truth(r.from)
      BY <1>3, <3>1 DEF Agreed, Truth
    <3>3. d = c => Told(Append(q, r))
      BY <1>5, <1>7, <3>1, <3>2 DEF Told
    <3>. QED  BY <1>6, <3>1, <3>3
  <2>. QED  BY <1>1, <2>1, SteadyStays
<1>12. HostInv'
  <2>1. DOMAIN r.leaders = Hosted(r.from)
    BY <1>3 DEF TypeInv, TypeOK
  <2>2. Honest(q)
    BY DEF HostInv
  <2>3. Honest(Append(q, r))
    BY <1>5, <1>7, <2>1, <2>2 DEF Honest
  <2>4. \A d \in Call : Honest(inbox'[d]) /\ Honest(replies'[d])
    BY <1>1, <1>6, <2>2, <2>3 DEF HostInv
  <2>. QED  BY <1>1, <2>4, HostStays DEF natsVars
<1>. QED  BY <1>8, <1>9, <1>10, <1>11, <1>12

\* Another leader for a group leaves leaders known of the same groups.
LEMMA LeadersMeans ==
  ASSUME NEW f \in Leaders, NEW g, NEW n \in Server \cup {None}
  PROVE  [f EXCEPT ![g] = n] \in Leaders /\ DOMAIN [f EXCEPT ![g] = n] = DOMAIN f
<1>1. PICK G \in SUBSET Group : f \in [G -> Server \cup {None}]
  BY DEF Leaders
<1>2. [f EXCEPT ![g] = n] \in [G -> Server \cup {None}]
  BY <1>1
<1>. QED  BY <1>1, <1>2 DEF Leaders

\* An election ends what was steady; a call that has not sent its request has been
\* told nothing.
LEMMA InvElect ==
  ASSUME IInv, NEW g \in Group, NEW n \in Server \cup {None}, Elect(g, n)
  PROVE  IInv'
<1>. USE DEF IInv
<1>1. /\ moves < MaxMoves /\ moves' = moves + 1
      /\ leader' = [leader EXCEPT ![g] = n]
      /\ known' = [m \in Server |-> IF m = n THEN [known[m] EXCEPT ![g] = n] ELSE known[m]]
      /\ steady' = [c \in Call |-> steady[c] /\ pc[c] \in {"start", "publish", "failed"}]
      /\ n \in hosts[g] \cup {None}
      /\ UNCHANGED <<hosts, up, pc, sub, asked, inbox, replies>>
  BY DEF Elect
<1>2. TypeInv'
  <2>1. moves' \in 0..MaxMoves
    BY <1>1, BoundAssumption DEF TypeInv, TypeOK
  <2>2. ASSUME NEW m \in Server
        PROVE  known'[m] \in Leaders /\ DOMAIN known'[m] = Hosted(m)
    <3>1. known[m] \in Leaders /\ DOMAIN known[m] = Hosted(m)
      BY DEF TypeInv, TypeOK
    <3>2. [known[m] EXCEPT ![g] = n] \in Leaders /\ DOMAIN [known[m] EXCEPT ![g] = n] = Hosted(m)
      BY <3>1, LeadersMeans
    <3>. QED  BY <1>1, <3>1, <3>2
  <2>3. known' \in [Server -> Leaders]
    BY <1>1, <2>2
  <2>6. \A h \in Group : leader'[h] \in hosts'[h] \cup {None}
    BY <1>1 DEF TypeInv, TypeOK
  <2>4. leader' \in [Group -> Server \cup {None}]
    BY <1>1 DEF TypeInv, TypeOK
  <2>5. steady' \in [Call -> BOOLEAN]
    BY <1>1
  <2>. QED  BY <1>1, <2>1, <2>2, <2>3, <2>4, <2>5, <2>6 DEF TypeInv, TypeOK, Hosted
<1>3. SubInv'
  BY <1>1 DEF SubInv
<1>4. FromInv'
  BY <1>1 DEF FromInv
<1>5. SteadyInv'
  BY <1>1 DEF SteadyInv
<1>6. HostInv'
  BY <1>1, HostStays DEF HostInv
<1>. QED  BY <1>2, <1>3, <1>4, <1>5, <1>6

\* Who hears of a leader did not know it: nothing that goes on is steady.
LEMMA InvHear ==
  ASSUME IInv, NEW g \in Group, NEW n \in Server, Hear(n, g)
  PROVE  IInv'
<1>. USE DEF IInv
<1>1. /\ n \in hosts[g] /\ known[n][g] # leader[g]
      /\ known' = [known EXCEPT ![n][g] = leader[g]]
      /\ UNCHANGED <<hosts, leader, moves, up, pc, sub, asked, inbox, replies, steady>>
  BY DEF Hear, callVars
<1>2. TypeInv'
  <2>1. leader[g] \in Server \cup {None}
    BY DEF TypeInv, TypeOK
  <2>2. DOMAIN known = Server /\ \A m \in Server : known[m] \in Leaders /\ DOMAIN known[m] = Hosted(m)
    BY DEF TypeInv, TypeOK
  <2>3. known' = [known EXCEPT ![n] = [known[n] EXCEPT ![g] = leader[g]]]
    BY <1>1
  <2>4. /\ [known[n] EXCEPT ![g] = leader[g]] \in Leaders
        /\ DOMAIN [known[n] EXCEPT ![g] = leader[g]] = Hosted(n)
    BY <2>1, <2>2, LeadersMeans
  <2>5. /\ known' \in [Server -> Leaders]
        /\ \A m \in Server : DOMAIN known'[m] = Hosted(m)
    BY <2>2, <2>3, <2>4 DEF TypeInv, TypeOK
  <2>. QED  BY <1>1, <2>5 DEF TypeInv, TypeOK, Hosted
<1>3. SubInv'
  BY <1>1 DEF SubInv
<1>4. FromInv'
  BY <1>1 DEF FromInv
<1>5. ~Agreed
  BY <1>1 DEF Agreed, Hosted
<1>6. SteadyInv'
  BY <1>1, <1>5 DEF SteadyInv
<1>7. HostInv'
  BY <1>1, HostStays DEF HostInv
<1>. QED  BY <1>2, <1>3, <1>4, <1>6, <1>7

LEMMA InvIdle ==
  ASSUME IInv, Close \/ UNCHANGED vars
  PROVE  IInv'
<1>1. /\ up' \in {up, FALSE}
      /\ UNCHANGED <<hosts, leader, known, moves, pc, sub, asked, inbox, replies, steady>>
  BY DEF Close, vars, natsVars, callVars
<1>2. TypeInv'
  BY <1>1 DEF IInv, TypeInv, TypeOK, Hosted
<1>3. SubInv' /\ FromInv'
  BY <1>1 DEF IInv, SubInv, FromInv
<1>4. SteadyInv'
  BY <1>1 DEF IInv, SteadyInv, Agreed, Told, Truth, Hosted
<1>5. HostInv'
  BY <1>1, HostStays DEF IInv, HostInv
<1>. QED  BY <1>2, <1>3, <1>4, <1>5 DEF IInv

LEMMA InvCall ==
  ASSUME IInv, NEW c \in Call, CallStep(c)
  PROVE  IInv'
<1>1. CASE Subscribe(c)
  BY <1>1, InvSubscribe
<1>2. CASE Publish(c)
  BY <1>2, InvPublish
<1>3. CASE Flush(c)
  BY <1>3, InvFlush
<1>4. CASE FlushFails(c)
  BY <1>4, InvEnds DEF FlushFails
<1>5. CASE Collect(c)
  BY <1>5, InvCollect
<1>6. CASE WindowEnds(c)
  BY <1>6, InvEnds DEF WindowEnds
<1>. QED  BY <1>1, <1>2, <1>3, <1>4, <1>5, <1>6 DEF CallStep

-----------------------------------------------------------------------------
(* The theorems. *)

\* The inductive invariant holds in every state of every behaviour.
THEOREM Invariance == Spec => []IInv
<1>1. Init => IInv
  BY InvInit
<1>2. IInv /\ [Next]_vars => IInv'
  <2>. SUFFICES ASSUME IInv, [Next]_vars PROVE IInv'
    OBVIOUS
  <2>1. ASSUME NEW c \in Call, CallStep(c) PROVE IInv'
    BY <2>1, InvCall
  <2>2. ASSUME NEW n \in Server, NEW c \in Call, Reply(n, c) PROVE IInv'
    BY <2>2, InvReply
  <2>3. ASSUME NEW g \in Group, NEW n \in Server \cup {None}, Elect(g, n) PROVE IInv'
    BY <2>3, InvElect
  <2>4. ASSUME NEW g \in Group, NEW n \in Server, Hear(n, g) PROVE IInv'
    BY <2>4, InvHear
  <2>5. CASE Close \/ UNCHANGED vars
    BY <2>5, InvIdle
  <2>. QED  BY <2>1, <2>2, <2>3, <2>4, <2>5 DEF Next
<1>. QED  BY <1>1, <1>2, PTL DEF Spec

\* Every variable keeps to its values.
THEOREM TypeCorrect == Spec => []TypeOK
<1>1. IInv => TypeOK
  BY DEF IInv, TypeInv
<1>. QED  BY <1>1, Invariance, PTL

\* discover unsubscribes its inbox on every path, and has each server's report at most
\* once.
THEOREM InboxBack == Spec => []InboxGivenBack
<1>1. IInv => InboxGivenBack
  <2>. SUFFICES ASSUME IInv, NEW c \in Call
                PROVE  /\ Ended(c) => c \notin sub /\ inbox[c] = <<>>
                       /\ \A i, j \in DOMAIN replies[c] :
                            replies[c][i].from = replies[c][j].from => i = j
    BY DEF InboxGivenBack
  <2>1. Ended(c) => c \notin sub /\ inbox[c] = <<>>
    BY DEF IInv, SubInv, Ended
  <2>2. replies[c] \in Seq(Report) /\ Distinct(replies[c])
    BY DEF IInv, TypeInv, FromInv
  <2>3. DOMAIN replies[c] = 1..Len(replies[c])
    BY <2>2
  <2>. QED  BY <2>1, <2>2, <2>3 DEF Distinct
<1>. QED  BY <1>1, Invariance, PTL

-----------------------------------------------------------------------------
(* aggregateOverview, by induction over the reports. *)

\* A set of numbers that is not empty has a least one ...
LEMMA Least ==
  ASSUME NEW T, T \subseteq Nat, T # {}
  PROVE  \E x \in T : \A y \in T : ~(y < x)
<1>. DEFINE R == OpToRel(<, Nat)
<1>1. IsWellFoundedOn(R, Nat)
  BY NatLessThanWellFounded
<1>. HIDE DEF R
<1>2. PICK x \in T : \A y \in T : ~(<<y, x>> \in R)
  BY <1>1, WFMin
<1>3. \A y \in T : y < x => <<y, x>> \in R
  BY DEF R, OpToRel
<1>. QED  BY <1>2, <1>3

\* ... and so one that holds 0 and is closed under the successor up to N holds all.
LEMMA Induct ==
  ASSUME NEW N \in Nat, NEW T, 0 \in T, \A n \in 0..N : n \in T /\ n < N => n + 1 \in T
  PROVE  \A n \in 0..N : n \in T
<1>. DEFINE Rest == {n \in 0..N : n \notin T}
<1>1. SUFFICES ASSUME Rest # {} PROVE FALSE
  OBVIOUS
<1>2. Rest \subseteq Nat
  OBVIOUS
<1>. HIDE DEF Rest
<1>3. PICK x \in Rest : \A y \in Rest : ~(y < x)
  BY <1>1, <1>2, Least
<1>4. x \in 0..N /\ x \notin T /\ x # 0
  BY <1>3 DEF Rest
<1>5. x - 1 \in 0..N /\ x - 1 < N /\ x - 1 < x /\ (x - 1) + 1 = x
  BY <1>4
<1>6. x - 1 \notin Rest
  BY <1>3, <1>5
<1>7. x - 1 \in T
  BY <1>5, <1>6 DEF Rest
<1>. QED  BY <1>4, <1>5, <1>7

\* The entries of a stream, report by report.
Entries(f, n, q, st) ==
  /\ f = [i \in 0..n |-> f[i]]
  /\ \A i \in 0..n : f[i] = IF i = 0 THEN Nothing ELSE Add(f[i - 1], q[i], st)

LEMMA EntriesExist ==
  ASSUME NEW N \in Nat, NEW q, NEW st
  PROVE  \A n \in 0..N : \E f : Entries(f, n, q, st)
<1>. DEFINE T == {n \in 0..N : \E f : Entries(f, n, q, st)}
<1>1. 0 \in T
  <2>. DEFINE f == [i \in 0..0 |-> Nothing]
  <2>1. Entries(f, 0, q, st)
    BY DEF Entries
  <2>. HIDE DEF f
  <2>. QED  BY <2>1
<1>2. ASSUME NEW n \in 0..N, n \in T, n < N PROVE n + 1 \in T
  <2>1. PICK g : Entries(g, n, q, st)
    BY <1>2
  <2>. DEFINE f == [i \in 0..(n + 1) |-> IF i <= n THEN g[i] ELSE Add(g[n], q[n + 1], st)]
  <2>2. f = [i \in 0..(n + 1) |-> f[i]]
    OBVIOUS
  <2>3. f[n + 1] = Add(g[n], q[n + 1], st) /\ \A i \in 0..n : f[i] = g[i]
    OBVIOUS
  <2>. HIDE DEF f
  <2>4. ASSUME NEW i \in 0..(n + 1)
        PROVE  f[i] = IF i = 0 THEN Nothing ELSE Add(f[i - 1], q[i], st)
    <3>1. CASE i = n + 1
      BY <2>3, <3>1
    <3>2. CASE i \in 0..n
      <4>1. g[i] = IF i = 0 THEN Nothing ELSE Add(g[i - 1], q[i], st)
        BY <2>1, <3>2 DEF Entries
      <4>2. i # 0 => i - 1 \in 0..n
        BY <3>2
      <4>. QED  BY <2>3, <3>2, <4>1, <4>2
    <3>. QED  BY <3>1, <3>2
  <2>5. Entries(f, n + 1, q, st)
    BY <2>2, <2>4 DEF Entries
  <2>. QED  BY <1>2, <2>5
<1>. HIDE DEF T
<1>3. \A n \in 0..N : n \in T
  BY <1>1, <1>2, Induct
<1>. QED  BY <1>3 DEF T

\* The entry shown is the last of them.
LEMMA AggregateMeans ==
  ASSUME NEW q \in Seq(Report), NEW st \in Stream
  PROVE  \E f : Entries(f, Len(q), q, st) /\ aggregateOverview(q)[st] = f[Len(q)]
<1>0. Len(q) \in Nat /\ Len(q) \in 0..Len(q)
  OBVIOUS
<1>1. PICK g : Entries(g, Len(q), q, st)
  BY <1>0, EntriesExist
<1>2. g = [n \in 0..Len(q) |-> IF n = 0 THEN Nothing ELSE Add(g[n - 1], q[n], st)]
  BY <1>1 DEF Entries
<1>3. PICK f : /\ f = [n \in 0..Len(q) |-> IF n = 0 THEN Nothing ELSE Add(f[n - 1], q[n], st)]
               /\ f[Len(q)] = aggregateOverview(q)[st]
  BY <1>2 DEF aggregateOverview
<1>4. f = [n \in 0..Len(q) |-> f[n]]
  BY <1>3
<1>5. \A n \in 0..Len(q) : f[n] = IF n = 0 THEN Nothing ELSE Add(f[n - 1], q[n], st)
  BY <1>3
<1>. QED  BY <1>3, <1>4, <1>5 DEF Entries

Entry == [count : Nat, by : Server \cup {None}, shown : BOOLEAN,
          consumers : SUBSET Consumer, total : Nat]

\* The consumers a report counts with its stream.
Led(r, st) ==
  {k \in Consumer : <<st, k>> \in DOMAIN r.leaders /\ r.leaders[<<st, k>>] \in {None, r.from}}

\* What one report adds to an entry.
LEMMA AddMeans ==
  ASSUME NEW entry \in Entry, NEW r \in Report, NEW st \in Stream
  PROVE  LET e == Add(entry, r, st)
         IN /\ e \in Entry /\ (e.shown <=> entry.shown \/ st \in DOMAIN r.leaders)
            /\ ~(st \in DOMAIN r.leaders /\ r.leaders[st] = r.from) =>
                 /\ e.count = entry.count /\ e.total = entry.total
                 /\ entry.shown => e.by = entry.by
            /\ st \in DOMAIN r.leaders /\ r.leaders[st] = r.from =>
                 /\ e.count = entry.count + 1 /\ e.by = r.from
                 /\ e.total = entry.total + Cardinality(Led(r, st))
<1>1. /\ Led(r, st) \subseteq Consumer /\ Cardinality(Led(r, st)) \in Nat
      /\ r.from \in Server
  <2>1. Led(r, st) \subseteq Consumer
    BY DEF Led
  <2>2. IsFiniteSet(Led(r, st))
    BY <2>1, ConsumerAssumption, FS_Subset
  <2>. QED  BY <2>1, <2>2, FS_CardinalityType DEF Report
<1>2. CASE st \in DOMAIN r.leaders /\ r.leaders[st] # r.from
  <2>. DEFINE to == IF entry.shown THEN entry.by ELSE r.from
  <2>1. to \in Server \cup {None}
    BY <1>1 DEF Entry
  <2>2. Add(entry, r, st) = [entry EXCEPT !.shown = TRUE, !.by = to]
    BY <1>2 DEF Add
  <2>. HIDE DEF to
  <2>3. LET e == [entry EXCEPT !.shown = TRUE, !.by = to]
        IN e \in Entry /\ e.shown = TRUE /\ e.count = entry.count /\ e.total = entry.total
           /\ e.by = to
    BY <2>1 DEF Entry
  <2>. QED  BY <1>2, <2>2, <2>3 DEF to
<1>3. CASE st \in DOMAIN r.leaders /\ r.leaders[st] = r.from
  <2>1. Add(entry, r, st) =
          [count |-> entry.count + 1, by |-> r.from, shown |-> TRUE,
           consumers |-> Led(r, st), total |-> entry.total + Cardinality(Led(r, st))]
    BY <1>3 DEF Add, Led
  <2>. QED  BY <1>1, <1>3, <2>1 DEF Entry
<1>4. CASE st \notin DOMAIN r.leaders
  BY <1>4 DEF Add
<1>. QED  BY <1>2, <1>3, <1>4

\* Some of the first n reports names the stream.
Named(q, st, n) == \E i \in 1..n : st \in DOMAIN q[i].leaders

\* A stream is shown as soon as a report names it.
LEMMA ShownMeans ==
  ASSUME NEW q \in Seq(Report), NEW st \in Stream, NEW f, Entries(f, Len(q), q, st)
  PROVE  \A n \in 0..Len(q) : f[n] \in Entry /\ (f[n].shown <=> Named(q, st, n))
<1>. DEFINE N == Len(q)
            T == {n \in 0..N : f[n] \in Entry /\ (f[n].shown <=> Named(q, st, n))}
<1>1. N \in Nat /\ \A i \in 1..N : q[i] \in Report
  OBVIOUS
<1>2. /\ f[0] = Nothing
      /\ \A n \in 0..N : n < N => f[n + 1] = Add(f[n], q[n + 1], st)
  BY DEF Entries
<1>. HIDE DEF N
<1>3. Nothing \in Entry /\ Nothing.shown = FALSE
  BY DEF Nothing, Entry
<1>4. 0 \in T
  <2>1. ~Named(q, st, 0)
    BY DEF Named
  <2>. QED  BY <1>1, <1>2, <1>3, <2>1
<1>5. ASSUME NEW n \in 0..N, n \in T, n < N PROVE n + 1 \in T
  <2>1. f[n] \in Entry /\ n + 1 \in 1..N /\ q[n + 1] \in Report
    BY <1>1, <1>5
  <2>2. /\ f[n + 1] \in Entry
        /\ f[n + 1].shown <=> f[n].shown \/ st \in DOMAIN q[n + 1].leaders
    <3>1. f[n + 1] = Add(f[n], q[n + 1], st)
      BY <1>2, <1>5
    <3>. QED  BY <2>1, <3>1, AddMeans
  <2>3. Named(q, st, n + 1) <=> Named(q, st, n) \/ st \in DOMAIN q[n + 1].leaders
    <3>1. /\ \A i \in 1..(n + 1) : i \in 1..n \/ i = n + 1
          /\ n + 1 \in 1..(n + 1) /\ 1..n \subseteq 1..(n + 1)
      BY <1>1
    <3>. QED  BY <3>1 DEF Named
  <2>4. f[n].shown <=> Named(q, st, n)
    BY <1>5
  <2>5. f[n + 1].shown <=> Named(q, st, n + 1)
    BY <2>2, <2>3, <2>4
  <2>. QED  BY <1>1, <1>5, <2>2, <2>5
<1>. HIDE DEF T
<1>6. \A n \in 0..N : n \in T
  BY <1>1, <1>4, <1>5, Induct
<1>. QED  BY <1>6 DEF T, N

\* The consumers of a stream that its leader leads too, or nobody.
LedAlong(st) ==
  {k \in Consumer : /\ leader[st] \in hosts[<<st, k>>]
                    /\ leader[<<st, k>>] \in {None, leader[st]}}

\* Of reports that tell how things are, the leader's and no other is counted.
LEMMA CountMeans ==
  ASSUME TypeInv, NEW q \in Seq(Report), NEW st \in Stream, NEW f, Entries(f, Len(q), q, st),
         Distinct(q), Told(q)
  PROVE  LET found == \E i \in 1..Len(q) : q[i].from = leader[st]
             e == f[Len(q)]
         IN /\ found => /\ e.count = 1 /\ e.by = leader[st]
                        /\ e.total = Cardinality(LedAlong(st))
            /\ ~found => e.count = 0
<1>. DEFINE N == Len(q)
            Found(n) == \E i \in 1..n : q[i].from = leader[st]
            T == {n \in 0..N :
                    /\ Found(n) => /\ f[n].count = 1 /\ f[n].by = leader[st]
                                   /\ f[n].total = Cardinality(LedAlong(st))
                    /\ ~Found(n) => f[n].count = 0 /\ f[n].total = 0}
<1>1. N \in Nat /\ \A i \in 1..N : q[i] \in Report /\ q[i].leaders = Truth(q[i].from)
  BY DEF Told
<1>2. /\ f[0] = Nothing
      /\ \A n \in 0..N : n < N => f[n + 1] = Add(f[n], q[n + 1], st)
  BY DEF Entries
<1>3. \A n \in 0..N : f[n] \in Entry /\ (f[n].shown <=> Named(q, st, n))
  BY ShownMeans
<1>4. \A i, j \in 1..N : q[i].from = q[j].from => i = j
  BY DEF Distinct
<1>. HIDE DEF N
<1>5. Cardinality(LedAlong(st)) \in Nat
  <2>1. LedAlong(st) \subseteq Consumer
    BY DEF LedAlong
  <2>2. IsFiniteSet(LedAlong(st))
    BY <2>1, ConsumerAssumption, FS_Subset
  <2>. QED  BY <2>2, FS_CardinalityType
<1>6. 0 \in T
  <2>1. Nothing.count = 0 /\ Nothing.total = 0
    BY DEF Nothing
  <2>. QED  BY <1>1, <1>2, <2>1
<1>7. ASSUME NEW n \in 0..N, n \in T, n < N PROVE n + 1 \in T
  <2>. DEFINE r == q[n + 1]
  <2>1. n + 1 \in 1..N /\ r \in Report /\ r.leaders = Truth(r.from) /\ f[n] \in Entry
    BY <1>1, <1>3, <1>7
  <2>9. /\ st \in Group /\ r.from \in Server /\ r.from # None
        /\ leader[st] \in hosts[st] \cup {None}
    BY <2>1, NoneAssumption DEF Group, Report, TypeInv
  <2>10. /\ DOMAIN r.leaders = Hosted(r.from)
         /\ \A g \in Hosted(r.from) : r.leaders[g] = leader[g]
    BY <2>1 DEF Truth
  <2>11. st \in DOMAIN r.leaders /\ r.leaders[st] = r.from <=> leader[st] = r.from
    BY <2>9, <2>10 DEF Hosted
  <2>2. /\ f[n + 1] = Add(f[n], r, st)
        /\ leader[st] # r.from =>
             /\ f[n + 1].count = f[n].count /\ f[n + 1].total = f[n].total
             /\ f[n].shown => f[n + 1].by = f[n].by
        /\ leader[st] = r.from =>
             /\ f[n + 1].count = f[n].count + 1 /\ f[n + 1].by = r.from
             /\ f[n + 1].total = f[n].total + Cardinality(Led(r, st))
    <3>1. f[n + 1] = Add(f[n], r, st)
      BY <1>2, <1>7
    <3>2. PICK before \in Entry, s \in Report : before = f[n] /\ s = r
      BY <2>1
    <3>3. f[n + 1] = Add(before, s, st)
      BY <3>1, <3>2
    <3>4. /\ ~(st \in DOMAIN s.leaders /\ s.leaders[st] = s.from) =>
               /\ Add(before, s, st).count = before.count
               /\ Add(before, s, st).total = before.total
               /\ before.shown => Add(before, s, st).by = before.by
          /\ st \in DOMAIN s.leaders /\ s.leaders[st] = s.from =>
               /\ Add(before, s, st).count = before.count + 1
               /\ Add(before, s, st).by = s.from
               /\ Add(before, s, st).total = before.total + Cardinality(Led(s, st))
      BY AddMeans
    <3>5. st \in DOMAIN s.leaders /\ s.leaders[st] = s.from <=> leader[st] = s.from
      BY <2>11, <3>2
    <3>. QED  BY <3>1, <3>2, <3>3, <3>4, <3>5
  <2>3. \A i \in 1..(n + 1) : i \in 1..n \/ i = n + 1
    OBVIOUS
  <2>4. n + 1 \in 1..(n + 1) /\ 1..n \subseteq 1..(n + 1) /\ 1..n \subseteq 1..N
    BY <1>1
  <2>5. CASE leader[st] = r.from
    <3>1. ~Found(n)
      BY <1>4, <2>1, <2>4, <2>5
    <3>2. Found(n + 1)
      BY <2>4, <2>5
    <3>3. Led(r, st) = LedAlong(st)
      <4>1. ASSUME NEW k \in Consumer
            PROVE  <<st, k>> \in DOMAIN r.leaders <=> leader[st] \in hosts[<<st, k>>]
        <5>1. <<st, k>> \in Group
          BY DEF Group
        <5>. QED  BY <2>5, <2>10, <5>1 DEF Hosted
      <4>2. ASSUME NEW k \in Consumer, <<st, k>> \in DOMAIN r.leaders
            PROVE  r.leaders[<<st, k>>] = leader[<<st, k>>]
        BY <2>10, <4>2
      <4>. QED  BY <2>5, <4>1, <4>2 DEF Led, LedAlong
    <3>4. f[n].count = 0 /\ f[n].total = 0
      BY <1>7, <3>1
    <3>5. f[n + 1].count = 0 + 1 /\ f[n + 1].by = leader[st]
          /\ f[n + 1].total = 0 + Cardinality(LedAlong(st))
      BY <2>2, <2>5, <3>3, <3>4
    <3>. QED  BY <1>1, <1>5, <1>7, <3>2, <3>5
  <2>6. CASE leader[st] # r.from
    <3>1. Found(n + 1) <=> Found(n)
      BY <2>3, <2>4, <2>6
    <3>2. Found(n) => f[n].shown
      <4>1. SUFFICES ASSUME Found(n) PROVE Named(q, st, n)
        BY <1>3, <1>7
      <4>2. PICK i \in 1..n : q[i].from = leader[st]
        BY <4>1
      <4>3. q[i] \in Report /\ q[i].leaders = Truth(q[i].from) /\ q[i].from # None
        BY <1>1, <2>4, <4>2, NoneAssumption DEF Report
      <4>4. leader[st] \in hosts[st]
        BY <2>9, <4>2, <4>3
      <4>5. st \in DOMAIN q[i].leaders
        BY <2>9, <4>2, <4>3, <4>4 DEF Truth, Hosted
      <4>. QED  BY <4>5 DEF Named
    <3>3. /\ f[n + 1].count = f[n].count /\ f[n + 1].total = f[n].total
          /\ f[n].shown => f[n + 1].by = f[n].by
      BY <2>2, <2>6
    <3>. QED  BY <1>1, <1>7, <3>1, <3>2, <3>3
  <2>. QED  BY <2>5, <2>6
<1>. HIDE DEF T
<1>8. \A n \in 0..N : n \in T
  BY <1>1, <1>6, <1>7, Induct
<1>9. N \in 0..N
  BY <1>1
<1>. QED  BY <1>8, <1>9 DEF T, N

\* api.ts:112-114: a stream is shown if a server that hosts it replied, and counted once
\* with its leader's report, however many servers, reports and calls there are and
\* whoever hosts what.
THEOREM CountedOnce == Spec => []StreamCountedOnce
<1>1. IInv => StreamCountedOnce
  <2>. SUFFICES ASSUME IInv, NEW c \in Call, NEW st \in Stream, pc[c] = "done"
                PROVE  /\ Shown(c)[st].shown <=> Answered(c) \cap hosts[st] # {}
                       /\ steady[c] =>
                            /\ Shown(c)[st].count = (IF leader[st] \in Answered(c) THEN 1 ELSE 0)
                            /\ leader[st] \in Answered(c) =>
                                 /\ Shown(c)[st].by = leader[st]
                                 /\ Shown(c)[st].total =
                                      Cardinality({k \in Consumer :
                                                     /\ leader[st] \in hosts[<<st, k>>]
                                                     /\ leader[<<st, k>>] \in {None, leader[st]}})
    BY DEF StreamCountedOnce
  <2>. DEFINE q == replies[c]
  <2>1. q \in Seq(Report) /\ Distinct(q) /\ TypeInv /\ Honest(q) /\ (steady[c] => Told(q))
    BY DEF IInv, TypeInv, FromInv, HostInv, SteadyInv
  <2>2. PICK f : Entries(f, Len(q), q, st) /\ aggregateOverview(q)[st] = f[Len(q)]
    BY <2>1, AggregateMeans
  <2>3. Shown(c)[st] = f[Len(q)]
    BY <2>2 DEF Shown
  <2>4. Len(q) \in Nat /\ DOMAIN q = 1..Len(q)
    BY <2>1
  <2>5. Answered(c) \cap hosts[st] # {} <=> Named(q, st, Len(q))
    <3>1. ASSUME NEW i \in 1..Len(q)
          PROVE  st \in DOMAIN q[i].leaders <=> q[i].from \in hosts[st]
      <4>1. DOMAIN q[i].leaders = Hosted(q[i].from) /\ st \in Group
        BY <2>1 DEF Honest, Group
      <4>. QED  BY <4>1 DEF Hosted
    <3>. QED  BY <2>4, <3>1 DEF Answered, Named
  <2>6. leader[st] \in Answered(c) <=> \E i \in 1..Len(q) : q[i].from = leader[st]
    BY <2>4 DEF Answered
  <2>. HIDE DEF q
  <2>7. f[Len(q)].shown <=> Named(q, st, Len(q))
    BY <2>1, <2>2, <2>4, ShownMeans
  <2>8. ASSUME steady[c]
        PROVE  /\ leader[st] \in Answered(c) =>
                    /\ f[Len(q)].count = 1 /\ f[Len(q)].by = leader[st]
                    /\ f[Len(q)].total = Cardinality(LedAlong(st))
               /\ leader[st] \notin Answered(c) => f[Len(q)].count = 0
    BY <2>1, <2>2, <2>6, <2>8, CountMeans
  <2>. QED  BY <2>3, <2>5, <2>7, <2>8 DEF LedAlong
<1>. QED  BY <1>1, Invariance, PTL

=============================================================================
