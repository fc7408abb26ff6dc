------------------------- MODULE OverviewCacheProofs -------------------------
(***************************************************************************)
(* The safety properties of OverviewCache, proved for any set of clusters, *)
(* any set of handlers, any channel capacity and any number of ticks.      *)
(***************************************************************************)
EXTENDS OverviewCache, TLAPS

\* Every action, one disjunct each: the case split that every proof below uses.
LEMMA NextCases ==
  ASSUME Next
  PROVE  \/ \E c \in Cluster :
              \/ Fetch(c) \/ Store(c) \/ CopySubs(c) \/ EndTick(c)
              \/ NextTick(c) \/ Stop(c)
              \/ \E h \in Handler : Send(c, h) \/ SendPanics(c, h)
         \/ \E h \in Handler :
              \/ Accept(h) \/ Register(h) \/ ReadLatest(h) \/ Greet(h)
              \/ GreetPanics(h) \/ Receive(h) \/ Heartbeat(h) \/ Written(h)
              \/ WriteFails(h) \/ SeeClosed(h) \/ SeeGone(h)
              \/ Unsubscribe(h) \/ Disconnect(h)
         \/ MainStep
BY DEF Next, RefresherStep, HandlerStep, ClientStep

-----------------------------------------------------------------------------
(* Type correctness. *)

LEMMA TypeInit == Init => TypeOK
BY CapAssumption DEF Init, TypeOK, Phase, RefresherPC, HandlerPC, ChannelsBounded, Unread

LEMMA ChannelsKept == ChannelsBounded /\ UNCHANGED <<sent, read>> => ChannelsBounded'
BY DEF ChannelsBounded, Unread

\* A channel takes one snapshot more when it is not full, and stays in its bound.
LEMMA PushTyped ==
  ASSUME TypeOK, NEW h \in Handler, NEW n \in Nat,
         sent' = [sent EXCEPT ![h] = IF Full(h) THEN sent[h] ELSE Append(sent[h], n)],
         UNCHANGED read
  PROVE  sent' \in [Handler -> Seq(Nat)] /\ ChannelsBounded'
<1>1. sent' \in [Handler -> Seq(Nat)]
  BY DEF TypeOK
<1>2. ASSUME NEW g \in Handler
      PROVE  read'[g] <= Len(sent'[g]) /\ Unread(g)' <= Cap
  <2>1. CASE sent'[g] = sent[g]
    BY <2>1 DEF TypeOK, ChannelsBounded, Unread
  <2>2. CASE g = h /\ ~Full(h) /\ sent'[h] = Append(sent[h], n)
    <3>1. Len(sent'[h]) = Len(sent[h]) + 1 /\ Len(sent[h]) \in Nat /\ read[h] \in Nat
      BY <2>2 DEF TypeOK
    <3>2. read[h] <= Len(sent[h]) /\ Len(sent[h]) - read[h] < Cap
      BY <2>2, <3>1, CapAssumption DEF Full, Unread, TypeOK, ChannelsBounded
    <3>3. QED
      BY <2>2, <3>1, <3>2, CapAssumption DEF Unread
  <2>3. QED
    BY <2>1, <2>2 DEF TypeOK
<1>3. QED
  BY <1>1, <1>2 DEF ChannelsBounded

LEMMA TypeNext == TypeOK /\ [Next]_vars => TypeOK'
<1> SUFFICES ASSUME TypeOK, [Next]_vars PROVE TypeOK'
  OBVIOUS
<1> USE ChannelsKept DEF RefresherGoto, HandlerGoto, refreshVars, handlerVars
<1>1. CASE UNCHANGED vars
  BY <1>1 DEF TypeOK, vars
<1>2. ASSUME NEW c \in Cluster,
             \/ Fetch(c) \/ Store(c) \/ CopySubs(c) \/ EndTick(c)
             \/ NextTick(c) \/ Stop(c)
      PROVE  TypeOK'
  <2>1. CASE Fetch(c)
    BY <2>1 DEF TypeOK, RefresherPC, Fetch
  <2>2. CASE Store(c)
    BY <2>2 DEF TypeOK, RefresherPC, Store
  <2>3. CASE CopySubs(c)
    BY <2>3 DEF TypeOK, RefresherPC, CopySubs
  <2>4. CASE EndTick(c)
    BY <2>4 DEF TypeOK, RefresherPC, EndTick
  <2>5. CASE NextTick(c)
    BY <2>5 DEF TypeOK, RefresherPC, NextTick
  <2>6. CASE Stop(c)
    BY <2>6 DEF TypeOK, RefresherPC, Stop
  <2>7. QED
    BY <1>2, <2>1, <2>2, <2>3, <2>4, <2>5, <2>6
<1>3. ASSUME NEW c \in Cluster, NEW h \in Handler, Send(c, h)
      PROVE  TypeOK'
  <2>1. tick[c] \in Nat
    BY DEF TypeOK
  <2>2. sent' \in [Handler -> Seq(Nat)] /\ ChannelsBounded'
    BY <1>3, <2>1, PushTyped DEF Send, SendWith
  <2>3. QED
    BY <1>3, <2>2 DEF TypeOK, Send, SendWith
<1>4. ASSUME NEW c \in Cluster, NEW h \in Handler, SendPanics(c, h)
      PROVE  TypeOK'
  BY <1>4 DEF TypeOK, Phase, SendPanics
<1>5. ASSUME NEW h \in Handler, Greet(h)
      PROVE  TypeOK'
  <2>1. sent' = [sent EXCEPT ![h] = IF Full(h) THEN sent[h] ELSE Append(sent[h], first[h])]
    BY <1>5 DEF Greet, TypeOK
  <2>2. sent' \in [Handler -> Seq(Nat)] /\ ChannelsBounded'
    BY <1>5, <2>1, PushTyped DEF Greet, TypeOK
  <2>3. QED
    BY <1>5, <2>2 DEF TypeOK, HandlerPC, Greet
<1>6. ASSUME NEW h \in Handler, Receive(h)
      PROVE  TypeOK'
  <2>1. ChannelsBounded'
    BY <1>6, CapAssumption DEF TypeOK, ChannelsBounded, Unread, Receive
  <2>2. QED
    BY <1>6, <2>1 DEF TypeOK, HandlerPC, Receive
<1>7. ASSUME NEW h \in Handler,
             \/ Accept(h) \/ Register(h) \/ ReadLatest(h) \/ GreetPanics(h)
             \/ Heartbeat(h) \/ Written(h) \/ WriteFails(h) \/ SeeClosed(h)
             \/ SeeGone(h) \/ Unsubscribe(h) \/ Disconnect(h)
      PROVE  TypeOK'
  <2>1. CASE Register(h)
    BY <2>1 DEF TypeOK, HandlerPC, Register
  <2>2. CASE ReadLatest(h)
    BY <2>2 DEF TypeOK, HandlerPC, ReadLatest
  <2>3. CASE Unsubscribe(h)
    BY <2>3 DEF TypeOK, HandlerPC, Unsubscribe
  <2>4. CASE Disconnect(h)
    BY <2>4 DEF TypeOK, HandlerPC, Disconnect
  <2>5. CASE Accept(h) \/ GreetPanics(h) \/ Heartbeat(h) \/ Written(h)
             \/ WriteFails(h) \/ SeeClosed(h) \/ SeeGone(h)
    BY <2>5 DEF TypeOK, HandlerPC, Accept, GreetPanics, Heartbeat, Written, WriteFails,
       SeeClosed, SeeGone
  <2>6. QED
    BY <1>7, <2>1, <2>2, <2>3, <2>4, <2>5
<1>8. CASE MainStep
  BY <1>8 DEF TypeOK, Phase, MainStep, PhaseGoto, Cancel, BeginShutdown,
     ShutdownComplete, ShutdownTimeout
<1>9. QED
  BY <1>1, <1>2, <1>3, <1>4, <1>5, <1>6, <1>7, <1>8, NextCases

\* The state keeps its types, and no subscriber channel ever buffers more than
\* Cap snapshots, whatever the interleaving of refreshers and handlers.
THEOREM TypeCorrect == Spec => []TypeOK
BY TypeInit, TypeNext, PTL DEF Spec

-----------------------------------------------------------------------------
(* The inductive invariant, one lemma per conjunct. *)

LEMMA InvInit == Init => IInv
<1> SUFFICES ASSUME Init PROVE IInv
  OBVIOUS
<1>1. TickInv /\ PendingInv /\ HandlerInv /\ OpenIffRegistered
  BY DEF Init, TickInv, PendingInv, HandlerInv, Ended, OpenIffRegistered
<1>2. CacheNotBehindStream /\ PanicNeedsDisconnect /\ JoinInv
  BY DEF Init, CacheNotBehindStream, PanicNeedsDisconnect, JoinInv, Served
<1>3. OrderInv
  <2>1. ASSUME NEW h \in Handler
        PROVE  sent[h] = <<>> /\ 0 \in 0..Len(sent[h]) /\ DOMAIN sent[h] = {}
    BY DEF Init
  <2>2. QED
    BY <2>1 DEF OrderInv, OrderedBut
<1>4. QED
  BY <1>1, <1>2, <1>3 DEF IInv

LEMMA TickInvNext == TypeOK /\ IInv /\ [Next]_vars => TickInv'
<1> SUFFICES ASSUME TypeOK, IInv, [Next]_vars PROVE TickInv'
  OBVIOUS
<1> USE DEF IInv, TickInv, RefresherGoto, refreshVars
<1>1. CASE UNCHANGED <<rpc, tick, entries>>
  BY <1>1
<1>2. ASSUME NEW c \in Cluster,
             \/ Fetch(c) \/ Store(c) \/ CopySubs(c) \/ EndTick(c)
             \/ NextTick(c) \/ Stop(c)
      PROVE  TickInv'
  BY <1>2 DEF TypeOK, Fetch, Store, CopySubs, EndTick, NextTick, Stop
<1>3. ASSUME NEW c \in Cluster, NEW h \in Handler, Send(c, h) \/ SendPanics(c, h)
      PROVE  UNCHANGED <<rpc, tick, entries>>
  BY <1>3 DEF Send, SendWith, SendPanics
<1>4. ASSUME NEW h \in Handler,
             \/ Accept(h) \/ Register(h) \/ ReadLatest(h) \/ Greet(h)
             \/ GreetPanics(h) \/ Receive(h) \/ Heartbeat(h) \/ Written(h)
             \/ WriteFails(h) \/ SeeClosed(h) \/ SeeGone(h)
             \/ Unsubscribe(h) \/ Disconnect(h)
      PROVE  UNCHANGED <<rpc, tick, entries>>
  BY <1>4 DEF Accept, Register, ReadLatest, Greet, GreetPanics, Receive, Heartbeat,
     Written, WriteFails, SeeClosed, SeeGone, Unsubscribe, Disconnect
<1>5. CASE MainStep
  BY <1>5 DEF MainStep, PhaseGoto, Cancel, BeginShutdown, ShutdownComplete, ShutdownTimeout
<1>6. CASE UNCHANGED vars
  BY <1>6 DEF vars
<1>7. QED
  BY <1>1, <1>2, <1>3, <1>4, <1>5, <1>6, NextCases

LEMMA RegistrationNext == TypeOK /\ IInv /\ [Next]_vars => OpenIffRegistered'
<1> SUFFICES ASSUME TypeOK, IInv, [Next]_vars PROVE OpenIffRegistered'
  OBVIOUS
<1> USE DEF IInv, OpenIffRegistered, RefresherGoto, HandlerGoto, refreshVars, handlerVars
<1>1. CASE UNCHANGED <<subs, at, closed, hpc>>
  BY <1>1
<1>2. ASSUME NEW c \in Cluster,
             \/ Fetch(c) \/ Store(c) \/ CopySubs(c) \/ EndTick(c) \/ NextTick(c)
             \/ \E h \in Handler : Send(c, h) \/ SendPanics(c, h)
      PROVE  UNCHANGED <<subs, at, closed, hpc>>
  BY <1>2 DEF Fetch, Store, CopySubs, EndTick, NextTick, Send, SendWith, SendPanics
<1>3. ASSUME NEW c \in Cluster, Stop(c)
      PROVE  OpenIffRegistered'
  <2> SUFFICES ASSUME NEW h \in Handler, NEW d \in Cluster
               PROVE  h \in subs'[d] <=> /\ at'[h] = d
                                        /\ ~closed'[h]
                                        /\ hpc'[h] \in {"registered", "greeting", "serving",
                                                       "writing", "leaving"}
    OBVIOUS
  <2>1. UNCHANGED <<at, hpc>>
    BY <1>3 DEF Stop
  <2>2. closed'[h] <=> closed[h] \/ h \in subs[c]
    BY <1>3 DEF TypeOK, Stop
  <2>3. subs'[d] = IF d = c THEN {} ELSE subs[d]
    BY <1>3 DEF TypeOK, Stop
  <2>4. QED
    BY <2>1, <2>2, <2>3
<1>4. ASSUME NEW h \in Handler,
             \/ Accept(h) \/ Register(h) \/ ReadLatest(h) \/ Greet(h)
             \/ GreetPanics(h) \/ Receive(h) \/ Heartbeat(h) \/ Written(h)
             \/ WriteFails(h) \/ SeeClosed(h) \/ SeeGone(h)
             \/ Unsubscribe(h) \/ Disconnect(h)
      PROVE  OpenIffRegistered'
  <2>1. CASE Register(h)
    BY <2>1 DEF TypeOK, HandlerInv, Register
  <2>2. CASE Unsubscribe(h)
    BY <2>2 DEF TypeOK, Unsubscribe
  <2>3. CASE Accept(h) \/ ReadLatest(h) \/ Greet(h) \/ GreetPanics(h)
    BY <2>3 DEF TypeOK, HandlerInv, Accept, ReadLatest, Greet, GreetPanics
  <2>4. CASE Receive(h) \/ Heartbeat(h) \/ Written(h) \/ WriteFails(h)
             \/ SeeClosed(h) \/ SeeGone(h)
    BY <2>4 DEF TypeOK, Receive, Heartbeat, Written, WriteFails, SeeClosed, SeeGone
  <2>5. CASE Disconnect(h)
    BY <2>5 DEF Disconnect
  <2>6. QED
    BY <1>4, <2>1, <2>2, <2>3, <2>4, <2>5
<1>5. CASE MainStep
  BY <1>5 DEF MainStep, PhaseGoto, Cancel, BeginShutdown, ShutdownComplete, ShutdownTimeout
<1>6. CASE UNCHANGED vars
  BY <1>6 DEF vars
<1>7. QED
  BY <1>1, <1>2, <1>3, <1>4, <1>5, <1>6, NextCases

LEMMA HandlerInvNext == TypeOK /\ IInv /\ [Next]_vars => HandlerInv'
<1> SUFFICES ASSUME TypeOK, IInv, [Next]_vars PROVE HandlerInv'
  OBVIOUS
<1> USE DEF IInv, HandlerInv, Ended, RefresherGoto, HandlerGoto, refreshVars, handlerVars
<1>1. ASSUME NEW c \in Cluster,
             \/ Fetch(c) \/ CopySubs(c) \/ EndTick(c) \/ NextTick(c)
             \/ \E h \in Handler : Send(c, h) \/ SendPanics(c, h)
      PROVE  HandlerInv'
  <2>1. UNCHANGED <<hpc, closed, gone, first, entries, at>>
    BY <1>1 DEF Fetch, CopySubs, EndTick, NextTick, Send, SendWith, SendPanics
  <2>2. QED
    BY <2>1
<1>2. ASSUME NEW c \in Cluster, Store(c)
      PROVE  HandlerInv'
  <2>1. UNCHANGED <<hpc, closed, gone, first, at>>
    BY <1>2 DEF Store
  <2>2. ASSUME NEW d \in Cluster
        PROVE  entries[d] <= entries'[d] /\ entries[d] \in Nat /\ entries'[d] \in Nat
    BY <1>2 DEF TypeOK, TickInv, Store
  <2>3. ASSUME NEW h \in Handler
        PROVE  first[h] <= entries'[at[h]]
    BY <2>2 DEF TypeOK
  <2>4. QED
    BY <2>1, <2>3
<1>3. ASSUME NEW c \in Cluster, Stop(c)
      PROVE  HandlerInv'
  <2>1. UNCHANGED <<hpc, gone, first, entries, at>>
    BY <1>3 DEF Stop
  <2>2. ASSUME NEW h \in Handler
        PROVE  /\ closed[h] => closed'[h]
               /\ closed'[h] => closed[h] \/ h \in subs[c]
    BY <1>3 DEF TypeOK, Stop
  <2>3. QED
    BY <2>1, <2>2 DEF OpenIffRegistered
<1>4. ASSUME NEW h \in Handler, ReadLatest(h)
      PROVE  HandlerInv'
  BY <1>4 DEF TypeOK, ReadLatest
<1>5. ASSUME NEW h \in Handler, Unsubscribe(h)
      PROVE  HandlerInv'
  BY <1>5 DEF TypeOK, OpenIffRegistered, Unsubscribe
<1>6. ASSUME NEW h \in Handler,
             \/ Accept(h) \/ Register(h) \/ Greet(h) \/ GreetPanics(h)
             \/ Receive(h) \/ Heartbeat(h) \/ Written(h)
             \/ WriteFails(h) \/ SeeClosed(h) \/ SeeGone(h) \/ Disconnect(h)
      PROVE  HandlerInv'
  BY <1>6 DEF TypeOK, Accept, Register, Greet, GreetPanics, Receive, Heartbeat,
     Written, WriteFails, SeeClosed, SeeGone, Disconnect
<1>7. CASE MainStep
  BY <1>7 DEF MainStep, PhaseGoto, Cancel, BeginShutdown, ShutdownComplete, ShutdownTimeout
<1>8. CASE UNCHANGED vars
  BY <1>8 DEF vars
<1>9. QED
  BY <1>1, <1>2, <1>3, <1>4, <1>5, <1>6, <1>7, <1>8, NextCases

LEMMA PendingInvNext == TypeOK /\ IInv /\ [Next]_vars => PendingInv'
<1> SUFFICES ASSUME TypeOK, IInv, [Next]_vars PROVE PendingInv'
  OBVIOUS
<1> USE DEF RefresherGoto, HandlerGoto, refreshVars, handlerVars
<1>a. PendingInv /\ HandlerInv /\ OpenIffRegistered
  BY DEF IInv
<1>b. ASSUME NEW d \in Cluster, rpc[d] # "send"
      PROVE  pending[d] = {}
  BY <1>a, <1>b DEF PendingInv
<1>1. ASSUME NEW c \in Cluster,
             \/ Fetch(c) \/ Store(c) \/ EndTick(c) \/ NextTick(c)
      PROVE  PendingInv'
  <2>1. UNCHANGED <<pending, hpc, at, closed, gone>>
    BY <1>1 DEF Fetch, Store, EndTick, NextTick
  <2>2. ASSUME NEW d \in Cluster, rpc'[d] # "send"
        PROVE  pending[d] = {}
    <3>1. CASE EndTick(c)
      BY <1>b, <2>2, <3>1 DEF TypeOK, EndTick
    <3>2. CASE Fetch(c) \/ Store(c) \/ NextTick(c)
      BY <1>b, <2>2, <3>2 DEF TypeOK, Fetch, Store, NextTick
    <3>3. QED
      BY <1>1, <3>1, <3>2
  <2>3. QED
    BY <1>a, <2>1, <2>2 DEF PendingInv
<1>2. ASSUME NEW c \in Cluster, CopySubs(c)
      PROVE  PendingInv'
  <2>1. UNCHANGED <<hpc, at, closed, gone>>
    BY <1>2 DEF CopySubs
  <2>2. ASSUME NEW d \in Cluster
        PROVE  /\ pending'[d] = IF d = c THEN subs[c] ELSE pending[d]
               /\ rpc'[d] = IF d = c THEN "send" ELSE rpc[d]
    BY <1>2 DEF TypeOK, CopySubs
  <2>3. ASSUME NEW h \in subs[c]
        PROVE  at[h] = c /\ ~closed[h] /\ hpc[h] \notin {"idle", "accepted"}
    BY <1>a DEF TypeOK, OpenIffRegistered
  <2>4. QED
    BY <1>a, <2>1, <2>2, <2>3 DEF PendingInv
<1>3. ASSUME NEW c \in Cluster, Stop(c)
      PROVE  PendingInv'
  <2>1. UNCHANGED <<pending, hpc, at, gone>> /\ rpc[c] = "wait"
    BY <1>3 DEF Stop
  <2>2. ASSUME NEW d \in Cluster
        PROVE  rpc'[d] = IF d = c THEN "done" ELSE rpc[d]
    BY <1>3 DEF TypeOK, Stop
  <2>3. ASSUME NEW h \in Handler
        PROVE  closed'[h] => closed[h] \/ at[h] = c
    BY <1>a, <1>3 DEF TypeOK, OpenIffRegistered, Stop
  <2>4. pending[c] = {} /\ \A d \in Cluster : pending[d] \subseteq Handler
    BY <1>b, <2>1, <1>3 DEF TypeOK
  <2>5. ASSUME NEW d \in Cluster, NEW h \in pending[d]
        PROVE  closed'[h] => gone[h]
    BY <1>a, <2>3, <2>4 DEF PendingInv
  <2>6. QED
    BY <1>a, <1>b, <2>1, <2>2, <2>4, <2>5 DEF PendingInv
<1>4. ASSUME NEW c \in Cluster, NEW h \in Handler, Send(c, h) \/ SendPanics(c, h)
      PROVE  PendingInv'
  <2>1. UNCHANGED <<rpc, hpc, at, closed, gone>>
    BY <1>4 DEF Send, SendWith, SendPanics
  <2>2. ASSUME NEW d \in Cluster
        PROVE  pending'[d] \subseteq pending[d]
    <3>1. CASE Send(c, h)
      BY <3>1 DEF TypeOK, Send, SendWith
    <3>2. CASE SendPanics(c, h)
      BY <3>2 DEF SendPanics
    <3>3. QED
      BY <1>4, <3>1, <3>2
  <2>3. QED
    BY <1>a, <2>1, <2>2 DEF PendingInv
<1>5. ASSUME NEW h \in Handler, Unsubscribe(h)
      PROVE  PendingInv'
  BY <1>a, <1>5 DEF TypeOK, PendingInv, HandlerInv, Unsubscribe
<1>6. ASSUME NEW h \in Handler, Disconnect(h)
      PROVE  PendingInv'
  BY <1>a, <1>6 DEF TypeOK, PendingInv, Disconnect
<1>7. ASSUME NEW h \in Handler,
             \/ Accept(h) \/ Register(h) \/ ReadLatest(h) \/ Greet(h) \/ GreetPanics(h)
             \/ Receive(h) \/ Heartbeat(h) \/ Written(h)
             \/ WriteFails(h) \/ SeeClosed(h) \/ SeeGone(h)
      PROVE  PendingInv'
  BY <1>a, <1>7 DEF TypeOK, PendingInv, Accept, Register, ReadLatest, Greet, GreetPanics, Receive, Heartbeat,
     Written, WriteFails, SeeClosed, SeeGone
<1>8. CASE MainStep
  BY <1>a, <1>8 DEF PendingInv, MainStep, PhaseGoto, Cancel, BeginShutdown, ShutdownComplete, ShutdownTimeout
<1>9. CASE UNCHANGED vars
  BY <1>a, <1>9 DEF PendingInv, vars
<1>10. QED
  BY <1>1, <1>2, <1>3, <1>4, <1>5, <1>6, <1>7, <1>8, <1>9, NextCases

LEMMA PanicNext == TypeOK /\ IInv /\ [Next]_vars => PanicNeedsDisconnect'
<1> SUFFICES ASSUME TypeOK, IInv, [Next]_vars, phase' = "panicked"
             PROVE  \E h \in Handler : gone'[h]
  BY DEF PanicNeedsDisconnect
<1>1. ASSUME phase = "panicked", UNCHANGED gone
      PROVE  \E h \in Handler : gone'[h]
  BY <1>1 DEF IInv, PanicNeedsDisconnect
<1>2. ASSUME NEW c \in Cluster, NEW h \in Handler, SendPanics(c, h)
      PROVE  \E g \in Handler : gone'[g]
  BY <1>2 DEF IInv, PendingInv, SendPanics, handlerVars
<1>3. ASSUME Up, UNCHANGED phase
      PROVE  FALSE
  BY <1>3 DEF Up
<1>4. ASSUME NEW c \in Cluster,
             \/ Fetch(c) \/ Store(c) \/ CopySubs(c) \/ EndTick(c) \/ NextTick(c)
             \/ Stop(c) \/ \E h \in Handler : Send(c, h)
      PROVE  FALSE
  BY <1>3, <1>4 DEF Fetch, Store, CopySubs, EndTick, NextTick, Stop, Send, SendWith,
     RefresherGoto
<1>5. ASSUME NEW h \in Handler,
             \/ Accept(h) \/ Register(h) \/ ReadLatest(h) \/ Greet(h)
             \/ GreetPanics(h) \/ Receive(h) \/ Heartbeat(h) \/ Written(h)
             \/ WriteFails(h) \/ SeeClosed(h) \/ SeeGone(h)
             \/ Unsubscribe(h) \/ Disconnect(h)
      PROVE  FALSE
  BY <1>3, <1>5 DEF Accept, Register, ReadLatest, Greet, GreetPanics, Receive, Heartbeat,
     Written, WriteFails, SeeClosed, SeeGone, Unsubscribe, Disconnect, HandlerGoto
<1>6. CASE MainStep
  BY <1>6 DEF MainStep, PhaseGoto, Cancel, BeginShutdown, ShutdownComplete, ShutdownTimeout
<1>7. CASE UNCHANGED vars
  BY <1>1, <1>7 DEF vars
<1>8. QED
  BY <1>2, <1>4, <1>5, <1>6, <1>7, NextCases

-----------------------------------------------------------------------------
(* The streams. *)

LEMMA AppendFacts ==
  ASSUME NEW s \in Seq(Nat), NEW n \in Nat
  PROVE  /\ Append(s, n) \in Seq(Nat)
         /\ Len(Append(s, n)) = Len(s) + 1
         /\ DOMAIN s = 1..Len(s)
         /\ DOMAIN Append(s, n) = 1..(Len(s) + 1)
         /\ \A i \in 1..Len(s) : Append(s, n)[i] = s[i]
         /\ Append(s, n)[Len(s) + 1] = n
OBVIOUS

\* The two ways a step can leave one stream: as it was, or with one snapshot more.
Pushed(h, n) == /\ sent[h] \in Seq(Nat)
                /\ sent'[h] = Append(sent[h], n)

LEMMA StreamStep ==
  ASSUME TypeOK, [Next]_vars, NEW h \in Handler
  PROVE  /\ sent[h] \in Seq(Nat)
         /\ at'[h] = at[h]
         /\ \/ sent'[h] = sent[h]
            \/ \E c \in Cluster : Pushed(h, tick[c]) /\ Send(c, h)
            \/ Pushed(h, first[h]) /\ Greet(h)
<1> USE DEF RefresherGoto, HandlerGoto, refreshVars, handlerVars
<1>1. sent[h] \in Seq(Nat)
  BY DEF TypeOK
<1>2. CASE UNCHANGED <<sent, at>>
  BY <1>1, <1>2
<1>3. ASSUME NEW c \in Cluster, NEW g \in Handler, Send(c, g)
      PROVE  /\ at' = at
             /\ sent'[h] = sent[h] \/ (g = h /\ Pushed(h, tick[c]))
  BY <1>1, <1>3 DEF TypeOK, Send, SendWith, Pushed
<1>4. ASSUME NEW g \in Handler, Greet(g)
      PROVE  /\ at' = at
             /\ sent'[h] = sent[h] \/ (g = h /\ Pushed(h, first[h]))
  BY <1>1, <1>4 DEF TypeOK, Greet, Pushed
<1>5. ASSUME NEW c \in Cluster,
             \/ Fetch(c) \/ Store(c) \/ CopySubs(c) \/ EndTick(c) \/ NextTick(c)
             \/ Stop(c) \/ \E g \in Handler : SendPanics(c, g)
      PROVE  UNCHANGED <<sent, at>>
  BY <1>5 DEF Fetch, Store, CopySubs, EndTick, NextTick, Stop, SendPanics
<1>6. ASSUME NEW g \in Handler,
             \/ Accept(g) \/ Register(g) \/ ReadLatest(g)
             \/ GreetPanics(g) \/ Receive(g) \/ Heartbeat(g) \/ Written(g)
             \/ WriteFails(g) \/ SeeClosed(g) \/ SeeGone(g)
             \/ Unsubscribe(g) \/ Disconnect(g)
      PROVE  UNCHANGED <<sent, at>>
  BY <1>6 DEF Accept, Register, ReadLatest, GreetPanics, Receive, Heartbeat,
     Written, WriteFails, SeeClosed, SeeGone, Unsubscribe, Disconnect
<1>7. CASE MainStep
  BY <1>2, <1>7 DEF MainStep, PhaseGoto, Cancel, BeginShutdown, ShutdownComplete,
     ShutdownTimeout
<1>8. CASE UNCHANGED vars
  BY <1>2, <1>8 DEF vars
<1>9. QED
  BY <1>1, <1>2, <1>3, <1>4, <1>5, <1>6, <1>7, <1>8, NextCases

LEMMA CacheNotBehindNext == TypeOK /\ IInv /\ [Next]_vars => CacheNotBehindStream'
<1> SUFFICES ASSUME TypeOK, IInv, [Next]_vars, NEW h \in Handler, NEW i \in DOMAIN sent'[h]
             PROVE  sent'[h][i] <= entries'[at'[h]]
  BY DEF CacheNotBehindStream
<1>1. /\ at'[h] = at[h]
      /\ at[h] \in Cluster
      /\ sent[h] \in Seq(Nat)
      /\ first[h] \in Nat
      /\ \A c \in Cluster : tick[c] \in Nat /\ entries[c] \in Nat
  BY StreamStep DEF TypeOK
<1>2. entries[at[h]] <= entries'[at[h]] /\ entries'[at[h]] \in Nat
  <2>1. CASE UNCHANGED entries
    BY <1>1, <2>1
  <2>2. ASSUME NEW c \in Cluster, Store(c)
        PROVE  entries[at[h]] <= entries'[at[h]] /\ entries'[at[h]] \in Nat
    BY <1>1, <2>2 DEF TypeOK, IInv, TickInv, Store, RefresherGoto
  <2>3. CASE \A c \in Cluster : ~Store(c)
    <3>1. UNCHANGED entries
      BY <2>3, NextCases DEF Fetch, CopySubs, EndTick, NextTick, Stop, Send, SendWith,
         SendPanics, Accept, Register, ReadLatest, Greet, GreetPanics, Receive, Heartbeat,
         Written, WriteFails, SeeClosed, SeeGone, Unsubscribe, Disconnect, MainStep,
         PhaseGoto, Cancel, BeginShutdown, ShutdownComplete, ShutdownTimeout, vars
    <3>2. QED
      BY <2>1, <3>1
  <2>4. QED
    BY <2>2, <2>3
<1>3. \A j \in DOMAIN sent[h] : sent[h][j] <= entries[at[h]]
  BY DEF IInv, CacheNotBehindStream
<1>4. ASSUME NEW n \in Nat, Pushed(h, n), n <= entries[at[h]]
      PROVE  sent'[h][i] <= entries[at[h]]
  <2>1. i \in 1..Len(sent[h]) \/ i = Len(sent[h]) + 1
    BY <1>1, <1>4, AppendFacts DEF Pushed
  <2>2. QED
    BY <1>1, <1>3, <1>4, <2>1, AppendFacts DEF Pushed
<1>5. CASE sent'[h] = sent[h]
  <2>1. sent[h][i] \in Nat
    BY <1>1, <1>5
  <2>2. QED
    BY <1>1, <1>2, <1>3, <1>5, <2>1
<1>6. ASSUME NEW c \in Cluster, Pushed(h, tick[c]), Send(c, h)
      PROVE  tick[c] <= entries[at[h]]
  BY <1>1, <1>6 DEF IInv, PendingInv, TickInv, Send, SendWith
<1>7. first[h] <= entries[at[h]]
  BY DEF IInv, HandlerInv
<1>8. sent'[h][i] \in Nat
  <2>1. TypeOK'
    BY TypeNext
  <2>2. sent'[h] \in Seq(Nat)
    BY <2>1 DEF TypeOK
  <2>3. QED
    BY <2>2
<1>9. QED
  BY <1>1, <1>2, <1>4, <1>5, <1>6, <1>7, <1>8, StreamStep

\* A stream that a step leaves alone stays ordered when the step neither starts a
\* tick nor takes the handler back into Subscribe.
LEMMA OrderKept ==
  ASSUME TypeOK, NEW h \in Handler, \E k \in 0..Len(sent[h]) : OrderedBut(h, k),
         UNCHANGED <<sent[h], at[h], tick[at[h]]>>,
         AwaitsTick(h)' => AwaitsTick(h),
         InSubscribe(h)' => InSubscribe(h)
  PROVE  (\E k \in 0..Len(sent[h]) : OrderedBut(h, k))'
<1>1. PICK k \in 0..Len(sent[h]) : OrderedBut(h, k)
  OBVIOUS
<1>2. tick'[at'[h]] = tick[at[h]]
  OBVIOUS
<1>3. OrderedBut(h, k)'
  BY <1>1, <1>2 DEF OrderedBut
<1>4. QED
  BY <1>3

LEMMA OrderNext == TypeOK /\ IInv /\ [Next]_vars => OrderInv'
<1> SUFFICES ASSUME TypeOK, IInv, [Next]_vars, NEW h \in Handler
             PROVE  (\E k \in 0..Len(sent[h]) : OrderedBut(h, k))'
  BY DEF OrderInv
<1> DEFINE Goal == (\E k \in 0..Len(sent[h]) : OrderedBut(h, k))'
<1>1. PICK k \in 0..Len(sent[h]) : OrderedBut(h, k)
  BY DEF IInv, OrderInv
<1>2. /\ sent[h] \in Seq(Nat) /\ at[h] \in Cluster /\ first[h] \in Nat
      /\ \A c \in Cluster : tick[c] \in Nat
      /\ DOMAIN sent[h] = 1..Len(sent[h])
      /\ Len(sent[h]) \in Nat
  BY DEF TypeOK
<1>3. ASSUME NEW c \in Cluster, Fetch(c)
      PROVE  Goal
  <2>1. UNCHANGED <<sent, at, hpc>> /\ rpc[c] = "fetch" /\ rpc'[c] = "store"
    BY <1>3 DEF Fetch, RefresherGoto, handlerVars, TypeOK
  <2>2. CASE c = at[h]
    <3>1. tick'[c] = tick[c] + 1 /\ entries[c] = tick[c]
      BY <1>3, <2>1 DEF Fetch, TypeOK, IInv, TickInv
    <3>2. ASSUME NEW i \in DOMAIN sent[h]
          PROVE  sent[h][i] < tick'[at'[h]]
      BY <1>2, <2>1, <2>2, <3>1 DEF IInv, CacheNotBehindStream
    <3>3. OrderedBut(h, k)'
      BY <1>1, <2>1, <3>2 DEF OrderedBut, InSubscribe
    <3>4. QED
      BY <2>1, <3>3
  <2>3. CASE c # at[h]
    <3>1. UNCHANGED <<rpc[at[h]], tick[at[h]], pending[at[h]]>>
      BY <1>2, <1>3, <2>1, <2>3 DEF Fetch, RefresherGoto, TypeOK
    <3>2. QED
      BY <1>1, <2>1, <3>1, OrderKept DEF AwaitsTick, InSubscribe
  <2>4. QED
    BY <2>2, <2>3
<1>4. ASSUME NEW c \in Cluster,
             \/ Store(c) \/ CopySubs(c) \/ EndTick(c) \/ NextTick(c) \/ Stop(c)
      PROVE  Goal
  <2>1. UNCHANGED <<sent, at, hpc, tick>>
    BY <1>4 DEF Store, CopySubs, EndTick, NextTick, Stop, handlerVars
  <2>2. AwaitsTick(h)' => AwaitsTick(h)
    BY <1>2, <1>4, <2>1 DEF AwaitsTick, Store, CopySubs, EndTick, NextTick, Stop,
       RefresherGoto, TypeOK
  <2>3. QED
    BY <1>1, <2>1, <2>2, OrderKept DEF InSubscribe
<1>5. ASSUME NEW c \in Cluster, NEW g \in Handler, Send(c, g)
      PROVE  Goal
  <2>1. UNCHANGED <<at, hpc, tick, rpc>> /\ rpc[c] = "send" /\ g \in pending[c] /\ at[g] = c
    BY <1>5 DEF Send, SendWith, handlerVars, IInv, PendingInv
  <2>2. pending' = [pending EXCEPT ![c] = @ \ {g}]
    BY <1>5 DEF Send, SendWith
  <2>3. CASE sent'[h] = sent[h]
    <3>1. AwaitsTick(h)' => AwaitsTick(h)
      BY <1>2, <2>1, <2>2 DEF AwaitsTick, TypeOK
    <3>2. QED
      BY <1>1, <2>1, <2>3, <3>1, OrderKept DEF InSubscribe
  <2>4. CASE g = h /\ sent'[h] = Append(sent[h], tick[c])
    <3>1. AwaitsTick(h)
      BY <2>1, <2>4 DEF AwaitsTick
    <3>2. ~AwaitsTick(h)'
      BY <1>2, <2>1, <2>2, <2>4 DEF AwaitsTick, TypeOK
    <3>3. /\ DOMAIN sent'[h] = 1..(Len(sent[h]) + 1)
          /\ Len(sent'[h]) = Len(sent[h]) + 1
          /\ \A i \in 1..Len(sent[h]) : sent'[h][i] = sent[h][i]
          /\ sent'[h][Len(sent[h]) + 1] = tick[c]
      BY <1>2, <2>4, AppendFacts
    <3>4. ASSUME NEW i \in DOMAIN sent'[h] \ {k}, NEW j \in DOMAIN sent'[h] \ {k}, i < j
          PROVE  sent'[h][i] < sent'[h][j]
      <4>1. i \in DOMAIN sent[h] \ {k}
        BY <1>2, <3>3, <3>4
      <4>2. CASE j \in DOMAIN sent[h]
        BY <1>1, <1>2, <3>3, <3>4, <4>1, <4>2 DEF OrderedBut
      <4>3. CASE j = Len(sent[h]) + 1
        BY <1>1, <1>2, <2>1, <2>4, <3>1, <3>3, <4>1, <4>3 DEF OrderedBut
      <4>4. QED
        BY <1>2, <3>3, <4>2, <4>3
    <3>5. OrderedBut(h, k)'
      BY <1>1, <2>1, <3>2, <3>4 DEF OrderedBut, InSubscribe
    <3>6. QED
      BY <1>2, <3>3, <3>5
  <2>5. QED
    BY <1>5, <2>3, <2>4 DEF Send, SendWith, TypeOK
<1>6. ASSUME NEW g \in Handler, Greet(g)
      PROVE  Goal
  <2>1. UNCHANGED <<at, tick, rpc, pending>>
    BY <1>6 DEF Greet, refreshVars
  <2>2. hpc[g] = "greeting" /\ hpc' = [hpc EXCEPT ![g] = "serving"]
    BY <1>6 DEF Greet, HandlerGoto
  <2>3. CASE sent'[h] = sent[h]
    BY <1>1, <2>1, <2>2, <2>3, OrderKept DEF InSubscribe, AwaitsTick, TypeOK
  <2>4. CASE g = h /\ sent'[h] = Append(sent[h], first[h])
    <3>1. k = 0 /\ ~InSubscribe(h)'
      BY <1>1, <2>2, <2>4 DEF OrderedBut, InSubscribe, TypeOK
    <3>2. /\ DOMAIN sent'[h] = 1..(Len(sent[h]) + 1)
          /\ Len(sent'[h]) = Len(sent[h]) + 1
          /\ \A i \in 1..Len(sent[h]) : sent'[h][i] = sent[h][i]
      BY <1>2, <2>4, AppendFacts
    <3>3. PICK last \in Nat : last = Len(sent'[h])
      BY <1>2, <3>2
    <3>4. DOMAIN sent'[h] \ {last} = DOMAIN sent[h] \ {k}
      BY <1>2, <3>1, <3>2, <3>3
    <3>5. \A i \in DOMAIN sent[h] \ {k} : sent'[h][i] = sent[h][i]
      BY <1>2, <3>2
    <3>6. AwaitsTick(h)' => AwaitsTick(h)
      BY <2>1 DEF AwaitsTick
    <3>7. \A i, j \in DOMAIN sent'[h] \ {last} : i < j => sent'[h][i] < sent'[h][j]
      BY <1>1, <3>4, <3>5 DEF OrderedBut
    <3>8. AwaitsTick(h)' =>
            \A i \in DOMAIN sent'[h] \ {last} : sent'[h][i] < tick'[at'[h]]
      BY <1>1, <2>1, <3>4, <3>5, <3>6 DEF OrderedBut
    <3>9. OrderedBut(h, last)'
      BY <3>1, <3>7, <3>8 DEF OrderedBut
    <3>10. QED
      BY <1>2, <3>2, <3>3, <3>9
  <2>5. QED
    BY <1>6, <2>3, <2>4 DEF Greet, TypeOK
<1>7. ASSUME NEW g \in Handler,
             \/ Accept(g) \/ Register(g) \/ ReadLatest(g)
             \/ GreetPanics(g) \/ Receive(g) \/ Heartbeat(g) \/ Written(g)
             \/ WriteFails(g) \/ SeeClosed(g) \/ SeeGone(g)
             \/ Unsubscribe(g) \/ Disconnect(g)
      PROVE  Goal
  <2>1. UNCHANGED <<sent, at, tick, rpc, pending>>
    BY <1>7 DEF Accept, Register, ReadLatest, GreetPanics, Receive, Heartbeat,
       Written, WriteFails, SeeClosed, SeeGone, Unsubscribe, Disconnect, refreshVars
  <2>2. InSubscribe(h)' => InSubscribe(h)
    BY <1>7 DEF InSubscribe, TypeOK, HandlerGoto, Accept, Register, ReadLatest, GreetPanics,
       Receive, Heartbeat, Written, WriteFails, SeeClosed, SeeGone, Unsubscribe, Disconnect
  <2>3. QED
    BY <1>1, <2>1, <2>2, OrderKept DEF AwaitsTick
<1>8. CASE UNCHANGED <<sent, at, tick, rpc, pending, hpc>>
  BY <1>1, <1>8, OrderKept DEF AwaitsTick, InSubscribe
<1>9. CASE MainStep
  BY <1>8, <1>9 DEF MainStep, PhaseGoto, Cancel, BeginShutdown, ShutdownComplete,
     ShutdownTimeout, refreshVars, handlerVars
<1>10. CASE UNCHANGED vars
  BY <1>8, <1>10 DEF vars
<1>11. ASSUME NEW c \in Cluster, NEW g \in Handler, SendPanics(c, g)
       PROVE  Goal
  BY <1>8, <1>11 DEF SendPanics, refreshVars, handlerVars
<1>12. QED
  BY <1>3, <1>4, <1>5, <1>6, <1>7, <1>9, <1>10, <1>11, NextCases

\* A handler that a step neither serves nor takes out of Subscribe, and that was
\* served before, still has what it had.
LEMMA JoinKept ==
  ASSUME NEW h \in Handler, Served(h) => HasLatest(h),
         UNCHANGED <<sent[h], at[h], first[h], tick[at[h]]>>,
         Served(h)' => Served(h),
         Served(h)' /\ hpc[h] = "greeting" => hpc'[h] = "greeting"
  PROVE  (Served(h) => HasLatest(h))'
<1>1. tick'[at'[h]] = tick[at[h]]
  OBVIOUS
<1>2. QED
  BY <1>1 DEF HasLatest

LEMMA JoinNext == TypeOK /\ IInv /\ [Next]_vars => JoinInv'
<1> SUFFICES ASSUME TypeOK, IInv, [Next]_vars, NEW h \in Handler
             PROVE  (Served(h) => HasLatest(h))'
  BY DEF JoinInv
<1> DEFINE Goal == (Served(h) => HasLatest(h))'
<1>1. Served(h) => HasLatest(h)
  BY DEF IInv, JoinInv
<1>2. /\ sent[h] \in Seq(Nat) /\ at[h] \in Cluster /\ first[h] \in Nat
      /\ \A c \in Cluster : tick[c] \in Nat
      /\ DOMAIN sent[h] = 1..Len(sent[h])
      /\ Len(sent[h]) \in Nat /\ read[h] \in Nat
  BY DEF TypeOK
<1>3. Full(h) => Len(sent[h]) >= Cap
  BY <1>2, CapAssumption DEF Full, Unread
<1>4. ASSUME NEW c \in Cluster,
             \/ Fetch(c) \/ Store(c) \/ CopySubs(c) \/ EndTick(c)
             \/ NextTick(c) \/ Stop(c)
      PROVE  Goal
  <2>1. UNCHANGED <<sent, at, hpc, first>>
    BY <1>4 DEF Fetch, Store, CopySubs, EndTick, NextTick, Stop, handlerVars
  <2>2. closed[h] => closed'[h]
    BY <1>4 DEF Fetch, Store, CopySubs, EndTick, NextTick, Stop
  <2>3. CASE c # at[h]
    <3>1. rpc'[at[h]] = rpc[at[h]]
      BY <1>2, <1>4, <2>3 DEF TypeOK, RefresherGoto, Fetch, Store, CopySubs, EndTick,
         NextTick, Stop
    <3>2. tick'[at[h]] = tick[at[h]]
      BY <1>2, <1>4, <2>3 DEF TypeOK, Fetch, Store, CopySubs, EndTick, NextTick, Stop
    <3>3. pending'[at[h]] = pending[at[h]]
      BY <1>2, <1>4, <2>3 DEF TypeOK, Fetch, Store, CopySubs, EndTick, NextTick, Stop
    <3>4. QED
      BY <1>1, <2>1, <2>2, <3>1, <3>2, <3>3, JoinKept DEF Served
  <2>4. CASE c = at[h] /\ (Fetch(c) \/ Store(c) \/ NextTick(c) \/ Stop(c))
    BY <2>1, <2>4 DEF Served, TypeOK, RefresherGoto, Fetch, Store, NextTick, Stop
  <2>5. CASE c = at[h] /\ CopySubs(c)
    <3>1. rpc'[c] = "send" /\ pending'[c] = subs[c] /\ UNCHANGED closed
      BY <2>5 DEF TypeOK, RefresherGoto, CopySubs
    <3>2. QED
      BY <1>2, <2>1, <2>5, <3>1 DEF Served, IInv, OpenIffRegistered
  <2>6. CASE c = at[h] /\ EndTick(c)
    <3>1. UNCHANGED tick /\ rpc[c] = "send" /\ pending[c] = {}
      BY <2>6 DEF RefresherGoto, EndTick
    <3>2. QED
      BY <1>1, <2>1, <2>2, <2>6, <3>1, JoinKept DEF Served
  <2>7. QED
    BY <1>4, <2>3, <2>4, <2>5, <2>6
<1>5. ASSUME NEW c \in Cluster, NEW g \in Handler, Send(c, g)
      PROVE  Goal
  <2>1. /\ UNCHANGED <<at, hpc, first, tick, rpc, closed>>
        /\ g \in pending[c] /\ at[g] = c
        /\ pending' = [pending EXCEPT ![c] = @ \ {g}]
    BY <1>5 DEF Send, SendWith, handlerVars, IInv, PendingInv
  <2>2. CASE g # h
    <3>1. sent'[h] = sent[h]
      BY <1>5, <2>2 DEF Send, SendWith, TypeOK
    <3>2. h \in pending[at[h]] => h \in pending'[at[h]]
      BY <1>2, <2>1, <2>2 DEF TypeOK
    <3>3. QED
      BY <1>1, <2>1, <3>1, <3>2, JoinKept DEF Served
  <2>3. CASE g = h /\ Full(h)
    <3>1. sent'[h] = sent[h]
      BY <1>5, <2>3 DEF Send, SendWith, TypeOK
    <3>2. QED
      BY <1>3, <2>3, <3>1 DEF HasLatest
  <2>4. CASE g = h /\ ~Full(h)
    <3>1. sent'[h] = Append(sent[h], tick[c])
      BY <1>5, <2>4 DEF Send, SendWith, TypeOK
    <3>2. /\ Len(sent[h]) + 1 \in DOMAIN sent'[h]
          /\ sent'[h][Len(sent[h]) + 1] = tick[c]
      BY <1>2, <3>1, AppendFacts
    <3>3. QED
      BY <2>1, <2>4, <3>2 DEF HasLatest
  <2>5. QED
    BY <2>2, <2>3, <2>4
<1>6. ASSUME NEW g \in Handler, Greet(g)
      PROVE  Goal
  <2>1. /\ UNCHANGED <<at, first, tick, rpc, pending, closed>>
        /\ hpc[g] = "greeting" /\ hpc' = [hpc EXCEPT ![g] = "serving"] /\ ~closed[g]
    BY <1>6 DEF Greet, HandlerGoto, refreshVars
  <2>2. CASE g # h
    <3>1. sent'[h] = sent[h] /\ hpc'[h] = hpc[h]
      BY <1>6, <2>1, <2>2 DEF Greet, TypeOK
    <3>2. QED
      BY <1>1, <2>1, <3>1, JoinKept DEF Served
  <2>3. CASE g = h /\ Full(h)
    <3>1. sent'[h] = sent[h]
      BY <1>6, <2>3 DEF Greet
    <3>2. QED
      BY <1>3, <2>3, <3>1 DEF HasLatest
  <2>4. CASE g = h /\ ~Full(h)
    <3>1. sent'[h] = Append(sent[h], first[h])
      BY <1>6, <2>4 DEF Greet, TypeOK
    <3>2. /\ DOMAIN sent'[h] = 1..(Len(sent[h]) + 1)
          /\ Len(sent'[h]) = Len(sent[h]) + 1
          /\ \A i \in 1..Len(sent[h]) : sent'[h][i] = sent[h][i]
          /\ sent'[h][Len(sent[h]) + 1] = first[h]
      BY <1>2, <3>1, AppendFacts
    <3>3. Served(h)' => Served(h)
      BY <2>1, <2>4 DEF Served
    <3>4. CASE first[h] = tick[at[h]]
      <4>1. Len(sent[h]) + 1 \in DOMAIN sent'[h] /\ tick'[at'[h]] = tick[at[h]]
        BY <1>2, <2>1, <3>2
      <4>2. QED
        BY <3>2, <3>4, <4>1 DEF HasLatest
    <3>5. CASE \E i \in DOMAIN sent[h] : sent[h][i] = tick[at[h]]
      <4>1. PICK i \in DOMAIN sent[h] : sent[h][i] = tick[at[h]]
        BY <3>5
      <4>2. i \in DOMAIN sent'[h] /\ sent'[h][i] = tick'[at'[h]]
        BY <1>2, <2>1, <3>2, <4>1
      <4>3. QED
        BY <4>2 DEF HasLatest
    <3>6. CASE Len(sent[h]) >= Cap
      BY <1>2, <3>2, <3>6, CapAssumption DEF HasLatest
    <3>7. QED
      BY <1>1, <3>3, <3>4, <3>5, <3>6 DEF HasLatest
  <2>5. QED
    BY <2>2, <2>3, <2>4
<1>7. ASSUME NEW g \in Handler, ReadLatest(g)
      PROVE  Goal
  <2>1. /\ UNCHANGED <<at, tick, rpc, pending, closed, sent>>
        /\ hpc[g] = "registered"
        /\ hpc' = [hpc EXCEPT ![g] = IF entries[at[g]] = 0 THEN "serving" ELSE "greeting"]
        /\ first' = [first EXCEPT ![g] = entries[at[g]]]
    BY <1>7 DEF ReadLatest, HandlerGoto, refreshVars
  <2>2. CASE g # h
    <3>1. UNCHANGED <<hpc[h], first[h]>>
      BY <2>1, <2>2 DEF TypeOK
    <3>2. QED
      BY <1>1, <2>1, <3>1, JoinKept DEF Served
  <2>3. CASE g = h
    <3>1. SUFFICES ASSUME Served(h)' PROVE HasLatest(h)'
      OBVIOUS
    <3>2. entries[at[h]] = tick[at[h]] /\ tick[at[h]] > 0
      BY <1>2, <2>1, <3>1 DEF Served, IInv, TickInv
    <3>3. hpc'[h] = "greeting" /\ first'[h] = tick'[at'[h]]
      BY <1>2, <2>1, <2>3, <3>2 DEF TypeOK
    <3>4. QED
      BY <3>3 DEF HasLatest
  <2>4. QED
    BY <2>2, <2>3
<1>8. ASSUME NEW g \in Handler,
             \/ Accept(g) \/ Register(g)
             \/ GreetPanics(g) \/ Receive(g) \/ Heartbeat(g) \/ Written(g)
             \/ WriteFails(g) \/ SeeClosed(g) \/ SeeGone(g)
             \/ Unsubscribe(g) \/ Disconnect(g)
      PROVE  Goal
  <2>1. UNCHANGED <<sent, at, first, tick, rpc, pending>>
    BY <1>8 DEF Accept, Register, GreetPanics, Receive, Heartbeat,
       Written, WriteFails, SeeClosed, SeeGone, Unsubscribe, Disconnect, refreshVars
  <2>2. closed[h] => closed'[h]
    BY <1>8 DEF TypeOK, Accept, Register, GreetPanics, Receive, Heartbeat,
       Written, WriteFails, SeeClosed, SeeGone, Unsubscribe, Disconnect
  <2>3. hpc'[h] \in {"greeting", "serving", "writing"} =>
          /\ hpc[h] \in {"greeting", "serving", "writing"}
          /\ hpc[h] = "greeting" => hpc'[h] = "greeting"
    BY <1>8 DEF TypeOK, HandlerGoto, Accept, Register, GreetPanics, Receive, Heartbeat,
       Written, WriteFails, SeeClosed, SeeGone, Unsubscribe, Disconnect
  <2>4. QED
    BY <1>1, <2>1, <2>2, <2>3, JoinKept DEF Served
<1>9. CASE UNCHANGED <<sent, at, first, tick, rpc, pending, hpc, closed>>
  BY <1>1, <1>9, JoinKept DEF Served
<1>10. CASE MainStep
  BY <1>9, <1>10 DEF MainStep, PhaseGoto, Cancel, BeginShutdown, ShutdownComplete,
     ShutdownTimeout, refreshVars, handlerVars
<1>11. CASE UNCHANGED vars
  BY <1>9, <1>11 DEF vars
<1>12. ASSUME NEW c \in Cluster, NEW g \in Handler, SendPanics(c, g)
       PROVE  Goal
  BY <1>9, <1>12 DEF SendPanics, refreshVars, handlerVars
<1>13. QED
  BY <1>4, <1>5, <1>6, <1>7, <1>8, <1>10, <1>11, <1>12, NextCases

-----------------------------------------------------------------------------
(* The refinement. *)

LEMMA FeedInit == Init => Feed!Init
BY DEF Init, Feed!Init, Membership

LEMMA FeedStutter ==
  ASSUME UNCHANGED <<entries, subs, closed, at, sent>>
  PROVE  UNCHANGED Feed!vars
BY DEF Feed!vars, Membership

LEMMA FeedStep == TypeOK /\ IInv /\ TypeOK' /\ IInv' /\ [Next]_vars => [Feed!Next]_(Feed!vars)
<1> SUFFICES ASSUME TypeOK, IInv, TypeOK', IInv', [Next]_vars
             PROVE  [Feed!Next]_(Feed!vars)
  OBVIOUS
<1> USE DEF RefresherGoto, HandlerGoto, refreshVars, handlerVars
<1>1. ASSUME NEW c \in Cluster, Store(c)
      PROVE  Feed!Publish(c)
  <2>1. entries' = [entries EXCEPT ![c] = @ + 1]
    BY <1>1 DEF Store, IInv, TickInv, TypeOK
  <2>2. UNCHANGED <<subs, closed, at, sent>>
    BY <1>1 DEF Store
  <2>3. QED
    BY <2>1, <2>2 DEF Feed!Publish, Membership
<1>2. ASSUME NEW h \in Handler, Register(h)
      PROVE  Feed!Join(h)
  <2>1. UNCHANGED <<entries, closed, at, sent>> /\ hpc[h] = "accepted"
    BY <1>2 DEF Register
  <2>2. h \notin subs[at[h]] /\ ~closed[h]
    BY <2>1 DEF IInv, OpenIffRegistered, HandlerInv, TypeOK
  <2>3. ASSUME NEW g \in Handler
        PROVE  g \in subs'[at[g]] <=> g = h \/ g \in subs[at[g]]
    BY <1>2 DEF Register, TypeOK
  <2>4. Membership' = [Membership EXCEPT ![h] = "in"]
    BY <2>1, <2>3 DEF Membership
  <2>5. QED
    BY <2>1, <2>2, <2>4 DEF Feed!Join, Membership
<1>3. ASSUME NEW h \in Handler, NEW n \in 1..entries[at[h]], h \in subs[at[h]],
             UNCHANGED <<entries, subs, closed, at>>,
             sent' = [sent EXCEPT ![h] = Append(@, n)]
      PROVE  Feed!Next
  <2>1. Feed!AscendingButOne(sent'[h])
    BY DEF IInv, OrderInv, OrderedBut, Feed!AscendingButOne
  <2>2. Membership' = Membership /\ Membership[h] = "in"
    BY <1>3 DEF Membership
  <2>3. Feed!Hand(h, n)
    BY <1>3, <2>1, <2>2 DEF Feed!Hand
  <2>4. QED
    BY <2>3 DEF Feed!Next
<1>4. ASSUME NEW c \in Cluster, NEW h \in Handler, Send(c, h)
      PROVE  [Feed!Next]_(Feed!vars)
  <2>1. UNCHANGED <<entries, subs, closed, at>>
    BY <1>4 DEF Send, SendWith
  <2>2. CASE Full(h)
    <3>1. UNCHANGED sent
      BY <1>4, <2>2 DEF Send, SendWith, TypeOK
    <3>2. QED
      BY <2>1, <3>1, FeedStutter
  <2>3. CASE ~Full(h)
    <3>1. sent' = [sent EXCEPT ![h] = Append(@, tick[c])]
      BY <1>4, <2>3 DEF Send, SendWith, TypeOK
    <3>2. at[h] = c /\ hpc[h] \notin {"idle", "accepted"} /\ ~closed[h] /\ rpc[c] = "send"
      BY <1>4 DEF Send, SendWith, IInv, PendingInv
    <3>3. h \in subs[at[h]]
      <4>1. hpc[h] \in {"registered", "greeting", "serving", "writing", "leaving"}
        BY <3>2 DEF IInv, HandlerInv, Ended, TypeOK, HandlerPC
      <4>2. QED
        BY <3>2, <4>1 DEF IInv, OpenIffRegistered
    <3>4. tick[c] \in 1..entries[at[h]]
      <4>1. entries[c] = tick[c] /\ tick[c] > 0
        BY <3>2 DEF IInv, TickInv
      <4>2. tick[c] \in Nat
        BY DEF TypeOK
      <4>3. QED
        BY <3>2, <4>1, <4>2
    <3>5. QED
      BY <1>3, <2>1, <3>1, <3>3, <3>4
  <2>4. QED
    BY <2>2, <2>3
<1>5. ASSUME NEW h \in Handler, Greet(h)
      PROVE  [Feed!Next]_(Feed!vars)
  <2>1. UNCHANGED <<entries, subs, closed, at>> /\ hpc[h] = "greeting" /\ ~closed[h]
    BY <1>5 DEF Greet
  <2>2. CASE Full(h)
    BY <1>5, <2>1, <2>2, FeedStutter DEF Greet
  <2>3. CASE ~Full(h)
    <3>1. sent' = [sent EXCEPT ![h] = Append(@, first[h])]
      BY <1>5, <2>3 DEF Greet
    <3>2. h \in subs[at[h]]
      BY <2>1 DEF IInv, OpenIffRegistered, TypeOK
    <3>3. first[h] \in 1..entries[at[h]]
      BY <2>1 DEF IInv, HandlerInv, TypeOK
    <3>4. QED
      BY <1>3, <2>1, <3>1, <3>2, <3>3
  <2>4. QED
    BY <2>2, <2>3
<1>6. ASSUME NEW S \in SUBSET Handler, NEW c \in Cluster,
             UNCHANGED <<entries, at, sent>>,
             S \subseteq subs[c],
             subs' = [subs EXCEPT ![c] = @ \ S],
             \A g \in Handler : closed'[g] <=> closed[g] \/ g \in S
      PROVE  Feed!Leave(S)
  <2>1. ASSUME NEW g \in S
        PROVE  at[g] = c /\ Membership[g] = "in"
    BY <1>6 DEF IInv, OpenIffRegistered, Membership
  <2>2. ASSUME NEW g \in Handler
        PROVE  Membership'[g] = IF g \in S THEN "over" ELSE Membership[g]
    <3>1. CASE g \in S
      BY <1>6, <2>1, <3>1 DEF Membership, TypeOK
    <3>2. CASE g \notin S
      BY <1>6, <3>2 DEF Membership, TypeOK
    <3>3. QED
      BY <3>1, <3>2
  <2>3. Membership' = [g \in Handler |-> IF g \in S THEN "over" ELSE Membership[g]]
    BY <2>2 DEF Membership
  <2>4. QED
    BY <1>6, <2>1, <2>3 DEF Feed!Leave
<1>7. ASSUME NEW c \in Cluster, Stop(c)
      PROVE  Feed!Next
  <2>1. subs[c] \in SUBSET Handler
    BY DEF TypeOK
  <2>2. subs' = [subs EXCEPT ![c] = @ \ subs[c]]
    BY <1>7, <2>1 DEF Stop, TypeOK
  <2>3. /\ UNCHANGED <<entries, at, sent>>
        /\ \A g \in Handler : closed'[g] <=> closed[g] \/ g \in subs[c]
    BY <1>7 DEF Stop, TypeOK
  <2>4. Feed!Leave(subs[c])
    BY <1>6, <2>1, <2>2, <2>3
  <2>5. QED
    BY <2>1, <2>4 DEF Feed!Next
<1>8. ASSUME NEW h \in Handler, Unsubscribe(h)
      PROVE  [Feed!Next]_(Feed!vars)
  <2>1. /\ UNCHANGED <<entries, at, sent>>
        /\ subs' = [subs EXCEPT ![at[h]] = @ \ {h}]
        /\ closed' = [closed EXCEPT ![h] = @ \/ h \in subs[at[h]]]
    BY <1>8 DEF Unsubscribe
  <2>2. CASE h \in subs[at[h]]
    <3>1. \A g \in Handler : closed'[g] <=> closed[g] \/ g \in {h}
      BY <2>1, <2>2 DEF TypeOK
    <3>2. {h} \in SUBSET Handler /\ at[h] \in Cluster /\ {h} \subseteq subs[at[h]]
      BY <2>2 DEF TypeOK
    <3>3. Feed!Leave({h})
      BY <1>6, <2>1, <3>1, <3>2
    <3>4. QED
      BY <3>2, <3>3 DEF Feed!Next
  <2>3. CASE h \notin subs[at[h]]
    <3>1. UNCHANGED <<subs, closed>>
      BY <2>1, <2>3 DEF TypeOK
    <3>2. QED
      BY <2>1, <3>1, FeedStutter
  <2>4. QED
    BY <2>2, <2>3
<1>9. ASSUME NEW c \in Cluster,
             \/ Fetch(c) \/ CopySubs(c) \/ EndTick(c) \/ NextTick(c)
             \/ \E h \in Handler : SendPanics(c, h)
      PROVE  UNCHANGED <<entries, subs, closed, at, sent>>
  BY <1>9 DEF Fetch, CopySubs, EndTick, NextTick, SendPanics
<1>10. ASSUME NEW h \in Handler,
              \/ Accept(h) \/ ReadLatest(h) \/ GreetPanics(h) \/ Receive(h)
              \/ Heartbeat(h) \/ Written(h) \/ WriteFails(h) \/ SeeClosed(h)
              \/ SeeGone(h) \/ Disconnect(h)
       PROVE  UNCHANGED <<entries, subs, closed, at, sent>>
  BY <1>10 DEF Accept, ReadLatest, GreetPanics, Receive, Heartbeat, Written, WriteFails,
     SeeClosed, SeeGone, Disconnect
<1>11. CASE MainStep
  <2>1. UNCHANGED <<entries, subs, closed, at, sent>>
    BY <1>11 DEF MainStep, PhaseGoto, Cancel, BeginShutdown, ShutdownComplete, ShutdownTimeout
  <2>2. QED
    BY <2>1, FeedStutter
<1>12. CASE UNCHANGED vars
  BY <1>12, FeedStutter DEF vars
<1>13. (\E c \in Cluster : Feed!Publish(c)) \/ (\E h \in Handler : Feed!Join(h)) => Feed!Next
  BY DEF Feed!Next
<1>14. QED
  BY <1>1, <1>2, <1>4, <1>5, <1>7, <1>8, <1>9, <1>10, <1>11, <1>12, <1>13, FeedStutter,
     NextCases

-----------------------------------------------------------------------------
(* The theorems. *)

LEMMA Safety == Spec => [](TypeOK /\ IInv)
<1>1. Init => TypeOK /\ IInv
  BY TypeInit, InvInit
<1>2. TypeOK /\ IInv /\ [Next]_vars => (TypeOK /\ IInv)'
  BY TypeNext, TickInvNext, RegistrationNext, HandlerInvNext, PendingInvNext, PanicNext,
     CacheNotBehindNext, OrderNext, JoinNext DEF IInv
<1>3. QED
  BY <1>1, <1>2, PTL DEF Spec

\* Whoever has been pushed a snapshot never reads an older one from the cache.
THEOREM CacheLeads == Spec => []CacheNotBehindStream
<1>1. IInv => CacheNotBehindStream
  BY DEF IInv
<1>2. QED
  BY <1>1, Safety, PTL

\* A channel is open exactly while it is registered: none leaks, none is closed
\* twice, whichever of closeSubs and Unsubscribe comes first.
THEOREM ChannelsReleased == Spec => []OpenIffRegistered
<1>1. IInv => OpenIffRegistered
  BY DEF IInv
<1>2. QED
  BY <1>1, Safety, PTL

\* Broadcast never repeats or reorders; only the greeting may be out of order.
THEOREM StreamOrder == Spec => []OrderedButForGreeting
<1>1. IInv => OrderedButForGreeting
  BY DEF IInv, OrderInv, OrderedBut, OrderedButForGreeting
<1>2. QED
  BY <1>1, Safety, PTL

\* Subscribing leaves no gap: between ticks every open stream has the latest
\* snapshot or has already taken Cap others.
THEOREM NoGap == Spec => []JoinsWithoutGap
<1>1. TypeOK /\ IInv => JoinsWithoutGap
  BY DEF IInv, JoinInv, Served, HasLatest, JoinsWithoutGap
<1>2. QED
  BY <1>1, Safety, PTL

\* Shutdown alone never panics a refresher.
THEOREM PanicOnlyAfterDisconnect == Spec => []PanicNeedsDisconnect
<1>1. IInv => PanicNeedsDisconnect
  BY DEF IInv
<1>2. QED
  BY <1>1, Safety, PTL

\* The cache with all its goroutines, channels and crashes implements the feed.
THEOREM ImplementsFeed == Spec => FeedSpec
<1>1. Init => Feed!Init
  BY FeedInit
<1>2. (TypeOK /\ IInv) /\ (TypeOK /\ IInv)' /\ [Next]_vars => [Feed!Next]_(Feed!vars)
  BY FeedStep
<1>3. QED
  BY <1>1, <1>2, Safety, PTL DEF Spec, FeedSpec, Feed!Spec

=============================================================================
