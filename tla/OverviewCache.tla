---------------------------- MODULE OverviewCache ----------------------------
(***************************************************************************)
(* The overview cache of internal/natsx/cache.go together with its two     *)
(* kinds of clients: the refresher goroutine of each cluster (the only     *)
(* writer) and the SSE handlers of internal/handler/jsm.go that subscribe  *)
(* to it, up to and including the shutdown sequence of                     *)
(* cmd/cheshmhayash/main.go.                                               *)
(*                                                                         *)
(* A snapshot is identified by the refresh tick that produced it: tick n   *)
(* of a cluster produces snapshot n, and 0 stands for "no snapshot yet".   *)
(* Whether the upstream call succeeded (Data) or failed (Err) makes no     *)
(* difference to how a snapshot travels, so it is not represented.         *)
(*                                                                         *)
(* Every SSE request owns the one channel its Subscribe call makes, so a   *)
(* handler also names its channel.  The channel is kept as its whole       *)
(* history sent[h] with a read cursor; what is buffered is the unread tail *)
(* of at most Cap snapshots.                                               *)
(*                                                                         *)
(* The two mutexes (mu, subMu) make the sections they guard atomic; each   *)
(* action below is one such section, one channel operation or one step of  *)
(* a goroutine between them.                                               *)
(***************************************************************************)
EXTENDS Naturals, Sequences

CONSTANTS
  Cluster,   \* the configured clusters, Manager.Names()
  Handler,   \* the requests for /overview/stream, each with its channel
  Cap,       \* capacity of a subscriber channel (4 in the code)
  MaxTick    \* bound on the number of refresh ticks per cluster

ASSUME CapAssumption == Cap \in Nat \ {0}
ASSUME MaxTickAssumption == MaxTick \in Nat \ {0}

VARIABLES
  phase,     \* the process: running, cancelled, draining, exited or panicked
  rpc,       \* where each cluster's refresher is
  tick,      \* the number of the refresher's current tick
  entries,   \* OverviewCache.entries: the latest snapshot of each cluster
  subs,      \* OverviewCache.subs: the registered channels of each cluster
  pending,   \* what is left of the list that broadcast copied
  hpc,       \* where each handler is
  at,        \* the cluster each handler streams
  first,     \* the snapshot Subscribe read with Get (0: none)
  sent,      \* every snapshot that entered the handler's channel
  read,      \* how many of them the handler has taken out
  closed,    \* whether the channel is closed
  gone       \* whether the client has disconnected

refreshVars == <<rpc, tick, pending>>
handlerVars == <<hpc, at, first, read, gone>>
vars == <<phase, rpc, tick, entries, subs, pending,
          hpc, at, first, sent, read, closed, gone>>

Phase == {"running", "cancelled", "draining", "exited", "panicked"}
RefresherPC == {"fetch", "store", "copy", "send", "wait", "done"}
HandlerPC == {"idle", "accepted", "registered", "greeting", "serving",
              "writing", "leaving", "done", "aborted"}

Up == phase \in {"running", "cancelled", "draining"}
Cancelled == phase \in {"cancelled", "draining"}

\* A handler that holds, or is about to hold, a channel.
Ended(h) == hpc[h] \in {"done", "aborted"}

Unread(h) == Len(sent[h]) - read[h]
Full(h) == Unread(h) >= Cap

Init ==
  /\ phase = "running"
  /\ rpc = [c \in Cluster |-> "fetch"]
  /\ tick = [c \in Cluster |-> 0]
  /\ entries = [c \in Cluster |-> 0]
  /\ subs = [c \in Cluster |-> {}]
  /\ pending = [c \in Cluster |-> {}]
  /\ hpc = [h \in Handler |-> "idle"]
  /\ at \in [Handler -> Cluster]
  /\ first = [h \in Handler |-> 0]
  /\ sent = [h \in Handler |-> <<>>]
  /\ read = [h \in Handler |-> 0]
  /\ closed = [h \in Handler |-> FALSE]
  /\ gone = [h \in Handler |-> FALSE]

RefresherGoto(c, from, to) ==
  /\ Up
  /\ rpc[c] = from
  /\ rpc' = [rpc EXCEPT ![c] = to]

HandlerGoto(h, from, to) ==
  /\ Up
  /\ hpc[h] = from
  /\ hpc' = [hpc EXCEPT ![h] = to]

-----------------------------------------------------------------------------
(* The refresher goroutine. *)

\* JSMOverview returns, with replies or with an error, and the snapshot is
\* stamped.  The context plays no part: a cancelled refresher still fetches.
Fetch(c) ==
  /\ RefresherGoto(c, "fetch", "store")
  /\ tick' = [tick EXCEPT ![c] = @ + 1]
  /\ UNCHANGED <<phase, entries, subs, pending, handlerVars, sent, closed>>

\* Mutation: a refresh that failed is broadcast but not cached.
StoreGoodOnly(c) ==
  /\ RefresherGoto(c, "store", "copy")
  /\ \E ok \in BOOLEAN : entries' = IF ok THEN [entries EXCEPT ![c] = tick[c]] ELSE entries
  /\ UNCHANGED <<phase, tick, subs, pending, handlerVars, sent, closed>>

Store(c) ==
  /\ RefresherGoto(c, "store", "copy")
  /\ entries' = [entries EXCEPT ![c] = tick[c]]
  /\ UNCHANGED <<phase, tick, subs, pending, handlerVars, sent, closed>>

\* Mutation: handlers that are still inside Subscribe are left out.
CopyServing(c) ==
  /\ RefresherGoto(c, "copy", "send")
  /\ pending' = [pending EXCEPT ![c] = {h \in subs[c] : hpc[h] = "serving"}]
  /\ UNCHANGED <<phase, tick, entries, subs, handlerVars, sent, closed>>

\* broadcast copies the subscriber list under subMu ...
CopySubs(c) ==
  /\ RefresherGoto(c, "copy", "send")
  /\ pending' = [pending EXCEPT ![c] = subs[c]]
  /\ UNCHANGED <<phase, tick, entries, subs, handlerVars, sent, closed>>

SendWith(c, h, rest, stream) ==
  /\ Up
  /\ rpc[c] = "send"
  /\ h \in pending[c]
  /\ ~closed[h]
  /\ pending' = [pending EXCEPT ![c] = rest]
  /\ sent' = [sent EXCEPT ![h] = stream]
  /\ UNCHANGED <<phase, rpc, tick, entries, subs, handlerVars, closed>>

\* Mutation: the buffer is not bounded.
SendUnbounded(c, h) == SendWith(c, h, pending[c] \ {h}, Append(sent[h], tick[c]))

\* Mutation: the channel stays in the list and is served again.
SendAgain(c, h) ==
  SendWith(c, h, pending[c], IF Full(h) THEN sent[h] ELSE Append(sent[h], tick[c]))

\* Mutation: a plain send, which waits for room.
SendBlocking(c, h) ==
  ~Full(h) /\ SendWith(c, h, pending[c] \ {h}, Append(sent[h], tick[c]))

\* ... and sends outside it, never blocking: a full channel loses the snapshot.
\* The order of the list does not matter, so any pending channel may be next.
Send(c, h) ==
  SendWith(c, h, pending[c] \ {h}, IF Full(h) THEN sent[h] ELSE Append(sent[h], tick[c]))

\* A send on a closed channel panics, also inside a select with a default.  No
\* one recovers in the refresher goroutine: the whole process dies.
SendPanics(c, h) ==
  /\ Up
  /\ rpc[c] = "send"
  /\ h \in pending[c]
  /\ closed[h]
  /\ phase' = "panicked"
  /\ UNCHANGED <<refreshVars, entries, subs, handlerVars, sent, closed>>

EndTick(c) ==
  /\ pending[c] = {}
  /\ RefresherGoto(c, "send", "wait")
  /\ UNCHANGED <<phase, tick, entries, subs, pending, handlerVars, sent, closed>>

\* The ticker fires.  It may do so after ctx is cancelled, too: select picks at
\* random among the cases that are ready.
NextTick(c) ==
  /\ tick[c] < MaxTick
  /\ RefresherGoto(c, "wait", "fetch")
  /\ UNCHANGED <<phase, tick, entries, subs, pending, handlerVars, sent, closed>>

\* Mutation: the list is deleted, its channels stay open.
StopSilently(c) ==
  /\ Cancelled
  /\ RefresherGoto(c, "wait", "done")
  /\ subs' = [subs EXCEPT ![c] = {}]
  /\ UNCHANGED <<phase, tick, entries, pending, handlerVars, sent, closed>>

\* Mutation: the channels of every cluster are closed.
StopAllClusters(c) ==
  /\ Cancelled
  /\ RefresherGoto(c, "wait", "done")
  /\ closed' = [h \in Handler |-> closed[h] \/ \E d \in Cluster : h \in subs[d]]
  /\ subs' = [subs EXCEPT ![c] = {}]
  /\ UNCHANGED <<phase, tick, entries, pending, handlerVars, sent>>

\* Mutation: a goroutine of its own closes the channels on ctx.Done.
StopAnytime(c) ==
  /\ Cancelled
  /\ rpc[c] # "done"
  /\ closed' = [h \in Handler |-> closed[h] \/ h \in subs[c]]
  /\ subs' = [subs EXCEPT ![c] = {}]
  /\ UNCHANGED <<phase, refreshVars, entries, handlerVars, sent>>

\* ctx.Done is picked: closeSubs closes and forgets every registered channel.
Stop(c) ==
  /\ Cancelled
  /\ RefresherGoto(c, "wait", "done")
  /\ closed' = [h \in Handler |-> closed[h] \/ h \in subs[c]]
  /\ subs' = [subs EXCEPT ![c] = {}]
  /\ UNCHANGED <<phase, tick, entries, pending, handlerVars, sent>>

-----------------------------------------------------------------------------
(* The SSE handler overviewStream, from the accepted request on. *)

\* No request is accepted once srv.Shutdown has closed the listeners, but one
\* accepted earlier may still be on its way to Subscribe.
Accept(h) ==
  /\ phase \in {"running", "cancelled"}
  /\ HandlerGoto(h, "idle", "accepted")
  /\ UNCHANGED <<phase, refreshVars, entries, subs, at, first, sent, read, closed, gone>>

\* Subscribe makes the channel and appends it to the list under subMu ...
Register(h) ==
  /\ HandlerGoto(h, "accepted", "registered")
  /\ subs' = [subs EXCEPT ![at[h]] = @ \cup {h}]
  /\ UNCHANGED <<phase, refreshVars, entries, at, first, sent, read, closed, gone>>

\* ... then reads the current snapshot under mu ...
ReadLatest(h) ==
  /\ HandlerGoto(h, "registered", IF entries[at[h]] = 0 THEN "serving" ELSE "greeting")
  /\ first' = [first EXCEPT ![h] = entries[at[h]]]
  /\ UNCHANGED <<phase, refreshVars, entries, subs, at, sent, read, closed, gone>>

\* ... and sends it, holding neither lock.
Greet(h) ==
  /\ ~closed[h]
  /\ HandlerGoto(h, "greeting", "serving")
  /\ sent' = IF Full(h) THEN sent
             ELSE [sent EXCEPT ![h] = Append(@, first[h])]
  /\ UNCHANGED <<phase, refreshVars, entries, subs, at, first, read, closed, gone>>

\* closeSubs came first: the send panics.  Here net/http recovers and drops the
\* connection; Unsubscribe is not deferred yet, and closeSubs has done its work.
GreetPanics(h) ==
  /\ closed[h]
  /\ HandlerGoto(h, "greeting", "aborted")
  /\ UNCHANGED <<phase, refreshVars, entries, subs, at, first, sent, read, closed, gone>>

\* The handler takes a snapshot and starts to write it, or a heartbeat is due.
Receive(h) ==
  /\ read[h] < Len(sent[h])
  /\ HandlerGoto(h, "serving", "writing")
  /\ read' = [read EXCEPT ![h] = @ + 1]
  /\ UNCHANGED <<phase, refreshVars, entries, subs, at, first, sent, closed, gone>>

Heartbeat(h) ==
  /\ HandlerGoto(h, "serving", "writing")
  /\ UNCHANGED <<phase, refreshVars, entries, subs, at, first, sent, read, closed, gone>>

\* The write ends when the client has taken the bytes; the server has no write
\* timeout, so a client that stops reading keeps the handler here.
Written(h) ==
  /\ HandlerGoto(h, "writing", "serving")
  /\ UNCHANGED <<phase, refreshVars, entries, subs, at, first, sent, read, closed, gone>>

\* Only the write to a client that has gone fails.
WriteFails(h) ==
  /\ gone[h]
  /\ HandlerGoto(h, "writing", "leaving")
  /\ UNCHANGED <<phase, refreshVars, entries, subs, at, first, sent, read, closed, gone>>

\* The channel is closed and drained.
SeeClosed(h) ==
  /\ closed[h]
  /\ read[h] = Len(sent[h])
  /\ HandlerGoto(h, "serving", "leaving")
  /\ UNCHANGED <<phase, refreshVars, entries, subs, at, first, sent, read, closed, gone>>

\* The request's context is done.
SeeGone(h) ==
  /\ gone[h]
  /\ HandlerGoto(h, "serving", "leaving")
  /\ UNCHANGED <<phase, refreshVars, entries, subs, at, first, sent, read, closed, gone>>

\* Mutation: the channel is closed but stays in the list.
UnsubscribeCloses(h) ==
  /\ HandlerGoto(h, "leaving", "done")
  /\ closed' = [closed EXCEPT ![h] = @ \/ h \in subs[at[h]]]
  /\ UNCHANGED <<phase, refreshVars, entries, subs, at, first, sent, read, gone>>

\* Mutation: the channel leaves the list but stays open.
UnsubscribeForgets(h) ==
  /\ HandlerGoto(h, "leaving", "done")
  /\ subs' = [subs EXCEPT ![at[h]] = @ \ {h}]
  /\ UNCHANGED <<phase, refreshVars, entries, at, first, sent, read, closed, gone>>

\* The deferred Unsubscribe: a no-op for a channel that closeSubs has taken.
Unsubscribe(h) ==
  /\ HandlerGoto(h, "leaving", "done")
  /\ subs' = [subs EXCEPT ![at[h]] = @ \ {h}]
  /\ closed' = [closed EXCEPT ![h] = @ \/ h \in subs[at[h]]]
  /\ UNCHANGED <<phase, refreshVars, entries, at, first, sent, read, gone>>

\* The browser closes the tab, or the network does.
Disconnect(h) ==
  /\ Up
  /\ ~gone[h]
  /\ hpc[h] # "idle"
  /\ ~Ended(h)
  /\ gone' = [gone EXCEPT ![h] = TRUE]
  /\ UNCHANGED <<phase, refreshVars, entries, subs, hpc, at, first, sent, read, closed>>

-----------------------------------------------------------------------------
(* The main goroutine. *)

PhaseGoto(from, to) ==
  /\ phase = from
  /\ phase' = to
  /\ UNCHANGED <<refreshVars, entries, subs, handlerVars, sent, closed>>

\* A signal, or ListenAndServe failing.
Cancel == PhaseGoto("running", "cancelled")

\* main has seen ctx.Done and calls srv.Shutdown.
BeginShutdown == PhaseGoto("cancelled", "draining")

\* Shutdown returns when every request has ended ...
ShutdownComplete ==
  /\ \A h \in Handler : hpc[h] = "idle" \/ Ended(h)
  /\ PhaseGoto("draining", "exited")

\* ... or when shutdownTimeout has passed.
ShutdownTimeout == PhaseGoto("draining", "exited")

-----------------------------------------------------------------------------
RefresherStep(c) ==
  \/ Fetch(c) \/ Store(c) \/ CopySubs(c) \/ EndTick(c)
  \/ \E h \in Handler : Send(c, h) \/ SendPanics(c, h)

HandlerStep(h) ==
  \/ Register(h) \/ ReadLatest(h) \/ Greet(h) \/ GreetPanics(h)
  \/ WriteFails(h) \/ Unsubscribe(h)

ClientStep(h) == Accept(h) \/ Heartbeat(h) \/ Written(h) \/ Disconnect(h)

MainStep == Cancel \/ BeginShutdown \/ ShutdownComplete \/ ShutdownTimeout

Next ==
  \/ \E c \in Cluster : RefresherStep(c) \/ NextTick(c) \/ Stop(c)
  \/ \E h \in Handler :
       HandlerStep(h) \/ Receive(h) \/ SeeClosed(h) \/ SeeGone(h) \/ ClientStep(h)
  \/ MainStep

\* Goroutines that can run do run.  A select with several ready cases picks one
\* at random, so a case that is ready again and again is picked eventually:
\* strong fairness for the cases of both loops.  Nothing is assumed of clients
\* (ClientStep: a write may take forever), of signals (Cancel), of the ticker
\* (NextTick) or of the shutdown timeout.
Fairness ==
  /\ \A c \in Cluster : WF_vars(RefresherStep(c)) /\ SF_vars(Stop(c))
  /\ \A h \in Handler :
       /\ WF_vars(HandlerStep(h))
       /\ SF_vars(Receive(h) \/ SeeClosed(h))
       /\ SF_vars(SeeGone(h))
  /\ WF_vars(BeginShutdown) /\ WF_vars(ShutdownComplete)

Spec == Init /\ [][Next]_vars /\ Fairness

-----------------------------------------------------------------------------
(* Properties. *)

ChannelsBounded ==
  \A h \in Handler : read[h] <= Len(sent[h]) /\ Unread(h) <= Cap

\* The values the state ranges over; no channel buffers more than its capacity.
TypeOK ==
  /\ phase \in Phase
  /\ rpc \in [Cluster -> RefresherPC]
  /\ tick \in [Cluster -> Nat]
  /\ entries \in [Cluster -> Nat]
  /\ subs \in [Cluster -> SUBSET Handler]
  /\ pending \in [Cluster -> SUBSET Handler]
  /\ hpc \in [Handler -> HandlerPC]
  /\ at \in [Handler -> Cluster]
  /\ first \in [Handler -> Nat]
  /\ sent \in [Handler -> Seq(Nat)]
  /\ read \in [Handler -> Nat]
  /\ closed \in [Handler -> BOOLEAN]
  /\ gone \in [Handler -> BOOLEAN]
  /\ ChannelsBounded

\* A snapshot reaches the cache before it reaches any subscriber: whoever was
\* pushed a snapshot and then asks GET /overview is never answered with an older
\* one (store before broadcast, cache.go:80-81).
CacheNotBehindStream ==
  \A h \in Handler : \A i \in DOMAIN sent[h] : sent[h][i] <= entries[at[h]]

\* Leaving out at most one snapshot, the one Subscribe sends on its own, every
\* stream is strictly ascending: broadcast never repeats or reorders.
OrderedButForGreeting ==
  \A h \in Handler : \E k \in 0..Len(sent[h]) :
    \A i, j \in DOMAIN sent[h] \ {k} : i < j => sent[h][i] < sent[h][j]

\* A channel is open exactly while it is registered, and only a handler that
\* still has to run Unsubscribe keeps one registered: no channel is closed
\* twice, none leaks, and closeSubs and Unsubscribe never both close it.
OpenIffRegistered ==
  \A h \in Handler, c \in Cluster :
    h \in subs[c] <=> /\ at[h] = c
                     /\ ~closed[h]
                     /\ hpc[h] \in {"registered", "greeting", "serving", "writing", "leaving"}

\* Subscribe registers before it reads the cache, so no snapshot falls in the
\* gap between the two: between ticks, a handler in its loop has been sent the
\* latest snapshot unless its channel has already taken Cap others.
JoinsWithoutGap ==
  \A h \in Handler :
    /\ rpc[at[h]] = "wait"
    /\ hpc[h] \in {"serving", "writing"}
    /\ ~closed[h]
    => (\E i \in DOMAIN sent[h] : sent[h][i] = tick[at[h]]) \/ Len(sent[h]) >= Cap

\* Shutdown by itself never makes a broadcast panic: closeSubs runs in the
\* goroutine that broadcasts, so only a client that left can close a channel
\* under it.
PanicNeedsDisconnect ==
  phase = "panicked" => \E h \in Handler : gone[h]

\* A slow or stuck client never keeps a refresher from finishing its tick
\* (cache.go:140 "a slow consumer drops snapshots rather than blocking").
RefresherNeverBlocked ==
  \A c \in Cluster :
    rpc[c] \in {"fetch", "store", "copy", "send"} ~> (rpc[c] = "wait" \/ ~Up)

\* Cancelling ctx ends every stream that is registered while its refresher still
\* runs and whose client does not block a write for good, without help from the
\* shutdown timeout.
StreamsEndOnCancel ==
  \A h \in Handler :
    []<>(hpc[h] # "writing") =>
      ((Cancelled /\ h \in subs[at[h]] /\ rpc[at[h]] # "done") ~> (Ended(h) \/ ~Up))

\* A client that goes away is forgotten by the cache.
DisconnectReleases ==
  \A h \in Handler :
    (gone[h] /\ h \in subs[at[h]]) ~> (h \notin subs[at[h]] \/ ~Up)

\* What "Refreshers exit when ctx is cancelled" (cache.go:57) and "a slow
\* consumer drops snapshots" (cache.go:140) leave as ways for a refresher to
\* stop sending: none of them is a panic.
RefresherSurvives == phase # "panicked"

\* The cache implements the feed: entering and leaving subs is joining and
\* leaving, Store is publishing, and a send is handing over.
Membership ==
  [h \in Handler |->
    IF h \in subs[at[h]] THEN "in" ELSE IF closed[h] THEN "over" ELSE "out"]

Feed == INSTANCE OverviewFeed
  WITH Subscriber <- Handler, latest <- entries, member <- Membership, feed <- at,
       stream <- sent

FeedSpec == Feed!Spec

-----------------------------------------------------------------------------
(* The inductive invariant behind the properties above. *)

\* The cache lags the refresher's tick counter only between Fetch and Store.
TickInv ==
  \A c \in Cluster :
    /\ rpc[c] = "store" => entries[c] + 1 = tick[c]
    /\ rpc[c] # "store" => entries[c] = tick[c]
    /\ rpc[c] # "fetch" => tick[c] > 0

\* The copied list exists only while it is being served and holds channels of
\* its own cluster; one that was closed in the meantime lost its client.
PendingInv ==
  \A c \in Cluster :
    /\ rpc[c] # "send" => pending[c] = {}
    /\ \A h \in pending[c] :
         /\ at[h] = c
         /\ hpc[h] \notin {"idle", "accepted"}
         /\ closed[h] => gone[h]

HandlerInv ==
  \A h \in Handler :
    /\ hpc[h] \in {"idle", "accepted"} => ~closed[h]
    /\ hpc[h] = "greeting" => first[h] > 0
    /\ hpc[h] = "leaving" => gone[h] \/ closed[h]
    /\ Ended(h) => closed[h]
    /\ first[h] <= entries[at[h]]

\* Between Fetch and the send to h, nothing in h's stream but the greeting (at
\* position k) is as new as the tick under way.
AwaitsTick(h) ==
  \/ rpc[at[h]] \in {"store", "copy"}
  \/ rpc[at[h]] = "send" /\ h \in pending[at[h]]

InSubscribe(h) == hpc[h] \in {"idle", "accepted", "registered", "greeting"}

OrderedBut(h, k) ==
  /\ InSubscribe(h) => k = 0
  /\ \A i, j \in DOMAIN sent[h] \ {k} : i < j => sent[h][i] < sent[h][j]
  /\ AwaitsTick(h) => \A i \in DOMAIN sent[h] \ {k} : sent[h][i] < tick[at[h]]

OrderInv ==
  \A h \in Handler : \E k \in 0..Len(sent[h]) : OrderedBut(h, k)

\* Whoever is past Get and not, or no more, in the copied list has the snapshot of
\* the tick or is about to send it to itself.
Served(h) ==
  /\ hpc[h] \in {"greeting", "serving", "writing"}
  /\ ~closed[h]
  /\ \/ rpc[at[h]] = "wait"
     \/ rpc[at[h]] = "send" /\ h \notin pending[at[h]]

HasLatest(h) ==
  \/ hpc[h] = "greeting" /\ first[h] = tick[at[h]]
  \/ \E i \in DOMAIN sent[h] : sent[h][i] = tick[at[h]]
  \/ Len(sent[h]) >= Cap

JoinInv == \A h \in Handler : Served(h) => HasLatest(h)

IInv ==
  /\ TickInv
  /\ PendingInv
  /\ HandlerInv
  /\ OpenIffRegistered
  /\ CacheNotBehindStream
  /\ OrderInv
  /\ JoinInv
  /\ PanicNeedsDisconnect

=============================================================================
