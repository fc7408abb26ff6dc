# A TLA+ model of cheshmhayash

cheshmhayash is an operations console for NATS clusters: a Go server that turns
HTTP requests into NATS system and JetStream API requests, keeps a background
overview of every cluster, streams it to browsers, forwards JetStream advisories
to webhooks, and offers the same operations as MCP tools; and a TypeScript
frontend on top. This directory models its control flow in TLA+, checks it with
TLC on small instances and proves the main safety properties with TLAPS.

Paths below are relative to the repository root.

## Inventory

| component | state it keeps | operations | hard behaviour | what makes it correct |
|---|---|---|---|---|
| Overview cache (`internal/natsx/cache.go`) | `entries` (latest snapshot per cluster, under `mu`), `subs` (subscriber channels, under `subMu`), one refresher goroutine per cluster | Start/refresh, store, broadcast, Get, Subscribe, Unsubscribe, closeSubs | refreshers, handlers and shutdown interleave between the two locks; bounded channels; close versus send | ordered streams, no gap when joining, no leaked or twice-closed channel, a slow client never blocks a refresher, streams end on shutdown |
| SSE stream (`internal/handler/jsm.go` overviewStream) | one channel per request | subscribe, serve loop, deferred unsubscribe | client disconnect, blocked writes, heartbeat, shutdown | every stream is released |
| NATS requests (`internal/natsx/cluster.go`, `jsm.go`, `admin.go`) | a connection per cluster name, an inbox subscription per call | requestJSON (one reply, timeout), discover (all replies within a window), Connect/Close | late, malformed, duplicate and missing replies; errors at each step; no context | the inbox is always given back; a reply belongs to the call that gets it; the window bounds the call |
| HTTP gateway (`internal/handler/*.go`) | none of its own | routes for read and destructive operations; confirm gate; resolve; error mapping | the answer and the effect upstream can differ (timeouts); order of gates | nothing destructive without confirmation; a refused request has no effect; a success has its effect |
| MCP server (`internal/mcp/*.go`) | tool table, stdout lock; per session reader goroutine | stdio loop, HTTP POST, dispatch, tools | reader goroutine versus loop versus cancellation; batch of lines at EOF; notifications | each request is answered once and in order, notifications never; no tool runs past its gates |
| Notifier (`internal/notify/*.go`) | subscriptions, providers | Subscribe, handlerFor, classify, webhook Send, Close | callbacks and one goroutine per send; unordered sends; two overlapping subjects; shutdown | one event per advisory and provider; no message taken after Close returns |
| Authentication (`internal/auth/*.go`) | flow and session cookies (in the browser), allowlists | login, callback, logout, me, middleware, bearer and MCP tokens | several tabs share one flow cookie; expiry between check and use; readonly tier | no session without a completed flow of that browser; readonly never writes |
| Configuration (`internal/config/*.go`) | Settings | Load: defaults, file, environment overlay, validation | overlay order, index boundaries | what validates is usable by its callers |
| Process (`cmd/*/main.go`) | the above | start in order, shut down in reverse | partial start, shutdown while requests run | everything started is closed |
| Frontend state (`frontend/src/hooks`, `api.ts`) | React state per view | EventSource with polling fallback, overview aggregation, session probing | late callbacks of an earlier cluster; reconnects | what is displayed belongs to the selected cluster; totals count each stream once |
| Frontend views (`frontend/src/components`), log and version helpers, charts, packaging | presentation | rendering | none of the kinds above | not modelled |

How they interact: handlers call the cluster client synchronously (one goroutine
per HTTP request); the refreshers call it in the background and hand results to
handlers through the cache (locks and channels); the notifier is called back on
the NATS client's goroutines; the browser learns of everything through HTTP
responses and one event stream per tab; cancellation of the process context is
the only shutdown signal.

## Modules

| module | models | kind |
|---|---|---|
| `OverviewCache` | cache.go, the SSE handler in jsm.go, shutdown in main.go | state machine |
| `OverviewFeed` | what the cache promises its subscribers | abstract specification, implemented by `OverviewCache` |
| `OverviewCacheProofs` | | theorems |
| `Gateway` | handler/, natsx/jsm.go, natsx/admin.go, requestJSON and discover, the MCP tools behind POST /mcp, the gates of auth/ | state machine |
| `GatewayProofs` | | theorems |
| `McpStdio` | Server.Serve, dispatch, runStdio | state machine |
| `McpStdioProofs` | | theorems |
| `StreamHook` | useOverviewStream.ts | state machine |
| `StreamHookProofs` | | theorems |
| `Notifier` | notify/ | state machine |
| `NotifierProofs` | | theorems |
| `Login` | auth/handlers.go, session.go, auth.go, the cookie middleware, useAuth | state machine |
| `LoginProofs` | | theorems |
| `Config` | config/: schema, file, overlay of one variable, validation, and `Merged`, what they are to add up to | functions, with a reference definition |
| `Lifecycle` | run() and runHTTP() of cmd/, NewManager and Close, what the process starts and closes; takes its loading steps from `Config` | state machine |
| `LifecycleProofs` | | theorems about `Config` and `Lifecycle` |
| `Overview` | Cluster.discover with its inbox, aggregateOverview of api.ts over its replies | state machine and a recursive function |
| `OverviewProofs` | | theorems |
| `MC*` | instances for TLC | |

Definitions whose comment begins with "Mutation:" are not part of a
specification. Each is a variant of the definition after it, broken as a slip in
the code would break it, and shows that a property notices.

### OverviewCache

State to code: `entries` and `subs` are the two maps of OverviewCache. A
subscriber channel is `sent[h]` (all that ever entered it), a read cursor and
`closed[h]`; what is buffered is the unread tail. `rpc` is where a refresher
goroutine is in its loop, `pending` what is left of the list broadcast copied,
`hpc` where an SSE handler is, `phase` where the process is.

Every section under a mutex is one action: `Store` (mu), `CopySubs` (subMu),
`Register` and `ReadLatest` (the two halves of Subscribe under different locks),
`Unsubscribe` and `Stop` (closeSubs under subMu). What happens outside the locks
is an action of its own: each `Send`, the `Greet` at the end of Subscribe, each
write to a client. `SendPanics` and `GreetPanics` are the sends on a closed
channel: in the refresher it ends the process, in a handler net/http recovers.

Upstream success or failure of a refresh is left out, because a snapshot with
an error travels exactly like one with data.

`OverviewFeed` says the same without goroutines: publish, join once, be handed
published snapshots in ascending order but for one, leave once. The refinement
mapping takes `entries` to `latest`, `sent` to `stream`, and membership in
`subs` to `member`.

### Gateway

Each request is its own process with `pc` new, handler, waiting, done or aborted.
The door's middleware (`HttpAuth`, `McpAuthenticate`) moves it to its handler,
the handler checks what it checks in its own order and publishes, and the answer
ends it. `wire` is where its NATS request is: a request that timed out stays
there and may be carried out later (`Execute`), which is what a timeout means in
the code. `applied` counts how often the upstream carried out a request. The
upstream holds one stream with one consumer: enough for requests to destroy
each other's target. The client's part is `sent`: handlers of POST /mcp, kick and
update read a body, which arrives, breaks off or stalls (`ClientSends`), and until it
has they wait. After the body no handler's context reaches NATS, so a disconnect is
no further action. An error envelope may come for any request, a missing target or not.

### McpStdio

`reader` is the goroutine that scans stdin, `calling` and `writing` the line the
loop has in hand, `out` the lines answered. The unbuffered channel is the joint
step `Receive`. The loop is at its select when `Idle`; the three other cases are
`SeeError`, `SeeClosed` and `SeeCancelled`, and Go's select picks any that is
ready. A pipe that nobody reads blocks the write when it is full, a pipe that is
gone fails the write or, by SIGPIPE, ends the process.

### StreamHook

`runs` lists the effect runs; a run is cancelled exactly when it is not the last
or the view is gone, since the cleanup runs before the next effect. `es` is the
readyState of the last run's EventSource, `timer` is fallbackTimer.current,
`intervals` the intervals that tick, `polls` the fetches in flight, `view` the
hook's state. `Settle` is the promise callback: `then` looks at the cancelled
flag, `catch` does not, as in the code.

### Notifier

Two subscriptions (local and bridged subject), each with a queue that the NATS
client works off on one goroutine. A message has been `taken` from the moment
the client lets go of its lock; Unsubscribe discards what waits but not what is
taken. `Spawn` starts one goroutine per provider, `PostEnds` ends it.

### Login

The server has no state but its settings (`running`); the browser's jar has the
flow and the session cookie, shared by its tabs. A request is evaluated with the
cookies the jar has when it is sent; what its reply sets or clears reaches the
jar when the reply arrives (`Receive`), after replies to other tabs perhaps, or
never (`Drop`). The identity probe of useAuth (`handleMe`) is such a request too: the
page is loading until its reply comes, and takes a lost one for a server without
sign-in. `Restart` gives the server other settings or another key.
`begun`, `called`, `touched` and `granted` are history: no action reads them.

### Config and Lifecycle

`Config` has no state. Settings are a function from paths to texts and three
lists of entries; each conversion gives the set of its results, empty for an
error. `applyEnvPath` lays one variable over the settings and ends ok, with an
error or in a panic (an index before the first entry). `Merged` is the reference:
each setting from the last layer that gives it, said without an order. What Go makes
of a text is given by constants where it depends on the letters: `Atoi`, `Lower`
(capitals folded) and `Hollow` (blanks and commas only, which splitCSV reduces to none).

`Lifecycle` loads with these operators, one variable a step in any order
(os.Environ promises none), and goes on along `phase` as run() does: connect,
notify, subscribe, auth, serve, shutdown, and back through the deferred calls.
`bin` chooses the program; the MCP server has no notifier and no cache.
Connections are numbered by the entry they were opened for, and `mgr` holds the
entries that can still be reached by name. A request is a `call` until it ends
or subscribes; `subscribed`, `late` and `closing` are an overview stream that the
cache will close, will never close, and has closed; `stream` is GET /mcp. What
the requests do in between is Gateway's and OverviewCache's matter. The panic of a
refresher that OverviewCache finds is here one step, `RefresherDies`: the process is
gone (`died`) where it stands, and no deferred call runs. That refreshers may ask on a
connection that drains after mgr.Close is not modelled: the answer reaches nobody.

### Overview

`hosts` says which servers keep each group: a server reports those it hosts, and a
consumer may be kept by fewer servers than its stream. `known` is what each server
believes of their leaders, `leader` what is so; a server
that has lost an election hears of it later. `steady` says that nothing a call could be
told was out of date while it asked. A reply reaches the inbox only while it is subscribed.
One call is enough at a time: inboxes are unique, and calls share only the
connection and the servers. `aggregateOverview` adds up the replies in the
order they arrived, as in api.ts.

## Runs

| run | instance | shows |
|---|---|---|
| `cache` | 2 clusters, 1 handler, Cap 1, 2 ticks | types and bounded channels, no push ahead of the cache, ordered streams, no leaked or doubly closed channel, no gap on joining, panic only after a disconnect, and that the cache implements `OverviewFeed`; slow clients never block a refresher, cancelling ends streams without the timeout, a client that left is forgotten |
| `cache_panic` | 1 cluster, 1 handler | violated: see findings |
| `gateway_gates` | one request of every kind, every setting, bodies that come, stall or break off | only entitled requests are carried out, refusals are final, every request ends whose client sends its body or leaves |
| `gateway_race` | 3 entitled requests for one stream | what is reported as done was done, and nothing is done twice |
| `gateway_success` | one request of every kind | violated: see findings |
| `mcp_stdio` | every line kind before a call, triples of slow, quick and overlong lines | answers in order, none lost at end of file, every request answered, the server stops when told |
| `hook_runs` | 2 clusters, 2 effect runs, 2 fetches in flight, 2 versions | late callbacks never show another cluster's numbers, one interval at most, polling only after the stream is closed and then with a result on screen |
| `login` | 2 tabs, 2 people, 2 settings, 2 logins, 3 instants | a login or a session is refused or lost only for one of the listed reasons, and whoever is served is entitled now |
| `notify_fanout` | 2 events, 2 providers, both subjects | each provider once per advisory, no message taken after Close (the posts of one taken before still go out), no back-pressure |
| `lifecycle` | both programs, 3 files, some two hundred environments, 2 requests | the order of variables does not matter, no request is taken without its gates, connections are closed however run() ends, after their last use by requests and the notifier, and the process ends |
| `overview` | 3 servers, 2 placements, 1 stream, 1 consumer, 1 call, 1 election | the call returns and gives its inbox back, and a stream is counted once, by its leader |
| `overview_consumers` | 2 servers | violated: see findings |

Why the bounds are enough, where the proofs do not make bounds needless (they
cover every safety property of the passing runs, for instances of any size; the
bounds are what liveness rests on):

- Cache: two ticks give an old and a new snapshot, which is what order and gaps
  are about. Handlers meet in `subs` only, where nothing one does to its own
  entry touches another's; two refreshers copying and closing at once are the
  interesting neighbours, so the run has two clusters and one handler. Cap 1 is
  full at once; `cache_panic` has Cap 2.
- Gateway: gates look at one request only, so one request of every kind covers
  them. Requests meet in `exists`; a delete, a delete of the consumer and a
  reader are the ways they can disturb each other, and three allow a delete
  between another's publication and its answer.
- McpStdio: the loop keeps nothing between lines, and the reader is at most one
  line ahead: three lines are a line answered, one in hand and one with the reader.
- StreamHook: hazards are between a run and its predecessor, so two runs; two
  fetches may overtake each other.
- Login: two tabs are the least that share a jar; FlowTTL 0 and SessionTTL 1 with
  three instants let either cookie expire while the other has not, and two logins
  let one disturb the other.
- Notifier: two events to have one waiting behind the other, on both subjects.
- Lifecycle: variables meet in one list, in one scalar or in validation, so pairs of
  variables of a kind over each file, and one cluster given by three; indices to 2
  (`MaxEntries` 3) leave a hole and go past the file's two entries. `Atoi` is what
  strconv.Atoi makes of the texts that occur, `Numbers` of MCLifecycle, and `Lower` and
  `Hollow` are likewise given for these texts. Two requests
  let one end while the other holds up the shutdown.
- Overview: three servers are a leader, a former leader and one that hears late;
  one election is the least that makes reports disagree. `MaxMoves` bounds elections.
  Servers differ by what they host only, so a placement stands for all that rename the
  servers: everything everywhere, and a server without anything beside one with the stream
  but not its consumer.

Deadlock is checked in `login` only: there the browser never runs out of things
to do. All other systems may stop: processes exit, requests end, the number of
ticks, runs, lines or events is bounded.

Symmetry is used in `gateway_race` (requests) and `login` (tabs), never in a run
with a liveness property.

The type invariants of StreamHook, McpStdio, Notifier and Overview are in no run:
they are proved.

## Fairness

- Goroutines that are not blocked run: weak fairness of refreshers, handlers,
  the reader and the loop of McpStdio, the callback of Notifier.
- Go's select chooses at random among ready cases, so a case that is ready again
  and again is chosen in the end: strong fairness of `Stop`, `SeeGone`,
  `Receive \/ SeeClosed` and of the cases of Serve's select.
- Timers fire: `Timeout` of Gateway; in StreamHook the interval and, with fetch's
  own ends, the answer to each poll; in Overview the end of the window and of Flush. In
  OverviewCache the shutdown timeout has no fairness, so that `StreamsEndOnCancel`
  does not lean on it.
- In Lifecycle run() goes on (`WF` of `Load \/ Start \/ End`): its waits are for the
  issuer, whose request has the process context, and for Shutdown,
  which has its timer. Nothing is assumed of clients, handlers or refreshers.
- Handlers of Gateway run (`WF` of `Handle`) once they have what they wait for. A
  handler that reads a body is not enabled before it is there.
- Never assumed: that a client sends its body, reads, writes, leaves or reconnects; that
  NATS answers; that a webhook does; that a signal arrives.

`StreamsEndOnCancel` holds for clients that do not block a write for ever, which
is a premise of the property: the server sets no write timeout. `EveryRequestEnds`
likewise begins when the client has sent its body or is gone: both servers set a
ReadHeaderTimeout and no ReadTimeout (main.go:146 of cheshmhayash, main.go:145 of
cheshmhayash-mcp), so a client that stalls in a body holds its handler for ever.
`StopsWhenTold` and `ReadMeansAnswered` except a server that hangs in a write to stdout.

## Findings

Three runs end in a counterexample.

- `cache_panic`: broadcast sends to a copied list outside subMu, and Unsubscribe
  closes the channel in between: the refresher panics and takes the process
  down. The proofs show that this needs a client's disconnect
  (`PanicOnlyAfterDisconnect`): shutdown alone never causes it.
- `gateway_success`: JetStream's error envelope is passed on with status 200.
- `overview_consumers`: a consumer is a raft group of its own. aggregateOverview looks
  at consumers in the report of their stream's leader only (api.ts:157-165) and counts
  those that server leads as well (api.ts:167): a consumer led elsewhere is in no
  total, though api.ts:113 says each is counted once.

Seen while modelling, and not runs of their own:

- After a read error both `errs` and the closed channel are ready, and Serve returns
  the error or nil, as select happens to choose (server.go:56, 68, 79).
- A failed refresh is sent as an SSE event named "error" (jsm.go:146), which the browser gives
  to the listener for transport errors: the view says the connection is lost
  (useOverviewStream.ts:92, 100; StreamStatus.tsx:14) while it is up.
- Two clusters of one name are no error (config.go:288-297). The manager keeps the later
  connection and never closes the earlier (cluster.go:100), which
  `ConnectionsGivenBack` therefore leaves out, and the notifier subscribes twice on
  the one (notify.go:77-79).
- config.go:247-248 promises callers of Load settings they can use "without further
  checks"; notify entries are checked by notify.New only, after the connections are open.
- A listener that fails ends the process with status 0 (main.go:149-168).
- A variable of an unknown section, and extra parts after some names, are taken
  without a word; of two that differ in case only, the later in os.Environ wins; a negative
  index panics (config.go:419-422).
- A client that stalls in the body of an update, a kick or a POST /mcp holds its handler
  until it leaves: no timeout covers the body.
- updateStream says that a quoted stream name is valid JSON and encoding it "can't fail"
  (jsm.go:216-217). strconv.Quote writes `\x01` or `\a` for control characters, which is
  no JSON: the request is answered 500, and nothing is sent.
- Servers that disagree on a leader are not reconciled by aggregateOverview: a stream that
  two servers claim to lead is counted twice. `StreamCountedOnce` speaks of calls during
  which they agreed.
- Subscribe's greeting may follow a newer snapshot (it reads the cache and sends
  without a lock); that is the one snapshot `OrderedButForGreeting` leaves out.
- PUT with the body `null` panics in updateStream (jsm.go:218, the map is nil);
  net/http recovers, and `RefusedUntouched` shows that nothing was sent.
- A poll that fails after the cluster was switched writes its error under the new
  cluster (useOverviewStream.ts:65, `catch` does not look at the flag).
- A polled overview is labelled live (useOverviewStream.ts:49), where
  StreamStatus.tsx:12 reserves that for pushed ones.
- http.go:51-52 says a client's disconnect cancels NATS requests in flight; no
  tool uses its context. http.go:15-16 says 204 for notifications, line 59
  answers 202.
- notify.go:103 says that Close drains the subscriptions; it unsubscribes, which
  discards what waits.
- The MCP tools ask for a confirmation of lame-duck and kick (tools.go:294), the HTTP
  routes for the same actions do not (admin.go:125-162).
- auth.go:169 and middleware.go:44 speak of settings edited "on the next call";
  settings are read once, at the start.
- Two tabs that sign in at once share one flow cookie: a callback that mismatches
  also clears the cookie of the other login. `LoginRefusedForAReason` names it.

## Proofs

TLAPS proves, for every value of the constants:

`OverviewCacheProofs` (assumption `CapAssumption`: a channel has
room for at least one snapshot): `TypeCorrect`, `CacheLeads`, `ChannelsReleased`,
`StreamOrder`, `NoGap`, `PanicOnlyAfterDisconnect` and `ImplementsFeed`. None of
the properties is inductive by itself. `IInv` adds: the cache lags the tick only
between Fetch and Store (`TickInv`); a copied list holds channels of its own
cluster, closed ones only if their client left (`PendingInv`, without which a
shutdown could look like the cause of a panic); what a handler's place says
about its channel (`HandlerInv`); the position of the greeting, and that nothing
else in the stream is as new as a tick still to be sent (`OrderInv`); and that
whoever is past Get has the latest snapshot or is about to send it to itself
(`JoinInv`). There is one lemma for each conjunct, with one step for each action.
`ImplementsFeed` shows that initial states map to initial states and that each
step is a step of the feed or a stutter; its hardest case is a send, where
`OrderInv` gives that the stream stays ascending but for one.

`GatewayProofs` (assumption `AsksAssumption`: requests are of the kinds a client
can send): `TypeCorrect`, `Entitlement`, `RefusalIsFinal`, `NoRepetition` and
`ReportsAreTrue`. `IInv` says for each place a request can be in what was decided
before it (`GateInv`: a tool's own refusal, `toolRefused`, is told from a failure of
NATS), and for each state of its NATS request what the upstream
has done (`WireInv`). That a deleted stream stays deleted is the only conjunct
that other requests can disturb.

`McpStdioProofs` (assumption `ScriptsAssumption`: scripts are sequences of
lines): `TypeCorrect`, `Order` and `GracefulEnd`. `IInv` says that at most one
line is in hand and later than all answered (`OrderInv`), that a scanned line
that is due an answer is with the reader, in hand or answered (`CompleteInv`),
and why the channel was closed (`EndInv`).

`StreamHookProofs` (assumption `BoundsAssumption`: the bounds are numbers): `TypeCorrect`,
`Selected`, `IntervalCleared` and `PollingReplaces`. That the overview on screen is
the selected cluster's is not inductive: it holds because what is displayed belongs
to the last run (`ShownInv`) and the last run is the selected cluster's
(`RunInv`), and a poll that settles remembers a run that exists (`PollInv`).

`NotifierProofs` (for any events, providers and advisories, with no assumption):
`TypeCorrect`, `EachProvider` and `Quiet`. `PostInv` says exactly how many posts were
started for each event, subject and provider: all after the callback, none before it,
and during its loop those the loop has come to; for that `QueueInv` has to keep a
message in one place. `CloseInv` says that nothing is subscribed once Close returned.

`LifecycleProofs` (assumptions `FilesAssumption`, `EnvsAssumption`,
`MaxEntriesAssumption`: what a file and an environment may contain, and that the
bound on entries covers both; `AtoiAssumption`): `TypeCorrect`, `LoadMerges`, `Gates`,
`Connections` and `NotAfterClose`. `LoadMerges` first shows that a variable's name
stands for one setting at most, so that a variable changes one setting or none
(`ApplyMeans`); what has been laid over the file is then described without the order
it came in (`Layered`), one more variable extends the description (`LayStep`), and when
none is left it is the merge (`LaidMerged`). The others rest on where each connection is
(`ConnInv`), that settings are validated before anything uses them (`GateInv`), that
nothing listens or runs when the deferred calls begin unless Shutdown gave up or the
process died (`EndInv`), and when the notifier is subscribed (`SubsInv`).

`LoginProofs` (assumptions `TimeAssumption`, `FilesAssumption`: lifetimes are numbers,
settings name people; `MarksAssumption`: no cookie and a cookie left alone are two marks
and no cookies): `TypeCorrect` and the three action properties `LoginRefused`,
`SessionLost` and `Served`. The server remembers nothing, so the invariant is about
what travels: a flow cookie, in the jar or in a reply, is that of a login that was
started (`FlowGood`); a session cookie that of one that ended in a session
(`SessionGood`); a reply that takes a session away was given for one that the settings of
then did not accept, nor will at any later time (`Refused`); and the login that
touched the flow cookie last owns it until its callback (`TouchInv`), which is why a
refusal needs another tab, a second callback, a new key or a late return. All of it
is kept by time and by what is added to the histories (`Grows`), so each action has
to show its own reply good only.

`OverviewProofs` (assumptions `BoundAssumption`: the bound on elections is a number;
`ConsumerAssumption`: a stream's consumers are finitely many; `NoneAssumption`: no leader
is no server): `TypeCorrect`,
`InboxBack` and `CountedOnce`. A server is in one place at a time, asked, in the inbox or
among the replies (`FromInv`), so no reply is there twice; an inbox is subscribed
exactly between Subscribe and the end, and empty otherwise (`SubInv`); a report names
what its server hosts (`HostInv`); what a call that
is still steady was told is how things are (`SteadyInv`). `CountedOnce` then goes by
induction over the reports. The library's induction theorems take an operator, which the
provers cannot instantiate, but `WFMin` takes a set: `Least` and `Induct` get induction
over numbers from it. `EntriesExist` shows with it that the recursive function in
aggregateOverview exists, and `ShownMeans` and `CountMeans` what it adds up to.

Every invariant and every action property of the passing runs is a theorem.
What stays with TLC are the liveness properties (fairness and ENABLED are out of the
prover's reach): `RefresherNeverBlocked`, `StreamsEndOnCancel`, `DisconnectReleases`,
`EveryRequestEnds`, `ReadMeansAnswered`, `StopsWhenTold`, `FallbackShows`,
`NoBackpressure`, `Exits` and `CallsEnd`.

## Not modelled

- What is derived from settings (durations, levels) and the log of what was loaded.
- Of the aggregation: the cluster's name, the sums of messages and bytes,
  accounts beyond one; and the fetch wrappers around it.
- Options of the NATS connection and its reconnects, which are the client library's.
- Frontend views: local form state and rendering.
- Token checks, signatures, PKCE and claims: a cookie or a token is what it
  resolves to.
- Payloads, subjects and schemas; logging and formatting; static files and CORS.
- Charts, images and workflows, which hold no program logic.

## Plan

Done: 1. `OverviewCache` with `OverviewFeed` and proofs, 2. `Gateway` with proofs,
3. `McpStdio` with proofs, 4. `Notifier`, 5. `StreamHook`, 6. `Login`, 7. `Config`
and `Lifecycle`, 8. `Overview`, 9. proofs of `StreamHook`, `Notifier`, `Lifecycle`,
`Overview` and `Login`.

Next:

10. Safety lemmas under the liveness properties: that no reachable state of a
    fair process is stuck (for each place an action that is enabled, by its guard),
    which is the part of liveness that a proof can reach.
11. Abstract specifications for `McpStdio` (a queue of answers) and `Overview` (one
    answer that is right or cut short), with proofs that they are implemented.
