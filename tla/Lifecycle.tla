----------------------------- MODULE Lifecycle -----------------------------
(***************************************************************************)
(* A process from its start to its end: run() of cmd/cheshmhayash and      *)
(* runHTTP() of cmd/cheshmhayash-mcp, with what they start and close:      *)
(* config.Load (module Config), natsx.NewManager and Close, the notifier's *)
(* subscriptions, auth.New, the overview cache and the HTTP server.        *)
(*                                                                         *)
(* Connections are numbered by the entry of the settings they were opened  *)
(* for.  The manager keeps them by name: one of a later entry takes the    *)
(* place of an earlier one with the same name.  What the parts do while    *)
(* the process runs is in OverviewCache, Gateway and Notifier.             *)
(***************************************************************************)
EXTENDS Config

CONSTANTS
  Files,      \* what settings.toml may hold
  Envs,       \* which variables may be set
  Request,    \* the requests of a behaviour
  MaxEntries  \* how many clusters the settings may have at most

\* A file gives its lists entries with some of their fields; texts are texts.
ASSUME FilesAssumption ==
  \A f \in Files :
    /\ \A p \in DOMAIN f.scalar : f.scalar[p] \in STRING
    /\ \A l \in List : f.list[l] \in Seq(Range(f.list[l]))
    /\ \A l \in List : \A e \in Range(f.list[l]) :
         DOMAIN e \subseteq Fields[l] /\ \A x \in DOMAIN e : e[x] \in STRING

ASSUME EnvsAssumption ==
  \A e \in Envs : \A v \in e : v.parts \in Seq(STRING) /\ v.parts # <<>> /\ v.val \in STRING

ASSUME MaxEntriesAssumption ==
  /\ MaxEntries \in Nat
  /\ \A f \in Files : Len(f.list["nats"]) <= MaxEntries
  /\ \A e \in Envs : \A v \in OfList(e, "nats") :
       Len(v.parts) > 1 /\ v.parts[2] \in DOMAIN Atoi => Atoi[v.parts[2]] < MaxEntries

VARIABLES
  bin,       \* which of the two programs runs
  file, env, \* its settings.toml and its environment
  todo,      \* the variables still to be laid over
  s,         \* the settings so far
  phase,     \* where run() is
  next,      \* the entry that is connected or subscribed next
  conn,      \* the connection of each entry: none, open or closed (draining)
  mgr,       \* the entries whose connection the manager holds
  subs,      \* how often the notifier has subscribed on each connection
  authn,     \* is there an authenticator?
  cache,     \* the refreshers: none, running or stopped
  sock,      \* the listener: none, listening or closed
  cancelled, \* the process context
  timedOut,  \* did Shutdown give up waiting?
  req        \* the requests

confVars == <<bin, file, env>>
loadVars == <<todo, s>>
connVars == <<conn, mgr>>
srvVars == <<authn, cache, sock, req>>
endVars == <<cancelled, timedOut>>
vars == <<confVars, loadVars, phase, next, connVars, subs, srvVars, endVars>>

Phase == {"start", "overlay", "connect", "notify", "subscribe", "auth", "serve",
          "shutdown", "unsubscribe", "drain", "return", "exited", "panicked", "died"}

\* idle; accepted by the server; a call; an overview stream the cache knows, one it was
\* told of too late, one it has closed; the open stream of GET /mcp; ended; cut off.
Req == {"idle", "call", "subscribed", "late", "closing", "stream", "ended", "cut"}
Running == {"call", "subscribed", "late", "closing", "stream"}

Entry == 1 .. MaxEntries
Nats == s.list["nats"]
Name(i) == Nats[i]["name"]

Init ==
  /\ bin \in {"dashboard", "mcp"}
  /\ file \in Files
  /\ env \in Envs
  /\ todo = env
  /\ s = Default
  /\ phase = "start"
  /\ next = 1
  /\ conn = [i \in Entry |-> "none"]
  /\ mgr = {}
  /\ subs = [i \in Entry |-> 0]
  /\ authn = FALSE
  /\ cache = "none"
  /\ sock = "none"
  /\ cancelled = FALSE
  /\ timedOut = FALSE
  /\ req = [r \in Request |-> "idle"]

-----------------------------------------------------------------------------
(* config.Load. *)

\* Defaults, then the file; a file that cannot be read or decoded ends the process.
LoadFile ==
  /\ phase = "start"
  /\ \/ s' = Unmarshal(file) /\ phase' = "overlay"
     \/ phase' = "exited" /\ UNCHANGED s
  /\ UNCHANGED <<confVars, todo, next, connVars, subs, srvVars, endVars>>

\* One variable, in whatever order os.Environ has them.
overlayEnv ==
  /\ phase = "overlay"
  /\ \E v \in todo :
       LET result == applyEnvPath(s, v)
       IN /\ todo' = todo \ {v}
          /\ s' = result.s
          /\ phase' = CASE result.end = "ok" -> "overlay"
                        [] result.end = "error" -> "exited"
                        [] result.end = "panic" -> "panicked"
  /\ UNCHANGED <<confVars, next, connVars, subs, srvVars, endVars>>

Validate ==
  /\ phase = "overlay"
  /\ todo = {}
  /\ phase' = IF validate(s) THEN "connect" ELSE "exited"
  /\ UNCHANGED <<confVars, loadVars, next, connVars, subs, srvVars, endVars>>

-----------------------------------------------------------------------------
(* natsx.NewManager and Close.  A server that is down is no failure
   (RetryOnFailedConnect); credentials that cannot be read are. *)

\* Those the manager holds.
Drained == [i \in Entry |-> IF i \in mgr THEN "closed" ELSE conn[i]]

\* Mutation: the manager keeps a list.
ConnectKeepsBoth ==
  /\ phase = "connect"
  /\ next <= Len(Nats)
  /\ conn' = [conn EXCEPT ![next] = "open"]
  /\ mgr' = mgr \cup {next}
  /\ next' = next + 1
  /\ UNCHANGED <<confVars, loadVars, phase, subs, srvVars, endVars>>

Connect ==
  /\ phase = "connect"
  /\ next <= Len(Nats)
  /\ conn' = [conn EXCEPT ![next] = "open"]
  /\ mgr' = {i \in mgr : Name(i) # Name(next)} \cup {next}
  /\ next' = next + 1
  /\ UNCHANGED <<confVars, loadVars, phase, subs, srvVars, endVars>>

\* Mutation: the connections made so far are forgotten.
ConnectFailsOpen ==
  /\ phase = "connect"
  /\ next <= Len(Nats)
  /\ phase' = "exited"
  /\ UNCHANGED <<confVars, loadVars, next, connVars, subs, srvVars, endVars>>

ConnectFails ==
  /\ phase = "connect"
  /\ next <= Len(Nats)
  /\ conn' = Drained
  /\ phase' = "return"
  /\ UNCHANGED <<confVars, loadVars, next, mgr, subs, srvVars, endVars>>

\* Only the dashboard has a notifier.
Connected ==
  /\ phase = "connect"
  /\ next > Len(Nats)
  /\ next' = 1
  /\ phase' = IF bin = "dashboard" THEN "notify" ELSE "auth"
  /\ UNCHANGED <<confVars, loadVars, connVars, subs, srvVars, endVars>>

-----------------------------------------------------------------------------
(* The notifier. *)

\* notify.New takes every entry or none; on an error the manager is closed.
NewNotifier ==
  LET entries == Range(s.list["notify"])
      good == \A e \in entries :
                e["url"] # "" /\ e["provider"] \in {"slack", "mattermost", "matrix"}
  IN /\ phase = "notify"
     /\ phase' = IF ~good THEN "drain" ELSE IF entries = {} THEN "auth" ELSE "subscribe"
     /\ UNCHANGED <<confVars, loadVars, next, connVars, subs, srvVars, endVars>>

\* For each entry, on the connection the manager has under its name; a subscription that
\* fails is logged.
Subscribe ==
  /\ phase = "subscribe"
  /\ IF next > Len(Nats) THEN phase' = "auth" /\ UNCHANGED <<next, subs>>
     ELSE /\ next' = next + 1
          /\ \/ \E i \in mgr : /\ Name(i) = Name(next)
                               /\ subs' = [subs EXCEPT ![i] = @ + 1]
             \/ UNCHANGED subs
          /\ UNCHANGED phase
  /\ UNCHANGED <<confVars, loadVars, connVars, srvVars, endVars>>

-----------------------------------------------------------------------------
(* Authentication, the cache and the HTTP server. *)

\* auth.New asks the issuer for its endpoints, under the process context.  A failure
\* unwinds what is there: the notifier of the dashboard, and the manager.
NewAuth ==
  /\ phase = "auth"
  /\ \/ /\ On(s, <<"enabled">>) => ~cancelled
        /\ authn' = On(s, <<"enabled">>)
        /\ cache' = IF bin = "dashboard" THEN "running" ELSE "none"
        /\ phase' = "serve"
     \/ /\ On(s, <<"enabled">>)
        /\ phase' = IF bin = "dashboard" THEN "unsubscribe" ELSE "drain"
        /\ UNCHANGED <<authn, cache>>
  /\ UNCHANGED <<confVars, loadVars, next, connVars, subs, sock, req, endVars>>

\* ListenAndServe, on a goroutine of its own: it listens, or fails and cancels.
Listen ==
  /\ phase = "serve"
  /\ sock = "none"
  /\ \/ sock' = "listening" /\ UNCHANGED cancelled
     \/ sock' = "closed" /\ cancelled' = TRUE
  /\ UNCHANGED <<confVars, loadVars, phase, next, connVars, subs, authn, cache, req, timedOut>>

\* SIGINT or SIGTERM.
Signal ==
  /\ phase \notin {"exited", "panicked", "died"}
  /\ ~cancelled
  /\ cancelled' = TRUE
  /\ UNCHANGED <<confVars, loadVars, phase, next, connVars, subs, srvVars, timedOut>>

Becomes(r, from, to) ==
  /\ req[r] \in from
  /\ req' = [req EXCEPT ![r] = to]
  /\ UNCHANGED <<confVars, loadVars, phase, next, connVars, subs, authn, cache, sock, endVars>>

\* A request is accepted: a call, GET /mcp, or an overview stream, which is a call until
\* it has subscribed.
Accept(r) ==
  /\ sock = "listening"
  /\ \/ Becomes(r, {"idle"}, "call")
     \/ bin = "mcp" /\ Becomes(r, {"idle"}, "stream")

SubscribeStream(r) ==
  /\ bin = "dashboard"
  /\ Becomes(r, {"call"}, IF cache = "running" THEN "subscribed" ELSE "late")

\* A call ends, and so does a stream the cache has closed.
Return(r) == Becomes(r, {"call", "closing"}, "ended")

\* The client of a stream leaves.
Leave(r) == Becomes(r, {"subscribed", "late", "closing", "stream"}, "ended")

\* The refreshers see the context and close the channels of their subscribers.
closeSubs ==
  /\ cancelled
  /\ cache = "running"
  /\ phase \notin {"exited", "died"}
  /\ cache' = "stopped"
  /\ req' = [r \in Request |-> IF req[r] = "subscribed" THEN "closing" ELSE req[r]]
  /\ UNCHANGED <<confVars, loadVars, phase, next, connVars, subs, authn, sock, endVars>>

\* The process is gone, and whatever runs with it.
CutOff == req' = [r \in Request |-> IF req[r] \in Running THEN "cut" ELSE req[r]]

\* The client of a stream leaves while a refresher, which has copied its channel, has still
\* to send to it: the send on the closed channel ends the process where it is, and no
\* deferred call runs.  OverviewCache has the two steps apart.
RefresherDies(r) ==
  /\ cache = "running"
  /\ req[r] = "subscribed"
  /\ phase \notin {"exited", "panicked"}
  /\ phase' = "died"
  /\ sock' = "closed"
  /\ CutOff
  /\ UNCHANGED <<confVars, loadVars, next, connVars, subs, authn, cache, endVars>>

-----------------------------------------------------------------------------
(* The end. *)

\* <-ctx.Done(), and Shutdown closes the listener, or keeps it from being opened.
Shutdown ==
  /\ phase = "serve"
  /\ cancelled
  /\ sock' = "closed"
  /\ phase' = "shutdown"
  /\ UNCHANGED <<confVars, loadVars, next, connVars, subs, authn, cache, req, endVars>>

\* The deferred calls begin: notifier.Close for the dashboard.
Unwind == phase' = IF bin = "dashboard" THEN "unsubscribe" ELSE "drain"

\* Mutation: Shutdown does not wait.
ShutdownAtOnce ==
  /\ phase = "shutdown"
  /\ Unwind
  /\ UNCHANGED <<confVars, loadVars, next, connVars, subs, srvVars, endVars>>

\* Every connection is idle.
ShutdownDone ==
  /\ phase = "shutdown"
  /\ \A r \in Request : req[r] \notin Running
  /\ Unwind
  /\ UNCHANGED <<confVars, loadVars, next, connVars, subs, srvVars, endVars>>

\* Mutation: Shutdown waits for a stream nobody closes, however long.
TimeoutUnlessLate ==
  /\ phase = "shutdown"
  /\ \A r \in Request : req[r] # "late"
  /\ timedOut' = TRUE
  /\ Unwind
  /\ UNCHANGED <<confVars, loadVars, next, connVars, subs, srvVars, cancelled>>

\* shutdownTimeout.
ShutdownTimeout ==
  /\ phase = "shutdown"
  /\ timedOut' = TRUE
  /\ Unwind
  /\ UNCHANGED <<confVars, loadVars, next, connVars, subs, srvVars, cancelled>>

closeNotifier ==
  /\ phase = "unsubscribe"
  /\ subs' = [i \in Entry |-> 0]
  /\ phase' = "drain"
  /\ UNCHANGED <<confVars, loadVars, next, connVars, srvVars, endVars>>

\* mgr.Close: every connection starts to drain.  Nobody waits for the refreshers: one that
\* has not seen the context (cache is still running) may ask on a connection that drains,
\* and takes the error for its next snapshot.
closeManager ==
  /\ phase = "drain"
  /\ conn' = Drained
  /\ phase' = "return"
  /\ UNCHANGED <<confVars, loadVars, next, mgr, subs, srvVars, endVars>>

\* main returns.
Exit ==
  /\ phase = "return"
  /\ phase' = "exited"
  /\ CutOff
  /\ UNCHANGED <<confVars, loadVars, next, connVars, subs, authn, cache, sock, endVars>>

-----------------------------------------------------------------------------
Load == LoadFile \/ overlayEnv \/ Validate
Start == Connect \/ ConnectFails \/ Connected \/ NewNotifier \/ Subscribe \/ NewAuth
Serve(r) == Accept(r) \/ SubscribeStream(r) \/ Return(r) \/ Leave(r)
End == Shutdown \/ ShutdownDone \/ ShutdownTimeout \/ closeNotifier \/ closeManager \/ Exit

Next ==
  \/ Load \/ Start \/ Listen \/ Signal \/ closeSubs \/ End
  \/ \E r \in Request : Serve(r) \/ RefresherDies(r)

\* run() runs, and the timer of Shutdown fires.  Nothing is assumed of the clients, of
\* the handlers or of the issuer but that auth.New returns.
Fairness == WF_vars(Load \/ Start \/ End)

Spec == Init /\ [][Next]_vars /\ Fairness

-----------------------------------------------------------------------------
(* Properties. *)

\* The values the state ranges over; the manager holds what was connected, one a name.
TypeOK ==
  /\ bin \in {"dashboard", "mcp"}
  /\ file \in Files
  /\ env \in Envs
  /\ todo \subseteq env
  /\ DOMAIN s.scalar = Path
  /\ \A l \in List : \A e \in Range(s.list[l]) : DOMAIN e = Fields[l]
  /\ phase \in Phase
  /\ next \in 1 .. MaxEntries + 1
  /\ conn \in [Entry -> {"none", "open", "closed"}]
  /\ mgr \in SUBSET Entry
  /\ \A i, j \in mgr : conn[i] # "none" /\ (Name(i) = Name(j) => i = j)
  /\ subs \in [Entry -> 0 .. MaxEntries]
  /\ authn \in BOOLEAN
  /\ cache \in {"none", "running", "stopped"}
  /\ sock \in {"none", "listening", "closed"}
  /\ cancelled \in BOOLEAN
  /\ timedOut \in BOOLEAN
  /\ req \in [Request -> Req]

Loaded == phase \notin {"start", "overlay", "exited", "panicked", "died"}

\* Whatever the order of the environment, what is loaded has every setting from the
\* last layer that gives it (config.go:1-6), unless two variables give the same; and
\* only an index below zero makes the overlay panic.
LoadIsMerge ==
  /\ Loaded /\ Unambiguous(env) => s = Merged(file, env)
  /\ phase = "panicked" => \E v \in env : Negative(v)

\* However the layers add up, a server that has taken a request has every gate its
\* settings ask for: validate, run and MCPMiddleware look at different ones of them.
\* No key is empty, for an empty one would match a request without a token.
GatesUp ==
  (\E r \in Request : req[r] # "idle") =>
    /\ \A p \in {<<"enabled">>, <<"mcp_oauth", "enabled">>, <<"mcp_jwt", "enabled">>} :
         On(s, p) => authn
    /\ authn => \E f \in Allowed : Given(s, <<"access", f>>)
    /\ authn /\ ModeOrDefault(s) # "jwt" => s.scalar[A(<<"session", "secret">>)] \in Long
    /\ \A e \in Range(s.list["mcp_keys"]) : e["value"] # ""

\* However run() ends, half started, after a signal or because it cannot listen, it has
\* drained every connection but those whose name a later entry took.  A process that dies
\* of a refresher's panic (cache.go:181) drains nothing.
ConnectionsGivenBack ==
  phase \in {"exited", "panicked"} =>
    \A i \in Entry : conn[i] = "open" => \E j \in mgr : i < j /\ Name(i) = Name(j)

\* Requests keep their connection, and are not cut off, unless Shutdown has given up
\* waiting or the process died; and the notifier lets go of a connection before it is
\* drained.  Of the refreshers nothing is said: they may ask on connections that drain.
NothingUsedAfterClose ==
  /\ \A r \in Request :
       req[r] = "cut" \/ (req[r] \in Running /\ \E i \in Entry : conn[i] = "closed") =>
         timedOut \/ phase = "died"
  /\ \A i \in Entry : conn[i] = "closed" => subs[i] = 0

\* A process told to stop ends, and so does one that cannot listen, whatever its
\* clients hold open and wherever in its start it is.
Exits == cancelled ~> phase \in {"exited", "panicked", "died"}

=============================================================================
