------------------------------ MODULE Gateway ------------------------------
(***************************************************************************)
(* The two front doors of a cluster: the HTTP API (internal/handler) and   *)
(* the MCP server's POST /mcp (internal/mcp).  Each turns a request into   *)
(* one NATS request (internal/natsx) once its gates are passed, and the    *)
(* answer into a status.  The client's part is to send the body: a handler *)
(* that reads one waits for it, and no timeout ends that wait.             *)
(*                                                                         *)
(* A request is what its gates look at: the door and operation, the role   *)
(* the credentials resolve to, the confirmation, whether the cluster is    *)
(* configured, what the arguments are, and for MCP whether there is an id. *)
(* The upstream is one stream with one consumer; the rest of its state is  *)
(* told apart only by who changed it (applied).                            *)
(***************************************************************************)
EXTENDS Naturals, FiniteSets

CONSTANTS
  Request,   \* the requests of a behaviour
  Asks,      \* what they may ask
  Settings   \* how the server may be configured

Destructive == {"purgeStream", "deleteStream", "deleteConsumer",
                "metaStepdown", "streamStepdown", "consumerStepdown"}
ServerAction == {"reload", "lameDuck", "kick"}
Write == Destructive \cup ServerAction \cup {"updateStream"}

\* Reads that ask every server and collect what comes back, and those that ask one.
Fanout == {"ping", "pingEndpoint", "accountEndpoint", "overview"}
Lookup == {"serverEndpoint", "listStreams", "streamInfo", "listConsumers", "consumerInfo"}
Op == Write \cup Fanout \cup Lookup

\* Arguments are good or bad (unknown endpoint, no cid, a body of the wrong shape); an
\* update's may be the JSON value null, or leave the name out where the stream's name,
\* quoted the way Go quotes, is no JSON.
Asked ==
  [door : {"http", "mcp"}, op : Op, role : {"none", "readonly", "admin"},
   confirm : BOOLEAN, configured : BOOLEAN, id : BOOLEAN,
   args : {"good", "bad", "null", "unquotable"}]

\* Only MCP requests can lack an id; only an update can be null or unquotable.
Askable == {a \in Asked : /\ a.door = "http" => a.id
                          /\ a.args \in {"null", "unquotable"} => a.op = "updateStream"}

ASSUME AsksAssumption == Asks \subseteq Askable

\* Is the session check on, is /mcp gated by tokens, and CHESHMHAYASH_MCP_WRITE.
Setting == [authn : BOOLEAN, mcpAuth : BOOLEAN, mcpWrite : BOOLEAN]

ASSUME SettingsAssumption == Settings \subseteq Setting

VARIABLES
  set,      \* the settings the server was started with
  req,      \* what each request asks
  sent,     \* of the body its handler reads: partly, all, or broken off
  pc,       \* new, handler, waiting (for NATS), done or aborted (panic)
  status,   \* the HTTP status answered, 0 before
  body,     \* what kind of body was answered
  wire,     \* what of the request is on the NATS connection
  exists,   \* do the stream and the consumer exist upstream?
  applied   \* how often the upstream carried the request out

vars == <<set, req, sent, pc, status, body, wire, exists, applied>>

Status == {0, 200, 202, 400, 401, 403, 404, 428, 500, 502, 504}
Refused == {400, 401, 403, 404, 428, 500}

\* A tool's own gates refuse (toolRefused) in the same form in which NATS fails (toolError).
Body == {"none", "message", "result", "jsError", "toolError", "toolRefused", "rpcError"}
Wire == {"none", "request", "noResponders", "result", "jsError", "garbage", "lost"}

\* The stream an operation needs, or the consumer; server actions need neither.
Target(op) ==
  IF op \in {"deleteConsumer", "consumerStepdown", "consumerInfo"} THEN {"consumer"}
  ELSE IF op \in {"purgeStream", "deleteStream", "updateStream", "streamStepdown",
                  "streamInfo", "listConsumers"} THEN {"stream"}
  ELSE {}

\* POST /mcp, kick and update read a body; the others answer without one.
ReadsBody(q) == q.door = "mcp" \/ q.op \in {"kick", "updateStream"}

Init ==
  /\ set \in Settings
  /\ req \in [Request -> Asks]
  /\ sent = [r \in Request |-> IF ReadsBody(req[r]) THEN "partly" ELSE "all"]
  /\ pc = [r \in Request |-> "new"]
  /\ status = [r \in Request |-> 0]
  /\ body = [r \in Request |-> "none"]
  /\ wire = [r \in Request |-> "none"]
  /\ exists \in [{"stream", "consumer"} -> BOOLEAN]
  /\ exists["consumer"] => exists["stream"]
  /\ applied = [r \in Request |-> 0]

upstreamVars == <<exists, applied>>

\* The rest of the body arrives, or the client is gone before it does.  Neither need ever
\* happen: of reading a request the servers limit only the time for its headers.
ClientSends(r) ==
  /\ sent[r] = "partly"
  /\ \E s \in {"all", "broken"} : sent' = [sent EXCEPT ![r] = s]
  /\ UNCHANGED <<set, req, pc, status, body, wire, upstreamVars>>

\* The request moves on without touching NATS.
Goto(r, from, to) ==
  /\ pc[r] = from
  /\ pc' = [pc EXCEPT ![r] = to]
  /\ UNCHANGED <<set, req, sent, upstreamVars>>

Reply(r, from, code, kind) ==
  /\ Goto(r, from, "done")
  /\ status' = [status EXCEPT ![r] = code]
  /\ body' = [body EXCEPT ![r] = kind]

Refuse(r, from, code) == Reply(r, from, code, "message") /\ UNCHANGED wire

Continue(r, to) == Goto(r, "new", to) /\ UNCHANGED <<status, body, wire>>

\* nc.Request or PublishRequest: the request is on its way, or the connection is closed.
Publish(r) ==
  /\ Goto(r, "handler", "waiting")
  /\ wire' = [wire EXCEPT ![r] = "request"]
  /\ UNCHANGED <<status, body>>

-----------------------------------------------------------------------------
(* The HTTP door. *)

\* The method is POST, PUT or DELETE; every read is a GET.
IsWriteMethod(op) == op \in Write

Denied(q) == set.authn /\ q.role = "none"
Fenced(q) == set.authn /\ q.role # "admin" /\ IsWriteMethod(q.op)

\* The session middleware, of cookies and of bearer tokens alike.
HttpAuth(r) ==
  /\ req[r].door = "http"
  /\ \/ Denied(req[r]) /\ \E code \in {401, 403} : Refuse(r, "new", code)
     \/ ~Denied(req[r]) /\ Fenced(req[r]) /\ Refuse(r, "new", 403)
     \/ ~Denied(req[r]) /\ ~Fenced(req[r]) /\ Continue(r, "handler")

\* Mutation: the request is sent before the flag is looked at.
ConfirmAfterwards(r) ==
  /\ req[r].door = "http" /\ req[r].op \in Destructive
  /\ \/ /\ ~req[r].confirm
        /\ Reply(r, "handler", 428, "message")
        /\ wire' = [wire EXCEPT ![r] = "request"]
     \/ req[r].confirm /\ ~req[r].configured /\ Refuse(r, "handler", 404)
     \/ req[r].confirm /\ req[r].configured /\ Publish(r)

\* Purge, delete and step-down: confirmation, cluster, request.
HttpDestructive(r) ==
  /\ req[r].door = "http" /\ req[r].op \in Destructive
  /\ \/ ~req[r].confirm /\ Refuse(r, "handler", 428)
     \/ req[r].confirm /\ ~req[r].configured /\ Refuse(r, "handler", 404)
     \/ req[r].confirm /\ req[r].configured /\ Publish(r)

\* Reload, lame-duck and kick; only kick has a body to decode.
HttpServerAction(r) ==
  LET decoded == sent[r] = "all" /\ (req[r].op = "kick" => req[r].args = "good")
  IN /\ req[r].door = "http" /\ req[r].op \in ServerAction
     /\ \/ ~req[r].configured /\ Refuse(r, "handler", 404)
        \/ req[r].configured /\ sent[r] # "partly" /\ ~decoded /\ Refuse(r, "handler", 400)
        \/ req[r].configured /\ decoded /\ Publish(r)

\* The body is decoded into a map, given the name if it lacks one, and encoded again.
\* null leaves the map nil, and adding the name to it panics: net/http recovers and
\* drops the connection.  A name that is no JSON does not encode.
HttpUpdate(r) ==
  LET decoded(args) == req[r].configured /\ sent[r] = "all" /\ req[r].args = args
  IN /\ req[r].door = "http" /\ req[r].op = "updateStream"
     /\ \/ ~req[r].configured /\ Refuse(r, "handler", 404)
        \/ req[r].configured /\ sent[r] = "broken" /\ Refuse(r, "handler", 400)
        \/ decoded("bad") /\ Refuse(r, "handler", 400)
        \/ decoded("null") /\ Goto(r, "handler", "aborted") /\ UNCHANGED <<status, body, wire>>
        \/ decoded("unquotable") /\ Refuse(r, "handler", 500)
        \/ decoded("good") /\ Publish(r)

\* Reads that name an endpoint refuse unknown ones.
NamesEndpoint == {"pingEndpoint", "accountEndpoint", "serverEndpoint"}

HttpRead(r) ==
  LET good == req[r].op \in NamesEndpoint => req[r].args = "good"
  IN /\ req[r].door = "http" /\ req[r].op \notin Write
     /\ \/ ~req[r].configured /\ Refuse(r, "handler", 404)
        \/ req[r].configured /\ ~good /\ Refuse(r, "handler", 400)
        \/ req[r].configured /\ good /\ Publish(r)

\* The overview comes from the cache, as data or as the error of the last refresh.
CachedOverview(r) ==
  /\ req[r].door = "http" /\ req[r].op = "overview" /\ req[r].configured
  /\ \/ Reply(r, "handler", 200, "result") /\ UNCHANGED wire
     \/ Refuse(r, "handler", 502)

-----------------------------------------------------------------------------
(* The MCP door. *)

\* Static keys, OIDC tokens or the gateway's: whoever is let in may call every tool.
McpAuthenticate(r) ==
  /\ req[r].door = "mcp"
  /\ \/ set.mcpAuth /\ req[r].role = "none" /\ Refuse(r, "new", 401)
     \/ (set.mcpAuth => req[r].role # "none") /\ Continue(r, "handler")

\* Mutation: a notification is answered as well.
McpReplyAlways(r, from, kind) == Reply(r, from, 200, kind)

\* okResponse and errResponse: nothing is said to a notification.
McpReply(r, from, kind) ==
  IF req[r].id THEN Reply(r, from, 200, kind) ELSE Reply(r, from, 202, "none")

\* Mutating tools are in the table only in write mode.
Registered(op) == op \in Write => set.mcpWrite

\* What the tools look at before they call NATS: the arguments, the confirmation,
\* the cluster; an update's arguments are good when they also encode again.
ReadAccepts(q) == q.args = "good" /\ q.configured

\* Mutation: a server action needs no confirmation, as at the HTTP door.
ServerActionUnconfirmed(q) == q.args = "good" /\ q.configured

ServerActionAccepts(q) == q.args = "good" /\ (q.op # "reload" => q.confirm) /\ q.configured
UpdateAccepts(q) == q.args = "good" /\ q.configured
DestructiveAccepts(q) == q.args = "good" /\ q.confirm /\ q.configured

ToolAccepts(q) ==
  /\ q.op \notin Write => ReadAccepts(q)
  /\ q.op \in ServerAction => ServerActionAccepts(q)
  /\ q.op = "updateStream" => UpdateAccepts(q)
  /\ q.op \in Destructive => DestructiveAccepts(q)

\* The body is read to its end, only then is it looked at.
McpUnread(r) == req[r].door = "mcp" /\ sent[r] = "broken" /\ Refuse(r, "handler", 400)

\* handleToolCall.
McpCall(r) ==
  /\ req[r].door = "mcp" /\ sent[r] = "all"
  /\ \/ ~Registered(req[r].op) /\ McpReply(r, "handler", "rpcError") /\ UNCHANGED wire
     \/ /\ Registered(req[r].op) /\ ~ToolAccepts(req[r])
        /\ McpReply(r, "handler", "toolRefused")
        /\ UNCHANGED wire
     \/ Registered(req[r].op) /\ ToolAccepts(req[r]) /\ Publish(r)

-----------------------------------------------------------------------------
(* NATS and the servers behind it. *)

OnWire(r, from, to) ==
  /\ wire[r] = from
  /\ wire' = [wire EXCEPT ![r] = to]
  /\ UNCHANGED <<set, req, sent, pc, status, body>>

\* A server carries the request out, or answers with an error envelope: because the
\* target does not exist, or for reasons of its own.  It may do so long after the caller
\* gave up: a request published while the connection is down waits in the client's buffer.
Execute(r) ==
  LET op == req[r].op
      present == \A t \in Target(op) : exists[t]
  IN \/ /\ present
        /\ OnWire(r, "request", "result")
        /\ applied' = [applied EXCEPT ![r] = @ + 1]
        /\ exists' = CASE op = "deleteStream" -> [t \in DOMAIN exists |-> FALSE]
                       [] op = "deleteConsumer" -> [exists EXCEPT !["consumer"] = FALSE]
                       [] OTHER -> exists
     \/ OnWire(r, "request", "jsError") /\ UNCHANGED <<exists, applied>>

\* Nobody listens on the subject: the server says so at once.
NoResponders(r) == OnWire(r, "request", "noResponders") /\ UNCHANGED <<exists, applied>>

\* The connection breaks, or a reply is not JSON.
Damage(r) ==
  /\ \/ \E from \in {"request", "result", "jsError"} : OnWire(r, from, "lost")
     \/ OnWire(r, "result", "garbage")
  /\ UNCHANGED <<exists, applied>>

-----------------------------------------------------------------------------
(* The answer.  No operation takes a context: a client that disconnects
   changes nothing, only NATS or the timeout ends a request. *)

Succeed(r, kind) ==
  IF req[r].door = "http" THEN Reply(r, "waiting", 200, kind) ELSE McpReply(r, "waiting", kind)

Fail(r, code) ==
  IF req[r].door = "http" THEN Reply(r, "waiting", code, "message")
  ELSE McpReply(r, "waiting", "toolError")

\* Mutation: an answer is given as soon as the request is sent.
AnswerAtOnce(r) ==
  /\ req[r].op \notin Fanout
  /\ \/ wire[r] \in {"request", "result"} /\ Succeed(r, "result")
     \/ wire[r] \in {"garbage", "noResponders"} /\ Fail(r, 502)
  /\ UNCHANGED wire

\* The reply of a single server.  An error envelope is JSON like any other.
Answer(r) ==
  /\ req[r].op \notin Fanout
  /\ \/ wire[r] \in {"result", "jsError"} /\ Succeed(r, wire[r])
     \/ wire[r] \in {"garbage", "noResponders"} /\ Fail(r, 502)
  /\ UNCHANGED wire

\* A fan-out takes whatever has arrived when its window ends, if only nothing.
Collect(r) ==
  /\ req[r].op \in Fanout
  /\ Succeed(r, "result")
  /\ UNCHANGED wire

\* Mutation: a request that timed out is sent once more.
TimeoutRetries(r) ==
  \/ Fail(r, 504) /\ UNCHANGED wire
  \/ /\ applied[r] < 2
     /\ Goto(r, "waiting", "waiting")
     /\ wire' = [wire EXCEPT ![r] = "request"]
     /\ UNCHANGED <<status, body>>

\* Mutation: the timer runs only while the connection is up.
TimeoutUnlessLost(r) ==
  /\ wire[r] # "lost"
  /\ Fail(r, 504)
  /\ UNCHANGED wire

\* nc.Request, or the Flush of a fan-out, has waited long enough.  The request stays
\* where it is.
Timeout(r) == Fail(r, 504) /\ UNCHANGED wire

\* The connection is closed for good, before the request was sent or after; a fan-out
\* under way takes that for the end of its window.
ConnClosed(r) ==
  /\ Fail(r, 502)
  /\ \/ wire[r] = "request" /\ wire' = [wire EXCEPT ![r] = "none"]
     \/ req[r].op \notin Fanout /\ UNCHANGED wire

-----------------------------------------------------------------------------
Handle(r) ==
  \/ HttpAuth(r) \/ HttpDestructive(r) \/ HttpServerAction(r) \/ HttpUpdate(r)
  \/ HttpRead(r) \/ CachedOverview(r)
  \/ McpAuthenticate(r) \/ McpUnread(r) \/ McpCall(r)

Upstream(r) == Execute(r) \/ NoResponders(r) \/ Damage(r)

Return(r) == Answer(r) \/ Collect(r) \/ Timeout(r) \/ ConnClosed(r)

Next == \E r \in Request : ClientSends(r) \/ Handle(r) \/ Upstream(r) \/ Return(r)

\* Handlers that are not waiting for a client run, and timers fire.  Nothing is assumed
\* of NATS, and nothing of the clients: ClientSends has no fairness.
Fairness == \A r \in Request : WF_vars(Handle(r)) /\ WF_vars(Timeout(r))

Spec == Init /\ [][Next]_vars /\ Fairness

-----------------------------------------------------------------------------
(* Properties. *)

\* The values the state ranges over; only MCP notifications end without a body.
TypeOK ==
  /\ set \in Settings
  /\ req \in [Request -> Asks]
  /\ sent \in [Request -> {"partly", "all", "broken"}]
  /\ pc \in [Request -> {"new", "handler", "waiting", "done", "aborted"}]
  /\ status \in [Request -> Status]
  /\ body \in [Request -> Body]
  /\ wire \in [Request -> Wire]
  /\ exists \in [{"stream", "consumer"} -> BOOLEAN]
  /\ applied \in [Request -> Nat]
  /\ \A r \in Request :
       /\ pc[r] = "done" /\ body[r] = "none" => ~req[r].id
       /\ status[r] = 200 => req[r].id

\* What a request must bring before a server may act on it.  The MCP door wants lame-duck
\* and kick confirmed, the HTTP door does not.
Entitled(q) ==
  /\ q.configured
  /\ q.door = "http" =>
       /\ set.authn => q.role = "admin" \/ (q.role = "readonly" /\ q.op \notin Write)
       /\ q.op \in Destructive => q.confirm
  /\ q.door = "mcp" =>
       /\ set.mcpAuth => q.role # "none"
       /\ q.op \in Write => set.mcpWrite
       /\ q.op \in Destructive \cup {"lameDuck", "kick"} => q.confirm

\* No server ever acts on a request that lacks the role, the confirmation or the
\* write mode its door demands, whichever gate came first and however late it acts.
OnlyEntitledApplied == \A r \in Request : applied[r] > 0 => Entitled(req[r])

\* A refusal is final, a middleware's, a handler's or a tool's: nothing was sent to NATS,
\* and nothing turns up upstream afterwards.
RefusedUntouched ==
  \A r \in Request :
    status[r] \in Refused \/ body[r] \in {"rpcError", "toolRefused"} \/ pc[r] = "aborted" =>
      applied[r] = 0 /\ wire[r] = "none"

\* Whatever the client is told, even that the request timed out, no server carries
\* one request out twice.
AtMostOnce == \A r \in Request : applied[r] <= 1

\* A write is reported as done only after the server did it, and a stream reported as
\* deleted is gone, also when other requests run and time out in between.
ResultMeansApplied ==
  \A r \in Request : body[r] = "result" /\ req[r].op \in Write =>
    /\ applied[r] = 1
    /\ req[r].op = "deleteStream" => ~exists["stream"] /\ ~exists["consumer"]

\* Every request is answered, or its handler dies, whatever NATS does, once its client has
\* sent the body or is gone.  A client that stalls in a body holds its handler for ever.
EveryRequestEnds == \A r \in Request : sent[r] # "partly" ~> pc[r] \in {"done", "aborted"}

\* handler.go:136, "Success-only (200) - error paths go through writeJSON/upstreamError".
SuccessMeansDone ==
  \A r \in Request :
    req[r].door = "http" /\ status[r] = 200 /\ req[r].op \in Write => applied[r] = 1

=============================================================================
