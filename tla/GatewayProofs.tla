----------------------------- MODULE GatewayProofs -----------------------------
(***************************************************************************)
(* Theorems about Gateway, for every set of requests, of questions and of  *)
(* settings.                                                               *)
(*                                                                         *)
(* What must hold of a finished request depends on what it passed on its   *)
(* way, so the inductive invariant says of each place a request can be in  *)
(* what has been decided there (GateInv), and of each state of its NATS    *)
(* request what the upstream has done for it (WireInv).                    *)
(***************************************************************************)
EXTENDS Gateway, TLAPS

\* Nothing has been said and nothing sent.
Untouched(r) == wire[r] = "none" /\ applied[r] = 0

\* The door's own check is passed.
PassedDoor(r) ==
  IF req[r].door = "http" THEN ~Denied(req[r]) /\ ~Fenced(req[r])
  ELSE set.mcpAuth => req[r].role # "none"

Types ==
  /\ set \in Settings
  /\ req \in [Request -> Asks]
  /\ sent \in [Request -> {"partly", "all", "broken"}]
  /\ pc \in [Request -> {"new", "handler", "waiting", "done", "aborted"}]
  /\ status \in [Request -> Status]
  /\ body \in [Request -> Body]
  /\ wire \in [Request -> Wire]
  /\ exists \in [{"stream", "consumer"} -> BOOLEAN]
  /\ applied \in [Request -> Nat]

\* A request is entitled before anything of it is sent.
GateInv(r) ==
  /\ pc[r] \in {"new", "handler", "aborted"} => Untouched(r)
  /\ pc[r] # "done" => status[r] = 0 /\ body[r] = "none"
  /\ pc[r] = "handler" => PassedDoor(r)
  /\ pc[r] = "waiting" \/ ~Untouched(r) => Entitled(req[r])
  /\ status[r] \in Refused \/ body[r] \in {"rpcError", "toolRefused"} => Untouched(r)
  /\ pc[r] = "done" /\ body[r] = "none" => ~req[r].id
  /\ status[r] = 200 => req[r].id

\* What is on the wire tells what the upstream did, and what is deleted stays so.
WireInv(r) ==
  /\ applied[r] <= 1
  /\ wire[r] \in {"request", "jsError", "noResponders"} => applied[r] = 0
  /\ wire[r] \in {"result", "garbage"} => applied[r] = 1
  /\ body[r] = "result" /\ req[r].op \in Write => applied[r] = 1 /\ wire[r] # "request"
  /\ applied[r] = 1 /\ req[r].op = "deleteStream" => ~exists["stream"] /\ ~exists["consumer"]

IInv == Types /\ \A r \in Request : GateInv(r) /\ WireInv(r)

-----------------------------------------------------------------------------
\* A request that is answered before anything was sent.
LEMMA EarlyReply ==
  ASSUME IInv, NEW r \in Request, NEW from \in {"new", "handler"},
         NEW code \in Status \ {0}, NEW kind \in Body,
         Reply(r, from, code, kind), UNCHANGED wire,
         kind = "none" => ~req[r].id,
         kind = "result" => req[r].op \notin Write,
         code = 200 => req[r].id
  PROVE  IInv'
<1> USE DEF IInv, Reply, Goto, upstreamVars
<1>1. Types'
  BY DEF Types
<1>2. ASSUME NEW q \in Request PROVE GateInv(q)' /\ WireInv(q)'
  <2>1. GateInv(q) /\ WireInv(q)
    OBVIOUS
  <2>2. CASE q = r
    BY <2>1, <2>2 DEF Types, GateInv, WireInv, Untouched, Entitled, Status, Body
  <2>3. CASE q # r
    BY <2>1, <2>3 DEF Types, GateInv, WireInv, Untouched, Entitled, PassedDoor, Denied, Fenced,
       IsWriteMethod
  <2> QED BY <2>2, <2>3
<1> QED BY <1>1, <1>2

\* A request that passes its door.
LEMMA DoorStep ==
  ASSUME IInv, NEW r \in Request, Continue(r, "handler"), PassedDoor(r)
  PROVE  IInv'
<1> USE DEF IInv, Continue, Goto, upstreamVars
<1>1. Types'
  BY DEF Types
<1>2. ASSUME NEW q \in Request PROVE GateInv(q)' /\ WireInv(q)'
  <2>1. GateInv(q) /\ WireInv(q)
    OBVIOUS
  <2>2. PassedDoor(q) => PassedDoor(q)'
    BY DEF PassedDoor, Denied, Fenced, IsWriteMethod
  <2>3. CASE q = r
    BY <2>1, <2>2, <2>3 DEF Types, GateInv, WireInv, Untouched, Entitled
  <2>4. CASE q # r
    BY <2>1, <2>2, <2>4 DEF Types, GateInv, WireInv, Untouched, Entitled
  <2> QED BY <2>3, <2>4
<1> QED BY <1>1, <1>2

\* A request that passed its gates is sent.
LEMMA PublishStep ==
  ASSUME IInv, NEW r \in Request, Publish(r), Entitled(req[r])
  PROVE  IInv'
<1> USE DEF IInv, Publish, Goto, upstreamVars
<1>1. Types'
  BY DEF Types, Wire
<1>2. ASSUME NEW q \in Request PROVE GateInv(q)' /\ WireInv(q)'
  <2>1. GateInv(q) /\ WireInv(q)
    OBVIOUS
  <2>2. PassedDoor(q) => PassedDoor(q)'
    BY DEF PassedDoor, Denied, Fenced, IsWriteMethod
  <2>3. Entitled(req[q]) => Entitled(req[q])'
    BY DEF Entitled
  <2>4. CASE q = r
    BY <2>1, <2>2, <2>3, <2>4 DEF Types, GateInv, WireInv, Untouched, Status, Refused
  <2>5. CASE q # r
    BY <2>1, <2>2, <2>3, <2>5 DEF Types, GateInv, WireInv, Untouched
  <2> QED BY <2>4, <2>5
<1> QED BY <1>1, <1>2

\* What is known of what a request asks.
LEMMA AskedWell ==
  ASSUME Types, NEW r \in Request
  PROVE  /\ req[r].door \in {"http", "mcp"}
         /\ req[r].role \in {"none", "readonly", "admin"}
         /\ req[r].door = "http" => req[r].id
<1>1. req[r] \in Asked /\ (req[r].door = "http" => req[r].id)
  BY AsksAssumption DEF Types, Askable
<1> QED BY <1>1 DEF Asked

\* What the gates of the two doors amount to.
LEMMA HttpEntitled ==
  ASSUME Types, NEW r \in Request, PassedDoor(r), req[r].door = "http", req[r].configured,
         req[r].op \in Destructive => req[r].confirm
  PROVE  Entitled(req[r])
<1>1. ~Denied(req[r]) /\ ~Fenced(req[r])
  BY DEF PassedDoor
<1>2. set.authn => req[r].role = "admin" \/ (req[r].role = "readonly" /\ req[r].op \notin Write)
  BY <1>1, AskedWell DEF Denied, Fenced, IsWriteMethod
<1>3. req[r].door # "mcp"
  OBVIOUS
<1> QED BY <1>2, <1>3 DEF Entitled

LEMMA McpEntitled ==
  ASSUME Types, NEW r \in Request, PassedDoor(r), req[r].door = "mcp",
         Registered(req[r].op), ToolAccepts(req[r])
  PROVE  Entitled(req[r])
<1>1. req[r].configured
  <2>1. req[r].op \in Write => req[r].op \in Destructive \cup ServerAction \cup {"updateStream"}
    BY DEF Write
  <2> QED BY <2>1 DEF ToolAccepts, ReadAccepts, ServerActionAccepts, UpdateAccepts,
             DestructiveAccepts
<1>2. req[r].op \in Destructive \cup {"lameDuck", "kick"} => req[r].confirm
  <2>1. req[r].op \in Destructive => req[r].confirm
    BY DEF ToolAccepts, DestructiveAccepts
  <2>2. req[r].op \in {"lameDuck", "kick"} => req[r].op \in ServerAction /\ req[r].op # "reload"
    BY DEF ServerAction
  <2> QED BY <2>1, <2>2 DEF ToolAccepts, ServerActionAccepts
<1>3. req[r].op \in Write => set.mcpWrite
  BY DEF Registered
<1>4. req[r].door # "http"
  OBVIOUS
<1>5. set.mcpAuth => req[r].role # "none"
  BY <1>4 DEF PassedDoor
<1> QED BY <1>1, <1>2, <1>3, <1>4, <1>5 DEF Entitled

\* The gates: whatever a handler decides, it keeps the invariant.
LEMMA HandleStep ==
  ASSUME IInv, NEW r \in Request, Handle(r)
  PROVE  IInv'
<1>1. /\ req[r].role \in {"none", "readonly", "admin"}
      /\ req[r].door = "http" => req[r].id
      /\ pc[r] = "handler" => PassedDoor(r)
  BY AskedWell DEF IInv, GateInv
<1>2. ASSUME NEW from \in {"new", "handler"}, NEW code \in Status \ {0, 200}, Refuse(r, from, code)
      PROVE  IInv'
  BY <1>2, EarlyReply DEF Refuse, Body
<1>3. CASE HttpAuth(r)
  <2>1. req[r].door = "http" /\ ~Denied(req[r]) /\ ~Fenced(req[r]) => PassedDoor(r)
    BY DEF PassedDoor
  <2> QED BY <1>2, <1>3, <2>1, DoorStep DEF HttpAuth, Status
<1>4. CASE HttpDestructive(r)
  <2>1. pc[r] = "handler" /\ req[r].confirm /\ req[r].configured => Entitled(req[r])
    BY <1>1, <1>4, HttpEntitled DEF IInv, HttpDestructive
  <2> QED BY <1>1, <1>2, <1>4, <2>1, PublishStep
          DEF HttpDestructive, Status, Publish, Goto
<1>5. CASE HttpServerAction(r) \/ HttpUpdate(r) \/ HttpRead(r)
  <2>1. pc[r] = "handler" /\ req[r].op \notin Destructive /\ req[r].configured
          => Entitled(req[r])
    BY <1>1, <1>5, HttpEntitled DEF IInv, HttpServerAction, HttpUpdate, HttpRead
  <2>2. req[r].op \in ServerAction \cup {"updateStream"} \/ req[r].op \notin Write
          => req[r].op \notin Destructive
    BY DEF ServerAction, Destructive, Write
  <2>3. CASE Goto(r, "handler", "aborted") /\ UNCHANGED <<status, body, wire>>
    <3> USE DEF IInv, Goto, upstreamVars
    <3>1. Types'
      BY <2>3 DEF Types
    <3>2. ASSUME NEW q \in Request PROVE GateInv(q)' /\ WireInv(q)'
      <4>1. GateInv(q) /\ WireInv(q) /\ (Entitled(req[q]) => Entitled(req[q])')
        BY <2>3 DEF Entitled
      <4>2. PassedDoor(q) => PassedDoor(q)'
        BY <2>3 DEF PassedDoor, Denied, Fenced, IsWriteMethod
      <4> QED BY <2>3, <4>1, <4>2 DEF Types, GateInv, WireInv, Untouched
    <3> QED BY <3>1, <3>2
  <2>4. CASE Publish(r) /\ req[r].configured
    BY <1>5, <2>1, <2>2, <2>4, PublishStep
    DEF HttpServerAction, HttpUpdate, HttpRead, Publish, Goto
  <2> QED BY <1>2, <1>5, <2>3, <2>4 DEF HttpServerAction, HttpUpdate, HttpRead, Status
<1>6. CASE CachedOverview(r)
  <2>1. req[r].op \notin Write /\ (req[r].door = "http" => req[r].id)
    BY <1>1, <1>6 DEF CachedOverview, Write, Destructive, ServerAction
  <2> QED BY <1>2, <1>6, <2>1, EarlyReply DEF CachedOverview, Status, Body
<1>7. CASE McpAuthenticate(r)
  <2>1. req[r].door = "mcp" /\ (set.mcpAuth => req[r].role # "none") => PassedDoor(r)
    BY DEF PassedDoor
  <2> QED BY <1>2, <1>7, <2>1, DoorStep DEF McpAuthenticate, Status
<1>8. CASE McpCall(r)
  <2>1. ASSUME NEW kind \in {"rpcError", "toolRefused"},
               McpReply(r, "handler", kind), UNCHANGED wire
        PROVE  IInv'
    BY <2>1, EarlyReply DEF McpReply, Status, Body
  <2>2. pc[r] = "handler" /\ Registered(req[r].op) /\ ToolAccepts(req[r])
          => Entitled(req[r])
    BY <1>1, <1>8, McpEntitled DEF IInv, McpCall
  <2> QED BY <1>8, <2>1, <2>2, PublishStep DEF McpCall, Publish, Goto
<1>9. CASE McpUnread(r)
  BY <1>2, <1>9 DEF McpUnread, Status
<1> QED BY <1>3, <1>4, <1>5, <1>6, <1>7, <1>8, <1>9 DEF Handle

-----------------------------------------------------------------------------
\* The client's part.
LEMMA SendStep ==
  ASSUME IInv, NEW r \in Request, ClientSends(r)
  PROVE  IInv'
<1> USE DEF IInv, ClientSends, upstreamVars
<1>1. Types'
  BY DEF Types
<1>2. ASSUME NEW q \in Request PROVE GateInv(q)' /\ WireInv(q)'
  BY DEF GateInv, WireInv, Untouched, PassedDoor, Entitled, Denied, Fenced, IsWriteMethod
<1> QED BY <1>1, <1>2

\* The upstream, at any time: also after the answer was given.
LEMMA UpstreamStep ==
  ASSUME IInv, NEW r \in Request, Upstream(r)
  PROVE  IInv'
<1> USE DEF IInv, OnWire
<1>1. ASSUME NEW q \in Request
      PROVE  /\ GateInv(q) /\ WireInv(q)
             /\ Entitled(req[q])' = Entitled(req[q])
             /\ PassedDoor(q)' = PassedDoor(q)
  BY DEF Upstream, Execute, NoResponders, Damage, Entitled, PassedDoor, Denied, Fenced,
     IsWriteMethod
<1>2. CASE Execute(r)
  <2>1. Types'
    <3>1. exists' \in [{"stream", "consumer"} -> BOOLEAN]
      <4>1. exists \in [{"stream", "consumer"} -> BOOLEAN]
        BY DEF Types
      <4>2. \/ exists' = exists
            \/ exists' = [t \in DOMAIN exists |-> FALSE]
            \/ exists' = [exists EXCEPT !["consumer"] = FALSE]
        BY <1>2 DEF Execute
      <4> QED BY <4>1, <4>2
    <3>2. wire' \in [Request -> Wire] /\ applied' \in [Request -> Nat]
      BY <1>2 DEF Types, Execute, Wire
    <3> QED BY <1>2, <3>1, <3>2 DEF Types, Execute
  <2>2. exists'["stream"] => exists["stream"]
    BY <1>2 DEF Types, Execute
  <2>3. exists'["consumer"] => exists["consumer"]
    BY <1>2 DEF Types, Execute
  <2>4. applied' # applied /\ req[r].op = "deleteStream" => ~exists'["stream"] /\ ~exists'["consumer"]
    BY <1>2 DEF Types, Execute
  <2>5. ASSUME NEW q \in Request PROVE GateInv(q)' /\ WireInv(q)'
    <3>1. CASE q = r
      <4>1. applied[r] = 0 /\ wire[r] = "request" /\ req' = req /\ pc' = pc
            /\ status' = status /\ body' = body
        BY <1>1, <1>2 DEF Execute, WireInv
      <4>2. CASE wire'[r] = "result" /\ applied'[r] = 1
        BY <1>1, <2>4, <3>1, <4>1, <4>2 DEF GateInv, WireInv, Untouched
      <4>3. CASE wire'[r] = "jsError" /\ applied' = applied /\ exists' = exists
        BY <1>1, <3>1, <4>1, <4>3 DEF GateInv, WireInv, Untouched
      <4> QED BY <1>2, <4>1, <4>2, <4>3 DEF Execute, Types
    <3>2. CASE q # r
      <4>1. /\ wire'[q] = wire[q] /\ applied'[q] = applied[q]
            /\ req' = req /\ pc' = pc /\ status' = status /\ body' = body
        BY <1>2, <3>2 DEF Execute, Types
      <4> QED BY <1>1, <2>2, <2>3, <4>1 DEF GateInv, WireInv, Untouched
    <3> QED BY <3>1, <3>2
  <2> QED BY <2>1, <2>5
<1>3. CASE NoResponders(r) \/ Damage(r)
  <2>1. Types'
    BY <1>3 DEF Types, NoResponders, Damage, Wire
  <2>2. ASSUME NEW q \in Request PROVE GateInv(q)' /\ WireInv(q)'
    <3>1. /\ req' = req /\ pc' = pc /\ status' = status /\ body' = body
          /\ exists' = exists /\ applied' = applied
      BY <1>3 DEF NoResponders, Damage
    <3>2. \/ wire'[q] = wire[q]
          \/ wire[q] = "request" /\ wire'[q] \in {"noResponders", "lost"}
          \/ wire[q] \in {"result", "jsError"} /\ wire'[q] = "lost"
          \/ wire[q] = "result" /\ wire'[q] = "garbage"
      BY <1>3 DEF NoResponders, Damage, Types
    <3> QED BY <1>1, <3>1, <3>2 DEF GateInv, WireInv, Untouched
  <2> QED BY <2>1, <2>2
<1> QED BY <1>2, <1>3 DEF Upstream

\* The answer of a request that was sent.
LEMMA LateReply ==
  ASSUME IInv, NEW r \in Request, NEW code \in {200, 202, 502, 504},
         NEW kind \in Body \ {"rpcError", "toolRefused"},
         Reply(r, "waiting", code, kind),
         kind = "none" => ~req[r].id,
         kind = "result" /\ req[r].op \in Write => wire[r] = "result",
         code = 200 => req[r].id,
         wire' = wire \/ (wire[r] = "request" /\ wire' = [wire EXCEPT ![r] = "none"]),
         kind = "result" => wire' = wire
  PROVE  IInv'
<1> USE DEF IInv, Reply, Goto, upstreamVars
<1>1. Types'
  BY DEF Types, Wire, Status
<1>2. ASSUME NEW q \in Request PROVE GateInv(q)' /\ WireInv(q)'
  <2>1. /\ GateInv(q) /\ WireInv(q)
        /\ Entitled(req[q])' = Entitled(req[q])
        /\ PassedDoor(q)' = PassedDoor(q)
    BY DEF Entitled, PassedDoor, Denied, Fenced, IsWriteMethod
  <2>2. CASE q = r
    BY <2>1, <2>2 DEF Types, GateInv, WireInv, Untouched, Refused
  <2>3. CASE q # r
    BY <2>1, <2>3 DEF Types, GateInv, WireInv, Untouched
  <2> QED BY <2>2, <2>3
<1> QED BY <1>1, <1>2

LEMMA ReturnStep ==
  ASSUME IInv, NEW r \in Request, Return(r)
  PROVE  IInv'
<1>1. req[r].door \in {"http", "mcp"} /\ (req[r].door = "http" => req[r].id)
  BY AskedWell DEF IInv
<1>2. ASSUME NEW code \in {502, 504}, Fail(r, code),
             wire' = wire \/ (wire[r] = "request" /\ wire' = [wire EXCEPT ![r] = "none"])
      PROVE  IInv'
  BY <1>2, LateReply DEF Fail, McpReply, Body
<1>3. ASSUME NEW kind \in {"result", "jsError"}, Succeed(r, kind), UNCHANGED wire,
             kind = "result" /\ req[r].op \in Write => wire[r] = "result"
      PROVE  IInv'
  BY <1>1, <1>3, LateReply DEF Succeed, McpReply, Body
<1>4. CASE Answer(r)
  BY <1>2, <1>3, <1>4 DEF Answer
<1>5. CASE Collect(r)
  <2>1. req[r].op \notin Write
    BY <1>5 DEF Collect, Fanout, Write, Destructive, ServerAction
  <2> QED BY <1>3, <1>5, <2>1 DEF Collect
<1>6. CASE Timeout(r) \/ ConnClosed(r)
  BY <1>2, <1>6 DEF Timeout, ConnClosed
<1> QED BY <1>4, <1>5, <1>6 DEF Return

-----------------------------------------------------------------------------
LEMMA Inductive == Spec => []IInv
<1>1. Init => IInv
  BY DEF Init, IInv, Types, GateInv, WireInv, Untouched, Status, Body, Wire, Refused
<1>2. IInv /\ [Next]_vars => IInv'
  <2>1. ASSUME IInv, UNCHANGED vars PROVE IInv'
    BY <2>1 DEF vars, IInv, Types, GateInv, WireInv, Untouched, PassedDoor, Entitled, Denied,
       Fenced, IsWriteMethod
  <2> QED BY <2>1, SendStep, HandleStep, UpstreamStep, ReturnStep DEF Next
<1> QED BY <1>1, <1>2, PTL DEF Spec

\* Every variable keeps its type, and only MCP notifications end without a body.
THEOREM TypeCorrect == Spec => []TypeOK
<1>1. IInv => TypeOK
  BY DEF IInv, Types, GateInv, TypeOK
<1> QED BY <1>1, Inductive, PTL

\* No server acts on a request that lacks what its door demands: the role (middleware.go),
\* the confirmation (jsm.go; tools.go, for lame-duck and kick too), the write mode in which
\* the tool is in the table (buildTools).
THEOREM Entitlement == Spec => []OnlyEntitledApplied
<1>1. IInv => OnlyEntitledApplied
  BY DEF IInv, Types, GateInv, Untouched, OnlyEntitledApplied
<1> QED BY <1>1, Inductive, PTL

\* A request refused by a middleware, a handler or a tool leaves no trace upstream, then or
\* later.
THEOREM RefusalIsFinal == Spec => []RefusedUntouched
<1>1. IInv => RefusedUntouched
  BY DEF IInv, GateInv, Untouched, RefusedUntouched
<1> QED BY <1>1, Inductive, PTL

\* No request is carried out twice, timeouts included: nothing in the code repeats one.
THEOREM NoRepetition == Spec => []AtMostOnce
<1>1. IInv => AtMostOnce
  BY DEF IInv, WireInv, AtMostOnce
<1> QED BY <1>1, Inductive, PTL

\* A write reported as done was done, and a stream reported as deleted is gone.
THEOREM ReportsAreTrue == Spec => []ResultMeansApplied
<1>1. IInv => ResultMeansApplied
  BY DEF IInv, WireInv, ResultMeansApplied
<1> QED BY <1>1, Inductive, PTL

=============================================================================
