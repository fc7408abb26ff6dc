----------------------------- MODULE StreamHook -----------------------------
(***************************************************************************)
(* The React hook useOverviewStream (frontend/src/hooks): one EventSource  *)
(* per effect run, a polling loop when the server closes the stream for    *)
(* good, and the view state both write to.                                 *)
(*                                                                         *)
(* An effect run starts after each render with another cluster (or another *)
(* refreshKey); its cleanup, the only thing that sets the run's cancelled  *)
(* flag, runs right before the next one starts.  Runs are numbered, so     *)
(* that a run is cancelled exactly when it is not the last or the view is  *)
(* unmounted.  Overviews are identified by their cluster and the version   *)
(* the server had when it sent them.  The EventSource constructor throws    *)
(* only for a malformed URL, which jsOverviewStreamURL never builds, so    *)
(* its catch branch is not modelled.                                       *)
(***************************************************************************)
EXTENDS Naturals, Sequences

CONSTANTS
  Cluster,     \* the clusters the user may select
  Poll,        \* slots for polling requests in flight (bounds their number)
  MaxRuns,     \* bound on effect runs
  MaxVersion,  \* bound on the versions the server publishes per cluster
  None         \* no overview, no error, free slot

ASSUME NoneAssumption == None \notin Cluster
ASSUME BoundsAssumption == MaxRuns \in Nat /\ MaxVersion \in Nat

VARIABLES
  version,   \* the server's current overview of each cluster
  selected,  \* the cluster prop of the last render
  dirty,     \* rendered, but the effect has not run yet
  mounted,   \* the component is on screen
  runs,      \* the cluster of every effect run so far
  es,        \* readyState of the last run's EventSource
  timer,     \* fallbackTimer.current: the run whose interval it names, or 0
  intervals, \* the runs whose interval is ticking
  polls,     \* requests in flight, or None
  view       \* the hook's State: overview, status, lastError

vars == <<version, selected, dirty, mounted, runs, es, timer, intervals, polls, view>>

Status == {"connecting", "live", "stale", "error", "closed"}

\* Errors are told apart by what they say: that the stream is being reopened, that
\* it was closed, or that a request or a reply for a cluster was no good.
Error == [says : {"reconnecting", "stream closed by server", "failed"}, of : Cluster \cup {None}]
Reconnecting == [says |-> "reconnecting", of |-> None]
ClosedByServer == [says |-> "stream closed by server", of |-> None]
Failed(c) == [says |-> "failed", of |-> c]

Overview == [of : Cluster, version : 0..MaxVersion]

\* A request waits for its answer, which is a transport or HTTP error, a body that
\* cannot be aggregated, or an overview.
Request == [run : 1..MaxRuns, answer : {"pending", "failed", "unreadable", "overview"},
            version : 0..MaxVersion]

initial == [overview |-> None, status |-> "connecting", lastError |-> None]

Run == Len(runs)
Cancelled(r) == r # Run \/ ~mounted

Init ==
  /\ version = [c \in Cluster |-> 0]
  /\ selected \in Cluster
  /\ dirty = TRUE
  /\ mounted = TRUE
  /\ runs = <<>>
  /\ es = "none"
  /\ timer = 0
  /\ intervals = {}
  /\ polls = [p \in Poll |-> None]
  /\ view = initial

\* setStatus keeps the overview, and the last error unless there is a new one.
\* It looks at no cancelled flag.
StatusSet(status, error) ==
  [view EXCEPT !.status = status, !.lastError = IF error = None THEN @ ELSE error]

\* Mutation: ingest without the cancelled check.
IngestedAlways(r, v) ==
  IF ~mounted THEN view
  ELSE [overview |-> [of |-> runs[r], version |-> v], status |-> "live", lastError |-> None]

\* ingest; a state update of an unmounted component is dropped by React.
Ingested(r, v) ==
  IF Cancelled(r) THEN view
  ELSE [overview |-> [of |-> runs[r], version |-> v], status |-> "live", lastError |-> None]

\* ingest of replies that aggregateOverview rejects.
Rejected(r) == IF Cancelled(r) THEN view ELSE StatusSet("error", Failed(runs[r]))

-----------------------------------------------------------------------------
(* The view. *)

\* The parent renders the view for a cluster, the same one if only refreshKey changed.
Select(c) ==
  /\ mounted
  /\ selected' = c
  /\ dirty' = TRUE
  /\ UNCHANGED <<version, mounted, runs, es, timer, intervals, polls, view>>

\* Mutation: the cleanup forgets the interval without clearing it.
ForgetTimer ==
  /\ timer' = 0
  /\ UNCHANGED intervals

\* The cleanup: clear the interval that fallbackTimer names.
ClearTimer ==
  /\ timer' = 0
  /\ intervals' = intervals \ {timer}

\* The cleanup of the last run, the reset of the view and a new EventSource.
RunEffect ==
  /\ mounted /\ dirty
  /\ Run < MaxRuns
  /\ dirty' = FALSE
  /\ ClearTimer
  /\ runs' = Append(runs, selected)
  /\ es' = "connecting"
  /\ view' = initial
  /\ UNCHANGED <<version, selected, mounted, polls>>

Unmount ==
  /\ mounted
  /\ mounted' = FALSE
  /\ dirty' = FALSE
  /\ ClearTimer
  /\ es' = "closed"
  /\ UNCHANGED <<version, selected, runs, polls, view>>

-----------------------------------------------------------------------------
(* The EventSource of the last run; events stop when it is closed. *)

StreamEvent(from, to, newView) ==
  /\ mounted
  /\ es \in from
  /\ es' = to
  /\ view' = newView
  /\ UNCHANGED <<version, selected, dirty, mounted, runs, timer, intervals, polls>>

Open == StreamEvent({"connecting"}, "open", StatusSet("connecting", None))

\* A frame arrives; the server's snapshot may be one that cannot be aggregated.
Message ==
  \/ StreamEvent({"open"}, "open", Ingested(Run, version[runs[Run]]))
  \/ StreamEvent({"open"}, "open", Rejected(Run))

\* Mutation: any error starts to poll, without a look at readyState.
LostPolls ==
  /\ mounted
  /\ es \in {"connecting", "open"}
  /\ timer = 0
  /\ es' = "connecting"
  /\ timer' = Run
  /\ intervals' = intervals \cup {Run}
  /\ view' = StatusSet("connecting", Reconnecting)
  /\ UNCHANGED <<version, selected, dirty, mounted, runs, polls>>

\* The connection is lost and the browser reconnects.
Lost == StreamEvent({"connecting", "open"}, "connecting", StatusSet("connecting", Reconnecting))

\* A refresh failed: the server sends an event that is itself named "error", so the
\* listener for transport errors gets it while the stream stays open.
RefreshError == StreamEvent({"open"}, "open", StatusSet("connecting", Reconnecting))

\* tick sends a request for the run's cluster.
Sent(p, r) == [polls EXCEPT ![p] = [run |-> r, answer |-> "pending", version |-> 0]]

\* Mutation: giving up only changes the indicator.
RefusedQuietly ==
  StreamEvent({"connecting"}, "closed", StatusSet("closed", ClosedByServer))

\* A reconnection attempt is refused (no stream endpoint, 5xx): the browser gives up
\* and the listener starts to poll, at once and then on an interval.
Refused ==
  /\ mounted
  /\ es = "connecting"
  /\ es' = "closed"
  /\ IF timer # 0
       THEN /\ view' = StatusSet("closed", ClosedByServer)
            /\ UNCHANGED <<timer, intervals, polls>>
       ELSE /\ view' = StatusSet("stale", ClosedByServer)
            /\ timer' = Run
            /\ intervals' = intervals \cup {Run}
            /\ \E p \in Poll :
                 /\ polls[p] = None
                 /\ polls' = Sent(p, Run)
  /\ UNCHANGED <<version, selected, dirty, mounted, runs>>

-----------------------------------------------------------------------------
(* Polling. *)

PollTick(r) ==
  /\ r \in intervals
  /\ \E p \in Poll :
       /\ polls[p] = None
       /\ polls' = Sent(p, r)
  /\ UNCHANGED <<version, selected, dirty, mounted, runs, es, timer, intervals, view>>

\* The server answers with what it has now.
Answered(p) ==
  /\ polls[p] # None
  /\ polls[p].answer = "pending"
  /\ \E a \in {"failed", "unreadable", "overview"} :
       polls' = [polls EXCEPT ![p].answer = a, ![p].version = version[runs[polls[p].run]]]
  /\ UNCHANGED <<version, selected, dirty, mounted, runs, es, timer, intervals, view>>

\* The promise settles: then(ingest), or catch(setStatus), which does not look at
\* the cancelled flag.
Settled(poll) ==
  CASE ~mounted -> view
    [] mounted /\ poll.answer = "overview" -> Ingested(poll.run, poll.version)
    [] mounted /\ poll.answer = "unreadable" -> Rejected(poll.run)
    [] mounted /\ poll.answer = "failed" -> StatusSet("error", Failed(runs[poll.run]))

Settle(p) ==
  /\ polls[p] # None
  /\ polls[p].answer # "pending"
  /\ polls' = [polls EXCEPT ![p] = None]
  /\ view' = Settled(polls[p])
  /\ UNCHANGED <<version, selected, dirty, mounted, runs, es, timer, intervals>>

Publish(c) ==
  /\ version[c] < MaxVersion
  /\ version' = [version EXCEPT ![c] = @ + 1]
  /\ UNCHANGED <<selected, dirty, mounted, runs, es, timer, intervals, polls, view>>

-----------------------------------------------------------------------------
Next ==
  \/ \E c \in Cluster : Select(c) \/ Publish(c)
  \/ RunEffect \/ Unmount
  \/ Open \/ Message \/ Lost \/ RefreshError \/ Refused
  \/ \E r \in 1..MaxRuns : PollTick(r)
  \/ \E p \in Poll : Answered(p) \/ Settle(p)

\* The browser runs what is due: effects, intervals and settled promises, and every
\* request ends one way or the other.  Nothing is assumed of the user or the server.
Fairness ==
  /\ WF_vars(RunEffect)
  /\ \A r \in 1..MaxRuns : WF_vars(PollTick(r))
  /\ \A p \in Poll : WF_vars(Answered(p)) /\ WF_vars(Settle(p))

Spec == Init /\ [][Next]_vars /\ Fairness

-----------------------------------------------------------------------------
(* Properties. *)

\* The values the state ranges over.  The status "closed" is declared and never
\* seen: startPolling overwrites it before React renders again (line 69).
TypeOK ==
  /\ version \in [Cluster -> 0..MaxVersion]
  /\ selected \in Cluster
  /\ dirty \in BOOLEAN
  /\ mounted \in BOOLEAN
  /\ runs \in Seq(Cluster) /\ Run <= MaxRuns
  /\ es \in {"none", "connecting", "open", "closed"}
  /\ timer \in 0..MaxRuns
  /\ intervals \subseteq 1..MaxRuns
  /\ polls \in [Poll -> {None} \cup Request]
  /\ view \in [overview : {None} \cup Overview, status : Status \ {"closed"}, lastError : {None} \cup Error]

\* Once the effect for the selected cluster has run, no late message or reply of
\* another cluster shows its numbers under this cluster's name.
OverviewIsSelected ==
  mounted /\ ~dirty /\ view.overview # None => view.overview.of = selected

\* At most one interval ticks, it belongs to the run on screen, and fallbackTimer
\* names it, so that the next cleanup can clear it: switching clusters or leaving
\* the view leaves no polling loop behind.
OneInterval ==
  /\ intervals = IF timer = 0 THEN {} ELSE {timer}
  /\ timer # 0 => timer = Run /\ mounted

\* A run polls only after its stream is closed for good; a stream that reconnects by
\* itself is never polled beside.
PollsOnlyWhenClosed == timer # 0 => es = "closed"

\* When the browser gives up on the stream, polling brings an overview or an error to
\* the screen; the view is not left with a dead stream.
FallbackShows ==
  (mounted /\ es = "closed") ~>
    (\/ ~mounted \/ dirty
     \/ view.overview # None \/ view.status = "error")

=============================================================================
