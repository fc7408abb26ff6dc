--------------------------- MODULE StreamHookProofs ---------------------------
(***************************************************************************)
(* Theorems about StreamHook, for any clusters, any number of effect runs  *)
(* and any number of requests in flight.                                   *)
(*                                                                         *)
(* What is displayed belongs to the last run: ShownInv.  That this run is  *)
(* the selected cluster's once the effect has run is RunInv.  A request    *)
(* remembers the run that sent it, which exists: PollInv.  The interval is *)
(* the last run's, and its stream is closed: OneInterval and               *)
(* PollsOnlyWhenClosed, which need no help but each other's.               *)
(***************************************************************************)
EXTENDS StreamHook, TLAPS

\* Which run there is, and whose it is.
RunInv ==
  /\ es \in {"connecting", "open"} => Run > 0
  /\ mounted /\ ~dirty => Run > 0 /\ runs[Run] = selected

\* Every request in flight was sent by a run.
PollInv == \A p \in Poll : polls[p] # None => polls[p].run \in 1..Run

\* The overview on screen is the last run's.
ShownInv == mounted /\ view.overview # None => Run > 0 /\ view.overview.of = runs[Run]

IInv == TypeOK /\ OneInterval /\ PollsOnlyWhenClosed /\ RunInv /\ PollInv /\ ShownInv

-----------------------------------------------------------------------------
(* Lemmas. *)

\* Runs are numbered from 1, and each has a cluster.
LEMMA RunNumbers ==
  ASSUME TypeOK
  PROVE  Run \in Nat /\ Run \in 0..MaxRuns /\ \A r \in 1..Run : runs[r] \in Cluster
  BY BoundsAssumption DEF TypeOK, Run

\* What a status update leaves of the view.
LEMMA StatusSetType ==
  ASSUME TypeOK, NEW status \in Status \ {"closed"}, NEW error \in {None} \cup Error
  PROVE  /\ StatusSet(status, error) \in [overview : {None} \cup Overview,
                                          status : Status \ {"closed"},
                                          lastError : {None} \cup Error]
         /\ StatusSet(status, error).overview = view.overview
  BY DEF TypeOK, StatusSet

\* The errors that are shown.
LEMMA ErrorsType ==
  /\ Reconnecting \in Error /\ ClosedByServer \in Error
  /\ \A c \in Cluster : Failed(c) \in Error
  BY DEF Error, Reconnecting, ClosedByServer, Failed

ViewType == [overview : {None} \cup Overview, status : Status \ {"closed"},
             lastError : {None} \cup Error]

\* What a reply of a run makes of the view: an overview of the last run, or an error
\* beside the overview there is.
LEMMA Ingestion ==
  ASSUME TypeOK, NEW r \in 1..Run, NEW v \in 0..MaxVersion
  PROVE  /\ Ingested(r, v) \in ViewType
         /\ Rejected(r) \in ViewType /\ Rejected(r).overview = view.overview
         /\ StatusSet("error", Failed(runs[r])) \in ViewType
         /\ \/ Ingested(r, v).overview = view.overview
            \/ r = Run /\ Ingested(r, v).overview.of = runs[Run]
<1>1. runs[r] \in Cluster
  BY RunNumbers
<1>2. Failed(runs[r]) \in Error
  BY <1>1, ErrorsType
<1>3. view \in ViewType
  BY DEF TypeOK, ViewType
<1>4. StatusSet("error", Failed(runs[r])) \in ViewType
      /\ StatusSet("error", Failed(runs[r])).overview = view.overview
  BY <1>2, StatusSetType DEF ViewType, Status
<1>5. [overview |-> [of |-> runs[r], version |-> v], status |-> "live", lastError |-> None]
        \in ViewType
  BY <1>1 DEF ViewType, Overview, Status
<1>. QED  BY <1>3, <1>4, <1>5 DEF Ingested, Rejected, Cancelled

\* The invariant holds of the initial states.
LEMMA InvInit == Init => IInv
<1>. SUFFICES ASSUME Init PROVE IInv
  OBVIOUS
<1>. USE DEF Init, initial
<1>1. runs \in Seq(Cluster) /\ Run = 0
  BY DEF Run
<1>2. TypeOK
  <2>1. version \in [Cluster -> 0..MaxVersion]
    BY BoundsAssumption
  <2>2. Run <= MaxRuns /\ timer \in 0..MaxRuns
    BY <1>1, BoundsAssumption
  <2>3. view \in ViewType
    BY DEF ViewType, Status
  <2>4. polls \in [Poll -> {None} \cup Request]
    OBVIOUS
  <2>. QED  BY <1>1, <2>1, <2>2, <2>3, <2>4 DEF TypeOK, ViewType
<1>3. OneInterval /\ PollsOnlyWhenClosed
  BY DEF OneInterval, PollsOnlyWhenClosed
<1>4. RunInv /\ PollInv /\ ShownInv
  BY DEF RunInv, PollInv, ShownInv
<1>. QED  BY <1>2, <1>3, <1>4 DEF IInv

\* Selecting a cluster only asks for an effect; publishing is the server's.
LEMMA OutsideStep == ASSUME IInv, NEW c \in Cluster, Select(c) \/ Publish(c) PROVE IInv'
<1>. USE DEF IInv
<1>1. runs' = runs /\ Run' = Run /\ polls' = polls /\ view' = view /\ mounted' = mounted
      /\ timer' = timer /\ intervals' = intervals /\ es' = es
  BY DEF Select, Publish, Run
<1>2. version' \in [Cluster -> 0..MaxVersion]
  <2>1. CASE Select(c)
    BY <2>1 DEF Select, TypeOK
  <2>2. CASE Publish(c)
    <3>1. version[c] \in 0..MaxVersion /\ version[c] < MaxVersion
      BY <2>2 DEF Publish, TypeOK
    <3>2. version[c] + 1 \in 0..MaxVersion
      BY <3>1, BoundsAssumption
    <3>. QED  BY <2>2, <3>2 DEF Publish, TypeOK
  <2>. QED  BY <2>1, <2>2
<1>3. TypeOK'
  BY <1>1, <1>2 DEF TypeOK, Select, Publish
<1>4. OneInterval' /\ PollsOnlyWhenClosed' /\ PollInv' /\ ShownInv'
  BY <1>1 DEF OneInterval, PollsOnlyWhenClosed, PollInv, ShownInv
<1>5. RunInv'
  BY <1>1 DEF RunInv, Select, Publish
<1>. QED  BY <1>3, <1>4, <1>5

\* A new run takes over: the interval of the last one is cleared and the view is empty.
LEMMA RunEffectStep == ASSUME IInv, RunEffect PROVE IInv'
<1>. USE DEF IInv, RunEffect
<1>1. Run \in 0..MaxRuns /\ Run < MaxRuns
  BY RunNumbers
<1>2. runs' \in Seq(Cluster) /\ Run' = Run + 1 /\ runs'[Run'] = selected
  BY <1>1, BoundsAssumption DEF TypeOK, Run
<1>3. timer' = 0 /\ intervals' = {}
  BY DEF ClearTimer, OneInterval
<1>4. TypeOK'
  <2>1. Run' <= MaxRuns /\ timer' \in 0..MaxRuns
    BY <1>1, <1>2, <1>3, BoundsAssumption
  <2>2. view' \in ViewType
    BY DEF initial, ViewType, Status
  <2>. QED  BY <1>2, <1>3, <2>1, <2>2 DEF TypeOK, ViewType
<1>5. OneInterval' /\ PollsOnlyWhenClosed'
  BY <1>3 DEF OneInterval, PollsOnlyWhenClosed
<1>6. RunInv'
  BY <1>1, <1>2, BoundsAssumption DEF RunInv
<1>7. PollInv'
  BY <1>1, <1>2, BoundsAssumption DEF PollInv
<1>8. ShownInv'
  BY DEF ShownInv, initial
<1>. QED  BY <1>4, <1>5, <1>6, <1>7, <1>8

\* Leaving the view clears the interval.
LEMMA UnmountStep == ASSUME IInv, Unmount PROVE IInv'
<1>. USE DEF IInv, Unmount
<1>1. runs' = runs /\ Run' = Run /\ ~mounted' /\ timer' = 0 /\ intervals' = {} /\ es' = "closed"
  BY DEF Run, ClearTimer, OneInterval
<1>2. timer' \in 0..MaxRuns
  BY <1>1, BoundsAssumption
<1>3. TypeOK'
  BY <1>1, <1>2 DEF TypeOK
<1>. QED  BY <1>1, <1>3 DEF OneInterval, PollsOnlyWhenClosed, RunInv, PollInv, ShownInv

\* An event of the stream arrives while no interval ticks, for the last run.
LEMMA EventStep == ASSUME IInv, Open \/ Message \/ Lost \/ RefreshError PROVE IInv'
<1>. USE DEF IInv
<1>1. /\ mounted /\ es \in {"connecting", "open"} /\ es' \in {"connecting", "open"}
      /\ UNCHANGED <<version, selected, dirty, mounted, runs, timer, intervals, polls>>
  BY DEF Open, Message, Lost, RefreshError, StreamEvent
<1>2. Run' = Run /\ Run \in 1..Run /\ timer = 0
  <2>1. Run > 0
    BY <1>1 DEF RunInv
  <2>2. Run \in 1..Run
    BY <2>1, RunNumbers
  <2>. QED  BY <1>1, <2>2 DEF PollsOnlyWhenClosed, Run
<1>3. view' \in ViewType /\ (view'.overview = view.overview \/ view'.overview.of = runs[Run])
  <2>1. CASE Open
    <3>1. StatusSet("connecting", None) \in ViewType
          /\ StatusSet("connecting", None).overview = view.overview
      BY StatusSetType DEF ViewType, Status
    <3>. QED  BY <2>1, <3>1 DEF Open, StreamEvent
  <2>2. CASE Message
    <3>1. version[runs[Run]] \in 0..MaxVersion
      BY <1>2, RunNumbers DEF TypeOK
    <3>2. view' = Ingested(Run, version[runs[Run]]) \/ view' = Rejected(Run)
      BY <2>2 DEF Message, StreamEvent
    <3>. QED  BY <1>2, <3>1, <3>2, Ingestion
  <2>3. CASE Lost \/ RefreshError
    <3>1. StatusSet("connecting", Reconnecting) \in ViewType
          /\ StatusSet("connecting", Reconnecting).overview = view.overview
      BY StatusSetType, ErrorsType DEF ViewType, Status
    <3>. QED  BY <2>3, <3>1 DEF Lost, RefreshError, StreamEvent
  <2>. QED  BY <2>1, <2>2, <2>3
<1>4. TypeOK'
  BY <1>1, <1>2, <1>3 DEF TypeOK, ViewType
<1>5. OneInterval' /\ PollsOnlyWhenClosed' /\ RunInv' /\ PollInv'
  BY <1>1, <1>2 DEF OneInterval, PollsOnlyWhenClosed, RunInv, PollInv
<1>6. ShownInv'
  BY <1>1, <1>2, <1>3, RunNumbers DEF ShownInv
<1>. QED  BY <1>4, <1>5, <1>6

\* A request in a slot that was free.
LEMMA SentStep ==
  ASSUME TypeOK, PollInv, NEW p \in Poll, NEW r \in 1..Run
  PROVE  /\ Sent(p, r) \in [Poll -> {None} \cup Request]
         /\ \A q \in Poll : Sent(p, r)[q] # None => Sent(p, r)[q].run \in 1..Run
<1>1. r \in 1..MaxRuns /\ 0 \in 0..MaxVersion
  BY RunNumbers, BoundsAssumption
<1>2. [run |-> r, answer |-> "pending", version |-> 0] \in Request
  BY <1>1 DEF Request
<1>. QED  BY <1>2 DEF Sent, TypeOK, PollInv

\* The stream is closed for good: the interval that starts is the last run's.
LEMMA RefusedStep == ASSUME IInv, Refused PROVE IInv'
<1>. USE DEF IInv, Refused
<1>1. timer = 0 /\ intervals = {}
  BY DEF PollsOnlyWhenClosed, OneInterval
<1>2. /\ timer' = Run /\ intervals' = {Run} /\ view' = StatusSet("stale", ClosedByServer)
      /\ Run' = Run /\ Run \in 1..Run /\ Run \in 1..MaxRuns
  <2>1. Run > 0
    BY DEF RunInv
  <2>2. Run \in 1..Run /\ Run \in 1..MaxRuns
    BY <2>1, RunNumbers
  <2>. QED  BY <1>1, <2>2 DEF Run
<1>3. PICK p \in Poll : polls' = Sent(p, Run)
  BY <1>1
<1>4. view' \in ViewType /\ view'.overview = view.overview
  BY <1>2, StatusSetType, ErrorsType DEF ViewType, Status
<1>5. TypeOK'
  BY <1>2, <1>3, <1>4, SentStep DEF TypeOK, ViewType
<1>6. OneInterval' /\ PollsOnlyWhenClosed' /\ RunInv'
  BY <1>2 DEF OneInterval, PollsOnlyWhenClosed, RunInv
<1>7. PollInv'
  BY <1>2, <1>3, SentStep DEF PollInv
<1>8. ShownInv'
  BY <1>2, <1>4 DEF ShownInv
<1>. QED  BY <1>5, <1>6, <1>7, <1>8

\* Requests come and go.
LEMMA PollStep ==
  ASSUME IInv, (\E r \in 1..MaxRuns : PollTick(r)) \/ (\E p \in Poll : Answered(p))
  PROVE  IInv'
<1>. USE DEF IInv
<1>1. UNCHANGED <<version, selected, dirty, mounted, runs, es, timer, intervals, view>>
  BY DEF PollTick, Answered
<1>2. Run' = Run
  BY <1>1 DEF Run
<1>3. /\ polls' \in [Poll -> {None} \cup Request]
      /\ \A q \in Poll : polls'[q] # None => polls'[q].run \in 1..Run
  <2>1. ASSUME NEW r \in 1..MaxRuns, PollTick(r) PROVE <1>3
    <3>1. r \in 1..Run
      BY <2>1, RunNumbers DEF PollTick, OneInterval
    <3>2. PICK p \in Poll : polls' = Sent(p, r)
      BY <2>1 DEF PollTick
    <3>. QED  BY <3>1, <3>2, SentStep
  <2>2. ASSUME NEW p \in Poll, Answered(p) PROVE <1>3
    <3>1. polls[p] \in Request /\ polls[p].run \in 1..Run
      BY <2>2 DEF Answered, TypeOK, PollInv
    <3>2. version[runs[polls[p].run]] \in 0..MaxVersion
      BY <3>1, RunNumbers DEF TypeOK
    <3>3. PICK a \in {"failed", "unreadable", "overview"} :
            polls' = [polls EXCEPT ![p].answer = a, ![p].version = version[runs[polls[p].run]]]
      BY <2>2 DEF Answered
    <3>4. polls'[p] \in Request /\ polls'[p].run = polls[p].run
      BY <3>1, <3>2, <3>3 DEF TypeOK, Request
    <3>5. \A q \in Poll : q # p => polls'[q] = polls[q]
      BY <3>3 DEF TypeOK
    <3>. QED  BY <3>1, <3>3, <3>4, <3>5 DEF TypeOK, PollInv
  <2>. QED  BY <2>1, <2>2
<1>4. TypeOK'
  BY <1>1, <1>2, <1>3 DEF TypeOK
<1>5. OneInterval' /\ PollsOnlyWhenClosed' /\ RunInv' /\ ShownInv'
  BY <1>1, <1>2 DEF OneInterval, PollsOnlyWhenClosed, RunInv, ShownInv
<1>6. PollInv'
  BY <1>2, <1>3 DEF PollInv
<1>. QED  BY <1>4, <1>5, <1>6

\* A settled promise shows the last run's overview, an error, or nothing.
LEMMA SettleStep == ASSUME IInv, NEW p \in Poll, Settle(p) PROVE IInv'
<1>. USE DEF IInv, Settle
<1>1. Run' = Run
  BY DEF Run
<1>2. polls[p] \in Request /\ polls[p].run \in 1..Run /\ polls[p].version \in 0..MaxVersion
  BY DEF TypeOK, PollInv, Request
<1>3. /\ view' \in ViewType
      /\ view'.overview = view.overview \/ (Run > 0 /\ view'.overview.of = runs[Run])
  <2>1. view \in ViewType
    BY DEF TypeOK, ViewType
  <2>2. CASE ~mounted
    BY <2>1, <2>2 DEF Settled
  <2>3. CASE mounted /\ polls[p].answer = "overview"
    <3>1. view' = Ingested(polls[p].run, polls[p].version)
      BY <2>3 DEF Settled
    <3>. QED  BY <1>2, <3>1, Ingestion
  <2>4. CASE mounted /\ polls[p].answer = "unreadable"
    <3>1. view' = Rejected(polls[p].run)
      BY <2>4 DEF Settled
    <3>. QED  BY <1>2, <3>1, Ingestion, BoundsAssumption
  <2>5. CASE mounted /\ polls[p].answer = "failed"
    <3>1. view' = StatusSet("error", Failed(runs[polls[p].run]))
      BY <2>5 DEF Settled
    <3>2. view'.overview = view.overview
      BY <2>1, <3>1 DEF StatusSet, ViewType
    <3>. QED  BY <1>2, <3>1, <3>2, Ingestion
  <2>. QED  BY <1>2, <2>2, <2>3, <2>4, <2>5 DEF Request
<1>4. polls' \in [Poll -> {None} \cup Request] /\ PollInv'
  BY <1>1 DEF TypeOK, PollInv
<1>5. TypeOK'
  BY <1>1, <1>3, <1>4 DEF TypeOK, ViewType
<1>6. OneInterval' /\ PollsOnlyWhenClosed' /\ RunInv'
  BY <1>1 DEF OneInterval, PollsOnlyWhenClosed, RunInv
<1>7. ShownInv'
  BY <1>1, <1>3 DEF ShownInv
<1>. QED  BY <1>4, <1>5, <1>6, <1>7

\* Every step preserves the invariant.
LEMMA InvStep == IInv /\ [Next]_vars => IInv'
<1>. SUFFICES ASSUME IInv, [Next]_vars PROVE IInv'
  OBVIOUS
<1>1. ASSUME NEW c \in Cluster, Select(c) \/ Publish(c) PROVE IInv'
  BY <1>1, OutsideStep
<1>2. CASE RunEffect \/ Unmount
  BY <1>2, RunEffectStep, UnmountStep
<1>3. CASE Open \/ Message \/ Lost \/ RefreshError
  BY <1>3, EventStep
<1>4. CASE Refused
  BY <1>4, RefusedStep
<1>5. CASE (\E r \in 1..MaxRuns : PollTick(r)) \/ (\E p \in Poll : Answered(p))
  BY <1>5, PollStep
<1>6. ASSUME NEW p \in Poll, Settle(p) PROVE IInv'
  BY <1>6, SettleStep
<1>7. CASE UNCHANGED vars
  BY <1>7 DEF vars, IInv, TypeOK, Run, OneInterval, PollsOnlyWhenClosed, RunInv, PollInv, ShownInv
<1>. QED  BY <1>1, <1>2, <1>3, <1>4, <1>5, <1>6, <1>7 DEF Next

\* The invariant holds in every state.
THEOREM Invariance == Spec => []IInv
  BY InvInit, InvStep, PTL DEF Spec

-----------------------------------------------------------------------------
(* Theorems. *)

\* The state keeps its types, and the status "closed" of useOverviewStream.ts is never
\* left on screen.
THEOREM TypeCorrect == Spec => []TypeOK
<1>1. IInv => TypeOK
  BY DEF IInv
<1>. QED  BY <1>1, Invariance, PTL

\* Whatever arrives late, and however many requests overtake each other, the overview
\* shown for a cluster is that cluster's.
THEOREM Selected == Spec => []OverviewIsSelected
<1>1. IInv => OverviewIsSelected
  BY DEF IInv, RunInv, ShownInv, OverviewIsSelected
<1>. QED  BY <1>1, Invariance, PTL

\* No polling loop outlives its run, and the next cleanup can always clear the one
\* there is.
THEOREM IntervalCleared == Spec => []OneInterval
<1>1. IInv => OneInterval
  BY DEF IInv
<1>. QED  BY <1>1, Invariance, PTL

\* A stream that can still deliver is never polled beside.
THEOREM PollingReplaces == Spec => []PollsOnlyWhenClosed
<1>1. IInv => PollsOnlyWhenClosed
  BY DEF IInv
<1>. QED  BY <1>1, Invariance, PTL

=============================================================================
