------------------------------ MODULE Notifier ------------------------------
(***************************************************************************)
(* The webhook notifier of internal/notify for one cluster: two advisory   *)
(* subscriptions, whose callbacks the NATS client runs one message after   *)
(* the other and each on a goroutine of its own; a goroutine per provider  *)
(* and notification that posts it; and Close.                              *)
(***************************************************************************)
EXTENDS Naturals, Sequences, SequencesExt

CONSTANTS
  Event,       \* the advisories the servers publish
  Provider,    \* the configured webhooks, m.providers
  Advisories   \* what the advisories may be about

\* An advisory by the tokens classify looks at: the first two after the prefix, and
\* how many there are.
Advisory == [kind : {"STREAM", "CONSUMER", "API"},
             action : {"CREATED", "UPDATED", "DELETED", "LEADER_ELECTED", "QUORUM_LOST", "AUDIT"},
             tokens : 1..4]

ASSUME AdvisoriesAssumption == Advisories \subseteq Advisory

\* Without providers the manager is not enabled and subscribes to nothing.
ASSUME ProviderAssumption == Provider # {}

\* The two forms of advisory subjects: $JS.EVENT.ADVISORY.> and, bridged into the
\* system account, $SYS.ACCOUNT.*.JETSTREAM.EVENT.ADVISORY.>.
Form == {"local", "bridged"}

\* A provider's post of an event, for one of its forms.
Post == Event \X Form \X Provider

VARIABLES
  about,     \* what each event is about
  manager,   \* starting, running, closing or closed
  sub,       \* each subscription: none, active or gone
  queue,     \* what the client has received for it
  taken,     \* has the client taken the head of the queue for a callback?
  left,      \* the providers the callback's loop has not come to yet
  handled,   \* the messages whose callback is over, per subscription
  started,   \* how many posts were started for an event of a form to a provider
  ended      \* how many of them have succeeded, failed or timed out

vars == <<about, manager, sub, queue, taken, left, handled, started, ended>>

Init ==
  /\ about \in [Event -> Advisories]
  /\ manager = "starting"
  /\ sub = [f \in Form |-> "none"]
  /\ queue = [f \in Form |-> <<>>]
  /\ taken = [f \in Form |-> FALSE]
  /\ left = [f \in Form |-> {}]
  /\ handled = [f \in Form |-> {}]
  /\ started = [post \in Post |-> 0]
  /\ ended = [post \in Post |-> 0]

-----------------------------------------------------------------------------
(* Rendering. *)

StreamActions == {"CREATED", "UPDATED", "DELETED", "LEADER_ELECTED", "QUORUM_LOST"}
ConsumerActions == {"CREATED", "DELETED", "LEADER_ELECTED", "QUORUM_LOST"}

\* classify has an Event for the subject; a stream's name follows the action, and a
\* consumer's name its stream's.
Renders(a) ==
  \/ a.kind = "STREAM" /\ a.tokens >= 3 /\ a.action \in StreamActions
  \/ a.kind = "CONSUMER" /\ a.tokens >= 4 /\ a.action \in ConsumerActions

-----------------------------------------------------------------------------
(* Start: a subscription that fails is logged, and the manager goes on. *)

SubscribeForm(f) ==
  /\ manager = "starting"
  /\ sub[f] = "none"
  /\ \E outcome \in {"active", "gone"} : sub' = [sub EXCEPT ![f] = outcome]
  /\ UNCHANGED <<about, manager, queue, taken, left, handled, started, ended>>

Started ==
  /\ manager = "starting"
  /\ \A f \in Form : sub[f] # "none"
  /\ manager' = "running"
  /\ UNCHANGED <<about, sub, queue, taken, left, handled, started, ended>>

-----------------------------------------------------------------------------
(* NATS. *)

Seen(f) == handled[f] \cup ToSet(queue[f])

\* An advisory arrives in the forms the account may read, each at most once.
Deliver(e, f) ==
  /\ sub[f] = "active"
  /\ e \notin Seen(f)
  /\ queue' = [queue EXCEPT ![f] = Append(@, e)]
  /\ UNCHANGED <<about, manager, sub, taken, left, handled, started, ended>>

-----------------------------------------------------------------------------
(* The callback.  The message it works on stays at the head of the queue. *)

\* The client takes the next message under its lock, and calls back without it.
Take(f) ==
  /\ sub[f] = "active"
  /\ queue[f] # <<>> /\ ~taken[f]
  /\ taken' = [taken EXCEPT ![f] = TRUE]
  /\ UNCHANGED <<about, manager, sub, queue, left, handled, started, ended>>

\* The callback returns.
Return(f) ==
  /\ taken' = [taken EXCEPT ![f] = FALSE]
  /\ handled' = [handled EXCEPT ![f] = @ \cup {Head(queue[f])}]
  /\ queue' = [queue EXCEPT ![f] = Tail(@)]

\* Nothing to render: the message is dropped.
Drop(f) ==
  /\ taken[f] /\ left[f] = {}
  /\ ~Renders(about[Head(queue[f])])
  /\ Return(f)
  /\ UNCHANGED <<about, manager, sub, left, started, ended>>

Render(f) ==
  /\ taken[f] /\ left[f] = {}
  /\ Renders(about[Head(queue[f])])
  /\ left' = [left EXCEPT ![f] = Provider]
  /\ UNCHANGED <<about, manager, sub, queue, taken, handled, started, ended>>

StartPost(f, p, to) ==
  /\ p \in left[f]
  /\ left' = [left EXCEPT ![f] = @ \ {p}]
  /\ started' = [started EXCEPT ![<<Head(queue[f]), f, to>>] = @ + 1]
  /\ IF left[f] = {p} THEN Return(f) ELSE UNCHANGED <<queue, taken, handled>>
  /\ UNCHANGED <<about, manager, sub, ended>>

\* Mutation: the goroutines share the loop variable.
SpawnShared(f, p) == \E to \in left[f] : StartPost(f, p, to)

\* Mutation: the callback posts by itself, one provider after the other.
SpawnInline(f, p) ==
  /\ p \in left[f]
  /\ \A q \in Provider \ left[f] :
       ended[<<Head(queue[f]), f, q>>] = started[<<Head(queue[f]), f, q>>]
  /\ StartPost(f, p, p)

\* The loop starts a goroutine with the next provider.
Spawn(f, p) == StartPost(f, p, p)

\* The webhook answers, or ten seconds have passed.
PostEnds(e, f, p) ==
  /\ ended[<<e, f, p>>] < started[<<e, f, p>>]
  /\ ended' = [ended EXCEPT ![<<e, f, p>>] = @ + 1]
  /\ UNCHANGED <<about, manager, sub, queue, taken, left, handled, started>>

-----------------------------------------------------------------------------
(* Close. *)

BeginClose ==
  /\ manager = "running"
  /\ manager' = "closing"
  /\ UNCHANGED <<about, sub, queue, taken, left, handled, started, ended>>

\* The messages waiting are discarded; one the client has taken is still called for.
Waiting(f) == IF taken[f] THEN <<Head(queue[f])>> ELSE <<>>

UnsubscribeForm(f) ==
  /\ manager = "closing"
  /\ sub[f] = "active"
  /\ sub' = [sub EXCEPT ![f] = "gone"]
  /\ queue' = [queue EXCEPT ![f] = Waiting(f)]
  /\ UNCHANGED <<about, manager, taken, left, handled, started, ended>>

\* Mutation: the list is cleared when the first subscription is given back.
CloseEarly ==
  /\ manager = "closing"
  /\ \E f \in Form : sub[f] # "active"
  /\ manager' = "closed"
  /\ UNCHANGED <<about, sub, queue, taken, left, handled, started, ended>>

\* m.subs = nil, so that a second Close finds nothing to do.
Closed ==
  /\ manager = "closing"
  /\ \A f \in Form : sub[f] # "active"
  /\ manager' = "closed"
  /\ UNCHANGED <<about, sub, queue, taken, left, handled, started, ended>>

-----------------------------------------------------------------------------
Callback(f) == Take(f) \/ Drop(f) \/ Render(f) \/ \E p \in Provider : Spawn(f, p)

Next ==
  \/ \E f \in Form :
       \/ SubscribeForm(f) \/ Callback(f) \/ UnsubscribeForm(f)
       \/ \E e \in Event : Deliver(e, f) \/ \E p \in Provider : PostEnds(e, f, p)
  \/ Started \/ BeginClose \/ Closed

\* The NATS client calls back for every message it has.  Nothing is assumed of the
\* webhooks: a post may hang for as long as its timeout allows.
Fairness == \A f \in Form : WF_vars(Callback(f))

Spec == Init /\ [][Next]_vars /\ Fairness

-----------------------------------------------------------------------------
(* Properties. *)

\* The values the state ranges over; no post is started twice.
TypeOK ==
  /\ about \in [Event -> Advisories]
  /\ manager \in {"starting", "running", "closing", "closed"}
  /\ sub \in [Form -> {"none", "active", "gone"}]
  /\ queue \in [Form -> Seq(Event)]
  /\ taken \in [Form -> BOOLEAN]
  /\ left \in [Form -> SUBSET Provider]
  /\ handled \in [Form -> SUBSET Event]
  /\ started \in [Post -> Nat]
  /\ ended \in [Post -> Nat]
  /\ \A e \in Event, f \in Form, p \in Provider :
       ended[<<e, f, p>>] <= started[<<e, f, p>>] /\ started[<<e, f, p>>] <= 1

\* When a callback is over, every provider was started on its event exactly once if
\* the advisory has a formatter, and none otherwise; none before its callback either.
EveryProviderOnce ==
  \A e \in Event, f \in Form, p \in Provider :
    /\ e \in handled[f] =>
         started[<<e, f, p>>] = IF Renders(about[e]) THEN 1 ELSE 0
    /\ e \notin Seen(f) => started[<<e, f, p>>] = 0

\* Once Close has returned the client takes no further message: what is still posted
\* belongs to the one it was calling back for, per subscription.
QuietAfterClose ==
  [][manager = "closed" => \A f \in Form : taken'[f] => taken[f]]_vars

\* No slow webhook keeps the notifier from taking advisories off NATS (notify.go:137,
\* "one slow webhook can't block the others and we don't want to apply back-pressure").
NoBackpressure ==
  \A e \in Event, f \in Form :
    e \in ToSet(queue[f]) ~> (e \in handled[f] \/ sub[f] = "gone")

=============================================================================
