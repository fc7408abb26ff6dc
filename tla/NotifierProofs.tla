---------------------------- MODULE NotifierProofs ----------------------------
(***************************************************************************)
(* Theorems about Notifier, for any events, webhooks and advisories.       *)
(*                                                                         *)
(* A message is in a queue or handled, in one place and once: QueueInv.    *)
(* PostInv says exactly how many posts have been started for an event: all *)
(* of them after its callback, none before, and while the loop runs those  *)
(* it has come to.  CloseInv says that nothing is subscribed after Close.  *)
(***************************************************************************)
EXTENDS Notifier, TLAPS

Types ==
  /\ about \in [Event -> Advisories]
  /\ manager \in {"starting", "running", "closing", "closed"}
  /\ sub \in [Form -> {"none", "active", "gone"}]
  /\ queue \in [Form -> Seq(Event)]
  /\ taken \in [Form -> BOOLEAN]
  /\ left \in [Form -> SUBSET Provider]
  /\ handled \in [Form -> SUBSET Event]
  /\ started \in [Post -> Nat]
  /\ ended \in [Post -> Nat]

\* A queue holds a message once and none that was handled; the callback's is its head.
QueueOf(f) ==
  /\ \A i, j \in DOMAIN queue[f] : queue[f][i] = queue[f][j] => i = j
  /\ \A i \in DOMAIN queue[f] : queue[f][i] \notin handled[f]
  /\ taken[f] => queue[f] # <<>>
  /\ left[f] # {} => taken[f] /\ Renders(about[Head(queue[f])])

QueueInv == \A f \in Form : QueueOf(f)

\* Has a post been started for the event?
Posted(e, f, p) ==
  \/ e \in handled[f] /\ Renders(about[e])
  \/ left[f] # {} /\ e = Head(queue[f]) /\ p \notin left[f]

PostOf(f) ==
  \A e \in Event, p \in Provider :
    /\ started[<<e, f, p>>] = IF Posted(e, f, p) THEN 1 ELSE 0
    /\ ended[<<e, f, p>>] <= started[<<e, f, p>>]

PostInv == \A f \in Form : PostOf(f)

CloseInv == manager = "closed" => \A f \in Form : sub[f] # "active"

IInv == Types /\ QueueInv /\ PostInv /\ CloseInv

-----------------------------------------------------------------------------
(* Lemmas. *)

\* The head of a queue that is not empty, and what is behind it.
LEMMA HeadOfQueue ==
  ASSUME NEW q \in Seq(Event), q # <<>>
  PROVE  /\ Head(q) \in Event /\ Head(q) = q[1] /\ 1 \in DOMAIN q
         /\ Tail(q) \in Seq(Event)
         /\ \A i \in DOMAIN Tail(q) : i + 1 \in DOMAIN q /\ Tail(q)[i] = q[i + 1] /\ i \in Nat \ {0}
  OBVIOUS

\* The posts of an event.
LEMMA Posts == \A e \in Event, f \in Form, p \in Provider : <<e, f, p>> \in Post
  BY DEF Post

\* The invariant holds of the initial states.
LEMMA InvInit == Init => IInv
<1>. SUFFICES ASSUME Init PROVE IInv
  OBVIOUS
<1>. USE DEF Init
<1>1. Types
  <2>1. <<>> \in Seq(Event)
    OBVIOUS
  <2>. QED  BY <2>1 DEF Types
<1>2. QueueInv
  BY DEF QueueInv, QueueOf
<1>3. PostInv
  BY Posts DEF PostInv, PostOf, Posted
<1>4. CloseInv
  BY DEF CloseInv
<1>. QED  BY <1>1, <1>2, <1>3, <1>4 DEF IInv

\* What leaves the posts alone, and the callback's message as long as its loop runs.
LEMMA PostsSame ==
  ASSUME PostInv, UNCHANGED <<about, started, ended>>,
         \A f \in Form, e \in Event :
           Renders(about[e]) => (e \in handled'[f] <=> e \in handled[f]),
         \A f \in Form, e \in Event, p \in Provider :
           (left'[f] # {} /\ e = Head(queue'[f]) /\ p \notin left'[f])
             <=> (left[f] # {} /\ e = Head(queue[f]) /\ p \notin left[f])
  PROVE  PostInv'
<1>. SUFFICES ASSUME NEW f \in Form, NEW e \in Event, NEW p \in Provider
              PROVE  /\ started'[<<e, f, p>>] = IF Posted(e, f, p)' THEN 1 ELSE 0
                     /\ ended'[<<e, f, p>>] <= started'[<<e, f, p>>]
  BY DEF PostInv, PostOf
<1>. QED  BY DEF PostInv, PostOf, Posted

\* What happens to the manager and the subscriptions leaves messages and posts alone.
LEMMA ManagerStep ==
  ASSUME IInv, Started \/ BeginClose \/ Closed \/ \E f \in Form : SubscribeForm(f)
  PROVE  IInv'
<1>. USE DEF IInv
<1>0. UNCHANGED <<about, queue, taken, left, handled, started, ended>>
  BY DEF Started, BeginClose, Closed, SubscribeForm
<1>1. Types'
  <2>1. CASE Started \/ Closed
    BY <1>0, <2>1 DEF Types, Started, Closed
  <2>2. CASE BeginClose
    BY <1>0, <2>2 DEF Types, BeginClose
  <2>3. ASSUME NEW f \in Form, SubscribeForm(f) PROVE Types'
    BY <1>0, <2>3 DEF Types, SubscribeForm
  <2>. QED  BY <2>1, <2>2, <2>3
<1>2. QueueInv'
  BY <1>0 DEF QueueInv, QueueOf
<1>3. PostInv'
  BY <1>0 DEF PostInv, PostOf, Posted
<1>4. CloseInv'
  BY DEF CloseInv, Started, BeginClose, Closed, SubscribeForm
<1>. QED  BY <1>1, <1>2, <1>3, <1>4

\* A new message is the last of its queue.
LEMMA DeliverStep == ASSUME IInv, NEW e \in Event, NEW f \in Form, Deliver(e, f) PROVE IInv'
<1>. USE DEF IInv, Deliver
<1>1. queue[f] \in Seq(Event) /\ queue'[f] = Append(queue[f], e)
      /\ queue' \in [Form -> Seq(Event)] /\ \A g \in Form \ {f} : queue'[g] = queue[g]
  BY DEF Types
<1>2. Types'
  BY <1>1 DEF Types
<1>3. \A i \in DOMAIN queue[f] : queue[f][i] # e
  BY DEF Seen, ToSet
<1>4. queue[f] # <<>> => Head(queue'[f]) = Head(queue[f])
  BY <1>1
<1>5. QueueInv'
  <2>1. QueueOf(f)'
    <3>1. QueueOf(f) /\ e \notin handled[f]
      BY DEF QueueInv, Seen
    <3>. QED  BY <1>1, <1>3, <1>4, <3>1 DEF QueueOf
  <2>2. \A g \in Form \ {f} : QueueOf(g)'
    BY <1>1 DEF QueueInv, QueueOf
  <2>. QED  BY <2>1, <2>2 DEF QueueInv
<1>6. PostInv'
  <2>1. \A d \in Event, g \in Form, p \in Provider : Posted(d, g, p)' = Posted(d, g, p)
    BY <1>1, <1>4 DEF QueueInv, QueueOf, Posted
  <2>. QED  BY <2>1 DEF PostInv, PostOf, Posted
<1>7. CloseInv'
  BY DEF CloseInv
<1>. QED  BY <1>2, <1>5, <1>6, <1>7

\* Taking a message starts nothing.
LEMMA TakeStep == ASSUME IInv, NEW f \in Form, Take(f) PROVE IInv'
<1>. USE DEF IInv, Take
<1>1. Types'
  BY DEF Types
<1>2. QueueInv'
  BY DEF Types, QueueInv, QueueOf
<1>3. PostInv'
  BY DEF PostInv, PostOf, Posted
<1>4. CloseInv'
  BY DEF CloseInv
<1>. QED  BY <1>1, <1>2, <1>3, <1>4

\* The loop begins with every provider before it.
LEMMA RenderStep == ASSUME IInv, NEW f \in Form, Render(f) PROVE IInv'
<1>. USE DEF IInv, Render
<1>1. Types'
  BY DEF Types
<1>2. QueueInv'
  BY DEF Types, QueueInv, QueueOf
<1>3. PostInv'
  <2>1. left[f] = {} /\ left'[f] = Provider /\ \A g \in Form \ {f} : left'[g] = left[g]
    BY DEF Types
  <2>. QED  BY <2>1, PostsSame
<1>4. CloseInv'
  BY DEF CloseInv
<1>. QED  BY <1>1, <1>2, <1>3, <1>4

\* A callback that returns moves its message from the queue to those handled.
LEMMA ReturnQueue ==
  ASSUME IInv, NEW f \in Form, taken[f], Return(f), about' = about,
         left' \in [Form -> SUBSET Provider], left'[f] = {},
         \A g \in Form \ {f} : left'[g] = left[g]
  PROVE  /\ queue' \in [Form -> Seq(Event)] /\ taken' \in [Form -> BOOLEAN]
         /\ handled' \in [Form -> SUBSET Event]
         /\ Head(queue[f]) \in Event /\ Head(queue[f]) \notin handled[f]
         /\ handled'[f] = handled[f] \cup {Head(queue[f])}
         /\ \A g \in Form \ {f} :
              queue'[g] = queue[g] /\ taken'[g] = taken[g] /\ handled'[g] = handled[g]
         /\ QueueInv'
<1>. USE DEF IInv, Return
<1>1. queue[f] \in Seq(Event) /\ queue[f] # <<>>
  BY DEF Types, QueueInv, QueueOf
<1>2. /\ queue' \in [Form -> Seq(Event)] /\ taken' \in [Form -> BOOLEAN]
      /\ handled' \in [Form -> SUBSET Event]
      /\ queue'[f] = Tail(queue[f]) /\ taken'[f] = FALSE
      /\ handled'[f] = handled[f] \cup {Head(queue[f])}
      /\ \A g \in Form \ {f} :
           queue'[g] = queue[g] /\ taken'[g] = taken[g] /\ handled'[g] = handled[g]
  BY <1>1, HeadOfQueue DEF Types
<1>3. Head(queue[f]) \in Event /\ Head(queue[f]) = queue[f][1] /\ Head(queue[f]) \notin handled[f]
  BY <1>1, HeadOfQueue DEF QueueInv, QueueOf
<1>4. QueueOf(f)'
  <2>1. \A i \in DOMAIN queue'[f] :
          /\ i + 1 \in DOMAIN queue[f] /\ queue'[f][i] = queue[f][i + 1] /\ i \in Nat \ {0}
    BY <1>1, <1>2, HeadOfQueue
  <2>2. \A i \in DOMAIN queue'[f] : queue'[f][i] \notin handled[f] /\ queue'[f][i] # queue[f][1]
    <3>1. 1 \in DOMAIN queue[f] /\ QueueOf(f)
      BY <1>1, HeadOfQueue DEF QueueInv
    <3>. QED  BY <2>1, <3>1 DEF QueueOf
  <2>3. \A i, j \in DOMAIN queue'[f] : queue'[f][i] = queue'[f][j] => i = j
    <3>1. QueueOf(f)
      BY DEF QueueInv
    <3>. QED  BY <2>1, <3>1 DEF QueueOf
  <2>. QED  BY <1>2, <1>3, <2>2, <2>3 DEF QueueOf
<1>5. \A g \in Form \ {f} : QueueOf(g)'
  BY <1>2 DEF QueueInv, QueueOf
<1>. QED  BY <1>2, <1>3, <1>4, <1>5 DEF QueueInv

\* A message without a formatter is handled without a post.
LEMMA DropStep == ASSUME IInv, NEW f \in Form, Drop(f) PROVE IInv'
<1>. USE DEF IInv, Drop
<1>1. left' = left /\ about' = about /\ started' = started /\ ended' = ended
  OBVIOUS
<1>2. /\ queue' \in [Form -> Seq(Event)] /\ taken' \in [Form -> BOOLEAN]
      /\ handled' \in [Form -> SUBSET Event]
      /\ Head(queue[f]) \in Event /\ Head(queue[f]) \notin handled[f]
      /\ handled'[f] = handled[f] \cup {Head(queue[f])}
      /\ \A g \in Form \ {f} :
           queue'[g] = queue[g] /\ taken'[g] = taken[g] /\ handled'[g] = handled[g]
      /\ QueueInv'
  BY ReturnQueue DEF Types
<1>3. Types'
  BY <1>1, <1>2 DEF Types
<1>4. PostInv'
  <2>1. left[f] = {} /\ ~Renders(about[Head(queue[f])])
    OBVIOUS
  <2>. QED  BY <1>1, <1>2, <2>1, PostsSame
<1>5. CloseInv'
  BY DEF CloseInv
<1>. QED  BY <1>2, <1>3, <1>4, <1>5

\* Starting one post changes the count of one event, form and provider.
LEMMA Count ==
  ASSUME Types, NEW e \in Event, NEW f \in Form, NEW p \in Provider,
         started' = [started EXCEPT ![<<e, f, p>>] = @ + 1]
  PROVE  /\ started' \in [Post -> Nat]
         /\ started'[<<e, f, p>>] = started[<<e, f, p>>] + 1
         /\ \A d \in Event, g \in Form, q \in Provider :
              <<d, g, q>> # <<e, f, p>> => started'[<<d, g, q>>] = started[<<d, g, q>>]
<1>1. \A d \in Event, g \in Form, q \in Provider : <<d, g, q>> \in Post
  BY Posts
<1>. QED  BY <1>1 DEF Types

\* The loop starts the post of a provider it has not come to before; with the last one
\* the callback returns.
LEMMA SpawnStep == ASSUME IInv, NEW f \in Form, NEW p \in Provider, Spawn(f, p) PROVE IInv'
<1>. USE DEF IInv, Spawn, StartPost
<1>1. /\ p \in left[f] /\ left'[f] = left[f] \ {p} /\ left' \in [Form -> SUBSET Provider]
      /\ \A g \in Form \ {f} : left'[g] = left[g]
      /\ about' = about /\ ended' = ended
  BY DEF Types
<1>2. taken[f] /\ queue[f] \in Seq(Event) /\ queue[f] # <<>> /\ Renders(about[Head(queue[f])])
  BY <1>1 DEF Types, QueueInv, QueueOf
<1>3. PICK e \in Event : e = Head(queue[f]) /\ e \notin handled[f]
  BY <1>2, HeadOfQueue DEF QueueInv, QueueOf
<1>4. /\ started' \in [Post -> Nat]
      /\ started'[<<e, f, p>>] = started[<<e, f, p>>] + 1
      /\ \A d \in Event, g \in Form, q \in Provider :
           <<d, g, q>> # <<e, f, p>> => started'[<<d, g, q>>] = started[<<d, g, q>>]
  BY <1>3, Count
<1>5. /\ queue' \in [Form -> Seq(Event)] /\ taken' \in [Form -> BOOLEAN]
      /\ handled' \in [Form -> SUBSET Event] /\ QueueInv'
      /\ \A g \in Form \ {f} : queue'[g] = queue[g] /\ handled'[g] = handled[g]
      /\ IF left'[f] = {} THEN handled'[f] = handled[f] \cup {e}
         ELSE handled'[f] = handled[f] /\ queue'[f] = queue[f]
  <2>1. CASE left[f] = {p}
    <3>1. left'[f] = {} /\ Return(f)
      BY <1>1, <2>1
    <3>. HIDE DEF Spawn, StartPost
    <3>. QED  BY <1>1, <1>2, <1>3, <3>1, ReturnQueue
  <2>2. CASE left[f] # {p}
    <3>1. left'[f] # {} /\ UNCHANGED <<queue, taken, handled>>
      BY <1>1, <2>2
    <3>2. QueueInv'
      BY <1>1, <1>2, <3>1 DEF QueueInv, QueueOf
    <3>. QED  BY <3>1, <3>2 DEF Types
  <2>. QED  BY <2>1, <2>2
<1>6. Types'
  BY <1>1, <1>4, <1>5 DEF Types
<1>7. PostInv'
  <2>1. \A d \in Event, g \in Form, q \in Provider :
          <<d, g, q>> # <<e, f, p>> => Posted(d, g, q)' = Posted(d, g, q)
    <3>1. ASSUME NEW d \in Event, NEW q \in Provider, d # e \/ q # p
          PROVE  Posted(d, f, q)' = Posted(d, f, q)
      BY <1>1, <1>2, <1>3, <1>5, <3>1 DEF Posted, Types
    <3>2. ASSUME NEW d \in Event, NEW g \in Form \ {f}, NEW q \in Provider
          PROVE  Posted(d, g, q)' = Posted(d, g, q)
      BY <1>1, <1>5 DEF Posted
    <3>. QED  BY <3>1, <3>2
  <2>2. ~Posted(e, f, p)
    BY <1>1, <1>3 DEF Posted
  <2>3. /\ started'[<<e, f, p>>] = IF Posted(e, f, p)' THEN 1 ELSE 0
        /\ ended'[<<e, f, p>>] <= started'[<<e, f, p>>]
    <3>1. started[<<e, f, p>>] = 0 /\ ended[<<e, f, p>>] <= started[<<e, f, p>>]
      BY <1>3, <2>2 DEF PostInv, PostOf
    <3>2. started'[<<e, f, p>>] = 1
      BY <1>4, <3>1
    <3>3. ended[<<e, f, p>>] \in Nat
      BY <1>3, Posts DEF Types
    <3>4. CASE left'[f] = {}
      <4>1. e \in handled'[f] /\ Renders(about'[e])
        BY <1>1, <1>2, <1>3, <1>5, <3>4
      <4>. QED  BY <1>1, <3>1, <3>2, <3>3, <4>1 DEF Posted
    <3>5. CASE left'[f] # {}
      <4>1. e = Head(queue'[f]) /\ p \notin left'[f]
        BY <1>1, <1>3, <1>5, <3>5
      <4>. QED  BY <1>1, <3>1, <3>2, <3>3, <3>5, <4>1 DEF Posted
    <3>. QED  BY <3>4, <3>5
  <2>4. ASSUME NEW d \in Event, NEW g \in Form, NEW q \in Provider, <<d, g, q>> # <<e, f, p>>
        PROVE  /\ started'[<<d, g, q>>] = IF Posted(d, g, q)' THEN 1 ELSE 0
               /\ ended'[<<d, g, q>>] <= started'[<<d, g, q>>]
    BY <1>1, <1>4, <2>1, <2>4 DEF PostInv, PostOf, Posted
  <2>5. ASSUME NEW d \in Event, NEW g \in Form, NEW q \in Provider
        PROVE  /\ started'[<<d, g, q>>] = IF Posted(d, g, q)' THEN 1 ELSE 0
               /\ ended'[<<d, g, q>>] <= started'[<<d, g, q>>]
    <3>1. CASE d = e /\ g = f /\ q = p
      BY <2>3, <3>1
    <3>2. CASE ~(d = e /\ g = f /\ q = p)
      BY <2>4, <3>2
    <3>. QED  BY <3>1, <3>2
  <2>. QED  BY <2>5 DEF PostInv, PostOf
<1>8. CloseInv'
  BY DEF CloseInv
<1>. QED  BY <1>5, <1>6, <1>7, <1>8

\* A post that ends was started.
LEMMA PostEndsStep ==
  ASSUME IInv, NEW e \in Event, NEW f \in Form, NEW p \in Provider, PostEnds(e, f, p)
  PROVE  IInv'
<1>. USE DEF IInv, PostEnds
<1>1. /\ ended' \in [Post -> Nat]
      /\ ended'[<<e, f, p>>] = ended[<<e, f, p>>] + 1
      /\ \A d \in Event, g \in Form, q \in Provider :
           <<d, g, q>> # <<e, f, p>> => ended'[<<d, g, q>>] = ended[<<d, g, q>>]
  <2>1. \A d \in Event, g \in Form, q \in Provider : <<d, g, q>> \in Post
    BY Posts
  <2>. QED  BY <2>1 DEF Types
<1>2. Types'
  BY <1>1 DEF Types
<1>3. QueueInv'
  BY DEF QueueInv, QueueOf
<1>4. PostInv'
  <2>1. started[<<e, f, p>>] \in Nat /\ ended[<<e, f, p>>] \in Nat
    BY Posts DEF Types
  <2>2. ASSUME NEW d \in Event, NEW g \in Form, NEW q \in Provider
        PROVE  ended'[<<d, g, q>>] <= started[<<d, g, q>>]
    <3>1. ended[<<d, g, q>>] <= started[<<d, g, q>>]
      BY DEF PostInv, PostOf
    <3>2. CASE <<d, g, q>> = <<e, f, p>>
      BY <1>1, <2>1, <3>2
    <3>3. CASE <<d, g, q>> # <<e, f, p>>
      BY <1>1, <3>1, <3>3
    <3>. QED  BY <3>2, <3>3
  <2>. QED  BY <2>2 DEF PostInv, PostOf, Posted
<1>5. CloseInv'
  BY DEF CloseInv
<1>. QED  BY <1>2, <1>3, <1>4, <1>5

\* Unsubscribing leaves the message whose callback runs, and no other.
LEMMA UnsubscribeStep == ASSUME IInv, NEW f \in Form, UnsubscribeForm(f) PROVE IInv'
<1>. USE DEF IInv, UnsubscribeForm
<1>1. queue[f] \in Seq(Event) /\ (taken[f] => queue[f] # <<>>)
  BY DEF Types, QueueInv, QueueOf
<1>2. /\ Waiting(f) \in Seq(Event)
      /\ taken[f] => Waiting(f) = <<Head(queue[f])>> /\ Head(queue[f]) = queue[f][1]
                       /\ 1 \in DOMAIN queue[f]
      /\ ~taken[f] => Waiting(f) = <<>>
  <2>1. <<>> \in Seq(Event)
    OBVIOUS
  <2>. QED  BY <1>1, <2>1, HeadOfQueue DEF Waiting
<1>3. /\ queue' \in [Form -> Seq(Event)] /\ queue'[f] = Waiting(f)
      /\ \A g \in Form \ {f} : queue'[g] = queue[g]
  BY <1>2 DEF Types
<1>4. Types'
  BY <1>3 DEF Types
<1>5. QueueInv'
  <2>1. QueueOf(f)'
    <3>1. QueueOf(f)
      BY DEF QueueInv
    <3>2. CASE taken[f]
      <4>1. queue'[f] = <<Head(queue[f])>> /\ DOMAIN queue'[f] = {1}
            /\ queue'[f][1] = queue[f][1] /\ Head(queue'[f]) = Head(queue[f])
        BY <1>2, <1>3, <3>2
      <4>. QED  BY <1>2, <3>1, <3>2, <4>1 DEF QueueOf
    <3>3. CASE ~taken[f]
      <4>1. queue'[f] = <<>> /\ DOMAIN queue'[f] = {}
        BY <1>2, <1>3, <3>3
      <4>. QED  BY <3>1, <3>3, <4>1 DEF QueueOf
    <3>. QED  BY <3>2, <3>3
  <2>2. \A g \in Form \ {f} : QueueOf(g)'
    BY <1>3 DEF QueueInv, QueueOf
  <2>. QED  BY <2>1, <2>2 DEF QueueInv
<1>6. PostInv'
  <2>1. left[f] # {} => Head(queue'[f]) = Head(queue[f])
    BY <1>2, <1>3 DEF QueueInv, QueueOf
  <2>2. \A d \in Event, g \in Form, p \in Provider : Posted(d, g, p)' = Posted(d, g, p)
    BY <1>3, <2>1 DEF Posted
  <2>. QED  BY <2>2 DEF PostInv, PostOf, Posted
<1>7. CloseInv'
  BY DEF Types, CloseInv
<1>. QED  BY <1>4, <1>5, <1>6, <1>7

\* Every step preserves the invariant.
LEMMA InvStep == IInv /\ [Next]_vars => IInv'
<1>. SUFFICES ASSUME IInv, [Next]_vars PROVE IInv'
  OBVIOUS
<1>1. CASE Started \/ BeginClose \/ Closed \/ \E f \in Form : SubscribeForm(f)
  BY <1>1, ManagerStep
<1>2. ASSUME NEW f \in Form, NEW e \in Event, Deliver(e, f) PROVE IInv'
  BY <1>2, DeliverStep
<1>3. ASSUME NEW f \in Form, Callback(f) PROVE IInv'
  BY <1>3, TakeStep, DropStep, RenderStep, SpawnStep DEF Callback
<1>4. ASSUME NEW f \in Form, NEW e \in Event, NEW p \in Provider, PostEnds(e, f, p) PROVE IInv'
  BY <1>4, PostEndsStep
<1>5. ASSUME NEW f \in Form, UnsubscribeForm(f) PROVE IInv'
  BY <1>5, UnsubscribeStep
<1>6. CASE UNCHANGED vars
  BY <1>6 DEF vars, IInv, Types, QueueInv, QueueOf, PostInv, PostOf, Posted, CloseInv
<1>. QED  BY <1>1, <1>2, <1>3, <1>4, <1>5, <1>6 DEF Next

\* The invariant holds in every state.
THEOREM Invariance == Spec => []IInv
  BY InvInit, InvStep, PTL DEF Spec

-----------------------------------------------------------------------------
(* Theorems. *)

\* The state keeps its types; no post is started twice for an event of a form.
THEOREM TypeCorrect == Spec => []TypeOK
<1>1. IInv => TypeOK
  BY DEF IInv, Types, PostInv, PostOf, TypeOK
<1>. QED  BY <1>1, Invariance, PTL

\* A callback that is over has started each provider once on what has a formatter, and
\* none on anything else (notify.go:137), however callbacks, posts and Close interleave.
THEOREM EachProvider == Spec => []EveryProviderOnce
<1>1. ASSUME IInv, NEW e \in Event, NEW f \in Form, NEW p \in Provider
      PROVE  /\ e \in handled[f] => started[<<e, f, p>>] = IF Renders(about[e]) THEN 1 ELSE 0
             /\ e \notin Seen(f) => started[<<e, f, p>>] = 0
  <2>1. started[<<e, f, p>>] = IF Posted(e, f, p) THEN 1 ELSE 0
    BY <1>1 DEF IInv, PostInv, PostOf
  <2>2. left[f] # {} => Head(queue[f]) \in ToSet(queue[f]) /\ Head(queue[f]) \notin handled[f]
    <3>1. queue[f] \in Seq(Event) /\ QueueOf(f)
      BY <1>1 DEF IInv, Types, QueueInv
    <3>. QED  BY <3>1, HeadOfQueue DEF QueueOf, ToSet
  <2>. QED  BY <2>1, <2>2 DEF Posted, Seen
<1>2. IInv => EveryProviderOnce
  BY <1>1 DEF EveryProviderOnce
<1>. QED  BY <1>2, Invariance, PTL

\* After Close nothing is taken off NATS: the subscriptions are gone, and nothing makes
\* one active again (notify.go:103-111).
THEOREM Quiet == Spec => QuietAfterClose
<1>1. ASSUME IInv, [Next]_vars, manager = "closed", NEW f \in Form, taken'[f]
      PROVE  taken[f]
  <2>1. taken \in [Form -> BOOLEAN] /\ \A g \in Form : sub[g] # "active"
    BY <1>1 DEF IInv, Types, CloseInv
  <2>2. \A g \in Form : ~Take(g)
    BY <2>1 DEF Take
  <2>3. taken' = taken \/ \E g \in Form : taken' = [taken EXCEPT ![g] = FALSE]
    BY <1>1, <2>2 DEF Next, Callback, vars, Started, BeginClose, Closed, SubscribeForm, Deliver,
       PostEnds, UnsubscribeForm, Drop, Render, Spawn, StartPost, Return
  <2>. QED  BY <1>1, <2>1, <2>3
<1>2. IInv /\ [Next]_vars => [manager = "closed" => \A f \in Form : taken'[f] => taken[f]]_vars
  BY <1>1
<1>. QED  BY <1>2, Invariance, PTL DEF Spec, QuietAfterClose

=============================================================================
