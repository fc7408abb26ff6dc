----------------------------- MODULE LoginProofs -----------------------------
(***************************************************************************)
(* Theorems about Login, for any tabs, persons, settings and lifetimes.    *)
(*                                                                         *)
(* The server remembers nothing, so what makes its answers right is in the *)
(* two cookies and in the replies on their way, and the invariant says of  *)
(* both what they came from: a flow cookie from a login that was started,  *)
(* a session cookie from one that ended in a session, a reply that takes a *)
(* session away from a session that was bad.                               *)
(***************************************************************************)
EXTENDS Login, TLAPS

\* The values the state ranges over, the histories as well.
TypeInv ==
  /\ running \in Files /\ now \in 0..MaxTime
  /\ flow \in FlowCookie \cup {None}
  /\ session \in SessionCookie \cup {None}
  /\ page \in [Tab -> Page]
  /\ login \in [Tab -> 0..Len(begun)]
  /\ code \in [Tab -> Person \cup {None}]
  /\ reply \in [Tab -> Reply \cup {None}]
  /\ redeemed \subseteq called /\ called \subseteq 1..Len(begun)
  /\ touched \in 0..Len(begun)
  /\ begun \in Seq([at : Nat, key : Nat]) /\ Len(begun) <= MaxLogins
  /\ granted \subseteq [sub : Person, at : Nat, key : Nat]

\* What the settings f make of a person.
authorizeBy(f, p) ==
  IF p \in f.admin \/ (f.admin = {} /\ p \in f.base) THEN "admin"
  ELSE IF p \in f.base THEN "readonly" ELSE "none"

\* The cookie of a login that was started ...
FlowGood(c) ==
  /\ c.state \in 1..Len(begun)
  /\ c.exp = begun[c.state].at + FlowTTL
  /\ c.key = begun[c.state].key

\* ... and of one that ended in a session.
SessionGood(c) ==
  \E g \in granted : g.sub = c.sub /\ g.key = c.key /\ c.exp = g.at + SessionTTL

\* The settings f do not accept a session, and will not later.
Refused(c, f) ==
  /\ c \in SessionCookie
  /\ c.key # f.key \/ now > c.exp \/ authorizeBy(f, c.sub) = "none"

\* A reply to a tab.
ReplyGood(t, r) ==
  /\ r.flow \in FlowCookie => FlowGood(r.flow)
  /\ r.session \in SessionCookie => SessionGood(r.session)
  /\ r.path = "login" => r.flow \in FlowCookie /\ r.flow.state = login[t]
  /\ r.path = "callback" => login[t] \in called
  /\ r.path \in {"me", "logout", "api"} => r.flow = Keep
  /\ r.path # "login" => r.page # "idp"
  /\ r.session = None /\ r.path # "logout" => Refused(r.sent, r.by)

CookieInv ==
  /\ flow # None => FlowGood(flow)
  /\ session # None => SessionGood(session)

ReplyInv == \A t \in Tab : reply[t] # None => ReplyGood(t, reply[t])

\* Who is at the provider is in a login.
PageInv == \A t \in Tab : page[t] = "idp" => login[t] \in 1..Len(begun)

\* The login that touched the flow cookie last owns it, until its callback.
TouchInv ==
  touched \in 1..Len(begun) /\ touched \notin called => flow # None /\ flow.state = touched

IInv == TypeInv /\ CookieInv /\ ReplyInv /\ PageInv /\ TouchInv

\* Time goes on and what happened has happened.
Grows ==
  /\ now <= now' /\ Len(begun) <= Len(begun')
  /\ \A i \in 1..Len(begun) : begun'[i] = begun[i]
  /\ called \subseteq called' /\ granted \subseteq granted'

-----------------------------------------------------------------------------
(* What stays good. *)

LEMMA FlowStays ==
  ASSUME TypeInv, TypeInv', Grows, NEW c \in FlowCookie, FlowGood(c)
  PROVE  FlowGood(c)'
<1>1. c.state \in 1..Len(begun) /\ Len(begun) \in Nat /\ Len(begun') \in Nat
  BY DEF FlowGood, TypeInv
<1>2. c.state \in 1..Len(begun') /\ begun'[c.state] = begun[c.state]
  BY <1>1 DEF Grows
<1>. QED  BY <1>2 DEF FlowGood

LEMMA SessionStays ==
  ASSUME Grows, NEW c \in SessionCookie, SessionGood(c)
  PROVE  SessionGood(c)'
  BY DEF Grows, SessionGood

LEMMA RefusedStays ==
  ASSUME TypeInv, TypeInv', Grows, NEW c, NEW f, Refused(c, f)
  PROVE  Refused(c, f)'
<1>1. c \in SessionCookie /\ now \in Nat /\ now' \in Nat /\ now <= now'
  BY DEF Refused, Grows, TypeInv
<1>2. now > c.exp => now' > c.exp
  BY <1>1 DEF SessionCookie
<1>. QED  BY <1>1, <1>2 DEF Refused

\* A reply stays good as long as its tab is in the same login.
LEMMA ReplyStays ==
  ASSUME TypeInv, TypeInv', Grows, NEW t \in Tab, NEW r, ReplyGood(t, r),
         login'[t] = login[t]
  PROVE  ReplyGood(t, r)'
<1>1. r.flow \in FlowCookie => FlowGood(r.flow)'
  BY FlowStays DEF ReplyGood
<1>2. r.session \in SessionCookie => SessionGood(r.session)'
  BY SessionStays DEF ReplyGood
<1>3. r.session = None /\ r.path # "logout" => Refused(r.sent, r.by)'
  BY RefusedStays DEF ReplyGood
<1>4. login[t] \in called => login'[t] \in called'
  BY DEF Grows
<1>. QED  BY <1>1, <1>2, <1>3, <1>4 DEF ReplyGood

\* Replies stay good while they are on their way.
LEMMA RepliesStay ==
  ASSUME IInv, TypeInv', Grows,
         \A u \in Tab : reply'[u] # None => reply'[u] = reply[u] /\ login'[u] = login[u]
  PROVE  ReplyInv'
<1>1. ASSUME NEW u \in Tab, reply'[u] # None PROVE ReplyGood(u, reply[u])'
  <2>1. PICK s : s = reply[u]
    OBVIOUS
  <2>2. ReplyGood(u, s) /\ login'[u] = login[u] /\ reply'[u] = s
    BY <1>1, <2>1 DEF IInv, ReplyInv, ReplyGood
  <2>3. ReplyGood(u, s)'
    BY <2>2, ReplyStays DEF IInv
  <2>. QED  BY <2>2, <2>3 DEF ReplyGood
<1>. QED  BY <1>1 DEF ReplyInv

\* A login that no callback ended owns the flow cookie as long as neither changes.
LEMMA TouchStays ==
  ASSUME TypeInv, Grows, TouchInv, UNCHANGED <<flow, touched>>
  PROVE  TouchInv'
<1>1. touched \in 0..Len(begun) /\ Len(begun) \in Nat
  BY DEF TypeInv
<1>2. touched' \in 1..Len(begun') /\ touched' \notin called'
        => touched \in 1..Len(begun) /\ touched \notin called
  BY <1>1 DEF Grows
<1>. QED  BY <1>2 DEF TouchInv

\* What is not about replies stays good while the jar stays as it is.
LEMMA JarStays ==
  ASSUME IInv, TypeInv', Grows, UNCHANGED <<flow, session, touched>>
  PROVE  CookieInv' /\ TouchInv'
<1>1. flow # None => FlowGood(flow)'
  <2>1. flow # None => flow \in FlowCookie /\ FlowGood(flow)
    BY DEF IInv, TypeInv, CookieInv
  <2>. QED  BY <2>1, FlowStays DEF IInv, FlowGood
<1>2. session # None => SessionGood(session)'
  <2>1. session # None => session \in SessionCookie /\ SessionGood(session)
    BY DEF IInv, TypeInv, CookieInv
  <2>. QED  BY <2>1, SessionStays DEF SessionGood
<1>3. CookieInv'
  BY <1>1, <1>2 DEF CookieInv
<1>4. TouchInv'
  BY TouchStays DEF IInv
<1>. QED  BY <1>3, <1>4

-----------------------------------------------------------------------------
(* Replies. *)

\* A request whose reply is good, and which changes no other tab's page and login and
\* takes nobody to the provider.
LEMMA InvRespond ==
  ASSUME IInv, TypeInv', Grows, NEW t \in Tab, NEW r \in Reply, Respond(t, r),
         ReplyGood(t, r)',
         \A u \in Tab \ {t} : page'[u] = page[u] /\ login'[u] = login[u],
         page'[t] = "idp" => page[t] = "idp" /\ login'[t] = login[t]
  PROVE  IInv'
<1>. USE DEF IInv
<1>1. /\ reply[t] = None /\ reply' = [reply EXCEPT ![t] = r]
      /\ UNCHANGED <<flow, session, touched>>
  BY DEF Respond
<1>2. reply'[t] = r /\ \A u \in Tab \ {t} : reply'[u] = reply[u]
  BY <1>1 DEF TypeInv
<1>3. CookieInv' /\ TouchInv'
  BY <1>1, JarStays
<1>4. ReplyInv'
  <2>1. ASSUME NEW u \in Tab \ {t}, reply[u] # None PROVE ReplyGood(u, reply[u])'
    <3>1. ReplyGood(u, reply[u]) /\ login'[u] = login[u]
      BY <2>1 DEF ReplyInv
    <3>2. PICK s : s = reply[u]
      OBVIOUS
    <3>3. ReplyGood(u, s)
      BY <3>1, <3>2 DEF ReplyGood
    <3>4. ReplyGood(u, s)'
      BY <3>1, <3>3, ReplyStays
    <3>. QED  BY <1>2, <3>2, <3>4 DEF ReplyGood
  <2>2. ReplyGood(t, reply[t])'
    BY <1>2 DEF ReplyGood
  <2>. QED  BY <1>2, <2>1, <2>2 DEF ReplyInv
<1>5. PageInv'
  <2>1. ASSUME NEW u \in Tab, page'[u] = "idp" PROVE login'[u] \in 1..Len(begun')
    <3>1. login[u] \in 1..Len(begun) /\ login'[u] = login[u]
      BY <2>1 DEF PageInv
    <3>. QED  BY <3>1 DEF Grows, TypeInv
  <2>. QED  BY <2>1 DEF PageInv
<1>. QED  BY <1>3, <1>4, <1>5

-----------------------------------------------------------------------------
(* Every step keeps the invariant. *)

LEMMA AppendMeans ==
  ASSUME NEW S, NEW q \in Seq(S), NEW x \in S
  PROVE  /\ Append(q, x) \in Seq(S) /\ Len(Append(q, x)) = Len(q) + 1
         /\ Append(q, x)[Len(q) + 1] = x
         /\ \A i \in 1..Len(q) : Append(q, x)[i] = q[i]
  OBVIOUS

LEMMA InvInit == Init => IInv
<1>. SUFFICES ASSUME Init PROVE IInv
  OBVIOUS
<1>1. <<>> \in Seq([at : Nat, key : Nat]) /\ Len(<<>>) = 0
  OBVIOUS
<1>2. MaxTime \in Nat /\ MaxLogins \in Nat
  BY TimeAssumption
<1>3. "anonymous" \in Page /\ 0 \in 0..0 /\ 0 \in 0..MaxTime
  BY <1>2 DEF Page
<1>4. begun = <<>> /\ Len(begun) = 0 /\ begun \in Seq([at : Nat, key : Nat])
  BY <1>1 DEF Init
<1>5. TypeInv
  BY <1>2, <1>3, <1>4 DEF Init, TypeInv
<1>6. CookieInv /\ ReplyInv /\ PageInv /\ TouchInv
  BY <1>4 DEF Init, CookieInv, ReplyInv, PageInv, TouchInv
<1>. QED  BY <1>5, <1>6 DEF IInv

LEMMA InvMe ==
  ASSUME IInv, NEW t \in Tab, handleMe(t)
  PROVE  IInv'
<1>. USE DEF IInv
<1>. DEFINE r == Answer("me", Identity, "")
<1>1. /\ Respond(t, r)
      /\ page' = [page EXCEPT ![t] = "loading"]
      /\ login' = [login EXCEPT ![t] = 0] /\ code' = [code EXCEPT ![t] = None]
      /\ UNCHANGED <<redeemed, begun, called, granted>>
  BY DEF handleMe, history
<1>2. UNCHANGED <<running, now, flow, session, touched>> /\ reply' = [reply EXCEPT ![t] = r]
  BY <1>1 DEF Respond
<1>3. Identity \in {"anonymous", "readonly", "admin"}
  <2>1. authorize(session.sub) \in {"admin", "readonly", "none"}
    BY DEF authorize
  <2>. QED  BY <2>1 DEF Identity
<1>4. /\ r \in Reply /\ r.path = "me" /\ r.flow = Keep /\ r.session = Keep
      /\ r.page # "idp"
  <2>1. PICK who \in {"anonymous", "readonly", "admin"} : who = Identity
    BY <1>3
  <2>2. r = Answer("me", who, "")
    BY <2>1
  <2>. HIDE DEF r
  <2>. QED  BY <2>2 DEF Answer, Reply, Text, Page, Dashboard
<1>. HIDE DEF r
<1>5. TypeInv'
  <2>1. page' \in [Tab -> Page]
    BY <1>1 DEF TypeInv, Page
  <2>2. 0 \in 0..Len(begun)
    BY DEF TypeInv
  <2>3. login' \in [Tab -> 0..Len(begun')]
    BY <1>1, <2>2 DEF TypeInv
  <2>4. code' \in [Tab -> Person \cup {None}]
    BY <1>1 DEF TypeInv
  <2>5. reply' \in [Tab -> Reply \cup {None}]
    BY <1>2, <1>4 DEF TypeInv
  <2>. QED  BY <1>1, <1>2, <2>1, <2>3, <2>4, <2>5 DEF TypeInv
<1>6. Grows
  BY <1>1, <1>2, TimeAssumption DEF Grows, TypeInv
<1>7. /\ page'[t] = "loading" /\ \A u \in Tab \ {t} : page'[u] = page[u]
      /\ \A u \in Tab \ {t} : login'[u] = login[u]
  BY <1>1 DEF TypeInv
<1>8. PICK s : s = r
  OBVIOUS
<1>9. s \in Reply /\ Respond(t, s)
  BY <1>1, <1>4, <1>8
<1>10. ReplyGood(t, s)'
  <2>1. Keep \notin FlowCookie /\ Keep \notin SessionCookie /\ Keep # None
    BY MarksAssumption
  <2>. QED  BY <1>4, <1>8, <2>1 DEF ReplyGood
<1>. QED  BY <1>5, <1>6, <1>7, <1>9, <1>10, InvRespond

\* A login begins: its number is new.
LEMMA InvLogin ==
  ASSUME IInv, NEW t \in Tab, handleLogin(t)
  PROVE  IInv'
<1>. USE DEF IInv
<1>. DEFINE n == Len(begun) + 1
            e == [at |-> now, key |-> running.key]
            cookie == [state |-> n, exp |-> now + FlowTTL, key |-> running.key]
            r == [Answer("login", "idp", "") EXCEPT !.flow = cookie]
<1>1. /\ page[t] = "anonymous" /\ n <= MaxLogins
      /\ Respond(t, r)
      /\ login' = [login EXCEPT ![t] = n]
      /\ begun' = Append(begun, e)
      /\ UNCHANGED <<page, code, redeemed, called, granted>>
  BY DEF handleLogin
<1>2. /\ UNCHANGED <<running, now, flow, session, touched>>
      /\ reply' = [reply EXCEPT ![t] = r]
  BY <1>1 DEF Respond
<1>3. /\ now \in Nat /\ running \in Files /\ running.key \in Nat
      /\ MaxLogins \in Nat /\ FlowTTL \in Nat /\ Len(begun) \in Nat /\ n \in 1..MaxLogins
  <2>1. MaxTime \in Nat /\ MaxLogins \in Nat /\ FlowTTL \in Nat
    BY TimeAssumption
  <2>2. now \in Nat /\ running \in Files /\ begun \in Seq([at : Nat, key : Nat])
    BY <2>1 DEF TypeInv
  <2>3. running.key \in Nat
    BY <2>2, FilesAssumption
  <2>4. Len(begun) \in Nat
    BY <2>2
  <2>5. n \in 1..MaxLogins
    <3>1. n <= MaxLogins
      BY <1>1
    <3>. QED  BY <2>1, <2>4, <3>1
  <2>. QED  BY <2>1, <2>2, <2>3, <2>4, <2>5
<1>4. e \in [at : Nat, key : Nat] /\ cookie \in FlowCookie
  BY <1>3 DEF FlowCookie
<1>5. /\ begun' \in Seq([at : Nat, key : Nat]) /\ Len(begun') = n /\ begun'[n] = e
      /\ \A i \in 1..Len(begun) : begun'[i] = begun[i]
  <2>. HIDE DEF e
  <2>1. begun \in Seq([at : Nat, key : Nat]) /\ e \in [at : Nat, key : Nat]
    BY <1>4 DEF TypeInv
  <2>2. begun' = Append(begun, e)
    BY <1>1
  <2>. QED  BY <2>1, <2>2, AppendMeans
<1>6. /\ r \in Reply /\ r.flow = cookie /\ r.session = Keep /\ r.path = "login"
  BY <1>4 DEF Answer, Reply, Text, Page
<1>7. /\ cookie.state = n /\ cookie.exp = now + FlowTTL /\ cookie.key = running.key
      /\ e.at = now /\ e.key = running.key
  OBVIOUS
<1>. HIDE DEF r, cookie, e
<1>8. TypeInv'
  <2>1. login' \in [Tab -> 0..Len(begun')]
    BY <1>1, <1>3, <1>5 DEF TypeInv
  <2>2. reply' \in [Tab -> Reply \cup {None}]
    BY <1>2, <1>6 DEF TypeInv
  <2>3. called' \subseteq 1..Len(begun') /\ touched' \in 0..Len(begun')
    BY <1>1, <1>2, <1>3, <1>5 DEF TypeInv
  <2>. QED  BY <1>1, <1>2, <1>5, <2>1, <2>2, <2>3 DEF TypeInv
<1>9. Grows
  BY <1>1, <1>2, <1>3, <1>5 DEF Grows
<1>10. login'[t] = n /\ \A u \in Tab \ {t} : login'[u] = login[u]
  BY <1>1 DEF TypeInv
<1>11. PICK s : s = r
  OBVIOUS
<1>12. s \in Reply /\ Respond(t, s)
  BY <1>1, <1>6, <1>11
<1>13. ReplyGood(t, s)'
  <2>1. /\ s.flow \in FlowCookie /\ s.flow.state = n /\ s.path = "login"
        /\ s.flow.exp = now + FlowTTL /\ s.flow.key = running.key
        /\ s.session = Keep
    BY <1>4, <1>6, <1>7, <1>11
  <2>2. FlowGood(s.flow)'
    BY <1>3, <1>5, <1>7, <2>1 DEF FlowGood
  <2>3. Keep \notin SessionCookie /\ Keep # None
    BY MarksAssumption
  <2>. QED  BY <1>10, <2>1, <2>2, <2>3 DEF ReplyGood
<1>14. page' = page /\ page[t] # "idp"
  BY <1>1
<1>. QED  BY <1>8, <1>9, <1>10, <1>12, <1>13, <1>14, InvRespond

\* What a callback replies and grants.
LEMMA CallbackMeans ==
  ASSUME TypeInv, NEW t \in Tab, NEW p \in Person \cup {None}, handleCallback(t, p)
  PROVE  \E r \in Reply :
           /\ Respond(t, r)
           /\ r.path = "callback" /\ r.flow = None /\ r.page # "idp"
           /\ \/ r.session = Keep /\ granted' = granted
              \/ \E g \in [sub : Person, at : Nat, key : Nat] :
                   /\ granted' = granted \cup {g}
                   /\ r.session \in SessionCookie
                   /\ g.sub = r.session.sub /\ g.key = r.session.key
                   /\ r.session.exp = g.at + SessionTTL
           /\ redeemed' \subseteq redeemed \cup {login[t]}
<1>1. ASSUME NEW text \in Text, callbackError(t, text)
      PROVE  \E r \in Reply :
               /\ Respond(t, r) /\ r.path = "callback" /\ r.flow = None /\ r.page # "idp"
               /\ r.session = Keep /\ granted' = granted /\ redeemed' = redeemed
  <2>. DEFINE r == [Answer("callback", "error", text) EXCEPT !.flow = None]
  <2>1. /\ r \in Reply /\ r.path = "callback" /\ r.flow = None /\ r.page = "error"
        /\ r.session = Keep
    BY DEF Answer, Reply, Page
  <2>2. Respond(t, r) /\ granted' = granted /\ redeemed' = redeemed
    BY <1>1 DEF callbackError
  <2>. HIDE DEF r
  <2>. QED  BY <2>1, <2>2
<1>2. ASSUME p # None, Exchange(t, p)
      PROVE  \E r \in Reply :
               /\ Respond(t, r)
               /\ r.path = "callback" /\ r.flow = None /\ r.page # "idp"
               /\ \/ r.session = Keep /\ granted' = granted
                  \/ \E g \in [sub : Person, at : Nat, key : Nat] :
                       /\ granted' = granted \cup {g}
                       /\ r.session \in SessionCookie
                       /\ g.sub = r.session.sub /\ g.key = r.session.key
                       /\ r.session.exp = g.at + SessionTTL
               /\ redeemed' \subseteq redeemed \cup {login[t]}
  <2>. DEFINE d == [Answer("callback", "error", "access denied") EXCEPT !.flow = None]
              cookie == [sub |-> p, exp |-> now + SessionTTL, key |-> running.key]
              r == [Answer("callback", "loading", "") EXCEPT !.flow = None, !.session = cookie]
              e == [sub |-> p, at |-> now, key |-> running.key]
  <2>1. redeemed' = redeemed \cup {login[t]}
    BY <1>2 DEF Exchange
  <2>2. \/ Respond(t, d) /\ granted' = granted
        \/ Respond(t, r) /\ granted' = granted \cup {e}
    BY <1>2 DEF Exchange
  <2>3. /\ d \in Reply /\ d.path = "callback" /\ d.flow = None /\ d.page = "error"
        /\ d.session = Keep
    BY DEF Answer, Reply, Page, Text
  <2>4. now \in Nat /\ SessionTTL \in Nat /\ running.key \in Nat /\ p \in Person
    <3>1. MaxTime \in Nat /\ SessionTTL \in Nat
      BY TimeAssumption
    <3>2. now \in Nat /\ running \in Files
      BY <3>1 DEF TypeInv
    <3>. QED  BY <1>2, <3>1, <3>2, FilesAssumption
  <2>5. /\ cookie \in SessionCookie /\ e \in [sub : Person, at : Nat, key : Nat]
        /\ cookie.sub = e.sub /\ cookie.key = e.key /\ cookie.exp = e.at + SessionTTL
    BY <2>4 DEF SessionCookie
  <2>6. /\ r \in Reply /\ r.path = "callback" /\ r.flow = None /\ r.page = "loading"
        /\ r.session = cookie
    BY <2>5 DEF Answer, Reply, Page, Text
  <2>. HIDE DEF d, r, cookie, e
  <2>7. CASE Respond(t, d) /\ granted' = granted
    BY <2>1, <2>3, <2>7
  <2>8. CASE Respond(t, r) /\ granted' = granted \cup {e}
    BY <2>1, <2>5, <2>6, <2>8
  <2>. QED  BY <2>2, <2>7, <2>8
<1>3. \/ \E text \in Text : callbackError(t, text)
      \/ p # None /\ Exchange(t, p)
  BY DEF handleCallback, Text
<1>. QED  BY <1>1, <1>2, <1>3

LEMMA InvCallback ==
  ASSUME IInv, NEW t \in Tab, NEW p \in Person \cup {None},
         login[t] \in 1..Len(begun), handleCallback(t, p)
  PROVE  IInv'
<1>. USE DEF IInv
<1>1. /\ code' = [code EXCEPT ![t] = p] /\ called' = called \cup {login[t]}
      /\ UNCHANGED <<page, login, begun>>
  BY DEF handleCallback
<1>2. PICK r \in Reply :
           /\ Respond(t, r)
           /\ r.path = "callback" /\ r.flow = None /\ r.page # "idp"
           /\ \/ r.session = Keep /\ granted' = granted
              \/ \E g \in [sub : Person, at : Nat, key : Nat] :
                   /\ granted' = granted \cup {g}
                   /\ r.session \in SessionCookie
                   /\ g.sub = r.session.sub /\ g.key = r.session.key
                   /\ r.session.exp = g.at + SessionTTL
           /\ redeemed' \subseteq redeemed \cup {login[t]}
  BY CallbackMeans
<1>3. /\ UNCHANGED <<running, now, flow, session, touched>>
      /\ reply' = [reply EXCEPT ![t] = r]
  BY <1>2 DEF Respond
<1>4. granted \subseteq granted' /\ granted' \subseteq [sub : Person, at : Nat, key : Nat]
  BY <1>2 DEF TypeInv
<1>5. TypeInv'
  <2>1. code' \in [Tab -> Person \cup {None}]
    BY <1>1 DEF TypeInv
  <2>2. reply' \in [Tab -> Reply \cup {None}]
    BY <1>3 DEF TypeInv
  <2>3. redeemed' \subseteq called' /\ called' \subseteq 1..Len(begun')
    BY <1>1, <1>2 DEF TypeInv
  <2>. QED  BY <1>1, <1>3, <1>4, <2>1, <2>2, <2>3 DEF TypeInv
<1>6. Grows
  BY <1>1, <1>3, <1>4, TimeAssumption DEF Grows, TypeInv
<1>7. ReplyGood(t, r)'
  <2>1. Keep \notin SessionCookie /\ Keep # None /\ None \notin FlowCookie
        /\ None \notin SessionCookie
    BY MarksAssumption
  <2>2. r.session \in SessionCookie => SessionGood(r.session)'
    BY <1>2, <2>1 DEF SessionGood
  <2>3. r.session # None
    BY <1>2, <2>1
  <2>4. login'[t] \in called'
    BY <1>1
  <2>. QED  BY <1>2, <2>1, <2>2, <2>3, <2>4 DEF ReplyGood
<1>8. page' = page /\ login' = login
  BY <1>1
<1>. QED  BY <1>2, <1>5, <1>6, <1>7, <1>8, InvRespond

LEMMA InvReturns ==
  ASSUME IInv, NEW t \in Tab, ReturnFromProvider(t) \/ ReloadCallback(t)
  PROVE  IInv'
<1>1. CASE ReturnFromProvider(t)
  <2>1. PICK p \in Person \cup {None} : handleCallback(t, p)
    BY <1>1 DEF ReturnFromProvider
  <2>2. login[t] \in 1..Len(begun)
    BY <1>1 DEF IInv, PageInv, ReturnFromProvider
  <2>. QED  BY <2>1, <2>2, InvCallback
<1>2. CASE ReloadCallback(t)
  <2>1. PICK p \in Person \cup {None} : p = code[t]
    BY DEF IInv, TypeInv
  <2>2. handleCallback(t, p) /\ login[t] \in called
    BY <1>2, <2>1 DEF ReloadCallback
  <2>3. login[t] \in 1..Len(begun)
    BY <2>2 DEF IInv, TypeInv
  <2>. QED  BY <2>2, <2>3, InvCallback
<1>. QED  BY <1>1, <1>2

\* Replies that are no part of a login: they leave the flow cookie alone.
LEMMA InvPlain ==
  ASSUME IInv, NEW t \in Tab, NEW r \in Reply, Respond(t, r),
         UNCHANGED <<page, login, code, history>>,
         r.path \in {"logout", "api"}, r.flow = Keep, r.page # "idp",
         r.session \in {None, Keep},
         r.session = None /\ r.path # "logout" => Refused(r.sent, r.by)
  PROVE  IInv'
<1>. USE DEF IInv
<1>1. /\ UNCHANGED <<running, now, flow, session, touched>>
      /\ reply' = [reply EXCEPT ![t] = r]
      /\ UNCHANGED <<page, login, code, redeemed, begun, called, granted>>
  BY DEF Respond, history
<1>2. TypeInv'
  <2>1. reply' \in [Tab -> Reply \cup {None}]
    BY <1>1 DEF TypeInv
  <2>. QED  BY <1>1, <2>1 DEF TypeInv
<1>3. Grows
  BY <1>1, TimeAssumption DEF Grows, TypeInv
<1>4. ReplyGood(t, r)'
  <2>1. /\ Keep \notin FlowCookie /\ Keep \notin SessionCookie /\ None \notin SessionCookie
    BY MarksAssumption
  <2>2. r.session = None /\ r.path # "logout" => Refused(r.sent, r.by)'
    BY <1>2, <1>3, RefusedStays
  <2>. QED  BY <2>1, <2>2 DEF ReplyGood
<1>. QED  BY <1>1, <1>2, <1>3, <1>4, InvRespond

LEMMA InvLogout ==
  ASSUME IInv, NEW t \in Tab, handleLogout(t)
  PROVE  IInv'
<1>. DEFINE r == [Answer("logout", "anonymous", "") EXCEPT !.session = None]
<1>1. /\ r \in Reply /\ r.path = "logout" /\ r.flow = Keep /\ r.page = "anonymous"
      /\ r.session = None
  BY DEF Answer, Reply, Page, Text
<1>2. Respond(t, r) /\ UNCHANGED <<page, login, code, history>>
  BY DEF handleLogout
<1>. HIDE DEF r
<1>3. PICK s : s = r
  OBVIOUS
<1>4. /\ s \in Reply /\ s.path = "logout" /\ s.flow = Keep /\ s.page = "anonymous"
      /\ s.session = None /\ Respond(t, s)
  BY <1>1, <1>2, <1>3
<1>. QED  BY <1>2, <1>4, InvPlain

\* What the middleware replies, and to whom.
LEMMA MiddlewareMeans ==
  ASSUME TypeInv, NEW t \in Tab, Middleware(t)
  PROVE  \E r \in Reply :
           /\ Respond(t, r)
           /\ r.path = "api" /\ r.flow = Keep /\ r.page = page[t]
           /\ \/ r.session = Keep
              \/ /\ r.session = None /\ r.sent = session /\ r.by = running
                 /\ session # None
                 /\ ~Live(session) \/ authorize(session.sub) = "none"
           /\ r.text \in {"served", "written"} =>
                Live(session) /\ authorize(session.sub) \in {"admin", "readonly"}
           /\ r.text = "written" => authorize(session.sub) = "admin"
<1>1. page[t] \in Page /\ running \in Files /\ session \in SessionCookie \cup {None}
  BY DEF TypeInv
<1>2. ASSUME NEW text \in Text,
             Respond(t, Answer("api", page[t], text)),
             text \in {"served", "written"} =>
               Live(session) /\ authorize(session.sub) \in {"admin", "readonly"},
             text = "written" => authorize(session.sub) = "admin"
      PROVE  \E r \in Reply :
               /\ Respond(t, r)
               /\ r.path = "api" /\ r.flow = Keep /\ r.page = page[t] /\ r.session = Keep
               /\ r.text \in {"served", "written"} =>
                    Live(session) /\ authorize(session.sub) \in {"admin", "readonly"}
               /\ r.text = "written" => authorize(session.sub) = "admin"
  <2>. DEFINE r == Answer("api", page[t], text)
  <2>1. /\ r \in Reply /\ r.path = "api" /\ r.flow = Keep /\ r.page = page[t]
        /\ r.session = Keep /\ r.text = text
    BY <1>1 DEF Answer, Reply
  <2>. HIDE DEF r
  <2>2. Respond(t, r)
    BY <1>2 DEF r
  <2>. QED  BY <1>2, <2>1, <2>2
<1>3. ASSUME NEW text \in Text \ {"served", "written"}, Cleared(t, text), session # None,
             ~Live(session) \/ authorize(session.sub) = "none"
      PROVE  \E r \in Reply :
               /\ Respond(t, r)
               /\ r.path = "api" /\ r.flow = Keep /\ r.page = page[t]
               /\ r.session = None /\ r.sent = session /\ r.by = running
               /\ r.text \notin {"served", "written"}
  <2>. DEFINE r == [Answer("api", page[t], text) EXCEPT
                      !.session = None, !.sent = session, !.by = running]
  <2>1. /\ r \in Reply /\ r.path = "api" /\ r.flow = Keep /\ r.page = page[t]
        /\ r.session = None /\ r.sent = session /\ r.by = running /\ r.text = text
    BY <1>1 DEF Answer, Reply
  <2>2. Respond(t, r)
    BY <1>3 DEF Cleared
  <2>. HIDE DEF r
  <2>. QED  BY <1>3, <2>1, <2>2
<1>4. /\ {"authentication required", "admin role required", "served", "written"} \subseteq Text
      /\ {"invalid session", "access denied"} \subseteq Text \ {"served", "written"}
  BY DEF Text
<1>5. Live(session) => session # None
  BY DEF Live
<1>6. PICK write \in BOOLEAN :
       \/ session = None /\ Respond(t, Answer("api", page[t], "authentication required"))
       \/ session # None /\ ~Live(session) /\ Cleared(t, "invalid session")
       \/ Live(session) /\ authorize(session.sub) = "none" /\ Cleared(t, "access denied")
       \/ Respond(t, Answer("api", page[t], "admin role required"))
       \/ /\ Live(session)
          /\ authorize(session.sub) = "admin" \/ (authorize(session.sub) = "readonly" /\ ~write)
          /\ Respond(t, Answer("api", page[t], IF write THEN "written" ELSE "served"))
  BY DEF Middleware, Fenced
<1>7. CASE session = None /\ Respond(t, Answer("api", page[t], "authentication required"))
  BY <1>2, <1>4, <1>7
<1>8. CASE session # None /\ ~Live(session) /\ Cleared(t, "invalid session")
  BY <1>3, <1>4, <1>8
<1>9. CASE Live(session) /\ authorize(session.sub) = "none" /\ Cleared(t, "access denied")
  BY <1>3, <1>4, <1>5, <1>9
<1>10. CASE Respond(t, Answer("api", page[t], "admin role required"))
  BY <1>2, <1>4, <1>10
<1>11. CASE /\ Live(session)
            /\ authorize(session.sub) = "admin" \/ (authorize(session.sub) = "readonly" /\ ~write)
            /\ Respond(t, Answer("api", page[t], IF write THEN "written" ELSE "served"))
  <2>1. CASE write
    BY <1>2, <1>4, <1>11, <2>1
  <2>2. CASE ~write
    BY <1>2, <1>4, <1>11, <2>2
  <2>. QED  BY <2>1, <2>2
<1>. QED  BY <1>6, <1>7, <1>8, <1>9, <1>10, <1>11

LEMMA InvMiddleware ==
  ASSUME IInv, NEW t \in Tab, Middleware(t)
  PROVE  IInv'
<1>1. PICK r \in Reply :
           /\ Respond(t, r)
           /\ r.path = "api" /\ r.flow = Keep /\ r.page = page[t]
           /\ \/ r.session = Keep
              \/ /\ r.session = None /\ r.sent = session /\ r.by = running
                 /\ session # None
                 /\ ~Live(session) \/ authorize(session.sub) = "none"
  BY MiddlewareMeans DEF IInv
<1>2. page[t] # "idp" /\ UNCHANGED <<page, login, code, history>>
  BY DEF Middleware, Dashboard
<1>3. r.session = None => Refused(r.sent, r.by)
  <2>1. session # None => session \in SessionCookie /\ session.exp \in Nat /\ now \in Nat
    BY TimeAssumption DEF IInv, TypeInv, SessionCookie
  <2>2. Keep # None
    BY MarksAssumption
  <2>. QED  BY <1>1, <2>1, <2>2 DEF Refused, Live, authorize, authorizeBy
<1>4. r.session \in {None, Keep} /\ r.path \in {"logout", "api"}
  BY <1>1
<1>. QED  BY <1>1, <1>2, <1>3, <1>4, InvPlain

\* A reply arrives, and the jar holds what it sets.
LEMMA InvReceive ==
  ASSUME IInv, NEW t \in Tab, Receive(t)
  PROVE  IInv'
<1>. USE DEF IInv
<1>. DEFINE r == reply[t]
<1>1. /\ r # None
      /\ flow' = (IF r.flow = Keep THEN flow ELSE r.flow)
      /\ session' = (IF r.session = Keep THEN session ELSE r.session)
      /\ touched' = (IF r.path \in {"login", "callback"} THEN login[t] ELSE touched)
      /\ page' = [page EXCEPT ![t] = r.page]
      /\ reply' = [reply EXCEPT ![t] = None]
      /\ UNCHANGED <<running, now, login, code, redeemed, begun, called, granted>>
  BY DEF Receive, Kept, history
<1>2. /\ r \in Reply /\ ReplyGood(t, r)
      /\ r.flow \in FlowCookie \cup {None, Keep} /\ r.session \in SessionCookie \cup {None, Keep}
      /\ r.page \in Page /\ r.path \in {"me", "login", "callback", "logout", "api"}
  BY <1>1 DEF TypeInv, ReplyInv, Reply
<1>3. TypeInv'
  <2>1. page' \in [Tab -> Page] /\ reply' \in [Tab -> Reply \cup {None}]
    BY <1>1, <1>2 DEF TypeInv
  <2>2. flow' \in FlowCookie \cup {None} /\ session' \in SessionCookie \cup {None}
    BY <1>1, <1>2 DEF TypeInv
  <2>3. touched' \in 0..Len(begun)
    BY <1>1 DEF TypeInv
  <2>. QED  BY <1>1, <2>1, <2>2, <2>3 DEF TypeInv
<1>4. Grows
  BY <1>1, TimeAssumption DEF Grows, TypeInv
<1>5. CookieInv'
  <2>1. flow' # None => flow' \in FlowCookie /\ FlowGood(flow')
    BY <1>1, <1>2 DEF CookieInv, ReplyGood, TypeInv
  <2>2. session' # None => session' \in SessionCookie /\ SessionGood(session')
    BY <1>1, <1>2 DEF CookieInv, ReplyGood, TypeInv
  <2>. QED  BY <1>1, <2>1, <2>2 DEF CookieInv, FlowGood, SessionGood
<1>6. /\ reply'[t] = None /\ \A u \in Tab \ {t} : reply'[u] = reply[u]
      /\ page'[t] = r.page /\ \A u \in Tab \ {t} : page'[u] = page[u]
  BY <1>1 DEF TypeInv
<1>7. ReplyInv'
  BY <1>1, <1>6, <1>3, <1>4, RepliesStay
<1>8. PageInv'
  <2>1. r.page = "idp" => login[t] \in 1..Len(begun)
    <3>1. r.page = "idp" => r.flow \in FlowCookie /\ r.flow.state = login[t]
                            /\ FlowGood(r.flow)
      BY <1>2 DEF ReplyGood
    <3>. QED  BY <3>1 DEF FlowGood
  <2>. QED  BY <1>1, <1>6, <2>1 DEF PageInv
<1>9. TouchInv'
  <2>. SUFFICES ASSUME touched' \in 1..Len(begun), touched' \notin called
                PROVE  flow' # None /\ flow'.state = touched'
    BY <1>1 DEF TouchInv
  <2>1. CASE r.path = "login"
    <3>1. r.flow \in FlowCookie /\ r.flow.state = login[t]
      BY <1>2, <2>1 DEF ReplyGood
    <3>. QED  BY <1>1, <2>1, <3>1, MarksAssumption
  <2>2. CASE r.path = "callback"
    BY <1>1, <1>2, <2>2 DEF ReplyGood
  <2>3. CASE r.path \in {"me", "logout", "api"}
    BY <1>1, <1>2, <2>3 DEF ReplyGood, TouchInv
  <2>. QED  BY <1>2, <2>1, <2>2, <2>3
<1>. QED  BY <1>3, <1>5, <1>7, <1>8, <1>9

LEMMA InvDrop ==
  ASSUME IInv, NEW t \in Tab, Drop(t)
  PROVE  IInv'
<1>. USE DEF IInv
<1>1. PICK to \in {page[t], "error", "disabled"} : page' = [page EXCEPT ![t] = to]
  BY DEF Drop
<1>2. /\ reply' = [reply EXCEPT ![t] = None]
      /\ UNCHANGED <<running, now, flow, session, touched, login, code, redeemed, begun,
                     called, granted>>
  BY DEF Drop, jarVars, history
<1>3. TypeInv'
  <2>1. page' \in [Tab -> Page] /\ reply' \in [Tab -> Reply \cup {None}]
    BY <1>1, <1>2 DEF TypeInv, Page, Dashboard
  <2>. QED  BY <1>2, <2>1 DEF TypeInv
<1>4. Grows
  BY <1>2, TimeAssumption DEF Grows, TypeInv
<1>5. CookieInv' /\ TouchInv'
  BY <1>2, <1>3, <1>4, JarStays
<1>6. /\ reply'[t] = None /\ \A u \in Tab \ {t} : reply'[u] = reply[u]
      /\ \A u \in Tab : page'[u] = "idp" => page[u] = "idp"
  BY <1>1, <1>2 DEF TypeInv
<1>7. ReplyInv'
  BY <1>2, <1>6, <1>3, <1>4, RepliesStay
<1>8. PageInv'
  BY <1>2, <1>6 DEF PageInv
<1>. QED  BY <1>3, <1>5, <1>7, <1>8

\* Time passes, or the server is started with other settings: a cookie or a refusal
\* says nothing of either.
LEMMA InvWorld ==
  ASSUME IInv, running' \in Files, now' \in now..MaxTime,
         UNCHANGED <<jarVars, page, login, code, reply, history>>
  PROVE  IInv'
<1>. USE DEF IInv
<1>1. /\ UNCHANGED <<flow, session, touched, page, login, code, reply, redeemed, begun,
                     called, granted>>
  BY DEF jarVars, history
<1>2. now \in Nat /\ MaxTime \in Nat
  BY TimeAssumption DEF TypeInv
<1>3. TypeInv'
  BY <1>1, <1>2 DEF TypeInv
<1>4. Grows
  BY <1>1, <1>2 DEF Grows, TypeInv
<1>5. CookieInv' /\ TouchInv'
  BY <1>1, <1>3, <1>4, JarStays
<1>6. ReplyInv'
  BY <1>1, <1>3, <1>4, RepliesStay
<1>7. PageInv'
  BY <1>1 DEF PageInv
<1>. QED  BY <1>3, <1>5, <1>6, <1>7

-----------------------------------------------------------------------------
(* The theorems. *)

LEMMA InvNext ==
  ASSUME IInv, [Next]_vars
  PROVE  IInv'
<1>1. ASSUME NEW t \in Tab, handleMe(t) PROVE IInv'
  BY <1>1, InvMe
<1>2. ASSUME NEW t \in Tab, handleLogin(t) PROVE IInv'
  BY <1>2, InvLogin
<1>3. ASSUME NEW t \in Tab, ReturnFromProvider(t) \/ ReloadCallback(t) PROVE IInv'
  BY <1>3, InvReturns
<1>4. ASSUME NEW t \in Tab, handleLogout(t) PROVE IInv'
  BY <1>4, InvLogout
<1>5. ASSUME NEW t \in Tab, Middleware(t) PROVE IInv'
  BY <1>5, InvMiddleware
<1>6. ASSUME NEW t \in Tab, Receive(t) PROVE IInv'
  BY <1>6, InvReceive
<1>7. ASSUME NEW t \in Tab, Drop(t) PROVE IInv'
  BY <1>7, InvDrop
<1>8. running \in Files /\ now \in 0..MaxTime /\ MaxTime \in Nat
  BY TimeAssumption DEF IInv, TypeInv
<1>9. CASE Tick
  <2>1. running' \in Files /\ now' \in now..MaxTime
    BY <1>8, <1>9 DEF Tick
  <2>. QED  BY <1>9, <2>1, InvWorld DEF Tick
<1>10. CASE Restart
  <2>1. running' \in Files /\ now' \in now..MaxTime
    BY <1>8, <1>10 DEF Restart
  <2>. QED  BY <1>10, <2>1, InvWorld DEF Restart
<1>11. CASE UNCHANGED vars
  <2>1. running' \in Files /\ now' \in now..MaxTime
    BY <1>8, <1>11 DEF vars
  <2>. QED  BY <1>11, <2>1, InvWorld DEF vars, jarVars, history
<1>. QED  BY <1>1, <1>2, <1>3, <1>4, <1>5, <1>6, <1>7, <1>9, <1>10, <1>11 DEF Next

\* The inductive invariant holds in every state of every behaviour.
THEOREM Invariance == Spec => []IInv
<1>1. Init => IInv
  BY InvInit
<1>2. IInv /\ [Next]_vars => IInv'
  BY InvNext
<1>. QED  BY <1>1, <1>2, PTL DEF Spec

\* Every variable keeps to its values, and no flow cookie outlives FlowTTL.
THEOREM TypeCorrect == Spec => []TypeOK
<1>1. IInv => TypeOK
  <2>. SUFFICES ASSUME IInv PROVE TypeOK
    OBVIOUS
  <2>1. flow # None => flow.exp <= begun[flow.state].at + FlowTTL
    <3>1. flow # None => flow \in FlowCookie /\ flow.exp = begun[flow.state].at + FlowTTL
      BY DEF IInv, TypeInv, CookieInv, FlowGood
    <3>2. flow # None => flow.exp \in Nat
      BY <3>1 DEF FlowCookie
    <3>. QED  BY <3>1, <3>2
  <2>. QED  BY <2>1 DEF IInv, TypeInv, TypeOK
<1>. QED  BY <1>1, Invariance, PTL

\* A request of one tab gives no other tab a reply.
LEMMA Others ==
  ASSUME TypeInv, NEW u \in Tab, NEW r, Respond(u, r), NEW t \in Tab, t # u
  PROVE  reply'[t] = reply[t]
  BY DEF Respond, TypeInv

\* Which steps handle a request.
LEMMA HandledMeans ==
  ASSUME TypeInv, [Next]_vars, NEW t \in Tab, reply[t] = None, reply'[t] # None
  PROVE  \/ handleMe(t) \/ handleLogin(t) \/ ReturnFromProvider(t) \/ ReloadCallback(t)
         \/ handleLogout(t) \/ Middleware(t)
<1>1. ASSUME NEW u \in Tab, Receive(u) \/ Drop(u) PROVE FALSE
  <2>1. reply' = [reply EXCEPT ![u] = None]
    BY <1>1 DEF Receive, Drop
  <2>. QED  BY <2>1 DEF TypeInv
<1>2. ASSUME NEW u \in Tab, handleLogin(u) PROVE u = t
  <2>1. PICK r : Respond(u, r)
    BY <1>2 DEF handleLogin
  <2>. QED  BY <2>1, Others
<1>3. ASSUME NEW u \in Tab, ReturnFromProvider(u) \/ ReloadCallback(u) PROVE u = t
  <2>1. PICK p \in Person \cup {None} : handleCallback(u, p)
    BY <1>3 DEF ReturnFromProvider, ReloadCallback, TypeInv
  <2>2. PICK r : Respond(u, r)
    BY <2>1, CallbackMeans
  <2>. QED  BY <2>2, Others
<1>4. ASSUME NEW u \in Tab, handleLogout(u) PROVE u = t
  <2>1. PICK r : Respond(u, r)
    BY <1>4 DEF handleLogout
  <2>. QED  BY <2>1, Others
<1>5. ASSUME NEW u \in Tab, Middleware(u) PROVE u = t
  <2>1. PICK r : Respond(u, r)
    BY <1>5, MiddlewareMeans
  <2>. QED  BY <2>1, Others
<1>6. ASSUME NEW u \in Tab, handleMe(u) PROVE u = t
  <2>1. PICK r : Respond(u, r)
    BY <1>6 DEF handleMe
  <2>. QED  BY <2>1, Others
<1>7. ~(Tick \/ Restart \/ UNCHANGED vars)
  BY DEF Tick, Restart, vars
<1>. QED  BY <1>1, <1>2, <1>3, <1>4, <1>5, <1>6, <1>7 DEF Next

\* The reply that Respond sends.
LEMMA Responded ==
  ASSUME TypeInv, NEW t \in Tab, NEW r, Respond(t, r)
  PROVE  reply'[t] = r
  BY DEF Respond, TypeInv

\* The probe, a login and a logout reply as such.
LEMMA PathMeans ==
  ASSUME TypeInv, NEW t \in Tab
  PROVE  /\ handleMe(t) => reply'[t].path = "me"
         /\ handleLogin(t) => reply'[t].path = "login"
         /\ handleLogout(t) => reply'[t].path = "logout"
<1>. DEFINE cookie == [state |-> Len(begun) + 1, exp |-> now + FlowTTL, key |-> running.key]
            r == [Answer("login", "idp", "") EXCEPT !.flow = cookie]
            s == [Answer("logout", "anonymous", "") EXCEPT !.session = None]
            m == Answer("me", Identity, "")
<1>1. handleLogin(t) => Respond(t, r)
  BY DEF handleLogin
<1>2. handleLogout(t) => Respond(t, s)
  BY DEF handleLogout
<1>3. handleMe(t) => Respond(t, m)
  BY DEF handleMe
<1>4. r.path = "login" /\ s.path = "logout" /\ m.path = "me"
  BY DEF Answer
<1>. HIDE DEF r, s, m
<1>. QED  BY <1>1, <1>2, <1>3, <1>4 DEF Respond, TypeInv

\* A callback that complains of the flow cookie found it missing, dead or another's.
LEMMA RefusalMeans ==
  ASSUME TypeInv, NEW t \in Tab, NEW p \in Person \cup {None}, handleCallback(t, p),
         reply'[t].text \in {"missing flow cookie", "invalid flow cookie", "state mismatch"}
  PROVE  flow = None \/ ~Live(flow) \/ flow.state # login[t]
<1>. SUFFICES ASSUME flow # None, Live(flow), flow.state = login[t] PROVE FALSE
  OBVIOUS
<1>1. ASSUME NEW text, callbackError(t, text) PROVE reply'[t].text = text
  <2>. DEFINE r == [Answer("callback", "error", text) EXCEPT !.flow = None]
  <2>1. Respond(t, r)
    BY <1>1 DEF callbackError
  <2>2. r.text = text
    BY DEF Answer
  <2>. HIDE DEF r
  <2>. QED  BY <2>1, <2>2 DEF Respond, TypeInv
<1>2. ASSUME Exchange(t, p) PROVE reply'[t].text \in {"access denied", ""}
  <2>. DEFINE d == [Answer("callback", "error", "access denied") EXCEPT !.flow = None]
              r == [Answer("callback", "loading", "") EXCEPT !.flow = None,
                      !.session = [sub |-> p, exp |-> now + SessionTTL, key |-> running.key]]
  <2>1. Respond(t, d) \/ Respond(t, r)
    BY <1>2 DEF Exchange
  <2>2. d.text = "access denied" /\ r.text = ""
    BY DEF Answer
  <2>. HIDE DEF d, r
  <2>3. reply'[t] = d \/ reply'[t] = r
    BY <2>1 DEF Respond, TypeInv
  <2>. QED  BY <2>2, <2>3
<1>3. \/ callbackError(t, "idp returned error") \/ callbackError(t, "missing code or state")
      \/ callbackError(t, "token exchange") \/ Exchange(t, p)
  BY DEF handleCallback
<1>4. reply'[t].text \in {"idp returned error", "missing code or state", "token exchange",
                         "access denied", ""}
  BY <1>1, <1>2, <1>3
<1>. QED  BY <1>4

LEMMA Expired ==
  ASSUME TypeInv, NEW c \in FlowCookie, ~(now <= c.exp)
  PROVE  now > c.exp
  BY TimeAssumption DEF TypeInv, FlowCookie

\* handleCallback turns a person away for the flow cookie only if the login took too
\* long, the key was changed, the callback is a second one or another tab came between.
THEOREM LoginRefused == Spec => LoginRefusedForAReason
<1>. DEFINE P(t) ==
       /\ Handled(t, "callback")
       /\ reply'[t].text \in {"missing flow cookie", "invalid flow cookie", "state mismatch"}
       => \/ now > begun[login[t]].at + FlowTTL
          \/ begun[login[t]].key # running.key
          \/ login[t] \in called
          \/ touched # login[t]
<1>1. ASSUME IInv, [Next]_vars, NEW t \in Tab PROVE P(t)
  <2>. SUFFICES ASSUME Handled(t, "callback"),
                  reply'[t].text \in {"missing flow cookie", "invalid flow cookie",
                                      "state mismatch"},
                  login[t] \notin called, touched = login[t],
                  begun[login[t]].key = running.key
                PROVE  now > begun[login[t]].at + FlowTTL
    OBVIOUS
  <2>1. /\ TypeInv /\ reply[t] = None /\ reply'[t] # None
        /\ reply'[t].path = "callback"
    BY <1>1 DEF IInv, Handled
  <2>2. \/ handleMe(t) \/ handleLogin(t) \/ ReturnFromProvider(t) \/ ReloadCallback(t)
        \/ handleLogout(t) \/ Middleware(t)
    BY <1>1, <2>1, HandledMeans
  <2>3. ~handleMe(t) /\ ~handleLogin(t)
    BY <2>1, PathMeans
  <2>4. ~handleLogout(t)
    BY <2>1, PathMeans
  <2>5. ~Middleware(t)
    <3>1. SUFFICES ASSUME Middleware(t) PROVE FALSE
      OBVIOUS
    <3>2. PICK r \in Reply : Respond(t, r) /\ r.path = "api"
      BY <2>1, <3>1, MiddlewareMeans
    <3>. QED  BY <2>1, <3>2, Responded
  <2>6. ~ReloadCallback(t)
    BY DEF ReloadCallback
  <2>7. page[t] = "idp"
    BY <2>2, <2>3, <2>4, <2>5, <2>6 DEF ReturnFromProvider
  <2>8. PICK p \in Person \cup {None} : handleCallback(t, p)
    BY <2>2, <2>3, <2>4, <2>5, <2>6 DEF ReturnFromProvider
  <2>9. flow = None \/ ~Live(flow) \/ flow.state # login[t]
    BY <2>1, <2>8, RefusalMeans
  <2>10. login[t] \in 1..Len(begun)
    BY <1>1, <2>7 DEF IInv, PageInv
  <2>11. flow # None /\ flow.state = login[t] /\ FlowGood(flow) /\ flow \in FlowCookie
    BY <1>1, <2>1, <2>10 DEF IInv, TouchInv, CookieInv, TypeInv
  <2>12. flow.key = running.key /\ flow.exp = begun[login[t]].at + FlowTTL
    BY <2>11 DEF FlowGood
  <2>13. ~(now <= flow.exp)
    BY <2>9, <2>11, <2>12 DEF Live
  <2>14. now > flow.exp
    BY <2>1, <2>11, <2>13, Expired
  <2>. QED  BY <2>12, <2>14
<1>. HIDE DEF P
<1>2. IInv /\ [Next]_vars => [\A t \in Tab : P(t)]_vars
  BY <1>1
<1>3. [][\A t \in Tab : P(t)]_vars <=> LoginRefusedForAReason
  BY DEF P, LoginRefusedForAReason
<1>. QED  BY <1>2, <1>3, Invariance, PTL DEF Spec

\* A reply takes a session the server would accept from the jar only if it is that of
\* a logout, or the refusal of another session, or of a server with other settings.
THEOREM SessionLost == Spec => SessionLostForAReason
<1>. DEFINE P ==
       Live(session) /\ authorize(session.sub) # "none" /\ session' = None =>
         \E t \in Tab :
           /\ reply[t] # None /\ reply'[t] = None
           /\ \/ reply[t].path = "logout"
              \/ reply[t].sent # session
              \/ reply[t].by # running
<1>1. ASSUME IInv, [Next]_vars PROVE P
  <2>. SUFFICES ASSUME Live(session), authorize(session.sub) # "none", session' = None
                PROVE  \E t \in Tab :
                         /\ reply[t] # None /\ reply'[t] = None
                         /\ \/ reply[t].path = "logout"
                            \/ reply[t].sent # session
                            \/ reply[t].by # running
    OBVIOUS
  <2>1. session # None /\ session \in SessionCookie
    BY <1>1 DEF Live, IInv, TypeInv
  <2>2. ASSUME NEW t \in Tab, ReturnFromProvider(t) \/ ReloadCallback(t) PROVE FALSE
    <3>1. PICK p \in Person \cup {None} : handleCallback(t, p)
      BY <1>1, <2>2 DEF ReturnFromProvider, ReloadCallback, IInv, TypeInv
    <3>2. \E r : Respond(t, r)
      BY <1>1, <3>1, CallbackMeans DEF IInv
    <3>. QED  BY <2>1, <3>2 DEF Respond
  <2>3. ASSUME NEW t \in Tab, Middleware(t) PROVE FALSE
    <3>1. \E r : Respond(t, r)
      BY <1>1, <2>3, MiddlewareMeans DEF IInv
    <3>. QED  BY <2>1, <3>1 DEF Respond
  <2>4. ASSUME NEW t \in Tab, handleMe(t) \/ handleLogin(t) \/ handleLogout(t) PROVE FALSE
    <3>1. \E r : Respond(t, r)
      BY <2>4 DEF handleMe, handleLogin, handleLogout
    <3>. QED  BY <2>1, <3>1 DEF Respond
  <2>5. ASSUME NEW t \in Tab, Drop(t) PROVE FALSE
    BY <2>1, <2>5 DEF Drop, jarVars
  <2>6. ~(Tick \/ Restart \/ UNCHANGED vars)
    BY <2>1 DEF Tick, Restart, vars, jarVars
  <2>7. PICK t \in Tab : Receive(t)
    BY <1>1, <2>2, <2>3, <2>4, <2>5, <2>6 DEF Next
  <2>8. reply[t] # None /\ reply'[t] = None
    BY <1>1, <2>7 DEF Receive, IInv, TypeInv
  <2>9. reply[t].session = None
    BY <2>1, <2>7 DEF Receive, Kept
  <2>10. ASSUME reply[t].path # "logout", reply[t].sent = session, reply[t].by = running
         PROVE  FALSE
    <3>1. Refused(session, running)
      BY <1>1, <2>8, <2>9, <2>10 DEF IInv, ReplyInv, ReplyGood
    <3>2. now \in Nat /\ session.exp \in Nat
      BY <1>1, <2>1, TimeAssumption DEF IInv, TypeInv, SessionCookie
    <3>. QED  BY <3>1, <3>2 DEF Refused, Live, authorize, authorizeBy
  <2>. QED  BY <2>8, <2>10
<1>. HIDE DEF P
<1>2. IInv /\ [Next]_vars => [P]_vars
  BY <1>1
<1>3. [][P]_vars <=> SessionLostForAReason
  BY DEF P, SessionLostForAReason
<1>. QED  BY <1>2, <1>3, Invariance, PTL DEF Spec

\* Who asks with a live session signed in here no longer than SessionTTL ago.
LEMMA LiveMeans ==
  ASSUME IInv, Live(session)
  PROVE  \E g \in granted :
           g.sub = session.sub /\ g.key = running.key /\ now <= g.at + SessionTTL
<1>1. session \in SessionCookie /\ SessionGood(session) /\ session.key = running.key
      /\ now <= session.exp
  BY DEF IInv, TypeInv, CookieInv, Live
<1>2. PICK g \in granted : g.sub = session.sub /\ g.key = session.key
                           /\ session.exp = g.at + SessionTTL
  BY <1>1 DEF SessionGood
<1>. QED  BY <1>1, <1>2

\* The middleware answers only who signed in here, not too long ago and under the
\* present key, and whom the present settings let in; it writes only for their admins.
THEOREM Served == Spec => ServedMeansAllowed
<1>. DEFINE P(t) ==
       Handled(t, "api") /\ reply'[t].text \in {"served", "written"} =>
         \E g \in granted :
           /\ g.sub = session.sub /\ g.key = running.key /\ now <= g.at + SessionTTL
           /\ g.sub \in running.base \cup running.admin
           /\ reply'[t].text = "written" => running.admin = {} \/ g.sub \in running.admin
<1>1. ASSUME IInv, [Next]_vars, NEW t \in Tab PROVE P(t)
  <2>1. SUFFICES ASSUME Handled(t, "api"), reply'[t].text \in {"served", "written"}
                 PROVE  \E g \in granted :
                          /\ g.sub = session.sub /\ g.key = running.key
                          /\ now <= g.at + SessionTTL
                          /\ g.sub \in running.base \cup running.admin
                          /\ reply'[t].text = "written"
                               => running.admin = {} \/ g.sub \in running.admin
    OBVIOUS
  <2>2. /\ TypeInv /\ reply[t] = None /\ reply'[t] # None
        /\ reply'[t].path = "api"
    BY <1>1, <2>1 DEF IInv, Handled
  <2>3. \/ handleMe(t) \/ handleLogin(t) \/ ReturnFromProvider(t) \/ ReloadCallback(t)
        \/ handleLogout(t) \/ Middleware(t)
    BY <1>1, <2>2, HandledMeans
  <2>4. ~handleMe(t) /\ ~handleLogin(t) /\ ~handleLogout(t)
    BY <2>2, PathMeans
  <2>5. ~(ReturnFromProvider(t) \/ ReloadCallback(t))
    <3>1. SUFFICES ASSUME ReturnFromProvider(t) \/ ReloadCallback(t) PROVE FALSE
      OBVIOUS
    <3>2. PICK p \in Person \cup {None} : handleCallback(t, p)
      BY <2>2, <3>1 DEF ReturnFromProvider, ReloadCallback, TypeInv
    <3>3. PICK r \in Reply : Respond(t, r) /\ r.path = "callback"
      BY <2>2, <3>2, CallbackMeans
    <3>. QED  BY <2>2, <3>3, Responded
  <2>6. Middleware(t)
    BY <2>3, <2>4, <2>5
  <2>7. PICK r \in Reply :
             /\ Respond(t, r)
             /\ r.text \in {"served", "written"} =>
                  Live(session) /\ authorize(session.sub) \in {"admin", "readonly"}
             /\ r.text = "written" => authorize(session.sub) = "admin"
    BY <2>2, <2>6, MiddlewareMeans
  <2>8. reply'[t] = r
    BY <2>2, <2>7, Responded
  <2>9. Live(session) /\ authorize(session.sub) \in {"admin", "readonly"}
    BY <2>1, <2>7, <2>8
  <2>10. reply'[t].text = "written" => authorize(session.sub) = "admin"
    BY <2>7, <2>8
  <2>11. /\ session.sub \in running.base \cup running.admin
         /\ authorize(session.sub) = "admin"
              => running.admin = {} \/ session.sub \in running.admin
    BY <2>9 DEF authorize
  <2>12. PICK g \in granted :
           g.sub = session.sub /\ g.key = running.key /\ now <= g.at + SessionTTL
    BY <1>1, <2>9, LiveMeans
  <2>. QED  BY <2>10, <2>11, <2>12
<1>. HIDE DEF P
<1>2. IInv /\ [Next]_vars => [\A t \in Tab : P(t)]_vars
  BY <1>1
<1>3. [][\A t \in Tab : P(t)]_vars <=> ServedMeansAllowed
  BY DEF P, ServedMeansAllowed
<1>. QED  BY <1>2, <1>3, Invariance, PTL DEF Spec

=============================================================================
