-------------------------------- MODULE Login --------------------------------
(***************************************************************************)
(* Signing in (internal/auth: handlers.go, session.go, auth.go and the     *)
(* cookie middleware; the frontend's useAuth).  One browser with several   *)
(* tabs shares one cookie jar; the server keeps no state but its settings, *)
(* and everything else is in two signed cookies.                           *)
(*                                                                         *)
(* A request carries the cookies the jar holds when it is sent; what the   *)
(* reply sets or clears reaches the jar when the reply arrives.  State,    *)
(* nonce and verifier of a login are one number.  A key is what the        *)
(* signatures check; claims are the person the identity provider names.    *)
(***************************************************************************)
EXTENDS Naturals, Sequences

CONSTANTS
  Tab, Person,
  Files,       \* what settings.toml may say about access, and the signing key
  FlowTTL, SessionTTL,
  MaxLogins,   \* bound on the logins started
  MaxTime,     \* bound on the clock
  None, Keep   \* no cookie; a reply that leaves a cookie alone

ASSUME TimeAssumption == {FlowTTL, SessionTTL, MaxLogins, MaxTime} \subseteq Nat
ASSUME FilesAssumption ==
  \A f \in Files : f.base \subseteq Person /\ f.admin \subseteq Person /\ f.key \in Nat

VARIABLES
  running,   \* the settings the server was started with
  now,
  flow,      \* the jar: the cookie of a login under way ...
  session,   \* ... and the session cookie
  page,      \* what each tab shows
  login,     \* the login each tab is in, 0 for none
  code,      \* who the code in the tab's URL names; None: an error of the provider, or no code
  reply,     \* the reply on its way to each tab, None if it waits for none
  redeemed,  \* the logins whose code was exchanged
  begun,     \* history: when, and under which key, each login was started
  called,    \* history: the logins whose callback was handled
  touched,   \* history: the login whose redirect or callback touched flow last
  granted    \* history: the logins that ended in a session

vars == <<running, now, flow, session, page, login, code, reply, redeemed, begun,
          called, touched, granted>>
jarVars == <<flow, session, touched>>
history == <<redeemed, begun, called, granted>>

\* The frontend's states, the provider's page and the plain text of a failed login.
\* "disabled" is the dashboard with every control and no identity.
Dashboard == {"admin", "readonly", "disabled"}
Page == Dashboard \cup {"loading", "anonymous", "idp", "error"}

FlowCookie == [state : 1..MaxLogins, exp : Nat, key : Nat]
SessionCookie == [sub : Person, exp : Nat, key : Nat]

ASSUME MarksAssumption ==
  /\ None # Keep /\ None \notin Person
  /\ \A mark \in {None, Keep} : mark \notin FlowCookie /\ mark \notin SessionCookie

Init ==
  /\ running \in Files
  /\ now = 0
  /\ flow = None /\ session = None
  /\ page = [t \in Tab |-> "anonymous"]
  /\ login = [t \in Tab |-> 0]
  /\ code = [t \in Tab |-> None]
  /\ reply = [t \in Tab |-> None]
  /\ redeemed = {} /\ begun = <<>> /\ called = {} /\ touched = 0 /\ granted = {}

-----------------------------------------------------------------------------
(* What the server makes of a cookie. *)

\* Mutation: the expiry in the cookie is not looked at.
LiveForever(c) == c # None /\ c.key = running.key

\* readSession and readFlow: signed with the present key, and not expired.
Live(c) == c # None /\ c.key = running.key /\ now <= c.exp

\* Without an admin list everyone who may sign in is an admin; an admin need not be
\* on the base list.
authorize(p) ==
  IF p \in running.admin \/ (running.admin = {} /\ p \in running.base) THEN "admin"
  ELSE IF p \in running.base THEN "readonly" ELSE "none"

-----------------------------------------------------------------------------
(* Requests.  A tab waits for the reply of one before it sends another. *)

\* A reply also remembers the session it was given for and the settings it was given
\* under if it takes a session away.
Answer(path, to, text) ==
  [path |-> path, flow |-> Keep, session |-> Keep, page |-> to, text |-> text,
   sent |-> None, by |-> Keep]

Respond(t, r) ==
  /\ reply[t] = None
  /\ reply' = [reply EXCEPT ![t] = r]
  /\ UNCHANGED <<running, now, flow, session, touched>>

\* 401 without a session and 403 for one that is let in no longer both show the sign-in.
Identity ==
  IF ~Live(session) \/ authorize(session.sub) = "none" THEN "anonymous"
  ELSE authorize(session.sub)

\* The frontend is loaded or reloaded, and useAuth asks who is signed in.
handleMe(t) ==
  /\ Respond(t, Answer("me", Identity, ""))
  /\ page' = [page EXCEPT ![t] = "loading"]
  /\ login' = [login EXCEPT ![t] = 0]
  /\ code' = [code EXCEPT ![t] = None]
  /\ UNCHANGED history

\* Mutation: the flow cookie lives as long as a session.
LoginLong(t) ==
  LET n == Len(begun) + 1
  IN /\ page[t] = "anonymous" /\ n <= MaxLogins
     /\ Respond(t, [Answer("login", "idp", "") EXCEPT
                      !.flow = [state |-> n, exp |-> now + SessionTTL, key |-> running.key]])
     /\ login' = [login EXCEPT ![t] = n]
     /\ begun' = Append(begun, [at |-> now, key |-> running.key])
     /\ UNCHANGED <<page, code, redeemed, called, granted>>

handleLogin(t) ==
  LET n == Len(begun) + 1
  IN /\ page[t] = "anonymous" /\ n <= MaxLogins
     /\ Respond(t, [Answer("login", "idp", "") EXCEPT
                      !.flow = [state |-> n, exp |-> now + FlowTTL, key |-> running.key]])
     /\ login' = [login EXCEPT ![t] = n]
     /\ begun' = Append(begun, [at |-> now, key |-> running.key])
     /\ UNCHANGED <<page, code, redeemed, called, granted>>

callbackError(t, text) ==
  /\ Respond(t, [Answer("callback", "error", text) EXCEPT !.flow = None])
  /\ UNCHANGED <<redeemed, granted>>

\* The code is exchanged, once; the id_token names its person.
Exchange(t, p) ==
  /\ login[t] \notin redeemed
  /\ redeemed' = redeemed \cup {login[t]}
  /\ \/ /\ authorize(p) = "none"
        /\ Respond(t, [Answer("callback", "error", "access denied") EXCEPT !.flow = None])
        /\ UNCHANGED granted
     \/ /\ authorize(p) # "none"
        /\ Respond(t, [Answer("callback", "loading", "") EXCEPT
                         !.flow = None,
                         !.session = [sub |-> p, exp |-> now + SessionTTL, key |-> running.key]])
        /\ granted' = granted \cup {[sub |-> p, at |-> now, key |-> running.key]}

\* The checks of the callback in their order.
handleCallback(t, p) ==
  /\ \/ /\ p = None
        /\ callbackError(t, "idp returned error") \/ callbackError(t, "missing code or state")
     \/ p # None /\ flow = None /\ callbackError(t, "missing flow cookie")
     \/ p # None /\ flow # None /\ ~Live(flow) /\ callbackError(t, "invalid flow cookie")
     \/ /\ p # None /\ Live(flow) /\ flow.state # login[t]
        /\ callbackError(t, "state mismatch")
     \/ /\ p # None /\ Live(flow) /\ flow.state = login[t]
        /\ callbackError(t, "token exchange") \/ Exchange(t, p)
  /\ code' = [code EXCEPT ![t] = p]
  /\ called' = called \cup {login[t]}
  /\ UNCHANGED <<page, login, begun>>

\* The provider sends the browser back, or the user reloads what came of it.
ReturnFromProvider(t) == page[t] = "idp" /\ \E p \in Person \cup {None} : handleCallback(t, p)

ReloadCallback(t) == page[t] = "error" /\ login[t] \in called /\ handleCallback(t, code[t])

\* Mutation: signing out drops a login under way as well.
LogoutClearsFlow(t) ==
  /\ page[t] \in {"admin", "readonly"}
  /\ Respond(t, [Answer("logout", "anonymous", "") EXCEPT !.session = None, !.flow = None])
  /\ UNCHANGED <<page, login, code, history>>

handleLogout(t) ==
  /\ page[t] \in {"admin", "readonly"}
  /\ Respond(t, [Answer("logout", "anonymous", "") EXCEPT !.session = None])
  /\ UNCHANGED <<page, login, code, history>>

\* Mutation: whatever is refused takes the session with it.
FencedOut(t) ==
  Respond(t, [Answer("api", page[t], "admin role required") EXCEPT
                !.session = None, !.sent = session, !.by = running])

\* A read-only session may not write.
Fenced(t) == Respond(t, Answer("api", page[t], "admin role required"))

Cleared(t, text) ==
  Respond(t, [Answer("api", page[t], text) EXCEPT
                !.session = None, !.sent = session, !.by = running])

\* The middleware, for a read and for a write; only the read-only dashboard hides the
\* controls for writes.
Middleware(t) ==
  /\ page[t] \in Dashboard
  /\ \E write \in {w \in BOOLEAN : w => page[t] # "readonly"} :
       \/ session = None /\ Respond(t, Answer("api", page[t], "authentication required"))
       \/ session # None /\ ~Live(session) /\ Cleared(t, "invalid session")
       \/ /\ Live(session) /\ authorize(session.sub) = "none"
          /\ Cleared(t, "access denied")
       \/ Live(session) /\ authorize(session.sub) = "readonly" /\ write /\ Fenced(t)
       \/ /\ Live(session)
          /\ authorize(session.sub) = "admin" \/ (authorize(session.sub) = "readonly" /\ ~write)
          /\ Respond(t, Answer("api", page[t], IF write THEN "written" ELSE "served"))
  /\ UNCHANGED <<page, login, code, history>>

-----------------------------------------------------------------------------
(* Replies. *)

Kept(old, new) == IF new = Keep THEN old ELSE new

\* The cookies and the page of a reply arrive together.  After a login the
\* redirect to return_to loads the frontend anew (handleMe).
Receive(t) ==
  /\ reply[t] # None
  /\ flow' = Kept(flow, reply[t].flow)
  /\ session' = Kept(session, reply[t].session)
  /\ touched' = IF reply[t].path \in {"login", "callback"} THEN login[t] ELSE touched
  /\ page' = [page EXCEPT ![t] = reply[t].page]
  /\ reply' = [reply EXCEPT ![t] = None]
  /\ UNCHANGED <<running, now, login, code, history>>

\* A reply is lost: the browser shows an error of its own, the dashboard a message, and
\* useAuth takes the server for one without sign-in.
Drop(t) ==
  /\ reply[t] # None
  /\ page' = [page EXCEPT ![t] = CASE reply[t].path \in {"login", "callback"} -> "error"
                                   [] reply[t].path = "me" -> "disabled"
                                   [] OTHER -> @]
  /\ reply' = [reply EXCEPT ![t] = None]
  /\ UNCHANGED <<running, now, jarVars, login, code, history>>

Tick ==
  /\ now < MaxTime
  /\ now' = now + 1
  /\ UNCHANGED <<running, jarVars, page, login, code, reply, history>>

\* The server is started again, and reads its settings again.
Restart ==
  /\ running' \in Files \ {running}
  /\ UNCHANGED <<now, jarVars, page, login, code, reply, history>>

Next ==
  \/ \E t \in Tab :
       \/ handleMe(t) \/ handleLogin(t) \/ ReturnFromProvider(t) \/ ReloadCallback(t)
       \/ handleLogout(t) \/ Middleware(t)
       \/ Receive(t) \/ Drop(t)
  \/ Tick \/ Restart

Spec == Init /\ [][Next]_vars

-----------------------------------------------------------------------------
(* Properties. *)

\* The error texts of the handlers and the middleware; "" is a redirect.
Text ==
  {"", "idp returned error", "missing code or state", "missing flow cookie", "invalid flow cookie",
   "state mismatch", "token exchange", "access denied", "authentication required",
   "invalid session", "admin role required", "served", "written"}

Reply ==
  [path : {"me", "login", "callback", "logout", "api"},
   flow : FlowCookie \cup {None, Keep}, session : SessionCookie \cup {None, Keep},
   page : Page, text : Text, sent : SessionCookie \cup {None}, by : Files \cup {Keep}]

\* The values the state ranges over; no login stays open for longer than FlowTTL.
TypeOK ==
  /\ running \in Files /\ now \in 0..MaxTime
  /\ flow \in FlowCookie \cup {None}
  /\ session \in SessionCookie \cup {None}
  /\ page \in [Tab -> Page]
  /\ login \in [Tab -> 0..Len(begun)]
  /\ code \in [Tab -> Person \cup {None}]
  /\ reply \in [Tab -> Reply \cup {None}]
  /\ redeemed \subseteq called /\ called \subseteq 1..Len(begun)
  /\ touched \in 0..Len(begun)
  /\ flow # None => flow.exp <= begun[flow.state].at + FlowTTL

Handled(t, path) == reply[t] = None /\ reply'[t] # None /\ reply'[t].path = path

\* A person whom the provider named is turned away for the sake of the flow cookie only
\* if the login took longer than FlowTTL, the key was changed, the callback is a second
\* one, or a login in another tab has touched the cookie in between.
LoginRefusedForAReason ==
  [][\A t \in Tab :
       /\ Handled(t, "callback")
       /\ reply'[t].text \in {"missing flow cookie", "invalid flow cookie", "state mismatch"}
       => \/ now > begun[login[t]].at + FlowTTL
          \/ begun[login[t]].key # running.key
          \/ login[t] \in called
          \/ touched # login[t]]_vars

\* A session the server would accept is lost only by signing out, to the refusal of
\* a request sent before it was granted, or to one from before a restart.
SessionLostForAReason ==
  [][Live(session) /\ authorize(session.sub) # "none" /\ session' = None =>
       \E t \in Tab :
         /\ reply[t] # None /\ reply'[t] = None
         /\ \/ reply[t].path = "logout"
            \/ reply[t].sent # session
            \/ reply[t].by # running]_vars

\* Whatever a tab shows, an answer is given only for a person who signed in here no
\* longer than SessionTTL ago, under the present key, and whom the present settings
\* let in; a write only for one they make an admin.
ServedMeansAllowed ==
  [][\A t \in Tab :
       Handled(t, "api") /\ reply'[t].text \in {"served", "written"} =>
         \E g \in granted :
           /\ g.sub = session.sub /\ g.key = running.key /\ now <= g.at + SessionTTL
           /\ g.sub \in running.base \cup running.admin
           /\ reply'[t].text = "written" => running.admin = {} \/ g.sub \in running.admin]_vars

=============================================================================
