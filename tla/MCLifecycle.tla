---------------------------- MODULE MCLifecycle ----------------------------
(* Small instances of Lifecycle for TLC. *)
EXTENDS Lifecycle

V(parts, val) == [parts |-> parts, val |-> val]

LongTexts == {"0123456789abcdef"}
HollowTexts == {" ", ",", " , ", ",,"}
LowerCase == "JWT" :> "jwt" @@ "Jwt" :> "jwt" @@ "OIDC" :> "oidc"

Numbers == [t \in {"-1", "0", "1", "2"} |->
              CASE t = "-1" -> -1 [] t = "0" -> 0 [] t = "1" -> 1 [] t = "2" -> 2]

-----------------------------------------------------------------------------
(* Files: none, one cluster with the login flow, two clusters of one name. *)

N(name) == [name |-> name, url |-> "nats://" \o name]

NoFile == [scalar |-> <<>>, list |-> [l \in List |-> <<>>]]
LoginFile ==
  [scalar |-> A(<<"enabled">>) :> "true" @@ A(<<"oidc", "issuer">>) :> "iss"
           @@ A(<<"oidc", "client_id">>) :> "id" @@ A(<<"oidc", "redirect_url">>) :> "back"
           @@ A(<<"session", "secret">>) :> "0123456789abcdef"
           @@ A(<<"access", "allowed_groups">>) :> "ops",
   list |-> [nats |-> <<N("a")>>, notify |-> <<>>, mcp_keys |-> <<[value |-> "k"]>>]]
TwinFile ==
  [NoFile EXCEPT !.list =
     [nats |-> <<N("a"), N("a")>>, mcp_keys |-> <<>>,
      notify |-> <<[provider |-> "slack", url |-> "hook"]>>]]

SomeFiles == {NoFile, LoginFile, TwinFile}

-----------------------------------------------------------------------------
(* Environments. *)

\* A second cluster, a first from the environment alone, one before the first.
NatsVars ==
  {V(<<"nats", "0", "name">>, "b"), V(<<"nats", "0", "url">>, "u"), V(<<"nats", "1", "name">>, "b"),
   V(<<"nats", "1", "url">>, "u"), V(<<"nats", "2", "url">>, "u"), V(<<"nats", "-1", "url">>, "u"),
   V(<<"nats", "x", "url">>, "u"), V(<<"nats", "0">>, "u"), V(<<"nats", "0", "colour">>, "u"),
   V(<<"nats", "0", "request_timeout_ms">>, "2")}

NotifyVars ==
  {V(<<"notify", "0", "provider">>, "irc"), V(<<"notify", "1", "url">>, "u"),
   V(<<"notify", "1", "provider">>, "matrix"), V(<<"notify", "-1", "colour">>, "u")}

AuthVars ==
  {V(A(<<"enabled">>), "0"), V(A(<<"enabled">>), "1"), V(A(<<"enabled", "x">>), "maybe"),
   V(A(<<"mode">>), "Jwt"), V(A(<<"session", "secret">>), "short"),
   V(A(<<"access", "allowed_groups">>), " , "), V(A(<<"access", "allowed_emails">>), "ann"),
   V(A(<<"mcp_oauth", "enabled">>), "true"), V(A(<<"mcp_oauth", "resource">>), "mcp"),
   V(A(<<"mcp_jwt", "enabled">>), "T"), V(A(<<"mcp_keys", "0", "value">>), "l"),
   V(A(<<"mcp_keys", "1", "name">>), "l"), V(A(<<"mcp_keys", "-1", "colour">>), "l"),
   V(A(<<"mcp_keys", "-1", "value">>), "l")}

OtherVars ==
  {V(<<"server", "port">>, "2"), V(<<"server", "port">>, "x"), V(<<"natz", "0", "url">>, "u")}

PairsOf(S) == {{v, w} : v, w \in S}

NatsPair == {V(<<"nats", "0", "name">>, "b"), V(<<"nats", "0", "url">>, "u")}

\* Two variables of a kind, and a cluster with a third.
SomeEnvs ==
  PairsOf(NatsVars) \cup PairsOf(NotifyVars) \cup PairsOf(AuthVars) \cup PairsOf(OtherVars)
  \cup {{}}
  \cup {NatsPair \cup {v} : v \in {V(<<"nats", "2", "url">>, "u"), V(A(<<"mcp_jwt", "enabled">>), "1")}}

=============================================================================
