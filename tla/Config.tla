------------------------------- MODULE Config -------------------------------
(***************************************************************************)
(* internal/config: how settings.toml and the CHESHMHAYASH__ variables are *)
(* laid over the defaults, one variable at a time, and what validate lets  *)
(* through.  Lifecycle takes the steps; this module says what each does.   *)
(*                                                                         *)
(* Scalar settings are a function from paths to texts, with "" for a text  *)
(* or list of texts left empty.  The three lists are sequences of entries, *)
(* functions from fields to texts.  A variable is its name, split at "__"  *)
(* and in lower case, and its value.                                       *)
(***************************************************************************)
EXTENDS Integers, SequencesExt

CONSTANTS
  Long,    \* the texts of at least 16 characters
  Hollow,  \* the texts of blanks and commas only
  Lower,   \* the texts with capitals, each in lower case
  Atoi     \* the integers that texts stand for, strconv.Atoi

ASSUME AtoiAssumption == DOMAIN Atoi \subseteq STRING /\ \A t \in DOMAIN Atoi : Atoi[t] \in Int

-----------------------------------------------------------------------------
(* The schema. *)

A(path) == <<"auth">> \o path
Allowed == {"allowed_emails", "allowed_domains", "allowed_groups"}

Strings ==
  {<<"server", "host">>, A(<<"mode">>), A(<<"access", "groups_claim">>),
   A(<<"session", "secret">>), A(<<"session", "cookie_name">>), A(<<"mcp_oauth", "resource">>)}
  \cup {A(<<"oidc", f>>) : f \in {"issuer", "client_id", "client_secret", "redirect_url"}}
Ints == {<<"server", "port">>, A(<<"session", "ttl_seconds">>)}
Bools ==
  {A(<<"enabled">>), A(<<"session", "secure">>), A(<<"mcp_jwt", "enabled">>),
   A(<<"mcp_oauth", "enabled">>), A(<<"mcp_oauth", "skip_audience_check">>)}
Csvs ==
  {A(<<"oidc", "scopes">>), A(<<"jwt", "audiences">>),
   A(<<"mcp_oauth", "audiences">>), A(<<"mcp_oauth", "authorization_servers">>)}
  \cup {A(<<"access", f>>) : f \in Allowed}
  \cup {A(<<"access", "admin", f>>) : f \in Allowed}

Path == Strings \cup Ints \cup Bools \cup Csvs

\* Names whose handler does not look at how many parts follow.
Loose ==
  {A(<<"enabled">>), A(<<"mode">>), A(<<"access", "groups_claim">>)}
  \cup {A(<<"access", f>>) : f \in Allowed}

List == {"nats", "notify", "mcp_keys"}
Prefix == [nats |-> <<"nats">>, notify |-> <<"notify">>, mcp_keys |-> A(<<"mcp_keys">>)]

NatsInts == {"request_timeout_ms", "discovery_timeout_ms"}
Fields ==
  [nats |-> {"name", "url", "creds_file", "user", "password"} \cup NatsInts,
   notify |-> {"provider", "url", "channel", "username"},
   mcp_keys |-> {"name", "value"}]

Blank(l) == [f \in Fields[l] |-> IF f \in NatsInts THEN "0" ELSE ""]

\* An entry with its missing fields left blank.
Filled(entry, l) == [f \in Fields[l] |-> IF f \in DOMAIN entry THEN entry[f] ELSE Blank(l)[f]]

Default ==
  [scalar |-> [p \in Path |->
     CASE p = <<"server", "host">> -> "0.0.0.0"
       [] p = <<"server", "port">> -> "1378"
       [] p = A(<<"mode">>) -> "oidc"
       [] p = A(<<"oidc", "scopes">>) -> "openid,profile,email"
       [] p = A(<<"access", "groups_claim">>) -> "groups"
       [] p = A(<<"session", "cookie_name">>) -> "cheshmhayash_session"
       [] p = A(<<"session", "ttl_seconds">>) -> "43200"
       [] p \in Bools -> "false"
       [] OTHER -> ""],
   list |-> [l \in List |-> <<>>]]

-----------------------------------------------------------------------------
(* Texts.  Each conversion gives the set of its results: empty for an error. *)

Truths == {"1", "t", "T", "TRUE", "true", "True"}
Lies == {"0", "f", "F", "FALSE", "false", "False"}
ParseBool == [t \in Truths \cup Lies |-> IF t \in Truths THEN "true" ELSE "false"]

\* Items are trimmed and empty ones dropped: a text stands for the list it spells, and
\* blanks and commas for none.
splitCSV(t) == IF t = "" \/ t \in Hollow THEN "" ELSE t

Parsed(p, t) ==
  CASE p \in Strings -> {t}
    [] p \in Csvs -> {splitCSV(t)}
    [] p \in Ints -> {t} \cap DOMAIN Atoi
    [] p \in Bools -> {ParseBool[u] : u \in {t} \cap DOMAIN ParseBool}

ParsedField(f, t) == IF f \in NatsInts THEN {t} \cap DOMAIN Atoi ELSE {t}

-----------------------------------------------------------------------------
(* The overlay. *)

\* The file's scalars over the defaults; its lists as they are, missing fields blank.
Unmarshal(file) ==
  [scalar |-> [p \in Path |->
     IF p \in DOMAIN file.scalar THEN file.scalar[p] ELSE Default.scalar[p]],
   list |-> [l \in List |-> [i \in DOMAIN file.list[l] |-> Filled(file.list[l][i], l)]]]

Ok(s) == [end |-> "ok", s |-> s]
Error(s) == [end |-> "error", s |-> s]
Panic(s) == [end |-> "panic", s |-> s]

\* Mutation: a list grows up to the index, not past it.
GrowShort(entries, idx, blank) ==
  entries \o [k \in 1 .. (idx - Len(entries)) |-> blank]

\* for len(list) <= idx { append a blank entry }
Grow(entries, idx, blank) ==
  entries \o [k \in 1 .. (idx + 1 - Len(entries)) |-> blank]

\* nats.<index>.<field>, notify.<index>.<field> and auth.mcp_keys.<index>.<field>; what
\* follows the field is ignored.  The field is looked up before the entry in mcp_keys only.
applyList(s, l, rest, val) ==
  LET idx == Atoi[rest[1]]
      field == rest[2]
      grown == Grow(s.list[l], idx, Blank(l))
      outside == idx + 1 \notin DOMAIN grown
      bad == field \notin Fields[l] \/ ParsedField(field, val) = {}
  IN IF Len(rest) < 2 \/ rest[1] \notin DOMAIN Atoi THEN Error(s)
     ELSE IF outside /\ ~(l = "mcp_keys" /\ bad) THEN Panic(s)
     ELSE IF bad THEN Error(s)
     ELSE Ok([s EXCEPT !.list[l] = [grown EXCEPT ![idx + 1][field] = val]])

\* The scalar a name stands for, if any.
Named(parts) == {p \in Path : p = parts \/ (p \in Loose /\ IsPrefix(p, parts))}

applyScalar(s, parts, val) ==
  IF \A p \in Named(parts) : Parsed(p, val) = {} THEN Error(s)
  ELSE LET p == CHOOSE p \in Named(parts) : TRUE
       IN Ok([s EXCEPT !.scalar[p] = CHOOSE u \in Parsed(p, val) : TRUE])

\* A variable of another section is passed over without a word.
applyEnvPath(s, v) ==
  LET lists == {l \in List : IsPrefix(Prefix[l], v.parts)}
  IN IF v.parts[1] \notin {"server", "nats", "notify", "auth"} THEN Ok(s)
     ELSE IF lists = {} THEN applyScalar(s, v.parts, v.val)
     ELSE LET l == CHOOSE l \in lists : TRUE
          IN applyList(s, l, SubSeq(v.parts, Len(Prefix[l]) + 1, Len(v.parts)), v.val)

-----------------------------------------------------------------------------
(* Validation. *)

Is(s, path, t) == s.scalar[A(path)] = t
On(s, path) == Is(s, path, "true")
Given(s, path) == ~Is(s, path, "")

ModeOrDefault(s) ==
  LET mode == s.scalar[A(<<"mode">>)]
  IN IF mode = "" THEN "oidc" ELSE IF mode \in DOMAIN Lower THEN Lower[mode] ELSE mode

validateAuthOIDC(s) ==
  /\ Given(s, <<"oidc", "client_id">>)
  /\ Given(s, <<"oidc", "redirect_url">>)
  /\ s.scalar[A(<<"session", "secret">>)] \in Long

validateAuth(s) ==
  /\ Given(s, <<"oidc", "issuer">>)
  /\ \E f \in Allowed : Given(s, <<"access", f>>)
  /\ ModeOrDefault(s) \in {"oidc", "jwt"}
  /\ ModeOrDefault(s) = "oidc" => validateAuthOIDC(s)
  /\ On(s, <<"mcp_oauth", "enabled">>) => Given(s, <<"mcp_oauth", "resource">>)

\* Mutation: the MCP gates are looked at only when the dashboard's is on.
validateEnabled(s) ==
  /\ s.list["nats"] # <<>>
  /\ \A e \in Range(s.list["nats"]) : e["name"] # "" /\ e["url"] # ""
  /\ On(s, <<"enabled">>) => validateAuth(s)
  /\ \A e \in Range(s.list["mcp_keys"]) : e["value"] # ""

validate(s) ==
  /\ s.list["nats"] # <<>>
  /\ \A e \in Range(s.list["nats"]) : e["name"] # "" /\ e["url"] # ""
  /\ IF On(s, <<"enabled">>) THEN validateAuth(s)
     ELSE ~On(s, <<"mcp_oauth", "enabled">>) /\ ~On(s, <<"mcp_jwt", "enabled">>)
  /\ \A e \in Range(s.list["mcp_keys"]) : e["value"] # ""

-----------------------------------------------------------------------------
(* What the package promises of all that: "defaults, then settings.toml, then
   environment", each setting by itself. *)

\* The texts the variables give a scalar.
FromEnv(env, p) == {v.val : v \in {w \in env : p \in Named(w.parts)}}

\* The entry of a list a variable names, counted from 1.
EntryOf(v, l) == Atoi[v.parts[Len(Prefix[l]) + 1]] + 1
FieldOf(v, l) == v.parts[Len(Prefix[l]) + 2]
OfList(env, l) == {v \in env : IsPrefix(Prefix[l], v.parts)}

Pick(set, else) == IF set = {} THEN else ELSE CHOOSE x \in set : TRUE

MergedList(file, env, l) ==
  LET given == OfList(env, l)
      inFile == file.list[l]
      length == Max({Len(inFile)} \cup {EntryOf(v, l) : v \in given})
      Entry(i) == [f \in Fields[l] |->
        Pick({v.val : v \in {w \in given : EntryOf(w, l) = i /\ FieldOf(w, l) = f}},
             IF i <= Len(inFile) THEN Filled(inFile[i], l)[f] ELSE Blank(l)[f])]
  IN [i \in 1 .. length |-> Entry(i)]

\* Every setting from the last layer that gives it.
Merged(file, env) ==
  [scalar |-> [p \in Path |->
     Pick(UNION {Parsed(p, t) : t \in FromEnv(env, p)},
          IF p \in DOMAIN file.scalar THEN file.scalar[p] ELSE Default.scalar[p])],
   list |-> [l \in List |-> MergedList(file, env, l)]]

\* No two variables (of different case, or with parts that are ignored) set the same.
Unambiguous(env) ==
  \A v, w \in env : v # w =>
    /\ Named(v.parts) \cap Named(w.parts) = {}
    /\ \A l \in List : v \in OfList(env, l) /\ w \in OfList(env, l) =>
         EntryOf(v, l) # EntryOf(w, l) \/ FieldOf(v, l) # FieldOf(w, l)

\* Does a variable name an entry before the first?
Negative(v) ==
  \E l \in List : /\ IsStrictPrefix(Prefix[l], v.parts)
                  /\ v.parts[Len(Prefix[l]) + 1] \in DOMAIN Atoi
                  /\ EntryOf(v, l) < 1

=============================================================================
