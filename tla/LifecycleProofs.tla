--------------------------- MODULE LifecycleProofs ---------------------------
(***************************************************************************)
(* Theorems about Lifecycle and Config, for any files, environments,       *)
(* numbers and requests.                                                   *)
(*                                                                         *)
(* Config: a name stands for one setting at most (OneScalar, OneList), so  *)
(* a variable changes one setting or none (ApplyMeans).  What has been     *)
(* laid over the file is then known without the order it came in: Layered, *)
(* which one more variable extends (LayStep) and which, once there are no  *)
(* more, is the merge (LaidMerged).                                        *)
(*                                                                         *)
(* Lifecycle: where each connection is (ConnInv), that settings are        *)
(* validated before they are used (GateInv), that nothing listens or runs  *)
(* when the deferred calls begin, unless Shutdown gave up (EndInv), and    *)
(* when the notifier may be subscribed (SubsInv).                          *)
(***************************************************************************)
EXTENDS Lifecycle, TLAPS

-----------------------------------------------------------------------------
(* Sequences. *)

\* The provers do not find a literal in STRING: the texts, with those of the schema named.
Text ==
  STRING
  \cup {"server", "host", "port", "auth", "enabled", "mode", "oidc", "issuer", "client_id",
        "client_secret", "redirect_url", "scopes", "jwt", "audiences", "access", "groups_claim",
        "admin", "session", "secret", "cookie_name", "ttl_seconds", "secure", "mcp_jwt",
        "mcp_oauth", "resource", "skip_audience_check", "authorization_servers"}
  \cup {"nats", "notify", "mcp_keys"}
  \cup {"", "0", "true", "false", "1378", "0.0.0.0", "openid,profile,email", "groups",
        "cheshmhayash_session", "43200"}
  \cup Allowed

\* A sequence over some texts is one over all of them.
LEMMA TextSeq == ASSUME NEW q \in Seq(STRING) PROVE q \in Seq(Text)
<1>1. STRING \subseteq Text
  BY DEF Text
<1>2. Len(q) \in Nat /\ q \in [1..Len(q) -> STRING]
  OBVIOUS
<1>3. q \in [1..Len(q) -> Text]
  BY <1>1, <1>2
<1>. QED  BY <1>2, <1>3

\* Sequences with the same elements are the same.
LEMMA SameSeq ==
  ASSUME NEW S, NEW p \in Seq(S), NEW q \in Seq(S), Len(p) = Len(q),
         \A i \in 1..Len(p) : p[i] = q[i]
  PROVE  p = q
  OBVIOUS

\* Short sequences.
LEMMA OneSeq == ASSUME NEW S, NEW x \in S PROVE <<x>> \in Seq(S) /\ Len(<<x>>) = 1 /\ <<x>>[1] = x
  OBVIOUS

LEMMA TwoSeq ==
  ASSUME NEW S, NEW x \in S, NEW y \in S
  PROVE  <<x, y>> \in Seq(S) /\ Len(<<x, y>>) = 2 /\ <<x, y>>[1] = x /\ <<x, y>>[2] = y
  OBVIOUS

LEMMA ThreeSeq == ASSUME NEW S, NEW x \in S, NEW y \in S, NEW z \in S PROVE <<x, y, z>> \in Seq(S)
  OBVIOUS

\* An element before a sequence.
LEMMA Preceded ==
  ASSUME NEW S, NEW q \in Seq(S), NEW x \in S
  PROVE  <<x>> \o q \in Seq(S) /\ (<<x>> \o q)[1] = x
  OBVIOUS

\* Two elements, one after the other.
LEMMA Paired == ASSUME NEW S, NEW x \in S, NEW y \in S PROVE <<x>> \o <<y>> = <<x, y>>
<1>. DEFINE p == <<x>> \o <<y>>
            q == <<x, y>>
<1>1. p \in Seq(S) /\ Len(p) = 2
  OBVIOUS
<1>2. p[1] = x /\ p[2] = y
  OBVIOUS
<1>3. q \in Seq(S) /\ Len(q) = 2 /\ q[1] = x /\ q[2] = y
  OBVIOUS
<1>. HIDE DEF p, q
<1>4. \A i \in 1..Len(p) : p[i] = q[i]
  BY <1>1, <1>2, <1>3
<1>5. p = q
  BY <1>1, <1>3, <1>4, SameSeq
<1>. QED  BY <1>5 DEF p, q

\* IsPrefix, element by element.
LEMMA PrefixMeans ==
  ASSUME NEW S, NEW p \in Seq(S), NEW q \in Seq(S)
  PROVE  IsPrefix(p, q) <=> (Len(p) <= Len(q) /\ \A i \in 1..Len(p) : p[i] = q[i])
<1>1. IsPrefix(p, q) => Len(p) <= Len(q)
  BY DEF IsPrefix
<1>2. CASE Len(p) <= Len(q)
  <2>1. /\ SubSeq(p, 1, Len(p)) \in Seq(S)
        /\ Len(SubSeq(p, 1, Len(p))) = Len(p)
        /\ \A i \in 1..Len(p) : SubSeq(p, 1, Len(p))[i] = p[i]
    OBVIOUS
  <2>2. /\ SubSeq(q, 1, Len(p)) \in Seq(S)
        /\ Len(SubSeq(q, 1, Len(p))) = Len(p)
        /\ \A i \in 1..Len(p) : SubSeq(q, 1, Len(p))[i] = q[i]
    BY <1>2
  <2>3. SubSeq(p, 1, Len(p)) = SubSeq(q, 1, Len(p)) <=> \A i \in 1..Len(p) : p[i] = q[i]
    BY <2>1, <2>2
  <2>4. IsPrefix(p, q) <=> SubSeq(p, 1, Len(p)) = SubSeq(q, 1, Len(p))
    BY <1>2 DEF IsPrefix
  <2>. QED  BY <2>3, <2>4, <1>2
<1>3. CASE ~(Len(p) <= Len(q))
  BY <1>1, <1>3, Zenon
<1>. QED  BY <1>2, <1>3, Zenon

\* What follows the first k elements.
LEMMA RestMeans ==
  ASSUME NEW S, NEW q \in Seq(S), NEW k \in Nat, k <= Len(q)
  PROVE  /\ SubSeq(q, k + 1, Len(q)) \in Seq(S)
         /\ Len(SubSeq(q, k + 1, Len(q))) = Len(q) - k
         /\ \A i \in 1 .. Len(q) - k : SubSeq(q, k + 1, Len(q))[i] = q[k + i]
  OBVIOUS

\* A function on 1..n, also for an n below 0.
LEMMA FillMeans ==
  ASSUME NEW S, NEW n \in Int, NEW e \in [1..n -> S]
  PROVE  e \in Seq(S) /\ (n >= 0 => Len(e) = n) /\ (n < 0 => Len(e) = 0)
<1>1. CASE n >= 0
  <2>1. n \in Nat
    BY <1>1
  <2>. QED  BY <2>1, <1>1
<1>2. CASE n < 0
  <2>1. 1..n = 1..0
    BY <1>2
  <2>2. e \in [1..0 -> S]
    BY <2>1
  <2>. QED  BY <2>2, <1>2
<1>. QED  BY <1>1, <1>2

\* Grow only appends blanks, and only as many as the index needs.
LEMMA GrowMeans ==
  ASSUME NEW S, NEW q \in Seq(S), NEW idx \in Int, NEW blank \in S
  PROVE  /\ Grow(q, idx, blank) \in Seq(S)
         /\ idx + 1 <= Len(q) => Grow(q, idx, blank) = q
         /\ idx + 1 > Len(q) => Len(Grow(q, idx, blank)) = idx + 1
         /\ \A i \in 1..Len(q) : Grow(q, idx, blank)[i] = q[i]
         /\ \A i \in Len(q) + 1 .. idx + 1 : Grow(q, idx, blank)[i] = blank
<1>. DEFINE n == idx + 1 - Len(q)
            e == [k \in 1..n |-> blank]
<1>0. Len(q) \in Nat /\ n \in Int
  OBVIOUS
<1>1. e \in [1..n -> S] /\ \A k \in 1..n : e[k] = blank
  OBVIOUS
<1>2. Grow(q, idx, blank) = q \o e
  BY DEF Grow
<1>. HIDE DEF e
<1>3. e \in Seq(S) /\ (n >= 0 => Len(e) = n) /\ (n < 0 => Len(e) = 0)
  BY <1>0, <1>1, FillMeans
<1>4. /\ q \o e \in Seq(S) /\ Len(q \o e) = Len(q) + Len(e)
      /\ \A i \in 1..Len(q) : (q \o e)[i] = q[i]
      /\ \A i \in Len(q) + 1 .. Len(q) + Len(e) : (q \o e)[i] = e[i - Len(q)]
  BY <1>3
<1>5. ASSUME idx + 1 <= Len(q) PROVE q \o e = q
  <2>1. Len(q \o e) = Len(q)
    BY <1>5, <1>3, <1>4
  <2>. QED  BY <2>1, <1>4
<1>6. ASSUME idx + 1 > Len(q) PROVE Len(q \o e) = idx + 1
  BY <1>6, <1>3, <1>4
<1>7. ASSUME NEW i \in Len(q) + 1 .. idx + 1 PROVE (q \o e)[i] = blank
  <2>1. i - Len(q) \in 1..n /\ n >= 0
    OBVIOUS
  <2>2. i \in Len(q) + 1 .. Len(q) + Len(e)
    BY <2>1, <1>3, <1>0
  <2>. QED  BY <2>1, <2>2, <1>1, <1>4
<1>. QED  BY <1>2, <1>4, <1>5, <1>6, <1>7

-----------------------------------------------------------------------------
(* Names of variables. *)

\* A name is a list's when it starts with the list's prefix.
LEMMA PrefixNats ==
  ASSUME NEW q \in Seq(Text), NEW l \in {"nats", "notify"}
  PROVE  /\ Len(Prefix[l]) = 1
         /\ IsPrefix(Prefix[l], q) <=> (Len(q) > 0 /\ q[1] = l)
<1>. DEFINE p == <<l>>
<1>1. l \in Text
  BY DEF Text
<1>2. Prefix[l] = p
  BY DEF Prefix
<1>3. p \in Seq(Text) /\ q \in Seq(Text)
  BY <1>1, OneSeq
<1>4. Len(p) = 1 /\ p[1] = l
  BY <1>1, OneSeq
<1>. HIDE DEF p
<1>5. IsPrefix(p, q) <=> (Len(p) <= Len(q) /\ \A i \in 1..Len(p) : p[i] = q[i])
  BY <1>3, PrefixMeans
<1>6. IsPrefix(p, q) <=> (Len(q) > 0 /\ q[1] = l)
  BY <1>4, <1>5
<1>. QED  BY <1>2, <1>4, <1>6

LEMMA PrefixKeys ==
  ASSUME NEW q \in Seq(Text)
  PROVE  /\ Len(Prefix["mcp_keys"]) = 2
         /\ IsPrefix(Prefix["mcp_keys"], q) <=>
              (Len(q) > 1 /\ q[1] = "auth" /\ q[2] = "mcp_keys")
<1>. DEFINE p == <<"auth", "mcp_keys">>
<1>1. "auth" \in Text /\ "mcp_keys" \in Text
  BY DEF Text
<1>2. Prefix["mcp_keys"] = p
  <2>1. Prefix["mcp_keys"] = <<"auth">> \o <<"mcp_keys">>
    BY DEF Prefix, A
  <2>. QED  BY <2>1, <1>1, Paired
<1>3. p \in Seq(Text) /\ q \in Seq(Text)
  BY <1>1, TwoSeq
<1>4. Len(p) = 2 /\ p[1] = "auth" /\ p[2] = "mcp_keys"
  BY <1>1, TwoSeq
<1>. HIDE DEF p
<1>5. IsPrefix(p, q) <=> (Len(p) <= Len(q) /\ \A i \in 1..Len(p) : p[i] = q[i])
  BY <1>3, PrefixMeans
<1>6. IsPrefix(p, q) <=> (Len(q) > 1 /\ q[1] = "auth" /\ q[2] = "mcp_keys")
  BY <1>4, <1>5
<1>. QED  BY <1>2, <1>4, <1>6

\* No name is of two lists.
LEMMA OneList ==
  ASSUME NEW q \in Seq(Text), NEW l \in List, NEW m \in List,
         IsPrefix(Prefix[l], q), IsPrefix(Prefix[m], q)
  PROVE  l = m
<1>1. ASSUME NEW n \in List, IsPrefix(Prefix[n], q)
      PROVE  q[1] = IF n = "mcp_keys" THEN "auth" ELSE n
  BY <1>1, PrefixNats, PrefixKeys DEF List
<1>. QED  BY <1>1 DEF List

\* Paths of the schema are sequences of texts.
LEMMA PathSeq == \A q \in Path : q \in Seq(Text)
<1>. SUFFICES ASSUME NEW q \in Path PROVE q \in Seq(Text)
  OBVIOUS
<1>0. "auth" \in Text /\ "server" \in Text
  BY DEF Text
<1>1. PICK x, y, z \in Text : \/ q = A(<<x>>) \/ q = A(<<x, y>>) \/ q = A(<<x, y, z>>)
                              \/ q = <<"server", x>>
  <2>1. CASE q \in Bools
    <3>1. \/ q = A(<<"enabled">>) \/ q = A(<<"session", "secure">>)
          \/ q = A(<<"mcp_jwt", "enabled">>) \/ q = A(<<"mcp_oauth", "enabled">>)
          \/ q = A(<<"mcp_oauth", "skip_audience_check">>)
      BY <2>1 DEF Bools
    <3>2. {"enabled", "session", "secure", "mcp_jwt", "mcp_oauth", "skip_audience_check"}
            \subseteq Text
      BY DEF Text
    <3>. QED  BY <3>1, <3>2
  <2>2. CASE q \in Csvs
    <3>1. {"oidc", "scopes", "jwt", "audiences", "mcp_oauth", "authorization_servers",
           "access", "admin"} \cup Allowed \subseteq Text
      BY DEF Text
    <3>2. \E x, y, z \in Text : q = A(<<x, y>>) \/ q = A(<<x, y, z>>)
      BY <2>2, <3>1 DEF Csvs
    <3>. QED  BY <1>0, <3>2
  <2>3. CASE q \in Strings
    <3>1. {"host", "mode", "access", "groups_claim", "session", "secret", "cookie_name",
           "mcp_oauth", "resource", "oidc", "issuer", "client_id", "client_secret",
           "redirect_url"} \subseteq Text
      BY DEF Text
    <3>2. \E x, y \in Text : q = A(<<x>>) \/ q = A(<<x, y>>) \/ q = <<"server", x>>
      BY <2>3, <3>1 DEF Strings
    <3>. QED  BY <1>0, <3>2
  <2>4. CASE q \in Ints
    <3>1. \E x, y \in Text : q = A(<<x, y>>) \/ q = <<"server", x>>
      BY <2>4 DEF Ints, Text
    <3>. QED  BY <1>0, <3>1
  <2>. QED  BY <2>1, <2>2, <2>3, <2>4 DEF Path
<1>2. /\ <<x>> \in Seq(Text) /\ <<x, y>> \in Seq(Text) /\ <<x, y, z>> \in Seq(Text)
      /\ <<"server", x>> \in Seq(Text)
  BY <1>0, OneSeq, TwoSeq, ThreeSeq
<1>3. ASSUME NEW p \in Seq(Text) PROVE A(p) \in Seq(Text)
  <2>. DEFINE a == "auth"
  <2>1. a \in Text /\ A(p) = <<a>> \o p
    BY <1>0 DEF A
  <2>. HIDE DEF a
  <2>. QED  BY <2>1, Preceded
<1>. QED  BY <1>1, <1>2, <1>3

\* A path that may be followed by more parts is no proper prefix of another.
LEMMA LooseAlone ==
  /\ Loose \subseteq Path
  /\ \A p \in Loose : Len(p) \in {2, 3} /\ p[1] = "auth"
  /\ \A p \in Loose, q \in Path : IsPrefix(p, q) => p = q
<1>1. Loose \subseteq Path
  BY DEF Path, Bools, Strings, Ints, Csvs, Allowed, A, Loose
<1>2. \A p \in Loose : Len(p) \in {2, 3} /\ p[1] = "auth"
  BY DEF Allowed, A, Loose
<1>3. ASSUME NEW p \in Loose, NEW q \in Path, IsPrefix(p, q) PROVE p = q
  <2>1. p \in Seq(Text) /\ q \in Seq(Text)
    BY <1>1, PathSeq
  <2>2. q[2] = p[2] /\ (Len(p) = 3 => q[3] = p[3])
    BY <1>2, <1>3, <2>1, PrefixMeans
  <2>3. q[2] = "enabled" => q = A(<<"enabled">>)
    BY DEF Path, Bools, Strings, Ints, Csvs, Allowed, A
  <2>4. q[2] = "mode" => q = A(<<"mode">>)
    BY DEF Path, Bools, Strings, Ints, Csvs, Allowed, A
  <2>5. q[2] = "access" /\ q[3] = "groups_claim" => q = A(<<"access", "groups_claim">>)
    BY DEF Path, Bools, Strings, Ints, Csvs, Allowed, A
  <2>6. q[2] = "access" /\ q[3] \in Allowed => q = A(<<"access", q[3]>>)
    BY DEF Path, Bools, Strings, Ints, Csvs, Allowed, A
  <2>7. CASE p = A(<<"enabled">>)
    BY <2>2, <2>3, <2>7 DEF A
  <2>8. CASE p = A(<<"mode">>)
    BY <2>2, <2>4, <2>8 DEF A
  <2>9. CASE p = A(<<"access", "groups_claim">>)
    BY <2>2, <2>5, <2>9 DEF A
  <2>10. ASSUME NEW f \in Allowed, p = A(<<"access", f>>) PROVE p = q
    <3>1. Len(p) = 3 /\ p[2] = "access" /\ p[3] = f
      BY <2>10 DEF A
    <3>. QED  BY <2>2, <2>6, <2>10, <3>1
  <2>. QED  BY <2>7, <2>8, <2>9, <2>10 DEF Loose
<1>. QED  BY <1>1, <1>2, <1>3

\* A name stands for one scalar at most, and for none when it is of a list or of a section
\* that is passed over.
LEMMA OneScalar ==
  ASSUME NEW q \in Seq(Text)
  PROVE  /\ \A p1, p2 \in Named(q) : p1 = p2
         /\ Named(q) # {} => /\ q[1] \in {"server", "auth"}
                             /\ \A l \in List : ~IsPrefix(Prefix[l], q)
<1>1. ASSUME NEW p \in Named(q)
      PROVE  p \in Path /\ p \in Seq(Text) /\ (p = q \/ (p \in Loose /\ IsPrefix(p, q)))
  BY PathSeq DEF Named
<1>2. ASSUME NEW p1 \in Named(q), NEW p2 \in Named(q) PROVE p1 = p2
  <2>1. ASSUME NEW p3 \in Named(q), NEW p4 \in Named(q), p3 = q PROVE p3 = p4
    BY <1>1, <2>1, LooseAlone
  <2>2. ASSUME NEW p3 \in Named(q), NEW p4 \in Named(q), p3 # q, p4 # q, Len(p3) <= Len(p4)
        PROVE  p3 = p4
    <3>1. p3 \in Loose /\ IsPrefix(p3, q) /\ p4 \in Path /\ IsPrefix(p4, q)
      BY <1>1, <2>2
    <3>2. p3 \in Seq(Text) /\ p4 \in Seq(Text)
      BY <1>1
    <3>3. /\ \A i \in 1..Len(p3) : p3[i] = q[i]
          /\ \A i \in 1..Len(p4) : p4[i] = q[i]
      BY <3>1, <3>2, PrefixMeans
    <3>4. \A i \in 1..Len(p3) : p3[i] = p4[i]
      BY <2>2, <3>2, <3>3
    <3>5. IsPrefix(p3, p4)
      BY <2>2, <3>2, <3>4, PrefixMeans
    <3>. QED  BY <3>1, <3>5, LooseAlone
  <2>3. Len(p1) <= Len(p2) \/ Len(p2) <= Len(p1)
    BY <1>1
  <2>. QED  BY <2>1, <2>2, <2>3
<1>3. ASSUME NEW p \in Named(q) PROVE q[1] = p[1] /\ q[2] = p[2]
  <2>1. CASE p = q
    BY <2>1
  <2>2. CASE p \in Loose /\ IsPrefix(p, q)
    <3>1. \A i \in 1..Len(p) : p[i] = q[i]
      BY <1>1, <2>2, PrefixMeans
    <3>. QED  BY <2>2, <3>1, LooseAlone
  <2>. QED  BY <1>1, <2>1, <2>2
<1>4. ASSUME NEW p \in Named(q) PROVE q[1] \in {"server", "auth"} /\ q[2] # "mcp_keys"
  <2>1. p[1] \in {"server", "auth"} /\ p[2] # "mcp_keys"
    BY <1>1 DEF Path, Bools, Strings, Ints, Csvs, Allowed, A
  <2>. QED  BY <1>3, <2>1
<1>5. ASSUME NEW l \in List, IsPrefix(Prefix[l], q)
      PROVE  q[1] \in {"nats", "notify"} \/ q[2] = "mcp_keys"
  BY <1>5, PrefixNats, PrefixKeys DEF List
<1>. QED  BY <1>2, <1>4, <1>5

-----------------------------------------------------------------------------
(* Settings. *)

Entries(l) == [Fields[l] -> Text]

\* Settings as the loader makes them: every scalar and every field of every entry given.
SettingsOK(t) ==
  /\ t = [scalar |-> t.scalar, list |-> t.list]
  /\ t.scalar \in [Path -> Text]
  /\ t.list = [l \in List |-> t.list[l]]
  /\ \A l \in List : t.list[l] \in Seq(Entries(l))

\* A conversion has one result at most.
LEMMA ParsedMeans ==
  ASSUME NEW p \in Path, NEW t \in Text
  PROVE  Parsed(p, t) \subseteq Text /\ \A u, w \in Parsed(p, t) : u = w
<1>1. {"", "true", "false"} \subseteq Text
  BY DEF Text
<1>2. Parsed(p, t) \in {{t}, {splitCSV(t)}, {t} \cap DOMAIN Atoi,
                        {ParseBool[u] : u \in {t} \cap DOMAIN ParseBool}}
  BY DEF Parsed, Path
<1>3. splitCSV(t) \in Text
  BY <1>1 DEF splitCSV
<1>4. \A u \in DOMAIN ParseBool : ParseBool[u] \in Text
  BY <1>1 DEF ParseBool
<1>5. CASE Parsed(p, t) = {ParseBool[u] : u \in {t} \cap DOMAIN ParseBool}
  BY <1>4, <1>5
<1>. QED  BY <1>2, <1>3, <1>5

LEMMA BlankMeans == ASSUME NEW l \in List PROVE Blank(l) \in Entries(l)
<1>1. "" \in Text /\ "0" \in Text
  BY DEF Text
<1>. QED  BY <1>1 DEF Blank, Entries

\* An entry of the file has every field once it is filled up.
LEMMA FilledMeans ==
  ASSUME NEW f \in Files, NEW l \in List, NEW i \in 1..Len(f.list[l])
  PROVE  Filled(f.list[l][i], l) \in Entries(l)
<1>1. f.list[l] \in Seq(Range(f.list[l]))
  BY FilesAssumption
<1>2. f.list[l][i] \in Range(f.list[l])
  BY <1>1 DEF Range
<1>3. \A x \in DOMAIN f.list[l][i] : f.list[l][i][x] \in Text
  BY <1>2, FilesAssumption DEF Text
<1>. QED  BY <1>3, BlankMeans DEF Filled, Entries

LEMMA DefaultMeans == SettingsOK(Default)
<1>1. {"", "true", "false", "1378", "0.0.0.0", "oidc", "openid,profile,email", "groups",
       "cheshmhayash_session", "43200"} \subseteq Text
  BY DEF Text
<1>2. Default.scalar \in [Path -> Text]
  BY <1>1 DEF Default
<1>3. \A l \in List : <<>> \in Seq(Entries(l))
  OBVIOUS
<1>4. Default.list = [l \in List |-> <<>>] /\ Default = [scalar |-> Default.scalar, list |-> Default.list]
  BY DEF Default
<1>. QED  BY <1>2, <1>3, <1>4 DEF SettingsOK

\* The file's settings: complete, and its lists no longer or shorter.
LEMMA UnmarshalMeans ==
  ASSUME NEW f \in Files
  PROVE  /\ SettingsOK(Unmarshal(f))
         /\ \A l \in List :
              /\ Len(f.list[l]) \in Nat
              /\ Len(Unmarshal(f).list[l]) = Len(f.list[l])
              /\ \A i \in 1..Len(f.list[l]) : Unmarshal(f).list[l][i] = Filled(f.list[l][i], l)
<1>1. Unmarshal(f).scalar \in [Path -> Text]
  <2>1. Default.scalar \in [Path -> Text]
    BY DefaultMeans DEF SettingsOK
  <2>2. \A p \in DOMAIN f.scalar : f.scalar[p] \in Text
    BY FilesAssumption DEF Text
  <2>. QED  BY <2>1, <2>2 DEF Unmarshal
<1>2. ASSUME NEW l \in List
      PROVE  /\ Len(f.list[l]) \in Nat
             /\ Unmarshal(f).list[l] \in Seq(Entries(l))
             /\ Len(Unmarshal(f).list[l]) = Len(f.list[l])
             /\ \A i \in 1..Len(f.list[l]) : Unmarshal(f).list[l][i] = Filled(f.list[l][i], l)
  <2>1. f.list[l] \in Seq(Range(f.list[l]))
    BY FilesAssumption
  <2>2. DOMAIN f.list[l] = 1..Len(f.list[l]) /\ Len(f.list[l]) \in Nat
    BY <2>1
  <2>3. Unmarshal(f).list[l] = [i \in 1..Len(f.list[l]) |-> Filled(f.list[l][i], l)]
    BY <2>2 DEF Unmarshal
  <2>4. Unmarshal(f).list[l] \in [1..Len(f.list[l]) -> Entries(l)]
    BY <2>3, FilledMeans
  <2>. QED  BY <2>2, <2>3, <2>4, FillMeans
<1>3. /\ Unmarshal(f) = [scalar |-> Unmarshal(f).scalar, list |-> Unmarshal(f).list]
      /\ Unmarshal(f).list = [l \in List |-> Unmarshal(f).list[l]]
  BY DEF Unmarshal
<1>. QED  BY <1>1, <1>2, <1>3 DEF SettingsOK

\* g is q with a field of entry i set, and with blank entries up to i.
SetIn(g, q, l, i, f, val) ==
  /\ g \in Seq(Entries(l))
  /\ Len(g) = IF i > Len(q) THEN i ELSE Len(q)
  /\ g[i][f] = val
  /\ \A j \in 1..Len(g), h \in Fields[l] :
       j # i \/ h # f => g[j][h] = IF j <= Len(q) THEN q[j][h] ELSE Blank(l)[h]

\* Once a list has grown, only an index below zero is outside.
LEMMA InsideMeans ==
  ASSUME NEW l \in List, NEW q \in Seq(Entries(l)), NEW idx \in Int
  PROVE  idx + 1 \in DOMAIN Grow(q, idx, Blank(l)) <=> idx + 1 >= 1
<1>. DEFINE grown == Grow(q, idx, Blank(l))
<1>1. /\ grown \in Seq(Entries(l))
      /\ idx + 1 <= Len(q) => grown = q
      /\ idx + 1 > Len(q) => Len(grown) = idx + 1
  BY BlankMeans, GrowMeans
<1>. HIDE DEF grown
<1>2. DOMAIN grown = 1..Len(grown) /\ Len(grown) >= idx + 1
  BY <1>1
<1>3. idx + 1 \in DOMAIN grown <=> idx + 1 >= 1
  BY <1>2
<1>. QED  BY <1>3 DEF grown

\* A list of the settings replaced.
LEMMA ReplaceMeans ==
  ASSUME NEW t, NEW l \in List, NEW g, t = [scalar |-> t.scalar, list |-> t.list]
  PROVE  [t EXCEPT !.list[l] = g] = [scalar |-> t.scalar, list |-> [t.list EXCEPT ![l] = g]]
  OBVIOUS

\* Setting a field of an entry that is there once the list has grown.
LEMMA SetMeans ==
  ASSUME NEW l \in List, NEW q \in Seq(Entries(l)), NEW idx \in Int, idx + 1 >= 1,
         NEW f \in Fields[l], NEW val \in Text
  PROVE  SetIn([Grow(q, idx, Blank(l)) EXCEPT ![idx + 1][f] = val], q, l, idx + 1, f, val)
<1>. DEFINE grown == Grow(q, idx, Blank(l))
            g == [grown EXCEPT ![idx + 1][f] = val]
<1>1. /\ grown \in Seq(Entries(l))
      /\ Len(grown) = IF idx + 1 > Len(q) THEN idx + 1 ELSE Len(q)
      /\ \A i \in 1..Len(grown) : grown[i] = IF i <= Len(q) THEN q[i] ELSE Blank(l)
  BY BlankMeans, GrowMeans
<1>. HIDE DEF grown
<1>2. idx + 1 \in 1..Len(grown) /\ DOMAIN grown = 1..Len(grown)
  BY <1>1
<1>3. grown[idx + 1] \in [Fields[l] -> Text]
  BY <1>1, <1>2 DEF Entries
<1>4. [grown[idx + 1] EXCEPT ![f] = val] \in Entries(l)
  BY <1>3 DEF Entries
<1>5. /\ g \in Seq(Entries(l)) /\ Len(g) = Len(grown)
      /\ g[idx + 1] = [grown[idx + 1] EXCEPT ![f] = val]
      /\ \A j \in 1..Len(grown) : j # idx + 1 => g[j] = grown[j]
  BY <1>1, <1>2, <1>4
<1>. HIDE DEF g
<1>6. g[idx + 1][f] = val /\ \A h \in Fields[l] : h # f => g[idx + 1][h] = grown[idx + 1][h]
  BY <1>3, <1>5
<1>7. ASSUME NEW j \in 1..Len(g), NEW h \in Fields[l], j # idx + 1 \/ h # f
      PROVE  g[j][h] = IF j <= Len(q) THEN q[j][h] ELSE Blank(l)[h]
  <2>1. j \in 1..Len(grown) /\ g[j][h] = grown[j][h]
    BY <1>5, <1>6, <1>7
  <2>. QED  BY <1>1, <2>1
<1>8. SetIn(g, q, l, idx + 1, f, val)
  BY <1>1, <1>5, <1>6, <1>7 DEF SetIn
<1>. QED  BY <1>8 DEF g, grown

\* What a variable of a list does.
LEMMA ListMeans ==
  ASSUME NEW t, SettingsOK(t), NEW l \in List, NEW rest \in Seq(Text), NEW val \in Text
  PROVE  \/ applyList(t, l, rest, val) = Error(t)
         \/ /\ Len(rest) >= 2 /\ rest[1] \in DOMAIN Atoi
            /\ \/ applyList(t, l, rest, val) = Panic(t) /\ Atoi[rest[1]] + 1 < 1
               \/ /\ Atoi[rest[1]] + 1 >= 1 /\ rest[2] \in Fields[l]
                  /\ \E g : /\ SetIn(g, t.list[l], l, Atoi[rest[1]] + 1, rest[2], val)
                            /\ applyList(t, l, rest, val) =
                                 Ok([scalar |-> t.scalar, list |-> [t.list EXCEPT ![l] = g]])
<1>. DEFINE idx == Atoi[rest[1]]
            field == rest[2]
            grown == Grow(t.list[l], idx, Blank(l))
            outside == idx + 1 \notin DOMAIN grown
            bad == field \notin Fields[l] \/ ParsedField(field, val) = {}
            g == [grown EXCEPT ![idx + 1][field] = val]
<1>1. CASE Len(rest) < 2 \/ rest[1] \notin DOMAIN Atoi
  BY <1>1 DEF applyList
<1>2. CASE ~(Len(rest) < 2 \/ rest[1] \notin DOMAIN Atoi)
  <2>1. Len(rest) >= 2 /\ rest[1] \in DOMAIN Atoi /\ idx \in Int
    BY <1>2, AtoiAssumption
  <2>2. applyList(t, l, rest, val) =
          IF outside /\ ~(l = "mcp_keys" /\ bad) THEN Panic(t)
          ELSE IF bad THEN Error(t)
          ELSE Ok([t EXCEPT !.list[l] = g])
    BY <1>2 DEF applyList
  <2>3. t.list[l] \in Seq(Entries(l)) /\ t = [scalar |-> t.scalar, list |-> t.list]
    BY DEF SettingsOK
  <2>4. outside <=> ~(idx + 1 >= 1)
    BY <2>1, <2>3, InsideMeans
  <2>5. CASE outside /\ ~(l = "mcp_keys" /\ bad)
    BY <2>1, <2>2, <2>4, <2>5
  <2>6. CASE bad /\ ~(outside /\ ~(l = "mcp_keys" /\ bad))
    BY <2>2, <2>6
  <2>7. CASE ~bad /\ ~outside
    <3>1. applyList(t, l, rest, val) = Ok([t EXCEPT !.list[l] = g])
      BY <2>2, <2>7
    <3>2. [t EXCEPT !.list[l] = g] = [scalar |-> t.scalar, list |-> [t.list EXCEPT ![l] = g]]
      <4>. HIDE DEF g
      <4>. QED  BY <2>3, ReplaceMeans
    <3>3. idx + 1 >= 1
      BY <2>4, <2>7
    <3>4. SetIn(g, t.list[l], l, idx + 1, field, val)
      BY <2>1, <2>3, <2>7, <3>3, SetMeans
    <3>. QED  BY <2>1, <2>7, <3>1, <3>2, <3>3, <3>4
  <2>. QED  BY <2>5, <2>6, <2>7
<1>. QED  BY <1>1, <1>2

\* A variable that reaches a field of an entry.
Reaches(v, l) ==
  /\ IsPrefix(Prefix[l], v.parts)
  /\ Len(v.parts) >= Len(Prefix[l]) + 2
  /\ v.parts[Len(Prefix[l]) + 1] \in DOMAIN Atoi
  /\ EntryOf(v, l) \in Nat \ {0}
  /\ FieldOf(v, l) \in Fields[l]

Variable(v) == v.parts \in Seq(Text) /\ v.parts # <<>> /\ v.val \in Text

\* What a variable does: an error or a panic leaves the settings alone, a section that is
\* not the program's is passed over, and otherwise one scalar or one field changes.
Passes(t, v, r) ==
  r = Ok(t) /\ Named(v.parts) = {} /\ \A l \in List : ~IsPrefix(Prefix[l], v.parts)

SetsScalar(t, v, r) ==
  /\ \A l \in List : ~IsPrefix(Prefix[l], v.parts)
  /\ \E p \in Named(v.parts) : \E u \in Parsed(p, v.val) :
       r = Ok([scalar |-> [t.scalar EXCEPT ![p] = u], list |-> t.list])

SetsField(t, v, r) ==
  \E l \in List : /\ Reaches(v, l)
                  /\ \E g : /\ SetIn(g, t.list[l], l, EntryOf(v, l), FieldOf(v, l), v.val)
                            /\ r = Ok([scalar |-> t.scalar, list |-> [t.list EXCEPT ![l] = g]])

LEMMA ApplyMeans ==
  ASSUME NEW t, SettingsOK(t), NEW v, Variable(v)
  PROVE  \/ applyEnvPath(t, v) = Error(t)
         \/ applyEnvPath(t, v) = Panic(t) /\ Negative(v)
         \/ Passes(t, v, applyEnvPath(t, v))
         \/ SetsScalar(t, v, applyEnvPath(t, v))
         \/ SetsField(t, v, applyEnvPath(t, v))
<1>. DEFINE r == applyEnvPath(t, v)
            lists == {l \in List : IsPrefix(Prefix[l], v.parts)}
<1>0. v.parts \in Seq(Text) /\ v.val \in Text
  BY DEF Variable
<1>1. CASE v.parts[1] \notin {"server", "nats", "notify", "auth"}
  <2>1. Named(v.parts) = {}
    BY <1>0, <1>1, OneScalar
  <2>2. ASSUME NEW l \in List PROVE ~IsPrefix(Prefix[l], v.parts)
    BY <1>0, <1>1, PrefixNats, PrefixKeys DEF List
  <2>3. r = Ok(t)
    BY <1>1 DEF applyEnvPath
  <2>. QED  BY <2>1, <2>2, <2>3 DEF Passes
<1>2. CASE v.parts[1] \in {"server", "nats", "notify", "auth"} /\ lists = {}
  <2>1. r = applyScalar(t, v.parts, v.val)
    BY <1>2 DEF applyEnvPath
  <2>2. CASE \A p \in Named(v.parts) : Parsed(p, v.val) = {}
    BY <2>1, <2>2 DEF applyScalar
  <2>3. CASE ~ \A p \in Named(v.parts) : Parsed(p, v.val) = {}
    <3>. DEFINE p == CHOOSE p \in Named(v.parts) : TRUE
                u == CHOOSE u \in Parsed(p, v.val) : TRUE
    <3>1. p \in Named(v.parts)
      BY <2>3
    <3>2. Parsed(p, v.val) # {}
      BY <1>0, <2>3, <3>1, OneScalar
    <3>3. u \in Parsed(p, v.val)
      BY <3>2
    <3>4. r = Ok([t EXCEPT !.scalar[p] = u])
      BY <2>1, <2>3 DEF applyScalar
    <3>. HIDE DEF p, u
    <3>5. [t EXCEPT !.scalar[p] = u] = [scalar |-> [t.scalar EXCEPT ![p] = u], list |-> t.list]
      <4>1. t = [scalar |-> t.scalar, list |-> t.list]
        BY DEF SettingsOK
      <4>. QED  BY <4>1
    <3>. QED  BY <1>2, <3>1, <3>3, <3>4, <3>5 DEF SetsScalar
  <2>. QED  BY <2>2, <2>3
<1>3. CASE v.parts[1] \in {"server", "nats", "notify", "auth"} /\ lists # {}
  <2>. DEFINE l == CHOOSE l \in lists : TRUE
              k == Len(Prefix[l])
              rest == SubSeq(v.parts, k + 1, Len(v.parts))
  <2>1. l \in List /\ IsPrefix(Prefix[l], v.parts)
    BY <1>3
  <2>2. r = applyList(t, l, rest, v.val)
    BY <1>3 DEF applyEnvPath
  <2>. HIDE DEF l
  <2>3. k \in Nat /\ k <= Len(v.parts)
    <3>1. CASE l = "mcp_keys"
      <4>1. k = 2 /\ Len(v.parts) > 1
        BY <1>0, <2>1, <3>1, PrefixKeys
      <4>. QED  BY <1>0, <4>1
    <3>2. CASE l \in {"nats", "notify"}
      <4>1. k = 1 /\ Len(v.parts) > 0
        BY <1>0, <2>1, <3>2, PrefixNats
      <4>. QED  BY <1>0, <4>1
    <3>. QED  BY <2>1, <3>1, <3>2 DEF List
  <2>. HIDE DEF k
  <2>4. /\ rest \in Seq(Text) /\ Len(rest) = Len(v.parts) - k
        /\ \A i \in 1 .. Len(v.parts) - k : rest[i] = v.parts[k + i]
    BY <1>0, <2>3, RestMeans
  <2>. HIDE DEF rest
  <2>5. \/ applyList(t, l, rest, v.val) = Error(t)
        \/ /\ Len(rest) >= 2 /\ rest[1] \in DOMAIN Atoi
           /\ \/ applyList(t, l, rest, v.val) = Panic(t) /\ Atoi[rest[1]] + 1 < 1
              \/ /\ Atoi[rest[1]] + 1 >= 1 /\ rest[2] \in Fields[l]
                 /\ \E g : /\ SetIn(g, t.list[l], l, Atoi[rest[1]] + 1, rest[2], v.val)
                           /\ applyList(t, l, rest, v.val) =
                                Ok([scalar |-> t.scalar, list |-> [t.list EXCEPT ![l] = g]])
    BY <1>0, <2>1, <2>4, ListMeans
  <2>6. CASE Len(rest) >= 2 /\ rest[1] \in DOMAIN Atoi
    <3>1. rest[1] = v.parts[k + 1] /\ rest[2] = v.parts[k + 2] /\ Len(v.parts) >= k + 2
      BY <1>0, <2>3, <2>4, <2>6
    <3>2. EntryOf(v, l) = Atoi[rest[1]] + 1 /\ FieldOf(v, l) = rest[2] /\ Atoi[rest[1]] \in Int
      BY <2>6, <3>1, AtoiAssumption DEF EntryOf, FieldOf, k
    <3>3. CASE applyList(t, l, rest, v.val) = Panic(t) /\ Atoi[rest[1]] + 1 < 1
      <4>1. Prefix[l] # v.parts
        BY <2>3, <3>1 DEF k
      <4>2. Negative(v)
        BY <2>1, <2>6, <3>1, <3>2, <3>3, <4>1 DEF Negative, IsStrictPrefix, k
      <4>. QED  BY <2>2, <3>3, <4>2
    <3>4. CASE /\ Atoi[rest[1]] + 1 >= 1 /\ rest[2] \in Fields[l]
               /\ \E g : /\ SetIn(g, t.list[l], l, Atoi[rest[1]] + 1, rest[2], v.val)
                         /\ applyList(t, l, rest, v.val) =
                              Ok([scalar |-> t.scalar, list |-> [t.list EXCEPT ![l] = g]])
      <4>1. Reaches(v, l)
        BY <2>1, <2>6, <3>1, <3>2, <3>4 DEF Reaches, k
      <4>. QED  BY <2>1, <2>2, <3>2, <3>4, <4>1 DEF SetsField
    <3>. QED  BY <2>2, <2>5, <3>3, <3>4
  <2>. QED  BY <2>2, <2>5, <2>6
<1>. QED  BY <1>1, <1>2, <1>3

\* Settings stay complete, and the clusters grow no further than an index names.
LEMMA ApplyKeeps ==
  ASSUME NEW t, SettingsOK(t), NEW v, Variable(v)
  PROVE  /\ SettingsOK(applyEnvPath(t, v).s)
         /\ applyEnvPath(t, v).end \in {"ok", "error", "panic"}
         /\ \/ Len(applyEnvPath(t, v).s.list["nats"]) = Len(t.list["nats"])
            \/ /\ Reaches(v, "nats")
               /\ Len(applyEnvPath(t, v).s.list["nats"]) = EntryOf(v, "nats")
<1>. DEFINE r == applyEnvPath(t, v)
<1>0. "nats" \in List
  BY DEF List
<1>1. CASE r = Error(t) \/ r = Panic(t) \/ r = Ok(t)
  BY <1>1 DEF Error, Panic, Ok
<1>2. CASE SetsScalar(t, v, r)
  <2>0. PICK p \in Named(v.parts) : \E u \in Parsed(p, v.val) :
          r = Ok([scalar |-> [t.scalar EXCEPT ![p] = u], list |-> t.list])
    BY <1>2 DEF SetsScalar
  <2>1. PICK u \in Parsed(p, v.val) :
          r = Ok([scalar |-> [t.scalar EXCEPT ![p] = u], list |-> t.list])
    BY <2>0
  <2>2. p \in Path /\ u \in Text
    BY ParsedMeans DEF Named, Variable
  <2>3. /\ r.end = "ok" /\ r.s = [scalar |-> [t.scalar EXCEPT ![p] = u], list |-> t.list]
        /\ r.s.scalar = [t.scalar EXCEPT ![p] = u] /\ r.s.list = t.list
    BY <2>1 DEF Ok
  <2>4. r.s.scalar \in [Path -> Text]
    BY <2>2, <2>3 DEF SettingsOK
  <2>5. SettingsOK(r.s)
    BY <2>3, <2>4 DEF SettingsOK
  <2>. QED  BY <2>3, <2>5
<1>3. CASE SetsField(t, v, r)
  <2>0. PICK l \in List :
          \E g : /\ Reaches(v, l)
                /\ SetIn(g, t.list[l], l, EntryOf(v, l), FieldOf(v, l), v.val)
                /\ r = Ok([scalar |-> t.scalar, list |-> [t.list EXCEPT ![l] = g]])
    BY <1>3 DEF SetsField
  <2>1. PICK g : /\ Reaches(v, l)
                 /\ SetIn(g, t.list[l], l, EntryOf(v, l), FieldOf(v, l), v.val)
                 /\ r = Ok([scalar |-> t.scalar, list |-> [t.list EXCEPT ![l] = g]])
    BY <2>0
  <2>2. g \in Seq(Entries(l)) /\ Len(g) \in {EntryOf(v, l), Len(t.list[l])}
    BY <2>1 DEF SetIn
  <2>3. /\ r.end = "ok" /\ r.s = [scalar |-> t.scalar, list |-> [t.list EXCEPT ![l] = g]]
        /\ r.s.list = [t.list EXCEPT ![l] = g] /\ r.s.scalar = t.scalar
    BY <2>1 DEF Ok
  <2>4. t.list = [m \in List |-> t.list[m]] /\ \A m \in List : t.list[m] \in Seq(Entries(m))
    BY DEF SettingsOK
  <2>5. r.s.list[l] = g /\ \A m \in List : m # l => r.s.list[m] = t.list[m]
    BY <2>3, <2>4
  <2>6. SettingsOK(r.s)
    <3>1. r.s.list = [m \in List |-> r.s.list[m]]
      BY <2>3, <2>4
    <3>2. \A m \in List : r.s.list[m] \in Seq(Entries(m))
      BY <2>2, <2>4, <2>5
    <3>3. r.s = [scalar |-> r.s.scalar, list |-> r.s.list] /\ r.s.scalar \in [Path -> Text]
      BY <2>3 DEF SettingsOK
    <3>. QED  BY <3>1, <3>2, <3>3 DEF SettingsOK
  <2>. QED  BY <1>0, <2>1, <2>2, <2>3, <2>5, <2>6
<1>. QED  BY <1>1, <1>2, <1>3, ApplyMeans DEF Passes

-----------------------------------------------------------------------------
(* The invariant. *)

\* The values the state ranges over; settings are complete.
TypeInv ==
  /\ bin \in {"dashboard", "mcp"}
  /\ file \in Files
  /\ env \in Envs
  /\ todo \subseteq env
  /\ SettingsOK(s)
  /\ Len(Nats) <= MaxEntries
  /\ phase \in Phase
  /\ next \in 1 .. MaxEntries + 1
  /\ conn \in [Entry -> {"none", "open", "closed"}]
  /\ mgr \in SUBSET Entry
  /\ subs \in [Entry -> 0 .. MaxEntries]
  /\ authn \in BOOLEAN
  /\ cache \in {"none", "running", "stopped"}
  /\ sock \in {"none", "listening", "closed"}
  /\ cancelled \in BOOLEAN
  /\ timedOut \in BOOLEAN
  /\ req \in [Request -> Req]

\* Before the server there is nothing to take a request.
StartInv ==
  phase \in {"start", "overlay", "connect", "notify", "subscribe", "auth"} =>
    sock = "none" /\ cache = "none" /\ \A r \in Request : req[r] = "idle"

\* Settings are validated before anything is started from them, and run() has an
\* authenticator for the server exactly when they ask for one.
Serving == phase = "serve" \/ sock # "none" \/ \E r \in Request : req[r] # "idle"

GateInv ==
  /\ phase \notin {"start", "overlay", "exited", "panicked", "died"} => validate(s)
  /\ Serving => validate(s) /\ (authn <=> On(s, <<"enabled">>))

\* Where each connection is: the manager's, or one whose name a later entry took.
ConnInv ==
  /\ \A i \in mgr : conn[i] # "none"
  /\ \A i, j \in mgr : Name(i) = Name(j) => i = j
  /\ \A i \in Entry : conn[i] = "open" => i \in mgr \/ \E j \in mgr : i < j /\ Name(i) = Name(j)
  /\ phase \in {"start", "overlay", "panicked"} => mgr = {} /\ \A i \in Entry : conn[i] = "none"
  /\ phase \in {"start", "overlay"} => next = 1
  /\ phase = "connect" => /\ mgr \subseteq 1 .. next - 1
                          /\ \A i \in Entry : i >= next => conn[i] = "none"
  /\ phase \notin {"return", "exited", "died"} => \A i \in Entry : conn[i] # "closed"
  /\ phase \in {"return", "exited"} => \A i \in mgr : conn[i] = "closed"

\* Once Shutdown has returned no request runs, unless it gave up; nor once the process died.
EndInv ==
  /\ phase = "shutdown" => sock = "closed"
  /\ phase \in {"unsubscribe", "drain", "return", "exited", "panicked"} =>
       sock # "listening" /\ (timedOut \/ \A r \in Request : req[r] \notin Running)
  /\ phase = "died" => sock = "closed" /\ \A r \in Request : req[r] \notin Running
  /\ \A r \in Request : req[r] = "cut" => timedOut \/ phase = "died"

\* The notifier is subscribed between its start and its Close, and nothing is drained before
\* that Close.
SubsInv ==
  /\ phase \in {"start", "overlay", "connect", "notify", "drain", "return", "exited", "panicked"} =>
       \A i \in Entry : subs[i] = 0
  /\ bin = "mcp" => phase \notin {"notify", "subscribe"} /\ \A i \in Entry : subs[i] = 0
  /\ phase = "subscribe" => \A i \in Entry : subs[i] < next
  /\ phase = "died" => \A i \in Entry : conn[i] = "closed" => subs[i] = 0

\* What the variables laid over a base have set is theirs, and the rest is the base's.
ScalarsLaid(t, base, laid) ==
  \A p \in Path :
    /\ \A v \in laid : p \in Named(v.parts) => t.scalar[p] \in Parsed(p, v.val)
    /\ (\A v \in laid : p \notin Named(v.parts)) => t.scalar[p] = base.scalar[p]

EntriesLaid(q, inFile, laid, l) ==
  /\ \A v \in OfList(laid, l) :
       /\ Reaches(v, l)
       /\ EntryOf(v, l) <= Len(q)
       /\ q[EntryOf(v, l)][FieldOf(v, l)] = v.val
  /\ Len(inFile) <= Len(q)
  /\ Len(q) = Len(inFile) \/ \E v \in OfList(laid, l) : EntryOf(v, l) = Len(q)
  /\ \A i \in 1..Len(q), f \in Fields[l] :
       (\A v \in OfList(laid, l) : EntryOf(v, l) # i \/ FieldOf(v, l) # f) =>
         q[i][f] = IF i <= Len(inFile) THEN inFile[i][f] ELSE Blank(l)[f]

Layered(t, base, laid) ==
  /\ ScalarsLaid(t, base, laid)
  /\ \A l \in List : EntriesLaid(t.list[l], base.list[l], laid, l)

LoadInv ==
  /\ phase = "start" => todo = env
  /\ phase = "overlay" /\ Unambiguous(env) => Layered(s, Unmarshal(file), env \ todo)
  /\ Loaded /\ Unambiguous(env) => Layered(s, Unmarshal(file), env)
  /\ phase = "panicked" => \E v \in env : Negative(v)

IInv == TypeInv /\ StartInv /\ GateInv /\ ConnInv /\ EndInv /\ SubsInv /\ LoadInv

-----------------------------------------------------------------------------
(* The settings. *)

LEMMA VariablesOK == ASSUME NEW e \in Envs, NEW v \in e PROVE Variable(v)
<1>1. v.parts \in Seq(STRING) /\ v.parts # <<>> /\ v.val \in STRING
  BY EnvsAssumption
<1>. QED  BY <1>1, TextSeq DEF Variable, Text

\* No variable names an entry past the last the settings may have.
LEMMA ClusterBound ==
  ASSUME NEW e \in Envs, NEW v \in e, Reaches(v, "nats")
  PROVE  EntryOf(v, "nats") \in 1..MaxEntries
<1>1. v.parts \in Seq(Text)
  BY VariablesOK DEF Variable
<1>2. Len(Prefix["nats"]) = 1
  BY <1>1, PrefixNats
<1>3. v \in OfList(e, "nats")
  BY DEF Reaches, OfList
<1>4. Len(v.parts) > 1 /\ v.parts[2] \in DOMAIN Atoi
  BY <1>1, <1>2 DEF Reaches
<1>5. Atoi[v.parts[2]] < MaxEntries /\ Atoi[v.parts[2]] \in Int /\ MaxEntries \in Nat
  BY <1>3, <1>4, MaxEntriesAssumption, AtoiAssumption
<1>6. EntryOf(v, "nats") = Atoi[v.parts[2]] + 1 /\ EntryOf(v, "nats") >= 1
  BY <1>2, <1>5 DEF EntryOf, Reaches
<1>. QED  BY <1>5, <1>6

LEMMA LoadFileType == ASSUME TypeInv, LoadFile PROVE SettingsOK(s)' /\ Len(Nats)' <= MaxEntries
<1>1. "nats" \in List
  BY DEF List
<1>2. CASE s' = Unmarshal(file)
  <2>1. SettingsOK(s') /\ Len(s'.list["nats"]) = Len(file.list["nats"])
    BY <1>1, <1>2, UnmarshalMeans DEF TypeInv
  <2>2. Len(file.list["nats"]) <= MaxEntries
    BY MaxEntriesAssumption DEF TypeInv
  <2>. QED  BY <2>1, <2>2 DEF Nats, SettingsOK
<1>3. CASE s' = s
  BY <1>3 DEF TypeInv, Nats, SettingsOK
<1>. QED  BY <1>2, <1>3 DEF LoadFile

LEMMA overlayEnvType == ASSUME TypeInv, overlayEnv PROVE SettingsOK(s)' /\ Len(Nats)' <= MaxEntries
<1>1. PICK v \in todo : s' = applyEnvPath(s, v).s
  BY DEF overlayEnv
<1>2. v \in env /\ env \in Envs
  BY DEF TypeInv
<1>3. Variable(v)
  BY <1>2, VariablesOK
<1>4. SettingsOK(s')
  BY <1>1, <1>3, ApplyKeeps DEF TypeInv
<1>5. Len(s'.list["nats"]) <= MaxEntries
  <2>1. CASE Len(s'.list["nats"]) = Len(s.list["nats"])
    BY <2>1 DEF TypeInv, Nats
  <2>2. CASE Reaches(v, "nats") /\ Len(s'.list["nats"]) = EntryOf(v, "nats")
    <3>1. EntryOf(v, "nats") \in 1..MaxEntries
      BY <1>2, <2>2, ClusterBound
    <3>. QED  BY <2>2, <3>1, MaxEntriesAssumption
  <2>. QED  BY <1>1, <1>3, <2>1, <2>2, ApplyKeeps DEF TypeInv
<1>. QED  BY <1>4, <1>5 DEF Nats, SettingsOK

-----------------------------------------------------------------------------
(* Every step keeps the invariant, one part at a time. *)

\* Only the loader changes the settings.
LEMMA SettingsStep == ASSUME [Next]_vars, ~LoadFile, ~overlayEnv PROVE s' = s
  BY DEF Next, vars, Load, Validate, Start, Connect, ConnectFails, Connected, NewNotifier,
         Subscribe, NewAuth, Listen, Signal, closeSubs, RefresherDies, CutOff,
         End, Shutdown, ShutdownDone,
         ShutdownTimeout, closeNotifier, closeManager, Exit, Serve, Accept, SubscribeStream,
         Return, Leave, Becomes, loadVars

\* Where a variable leads.
LEMMA overlayEnvPhase ==
  ASSUME TypeInv, overlayEnv
  PROVE  \E v \in todo :
           /\ Variable(v) /\ v \in env /\ todo' = todo \ {v} /\ s' = applyEnvPath(s, v).s
           /\ \/ applyEnvPath(s, v).end = "ok" /\ phase' = "overlay"
              \/ applyEnvPath(s, v).end = "error" /\ phase' = "exited"
              \/ applyEnvPath(s, v).end = "panic" /\ phase' = "panicked"
<1>1. PICK v \in todo : /\ todo' = todo \ {v}
                        /\ s' = applyEnvPath(s, v).s
                        /\ phase' = CASE applyEnvPath(s, v).end = "ok" -> "overlay"
                                      [] applyEnvPath(s, v).end = "error" -> "exited"
                                      [] applyEnvPath(s, v).end = "panic" -> "panicked"
  BY DEF overlayEnv
<1>2. v \in env /\ env \in Envs /\ SettingsOK(s)
  BY DEF TypeInv
<1>3. Variable(v)
  BY <1>2, VariablesOK
<1>4. applyEnvPath(s, v).end \in {"ok", "error", "panic"}
  BY <1>2, <1>3, ApplyKeeps
<1>. QED  BY <1>1, <1>2, <1>3, <1>4

LEMMA TypeInit == Init => TypeInv
<1>. SUFFICES ASSUME Init PROVE TypeInv
  OBVIOUS
<1>1. SettingsOK(s) /\ Len(Nats) = 0
  BY DefaultMeans DEF Init, Nats, Default, List
<1>2. MaxEntries \in Nat /\ 0 \in 0..MaxEntries /\ 1 \in 1 .. MaxEntries + 1
  BY MaxEntriesAssumption
<1>3. Len(Nats) <= MaxEntries
  BY <1>1, <1>2
<1>4. subs \in [Entry -> 0 .. MaxEntries] /\ next \in 1 .. MaxEntries + 1
  BY <1>2 DEF Init
<1>5. conn \in [Entry -> {"none", "open", "closed"}] /\ req \in [Request -> Req]
  BY DEF Init, Req
<1>6. todo \subseteq env /\ mgr \in SUBSET Entry /\ phase \in Phase
  BY DEF Init, Phase
<1>. QED  BY <1>1, <1>3, <1>4, <1>5, <1>6 DEF Init, TypeInv

LEMMA TypeStep == ASSUME TypeInv, SubsInv, [Next]_vars PROVE TypeInv'
<1>0. MaxEntries \in Nat
  BY MaxEntriesAssumption
<1>1. SettingsOK(s)' /\ Len(Nats)' <= MaxEntries
  <2>1. CASE s' = s
    BY <2>1 DEF TypeInv, Nats, SettingsOK
  <2>. QED  BY <2>1, LoadFileType, overlayEnvType, SettingsStep
<1>2. CASE UNCHANGED vars
  BY <1>1, <1>2 DEF TypeInv, vars, confVars, loadVars, connVars, srvVars, endVars
<1>3. CASE LoadFile
  BY <1>1, <1>3 DEF TypeInv, LoadFile, confVars, connVars, srvVars, endVars, Phase
<1>4. CASE overlayEnv
  <2>1. phase' \in Phase
    BY <1>4, overlayEnvPhase DEF Phase
  <2>2. todo' \subseteq todo
    BY <1>4 DEF overlayEnv
  <2>. QED  BY <1>1, <1>4, <2>1, <2>2
            DEF TypeInv, overlayEnv, confVars, connVars, srvVars, endVars
<1>5. CASE Validate
  BY <1>1, <1>5 DEF TypeInv, Validate, confVars, loadVars, connVars, srvVars, endVars, Phase
<1>6. CASE Connect
  <2>1. next \in Entry /\ next + 1 \in 1 .. MaxEntries + 1
    BY <1>0, <1>6 DEF TypeInv, Connect, Entry, SettingsOK, Nats, List
  <2>2. conn' \in [Entry -> {"none", "open", "closed"}] /\ mgr' \in SUBSET Entry
    BY <1>6, <2>1 DEF TypeInv, Connect
  <2>. QED  BY <1>1, <1>6, <2>1, <2>2
            DEF TypeInv, Connect, confVars, loadVars, srvVars, endVars
<1>7. CASE ConnectFails \/ closeManager
  BY <1>1, <1>7 DEF TypeInv, ConnectFails, closeManager, Drained, confVars, loadVars, srvVars,
                    endVars, Phase
<1>8. CASE Connected \/ NewNotifier
  <2>1. phase' \in Phase /\ next' \in {next, 1}
    BY <1>8 DEF Connected, NewNotifier, Phase
  <2>2. next' \in 1 .. MaxEntries + 1
    BY <1>0, <2>1 DEF TypeInv
  <2>3. UNCHANGED <<confVars, loadVars, connVars, subs, srvVars, endVars>>
    BY <1>8 DEF Connected, NewNotifier
  <2>. QED  BY <1>1, <2>1, <2>2, <2>3 DEF TypeInv, confVars, loadVars, connVars, srvVars, endVars
<1>9. CASE Subscribe
  <2>1. CASE phase' = "auth" /\ UNCHANGED <<next, subs>>
    BY <1>1, <1>9, <2>1 DEF TypeInv, Subscribe, confVars, loadVars, connVars, srvVars, endVars,
                            Phase
  <2>2. CASE next <= Len(Nats) /\ next' = next + 1 /\ UNCHANGED phase
    <3>1. Len(Nats) \in Nat
      BY DEF TypeInv, SettingsOK, Nats, List
    <3>2. next' \in 1 .. MaxEntries + 1 /\ next <= MaxEntries
      BY <1>0, <2>2, <3>1 DEF TypeInv
    <3>3. subs' \in [Entry -> 0 .. MaxEntries]
      <4>1. CASE UNCHANGED subs
        BY <4>1 DEF TypeInv
      <4>2. ASSUME NEW i \in mgr, subs' = [subs EXCEPT ![i] = @ + 1]
            PROVE  subs' \in [Entry -> 0 .. MaxEntries]
        <5>1. i \in Entry /\ subs[i] \in 0..MaxEntries /\ subs[i] < next
          BY <1>9 DEF TypeInv, SubsInv, Subscribe
        <5>2. subs[i] + 1 \in 0..MaxEntries
          BY <1>0, <3>2, <5>1 DEF TypeInv
        <5>. QED  BY <4>2, <5>1, <5>2 DEF TypeInv
      <4>. QED  BY <1>9, <2>2, <4>1, <4>2 DEF Subscribe
    <3>. QED  BY <1>1, <1>9, <2>2, <3>2, <3>3
              DEF TypeInv, Subscribe, confVars, loadVars, connVars, srvVars, endVars
  <2>3. Len(Nats) \in Nat /\ next \in Nat
    BY <1>0 DEF TypeInv, SettingsOK, Nats, List
  <2>. QED  BY <1>9, <2>1, <2>2, <2>3 DEF Subscribe
<1>10. CASE NewAuth
  <2>1. On(s, <<"enabled">>) \in BOOLEAN
    BY DEF On, Is
  <2>. QED  BY <1>1, <1>10, <2>1 DEF TypeInv, NewAuth, confVars, loadVars, connVars, endVars, Phase
<1>11. CASE Listen \/ Signal \/ Shutdown
  <2>1. CASE Listen
    BY <1>1, <2>1 DEF TypeInv, Listen, confVars, loadVars, connVars, srvVars, endVars, Phase
  <2>2. CASE Signal
    BY <1>1, <2>2 DEF TypeInv, Signal, confVars, loadVars, connVars, srvVars, endVars, Phase
  <2>3. CASE Shutdown
    BY <1>1, <2>3 DEF TypeInv, Shutdown, confVars, loadVars, connVars, srvVars, endVars, Phase
  <2>. QED  BY <1>11, <2>1, <2>2, <2>3
<1>12. CASE closeSubs \/ Exit
  BY <1>1, <1>12 DEF TypeInv, closeSubs, Exit, CutOff, confVars, loadVars, connVars, endVars,
                     Phase, Req
<1>13. CASE ShutdownDone \/ ShutdownTimeout
  <2>1. CASE ShutdownDone
    BY <1>1, <2>1 DEF TypeInv, ShutdownDone, Unwind, confVars, loadVars, connVars, srvVars,
                      endVars, Phase
  <2>2. CASE ShutdownTimeout
    BY <1>1, <2>2 DEF TypeInv, ShutdownTimeout, Unwind, confVars, loadVars, connVars, srvVars,
                      endVars, Phase
  <2>. QED  BY <1>13, <2>1, <2>2
<1>14. CASE closeNotifier
  BY <1>0, <1>1, <1>14 DEF TypeInv, closeNotifier, confVars, loadVars, connVars, srvVars,
                           endVars, Phase
<1>15. ASSUME NEW r \in Request, Serve(r) PROVE TypeInv'
  BY <1>1, <1>15 DEF TypeInv, Serve, Accept, SubscribeStream, Return, Leave, Becomes, confVars,
                     loadVars, connVars, endVars, Req
<1>16. ASSUME NEW r \in Request, RefresherDies(r) PROVE TypeInv'
  BY <1>1, <1>16 DEF TypeInv, RefresherDies, CutOff, confVars, loadVars, connVars, endVars, Phase,
                     Req
<1>. QED  BY <1>2, <1>3, <1>4, <1>5, <1>6, <1>7, <1>8, <1>9, <1>10, <1>11, <1>12, <1>13, <1>14,
             <1>15, <1>16 DEF Next, Load, Start, End

LEMMA StartStep == ASSUME TypeInv, StartInv, [Next]_vars PROVE StartInv'
<1>1. CASE UNCHANGED vars
  BY <1>1 DEF StartInv, vars, srvVars
<1>2. CASE Load \/ Start
  <2>1. CASE NewAuth
    BY <2>1 DEF NewAuth, StartInv
  <2>2. CASE ~NewAuth
    <3>1. UNCHANGED srvVars
      BY <1>2, <2>2 DEF Load, Start, LoadFile, overlayEnv, Validate, Connect, ConnectFails,
                        Connected, NewNotifier, Subscribe
    <3>2. phase \in {"start", "overlay", "connect", "notify", "subscribe", "auth"}
      BY <1>2, <2>2 DEF Load, Start, LoadFile, overlayEnv, Validate, Connect, ConnectFails,
                        Connected, NewNotifier, Subscribe
    <3>. QED  BY <3>1, <3>2 DEF StartInv, srvVars
  <2>. QED  BY <2>1, <2>2
<1>3. CASE Listen \/ Signal \/ End
  BY <1>3 DEF Listen, Signal, End, Shutdown, ShutdownDone, ShutdownTimeout, Unwind,
              closeNotifier, closeManager, Exit, StartInv, srvVars
<1>4. CASE closeSubs
  BY <1>4 DEF closeSubs, StartInv
<1>5. ASSUME NEW r \in Request, Serve(r) PROVE StartInv'
  <2>1. phase' = phase /\ (sock # "none" \/ req[r] # "idle")
    BY <1>5 DEF Serve, Accept, SubscribeStream, Return, Leave, Becomes
  <2>. QED  BY <2>1 DEF StartInv
<1>6. ASSUME NEW r \in Request, RefresherDies(r) PROVE StartInv'
  BY <1>6 DEF RefresherDies, StartInv
<1>. QED  BY <1>1, <1>2, <1>3, <1>4, <1>5, <1>6 DEF Next

LEMMA GateStep == ASSUME TypeInv, StartInv, GateInv, [Next]_vars PROVE GateInv'
<1>0. On(s, <<"enabled">>) \in BOOLEAN
  BY DEF On, Is
<1>1. CASE LoadFile \/ overlayEnv
  <2>1. phase \in {"start", "overlay"} /\ phase' \in {"overlay", "exited", "panicked"}
    BY <1>1, overlayEnvPhase DEF LoadFile, overlayEnv
  <2>2. UNCHANGED srvVars
    BY <1>1 DEF LoadFile, overlayEnv
  <2>3. ~Serving'
    BY <2>1, <2>2 DEF StartInv, Serving, srvVars
  <2>. QED  BY <2>1, <2>3 DEF GateInv
<1>2. CASE Validate
  <2>1. phase = "overlay" /\ phase' = (IF validate(s) THEN "connect" ELSE "exited") /\ s' = s
        /\ UNCHANGED srvVars
    BY <1>2 DEF Validate, loadVars
  <2>2. ~Serving'
    BY <2>1 DEF StartInv, Serving, srvVars
  <2>3. phase' # "exited" => validate(s')
    BY <2>1
  <2>. QED  BY <2>2, <2>3 DEF GateInv
<1>3. CASE NewAuth
  <2>1. s' = s /\ validate(s) /\ phase = "auth" /\ sock' = sock /\ req' = req
    BY <1>3 DEF NewAuth, GateInv, loadVars
  <2>2. ~(sock # "none" \/ \E r \in Request : req[r] # "idle")
    BY <2>1 DEF StartInv
  <2>3. phase' = "serve" => (authn' <=> On(s, <<"enabled">>))
    BY <1>3 DEF NewAuth
  <2>4. validate(s')
    BY <2>1
  <2>5. Serving' => phase' = "serve"
    BY <2>1, <2>2 DEF Serving
  <2>6. Serving' => (authn' <=> On(s', <<"enabled">>))
    BY <2>1, <2>3, <2>5
  <2>. QED  BY <2>4, <2>6 DEF GateInv
<1>4. CASE ~(LoadFile \/ overlayEnv \/ Validate \/ NewAuth)
  <2>1. s' = s /\ authn' = authn
    BY <1>4 DEF Next, vars, Load, Start, Connect, ConnectFails, Connected, NewNotifier,
         Subscribe, Listen, Signal, closeSubs, RefresherDies, CutOff,
         End, Shutdown, ShutdownDone,
         ShutdownTimeout, closeNotifier, closeManager, Exit, Serve, Accept, SubscribeStream,
         Return, Leave, Becomes, loadVars, srvVars
  <2>2. phase' \notin {"start", "overlay", "exited", "panicked", "died"} =>
          phase \notin {"start", "overlay", "exited", "panicked", "died"}
    BY <1>4 DEF Next, vars, Load, Start, Connect, ConnectFails, Connected, NewNotifier,
         Subscribe, Listen, Signal, closeSubs, RefresherDies, CutOff,
         End, Shutdown, ShutdownDone, Unwind,
         ShutdownTimeout, closeNotifier, closeManager, Exit, Serve, Accept, SubscribeStream,
         Return, Leave, Becomes
  <2>3. Serving' => Serving
    <3>1. CASE UNCHANGED <<phase, sock, req>>
      BY <3>1 DEF Serving
    <3>2. CASE Load \/ Start
      BY <1>4, <3>2 DEF Load, Start, Connect, ConnectFails, Connected, NewNotifier, Subscribe,
                        Serving, srvVars
    <3>3. CASE Listen \/ Signal \/ End
      BY <3>3 DEF Listen, Signal, End, Shutdown, ShutdownDone, ShutdownTimeout, Unwind,
                  closeNotifier, closeManager, Exit, CutOff, Serving, srvVars, Running
    <3>4. CASE closeSubs
      BY <3>4 DEF closeSubs, Serving
    <3>5. ASSUME NEW r \in Request, Serve(r) PROVE Serving
      BY <3>5 DEF Serve, Accept, SubscribeStream, Return, Leave, Becomes, Serving
    <3>6. ASSUME NEW r \in Request, RefresherDies(r) PROVE Serving
      BY <3>6 DEF RefresherDies, Serving
    <3>. QED  BY <3>1, <3>2, <3>3, <3>4, <3>5, <3>6 DEF Next, vars, srvVars
  <2>4. validate(s) => validate(s')
    BY <2>1
  <2>5. (authn <=> On(s, <<"enabled">>)) => (authn' <=> On(s', <<"enabled">>))
    BY <2>1
  <2>. QED  BY <2>2, <2>3, <2>4, <2>5 DEF GateInv
<1>. QED  BY <1>1, <1>2, <1>3, <1>4

LEMMA EndStep == ASSUME TypeInv, StartInv, EndInv, [Next]_vars PROVE EndInv'
<1>1. CASE UNCHANGED vars
  BY <1>1 DEF EndInv, vars, srvVars, endVars
<1>2. CASE Load \/ Start
  <2>0. phase' \notin {"shutdown", "died"}
    <3>1. CASE overlayEnv
      BY <3>1, overlayEnvPhase
    <3>. QED  BY <1>2, <3>1 DEF Load, Start, LoadFile, Validate, Connect, ConnectFails, Connected,
                                NewNotifier, Subscribe, NewAuth
  <2>1. UNCHANGED <<sock, req, timedOut>>
    BY <1>2 DEF Load, Start, LoadFile, overlayEnv, Validate, Connect, ConnectFails, Connected,
                NewNotifier, Subscribe, NewAuth, srvVars, endVars
  <2>2. phase \in {"start", "overlay", "connect", "notify", "subscribe", "auth"}
    BY <1>2 DEF Load, Start, LoadFile, overlayEnv, Validate, Connect, ConnectFails, Connected,
                NewNotifier, Subscribe, NewAuth
  <2>3. sock = "none" /\ \A r \in Request : req[r] = "idle"
    BY <2>2 DEF StartInv
  <2>. QED  BY <2>0, <2>1, <2>3 DEF EndInv, Running
<1>3. CASE Listen
  BY <1>3 DEF Listen, EndInv
<1>4. CASE Signal
  BY <1>4 DEF Signal, EndInv, srvVars
<1>5. CASE closeSubs
  <2>1. UNCHANGED <<phase, sock, timedOut>>
    BY <1>5 DEF closeSubs, endVars
  <2>2. \A r \in Request : /\ req'[r] \in Running <=> req[r] \in Running
                           /\ req'[r] = "cut" <=> req[r] = "cut"
    BY <1>5 DEF closeSubs, Running
  <2>. QED  BY <2>1, <2>2 DEF EndInv
<1>6. CASE Shutdown
  BY <1>6 DEF Shutdown, EndInv, endVars
<1>7. CASE ShutdownDone \/ ShutdownTimeout
  BY <1>7 DEF ShutdownDone, ShutdownTimeout, Unwind, EndInv, srvVars, endVars
<1>8. CASE closeNotifier \/ closeManager
  BY <1>8 DEF closeNotifier, closeManager, EndInv, srvVars, endVars
<1>9. CASE Exit
  <2>1. phase = "return" /\ phase' = "exited" /\ UNCHANGED <<sock, timedOut>>
    BY <1>9 DEF Exit, endVars
  <2>2. \A r \in Request : req'[r] \notin Running
    BY <1>9 DEF Exit, CutOff, Running
  <2>3. \A r \in Request : req'[r] = "cut" => req[r] = "cut" \/ req[r] \in Running
    BY <1>9 DEF Exit, CutOff
  <2>. QED  BY <2>1, <2>2, <2>3 DEF EndInv
<1>10. ASSUME NEW r \in Request, Serve(r) PROVE EndInv'
  <2>1. UNCHANGED <<phase, sock, timedOut>>
    BY <1>10 DEF Serve, Accept, SubscribeStream, Return, Leave, Becomes, endVars
  <2>2. /\ \A x \in Request : x # r => req'[x] = req[x]
        /\ req'[r] # "cut"
        /\ req'[r] \in Running => sock = "listening" \/ req[r] \in Running
    BY <1>10 DEF TypeInv, Serve, Accept, SubscribeStream, Return, Leave, Becomes, Running
  <2>. QED  BY <2>1, <2>2 DEF EndInv
<1>11. ASSUME NEW r \in Request, RefresherDies(r) PROVE EndInv'
  <2>1. phase' = "died" /\ sock' = "closed"
    BY <1>11 DEF RefresherDies
  <2>2. \A x \in Request : req'[x] \notin Running
    BY <1>11 DEF RefresherDies, CutOff, Running
  <2>. QED  BY <2>1, <2>2 DEF EndInv
<1>. QED  BY <1>1, <1>2, <1>3, <1>4, <1>5, <1>6, <1>7, <1>8, <1>9, <1>10, <1>11 DEF Next, End

LEMMA SubsStep == ASSUME TypeInv, ConnInv, SubsInv, [Next]_vars PROVE SubsInv'
<1>0. bin \in {"dashboard", "mcp"}
  BY DEF TypeInv
<1>1. CASE UNCHANGED vars
  BY <1>1 DEF SubsInv, vars, confVars, connVars
<1>2. CASE Load
  <2>1. /\ UNCHANGED <<subs, bin>>
        /\ phase \in {"start", "overlay"}
        /\ phase' \in {"overlay", "connect", "exited", "panicked"}
    <3>1. CASE overlayEnv
      BY <3>1, overlayEnvPhase DEF overlayEnv, confVars
    <3>. QED  BY <1>2, <3>1 DEF Load, LoadFile, Validate, confVars
  <2>. QED  BY <2>1 DEF SubsInv
<1>3. CASE Connect \/ ConnectFails \/ Connected \/ NewNotifier
  <2>1. /\ UNCHANGED <<subs, bin>>
        /\ phase \in {"connect", "notify"}
        /\ phase' \in {"connect", "return", "notify", "auth", "drain", "subscribe"}
        /\ bin = "mcp" /\ phase = "connect" => phase' \notin {"notify", "subscribe"}
    BY <1>3 DEF Connect, ConnectFails, Connected, NewNotifier, confVars
  <2>2. next \in Nat /\ next > 0 /\ next' \in Nat /\ (phase' = "subscribe" => next' > 0)
    <3>1. next \in Nat /\ next > 0
      BY MaxEntriesAssumption DEF TypeInv
    <3>2. next' \in {next, next + 1, 1}
      BY <1>3 DEF Connect, ConnectFails, Connected, NewNotifier
    <3>. QED  BY <3>1, <3>2
  <2>. QED  BY <2>1, <2>2 DEF SubsInv
<1>4. CASE Subscribe
  <2>1. phase = "subscribe" /\ phase' \in {"subscribe", "auth"} /\ bin' = bin /\ bin # "mcp"
    BY <1>4 DEF Subscribe, SubsInv, confVars
  <2>2. CASE phase' = "auth"
    BY <2>1, <2>2 DEF SubsInv
  <2>3. CASE phase' = "subscribe"
    <3>1. next' = next + 1
      BY <1>4, <2>1, <2>3 DEF Subscribe
    <3>2. \A i \in Entry : subs'[i] \in {subs[i], subs[i] + 1}
      BY <1>4, <2>1, <2>3 DEF Subscribe, TypeInv
    <3>3. \A i \in Entry : subs[i] \in Nat /\ next \in Nat /\ subs[i] < next
      BY <2>1, MaxEntriesAssumption DEF TypeInv, SubsInv
    <3>4. \A i \in Entry : subs'[i] < next'
      BY <3>1, <3>2, <3>3
    <3>. QED  BY <2>1, <2>3, <3>4 DEF SubsInv
  <2>. QED  BY <2>1, <2>2, <2>3
<1>5. CASE NewAuth \/ Listen \/ Shutdown
  BY <1>0, <1>5 DEF NewAuth, Listen, Shutdown, SubsInv, confVars, connVars
<1>6. CASE Signal \/ closeSubs
  BY <1>6 DEF Signal, closeSubs, SubsInv, confVars, connVars
<1>7. CASE ShutdownDone \/ ShutdownTimeout
  BY <1>0, <1>7 DEF ShutdownDone, ShutdownTimeout, Unwind, SubsInv, confVars
<1>8. CASE closeNotifier \/ closeManager \/ Exit
  BY <1>8 DEF closeNotifier, closeManager, Exit, SubsInv, confVars
<1>9. ASSUME NEW r \in Request, Serve(r) PROVE SubsInv'
  BY <1>9 DEF Serve, Accept, SubscribeStream, Return, Leave, Becomes, SubsInv, confVars, connVars
<1>10. ASSUME NEW r \in Request, RefresherDies(r) PROVE SubsInv'
  <2>1. phase' = "died" /\ UNCHANGED <<bin, conn, subs>>
    BY <1>10 DEF RefresherDies, confVars, connVars
  <2>2. ASSUME NEW i \in Entry, conn[i] = "closed" PROVE subs[i] = 0
    BY <1>10, <2>2 DEF RefresherDies, ConnInv, SubsInv
  <2>. QED  BY <2>1, <2>2 DEF SubsInv
<1>. QED  BY <1>1, <1>2, <1>3, <1>4, <1>5, <1>6, <1>7, <1>8, <1>9, <1>10 DEF Next, Start, End

\* What a step leaves of the invariant on connections when it leaves them alone.
LEMMA ConnSame ==
  ASSUME ConnInv, conn' = conn, mgr' = mgr, s' = s,
         phase' \in {"return", "exited"} => \A i \in mgr : conn[i] = "closed",
         phase' \notin {"return", "exited", "died"} => phase \notin {"return", "exited", "died"},
         phase' \in {"start", "overlay", "panicked"} => phase' = phase /\ next' = next,
         phase' = "connect" => /\ mgr \subseteq 1 .. next' - 1
                               /\ \A i \in Entry : i >= next' => conn[i] = "none"
  PROVE  ConnInv'
<1>1. \A i \in Entry : Name(i)' = Name(i)
  BY DEF Name, Nats
<1>2. \A i \in mgr : Name(i)' = Name(i)
  BY DEF Name, Nats
<1>3. /\ (\A i \in mgr : conn[i] # "none")'
      /\ (\A i, j \in mgr : Name(i) = Name(j) => i = j)'
      /\ (\A i \in Entry : conn[i] = "open" => i \in mgr \/ \E j \in mgr : i < j /\ Name(i) = Name(j))'
  BY <1>1, <1>2 DEF ConnInv
<1>. QED  BY <1>3 DEF ConnInv

\* Draining closes what the manager holds, and is followed by the return.
LEMMA DrainStep ==
  ASSUME TypeInv, ConnInv, conn' = Drained, mgr' = mgr, s' = s, phase' = "return"
  PROVE  ConnInv'
<1>1. \A i \in Entry : Name(i)' = Name(i)
  BY DEF Name, Nats
<1>2. mgr \subseteq Entry
  BY DEF TypeInv
<1>3. \A i \in Entry : conn'[i] = IF i \in mgr THEN "closed" ELSE conn[i]
  BY DEF Drained
<1>4. /\ (\A i \in mgr : conn[i] # "none")'
      /\ (\A i, j \in mgr : Name(i) = Name(j) => i = j)'
      /\ (\A i \in Entry : conn[i] = "open" => i \in mgr \/ \E j \in mgr : i < j /\ Name(i) = Name(j))'
  BY <1>1, <1>2, <1>3 DEF ConnInv
<1>. QED  BY <1>2, <1>3, <1>4 DEF ConnInv

LEMMA ConnectStep == ASSUME TypeInv, ConnInv, Connect PROVE ConnInv'
<1>1. /\ phase = "connect" /\ phase' = "connect" /\ next' = next + 1 /\ s' = s
      /\ conn' = [conn EXCEPT ![next] = "open"]
      /\ mgr' = {i \in mgr : Name(i) # Name(next)} \cup {next}
  BY DEF Connect, loadVars
<1>2. next \in Entry /\ next \in Nat /\ \A i \in Entry : i \in Nat
  BY MaxEntriesAssumption DEF TypeInv, Connect, Entry, SettingsOK, Nats, List
<1>3. conn'[next] = "open" /\ \A i \in Entry : i # next => conn'[i] = conn[i]
  BY <1>1, <1>2 DEF TypeInv
<1>4. mgr \subseteq Entry /\ \A i \in mgr : i < next
  BY <1>1, <1>2 DEF TypeInv, ConnInv
<1>5. \A i \in Entry : Name(i)' = Name(i)
  BY <1>1 DEF Name, Nats
<1>6. mgr' \subseteq Entry
  BY <1>1, <1>2, <1>4
<1>7. (\A i \in mgr : conn[i] # "none")'
  BY <1>1, <1>3, <1>4 DEF ConnInv
<1>8. (\A i, j \in mgr : Name(i) = Name(j) => i = j)'
  <2>1. \A i, j \in mgr' : Name(i) = Name(j) => i = j
    BY <1>1 DEF ConnInv
  <2>. QED  BY <1>5, <1>6, <2>1
<1>9. ASSUME NEW i \in Entry, conn'[i] = "open"
      PROVE  i \in mgr' \/ \E j \in mgr' : i < j /\ Name(i) = Name(j)
  <2>1. CASE i = next
    BY <1>1, <2>1
  <2>2. CASE i # next /\ i \in mgr
    BY <1>1, <1>4, <2>2
  <2>3. CASE i # next /\ i \notin mgr
    <3>1. conn[i] = "open"
      BY <1>3, <1>9, <2>3
    <3>2. PICK j \in mgr : i < j /\ Name(i) = Name(j)
      BY <2>3, <3>1 DEF ConnInv
    <3>3. CASE Name(j) = Name(next)
      <4>1. i < next
        BY <1>2, <1>4, <3>2
      <4>. QED  BY <1>1, <3>2, <3>3, <4>1
    <3>4. CASE Name(j) # Name(next)
      BY <1>1, <3>2, <3>4
    <3>. QED  BY <3>3, <3>4
  <2>. QED  BY <2>1, <2>2, <2>3
<1>10. (\A i \in Entry : conn[i] = "open" => i \in mgr \/ \E j \in mgr : i < j /\ Name(i) = Name(j))'
  BY <1>5, <1>6, <1>9
<1>11. (mgr \subseteq 1 .. next - 1 /\ \A i \in Entry : i >= next => conn[i] = "none")'
  <2>1. ASSUME NEW i \in mgr' PROVE i \in 1 .. next' - 1
    <3>1. i \in 1..next
      BY <1>1, <1>2, <1>4, MaxEntriesAssumption DEF Entry
    <3>. QED  BY <1>1, <1>2, <3>1
  <2>2. ASSUME NEW i \in Entry, i >= next' PROVE conn'[i] = "none"
    <3>1. i # next /\ i >= next
      BY <1>1, <1>2, <2>2
    <3>. QED  BY <1>1, <1>3, <3>1 DEF ConnInv
  <2>. QED  BY <2>1, <2>2
<1>12. (\A i \in Entry : conn[i] # "closed")'
  BY <1>1, <1>3 DEF ConnInv
<1>. QED  BY <1>1, <1>7, <1>8, <1>10, <1>11, <1>12 DEF ConnInv

LEMMA ConnStep == ASSUME TypeInv, ConnInv, [Next]_vars PROVE ConnInv'
<1>1. CASE UNCHANGED vars
  <2>1. UNCHANGED <<phase, next, conn, mgr, s>>
    BY <1>1 DEF vars, connVars, loadVars
  <2>. QED  BY <2>1, ConnSame DEF ConnInv
<1>2. CASE LoadFile \/ overlayEnv
  <2>1. /\ phase \in {"start", "overlay"}
        /\ phase' \in {"overlay", "exited", "panicked"}
        /\ UNCHANGED <<next, conn, mgr>>
    BY <1>2, overlayEnvPhase DEF LoadFile, overlayEnv, connVars
  <2>2. mgr = {} /\ (\A i \in Entry : conn[i] = "none") /\ next = 1
    BY <2>1 DEF ConnInv
  <2>. QED  BY <2>1, <2>2 DEF ConnInv
<1>3. CASE Validate
  <2>1. phase = "overlay" /\ phase' \in {"connect", "exited"} /\ UNCHANGED <<next, conn, mgr, s>>
    BY <1>3 DEF Validate, connVars, loadVars
  <2>2. mgr = {} /\ (\A i \in Entry : conn[i] = "none") /\ next = 1
    BY <2>1 DEF ConnInv
  <2>. QED  BY <2>1, <2>2, ConnSame
<1>4. CASE Connect
  BY <1>4, ConnectStep
<1>5. CASE ConnectFails \/ closeManager
  BY <1>5, DrainStep DEF ConnectFails, closeManager, loadVars
<1>6. CASE \/ Connected \/ NewNotifier \/ Subscribe \/ NewAuth \/ Shutdown \/ ShutdownDone
           \/ ShutdownTimeout \/ closeNotifier
  <2>1. UNCHANGED <<conn, mgr, s>>
    BY <1>6 DEF Connected, NewNotifier, Subscribe, NewAuth, Shutdown, ShutdownDone,
                ShutdownTimeout, closeNotifier, connVars, loadVars
  <2>2. phase \notin {"return", "exited", "died"}
        /\ phase' \notin {"return", "exited", "died", "start", "overlay", "panicked", "connect"}
    BY <1>6 DEF Connected, NewNotifier, Subscribe, NewAuth, Shutdown, ShutdownDone,
                ShutdownTimeout, closeNotifier, Unwind
  <2>. QED  BY <2>1, <2>2, ConnSame
<1>7. CASE Exit
  <2>1. phase = "return" /\ phase' = "exited" /\ UNCHANGED <<conn, mgr, s>>
    BY <1>7 DEF Exit, connVars, loadVars
  <2>. QED  BY <2>1, ConnSame DEF ConnInv
<1>8. CASE Listen \/ Signal \/ closeSubs \/ \E r \in Request : Serve(r)
  <2>1. UNCHANGED <<phase, next, conn, mgr, s>>
    BY <1>8 DEF Listen, Signal, closeSubs, Serve, Accept, SubscribeStream, Return, Leave,
                Becomes, connVars, loadVars
  <2>. QED  BY <2>1, ConnSame DEF ConnInv
<1>9. ASSUME NEW r \in Request, RefresherDies(r) PROVE ConnInv'
  <2>1. phase' = "died" /\ UNCHANGED <<conn, mgr, s>>
    BY <1>9 DEF RefresherDies, connVars, loadVars
  <2>. QED  BY <2>1, ConnSame
<1>. QED  BY <1>1, <1>2, <1>3, <1>4, <1>5, <1>6, <1>7, <1>8, <1>9 DEF Next, Load, Start, End

-----------------------------------------------------------------------------
(* The layers. *)

\* A variable of a list joins those laid over it, and no other list's.
LEMMA OfListJoin ==
  ASSUME NEW laid, NEW v, NEW l
  PROVE  OfList(laid \cup {v}, l) =
           IF IsPrefix(Prefix[l], v.parts) THEN OfList(laid, l) \cup {v} ELSE OfList(laid, l)
  BY DEF OfList

LEMMA EntriesSame ==
  ASSUME NEW q, NEW inFile, NEW l, NEW laid, NEW more, OfList(more, l) = OfList(laid, l),
         EntriesLaid(q, inFile, laid, l)
  PROVE  EntriesLaid(q, inFile, more, l)
<1>. DEFINE set == OfList(laid, l)
<1>1. OfList(more, l) = set
  OBVIOUS
<1>. HIDE DEF set
<1>2. OfList(laid, l) = set
  BY DEF set
<1>. QED  BY <1>1, <1>2 DEF EntriesLaid

\* A field set in a list, by a variable that sets what no other does.
LEMMA EntriesStep ==
  ASSUME NEW e, Unambiguous(e), NEW laid \in SUBSET e, NEW v \in e \ laid, NEW l \in List,
         NEW q \in Seq(Entries(l)), NEW inFile \in Seq(Entries(l)), NEW g,
         EntriesLaid(q, inFile, laid, l), Reaches(v, l),
         SetIn(g, q, l, EntryOf(v, l), FieldOf(v, l), v.val)
  PROVE  EntriesLaid(g, inFile, laid \cup {v}, l)
<1>. DEFINE i0 == EntryOf(v, l)
            f0 == FieldOf(v, l)
<1>0. Len(q) \in Nat /\ Len(inFile) \in Nat /\ i0 \in Nat \ {0} /\ f0 \in Fields[l]
  BY DEF Reaches
<1>1. OfList(laid \cup {v}, l) = OfList(laid, l) \cup {v}
  BY OfListJoin DEF Reaches
<1>2. Len(g) = (IF i0 > Len(q) THEN i0 ELSE Len(q)) /\ g[i0][f0] = v.val
  BY DEF SetIn
<1>3. Len(g) \in Nat /\ Len(q) <= Len(g) /\ i0 <= Len(g)
  BY <1>0, <1>2
<1>4. ASSUME NEW i \in 1..Len(g), NEW f \in Fields[l], i # i0 \/ f # f0
      PROVE  g[i][f] = IF i <= Len(q) THEN q[i][f] ELSE Blank(l)[f]
  BY <1>4 DEF SetIn
<1>5. ASSUME NEW w \in OfList(laid, l)
      PROVE  Reaches(w, l) /\ EntryOf(w, l) <= Len(g) /\ g[EntryOf(w, l)][FieldOf(w, l)] = w.val
  <2>1. /\ Reaches(w, l) /\ EntryOf(w, l) <= Len(q)
        /\ q[EntryOf(w, l)][FieldOf(w, l)] = w.val
    BY DEF EntriesLaid
  <2>2. EntryOf(w, l) # i0 \/ FieldOf(w, l) # f0
    <3>1. w \in e /\ w # v /\ v \in OfList(e, l) /\ w \in OfList(e, l)
      BY DEF OfList, Reaches
    <3>. QED  BY <3>1 DEF Unambiguous
  <2>3. EntryOf(w, l) \in 1..Len(g) /\ FieldOf(w, l) \in Fields[l]
    BY <1>0, <1>3, <2>1 DEF Reaches
  <2>. QED  BY <1>4, <2>1, <2>2, <2>3
<1>6. Len(g) = Len(inFile) \/ \E w \in OfList(laid, l) \cup {v} : EntryOf(w, l) = Len(g)
  BY <1>2 DEF EntriesLaid
<1>7. Len(inFile) <= Len(g)
  BY <1>0, <1>3 DEF EntriesLaid
<1>8. ASSUME NEW i \in 1..Len(g), NEW f \in Fields[l],
             \A w \in OfList(laid, l) \cup {v} : EntryOf(w, l) # i \/ FieldOf(w, l) # f
      PROVE  g[i][f] = IF i <= Len(inFile) THEN inFile[i][f] ELSE Blank(l)[f]
  <2>1. g[i][f] = IF i <= Len(q) THEN q[i][f] ELSE Blank(l)[f]
    BY <1>4, <1>8
  <2>2. CASE i <= Len(q)
    <3>1. i \in 1..Len(q)
      BY <1>0, <2>2
    <3>. QED  BY <1>8, <2>1, <2>2, <3>1 DEF EntriesLaid
  <2>3. CASE ~(i <= Len(q))
    <3>1. ~(i <= Len(inFile))
      BY <1>0, <1>3, <2>3 DEF EntriesLaid
    <3>. QED  BY <2>1, <2>3, <3>1
  <2>. QED  BY <2>2, <2>3
<1>9. ASSUME NEW w \in OfList(laid, l) \cup {v}
      PROVE  Reaches(w, l) /\ EntryOf(w, l) <= Len(g) /\ g[EntryOf(w, l)][FieldOf(w, l)] = w.val
  BY <1>2, <1>3, <1>5
<1>. QED  BY <1>1, <1>6, <1>7, <1>8, <1>9 DEF EntriesLaid

\* One more variable is laid over, and what the earlier ones have set stays.
LEMMA LayStep ==
  ASSUME NEW e \in Envs, Unambiguous(e), NEW laid \in SUBSET e, NEW v \in e \ laid,
         NEW t, SettingsOK(t), NEW base, SettingsOK(base), Layered(t, base, laid),
         applyEnvPath(t, v).end = "ok"
  PROVE  Layered(applyEnvPath(t, v).s, base, laid \cup {v})
<1>. DEFINE r == applyEnvPath(t, v)
<1>0. Variable(v) /\ v.parts \in Seq(Text)
  BY VariablesOK DEF Variable
<1>1. \A p1, p2 \in Named(v.parts) : p1 = p2
  BY <1>0, OneScalar
<1>2. CASE Passes(t, v, r)
  <2>1. r.s = t /\ Named(v.parts) = {} /\ \A l \in List : ~IsPrefix(Prefix[l], v.parts)
    BY <1>2 DEF Passes, Ok
  <2>2. \A l \in List : OfList(laid \cup {v}, l) = OfList(laid, l)
    BY <2>1, OfListJoin
  <2>3. ScalarsLaid(t, base, laid \cup {v})
    BY <2>1 DEF Layered, ScalarsLaid
  <2>4. \A l \in List : EntriesLaid(t.list[l], base.list[l], laid \cup {v}, l)
    BY <2>2, EntriesSame DEF Layered
  <2>. QED  BY <2>1, <2>3, <2>4 DEF Layered
<1>3. CASE SetsScalar(t, v, r)
  <2>0. PICK p0 \in Named(v.parts) : \E u \in Parsed(p0, v.val) :
          r = Ok([scalar |-> [t.scalar EXCEPT ![p0] = u], list |-> t.list])
    BY <1>3 DEF SetsScalar
  <2>1. PICK u \in Parsed(p0, v.val) :
          r = Ok([scalar |-> [t.scalar EXCEPT ![p0] = u], list |-> t.list])
    BY <2>0
  <2>2. p0 \in Path /\ t.scalar \in [Path -> Text]
    BY DEF Named, SettingsOK
  <2>3. r.s.list = t.list /\ r.s.scalar = [t.scalar EXCEPT ![p0] = u]
    BY <2>1 DEF Ok
  <2>4. r.s.scalar[p0] = u /\ \A p \in Path : p # p0 => r.s.scalar[p] = t.scalar[p]
    BY <2>2, <2>3
  <2>5. \A w \in laid : p0 \notin Named(w.parts)
    BY DEF Unambiguous
  <2>6. ASSUME NEW p \in Path
        PROVE  /\ \A w \in laid \cup {v} :
                    p \in Named(w.parts) => r.s.scalar[p] \in Parsed(p, w.val)
               /\ (\A w \in laid \cup {v} : p \notin Named(w.parts)) =>
                    r.s.scalar[p] = base.scalar[p]
    <3>1. CASE p = p0
      BY <2>4, <2>5, <3>1
    <3>2. CASE p # p0
      <4>1. p \notin Named(v.parts)
        BY <1>1, <3>2
      <4>2. r.s.scalar[p] = t.scalar[p]
        BY <2>4, <3>2
      <4>3. /\ \A w \in laid : p \in Named(w.parts) => t.scalar[p] \in Parsed(p, w.val)
            /\ (\A w \in laid : p \notin Named(w.parts)) => t.scalar[p] = base.scalar[p]
        BY DEF Layered, ScalarsLaid
      <4>. QED  BY <4>1, <4>2, <4>3
    <3>. QED  BY <3>1, <3>2
  <2>7. \A l \in List : OfList(laid \cup {v}, l) = OfList(laid, l)
    BY <1>3, OfListJoin DEF SetsScalar
  <2>8. \A l \in List : EntriesLaid(t.list[l], base.list[l], laid \cup {v}, l)
    BY <2>7, EntriesSame DEF Layered
  <2>. QED  BY <2>3, <2>6, <2>8 DEF Layered, ScalarsLaid
<1>4. CASE SetsField(t, v, r)
  <2>0. PICK l0 \in List : /\ Reaches(v, l0)
                           /\ \E g : /\ SetIn(g, t.list[l0], l0, EntryOf(v, l0), FieldOf(v, l0), v.val)
                                     /\ r = Ok([scalar |-> t.scalar, list |-> [t.list EXCEPT ![l0] = g]])
    BY <1>4 DEF SetsField
  <2>1. PICK g : /\ SetIn(g, t.list[l0], l0, EntryOf(v, l0), FieldOf(v, l0), v.val)
                 /\ r = Ok([scalar |-> t.scalar, list |-> [t.list EXCEPT ![l0] = g]])
    BY <2>0
  <2>2. r.s.scalar = t.scalar /\ r.s.list = [t.list EXCEPT ![l0] = g]
    BY <2>1 DEF Ok
  <2>3. t.list = [m \in List |-> t.list[m]]
    BY DEF SettingsOK
  <2>4. r.s.list[l0] = g /\ \A l \in List : l # l0 => r.s.list[l] = t.list[l]
    BY <2>2, <2>3
  <2>5. Named(v.parts) = {} /\ \A l \in List : IsPrefix(Prefix[l], v.parts) => l = l0
    BY <1>0, <2>0, OneScalar, OneList DEF Reaches
  <2>6. ScalarsLaid(r.s, base, laid \cup {v})
    <3>1. ScalarsLaid(t, base, laid)
      BY DEF Layered
    <3>. QED  BY <2>2, <2>5, <3>1 DEF ScalarsLaid
  <2>7. ASSUME NEW l \in List PROVE EntriesLaid(r.s.list[l], base.list[l], laid \cup {v}, l)
    <3>0. EntriesLaid(t.list[l], base.list[l], laid, l)
      BY DEF Layered
    <3>1. CASE l = l0
      <4>1. t.list[l] \in Seq(Entries(l)) /\ base.list[l] \in Seq(Entries(l))
        BY DEF SettingsOK
      <4>2. EntriesLaid(g, base.list[l], laid \cup {v}, l)
        BY <2>0, <2>1, <3>0, <3>1, <4>1, EntriesStep
      <4>. QED  BY <2>4, <3>1, <4>2
    <3>2. CASE l # l0
      <4>1. OfList(laid \cup {v}, l) = OfList(laid, l)
        BY <2>5, <3>2, OfListJoin
      <4>2. EntriesLaid(t.list[l], base.list[l], laid \cup {v}, l)
        BY <3>0, <4>1, EntriesSame
      <4>. QED  BY <2>4, <3>2, <4>2
    <3>. QED  BY <3>1, <3>2
  <2>. QED  BY <2>6, <2>7 DEF Layered
<1>. QED  BY <1>0, <1>2, <1>3, <1>4, ApplyMeans DEF Error, Panic

\* Before the first variable there is the base.
LEMMA LayNothing == ASSUME NEW base, SettingsOK(base) PROVE Layered(base, base, {})
<1>1. ScalarsLaid(base, base, {})
  BY DEF ScalarsLaid
<1>2. ASSUME NEW l \in List PROVE EntriesLaid(base.list[l], base.list[l], {}, l)
  <2>1. OfList({}, l) = {} /\ Len(base.list[l]) \in Nat
    BY DEF OfList, SettingsOK
  <2>. QED  BY <2>1 DEF EntriesLaid
<1>. QED  BY <1>1, <1>2 DEF Layered

\* The largest of a set of integers, when it is known.
LEMMA MaxMeans ==
  ASSUME NEW S, S \subseteq Int, NEW m \in S, \A x \in S : x <= m
  PROVE  Max(S) = m
<1>1. \A y \in S : m >= y
  OBVIOUS
<1>2. ASSUME NEW x \in S, \A y \in S : x >= y PROVE x = m
  BY <1>2
<1>. QED  BY <1>1, <1>2 DEF Max

\* The only element of a set.
LEMMA PickMeans ==
  ASSUME NEW set, NEW else, NEW x
  PROVE  /\ set = {} => Pick(set, else) = else
         /\ x \in set /\ (\A y \in set : y = x) => Pick(set, else) = x
  BY DEF Pick

\* A list laid over the file's is the merged list.
LEMMA EntriesMerged ==
  ASSUME NEW f \in Files, NEW e \in Envs, Unambiguous(e), NEW l \in List,
         NEW q \in Seq(Entries(l)), EntriesLaid(q, Unmarshal(f).list[l], e, l)
  PROVE  q = MergedList(f, e, l)
<1>. DEFINE given == OfList(e, l)
            inFile == f.list[l]
            base == Unmarshal(f).list[l]
            length == Max({Len(inFile)} \cup {EntryOf(v, l) : v \in given})
            Values(i, x) == {v.val : v \in {w \in given : EntryOf(w, l) = i /\ FieldOf(w, l) = x}}
            Else(i, x) == IF i <= Len(inFile) THEN Filled(inFile[i], l)[x] ELSE Blank(l)[x]
            Merge(i) == [x \in Fields[l] |-> Pick(Values(i, x), Else(i, x))]
<1>1. MergedList(f, e, l) = [i \in 1..length |-> Merge(i)]
  BY DEF MergedList
<1>2. /\ Len(inFile) \in Nat /\ Len(base) = Len(inFile) /\ Len(q) \in Nat
      /\ \A i \in 1..Len(inFile) : base[i] = Filled(inFile[i], l)
  BY UnmarshalMeans
<1>3. \A v \in given : EntryOf(v, l) \in Nat \ {0} /\ EntryOf(v, l) <= Len(q)
  BY DEF EntriesLaid, Reaches
<1>4. length = Len(q)
  <2>. DEFINE S == {Len(inFile)} \cup {EntryOf(v, l) : v \in given}
  <2>1. S \subseteq Int
    BY <1>2, <1>3
  <2>2. Len(q) \in S
    BY <1>2 DEF EntriesLaid
  <2>3. \A x \in S : x <= Len(q)
    BY <1>2, <1>3 DEF EntriesLaid
  <2>. QED  BY <2>1, <2>2, <2>3, MaxMeans
<1>5. ASSUME NEW i \in 1..Len(q), NEW x \in Fields[l] PROVE q[i][x] = Pick(Values(i, x), Else(i, x))
  <2>1. CASE \A v \in given : EntryOf(v, l) # i \/ FieldOf(v, l) # x
    <3>1. Values(i, x) = {}
      BY <2>1
    <3>2. q[i][x] = IF i <= Len(base) THEN base[i][x] ELSE Blank(l)[x]
      BY <2>1 DEF EntriesLaid
    <3>3. q[i][x] = Else(i, x)
      BY <1>2, <3>2
    <3>. QED  BY <3>1, <3>3, PickMeans
  <2>2. ASSUME NEW v \in given, EntryOf(v, l) = i, FieldOf(v, l) = x
        PROVE  q[i][x] = Pick(Values(i, x), Else(i, x))
    <3>1. q[i][x] = v.val
      BY <2>2 DEF EntriesLaid
    <3>2. ASSUME NEW w \in given, EntryOf(w, l) = i, FieldOf(w, l) = x PROVE w = v
      <4>1. v \in e /\ w \in e /\ v \in OfList(e, l) /\ w \in OfList(e, l)
        BY DEF OfList
      <4>. QED  BY <2>2, <3>2, <4>1 DEF Unambiguous
    <3>3. v.val \in Values(i, x) /\ \A y \in Values(i, x) : y = v.val
      BY <2>2, <3>2
    <3>. HIDE DEF Values, Else
    <3>. QED  BY <3>1, <3>3, PickMeans
  <2>. QED  BY <2>1, <2>2
<1>6. \A i \in 1..Len(q) : q[i] \in [Fields[l] -> Text]
  BY DEF Entries
<1>. HIDE DEF Values, Else
<1>7. ASSUME NEW i \in 1..Len(q) PROVE q[i] = Merge(i)
  <2>1. q[i] = [x \in Fields[l] |-> q[i][x]]
    BY <1>6
  <2>. QED  BY <1>5, <2>1
<1>. HIDE DEF Merge, length
<1>8. q = [i \in 1..Len(q) |-> q[i]]
  OBVIOUS
<1>. QED  BY <1>1, <1>4, <1>7, <1>8

\* Settings laid over the file's are the merged settings.
LEMMA LaidMerged ==
  ASSUME NEW f \in Files, NEW e \in Envs, Unambiguous(e), NEW t, SettingsOK(t),
         Layered(t, Unmarshal(f), e)
  PROVE  t = Merged(f, e)
<1>. DEFINE Values(p) == UNION {Parsed(p, u) : u \in FromEnv(e, p)}
            Else(p) == IF p \in DOMAIN f.scalar THEN f.scalar[p] ELSE Default.scalar[p]
<1>1. /\ Merged(f, e).scalar = [p \in Path |-> Pick(Values(p), Else(p))]
      /\ Merged(f, e).list = [l \in List |-> MergedList(f, e, l)]
      /\ Merged(f, e) = [scalar |-> Merged(f, e).scalar, list |-> Merged(f, e).list]
  BY DEF Merged
<1>2. ASSUME NEW p \in Path PROVE t.scalar[p] = Pick(Values(p), Else(p))
  <2>0. /\ \A v \in e : p \in Named(v.parts) => t.scalar[p] \in Parsed(p, v.val)
        /\ (\A v \in e : p \notin Named(v.parts)) => t.scalar[p] = Unmarshal(f).scalar[p]
    BY DEF Layered, ScalarsLaid
  <2>1. CASE \A v \in e : p \notin Named(v.parts)
    <3>1. Values(p) = {}
      BY <2>1 DEF FromEnv
    <3>2. t.scalar[p] = Else(p)
      BY <2>0, <2>1 DEF Unmarshal
    <3>. QED  BY <3>1, <3>2, PickMeans
  <2>2. ASSUME NEW v \in e, p \in Named(v.parts) PROVE t.scalar[p] = Pick(Values(p), Else(p))
    <3>1. t.scalar[p] \in Parsed(p, v.val)
      BY <2>0, <2>2
    <3>2. \A w \in e : p \in Named(w.parts) => w = v
      BY <2>2 DEF Unambiguous
    <3>3. FromEnv(e, p) = {v.val}
      BY <2>2, <3>2 DEF FromEnv
    <3>4. Values(p) = Parsed(p, v.val)
      BY <3>3
    <3>5. v.val \in Text
      BY VariablesOK DEF Variable
    <3>6. \A u \in Parsed(p, v.val) : u = t.scalar[p]
      BY <3>1, <3>5, ParsedMeans
    <3>. HIDE DEF Values, Else
    <3>. QED  BY <3>1, <3>4, <3>6, PickMeans
  <2>. QED  BY <2>1, <2>2
<1>. HIDE DEF Values, Else
<1>3. t.scalar = Merged(f, e).scalar
  <2>1. t.scalar = [p \in Path |-> t.scalar[p]]
    BY DEF SettingsOK
  <2>. QED  BY <1>1, <1>2, <2>1
<1>4. t.list = Merged(f, e).list
  <2>1. t.list = [l \in List |-> t.list[l]]
    BY DEF SettingsOK
  <2>2. ASSUME NEW l \in List PROVE t.list[l] = MergedList(f, e, l)
    <3>1. t.list[l] \in Seq(Entries(l)) /\ EntriesLaid(t.list[l], Unmarshal(f).list[l], e, l)
      BY DEF SettingsOK, Layered
    <3>. QED  BY <3>1, EntriesMerged
  <2>. QED  BY <1>1, <2>1, <2>2
<1>. QED  BY <1>1, <1>3, <1>4 DEF SettingsOK

LEMMA LoadStep == ASSUME TypeInv, LoadInv, [Next]_vars PROVE LoadInv'
<1>1. CASE LoadFile
  <2>1. phase = "start" /\ UNCHANGED <<file, env, todo>> /\ file \in Files
    BY <1>1 DEF LoadFile, confVars, TypeInv
  <2>2. CASE s' = Unmarshal(file) /\ phase' = "overlay"
    <3>1. env' \ todo' = {}
      BY <2>1 DEF LoadInv
    <3>2. Layered(Unmarshal(file), Unmarshal(file), {})
      BY <2>1, UnmarshalMeans, LayNothing
    <3>3. (Layered(s, Unmarshal(file), env \ todo))'
      <4>1. Layered(s', Unmarshal(file), env' \ todo')
        BY <2>2, <3>1, <3>2
      <4>. QED  BY <2>1, <4>1
    <3>. QED  BY <2>2, <3>3 DEF LoadInv, Loaded
  <2>3. CASE phase' = "exited"
    BY <2>3 DEF LoadInv, Loaded
  <2>. QED  BY <1>1, <2>2, <2>3 DEF LoadFile
<1>2. CASE overlayEnv
  <2>1. phase = "overlay" /\ UNCHANGED <<file, env>> /\ file \in Files /\ env \in Envs
    BY <1>2 DEF overlayEnv, confVars, TypeInv
  <2>2. PICK v \in todo :
           /\ Variable(v) /\ v \in env /\ todo' = todo \ {v} /\ s' = applyEnvPath(s, v).s
           /\ \/ applyEnvPath(s, v).end = "ok" /\ phase' = "overlay"
              \/ applyEnvPath(s, v).end = "error" /\ phase' = "exited"
              \/ applyEnvPath(s, v).end = "panic" /\ phase' = "panicked"
    BY <1>2, overlayEnvPhase
  <2>3. SettingsOK(s)
    BY DEF TypeInv
  <2>4. CASE applyEnvPath(s, v).end = "ok" /\ phase' = "overlay"
    <3>1. ASSUME Unambiguous(env) PROVE Layered(s', Unmarshal(file), env \ todo')
      <4>1. Layered(s, Unmarshal(file), env \ todo)
        BY <2>1, <3>1 DEF LoadInv
      <4>2. env \ todo' = (env \ todo) \cup {v} /\ v \in env \ (env \ todo)
        BY <2>2
      <4>3. SettingsOK(Unmarshal(file))
        BY <2>1, UnmarshalMeans
      <4>4. Layered(applyEnvPath(s, v).s, Unmarshal(file), (env \ todo) \cup {v})
        BY <2>1, <2>3, <2>4, <3>1, <4>1, <4>2, <4>3, LayStep
      <4>. QED  BY <2>2, <4>2, <4>4
    <3>2. (Unambiguous(env) => Layered(s, Unmarshal(file), env \ todo))'
      BY <2>1, <3>1
    <3>. QED  BY <2>4, <3>2 DEF LoadInv, Loaded
  <2>5. CASE applyEnvPath(s, v).end = "error" /\ phase' = "exited"
    BY <2>5 DEF LoadInv, Loaded
  <2>6. CASE applyEnvPath(s, v).end = "panic" /\ phase' = "panicked"
    <3>1. Negative(v)
      <4>1. applyEnvPath(s, v).end \notin {"ok", "error"}
        BY <2>6
      <4>. QED  BY <2>2, <2>3, <4>1, ApplyMeans DEF Error, Ok, Passes, SetsScalar, SetsField
    <3>2. (\E w \in env : Negative(w))'
      BY <2>1, <2>2, <3>1
    <3>. QED  BY <2>6, <3>2 DEF LoadInv, Loaded
  <2>. QED  BY <2>2, <2>4, <2>5, <2>6
<1>3. CASE Validate
  <2>1. /\ phase = "overlay" /\ phase' \in {"connect", "exited"} /\ todo = {}
        /\ UNCHANGED <<file, env, s>>
    BY <1>3 DEF Validate, confVars, loadVars
  <2>2. Unambiguous(env) => Layered(s, Unmarshal(file), env)
    <3>1. env \ todo = env
      BY <2>1
    <3>. QED  BY <2>1, <3>1 DEF LoadInv
  <2>3. (Unambiguous(env) => Layered(s, Unmarshal(file), env))'
    BY <2>1, <2>2
  <2>. QED  BY <2>1, <2>3 DEF LoadInv, Loaded
<1>4. CASE ~Load
  <2>1. UNCHANGED <<file, env, s, todo>>
    BY <1>4 DEF Next, vars, Load, Start, Connect, ConnectFails, Connected, NewNotifier,
         Subscribe, NewAuth, Listen, Signal, closeSubs, RefresherDies, CutOff,
         End, Shutdown, ShutdownDone,
         ShutdownTimeout, closeNotifier, closeManager, Exit, Serve, Accept, SubscribeStream,
         Return, Leave, Becomes, confVars, loadVars
  <2>2. \/ phase' = phase
        \/ phase' \notin {"start", "overlay", "panicked"} /\ (Loaded' => Loaded)
    BY <1>4 DEF Next, vars, Load, Start, Connect, ConnectFails, Connected, NewNotifier,
         Subscribe, NewAuth, Listen, Signal, closeSubs, RefresherDies, CutOff,
         End, Shutdown, ShutdownDone, Unwind,
         ShutdownTimeout, closeNotifier, closeManager, Exit, Serve, Accept, SubscribeStream,
         Return, Leave, Becomes, Loaded
  <2>3. (Unambiguous(env) => Layered(s, Unmarshal(file), env))'
          <=> (Unambiguous(env) => Layered(s, Unmarshal(file), env))
    BY <2>1
  <2>4. (Unambiguous(env) => Layered(s, Unmarshal(file), env \ todo))'
          <=> (Unambiguous(env) => Layered(s, Unmarshal(file), env \ todo))
    BY <2>1
  <2>5. (todo = env)' <=> todo = env
    BY <2>1
  <2>6. (\E v \in env : Negative(v))' <=> \E v \in env : Negative(v)
    BY <2>1
  <2>. QED  BY <2>2, <2>3, <2>4, <2>5, <2>6 DEF LoadInv, Loaded
<1>. QED  BY <1>1, <1>2, <1>3, <1>4 DEF Load

-----------------------------------------------------------------------------
(* Theorems. *)

LEMMA InvInit == Init => IInv
<1>. SUFFICES ASSUME Init PROVE IInv
  OBVIOUS
<1>1. TypeInv
  BY TypeInit
<1>2. StartInv /\ EndInv /\ SubsInv
  BY DEF Init, StartInv, EndInv, SubsInv
<1>3. GateInv
  BY DEF Init, GateInv, Serving
<1>4. ConnInv
  BY DEF Init, ConnInv
<1>5. LoadInv
  BY DEF Init, LoadInv, Loaded
<1>. QED  BY <1>1, <1>2, <1>3, <1>4, <1>5 DEF IInv

\* The invariant holds in every state the two programs reach.
THEOREM Invariance == Spec => []IInv
<1>1. IInv /\ [Next]_vars => IInv'
  BY TypeStep, StartStep, GateStep, ConnStep, EndStep, SubsStep, LoadStep DEF IInv
<1>. QED  BY <1>1, InvInit, PTL DEF Spec

\* The values the state ranges over; the manager holds what was connected, one a name
\* (natsx.Manager.clusters).
THEOREM TypeCorrect == Spec => []TypeOK
<1>1. ASSUME IInv PROVE TypeOK
  <2>1. DOMAIN s.scalar = Path
    BY <1>1 DEF IInv, TypeInv, SettingsOK
  <2>2. \A l \in List : \A e \in Range(s.list[l]) : DOMAIN e = Fields[l]
    <3>1. ASSUME NEW l \in List, NEW e \in Range(s.list[l]) PROVE DOMAIN e = Fields[l]
      <4>1. s.list[l] \in Seq(Entries(l))
        BY <1>1 DEF IInv, TypeInv, SettingsOK
      <4>2. e \in Entries(l)
        BY <4>1 DEF Range
      <4>. QED  BY <4>2 DEF Entries
    <3>. QED  BY <3>1
  <2>3. \A i, j \in mgr : conn[i] # "none" /\ (Name(i) = Name(j) => i = j)
    BY <1>1 DEF IInv, ConnInv
  <2>. QED  BY <1>1, <2>1, <2>2, <2>3 DEF IInv, TypeInv, TypeOK
<1>. QED  BY <1>1, Invariance, PTL

\* Whatever the order of the environment, what config.Load returns has every setting from
\* the last layer that gives it, and only an index below zero makes it panic.
THEOREM LoadMerges == Spec => []LoadIsMerge
<1>1. ASSUME IInv PROVE LoadIsMerge
  <2>1. ASSUME Loaded, Unambiguous(env) PROVE s = Merged(file, env)
    <3>1. file \in Files /\ env \in Envs /\ SettingsOK(s)
      BY <1>1 DEF IInv, TypeInv
    <3>2. Layered(s, Unmarshal(file), env)
      BY <1>1, <2>1 DEF IInv, LoadInv
    <3>. QED  BY <2>1, <3>1, <3>2, LaidMerged
  <2>2. phase = "panicked" => \E v \in env : Negative(v)
    BY <1>1 DEF IInv, LoadInv
  <2>. QED  BY <2>1, <2>2 DEF LoadIsMerge
<1>. QED  BY <1>1, Invariance, PTL

\* A server that has taken a request has every gate its settings ask for: validate, run and
\* MCPMiddleware agree.
THEOREM Gates == Spec => []GatesUp
<1>1. ASSUME IInv PROVE GatesUp
  <2>. SUFFICES ASSUME NEW r \in Request, req[r] # "idle"
                PROVE  /\ \A p \in {<<"enabled">>, <<"mcp_oauth", "enabled">>, <<"mcp_jwt", "enabled">>} :
                            On(s, p) => authn
                       /\ authn => \E f \in Allowed : Given(s, <<"access", f>>)
                       /\ authn /\ ModeOrDefault(s) # "jwt" =>
                            s.scalar[A(<<"session", "secret">>)] \in Long
                       /\ \A e \in Range(s.list["mcp_keys"]) : e["value"] # ""
    BY DEF GatesUp
  <2>1. validate(s) /\ (authn <=> On(s, <<"enabled">>))
    BY <1>1 DEF IInv, GateInv, Serving
  <2>2. ~authn => ~On(s, <<"mcp_oauth", "enabled">>) /\ ~On(s, <<"mcp_jwt", "enabled">>)
    BY <2>1 DEF validate
  <2>3. authn => validateAuth(s)
    BY <2>1 DEF validate
  <2>4. authn /\ ModeOrDefault(s) # "jwt" => validateAuthOIDC(s)
    BY <2>3 DEF validateAuth
  <2>5. \A e \in Range(s.list["mcp_keys"]) : e["value"] # ""
    BY <2>1 DEF validate
  <2>. QED  BY <2>1, <2>2, <2>3, <2>4, <2>5 DEF validateAuth, validateAuthOIDC
<1>. QED  BY <1>1, Invariance, PTL

\* However run() ends, it has drained every connection but those whose name a later entry
\* took (NewManager, Manager.Close and the deferred call of run); the death of the process in
\* a refresher's panic is left out.
THEOREM Connections == Spec => []ConnectionsGivenBack
<1>1. ASSUME IInv PROVE ConnectionsGivenBack
  <2>1. ASSUME phase \in {"exited", "panicked"}, NEW i \in Entry, conn[i] = "open"
        PROVE  \E j \in mgr : i < j /\ Name(i) = Name(j)
    <3>1. i \notin mgr
      BY <1>1, <2>1 DEF IInv, ConnInv
    <3>. QED  BY <1>1, <2>1, <3>1 DEF IInv, ConnInv
  <2>. QED  BY <2>1 DEF ConnectionsGivenBack
<1>. QED  BY <1>1, Invariance, PTL

\* Requests keep their connection, and are not cut off, unless Shutdown gave up waiting or
\* the process died; the notifier lets go of a connection before it is drained (the order of
\* the deferred calls).
THEOREM NotAfterClose == Spec => []NothingUsedAfterClose
<1>1. ASSUME IInv PROVE NothingUsedAfterClose
  <2>1. ASSUME NEW i \in Entry, conn[i] = "closed" PROVE phase \in {"return", "exited", "died"}
    BY <1>1, <2>1 DEF IInv, ConnInv
  <2>2. ASSUME NEW r \in Request, req[r] \in Running, NEW i \in Entry, conn[i] = "closed"
        PROVE  timedOut
    BY <1>1, <2>1, <2>2 DEF IInv, EndInv
  <2>3. \A r \in Request : req[r] = "cut" => timedOut \/ phase = "died"
    BY <1>1 DEF IInv, EndInv
  <2>4. \A i \in Entry : conn[i] = "closed" => subs[i] = 0
    BY <1>1, <2>1 DEF IInv, SubsInv
  <2>. QED  BY <2>2, <2>3, <2>4 DEF NothingUsedAfterClose
<1>. QED  BY <1>1, Invariance, PTL

=============================================================================
