---------------------------- MODULE MCDetection ----------------------------
(* Families of small deployments, one for each part of the pipeline. *)
EXTENDS Detection

Fields == {"event.category", "process.name", "event.outcome", "event.action", "source.ip",
           "user.name", "process.executable", "Image", "OriginalFileName", "threat.matched", "source.geo.country_iso_code",
           "source.asset.trusted", "source.asset.name", "user.role"}
Blank == [f \in Fields |-> None]
Ev(get, time) == [get |-> get @@ Blank, time |-> time, clock |-> "naive"]
Aware(event) == [event EXCEPT !.clock = "aware"]
SeqsOf(S, lengths) == UNION {[1..n -> S] : n \in lengths}

MCGlobs == "a*" :> {"a1", "a2", "a*"}
MCModifiers == {None, "contains", "startswith"}
Plain == {"x", "y", "xy", "alice", "True", "False", "DE", "success", "auth", "web", "sshd"}
MCMatching == {<<v, None, v>> : v \in Plain} \union
              {<<v, m, w>> : v \in {"x", "xy"}, m \in {"contains", "startswith"}, w \in {"x"}} \union
              {<<"xy", "contains", "y">>, <<"y", "contains", "y">>}
MCPrefixed == {<<"sshd[1]", "sshd">>}
MCFieldMap == "Image" :> "process.executable" @@ "OriginalFileName" :> "process.executable"
MCCategoryMap == "process_creation" :> "auth"
MCScores == "low" :> 1 @@ "medium" :> 2 @@ "high" :> 4 @@ "critical" :> 6
MCRiskObjects == {"source.ip", "user.name"}
MCAddresses == {"lan", "de", "fr"}
MCPrivate == {"lan"}

NoContext == [enabled |-> FALSE, malformed |-> FALSE, blocklist |-> None, geoip |-> None,
              assets |-> None, roles |-> <<>>]
Geos == [NoContext EXCEPT !.enabled = TRUE,
           !.geoip = <<[net |-> {"de", "fr", "lan"}, prefix |-> 8, country |-> "DE"],
                       [net |-> {"fr"}, prefix |-> 16, country |-> "FR"]>>]

Entry(field, modifier, values) == [field |-> field, modifier |-> modifier, values |-> values]
Spec1(entries) == [shape |-> "maps", maps |-> <<entries>>]
Is(field, v) == Spec1(<<Entry(field, None, {v})>>)
Search(toks) == [search |-> toks, pipe |-> "none", by |-> None, op |-> ">=", n |-> 0, written |-> "text", falsy |-> toks = <<>>]
Count(by, op, n) == [Search(<<"a1">>) EXCEPT !.pipe = "count", !.by = by, !.op = op, !.n = n]
Rule(id, condition, selections) ==
  [kind |-> "rule", id |-> id, stem |-> 9, titled |-> TRUE, condition |-> condition, selections |-> selections,
   logsource |-> [k \in {} |-> None], timeframe |-> None, level |-> "high", risk |-> None, tags |-> {"T1110"}]
Action(id, v) == Rule(id, Search(<<"a1">>), "a1" :> Is("event.action", v))
Corr(id, type, refs, generate) ==
  [kind |-> "correlation", id |-> id, titled |-> TRUE, type |-> type, rules |-> refs, by |-> <<"user.name">>,
   timespan |-> 2, generate |-> generate, generates |-> {1}, level |-> "critical", tags |-> {}]

Case(label, expects, evs) == [label |-> label, expects |-> expects, events |-> evs, lines |-> Len(evs)]
Deploy(files, sigmaFiles, context, risk, cases) ==
  [files |-> files, sigma |-> sigmaFiles, context |-> context, risk |-> risk, cases |-> cases,
   scored |-> risk = None]
Once(files, evs) == Deploy(files, <<>>, NoContext, None, <<Case("attack", {1}, evs)>>)

-----------------------------------------------------------------------------
(* Conditions: every short one, and longer ones with every operator. *)
Operands == {"a1", "b"}
Ops == {"and", "or"}
Tokens == {"a1", "b", "and", "or", "not", "(", ")", "1", "all", "of", "them", "a*"}
Short == SeqsOf(Tokens, {1, 2, 3})
Quantifiers == {<<q, "of", p>> : q \in {"1", "all"}, p \in {"them", "a*", "b", "c"}}
Middle == {<<n>> \o q : n \in {"not", "a1"}, q \in Quantifiers} \union
          {q \o <<o, "b">> : q \in Quantifiers, o \in Ops} \union
          SeqsOf({"a1", "b", "and", "or", "not"}, {4}) \union
          {<<x, o, y, p, z>> : x \in Operands, o \in Ops, y \in {"a1", "a2"}, p \in Ops \union {"not"}, z \in Operands}
Long == {<<x, o, "(", y, p, z, ")">> : x \in Operands, o \in Ops, y \in {"a2"}, p \in Ops, z \in Operands} \union
        {<<"not", "(", x, o, "a2", ")", p, z>> : x \in Operands, o \in Ops, p \in Ops, z \in Operands} \union
        {<<"a1", o, "a2", p, "b", q, "not", "a1">> : o \in Ops, p \in Ops, q \in Ops}
\* One event for every outcome of the three selections.
Outcomes == <<Ev("event.action" :> "x" @@ "user.name" :> "x" @@ "source.ip" :> "x", 1),
  Ev("event.action" :> "x" @@ "user.name" :> "x", 1), Ev("event.action" :> "x" @@ "source.ip" :> "x", 1),
  Ev("user.name" :> "x" @@ "source.ip" :> "x", 1), Ev("event.action" :> "x", 1), Ev("user.name" :> "x", 1),
  Ev("source.ip" :> "x", 1), Ev(<<>>, 1)>>
Three == "a1" :> Is("event.action", "x") @@ "a2" :> Is("user.name", "x") @@ "b" :> Is("source.ip", "x")
Conditions1 == {Once(<<Rule(1, Search(toks), Three)>>, Outcomes) : toks \in Short \union Middle \union Long}

(* Selections, modifiers and logsource. *)
Entries == {Entry("event.action", m, vs) : m \in {None, "contains", "base64"}, vs \in {{"x"}, {"x", "y"}}} \union
           {Entry("user.name", None, {"alice"})}
Specs == {Spec1(es) : es \in SeqsOf(Entries, {0, 1, 2})} \union
         {[shape |-> "maps", maps |-> <<<<e>>, <<f>>>>] : e, f \in Entries} \union
         {[shape |-> "keywords", maps |-> <<>>]}
Actions == <<Ev("event.action" :> "x" @@ "event.category" :> "auth", 1), Ev("event.action" :> "xy", 1),
             Ev("event.action" :> "y" @@ "user.name" :> "alice" @@ "event.category" :> "web", 1),
             Ev("user.name" :> "alice" @@ "process.name" :> "sshd[1]" @@ "event.category" :> "auth", 1), Ev(<<>>, 1)>>
Logsources == {[k \in {} |-> None]} \union [{"category"} -> {None, "auth", "dns"}]
              \union [{"service"} -> {None, "sshd"}] \union [{"category", "service"} -> {"dns", "auth", "sshd"}]
Selections ==
  {Once(<<Rule(1, Search(toks), "a1" :> s)>>, Actions) : s \in Specs, toks \in {<<"a1">>, <<"not", "a1">>}} \union
  {Once(<<[Rule(1, Search(toks), "a1" :> s) EXCEPT !.logsource = ls]>>, Actions)
     : s \in {Is("event.action", "x"), [shape |-> "keywords", maps |-> <<>>]}, toks \in {<<"a1">>, <<"not", "a1">>},
       ls \in Logsources}

(* Thresholds by group. *)
Failures == {Ev("event.action" :> "x" @@ "user.name" :> u, t) : u \in {"alice", "x", None}, t \in {1, 2, 4, None}}
Thresholds ==
  {Once(<<[Rule(1, cond, "a1" :> Is("event.action", "x")) EXCEPT !.timeframe = w]>>, evs)
     : cond \in {Count("user.name", ">=", 2), Count(None, ">=", 2)}, w \in {None, 1}, evs \in [1..2 -> Failures]} \union
  {Once(<<Rule(1, Count("user.name", ">=", 2), "a1" :> Is("event.action", "x"))>>, evs)
     : evs \in [1..3 -> {e \in Failures : e.get["user.name"] # None}]} \union
  {Once(<<[Rule(1, Count("user.name", o, 2), "a1" :> Is("event.action", "x")) EXCEPT !.timeframe = w]>>, evs)
     : o \in {"==", ">", "<", "<="}, w \in {1, Bad},
       evs \in {<<Ev("event.action" :> "x", 1), Aware(Ev("event.action" :> "x", 2)), Ev("event.action" :> "x", 2)>>,
                <<Ev("event.action" :> "x", 1), Ev("event.action" :> "x", 2), Ev("event.action" :> "x", 3)>>}}

(* Loading and importing. *)
Upstream(id) == [Action(id, "x") EXCEPT !.logsource = [category |-> "process_creation"],
                   !.selections = "a1" :> Spec1(<<Entry("Image", None, {"x"}), Entry("user.name", None, {"alice"})>>)]
Odd(r) == {[r EXCEPT !.titled = FALSE], [r EXCEPT !.id = None], [r EXCEPT !.kind = "other"],
           [r EXCEPT !.condition = None], [r EXCEPT !.condition = Search(<<"a1", "or">>)],
           [r EXCEPT !.condition = Search(<<"1", "of">>)], [r EXCEPT !.condition.pipe = "bad"],
           [r EXCEPT !.selections = <<>>], [r EXCEPT !.logsource = [category |-> "registry"]],
           [r EXCEPT !.logsource = [category |-> "registry", service |-> "sshd"]],
           [r EXCEPT !.logsource = [category |-> None]], [r EXCEPT !.logsource = [service |-> None]],
           [r EXCEPT !.condition.written = "list"], [r EXCEPT !.condition = [Search(<<"1">>) EXCEPT !.written = "other"]],
           [r EXCEPT !.condition = [Search(<<"None">>) EXCEPT !.written = "other", !.falsy = TRUE]],
           [r EXCEPT !.condition = Search(<<>>)],
           [r EXCEPT !.selections = "a1" :> Spec1(<<Entry("Image", "", {"x"}), Entry("user.name", None, {"alice"})>>)],
           [r EXCEPT !.selections = "a1" :> [shape |-> "keywords", maps |-> <<>>]],
           [r EXCEPT !.selections = "a1" :> Spec1(<<Entry("user.name", "base64", {"x"})>>)],
           [r EXCEPT !.selections = "a1" :> Is("user.name", None)],
           [r EXCEPT !.selections = "a1" :> Spec1(<<Entry("Image", None, {"x"}), Entry("OriginalFileName", None, {"y"})>>)],
           [r EXCEPT !.condition = Count("user.name", ">=", 2), !.timeframe = Bad], r}
Processes == <<Ev("process.executable" :> "x" @@ "user.name" :> "alice" @@ "event.category" :> "auth", 1),
               Ev("process.executable" :> "y" @@ "event.action" :> "x" @@ "process.name" :> "sshd[1]", 2),
               Ev("user.name" :> "alice" @@ "process.executable" :> "x", 2)>>
Imports ==
  {Deploy(files, <<f, g>>, NoContext, None, <<Case("attack", {1}, Processes), Case(l, {}, Processes)>>)
     : files \in {<<Action(1, "x")>>, <<Action(2, "x"), Action(2, "y")>>},
       f \in UNION {Odd(Upstream(i)) : i \in {1, 2}}, g \in {Upstream(1), Upstream(3)}, l \in {"attack", "benign"}}
Loads ==
  {Once(<<f, Action(2, "x")>>, Processes) : f \in Odd(Action(1, "x"))} \union
  {Once(<<[Corr(5, t, refs, "none") EXCEPT !.timespan = w], Action(2, "x"), Action(1, "x")>>, Actions)
     : t \in {"temporal", "value_count"}, refs \in {<<1>>, <<1, 2>>, <<1, 5>>, <<2, 3>>}, w \in {None, Bad, 1}} \union
  {Deploy(<<Action(1, "x")>>, <<>>, [Geos EXCEPT !.malformed = TRUE], None, <<Case("attack", {}, Actions)>>),
   Deploy(<<Action(1, "x")>>, <<>>, NoContext, None, <<>>)} \union
  {Deploy(<<Action(1, "x")>>, <<>>, NoContext, None, <<[Case(l, ids, evs) EXCEPT !.lines = @ + more]>>)
     : l \in {"attack", "benign", "odd"}, ids \in {{}, {1}, {7}}, evs \in {<<>>, Actions}, more \in {0, 1}} \union
  {[Deploy(<<Action(1, "x")>>, <<>>, NoContext, r, <<Case("attack", {}, Actions), Case("attack", {}, <<Ev(<<>>, 1)>>)>>)
      EXCEPT !.scored = s] : r \in {None, [threshold |-> 3, window |-> 2]}, s \in BOOLEAN}

(* Correlation of two rules by user, and what it silences. *)
Steps == {Ev("event.action" :> v @@ "user.name" :> u, t) : v \in {"x", "y"}, u \in {"alice", "x"}, t \in {1, 3, 4}}
Chains ==
  {Deploy(<<Action(1, "x"), Action(2, "y"), Corr(5, t, <<1, 2>>, "none")>>, <<>>, NoContext, None,
     <<Case("attack", {5}, evs)>>) : t \in {"temporal", "temporal_ordered"}, evs \in [1..2 -> Steps]} \union
  {Deploy(<<Action(1, "x"), Action(2, "y"), Corr(5, "temporal", <<1, 2>>, g)>>, <<>>, NoContext, None,
     <<Case("attack", ids, evs)>>) : g \in {"all", "none", "listed"}, ids \in {{1}, {2}, {5}, {1, 5}},
       evs \in {e \in [1..2 -> Steps] : e[1].time = 1 /\ e[1].get["user.name"] = "x"}} \union
  {Deploy(<<Action(1, "x"), Action(2, "y"), Corr(5, t, <<1, 2>>, "none")>>, <<>>, NoContext, None,
     <<Case("attack", {5}, <<Ev("event.action" :> "x" @@ "user.name" :> "x", 1),
                            Aware(Ev("event.action" :> "y" @@ "user.name" :> u, 2)), Ev("event.action" :> "y", 3)>>)>>)
     : t \in {"temporal", "temporal_ordered"}, u \in {"alice", "x"}}

(* Risk: rules of several weights, one of them by source address. *)
Weighed(score) ==
  <<[Action(1, "x") EXCEPT !.level = "medium", !.risk = score],
    [Rule(2, Count("source.ip", ">=", 2), "a1" :> Is("event.action", "y")) EXCEPT !.level = "unknown"],
    [Action(3, "y") EXCEPT !.level = "low"]>>
Signals == {Ev("event.action" :> v @@ "source.ip" :> "de" @@ "user.name" :> u, t)
              : v \in {"x", "y"}, u \in {"alice", "x"}, t \in {11, 13, 14}}
Risks ==
  {Deploy(Weighed(s), <<>>, NoContext, [threshold |-> th, window |-> 2], <<Case("attack", {1}, evs)>>)
     : s \in {None, 3}, th \in {3}, evs \in [1..3 -> {e \in Signals : e.get["user.name"] = "x"}]} \union
  {Deploy(Weighed(s), <<>>, NoContext, [threshold |-> 2, window |-> 2], <<Case("attack", {1}, evs)>>)
     : s \in {None, 0, 3}, evs \in [1..2 -> Signals \union {Aware(e) : e \in {f \in Signals : f.time = 13}}
                         \union {[e EXCEPT !.time = None] : e \in Signals}]}

(* A replay of an auth.log and an access.log: one event of each. *)
Replays ==
  {Deploy(Weighed(None), <<>>, NoContext, [threshold |-> th, window |-> 2],
     <<Case("attack", {}, <<Ev("event.action" :> "x" @@ "user.name" :> "x", 13),
                            Aware(Ev("event.action" :> "x" @@ "user.name" :> u, 13))>>)>>)
     : th \in {3, 9}, u \in {"x", "alice"}}

(* Batches that one after the other reach the store. *)
Batches ==
  {Deploy(Weighed(None), <<>>, NoContext, [threshold |-> 3, window |-> 2], [k \in 1..n |-> Case("attack", {}, evs[k])])
     : n \in {2, 3}, evs \in [1..3 -> {<<Ev("event.action" :> v @@ "user.name" :> "x", t)>> : v \in {"x", "y"}, t \in {11, 14}}
         \union {<<Ev("event.action" :> "x" @@ "user.name" :> "x", 13), Ev("event.action" :> "x" @@ "user.name" :> u, 13)>>
                   : u \in {"x", "alice"}}]} \union
  {Deploy(<<Action(80, "x"), [Action(1, "x") EXCEPT !.level = "critical"]>>, <<>>, NoContext, [threshold |-> 3, window |-> 2],
     <<Case("attack", {}, <<Ev("event.action" :> "x" @@ "user.name" :> "x", t)>>),
       Case("attack", {}, <<Ev("event.action" :> "x" @@ "user.name" :> "x", 12)>>)>>) : t \in {11, None}}

(* Travel, and the tables that say where an address is. *)
LoginsAt(users, ips, times) ==
  {Ev("event.outcome" :> "success" @@ "user.name" :> u @@ "source.ip" :> i, t) : u \in users, i \in ips, t \in times}
Travels ==
  {Deploy(<<Action(1, "x")>>, <<>>, Geos, None, <<Case("attack", {70}, evs)>>)
     : evs \in [1..3 -> LoginsAt({"alice"}, {"de", "fr", "lan"}, {1, 3, 4})] \union
               [1..2 -> LoginsAt({"alice", "x"}, {"de", "fr"}, {1, 3, None})] \union
               {<<Ev("event.outcome" :> "success" @@ "user.name" :> "x" @@ "source.ip" :> "de", 1),
                  Aware(Ev("event.outcome" :> "success" @@ "user.name" :> u @@ "source.ip" :> "fr", 2))>> : u \in {"alice", "x"}}}
Stamps ==
  {Deploy(<<Rule(1, Search(<<"1", "of", "them">>), "a1" :> Is("source.asset.trusted", "False") @@ "b" :> Is("threat.matched", "True"))>>,
     <<>>, [Geos EXCEPT !.assets = a, !.blocklist = b, !.geoip = g, !.roles = "alice" :> "admin"], [threshold |-> 4, window |-> 2],
     <<Case(l, {}, <<Ev("source.ip" :> "lan" @@ "user.name" :> "alice", 11), Ev("source.ip" :> "de", 12), Ev(<<>>, 13),
       Ev("source.ip" :> "host", 14)>>)>>)
     : a \in {None, <<[net |-> Bad]>>, <<[net |-> {"lan"}, prefix |-> 8, hostname |-> "srv", trusted |-> "True"]>>},
       b \in {None, <<[net |-> Bad], [net |-> {"de"}]>>}, g \in {None, Geos.geoip}, l \in {"attack", "benign"}}

(* Ids that two files share, or a file and a detector; a log that names a country,
   a table that lists a network twice, thresholds that everything reaches. *)
Shared ==
  {Deploy(<<Action(1, "x"), Action(i, "y"), Corr(i, "temporal", <<1, i>>, g)>>, <<>>, NoContext, None,
     <<Case("attack", ids, evs)>>) : i \in {5, 70, 80}, g \in {"none", "listed"}, ids \in {{1}, {5}, {70}},
       evs \in {e \in [1..2 -> Steps] : e[1].time = 1 /\ e[1].get["user.name"] = "x"}} \union
  {Deploy(<<Action(i, "x")>>, <<>>, NoContext, [threshold |-> th, window |-> 2],
     <<Case("attack", {}, <<Ev("event.action" :> "x" @@ "user.name" :> "alice", t)>>)>>)
     : i \in {1, 70, 80}, th \in {-1, 0, 1}, t \in {1, None}}
Twice ==
  {Deploy(<<Action(1, "x")>>, <<>>,
     [NoContext EXCEPT !.enabled = on,
        !.geoip = <<[net |-> {"de", "fr"}, prefix |-> 8, country |-> c], [net |-> {"fr"}, prefix |-> 8, country |-> "FR"]>>],
     None, <<Case("attack", {}, <<Ev(said @@ "event.outcome" :> "success" @@ "user.name" :> "x" @@ "source.ip" :> i, 1),
       Ev("event.outcome" :> "success" @@ "user.name" :> "x" @@ "source.ip" :> j, 2)>>)>>)
     : on \in BOOLEAN, c \in {"DE", ""}, said \in {<<>>, "source.geo.country_iso_code" :> "DE"},
       i \in {"lan", "fr", "de"}, j \in {"fr", "lan"}}

MCInputs == Conditions1 \union Selections \union Thresholds \union Imports \union Loads \union Chains
            \union Risks \union Replays \union Batches \union Travels \union Stamps \union Shared \union Twice
=============================================================================
