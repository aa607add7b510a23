---- MODULE MCDeployment ----
(***************************************************************************)
(* Instances of Deployment for TLC.  The sources of one setting are varied *)
(* at a time, and the two keys and the addresses of agent and server       *)
(* together.  Clients send up to two metrics with every duplicate, nil and *)
(* unknown type there can be, or three counters; integers have three bits. *)
(***************************************************************************)
EXTENDS Deployment

NotGiven == [flag |-> None, env |-> None, json |-> None]
FromFile == [flag |-> None, env |-> "config.json", json |-> None]

Plain(defaults) == [x \in (DOMAIN defaults) \cup {"config"} |-> IF x = "config" THEN FromFile ELSE NotGiven]

\* All ways to give setting x one of the values.
Vary(defaults, x, flags, envs, jsons) ==
  {[Plain(defaults) EXCEPT ![x] = [flag |-> f, env |-> e, json |-> j]] :
     f \in flags \cup {None}, e \in envs \cup {None}, j \in jsons \cup {None}}

Files(defaults, x, value) ==
  {[Plain(defaults) EXCEPT !.config = [flag |-> f, env |-> e, json |-> None], ![x].json = value] :
     f \in {None, "config.json", "unreadable"}, e \in {None, "config.json", "unreadable"}}

Keys(defaults) == Vary(defaults, "key", {"k1", "k2"}, {"k1", "k2"}, {})
Crypto(defaults) == Vary(defaults, "crypto", {"pairA"}, {"pairB", "missing"}, {"pairA"})
Addresses(defaults) ==
  Vary(defaults, "address", {"localhost:8080", "host:1"}, {"host:1"}, {"host:2"})

AgentOnly ==
  Vary(AgentDefaults, "poll", {"2s", "5s", "0s"}, {"5s", "500ms", "soon"}, {"5s", "0s"})
    \cup Vary(AgentDefaults, "rate", {"1", "3", "0"}, {"2", "0", "many"}, {})
    \cup Files(AgentDefaults, "poll", "5s")

ServerOnly ==
  Vary(ServerDefaults, "interval", {"300s", "5s", "0s"}, {"5s", "0s"}, {"500ms", "10s"})
    \cup Vary(ServerDefaults, "restore", {"false"}, {"true", "0", "maybe"}, {"false"})
    \cup Vary(ServerDefaults, "dsn", {"postgres"}, {"postgres"}, {"postgres"})
    \cup Files(ServerDefaults, "dsn", "postgres")

\* Servers of every storage and key, to which others post.
Posted == {[s EXCEPT !.key.flag = k] : k \in {None, "k1"},
             s \in Vary(ServerDefaults, "dsn", {"postgres"}, {}, {})}

AllDeployments ==
  [agent : AgentOnly, server : {Plain(ServerDefaults)}, clients : {FALSE}]
    \cup [agent : {Plain(AgentDefaults)}, server : ServerOnly, clients : {FALSE}]
    \cup [agent : Keys(AgentDefaults), server : Keys(ServerDefaults), clients : {FALSE}]
    \cup [agent : Crypto(AgentDefaults), server : Crypto(ServerDefaults), clients : {FALSE}]
    \cup [agent : Addresses(AgentDefaults), server : Addresses(ServerDefaults), clients : {FALSE}]
    \cup [agent : {Plain(AgentDefaults)}, server : Posted, clients : {TRUE}]

Unsigned(id, type, amount) == [id |-> id, type |-> type, amount |-> amount, hash |-> <<>>]

Counters == {Unsigned("PollCount", "counter", a) : a \in {Nil, <<1>>, <<3>>}}
SomeMetrics ==
  Counters \cup {Unsigned("PollCount", "gauge", <<2>>), Unsigned("Alloc", "unknown", <<1>>)}

Batches == UNION {[1..n -> SomeMetrics] : n \in 0..2} \cup [1..3 -> Counters]
SomeKeys == {None, "k1"}
====
