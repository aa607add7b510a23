---- MODULE Deployment ----
(***************************************************************************)
(* An agent, a server and other clients, from their settings to the store: *)
(* each program starts with the configuration its sources give, batches    *)
(* are signed, compressed and encrypted by the one (MetricsSender), and    *)
(* decrypted, decompressed, verified, merged and applied by the other      *)
(* (DecryptMiddleware, GzipMiddleware, UpdatesHandler, UpdateBatch of the  *)
(* storage the settings choose).                                           *)
(*                                                                         *)
(* One batch is under way at a time: what overlapping requests and lost    *)
(* answers do is the subject of MetricsServer, DatabaseStorage and         *)
(* BatchDelivery.                                                          *)
(***************************************************************************)
EXTENDS Configuration, Envelope

CONSTANTS
  Deployments,    \* the sources of the settings of an agent and a server, and
                  \* whether other clients post to the server
  ClientBatches,  \* what clients other than the agent send, unsigned
  ClientKeys,     \* the keys they may sign it with
  MaxBytes,       \* bound: bytes of a compressed batch
  MaxSent         \* bound: batches sent

\* The names of metrics.
Ids == {"PollCount", "Alloc"}

\* A batch before it is signed: any type, a delta or a value or none.
IsUnsigned(batch) ==
  /\ batch \in Seq([id : Ids, type : STRING, amount : Seq(Int), hash : {<<>>}])
  /\ \A j \in DOMAIN batch : Len(batch[j].amount) <= 1

\* KEY and RATE_LIMIT are not settings of the JSON files.
ASSUME DeploymentAssumption ==
  /\ \A d \in Deployments :
       d.agent.key.json = None /\ d.agent.rate.json = None /\ d.server.key.json = None
  /\ \A batch \in ClientBatches : IsUnsigned(batch)
  /\ MaxBytes \in Nat /\ MaxSent \in Nat

VARIABLES
  agentSrc,   \* sources of the agent's settings
  serverSrc,  \* sources of the server's settings
  clients,    \* do other clients post too?
  agent,      \* is the agent running?
  server,     \* is the server running?
  polls,      \* pollCount of collectRuntimeMetrics
  sent,       \* batches sent by anyone
  request,    \* the batch under way, or the last one
  store,      \* the counters and gauges of the storage
  accepted,   \* history: batches answered 200
  partial     \* history: has a batch answered 500 changed the store?

sources == <<agentSrc, serverSrc, clients>>
vars == <<sources, agent, server, polls, sent, request, store, accepted, partial>>

Types == {"gauge", "counter"}
AgentSettings == AgentConfig(agentSrc)
ServerSettings == ServerConfig(serverSrc)
IsDatabase == ServerSettings.dsn # None

\* LoadPublicKey and LoadPrivateKey.  Without a key the programs go on.
KeyPair(path) == IF path = "missing" THEN None ELSE path

Metric(id, type, amount) == [id |-> id, type |-> type, amount |-> <<amount>>, hash |-> <<>>]

Init ==
  /\ \E d \in Deployments : 
       agentSrc = d.agent /\ serverSrc = d.server /\ clients = d.clients
  /\ agent = "off"
  /\ server = "off"
  /\ polls = 0
  /\ sent = 0
  /\ request = [from |-> "none", encoding |-> "plain", body |-> <<>>, stage |-> "done", status |-> 0]
  /\ store = [counters |-> [i \in Ids |-> 0], gauges |-> [i \in Ids |-> Nil]]
  /\ accepted = <<>>
  /\ partial = FALSE

StartAgent ==
  /\ agent = "off"
  /\ agent' = IF AgentStarts(agentSrc) THEN "up" ELSE "refused"
  /\ UNCHANGED <<sources, server, polls, sent, request, store, accepted, partial>>

\* main ends at once if the settings are refused, and if the database they
\* name is not reached or not migrated (initializeStorage).
StartServer ==
  /\ server = "off"
  /\ \/ ServerStarts(serverSrc) /\ server' = "up"
     \/ (ServerStarts(serverSrc) => IsDatabase) /\ server' = "refused"
  /\ UNCHANGED <<sources, agent, polls, sent, request, store, accepted, partial>>
----
Send(from, encoding, body) ==
  /\ request.stage = "done"
  /\ sent < MaxSent
  /\ sent' = sent + 1
  /\ request' = [from |-> from, encoding |-> encoding, body |-> body,
                 stage |-> "sent", status |-> 0]
  /\ UNCHANGED <<sources, agent, server, store, accepted, partial>>

\* collectRuntimeMetrics and SendMetricsBatch: a batch of gauges with the
\* number of the poll, signed, compressed, and encrypted if there is a key.
AgentSends ==
  /\ agent = "up"
  /\ server # "off"
  /\ polls' = polls + 1
  /\ \E n \in 1..MaxBytes :
       LET metrics == <<Metric("Alloc", "gauge", polls'), Metric("PollCount", "counter", polls')>>
           text == Bytes([i \in 1..2 |-> Signed(metrics[i], AgentSettings.key)], n)
           pair == KeyPair(AgentSettings.crypto) IN
       IF pair = None
       THEN Send("agent", "gzip", text)
       ELSE Send("agent", "encrypted", EncryptLargeData(text, pair))

\* Anyone else posts a batch, plain.
ClientSends ==
  /\ server = "up" /\ clients
  /\ \E batch \in ClientBatches, key \in ClientKeys :
       Send("client", "plain", Bytes([i \in DOMAIN batch |-> Signed(batch[i], key)], 1))
  /\ UNCHANGED polls

Reached == server = "up" /\ (request.from = "agent" => AgentSettings.address = ServerSettings.address)

Answered(status) == request' = [request EXCEPT !.stage = "done", !.status = status]

Passed(stage) == request' = [request EXCEPT !.stage = stage]

\* Nobody listens at the agent's address.
ConnectionRefused ==
  /\ request.stage = "sent" /\ ~Reached
  /\ Answered(0)
  /\ UNCHANGED <<sources, agent, server, polls, sent, store, accepted, partial>>

DecryptMiddleware ==
  /\ request.stage = "sent" /\ Reached
  /\ LET pair == KeyPair(ServerSettings.crypto) IN
       IF pair = None \/ request.encoding # "encrypted" THEN Passed("gzip")
       ELSE IF ~Decrypts(request.body, pair) THEN Answered(400)
       ELSE request' = [request EXCEPT !.stage = "gzip", !.encoding = "gzip",
                                       !.body = DecryptLargeData(request.body)]
  /\ UNCHANGED <<sources, agent, server, polls, sent, store, accepted, partial>>

GzipMiddleware ==
  /\ request.stage = "gzip"
  /\ IF request.encoding = "gzip" /\ ~Parses(request.body)
     THEN Answered(400) ELSE Passed("handler")
  /\ UNCHANGED <<sources, agent, server, polls, sent, store, accepted, partial>>
----
IsWhole(m) == m.type \in Types /\ m.amount # Nil

\* The metrics ms, no two of one name and type, put into the store.
Applied(ms) ==
  [counters |-> [i \in Ids |->
     LET new == {m \in ms : m.id = i /\ m.type = "counter"} IN
     IF new = {} THEN store.counters[i]
     ELSE store.counters[i] + (CHOOSE m \in new : TRUE).amount[1]],
   gauges |-> [i \in Ids |->
     LET new == {m \in ms : m.id = i /\ m.type = "gauge"} IN
     IF new = {} THEN store.gauges[i] ELSE (CHOOSE m \in new : TRUE).amount]]

Fits(s) == \A i \in Ids : InRange(s.counters[i])
Wrapped(s) == [s EXCEPT !.counters = [i \in Ids |-> Wrap(@[i])]]

Accept(batch) ==
  /\ Answered(200)
  /\ accepted' = Append(accepted, batch)
  /\ UNCHANGED partial

\* MemStorage.UpdateBatch goes through the values of a map, which have no
\* order, up to the first one that is not whole.
MemoryUpdate(batch, ms) ==
  LET whole == {m \in ms : IsWhole(m)} IN
  IF whole = ms
  THEN store' = Wrapped(Applied(ms)) /\ Accept(batch)
  ELSE \E done \in SUBSET whole :
         /\ store' = Wrapped(Applied(done))
         /\ partial' = (partial \/ done # {})
         /\ Answered(500)
         /\ UNCHANGED accepted

\* DatabaseStorage.UpdateBatch passes over a missing amount and rolls back
\* at an unknown type and at a sum that is no BIGINT.
DatabaseUpdate(batch, ms) ==
  LET new == Applied({m \in ms : IsWhole(m)}) IN
  IF (\A m \in ms : m.type \in Types) /\ Fits(new)
  THEN store' = new /\ Accept(batch)
  ELSE Answered(500) /\ UNCHANGED <<store, accepted, partial>>

\* A body that is no JSON list of metrics, an empty list and a metric with a
\* wrong hash are answered 400.
UpdatesHandler ==
  /\ request.stage = "handler"
  /\ LET isJSON == request.encoding # "encrypted" /\ Parses(request.body)
         batch == Parse(request.body)
         key == ServerSettings.key IN
     IF isJSON /\ batch # <<>> /\ \A i \in DOMAIN batch : VerifyMetricHash(batch[i], key)
     THEN IF IsDatabase THEN DatabaseUpdate(batch, Merge(batch)) ELSE MemoryUpdate(batch, Merge(batch))
     ELSE Answered(400) /\ UNCHANGED <<store, accepted, partial>>
  /\ UNCHANGED <<sources, agent, server, polls, sent>>

\* Everything has been sent and answered.
Terminated ==
  /\ request.stage = "done" /\ agent # "off" /\ server # "off"
  /\ sent = MaxSent \/ (agent = "refused" /\ ~(server = "up" /\ clients))
  /\ UNCHANGED vars

Next ==
  \/ StartAgent \/ StartServer
  \/ AgentSends \/ ClientSends \/ ConnectionRefused
  \/ DecryptMiddleware \/ GzipMiddleware \/ UpdatesHandler
  \/ Terminated

Spec == Init /\ [][Next]_vars
----
(***************************************************************************)
(* Properties                                                              *)
(***************************************************************************)
\* Each variable of its type, and every counter an int64.
TypeOK ==
  /\ agent \in {"off", "up", "refused"} /\ server \in {"off", "up", "refused"}
  /\ polls \in 0..sent /\ sent \in 0..MaxSent
  /\ request.stage \in {"sent", "gzip", "handler", "done"}
  /\ request.encoding \in {"plain", "gzip", "encrypted"}
  /\ request.status \in {0, 200, 400, 500}
  /\ \A i \in Ids : store.counters[i] \in Int64s
  /\ \A i \in Ids : Len(store.gauges[i]) <= 1
  /\ Len(accepted) <= sent
  /\ partial \in BOOLEAN

\* What the environment says of a setting.
EnvOf(src, x) == IF x = "restore" THEN BooleanOf(src[x].env) ELSE src[x].env

\* README.md:499: a flag comes before the environment, that before the file.
Documented(src, x, defaults) ==
  IF src[x].flag # None THEN src[x].flag
  ELSE IF EnvOf(src, x) # None THEN EnvOf(src, x)
  ELSE IF JSONOf(src, x) # None THEN JSONOf(src, x)
  ELSE defaults[x]

\* Every setting of a program that starts has the value the documented order
\* of flag, environment and file gives it, if no flag is given for it, or one
\* that is not the default, of a setting the file knows.
LayersAreRespected ==
  LET Respected(src, config, defaults) ==
        \A x \in DOMAIN defaults :
          (\/ src[x].flag = None
           \/ src[x].flag # defaults[x] /\ x \notin {"key", "rate", "restore"})
          => config[x] = Documented(src, x, defaults)
  IN /\ agent = "up" => Respected(agentSrc, AgentSettings, AgentDefaults)
     /\ server = "up" => Respected(serverSrc, ServerSettings, ServerDefaults)

\* The order without the exceptions: what the flag says holds.
FlagsComeFirst ==
  /\ agent = "up" => \A x \in DOMAIN AgentDefaults :
       AgentSettings[x] = Documented(agentSrc, x, AgentDefaults)
  /\ server = "up" => \A x \in DOMAIN ServerDefaults :
       ServerSettings[x] = Documented(serverSrc, x, ServerDefaults)

\* The settings of the two programs fit together.  An agent may sign and need
\* not encrypt for a server that does not ask for the one and can do the other.
Compatible ==
  /\ AgentSettings.address = ServerSettings.address
  /\ ServerSettings.key \in {None, AgentSettings.key}
  /\ KeyPair(AgentSettings.crypto) \in {None, KeyPair(ServerSettings.crypto)}

\* Whatever its size, a batch of the agent gets through signing, compression,
\* encryption in blocks and everything the server takes off again exactly if
\* the settings of the two fit; otherwise it is refused before the storage.
DeliveredIffCompatible ==
  request.from = "agent" /\ request.stage = "done" =>
    (request.status \in {200, 500} <=> server = "up" /\ Compatible)

Counts(m, i) == m.id = i /\ m.type = "counter"

\* A nil after a delta of the same counter in a batch: UpdatesHandler drops
\* the deltas before the nil.
Dropped(batch, i) ==
  \E j, k \in DOMAIN batch :
    /\ j < k /\ Counts(batch[j], i) /\ Counts(batch[k], i)
    /\ batch[j].amount # Nil /\ batch[k].amount = Nil

SumOf(s) ==
  LET sum[n \in 0..Len(s)] == IF n = 0 THEN 0 ELSE sum[n - 1] + s[n]
  IN  sum[Len(s)]

\* The deltas of counter i in a batch, and in all batches answered 200.
Deltas(batch, i) ==
  [j \in DOMAIN batch |->
     IF Counts(batch[j], i) /\ batch[j].amount # Nil THEN batch[j].amount[1] ELSE 0]
Total(i) == SumOf([b \in DOMAIN accepted |-> SumOf(Deltas(accepted[b], i))])

\* Every counter is the sum, as an int64, of all the deltas of all the batches
\* answered 200, duplicates within a batch included, and so PollCount is the
\* sum of the numbers of the polls: unless a batch answered 500 was applied in
\* part, or a nil followed a delta.
AcceptedBatchesAreSummed ==
  ~partial => \A i \in Ids :
    \/ store.counters[i] = Wrap(Total(i))
    \/ \E b \in DOMAIN accepted : Dropped(accepted[b], i)
====
