---- MODULE AgentPipeline ----
(***************************************************************************)
(* The goroutines of the metrics agent (internal/app/agent.go) from the    *)
(* moment App.Run waits for a signal until the process is gone:            *)
(*                                                                         *)
(*   collectors -> collCh -> transfer -> sendCh -> submitter -> tasks      *)
(*              -> workers                                                 *)
(*                                                                         *)
(* and, after a signal, the goroutine that stops them one after the other. *)
(* A batch is one poll of one collector: its contents do not matter here,  *)
(* only who collected it and in which order.  SendMetricsBatch is one step *)
(* from "busy" to "idle", however it ends: the worker drops its error.     *)
(*                                                                         *)
(* Go's channel rules are kept as they are: a select takes any ready case, *)
(* a send on a closed channel is ready and panics, a receive from a closed *)
(* and drained channel yields nil.  A panic kills the whole process.       *)
(***************************************************************************)
EXTENDS Integers, Sequences, FiniteSets

CONSTANTS
  Collectors,   \* the collector goroutines: runtime and system metrics
  Workers,      \* the goroutines of the WorkerPool, RateLimit of them
  Cap,          \* capacity of each of the three channels, 100 in the code
  MaxBatches,   \* bound: polls per collector
  Timers        \* which of the four shutdown timers may expire

ASSUME PipelineAssumption ==
  /\ Cap \in Nat \ {0}
  /\ MaxBatches \in Nat
  /\ Workers # {} /\ IsFiniteSet(Workers)
  /\ Timers \subseteq {"collector", "sender", "pool", "shutdown"}

Batch == [src : Collectors, n : 1..MaxBatches]

VARIABLES
  proc,        \* "up", "exited", or whose panic killed the process
  stage,       \* how far the shutdown goroutine of App.Run has come
  cancelled,   \* which contexts are cancelled: "collector", "sender"
  closed,      \* which channels are closed: "metrics", "send", "tasks"
  fired,       \* the timers that have expired
  coll,        \* collector goroutines: waiting for the ticker, offering, returned
  polls,       \* polls of each collector, the runtime one's is pollCount
  collCh,      \* MetricsCollector.metricsChan
  xfer,        \* the batch the transfer goroutine holds, if any
  xferDone,    \* transferWg has reached zero
  sendCh,      \* MetricsSender.metricsChan
  sub,         \* the batch the submitter goroutine holds, if any
  tasks,       \* WorkerPool.tasks
  job,         \* the batch each worker is sending, if any
  quit,        \* the workers that have returned
  accepted,    \* history: batches of each collector put into collCh
  taken,       \* history: batches of each collector taken by a worker
  sent         \* history: numbers of the batches whose SendMetricsBatch returned

shutdownVars == <<stage, cancelled, closed, fired>>
collectVars  == <<coll, polls, collCh, accepted>>
moveVars     == <<xfer, xferDone, sendCh, sub>>
poolVars     == <<tasks, job, quit, taken, sent>>
vars == <<proc, shutdownVars, collectVars, moveVars, poolVars>>

Up == proc = "up"

Panic(who) ==
  /\ proc' = who
  /\ UNCHANGED <<shutdownVars, collectVars, moveVars, poolVars>>

HasRoom_OffByOne(ch) == Len(ch) <= Cap

\* A buffered channel accepts a send while it holds fewer than its capacity.
HasRoom(ch) == Len(ch) < Cap

Init ==
  /\ proc = "up"
  /\ stage = "off" /\ cancelled = {} /\ closed = {} /\ fired = {}
  /\ coll = [c \in Collectors |-> "poll"]
  /\ polls = [c \in Collectors |-> 0]
  /\ collCh = <<>> /\ xfer = <<>> /\ sendCh = <<>> /\ sub = <<>> /\ tasks = <<>>
  /\ xferDone = FALSE
  /\ job = [w \in Workers |-> <<>>]
  /\ quit = {}
  /\ accepted = [c \in Collectors |-> 0]
  /\ taken = [c \in Collectors |-> 0]
  /\ sent = [c \in Collectors |-> {}]

----
(* The collector goroutines.                                               *)

\* The ticker fires: collect and number the batch.
Tick(c) ==
  /\ Up /\ coll[c] = "poll" /\ polls[c] < MaxBatches
  /\ coll' = [coll EXCEPT ![c] = "offer"]
  /\ polls' = [polls EXCEPT ![c] = @ + 1]
  /\ UNCHANGED <<proc, shutdownVars, collCh, accepted, moveVars, poolVars>>

\* case mc.metricsChan <- metrics, on an open channel.
Offer(c) ==
  /\ Up /\ coll[c] = "offer" /\ "metrics" \notin closed /\ HasRoom(collCh)
  /\ collCh' = Append(collCh, [src |-> c, n |-> polls[c]])
  /\ accepted' = [accepted EXCEPT ![c] = @ + 1]
  /\ coll' = [coll EXCEPT ![c] = "poll"]
  /\ UNCHANGED <<proc, shutdownVars, polls, moveVars, poolVars>>

OfferOnClosed(c) ==
  /\ Up /\ coll[c] = "offer" /\ "metrics" \in closed
  /\ Panic("collector")

\* case <-ctx.Done(), in either select: a batch in hand is dropped.
CollectorReturns(c) ==
  /\ Up /\ coll[c] # "quit" /\ "collector" \in cancelled
  /\ coll' = [coll EXCEPT ![c] = "quit"]
  /\ UNCHANGED <<proc, shutdownVars, polls, collCh, accepted, moveVars, poolVars>>

Collector(c) ==
  \/ Tick(c)
  \/ Offer(c)
  \/ OfferOnClosed(c)
  \/ CollectorReturns(c)

----
(* The transfer goroutine of App.Run.  Its context is main's, which is     *)
(* cancelled only after Run has returned.                                  *)

TransferTakes ==
  /\ Up /\ xfer = <<>> /\ collCh # <<>>
  /\ xfer' = <<Head(collCh)>>
  /\ collCh' = Tail(collCh)
  /\ UNCHANGED <<proc, shutdownVars, coll, polls, accepted, xferDone, sendCh, sub, poolVars>>

\* Mutant: a select with a default case, which drops the batch when full.
TransferSends_DropsWhenFull ==
  /\ Up /\ xfer # <<>> /\ "send" \notin closed
  /\ sendCh' = IF HasRoom(sendCh) THEN sendCh \o xfer ELSE sendCh
  /\ xfer' = <<>>
  /\ UNCHANGED <<proc, shutdownVars, collectVars, xferDone, sub, poolVars>>

\* Mutant: the goroutine returns after one batch (if in place of for range).
TransferSends_Once ==
  /\ Up /\ xfer # <<>> /\ "send" \notin closed /\ HasRoom(sendCh) /\ ~xferDone
  /\ sendCh' = sendCh \o xfer
  /\ xferDone' = TRUE
  /\ UNCHANGED <<proc, shutdownVars, collectVars, xfer, sub, poolVars>>

TransferSends ==
  /\ Up /\ xfer # <<>> /\ "send" \notin closed /\ HasRoom(sendCh)
  /\ sendCh' = sendCh \o xfer
  /\ xfer' = <<>>
  /\ UNCHANGED <<proc, shutdownVars, collectVars, xferDone, sub, poolVars>>

TransferSendsOnClosed ==
  /\ Up /\ xfer # <<>> /\ "send" \in closed
  /\ Panic("transfer")

\* case a.sender.Metrics() <- metrics, which panics on a closed channel.
TransferSend == IF "send" \in closed THEN TransferSendsOnClosed ELSE TransferSends

\* The range loop ends on a closed, drained channel; transferWg.Done().
TransferReturns ==
  /\ Up /\ xfer = <<>> /\ collCh = <<>> /\ "metrics" \in closed /\ ~xferDone
  /\ xferDone' = TRUE
  /\ UNCHANGED <<proc, shutdownVars, collectVars, xfer, sendCh, sub, poolVars>>

Transfer ==
  \/ TransferTakes
  \/ TransferSend
  \/ TransferReturns

----
(* The submitter goroutine of MetricsSender.Start.  Nothing waits for it,  *)
(* so its return on a closed, drained sendCh is not a state change.        *)

SubmitterTakes ==
  /\ Up /\ sub = <<>> /\ sendCh # <<>>
  /\ sub' = <<Head(sendCh)>>
  /\ sendCh' = Tail(sendCh)
  /\ UNCHANGED <<proc, shutdownVars, collectVars, xfer, xferDone, poolVars>>

\* Mutant: the batch is submitted and kept.
Submit_Twice ==
  /\ Up /\ sub # <<>> /\ "tasks" \notin closed /\ HasRoom(tasks)
  /\ tasks' = tasks \o sub
  /\ UNCHANGED <<proc, shutdownVars, collectVars, moveVars, job, quit, taken, sent>>

\* WorkerPool.Submit blocks while the channel is full.
Submit ==
  /\ Up /\ sub # <<>> /\ "tasks" \notin closed /\ HasRoom(tasks)
  /\ tasks' = tasks \o sub
  /\ sub' = <<>>
  /\ UNCHANGED <<proc, shutdownVars, collectVars, xfer, xferDone, sendCh,
                 job, quit, taken, sent>>

SubmitOnClosed ==
  /\ Up /\ sub # <<>> /\ "tasks" \in closed
  /\ Panic("submitter")

Submitter ==
  \/ SubmitterTakes
  \/ Submit
  \/ SubmitOnClosed

----
(* The workers.                                                            *)

\* case task := <-wp.tasks
WorkerTakes(w) ==
  /\ Up /\ w \notin quit /\ job[w] = <<>> /\ tasks # <<>>
  /\ job' = [job EXCEPT ![w] = <<Head(tasks)>>]
  /\ tasks' = Tail(tasks)
  /\ taken' = [taken EXCEPT ![Head(tasks).src] = @ + 1]
  /\ UNCHANGED <<proc, shutdownVars, collectVars, moveVars, quit, sent>>

\* The same case on a closed, drained channel: a nil Task is called.
WorkerTakesNil(w) ==
  /\ Up /\ w \notin quit /\ job[w] = <<>> /\ tasks = <<>> /\ "tasks" \in closed
  /\ Panic("worker")

\* Mutant: a task started while another worker is busy is skipped.
WorkerFinishes_Skips(w) ==
  /\ Up /\ job[w] # <<>>
  /\ sent' = IF \E v \in Workers \ {w} : job[v] # <<>> THEN sent
             ELSE [sent EXCEPT ![job[w][1].src] = @ \cup {job[w][1].n}]
  /\ job' = [job EXCEPT ![w] = <<>>]
  /\ UNCHANGED <<proc, shutdownVars, collectVars, moveVars, tasks, quit, taken>>

\* SendMetricsBatch has returned, with or without an error.
WorkerFinishes(w) ==
  /\ Up /\ job[w] # <<>>
  /\ sent' = [sent EXCEPT ![job[w][1].src] = @ \cup {job[w][1].n}]
  /\ job' = [job EXCEPT ![w] = <<>>]
  /\ UNCHANGED <<proc, shutdownVars, collectVars, moveVars, tasks, quit, taken>>

\* Mutant: the worker's loop has no ctx.Done() case.
WorkerReturns_Never(w) == FALSE /\ w \in Workers /\ UNCHANGED vars

\* case <-ctx.Done(), whatever the task channel still holds.
WorkerReturns(w) ==
  /\ Up /\ w \notin quit /\ job[w] = <<>> /\ "sender" \in cancelled
  /\ quit' = quit \cup {w}
  /\ UNCHANGED <<proc, shutdownVars, collectVars, moveVars, tasks, job, taken, sent>>

\* What a worker does by itself; WorkerFinishes depends on the server too.
Worker(w) ==
  \/ WorkerTakes(w)
  \/ WorkerTakesNil(w)
  \/ WorkerReturns(w)

----
(* Shutdown.  Every wait with a timer is two actions: one for the end of   *)
(* the wait and one for the timer, both closing the channel that follows.  *)

\* Mutant: Stop closes the channel without waiting for its goroutines.
CollectorsReturned_NoWait == TRUE

CollectorsReturned == \A c \in Collectors : coll[c] = "quit"

\* Mutant: Stop closes tasks without waiting for the workers.
WorkersReturned_NoWait == TRUE

WorkersReturned == quit = Workers

\* main receives the signal and the shutdown goroutine calls collector.Stop.
Signal ==
  /\ Up /\ stage = "off"
  /\ stage' = "collWait"
  /\ cancelled' = cancelled \cup {"collector"}
  /\ UNCHANGED <<proc, closed, fired, collectVars, moveVars, poolVars>>

CloseMetrics(timers) ==
  /\ Up /\ stage = "collWait"
  /\ closed' = closed \cup {"metrics"}
  /\ fired' = fired \cup timers
  /\ stage' = "xferWait"
  /\ UNCHANGED <<proc, cancelled, collectVars, moveVars, poolVars>>

CollectorStopped == CollectorsReturned /\ CloseMetrics({})
CollectorTimeout == "collector" \in Timers /\ CloseMetrics({"collector"})

\* Mutant: sender.Stop without transferWg.Wait before it.
CancelSender_NoWait ==
  /\ Up /\ stage = "xferWait"
  /\ cancelled' = cancelled \cup {"sender"}
  /\ stage' = "sendWait"
  /\ UNCHANGED <<proc, closed, fired, collectVars, moveVars, poolVars>>

\* transferWg.Wait, which has no timer, then sender.Stop cancels the workers.
CancelSender ==
  /\ Up /\ stage = "xferWait" /\ xferDone
  /\ cancelled' = cancelled \cup {"sender"}
  /\ stage' = "sendWait"
  /\ UNCHANGED <<proc, closed, fired, collectVars, moveVars, poolVars>>

\* WorkerPool.Stop, in a goroutine of its own.
CloseTasks(timers) ==
  /\ Up /\ "sender" \in cancelled /\ "tasks" \notin closed
  /\ closed' = closed \cup {"tasks"}
  /\ fired' = fired \cup timers
  /\ UNCHANGED <<proc, stage, cancelled, collectVars, moveVars, poolVars>>

PoolStopped == WorkersReturned /\ CloseTasks({})

\* Five seconds, when the sender's three, set together with it, have passed.
PoolTimeout == "pool" \in Timers /\ "sender" \in fired /\ CloseTasks({"pool"})

CloseSend(timers) ==
  /\ Up /\ stage = "sendWait"
  /\ closed' = closed \cup {"send"}
  /\ fired' = fired \cup timers
  /\ stage' = "finished"
  /\ UNCHANGED <<proc, cancelled, collectVars, moveVars, poolVars>>

SenderStopped == "tasks" \in closed /\ CloseSend({})
SenderTimeout == "sender" \in Timers /\ CloseSend({"sender"})

\* case <-shutdownDone: Run returns and so does main.
Exit ==
  /\ Up /\ stage = "finished"
  /\ proc' = "exited"
  /\ UNCHANGED <<shutdownVars, collectVars, moveVars, poolVars>>

\* Mutant: no global timer.
ShutdownTimeout_Never == FALSE /\ UNCHANGED vars

\* case <-shutdownCtx.Done(): ten seconds, past the three of collector.Stop.
ShutdownTimeout ==
  /\ Up /\ "shutdown" \in Timers /\ stage \in {"xferWait", "sendWait"}
  /\ proc' = "exited"
  /\ fired' = fired \cup {"shutdown"}
  /\ UNCHANGED <<stage, cancelled, closed, collectVars, moveVars, poolVars>>

Stopping ==
  \/ CollectorStopped
  \/ CancelSender
  \/ SenderStopped
  \/ Exit

Expiry ==
  \/ CollectorTimeout
  \/ SenderTimeout
  \/ ShutdownTimeout

\* The process is gone.
Terminated == ~Up /\ UNCHANGED vars

Next ==
  \/ \E c \in Collectors : Collector(c)
  \/ Transfer
  \/ Submitter
  \/ \E w \in Workers : Worker(w) \/ WorkerFinishes(w)
  \/ Signal
  \/ Stopping
  \/ Expiry
  \/ PoolStopped
  \/ PoolTimeout
  \/ Terminated

Spec == Init /\ [][Next]_vars

\* The Go scheduler runs every goroutine that can go on; a signal need not come.
Scheduled ==
  /\ \A c \in Collectors : WF_vars(Collector(c))
  /\ WF_vars(Transfer)
  /\ WF_vars(Submitter)
  /\ \A w \in Workers : WF_vars(Worker(w))
  /\ WF_vars(Stopping)
  /\ WF_vars(PoolStopped)

\* Every SendMetricsBatch returns: its context ends after 30 seconds.
FairSpec == Spec /\ Scheduled /\ \A w \in Workers : WF_vars(WorkerFinishes(w))

\* Nothing but the shutdown goroutine, main and the timers need go on: the
\* server may never answer and a collector may hang in a system call.
HungSpec == Spec /\ WF_vars(Stopping) /\ WF_vars(Expiry)

----
AtMostOne == {<<>>} \cup {<<b>> : b \in Batch}

TypeOK ==
  /\ proc \in {"up", "exited", "collector", "transfer", "submitter", "worker"}
  /\ stage \in {"off", "collWait", "xferWait", "sendWait", "finished"}
  /\ cancelled \subseteq {"collector", "sender"}
  /\ closed \subseteq {"metrics", "send", "tasks"}
  /\ fired \subseteq Timers
  /\ coll \in [Collectors -> {"poll", "offer", "quit"}]
  /\ polls \in [Collectors -> 0..MaxBatches]
  /\ collCh \in Seq(Batch) /\ Len(collCh) <= Cap
  /\ xfer \in AtMostOne
  /\ xferDone \in BOOLEAN
  /\ sendCh \in Seq(Batch) /\ Len(sendCh) <= Cap
  /\ sub \in AtMostOne
  /\ tasks \in Seq(Batch) /\ Len(tasks) <= Cap
  /\ job \in [Workers -> AtMostOne]
  /\ quit \subseteq Workers
  /\ accepted \in [Collectors -> Nat]
  /\ taken \in [Collectors -> Nat]
  /\ sent \in [Collectors -> SUBSET (1..MaxBatches)]

\* Everything between the collectors and the workers, oldest first.
InFlight == tasks \o sub \o sendCh \o xfer \o collCh

Life ==
  CASE ~Up -> "down"
    [] Up /\ stage = "off" -> "up"
    [] OTHER -> "stopping"

\* The three channels and the two goroutines between them are one bounded
\* first-in first-out line: App.Run and MetricsSender.Start lose nothing,
\* repeat nothing and reorder nothing, and no process dies unless signalled.
Flow == INSTANCE BatchFlow WITH
  line <- InFlight, slot <- job, life <- Life, Bound <- 3 * Cap + 2

FlowSpec == Flow!Spec

\* What Flow's line holds, stated on the channels: the batches accepted by
\* collCh and not yet taken by a worker, each once, in each collector's order.
FlowInv == Flow!InOrder /\ Flow!TriedOnce

\* App.Run's order of shutdown: when the workers are told to stop, everything
\* the collectors had put into their channel has reached the sender, unless
\* collector.Stop gave up waiting for a collector (and then only a panic
\* follows: the channel stays drained).
TransferredBeforeStop ==
  "sender" \in cancelled => xferDone /\ collCh = <<>> /\ xfer = <<>>

\* The transfer goroutine never sends on the sender's closed channel, whatever
\* timers expire: transferWg.Wait stands between.  The collectors and the
\* workers can meet a closed channel only after a timer gave up on them, and
\* the submitter only once the workers' channel is closed by a shutdown.
PanicsHaveACause ==
  /\ proc # "transfer"
  /\ proc = "collector" => "collector" \in fired
  /\ proc = "worker" => "pool" \in fired
  /\ proc = "submitter" => "tasks" \in closed /\ "sender" \in cancelled

\* With several workers a later batch can be answered before an earlier one,
\* but never more than the other workers' batches are overtaken.
OvertakenAtMostByOthers ==
  \A c \in Collectors :
    LET late == {m \in 1..MaxBatches :
                   m \notin sent[c] /\ \E n \in sent[c] : m < n}
    IN Cardinality(late) < Cardinality(Workers)

\* README, agent shutdown: the WorkerPool finishes its active tasks.  When no
\* timer cut the shutdown short, every goroutine that is waited for is done,
\* and every batch a worker took was tried to the end.
GracefulExit ==
  proc = "exited" /\ fired = {} =>
    /\ CollectorsReturned /\ xferDone /\ WorkersReturned
    /\ \A c \in Collectors : sent[c] = 1..taken[c]

\* README, agent shutdown: "sends the remaining metrics to the server".
RemainingMetricsSent ==
  proc = "exited" /\ fired = {} =>
    \A c \in Collectors : sent[c] = 1..accepted[c]

\* README: the agent ends normally on the signals it supports.
EndsNormally == proc \in {"up", "exited"}

\* A signalled agent is gone in the end.
ShutdownTerminates == stage # "off" ~> ~Up

\* As long as nobody stops the agent, a batch in the channel reaches a worker.
BatchesReachWorkers ==
  \A c \in Collectors : \A n \in 1..MaxBatches :
    accepted[c] >= n ~> taken[c] >= n \/ stage # "off"
====
