---- MODULE MetricsServer ----
(***************************************************************************)
(* The metrics server with the in-memory store backed by a file:           *)
(*                                                                         *)
(*   - the HTTP handlers, one goroutine per request (handlers.go), on a    *)
(*     MemStorage guarded by an RWMutex (memstorage.go);                   *)
(*   - the StorageManager, whose goroutine saves the store to the file at  *)
(*     every tick (storage_manager.go);                                    *)
(*   - main: load, serve, and after a signal drain, stop, save, exit       *)
(*     (cmd/server/main.go).                                               *)
(*                                                                         *)
(* The process may be killed at any step and started again: the file and   *)
(* what the clients have been told is all that survives.                   *)
(*                                                                         *)
(* A value is abstracted to the requests it comes from: a counter holds    *)
(* every request added to it, a gauge the request that last set it, and a  *)
(* metric that does not exist holds none.                                  *)
(***************************************************************************)
EXTENDS Naturals, FiniteSets

CONSTANTS
  Gauges,     \* gauge metrics
  Counters,   \* counter metrics
  Requests,   \* the requests clients send, each at most once
  Restore,    \* Config.Restore
  Periodic,   \* Config.StoreInterval > 0
  Faults,     \* the faults that may happen: "kill", "disk", "slow"
  MaxBoots    \* bound: starts of the process

ASSUME ServerAssumption ==
  /\ Gauges \cap Counters = {}
  /\ Restore \in BOOLEAN
  /\ Periodic \in BOOLEAN
  /\ Faults \subseteq {"kill", "disk", "slow"}
  /\ MaxBoots \in Nat

Names == Gauges \cup Counters
Store == [Names -> SUBSET Requests]
EmptyStore == [n \in Names |-> {}]
Savers == {"periodic", "final"}

\* A request: the handler it goes to and the metrics it names.  The broken
\* metrics of a batch have a nil value or delta, or an unknown type.  A gauge
\* in the path of an update may be NaN or infinite, which JSON cannot say.
Ops ==
  [kind : {"update", "json", "value", "valueJSON"}, names : {{n} : n \in Names},
   broken : {{}}, finite : {TRUE}]
    \cup [kind : {"update"}, names : {{g} : g \in Gauges}, broken : {{}}, finite : {FALSE}]
    \cup [kind : {"index"}, names : {Names}, broken : {{}}, finite : {TRUE}]
    \cup {o \in [kind : {"batch"}, names : (SUBSET Names) \ {{}}, broken : SUBSET Names,
                 finite : {TRUE}] :
            o.broken \subseteq o.names /\ Cardinality(o.broken) <= 1}

VARIABLES
  main,      \* where main stands; "off": there is no process
  boots,     \* starts of the process
  mem,       \* MemStorage.gauges and counters
  op,        \* what each request asks for
  pc,        \* where the handler of each request stands
  todo,      \* the metrics a batch has still to apply
  got,       \* what a request has read and will answer
  save,      \* where each caller of SaveToFile stands
  dump,      \* the copy each of them writes
  file,      \* the file: its last complete contents, and is it complete now
  promised,  \* history: requests answered 200 before the final copy began
  known,     \* history: those promised when a request arrived
  lost,      \* history: a kill, a failed final save or a load not done
  blank      \* history: the store began without the contents the file had

requestVars == <<op, pc, todo, got, promised, known>>
saveVars    == <<save, dump, file>>
historyVars == <<lost, blank>>
vars == <<main, boots, mem, requestVars, saveVars, historyVars>>

Active(r) == pc[r] \in {"begin", "locked", "counters", "get", "reply"}
Serving == main \in {"serving", "draining", "stopping", "saving", "exit"}

Init ==
  /\ main = "off"
  /\ boots = 0
  /\ mem = EmptyStore
  /\ op = [r \in Requests |-> [kind |-> "index", names |-> Names, broken |-> {}, finite |-> TRUE]]
  /\ pc = [r \in Requests |-> "unsent"]
  /\ todo = [r \in Requests |-> {}]
  /\ got = [r \in Requests |-> EmptyStore]
  /\ save = [t \in Savers |-> "off"]
  /\ dump = [t \in Savers |-> EmptyStore]
  /\ file = [data |-> EmptyStore, whole |-> FALSE]
  /\ promised = {}
  /\ known = [r \in Requests |-> {}]
  /\ lost = FALSE
  /\ blank = FALSE
----
(***************************************************************************)
(* MemStorage.  A batch holds the write lock while pc is "locked", a save  *)
(* the read lock while it is "copying"; every other operation takes and    *)
(* releases the lock within its one step.                                  *)
(***************************************************************************)
\* Mutant: SaveToFile copies the maps without the read lock.
CanRead_Unlocked == TRUE

CanRead == \A r \in Requests : pc[r] # "locked"

\* Mutant: SaveToFile releases the read lock between the two maps.
CanWrite_WhileCopying == CanRead

CanWrite == CanRead /\ \A t \in Savers : save[t] # "copying"

\* Mutant: UpdateGauge adds to the value.
Put_GaugeAccumulates(d, n, r) == [d EXCEPT ![n] = @ \cup {r}]

\* UpdateGauge replaces the value, UpdateCounter adds to it.
Put(d, n, r) == [d EXCEPT ![n] = IF n \in Counters THEN @ \cup {r} ELSE {r}]
----
(***************************************************************************)
(* The handlers                                                            *)
(***************************************************************************)
Arrive(r) ==
  /\ main = "serving"
  /\ pc[r] = "unsent"
  /\ \E o \in Ops : op' = [op EXCEPT ![r] = o]
  /\ pc' = [pc EXCEPT ![r] = "begin"]
  /\ known' = [known EXCEPT ![r] = promised]
  /\ UNCHANGED <<main, boots, mem, todo, got, promised, saveVars, historyVars>>

Step(r, to) ==
  /\ Serving
  /\ pc' = [pc EXCEPT ![r] = to]
  /\ UNCHANGED <<main, boots, op, promised, known, saveVars, historyVars>>

\* Wrong content type, hash, JSON, name or value: answered 4xx, or the
\* connection breaks, before the store is touched.
Refuse(r) ==
  /\ pc[r] = "begin"
  /\ op[r].kind # "index"
  /\ Step(r, "refused")
  /\ UNCHANGED <<mem, todo, got>>

Update(r, to) ==
  /\ pc[r] = "begin"
  /\ CanWrite
  /\ \E n \in op[r].names : mem' = Put(mem, n, r)
  /\ Step(r, to)
  /\ UNCHANGED <<todo, got>>

UpdateHandler(r) == op[r].kind = "update" /\ Update(r, "reply")

\* A counter is read back for the answer, the lock free in between.
UpdateJSONHandler(r) ==
  /\ op[r].kind = "json"
  /\ Update(r, IF op[r].names \subseteq Counters THEN "get" ELSE "reply")

\* GetGauge or GetCounter, which fail for a metric that does not exist.
Get(r, from) ==
  /\ pc[r] = from
  /\ CanRead
  /\ \E n \in op[r].names :
       /\ got' = [got EXCEPT ![r][n] = mem[n]]
       /\ Step(r, IF mem[n] = {} THEN "refused" ELSE "reply")
  /\ UNCHANGED <<mem, todo>>

ReadBack(r) == Get(r, "get")
ValueHandler(r) == op[r].kind = "value" /\ Get(r, "begin")
ValueJSONHandler(r) == op[r].kind = "valueJSON" /\ Get(r, "begin")

BatchLocks(r) ==
  /\ pc[r] = "begin" /\ op[r].kind = "batch"
  /\ CanWrite
  /\ Step(r, "locked")
  /\ todo' = [todo EXCEPT ![r] = op[r].names]
  /\ UNCHANGED <<mem, got>>

\* MemStorage.UpdateBatch takes the metrics in the order of a map's
\* iteration, which is any, and gives up at the first broken one.
BatchItem(r) ==
  /\ pc[r] = "locked"
  /\ \E n \in todo[r] :
       \/ /\ n \in op[r].broken
          /\ Step(r, "refused")
          /\ todo' = [todo EXCEPT ![r] = {}]
          /\ UNCHANGED mem
       \/ /\ n \notin op[r].broken
          /\ mem' = Put(mem, n, r)
          /\ todo' = [todo EXCEPT ![r] = @ \ {n}]
          /\ Step(r, IF todo[r] = {n} THEN "reply" ELSE "locked")
  /\ UNCHANGED got

\* Mutant: the page reads the counters first.
Page_OtherKind(r, kind) ==
  [n \in Names |-> IF n \in kind THEN got[r][n] ELSE mem[n]]

\* What request r has read once it has read the metrics of one kind.
Page(r, kind) == [n \in Names |-> IF n \in kind THEN mem[n] ELSE got[r][n]]

\* IndexHandler: GetAllGauges, then GetAllCounters, the lock free between them.
IndexGauges(r) ==
  /\ pc[r] = "begin" /\ op[r].kind = "index"
  /\ CanRead
  /\ got' = [got EXCEPT ![r] = Page(r, Gauges)]
  /\ Step(r, "counters")
  /\ UNCHANGED <<mem, todo>>

IndexCounters(r) ==
  /\ pc[r] = "counters"
  /\ CanRead
  /\ got' = [got EXCEPT ![r] = Page(r, Counters)]
  /\ Step(r, "reply")
  /\ UNCHANGED <<mem, todo>>

\* Shutdown has begun to copy the store for the last time.
FinalCopy == main = "exit" \/ save["final"] \in {"copying", "copied", "created"}

\* Mutant: the handler answers before it has touched the store.
Reply_BeforeTheStore(r) ==
  /\ pc[r] = "begin" \/ pc[r] = "reply"
  /\ Serving
  /\ pc' = [pc EXCEPT ![r] = "ok"]
  /\ promised' = IF FinalCopy THEN promised ELSE promised \cup {r}
  /\ UNCHANGED <<main, boots, mem, op, todo, got, known, saveVars, historyVars>>

\* The 200 reaches the client.
Reply(r) ==
  /\ pc[r] = "reply"
  /\ Serving
  /\ pc' = [pc EXCEPT ![r] = "ok"]
  /\ promised' = IF FinalCopy THEN promised ELSE promised \cup {r}
  /\ UNCHANGED <<main, boots, mem, op, todo, got, known, saveVars, historyVars>>

Handler(r) ==
  \/ UpdateHandler(r) \/ UpdateJSONHandler(r) \/ ReadBack(r)
  \/ ValueHandler(r) \/ ValueJSONHandler(r)
  \/ BatchLocks(r) \/ BatchItem(r)
  \/ IndexGauges(r) \/ IndexCounters(r) \/ Reply(r)
----
(***************************************************************************)
(* SaveToFile, called by periodicSave at a tick and by Shutdown at the     *)
(* end.  os.Create empties the file before anything is written to it.      *)
(***************************************************************************)
Save(t, to) ==
  /\ save' = [save EXCEPT ![t] = to]
  /\ UNCHANGED <<boots, mem, requestVars>>

\* Mutant: a timer in place of the ticker, which fires once.
Tick_Once ==
  /\ save["periodic"] = "idle" /\ file.data = EmptyStore /\ ~file.whole
  /\ Save("periodic", "called")
  /\ UNCHANGED <<main, dump, file, historyVars>>

Tick ==
  /\ save["periodic"] = "idle"
  /\ Save("periodic", "called")
  /\ UNCHANGED <<main, dump, file, historyVars>>

CopyGauges(t) ==
  /\ save[t] = "called"
  /\ CanRead
  /\ dump' = [dump EXCEPT ![t] = [n \in Names |-> IF n \in Gauges THEN mem[n] ELSE {}]]
  /\ Save(t, "copying")
  /\ UNCHANGED <<main, file, historyVars>>

CopyCounters(t) ==
  /\ save[t] = "copying"
  /\ dump' = [dump EXCEPT ![t] = [n \in Names |-> IF n \in Counters THEN mem[n] ELSE @[n]]]
  /\ Save(t, "copied")
  /\ UNCHANGED <<main, file, historyVars>>

CreateFile(t) ==
  /\ save[t] = "copied"
  /\ file' = [file EXCEPT !.whole = FALSE]
  /\ Save(t, "created")
  /\ UNCHANGED <<main, dump, historyVars>>

\* SaveToFile returns: periodicSave waits for the next tick, Shutdown is over.
SaveReturns(t, failed) ==
  /\ Save(t, IF t = "periodic" THEN "idle" ELSE "off")
  /\ main' = IF t = "final" THEN "exit" ELSE main
  /\ lost' = (lost \/ (failed /\ t = "final"))
  /\ dump' = [dump EXCEPT ![t] = EmptyStore]

\* Does encoding/json write every gauge of d?
Encodable(d) == \A g \in Gauges : \A r \in d[g] : op[r].finite

Encode(t) ==
  /\ save[t] = "created" /\ Encodable(dump[t])
  /\ file' = [data |-> dump[t], whole |-> TRUE]
  /\ blank' = FALSE
  /\ SaveReturns(t, FALSE)

\* os.Create or Encode fails: the error is logged.  Encode fails for a gauge
\* that is no number too, when the file has been emptied.
SaveFails(t) ==
  /\ \/ save[t] \in {"copied", "created"} /\ "disk" \in Faults
     \/ save[t] = "created" /\ ~Encodable(dump[t])
  /\ SaveReturns(t, TRUE)
  /\ UNCHANGED <<file, blank>>

Saver(t) ==
  \/ CopyGauges(t) \/ CopyCounters(t) \/ CreateFile(t) \/ Encode(t) \/ SaveFails(t)

\* periodicSave sees the cancelled context, unless its select takes a tick.
PeriodicReturns ==
  /\ save["periodic"] = "idle"
  /\ main = "stopping"
  /\ Save("periodic", "off")
  /\ UNCHANGED <<main, dump, file, historyVars>>
----
(***************************************************************************)
(* main                                                                    *)
(***************************************************************************)
Main(from, to) ==
  /\ main = from
  /\ main' = to
  /\ UNCHANGED <<requestVars, dump, file>>

Boot ==
  /\ boots < MaxBoots
  /\ Main("off", "boot")
  /\ boots' = boots + 1
  /\ UNCHANGED <<mem, save, historyVars>>

\* LoadFromFile replaces the store, or fails on an absent or torn file and
\* leaves it alone.
LoadFromFile ==
  IF Restore /\ file.whole
  THEN mem' = file.data /\ UNCHANGED <<lost, blank>>
  ELSE /\ lost' = (lost \/ promised # {})
       /\ blank' = (blank \/ file.data # EmptyStore)
       /\ UNCHANGED mem

\* initializeStorage
InitializeStorage ==
  /\ Main("boot", "start")
  /\ LoadFromFile
  /\ UNCHANGED <<boots, save>>

\* StorageManager.Start loads again; then the HTTP server starts.
StartManager ==
  /\ Main("start", "serving")
  /\ LoadFromFile
  /\ save' = [save EXCEPT !["periodic"] = IF Periodic THEN "idle" ELSE "off"]
  /\ UNCHANGED boots

\* A signal: HTTPServer.Shutdown closes the listeners.
Signal ==
  /\ Main("serving", "draining")
  /\ UNCHANGED <<boots, mem, save, historyVars>>

\* HTTPServer.Shutdown has waited for every handler; StorageManager.Stop
\* cancels its context.
Drained ==
  /\ \A r \in Requests : ~Active(r)
  /\ Main("draining", "stopping")
  /\ UNCHANGED <<boots, mem, save, historyVars>>

\* Mutant: HTTPServer.Shutdown with a context that never expires.
DrainTimeout_Never == FALSE /\ UNCHANGED vars

\* Thirty seconds have passed: the handlers still active go on.
DrainTimeout ==
  /\ "slow" \in Faults
  /\ Main("draining", "stopping")
  /\ UNCHANGED <<boots, mem, save, historyVars>>

\* Mutant: Stop does not wait for periodicSave.
Stopped_NoWait ==
  /\ Main("stopping", "saving")
  /\ save' = [save EXCEPT !["final"] = "called"]
  /\ UNCHANGED <<boots, mem, historyVars>>

\* StorageManager.Stop has waited for periodicSave; Shutdown saves.
Stopped ==
  /\ save["periodic"] = "off"
  /\ Main("stopping", "saving")
  /\ save' = [save EXCEPT !["final"] = "called"]
  /\ UNCHANGED <<boots, mem, historyVars>>

\* The process is gone with its memory and its connections.
Gone ==
  /\ main' = "off"
  /\ mem' = EmptyStore
  /\ pc' = [r \in Requests |-> IF Active(r) THEN "broken" ELSE pc[r]]
  /\ todo' = [r \in Requests |-> {}]
  /\ save' = [t \in Savers |-> "off"]
  /\ dump' = [t \in Savers |-> EmptyStore]
  /\ UNCHANGED <<boots, op, got, promised, known, file, blank>>

Exit ==
  /\ main = "exit"
  /\ Gone
  /\ UNCHANGED lost

\* A kill or panic, log.Fatalf of a failed listener, or a signal that comes
\* before waitForShutdownSignal has asked for it.
Kill ==
  /\ "kill" \in Faults
  /\ main # "off"
  /\ Gone
  /\ lost' = TRUE

\* Nothing is left to do once the process has been started MaxBoots times.
Terminated ==
  /\ main = "off" /\ boots = MaxBoots
  /\ UNCHANGED vars

Next ==
  \/ \E r \in Requests : Arrive(r) \/ Refuse(r) \/ Handler(r)
  \/ \E t \in Savers : Saver(t)
  \/ Tick \/ PeriodicReturns
  \/ Boot \/ InitializeStorage \/ StartManager
  \/ Signal \/ Drained \/ DrainTimeout \/ Stopped \/ Exit
  \/ Kill \/ Terminated

Spec == Init /\ [][Next]_vars

\* Go runs every goroutine that can run.  A handler is only trusted to finish
\* the batch it holds the lock for: until then it may wait for its client.
\* The select of periodicSave picks a ready case at random, so the cancelled
\* context is not passed over for ever.
FairSpec ==
  /\ Spec
  /\ \A r \in Requests : WF_vars(BatchItem(r))
  /\ \A t \in Savers : WF_vars(Saver(t))
  /\ WF_vars(Tick) /\ SF_vars(PeriodicReturns)
  /\ WF_vars(InitializeStorage) /\ WF_vars(StartManager)
  /\ WF_vars(Drained) /\ WF_vars(DrainTimeout) /\ WF_vars(Stopped) /\ WF_vars(Exit)
----
(***************************************************************************)
(* Properties                                                              *)
(***************************************************************************)
\* Every store, copy and file gives a gauge at most one value, and each
\* variable keeps to the states the goroutines can be in.
IsStore(d) == d \in Store /\ \A g \in Gauges : \A r, q \in d[g] : r = q

TypeOK ==
  /\ main \in {"off", "boot", "start", "serving", "draining", "stopping", "saving", "exit"}
  /\ boots \in 0..MaxBoots
  /\ IsStore(mem) /\ IsStore(file.data)
  /\ op \in [Requests -> Ops]
  /\ pc \in [Requests -> {"unsent", "begin", "locked", "counters", "get", "reply",
                         "ok", "refused", "broken"}]
  /\ todo \in [Requests -> SUBSET Names]
  /\ \A r \in Requests : IsStore(got[r])
  /\ save \in [Savers -> {"off", "idle", "called", "copying", "copied", "created"}]
  /\ \A t \in Savers : IsStore(dump[t])
  /\ file.whole \in BOOLEAN
  /\ promised \subseteq Requests
  /\ known \in [Requests -> SUBSET Requests]
  /\ lost \in BOOLEAN /\ blank \in BOOLEAN

Writes(r) == op[r].kind \in {"update", "json", "batch"}

\* Store d has what request r wrote: its counters hold it, its gauges a value.
Holds(d, r) ==
  \A n \in op[r].names : IF n \in Counters THEN r \in d[n] ELSE d[n] # {}

\* Unless the process was killed or the final save failed, an increment that
\* a client was told is stored is in memory while the server runs and in the
\* file once it has exited, and is still there after the next start, and a
\* gauge that a client was told is set has a value there: the periodic save,
\* the drain of the HTTP server, Stop and the final save leave no gap for what
\* is acknowledged before the final copy.
NothingPromisedIsLost ==
  ~lost => \A r \in promised :
             Writes(r) => Holds(IF main \in {"off", "boot", "start"}
                                THEN file.data ELSE mem, r)

\* A batch without a broken metric, some part of which is in store d, is
\* there as a whole.
BatchWhole(d, r) ==
  op[r].kind = "batch" /\ op[r].broken = {} /\ (\E n \in op[r].names : r \in d[n])
    => Holds(d, r)

\* The file's last complete contents never hold half a batch: SaveToFile
\* copies both maps under one read lock, UpdateBatch applies the metrics
\* under one write lock, and a kill leaves a file that does not load.
BatchesSavedWhole == \A r \in Requests : BatchWhole(file.data, r)

\* The index page reads the gauges before the counters, so a page that shows
\* the gauge of a batch shows its counters too (never the other way round:
\* a page may show a batch's counters with its old gauges).
PagesShowTheCountersOfAGauge ==
  \A p, r \in Requests :
    /\ op[p].kind = "index" /\ pc[p] \in {"reply", "ok"}
    /\ op[r].kind = "batch" /\ op[r].broken = {}
    /\ \E g \in Gauges : r \in got[p][g]
    => \A n \in op[r].names \cap Counters : r \in got[p][n]

\* The counters in what a value, JSON update or index request answers include
\* every increment that was answered before the request arrived, and its own.
AnswersAreFresh ==
  ~lost => \A q \in Requests : pc[q] \in {"reply", "ok"} =>
    \A r \in known[q] \cup {q} :
      Writes(r) => \A n \in op[r].names \cap op[q].names \cap Counters :
                     op[q].kind \notin {"update", "batch"} => r \in got[q][n]

\* From one complete file to the next no counter loses an update and no
\* gauge disappears, kills and restarts included, unless the process started
\* without the contents of the file: absent, torn by a kill or a failed
\* write between os.Create and the end of Encode, or not restored.
SavesNeverGoBack ==
  [][~blank => \A n \in Names :
       IF n \in Counters THEN file.data[n] \subseteq file'.data[n]
       ELSE file.data[n] # {} => file'.data[n] # {}]_vars

\* The batch that holds the write lock is stored with its first metric, if all
\* of it will be.
AtOnce ==
  [n \in Names |->
     LET writer == {r \in Requests : pc[r] = "locked" /\ op[r].broken = {}
                                      /\ todo[r] # op[r].names /\ n \in todo[r]} IN
     IF n \in Counters \/ writer = {} THEN mem[n] \cup writer ELSE writer]

\* A copy is made when its gauges are: its counters cannot change any more.
Copies ==
  [t \in Savers |-> IF save[t] = "copying"
                    THEN [n \in Names |-> IF n \in Counters THEN mem[n] ELSE dump[t][n]]
                    ELSE dump[t]]

\* memstorage.go:165, SaveToFile and LoadFromFile: the locks make of the maps,
\* the steps over them and the file one store whose every access is atomic.
Atomic == INSTANCE AtomicStore WITH
  data <- AtOnce, asks <- op, seen <- got, copy <- Copies, disk <- file.data

StoreIsAtomic == Atomic!Spec

\* After a signal the process ends, even if clients keep their requests open.
SignalEndsTheServer == main = "draining" ~> main = "off"

\* On a disk that takes what is written, a promised update reaches a complete
\* file, at the next save that begins after it or at the final one, if the
\* gauges in memory come to be numbers and stay so: one that is not makes
\* every save fail while it is there, and the final save if it meets it.
PromisedUpdatesReachTheFile ==
  <>[]Encodable(mem) =>
    \A r \in Requests :
      r \in promised /\ Writes(r) ~> lost \/ (file.whole /\ Holds(file.data, r))
====
