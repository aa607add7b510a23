---- MODULE MetricsServerProofs ----
(***************************************************************************)
(* Proofs about MetricsServer, for any metrics, requests, faults and       *)
(* number of restarts.                                                     *)
(***************************************************************************)
EXTENDS MetricsServer, TLAPS

Mains == {"off", "boot", "start", "serving", "draining", "stopping", "saving", "exit"}
Stages == {"unsent", "begin", "locked", "counters", "get", "reply", "ok", "refused", "broken"}
SaveStages == {"off", "idle", "called", "copying", "copied", "created"}

\* The types, the single value of a gauge left out.
Typed ==
  /\ main \in Mains
  /\ boots \in 0..MaxBoots
  /\ mem \in Store
  /\ file \in [data : Store, whole : BOOLEAN]
  /\ op \in [Requests -> Ops]
  /\ pc \in [Requests -> Stages]
  /\ todo \in [Requests -> SUBSET Names]
  /\ got \in [Requests -> Store]
  /\ save \in [Savers -> SaveStages]
  /\ dump \in [Savers -> Store]
  /\ promised \in SUBSET Requests
  /\ known \in [Requests -> SUBSET Requests]
  /\ lost \in BOOLEAN /\ blank \in BOOLEAN

LEMMA OpsNames == \A o \in Ops : o.names \subseteq Names /\ o.broken \subseteq o.names
<1>1. SUFFICES ASSUME NEW o \in Ops PROVE o.names \subseteq Names /\ o.broken \subseteq o.names
  OBVIOUS
<1>2. CASE o.kind = "batch"
  BY <1>2 DEF Ops
<1>3. CASE o.kind # "batch"
  <2>1. \/ \E n \in Names : o.names = {n} /\ o.broken = {}
        \/ \E g \in Gauges : o.names = {g} /\ o.broken = {}
        \/ o.names = Names /\ o.broken = {}
    BY <1>3 DEF Ops
  <2> QED
    BY <2>1 DEF Names
<1> QED
  BY <1>2, <1>3

\* The requests for one metric.
LEMMA SingleOps ==
  ASSUME NEW o \in Ops, o.kind \in {"update", "json", "value", "valueJSON"}
  PROVE  o.broken = {} /\ \E n \in Names : o.names = {n}
<1>1. /\ o.broken = {}
      /\ (\E n \in Names : o.names = {n}) \/ (\E g \in Gauges : o.names = {g})
  BY DEF Ops
<1> QED
  BY <1>1 DEF Names

LEMMA EmptyIsStore == EmptyStore \in Store
BY DEF Store, EmptyStore

LEMMA PutIsStore ==
  ASSUME NEW d \in Store, NEW n \in Names, NEW r \in Requests
  PROVE  Put(d, n, r) \in Store
BY DEF Store, Put

LEMMA TypedInitial == Init => Typed
<1> SUFFICES ASSUME Init PROVE Typed
  OBVIOUS
<1>1. [kind |-> "index", names |-> Names, broken |-> {}, finite |-> TRUE] \in Ops
  BY DEF Ops
<1>2. op \in [Requests -> Ops]
  BY <1>1 DEF Init
<1>3. 0 \in 0..MaxBoots
  BY ServerAssumption
<1>4. [data |-> EmptyStore, whole |-> FALSE] \in [data : Store, whole : BOOLEAN]
  BY EmptyIsStore
<1> QED
  BY <1>2, <1>3, <1>4, EmptyIsStore DEF Init, Typed, Mains, Stages, SaveStages

\* What a step of a handler leaves alone.
Rest == UNCHANGED <<main, boots, op, promised, known, saveVars, historyVars>>

LEMMA StepLeaves ==
  ASSUME Typed, NEW r \in Requests, NEW to \in Stages, Step(r, to)
  PROVE  Rest /\ pc' = [pc EXCEPT ![r] = to] /\ pc' \in [Requests -> Stages] /\ Serving
BY DEF Typed, Step, Rest

LEMMA HandlerTyped ==
  ASSUME Typed, Rest, pc' \in [Requests -> Stages], mem' \in Store,
         todo' \in [Requests -> SUBSET Names], got' \in [Requests -> Store]
  PROVE  Typed'
BY DEF Typed, Rest, saveVars, historyVars

\* Each step of a handler, in one form.
LEMMA UpdateStep ==
  ASSUME Typed, NEW r \in Requests, UpdateHandler(r) \/ UpdateJSONHandler(r)
  PROVE  /\ Rest /\ Serving /\ CanWrite /\ UNCHANGED <<todo, got>>
         /\ pc[r] = "begin" /\ op[r].kind \in {"update", "json"}
         /\ \E to \in {"reply", "get"} : pc' = [pc EXCEPT ![r] = to]
         /\ pc'[r] = "get" => op[r].kind = "json" /\ op[r].names \subseteq Counters
         /\ op[r].kind = "json" /\ pc'[r] = "reply" => ~(op[r].names \subseteq Counters)
         /\ \E n \in op[r].names \cap Names : mem' = Put(mem, n, r) /\ op[r].names = {n}
<1>1. PICK to \in {"reply", "get"} :
        /\ Update(r, to)
        /\ to = "get" <=> op[r].kind = "json" /\ op[r].names \subseteq Counters
  BY DEF UpdateHandler, UpdateJSONHandler
<1>2. op[r].kind \in {"update", "json"}
  BY DEF UpdateHandler, UpdateJSONHandler
<1>3. \E n \in Names : op[r].names = {n}
  BY <1>2, SingleOps DEF Typed
<1>4. PICK n \in op[r].names : mem' = Put(mem, n, r)
  BY <1>1 DEF Update
<1>5. op[r].names = {n} /\ n \in Names
  BY <1>3, <1>4
<1>6. Step(r, to) /\ to \in Stages /\ pc[r] = "begin" /\ CanWrite /\ UNCHANGED <<todo, got>>
  BY <1>1 DEF Update, Stages
<1>7. Rest /\ pc' = [pc EXCEPT ![r] = to] /\ Serving /\ pc'[r] = to
  BY <1>6, StepLeaves DEF Typed
<1> QED
  BY <1>1, <1>2, <1>4, <1>5, <1>6, <1>7

LEMMA GetStep ==
  ASSUME Typed, NEW r \in Requests, ReadBack(r) \/ ValueHandler(r) \/ ValueJSONHandler(r)
  PROVE  /\ Rest /\ Serving /\ CanRead /\ UNCHANGED <<mem, todo>>
         /\ \/ pc[r] = "get"
            \/ pc[r] = "begin" /\ op[r].kind \in {"value", "valueJSON"}
         /\ \E to \in {"reply", "refused"} : pc' = [pc EXCEPT ![r] = to]
         /\ \E n \in op[r].names \cap Names : got' = [got EXCEPT ![r][n] = mem[n]]
<1>1. PICK from \in {"get", "begin"} :
        /\ Get(r, from)
        /\ from = "begin" => op[r].kind \in {"value", "valueJSON"}
  BY DEF ReadBack, ValueHandler, ValueJSONHandler
<1>2. PICK n \in op[r].names :
        /\ got' = [got EXCEPT ![r][n] = mem[n]]
        /\ Step(r, IF mem[n] = {} THEN "refused" ELSE "reply")
  BY <1>1 DEF Get
<1>3. n \in Names
  BY OpsNames DEF Typed
<1>4. PICK to \in {"reply", "refused"} : Step(r, to)
  BY <1>2
<1>5. Rest /\ pc' = [pc EXCEPT ![r] = to] /\ Serving
  BY <1>4, StepLeaves DEF Stages
<1> QED
  BY <1>1, <1>2, <1>3, <1>4, <1>5 DEF Get

LEMMA BatchStep ==
  ASSUME Typed, NEW r \in Requests, BatchItem(r)
  PROVE  /\ Rest /\ Serving /\ got' = got /\ pc[r] = "locked"
         /\ \E n \in todo[r] \cap Names :
              \/ /\ n \in op[r].broken /\ mem' = mem
                 /\ pc' = [pc EXCEPT ![r] = "refused"] /\ todo' = [todo EXCEPT ![r] = {}]
              \/ /\ n \notin op[r].broken /\ mem' = Put(mem, n, r)
                 /\ todo' = [todo EXCEPT ![r] = todo[r] \ {n}]
                 /\ pc' = [pc EXCEPT ![r] = IF todo[r] = {n} THEN "reply" ELSE "locked"]
<1>1. PICK n \in todo[r] :
       \/ /\ n \in op[r].broken
          /\ Step(r, "refused")
          /\ todo' = [todo EXCEPT ![r] = {}]
          /\ UNCHANGED mem
       \/ /\ n \notin op[r].broken
          /\ mem' = Put(mem, n, r)
          /\ todo' = [todo EXCEPT ![r] = todo[r] \ {n}]
          /\ Step(r, IF todo[r] = {n} THEN "reply" ELSE "locked")
  BY DEF BatchItem
<1>2. n \in Names
  BY DEF Typed
<1>3. PICK to \in Stages : Step(r, to)
  BY <1>1 DEF Stages
<1>4. Rest /\ Serving
  BY <1>3, StepLeaves
<1>5. pc' = [pc EXCEPT ![r] = to]
  BY <1>3, StepLeaves
<1> QED
  BY <1>1, <1>2, <1>4 DEF BatchItem, Step

LEMMA IndexStep ==
  ASSUME Typed, NEW r \in Requests, IndexGauges(r) \/ IndexCounters(r)
  PROVE  /\ Rest /\ Serving /\ CanRead /\ UNCHANGED <<mem, todo>>
         /\ \/ /\ pc[r] = "begin" /\ op[r].kind = "index"
               /\ pc' = [pc EXCEPT ![r] = "counters"]
               /\ got' = [got EXCEPT ![r] = Page(r, Gauges)]
            \/ /\ pc[r] = "counters"
               /\ pc' = [pc EXCEPT ![r] = "reply"]
               /\ got' = [got EXCEPT ![r] = Page(r, Counters)]
         /\ got' \in [Requests -> Store]
<1>1. \A K : Page(r, K) \in Store
  BY DEF Typed, Page, Store
<1>2. CASE IndexGauges(r)
  BY <1>1, <1>2 DEF IndexGauges, Step, Rest, Typed
<1>3. CASE IndexCounters(r)
  BY <1>1, <1>3 DEF IndexCounters, Step, Rest, Typed
<1> QED
  BY <1>2, <1>3

\* A step that only moves the handler of r, or answers it.
Moves(r) == Arrive(r) \/ Refuse(r) \/ BatchLocks(r) \/ Reply(r)

\* A step of main or of the periodic save that touches no store.
Quiet == Tick \/ PeriodicReturns \/ Boot \/ Signal \/ Drained \/ DrainTimeout \/ Stopped

LEMMA QuietStep ==
  ASSUME Typed, Quiet
  PROVE  /\ UNCHANGED <<mem, op, pc, todo, got, promised, known, dump, file, lost, blank>>
         /\ main' \in Mains /\ boots' \in 0..MaxBoots /\ save' \in [Savers -> SaveStages]
<1>1. CASE Tick \/ PeriodicReturns
  BY <1>1 DEF Tick, PeriodicReturns, Save, requestVars, historyVars, Typed, SaveStages
<1>2. CASE Boot
  <2>1. boots' = boots + 1 /\ boots < MaxBoots /\ boots \in 0..MaxBoots /\ MaxBoots \in Nat
    BY <1>2, ServerAssumption DEF Boot, Typed
  <2>2. boots' \in 0..MaxBoots
    BY <2>1
  <2> QED
    BY <1>2, <2>2 DEF Boot, Main, requestVars, historyVars, Typed, Mains
<1>3. CASE Signal \/ Drained \/ DrainTimeout \/ Stopped
  BY <1>3 DEF Signal, Drained, DrainTimeout, Stopped, Main, requestVars, historyVars, Typed,
              Mains, SaveStages
<1> QED
  BY <1>1, <1>2, <1>3 DEF Quiet

Loads == InitializeStorage \/ StartManager

LEMMA LoadStep ==
  ASSUME Typed, Loads
  PROVE  /\ UNCHANGED <<boots, op, pc, todo, got, promised, known, dump, file>>
         /\ LoadFromFile /\ mem' \in {mem, file.data}
         /\ \/ main = "boot" /\ main' = "start" /\ save' = save
            \/ /\ main = "start" /\ main' = "serving"
               /\ \E s \in {"idle", "off"} : save' = [save EXCEPT !["periodic"] = s]
         /\ lost' \in BOOLEAN /\ blank' \in BOOLEAN
<1>1. LoadFromFile => mem' \in {mem, file.data} /\ lost' \in BOOLEAN /\ blank' \in BOOLEAN
  BY DEF LoadFromFile, Typed
<1> QED
  BY <1>1 DEF Loads, InitializeStorage, StartManager, Main, requestVars

Dies == Exit \/ Kill

LEMMA DieStep ==
  ASSUME Typed, Dies
  PROVE  /\ Gone /\ lost' \in BOOLEAN
         /\ pc' \in [Requests -> Stages]
         /\ \A r \in Requests : pc'[r] = IF Active(r) THEN "broken" ELSE pc[r]
BY DEF Dies, Exit, Kill, Gone, Typed, Stages

LEMMA SaverStep ==
  ASSUME Typed, NEW t \in Savers, Saver(t)
  PROVE  /\ UNCHANGED <<boots, mem, op, pc, todo, got, promised, known>>
         /\ \/ /\ save[t] = "called" /\ CanRead /\ save' = [save EXCEPT ![t] = "copying"]
               /\ dump' = [dump EXCEPT ![t] = [n \in Names |-> IF n \in Gauges THEN mem[n] ELSE {}]]
               /\ UNCHANGED <<main, file, lost, blank>>
            \/ /\ save[t] = "copying" /\ save' = [save EXCEPT ![t] = "copied"]
               /\ dump' = [dump EXCEPT ![t] = [n \in Names |-> IF n \in Counters THEN mem[n] ELSE dump[t][n]]]
               /\ UNCHANGED <<main, file, lost, blank>>
            \/ /\ save[t] = "copied" /\ save' = [save EXCEPT ![t] = "created"]
               /\ file' = [file EXCEPT !.whole = FALSE]
               /\ UNCHANGED <<main, dump, lost, blank>>
            \/ /\ save[t] = "created" /\ SaveReturns(t, FALSE)
               /\ file' = [data |-> dump[t], whole |-> TRUE] /\ blank' = FALSE
            \/ /\ save[t] \in {"copied", "created"} /\ SaveReturns(t, TRUE)
               /\ UNCHANGED <<file, blank>>
BY DEF Saver, CopyGauges, CopyCounters, CreateFile, Encode, SaveFails, SaveReturns, Save,
       requestVars, historyVars, Typed

LEMMA ReturnTyped ==
  ASSUME Typed, NEW t \in Savers, NEW failed \in BOOLEAN, SaveReturns(t, failed)
  PROVE  /\ main' \in Mains /\ save' \in [Savers -> SaveStages] /\ lost' \in BOOLEAN
         /\ dump' \in [Savers -> Store]
BY EmptyIsStore DEF SaveReturns, Save, Typed, Mains, SaveStages

LEMMA NextCases ==
  ASSUME [Next]_vars
  PROVE  \/ \E r \in Requests :
              \/ Moves(r)
              \/ UpdateHandler(r) \/ UpdateJSONHandler(r)
              \/ ReadBack(r) \/ ValueHandler(r) \/ ValueJSONHandler(r)
              \/ BatchItem(r)
              \/ IndexGauges(r) \/ IndexCounters(r)
         \/ \E t \in Savers : Saver(t)
         \/ Quiet \/ Loads \/ Dies \/ UNCHANGED vars
BY DEF Next, Handler, Moves, Quiet, Loads, Dies, Terminated

LEMMA MoveStep ==
  ASSUME Typed, NEW r \in Requests, Moves(r)
  PROVE  /\ UNCHANGED <<main, boots, mem, got, save, dump, file, lost, blank>>
         /\ pc' \in [Requests -> Stages] /\ todo' \in [Requests -> SUBSET Names]
         /\ op' \in [Requests -> Ops] /\ promised' \in SUBSET Requests
         /\ known' \in [Requests -> SUBSET Requests]
         /\ \/ /\ main = "serving" /\ pc[r] = "unsent" /\ pc' = [pc EXCEPT ![r] = "begin"]
               /\ \E o \in Ops : op' = [op EXCEPT ![r] = o]
               /\ known' = [known EXCEPT ![r] = promised] /\ UNCHANGED <<todo, promised>>
            \/ /\ Serving /\ pc[r] = "begin" /\ pc' = [pc EXCEPT ![r] = "refused"]
               /\ UNCHANGED <<op, todo, known, promised>>
            \/ /\ Serving /\ pc[r] = "begin" /\ op[r].kind = "batch" /\ CanWrite
               /\ pc' = [pc EXCEPT ![r] = "locked"] /\ todo' = [todo EXCEPT ![r] = op[r].names]
               /\ UNCHANGED <<op, known, promised>>
            \/ /\ Serving /\ pc[r] = "reply" /\ pc' = [pc EXCEPT ![r] = "ok"]
               /\ promised' = IF FinalCopy THEN promised ELSE promised \cup {r}
               /\ UNCHANGED <<op, todo, known>>
<1> USE DEF saveVars, historyVars
<1>1. CASE Arrive(r)
  <2>1. PICK o \in Ops : op' = [op EXCEPT ![r] = o]
    BY <1>1 DEF Arrive
  <2>2. /\ op' \in [Requests -> Ops] /\ known' = [known EXCEPT ![r] = promised]
        /\ known' \in [Requests -> SUBSET Requests]
    BY <1>1, <2>1 DEF Arrive, Typed
  <2>3. pc' = [pc EXCEPT ![r] = "begin"] /\ pc' \in [Requests -> Stages]
    BY <1>1 DEF Arrive, Typed, Stages
  <2> QED
    BY <1>1, <2>1, <2>2, <2>3 DEF Arrive, Typed
<1>2. CASE Refuse(r)
  BY <1>2 DEF Refuse, Step, Typed, Stages
<1>3. CASE BatchLocks(r)
  <2>1. op[r].names \subseteq Names
    BY OpsNames DEF Typed
  <2> QED
    BY <1>3, <2>1 DEF BatchLocks, Step, Typed, Stages
<1>4. CASE Reply(r)
  BY <1>4 DEF Reply, Typed, Stages
<1> QED
  BY <1>1, <1>2, <1>3, <1>4 DEF Moves

LEMMA TypedInductive == Typed /\ [Next]_vars => Typed'
<1>1. SUFFICES ASSUME Typed, [Next]_vars PROVE Typed'
  OBVIOUS
<1>2. ASSUME NEW r \in Requests, Moves(r) PROVE Typed'
  BY <1>1, <1>2, MoveStep DEF Typed
<1>3. ASSUME NEW r \in Requests, UpdateHandler(r) \/ UpdateJSONHandler(r) PROVE Typed'
  <2>1. mem' \in Store
    BY <1>1, <1>3, UpdateStep, PutIsStore DEF Typed
  <2>2. pc' \in [Requests -> Stages]
    BY <1>1, <1>3, UpdateStep DEF Typed, Stages
  <2> QED
    BY <1>1, <1>3, <2>1, <2>2, UpdateStep, HandlerTyped DEF Typed
<1>4. ASSUME NEW r \in Requests, ReadBack(r) \/ ValueHandler(r) \/ ValueJSONHandler(r) PROVE Typed'
  <2>1. pc' \in [Requests -> Stages]
    BY <1>1, <1>4, GetStep DEF Typed, Stages
  <2>2. got' \in [Requests -> Store]
    <3>1. PICK n \in Names : got' = [got EXCEPT ![r][n] = mem[n]]
      BY <1>1, <1>4, GetStep
    <3>2. [got[r] EXCEPT ![n] = mem[n]] \in Store
      BY <1>1 DEF Typed, Store
    <3> QED
      BY <1>1, <3>1, <3>2 DEF Typed
  <2> QED
    BY <1>1, <1>4, <2>1, <2>2, GetStep, HandlerTyped DEF Typed
<1>5. ASSUME NEW r \in Requests, BatchItem(r) PROVE Typed'
  <2>1. mem' \in Store
    BY <1>1, <1>5, BatchStep, PutIsStore DEF Typed
  <2>2. pc' \in [Requests -> Stages] /\ todo' \in [Requests -> SUBSET Names]
    BY <1>1, <1>5, BatchStep DEF Typed, Stages
  <2> QED
    BY <1>1, <1>5, <2>1, <2>2, BatchStep, HandlerTyped DEF Typed
<1>6. ASSUME NEW r \in Requests, IndexGauges(r) \/ IndexCounters(r) PROVE Typed'
  <2>1. pc' \in [Requests -> Stages]
    BY <1>1, <1>6, IndexStep DEF Typed, Stages
  <2> QED
    BY <1>1, <1>6, <2>1, IndexStep, HandlerTyped DEF Typed
<1>7. ASSUME NEW t \in Savers, Saver(t) PROVE Typed'
  <2>1. \/ SaveReturns(t, FALSE) \/ SaveReturns(t, TRUE)
        \/ /\ save' \in [Savers -> SaveStages] /\ dump' \in [Savers -> Store]
           /\ UNCHANGED <<main, lost, blank>>
    <3>1. \A K : [n \in Names |-> IF n \in K THEN mem[n] ELSE {}] \in Store
      BY <1>1 DEF Typed, Store
    <3>2. [n \in Names |-> IF n \in Counters THEN mem[n] ELSE dump[t][n]] \in Store
      BY <1>1 DEF Typed, Store
    <3>3. CASE ~(SaveReturns(t, FALSE) \/ SaveReturns(t, TRUE))
      <4>1. UNCHANGED <<main, lost, blank>>
        BY <1>1, <1>7, <3>3, SaverStep
      <4>2. PICK s \in {"copying", "copied", "created"} : save' = [save EXCEPT ![t] = s]
        BY <1>1, <1>7, <3>3, SaverStep
      <4>3. save' \in [Savers -> SaveStages]
        BY <1>1, <4>2 DEF Typed, SaveStages
      <4>4. dump' = dump \/ \E d \in Store : dump' = [dump EXCEPT ![t] = d]
        BY <1>1, <1>7, <3>1, <3>2, <3>3, SaverStep
      <4>5. dump' \in [Savers -> Store]
        BY <1>1, <4>4 DEF Typed
      <4> QED
        BY <4>1, <4>3, <4>5
    <3> QED
      BY <3>3
  <2>2. /\ main' \in Mains /\ save' \in [Savers -> SaveStages] /\ lost' \in BOOLEAN
        /\ dump' \in [Savers -> Store]
    BY <1>1, <2>1, ReturnTyped DEF Typed
  <2>3. file' \in [data : Store, whole : BOOLEAN] /\ blank' \in BOOLEAN
    <3>1. file' \in {file, [file EXCEPT !.whole = FALSE], [data |-> dump[t], whole |-> TRUE]}
      BY <1>1, <1>7, SaverStep
    <3>2. dump[t] \in Store /\ file \in [data : Store, whole : BOOLEAN]
      BY <1>1 DEF Typed
    <3>3. file' \in [data : Store, whole : BOOLEAN]
      <4>1. [data |-> dump[t], whole |-> TRUE] \in [data : Store, whole : BOOLEAN]
        BY <3>2
      <4>2. [file EXCEPT !.whole = FALSE] \in [data : Store, whole : BOOLEAN]
        BY <3>2
      <4> QED
        BY <3>1, <3>2, <4>1, <4>2
    <3>4. blank' \in {blank, FALSE}
      BY <1>1, <1>7, SaverStep
    <3> QED
      BY <1>1, <3>3, <3>4 DEF Typed
  <2> QED
    BY <1>1, <1>7, <2>2, <2>3, SaverStep DEF Typed
<1>8. CASE Quiet
  BY <1>1, <1>8, QuietStep DEF Typed
<1>9. CASE Loads
  <2>1. mem' \in Store /\ main' \in Mains /\ save' \in [Savers -> SaveStages]
    BY <1>1, <1>9, LoadStep DEF Typed, Mains, SaveStages
  <2> QED
    BY <1>1, <1>9, <2>1, LoadStep DEF Typed
<1>10. CASE Dies
  <2>1. mem' \in Store /\ dump' \in [Savers -> Store] /\ save' \in [Savers -> SaveStages]
        /\ main' \in Mains /\ todo' \in [Requests -> SUBSET Names]
    BY <1>1, <1>10, DieStep, EmptyIsStore DEF Gone, Mains, SaveStages
  <2> QED
    BY <1>1, <1>10, <2>1, DieStep DEF Typed, Gone
<1>11. CASE UNCHANGED vars
  BY <1>1, <1>11 DEF Typed, vars, requestVars, saveVars, historyVars
<1> QED
  BY <1>1, <1>2, <1>3, <1>4, <1>5, <1>6, <1>7, <1>8, <1>9, <1>10, <1>11, NextCases

LEMMA TypedHolds == Spec => []Typed
BY TypedInitial, TypedInductive, PTL DEF Spec
----
(***************************************************************************)
(* The locks, and which goroutines there are                               *)
(***************************************************************************)
\* At most one batch holds the write lock, and no save copies meanwhile.  The
\* handlers and the savers run between the start of the server and its end,
\* and the final save after the periodic one.
Shape ==
  /\ \A r, q \in Requests : pc[r] = "locked" /\ pc[q] = "locked" => r = q
  /\ \A r \in Requests :
       /\ pc[r] = "locked" => /\ op[r].kind = "batch" /\ todo[r] # {}
                              /\ \A t \in Savers : save[t] # "copying"
       /\ todo[r] \subseteq op[r].names
       /\ todo[r] # {} => pc[r] = "locked"
       /\ pc[r] = "get" => op[r].kind = "json" /\ op[r].names \subseteq Counters
       /\ pc[r] = "counters" => op[r].kind = "index"
       /\ Active(r) => Serving
  /\ save["final"] # "off" => main = "saving"
  /\ save["periodic"] # "off" => main \in {"serving", "draining", "stopping"}

LEMMA ShapeInitial == Init => Shape
BY DEF Init, Shape, Active, Savers

\* A handler that does not take the lock.
LEMMA ShapeStays ==
  ASSUME Typed, Shape, NEW r \in Requests, NEW to \in {"counters", "get", "reply", "refused"},
         Rest, Serving, todo' = todo \/ todo' = [todo EXCEPT ![r] = {}],
         pc' = [pc EXCEPT ![r] = to], pc[r] # "locked" \/ todo'[r] = {},
         to = "get" => op[r].kind = "json" /\ op[r].names \subseteq Counters,
         to = "counters" => op[r].kind = "index"
  PROVE  Shape'
<1>1. UNCHANGED <<main, op, save>>
  BY DEF Rest, saveVars
<1>2. ASSUME NEW q \in Requests
      PROVE  /\ pc'[q] = IF q = r THEN to ELSE pc[q]
             /\ todo'[q] = {} \/ todo'[q] = todo[q]
             /\ pc'[q] = "locked" => pc[q] = "locked" /\ todo'[q] = todo[q]
             /\ todo'[q] # {} => pc'[q] = "locked"
  BY DEF Typed, Shape
<1> QED
  BY <1>1, <1>2 DEF Shape, Active, Serving

LEMMA ShapeInductive == Typed /\ Shape /\ [Next]_vars => Shape'
<1>1. SUFFICES ASSUME Typed, Shape, [Next]_vars PROVE Shape'
  OBVIOUS
<1>2. ASSUME NEW r \in Requests, Moves(r) PROVE Shape'
  <2>1. UNCHANGED <<main, save>>
    BY <1>1, <1>2, MoveStep
  <2>2. CASE pc[r] = "unsent" /\ main = "serving"
    <3>1. pc' = [pc EXCEPT ![r] = "begin"] /\ UNCHANGED todo
      BY <1>1, <1>2, <2>2, MoveStep
    <3>2. todo[r] = {} /\ \A q \in Requests \ {r} : op'[q] = op[q]
      BY <1>1, <1>2, <2>2, MoveStep DEF Shape, Typed
    <3> QED
      BY <1>1, <2>1, <2>2, <3>1, <3>2 DEF Shape, Active, Serving, Typed
  <2>3. CASE pc[r] = "begin"
    <3>1. op' = op /\ Serving
      BY <1>1, <1>2, <2>3, MoveStep
    <3>2. CASE pc' = [pc EXCEPT ![r] = "refused"] /\ todo' = todo
      BY <1>1, <2>1, <2>3, <3>1, <3>2 DEF Shape, Active, Serving, Typed
    <3>3. CASE /\ op[r].kind = "batch" /\ CanWrite
               /\ pc' = [pc EXCEPT ![r] = "locked"] /\ todo' = [todo EXCEPT ![r] = op[r].names]
      <4>1. op[r].names # {}
        <5>1. op[r] \in Ops
          BY <1>1 DEF Typed
        <5>2. op[r].names \in (SUBSET Names) \ {{}}
          BY <3>3, <5>1 DEF Ops
        <5> QED
          BY <5>2
      <4>2. /\ \A q \in Requests : pc[q] # "locked" /\ todo[q] = {}
            /\ \A t \in Savers : save[t] # "copying"
        BY <1>1, <3>3 DEF CanWrite, CanRead, Shape
      <4>3. \A q \in Requests : /\ pc'[q] = IF q = r THEN "locked" ELSE pc[q]
                                /\ todo'[q] = IF q = r THEN op[r].names ELSE {}
        BY <1>1, <3>3, <4>2 DEF Typed
      <4> QED
        BY <1>1, <2>1, <3>1, <3>3, <4>1, <4>2, <4>3 DEF Shape, Active, Serving
    <3> QED
      BY <1>1, <1>2, <2>3, <3>2, <3>3, MoveStep
  <2>4. CASE pc[r] = "reply" /\ Serving
    <3>1. pc' = [pc EXCEPT ![r] = "ok"] /\ UNCHANGED <<op, todo>>
      BY <1>1, <1>2, <2>4, MoveStep
    <3> QED
      BY <1>1, <2>1, <2>4, <3>1 DEF Shape, Active, Serving, Typed
  <2> QED
    BY <1>1, <1>2, <2>2, <2>3, <2>4, MoveStep
<1>3. ASSUME NEW r \in Requests, UpdateHandler(r) \/ UpdateJSONHandler(r) PROVE Shape'
  <2>1. PICK to \in {"reply", "get"} : pc' = [pc EXCEPT ![r] = to]
    BY <1>1, <1>3, UpdateStep
  <2>2. pc'[r] = to
    BY <1>1, <2>1 DEF Typed
  <2> QED
    BY <1>1, <1>3, <2>1, <2>2, UpdateStep, ShapeStays
<1>4. ASSUME NEW r \in Requests, ReadBack(r) \/ ValueHandler(r) \/ ValueJSONHandler(r) PROVE Shape'
  BY <1>1, <1>4, GetStep, ShapeStays
<1>5. ASSUME NEW r \in Requests, BatchItem(r) PROVE Shape'
  <2>1. Rest /\ Serving /\ pc[r] = "locked"
    BY <1>1, <1>5, BatchStep
  <2>2. CASE \E to \in {"refused", "reply"} :
               pc' = [pc EXCEPT ![r] = to] /\ todo' = [todo EXCEPT ![r] = {}]
    <3>1. todo'[r] = {}
      BY <1>1, <2>2 DEF Typed
    <3> QED
      BY <1>1, <2>1, <2>2, <3>1, ShapeStays
  <2>3. ASSUME NEW n \in todo[r], todo[r] # {n},
               pc' = [pc EXCEPT ![r] = "locked"], todo' = [todo EXCEPT ![r] = todo[r] \ {n}]
        PROVE  Shape'
    <3>1. pc' = pc /\ UNCHANGED <<main, op, save>>
      BY <1>1, <2>1, <2>3 DEF Typed, Rest, saveVars
    <3>2. \A q \in Requests : todo'[q] = IF q = r THEN todo[r] \ {n} ELSE todo[q]
      BY <1>1, <2>3 DEF Typed
    <3>3. todo[r] \ {n} # {}
      BY <2>3
    <3> QED
      BY <1>1, <2>1, <3>1, <3>2, <3>3 DEF Shape, Active, Serving
  <2> QED
    BY <1>1, <1>5, <2>2, <2>3, BatchStep
<1>6. ASSUME NEW r \in Requests, IndexGauges(r) \/ IndexCounters(r) PROVE Shape'
  BY <1>1, <1>6, IndexStep, ShapeStays
<1>7. ASSUME NEW t \in Savers, Saver(t) PROVE Shape'
  <2>1. UNCHANGED <<op, pc, todo>>
    BY <1>1, <1>7, SaverStep
  <2>2. CASE main' = main /\ save[t] # "off" /\ \E to \in {"copied", "created"} : save' = [save EXCEPT ![t] = to]
    BY <1>1, <2>1, <2>2 DEF Shape, Active, Serving, Typed, Savers
  <2>3. CASE CanRead /\ main' = main /\ save[t] # "off" /\ save' = [save EXCEPT ![t] = "copying"]
    BY <1>1, <2>1, <2>3 DEF Shape, Active, Serving, Typed, CanRead, Savers
  <2>4. ASSUME NEW failed, SaveReturns(t, failed), save[t] # "off" PROVE Shape'
    <3>1. CASE t = "periodic"
      <4>1. save' = [save EXCEPT !["periodic"] = "idle"] /\ main' = main
        BY <2>4, <3>1 DEF SaveReturns, Save
      <4> QED
        BY <1>1, <2>1, <2>4, <3>1, <4>1 DEF Shape, Active, Serving, Typed, Savers
    <3>2. CASE t = "final"
      <4>1. save' = [save EXCEPT !["final"] = "off"] /\ main' = "exit" /\ main = "saving"
        BY <1>1, <2>4, <3>2 DEF SaveReturns, Save, Shape
      <4> QED
        BY <1>1, <2>1, <4>1 DEF Shape, Active, Serving, Typed, Savers
    <3> QED
      BY <3>1, <3>2 DEF Savers
  <2> QED
    BY <1>1, <1>7, <2>2, <2>3, <2>4, SaverStep
<1>8. CASE Quiet
  <2>1. UNCHANGED <<op, pc, todo>>
    BY <1>1, <1>8, QuietStep
  <2>2. CASE Tick \/ PeriodicReturns
    BY <1>1, <2>1, <2>2 DEF Tick, PeriodicReturns, Save, Shape, Active, Serving, Typed, Savers
  <2>3. CASE Boot
    <3>1. main = "off" /\ main' = "boot" /\ save' = save
      BY <2>3 DEF Boot, Main
    <3> QED
      BY <1>1, <2>1, <3>1 DEF Shape, Active, Serving
  <2>4. CASE Signal \/ Drained \/ DrainTimeout
    <3>1. /\ \/ main = "serving" /\ main' = "draining"
             \/ main = "draining" /\ main' = "stopping"
          /\ save' = save
      BY <2>4 DEF Signal, Drained, DrainTimeout, Main
    <3> QED
      BY <1>1, <2>1, <3>1 DEF Shape, Active, Serving
  <2>5. CASE Stopped
    BY <1>1, <2>1, <2>5 DEF Stopped, Main, Shape, Active, Serving, Typed, Savers
  <2> QED
    BY <1>8, <2>2, <2>3, <2>4, <2>5 DEF Quiet
<1>9. CASE Loads
  BY <1>1, <1>9, LoadStep DEF Shape, Active, Serving, Typed, Savers
<1>10. CASE Dies
  <2>1. /\ main' = "off" /\ op' = op /\ \A t \in Savers : save'[t] = "off"
        /\ \A r \in Requests : todo'[r] = {} /\ pc'[r] = IF Active(r) THEN "broken" ELSE pc[r]
    BY <1>1, <1>10, DieStep DEF Gone
  <2> QED
    BY <1>1, <2>1 DEF Shape, Active, Savers
<1>11. CASE UNCHANGED vars
  BY <1>1, <1>11 DEF vars, requestVars, saveVars, historyVars, Shape, Active, Serving
<1> QED
  BY <1>1, <1>2, <1>3, <1>4, <1>5, <1>6, <1>7, <1>8, <1>9, <1>10, <1>11, NextCases

LEMMA ShapeHolds == Spec => []Shape
BY ShapeInitial, ShapeInductive, TypedHolds, PTL DEF Spec
----
(***************************************************************************)
(* What a request leaves behind                                            *)
(***************************************************************************)
\* A request that has been sent keeps its metrics and does not begin again.
LEMMA Progress ==
  ASSUME Typed, [Next]_vars, NEW r \in Requests, pc[r] # "unsent"
  PROVE  op'[r] = op[r] /\ pc'[r] # "unsent" /\ (pc[r] # "begin" => pc'[r] # "begin")
<1>1. ASSUME NEW q \in Requests, Moves(q) PROVE op'[r] = op[r] /\ pc'[r] # "unsent" /\ (pc[r] # "begin" => pc'[r] # "begin")
  BY <1>1, MoveStep DEF Typed
<1>2. ASSUME NEW q \in Requests, UpdateHandler(q) \/ UpdateJSONHandler(q)
      PROVE  op'[r] = op[r] /\ pc'[r] # "unsent" /\ (pc[r] # "begin" => pc'[r] # "begin")
  BY <1>2, UpdateStep DEF Typed, Rest
<1>3. ASSUME NEW q \in Requests, ReadBack(q) \/ ValueHandler(q) \/ ValueJSONHandler(q)
      PROVE  op'[r] = op[r] /\ pc'[r] # "unsent" /\ (pc[r] # "begin" => pc'[r] # "begin")
  BY <1>3, GetStep DEF Typed, Rest
<1>4. ASSUME NEW q \in Requests, BatchItem(q)
      PROVE  op'[r] = op[r] /\ pc'[r] # "unsent" /\ (pc[r] # "begin" => pc'[r] # "begin")
  BY <1>4, BatchStep DEF Typed, Rest
<1>5. ASSUME NEW q \in Requests, IndexGauges(q) \/ IndexCounters(q)
      PROVE  op'[r] = op[r] /\ pc'[r] # "unsent" /\ (pc[r] # "begin" => pc'[r] # "begin")
  BY <1>5, IndexStep DEF Typed, Rest
<1>6. ASSUME NEW t \in Savers, Saver(t) PROVE op' = op /\ pc' = pc
  BY <1>6, SaverStep
<1>7. CASE Quiet \/ Loads \/ UNCHANGED vars
  BY <1>7, QuietStep, LoadStep DEF vars, requestVars
<1>8. CASE Dies
  BY <1>8, DieStep DEF Gone
<1> QED
  BY <1>1, <1>2, <1>3, <1>4, <1>5, <1>6, <1>7, <1>8, NextCases

\* Request r writes the metric n of the store.
Puts(r, n) ==
  /\ n \in op[r].names /\ op'[r] = op[r] /\ pc'[r] \notin {"unsent", "begin"}
  /\ mem'[n] = IF n \in Counters THEN mem[n] \cup {r} ELSE {r}

\* Where the contents of a metric come from, in every store.
LEMMA Flow ==
  ASSUME Typed, Shape, [Next]_vars, NEW n \in Names
  PROVE  /\ \/ mem'[n] \in {mem[n], file.data[n], {}}
            \/ \E r \in Requests : Puts(r, n)
         /\ \A t \in Savers : dump'[t][n] \in {dump[t][n], mem[n], {}}
         /\ \A q \in Requests : got'[q][n] \in {got[q][n], mem[n]}
         /\ file'.data[n] = file.data[n] \/ \E t \in Savers : file'.data[n] = dump[t][n]
<1>1. ASSUME NEW r \in Requests, Moves(r) PROVE UNCHANGED <<mem, dump, got, file>>
  BY <1>1, MoveStep
<1>2. ASSUME NEW r \in Requests, UpdateHandler(r) \/ UpdateJSONHandler(r)
      PROVE  /\ UNCHANGED <<dump, got, file>>
             /\ mem'[n] = mem[n] \/ Puts(r, n)
  <2>1. PICK m \in op[r].names : mem' = Put(mem, m, r)
    BY <1>2, UpdateStep
  <2>2. op'[r] = op[r] /\ pc'[r] \in {"reply", "get"} /\ UNCHANGED <<dump, got, file>>
    BY <1>2, UpdateStep DEF Rest, saveVars, Typed
  <2>3. mem'[n] = IF m = n THEN IF n \in Counters THEN mem[n] \cup {r} ELSE {r} ELSE mem[n]
    BY <2>1 DEF Put, Typed, Store
  <2> QED
    BY <2>1, <2>2, <2>3 DEF Puts
<1>3. ASSUME NEW r \in Requests, ReadBack(r) \/ ValueHandler(r) \/ ValueJSONHandler(r)
      PROVE  /\ UNCHANGED <<mem, dump, file>>
             /\ \A q \in Requests : got'[q][n] \in {got[q][n], mem[n]}
  <2>1. PICK m \in Names : got' = [got EXCEPT ![r][m] = mem[m]]
    BY <1>3, GetStep
  <2>2. UNCHANGED <<mem, dump, file>>
    BY <1>3, GetStep DEF Rest, saveVars
  <2> QED
    BY <2>1, <2>2 DEF Typed, Store
<1>4. ASSUME NEW r \in Requests, BatchItem(r)
      PROVE  /\ UNCHANGED <<dump, got, file>>
             /\ mem'[n] = mem[n] \/ Puts(r, n)
  <2>1. UNCHANGED <<dump, got, file, op>>
    BY <1>4, BatchStep DEF Rest, saveVars
  <2>2. pc'[r] \in {"reply", "locked", "refused"}
    BY <1>4, BatchStep DEF Typed
  <2>3. PICK m \in todo[r] : \/ mem' = mem
                             \/ m \notin op[r].broken /\ mem' = Put(mem, m, r)
    BY <1>4, BatchStep
  <2>4. CASE mem' = Put(mem, m, r)
    <3>1. mem'[n] = IF m = n THEN IF n \in Counters THEN mem[n] \cup {r} ELSE {r} ELSE mem[n]
      BY <2>4 DEF Put, Typed, Store
    <3> QED
      BY <2>1, <2>2, <2>3, <3>1 DEF Puts, Shape
  <2> QED
    BY <2>1, <2>3, <2>4
<1>5. ASSUME NEW r \in Requests, IndexGauges(r) \/ IndexCounters(r)
      PROVE  /\ UNCHANGED <<mem, dump, file>>
             /\ \A q \in Requests : got'[q][n] \in {got[q][n], mem[n]}
  <2>1. UNCHANGED <<mem, dump, file>>
    BY <1>5, IndexStep DEF Rest, saveVars
  <2>2. PICK K \in {Gauges, Counters} : got' = [got EXCEPT ![r] = Page(r, K)]
    BY <1>5, IndexStep
  <2> QED
    BY <2>1, <2>2 DEF Page, Typed
<1>6. ASSUME NEW t \in Savers, Saver(t)
      PROVE  /\ UNCHANGED <<mem, got>>
             /\ \A u \in Savers : dump'[u][n] \in {dump[u][n], mem[n], {}}
             /\ file'.data[n] = file.data[n] \/ file'.data[n] = dump[t][n]
  <2>1. UNCHANGED <<mem, got>>
    BY <1>6, SaverStep
  <2>2. \/ dump' = dump
        \/ dump' = [dump EXCEPT ![t] = [m \in Names |-> IF m \in Gauges THEN mem[m] ELSE {}]]
        \/ dump' = [dump EXCEPT ![t] = [m \in Names |-> IF m \in Counters THEN mem[m] ELSE dump[t][m]]]
        \/ dump' = [dump EXCEPT ![t] = EmptyStore]
    BY <1>6, SaverStep DEF SaveReturns
  <2>3. \A u \in Savers : dump'[u][n] \in {dump[u][n], mem[n], {}}
    BY <2>2 DEF Typed, EmptyStore
  <2>4. file'.data = file.data \/ file'.data = dump[t]
    <3>1. file' \in {file, [file EXCEPT !.whole = FALSE], [data |-> dump[t], whole |-> TRUE]}
      BY <1>6, SaverStep
    <3> QED
      BY <3>1 DEF Typed
  <2> QED
    BY <2>1, <2>3, <2>4
<1>7. CASE Quiet \/ Loads \/ UNCHANGED vars
  BY <1>7, QuietStep, LoadStep DEF vars, requestVars, saveVars
<1>8. CASE Dies
  BY <1>8, DieStep DEF Gone, EmptyStore
<1> QED
  BY <1>1, <1>2, <1>3, <1>4, <1>5, <1>6, <1>7, <1>8, NextCases

\* What a metric may hold: writes of requests that name it and have begun,
\* and one at most if it is a gauge.
Cell(S, n, o, p) ==
  /\ n \in Gauges => \A r, q \in S : r = q
  /\ \A r \in S : n \in o[r].names /\ p[r] \notin {"unsent", "begin"}

CellInv ==
  \A n \in Names :
    /\ Cell(mem[n], n, op, pc) /\ Cell(file.data[n], n, op, pc)
    /\ \A t \in Savers : Cell(dump[t][n], n, op, pc)
    /\ \A q \in Requests : Cell(got[q][n], n, op, pc)

LEMMA CellStays ==
  ASSUME Typed, [Next]_vars, NEW n \in Names, NEW S \in SUBSET Requests, Cell(S, n, op, pc)
  PROVE  Cell(S, n, op', pc')
BY Progress DEF Cell

LEMMA CellInitial == Init => CellInv
BY DEF Init, CellInv, Cell, EmptyStore

LEMMA CellInductive == Typed /\ Shape /\ CellInv /\ [Next]_vars => CellInv'
<1>1. SUFFICES ASSUME Typed, Shape, CellInv, [Next]_vars, NEW n \in Names
               PROVE  /\ Cell(mem'[n], n, op', pc') /\ Cell(file'.data[n], n, op', pc')
                      /\ \A t \in Savers : Cell(dump'[t][n], n, op', pc')
                      /\ \A q \in Requests : Cell(got'[q][n], n, op', pc')
  BY DEF CellInv
<1>2. /\ mem[n] \in SUBSET Requests /\ file.data[n] \in SUBSET Requests
      /\ \A t \in Savers : dump[t][n] \in SUBSET Requests
      /\ \A q \in Requests : got[q][n] \in SUBSET Requests
  BY <1>1 DEF Typed, Store
<1>3. \A S \in SUBSET Requests : Cell(S, n, op, pc) => Cell(S, n, op', pc')
  BY <1>1, CellStays
<1>4. /\ Cell(mem[n], n, op', pc') /\ Cell(file.data[n], n, op', pc') /\ Cell({}, n, op', pc')
      /\ \A t \in Savers : Cell(dump[t][n], n, op', pc')
      /\ \A q \in Requests : Cell(got[q][n], n, op', pc')
  <2>1. Cell({}, n, op', pc')
    BY DEF Cell
  <2> QED
    BY <1>1, <1>2, <1>3, <2>1 DEF CellInv
<1>5. Cell(mem'[n], n, op', pc')
  <2>1. ASSUME NEW r \in Requests, Puts(r, n) PROVE Cell(mem'[n], n, op', pc')
    BY <1>4, <2>1, ServerAssumption DEF Puts, Cell, Names
  <2> QED
    BY <1>1, <1>4, <2>1, Flow
<1> QED
  BY <1>1, <1>4, <1>5, Flow

LEMMA CellHolds == Spec => []CellInv
BY CellInitial, CellInductive, TypedHolds, ShapeHolds, PTL DEF Spec

\* Every variable keeps its type, and a gauge has one value in every store.
THEOREM ServerTyping == Spec => []TypeOK
<1>1. Typed /\ CellInv => TypeOK
  BY DEF Typed, CellInv, Cell, TypeOK, IsStore, Mains, Stages, SaveStages, Names
<1> QED
  BY <1>1, TypedHolds, CellHolds, PTL
----
(***************************************************************************)
(* Batches are whole                                                       *)
(***************************************************************************)
\* Request r writes metric n under the write lock.
WritesOne(r, n) ==
  /\ Rest /\ Serving /\ got' = got
  /\ n \in op[r].names \cap Names /\ mem' = Put(mem, n, r)
  /\ \A t \in Savers : save[t] # "copying"
  /\ \A q \in Requests : pc[q] = "locked" => q = r
  /\ \/ /\ pc[r] = "begin" /\ op[r].kind \in {"update", "json"} /\ op[r].names = {n}
        /\ todo' = todo /\ \E to \in {"reply", "get"} : pc' = [pc EXCEPT ![r] = to]
     \/ /\ pc[r] = "locked" /\ op[r].kind = "batch" /\ n \in todo[r] \ op[r].broken
        /\ todo' = [todo EXCEPT ![r] = todo[r] \ {n}]
        /\ pc' = [pc EXCEPT ![r] = IF todo[r] = {n} THEN "reply" ELSE "locked"]

\* A step of a handler that writes nothing.
Looks(r) ==
  /\ UNCHANGED <<main, boots, mem, save, dump, file, lost, blank>>
  /\ \A q \in Requests \ {r} : /\ op'[q] = op[q] /\ pc'[q] = pc[q] /\ todo'[q] = todo[q]
                               /\ got'[q] = got[q] /\ known'[q] = known[q]
  /\ pc[r] # "unsent" => op'[r] = op[r] /\ known'[r] = known[r] /\ Serving
  /\ pc[r] \in {"unsent", "begin", "locked", "counters", "get", "reply"} /\ pc'[r] # pc[r]
  /\ pc'[r] = "reply" => pc[r] \in {"begin", "get", "counters"} /\ CanRead
  /\ pc[r] = "locked" => op[r].broken # {} /\ pc'[r] = "refused"
  /\ pc'[r] = "locked" => todo'[r] = op'[r].names /\ pc[r] = "begin"
  /\ pc'[r] # "ok" => promised' = promised

LEMMA WriteStep ==
  ASSUME Typed, Shape, NEW r \in Requests,
         UpdateHandler(r) \/ UpdateJSONHandler(r) \/ (BatchItem(r) /\ mem' # mem)
  PROVE  \E n \in Names : WritesOne(r, n)
<1>1. CASE UpdateHandler(r) \/ UpdateJSONHandler(r)
  <2>1. PICK n \in op[r].names \cap Names : mem' = Put(mem, n, r) /\ op[r].names = {n}
    BY <1>1, UpdateStep
  <2>2. PICK to \in {"reply", "get"} : pc' = [pc EXCEPT ![r] = to]
    BY <1>1, UpdateStep
  <2> QED
    BY <1>1, <2>1, <2>2, UpdateStep DEF WritesOne, CanWrite, CanRead
<1>2. CASE BatchItem(r) /\ mem' # mem
  <2>1. Rest /\ Serving /\ got' = got /\ pc[r] = "locked"
    BY <1>2, BatchStep
  <2>2. PICK n \in todo[r] \cap Names :
          /\ n \notin op[r].broken /\ mem' = Put(mem, n, r)
          /\ todo' = [todo EXCEPT ![r] = todo[r] \ {n}]
          /\ pc' = [pc EXCEPT ![r] = IF todo[r] = {n} THEN "reply" ELSE "locked"]
    BY <1>2, BatchStep
  <2> QED
    BY <2>1, <2>2 DEF WritesOne, Shape
<1> QED
  BY <1>1, <1>2

LEMMA LookStep ==
  ASSUME Typed, Shape, NEW r \in Requests,
         \/ Moves(r) \/ ReadBack(r) \/ ValueHandler(r) \/ ValueJSONHandler(r)
         \/ IndexGauges(r) \/ IndexCounters(r)
  PROVE  Looks(r)
<1> USE DEF Looks, Rest, saveVars, historyVars, Typed
<1>1. CASE Moves(r)
  <2>1. /\ UNCHANGED <<main, boots, mem, got, save, dump, file, lost, blank>>
        /\ pc'[r] # "reply" /\ pc[r] \notin {"locked"} /\ pc'[r] # pc[r]
        /\ pc[r] \in {"unsent", "begin", "reply"}
    BY <1>1, MoveStep
  <2>2. \A q \in Requests \ {r} : op'[q] = op[q] /\ pc'[q] = pc[q] /\ todo'[q] = todo[q] /\ known'[q] = known[q]
    BY <1>1, MoveStep
  <2>3. /\ pc[r] # "unsent" => op'[r] = op[r] /\ known'[r] = known[r] /\ Serving
        /\ pc'[r] = "locked" => todo'[r] = op'[r].names /\ pc[r] = "begin"
        /\ pc'[r] # "ok" => promised' = promised
    BY <1>1, MoveStep
  <2> QED
    BY <2>1, <2>2, <2>3
<1>2. CASE ReadBack(r) \/ ValueHandler(r) \/ ValueJSONHandler(r)
  BY <1>2, GetStep
<1>3. CASE IndexGauges(r) \/ IndexCounters(r)
  BY <1>3, IndexStep
<1> QED
  BY <1>1, <1>2, <1>3

LEMMA RefuseStep ==
  ASSUME Typed, Shape, NEW r \in Requests, BatchItem(r), mem' = mem
  PROVE  Looks(r) \/ \E n \in Names : WritesOne(r, n)
<1>1. PICK n \in todo[r] \cap Names :
              \/ /\ n \in op[r].broken /\ mem' = mem
                 /\ pc' = [pc EXCEPT ![r] = "refused"] /\ todo' = [todo EXCEPT ![r] = {}]
              \/ /\ n \notin op[r].broken /\ mem' = Put(mem, n, r)
                 /\ todo' = [todo EXCEPT ![r] = todo[r] \ {n}]
                 /\ pc' = [pc EXCEPT ![r] = IF todo[r] = {n} THEN "reply" ELSE "locked"]
  BY BatchStep
<1>2. Rest /\ Serving /\ got' = got /\ pc[r] = "locked"
  BY BatchStep
<1>3. CASE /\ n \in op[r].broken /\ mem' = mem
           /\ pc' = [pc EXCEPT ![r] = "refused"] /\ todo' = [todo EXCEPT ![r] = {}]
  BY <1>2, <1>3 DEF Looks, Rest, saveVars, historyVars, Typed
<1>4. CASE /\ n \notin op[r].broken /\ mem' = Put(mem, n, r)
           /\ todo' = [todo EXCEPT ![r] = todo[r] \ {n}]
           /\ pc' = [pc EXCEPT ![r] = IF todo[r] = {n} THEN "reply" ELSE "locked"]
  <2>1. /\ \A t \in Savers : save[t] # "copying"
        /\ op[r].kind = "batch" /\ todo[r] \subseteq op[r].names
    BY <1>2 DEF Shape
  <2>2. \A q \in Requests : pc[q] = "locked" => q = r
    BY <1>2 DEF Shape
  <2>3. n \in op[r].names \cap Names /\ n \in todo[r] \ op[r].broken
    BY <1>4, <2>1, Zenon
  <2>4. WritesOne(r, n)
    BY <1>2, <1>4, <2>1, <2>2, <2>3, Zenon DEF WritesOne
  <2> QED
    BY <2>4
<1> QED
  BY <1>1, <1>3, <1>4

\* The steps there are, by what they do to the stores.
LEMMA StepKinds ==
  ASSUME Typed, Shape, [Next]_vars
  PROVE  \/ \E r \in Requests : Looks(r) \/ \E n \in Names : WritesOne(r, n)
         \/ \E t \in Savers : Saver(t)
         \/ Quiet \/ Loads \/ Dies \/ UNCHANGED vars
BY NextCases, WriteStep, LookStep, RefuseStep

\* A copy under way is of the gauges there are, as the store keeps still.
CopyInv ==
  \A t \in Savers :
    /\ save[t] \in {"off", "idle", "called"} => dump[t] = EmptyStore
    /\ save[t] = "copying" => dump[t] = [n \in Names |-> IF n \in Gauges THEN mem[n] ELSE {}]

LEMMA CopyInitial == Init => CopyInv
BY DEF Init, CopyInv

LEMMA CopyInductive == Typed /\ Shape /\ CopyInv /\ [Next]_vars => CopyInv'
<1>1. SUFFICES ASSUME Typed, Shape, CopyInv, [Next]_vars PROVE CopyInv'
  OBVIOUS
<1>2. ASSUME NEW r \in Requests, Looks(r) PROVE CopyInv'
  BY <1>1, <1>2 DEF Looks, CopyInv
<1>3. ASSUME NEW r \in Requests, NEW n \in Names, WritesOne(r, n) PROVE CopyInv'
  BY <1>1, <1>3 DEF WritesOne, Rest, saveVars, CopyInv
<1>4. ASSUME NEW t \in Savers, Saver(t) PROVE CopyInv'
  <2>1. mem' = mem
    BY <1>1, <1>4, SaverStep
  <2>2. CASE \E failed : SaveReturns(t, failed)
    BY <1>1, <2>1, <2>2 DEF SaveReturns, Save, CopyInv, Typed
  <2>3. CASE /\ save' = [save EXCEPT ![t] = "copying"]
             /\ dump' = [dump EXCEPT ![t] = [n \in Names |-> IF n \in Gauges THEN mem[n] ELSE {}]]
    BY <1>1, <2>1, <2>3 DEF CopyInv, Typed
  <2>4. CASE /\ save' = [save EXCEPT ![t] = "copied"]
             /\ dump' = [dump EXCEPT ![t] = [n \in Names |-> IF n \in Counters THEN mem[n] ELSE dump[t][n]]]
    BY <1>1, <2>1, <2>4 DEF CopyInv, Typed
  <2>5. CASE save' = [save EXCEPT ![t] = "created"] /\ dump' = dump
    BY <1>1, <2>1, <2>5 DEF CopyInv, Typed
  <2> QED
    BY <1>1, <1>4, <2>2, <2>3, <2>4, <2>5, SaverStep
<1>5. CASE Quiet
  <2>1. UNCHANGED <<mem, dump>>
    BY <1>1, <1>5, QuietStep
  <2>2. CASE Tick \/ PeriodicReturns
    BY <1>1, <2>1, <2>2 DEF Tick, PeriodicReturns, Save, CopyInv, Typed, Savers
  <2>3. CASE Stopped
    <3>1. save' = [save EXCEPT !["final"] = "called"] /\ save["final"] = "off"
      BY <1>1, <2>3 DEF Stopped, Main, Shape
    <3> QED
      BY <1>1, <2>1, <3>1 DEF CopyInv, Typed, Savers
  <2>4. CASE Boot \/ Signal \/ Drained \/ DrainTimeout
    BY <1>1, <2>1, <2>4 DEF Boot, Signal, Drained, DrainTimeout, CopyInv
  <2> QED
    BY <1>5, <2>2, <2>3, <2>4 DEF Quiet
<1>6. CASE Loads
  <2>1. \A t \in Savers : save[t] = "off" /\ save'[t] \in {"off", "idle"}
    BY <1>1, <1>6, LoadStep DEF Shape, Typed, Savers
  <2> QED
    BY <1>1, <1>6, <2>1, LoadStep DEF CopyInv
<1>7. CASE Dies
  BY <1>1, <1>7, DieStep DEF Gone, CopyInv
<1>8. CASE UNCHANGED vars
  BY <1>1, <1>8 DEF vars, saveVars, CopyInv
<1> QED
  BY <1>1, <1>2, <1>3, <1>4, <1>5, <1>6, <1>7, <1>8, StepKinds

LEMMA CopyHolds == Spec => []CopyInv
BY CopyInitial, CopyInductive, TypedHolds, ShapeHolds, PTL DEF Spec

\* The write of a metric, cell by cell.
LEMMA Written1 ==
  ASSUME Typed, NEW r \in Requests, NEW n \in Names, WritesOne(r, n), NEW m \in Names
  PROVE  mem'[m] = IF m # n THEN mem[m] ELSE IF n \in Counters THEN mem[n] \cup {r} ELSE {r}
BY DEF WritesOne, Put, Typed, Store

\* Every batch is whole in every store, but in memory the one that holds the
\* lock, and in a copy under way.
Half(r) ==
  /\ pc[r] # "locked" => BatchWhole(mem, r)
  /\ pc[r] = "locked" =>
       \A n \in op[r].names \ todo[r] : IF n \in Counters THEN r \in mem[n] ELSE mem[n] # {}
  /\ \A t \in Savers : save[t] # "copying" => BatchWhole(dump[t], r)
  /\ BatchWhole(file.data, r)

HalfInv == \A r \in Requests : Half(r)

LEMMA HalfInitial == Init => HalfInv
BY DEF Init, HalfInv, Half, BatchWhole, EmptyStore, Names, Ops

\* A request that has not begun is in no store.
LEMMA Absent ==
  ASSUME Typed, CellInv, NEW r \in Requests, pc[r] \in {"unsent", "begin"}, NEW n \in Names
  PROVE  /\ r \notin mem[n] /\ r \notin file.data[n]
         /\ \A t \in Savers : r \notin dump[t][n]
         /\ \A q \in Requests : r \notin got[q][n]
BY DEF CellInv, Cell

LEMMA HalfInductive == Typed /\ Shape /\ CellInv /\ CopyInv /\ HalfInv /\ [Next]_vars => HalfInv'
<1>1. SUFFICES ASSUME Typed, Shape, CellInv, CopyInv, HalfInv, [Next]_vars, NEW q \in Requests
               PROVE  Half(q)'
  BY DEF HalfInv
<1>2. Half(q) /\ op[q].names \subseteq Names /\ op'[q].names \subseteq Names
  <2>1. op'[q] \in Ops
    BY <1>1, TypedInductive DEF Typed
  <2> QED
    BY <1>1, <2>1, OpsNames DEF HalfInv, Typed
<1>3. ASSUME NEW r \in Requests, Looks(r) PROVE Half(q)'
  <2>1. UNCHANGED <<mem, save, dump, file>>
    BY <1>3 DEF Looks
  <2>2. CASE op'[q] = op[q]
    <3>1. CASE pc'[q] # "locked" /\ pc[q] # "locked"
      BY <1>2, <2>1, <2>2, <3>1 DEF Half, BatchWhole, Holds
    <3>2. CASE pc'[q] # "locked" /\ pc[q] = "locked"
      <4>1. op[q].broken # {}
        BY <1>3, <3>2 DEF Looks
      <4> QED
        BY <1>2, <2>1, <2>2, <3>2, <4>1 DEF Half, BatchWhole, Holds
    <3>3. CASE pc'[q] = "locked"
      <4>1. \/ todo'[q] = todo[q] /\ pc[q] = "locked"
            \/ todo'[q] = op'[q].names
        BY <1>3, <3>3 DEF Looks
      <4> QED
        BY <1>2, <2>1, <2>2, <3>3, <4>1 DEF Half, BatchWhole, Holds
    <3> QED
      BY <3>1, <3>2, <3>3
  <2>3. CASE op'[q] # op[q]
    <3>1. pc[q] = "unsent" /\ pc'[q] # "locked"
      BY <1>3, <2>3 DEF Looks
    <3> QED
      BY <1>1, <1>2, <2>1, <3>1, Absent DEF Half, BatchWhole
  <2> QED
    BY <2>2, <2>3
<1>4. ASSUME NEW r \in Requests, NEW n \in Names, WritesOne(r, n) PROVE Half(q)'
  <2>1. UNCHANGED <<op, save, dump, file>>
    BY <1>4 DEF WritesOne, Rest, saveVars
  <2>2. \A m \in Names :
          mem'[m] = IF m # n THEN mem[m] ELSE IF n \in Counters THEN mem[n] \cup {r} ELSE {r}
    BY <1>1, <1>4, Written1
  <2>3. CASE q # r
    <3>1. pc'[q] = pc[q] /\ pc[q] # "locked"
      BY <1>1, <1>4, <2>3 DEF WritesOne, Typed
    <3>2. BatchWhole(mem, q)' 
      BY <1>2, <2>1, <2>2, <2>3, <3>1 DEF Half, BatchWhole, Holds
    <3> QED
      BY <1>2, <2>1, <3>1, <3>2 DEF Half, BatchWhole, Holds
  <2>4. CASE q = r /\ op[r].kind \in {"update", "json"}
    <3>1. op[r].kind # "batch" /\ pc'[r] # "locked"
      BY <1>1, <1>4, <2>4 DEF WritesOne, Typed
    <3> QED
      BY <2>1, <2>4, <3>1 DEF Half, BatchWhole
  <2>5. CASE q = r /\ op[r].kind = "batch"
    <3>1. /\ pc[r] = "locked" /\ n \in todo[r]
          /\ todo'[r] = todo[r] \ {n} /\ pc'[r] = IF todo[r] = {n} THEN "reply" ELSE "locked"
      BY <1>1, <1>4, <2>5 DEF WritesOne, Typed
    <3>2. \A m \in op[r].names \ todo'[r] : IF m \in Counters THEN r \in mem'[m] ELSE mem'[m] # {}
      BY <1>2, <2>2, <2>5, <3>1 DEF Half
    <3>3. pc'[r] # "locked" => BatchWhole(mem, r)'
      BY <2>1, <3>1, <3>2 DEF BatchWhole, Holds
    <3> QED
      BY <1>2, <2>1, <2>5, <3>2, <3>3 DEF Half, BatchWhole, Holds
  <2> QED
    BY <1>4, <2>3, <2>4, <2>5 DEF WritesOne
<1>5. ASSUME NEW t \in Savers, Saver(t) PROVE Half(q)'
  <2>1. UNCHANGED <<mem, op, pc, todo>>
    BY <1>1, <1>5, SaverStep
  <2>2. BatchWhole(EmptyStore, q)
    BY <1>2 DEF BatchWhole, EmptyStore
  <2>3. ASSUME NEW u \in Savers, save'[u] # "copying" PROVE BatchWhole(dump'[u], q)
    <3>1. CASE dump'[u] = EmptyStore
      BY <2>2, <3>1
    <3>2. CASE u # t \/ save[t] = "copied"
      <4>1. dump'[u] \in {dump[u], EmptyStore} /\ save[u] # "copying"
        <5>1. CASE \E failed : SaveReturns(t, failed)
          BY <1>1, <2>3, <3>2, <5>1 DEF Typed, SaveReturns, Save
        <5>2. CASE \E s : save' = [save EXCEPT ![t] = s]
          <6>1. u # t => save'[u] = save[u]
            BY <1>1, <5>2 DEF Typed
          <6>2. u # t => dump'[u] = dump[u]
            <7>1. dump' = dump \/ \E d : dump' = [dump EXCEPT ![t] = d]
              BY <1>1, <1>5, SaverStep DEF SaveReturns
            <7> QED
              BY <1>1, <7>1 DEF Typed
          <6>3. u = t => dump'[u] \in {dump[u], EmptyStore}
            BY <1>1, <1>5, <3>2, SaverStep DEF Typed, SaveReturns
          <6> QED
            BY <2>3, <3>2, <6>1, <6>2, <6>3
        <5> QED
          BY <1>1, <1>5, <5>1, <5>2, SaverStep
      <4> QED
        BY <1>2, <2>2, <4>1 DEF Half
    <3>3. CASE u = t /\ save[t] = "copying"
      <4>1. dump'[t] = [n \in Names |-> IF n \in Counters THEN mem[n] ELSE dump[t][n]]
        BY <1>1, <1>5, <3>3, SaverStep DEF Typed
      <4>2. \A n \in Names : dump'[t][n] = mem[n]
        BY <1>1, <3>3, <4>1 DEF CopyInv, Names
      <4>3. pc[q] # "locked"
        BY <1>1, <3>3 DEF Shape
      <4> QED
        BY <1>2, <3>3, <4>2, <4>3 DEF Half, BatchWhole, Holds
    <3>4. CASE u = t /\ save[t] = "called"
      BY <1>1, <1>5, <2>3, <3>4, SaverStep DEF Typed
    <3>5. CASE u = t /\ save[t] = "created"
      <4>1. \E failed : SaveReturns(t, failed)
        BY <1>1, <1>5, <3>5, SaverStep
      <4>2. dump'[t] = EmptyStore
        BY <1>1, <4>1 DEF SaveReturns, Typed
      <4> QED
        BY <2>2, <3>5, <4>2
    <3> QED
      BY <1>1, <1>5, <3>2, <3>3, <3>4, <3>5, SaverStep
  <2>4. BatchWhole(file'.data, q)
    <3>1. CASE file'.data = file.data
      BY <1>2, <3>1 DEF Half
    <3>2. CASE file'.data # file.data
      <4>1. save[t] = "created" /\ file' = [data |-> dump[t], whole |-> TRUE]
        BY <1>1, <1>5, <3>2, SaverStep DEF Typed
      <4> QED
        BY <1>2, <4>1 DEF Half
    <3> QED
      BY <3>1, <3>2
  <2> QED
    BY <1>2, <2>1, <2>3, <2>4 DEF Half, BatchWhole, Holds
<1>6. CASE Quiet
  <2>1. UNCHANGED <<mem, dump, file, op, pc, todo>>
    BY <1>1, <1>6, QuietStep
  <2>2. \A t \in Savers : save[t] = "copying" => save'[t] = "copying"
    BY <1>1, <1>6 DEF Quiet, Tick, PeriodicReturns, Save, Boot, Signal, Drained, DrainTimeout,
                      Stopped, Main, Shape, Typed, Savers
  <2> QED
    BY <1>2, <2>1, <2>2 DEF Half, BatchWhole, Holds
<1>7. CASE Loads
  <2>1. \A t \in Savers : save[t] = "off"
    BY <1>1, <1>7, LoadStep DEF Shape, Savers
  <2>2. pc[q] # "locked"
    BY <1>1, <1>7, LoadStep DEF Shape, Active, Serving
  <2> QED
    BY <1>1, <1>2, <1>7, <2>1, <2>2, LoadStep DEF Half, BatchWhole, Holds
<1>8. CASE Dies
  <2>1. /\ UNCHANGED <<op, file>> /\ mem' = EmptyStore /\ \A t \in Savers : dump'[t] = EmptyStore
        /\ pc'[q] # "locked"
    BY <1>1, <1>8, DieStep DEF Gone, Active
  <2>2. BatchWhole(EmptyStore, q)
    BY <1>2 DEF BatchWhole, EmptyStore
  <2> QED
    BY <1>2, <2>1, <2>2 DEF Half, BatchWhole, Holds
<1>9. CASE UNCHANGED vars
  BY <1>2, <1>9 DEF vars, requestVars, saveVars, Half, BatchWhole, Holds
<1> QED
  BY <1>1, <1>3, <1>4, <1>5, <1>6, <1>7, <1>8, <1>9, StepKinds

LEMMA HalfHolds == Spec => []HalfInv
BY HalfInitial, HalfInductive, TypedHolds, ShapeHolds, CellHolds, CopyHolds, PTL DEF Spec

\* No kill, save or batch, in any order, leaves half a batch in the file.
THEOREM FilesHoldWholeBatches == Spec => []BatchesSavedWhole
<1>1. HalfInv => BatchesSavedWhole
  BY DEF HalfInv, Half, BatchesSavedWhole
<1> QED
  BY <1>1, HalfHolds, PTL
----
(***************************************************************************)
(* What pages and answers show                                             *)
(***************************************************************************)
\* While the process lives no counter loses an update, and no gauge its value.
LEMMA MemGrows ==
  ASSUME Typed, Shape, [Next]_vars, ~Loads, ~Dies, NEW n \in Names
  PROVE  IF n \in Counters THEN mem[n] \subseteq mem'[n] ELSE mem[n] # {} => mem'[n] # {}
<1>1. ASSUME NEW r \in Requests, NEW m \in Names, WritesOne(r, m)
      PROVE  IF n \in Counters THEN mem[n] \subseteq mem'[n] ELSE mem[n] # {} => mem'[n] # {}
  <2>1. mem'[n] = IF n # m THEN mem[n] ELSE IF m \in Counters THEN mem[m] \cup {r} ELSE {r}
    BY <1>1, Written1
  <2> QED
    BY <2>1
<1>2. CASE mem' = mem
  BY <1>2
<1> QED
  BY <1>1, <1>2, StepKinds, SaverStep, QuietStep DEF Looks, vars

\* A handler that is active, and stays so, is served by the same process.
LEMMA ActiveLives ==
  ASSUME Typed, Shape, [Next]_vars, NEW r \in Requests, Active(r), pc'[r] # "broken"
  PROVE  ~Loads /\ ~Dies
<1>1. ~Loads
  BY LoadStep DEF Shape, Serving
<1>2. ~Dies
  BY DieStep
<1> QED
  BY <1>1, <1>2

\* A page under way that has seen the gauge of a batch finds its counters in
\* the store; a page that is answered has them.
PageInv ==
  \A p, r \in Requests :
    op[p].kind = "index" /\ op[r].kind = "batch" /\ op[r].broken = {} /\ (\E g \in Gauges : r \in got[p][g])
      => \A n \in op[r].names \cap Counters :
           /\ pc[p] = "counters" => r \in mem[n]
           /\ pc[p] \in {"reply", "ok"} => r \in got[p][n]

LEMMA PageInitial == Init => PageInv
BY DEF Init, PageInv

LEMMA GotStays ==
  ASSUME Typed, Shape, [Next]_vars, NEW p \in Requests,
         ~(IndexGauges(p) \/ IndexCounters(p) \/ ReadBack(p) \/ ValueHandler(p) \/ ValueJSONHandler(p))
  PROVE  got'[p] = got[p]
<1>1. ASSUME NEW r \in Requests, r # p, Looks(r) PROVE got'[p] = got[p]
  BY <1>1 DEF Looks
<1>2. ASSUME NEW r \in Requests, NEW n \in Names, WritesOne(r, n) PROVE got'[p] = got[p]
  BY <1>2 DEF WritesOne
<1>3. CASE Moves(p) \/ BatchItem(p)
  BY <1>3, MoveStep, BatchStep
<1>4. ASSUME NEW t \in Savers, Saver(t) PROVE got'[p] = got[p]
  BY <1>4, SaverStep
<1>5. CASE Quiet \/ Loads \/ Dies \/ UNCHANGED vars
  BY <1>5, QuietStep, LoadStep, DieStep DEF Gone, vars, requestVars
<1>6. ASSUME NEW r \in Requests, UpdateHandler(r) \/ UpdateJSONHandler(r) PROVE got'[p] = got[p]
  BY <1>6, UpdateStep
<1>7. ASSUME NEW r \in Requests, BatchItem(r) PROVE got'[p] = got[p]
  BY <1>7, BatchStep
<1> QED
  BY <1>1, <1>3, <1>4, <1>5, <1>6, <1>7, NextCases, LookStep

LEMMA PageInductive ==
  Typed /\ Shape /\ CellInv /\ HalfInv /\ PageInv /\ [Next]_vars => PageInv'
<1>1. SUFFICES ASSUME Typed, Shape, CellInv, HalfInv, PageInv, [Next]_vars,
                      NEW p \in Requests, NEW r \in Requests, NEW g \in Gauges,
                      op'[p].kind = "index", op'[r].kind = "batch", op'[r].broken = {}, r \in got'[p][g],
                      NEW n \in op'[r].names \cap Counters
               PROVE  /\ pc'[p] = "counters" => r \in mem'[n]
                      /\ pc'[p] \in {"reply", "ok"} => r \in got'[p][n]
  BY DEF PageInv
<1>2. g \in Names /\ n \in Names
  BY DEF Names
<1>3. r \in got[p][g] \/ r \in mem[g]
  BY <1>1, <1>2, Flow
<1>4. op'[r] = op[r]
  BY <1>1, <1>2, <1>3, Absent, Progress
<1>5. CASE IndexGauges(p)
  <2>1. /\ CanRead /\ mem' = mem /\ pc' = [pc EXCEPT ![p] = "counters"] /\ got' = [got EXCEPT ![p] = Page(p, Gauges)]
    BY <1>1, <1>5, IndexStep DEF IndexGauges
  <2>2. pc'[p] = "counters" /\ r \in mem[g]
    BY <1>1, <1>2, <2>1 DEF Page, Typed
  <2>3. BatchWhole(mem, r)
    BY <1>1, <2>1 DEF HalfInv, Half, CanRead
  <2>4. g \in op[r].names
    BY <1>1, <1>2, <2>2 DEF CellInv, Cell
  <2> QED
    BY <1>1, <1>4, <2>1, <2>2, <2>3, <2>4 DEF BatchWhole, Holds
<1>6. CASE IndexCounters(p)
  <2>1. /\ mem' = mem /\ op' = op /\ pc' = [pc EXCEPT ![p] = "reply"] /\ pc[p] = "counters"
        /\ got' = [got EXCEPT ![p] = Page(p, Counters)]
    BY <1>1, <1>6, IndexStep DEF IndexCounters, Rest
  <2>2. /\ pc'[p] = "reply" /\ got'[p][n] = mem[n] /\ got'[p][g] = got[p][g]
    BY <1>1, <1>2, <2>1, ServerAssumption DEF Page, Typed
  <2> QED
    BY <1>1, <1>4, <2>1, <2>2 DEF PageInv
<1>7. CASE ReadBack(p) \/ ValueHandler(p) \/ ValueJSONHandler(p)
  BY <1>1, <1>7, GetStep DEF Shape, Rest
<1>8. CASE got'[p] = got[p]
  <2>1. CASE pc'[p] = pc[p] /\ op'[p] = op[p]
    <3>1. pc[p] = "counters" => mem[n] \subseteq mem'[n]
      BY <1>1, <1>2, <2>1, ActiveLives, MemGrows DEF Active
    <3> QED
      BY <1>1, <1>2, <1>4, <1>8, <2>1, <3>1 DEF PageInv
  <2>2. CASE pc'[p] = "ok" /\ pc[p] = "reply" /\ op'[p] = op[p]
    BY <1>1, <1>2, <1>4, <1>8, <2>2 DEF PageInv
  <2>3. CASE pc'[p] \notin {"counters", "reply", "ok"}
    BY <2>3
  <2>4. \/ pc'[p] = pc[p] /\ op'[p] = op[p]
        \/ pc'[p] = "ok" /\ pc[p] = "reply" /\ op'[p] = op[p]
        \/ pc'[p] \notin {"counters", "reply", "ok"}
        \/ IndexGauges(p) \/ IndexCounters(p)
    <3>1. ASSUME NEW q \in Requests, q # p, Looks(q) PROVE pc'[p] = pc[p] /\ op'[p] = op[p]
      BY <3>1 DEF Looks
    <3>2. ASSUME NEW q \in Requests, q # p, NEW m \in Names, WritesOne(q, m) PROVE pc'[p] = pc[p] /\ op'[p] = op[p]
      BY <1>1, <3>2 DEF WritesOne, Typed, Rest
    <3>3. CASE Moves(p)
      BY <1>1, <3>3, MoveStep DEF Typed
    <3>4. CASE UpdateHandler(p) \/ UpdateJSONHandler(p)
      BY <1>1, <3>4, UpdateStep DEF Rest
    <3>5. CASE BatchItem(p)
      BY <1>1, <3>5, BatchStep DEF Rest, Shape
    <3>6. ASSUME NEW t \in Savers, Saver(t) PROVE pc'[p] = pc[p] /\ op'[p] = op[p]
      BY <1>1, <3>6, SaverStep
    <3>7. CASE Quiet \/ Loads \/ UNCHANGED vars
      BY <1>1, <3>7, QuietStep, LoadStep DEF vars, requestVars
    <3>8. CASE Dies
      BY <1>1, <3>8, DieStep DEF Gone
    <3>9. CASE ReadBack(p) \/ ValueHandler(p) \/ ValueJSONHandler(p)
      BY <1>1, <3>9, GetStep DEF Rest, Shape
    <3> QED
      BY <1>1, <3>1, <3>2, <3>3, <3>4, <3>5, <3>6, <3>7, <3>8, <3>9,
         NextCases, WriteStep, LookStep, RefuseStep
  <2> QED
    BY <1>5, <1>6, <2>1, <2>2, <2>3, <2>4
<1> QED
  BY <1>1, <1>5, <1>6, <1>7, <1>8, GotStays

\* A page that shows the gauge of a batch shows its counters.
THEOREM PagesAreWhole == Spec => []PagesShowTheCountersOfAGauge
<1>1. PageInv => PagesShowTheCountersOfAGauge
  BY DEF PageInv, PagesShowTheCountersOfAGauge
<1> QED
  BY <1>1, PageInitial, PageInductive, TypedHolds, ShapeHolds, CellHolds, HalfHolds, PTL DEF Spec
----
(***************************************************************************)
(* What a client has been told is stored                                   *)
(***************************************************************************)
\* A write that waits to be answered is in the store; one that has been
\* promised is, and is in the last copy once that is made, and in the file
\* while there is no server.
KeptInv ==
  /\ \A r \in Requests : pc[r] \in {"reply", "get"} /\ Writes(r) => Holds(mem, r)
  /\ \A r \in promised : pc[r] = "ok"
  /\ ~lost => \A r \in promised : Writes(r) =>
       /\ main \in {"off", "boot", "start", "exit"} => Holds(file.data, r)
       /\ Serving => Holds(mem, r)
       /\ save["final"] \in {"copied", "created"} => Holds(dump["final"], r)

LEMMA KeptInitial == Init => KeptInv
BY DEF Init, KeptInv

\* What holds a write goes on holding it while the process lives.
LEMMA HoldsOn ==
  ASSUME Typed, Shape, [Next]_vars, ~Loads, ~Dies, NEW r \in Requests, pc[r] # "unsent", Holds(mem, r)
  PROVE  Holds(mem, r)'
<1>1. op'[r] = op[r] /\ op[r].names \subseteq Names
  BY Progress, OpsNames DEF Typed
<1>2. \A n \in op[r].names : IF n \in Counters THEN mem[n] \subseteq mem'[n] ELSE mem[n] # {} => mem'[n] # {}
  BY <1>1, MemGrows
<1> QED
  BY <1>1, <1>2 DEF Holds

\* Nothing but a reply promises, and nothing else ends at "ok".
LEMMA NewlyPromised ==
  ASSUME Typed, Shape, [Next]_vars, NEW r \in Requests, r \in promised', r \notin promised
  PROVE  Reply(r) /\ ~FinalCopy
<1>1. ASSUME NEW q \in Requests, Moves(q) PROVE Reply(r) /\ ~FinalCopy
  BY <1>1 DEF Moves, Arrive, Refuse, BatchLocks, Step, Reply
<1> QED
  BY <1>1, NextCases, UpdateStep, GetStep, BatchStep, IndexStep, SaverStep, QuietStep, LoadStep, DieStep
     DEF Rest, Gone, vars, requestVars

LEMMA PromisedGrows ==
  ASSUME Typed, Shape, [Next]_vars PROVE promised \subseteq promised'
BY NextCases, MoveStep, UpdateStep, GetStep, BatchStep, IndexStep, SaverStep, QuietStep, LoadStep, DieStep
   DEF Rest, Gone, vars, requestVars

\* An answered request stays answered.
LEMMA OkStays ==
  ASSUME Typed, Shape, [Next]_vars, NEW r \in Requests, pc[r] = "ok"
  PROVE  pc'[r] = "ok" /\ op'[r] = op[r]
<1>1. ASSUME NEW q \in Requests, Looks(q) PROVE pc'[r] = "ok"
  BY <1>1 DEF Looks
<1>2. ASSUME NEW q \in Requests, NEW n \in Names, WritesOne(q, n) PROVE pc'[r] = "ok"
  BY <1>2 DEF WritesOne, Typed
<1>3. ASSUME NEW t \in Savers, Saver(t) PROVE pc'[r] = "ok"
  BY <1>3, SaverStep
<1>4. CASE Quiet \/ Loads \/ UNCHANGED vars
  BY <1>4, QuietStep, LoadStep DEF vars, requestVars
<1>5. CASE Dies
  <2>1. ~Active(r)
    BY DEF Active
  <2> QED
    BY <1>5, <2>1, DieStep DEF Gone
<1> QED
  BY <1>1, <1>2, <1>3, <1>4, <1>5, StepKinds, Progress

\* A handler comes to its answer, or to reading back, with its write done.
LEMMA DoneIsHeld ==
  ASSUME Typed, Shape, HalfInv, KeptInv, [Next]_vars, NEW r \in Requests,
         pc'[r] \in {"reply", "get"}, Writes(r)'
  PROVE  Holds(mem, r)'
<1>1. CASE pc'[r] = pc[r]
  BY <1>1, ActiveLives, HoldsOn, Progress DEF KeptInv, Active, Writes
<1>2. CASE pc'[r] # pc[r]
  <2>1. ASSUME NEW n \in Names, WritesOne(r, n), pc[r] = "begin" PROVE Holds(mem, r)'
    <3>1. op' = op /\ op[r].names = {n}
      BY <2>1 DEF WritesOne, Rest
    <3>2. mem'[n] = IF n \in Counters THEN mem[n] \cup {r} ELSE {r}
      BY <2>1, Written1
    <3> QED
      BY <3>1, <3>2 DEF Holds
  <2>2. ASSUME NEW n \in Names, WritesOne(r, n), pc[r] = "locked" PROVE Holds(mem, r)'
    <3>1. /\ op' = op /\ todo[r] = {n} /\ n \in op[r].names
          /\ \A m \in Names : mem'[m] = IF m # n THEN mem[m] ELSE IF n \in Counters THEN mem[n] \cup {r} ELSE {r}
      <4>1. op' = op /\ n \in op[r].names /\ pc' = [pc EXCEPT ![r] = IF todo[r] = {n} THEN "reply" ELSE "locked"]
        BY <2>2 DEF WritesOne, Rest
      <4>2. todo[r] = {n}
        BY <1>2, <2>2, <4>1 DEF Typed
      <4> QED
        BY <2>2, <4>1, <4>2, Written1
    <3>2. \A m \in op[r].names \ {n} : IF m \in Counters THEN r \in mem[m] ELSE mem[m] # {}
      BY <2>2, <3>1 DEF HalfInv, Half
    <3>3. op[r].names \subseteq Names
      BY OpsNames DEF Typed
    <3> QED
      BY <3>1, <3>2, <3>3 DEF Holds
  <2>3. ASSUME NEW q \in Requests, q # r, Looks(q) \/ \E n \in Names : WritesOne(q, n) PROVE FALSE
    BY <1>2, <2>3 DEF Looks, WritesOne, Typed
  <2>4. CASE Moves(r)
    BY <2>4, MoveStep DEF Typed
  <2>5. CASE ReadBack(r) \/ ValueHandler(r) \/ ValueJSONHandler(r)
    <3>1. pc[r] = "get" /\ op' = op /\ mem' = mem
      BY <2>5, GetStep DEF Rest, Writes
    <3> QED
      BY <3>1 DEF KeptInv, Writes, Holds
  <2>6. CASE IndexGauges(r) \/ IndexCounters(r)
    BY <2>6, IndexStep DEF Rest, Writes, Shape
  <2>7. CASE \/ \E t \in Savers : Saver(t)
             \/ Quiet \/ Loads \/ UNCHANGED vars
    BY <1>2, <2>7, SaverStep, QuietStep, LoadStep DEF vars, requestVars
  <2>8. CASE Dies
    BY <1>2, <2>8, DieStep
  <2>9. CASE BatchItem(r) /\ mem' = mem
    <3>1. pc'[r] = "refused" \/ \E n \in Names : WritesOne(r, n)
      <4>1. pc[r] = "locked"
        BY <2>9, BatchStep
      <4> QED
        BY <2>9, <4>1, RefuseStep DEF Looks
    <3> QED
      BY <2>1, <2>2, <3>1 DEF WritesOne
  <2>10. ASSUME NEW n \in Names, WritesOne(r, n) PROVE Holds(mem, r)'
    BY <2>1, <2>2, <2>10 DEF WritesOne
  <2> QED
    BY <2>3, <2>4, <2>5, <2>6, <2>7, <2>8, <2>9, <2>10, NextCases, WriteStep, LookStep, RefuseStep
<1> QED
  BY <1>1, <1>2

LEMMA KeptInductive ==
  Typed /\ Shape /\ CopyInv /\ HalfInv /\ KeptInv /\ [Next]_vars => KeptInv'
<1>1. SUFFICES ASSUME Typed, Shape, CopyInv, HalfInv, KeptInv, [Next]_vars PROVE KeptInv'
  OBVIOUS
<1>2. \A r \in Requests : pc'[r] \in {"reply", "get"} /\ Writes(r)' => Holds(mem, r)'
  BY <1>1, DoneIsHeld
<1>3. promised' \subseteq Requests
  BY <1>1, TypedInductive DEF Typed
<1>4. \A r \in promised' : pc'[r] = "ok"
  <2>1. ASSUME NEW r \in promised', r \notin promised PROVE pc'[r] = "ok"
    BY <1>1, <1>3, <2>1, NewlyPromised DEF Reply, Typed
  <2> QED
    BY <1>1, <1>3, <2>1, OkStays DEF KeptInv, Typed
<1>5. ASSUME ~lost', NEW r \in promised', Writes(r)'
      PROVE  /\ main' \in {"off", "boot", "start", "exit"} => Holds(file.data, r)'
             /\ Serving' => Holds(mem, r)'
             /\ save'["final"] \in {"copied", "created"} => Holds(dump["final"], r)'
  <2>1. CASE r \notin promised
    <3>1. /\ UNCHANGED <<main, mem, op, save, dump, file>> /\ Serving /\ ~FinalCopy /\ pc[r] = "reply"
      BY <1>1, <1>3, <1>5, <2>1, NewlyPromised DEF Reply, saveVars
    <3>2. Holds(mem, r)
      BY <1>1, <1>3, <1>5, <3>1 DEF KeptInv, Writes
    <3> QED
      BY <3>1, <3>2 DEF FinalCopy, Serving, Holds
  <2>2. CASE r \in promised
    <3>1. r \in Requests /\ op'[r] = op[r] /\ pc[r] = "ok"
      BY <1>1, <1>3, <2>2, OkStays DEF KeptInv
    <3>2. ~lost
      BY <1>1, <1>5, StepKinds, SaverStep, QuietStep, LoadStep
         DEF Looks, WritesOne, Rest, historyVars, SaveReturns, LoadFromFile, Dies, Exit, Kill, vars
    <3>3. /\ main \in {"off", "boot", "start", "exit"} => Holds(file.data, r)
          /\ Serving => Holds(mem, r)
          /\ save["final"] \in {"copied", "created"} => Holds(dump["final"], r)
      BY <1>1, <1>5, <2>2, <3>1, <3>2 DEF KeptInv, Writes
    <3>5. ASSUME NEW q \in Requests, Looks(q) \/ \E n \in Names : WritesOne(q, n)
          PROVE  /\ main' \in {"off", "boot", "start", "exit"} => Holds(file.data, r)'
                 /\ Serving' => Holds(mem, r)'
                 /\ save'["final"] \in {"copied", "created"} => Holds(dump["final"], r)'
      <4>1. UNCHANGED <<main, save, dump, file>>
        BY <3>5 DEF Looks, WritesOne, Rest, saveVars
      <4>2. Serving => Holds(mem, r)'
        <5>1. CASE mem' = mem
          BY <3>1, <3>3, <5>1 DEF Holds
        <5>2. ASSUME NEW n \in Names, WritesOne(q, n) PROVE Holds(mem, r)'
          <6>1. \A m \in Names : mem'[m] = IF m # n THEN mem[m] ELSE IF n \in Counters THEN mem[n] \cup {q} ELSE {q}
            BY <1>1, <3>5, <5>2, Written1
          <6>2. Holds(mem, r) /\ op[r].names \subseteq Names
            BY <1>1, <3>1, <3>3, <5>2, OpsNames DEF WritesOne, Typed
          <6> QED
            BY <3>1, <6>1, <6>2 DEF Holds
        <5> QED
          BY <3>5, <5>1, <5>2 DEF Looks
      <4> QED
        BY <3>1, <3>3, <4>1, <4>2 DEF Holds, Serving
    <3>6. ASSUME NEW t \in Savers, Saver(t)
          PROVE  /\ main' \in {"off", "boot", "start", "exit"} => Holds(file.data, r)'
                 /\ Serving' => Holds(mem, r)'
                 /\ save'["final"] \in {"copied", "created"} => Holds(dump["final"], r)'
      <4>1. mem' = mem /\ save[t] # "off"
        BY <1>1, <3>6, SaverStep
      <4>2. Serving /\ main # "exit" /\ (t = "final" <=> main = "saving")
        BY <1>1, <4>1 DEF Shape, Serving, Savers
      <4>3. Holds(mem, r) /\ op[r].names \subseteq Names
        BY <1>1, <3>1, <3>3, <4>2, OpsNames DEF Typed
      <4>4. ASSUME NEW failed \in BOOLEAN, SaveReturns(t, failed),
                   failed \/ (save[t] = "created" /\ file'.data = dump[t])
            PROVE  /\ main' \in {"off", "boot", "start", "exit"} => Holds(file.data, r)'
                   /\ save'["final"] \notin {"copied", "created"} \/ Holds(dump["final"], r)'
        <5>1. CASE t = "final"
          BY <1>1, <1>5, <3>1, <3>3, <4>4, <5>1 DEF SaveReturns, Save, Typed, Holds
        <5>2. CASE t = "periodic"
          <6>1. main' = main /\ save'["final"] = save["final"] /\ save["final"] = "off"
            BY <1>1, <4>2, <4>4, <5>2 DEF SaveReturns, Save, Typed, Savers, Shape
          <6> QED
            BY <4>2, <6>1 DEF Serving
        <5> QED
          BY <5>1, <5>2 DEF Savers
      <4>5. ASSUME main' = main, \E s \in {"copying", "copied", "created"} : save' = [save EXCEPT ![t] = s],
                   dump' = dump \/ save[t] # "copied"
            PROVE  save'["final"] \in {"copied", "created"} => Holds(dump["final"], r)'
        <5>1. CASE t = "periodic"
          BY <1>1, <4>1, <4>2, <4>5, <5>1 DEF Typed, Savers, Shape
        <5>2. CASE t = "final" /\ save[t] = "called"
          BY <1>1, <3>6, <5>2, SaverStep DEF Typed
        <5>3. CASE t = "final" /\ save[t] = "copying"
          <6>1. dump'["final"] = [n \in Names |-> IF n \in Counters THEN mem[n] ELSE dump["final"][n]]
            BY <1>1, <3>6, <5>3, SaverStep DEF Typed
          <6>2. \A n \in Names : dump'["final"][n] = mem[n]
            BY <1>1, <5>3, <6>1 DEF CopyInv, Names
          <6> QED
            BY <3>1, <4>3, <6>2 DEF Holds
        <5>4. CASE t = "final" /\ save[t] = "copied"
          BY <3>1, <3>3, <4>5, <5>4 DEF Holds
        <5>5. CASE t = "final" /\ save[t] = "created"
          <6>1. \E failed \in BOOLEAN : SaveReturns(t, failed)
            BY <1>1, <3>6, <5>5, SaverStep
          <6>2. save'[t] = "off"
            BY <1>1, <5>5, <6>1 DEF SaveReturns, Save, Typed
          <6> QED
            BY <5>5, <6>2
        <5> QED
          BY <1>1, <3>6, <5>1, <5>2, <5>3, <5>4, <5>5, SaverStep DEF Savers
      <4>6. Serving' => Holds(mem, r)'
        BY <3>1, <4>1, <4>3 DEF Holds
      <4>7. CASE \E failed \in BOOLEAN : /\ SaveReturns(t, failed)
                                         /\ failed \/ (save[t] = "created" /\ file'.data = dump[t])
        BY <4>4, <4>6, <4>7
      <4>8. CASE /\ main' = main /\ \E s \in {"copying", "copied", "created"} : save' = [save EXCEPT ![t] = s]
                 /\ dump' = dump \/ save[t] # "copied"
        BY <4>2, <4>5, <4>6, <4>8 DEF Serving
      <4>9. \/ \E failed \in BOOLEAN : /\ SaveReturns(t, failed)
                                       /\ failed \/ (save[t] = "created" /\ file' = [data |-> dump[t], whole |-> TRUE])
            \/ /\ main' = main /\ \E s \in {"copying", "copied", "created"} : save' = [save EXCEPT ![t] = s]
               /\ dump' = dump \/ save[t] # "copied"
        <5>1. \/ save[t] = "called" /\ save' = [save EXCEPT ![t] = "copying"] /\ main' = main
              \/ save[t] = "copying" /\ save' = [save EXCEPT ![t] = "copied"] /\ main' = main
              \/ save' = [save EXCEPT ![t] = "created"] /\ main' = main /\ dump' = dump
              \/ save[t] = "created" /\ SaveReturns(t, FALSE) /\ file' = [data |-> dump[t], whole |-> TRUE]
              \/ SaveReturns(t, TRUE)
          BY <1>1, <3>6, SaverStep
        <5> QED
          BY <5>1
      <4> QED
        BY <4>7, <4>8, <4>9
    <3>7. CASE Quiet
      <4>1. UNCHANGED <<mem, dump, file, op>>
        BY <1>1, <3>7, QuietStep
      <4>2. /\ Serving' => Serving
            /\ main' \in {"off", "boot", "start", "exit"} => main \in {"off", "boot", "start", "exit"}
        BY <3>7 DEF Quiet, Tick, PeriodicReturns, Boot, Signal, Drained, DrainTimeout, Stopped, Main, Serving
      <4>3. save'["final"] \in {"copied", "created"} => save["final"] = save'["final"]
        BY <1>1, <3>7 DEF Quiet, Tick, PeriodicReturns, Save, Boot, Signal, Drained, DrainTimeout, Stopped, Typed, Savers
      <4> QED
        BY <3>1, <3>3, <4>1, <4>2, <4>3 DEF Holds
    <3>8. CASE Loads
      <4>1. /\ UNCHANGED <<op, dump, file>> /\ main \in {"boot", "start"}
            /\ save'["final"] = "off"
        BY <1>1, <3>8, LoadStep DEF Shape, Typed, Savers
      <4>2. mem' = file.data
        BY <1>1, <1>5, <2>2, <3>8, LoadStep DEF LoadFromFile
      <4> QED
        BY <3>1, <3>3, <4>1, <4>2 DEF Holds
    <3>9. CASE Dies
      <4>1. main = "exit" /\ main' = "off" /\ UNCHANGED <<op, file>> /\ save'["final"] = "off"
        BY <1>5, <3>9 DEF Dies, Exit, Kill, Gone, Savers
      <4> QED
        BY <3>1, <3>3, <4>1 DEF Holds, Serving
    <3>10. CASE UNCHANGED vars
      BY <3>3, <3>10 DEF vars, requestVars, saveVars, Holds, Serving
    <3> QED
      BY <1>1, <3>5, <3>6, <3>7, <3>8, <3>9, <3>10, StepKinds
  <2> QED
    BY <2>1, <2>2
<1> QED
  BY <1>2, <1>4, <1>5 DEF KeptInv

LEMMA KeptHolds == Spec => []KeptInv
BY KeptInitial, KeptInductive, TypedHolds, ShapeHolds, CopyHolds, HalfHolds, PTL DEF Spec

\* Without a kill, a failed final save or a file not restored, nothing a
\* client was told is stored is ever lost, whatever the order of requests,
\* saves and the steps of the shutdown.
THEOREM PromisesAreKept == Spec => []NothingPromisedIsLost
<1>1. Typed /\ KeptInv => NothingPromisedIsLost
  BY DEF KeptInv, NothingPromisedIsLost, Serving, Typed, Mains
<1> QED
  BY <1>1, KeptHolds, TypedHolds, PTL
----
(***************************************************************************)
(* Answers are fresh                                                       *)
(***************************************************************************)
\* What request q has to find: what was promised when it came, and its own.
FreshInv ==
  ~lost => \A q \in Requests :
    /\ known[q] \subseteq promised
    /\ pc[q] \in {"reply", "ok"} /\ op[q].kind \notin {"update", "batch"} =>
         \A r \in known[q] \cup {q} : Writes(r) =>
           \A n \in op[r].names \cap op[q].names \cap Counters : r \in got[q][n]

LEMMA FreshInitial == Init => FreshInv
BY DEF Init, FreshInv

LEMMA Lasting ==
  ASSUME Typed, Shape, [Next]_vars, ~lost' PROVE ~lost
BY StepKinds, SaverStep, QuietStep, LoadStep
   DEF Looks, WritesOne, Rest, historyVars, SaveReturns, LoadFromFile, Dies, Exit, Kill, vars, Typed

\* The requests that read, and what they name.
LEMMA SingleNames ==
  ASSUME Typed, NEW q \in Requests, op[q].kind \in {"json", "value", "valueJSON"}
  PROVE  \E n \in Names : op[q].names = {n}
<1>1. op[q] \in Ops
  BY DEF Typed
<1> QED
  BY <1>1, SingleOps

\* What is read is the store of that moment, with all that q has to find.
LEMMA ReadIsFresh ==
  ASSUME Typed, Shape, KeptInv, FreshInv, ~lost, NEW q \in Requests, Serving,
         pc[q] # "unsent", op[q].kind \notin {"update", "batch"}, pc[q] = "get" \/ op[q].kind # "json",
         NEW r \in known[q] \cup {q}, Writes(r), NEW n \in op[r].names \cap Counters
  PROVE  r \in mem[n]
<1>1. CASE r = q
  <2>1. pc[q] = "get"
    BY <1>1 DEF Writes
  <2> QED
    BY <1>1, <2>1 DEF KeptInv, Holds
<1>2. CASE r \in known[q]
  BY <1>2 DEF FreshInv, KeptInv, Holds
<1> QED
  BY <1>1, <1>2

LEMMA FreshInductive ==
  Typed /\ Shape /\ KeptInv /\ FreshInv /\ [Next]_vars => FreshInv'
<1>1. SUFFICES ASSUME Typed, Shape, KeptInv, FreshInv, [Next]_vars, ~lost', NEW q \in Requests
               PROVE  /\ known'[q] \subseteq promised'
                      /\ pc'[q] \in {"reply", "ok"} /\ op'[q].kind \notin {"update", "batch"} =>
                           \A r \in known'[q] \cup {q} : Writes(r)' =>
                             \A n \in op'[r].names \cap op'[q].names \cap Counters : r \in got'[q][n]
  BY DEF FreshInv
<1>2. ~lost /\ promised \subseteq promised' /\ promised \subseteq Requests
  BY <1>1, Lasting, PromisedGrows DEF Typed
<1>3. CASE pc[q] = "unsent"
  <2>1. pc'[q] \notin {"reply", "ok"} /\ known'[q] \in {known[q], promised}
    <3>1. ASSUME NEW r \in Requests, r # q, Looks(r) \/ \E n \in Names : WritesOne(r, n)
          PROVE  pc'[q] = pc[q] /\ known'[q] = known[q]
      BY <1>1, <3>1 DEF Looks, WritesOne, Typed, Rest
    <3>2. CASE Moves(q)
      BY <1>1, <1>3, <3>2, MoveStep DEF Typed
    <3>3. CASE \/ \E t \in Savers : Saver(t)
               \/ Quiet \/ Loads \/ Dies \/ UNCHANGED vars
      BY <1>1, <1>3, <3>3, SaverStep, QuietStep, LoadStep, DieStep DEF Gone, vars, requestVars, Active
    <3>4. ~(\/ UpdateHandler(q) \/ UpdateJSONHandler(q) \/ ReadBack(q) \/ ValueHandler(q)
            \/ ValueJSONHandler(q) \/ BatchItem(q) \/ IndexGauges(q) \/ IndexCounters(q))
      BY <1>1, <1>3, UpdateStep, GetStep, BatchStep, IndexStep
    <3> QED
      BY <1>1, <1>3, <3>1, <3>2, <3>3, <3>4, NextCases, WriteStep, LookStep, RefuseStep
  <2> QED
    BY <1>1, <1>2, <2>1 DEF FreshInv
<1>4. CASE pc[q] # "unsent"
  <2>1. known'[q] = known[q] /\ op'[q] = op[q]
    <3>1. ASSUME NEW r \in Requests, Looks(r) PROVE known'[q] = known[q]
      BY <1>4, <3>1 DEF Looks
    <3>2. ASSUME NEW r \in Requests, NEW n \in Names, WritesOne(r, n) PROVE known'[q] = known[q]
      BY <3>2 DEF WritesOne, Rest
    <3> QED
      BY <1>1, <1>4, <3>1, <3>2, StepKinds, Progress, SaverStep, QuietStep, LoadStep, DieStep
         DEF Gone, vars, requestVars
  <2>2. known[q] \subseteq promised
    BY <1>1, <1>2 DEF FreshInv
  <2>3. \A r \in known[q] \cup {q} : r \in Requests /\ op'[r] = op[r]
    BY <1>1, <1>2, <2>1, <2>2, OkStays DEF KeptInv
  <2>4. ASSUME pc'[q] \in {"reply", "ok"}, op[q].kind \notin {"update", "batch"},
               NEW r \in known[q] \cup {q}, Writes(r),
               NEW n \in op[r].names \cap op[q].names \cap Counters
        PROVE  r \in got'[q][n]
    <3>1. n \in Names
      BY <2>4 DEF Names
    <3>2. CASE ReadBack(q) \/ ValueHandler(q) \/ ValueJSONHandler(q)
      <4>1. PICK m \in op[q].names \cap Names : got' = [got EXCEPT ![q][m] = mem[m]]
        BY <1>1, <3>2, GetStep
      <4>2. op[q].kind \in {"json", "value", "valueJSON"} /\ (op[q].kind = "json" => pc[q] = "get") /\ Serving
        BY <1>1, <3>2, GetStep DEF Shape
      <4>3. m = n
        BY <1>1, <2>4, <4>1, <4>2, SingleNames
      <4>4. got'[q][n] = mem[n]
        BY <1>1, <3>1, <4>1, <4>3 DEF Typed, Store
      <4> QED
        BY <1>1, <1>2, <1>4, <2>4, <4>2, <4>4, ReadIsFresh
    <3>3. CASE IndexCounters(q)
      <4>1. got' = [got EXCEPT ![q] = Page(q, Counters)] /\ Serving /\ pc[q] = "counters"
        BY <1>1, <3>3, IndexStep DEF IndexCounters
      <4>2. op[q].kind = "index" /\ got'[q][n] = mem[n]
        BY <1>1, <2>4, <3>1, <4>1 DEF Page, Typed, Shape
      <4> QED
        BY <1>1, <1>2, <1>4, <2>4, <4>1, <4>2, ReadIsFresh
    <3>4. CASE IndexGauges(q)
      BY <1>1, <2>4, <3>4, IndexStep DEF IndexGauges, Typed
    <3>5. CASE pc[q] \in {"reply", "ok"} /\ got'[q] = got[q]
      BY <1>1, <1>2, <2>4, <3>5 DEF FreshInv
    <3>6. CASE UpdateHandler(q) \/ UpdateJSONHandler(q)
      <4>1. op[q].kind = "json" /\ pc'[q] # "get"
        BY <1>1, <2>4, <3>6, UpdateStep
      <4>2. ~(op[q].names \subseteq Counters)
        <5>1. pc'[q] = "reply"
          BY <1>1, <3>6, <4>1, UpdateStep DEF Typed
        <5> QED
          BY <1>1, <3>6, <4>1, <5>1, UpdateStep
      <4> QED
        BY <1>1, <2>4, <4>1, <4>2, SingleNames
    <3>7. CASE BatchItem(q)
      BY <1>1, <2>4, <3>7, BatchStep DEF Shape
    <3>8. CASE Moves(q)
      <4>1. pc[q] = "reply" /\ got' = got
        BY <1>1, <1>4, <2>4, <3>8, MoveStep DEF Typed
      <4> QED
        BY <3>5, <4>1
    <3>9. CASE pc'[q] = pc[q] /\ got'[q] = got[q]
      BY <2>4, <3>5, <3>9
    <3>10. ASSUME NEW s \in Requests, s # q, Looks(s) \/ \E m \in Names : WritesOne(s, m)
           PROVE  pc'[q] = pc[q] /\ got'[q] = got[q]
      BY <1>1, <3>10 DEF Looks, WritesOne, Typed
    <3>11. CASE \/ \E t \in Savers : Saver(t)
                \/ Quiet \/ Loads \/ UNCHANGED vars
      BY <1>1, <3>9, <3>11, SaverStep, QuietStep, LoadStep DEF vars, requestVars
    <3>12. CASE Dies
      <4>1. got' = got /\ pc'[q] = pc[q]
        BY <1>1, <2>4, <3>12, DieStep DEF Gone
      <4> QED
        BY <3>9, <4>1
    <3> QED
      BY <1>1, <3>2, <3>3, <3>4, <3>6, <3>7, <3>8, <3>9, <3>10, <3>11, <3>12,
         NextCases, WriteStep, LookStep, RefuseStep
  <2> QED
    BY <1>2, <2>1, <2>2, <2>3, <2>4 DEF Writes
<1> QED
  BY <1>3, <1>4

\* An answer has every update that was answered before its request came.
THEOREM AnswersHaveWhatWasPromised == Spec => []AnswersAreFresh
<1>1. FreshInv => AnswersAreFresh
  BY DEF FreshInv, AnswersAreFresh
<1> QED
  BY <1>1, FreshInitial, FreshInductive, TypedHolds, ShapeHolds, KeptHolds, PTL DEF Spec
----
(***************************************************************************)
(* Saves never go back                                                     *)
(***************************************************************************)
Below(d, e) ==
  \A n \in Names : IF n \in Counters THEN d[n] \subseteq e[n] ELSE d[n] # {} => e[n] # {}

\* A complete copy is of an earlier store of this process, and the file is
\* older still, unless the process began without what the file had.
OlderInv ==
  /\ \A t \in Savers : save[t] \in {"copied", "created"} =>
       Below(dump[t], mem) /\ (~blank => Below(file.data, dump[t]))
  /\ ~blank /\ (Serving \/ main = "start") => Below(file.data, mem)

LEMMA OlderInitial == Init => OlderInv
BY DEF Init, OlderInv, Serving

LEMMA BelowMem ==
  ASSUME Typed, Shape, [Next]_vars, ~Loads, ~Dies, NEW d, Below(d, mem)
  PROVE  Below(d, mem')
BY MemGrows DEF Below

LEMMA OlderInductive == Typed /\ Shape /\ CopyInv /\ OlderInv /\ [Next]_vars => OlderInv'
<1>1. SUFFICES ASSUME Typed, Shape, CopyInv, OlderInv, [Next]_vars PROVE OlderInv'
  OBVIOUS
<1>2. ASSUME ~Loads, ~Dies, UNCHANGED <<save, dump, file, blank>>,
             Serving' \/ main' = "start" => Serving \/ main = "start"
      PROVE  OlderInv'
  BY <1>1, <1>2, BelowMem DEF OlderInv
<1>3. ASSUME NEW r \in Requests, Looks(r) \/ \E n \in Names : WritesOne(r, n) PROVE OlderInv'
  <2>1. UNCHANGED <<main, save, dump, file, blank>>
    BY <1>3 DEF Looks, WritesOne, Rest, saveVars, historyVars
  <2>2. CASE ~Loads /\ ~Dies
    BY <1>2, <2>1, <2>2 DEF Serving
  <2>3. ~Loads
    BY <1>1, <2>1, LoadStep
  <2>4. CASE Dies
    <3>1. main = "off"
      BY <2>1, <2>4 DEF Dies, Exit, Kill, Gone
    <3> QED
      BY <2>1, <2>4, <3>1 DEF Dies, Exit, Kill
  <2> QED
    BY <2>2, <2>3, <2>4
<1>4. ASSUME NEW t \in Savers, Saver(t) PROVE OlderInv'
  <2>1. mem' = mem /\ save[t] # "off"
    BY <1>1, <1>4, SaverStep
  <2>2. Serving /\ \A u \in Savers : u # t => save[u] = "off"
    BY <1>1, <2>1 DEF Shape, Serving, Savers
  <2>3. CASE /\ save[t] = "called" /\ save' = [save EXCEPT ![t] = "copying"]
             /\ UNCHANGED <<main, file, blank>>
    <3>1. \A u \in Savers : save'[u] \notin {"copied", "created"}
      BY <1>1, <2>2, <2>3 DEF Typed
    <3> QED
      BY <1>1, <2>1, <2>3, <3>1 DEF OlderInv, Serving
  <2>4. CASE /\ save[t] = "copying" /\ save' = [save EXCEPT ![t] = "copied"]
             /\ dump' = [dump EXCEPT ![t] = [n \in Names |-> IF n \in Counters THEN mem[n] ELSE dump[t][n]]]
             /\ UNCHANGED <<main, file, blank>>
    <3>1. \A n \in Names : dump'[t][n] = mem[n]
      BY <1>1, <2>4 DEF CopyInv, Typed, Names
    <3>2. Below(dump'[t], mem) /\ (~blank => Below(file.data, dump'[t]))
      BY <1>1, <2>2, <3>1 DEF OlderInv, Below
    <3>3. \A u \in Savers : u # t => save'[u] = "off"
      BY <1>1, <2>2, <2>4 DEF Typed
    <3> QED
      BY <1>1, <2>1, <2>4, <3>2, <3>3 DEF OlderInv, Serving
  <2>5. CASE /\ save[t] = "copied" /\ save' = [save EXCEPT ![t] = "created"]
             /\ file' = [file EXCEPT !.whole = FALSE]
             /\ UNCHANGED <<main, dump, blank>>
    <3>1. file'.data = file.data
      BY <1>1, <2>5 DEF Typed
    <3>2. \A u \in Savers : save'[u] \in {"copied", "created"} => save[u] \in {"copied", "created"}
      BY <1>1, <2>5 DEF Typed
    <3> QED
      BY <1>1, <2>1, <2>5, <3>1, <3>2 DEF OlderInv, Serving
  <2>6. ASSUME NEW failed, SaveReturns(t, failed),
               \/ save[t] = "created" /\ file' = [data |-> dump[t], whole |-> TRUE] /\ blank' = FALSE
               \/ UNCHANGED <<file, blank>>
        PROVE  OlderInv'
    <3>1. \A u \in Savers : save'[u] \in {"off", "idle"}
      BY <1>1, <2>2, <2>6 DEF SaveReturns, Save, Typed
    <3>2. ~blank' => Below(file'.data, mem)
      BY <1>1, <2>2, <2>6 DEF OlderInv
    <3> QED
      BY <2>1, <3>1, <3>2 DEF OlderInv
  <2> QED
    BY <1>1, <1>4, <2>3, <2>4, <2>5, <2>6, SaverStep
<1>5. CASE Quiet
  <2>1. UNCHANGED <<mem, dump, file, blank>>
    BY <1>1, <1>5, QuietStep
  <2>2. /\ Serving' \/ main' = "start" => Serving \/ main = "start"
        /\ \A t \in Savers : save'[t] \in {"copied", "created"} => save[t] = save'[t]
    BY <1>1, <1>5 DEF Quiet, Tick, PeriodicReturns, Save, Boot, Signal, Drained, DrainTimeout,
                      Stopped, Main, Serving, Typed, Savers
  <2> QED
    BY <1>1, <2>1, <2>2 DEF OlderInv
<1>6. CASE Loads
  <2>1. \A t \in Savers : save'[t] \in {"off", "idle"}
    BY <1>1, <1>6, LoadStep DEF Shape, Typed, Savers
  <2>2. file' = file
    BY <1>1, <1>6, LoadStep
  <2>3. ~blank' => Below(file.data, mem')
    <3>1. CASE mem' = file.data
      BY <3>1 DEF Below
    <3>2. CASE blank' = (blank \/ file.data # EmptyStore)
      BY <3>2 DEF Below, EmptyStore
    <3> QED
      BY <1>1, <1>6, <3>1, <3>2, LoadStep DEF LoadFromFile
  <2> QED
    BY <2>1, <2>2, <2>3 DEF OlderInv
<1>7. CASE Dies
  BY <1>1, <1>7, DieStep DEF Gone, OlderInv, Serving
<1>8. CASE UNCHANGED vars
  BY <1>1, <1>8 DEF vars, saveVars, historyVars, OlderInv, Serving
<1> QED
  BY <1>1, <1>3, <1>4, <1>5, <1>6, <1>7, <1>8, StepKinds

LEMMA OlderHolds == Spec => []OlderInv
BY OlderInitial, OlderInductive, TypedHolds, ShapeHolds, CopyHolds, PTL DEF Spec

\* From one complete file to the next nothing is lost, over any number of
\* restarts.
THEOREM FilesNeverGoBack == Spec => SavesNeverGoBack
<1> DEFINE Forward == ~blank => \A n \in Names :
             IF n \in Counters THEN file.data[n] \subseteq file'.data[n]
             ELSE file.data[n] # {} => file'.data[n] # {}
<1>1. Typed /\ Shape /\ OlderInv /\ [Next]_vars => [Forward]_vars
  <2>1. SUFFICES ASSUME Typed, Shape, OlderInv, [Next]_vars, ~blank, NEW n \in Names
                 PROVE  IF n \in Counters THEN file.data[n] \subseteq file'.data[n]
                        ELSE file.data[n] # {} => file'.data[n] # {}
    BY DEF Below
  <2>2. CASE file'.data = file.data
    BY <2>2
  <2>3. ASSUME NEW t \in Savers, Saver(t), file'.data # file.data
        PROVE  Below(file.data, file'.data)
    <3>1. save[t] = "created" /\ file' = [data |-> dump[t], whole |-> TRUE]
      BY <2>1, <2>3, SaverStep DEF Typed
    <3> QED
      BY <2>1, <3>1 DEF OlderInv
  <2>4. CASE \E t \in Savers : Saver(t)
    BY <2>1, <2>2, <2>3, <2>4 DEF Below
  <2>5. CASE ~ \E t \in Savers : Saver(t)
    <3>1. file' = file
      BY <2>1, <2>5, StepKinds, QuietStep, LoadStep, DieStep
         DEF Looks, WritesOne, Rest, Gone, vars, saveVars
    <3> QED
      BY <3>1
  <2> QED
    BY <2>4, <2>5
<1> QED
  BY <1>1, TypedHolds, ShapeHolds, OlderHolds, PTL DEF Spec, SavesNeverGoBack
====
