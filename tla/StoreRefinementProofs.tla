---- MODULE StoreRefinementProofs ----
(***************************************************************************)
(* MetricsServer implements AtomicStore, for any metrics and requests: the *)
(* locks make of the maps and the file a store whose accesses are atomic.  *)
(***************************************************************************)
EXTENDS MetricsServerProofs

\* AtOnce and Copies as operators of the variables they read.
View(m, p, o, w) ==
  [n \in Names |->
     LET writer == {r \in Requests : p[r] = "locked" /\ o[r].broken = {}
                                      /\ w[r] # o[r].names /\ n \in w[r]} IN
     IF n \in Counters \/ writer = {} THEN m[n] \cup writer ELSE writer]

CopyView(m, s, d) ==
  [t \in Savers |-> IF s[t] = "copying"
                    THEN [n \in Names |-> IF n \in Counters THEN m[n] ELSE d[t][n]]
                    ELSE d[t]]

LEMMA Views ==
  /\ AtOnce = View(mem, pc, op, todo) /\ AtOnce' = View(mem', pc', op', todo')
  /\ Copies = CopyView(mem, save, dump) /\ Copies' = CopyView(mem', save', dump')
BY DEF AtOnce, View, Copies, CopyView

\* No batch is half stored, or it is one that will be refused.
LEMMA ViewNone ==
  ASSUME NEW m \in Store, NEW p, NEW o, NEW w,
         \A r \in Requests : p[r] = "locked" => o[r].broken # {} \/ w[r] = o[r].names
  PROVE  View(m, p, o, w) = m
<1>1. \A n \in Names : {r \in Requests : p[r] = "locked" /\ o[r].broken = {}
                                          /\ w[r] # o[r].names /\ n \in w[r]} = {}
  OBVIOUS
<1>2. View(m, p, o, w) = [n \in Names |-> m[n]]
  BY <1>1 DEF View
<1> QED
  BY <1>2 DEF Store

\* A batch that will be stored has begun.
LEMMA ViewOne ==
  ASSUME NEW m \in Store, NEW p, NEW o, NEW w, NEW r \in Requests,
         p[r] = "locked", o[r].broken = {}, w[r] # o[r].names,
         \A q \in Requests : p[q] = "locked" => q = r
  PROVE  View(m, p, o, w) =
           [n \in Names |-> IF n \notin w[r] THEN m[n]
                            ELSE IF n \in Counters THEN m[n] \cup {r} ELSE {r}]
<1> DEFINE W(n) == {q \in Requests : p[q] = "locked" /\ o[q].broken = {}
                                     /\ w[q] # o[q].names /\ n \in w[q]}
<1>1. \A n \in Names : W(n) = IF n \in w[r] THEN {r} ELSE {}
  OBVIOUS
<1>2. \A n \in Names : (IF n \in Counters \/ W(n) = {} THEN m[n] \cup W(n) ELSE W(n))
                        = IF n \notin w[r] THEN m[n]
                          ELSE IF n \in Counters THEN m[n] \cup {r} ELSE {r}
  BY <1>1
<1> QED
  BY <1>2 DEF View

\* Only the batches under way count.
HalfWay(p, o, w, r) == p[r] = "locked" /\ o[r].broken = {} /\ w[r] # o[r].names

LEMMA ViewSame ==
  ASSUME NEW m, NEW p, NEW o, NEW w, NEW p2, NEW o2, NEW w2,
         \A r \in Requests : HalfWay(p, o, w, r) => HalfWay(p2, o2, w2, r) /\ w[r] = w2[r],
         \A r \in Requests : HalfWay(p2, o2, w2, r) => HalfWay(p, o, w, r) /\ w[r] = w2[r]
  PROVE  View(m, p, o, w) = View(m, p2, o2, w2)
<1>1. \A n \in Names : {r \in Requests : p[r] = "locked" /\ o[r].broken = {}
                                          /\ w[r] # o[r].names /\ n \in w[r]}
                       = {r \in Requests : p2[r] = "locked" /\ o2[r].broken = {}
                                          /\ w2[r] # o2[r].names /\ n \in w2[r]}
  BY DEF HalfWay
<1> QED
  BY <1>1 DEF View

LEMMA CopySame ==
  ASSUME NEW m, NEW m2, NEW s, NEW s2, NEW d,
         \A t \in Savers : (s[t] = "copying") = (s2[t] = "copying"),
         m = m2 \/ \A t \in Savers : s[t] # "copying"
  PROVE  CopyView(m, s, d) = CopyView(m2, s2, d)
BY DEF CopyView
----
LEMMA FirstMoment == Init => Atomic!Init
<1> SUFFICES ASSUME Init PROVE Atomic!Init
  OBVIOUS
<1>1. AtOnce = EmptyStore
  BY Views, ViewNone, EmptyIsStore DEF Init
<1>2. Copies = [t \in Savers |-> EmptyStore]
  BY DEF Init, Copies
<1>3. op \in [Requests -> Ops]
  BY TypedInitial DEF Typed
<1> QED
  BY <1>1, <1>2, <1>3 DEF Init, Atomic!Init, Atomic!Empty, Atomic!Names, EmptyStore, Names

\* Where no batch holds the lock, what is stored is what the maps hold.
LEMMA AtRest ==
  ASSUME Typed, \A r \in Requests : pc[r] = "locked" => op[r].broken # {} \/ todo[r] = op[r].names
  PROVE  AtOnce = mem
<1>1. mem \in Store
  BY DEF Typed
<1> QED
  BY <1>1, Views, ViewNone

LEMMA AtRestNext ==
  ASSUME Typed', \A r \in Requests : pc'[r] = "locked" => op'[r].broken # {} \/ todo'[r] = op'[r].names
  PROVE  AtOnce' = mem'
<1>1. mem' \in Store
  BY DEF Typed
<1> QED
  BY <1>1, Views, ViewNone

\* A handler that writes nothing leaves what is stored, and every copy.
LEMMA LooksSame ==
  ASSUME Typed, Typed', Shape, NEW r \in Requests, Looks(r)
  PROVE  UNCHANGED <<AtOnce, Copies>> /\ file' = file
<1>1. \A q \in Requests :
        /\ HalfWay(pc, op, todo, q) => HalfWay(pc', op', todo', q) /\ todo[q] = todo'[q]
        /\ HalfWay(pc', op', todo', q) => HalfWay(pc, op, todo, q) /\ todo[q] = todo'[q]
  <2>1. ASSUME NEW q \in Requests, q # r
        PROVE  /\ HalfWay(pc, op, todo, q) => HalfWay(pc', op', todo', q) /\ todo[q] = todo'[q]
               /\ HalfWay(pc', op', todo', q) => HalfWay(pc, op, todo, q) /\ todo[q] = todo'[q]
    BY <2>1 DEF Looks, HalfWay
  <2>2. ~HalfWay(pc, op, todo, r) /\ ~HalfWay(pc', op', todo', r)
    BY DEF Looks, HalfWay
  <2> QED
    BY <2>1, <2>2
<1>2. View(mem, pc, op, todo) = View(mem, pc', op', todo')
  BY <1>1, ViewSame
<1> QED
  BY <1>2, Views DEF Looks

LEMMA ReadIsAtomic ==
  ASSUME Typed, Typed', Shape, NEW r \in Requests,
         \/ ReadBack(r) \/ ValueHandler(r) \/ ValueJSONHandler(r)
         \/ IndexGauges(r) \/ IndexCounters(r)
  PROVE  Atomic!Read(r)
<1>1. UNCHANGED <<AtOnce, Copies>> /\ file' = file
  BY LookStep, LooksSame
<1>2. op' = op /\ CanRead
  BY GetStep, IndexStep DEF Rest
<1>3. AtOnce = mem
  BY <1>2, AtRest DEF CanRead
<1>4. CASE ReadBack(r) \/ ValueHandler(r) \/ ValueJSONHandler(r)
  <2>1. PICK n \in op[r].names \cap Names : got' = [got EXCEPT ![r][n] = mem[n]]
    BY <1>4, GetStep
  <2>2. op[r].kind \in {"json", "value", "valueJSON"}
    BY <1>4, GetStep DEF Shape
  <2>3. op[r].names = {n}
    BY <2>1, <2>2, SingleNames
  <2>4. [got[r] EXCEPT ![n] = mem[n]] = Atomic!Look(r, op[r].names)
    BY <1>3, <2>3 DEF Atomic!Look, Atomic!Names, Names, Typed, Store
  <2>5. got' = [got EXCEPT ![r] = Atomic!Look(r, op[r].names)]
    BY <2>1, <2>4 DEF Typed
  <2> QED
    BY <1>1, <1>2, <2>2, <2>5 DEF Atomic!Read
<1>5. CASE IndexGauges(r) \/ IndexCounters(r)
  <2>1. PICK K \in {Gauges, Counters} : got' = [got EXCEPT ![r] = Page(r, K)]
    BY <1>5, IndexStep
  <2>2. op[r].kind = "index"
    BY <1>5, IndexStep DEF Shape
  <2>3. Page(r, K) = Atomic!Look(r, K)
    BY <1>3 DEF Page, Atomic!Look, Atomic!Names, Names
  <2> QED
    BY <1>1, <1>2, <2>1, <2>2, <2>3 DEF Atomic!Read
<1> QED
  BY <1>4, <1>5

LEMMA MoveIsAtomic ==
  ASSUME Typed, Typed', Shape, NEW r \in Requests, Moves(r)
  PROVE  Atomic!Ask(r) \/ UNCHANGED Atomic!vars
<1>1. UNCHANGED <<AtOnce, Copies>> /\ file' = file
  BY LookStep, LooksSame
<1>2. got' = got /\ (op' = op \/ \E o \in Ops : op' = [op EXCEPT ![r] = o])
  BY MoveStep
<1> QED
  BY <1>1, <1>2 DEF Atomic!Ask, Atomic!vars

\* A write is a moment of the store: that of its only metric, or that of the
\* first of its batch.
LEMMA WriteIsAtomic ==
  ASSUME Typed, Typed', Shape, NEW r \in Requests, NEW n \in Names, WritesOne(r, n)
  PROVE  Atomic!Write(r) \/ Atomic!WritePart(r) \/ UNCHANGED Atomic!vars
<1>1. UNCHANGED <<op, save, dump, file, got>>
  BY DEF WritesOne, Rest, saveVars
<1>2. Copies' = Copies
  <2>1. CopyView(mem, save, dump) = CopyView(mem', save, dump)
    BY CopySame DEF WritesOne
  <2> QED
    BY <1>1, <2>1, Views
<1>3. mem \in Store /\ mem' \in Store /\ op[r] \in Ops /\ op[r].names \subseteq Names /\ n \in op[r].names
  BY OpsNames DEF Typed, WritesOne
<1>4. \A m \in Names : mem'[m] = IF m # n THEN mem[m] ELSE IF n \in Counters THEN mem[n] \cup {r} ELSE {r}
  BY Written1
<1>5. mem' = Atomic!Written(mem, {n}, r)
  <2>1. mem' = [m \in Names |-> mem'[m]]
    BY <1>3 DEF Store
  <2> QED
    BY <1>4, <2>1 DEF Atomic!Written, Atomic!Names, Names
<1>6. \A q \in Requests : pc[q] = "locked" \/ pc'[q] = "locked" => q = r
  BY DEF WritesOne, Typed
<1>7. CASE op[r].kind \in {"update", "json"}
  <2>1. op[r].broken = {} /\ \E m \in Names : op[r].names = {m}
    BY <1>3, <1>7, SingleOps
  <2>2. op[r].broken = {} /\ op[r].names = {n}
    BY <1>3, <2>1
  <2>3. pc[r] # "locked" /\ pc'[r] # "locked"
    BY <1>7 DEF WritesOne, Typed
  <2>4. AtOnce = mem /\ AtOnce' = mem'
    BY <1>6, <2>3, AtRest, AtRestNext
  <2> QED
    BY <1>1, <1>2, <1>5, <1>7, <2>2, <2>4 DEF Atomic!Write
<1>8. CASE op[r].kind = "batch" /\ op[r].broken # {}
  <2>1. AtOnce = mem /\ AtOnce' = mem'
    BY <1>1, <1>6, <1>8, AtRest, AtRestNext
  <2>2. n \in op[r].names \ op[r].broken
    BY <1>3, <1>8 DEF WritesOne
  <2> QED
    BY <1>1, <1>2, <1>5, <1>8, <2>1, <2>2 DEF Atomic!WritePart
<1>9. CASE op[r].kind = "batch" /\ op[r].broken = {}
  <2>1. /\ pc[r] = "locked" /\ n \in todo[r] /\ todo[r] \subseteq op[r].names
        /\ todo'[r] = todo[r] \ {n}
        /\ pc'[r] = IF todo[r] = {n} THEN "reply" ELSE "locked"
    BY <1>9 DEF WritesOne, Shape, Typed
  <2> DEFINE New(m) == IF m \in Counters THEN mem[m] \cup {r} ELSE {r}
  <2>2. AtOnce' = [m \in Names |-> IF m \in todo[r] THEN New(m) ELSE mem[m]]
    <3>1. CASE todo[r] = {n}
      <4>1. AtOnce' = mem'
        BY <1>6, <2>1, <3>1, AtRestNext
      <4>2. mem' = [m \in Names |-> mem'[m]]
        BY <1>3 DEF Store
      <4> QED
        BY <1>4, <3>1, <4>1, <4>2
    <3>2. CASE todo[r] # {n}
      <4>1. todo'[r] # op[r].names /\ pc'[r] = "locked"
        BY <1>3, <2>1, <3>2
      <4>2. View(mem', pc', op', todo') =
              [m \in Names |-> IF m \notin todo'[r] THEN mem'[m]
                               ELSE IF m \in Counters THEN mem'[m] \cup {r} ELSE {r}]
        <5>1. /\ pc'[r] = "locked"
              /\ op'[r].broken = {} /\ todo'[r] # op'[r].names
          BY <1>1, <1>3, <1>9, <4>1
        <5>2. \A q \in Requests : pc'[q] = "locked" => q = r
          BY <1>6
        <5>3. \A m \in Names : {q \in Requests : pc'[q] = "locked" /\ op'[q].broken = {}
                                               /\ todo'[q] # op'[q].names /\ m \in todo'[q]}
                               = IF m \in todo'[r] THEN {r} ELSE {}
          BY <5>1, <5>2
        <5> QED
          BY <5>3 DEF View
      <4>3. \A m \in Names : (IF m \notin todo'[r] THEN mem'[m]
                               ELSE IF m \in Counters THEN mem'[m] \cup {r} ELSE {r})
                              = IF m \in todo[r] THEN New(m) ELSE mem[m]
        BY <1>4, <2>1
      <4> QED
        BY <4>2, <4>3, Views
    <3> QED
      BY <3>1, <3>2
  <2>3. CASE todo[r] = op[r].names
    <3>1. AtOnce = mem
      BY <1>6, <2>3, AtRest
    <3>2. AtOnce' = Atomic!Written(AtOnce, op[r].names, r)
      BY <2>2, <2>3, <3>1 DEF Atomic!Written, Atomic!Names, Names
    <3> QED
      BY <1>1, <1>2, <1>9, <3>2 DEF Atomic!Write
  <2>4. CASE todo[r] # op[r].names
    <3>1. View(mem, pc, op, todo) =
              [m \in Names |-> IF m \notin todo[r] THEN mem[m]
                               ELSE IF m \in Counters THEN mem[m] \cup {r} ELSE {r}]
      BY <1>3, <1>6, <1>9, <2>1, <2>4, ViewOne
    <3>2. AtOnce' = AtOnce
      BY <2>2, <3>1, Views
    <3> QED
      BY <1>1, <1>2, <3>2 DEF Atomic!vars
  <2> QED
    BY <2>3, <2>4
<1> QED
  BY <1>7, <1>8, <1>9 DEF WritesOne

LEMMA SaverIsAtomic ==
  ASSUME Typed, Typed', Shape, CopyInv, NEW t \in Savers, Saver(t)
  PROVE  Atomic!Copy(t) \/ Atomic!Save(t) \/ UNCHANGED Atomic!vars
<1>1. UNCHANGED <<mem, op, pc, todo, got>>
  BY SaverStep
<1>2. AtOnce' = AtOnce
  BY <1>1, Views
<1>3. CASE /\ save[t] = "called" /\ CanRead /\ save' = [save EXCEPT ![t] = "copying"]
           /\ dump' = [dump EXCEPT ![t] = [n \in Names |-> IF n \in Gauges THEN mem[n] ELSE {}]]
           /\ UNCHANGED file
  <2>1. AtOnce = mem
    BY <1>3, AtRest DEF CanRead
  <2>2. \A u \in Savers : u # t => save'[u] = save[u] /\ dump'[u] = dump[u]
    BY <1>3 DEF Typed
  <2>3. [n \in Names |-> IF n \in Counters THEN mem[n] ELSE dump'[t][n]] = mem
    <3>1. \A n \in Names : (IF n \in Counters THEN mem[n] ELSE dump'[t][n]) = mem[n]
      BY <1>3 DEF Typed, Names
    <3> QED
      BY <3>1 DEF Typed, Store
  <2>4. save'[t] = "copying"
    BY <1>3 DEF Typed
  <2>5. Copies' = [Copies EXCEPT ![t] = AtOnce]
    BY <1>1, <2>1, <2>2, <2>3, <2>4 DEF Copies
  <2> QED
    BY <1>1, <1>2, <1>3, <2>5 DEF Atomic!Copy
<1>4. CASE /\ save[t] = "copying" /\ save' = [save EXCEPT ![t] = "copied"]
           /\ dump' = [dump EXCEPT ![t] = [n \in Names |-> IF n \in Counters THEN mem[n] ELSE dump[t][n]]]
           /\ UNCHANGED file
  <2>1. \A u \in Savers : u # t => save'[u] = save[u] /\ dump'[u] = dump[u]
    BY <1>4 DEF Typed
  <2>2. save'[t] = "copied" /\ dump'[t] = [n \in Names |-> IF n \in Counters THEN mem[n] ELSE dump[t][n]]
    BY <1>4 DEF Typed
  <2>3. Copies' = Copies
    BY <1>1, <1>4, <2>1, <2>2 DEF Copies
  <2> QED
    BY <1>1, <1>2, <1>4, <2>3 DEF Atomic!vars
<1>5. CASE save[t] = "copied" /\ save' = [save EXCEPT ![t] = "created"]
           /\ file' = [file EXCEPT !.whole = FALSE] /\ UNCHANGED dump
  <2>1. \A u \in Savers : (save[u] = "copying") = (save'[u] = "copying")
    BY <1>5 DEF Typed
  <2>2. Copies' = Copies
    BY <1>1, <1>5, <2>1 DEF Copies
  <2>3. file'.data = file.data
    BY <1>5 DEF Typed
  <2> QED
    BY <1>1, <1>2, <2>2, <2>3 DEF Atomic!vars
<1>6. ASSUME NEW failed, SaveReturns(t, failed), save[t] \in {"copied", "created"},
             \/ file' = [data |-> dump[t], whole |-> TRUE]
             \/ file' = file
      PROVE  Atomic!Save(t)
  <2>1. /\ save'[t] # "copying" /\ dump'[t] = EmptyStore
        /\ \A u \in Savers : u # t => save'[u] = save[u] /\ dump'[u] = dump[u]
    BY <1>6 DEF SaveReturns, Save, Typed
  <2>2. Copies' = [Copies EXCEPT ![t] = EmptyStore]
    BY <1>1, <2>1 DEF Copies
  <2>3. Copies[t] = dump[t]
    BY <1>6 DEF Copies
  <2>4. EmptyStore = Atomic!Empty
    BY DEF EmptyStore, Atomic!Empty, Atomic!Names, Names
  <2>5. file'.data \in {file.data, Copies[t]}
    BY <1>6, <2>3
  <2> QED
    BY <1>1, <1>2, <2>2, <2>4, <2>5 DEF Atomic!Save
<1> QED
  BY <1>3, <1>4, <1>5, <1>6, SaverStep

LEMMA MainIsAtomic ==
  ASSUME Typed, Typed', Shape, Quiet \/ Loads \/ Dies \/ UNCHANGED vars
  PROVE  Atomic!Load \/ Atomic!Lose \/ UNCHANGED Atomic!vars
<1>1. CASE Quiet
  <2>1. UNCHANGED <<mem, op, pc, todo, got, dump, file>>
    BY <1>1, QuietStep
  <2>2. \A t \in Savers : (save[t] = "copying") = (save'[t] = "copying")
    BY <1>1 DEF Quiet, Tick, PeriodicReturns, Save, Boot, Signal, Drained, DrainTimeout,
                Stopped, Main, Shape, Typed, Savers
  <2>3. Copies' = Copies
    BY <2>1, <2>2 DEF Copies
  <2> QED
    BY <2>1, <2>3, Views DEF Atomic!vars
<1>2. CASE Loads
  <2>1. \A t \in Savers : save[t] # "copying" /\ save'[t] # "copying"
    BY <1>2, LoadStep DEF Shape, Typed, Savers
  <2>2. \A r \in Requests : pc[r] # "locked" /\ pc'[r] # "locked"
    BY <1>2, LoadStep DEF Shape, Active, Serving
  <2>3. UNCHANGED <<op, got, dump, file>> /\ mem' \in {mem, file.data}
    BY <1>2, LoadStep
  <2>4. AtOnce = mem /\ AtOnce' = mem'
    BY <2>2, AtRest, AtRestNext
  <2>5. Copies' = Copies
    BY <2>1, <2>3 DEF Copies
  <2> QED
    BY <2>3, <2>4, <2>5 DEF Atomic!Load, Atomic!vars
<1>3. CASE Dies
  <2>1. /\ mem' = EmptyStore /\ UNCHANGED <<op, got, file>>
        /\ save' = [t \in Savers |-> "off"] /\ dump' = [t \in Savers |-> EmptyStore]
    BY <1>3, DieStep DEF Gone
  <2>2. \A r \in Requests : pc'[r] # "locked"
    BY <1>3, DieStep DEF Active
  <2>3. AtOnce' = EmptyStore
    BY <2>1, <2>2, AtRestNext
  <2>4. Copies' = [t \in Savers |-> EmptyStore]
    BY <2>1 DEF Copies
  <2>5. EmptyStore = Atomic!Empty
    BY DEF EmptyStore, Atomic!Empty, Atomic!Names, Names
  <2> QED
    BY <2>1, <2>3, <2>4, <2>5 DEF Atomic!Lose
<1>4. CASE UNCHANGED vars
  BY <1>4, Views DEF vars, requestVars, saveVars, Atomic!vars
<1> QED
  BY <1>1, <1>2, <1>3, <1>4

LEMMA Moments ==
  Typed /\ Shape /\ CopyInv /\ [Next]_vars => [Atomic!Next]_(Atomic!vars)
<1>1. SUFFICES ASSUME Typed, Shape, CopyInv, [Next]_vars PROVE [Atomic!Next]_(Atomic!vars)
  OBVIOUS
<1>2. Typed'
  BY <1>1, TypedInductive
<1>3. ASSUME NEW r \in Requests, BatchItem(r), mem' = mem PROVE UNCHANGED Atomic!vars \/ \E n \in Names : WritesOne(r, n)
  <2>1. got' = got /\ op' = op
    BY <1>1, <1>3, BatchStep DEF Rest
  <2> QED
    BY <1>1, <1>2, <1>3, <2>1, RefuseStep, LooksSame DEF Atomic!vars
<1> QED
  BY <1>1, <1>2, <1>3, NextCases, WriteStep, WriteIsAtomic, MoveIsAtomic, ReadIsAtomic,
     SaverIsAtomic, MainIsAtomic DEF Atomic!Next

\* Every access to the metrics, every save and every load happens at one
\* moment, seen from all others.
THEOREM StoreImplementsAtomicStore == Spec => StoreIsAtomic
<1>1. Init => Atomic!Init
  BY FirstMoment
<1>2. Typed /\ Shape /\ CopyInv /\ [Next]_vars => [Atomic!Next]_(Atomic!vars)
  BY Moments
<1> QED
  BY <1>1, <1>2, TypedHolds, ShapeHolds, CopyHolds, PTL DEF Spec, StoreIsAtomic, Atomic!Spec
====
