---- MODULE AtomicStore ----
(***************************************************************************)
(* What the store promises those who use it: each request's access to it,  *)
(* each copy that is saved and each load happens at one moment.            *)
(*                                                                         *)
(* A batch without a broken metric is stored at once, so no reader and no  *)
(* copy ever sees a part of it.  One that will be refused may leave some   *)
(* of its metrics, each stored on its own.                                 *)
(***************************************************************************)
CONSTANTS Gauges, Counters, Requests, Ops, Savers

VARIABLES
  data,  \* the metrics stored
  asks,  \* what each request asks for
  seen,  \* what each request has read
  copy,  \* the copy each saver holds
  disk   \* the copy saved last

vars == <<data, asks, seen, copy, disk>>

Names == Gauges \cup Counters
Empty == [n \in Names |-> {}]

\* The store d after request r has written the metrics ns.
Written(d, ns, r) ==
  [n \in Names |-> IF n \notin ns THEN d[n]
                   ELSE IF n \in Counters THEN d[n] \cup {r} ELSE {r}]

\* What r has seen once it has read the metrics ns.
Look(r, ns) == [n \in Names |-> IF n \in ns THEN data[n] ELSE seen[r][n]]

Init ==
  /\ data = Empty
  /\ asks \in [Requests -> Ops]
  /\ seen = [r \in Requests |-> Empty]
  /\ copy = [t \in Savers |-> Empty]
  /\ disk = Empty

Ask(r) ==
  /\ \E o \in Ops : asks' = [asks EXCEPT ![r] = o]
  /\ UNCHANGED <<data, seen, copy, disk>>

Write(r) ==
  /\ asks[r].kind \in {"update", "json", "batch"} /\ asks[r].broken = {}
  /\ data' = Written(data, asks[r].names, r)
  /\ UNCHANGED <<asks, seen, copy, disk>>

WritePart(r) ==
  /\ asks[r].kind = "batch" /\ asks[r].broken # {}
  /\ \E n \in asks[r].names \ asks[r].broken : data' = Written(data, {n}, r)
  /\ UNCHANGED <<asks, seen, copy, disk>>

Read(r) ==
  /\ asks[r].kind \notin {"update", "batch"}
  /\ \E ns \in {Gauges, Counters, asks[r].names} : seen' = [seen EXCEPT ![r] = Look(r, ns)]
  /\ UNCHANGED <<data, asks, copy, disk>>

Copy(t) ==
  /\ copy' = [copy EXCEPT ![t] = data]
  /\ UNCHANGED <<data, asks, seen, disk>>

\* The copy is written to the disk, or given up.
Save(t) ==
  /\ disk' \in {disk, copy[t]}
  /\ copy' = [copy EXCEPT ![t] = Empty]
  /\ UNCHANGED <<data, asks, seen>>

Load == data' = disk /\ UNCHANGED <<asks, seen, copy, disk>>

\* The process is gone.
Lose ==
  /\ data' = Empty
  /\ copy' = [t \in Savers |-> Empty]
  /\ UNCHANGED <<asks, seen, disk>>

Next ==
  \/ \E r \in Requests : Ask(r) \/ Write(r) \/ WritePart(r) \/ Read(r)
  \/ \E t \in Savers : Copy(t) \/ Save(t)
  \/ Load \/ Lose

Spec == Init /\ [][Next]_vars
====
