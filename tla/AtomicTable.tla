---- MODULE AtomicTable ----
(***************************************************************************)
(* What a database storage promises the handlers.  A call that writes      *)
(* changes all of its rows at one moment, in a try that is being made or   *)
(* once for a try that was given up undecided, however late that may be.   *)
(* Nothing else changes a row after the answer, and a call that knows its  *)
(* rows are stored is not tried again.  A query sees the table of one      *)
(* moment.                                                                 *)
(***************************************************************************)
EXTENDS Naturals

CONSTANTS Gauges, Counters, Requests, Ops, Tries

VARIABLES
  data,     \* data[n][r]: how often r has changed row n
  asks,     \* what each request asks for
  call,     \* how far each request is
  pending,  \* its tries that were given up and may still be stored
  seen      \* what each request has read

vars == <<data, asks, call, pending, seen>>

Names == Gauges \cup Counters

Init ==
  /\ data = [n \in Names |-> [r \in Requests |-> 0]]
  /\ asks \in [Requests -> Ops]
  /\ call = [r \in Requests |-> "unsent"]
  /\ pending = [r \in Requests |-> {}]
  /\ seen = [r \in Requests |-> [n \in Names |-> {}]]

Goes(r, from, to) == call[r] = from /\ call' = [call EXCEPT ![r] = to]

Ask(r) ==
  /\ call[r] = "unsent"
  /\ \E o \in Ops :
       /\ asks' = [asks EXCEPT ![r] = o]
       /\ Goes(r, "unsent", IF o.kind = "index" THEN "reading" ELSE "trying")
  /\ UNCHANGED <<data, pending, seen>>

\* All rows of r; a request with an unknown type never gets here.
Stores(r) ==
  /\ asks[r].unknown = {}
  /\ data' = [n \in Names |-> IF n \in asks[r].names \ asks[r].nils
                              THEN [data[n] EXCEPT ![r] = @ + 1] ELSE data[n]]

Store(r) ==
  /\ Goes(r, "trying", "stored")
  /\ Stores(r)
  /\ UNCHANGED <<asks, pending, seen>>

\* A try that r gives up before it knows of a commit may still be stored.
GivesUp(r) ==
  \/ UNCHANGED pending
  \/ /\ call[r] = "trying"
     /\ \E a \in Tries : pending' = [pending EXCEPT ![r] = @ \cup {a}]

StoreLate(r) ==
  /\ \E a \in pending[r] : pending' = [pending EXCEPT ![r] = @ \ {a}]
  /\ Stores(r)
  /\ UNCHANGED <<asks, call, seen>>

Forget(r) ==
  /\ \E a \in pending[r] : pending' = [pending EXCEPT ![r] = @ \ {a}]
  /\ UNCHANGED <<data, asks, call, seen>>

\* Nobody heard of the commit, if there was one: the call is tried again.
Retry(r) ==
  /\ \E from \in {"trying", "stored"} : Goes(r, from, "trying")
  /\ GivesUp(r)
  /\ UNCHANGED <<data, asks, seen>>

\* A batch is answered 200 only if it is stored.
Answer(r) ==
  /\ \/ asks[r].kind = "batch" /\ Goes(r, "stored", "ok")
     \/ \E from \in {"trying", "stored"} :
          \/ asks[r].kind = "batch" /\ Goes(r, from, "failed")
          \/ asks[r].kind = "update" /\ Goes(r, from, "ok")
          \/ asks[r].kind = "json" /\ Goes(r, from, "reading")
  /\ GivesUp(r)
  /\ UNCHANGED <<data, asks, seen>>

\* Rows of one kind, all that were asked for or as many as came.
Read(r) ==
  /\ \E to \in {"reading", "ok"} : Goes(r, "reading", to)
  /\ \E ns \in (SUBSET Gauges) \cup (SUBSET Counters) :
       seen' = [seen EXCEPT ![r] = [n \in Names |->
                  IF n \in ns THEN {q \in Requests : data[n][q] > 0} ELSE @[n]]]
  /\ UNCHANGED <<data, asks, pending>>

ReadFails(r) ==
  /\ asks[r].kind = "json" /\ Goes(r, "reading", "failed")
  /\ UNCHANGED <<data, asks, pending, seen>>

\* The process is gone, and every try given up.
Break ==
  /\ call' = [r \in Requests |->
                IF call[r] \in {"trying", "stored", "reading"} THEN "broken" ELSE call[r]]
  /\ pending' \in [Requests -> SUBSET Tries]
  /\ \A r \in Requests :
       \/ pending'[r] = pending[r]
       \/ call[r] = "trying" /\ \E a \in Tries : pending'[r] = pending[r] \cup {a}
  /\ UNCHANGED <<data, asks, seen>>

Next ==
  \/ \E r \in Requests :
       \/ Ask(r) \/ Store(r) \/ Retry(r) \/ Answer(r) \/ Read(r) \/ ReadFails(r)
       \/ StoreLate(r) \/ Forget(r)
  \/ Break

Spec == Init /\ [][Next]_vars
====
