---- MODULE MCDatabaseStorage ----
(***************************************************************************)
(* Instances of DatabaseStorage for TLC: one gauge and one counter, so     *)
(* that two batches can take the two rows in opposite orders.              *)
(***************************************************************************)
EXTENDS DatabaseStorage

AllFaults == {"network", "time", "kill"}
\* A batch names both metrics: one that names a single metric is a single
\* update but for its answer.
Pairs == {Gauges \cup Counters}

Timers == {"time"}
====
