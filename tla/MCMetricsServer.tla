---- MODULE MCMetricsServer ----
(***************************************************************************)
(* Instances of MetricsServer for TLC: one gauge and one counter, so that  *)
(* a batch can name both, and requests enough for one to see another.      *)
(***************************************************************************)
EXTENDS MetricsServer, TLC

AllFaults == {"kill", "disk", "slow"}
SlowClients == {"slow"}

\* The requests are interchangeable.
RequestSymmetry == Permutations(Requests)
====
