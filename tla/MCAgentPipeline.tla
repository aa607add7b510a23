---- MODULE MCAgentPipeline ----
(***************************************************************************)
(* Instances of AgentPipeline for TLC: two collectors, as in the code, two *)
(* workers, channels of capacity one, so that every channel is full, empty *)
(* and in between within two or three batches of each collector.           *)
(***************************************************************************)
EXTENDS AgentPipeline

AllTimers == {"collector", "sender", "pool", "shutdown"}
NoTimers == {}
====
