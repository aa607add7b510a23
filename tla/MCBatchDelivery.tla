---- MODULE MCBatchDelivery ----
(***************************************************************************)
(* The values of utils.DefaultRetryConfig.  They are the code's own: no    *)
(* bound is scaled down.                                                   *)
(***************************************************************************)
EXTENDS BatchDelivery

DefaultDelays == <<1, 3, 5>>
====
