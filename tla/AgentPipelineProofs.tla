---- MODULE AgentPipelineProofs ----
(***************************************************************************)
(* Proofs about AgentPipeline: its types, the order of its shutdown, and   *)
(* what a panic needs, for any number of collectors, workers and batches,  *)
(* any channel capacity and any choice of timers that may expire.          *)
(***************************************************************************)
EXTENDS AgentPipeline, TLAPS

\* A goroutine's hold is a sequence of one batch at most, so what it sends
\* makes a channel longer by one at most.
LEMMA OneMore ==
  ASSUME NEW q \in Seq(Batch), NEW x \in AtMostOne
  PROVE  q \o x \in Seq(Batch) /\ Len(q \o x) <= Len(q) + 1
<1>1. CASE x = <<>>
  BY <1>1
<1>2. ASSUME NEW b \in Batch, x = <<b>> PROVE q \o x \in Seq(Batch) /\ Len(q \o x) <= Len(q) + 1
  BY <1>2
<1> QED
  BY <1>1, <1>2 DEF AtMostOne

\* pollCount and the batches a collector has put into its channel agree, but
\* for the one batch it may be offering.
Numbering ==
  \A c \in Collectors :
    /\ accepted[c] <= polls[c]
    /\ coll[c] = "poll" => accepted[c] = polls[c]
    /\ coll[c] = "offer" => accepted[c] + 1 = polls[c]

TypeInv == TypeOK /\ Numbering

\* Every send checks HasRoom, every receive takes one batch, and a batch is
\* numbered by its collector's pollCount: the variables keep their types.
LEMMA TypeInvInductive == Spec => []TypeInv
<1>1. Init => TypeInv
  <2> SUFFICES ASSUME Init PROVE TypeInv
    OBVIOUS
  <2>1. /\ polls \in [Collectors -> 0..MaxBatches]
        /\ sent \in [Collectors -> SUBSET (1..MaxBatches)]
        /\ accepted \in [Collectors -> Nat] /\ taken \in [Collectors -> Nat]
    BY PipelineAssumption DEF Init
  <2>2. /\ collCh \in Seq(Batch) /\ Len(collCh) <= Cap
        /\ sendCh \in Seq(Batch) /\ Len(sendCh) <= Cap
        /\ tasks \in Seq(Batch) /\ Len(tasks) <= Cap
    BY PipelineAssumption DEF Init
  <2>3. TypeOK
    BY <2>1, <2>2 DEF Init, TypeOK, AtMostOne
  <2> QED
    BY <2>3 DEF Init, TypeInv, Numbering
<1>2. TypeInv /\ [Next]_vars => TypeInv'
  <2> SUFFICES ASSUME TypeInv, [Next]_vars PROVE TypeInv'
    OBVIOUS
  <2> USE PipelineAssumption DEF TypeInv, TypeOK, shutdownVars, collectVars, moveVars, poolVars
  <2>1. ASSUME NEW c \in Collectors, Tick(c) PROVE TypeInv'
    <3>1. TypeOK'
      BY <2>1 DEF Tick
    <3>2. Numbering'
      BY <2>1 DEF Tick, Numbering
    <3> QED
      BY <3>1, <3>2
  <2>2. ASSUME NEW c \in Collectors, Offer(c) PROVE TypeInv'
    <3>1. [src |-> c, n |-> polls[c]] \in Batch
      BY <2>2 DEF Offer, Numbering, Batch
    <3>2. collCh' \in Seq(Batch) /\ Len(collCh') <= Cap
      BY <2>2, <3>1 DEF Offer, HasRoom
    <3>3. /\ coll' \in [Collectors -> {"poll", "offer", "quit"}]
          /\ accepted' \in [Collectors -> Nat]
      BY <2>2 DEF Offer
    <3>4. UNCHANGED <<proc, shutdownVars, polls, moveVars, poolVars>>
      BY <2>2 DEF Offer
    <3>5. TypeOK'
      BY <3>2, <3>3, <3>4
    <3>6. Numbering'
      BY <2>2 DEF Offer, Numbering
    <3> QED
      BY <3>5, <3>6
  <2>3. ASSUME NEW c \in Collectors, OfferOnClosed(c) PROVE TypeInv'
    BY <2>3 DEF OfferOnClosed, Panic, Numbering
  <2>4. ASSUME NEW c \in Collectors, CollectorReturns(c) PROVE TypeInv'
    BY <2>4 DEF CollectorReturns, Numbering
  <2>5. CASE TransferTakes
    <3>1. xfer' \in AtMostOne
      BY <2>5 DEF TransferTakes, AtMostOne
    <3>2. collCh' \in Seq(Batch) /\ Len(collCh') <= Cap
      BY <2>5 DEF TransferTakes
    <3> QED
      BY <2>5, <3>1, <3>2 DEF TransferTakes, Numbering
  <2>6. CASE TransferSends
    <3>1. sendCh' \in Seq(Batch) /\ Len(sendCh') <= Cap
      BY <2>6, OneMore DEF TransferSends, HasRoom
    <3>2. xfer' \in AtMostOne
      BY <2>6 DEF TransferSends, AtMostOne
    <3>3. UNCHANGED <<proc, shutdownVars, collectVars, xferDone, sub, poolVars>>
      BY <2>6 DEF TransferSends
    <3> QED
      BY <3>1, <3>2, <3>3 DEF Numbering
  <2>7. CASE TransferSendsOnClosed
    BY <2>7 DEF TransferSendsOnClosed, Panic, Numbering
  <2>8. CASE TransferReturns
    BY <2>8 DEF TransferReturns, Numbering
  <2>9. CASE SubmitterTakes
    <3>1. sub' \in AtMostOne
      BY <2>9 DEF SubmitterTakes, AtMostOne
    <3>2. sendCh' \in Seq(Batch) /\ Len(sendCh') <= Cap
      BY <2>9 DEF SubmitterTakes
    <3> QED
      BY <2>9, <3>1, <3>2 DEF SubmitterTakes, Numbering
  <2>10. CASE Submit
    <3>1. tasks' \in Seq(Batch) /\ Len(tasks') <= Cap
      BY <2>10, OneMore DEF Submit, HasRoom
    <3>2. sub' \in AtMostOne
      BY <2>10 DEF Submit, AtMostOne
    <3>3. UNCHANGED <<proc, shutdownVars, collectVars, xfer, xferDone, sendCh,
                      job, quit, taken, sent>>
      BY <2>10 DEF Submit
    <3> QED
      BY <3>1, <3>2, <3>3 DEF Numbering
  <2>11. CASE SubmitOnClosed
    BY <2>11 DEF SubmitOnClosed, Panic, Numbering
  <2>12. ASSUME NEW w \in Workers, WorkerTakes(w) PROVE TypeInv'
    <3>1. Head(tasks) \in Batch /\ tasks' \in Seq(Batch) /\ Len(tasks') <= Cap
      BY <2>12 DEF WorkerTakes
    <3>2. job' \in [Workers -> AtMostOne]
      BY <2>12, <3>1 DEF WorkerTakes, AtMostOne
    <3>3. taken' \in [Collectors -> Nat]
      <4> DEFINE c == Head(tasks).src
      <4>1. c \in Collectors
        BY <3>1 DEF Batch
      <4>2. taken' = [taken EXCEPT ![c] = @ + 1]
        BY <2>12 DEF WorkerTakes
      <4> HIDE DEF c
      <4> QED
        BY <4>1, <4>2
    <3>4. UNCHANGED <<proc, shutdownVars, collectVars, moveVars, quit, sent>>
      BY <2>12 DEF WorkerTakes
    <3> QED
      BY <3>1, <3>2, <3>3, <3>4 DEF Numbering
  <2>13. ASSUME NEW w \in Workers, WorkerTakesNil(w) PROVE TypeInv'
    BY <2>13 DEF WorkerTakesNil, Panic, Numbering
  <2>14. ASSUME NEW w \in Workers, WorkerReturns(w) PROVE TypeInv'
    BY <2>14 DEF WorkerReturns, Numbering
  <2>15. ASSUME NEW w \in Workers, WorkerFinishes(w) PROVE TypeInv'
    <3>1. PICK b \in Batch : job[w] = <<b>>
      BY <2>15 DEF WorkerFinishes, AtMostOne
    <3>2. sent' = [sent EXCEPT ![b.src] = @ \cup {b.n}]
      BY <2>15, <3>1 DEF WorkerFinishes
    <3>3. sent' \in [Collectors -> SUBSET (1..MaxBatches)]
      BY <3>2 DEF Batch
    <3>4. job' \in [Workers -> AtMostOne]
      BY <2>15 DEF WorkerFinishes, AtMostOne
    <3> QED
      BY <2>15, <3>3, <3>4 DEF WorkerFinishes, Numbering
  <2>16. CASE Signal
    BY <2>16 DEF Signal, Numbering
  <2>17. CASE CollectorStopped \/ CollectorTimeout
    <3>1. PICK timers \in SUBSET Timers : CloseMetrics(timers)
      BY <2>17 DEF CollectorStopped, CollectorTimeout
    <3>2. TypeOK'
      BY <3>1 DEF CloseMetrics
    <3>3. Numbering'
      BY <3>1 DEF CloseMetrics, Numbering
    <3> QED
      BY <3>2, <3>3
  <2>18. CASE CancelSender
    BY <2>18 DEF CancelSender, Numbering
  <2>19. CASE PoolStopped \/ PoolTimeout
    <3>1. PICK timers \in SUBSET Timers : CloseTasks(timers)
      BY <2>19 DEF PoolStopped, PoolTimeout
    <3>2. TypeOK'
      BY <3>1 DEF CloseTasks
    <3>3. Numbering'
      BY <3>1 DEF CloseTasks, Numbering
    <3> QED
      BY <3>2, <3>3
  <2>20. CASE SenderStopped \/ SenderTimeout
    <3>1. PICK timers \in SUBSET Timers : CloseSend(timers)
      BY <2>20 DEF SenderStopped, SenderTimeout
    <3>2. TypeOK'
      BY <3>1 DEF CloseSend
    <3>3. Numbering'
      BY <3>1 DEF CloseSend, Numbering
    <3> QED
      BY <3>2, <3>3
  <2>21. CASE Exit \/ ShutdownTimeout
    BY <2>21 DEF Exit, ShutdownTimeout, Numbering
  <2>22. CASE Terminated \/ UNCHANGED vars
    BY <2>22 DEF Terminated, vars, Numbering
  <2> QED
    BY <2>1, <2>2, <2>3, <2>4, <2>5, <2>6, <2>7, <2>8, <2>9, <2>10, <2>11,
       <2>12, <2>13, <2>14, <2>15, <2>16, <2>17, <2>18, <2>19, <2>20, <2>21, <2>22
    DEF Next, Collector, Transfer, TransferSend, Submitter, Worker, Stopping, Expiry
<1> QED
  BY <1>1, <1>2, PTL DEF Spec

\* The types of the agent's channels, goroutines and shutdown stages hold in
\* every reachable state.
THEOREM Typing == Spec => []TypeOK
BY TypeInvInductive, PTL DEF TypeInv

----
\* Which contexts are cancelled and which channels are closed at each stage of
\* the shutdown goroutine.  Only WorkerPool.Stop closes tasks on its own time.
StageInv ==
  /\ "collector" \in cancelled <=> stage # "off"
  /\ "sender" \in cancelled <=> stage \in {"sendWait", "finished"}
  /\ "metrics" \in closed <=> stage \in {"xferWait", "sendWait", "finished"}
  /\ "send" \in closed <=> stage = "finished"
  /\ "tasks" \in closed => "sender" \in cancelled
  /\ "sender" \in cancelled => xferDone

\* The transfer goroutine returns on a closed, drained channel only, and a
\* closed channel accepts nothing more.
TransferInv == xferDone => collCh = <<>> /\ xfer = <<>> /\ "metrics" \in closed

\* Each Stop closes its channel when what it waits for has ended, or when its
\* timer has expired.
WaitInv ==
  /\ "metrics" \in closed => CollectorsReturned \/ "collector" \in fired
  /\ "tasks" \in closed => WorkersReturned \/ "pool" \in fired
  /\ "send" \in closed => "tasks" \in closed \/ "sender" \in fired

\* A worker looks at its context between two batches only.
IdleInv == \A w \in quit : job[w] = <<>>

\* What an exit leaves behind.
ExitInv == proc = "exited" => stage = "finished" \/ "shutdown" \in fired

ShutdownInv == StageInv /\ TransferInv /\ WaitInv /\ IdleInv /\ ExitInv /\ PanicsHaveACause

\* The shutdown's order, as an inductive invariant.
LEMMA ShutdownInvInductive == Spec => []ShutdownInv
<1>1. Init => ShutdownInv
  BY DEF Init, ShutdownInv, StageInv, TransferInv, WaitInv, IdleInv, ExitInv,
              PanicsHaveACause
<1>2. TypeOK /\ ShutdownInv /\ [Next]_vars => ShutdownInv'
  <2> SUFFICES ASSUME TypeOK, ShutdownInv, [Next]_vars PROVE ShutdownInv'
    OBVIOUS
  <2> USE DEF ShutdownInv, StageInv, TransferInv, WaitInv, IdleInv, ExitInv,
              PanicsHaveACause,
              CollectorsReturned, WorkersReturned
  <2> USE DEF TypeOK, Up, shutdownVars, collectVars, moveVars, poolVars
  <2>1. ASSUME NEW c \in Collectors, Tick(c) PROVE ShutdownInv'
    BY <2>1 DEF Tick
  <2>2. ASSUME NEW c \in Collectors, Offer(c) PROVE ShutdownInv'
    BY <2>2 DEF Offer
  <2>3. ASSUME NEW c \in Collectors, OfferOnClosed(c) PROVE ShutdownInv'
    BY <2>3 DEF OfferOnClosed, Panic
  <2>4. ASSUME NEW c \in Collectors, CollectorReturns(c) PROVE ShutdownInv'
    BY <2>4 DEF CollectorReturns
  <2>5. CASE TransferTakes
    BY <2>5 DEF TransferTakes
  <2>6. CASE TransferSends
    BY <2>6 DEF TransferSends
  <2>7. CASE TransferSendsOnClosed
    BY <2>7 DEF TransferSendsOnClosed, Panic
  <2>8. CASE TransferReturns
    BY <2>8 DEF TransferReturns
  <2>9. CASE SubmitterTakes
    BY <2>9 DEF SubmitterTakes
  <2>10. CASE Submit
    BY <2>10 DEF Submit
  <2>11. CASE SubmitOnClosed
    BY <2>11 DEF SubmitOnClosed, Panic
  <2>12. ASSUME NEW w \in Workers, WorkerTakes(w) PROVE ShutdownInv'
    BY <2>12 DEF WorkerTakes
  <2>13. ASSUME NEW w \in Workers, WorkerTakesNil(w) PROVE ShutdownInv'
    BY <2>13 DEF WorkerTakesNil, Panic
  <2>14. ASSUME NEW w \in Workers, WorkerReturns(w) PROVE ShutdownInv'
    BY <2>14 DEF WorkerReturns
  <2>15. ASSUME NEW w \in Workers, WorkerFinishes(w) PROVE ShutdownInv'
    BY <2>15 DEF WorkerFinishes
  <2>16. CASE Signal
    BY <2>16 DEF Signal
  <2>17. CASE CollectorStopped
    BY <2>17 DEF CollectorStopped, CloseMetrics
  <2>18. CASE CollectorTimeout
    BY <2>18 DEF CollectorTimeout, CloseMetrics
  <2>19. CASE CancelSender
    BY <2>19 DEF CancelSender
  <2>20. CASE PoolStopped
    BY <2>20 DEF PoolStopped, CloseTasks
  <2>21. CASE PoolTimeout
    BY <2>21 DEF PoolTimeout, CloseTasks
  <2>22. CASE SenderStopped
    BY <2>22 DEF SenderStopped, CloseSend
  <2>23. CASE SenderTimeout
    BY <2>23 DEF SenderTimeout, CloseSend
  <2>24. CASE Exit
    BY <2>24 DEF Exit
  <2>25. CASE ShutdownTimeout
    BY <2>25 DEF ShutdownTimeout
  <2>26. CASE Terminated \/ UNCHANGED vars
    BY <2>26 DEF Terminated, vars
  <2> QED
    BY <2>1, <2>2, <2>3, <2>4, <2>5, <2>6, <2>7, <2>8, <2>9, <2>10, <2>11,
       <2>12, <2>13, <2>14, <2>15, <2>16, <2>17, <2>18, <2>19, <2>20, <2>21,
       <2>22, <2>23, <2>24, <2>25, <2>26
    DEF Next, Collector, Transfer, TransferSend, Submitter, Worker, Stopping, Expiry
<1> QED
  BY <1>1, <1>2, Typing, PTL DEF Spec

\* App.Run stops the sender only after transferWg.Wait: by then everything the
\* collectors have put into their channel is in the sender's hands.
THEOREM TransferFirst == Spec => []TransferredBeforeStop
<1>1. ShutdownInv => TransferredBeforeStop
  BY DEF ShutdownInv, StageInv, TransferInv, TransferredBeforeStop
<1> QED
  BY <1>1, ShutdownInvInductive, PTL

\* The transfer goroutine never panics, the collectors and the workers only
\* after their timer has expired, the submitter only once tasks is closed.
THEOREM PanicCauses == Spec => []PanicsHaveACause
BY ShutdownInvInductive, PTL DEF ShutdownInv
====
