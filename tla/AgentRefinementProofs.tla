---- MODULE AgentRefinementProofs ----
(***************************************************************************)
(* AgentPipeline implements BatchFlow: the agent's three channels and the  *)
(* two goroutines between them are one bounded first-in first-out line,    *)
(* through every interleaving, timer and panic.  What is proved of the     *)
(* line in BatchFlowProofs then holds of the agent.                        *)
(***************************************************************************)
EXTENDS AgentPipelineProofs, SequenceTheorems, FiniteSetTheorems

\* Concatenation of lines of batches, kept from the provers but for its laws.
Line(s) == s \in Seq(Batch)
Cat(s, t) == s \o t

LEMMA CatLaws ==
  /\ \A s, t : Line(s) /\ Line(t) => Line(Cat(s, t))
  /\ \A s, t, u : Line(s) /\ Line(t) /\ Line(u) => Cat(Cat(s, t), u) = Cat(s, Cat(t, u))
  /\ \A s : Line(s) => Cat(s, <<>>) = s /\ Cat(<<>>, s) = s
  /\ Line(<<>>)
BY ConcatAssociative, ConcatProperties, ConcatEmptySeq DEF Line, Cat

LEMMA CatLength ==
  \A s, t : Line(s) /\ Line(t) => Len(Cat(s, t)) = Len(s) + Len(t)
BY ConcatProperties DEF Line, Cat

LEMMA CatAppend ==
  ASSUME NEW s, NEW t, NEW b \in Batch, Line(s), Line(t)
  PROVE  Cat(s, Append(t, b)) = Append(Cat(s, t), b)
<1>1. Append(t, b) = t \o <<b>> /\ Append(s \o t, b) = (s \o t) \o <<b>>
  BY AppendIsConcat, ConcatProperties DEF Line
<1>2. <<b>> \in Seq(Batch)
  OBVIOUS
<1> QED
  BY <1>1, <1>2, ConcatAssociative DEF Line, Cat

LEMMA HeadAndTail ==
  ASSUME NEW s, Line(s), s # <<>>
  PROVE  s = Cat(<<Head(s)>>, Tail(s)) /\ Line(<<Head(s)>>) /\ Line(Tail(s))
<1> USE DEF Line
<1>1. Head(s) \in Batch /\ Tail(s) \in Seq(Batch) /\ <<Head(s)>> \in Seq(Batch)
  OBVIOUS
<1>2. /\ Len(<<Head(s)>> \o Tail(s)) = Len(s)
      /\ \A i \in 1..Len(s) : (<<Head(s)>> \o Tail(s))[i] = s[i]
  OBVIOUS
<1>3. <<Head(s)>> \o Tail(s) \in Seq(Batch)
  BY <1>1, ConcatProperties
<1> QED
  BY <1>1, <1>2, <1>3, SeqEqual DEF Cat

LEMMA TakeInFront ==
  ASSUME NEW s, NEW t, Line(s), Line(t), s # <<>>
  PROVE  /\ Cat(s, t) # <<>> /\ Head(Cat(s, t)) = Head(s)
         /\ Tail(Cat(s, t)) = Cat(Tail(s), t)
<1> USE DEF Line, Cat
<1> DEFINE st == s \o t
<1>1. st \in Seq(Batch) /\ st # <<>> /\ Head(st) = Head(s)
  OBVIOUS
<1>2. Tail(s) \in Seq(Batch) /\ Tail(s) \o t \in Seq(Batch) /\ Tail(st) \in Seq(Batch)
  BY <1>1, ConcatProperties, HeadTailProperties
<1>3. Len(Tail(st)) = Len(Tail(s) \o t)
  OBVIOUS
<1>4. \A i \in 1..Len(Tail(st)) : Tail(st)[i] = (Tail(s) \o t)[i]
  OBVIOUS
<1> QED
  BY <1>1, <1>2, <1>3, <1>4, SeqEqual

\* What stands on the way, as lines of batches.
LEMMA Parts ==
  ASSUME TypeOK
  PROVE  /\ Line(tasks) /\ Line(sub) /\ Line(sendCh) /\ Line(xfer) /\ Line(collCh)
         /\ Len(sub) <= 1 /\ Len(xfer) <= 1
<1>1. ASSUME NEW x \in AtMostOne PROVE Line(x) /\ Len(x) <= 1
  <2>1. CASE x = <<>>
    BY <2>1 DEF Line
  <2>2. ASSUME NEW b \in Batch, x = <<b>> PROVE Line(x) /\ Len(x) <= 1
    BY <2>2 DEF Line
  <2> QED
    BY <2>1, <2>2 DEF AtMostOne
<1> QED
  BY <1>1 DEF TypeOK, Line

LEMMA InFlightIs == InFlight = Cat(Cat(Cat(Cat(tasks, sub), sendCh), xfer), collCh)
BY DEF InFlight, Cat

\* The line is no longer than its three channels and two goroutines hold.
LEMMA LineLength ==
  ASSUME TypeOK
  PROVE  Len(InFlight) = Len(tasks) + Len(sub) + Len(sendCh) + Len(xfer) + Len(collCh)
<1>1. /\ Line(tasks) /\ Line(sub) /\ Line(sendCh) /\ Line(xfer) /\ Line(collCh)
  BY Parts
<1> DEFINE a == Cat(tasks, sub)
           b == Cat(a, sendCh)
           c == Cat(b, xfer)
<1>2. Line(a) /\ Line(b) /\ Line(c)
  BY <1>1, CatLaws
<1> QED
  BY <1>1, <1>2, CatLength, InFlightIs

----
\* A batch offered on collCh enters the line at its back.
LEMMA OfferEnters ==
  ASSUME TypeInv, NEW c \in Collectors, Offer(c)
  PROVE  Flow!Enter(c)
<1>1. TypeOK /\ Numbering
  BY DEF TypeInv
<1> DEFINE b == [src |-> c, n |-> accepted[c] + 1]
<1>2. b \in Batch
  BY <1>1 DEF Offer, Numbering, TypeOK, Batch
<1>3. polls[c] = accepted[c] + 1
  BY <1>1 DEF Offer, Numbering
<1>4. /\ UNCHANGED <<tasks, sub, sendCh, xfer, job, taken, sent, proc, stage>>
      /\ collCh' = Append(collCh, b)
      /\ accepted' = [accepted EXCEPT ![c] = @ + 1]
  BY <1>3 DEF Offer, shutdownVars, moveVars, poolVars
<1>5. InFlight' = Append(InFlight, b)
  <2> DEFINE front == Cat(Cat(Cat(tasks, sub), sendCh), xfer)
  <2>1. Line(front) /\ Line(collCh)
    BY <1>1, Parts, CatLaws
  <2>2. InFlight = Cat(front, collCh)
    BY InFlightIs
  <2>3. InFlight' = Cat(front, Append(collCh, b))
    BY <1>4, InFlightIs DEF InFlight, Cat
  <2> HIDE DEF front, b
  <2> QED
    BY <1>2, <2>1, <2>2, <2>3, CatAppend
<1>6. Life # "down" /\ Life' = Life
  BY <1>4 DEF Life, Up, Offer
<1>7. Len(InFlight) < 3 * Cap + 2
  <2>1. Len(InFlight) = Len(tasks) + Len(sub) + Len(sendCh) + Len(xfer) + Len(collCh)
    BY <1>1, LineLength
  <2>2. /\ Len(tasks) \in Nat /\ Len(sub) \in Nat /\ Len(sendCh) \in Nat
        /\ Len(xfer) \in Nat /\ Len(collCh) \in Nat
    BY <1>1, Parts, LenProperties DEF Line
  <2>3. /\ Len(tasks) <= Cap /\ Len(sendCh) <= Cap /\ Len(collCh) < Cap
        /\ Len(sub) <= 1 /\ Len(xfer) <= 1 /\ Cap \in Nat
    BY <1>1, Parts, PipelineAssumption DEF Offer, HasRoom, TypeOK
  <2> QED
    BY <2>1, <2>2, <2>3
<1> QED
  BY <1>4, <1>5, <1>6, <1>7 DEF Flow!Enter

\* A hand-over between two neighbours does not change the line.
LEMMA HandOver ==
  ASSUME TypeOK, TransferTakes \/ TransferSends \/ SubmitterTakes \/ Submit
  PROVE  UNCHANGED <<InFlight, job, accepted, taken, sent, Life>>
<1>1. UNCHANGED <<job, accepted, taken, sent, Life>>
  BY DEF TransferTakes, TransferSends, SubmitterTakes, Submit, Life, Up,
         shutdownVars, collectVars, moveVars, poolVars
<1>2. /\ Line(tasks) /\ Line(sub) /\ Line(sendCh) /\ Line(xfer) /\ Line(collCh)
  BY Parts
<1>3. InFlight' = Cat(Cat(Cat(Cat(tasks', sub'), sendCh'), xfer'), collCh')
  BY DEF InFlight, Cat
<1>4. CASE TransferTakes
  <2>1. /\ xfer = <<>> /\ collCh # <<>> /\ UNCHANGED <<tasks, sub, sendCh>>
        /\ xfer' = <<Head(collCh)>> /\ collCh' = Tail(collCh)
    BY <1>4 DEF TransferTakes, poolVars
  <2>2. collCh = Cat(xfer', collCh') /\ Line(xfer') /\ Line(collCh')
    BY <1>2, <2>1, HeadAndTail
  <2> DEFINE front == Cat(Cat(tasks, sub), sendCh)
  <2>3. Line(front)
    BY <1>2, CatLaws
  <2>4. InFlight = Cat(Cat(front, <<>>), collCh) /\ InFlight' = Cat(Cat(front, xfer'), collCh')
    BY <1>3, <2>1, InFlightIs
  <2> HIDE DEF front
  <2> QED
    BY <1>1, <1>2, <2>2, <2>3, <2>4, CatLaws
<1>5. CASE TransferSends
  <2>1. UNCHANGED <<tasks, sub, collCh>> /\ sendCh' = Cat(sendCh, xfer) /\ xfer' = <<>>
    BY <1>5 DEF TransferSends, collectVars, poolVars, Cat
  <2> DEFINE front == Cat(tasks, sub)
  <2>2. Line(front)
    BY <1>2, CatLaws
  <2>3. /\ InFlight = Cat(Cat(Cat(front, sendCh), xfer), collCh)
        /\ InFlight' = Cat(Cat(Cat(front, Cat(sendCh, xfer)), <<>>), collCh)
    BY <1>3, <2>1, InFlightIs
  <2> HIDE DEF front
  <2> QED
    BY <1>1, <1>2, <2>2, <2>3, CatLaws
<1>6. CASE SubmitterTakes
  <2>1. /\ sub = <<>> /\ sendCh # <<>> /\ UNCHANGED <<tasks, xfer, collCh>>
        /\ sub' = <<Head(sendCh)>> /\ sendCh' = Tail(sendCh)
    BY <1>6 DEF SubmitterTakes, collectVars, poolVars
  <2>2. sendCh = Cat(sub', sendCh') /\ Line(sub') /\ Line(sendCh')
    BY <1>2, <2>1, HeadAndTail
  <2>3. /\ InFlight = Cat(Cat(Cat(Cat(tasks, <<>>), sendCh), xfer), collCh)
        /\ InFlight' = Cat(Cat(Cat(Cat(tasks, sub'), sendCh'), xfer), collCh)
    BY <1>3, <2>1, InFlightIs
  <2>4. Cat(Cat(tasks, <<>>), sendCh) = Cat(Cat(tasks, sub'), sendCh')
    BY <1>2, <2>2, CatLaws
  <2> QED
    BY <1>1, <2>3, <2>4
<1>7. CASE Submit
  <2>1. UNCHANGED <<sendCh, xfer, collCh>> /\ tasks' = Cat(tasks, sub) /\ sub' = <<>>
    BY <1>7 DEF Submit, collectVars, Cat
  <2>2. Cat(Cat(tasks, sub), <<>>) = Cat(tasks, sub)
    BY <1>2, CatLaws
  <2> QED
    BY <1>1, <1>3, <2>1, <2>2, InFlightIs
<1> QED
  BY <1>4, <1>5, <1>6, <1>7

\* A worker takes the front of the line.
LEMMA WorkerLeaves ==
  ASSUME TypeOK, NEW w \in Workers, WorkerTakes(w)
  PROVE  Flow!Leave(w)
<1>1. /\ job[w] = <<>> /\ tasks # <<>> /\ tasks' = Tail(tasks)
      /\ UNCHANGED <<sub, sendCh, xfer, collCh, accepted, sent, proc, stage>>
      /\ job' = [job EXCEPT ![w] = <<Head(tasks)>>]
      /\ taken' = [taken EXCEPT ![Head(tasks).src] = @ + 1]
  BY DEF WorkerTakes, shutdownVars, collectVars, moveVars
<1>2. Life # "down" /\ Life' = Life
  BY <1>1 DEF Life, Up, WorkerTakes
<1>3. /\ InFlight # <<>> /\ Head(InFlight) = Head(tasks) /\ InFlight' = Tail(InFlight)
  <2> DEFINE back == Cat(sub, Cat(sendCh, Cat(xfer, collCh)))
  <2>1. /\ Line(tasks) /\ Line(sub) /\ Line(sendCh) /\ Line(xfer) /\ Line(collCh)
        /\ Line(Tail(tasks))
    BY <1>1, Parts, HeadAndTail
  <2>2. Line(back)
    BY <2>1, CatLaws
  <2>3. ASSUME NEW t, Line(t)
        PROVE  Cat(Cat(Cat(Cat(t, sub), sendCh), xfer), collCh) = Cat(t, back)
    BY <2>1, <2>3, CatLaws
  <2>4. InFlight = Cat(tasks, back)
    BY <2>1, <2>3, InFlightIs
  <2>5. InFlight' = Cat(Tail(tasks), back)
    <3>1. InFlight' = Cat(Cat(Cat(Cat(Tail(tasks), sub), sendCh), xfer), collCh)
      BY <1>1 DEF InFlight, Cat
    <3> QED
      BY <2>1, <2>3, <3>1
  <2> HIDE DEF back
  <2> QED
    BY <1>1, <2>1, <2>2, <2>4, <2>5, TakeInFront
<1> QED
  BY <1>1, <1>2, <1>3 DEF Flow!Leave

\* What the agent's other steps do not touch.
Still == UNCHANGED <<InFlight, job, accepted, taken, sent>>

\* Before a signal no panic is possible, so a process that goes down has been
\* told to stop.
LEMMA GoesDown ==
  ASSUME Still, Up, ~Up', stage # "off"
  PROVE  Flow!Down
BY DEF Still, Flow!Down, Life

\* Every step of the agent is a step of the line or leaves it as it is.
LEMMA StepRefines ==
  ASSUME TypeInv, ShutdownInv, [Next]_vars
  PROVE  [Flow!Next]_(Flow!vars)
<1> USE DEF Flow!Next, Flow!vars
<1> USE DEF shutdownVars, collectVars, moveVars, poolVars
<1>0. TypeOK /\ StageInv
  BY DEF TypeInv, ShutdownInv
<1>1. ASSUME NEW c \in Collectors, Collector(c) PROVE [Flow!Next]_(Flow!vars)
  <2>1. CASE Tick(c) \/ CollectorReturns(c)
    BY <2>1 DEF Tick, CollectorReturns, InFlight, Life, Up
  <2>2. CASE Offer(c)
    BY <2>2, OfferEnters
  <2>3. CASE OfferOnClosed(c)
    <3>1. Still /\ Up /\ ~Up' /\ stage # "off"
      BY <1>0, <2>3 DEF OfferOnClosed, Panic, Still, InFlight, Up, StageInv
    <3> QED
      BY <3>1, GoesDown
  <2> QED
    BY <1>1, <2>1, <2>2, <2>3 DEF Collector
<1>2. CASE Transfer \/ Submitter
  <2>1. CASE TransferTakes \/ TransferSends \/ SubmitterTakes \/ Submit
    BY <1>0, <2>1, HandOver
  <2>2. CASE TransferReturns
    BY <2>2 DEF TransferReturns, InFlight, Life, Up
  <2>3. CASE TransferSendsOnClosed \/ SubmitOnClosed
    <3>1. Still /\ Up /\ ~Up' /\ stage # "off"
      BY <1>0, <2>3 DEF TransferSendsOnClosed, SubmitOnClosed, Panic, Still, InFlight, Up,
         StageInv
    <3> QED
      BY <3>1, GoesDown
  <2> QED
    BY <1>2, <2>1, <2>2, <2>3 DEF Transfer, TransferSend, Submitter
<1>3. ASSUME NEW w \in Workers, Worker(w) \/ WorkerFinishes(w)
      PROVE  [Flow!Next]_(Flow!vars)
  <2>1. CASE WorkerTakes(w)
    BY <1>0, <2>1, WorkerLeaves
  <2>2. CASE WorkerFinishes(w)
    <3>1. Flow!Finish(w)
      BY <2>2 DEF WorkerFinishes, Flow!Finish, InFlight, Life, Up
    <3> QED
      BY <3>1
  <2>3. CASE WorkerReturns(w)
    BY <2>3 DEF WorkerReturns, InFlight, Life, Up
  <2>4. CASE WorkerTakesNil(w)
    <3>1. Still /\ Up /\ ~Up' /\ stage # "off"
      BY <1>0, <2>4 DEF WorkerTakesNil, Panic, Still, InFlight, Up, StageInv
    <3> QED
      BY <3>1, GoesDown
  <2> QED
    BY <1>3, <2>1, <2>2, <2>3, <2>4 DEF Worker
<1>4. CASE Signal
  <2>1. Flow!Signal
    BY <1>4 DEF Signal, Flow!Signal, InFlight, Life, Up
  <2> QED
    BY <2>1
<1>5. CASE Exit \/ ShutdownTimeout
  <2>1. Still /\ Up /\ ~Up' /\ stage # "off"
    BY <1>5 DEF Exit, ShutdownTimeout, Still, InFlight, Up
  <2> QED
    BY <2>1, GoesDown
<1>6. CASE CollectorStopped \/ CollectorTimeout \/ CancelSender \/ PoolStopped
           \/ PoolTimeout \/ SenderStopped \/ SenderTimeout
  BY <1>6 DEF CollectorStopped, CollectorTimeout, CloseMetrics, CancelSender, PoolStopped,
     PoolTimeout, CloseTasks, SenderStopped, SenderTimeout, CloseSend, InFlight, Life, Up
<1>7. CASE Terminated \/ UNCHANGED vars
  BY <1>7 DEF Terminated, vars, InFlight, Life, Up
<1> QED
  BY <1>1, <1>2, <1>3, <1>4, <1>5, <1>6, <1>7 DEF Next, Stopping, Expiry

\* App.Run's pipeline, with its panics and timers, implements one bounded
\* first-in first-out line from the collectors to the workers.
THEOREM ImplementsFlow == Spec => FlowSpec
<1>1. Init => Flow!Init
  BY DEF Init, Flow!Init, InFlight, Life, Up
<1>2. TypeInv /\ ShutdownInv /\ [Next]_vars => [Flow!Next]_(Flow!vars)
  BY StepRefines
<1> QED
  BY <1>1, <1>2, TypeInvInductive, ShutdownInvInductive, PTL DEF Spec, FlowSpec, Flow!Spec

----
\* The theorems about the line, read on the agent's channels.
FlowProofs == INSTANCE BatchFlowProofs WITH
  line <- InFlight, slot <- job, life <- Life, Bound <- 3 * Cap + 2

LEMMA SameFlow ==
  /\ Flow!Init <=> FlowProofs!Init
  /\ [Flow!Next]_(Flow!vars) <=> [FlowProofs!Next]_(FlowProofs!vars)
  /\ FlowInv <=> FlowProofs!InOrder /\ FlowProofs!TriedOnce
BY DEF FlowInv, Flow!Init, FlowProofs!Init, Flow!vars, FlowProofs!vars,
       Flow!Next, FlowProofs!Next, Flow!Enter, FlowProofs!Enter, Flow!Leave, FlowProofs!Leave,
       Flow!Finish, FlowProofs!Finish, Flow!Signal, FlowProofs!Signal, Flow!Down,
       FlowProofs!Down, Flow!InOrder, FlowProofs!InOrder, Flow!TriedOnce, FlowProofs!TriedOnce

\* Between the collectors' channel and the workers no batch is lost, repeated
\* or reordered, and each is tried by one worker, once.
THEOREM FlowHolds == Spec => []FlowInv
<1>1. Spec => FlowProofs!Spec
  BY ImplementsFlow, SameFlow, PTL DEF FlowSpec, Flow!Spec, FlowProofs!Spec
<1> QED
  BY <1>1, SameFlow, FlowProofs!Fifo, FlowProofs!OneWorkerEach, PTL

\* The README's orderly shutdown, for every instance: if the agent exits and no
\* timer has cut its shutdown short, the collectors, the transfer goroutine and
\* the workers have returned, and every batch a worker took was tried to the end.
THEOREM OrderlyExit == Spec => []GracefulExit
<1>1. TypeOK /\ ShutdownInv /\ FlowInv => GracefulExit
  <2> SUFFICES ASSUME TypeOK, ShutdownInv, FlowInv, proc = "exited", fired = {}
               PROVE  /\ CollectorsReturned /\ xferDone /\ WorkersReturned
                      /\ \A c \in Collectors : sent[c] = 1..taken[c]
    BY DEF GracefulExit
  <2>1. CollectorsReturned /\ xferDone /\ WorkersReturned
    BY DEF ShutdownInv, ExitInv, StageInv, WaitInv
  <2>2. \A w \in Workers : job[w] = <<>>
    BY <2>1 DEF ShutdownInv, IdleInv, WorkersReturned
  <2>3. ASSUME NEW c \in Collectors PROVE sent[c] = 1..taken[c]
    <3> DEFINE now == {w \in Workers : job[w] # <<>> /\ job[w][1].src = c}
    <3>1. now = {}
      BY <2>2
    <3>2. sent[c] \cup {job[w][1].n : w \in now} = 1..taken[c]
      BY DEF FlowInv, Flow!TriedOnce
    <3>3. {job[w][1].n : w \in now} = {}
      BY <3>1
    <3> QED
      BY <3>2, <3>3
  <2> QED
    BY <2>1, <2>3
<1> QED
  BY <1>1, Typing, ShutdownInvInductive, FlowHolds, PTL

----
\* Of a collector's batches some worker holds none, or one later than all that
\* were tried.
LatestHeld ==
  \A c \in Collectors : \E w \in Workers : \A b \in Batch :
    job[w] = <<b>> /\ b.src = c => \A n \in sent[c] : n < b.n

\* What a worker takes is the batch after all those taken before.
LEMMA TakesTheNext ==
  ASSUME TypeOK, TypeOK', FlowInv, FlowInv', NEW w \in Workers, WorkerTakes(w),
         NEW b \in Batch, job'[w] = <<b>>
  PROVE  b.src \in Collectors /\ b.n = taken[b.src] + 1
<1> DEFINE c == b.src
           now == {v \in Workers : job[v] # <<>> /\ job[v][1].src = c}
           now2 == {v \in Workers : job'[v] # <<>> /\ job'[v][1].src = c}
<1>1. c \in Collectors /\ b.n \in Nat
  BY DEF Batch
<1>2. /\ b = Head(tasks) /\ sent' = sent
      /\ \A v \in Workers : v # w => job'[v] = job[v]
      /\ taken' = [taken EXCEPT ![c] = @ + 1]
  BY DEF WorkerTakes, TypeOK
<1>3. taken[c] \in Nat /\ taken'[c] = taken[c] + 1
  BY <1>1, <1>2 DEF TypeOK
<1>4. sent[c] \cup {job[v][1].n : v \in now} = 1..taken[c]
  BY <1>1 DEF FlowInv, Flow!TriedOnce
<1>5. sent'[c] \cup {job'[v][1].n : v \in now2} = 1..taken'[c]
  BY <1>1 DEF FlowInv, Flow!TriedOnce
<1>6. taken[c] + 1 \notin sent'[c]
  BY <1>2, <1>3, <1>4
<1>7. PICK v \in now2 : job'[v][1].n = taken[c] + 1
  BY <1>3, <1>5, <1>6
<1>8. CASE v # w
  <2>1. job'[v] = job[v]
    BY <1>2, <1>8
  <2>2. v \in now /\ job[v][1].n = taken[c] + 1
    BY <1>7, <2>1
  <2>3. taken[c] + 1 \in 1..taken[c]
    BY <1>4, <2>2
  <2> QED
    BY <1>3, <2>3
<1> QED
  BY <1>1, <1>7, <1>8

LEMMA LatestHeldInductive == Spec => []LatestHeld
<1>1. Init => LatestHeld
  BY PipelineAssumption DEF Init, LatestHeld
<1>2. TypeOK /\ TypeOK' /\ FlowInv /\ FlowInv' /\ LatestHeld /\ [Next]_vars => LatestHeld'
  <2> SUFFICES ASSUME TypeOK, TypeOK', FlowInv, FlowInv', LatestHeld, [Next]_vars
               PROVE  LatestHeld'
    OBVIOUS
  <2>1. ASSUME NEW w \in Workers, WorkerTakes(w) PROVE LatestHeld'
    <3>1. PICK b \in Batch : job'[w] = <<b>>
      BY <2>1 DEF WorkerTakes, TypeOK, AtMostOne
    <3>2. sent' = sent /\ \A v \in Workers : v # w => job'[v] = job[v]
      BY <2>1 DEF WorkerTakes, TypeOK
    <3>3. ASSUME NEW c \in Collectors
          PROVE  \E v \in Workers : \A a \in Batch :
                   job'[v] = <<a>> /\ a.src = c => \A n \in sent'[c] : n < a.n
      <4>1. CASE b.src = c
        <5>1. b.n = taken[c] + 1
          BY <2>1, <3>1, <4>1, TakesTheNext
        <5>2. taken[c] \in Nat /\ sent[c] \subseteq 1..taken[c]
          BY DEF TypeOK, FlowInv, Flow!TriedOnce
        <5>3. \A n \in sent'[c] : n < b.n
          BY <3>2, <5>1, <5>2
        <5> QED
          BY <3>1, <5>3
      <4>2. CASE b.src # c
        <5>1. PICK v \in Workers : \A a \in Batch :
                job[v] = <<a>> /\ a.src = c => \A n \in sent[c] : n < a.n
          BY DEF LatestHeld
        <5> QED
          BY <3>1, <3>2, <4>2, <5>1
      <4> QED
        BY <4>1, <4>2
    <3> QED
      BY <3>3 DEF LatestHeld
  <2>2. ASSUME NEW w \in Workers, WorkerFinishes(w) PROVE LatestHeld'
    <3>1. PICK b \in Batch : job[w] = <<b>>
      BY <2>2 DEF WorkerFinishes, TypeOK, AtMostOne
    <3>2. /\ job'[w] = <<>> /\ \A v \in Workers : v # w => job'[v] = job[v]
          /\ \A c \in Collectors : c # b.src => sent'[c] = sent[c]
      BY <2>2, <3>1 DEF WorkerFinishes, TypeOK, Batch
    <3>3. ASSUME NEW c \in Collectors
          PROVE  \E v \in Workers : \A a \in Batch :
                   job'[v] = <<a>> /\ a.src = c => \A n \in sent'[c] : n < a.n
      BY <3>2
    <3> QED
      BY <3>3 DEF LatestHeld
  <2>3. CASE UNCHANGED <<job, sent>>
    BY <2>3 DEF LatestHeld
  <2>4. \/ UNCHANGED <<job, sent>>
        \/ \E w \in Workers : WorkerTakes(w) \/ WorkerFinishes(w)
    BY DEF Next, vars, shutdownVars, collectVars, moveVars, poolVars, Panic, Collector, Tick,
       Offer, OfferOnClosed, CollectorReturns, Transfer, TransferTakes, TransferSend,
       TransferSends, TransferSendsOnClosed, TransferReturns, Submitter, SubmitterTakes,
       Submit, SubmitOnClosed, Worker, WorkerTakesNil, WorkerReturns, Signal, Stopping,
       CollectorStopped, CollectorTimeout, CloseMetrics, CancelSender, PoolStopped,
       PoolTimeout, CloseTasks, SenderStopped, SenderTimeout, CloseSend, Exit, Expiry,
       ShutdownTimeout, Terminated
  <2> QED
    BY <2>1, <2>2, <2>3, <2>4
<1> QED
  BY <1>1, <1>2, Typing, FlowHolds, PTL DEF Spec

\* However many workers run beside each other, a batch already answered has
\* overtaken fewer of its collector's batches than there are workers.
THEOREM FewAreOvertaken == Spec => []OvertakenAtMostByOthers
<1>1. TypeOK /\ FlowInv /\ LatestHeld => OvertakenAtMostByOthers
  <2> SUFFICES ASSUME TypeOK, FlowInv, LatestHeld, NEW c \in Collectors
               PROVE  Cardinality({m \in 1..MaxBatches :
                                     m \notin sent[c] /\ \E n \in sent[c] : m < n})
                        < Cardinality(Workers)
    BY DEF OvertakenAtMostByOthers
  <2> DEFINE late == {m \in 1..MaxBatches : m \notin sent[c] /\ \E n \in sent[c] : m < n}
             now == {w \in Workers : job[w] # <<>> /\ job[w][1].src = c}
             f == [m \in late |-> CHOOSE w \in now : job[w][1].n = m]
  <2>1. PICK u \in Workers : \A b \in Batch :
          job[u] = <<b>> /\ b.src = c => \A n \in sent[c] : n < b.n
    BY DEF LatestHeld
  <2>2. /\ sent[c] \cup {job[w][1].n : w \in now} = 1..taken[c]
        /\ taken[c] \in Nat
    BY DEF FlowInv, Flow!TriedOnce, TypeOK
  <2>3. ASSUME NEW m \in late PROVE f[m] \in now /\ job[f[m]][1].n = m
    <3>1. PICK n \in sent[c] : m < n
      OBVIOUS
    <3>2. m \in 1..taken[c]
      BY <2>2, <3>1, PipelineAssumption
    <3>3. \E w \in now : job[w][1].n = m
      BY <2>2, <3>2
    <3> QED
      BY <3>3
  <2>4. ASSUME NEW m \in late PROVE f[m] \in Workers \ {u}
    <3>1. CASE f[m] = u
      <4> HIDE DEF f
      <4>0. job[u] # <<>>
        BY <2>3, <3>1
      <4>1. PICK b \in Batch : job[u] = <<b>>
        BY <4>0 DEF TypeOK, AtMostOne
      <4>2. b.src = c /\ b.n = m
        BY <2>3, <3>1, <4>1
      <4> QED
        BY <2>1, <4>1, <4>2, PipelineAssumption DEF TypeOK
    <3> HIDE DEF f
    <3>2. f[m] \in Workers
      BY <2>3
    <3> QED
      BY <3>1, <3>2
  <2>5. f \in [late -> Workers \ {u}]
    BY <2>4
  <2>6. f \in Injection(late, Workers \ {u})
    <3> HIDE DEF f, late, now
    <3>1. ASSUME NEW m \in late, NEW n \in late, f[m] = f[n] PROVE m = n
      BY <2>3, <3>1
    <3>2. DOMAIN f = late
      BY <2>5
    <3>3. IsInjective(f)
      BY <3>1, <3>2 DEF IsInjective
    <3> QED
      BY <2>5, <3>3 DEF Injection
  <2>7. /\ IsFiniteSet(Workers \ {u})
        /\ Cardinality(Workers \ {u}) = Cardinality(Workers) - 1
        /\ Cardinality(Workers) \in Nat
    BY PipelineAssumption, FS_RemoveElement, FS_CardinalityType
  <2>8. IsFiniteSet(late) /\ Cardinality(late) <= Cardinality(Workers \ {u})
    BY <2>6, <2>7, FS_Injection
  <2>9. Cardinality(late) \in Nat
    BY <2>8, FS_CardinalityType
  <2> QED
    BY <2>7, <2>8, <2>9
<1> QED
  BY <1>1, Typing, FlowHolds, LatestHeldInductive, PTL
====
