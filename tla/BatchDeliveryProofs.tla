---- MODULE BatchDeliveryProofs ----
(***************************************************************************)
(* Proofs about BatchDelivery, for any number of attempts, any delays and  *)
(* any timeouts.                                                           *)
(***************************************************************************)
EXTENDS BatchDelivery, TLAPS

\* What attempt a sent is at the server, has been answered, or applied.
Sent(a) == a \in atServer \/ answer[a] # "none" \/ applied[a] > 0

\* An attempt sends its body once, and only the first to read it or one that
\* rewound it can; it is at the server until it has been applied or dropped,
\* and a 200 stands for an application.
OnceInv ==
  /\ attempt \in Attempts /\ (call = "delay" => attempt < MaxAttempts)
  /\ rewound \subseteq Attempts
  /\ atServer \subseteq Attempts
  /\ answer \in [Attempts -> {"none", "200", "error"}]
  /\ applied \in [Attempts -> Nat]
  /\ \A a \in Attempts :
       /\ Sent(a) => body # "full" /\ a <= attempt
       /\ applied[a] <= 1 /\ (a \in atServer => applied[a] = 0)
       /\ answer[a] = "200" => applied[a] = 1
  /\ call \in {"check", "dial"} => ~Sent(attempt)
  /\ call = "ok" => applied[attempt] = 1
  /\ \A a, b \in Attempts : a < b /\ Sent(a) /\ Sent(b) => b \in rewound

LEMMA AttemptsAreNumbers == Attempts \subseteq Nat /\ MaxAttempts \in Nat
BY DeliveryAssumption DEF Attempts

\* A step of the server leaves no more attempts with something sent.
LEMMA ServerInv ==
  ASSUME OnceInv, NEW a \in Attempts, a \in atServer, atServer' = atServer \ {a},
         \/ /\ answer' = [answer EXCEPT ![a] = "200"]
            /\ applied' = [applied EXCEPT ![a] = @ + 1]
         \/ /\ \E x \in {"error", "none"} : answer' = [answer EXCEPT ![a] = x]
            /\ applied' = applied,
         UNCHANGED <<call, attempt, body, rewound>>
  PROVE  OnceInv'
<1>1. Sent(a) /\ applied[a] = 0
  BY DEF OnceInv, Sent
<1>2. ASSUME NEW b \in Attempts, Sent(b)' PROVE Sent(b)
  BY <1>1, <1>2 DEF OnceInv, Sent
<1>3. /\ answer' \in [Attempts -> {"none", "200", "error"}]
      /\ applied' \in [Attempts -> Nat]
      /\ atServer' \subseteq Attempts
  BY <1>1 DEF OnceInv
<1>4. ASSUME NEW b \in Attempts
      PROVE  /\ applied'[b] <= 1 /\ (b \in atServer' => applied'[b] = 0)
             /\ answer'[b] = "200" => applied'[b] = 1
  BY <1>1, <1>4 DEF OnceInv
<1>5. call \notin {"check", "dial"} \/ attempt # a
  BY <1>1 DEF OnceInv
<1>6. call = "ok" => applied'[attempt] = 1
  BY <1>1 DEF OnceInv
<1> QED
  BY <1>2, <1>3, <1>4, <1>5, <1>6 DEF OnceInv

\* A step that neither sends nor answers, and takes no reader back.
LEMMA QuietStep ==
  ASSUME OnceInv, UNCHANGED <<attempt, atServer, answer, applied>>, body = "read" => body' = "read",
         rewound \subseteq rewound', rewound' \subseteq Attempts,
         call' = "delay" => attempt < MaxAttempts,
         call' \in {"check", "dial"} => call \in {"check", "dial"},
         call' = "ok" => applied[attempt] = 1,
         body \in {"full", "read"}, body' \in {"full", "read"}
  PROVE  OnceInv'
<1>1. ASSUME NEW a \in Attempts PROVE Sent(a)' <=> Sent(a)
  BY DEF Sent
<1> QED
  BY <1>1 DEF OnceInv

LEMMA OnceInvInductive == OnceInv /\ body \in {"full", "read"} /\ [Next]_vars => OnceInv'
<1>1. SUFFICES ASSUME OnceInv, body \in {"full", "read"}, [Next]_vars PROVE OnceInv'
  OBVIOUS
<1>2. attempt \in Attempts /\ rewound \subseteq Attempts
  BY <1>1 DEF OnceInv
<1>3. CASE CheckContext \/ DialFails \/ WriteFails \/ WriteNothing \/ Unanswered
  BY <1>1, <1>2, <1>3, QuietStep
     DEF CheckContext, DialFails, WriteFails, WriteNothing, Unanswered, AttemptEnds
<1>4. CASE Rewind
  BY <1>1, <1>2, <1>4, QuietStep DEF Rewind
<1>5. CASE WriteRequest
  <2>1. ~Sent(attempt)
    BY <1>1, <1>5 DEF WriteRequest, OnceInv
  <2>2. ASSUME NEW a \in Attempts PROVE Sent(a)' <=> Sent(a) \/ a = attempt
    BY <1>2, <1>5 DEF WriteRequest, Sent
  <2>3. ASSUME NEW a \in Attempts, NEW b \in Attempts, a < b, Sent(a)', Sent(b)'
        PROVE  b \in rewound
    <3>1. Sent(a) \/ a = attempt
      BY <2>2, <2>3
    <3>2. Sent(b) \/ b = attempt
      BY <2>2, <2>3
    <3>3. (Sent(a) => a <= attempt) /\ (Sent(b) => b <= attempt)
      BY <1>1 DEF OnceInv
    <3>4. Sent(a) /\ (Sent(b) \/ b = attempt)
      BY <1>2, <2>3, <3>1, <3>2, <3>3, AttemptsAreNumbers
    <3>5. body # "full"
      BY <1>1, <3>4 DEF OnceInv
    <3> QED
      BY <1>1, <1>5, <2>3, <3>4, <3>5 DEF OnceInv, WriteRequest, HasBody
  <2>4. ASSUME NEW a \in Attempts
        PROVE  /\ Sent(a)' => body' # "full" /\ a <= attempt
               /\ applied[a] <= 1 /\ (a \in atServer' => applied[a] = 0)
    BY <1>1, <1>2, <1>5, <2>1, <2>2, <2>4, AttemptsAreNumbers DEF WriteRequest, OnceInv, Sent
  <2>5. call' = "wait" /\ atServer' \subseteq Attempts /\ UNCHANGED <<attempt, rewound, answer, applied>>
    BY <1>1, <1>2, <1>5 DEF WriteRequest, OnceInv
  <2> QED
    BY <1>1, <2>3, <2>4, <2>5 DEF OnceInv
<1>6. CASE Answered
  BY <1>1, <1>2, <1>6, QuietStep DEF Answered, AttemptEnds, OnceInv
<1>7. CASE Delay
  <2>1. CASE attempt' = attempt
    <3>1. attempt + 1 # attempt
      BY <1>2, AttemptsAreNumbers
    <3>2. call' = "failed" /\ UNCHANGED <<body, rewound, atServer, answer, applied>>
      BY <1>7, <2>1, <3>1 DEF Delay
    <3> QED
      BY <1>1, <1>2, <2>1, <3>2, QuietStep
  <2>2. CASE attempt' # attempt
    <3>1. attempt' = attempt + 1 /\ call' = "check" /\ attempt < MaxAttempts
      BY <1>1, <1>7, <2>2 DEF Delay, OnceInv
    <3>2. attempt' \in Attempts
      BY <1>2, <3>1, DeliveryAssumption DEF Attempts
    <3>3. UNCHANGED <<body, rewound, atServer, answer, applied>>
      BY <1>7 DEF Delay
    <3>4. ASSUME NEW a \in Attempts
          PROVE  (Sent(a)' <=> Sent(a)) /\ (Sent(a) => a <= attempt' /\ a # attempt')
      BY <1>1, <1>2, <3>1, <3>3, <3>4, AttemptsAreNumbers DEF OnceInv, Sent
    <3> QED
      BY <1>1, <3>1, <3>2, <3>3, <3>4 DEF OnceInv
  <2> QED
    BY <2>1, <2>2
<1>8. ASSUME NEW a \in Attempts, ServerApplies(a) PROVE OnceInv'
  BY <1>1, <1>8, ServerInv DEF ServerApplies
<1>9. ASSUME NEW a \in Attempts, ServerFails(a) PROVE OnceInv'
  BY <1>1, <1>9, ServerInv DEF ServerFails
<1>10. CASE UNCHANGED vars
  BY <1>1, <1>2, <1>10, QuietStep DEF vars, OnceInv
<1> QED
  BY <1>1, <1>3, <1>4, <1>5, <1>6, <1>7, <1>8, <1>9, <1>10
     DEF Next, Agent, Terminated

LEMMA OnceInvInitial == Init => OnceInv
BY DeliveryAssumption DEF Init, OnceInv, Sent, Attempts

LEMMA BodyIsFullOrRead == Spec => [](body \in {"full", "read"})
<1>1. Init => body \in {"full", "read"}
  BY DEF Init
<1>2. body \in {"full", "read"} /\ [Next]_vars => (body \in {"full", "read"})'
  BY DEF Next, Agent, CheckContext, DialFails, Rewind, WriteRequest, WriteFails, WriteNothing,
         Answered, Unanswered, Delay, ServerApplies, ServerFails, Terminated, vars
<1> QED
  BY <1>1, <1>2, PTL DEF Spec

LEMMA OnceInvHolds == Spec => []OnceInv
BY OnceInvInitial, OnceInvInductive, BodyIsFullOrRead, PTL DEF Spec

\* What an attempt sends is applied at most once, however late the server
\* handles it, and a later attempt repeats an earlier one only by a body that
\* the transport rewound on a connection used before.
THEOREM RepeatsAreRewound == Spec => []RepeatedOnlyIfRewound
<1>1. OnceInv => RepeatedOnlyIfRewound
  BY DEF OnceInv, RepeatedOnlyIfRewound, Sent
<1> QED
  BY <1>1, OnceInvHolds, PTL

\* SendMetricsBatch returns nil only for a batch the server has applied, as
\* the last attempt sent it.
THEOREM SuccessIsTruthful == Spec => []SuccessMeansApplied
<1>1. OnceInv => SuccessMeansApplied
  BY DEF OnceInv, SuccessMeansApplied
<1> QED
  BY <1>1, OnceInvHolds, PTL
----
\* An attempt is under way only if it began before the deadline, and takes no
\* longer than the client's timeout.
TimeInv ==
  /\ clock \in Nat
  /\ clock < Deadline + AttemptTimeout
  /\ call \in {"dial", "wait"} => clock < Deadline
  /\ starts \in Seq(Nat)
  /\ \A i \in 1..Len(starts) : starts[i] < Deadline

\* However an attempt ends, it lasts at most AttemptTimeout seconds.
LEMMA AttemptTime ==
  ASSUME TimeInv, call \in {"dial", "wait"}, NEW s \in 0..AttemptTimeout,
         NEW e, AttemptEnds(e, s), UNCHANGED starts
  PROVE  TimeInv'
<1>1. call' \notin {"dial", "wait"}
  BY DEF AttemptEnds
<1>2. clock' \in Nat /\ clock' < Deadline + AttemptTimeout
  BY DeliveryAssumption DEF AttemptEnds, TimeInv
<1> QED
  BY <1>1, <1>2 DEF TimeInv

LEMMA TimeInvInductive == OnceInv /\ TimeInv /\ [Next]_vars => TimeInv'
<1>1. SUFFICES ASSUME OnceInv, TimeInv, [Next]_vars PROVE TimeInv'
  OBVIOUS
<1>2. CASE CheckContext
  <2>1. CASE clock < Deadline
    <3>1. starts' = Append(starts, clock) /\ clock' = clock
      BY <1>2, <2>1 DEF CheckContext
    <3>2. starts' \in Seq(Nat) /\ Len(starts') = Len(starts) + 1
      BY <1>1, <3>1 DEF TimeInv
    <3>3. ASSUME NEW i \in 1..Len(starts') PROVE starts'[i] < Deadline
      BY <1>1, <2>1, <3>1, <3>2 DEF TimeInv
    <3> QED
      BY <1>1, <2>1, <3>1, <3>2, <3>3 DEF TimeInv
  <2>2. CASE ~(clock < Deadline)
    BY <1>1, <1>2, <2>2 DEF CheckContext, TimeInv
  <2> QED
    BY <2>1, <2>2
<1>3. CASE DialFails
  <2>1. CASE AttemptEnds(Refused, 0)
    BY <1>1, <1>3, <2>1, AttemptTime, DeliveryAssumption DEF DialFails
  <2>2. ASSUME NEW s \in 1..AttemptTimeout, AttemptEnds(Timeout, s) PROVE TimeInv'
    BY <1>1, <1>3, <2>2, AttemptTime, DeliveryAssumption DEF DialFails
  <2> QED
    BY <1>3, <2>1, <2>2 DEF DialFails
<1>4. CASE WriteRequest \/ Rewind
  BY <1>1, <1>4 DEF WriteRequest, Rewind, TimeInv
<1>5. CASE WriteFails
  BY <1>1, <1>5, AttemptTime, DeliveryAssumption DEF WriteFails
<1>6. CASE WriteNothing
  BY <1>1, <1>6, AttemptTime, DeliveryAssumption DEF WriteNothing
<1>7. CASE Answered
  <2>1. CASE call' = "ok"
    BY <1>1, <1>7, <2>1 DEF Answered, AttemptEnds, TimeInv
  <2>2. CASE call' # "ok"
    BY <1>1, <1>7, <2>2, AttemptTime, DeliveryAssumption DEF Answered
  <2> QED
    BY <2>1, <2>2
<1>8. CASE Unanswered
  BY <1>1, <1>8, AttemptTime, DeliveryAssumption DEF Unanswered
<1>9. CASE Delay
  <2>1. attempt \in 1..Len(Delays) /\ Delays[attempt] \in Nat
    BY <1>1, <1>9, DeliveryAssumption DEF Delay, OnceInv, Attempts
  <2>2. clock' \in Nat /\ clock' < Deadline + AttemptTimeout
    <3>1. \/ clock' = clock + Delays[attempt] /\ clock' <= Deadline
          \/ clock' = Deadline \/ clock' = clock
      BY <1>9 DEF Delay
    <3> QED
      BY <1>1, <2>1, <3>1, DeliveryAssumption DEF TimeInv
  <2>3. UNCHANGED starts /\ call' \notin {"dial", "wait"}
    BY <1>9 DEF Delay
  <2> QED
    BY <1>1, <2>2, <2>3 DEF TimeInv
<1>10. ASSUME NEW a \in Attempts, ServerApplies(a) \/ ServerFails(a) PROVE TimeInv'
  BY <1>1, <1>10 DEF ServerApplies, ServerFails, TimeInv
<1>11. CASE UNCHANGED vars
  BY <1>1, <1>11 DEF vars, TimeInv
<1> QED
  BY <1>1, <1>2, <1>3, <1>4, <1>5, <1>6, <1>7, <1>8, <1>9, <1>10, <1>11
     DEF Next, Agent, Terminated

LEMMA TimeInvInitial == Init => TimeInv
BY DeliveryAssumption DEF Init, TimeInv

\* No attempt starts after the deadline, so a call never lasts as long as the
\* deadline and one attempt together.
THEOREM DeadlineKept == Spec => []NoAttemptAfterTheDeadline
<1>1. TimeInv => NoAttemptAfterTheDeadline
  BY DEF TimeInv, NoAttemptAfterTheDeadline
<1> QED
  BY <1>1, TimeInvInitial, TimeInvInductive, OnceInvHolds, PTL DEF Spec
----
\* Where the call stands, and one start for each attempt that has begun.
BookInv ==
  /\ call \in {"check", "dial", "wait", "delay", "ok", "failed"}
  /\ body \in {"full", "read"}
  /\ cause \in Error
  /\ Len(starts) <= attempt
  /\ call = "check" => Len(starts) < attempt

LEMMA BookInvInitial == Init => BookInv
BY DEF Init, BookInv, NoError, Error

LEMMA BookInvInductive == OnceInv /\ TimeInv /\ BookInv /\ [Next]_vars => BookInv'
<1>1. SUFFICES ASSUME OnceInv, TimeInv, BookInv, [Next]_vars PROVE BookInv'
  OBVIOUS
<1>2. attempt \in Nat /\ Len(starts) \in Nat
  BY <1>1, DeliveryAssumption DEF OnceInv, TimeInv, Attempts
<1>3. {Timeout, Refused, BodyShort, BadStatus} \subseteq Error
  BY DEF Timeout, Refused, BodyShort, BadStatus, Error
<1>4. ASSUME NEW e \in Error, NEW s, AttemptEnds(e, s), UNCHANGED <<starts, attempt>>
      PROVE  call' \in {"delay", "failed"} /\ cause' \in Error /\ Len(starts') <= attempt'
  BY <1>1, <1>4 DEF AttemptEnds, BookInv
<1>5. CASE CheckContext
  <2>1. CASE clock < Deadline
    <3>1. Len(starts') = Len(starts) + 1
      BY <1>1, <1>5, <2>1 DEF CheckContext, TimeInv
    <3> QED
      BY <1>1, <1>2, <1>5, <2>1, <3>1 DEF CheckContext, BookInv
  <2>2. CASE ~(clock < Deadline)
    BY <1>1, <1>5, <2>2 DEF CheckContext, BookInv
  <2> QED
    BY <2>1, <2>2
<1>6. CASE DialFails
  BY <1>1, <1>3, <1>4, <1>6 DEF DialFails, BookInv
<1>7. CASE WriteRequest \/ Rewind
  BY <1>1, <1>7 DEF WriteRequest, Rewind, BookInv
<1>8. CASE WriteFails
  BY <1>1, <1>3, <1>4, <1>8 DEF WriteFails, BookInv
<1>9. CASE WriteNothing
  BY <1>1, <1>3, <1>4, <1>9 DEF WriteNothing, BookInv
<1>10. CASE Answered
  BY <1>1, <1>3, <1>4, <1>10 DEF Answered, BookInv
<1>11. CASE Unanswered
  BY <1>1, <1>3, <1>4, <1>11 DEF Unanswered, BookInv
<1>12. CASE Delay
  BY <1>1, <1>2, <1>12 DEF Delay, BookInv
<1>13. ASSUME NEW a \in Attempts, ServerApplies(a) \/ ServerFails(a) PROVE BookInv'
  BY <1>1, <1>13 DEF ServerApplies, ServerFails, BookInv
<1>14. CASE UNCHANGED vars
  BY <1>1, <1>14 DEF vars, BookInv
<1> QED
  BY <1>1, <1>5, <1>6, <1>7, <1>8, <1>9, <1>10, <1>11, <1>12, <1>13, <1>14
     DEF Next, Agent, Terminated

\* The call makes no more than its attempts, notes each of them once, and the
\* clock and every other variable keep to their types.
THEOREM DeliveryTyping == Spec => []TypeOK
<1>1. OnceInv /\ TimeInv /\ BookInv => TypeOK
  <2>1. SUFFICES ASSUME OnceInv, TimeInv, BookInv PROVE TypeOK
    OBVIOUS
  <2>2. clock \in 0..(Deadline + AttemptTimeout)
    BY <2>1, DeliveryAssumption DEF OnceInv, TimeInv
  <2> QED
    BY <2>1, <2>2 DEF OnceInv, TimeInv, BookInv, TypeOK
<1>2. Spec => []TimeInv
  BY TimeInvInitial, TimeInvInductive, OnceInvHolds, PTL DEF Spec
<1> QED
  BY <1>1, <1>2, BookInvInitial, BookInvInductive, OnceInvHolds, PTL DEF Spec
----
\* StepsLeft at the four places of an attempt and at the end.
Countdown ==
  /\ attempt \in Nat /\ attempt <= MaxAttempts
  /\ Ended => StepsLeft = 0
  /\ call = "check" => StepsLeft = 5 * (MaxAttempts - attempt) + 5
  /\ call = "dial" /\ attempt \notin rewound => StepsLeft = 5 * (MaxAttempts - attempt) + 4
  /\ call = "dial" /\ attempt \in rewound => StepsLeft = 5 * (MaxAttempts - attempt) + 3
  /\ call = "wait" => StepsLeft = 5 * (MaxAttempts - attempt) + 2
  /\ call = "delay" => StepsLeft = 5 * (MaxAttempts - attempt) + 1

LEMMA CountdownHolds == OnceInv => Countdown
<1>1. OnceInv => attempt \in Nat /\ attempt <= MaxAttempts
  BY DeliveryAssumption DEF OnceInv, Attempts
<1> QED
  BY <1>1 DEF Countdown, StepsLeft, Ended

\* Only Delay begins an attempt, and it counts it; only Rewind rewinds, once
\* in each attempt.
LEMMA StepsAre ==
  ASSUME [Next]_vars
  PROVE  \/ UNCHANGED <<call, attempt, rewound>>
         \/ /\ ~Ended /\ UNCHANGED <<attempt, rewound>>
            /\ \/ call' \in {"ok", "failed"}
               \/ call = "check" /\ call' = "dial"
               \/ call = "dial" /\ call' \in {"wait", "delay"}
               \/ call = "wait" /\ call' = "delay"
         \/ /\ call = "dial" /\ UNCHANGED <<call, attempt>>
            /\ attempt \notin rewound /\ attempt \in rewound'
         \/ call = "delay" /\ call' = "check" /\ attempt' = attempt + 1
<1>1. CASE CheckContext
  BY <1>1 DEF CheckContext, Ended
<1>2. CASE DialFails \/ WriteRequest \/ WriteFails \/ WriteNothing
  BY <1>2 DEF DialFails, WriteRequest, WriteFails, WriteNothing, AttemptEnds, Ended
<1>3. CASE Rewind
  BY <1>3 DEF Rewind
<1>4. CASE Answered \/ Unanswered
  BY <1>4 DEF Answered, Unanswered, AttemptEnds, Ended
<1>5. CASE Delay
  BY <1>5 DEF Delay, Ended
<1>6. CASE (\E a \in Attempts : ServerApplies(a) \/ ServerFails(a)) \/ UNCHANGED vars
  BY <1>6 DEF ServerApplies, ServerFails, vars
<1> QED
  BY <1>1, <1>2, <1>3, <1>4, <1>5, <1>6 DEF Next, Agent, Terminated

\* The safety half of the return of the call, for any number of attempts: the
\* loop of Retry cannot go on for ever, as its steps run out.
THEOREM RetriesEnd == Spec => RetriesRunOut
<1>1. ASSUME OnceInv, OnceInv', BookInv, [Next]_vars
      PROVE  /\ StepsLeft' \in 0..StepsLeft
             /\ <<call, rewound>>' # <<call, rewound>> => StepsLeft' < StepsLeft
  <2>1. Countdown
    BY <1>1, CountdownHolds
  <2>2. Countdown'
    BY <1>1, CountdownHolds, PTL
  <2>3. MaxAttempts \in Nat /\ (call \in {"check", "dial", "wait", "delay"} \/ Ended)
    BY <1>1, DeliveryAssumption DEF BookInv, Ended
  <2>4. CASE UNCHANGED <<call, attempt, rewound>>
    <3>1. StepsLeft' = StepsLeft /\ StepsLeft \in Nat
      BY <2>1, <2>2, <2>3, <2>4 DEF Countdown, Ended
    <3> QED
      BY <2>4, <3>1
  <2>5. CASE /\ ~Ended /\ UNCHANGED <<attempt, rewound>>
             /\ \/ call' \in {"ok", "failed"}
                \/ call = "check" /\ call' = "dial"
                \/ call = "dial" /\ call' \in {"wait", "delay"}
                \/ call = "wait" /\ call' = "delay"
    BY <2>1, <2>2, <2>3, <2>5 DEF Countdown, Ended
  <2>6. CASE /\ call = "dial" /\ UNCHANGED <<call, attempt>>
             /\ attempt \notin rewound /\ attempt \in rewound'
    BY <2>1, <2>2, <2>3, <2>6 DEF Countdown
  <2>7. CASE call = "delay" /\ call' = "check" /\ attempt' = attempt + 1
    BY <2>1, <2>2, <2>3, <2>7 DEF Countdown
  <2> QED
    BY <1>1, <2>4, <2>5, <2>6, <2>7, StepsAre
<1>2. Spec => []TimeInv
  BY TimeInvInitial, TimeInvInductive, OnceInvHolds, PTL DEF Spec
<1>3. Spec => []BookInv
  BY <1>2, BookInvInitial, BookInvInductive, OnceInvHolds, PTL DEF Spec
<1> QED
  BY <1>1, <1>3, OnceInvHolds, PTL DEF Spec, RetriesRunOut
====
