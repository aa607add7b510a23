---- MODULE BatchDelivery ----
(***************************************************************************)
(* One batch on its way from a worker of the agent to the server:          *)
(* MetricsSender.SendMetricsBatch (agent.go) with the retry loop it runs   *)
(* in (utils/retry.go), the network, and the server's handler as far as    *)
(* the batch is concerned.                                                 *)
(*                                                                         *)
(* All attempts share one http.Request, whose body is a reader: what an    *)
(* attempt has read of it is not there for the next one.  Only a transport *)
(* that finds its connection, one used before, useless before it has       *)
(* written a byte takes a fresh copy of the body (GetBody) and tries again *)
(* within the attempt.  A request whose body has reached the server may be *)
(* handled at any later time, after the client has given up waiting too.   *)
(* Time is counted in seconds.                                             *)
(***************************************************************************)
EXTENDS Integers, Sequences

CONSTANTS
  MaxAttempts,     \* RetryConfig.MaxAttempts, 4
  Delays,          \* RetryConfig.Delays, 1, 3 and 5 seconds
  AttemptTimeout,  \* http.Client.Timeout, 10 seconds
  Deadline         \* of the context the attempts share, 30 seconds

ASSUME DeliveryAssumption ==
  /\ MaxAttempts \in Nat \ {0}
  /\ Delays \in Seq(Nat) /\ Len(Delays) = MaxAttempts - 1
  /\ AttemptTimeout \in Nat \ {0}
  /\ Deadline \in Nat \ {0}

Attempts == 1..MaxAttempts

VARIABLES
  call,      \* where SendMetricsBatch stands
  attempt,   \* number of the current attempt
  clock,     \* seconds since the call
  body,      \* is the body of the request still unread?
  rewound,   \* attempts whose transport has taken a copy of the body
  atServer,  \* attempts whose request the server has and has not handled
  answer,    \* what the server answered to each attempt
  applied,   \* how often the server has applied what each attempt sent
  starts,    \* history: when each attempt began
  cause      \* history: the last error

vars == <<call, attempt, clock, body, rewound, atServer, answer, applied, starts, cause>>

(***************************************************************************)
(* Errors, as IsRetriableError sees them: is there a net.Error in the      *)
(* chain, is that a timeout, does the text hold one of the patterns.       *)
(* http.Client.Do wraps every error in a url.Error, which is a net.Error.  *)
(***************************************************************************)
Error == [net : BOOLEAN, timeout : BOOLEAN, pattern : BOOLEAN]
NoError   == [net |-> FALSE, timeout |-> FALSE, pattern |-> FALSE]
Timeout   == [net |-> TRUE, timeout |-> TRUE, pattern |-> TRUE]
Refused   == [net |-> TRUE, timeout |-> FALSE, pattern |-> TRUE]
BodyShort == [net |-> TRUE, timeout |-> FALSE, pattern |-> FALSE]
BadStatus == [net |-> FALSE, timeout |-> FALSE, pattern |-> FALSE]

IsRetriable(e) == IF e.net THEN e.timeout ELSE e.pattern

Init ==
  /\ call = "check"
  /\ attempt = 1
  /\ clock = 0
  /\ body = "full"
  /\ rewound = {}
  /\ atServer = {}
  /\ answer = [a \in Attempts |-> "none"]
  /\ applied = [a \in Attempts |-> 0]
  /\ starts = <<>>
  /\ cause = NoError
----
(***************************************************************************)
(* The agent                                                               *)
(***************************************************************************)
AttemptEnds(e, seconds) ==
  /\ cause' = e
  /\ clock' = clock + seconds
  /\ call' = IF IsRetriable(e) /\ attempt < MaxAttempts THEN "delay" ELSE "failed"

\* Mutant: no look at the context before an attempt.
CheckContext_Skipped ==
  /\ call = "check"
  /\ call' = "dial"
  /\ starts' = Append(starts, clock)
  /\ UNCHANGED <<attempt, clock, body, rewound, atServer, answer, applied, cause>>

\* Retry looks at the context before each attempt.
CheckContext ==
  /\ call = "check"
  /\ IF clock < Deadline
     THEN call' = "dial" /\ starts' = Append(starts, clock)
     ELSE call' = "failed" /\ UNCHANGED starts
  /\ UNCHANGED <<attempt, clock, body, rewound, atServer, answer, applied, cause>>

\* No connection: refused or unreachable, or a timeout of the name server or
\* of the client.  The body has not been touched.
DialFails ==
  /\ call = "dial"
  /\ \/ AttemptEnds(Refused, 0)
     \/ \E s \in 1..AttemptTimeout : AttemptEnds(Timeout, s)
  /\ UNCHANGED <<attempt, body, rewound, atServer, answer, applied, starts>>

\* The transport has a connection used before (an idle one of another worker
\* or of an earlier dial that came late), and nothing can be written to it: it
\* is dead, or the reader is at its end.  It rewinds the body and goes on.
Rewind ==
  /\ call = "dial" /\ attempt \notin rewound
  /\ body' = "read"
  /\ rewound' = rewound \cup {attempt}
  /\ UNCHANGED <<call, attempt, clock, atServer, answer, applied, starts, cause>>

HasBody == body = "full" \/ attempt \in rewound

\* Mutant: each attempt has a body of its own.
WriteRequest_OwnBody ==
  /\ call = "dial"
  /\ call' = "wait"
  /\ body' = "read"
  /\ atServer' = atServer \cup {attempt}
  /\ UNCHANGED <<attempt, clock, rewound, answer, applied, starts, cause>>

\* The transport writes the request; all of the body has reached the server.
WriteRequest ==
  /\ call = "dial" /\ HasBody
  /\ call' = "wait"
  /\ body' = "read"
  /\ atServer' = atServer \cup {attempt}
  /\ UNCHANGED <<attempt, clock, rewound, answer, applied, starts, cause>>

\* The write stalls or the connection breaks before the server has the body.
WriteFails ==
  /\ call = "dial" /\ HasBody
  /\ body' = "read"
  /\ AttemptEnds(Timeout, AttemptTimeout) \/ AttemptEnds(Refused, 0)
  /\ UNCHANGED <<attempt, rewound, atServer, answer, applied, starts>>

\* The reader is at its end on a new connection, for which the transport does
\* not rewind: it finds no body of the announced length, the server no batch.
WriteNothing ==
  /\ call = "dial" /\ ~HasBody
  /\ AttemptEnds(BodyShort, 0)
  /\ UNCHANGED <<attempt, body, rewound, atServer, answer, applied, starts>>

Answered ==
  /\ call = "wait"
  /\ \/ /\ answer[attempt] = "200"
        /\ call' = "ok"
        /\ UNCHANGED <<clock, cause>>
     \/ /\ answer[attempt] = "error"
        /\ AttemptEnds(BadStatus, 0)
  /\ UNCHANGED <<attempt, body, rewound, atServer, answer, applied, starts>>

\* Mutant: http.Client without a Timeout.
Unanswered_NoClientTimeout ==
  /\ call = "wait"
  /\ atServer = {} /\ answer[attempt] = "none"
  /\ AttemptEnds(Refused, 0)
  /\ UNCHANGED <<attempt, body, rewound, atServer, answer, applied, starts>>

\* No answer: the client's timeout, or the connection is reset.
Unanswered ==
  /\ call = "wait"
  /\ AttemptEnds(Timeout, AttemptTimeout) \/ AttemptEnds(Refused, 0)
  /\ UNCHANGED <<attempt, body, rewound, atServer, answer, applied, starts>>

\* Mutant: the attempt is made again without being counted.
Delay_SameAttempt ==
  /\ call = "delay"
  /\ clock + Delays[attempt] <= Deadline
  /\ call' = "check"
  /\ clock' = clock + Delays[attempt]
  /\ UNCHANGED <<attempt, body, rewound, atServer, answer, applied, starts, cause>>

\* The select of Retry between time.After and ctx.Done, whichever is first.
Delay ==
  /\ call = "delay"
  /\ LET next == clock + Delays[attempt] IN
       \/ /\ next <= Deadline
          /\ call' = "check"
          /\ attempt' = attempt + 1
          /\ clock' = next
       \/ /\ next >= Deadline
          /\ call' = "failed"
          /\ clock' = IF clock < Deadline THEN Deadline ELSE clock
          /\ UNCHANGED attempt
  /\ UNCHANGED <<body, rewound, atServer, answer, applied, starts, cause>>

Agent ==
  \/ CheckContext \/ DialFails \/ Rewind \/ WriteRequest \/ WriteFails \/ WriteNothing
  \/ Answered \/ Unanswered \/ Delay
----
(***************************************************************************)
(* The server                                                              *)
(***************************************************************************)
\* Mutant: the 200 is sent before the batch is applied.
ServerApplies_AnswersFirst(a) ==
  /\ a \in atServer
  /\ \/ /\ answer[a] = "none"
        /\ answer' = [answer EXCEPT ![a] = "200"]
        /\ UNCHANGED <<atServer, applied>>
     \/ /\ answer[a] = "200"
        /\ applied' = [applied EXCEPT ![a] = @ + 1]
        /\ atServer' = atServer \ {a}
        /\ UNCHANGED answer
  /\ UNCHANGED <<call, attempt, clock, body, rewound, starts, cause>>

\* UpdatesHandler applies the batch and answers 200.
ServerApplies(a) ==
  /\ a \in atServer
  /\ atServer' = atServer \ {a}
  /\ answer' = [answer EXCEPT ![a] = "200"]
  /\ applied' = [applied EXCEPT ![a] = @ + 1]
  /\ UNCHANGED <<call, attempt, clock, body, rewound, starts, cause>>

\* It answers an error, or the server dies with the request.
ServerFails(a) ==
  /\ a \in atServer
  /\ atServer' = atServer \ {a}
  /\ \E x \in {"error", "none"} : answer' = [answer EXCEPT ![a] = x]
  /\ UNCHANGED <<call, attempt, clock, body, rewound, applied, starts, cause>>

Ended == call \in {"ok", "failed"}

\* The call has returned and the server has nothing of it left.
Terminated == Ended /\ atServer = {} /\ UNCHANGED vars

Next ==
  \/ Agent
  \/ \E a \in Attempts : ServerApplies(a) \/ ServerFails(a)
  \/ Terminated

Spec == Init /\ [][Next]_vars

\* Timers expire and the worker's goroutine runs; nothing is asked of the
\* server or the network.
FairSpec == Spec /\ WF_vars(Agent)
----
(***************************************************************************)
(* Properties                                                              *)
(***************************************************************************)
\* No more than MaxAttempts attempts, and each variable of its type.
TypeOK ==
  /\ call \in {"check", "dial", "wait", "delay", "ok", "failed"}
  /\ attempt \in Attempts
  /\ clock \in 0..(Deadline + AttemptTimeout)
  /\ body \in {"full", "read"}
  /\ rewound \subseteq Attempts
  /\ atServer \subseteq Attempts
  /\ answer \in [Attempts -> {"none", "200", "error"}]
  /\ applied \in [Attempts -> Nat]
  /\ starts \in Seq(Nat) /\ Len(starts) <= attempt
  /\ cause \in Error

\* The batch holds counter increments, is retried after a timeout, and may be
\* handled after its attempt timed out.  What an attempt sends is applied at
\* most once, and a later attempt repeats what an earlier one has had applied
\* only if it met a connection used before and its body was rewound: an
\* attempt on a new connection never repeats.
RepeatedOnlyIfRewound ==
  /\ \A a \in Attempts : applied[a] <= 1
  /\ \A a, b \in Attempts : a < b /\ applied[a] > 0 /\ applied[b] > 0 => b \in rewound

\* When SendMetricsBatch returns nil the server has applied what its last
\* attempt sent, once; a nil is never owed to an earlier attempt.
SuccessMeansApplied == call = "ok" => applied[attempt] = 1

\* Nothing begins once the deadline has passed, so that a worker is never
\* kept longer than the deadline and one attempt.
NoAttemptAfterTheDeadline ==
  /\ \A i \in 1..Len(starts) : starts[i] < Deadline
  /\ clock < Deadline + AttemptTimeout

\* How many steps the call can still take: five in each attempt.
StepsLeft ==
  IF Ended THEN 0
  ELSE 5 * (MaxAttempts - attempt)
         + CASE call = "check" -> 5
             [] call = "dial" -> IF attempt \in rewound THEN 3 ELSE 4
             [] call = "wait" -> 2
             [] call = "delay" -> 1

\* The retry loop runs down: each step of the call, however its attempts end,
\* leaves it fewer, and what a server does late gives it none back.
RetriesRunOut ==
  [][/\ StepsLeft' \in 0..StepsLeft
     /\ <<call, rewound>>' # <<call, rewound>> => StepsLeft' < StepsLeft]_vars

\* SendMetricsBatch returns, whatever the network and the server do.
CallReturns == <>Ended

\* README.md:21 and 33: a refused or reset connection is a retriable error,
\* and the agent retries the sending of metrics.  So the call does not fail
\* on one while it has attempts and time left.
RefusedConnectionIsRetried ==
  call = "failed" /\ cause = Refused => attempt = MaxAttempts \/ clock >= Deadline
====
