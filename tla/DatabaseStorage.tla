---- MODULE DatabaseStorage ----
(***************************************************************************)
(* The metrics server with PostgreSQL behind it (storage/database.go): the *)
(* calls of the handlers that touch the table metrics, each in the retry   *)
(* loop of utils/retry.go and under a context of its own, and the shutdown *)
(* that closes the connection pool (storage_manager.go, cmd/server/main.go)*)
(*                                                                         *)
(* PostgreSQL and pgx are external: a transaction locks the rows it writes *)
(* and releases them when it ends, its writes show at once when it commits,*)
(* a cycle of waits is broken by aborting one of the waiting, and a        *)
(* connection may break at any time, after a commit as well as before it.  *)
(* A transaction whose client has given up goes on until PostgreSQL        *)
(* notices: it keeps its locks, the statement under way may still be       *)
(* executed, and a commit that was asked for may still be made.            *)
(*                                                                         *)
(* A row is abstracted to how often each request was applied to it.  The   *)
(* requests are those that have passed the checks of their handler.        *)
(***************************************************************************)
EXTENDS Naturals, Sequences, FiniteSets

CONSTANTS
  Gauges,       \* names of gauge metrics
  Counters,     \* names of counter metrics
  Batches,      \* the sets of metrics that a batch may name
  Requests,     \* the requests clients send, each at most once
  MaxAttempts,  \* RetryConfig.MaxAttempts
  Faults        \* what may go wrong: "network", "time", "kill"

ASSUME DatabaseAssumption ==
  /\ Gauges \cap Counters = {}
  /\ IsFiniteSet(Gauges \cup Counters)
  /\ Batches \subseteq (SUBSET (Gauges \cup Counters)) \ {{}}
  /\ MaxAttempts \in Nat \ {0}
  /\ Faults \subseteq {"network", "time", "kill"}

Names == Gauges \cup Counters
Attempts == 1..MaxAttempts

\* A request: the handler it goes to, the metrics it names, and the one of a
\* batch that has a nil value or delta, or an unknown type.  The JSON update
\* of a gauge makes the same call as "update".
Ops ==
  [kind : {"update"}, names : {{n} : n \in Names}, nils : {{}}, unknown : {{}}]
    \cup [kind : {"json"}, names : {{c} : c \in Counters}, nils : {{}}, unknown : {{}}]
    \cup [kind : {"index"}, names : {Names}, nils : {{}}, unknown : {{}}]
    \cup {o \in [kind : {"batch"}, names : Batches,
                 nils : SUBSET Names, unknown : SUBSET Names] :
            /\ o.nils \cup o.unknown \subseteq o.names
            /\ Cardinality(o.nils) + Cardinality(o.unknown) < Cardinality(o.names)
            /\ Cardinality(o.nils) + Cardinality(o.unknown) <= 1}

\* The orders in which the iteration of a map may yield the elements of S.
Orders(S) ==
  {s \in [1..Cardinality(S) -> S] : \A n \in S : \E i \in DOMAIN s : s[i] = n}

VARIABLES
  main,     \* where main stands
  table,    \* table[n][r]: how often r is applied to row n, committed
  op,       \* what each request asks for
  pc,       \* where the handler of each request stands
  attempt,  \* number of the current attempt of its storage call
  order,    \* the order of the metrics in its call
  todo,     \* those the transaction has still to write
  held,     \* the rows its transaction has locked
  late,     \* what PostgreSQL still has of each attempt given up
  cause,    \* the error its storage call ended with, or its last one
  got,      \* what a read has returned: requests seen in each row
  lost      \* history: commits of it whose answer was lost

callVars == <<op, pc, attempt, order, todo, held, cause, got>>
vars == <<main, table, late, lost, callVars>>

\* A transaction without its client: the rows it has locked, that of the
\* statement under way, and whether its end is a commit.
NoTxn == [held |-> {}, next |-> {}, commits |-> FALSE]

(***************************************************************************)
(* Errors, as IsRetriableError sees them: a net.Error in the chain, else a *)
(* PgError, else a known text.  "other" is what matches nothing: an        *)
(* unknown metric type, a closed pool, an unexpected end of the stream.    *)
(***************************************************************************)
NetErrors == {"timeout", "reset"}
PgErrors == {"connection exception", "too many connections", "deadlock"}
TextMatches == {"reset", "too many connections"}
Errors == NetErrors \cup PgErrors \cup {"other"}

IsRetriable(e) ==
  IF e \in NetErrors THEN e = "timeout"
  ELSE IF e \in PgErrors THEN e = "connection exception"
  ELSE e \in TextMatches

Init ==
  /\ main = "serving"
  /\ table = [n \in Names |-> [r \in Requests |-> 0]]
  /\ op = [r \in Requests |-> [kind |-> "index", names |-> Names, nils |-> {}, unknown |-> {}]]
  /\ pc = [r \in Requests |-> "unsent"]
  /\ attempt = [r \in Requests |-> 1]
  /\ order = [r \in Requests |-> <<>>]
  /\ todo = [r \in Requests |-> <<>>]
  /\ held = [r \in Requests |-> {}]
  /\ late = [r \in Requests |-> [a \in Attempts |-> NoTxn]]
  /\ cause = [r \in Requests |-> "none"]
  /\ got = [r \in Requests |-> [n \in Names |-> {}]]
  /\ lost = [r \in Requests |-> 0]

Ended(r) == pc[r] \in {"ok", "failed", "broken"}
Active(r) == pc[r] # "unsent" /\ ~Ended(r)

\* The pool hands out connections until main closes it.
PoolOpen == main \in {"serving", "draining"}
----
(***************************************************************************)
(* The transactions: <<r, 0>> is the one of the attempt that r is making,  *)
(* <<r, a>> what is left of its attempt a.                                 *)
(***************************************************************************)
Txns == Requests \X (0..MaxAttempts)

Metric(r) == Head(todo[r])

\* The row that the statement of r under way is to write.
Writing(r) ==
  IF pc[r] = "rows" /\ todo[r] # <<>> /\ Metric(r) \notin op[r].nils \cup op[r].unknown
  THEN {Metric(r)} ELSE {}

HeldBy(t) == IF t[2] = 0 THEN held[t[1]] ELSE late[t[1]][t[2]].held
WantedBy(t) == IF t[2] = 0 THEN Writing(t[1]) ELSE late[t[1]][t[2]].next

WaitsFor(t, u) == t # u /\ WantedBy(t) \cap HeldBy(u) # {}
Waits(t) == \E u \in Txns : WaitsFor(t, u)

\* The transaction of r comes to its commit without its client.  A single
\* update commits with its statement.
Commits(r) == todo[r] = <<>> \/ op[r].kind # "batch"

\* What PostgreSQL has of r when its client gives up, if it matters to anyone.
LeftBy(r) ==
  IF pc[r] = "rows" /\ (Commits(r) \/ held[r] # {})
  THEN [late[r] EXCEPT ![attempt[r]] =
          [held |-> held[r], next |-> Writing(r), commits |-> Commits(r)]]
  ELSE late[r]

\* The client of r gives its attempt up.
GivesUp(r) ==
  /\ late' = [late EXCEPT ![r] = LeftBy(r)]
  /\ lost' = [lost EXCEPT ![r] = IF pc[r] = "committed" THEN @ + 1 ELSE @]
----
(***************************************************************************)
(* A storage call that writes: UpdateGauge, UpdateCounter or UpdateBatch   *)
(* in Retry.  A single update is a transaction of one statement.           *)
(***************************************************************************)
Arrive(r) ==
  /\ main = "serving"
  /\ pc[r] = "unsent"
  /\ \E o \in Ops :
       /\ op' = [op EXCEPT ![r] = o]
       /\ IF o.kind = "index"
          THEN pc' = [pc EXCEPT ![r] = "page"] /\ UNCHANGED order
          ELSE /\ pc' = [pc EXCEPT ![r] = "begin"]
               /\ \E s \in Orders(o.names) : order' = [order EXCEPT ![r] = s]
  /\ UNCHANGED <<main, table, late, attempt, todo, held, cause, got, lost>>

\* Mutant: UpdateBatch only logs its error too.
Answer_Silent(r, e) == IF op[r].kind = "json" THEN "get" ELSE "ok"

\* What the handler does when the call returns e: only UpdateBatch returns
\* its error, UpdateGauge and UpdateCounter log it.  A counter is still to be
\* read for the answer of UpdateJSONHandler.
Answer(r, e) ==
  IF op[r].kind = "json" THEN "get"
  ELSE IF op[r].kind = "batch" /\ e # "none" THEN "failed" ELSE "ok"

\* What is remembered of the error.
Cause(e) == IF e \in {"none", "deadlock"} THEN e ELSE "error"

Returns(r, e) ==
  /\ cause' = [cause EXCEPT ![r] = Cause(e)]
  /\ attempt' = [attempt EXCEPT ![r] = 1]
  /\ pc' = [pc EXCEPT ![r] = Answer(r, e)]

\* Mutant: Retry makes one attempt more than it may.
AttemptEnds_OneMore(r, e) ==
  /\ held' = [held EXCEPT ![r] = {}]
  /\ todo' = [todo EXCEPT ![r] = <<>>]
  /\ IF IsRetriable(e) /\ attempt[r] <= MaxAttempts
     THEN pc' = [pc EXCEPT ![r] = "delay"] /\ UNCHANGED <<attempt, cause>>
     ELSE Returns(r, e)

\* An attempt ends with error e; tx.Rollback is deferred.
AttemptEnds(r, e) ==
  /\ held' = [held EXCEPT ![r] = {}]
  /\ todo' = [todo EXCEPT ![r] = <<>>]
  /\ IF IsRetriable(e) /\ attempt[r] < MaxAttempts
     THEN pc' = [pc EXCEPT ![r] = "delay"] /\ UNCHANGED <<attempt, cause>>
     ELSE Returns(r, e)

Begin(r) ==
  /\ pc[r] = "begin"
  /\ PoolOpen
  /\ pc' = [pc EXCEPT ![r] = "rows"]
  /\ todo' = [todo EXCEPT ![r] = order[r]]
  /\ UNCHANGED <<main, table, late, op, attempt, order, held, cause, got, lost>>

\* No connection: the pool is closed, or PostgreSQL has none left.
BeginFails(r) ==
  /\ pc[r] = "begin"
  /\ \/ ~PoolOpen /\ AttemptEnds(r, "other")
     \/ "network" \in Faults /\ AttemptEnds(r, "too many connections")
  /\ UNCHANGED <<main, table, late, op, order, got, lost>>

\* Mutant: a statement outside of the transaction commits by itself.
Statement_Autocommit(r) ==
  /\ pc[r] = "rows" /\ todo[r] # <<>>
  /\ Metric(r) \notin op[r].unknown
  /\ todo' = [todo EXCEPT ![r] = Tail(@)]
  /\ IF Metric(r) \in op[r].nils
     THEN UNCHANGED table
     ELSE ~Waits(<<r, 0>>) /\ table' = [table EXCEPT ![Metric(r)][r] = @ + 1]
  /\ UNCHANGED <<main, late, op, pc, attempt, order, held, cause, got, lost>>

\* The next metric: one without a value is passed over, any other is
\* written once nobody else has locked its row.
Statement(r) ==
  /\ pc[r] = "rows" /\ todo[r] # <<>>
  /\ Metric(r) \notin op[r].unknown
  /\ todo' = [todo EXCEPT ![r] = Tail(@)]
  /\ IF Metric(r) \in op[r].nils
     THEN UNCHANGED held
     ELSE ~Waits(<<r, 0>>) /\ held' = [held EXCEPT ![r] = @ \cup {Metric(r)}]
  /\ UNCHANGED <<main, table, late, op, pc, attempt, order, cause, got, lost>>

\* Mutant: UpdateBatch passes over a metric of an unknown type.
UnknownType_Skipped(r) ==
  /\ pc[r] = "rows" /\ todo[r] # <<>>
  /\ Metric(r) \in op[r].unknown
  /\ todo' = [todo EXCEPT ![r] = Tail(@)]
  /\ UNCHANGED <<main, table, late, op, pc, attempt, order, held, cause, got, lost>>

UnknownType(r) ==
  /\ pc[r] = "rows" /\ todo[r] # <<>>
  /\ Metric(r) \in op[r].unknown
  /\ AttemptEnds(r, "other")
  /\ UNCHANGED <<main, table, late, op, order, got, lost>>

\* Mutant: a statement does not wait for a lock.
DeadlockDetected_NoWait(r) ==
  /\ Waits(<<r, 0>>)
  /\ AttemptEnds(r, "deadlock")
  /\ UNCHANGED <<main, table, late, op, order, got, lost>>

\* PostgreSQL finds transactions waiting for each other and aborts one.
DeadlockDetected(r) ==
  /\ \E S \in SUBSET {t \in Txns : Waits(t)} :
       /\ <<r, 0>> \in S
       /\ \A t \in S : \E u, w \in S : WaitsFor(t, u) /\ WaitsFor(w, t)
  /\ AttemptEnds(r, "deadlock")
  /\ UNCHANGED <<main, table, late, op, order, got, lost>>

\* Mutant: the transaction is rolled back at the end, as no Commit is asked for.
Commit_Missing(r) ==
  /\ pc[r] = "rows" /\ todo[r] = <<>>
  /\ held' = [held EXCEPT ![r] = {}]
  /\ pc' = [pc EXCEPT ![r] = "committed"]
  /\ UNCHANGED <<main, table, late, op, attempt, order, todo, cause, got, lost>>

\* PostgreSQL commits: the writes show and the locks are free.
Commit(r) ==
  /\ pc[r] = "rows" /\ todo[r] = <<>>
  /\ table' = [n \in Names |->
                 IF n \in held[r] THEN [table[n] EXCEPT ![r] = @ + 1] ELSE table[n]]
  /\ held' = [held EXCEPT ![r] = {}]
  /\ pc' = [pc EXCEPT ![r] = "committed"]
  /\ UNCHANGED <<main, late, op, attempt, order, todo, cause, got, lost>>

\* Mutant: Retry goes on after a success.
Committed_Again(r) ==
  /\ pc[r] = "committed"
  /\ IF attempt[r] < MaxAttempts
     THEN pc' = [pc EXCEPT ![r] = "delay"] /\ UNCHANGED <<attempt, cause>>
     ELSE Returns(r, "none")
  /\ UNCHANGED <<main, table, late, op, order, todo, held, got, lost>>

\* The server hears of it: Retry returns nil.
Committed(r) ==
  /\ pc[r] = "committed"
  /\ Returns(r, "none")
  /\ UNCHANGED <<main, table, late, op, order, todo, held, got, lost>>

\* The connection breaks or its timer expires.  After the commit that is the
\* loss of its answer.
AttemptBreaks(r) ==
  /\ "network" \in Faults
  /\ pc[r] \in {"begin", "rows", "committed"}
  /\ \E e \in {"timeout", "reset", "connection exception"} : AttemptEnds(r, e)
  /\ GivesUp(r)
  /\ UNCHANGED <<main, table, op, order, got>>

\* Mutant: the attempt is made again without being counted.
Delay_SameAttempt(r) ==
  /\ pc[r] = "delay"
  /\ pc' = [pc EXCEPT ![r] = "begin"]
  /\ UNCHANGED <<main, table, late, op, attempt, order, todo, held, cause, got, lost>>

\* time.After: the next attempt.
Delay(r) ==
  /\ pc[r] = "delay"
  /\ pc' = [pc EXCEPT ![r] = "begin"]
  /\ attempt' = [attempt EXCEPT ![r] = @ + 1]
  /\ UNCHANGED <<main, table, late, op, order, todo, held, cause, got, lost>>

Calling(r) == pc[r] \in {"begin", "rows", "committed", "delay"}

\* Mutant: the context of the call has no timeout.
ContextExpires_Never(r) == r \notin Requests /\ UNCHANGED vars

\* The context of the call expires, after ten or thirty seconds.  The attempt
\* at work ends with a timeout, and Retry returns at the select or at its
\* next look at the context.  pgx closes the connection.
ContextExpires(r) ==
  /\ "time" \in Faults
  /\ Calling(r)
  /\ Returns(r, "timeout")
  /\ held' = [held EXCEPT ![r] = {}]
  /\ todo' = [todo EXCEPT ![r] = <<>>]
  /\ GivesUp(r)
  /\ UNCHANGED <<main, table, op, order, got>>
----
(***************************************************************************)
(* What PostgreSQL does with an attempt whose client has given up          *)
(***************************************************************************)
\* Its statement gets the lock it waits for, and its commit is made.
LateCommit(r, a) ==
  /\ late[r][a].commits /\ ~Waits(<<r, a>>)
  /\ table' = [n \in Names |->
                 IF n \in late[r][a].held \cup late[r][a].next
                 THEN [table[n] EXCEPT ![r] = @ + 1] ELSE table[n]]
  /\ late' = [late EXCEPT ![r][a] = NoTxn]
  /\ lost' = [lost EXCEPT ![r] = @ + 1]
  /\ UNCHANGED <<main, callVars>>

\* It is rolled back: PostgreSQL finds a deadlock, or that the client is gone,
\* at the latest when the statement under way is done.
LateEnds(r, a) ==
  /\ late[r][a] # NoTxn
  /\ late' = [late EXCEPT ![r][a] = NoTxn]
  /\ UNCHANGED <<main, table, lost, callVars>>

Late(r, a) == LateCommit(r, a) \/ LateEnds(r, a)
----
(***************************************************************************)
(* Reads.  A query sees what is committed.                                 *)
(***************************************************************************)
Seen(n) == {q \in Requests : table[n][q] > 0}

\* UpdateJSONHandler reads the counter back; GetCounter fails for a row that
\* does not exist and when its own Retry gives up.
ReadBack(r) ==
  /\ pc[r] = "get"
  /\ \E n \in op[r].names :
       \/ /\ PoolOpen /\ Seen(n) # {}
          /\ got' = [got EXCEPT ![r][n] = Seen(n)]
          /\ pc' = [pc EXCEPT ![r] = "ok"]
       \/ /\ Seen(n) = {} \/ ~PoolOpen \/ Faults \cap {"network", "time"} # {}
          /\ pc' = [pc EXCEPT ![r] = "failed"]
          /\ UNCHANGED got
  /\ UNCHANGED <<main, table, late, op, attempt, order, todo, held, cause, lost>>

\* Mutant: the page reads the counters first.
PageKind_Swapped(step) == IF step = "gauges" THEN Counters ELSE Gauges

\* What the query of a step of IndexHandler reads.
PageKind(step) == IF step = "gauges" THEN Gauges ELSE Counters

\* GetAllGauges and GetAllCounters send their query, under no context that
\* could end it, or find the pool closed and return an empty map.
PageQuery(r) ==
  /\ pc[r] \in {"page", "half"}
  /\ pc' = [pc EXCEPT ![r] =
              IF ~PoolOpen THEN "ok" ELSE IF @ = "page" THEN "gauges" ELSE "counters"]
  /\ cause' = [cause EXCEPT ![r] = IF PoolOpen THEN @ ELSE "error"]
  /\ UNCHANGED <<main, table, late, op, attempt, order, todo, held, got, lost>>

\* The rows arrive, or the query fails and the map keeps those that came.
PageRows(r) ==
  /\ pc[r] \in {"gauges", "counters"}
  /\ pc' = [pc EXCEPT ![r] = IF @ = "gauges" THEN "half" ELSE "ok"]
  /\ \E some \in SUBSET PageKind(pc[r]) :
       /\ got' = [got EXCEPT ![r] = [n \in Names |-> IF n \in some THEN Seen(n) ELSE @[n]]]
       /\ \/ some = PageKind(pc[r]) /\ UNCHANGED cause
          \/ "network" \in Faults /\ cause' = [cause EXCEPT ![r] = "error"]
  /\ UNCHANGED <<main, table, late, op, attempt, order, todo, held, lost>>
----
(***************************************************************************)
(* main                                                                    *)
(***************************************************************************)
\* Mutant: the rows of a page are never closed, and keep their connection.
Using_LeakedRows(r) ==
  \/ pc[r] \in {"rows", "committed", "gauges", "half", "counters"}
  \/ op[r].kind = "index" /\ pc[r] = "ok"

\* The handler of r has a connection of the pool.
Using(r) == pc[r] \in {"rows", "committed", "gauges", "counters"}

Main(from, to) == main = from /\ main' = to /\ UNCHANGED <<table, late, lost, callVars>>

\* HTTPServer.Shutdown closes the listeners, and returns when every handler
\* has, or after thirty seconds.
Signal == Main("serving", "draining")

Drained ==
  /\ Main("draining", "closing")
  /\ \A r \in Requests : ~Active(r)

DrainTimeout == "time" \in Faults /\ Main("draining", "closing")

\* The process is gone, and with it the client of every transaction.
Gone ==
  /\ main' = "off"
  /\ pc' = [r \in Requests |-> IF Active(r) THEN "broken" ELSE pc[r]]
  /\ held' = [r \in Requests |-> {}]
  /\ todo' = [r \in Requests |-> <<>>]
  /\ late' = [r \in Requests |-> LeftBy(r)]
  /\ UNCHANGED <<table, op, attempt, order, cause, got, lost>>

\* pgxpool.Pool.Close has waited for every connection to be returned; main
\* ends.
CloseReturns ==
  /\ main = "closing"
  /\ \A r \in Requests : ~Using(r)
  /\ Gone

Kill == "kill" \in Faults /\ main # "off" /\ Gone

Terminated == main = "off" /\ UNCHANGED vars

Storage(r) ==
  \/ Begin(r) \/ BeginFails(r) \/ Statement(r) \/ UnknownType(r) \/ DeadlockDetected(r)
  \/ Commit(r) \/ Committed(r) \/ AttemptBreaks(r) \/ Delay(r) \/ ContextExpires(r)

Next ==
  \/ /\ main # "off"
     /\ \E r \in Requests :
          Arrive(r) \/ Storage(r) \/ ReadBack(r) \/ PageQuery(r) \/ PageRows(r)
  \/ \E r \in Requests, a \in Attempts : Late(r, a)
  \/ Signal \/ Drained \/ DrainTimeout \/ CloseReturns \/ Kill \/ Terminated

Spec == Init /\ [][Next]_vars

\* The steps of a handler that need no answer of PostgreSQL, or that a timer
\* of their own ends.
Timely(r) == ContextExpires(r) \/ ReadBack(r) \/ PageQuery(r)

Stopping == Drained \/ DrainTimeout \/ CloseReturns

\* The goroutines run and their timers expire.  PostgreSQL need not answer:
\* what a call without an answer comes to is the end of its context.
HungSpec == Spec /\ (\A r \in Requests : WF_vars(Timely(r))) /\ WF_vars(Stopping)

\* The queries of the index page are answered as well.
FairSpec == HungSpec /\ \A r \in Requests : WF_vars(PageRows(r))
----
(***************************************************************************)
(* Properties                                                              *)
(***************************************************************************)
TypeOK ==
  /\ main \in {"serving", "draining", "closing", "off"}
  /\ table \in [Names -> [Requests -> Nat]]
  /\ op \in [Requests -> Ops]
  /\ pc \in [Requests -> {"unsent", "begin", "rows", "committed", "delay", "get",
                          "page", "gauges", "half", "counters", "ok", "failed", "broken"}]
  /\ attempt \in [Requests -> Attempts]
  /\ \A r \in Requests : order[r] \in Seq(Names) /\ todo[r] \in Seq(Names)
  /\ held \in [Requests -> SUBSET Names]
  /\ late \in [Requests -> [Attempts -> [held : SUBSET Names, next : SUBSET Names,
                                         commits : BOOLEAN]]]
  /\ cause \in [Requests -> {"none", "deadlock", "error"}]
  /\ got \in [Requests -> [Names -> SUBSET Requests]]
  /\ lost \in [Requests -> Nat]

\* The rows of a request that a complete call writes.
Rows(r) == op[r].names \ op[r].nils

\* The rows of a batch are written together or not at all, seen from any
\* other connection and after any break, retry, deadlock or kill: the
\* statements of UpdateBatch run in one transaction.
BatchIsAtomic ==
  \A r \in Requests : op[r].kind # "index" =>
    \A m, n \in Rows(r) : table[m][r] = table[n][r]

\* A counter delta is added a second time only by a commit whose answer was
\* lost, the connection or the context having ended before it came: every
\* other retry is of something that was rolled back, and nothing is repeated
\* after a success.
RepeatedOnlyAfterALostAnswer ==
  \A r \in Requests : \A n \in Names :
    /\ table[n][r] <= lost[r] + 1
    /\ Calling(r) /\ pc[r] # "committed" => table[n][r] <= lost[r]

\* A batch answered 200 is in the table.  One answered 500 is not, whatever
\* it failed of, unless an answer of PostgreSQL was lost.
BatchAnswersTellTheTruth ==
  \A r \in Requests : op[r].kind = "batch" =>
    /\ pc[r] = "ok" => \A n \in Rows(r) : table[n][r] > 0
    /\ pc[r] = "failed" /\ lost[r] = 0 => \A n \in Names : table[n][r] = 0

\* A single update answered 200 is in the table, and the value a JSON answer
\* gives holds it, unless the storage call ended in an error, which
\* UpdateGauge and UpdateCounter do not return.
OnlyErrorsAreSwallowed ==
  \A r \in Requests :
    op[r].kind \in {"update", "json"} /\ pc[r] = "ok" /\ cause[r] = "none" =>
      \A n \in op[r].names :
        /\ table[n][r] > 0
        /\ op[r].kind = "json" /\ n \in Counters => r \in got[r][n]

\* Request r takes its rows in the order s.
Follows(r, s) ==
  \A i, j \in DOMAIN order[r] : i < j =>
    \E k, l \in DOMAIN s : k < l /\ s[k] = order[r][i] /\ s[l] = order[r][j]

\* PostgreSQL aborts a call as a deadlock only if the calls take their rows
\* in orders that contradict each other: it is the map of UpdatesHandler that
\* makes batches fail each other, and any fixed order would prevent it.
DeadlockNeedsOpposedOrders ==
  (\E s \in Orders(Names) : \A r \in Requests : Follows(r, s))
    => \A r \in Requests : cause[r] # "deadlock"

\* A page that shows the gauge of a batch shows its counters, unless one of
\* its queries failed, which the page does not tell: each query sees whole
\* transactions, and the counters are read after the gauges.
PagesShowTheCountersOfAGauge ==
  \A p, r \in Requests :
    /\ op[p].kind = "index" /\ pc[p] = "ok" /\ cause[p] = "none"
    /\ op[r].kind = "batch"
    /\ \E g \in Gauges : r \in got[p][g]
    => \A c \in Rows(r) \cap Counters : r \in got[p][c]

\* How many steps the handler of r can still take: in each attempt one for
\* every metric and five more, and after its storage call the read.
StepsLeft(r) ==
  LET perAttempt == Len(order[r]) + 5
      later == (MaxAttempts - attempt[r]) * perAttempt
  IN CASE pc[r] = "begin" -> later + perAttempt
       [] pc[r] = "rows" -> later + (Len(todo[r]) + 4)
       [] pc[r] = "committed" -> later + 3
       [] pc[r] = "delay" -> later + 2
       [] pc[r] = "page" -> 4
       [] pc[r] = "gauges" -> 3
       [] pc[r] = "half" -> 2
       [] pc[r] \in {"get", "counters"} -> 1
       [] OTHER -> 0

\* A handler does not go round for ever, even under a context that never
\* expires: each of its steps leaves it fewer, however its transaction fails,
\* and no other request and nothing main does gives it one back.
HandlersRunOut ==
  [][\A r \in Requests : Active(r) =>
       /\ StepsLeft(r)' \in 0..StepsLeft(r)
       /\ <<pc[r], todo[r]>>' # <<pc[r], todo[r]>> => StepsLeft(r)' < StepsLeft(r)]_vars

\* How far a request is for the table: its attempts are one thing until one
\* of them commits.
Stage(p) ==
  IF p \in {"begin", "rows", "delay"} THEN "trying"
  ELSE IF p = "committed" THEN "stored"
  ELSE IF p \in {"get", "page", "gauges", "half", "counters"} THEN "reading"
  ELSE p

Progress == [r \in Requests |-> Stage(pc[r])]

\* The attempts given up that may still be stored.
Pending == [r \in Requests |-> {a \in Attempts : late[r][a].commits}]

Atomic == INSTANCE AtomicTable WITH
  Tries <- Attempts,
  data <- table, asks <- op, call <- Progress, pending <- Pending, seen <- got

\* Transactions, retries and queries make of the table one that is changed by
\* whole requests at one moment each: in the try whose answer the call waits
\* for, or later by a try that was given up with its commit under way, which
\* may be after the answer to the client.  A call is tried again only if it
\* does not know of a commit; what UnknownType rolls back is never seen.
TableIsAtomic == Atomic!Spec

\* Every storage call that writes returns, even if PostgreSQL never answers
\* or others hold its rows: its context ends it.
UpdatesAreAnswered == \A r \in Requests : Calling(r) ~> ~Calling(r)

\* README.md:623: thirty seconds for the shutdown, after which the process is
\* ended by force.  A signal ends the server.
SignalEndsTheServer == main = "draining" ~> main = "off"
====
