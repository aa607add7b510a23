---- MODULE DatabaseStorageProofs ----
(***************************************************************************)
(* Proofs about DatabaseStorage, for any metrics, requests and number of   *)
(* attempts, and any of the faults.                                        *)
(***************************************************************************)
EXTENDS DatabaseStorage, FiniteSetTheorems, WellFoundedInduction, TLAPS

Stages == {"unsent", "begin", "rows", "committed", "delay", "get", "page", "gauges",
           "half", "counters", "ok", "failed", "broken"}
Answers == Errors \cup {"none"}
Causes == {"none", "deadlock", "error"}
Left == [held : SUBSET Names, next : SUBSET Names, commits : BOOLEAN]

\* The types, and that only an attempt which is not the last one is retried.
Typed ==
  /\ main \in {"serving", "draining", "closing", "off"}
  /\ table \in [Names -> [Requests -> Nat]]
  /\ op \in [Requests -> Ops]
  /\ pc \in [Requests -> Stages]
  /\ attempt \in [Requests -> Attempts]
  /\ order \in [Requests -> Seq(Names)]
  /\ todo \in [Requests -> Seq(Names)]
  /\ held \in [Requests -> SUBSET Names]
  /\ late \in [Requests -> [Attempts -> Left]]
  /\ cause \in [Requests -> Causes]
  /\ got \in [Requests -> [Names -> SUBSET Requests]]
  /\ lost \in [Requests -> Nat]
  /\ \A r \in Requests : pc[r] = "delay" => attempt[r] < MaxAttempts

LEMMA OrdersAreSequences == ASSUME NEW S \in SUBSET Names PROVE Orders(S) \subseteq Seq(Names)
<1>1. Cardinality(S) \in Nat
  BY DatabaseAssumption, FS_Subset, FS_CardinalityType DEF Names
<1> QED
  BY <1>1 DEF Orders

LEMMA OpsNames ==
  \A o \in Ops :
    /\ o.names \subseteq Names /\ o.unknown \subseteq o.names
    /\ o.kind # "batch" /\ o.kind # "index" =>
         o.nils = {} /\ o.unknown = {} /\ \E n \in Names : o.names = {n}
BY DatabaseAssumption DEF Ops, Names

LEMMA FirstAttempt == 1 \in Attempts
BY DatabaseAssumption DEF Attempts

LEMMA NoTxnTyped == NoTxn \in Left
BY DEF NoTxn, Left

\* What is left of a transaction is a part of it.
LEMMA LeftTyped ==
  ASSUME Typed, NEW r \in Requests
  PROVE  Writing(r) \subseteq Names /\ LeftBy(r) \in [Attempts -> Left]
<1>1. Writing(r) \subseteq Names
  BY DEF Writing, Metric, Typed
<1>2. [held |-> held[r], next |-> Writing(r), commits |-> Commits(r)] \in Left
  BY <1>1 DEF Typed, Left, Commits
<1>3. late[r] \in [Attempts -> Left]
  BY DEF Typed
<1> QED
  BY <1>1, <1>2, <1>3 DEF LeftBy

LEMMA GivesUpTyped ==
  ASSUME Typed, NEW r \in Requests, GivesUp(r)
  PROVE  late' \in [Requests -> [Attempts -> Left]] /\ lost' \in [Requests -> Nat]
<1>1. late' \in [Requests -> [Attempts -> Left]]
  BY LeftTyped DEF GivesUp, Typed
<1>2. lost' = [lost EXCEPT ![r] = lost[r] + 1] \/ lost' = [lost EXCEPT ![r] = lost[r]]
  BY DEF GivesUp
<1>3. lost \in [Requests -> Nat]
  BY DEF Typed
<1> QED
  BY <1>1, <1>2, <1>3

\* Whatever a call ends with, it leaves the variables of its types.
LEMMA EndTyped ==
  ASSUME Typed, NEW r \in Requests, NEW e \in Errors, AttemptEnds(r, e)
  PROVE  /\ pc' \in [Requests -> Stages]
         /\ attempt' \in [Requests -> Attempts]
         /\ todo' \in [Requests -> Seq(Names)]
         /\ held' \in [Requests -> SUBSET Names]
         /\ cause' \in [Requests -> Causes]
         /\ \A q \in Requests : pc'[q] = "delay" => attempt'[q] < MaxAttempts
<1> USE DEF Typed, Stages, Causes
<1>1. todo' \in [Requests -> Seq(Names)] /\ held' \in [Requests -> SUBSET Names]
  BY DEF AttemptEnds
<1>3. CASE Returns(r, e)
  BY <1>1, <1>3, FirstAttempt DEF Returns, Answer, Cause
<1>4. CASE pc' = [pc EXCEPT ![r] = "delay"] /\ UNCHANGED <<attempt, cause>> /\ attempt[r] < MaxAttempts
  BY <1>1, <1>4
<1> QED
  BY <1>3, <1>4 DEF AttemptEnds

LEMMA KnownErrors ==
  /\ {"other", "too many connections", "deadlock", "timeout", "reset",
      "connection exception"} \subseteq Errors
  /\ "none" \notin Errors
BY DEF Errors, NetErrors, PgErrors

\* Only a transaction at work on a row waits for another.
LEMMA WaitingWrites ==
  ASSUME NEW r \in Requests, DeadlockDetected(r)
  PROVE  pc[r] = "rows"
<1>1. Waits(<<r, 0>>)
  BY DEF DeadlockDetected
<1>2. WantedBy(<<r, 0>>) # {}
  BY <1>1 DEF Waits, WaitsFor
<1>3. Writing(r) # {}
  BY <1>2 DEF WantedBy
<1> QED
  BY <1>3 DEF Writing

LEMMA TypedInitial == Init => Typed
<1> SUFFICES ASSUME Init PROVE Typed
  OBVIOUS
<1>1. [kind |-> "index", names |-> Names, nils |-> {}, unknown |-> {}] \in Ops
  BY DEF Ops
<1>2. op \in [Requests -> Ops]
  BY <1>1 DEF Init
<1>3. late \in [Requests -> [Attempts -> Left]]
  BY NoTxnTyped DEF Init
<1>4. order \in [Requests -> Seq(Names)] /\ todo \in [Requests -> Seq(Names)]
  <2>1. <<>> \in Seq(Names)
    OBVIOUS
  <2> QED
    BY <2>1 DEF Init
<1>5. table \in [Names -> [Requests -> Nat]] /\ got \in [Requests -> [Names -> SUBSET Requests]]
  BY DEF Init
<1>6. pc \in [Requests -> Stages] /\ cause \in [Requests -> Causes]
  BY DEF Init, Stages, Causes
<1>7. \A r \in Requests : pc[r] # "delay"
  BY DEF Init
<1> QED
  BY <1>2, <1>3, <1>4, <1>5, <1>6, <1>7, FirstAttempt DEF Init, Typed

LEMMA TypedInductive == Typed /\ [Next]_vars => Typed'
<1> USE DEF Typed, Stages
<1>1. SUFFICES ASSUME Typed, [Next]_vars PROVE Typed'
  OBVIOUS
<1>2. ASSUME NEW r \in Requests, Arrive(r) PROVE Typed'
  <2>1. PICK o \in Ops :
          /\ op' = [op EXCEPT ![r] = o]
          /\ \/ pc' = [pc EXCEPT ![r] = "page"] /\ UNCHANGED order
             \/ /\ pc' = [pc EXCEPT ![r] = "begin"]
                /\ \E s \in Orders(o.names) : order' = [order EXCEPT ![r] = s]
    BY <1>2 DEF Arrive
  <2>2. order' \in [Requests -> Seq(Names)]
    <3>1. Orders(o.names) \subseteq Seq(Names)
      BY OpsNames, OrdersAreSequences
    <3> QED
      BY <1>1, <2>1, <3>1
  <2> QED
    BY <1>1, <1>2, <2>1, <2>2 DEF Arrive
<1>3. ASSUME NEW r \in Requests, Begin(r) PROVE Typed'
  BY <1>1, <1>3 DEF Begin
<1>4. ASSUME NEW r \in Requests, BeginFails(r) PROVE Typed'
  <2>1. PICK e \in Errors : AttemptEnds(r, e)
    BY <1>4, KnownErrors DEF BeginFails
  <2> QED
    BY <1>1, <1>4, <2>1, EndTyped DEF BeginFails
<1>5. ASSUME NEW r \in Requests, Statement(r) PROVE Typed'
  <2>1. Metric(r) \in Names /\ Tail(todo[r]) \in Seq(Names)
    BY <1>1, <1>5 DEF Statement, Metric
  <2>2. todo' \in [Requests -> Seq(Names)] /\ held' \in [Requests -> SUBSET Names]
    <3>1. todo' \in [Requests -> Seq(Names)]
      BY <1>1, <1>5, <2>1 DEF Statement
    <3>2. held' = held \/ held' = [held EXCEPT ![r] = @ \cup {Metric(r)}]
      BY <1>5 DEF Statement
    <3>3. held \in [Requests -> SUBSET Names]
      BY <1>1
    <3> QED
      BY <2>1, <3>1, <3>2, <3>3
  <2> QED
    BY <1>1, <1>5, <2>2 DEF Statement
<1>6. ASSUME NEW r \in Requests, UnknownType(r) PROVE Typed'
  BY <1>1, <1>6, EndTyped, KnownErrors DEF UnknownType
<1>7. ASSUME NEW r \in Requests, DeadlockDetected(r) PROVE Typed'
  BY <1>1, <1>7, EndTyped, KnownErrors DEF DeadlockDetected
<1>8. ASSUME NEW r \in Requests, Commit(r) PROVE Typed'
  <2>1. table' \in [Names -> [Requests -> Nat]]
    <3>1. ASSUME NEW n \in Names PROVE table'[n] \in [Requests -> Nat]
      BY <1>1, <1>8, <3>1 DEF Commit
    <3> QED
      BY <1>8, <3>1 DEF Commit
  <2> QED
    BY <1>1, <1>8, <2>1 DEF Commit
<1>9. ASSUME NEW r \in Requests, Committed(r) PROVE Typed'
  BY <1>1, <1>9, FirstAttempt DEF Committed, Returns, Answer, Cause, Causes
<1>10. ASSUME NEW r \in Requests, AttemptBreaks(r) PROVE Typed'
  <2>1. PICK e \in Errors : AttemptEnds(r, e)
    BY <1>10, KnownErrors DEF AttemptBreaks
  <2> QED
    BY <1>1, <1>10, <2>1, EndTyped, GivesUpTyped DEF AttemptBreaks
<1>11. ASSUME NEW r \in Requests, Delay(r) PROVE Typed'
  <2>1. attempt[r] + 1 \in Attempts
    BY <1>1, <1>11, DatabaseAssumption DEF Delay, Attempts
  <2> QED
    BY <1>1, <1>11, <2>1 DEF Delay
<1>12. ASSUME NEW r \in Requests, ContextExpires(r) PROVE Typed'
  <2>1. pc' \in [Requests -> Stages] /\ \A q \in Requests : pc'[q] = "delay" => q # r /\ pc[q] = "delay"
    BY <1>1, <1>12 DEF ContextExpires, Returns, Answer
  <2>2. attempt' = [attempt EXCEPT ![r] = 1] /\ cause' = [cause EXCEPT ![r] = "error"]
    BY <1>12 DEF ContextExpires, Returns, Cause
  <2>3. attempt' \in [Requests -> Attempts] /\ \A q \in Requests : pc'[q] = "delay" => attempt'[q] < MaxAttempts
    BY <1>1, <2>1, <2>2, FirstAttempt
  <2>4. todo' \in [Requests -> Seq(Names)] /\ held' \in [Requests -> SUBSET Names] /\ cause' \in [Requests -> Causes]
    <3>1. <<>> \in Seq(Names)
      OBVIOUS
    <3>2. todo' \in [Requests -> Seq(Names)] /\ held' \in [Requests -> SUBSET Names]
      BY <1>1, <1>12, <3>1 DEF ContextExpires
    <3> QED
      BY <1>1, <2>2, <3>2 DEF Causes
  <2> QED
    BY <1>1, <1>12, <2>1, <2>3, <2>4, GivesUpTyped DEF ContextExpires
<1>13. ASSUME NEW r \in Requests, ReadBack(r) PROVE Typed'
  <2>1. got' \in [Requests -> [Names -> SUBSET Requests]]
    <3>1. PICK n \in op[r].names : got' = [got EXCEPT ![r][n] = Seen(n)] \/ got' = got
      BY <1>13 DEF ReadBack
    <3>2. n \in Names /\ Seen(n) \subseteq Requests
      BY <1>1, OpsNames DEF Seen
    <3>3. [got[r] EXCEPT ![n] = Seen(n)] \in [Names -> SUBSET Requests]
      BY <1>1, <3>2
    <3>4. got' = [got EXCEPT ![r] = [got[r] EXCEPT ![n] = Seen(n)]] \/ got' = got
      BY <1>1, <3>1
    <3> QED
      BY <1>1, <3>3, <3>4
  <2> QED
    BY <1>1, <1>13, <2>1 DEF ReadBack
<1>14. ASSUME NEW r \in Requests, PageQuery(r) PROVE Typed'
  BY <1>1, <1>14 DEF PageQuery, Causes
<1>15. ASSUME NEW r \in Requests, PageRows(r) PROVE Typed'
  <2>1. got' \in [Requests -> [Names -> SUBSET Requests]]
    <3>1. PICK some \in SUBSET PageKind(pc[r]) :
            got' = [got EXCEPT ![r] = [n \in Names |-> IF n \in some THEN Seen(n) ELSE got[r][n]]]
      BY <1>15 DEF PageRows
    <3>2. [n \in Names |-> IF n \in some THEN Seen(n) ELSE got[r][n]] \in [Names -> SUBSET Requests]
      BY <1>1 DEF Seen
    <3> QED
      BY <1>1, <3>1, <3>2
  <2> QED
    <3>1. pc' \in [Requests -> Stages] /\ \A q \in Requests : pc'[q] = "delay" => pc[q] = "delay"
      BY <1>1, <1>15 DEF PageRows
    <3>2. cause' = cause \/ cause' = [cause EXCEPT ![r] = "error"]
      BY <1>15 DEF PageRows
    <3>3. "error" \in Causes /\ cause \in [Requests -> Causes]
      BY <1>1 DEF Causes
    <3>4. cause' \in [Requests -> Causes]
      BY <3>2, <3>3
    <3> QED
      BY <1>1, <1>15, <2>1, <3>1, <3>4 DEF PageRows
<1>16. CASE Signal \/ Drained \/ DrainTimeout
  BY <1>1, <1>16 DEF Signal, Drained, DrainTimeout, Main, callVars
<1>17. CASE CloseReturns \/ Kill
  <2>1. Gone
    BY <1>17 DEF CloseReturns, Kill
  <2>2. pc' \in [Requests -> Stages] /\ \A r \in Requests : pc'[r] = "delay" => pc[r] = "delay"
    BY <1>1, <2>1 DEF Gone
  <2>3. held' \in [Requests -> SUBSET Names] /\ todo' \in [Requests -> Seq(Names)]
    <3>1. <<>> \in Seq(Names)
      OBVIOUS
    <3> QED
      BY <2>1, <3>1 DEF Gone
  <2>4. late' \in [Requests -> [Attempts -> Left]]
    BY <1>1, <2>1, LeftTyped DEF Gone
  <2> QED
    BY <1>1, <2>1, <2>2, <2>3, <2>4 DEF Gone
<1>18. ASSUME NEW r \in Requests, NEW a \in Attempts, Late(r, a) PROVE Typed'
  <2>1. late' = [late EXCEPT ![r] = [late[r] EXCEPT ![a] = NoTxn]] /\ UNCHANGED <<main, callVars>>
    BY <1>1, <1>18 DEF Late, LateCommit, LateEnds
  <2>2. late' \in [Requests -> [Attempts -> Left]]
    BY <1>1, <2>1, NoTxnTyped
  <2>3. table' \in [Names -> [Requests -> Nat]] /\ lost' \in [Requests -> Nat]
    <3>1. CASE LateEnds(r, a)
      BY <1>1, <3>1 DEF LateEnds
    <3>2. CASE LateCommit(r, a)
      <4>1. lost' = [lost EXCEPT ![r] = lost[r] + 1] /\ lost \in [Requests -> Nat]
        BY <1>1, <3>2 DEF LateCommit
      <4>2. ASSUME NEW n \in Names PROVE table'[n] \in [Requests -> Nat]
        BY <1>1, <3>2, <4>2 DEF LateCommit
      <4> QED
        BY <3>2, <4>1, <4>2 DEF LateCommit
    <3> QED
      BY <1>18, <3>1, <3>2 DEF Late
  <2> QED
    BY <1>1, <2>1, <2>2, <2>3 DEF callVars
<1>19. CASE UNCHANGED vars
  BY <1>1, <1>19 DEF vars, callVars
<1> QED
  BY <1>1, <1>2, <1>3, <1>4, <1>5, <1>6, <1>7, <1>8, <1>9, <1>10, <1>11, <1>12, <1>13,
     <1>14, <1>15, <1>16, <1>17, <1>18, <1>19
     DEF Next, Storage, Terminated

LEMMA TypedHolds == Spec => []Typed
BY TypedInitial, TypedInductive, PTL DEF Spec

\* What PostgreSQL does with the attempts that r has given up.
LateStep(r) == \E a \in Attempts : Late(r, a)

\* A step of the handler of r, of its storage call or of what is left of it.
Handles(r) ==
  Arrive(r) \/ Storage(r) \/ ReadBack(r) \/ PageQuery(r) \/ PageRows(r) \/ LateStep(r)

\* Nothing of request q changes.
Same(q) ==
  /\ op'[q] = op[q] /\ pc'[q] = pc[q] /\ attempt'[q] = attempt[q] /\ order'[q] = order[q]
  /\ todo'[q] = todo[q] /\ held'[q] = held[q] /\ cause'[q] = cause[q]
  /\ got'[q] = got[q] /\ lost'[q] = lost[q] /\ late'[q] = late[q]
  /\ \A n \in Names : table'[n][q] = table[n][q]

\* Such a step changes the variables of its own request only.
LEMMA OthersStay ==
  ASSUME Typed, NEW r \in Requests, NEW q \in Requests, r # q, Handles(r)
  PROVE  Same(q)
<1> USE DEF Typed, Same
<1>1. CASE Arrive(r)
  BY <1>1 DEF Arrive
<1>2. CASE Begin(r) \/ Statement(r) \/ Delay(r)
  BY <1>2 DEF Begin, Statement, Delay
<1>3. ASSUME NEW e, AttemptEnds(r, e)
      PROVE  pc'[q] = pc[q] /\ attempt'[q] = attempt[q] /\ cause'[q] = cause[q]
             /\ held'[q] = held[q] /\ todo'[q] = todo[q]
  <2>1. CASE Returns(r, e)
    BY <1>3, <2>1 DEF AttemptEnds, Returns
  <2>2. CASE pc' = [pc EXCEPT ![r] = "delay"] /\ UNCHANGED <<attempt, cause>>
    BY <1>3, <2>2 DEF AttemptEnds
  <2> QED
    BY <1>3, <2>1, <2>2 DEF AttemptEnds
<1>4. CASE BeginFails(r) \/ UnknownType(r) \/ DeadlockDetected(r)
  BY <1>3, <1>4 DEF BeginFails, UnknownType, DeadlockDetected
<1>5. CASE AttemptBreaks(r)
  <2>1. PICK e \in Errors : AttemptEnds(r, e)
    BY <1>5, KnownErrors DEF AttemptBreaks
  <2> QED
    BY <1>3, <1>5, <2>1 DEF AttemptBreaks, GivesUp
<1>6. CASE Commit(r)
  BY <1>6 DEF Commit
<1>7. CASE Committed(r)
  BY <1>7 DEF Committed, Returns
<1>8. CASE ContextExpires(r)
  BY <1>8 DEF ContextExpires, Returns, GivesUp
<1>9. CASE ReadBack(r)
  BY <1>9 DEF ReadBack
<1>10. CASE PageQuery(r) \/ PageRows(r)
  BY <1>10 DEF PageQuery, PageRows
<1>11. CASE LateStep(r)
  <2>1. PICK a \in Attempts : Late(r, a)
    BY <1>11 DEF LateStep
  <2>2. UNCHANGED callVars /\ late'[q] = late[q] /\ lost'[q] = lost[q]
    BY <2>1 DEF Late, LateCommit, LateEnds
  <2>3. \A n \in Names : table'[n][q] = table[n][q]
    <3>1. CASE LateEnds(r, a)
      BY <3>1 DEF LateEnds
    <3>2. CASE LateCommit(r, a)
      BY <3>2 DEF LateCommit
    <3> QED
      BY <2>1, <3>1, <3>2 DEF Late
  <2> QED
    BY <2>2, <2>3 DEF callVars
<1> QED
  BY <1>1, <1>2, <1>4, <1>5, <1>6, <1>7, <1>8, <1>9, <1>10, <1>11 DEF Handles, Storage

\* What is left of an attempt ends, with a commit or without.
LEMMA LateStages ==
  ASSUME Typed, NEW r \in Requests, LateStep(r)
  PROVE  /\ UNCHANGED <<op, pc, attempt, order, todo, held, cause, got>>
         /\ \E a \in Attempts :
              /\ late[r][a] # NoTxn
              /\ \A b \in Attempts : late'[r][b] = IF b = a THEN NoTxn ELSE late[r][b]
              /\ \/ UNCHANGED <<table, lost>>
                 \/ /\ late[r][a].commits /\ lost'[r] = lost[r] + 1
                    /\ \A n \in Names :
                         table'[n][r] = IF n \in late[r][a].held \cup late[r][a].next
                                        THEN table[n][r] + 1 ELSE table[n][r]
<1>1. PICK a \in Attempts : Late(r, a)
  BY DEF LateStep
<1>2. late[r][a] # NoTxn
  <2>1. ~NoTxn.commits
    BY DEF NoTxn
  <2> QED
    BY <1>1, <2>1 DEF Late, LateCommit, LateEnds
<1>3. \A b \in Attempts : late'[r][b] = IF b = a THEN NoTxn ELSE late[r][b]
  BY <1>1 DEF Late, LateCommit, LateEnds, Typed
<1>4. UNCHANGED <<op, pc, attempt, order, todo, held, cause, got>>
  BY <1>1 DEF Late, LateCommit, LateEnds, callVars
<1>5. CASE LateEnds(r, a)
  BY <1>2, <1>3, <1>4, <1>5 DEF LateEnds
<1>6. CASE LateCommit(r, a)
  <2>1. late[r][a].commits /\ lost'[r] = lost[r] + 1
    BY <1>6 DEF LateCommit, Typed
  <2>2. \A n \in Names :
          table'[n][r] = IF n \in late[r][a].held \cup late[r][a].next
                         THEN table[n][r] + 1 ELSE table[n][r]
    BY <1>6 DEF LateCommit, Typed
  <2> QED
    BY <1>2, <1>3, <1>4, <2>1, <2>2
<1> QED
  BY <1>1, <1>5, <1>6 DEF Late

\* What main does leaves a request as it is, but that the end of the process
\* breaks it off and leaves its transaction to PostgreSQL.
Broken(q) ==
  /\ op'[q] = op[q] /\ attempt'[q] = attempt[q] /\ order'[q] = order[q]
  /\ cause'[q] = cause[q] /\ got'[q] = got[q] /\ lost'[q] = lost[q]
  /\ pc'[q] \in {pc[q], "broken"} /\ (Active(q) => pc'[q] = "broken")
  /\ held'[q] = {} /\ todo'[q] = <<>> /\ late'[q] = LeftBy(q)
  /\ \A n \in Names : table'[n][q] = table[n][q]

LEMMA MainStays ==
  ASSUME Typed, NEW q \in Requests,
         Signal \/ Drained \/ DrainTimeout \/ CloseReturns \/ Kill \/ UNCHANGED vars
  PROVE  Same(q) \/ Broken(q)
<1>1. CASE Signal \/ Drained \/ DrainTimeout
  BY <1>1 DEF Signal, Drained, DrainTimeout, Main, callVars, Same
<1>2. CASE CloseReturns \/ Kill
  BY <1>2 DEF CloseReturns, Kill, Gone, Broken, Typed
<1>3. CASE UNCHANGED vars
  BY <1>3 DEF vars, callVars, Same
<1> QED
  BY <1>1, <1>2, <1>3

LEMMA NextCases ==
  ASSUME [Next]_vars
  PROVE  \/ \E r \in Requests : Handles(r)
         \/ Signal \/ Drained \/ DrainTimeout \/ CloseReturns \/ Kill \/ UNCHANGED vars
BY DEF Next, Handles, LateStep, Terminated
----
(***************************************************************************)
(* How often a delta is applied                                            *)
(***************************************************************************)
\* Only a commit that the call does not know of yet can be one more than it
\* has lost answers.
Counted(r) ==
  /\ pc[r] = "unsent" =>
       /\ lost[r] = 0 /\ order[r] = <<>> /\ cause[r] = "none"
       /\ \A a \in Attempts : late[r][a] = NoTxn
       /\ \A n \in Names : table[n][r] = 0
  /\ \A n \in Names : /\ table[n][r] <= lost[r] + 1
                      /\ Calling(r) /\ pc[r] # "committed" => table[n][r] <= lost[r]

CountInv == \A r \in Requests : Counted(r)

\* A request none of whose variables changes stays counted.
LEMMA CountedStays ==
  ASSUME NEW q \in Requests, Counted(q), Typed, pc'[q] = pc[q] \/ pc'[q] = "broken",
         lost'[q] = lost[q], order'[q] = order[q],
         cause'[q] = cause[q], pc[q] = "unsent" => late'[q] = late[q],
         \A n \in Names : table'[n][q] = table[n][q]
  PROVE  Counted(q)'
BY DEF Counted, Calling

\* However an attempt ends, the answer of a commit is received or lost.
LEMMA CountedEnds ==
  ASSUME Typed, NEW r \in Requests, Counted(r),
         pc[r] \in {"begin", "rows", "committed"}, NEW e \in Errors, AttemptEnds(r, e), UNCHANGED <<table, order>>,
         lost'[r] = IF pc[r] = "committed" THEN lost[r] + 1 ELSE lost[r]
  PROVE  Counted(r)'
<1>1. lost[r] \in Nat /\ \A n \in Names : table[n][r] \in Nat
  BY DEF Typed
<1>2. pc'[r] \in {"delay", "ok", "failed", "get"}
  BY DEF AttemptEnds, Returns, Answer, Typed
<1> QED
  BY <1>1, <1>2 DEF Counted, Calling

LEMMA CountInitial == Init => CountInv
<1> SUFFICES ASSUME Init, NEW r \in Requests PROVE Counted(r)
  BY DEF CountInv
<1>1. /\ pc[r] = "unsent" /\ lost[r] = 0 /\ order[r] = <<>> /\ cause[r] = "none"
      /\ \A a \in Attempts : late[r][a] = NoTxn
      /\ \A n \in Names : table[n][r] = 0
  BY DEF Init
<1> QED
  BY <1>1 DEF Counted, Calling

LEMMA CountInductive == Typed /\ CountInv /\ [Next]_vars => CountInv'
<1>1. SUFFICES ASSUME Typed, CountInv, [Next]_vars, NEW q \in Requests PROVE Counted(q)'
  BY DEF CountInv
<1>2. Counted(q) /\ lost[q] \in Nat /\ \A n \in Names : table[n][q] \in Nat
  BY <1>1 DEF Typed, CountInv
\* A step of another request.
<1>3. ASSUME NEW r \in Requests, r # q, Handles(r) PROVE Counted(q)'
  BY <1>1, <1>2, <1>3, OthersStay, CountedStays DEF Same
<1>4. CASE Arrive(q)
  <2>1. pc[q] = "unsent" /\ pc'[q] \in {"page", "begin"} /\ UNCHANGED <<lost, cause, table>>
    BY <1>1, <1>4 DEF Arrive, Typed
  <2> QED
    BY <1>2, <2>1 DEF Counted, Calling
<1>5. CASE Begin(q) \/ Statement(q)
  <2>1. pc[q] \in {"begin", "rows"} /\ pc'[q] = "rows" /\ UNCHANGED <<lost, table>>
    BY <1>1, <1>5 DEF Begin, Statement, Typed
  <2> QED
    BY <1>2, <2>1 DEF Counted, Calling
<1>6. CASE BeginFails(q) \/ UnknownType(q) \/ DeadlockDetected(q)
  <2>1. PICK e \in Errors : AttemptEnds(q, e)
    BY <1>6, KnownErrors DEF BeginFails, UnknownType, DeadlockDetected
  <2>2. pc[q] \in {"begin", "rows"} /\ UNCHANGED <<lost, table, order>>
    BY <1>6, WaitingWrites DEF BeginFails, UnknownType, DeadlockDetected
  <2> QED
    BY <1>1, <1>2, <2>1, <2>2, CountedEnds
<1>7. CASE Commit(q)
  <2>1. pc[q] = "rows" /\ pc'[q] = "committed" /\ UNCHANGED lost
    BY <1>1, <1>7 DEF Commit, Typed
  <2>2. \A n \in Names : table'[n][q] \in {table[n][q], table[n][q] + 1}
    BY <1>1, <1>7 DEF Commit, Typed
  <2> QED
    BY <1>2, <2>1, <2>2 DEF Counted, Calling
<1>8. CASE Committed(q)
  <2>1. pc[q] = "committed" /\ pc'[q] \in {"ok", "failed", "get"} /\ UNCHANGED <<lost, table>>
    BY <1>1, <1>8 DEF Committed, Returns, Answer, Typed
  <2> QED
    BY <1>2, <2>1 DEF Counted, Calling
<1>9. CASE AttemptBreaks(q)
  <2>1. PICK e \in Errors : AttemptEnds(q, e)
    BY <1>9, KnownErrors DEF AttemptBreaks
  <2>2. /\ pc[q] \in {"begin", "rows", "committed"} /\ UNCHANGED <<table, order>>
        /\ lost'[q] = IF pc[q] = "committed" THEN lost[q] + 1 ELSE lost[q]
    BY <1>1, <1>9 DEF AttemptBreaks, GivesUp, Typed
  <2> QED
    BY <1>1, <1>2, <2>1, <2>2, CountedEnds
<1>10. CASE Delay(q)
  <2>1. pc[q] = "delay" /\ pc'[q] = "begin" /\ UNCHANGED <<lost, table>>
    BY <1>1, <1>10 DEF Delay, Typed
  <2> QED
    BY <1>2, <2>1 DEF Counted, Calling
<1>11. CASE ContextExpires(q)
  <2>1. /\ pc[q] \in {"begin", "rows", "committed", "delay"}
        /\ pc'[q] \in {"ok", "failed", "get"} /\ UNCHANGED table
        /\ lost'[q] = IF pc[q] = "committed" THEN lost[q] + 1 ELSE lost[q]
    BY <1>1, <1>11 DEF ContextExpires, GivesUp, Calling, Returns, Answer, Typed
  <2> QED
    BY <1>2, <2>1 DEF Counted, Calling
<1>12. CASE ReadBack(q) \/ PageQuery(q) \/ PageRows(q)
  <2>1. /\ pc[q] \notin {"unsent", "begin", "rows", "committed", "delay"}
        /\ pc'[q] \in {"ok", "failed", "gauges", "counters", "half"}
        /\ UNCHANGED <<lost, table>>
    BY <1>1, <1>12 DEF ReadBack, PageQuery, PageRows, Typed
  <2> QED
    BY <1>2, <2>1 DEF Counted, Calling
\* A late commit is one that nobody waits for the answer of.
<1>13. CASE LateStep(q)
  <2>1. /\ UNCHANGED <<pc, order, cause>>
        /\ \/ UNCHANGED <<table, lost>>
           \/ /\ lost'[q] = lost[q] + 1
              /\ \A n \in Names : table'[n][q] \in {table[n][q], table[n][q] + 1}
    BY <1>1, <1>13, LateStages
  <2>2. pc[q] # "unsent"
    BY <1>1, <1>2, <1>13, LateStages DEF Counted
  <2> QED
    BY <1>2, <2>1, <2>2 DEF Counted, Calling
<1>14. CASE Same(q) \/ Broken(q)
  BY <1>1, <1>2, <1>14, CountedStays DEF Same, Broken, LeftBy
<1> QED
  BY <1>1, <1>3, <1>4, <1>5, <1>6, <1>7, <1>8, <1>9, <1>10, <1>11, <1>12, <1>13, <1>14,
     NextCases, MainStays DEF Handles, Storage

LEMMA CountHolds == Spec => []CountInv
BY CountInitial, CountInductive, TypedHolds, PTL DEF Spec

\* Every variable keeps its type, and no call makes more than MaxAttempts
\* attempts.
THEOREM DatabaseTyping == Spec => []TypeOK
<1>1. Typed => TypeOK
  BY DEF Typed, TypeOK, Stages, Causes, Left
<1> QED
  BY <1>1, TypedHolds, PTL

\* For any requests, any number of attempts and any faults, a delta is applied
\* again only after the answer of a commit was lost.
THEOREM RepeatsNeedALostAnswer == Spec => []RepeatedOnlyAfterALostAnswer
<1>1. CountInv => RepeatedOnlyAfterALostAnswer
  BY DEF CountInv, Counted, RepeatedOnlyAfterALostAnswer
<1> QED
  BY <1>1, CountHolds, PTL
----
(***************************************************************************)
(* What a transaction has locked, and what it commits                      *)
(***************************************************************************)
In(n, s) == \E i \in DOMAIN s : s[i] = n

LEMMA TailKeeps ==
  ASSUME NEW s \in Seq(Names), s # <<>>
  PROVE  /\ Head(s) \in Names /\ In(Head(s), s)
         /\ \A n \in Names : In(n, Tail(s)) => In(n, s)
         /\ \A n \in Names : In(n, s) => n = Head(s) \/ In(n, Tail(s))
<1>1. Len(s) \in Nat /\ Len(s) > 0 /\ DOMAIN s = 1..Len(s) /\ DOMAIN Tail(s) = 1..(Len(s) - 1)
  OBVIOUS
<1>2. \A i \in 1..(Len(s) - 1) : Tail(s)[i] = s[i + 1]
  OBVIOUS
<1>3. Head(s) = s[1] /\ s[1] \in Names
  BY <1>1
<1>4. ASSUME NEW n \in Names, In(n, Tail(s)) PROVE In(n, s)
  BY <1>1, <1>2, <1>4 DEF In
<1>5. ASSUME NEW n \in Names, In(n, s), n # Head(s) PROVE In(n, Tail(s))
  <2>1. PICK i \in 1..Len(s) : s[i] = n
    BY <1>1, <1>5 DEF In
  <2>2. i # 1 /\ i - 1 \in 1..(Len(s) - 1)
    BY <1>1, <1>3, <1>5, <2>1
  <2>3. Tail(s)[i - 1] = n
    BY <1>1, <1>2, <2>1, <2>2
  <2> QED
    BY <1>1, <2>2, <2>3 DEF In
<1> QED
  BY <1>1, <1>3, <1>4, <1>5 DEF In

LEMMA OrdersHaveAll ==
  ASSUME NEW S \in SUBSET Names, NEW s \in Orders(S), NEW n \in Names
  PROVE  In(n, s) <=> n \in S
BY DEF Orders, In

\* Where a request can stand, by its handler.  The transaction of a call
\* writes the rows of its request alone, and has those it has not locked
\* still before it, as it has a metric of an unknown type.
Locked(r) ==
  /\ pc[r] \in {"unsent", "page", "gauges", "half", "counters"} => op[r].kind = "index"
  /\ Calling(r) \/ pc[r] \in {"get", "failed"} => op[r].kind # "index"
  /\ pc[r] = "get" => op[r].kind = "json"
  /\ held[r] \subseteq Rows(r)
  /\ pc[r] # "rows" => held[r] = {}
  /\ op[r].kind # "index" => \A n \in Names : In(n, order[r]) <=> n \in op[r].names
  /\ pc[r] = "rows" =>
       /\ \A n \in Names : In(n, todo[r]) => n \in op[r].names
       /\ \A n \in op[r].unknown : In(n, todo[r])
       /\ \A n \in Rows(r) : n \in held[r] \/ In(n, todo[r])

LockInv == \A r \in Requests : Locked(r)

LEMMA AnswerStages ==
  ASSUME NEW r \in Requests, NEW e \in Answers, Typed
  PROVE  /\ Answer(r, e) \in {"get", "failed", "ok"}
         /\ Answer(r, e) = "get" <=> op[r].kind = "json"
         /\ Answer(r, e) = "failed" <=> op[r].kind = "batch" /\ e # "none"
BY DEF Answer

\* An attempt that ends holds nothing.
LEMMA LockedEnds ==
  ASSUME NEW r \in Requests, Typed, Locked(r), Calling(r), op'[r] = op[r],
         order'[r] = order[r], held'[r] = {},
         pc'[r] = "delay" \/ \E e \in Answers : pc'[r] = Answer(r, e)
  PROVE  Locked(r)'
BY AnswerStages DEF Locked, Calling, Rows

LEMMA EndStages ==
  ASSUME NEW r \in Requests, NEW e \in Errors, Typed, AttemptEnds(r, e)
  PROVE  /\ held'[r] = {}
         /\ \/ pc'[r] = "delay" /\ UNCHANGED cause
            \/ pc'[r] = Answer(r, e) /\ cause'[r] = Cause(e)
         /\ pc'[r] = "delay" => attempt'[r] = attempt[r]
<1>1. CASE Returns(r, e)
  BY <1>1 DEF AttemptEnds, Returns, Answer, Typed
<1>2. CASE pc' = [pc EXCEPT ![r] = "delay"] /\ UNCHANGED <<attempt, cause>>
  BY <1>2 DEF AttemptEnds, Typed
<1> QED
  BY <1>1, <1>2 DEF AttemptEnds

\* The actions of an attempt that ends without a commit it knows of.
Fails(r) ==
  BeginFails(r) \/ UnknownType(r) \/ DeadlockDetected(r) \/ AttemptBreaks(r) \/ ContextExpires(r)

LEMMA FailStages ==
  ASSUME NEW r \in Requests, Typed, Fails(r)
  PROVE  /\ Calling(r) /\ UNCHANGED <<table, op, order, got>> /\ held'[r] = {}
         /\ lost'[r] = IF pc[r] = "committed" THEN lost[r] + 1 ELSE lost[r]
         /\ late' = late \/ late' = [late EXCEPT ![r] = LeftBy(r)]
         /\ \/ /\ pc[r] \in {"begin", "rows", "committed"} /\ pc'[r] = "delay"
               /\ attempt'[r] = attempt[r]
            \/ \E e \in Errors : pc'[r] = Answer(r, e) /\ cause'[r] = Cause(e)
<1>1. CASE BeginFails(r) \/ UnknownType(r) \/ DeadlockDetected(r)
  <2>1. PICK e \in Errors : AttemptEnds(r, e)
    BY <1>1, KnownErrors DEF BeginFails, UnknownType, DeadlockDetected
  <2>2. pc[r] \in {"begin", "rows"} /\ UNCHANGED <<table, op, order, got, lost, late>>
    BY <1>1, WaitingWrites DEF BeginFails, UnknownType, DeadlockDetected
  <2> QED
    BY <2>1, <2>2, EndStages DEF Calling
<1>2. CASE AttemptBreaks(r)
  <2>1. PICK e \in Errors : AttemptEnds(r, e)
    BY <1>2, KnownErrors DEF AttemptBreaks
  <2>2. /\ pc[r] \in {"begin", "rows", "committed"} /\ UNCHANGED <<table, op, order, got>>
        /\ lost'[r] = IF pc[r] = "committed" THEN lost[r] + 1 ELSE lost[r]
        /\ late' = [late EXCEPT ![r] = LeftBy(r)]
    BY <1>2 DEF AttemptBreaks, GivesUp, Typed
  <2> QED
    BY <2>1, <2>2, EndStages DEF Calling
<1>3. CASE ContextExpires(r)
  <2>1. /\ Calling(r) /\ UNCHANGED <<table, op, order, got>> /\ held'[r] = {}
        /\ lost'[r] = IF pc[r] = "committed" THEN lost[r] + 1 ELSE lost[r]
        /\ late' = [late EXCEPT ![r] = LeftBy(r)]
    BY <1>3 DEF ContextExpires, GivesUp, Typed
  <2>2. pc'[r] = Answer(r, "timeout") /\ cause'[r] = Cause("timeout")
    BY <1>3 DEF ContextExpires, Returns, Typed
  <2> QED
    BY <2>1, <2>2, KnownErrors
<1> QED
  BY <1>1, <1>2, <1>3 DEF Fails

LEMMA LockInitial == Init => LockInv
BY DEF Init, LockInv, Locked, Calling, Rows

LEMMA LockInductive == Typed /\ LockInv /\ [Next]_vars => LockInv'
<1>1. SUFFICES ASSUME Typed, LockInv, [Next]_vars, NEW q \in Requests PROVE Locked(q)'
  BY DEF LockInv
<1>2. /\ Locked(q) /\ op[q] \in Ops
      /\ op[q].names \subseteq Names /\ op[q].unknown \subseteq op[q].names
  BY <1>1, OpsNames DEF Typed, LockInv
<1>3. CASE Same(q)
  BY <1>2, <1>3 DEF Same, Locked, Calling, Rows
<1>4. CASE Broken(q)
  <2>1. Calling(q) => Active(q)
    BY DEF Calling, Active, Ended
  <2> QED
    BY <1>2, <1>4, <2>1 DEF Broken, Locked, Calling, Rows, Active, Ended
<1>5. CASE Arrive(q)
  <2>1. PICK o \in Ops :
          /\ op' = [op EXCEPT ![q] = o]
          /\ IF o.kind = "index" THEN pc' = [pc EXCEPT ![q] = "page"] /\ UNCHANGED order
             ELSE /\ pc' = [pc EXCEPT ![q] = "begin"]
                  /\ \E s \in Orders(o.names) : order' = [order EXCEPT ![q] = s]
    BY <1>5 DEF Arrive
  <2>2. op'[q] = o /\ held'[q] = {} /\ o.names \subseteq Names
    BY <1>1, <1>2, <1>5, <2>1, OpsNames DEF Arrive, Typed, Locked
  <2>3. CASE o.kind = "index"
    <3>1. pc'[q] = "page"
      BY <1>1, <2>1, <2>3 DEF Typed
    <3> QED
      BY <2>2, <2>3, <3>1 DEF Locked, Calling
  <2>4. CASE o.kind # "index"
    <3>1. PICK s \in Orders(o.names) : order' = [order EXCEPT ![q] = s]
      BY <2>1, <2>4
    <3>2. pc'[q] = "begin" /\ order'[q] = s
      BY <1>1, <2>1, <2>4, <3>1 DEF Typed
    <3>3. \A n \in Names : In(n, s) <=> n \in o.names
      BY <2>2, OrdersHaveAll
    <3> QED
      BY <2>2, <2>4, <3>2, <3>3 DEF Locked, Calling, Rows
  <2> QED
    BY <2>3, <2>4
<1>6. CASE Begin(q)
  <2>1. /\ pc[q] = "begin" /\ pc'[q] = "rows" /\ todo'[q] = order[q]
        /\ UNCHANGED <<op, order, held>>
    BY <1>1, <1>6 DEF Begin, Typed
  <2> QED
    BY <1>2, <2>1 DEF Locked, Calling, Rows
<1>7. CASE Statement(q)
  <2>1. todo[q] \in Seq(Names) /\ todo[q] # <<>> /\ pc[q] = "rows"
    BY <1>1, <1>7 DEF Statement, Typed
  <2>2. /\ todo'[q] = Tail(todo[q]) /\ UNCHANGED <<op, order, pc>>
        /\ Metric(q) \notin op[q].unknown
    BY <1>1, <1>7 DEF Statement, Typed
  <2>3. \/ Metric(q) \in op[q].nils /\ held'[q] = held[q]
        \/ Metric(q) \notin op[q].nils /\ held'[q] = held[q] \cup {Metric(q)}
    BY <1>1, <1>7 DEF Statement, Typed
  <2>4. /\ Metric(q) \in Names /\ In(Metric(q), todo[q])
        /\ \A n \in Names : In(n, Tail(todo[q])) => In(n, todo[q])
        /\ \A n \in Names : In(n, todo[q]) => n = Metric(q) \/ In(n, Tail(todo[q]))
    BY <2>1, TailKeeps DEF Metric
  <2>5. Metric(q) \in op[q].names
    BY <1>2, <2>1, <2>4 DEF Locked
  <2> QED
    BY <1>2, <2>1, <2>2, <2>3, <2>4, <2>5 DEF Locked, Calling, Rows
<1>8. CASE Fails(q)
  BY <1>1, <1>2, <1>8, FailStages, LockedEnds DEF Answers
<1>9. CASE Commit(q)
  <2>1. /\ pc[q] = "rows" /\ pc'[q] = "committed" /\ held'[q] = {} /\ UNCHANGED <<op, order>>
    BY <1>1, <1>9 DEF Commit, Typed
  <2> QED
    BY <1>2, <2>1 DEF Locked, Calling, Rows
<1>10. CASE Committed(q)
  <2>1. /\ pc[q] = "committed" /\ pc'[q] = Answer(q, "none") /\ UNCHANGED <<op, order, held>>
    BY <1>1, <1>10 DEF Committed, Returns, Typed
  <2> QED
    BY <1>1, <1>2, <2>1, LockedEnds DEF Answers, Calling, Locked
<1>11. CASE Delay(q)
  <2>1. pc[q] = "delay" /\ pc'[q] = "begin" /\ UNCHANGED <<op, order, held>>
    BY <1>1, <1>11 DEF Delay, Typed
  <2> QED
    BY <1>2, <2>1 DEF Locked, Calling, Rows
<1>12. CASE ReadBack(q) \/ PageQuery(q) \/ PageRows(q)
  <2>1. /\ UNCHANGED <<op, order, held>>
        /\ \/ pc[q] = "get" /\ pc'[q] \in {"ok", "failed"}
           \/ /\ pc[q] \in {"page", "gauges", "half", "counters"}
              /\ pc'[q] \in {"gauges", "half", "counters", "ok"}
    BY <1>1, <1>12 DEF ReadBack, PageQuery, PageRows, Typed
  <2> QED
    BY <1>2, <2>1 DEF Locked, Calling, Rows
<1>13. CASE LateStep(q)
  <2>1. UNCHANGED <<op, pc, order, todo, held>>
    BY <1>1, <1>13, LateStages
  <2> QED
    BY <1>2, <2>1 DEF Locked, Calling, Rows
<1> QED
  BY <1>1, <1>3, <1>4, <1>5, <1>6, <1>7, <1>8, <1>9, <1>10, <1>11, <1>12, <1>13,
     NextCases, MainStays, OthersStay DEF Handles, Storage, Fails

LEMMA LockHolds == Spec => []LockInv
BY LockInitial, LockInductive, TypedHolds, PTL DEF Spec

\* An attempt that r has given up: what it may still write are rows of r, all
\* of them if it comes to its commit.  It is not the attempt r is making.
Abandoned(r, a) ==
  LET t == late[r][a]
  IN  /\ pc[r] # "unsent" /\ op[r].kind # "index"
      /\ t.held \cup t.next \subseteq Rows(r)
      /\ t.commits => t.held \cup t.next = Rows(r) /\ op[r].unknown = {}
      /\ Calling(r) => a < attempt[r] \/ (a = attempt[r] /\ pc[r] = "delay")

LateInv == \A r \in Requests : \A a \in Attempts : late[r][a] # NoTxn => Abandoned(r, a)

LEMMA LateInitial == Init => LateInv
BY DEF Init, LateInv

\* A call that has sent everything, or whose only statement is under way,
\* commits all of its rows.
LEMMA CommitIsWhole ==
  ASSUME Typed, NEW r \in Requests, Locked(r), pc[r] = "rows", Commits(r)
  PROVE  held[r] \cup Writing(r) = Rows(r) /\ op[r].unknown = {}
<1>1. /\ op[r] \in Ops /\ op[r].kind # "index" /\ op[r].names \subseteq Names
      /\ op[r].unknown \subseteq op[r].names /\ todo[r] \in Seq(Names)
      /\ held[r] \subseteq Rows(r)
  BY OpsNames DEF Typed, Locked, Calling
<1>2. CASE todo[r] = <<>>
  <2>1. \A n \in Names : ~In(n, todo[r])
    BY <1>2 DEF In
  <2> QED
    BY <1>1, <1>2, <2>1 DEF Locked, Rows, Writing
<1>3. CASE todo[r] # <<>>
  <2>1. op[r].kind # "batch"
    BY <1>3 DEF Commits
  <2>2. /\ op[r].nils = {} /\ op[r].unknown = {}
        /\ \E n \in Names : op[r].names = {n}
    BY <1>1, <2>1, OpsNames
  <2>3. PICK n \in Names : op[r].names = {n}
    BY <2>2
  <2>4. Metric(r) = n
    <3>1. Metric(r) \in Names /\ In(Metric(r), todo[r])
      BY <1>1, <1>3, TailKeeps DEF Metric
    <3> QED
      BY <2>3, <3>1 DEF Locked
  <2>5. Writing(r) = {n} /\ Rows(r) = {n}
    BY <1>3, <2>2, <2>3, <2>4 DEF Writing, Rows
  <2> QED
    BY <1>1, <2>2, <2>5
<1> QED
  BY <1>2, <1>3

LEMMA LeftIsAbandoned ==
  ASSUME Typed, NEW r \in Requests, Locked(r), NEW a \in Attempts,
         LeftBy(r)[a] # late[r][a]
  PROVE  /\ pc[r] = "rows" /\ a = attempt[r] /\ op[r].kind # "index"
         /\ LeftBy(r)[a] = [held |-> held[r], next |-> Writing(r), commits |-> Commits(r)]
         /\ held[r] \cup Writing(r) \subseteq Rows(r)
         /\ Commits(r) => held[r] \cup Writing(r) = Rows(r) /\ op[r].unknown = {}
<1>1. pc[r] = "rows" /\ a = attempt[r]
      /\ LeftBy(r)[a] = [held |-> held[r], next |-> Writing(r), commits |-> Commits(r)]
  BY DEF LeftBy, Typed
<1>2. held[r] \subseteq Rows(r) /\ op[r].kind # "index"
  BY <1>1 DEF Locked, Calling
<1>3. Writing(r) \subseteq Rows(r)
  <2>1. SUFFICES ASSUME Writing(r) # {} PROVE Writing(r) \subseteq Rows(r)
    OBVIOUS
  <2>2. todo[r] # <<>> /\ todo[r] \in Seq(Names) /\ Writing(r) = {Metric(r)}
        /\ Metric(r) \notin op[r].nils
    BY <2>1 DEF Writing, Typed
  <2>3. Metric(r) \in Names /\ In(Metric(r), todo[r])
    BY <2>2, TailKeeps DEF Metric
  <2> QED
    BY <1>1, <2>2, <2>3 DEF Locked, Rows
<1> QED
  BY <1>1, <1>2, <1>3, CommitIsWhole

LEMMA LateInductive == Typed /\ LockInv /\ LateInv /\ [Next]_vars => LateInv'
<1>1. SUFFICES ASSUME Typed, LockInv, LateInv, [Next]_vars,
                      NEW q \in Requests, NEW a \in Attempts, late'[q][a] # NoTxn
               PROVE  Abandoned(q, a)'
  BY DEF LateInv
<1>2. Locked(q) /\ attempt[q] \in Nat /\ (late[q][a] # NoTxn => Abandoned(q, a))
  BY <1>1 DEF LockInv, LateInv, Typed, Attempts
\* What was left before.
<1>3. ASSUME late[q][a] = late'[q][a], op'[q] = op[q], pc'[q] # "unsent" \/ pc'[q] = pc[q],
             Calling(q)' => /\ Calling(q)
                            /\ \/ attempt'[q] = attempt[q] /\ (pc[q] = "delay" => pc'[q] = "delay")
                               \/ attempt'[q] = attempt[q] + 1
      PROVE  Abandoned(q, a)'
  <2>1. a \in Nat /\ late[q][a] # NoTxn
    BY <1>1, <1>3 DEF Attempts
  <2>2. Abandoned(q, a)
    BY <1>2, <2>1
  <2>3. Calling(q)' => a < attempt'[q] \/ (a = attempt'[q] /\ pc'[q] = "delay")
    BY <1>2, <1>3, <2>1, <2>2 DEF Abandoned
  <2>4. pc'[q] # "unsent" /\ Rows(q)' = Rows(q)
    BY <1>3, <2>2 DEF Abandoned, Rows
  <2> QED
    BY <1>3, <2>2, <2>3, <2>4 DEF Abandoned
<1>4. CASE Same(q)
  <2>1. Calling(q)' => Calling(q)
    BY <1>4 DEF Same, Calling
  <2> QED
    BY <1>3, <1>4, <2>1 DEF Same
\* What is left now.
<1>5. ASSUME late'[q] = LeftBy(q), op'[q] = op[q], pc'[q] # "unsent" \/ pc'[q] = pc[q],
             Calling(q)' => pc'[q] = "delay" /\ attempt'[q] = attempt[q] /\ Calling(q) /\ pc[q] # "delay"
      PROVE  Abandoned(q, a)'
  <2>1. CASE LeftBy(q)[a] = late[q][a]
    BY <1>3, <1>5, <2>1
  <2>2. CASE LeftBy(q)[a] # late[q][a]
    <3>1. /\ pc[q] = "rows" /\ a = attempt[q] /\ op[q].kind # "index"
          /\ late'[q][a] = [held |-> held[q], next |-> Writing(q), commits |-> Commits(q)]
          /\ held[q] \cup Writing(q) \subseteq Rows(q)
          /\ Commits(q) => held[q] \cup Writing(q) = Rows(q) /\ op[q].unknown = {}
      BY <1>1, <1>2, <1>5, <2>2, LeftIsAbandoned
    <3>2. Rows(q)' = Rows(q) /\ pc'[q] # "unsent"
      BY <1>5, <3>1 DEF Rows
    <3> QED
      BY <1>5, <3>1, <3>2 DEF Abandoned
  <2> QED
    BY <2>1, <2>2
<1>6. CASE Broken(q)
  <2>1. late'[q] = LeftBy(q) /\ op'[q] = op[q] /\ ~Calling(q)' /\ (pc'[q] # "unsent" \/ pc'[q] = pc[q])
    BY <1>6 DEF Broken, Active, Ended, Calling
  <2> QED
    BY <1>5, <2>1
<1>7. CASE Arrive(q)
  <2>1. pc[q] = "unsent" /\ late'[q][a] = late[q][a]
    BY <1>7 DEF Arrive
  <2> QED
    BY <1>1, <1>2, <2>1 DEF Abandoned
<1>8. CASE Begin(q) \/ Statement(q) \/ Commit(q) \/ Delay(q)
  <2>1. /\ UNCHANGED <<late, op>> /\ Calling(q) /\ pc'[q] # "unsent"
        /\ \/ attempt'[q] = attempt[q] /\ pc[q] # "delay"
           \/ attempt'[q] = attempt[q] + 1
    BY <1>1, <1>8 DEF Begin, Statement, Commit, Delay, Calling, Typed
  <2> QED
    BY <1>3, <2>1
<1>9. CASE Committed(q) \/ ReadBack(q) \/ PageQuery(q) \/ PageRows(q)
  <2>1. UNCHANGED <<late, op>> /\ ~Calling(q)' /\ pc'[q] # "unsent"
    BY <1>1, <1>9 DEF Committed, Returns, Answer, ReadBack, PageQuery, PageRows, Calling, Typed
  <2> QED
    BY <1>3, <2>1
<1>10. CASE Fails(q)
  <2>1. /\ Calling(q) /\ op'[q] = op[q] /\ pc'[q] # "unsent"
        /\ Calling(q)' => pc'[q] = "delay" /\ attempt'[q] = attempt[q] /\ pc[q] # "delay"
    <3>1. \A e \in Errors : Answer(q, e) \in {"get", "failed", "ok"}
      BY DEF Answer
    <3> QED
      BY <1>1, <1>10, <3>1, FailStages DEF Calling
  <2>2. late'[q] = late[q] \/ late'[q] = LeftBy(q)
    BY <1>1, <1>10, FailStages DEF Typed
  <2> QED
    BY <1>3, <1>5, <2>1, <2>2
<1>11. CASE LateStep(q)
  <2>1. UNCHANGED <<op, pc, attempt>> /\ (late'[q][a] = late[q][a] \/ late'[q][a] = NoTxn)
    BY <1>1, <1>11, LateStages
  <2>2. Calling(q)' = Calling(q)
    BY <2>1 DEF Calling
  <2> QED
    BY <1>1, <1>3, <2>1, <2>2
<1> QED
  BY <1>1, <1>4, <1>6, <1>7, <1>8, <1>9, <1>10, <1>11,
     NextCases, MainStays, OthersStay DEF Handles, Storage, Fails

LEMMA LateHolds == Spec => []LateInv
BY LateInitial, LateInductive, TypedHolds, LockHolds, PTL DEF Spec

\* What has been committed of a request, and what its answer says of it.
Applied(r) ==
  /\ \A n \in Names \ Rows(r) : table[n][r] = 0
  /\ \A m, n \in Rows(r) : table[m][r] = table[n][r]
  /\ op[r].kind = "index" => \A n \in Names : table[n][r] = 0
  /\ pc[r] = "committed" => \A n \in Rows(r) : table[n][r] > 0
  /\ /\ pc[r] \in {"ok", "get"} /\ op[r].kind # "index"
     /\ cause[r] = "none" \/ op[r].kind = "batch"
     => \A n \in Rows(r) : table[n][r] > 0
  /\ pc[r] = "failed" /\ op[r].kind = "batch" /\ lost[r] = 0 =>
       \A n \in Names : table[n][r] = 0
  /\ pc[r] = "ok" /\ op[r].kind = "json" /\ cause[r] = "none" =>
       \A n \in op[r].names : r \in got[r][n]

AppliedInv == \A r \in Requests : Applied(r)

LEMMA AppliedInitial == Init => AppliedInv
BY DEF Init, AppliedInv, Applied, Rows

\* A handler that waits or goes on leaves what is committed.
LEMMA AppliedStays ==
  ASSUME NEW q \in Requests, Applied(q), op'[q] = op[q], op[q].names \subseteq Names,
         pc'[q] \in {"begin", "rows", "delay", "broken", "page", "gauges", "half", "counters"},
         \A n \in Names : table'[n][q] = table[n][q]
  PROVE  Applied(q)'
BY DEF Applied, Rows

LEMMA AppliedInductive ==
  Typed /\ CountInv /\ LockInv /\ LateInv /\ AppliedInv /\ [Next]_vars => AppliedInv'
<1>1. SUFFICES ASSUME Typed, CountInv, LockInv, LateInv, AppliedInv, [Next]_vars, NEW q \in Requests
               PROVE  Applied(q)'
  BY DEF AppliedInv
<1>2. /\ Applied(q) /\ Locked(q) /\ Counted(q) /\ op[q].names \subseteq Names
      /\ lost[q] \in Nat /\ \A n \in Names : table[n][q] \in Nat
  BY <1>1, OpsNames DEF Typed, AppliedInv, LockInv, CountInv
<1>3. CASE Same(q)
  BY <1>2, <1>3 DEF Same, Applied, Rows
<1>4. CASE Broken(q)
  <2>1. CASE pc'[q] = "broken"
    BY <1>2, <1>4, <2>1, AppliedStays DEF Broken
  <2>2. CASE pc'[q] = pc[q]
    BY <1>2, <1>4, <2>2 DEF Broken, Applied, Rows
  <2> QED
    BY <1>4, <2>1, <2>2 DEF Broken
<1>5. CASE Arrive(q)
  <2>1. /\ UNCHANGED table /\ pc'[q] \in {"page", "begin"} /\ \A n \in Names : table[n][q] = 0
    BY <1>1, <1>2, <1>5 DEF Arrive, Counted, Typed
  <2>2. Rows(q)' \subseteq Names
    BY <1>1, <1>5, OpsNames DEF Arrive, Typed, Rows
  <2> QED
    BY <2>1, <2>2 DEF Applied
<1>6. CASE Begin(q) \/ Statement(q) \/ Delay(q)
  <2>1. pc'[q] \in {"rows", "begin"} /\ UNCHANGED <<table, op>>
    BY <1>1, <1>6 DEF Begin, Statement, Delay, Typed
  <2> QED
    BY <1>2, <2>1, AppliedStays
<1>7. CASE Fails(q)
  <2>1. /\ UNCHANGED <<table, op, got>> /\ Calling(q) /\ op[q].kind # "index"
        /\ lost'[q] = IF pc[q] = "committed" THEN lost[q] + 1 ELSE lost[q]
    BY <1>1, <1>2, <1>7, FailStages DEF Locked
  <2>2. CASE pc'[q] = "delay"
    BY <1>2, <2>1, <2>2, AppliedStays
  <2>3. ASSUME NEW e \in Errors, pc'[q] = Answer(q, e), cause'[q] = Cause(e) PROVE Applied(q)'
    <3>1. cause'[q] # "none" /\ (op[q].kind = "batch" => pc'[q] = "failed")
      BY <2>3, KnownErrors DEF Answer, Cause
    <3>2. lost'[q] = 0 => \A n \in Names : table[n][q] = 0
      BY <1>2, <2>1 DEF Counted
    <3>3. pc'[q] \in {"get", "failed", "ok"}
      BY <2>3 DEF Answer
    <3> QED
      BY <1>2, <2>1, <3>1, <3>2, <3>3 DEF Applied, Rows
  <2> QED
    BY <1>1, <1>7, <2>2, <2>3, FailStages
<1>8. CASE Commit(q)
  <2>1. /\ pc[q] = "rows" /\ todo[q] = <<>> /\ pc'[q] = "committed" /\ UNCHANGED op
    BY <1>1, <1>8 DEF Commit, Typed
  <2>2. held[q] = Rows(q)
    <3>1. \A n \in Names : ~In(n, todo[q])
      BY <2>1 DEF In
    <3> QED
      BY <1>2, <2>1, <3>1 DEF Locked, Rows
  <2>3. \A n \in Names : table'[n][q] = IF n \in Rows(q) THEN table[n][q] + 1 ELSE table[n][q]
    BY <1>1, <1>8, <2>2 DEF Commit, Typed
  <2>4. op[q].kind # "index" /\ Rows(q) \subseteq Names
    BY <1>2, <2>1 DEF Locked, Calling, Rows
  <2> QED
    BY <1>2, <2>1, <2>3, <2>4 DEF Applied, Rows
<1>9. CASE Committed(q)
  <2>1. /\ pc[q] = "committed" /\ pc'[q] = Answer(q, "none") /\ UNCHANGED <<op, table>>
    BY <1>1, <1>9 DEF Committed, Returns, Typed
  <2>2. op[q].kind # "index" /\ pc'[q] \in {"get", "ok"} /\ (op[q].kind = "json" => pc'[q] = "get")
    BY <1>2, <2>1 DEF Locked, Calling, Answer
  <2> QED
    BY <1>2, <2>1, <2>2 DEF Applied, Rows
<1>10. CASE ReadBack(q)
  <2>1. /\ pc[q] = "get" /\ op[q].kind = "json" /\ pc'[q] \in {"ok", "failed"}
        /\ UNCHANGED <<op, table, cause>>
    BY <1>1, <1>2, <1>10 DEF ReadBack, Typed, Locked
  <2>2. op[q] \in [kind : {"json"}, names : {{c} : c \in Counters}, nils : {{}}, unknown : {{}}]
    BY <1>1, <2>1 DEF Ops, Typed
  <2>3. PICK c \in Counters : op[q].names = {c} /\ op[q].nils = {}
    BY <2>2
  <2>4. CASE pc'[q] = "failed"
    BY <1>2, <2>1, <2>4 DEF Applied, Rows
  <2>5. CASE pc'[q] = "ok"
    <3>1. got' = [got EXCEPT ![q][c] = Seen(c)]
      BY <1>1, <1>10, <2>3, <2>5 DEF ReadBack, Typed
    <3>2. got'[q][c] = Seen(c)
      BY <1>1, <2>3, <3>1 DEF Typed, Names
    <3>3. cause[q] = "none" => q \in got'[q][c]
      BY <1>2, <2>1, <2>3, <3>2 DEF Applied, Rows, Seen
    <3> QED
      BY <1>2, <2>1, <2>3, <2>5, <3>3 DEF Applied, Rows
  <2> QED
    BY <2>1, <2>4, <2>5
<1>11. CASE PageQuery(q) \/ PageRows(q)
  <2>1. /\ op[q].kind = "index" /\ UNCHANGED <<op, table>>
        /\ pc'[q] \in {"gauges", "half", "counters", "ok"}
    BY <1>1, <1>2, <1>11 DEF PageQuery, PageRows, Typed, Locked
  <2> QED
    BY <1>2, <2>1 DEF Applied, Rows
\* A late commit is whole too, and then its answer was lost.
<1>12. CASE LateStep(q)
  <2>1. PICK a \in Attempts :
          /\ late[q][a] # NoTxn
          /\ \/ UNCHANGED <<table, lost>>
             \/ /\ late[q][a].commits /\ lost'[q] = lost[q] + 1
                /\ \A n \in Names :
                     table'[n][q] = IF n \in late[q][a].held \cup late[q][a].next
                                    THEN table[n][q] + 1 ELSE table[n][q]
    BY <1>1, <1>12, LateStages
  <2>2. UNCHANGED <<op, pc, cause, got>>
    BY <1>1, <1>12, LateStages
  <2>3. CASE UNCHANGED <<table, lost>>
    BY <1>2, <2>2, <2>3 DEF Applied, Rows
  <2>4. CASE lost'[q] = lost[q] + 1 /\ late[q][a].commits
    <3>1. op[q].kind # "index" /\ late[q][a].held \cup late[q][a].next = Rows(q)
      BY <1>1, <2>1, <2>4 DEF LateInv, Abandoned
    <3>2. \A n \in Names : table'[n][q] = IF n \in Rows(q) THEN table[n][q] + 1 ELSE table[n][q]
      BY <1>2, <2>1, <2>4, <3>1
    <3>3. Rows(q) \subseteq Names /\ Rows(q)' = Rows(q) /\ lost'[q] # 0
      BY <1>2, <2>2, <2>4 DEF Rows
    <3> QED
      BY <1>2, <2>2, <3>1, <3>2, <3>3 DEF Applied
  <2> QED
    BY <2>1, <2>3, <2>4
<1> QED
  BY <1>1, <1>3, <1>4, <1>5, <1>6, <1>7, <1>8, <1>9, <1>10, <1>11, <1>12,
     NextCases, MainStays, OthersStay DEF Handles, Storage, Fails

LEMMA AppliedHolds == Spec => []AppliedInv
BY AppliedInitial, AppliedInductive, TypedHolds, CountHolds, LockHolds, LateHolds, PTL DEF Spec

\* The rows of a batch are committed together, whatever breaks, waits, is
\* retried or killed.
THEOREM BatchesAreAtomic == Spec => []BatchIsAtomic
<1>1. AppliedInv => BatchIsAtomic
  BY DEF AppliedInv, Applied, BatchIsAtomic
<1> QED
  BY <1>1, AppliedHolds, PTL

\* The status of a batch says whether it is in the table.
THEOREM BatchAnswersAreTrue == Spec => []BatchAnswersTellTheTruth
<1>1. AppliedInv => BatchAnswersTellTheTruth
  BY DEF AppliedInv, Applied, BatchAnswersTellTheTruth
<1> QED
  BY <1>1, AppliedHolds, PTL

\* A single update answered 200 is in the table and in the value of its
\* answer, unless its storage call ended in an error.
THEOREM UpdatesAreLostToErrorsOnly == Spec => []OnlyErrorsAreSwallowed
<1>1. ASSUME Typed, AppliedInv PROVE OnlyErrorsAreSwallowed
  <2>1. \A r \in Requests : op[r].kind \in {"update", "json"} => op[r].nils = {}
    BY <1>1 DEF Typed, Ops
  <2> QED
    BY <1>1, <2>1 DEF AppliedInv, Applied, OnlyErrorsAreSwallowed, Rows
<1> QED
  BY <1>1, AppliedHolds, TypedHolds, PTL
----
(***************************************************************************)
(* What the pages show                                                     *)
(***************************************************************************)
\* Only what is committed is read.
Witnessed(p) == \A n \in Names : \A r \in got[p][n] : table[n][r] > 0

\* The page p shows the counters of a batch whose gauge it shows.
Whole(p) ==
  \A r \in Requests :
    /\ op[p].kind = "index" /\ pc[p] = "ok" /\ cause[p] = "none"
    /\ op[r].kind = "batch"
    /\ \E g \in Gauges : r \in got[p][g]
    => \A c \in Rows(r) \cap Counters : r \in got[p][c]

PageInv == \A p \in Requests : Witnessed(p) /\ Whole(p)

\* What is committed stays, and the request it is of keeps its metrics.
LEMMA TableGrows ==
  ASSUME Typed, CountInv, [Next]_vars, NEW r \in Requests, NEW n \in Names, table[n][r] > 0
  PROVE  table'[n][r] > 0 /\ op'[r] = op[r]
<1>1. table[n][r] \in Nat /\ Counted(r)
  BY DEF Typed, CountInv
<1>2. CASE Same(r) \/ Broken(r)
  BY <1>2 DEF Same, Broken
<1>3. CASE Arrive(r)
  BY <1>1, <1>3 DEF Arrive, Counted
<1>4. CASE Commit(r)
  BY <1>1, <1>4 DEF Commit, Typed
<1>5. CASE Fails(r)
  BY <1>5, FailStages
<1>6. CASE Begin(r) \/ Statement(r) \/ Committed(r) \/ Delay(r)
  BY <1>6 DEF Begin, Statement, Committed, Delay
<1>7. CASE ReadBack(r) \/ PageQuery(r) \/ PageRows(r)
  BY <1>7 DEF ReadBack, PageQuery, PageRows
<1>8. CASE LateStep(r)
  BY <1>1, <1>8, LateStages
<1> QED
  BY <1>2, <1>3, <1>4, <1>5, <1>6, <1>7, <1>8, NextCases, MainStays, OthersStay
     DEF Handles, Storage, Fails

\* A page that shows what it showed before is as whole as it was.
LEMMA WholeStays ==
  ASSUME Typed, CountInv, [Next]_vars, NEW p \in Requests, Witnessed(p), Whole(p),
         op'[p] = op[p], got'[p] = got[p], pc'[p] = pc[p] \/ pc'[p] = "broken", cause'[p] = cause[p]
  PROVE  Witnessed(p)' /\ Whole(p)'
<1>1. \A n \in Names : got[p][n] \subseteq Requests
  BY DEF Typed
<1>2. Witnessed(p)'
  BY <1>1, TableGrows DEF Witnessed
<1>3. ASSUME NEW r \in Requests, NEW g \in Gauges, r \in got[p][g] PROVE op'[r] = op[r]
  BY <1>3, TableGrows DEF Witnessed, Names
<1> QED
  BY <1>2, <1>3 DEF Whole, Rows

LEMMA PageInitial == Init => PageInv
BY DEF Init, PageInv, Witnessed, Whole, Names

LEMMA PageInductive ==
  Typed /\ CountInv /\ LockInv /\ AppliedInv /\ PageInv /\ [Next]_vars => PageInv'
<1>1. SUFFICES ASSUME Typed, CountInv, LockInv, AppliedInv, PageInv, [Next]_vars, NEW p \in Requests
               PROVE  (Witnessed(p) /\ Whole(p))'
  BY DEF PageInv
<1>2. Witnessed(p) /\ Whole(p) /\ Locked(p) /\ Counted(p)
  BY <1>1 DEF PageInv, LockInv, CountInv
<1>3. CASE Same(p) \/ Broken(p) \/ LateStep(p)
  BY <1>1, <1>2, <1>3, WholeStays, LateStages DEF Same, Broken
\* A step that reads nothing, and does not end a page.
<1>4. ASSUME got' = got, pc'[p] # "ok" \/ op'[p].kind # "index" \/ cause'[p] # "none"
      PROVE  (Witnessed(p) /\ Whole(p))'
  <2>1. Witnessed(p)'
    <3>1. \A n \in Names : got[p][n] \subseteq Requests
      BY <1>1 DEF Typed
    <3> QED
      BY <1>1, <1>2, <1>4, <3>1, TableGrows DEF Witnessed
  <2> QED
    BY <1>4, <2>1 DEF Whole
<1>5. CASE Arrive(p) \/ Begin(p) \/ Statement(p) \/ Delay(p) \/ Commit(p)
  <2>1. got' = got /\ pc'[p] # "ok"
    BY <1>1, <1>5 DEF Arrive, Begin, Statement, Delay, Commit, Typed
  <2> QED
    BY <1>4, <2>1
<1>6. CASE Fails(p)
  <2>1. got' = got /\ op'[p].kind # "index"
    BY <1>1, <1>2, <1>6, FailStages DEF Locked
  <2> QED
    BY <1>4, <2>1
<1>7. CASE Committed(p)
  <2>1. got' = got /\ op'[p].kind # "index"
    BY <1>2, <1>7 DEF Committed, Locked, Calling
  <2> QED
    BY <1>4, <2>1
<1>8. CASE PageQuery(p)
  <2>1. got' = got /\ (pc'[p] # "ok" \/ cause'[p] # "none")
    BY <1>1, <1>8 DEF PageQuery, Typed
  <2> QED
    BY <1>4, <2>1
<1>9. CASE ReadBack(p)
  <2>1. table' = table /\ op' = op /\ op[p].kind # "index"
    BY <1>2, <1>9 DEF ReadBack, Locked
  <2>2. \A n \in Names : got'[p][n] \in {got[p][n], Seen(n)}
    BY <1>1, <1>9 DEF ReadBack, Typed
  <2> QED
    BY <1>2, <2>1, <2>2 DEF Witnessed, Whole, Seen
<1>10. CASE PageRows(p)
  <2>1. PICK some \in SUBSET PageKind(pc[p]) :
          /\ got' = [got EXCEPT ![p] = [n \in Names |-> IF n \in some THEN Seen(n) ELSE got[p][n]]]
          /\ \/ some = PageKind(pc[p]) /\ UNCHANGED cause
             \/ cause' = [cause EXCEPT ![p] = "error"]
    BY <1>10 DEF PageRows
  <2>2. /\ pc[p] \in {"gauges", "counters"} /\ table' = table /\ op' = op
        /\ pc'[p] = IF pc[p] = "gauges" THEN "half" ELSE "ok"
    BY <1>1, <1>10 DEF PageRows, Typed
  <2>3. \A n \in Names : got'[p][n] = IF n \in some THEN Seen(n) ELSE got[p][n]
    BY <1>1, <2>1 DEF Typed
  <2>4. Witnessed(p)'
    BY <1>2, <2>2, <2>3 DEF Witnessed, Seen
  <2>5. ASSUME NEW r \in Requests, pc'[p] = "ok", cause'[p] = "none",
               NEW g \in Gauges, r \in got'[p][g], NEW c \in Rows(r) \cap Counters
        PROVE  r \in got'[p][c]
    <3>1. some = Counters
      BY <1>1, <2>1, <2>2, <2>5 DEF PageKind, Typed
    <3>2. table[g][r] > 0 /\ g \in Names /\ c \in Names
      BY <2>2, <2>4, <2>5 DEF Witnessed, Names
    <3>3. g \in Rows(r)
      BY <1>1, <3>2 DEF AppliedInv, Applied, Typed
    <3>4. table[c][r] > 0
      BY <1>1, <2>5, <3>2, <3>3 DEF AppliedInv, Applied
    <3> QED
      BY <2>3, <2>5, <3>1, <3>2, <3>4 DEF Seen
  <2> QED
    BY <2>2, <2>4, <2>5 DEF Whole, Rows
<1> QED
  BY <1>1, <1>3, <1>5, <1>6, <1>7, <1>8, <1>9, <1>10,
     NextCases, MainStays, OthersStay DEF Handles, Storage, Fails

\* The page shows whole batches, its gauges read before its counters.
THEOREM PagesAreWhole == Spec => []PagesShowTheCountersOfAGauge
<1>1. PageInv => PagesShowTheCountersOfAGauge
  BY DEF PageInv, Whole, PagesShowTheCountersOfAGauge
<1> QED
  BY <1>1, PageInitial, PageInductive, TypedHolds, CountHolds, LockHolds, AppliedHolds, PTL DEF Spec
----
(***************************************************************************)
(* How long a handler goes on                                              *)
(***************************************************************************)
\* The steps of the attempts after the current one, and of the current one.
Later(r) == (MaxAttempts - attempt[r]) * (Len(order[r]) + 5)

Rank(r) ==
  CASE pc[r] = "begin" -> Len(order[r]) + 5
    [] pc[r] = "rows" -> Len(todo[r]) + 4
    [] pc[r] = "committed" -> 3
    [] pc[r] = "delay" -> 2

\* StepsLeft at each place of a handler.
Countdown(r) ==
  /\ Later(r) \in Nat
  /\ Calling(r) => StepsLeft(r) = Later(r) + Rank(r) /\ Rank(r) \in Nat /\ Rank(r) > 1
  /\ pc[r] = "page" => StepsLeft(r) = 4
  /\ pc[r] = "gauges" => StepsLeft(r) = 3
  /\ pc[r] = "half" => StepsLeft(r) = 2
  /\ pc[r] \in {"get", "counters"} => StepsLeft(r) = 1
  /\ Ended(r) => StepsLeft(r) = 0

Countdowns == \A r \in Requests : Countdown(r)

LEMMA CountdownHolds == Typed => Countdowns
<1>1. SUFFICES ASSUME Typed, NEW r \in Requests PROVE Countdown(r)
  BY DEF Countdowns
<1>2. Len(order[r]) \in Nat /\ Len(todo[r]) \in Nat
  BY <1>1 DEF Typed
<1>3. Later(r) \in Nat
  <2>1. MaxAttempts - attempt[r] \in Nat /\ Len(order[r]) + 5 \in Nat
    BY <1>1, <1>2, DatabaseAssumption DEF Typed, Attempts
  <2>2. \A x, y \in Nat : x * y \in Nat
    OBVIOUS
  <2> QED
    BY <2>1, <2>2 DEF Later
<1>4. Calling(r) => StepsLeft(r) = Later(r) + Rank(r)
  BY DEF Calling, StepsLeft, Later, Rank
<1>5. Calling(r) => Rank(r) \in Nat /\ Rank(r) > 1
  BY <1>2 DEF Calling, Rank
<1>6. /\ pc[r] = "page" => StepsLeft(r) = 4
      /\ pc[r] = "gauges" => StepsLeft(r) = 3
      /\ pc[r] = "half" => StepsLeft(r) = 2
      /\ pc[r] \in {"get", "counters"} => StepsLeft(r) = 1
      /\ Ended(r) => StepsLeft(r) = 0
  BY DEF StepsLeft, Ended
<1> QED
  BY <1>3, <1>4, <1>5, <1>6 DEF Countdown

LEMMA SumSmaller ==
  ASSUME NEW x \in Nat, NEW y \in Nat, NEW z \in Nat, z < y
  PROVE  x + z \in 0..((x + y) - 1)
OBVIOUS

LEMMA SumLarger ==
  ASSUME NEW x \in Nat, NEW y \in Nat, y > 1
  PROVE  x + y \in Nat /\ x + y > 0 /\ x + y > 1 /\ x \in 0..((x + y) - 1)
OBVIOUS

LEMMA StepsDecrease ==
  ASSUME Typed, Typed', [Next]_vars, NEW r \in Requests, Active(r)
  PROVE  /\ StepsLeft(r)' \in 0..StepsLeft(r)
         /\ <<pc[r], todo[r]>>' # <<pc[r], todo[r]>> => StepsLeft(r)' < StepsLeft(r)
<1>1. Countdown(r) /\ Countdown(r)'
  <2>1. Countdowns /\ Countdowns'
    BY CountdownHolds, PTL
  <2> QED
    BY <2>1 DEF Countdowns
<1>2. /\ StepsLeft(r) \in Nat /\ StepsLeft(r) > 0
      /\ Calling(r) => StepsLeft(r) > 1
  <2>1. CASE Calling(r)
    BY <1>1, <2>1, SumLarger DEF Countdown
  <2>2. CASE ~Calling(r)
    <3>1. pc[r] \in {"get", "page", "gauges", "half", "counters"}
      BY <2>2 DEF Typed, Stages, Active, Ended, Calling
    <3>2. StepsLeft(r) \in {1, 2, 3, 4}
      BY <1>1, <3>1 DEF Countdown
    <3>3. StepsLeft(r) \in Nat /\ StepsLeft(r) > 0
      BY <3>2
    <3> QED
      BY <2>2, <3>3
  <2> QED
    BY <2>1, <2>2
<1>3. SUFFICES Same(r) \/ LateStep(r) \/ StepsLeft(r)' \in 0..(StepsLeft(r) - 1)
  <2>1. CASE Same(r) \/ LateStep(r)
    <3>1. pc'[r] = pc[r] /\ attempt'[r] = attempt[r] /\ order'[r] = order[r] /\ todo'[r] = todo[r]
      BY <2>1, LateStages DEF Same
    <3>2. StepsLeft(r)' = StepsLeft(r)
      BY <3>1 DEF StepsLeft
    <3> QED
      BY <1>2, <3>1, <3>2
  <2>2. CASE StepsLeft(r)' \in 0..(StepsLeft(r) - 1)
    BY <1>2, <2>2
  <2> QED
    BY <1>3, <2>1, <2>2
<1>4. ASSUME pc'[r] \in {"ok", "failed", "broken"} PROVE StepsLeft(r)' \in 0..(StepsLeft(r) - 1)
  <2>1. StepsLeft(r)' = 0
    BY <1>1, <1>4 DEF Countdown, Ended
  <2> QED
    BY <1>2, <2>1
<1>5. ASSUME Calling(r), pc'[r] = "get" PROVE StepsLeft(r)' \in 0..(StepsLeft(r) - 1)
  <2>1. StepsLeft(r)' = 1
    BY <1>1, <1>5 DEF Countdown
  <2> QED
    BY <1>2, <1>5, <2>1
<1>6. ASSUME Calling(r), Calling(r)', attempt'[r] = attempt[r], order'[r] = order[r],
             Rank(r)' < Rank(r)
      PROVE  StepsLeft(r)' \in 0..(StepsLeft(r) - 1)
  <2>1. Later(r)' = Later(r)
    BY <1>6 DEF Later
  <2>2. Later(r) + Rank(r)' \in 0..((Later(r) + Rank(r)) - 1)
    BY <1>1, <1>6, SumSmaller DEF Countdown
  <2> QED
    BY <1>1, <1>6, <2>1, <2>2 DEF Countdown
<1>7. Len(order[r]) \in Nat /\ Len(todo[r]) \in Nat
  BY DEF Typed
<1>8. CASE Begin(r)
  <2>1. /\ pc[r] = "begin" /\ pc'[r] = "rows" /\ todo'[r] = order[r]
        /\ attempt'[r] = attempt[r] /\ order'[r] = order[r]
    BY <1>8 DEF Begin, Typed
  <2>2. Rank(r) = Len(order[r]) + 5 /\ Rank(r)' = Len(order[r]) + 4
    BY <2>1 DEF Rank
  <2> QED
    BY <1>6, <1>7, <2>1, <2>2 DEF Calling
<1>9. CASE Statement(r)
  <2>1. /\ pc[r] = "rows" /\ pc'[r] = "rows" /\ todo[r] # <<>> /\ todo'[r] = Tail(todo[r])
        /\ attempt'[r] = attempt[r] /\ order'[r] = order[r]
    BY <1>9 DEF Statement, Typed
  <2>2. Len(todo'[r]) = Len(todo[r]) - 1
    BY <2>1 DEF Typed
  <2>3. Rank(r) = Len(todo[r]) + 4 /\ Rank(r)' = (Len(todo[r]) - 1) + 4
    BY <2>1, <2>2 DEF Rank
  <2> QED
    BY <1>6, <1>7, <2>1, <2>3 DEF Calling
<1>10. CASE Commit(r)
  <2>1. /\ pc[r] = "rows" /\ pc'[r] = "committed"
        /\ attempt'[r] = attempt[r] /\ order'[r] = order[r]
    BY <1>10 DEF Commit, Typed
  <2>2. Rank(r) = Len(todo[r]) + 4 /\ Rank(r)' = 3
    BY <2>1 DEF Rank
  <2> QED
    BY <1>6, <1>7, <2>1, <2>2 DEF Calling
<1>11. CASE Committed(r)
  <2>1. Calling(r) /\ pc'[r] \in {"get", "failed", "ok"}
    BY <1>11 DEF Committed, Returns, Answer, Calling, Typed
  <2> QED
    BY <1>4, <1>5, <2>1
<1>12. CASE Fails(r)
  <2>1. Calling(r)
    BY <1>12, FailStages
  <2>2. ASSUME NEW e \in Errors, pc'[r] = Answer(r, e)
        PROVE  StepsLeft(r)' \in 0..(StepsLeft(r) - 1)
    <3>1. pc'[r] \in {"get", "failed", "ok"}
      BY <2>2 DEF Answer
    <3> QED
      BY <1>4, <1>5, <2>1, <3>1
  <2>3. CASE /\ pc[r] \in {"begin", "rows", "committed"} /\ pc'[r] = "delay"
             /\ attempt'[r] = attempt[r]
    <3>1. Rank(r) \in {Len(order[r]) + 5, Len(todo[r]) + 4, 3} /\ Rank(r)' = 2
      BY <2>3 DEF Rank
    <3>2. Rank(r)' < Rank(r)
      BY <1>7, <3>1
    <3>3. order'[r] = order[r]
      BY <1>12, FailStages
    <3> QED
      BY <1>6, <2>1, <2>3, <3>2, <3>3 DEF Calling
  <2> QED
    BY <1>12, <2>2, <2>3, FailStages
<1>13. CASE Delay(r)
  <2>1. /\ pc[r] = "delay" /\ pc'[r] = "begin"
        /\ attempt'[r] = attempt[r] + 1 /\ order'[r] = order[r]
    BY <1>13 DEF Delay, Typed
  <2>2. \A x, y \in Nat : (x + 1) * y = x * y + y
    OBVIOUS
  <2>3. Later(r) = Later(r)' + (Len(order[r]) + 5)
    <3>1. /\ MaxAttempts - attempt'[r] \in Nat /\ Len(order[r]) + 5 \in Nat
          /\ MaxAttempts - attempt[r] = (MaxAttempts - attempt'[r]) + 1
      <4>1. attempt[r] \in 1..MaxAttempts /\ attempt'[r] \in 1..MaxAttempts
        BY DEF Typed, Attempts
      <4> QED
        BY <1>7, <2>1, <4>1, DatabaseAssumption
    <3> QED
      BY <2>1, <2>2, <3>1 DEF Later
  <2>4. StepsLeft(r)' = Later(r)
    <3>1. Rank(r)' = Len(order[r]) + 5
      BY <2>1 DEF Rank
    <3> QED
      BY <1>1, <2>1, <2>3, <3>1 DEF Countdown, Calling
  <2>5. StepsLeft(r) = Later(r) + Rank(r) /\ Rank(r) \in Nat /\ Rank(r) > 1 /\ Later(r) \in Nat
    BY <1>1, <2>1 DEF Countdown, Calling
  <2> QED
    BY <2>4, <2>5, SumLarger
<1>14. CASE ReadBack(r)
  <2>1. pc'[r] \in {"ok", "failed"}
    BY <1>14 DEF ReadBack, Typed
  <2> QED
    BY <1>4, <2>1
<1>15. CASE PageQuery(r) \/ PageRows(r)
  <2>1. \/ pc'[r] = "ok"
        \/ pc[r] = "page" /\ pc'[r] = "gauges"
        \/ pc[r] = "gauges" /\ pc'[r] = "half"
        \/ pc[r] = "half" /\ pc'[r] = "counters"
    BY <1>15 DEF PageQuery, PageRows, Typed
  <2>2. \/ pc'[r] = "ok"
        \/ StepsLeft(r) = 4 /\ StepsLeft(r)' = 3
        \/ StepsLeft(r) = 3 /\ StepsLeft(r)' = 2
        \/ StepsLeft(r) = 2 /\ StepsLeft(r)' = 1
    BY <1>1, <2>1 DEF Countdown
  <2>3. CASE pc'[r] = "ok"
    BY <1>4, <2>3
  <2>4. CASE pc'[r] # "ok"
    BY <2>2, <2>4
  <2> QED
    BY <2>3, <2>4
<1>16. CASE Broken(r)
  BY <1>4, <1>16 DEF Broken
<1>17. ~Arrive(r)
  BY DEF Arrive, Active
<1> QED
  BY <1>8, <1>9, <1>10, <1>11, <1>12, <1>13, <1>14, <1>15, <1>16, <1>17, NextCases, MainStays,
     OthersStay DEF Handles, Storage, Fails

\* The safety half of the end of every call, for any number of attempts and
\* of metrics: no fault makes a handler go round for ever, as its steps run
\* out.
THEOREM HandlersEnd == Spec => HandlersRunOut
<1>1. Typed /\ Typed' /\ [Next]_vars =>
        \A r \in Requests : Active(r) =>
          /\ StepsLeft(r)' \in 0..StepsLeft(r)
          /\ <<pc[r], todo[r]>>' # <<pc[r], todo[r]>> => StepsLeft(r)' < StepsLeft(r)
  BY StepsDecrease
<1> QED
  BY <1>1, TypedHolds, PTL DEF Spec, HandlersRunOut
----
(***************************************************************************)
(* Deadlocks                                                               *)
(***************************************************************************)
Less == {ss \in Nat \X Nat : ss[1] < ss[2]}

LEMMA LessWellFounded == IsWellFoundedOn(Less, Nat)
BY NatLessThanWellFounded DEF OpToRel, Less

LEMMA Last ==
  ASSUME NEW N \in Nat, NEW E \in SUBSET (1..N), E # {}
  PROVE  \E l \in E : \A k \in E : k <= l
<1> DEFINE T == {N - l : l \in E}
<1>1. T \subseteq Nat /\ T # {}
  <2>1. ASSUME NEW l \in E PROVE N - l \in Nat
    <3>1. l \in Nat /\ l <= N
      OBVIOUS
    <3> QED
      BY <3>1
  <2>2. PICK l \in E : TRUE
    OBVIOUS
  <2>3. N - l \in T
    OBVIOUS
  <2> QED
    BY <2>1, <2>3
<1>2. PICK x \in T : \A y \in T : <<y, x>> \notin Less
  <2> HIDE DEF T
  <2> QED
    BY <1>1, LessWellFounded, WFMin
<1>3. PICK l \in E : x = N - l
  BY <1>2
<1>4. ASSUME NEW k \in E PROVE k <= l
  <2>1. ~(N - k < N - l)
    BY <1>1, <1>2, <1>3 DEF Less
  <2> QED
    BY <2>1
<1> QED
  BY <1>4

\* An order of all names has each of them once.
LEMMA OrdersAreInjective ==
  ASSUME NEW s \in Orders(Names), NEW i \in DOMAIN s, NEW j \in DOMAIN s, s[i] = s[j]
  PROVE  i = j
<1> DEFINE N == Cardinality(Names)
<1>1. N \in Nat /\ IsFiniteSet(Names)
  BY DatabaseAssumption, FS_CardinalityType DEF Names
<1>2. IsFiniteSet(1..N) /\ Cardinality(1..N) = N
  BY <1>1, FS_Interval
<1>3. s \in Surjection(1..N, Names)
  BY DEF Orders, Surjection
<1>4. s \in Injection(1..N, Names)
  BY <1>2, <1>3, FS_SurjSameCardinalityImpliesInj
<1> QED
  BY <1>4 DEF Injection, IsInjective

\* The transaction of r has its locks in the order of its call.
InTurn(r) ==
  pc[r] = "rows" =>
    LET done == Len(order[r]) - Len(todo[r])
    IN  /\ done >= 0
        /\ \A i \in 1..Len(todo[r]) : todo[r][i] = order[r][done + i]
        /\ \A n \in held[r] : \E i \in 1..done : order[r][i] = n

\* Request r takes row h before row n.
Before(r, h, n) ==
  \E i, j \in DOMAIN order[r] : i < j /\ order[r][i] = h /\ order[r][j] = n

\* What an attempt given up has locked comes before the row it waits for.
LateInTurn(r) ==
  \A a \in Attempts : \A h \in late[r][a].held : \A n \in late[r][a].next : Before(r, h, n)

Opposed == ~ \E s \in Orders(Names) : \A r \in Requests : Follows(r, s)

TurnInv ==
  /\ \A r \in Requests : InTurn(r) /\ LateInTurn(r)
  /\ ~Opposed => \A r \in Requests : cause[r] # "deadlock"

LEMMA TurnInitial == Init => TurnInv
BY DEF Init, TurnInv, InTurn, LateInTurn, NoTxn

LEMMA TurnsKept ==
  ASSUME Typed, LockInv, TurnInv, [Next]_vars, NEW q \in Requests
  PROVE  InTurn(q)'
<1>1. InTurn(q) /\ Locked(q) /\ order[q] \in Seq(Names) /\ todo[q] \in Seq(Names)
  BY DEF Typed, TurnInv, LockInv
<1>2. CASE pc'[q] # "rows"
  BY <1>2 DEF InTurn
<1>3. CASE Same(q)
  BY <1>1, <1>3 DEF Same, InTurn
<1>4. CASE Broken(q)
  BY <1>2, <1>4 DEF Broken, Active, Ended
<1>5. CASE Begin(q)
  <2>1. todo'[q] = order[q] /\ order'[q] = order[q] /\ held'[q] = {}
    BY <1>1, <1>5 DEF Begin, Typed, Locked
  <2> QED
    BY <1>1, <2>1 DEF InTurn
<1>6. CASE Statement(q)
  <2>1. /\ pc[q] = "rows" /\ todo[q] # <<>> /\ todo'[q] = Tail(todo[q]) /\ order'[q] = order[q]
        /\ held'[q] \subseteq held[q] \cup {Head(todo[q])}
    BY <1>6 DEF Statement, Metric, Typed
  <2> DEFINE o == order[q]
             t == todo[q]
             done == Len(o) - Len(t)
  <2>2. /\ Len(o) \in Nat /\ Len(t) \in Nat /\ Len(t) > 0 /\ done \in Nat
        /\ Len(Tail(t)) = Len(t) - 1 /\ Head(t) = t[1]
        /\ \A i \in 1..(Len(t) - 1) : Tail(t)[i] = t[i + 1]
    BY <1>1, <2>1 DEF InTurn
  <2>3. \A i \in 1..Len(t) : t[i] = o[done + i]
    BY <1>1, <2>1 DEF InTurn
  <2>4. \A n \in held[q] : \E i \in 1..done : o[i] = n
    BY <1>1, <2>1 DEF InTurn
  <2>8. Len(o) - Len(Tail(t)) = done + 1
    <3>1. \A x, y \in Nat : x - (y - 1) = (x - y) + 1
      OBVIOUS
    <3>2. Len(o) - (Len(t) - 1) = (Len(o) - Len(t)) + 1
      BY <2>2, <3>1
    <3> QED
      BY <2>2, <3>2
  <2> HIDE DEF o, t, done
  <2>5. \A i \in 1..(Len(t) - 1) : Tail(t)[i] = o[(done + 1) + i]
    <3>1. ASSUME NEW i \in 1..(Len(t) - 1) PROVE Tail(t)[i] = o[(done + 1) + i]
      <4>1. i + 1 \in 1..Len(t) /\ done + (i + 1) = (done + 1) + i
        BY <2>2
      <4> QED
        BY <2>2, <2>3, <4>1
    <3> QED
      BY <3>1
  <2>6. Head(t) = o[done + 1]
    BY <2>2, <2>3
  <2>7. \A n \in held[q] \cup {Head(t)} : \E i \in 1..(done + 1) : o[i] = n
    BY <2>2, <2>4, <2>6
  <2>9. /\ done + 1 >= 0
        /\ \A i \in 1..Len(Tail(t)) : Tail(t)[i] = o[(done + 1) + i]
    BY <2>2, <2>5
  <2>10. Len(order'[q]) - Len(todo'[q]) = done + 1
    BY <2>1, <2>8 DEF o, t
  <2>11. \A i \in 1..Len(todo'[q]) : todo'[q][i] = order'[q][(done + 1) + i]
    BY <2>1, <2>9 DEF o, t
  <2>12. \A n \in held'[q] : \E i \in 1..(done + 1) : order'[q][i] = n
    BY <2>1, <2>7 DEF o, t
  <2> QED
    BY <2>9, <2>10, <2>11, <2>12 DEF InTurn
<1>7. CASE Arrive(q) \/ Commit(q) \/ Committed(q) \/ Delay(q) \/ ReadBack(q) \/ PageQuery(q) \/ PageRows(q)
  BY <1>2, <1>7 DEF Arrive, Commit, Committed, Returns, Answer, Delay, ReadBack, PageQuery,
                    PageRows, Typed
<1>8. CASE Fails(q)
  <2>1. pc'[q] # "rows"
    BY <1>8, FailStages DEF Answer
  <2> QED
    BY <1>2, <2>1
<1>9. CASE LateStep(q)
  <2>1. pc'[q] = pc[q] /\ order'[q] = order[q] /\ todo'[q] = todo[q] /\ held'[q] = held[q]
    BY <1>9, LateStages
  <2> QED
    BY <1>1, <2>1 DEF InTurn
<1> QED
  BY <1>2, <1>3, <1>4, <1>5, <1>6, <1>7, <1>8, <1>9, NextCases, MainStays, OthersStay
     DEF Handles, Storage, Fails

\* What the transaction of r has locked comes before the row it writes.
LEMMA WritingIsNext ==
  ASSUME Typed, NEW r \in Requests, InTurn(r), NEW h \in held[r], NEW n \in Writing(r)
  PROVE  Before(r, h, n)
<1> DEFINE done == Len(order[r]) - Len(todo[r])
<1>1. pc[r] = "rows" /\ todo[r] # <<>> /\ n = Metric(r)
  BY DEF Writing
<1>2. order[r] \in Seq(Names) /\ todo[r] \in Seq(Names)
  BY DEF Typed
<1>3. PICK i \in 1..done : order[r][i] = h
  BY <1>1 DEF InTurn
<1>4. done \in Nat /\ done + 1 <= Len(order[r]) /\ order[r][done + 1] = n
  <2>1. Len(todo[r]) \in Nat \ {0} /\ Len(order[r]) \in Nat /\ Head(todo[r]) = todo[r][1]
    BY <1>1, <1>2
  <2>2. done >= 0 /\ \A j \in 1..Len(todo[r]) : todo[r][j] = order[r][done + j]
    BY <1>1 DEF InTurn
  <2>3. done \in Nat /\ done + 1 <= Len(order[r])
    BY <2>1, <2>2
  <2> HIDE DEF done
  <2>4. 1 \in 1..Len(todo[r])
    BY <2>1
  <2>5. todo[r][1] = order[r][done + 1]
    BY <2>2, <2>4
  <2> QED
    BY <1>1, <2>1, <2>3, <2>5 DEF Metric
<1>5. i \in DOMAIN order[r] /\ done + 1 \in DOMAIN order[r] /\ i < done + 1
  <2>1. Len(order[r]) \in Nat /\ DOMAIN order[r] = 1..Len(order[r])
    BY <1>2
  <2> HIDE DEF done
  <2> QED
    BY <1>3, <1>4, <2>1
<1> HIDE DEF done
<1> QED
  BY <1>3, <1>4, <1>5 DEF Before

LEMMA LateTurnsKept ==
  ASSUME Typed, CountInv, TurnInv, [Next]_vars, NEW q \in Requests
  PROVE  LateInTurn(q)'
<1>1. InTurn(q) /\ LateInTurn(q) /\ Counted(q)
  BY DEF TurnInv, CountInv
<1>2. ASSUME order'[q] = order[q], late'[q] = late[q] PROVE LateInTurn(q)'
  BY <1>1, <1>2 DEF LateInTurn, Before
<1>3. ASSUME order'[q] = order[q], late'[q] = LeftBy(q) PROVE LateInTurn(q)'
  <2>1. ASSUME NEW a \in Attempts, NEW h \in LeftBy(q)[a].held, NEW n \in LeftBy(q)[a].next
        PROVE  Before(q, h, n)
    <3>1. \/ LeftBy(q)[a] = late[q][a]
          \/ LeftBy(q)[a] = [held |-> held[q], next |-> Writing(q), commits |-> Commits(q)]
      BY DEF LeftBy, Typed
    <3> QED
      BY <1>1, <2>1, <3>1, WritingIsNext DEF LateInTurn
  <2> QED
    BY <1>3, <2>1 DEF LateInTurn, Before
<1>4. CASE Same(q) \/ Broken(q)
  BY <1>2, <1>3, <1>4 DEF Same, Broken
<1>5. CASE Arrive(q)
  <2>1. \A a \in Attempts : late'[q][a] = NoTxn
    BY <1>1, <1>5 DEF Arrive, Counted
  <2> QED
    BY <2>1 DEF LateInTurn, NoTxn
<1>6. CASE Begin(q) \/ Statement(q) \/ Commit(q) \/ Committed(q) \/ Delay(q)
  BY <1>2, <1>6 DEF Begin, Statement, Commit, Committed, Delay
<1>7. CASE ReadBack(q) \/ PageQuery(q) \/ PageRows(q)
  BY <1>2, <1>7 DEF ReadBack, PageQuery, PageRows
<1>8. CASE Fails(q)
  <2>1. order'[q] = order[q] /\ (late'[q] = late[q] \/ late'[q] = LeftBy(q))
    BY <1>8, FailStages DEF Typed
  <2> QED
    BY <1>2, <1>3, <2>1
<1>9. CASE LateStep(q)
  <2>1. /\ order'[q] = order[q]
        /\ \A b \in Attempts : late'[q][b] = late[q][b] \/ late'[q][b] = NoTxn
    BY <1>9, LateStages
  <2> QED
    BY <1>1, <2>1 DEF LateInTurn, Before, NoTxn
<1> QED
  BY <1>4, <1>5, <1>6, <1>7, <1>8, <1>9, NextCases, MainStays, OthersStay
     DEF Handles, Storage, Fails

\* So it is with every transaction.
LEMMA HeldBeforeWanted ==
  ASSUME Typed, TurnInv, NEW t \in Txns, NEW h \in HeldBy(t), NEW n \in WantedBy(t)
  PROVE  Before(t[1], h, n)
<1>1. t[1] \in Requests /\ t[2] \in 0..MaxAttempts /\ InTurn(t[1]) /\ LateInTurn(t[1])
  BY DEF Txns, TurnInv
<1>2. CASE t[2] = 0
  BY <1>1, <1>2, WritingIsNext DEF HeldBy, WantedBy
<1>3. CASE t[2] # 0
  <2>1. t[2] \in Attempts
    BY <1>1, <1>3, DatabaseAssumption DEF Attempts
  <2> QED
    BY <1>1, <1>3, <2>1 DEF HeldBy, WantedBy, LateInTurn
<1> QED
  BY <1>2, <1>3

\* Calls that all follow one order never wait for each other in a cycle.
LEMMA NoCycle ==
  ASSUME Typed, LockInv, TurnInv, ~Opposed, NEW q \in Requests
  PROVE  ~DeadlockDetected(q)
<1>1. SUFFICES ASSUME DeadlockDetected(q) PROVE FALSE
  OBVIOUS
<1>2. PICK s \in Orders(Names) : \A r \in Requests : Follows(r, s)
  BY DEF Opposed
<1>3. PICK S \in SUBSET Txns :
        <<q, 0>> \in S /\ \A t \in S : \E u, w \in S : WaitsFor(t, u) /\ WaitsFor(w, t)
  BY <1>1 DEF DeadlockDetected
<1> DEFINE N == Cardinality(Names)
           E == {l \in 1..N : \E t, u \in S : s[l] \in WantedBy(t) \cap HeldBy(u)}
<1>4. N \in Nat /\ DOMAIN s = 1..N /\ \A n \in Names : \E l \in 1..N : s[l] = n
  BY DatabaseAssumption, FS_CardinalityType DEF Orders, Names
<1>5. ASSUME NEW t \in Txns PROVE WantedBy(t) \subseteq Names
  <2>1. t[1] \in Requests /\ t[2] \in 0..MaxAttempts
    BY DEF Txns
  <2>2. CASE t[2] = 0
    BY <2>1, <2>2, LeftTyped DEF WantedBy
  <2>3. CASE t[2] # 0
    <3>1. t[2] \in Attempts
      BY <2>1, <2>3, DatabaseAssumption DEF Attempts
    <3> QED
      BY <2>1, <2>3, <3>1 DEF WantedBy, Typed, Left
  <2> QED
    BY <2>2, <2>3
<1>6. E \subseteq 1..N /\ E # {}
  <2>1. PICK u \in S : WaitsFor(<<q, 0>>, u)
    BY <1>3
  <2>2. PICK n \in WantedBy(<<q, 0>>) : n \in HeldBy(u)
    BY <2>1 DEF WaitsFor
  <2>3. n \in Names
    BY <1>3, <1>5, <2>2
  <2>4. PICK l \in 1..N : s[l] = n
    BY <1>4, <2>3
  <2> QED
    BY <1>3, <2>1, <2>2, <2>4
\* Who holds the last row that one waits for waits for a later one.
<1>7. PICK l \in E : \A k \in E : k <= l
  <2> HIDE DEF E
  <2> QED
    BY <1>4, <1>6, Last
<1>8. PICK t \in S, u \in S : s[l] \in WantedBy(t) /\ s[l] \in HeldBy(u)
  BY <1>7
<1>9. PICK w \in S : WaitsFor(u, w)
  BY <1>3, <1>8
<1>10. PICK n \in WantedBy(u) : n \in HeldBy(w)
  BY <1>9 DEF WaitsFor
<1>11. u \in Txns /\ u[1] \in Requests
  BY <1>3, <1>8 DEF Txns
<1>12. PICK i \in DOMAIN order[u[1]], j \in DOMAIN order[u[1]] :
         i < j /\ order[u[1]][i] = s[l] /\ order[u[1]][j] = n
  BY <1>8, <1>10, <1>11, HeldBeforeWanted DEF Before
<1>13. PICK k \in DOMAIN s, m \in DOMAIN s : k < m /\ s[k] = s[l] /\ s[m] = n
  BY <1>2, <1>11, <1>12 DEF Follows
<1>14. m \in E
  BY <1>4, <1>8, <1>9, <1>10, <1>13
<1>15. k = l
  <2>1. l \in DOMAIN s
    BY <1>4, <1>7
  <2> QED
    BY <1>13, <2>1, OrdersAreInjective
<1> HIDE DEF E
<1>16. l \in Nat /\ m \in Nat
  BY <1>4, <1>6, <1>7, <1>14
<1> QED
  BY <1>7, <1>13, <1>14, <1>15, <1>16

\* Only an abort of PostgreSQL ends a call as a deadlock.
LEMMA DeadlockCause ==
  ASSUME Typed, [Next]_vars, NEW q \in Requests, cause'[q] = "deadlock", ~DeadlockDetected(q)
  PROVE  cause[q] = "deadlock"
<1>1. CASE Same(q) \/ Broken(q)
  BY <1>1 DEF Same, Broken
<1>2. CASE Arrive(q) \/ Begin(q) \/ Statement(q) \/ Commit(q) \/ Delay(q) \/ ReadBack(q)
  BY <1>2 DEF Arrive, Begin, Statement, Commit, Delay, ReadBack
<1>3. CASE Committed(q) \/ ContextExpires(q) \/ PageQuery(q) \/ PageRows(q)
  BY <1>3 DEF Committed, ContextExpires, Returns, Cause, PageQuery, PageRows, Typed
<1>4. CASE BeginFails(q) \/ UnknownType(q) \/ AttemptBreaks(q)
  <2>1. PICK e \in Errors \ {"deadlock"} : AttemptEnds(q, e)
    BY <1>4, KnownErrors DEF BeginFails, UnknownType, AttemptBreaks
  <2> QED
    BY <2>1, EndStages DEF Cause
<1>5. CASE LateStep(q)
  BY <1>5, LateStages
<1> QED
  BY <1>1, <1>2, <1>3, <1>4, <1>5, NextCases, MainStays, OthersStay DEF Handles, Storage

LEMMA TurnInductive == Typed /\ CountInv /\ LockInv /\ TurnInv /\ [Next]_vars => TurnInv'
<1>1. SUFFICES ASSUME Typed, CountInv, LockInv, TurnInv, [Next]_vars PROVE TurnInv'
  OBVIOUS
\* A call that arrives may oppose the others, never reconcile them.
<1>2. ASSUME ~Opposed' PROVE ~Opposed
  <2>1. PICK s \in Orders(Names) : \A r \in Requests : Follows(r, s)'
    BY <1>2 DEF Opposed
  <2>2. ASSUME NEW r \in Requests PROVE order'[r] = order[r] \/ order[r] = <<>>
    <3>1. CASE Same(r) \/ Broken(r)
      BY <3>1 DEF Same, Broken
    <3>2. CASE Arrive(r)
      BY <1>1, <3>2 DEF Arrive, CountInv, Counted
    <3>3. CASE Fails(r)
      BY <1>1, <3>3, FailStages
    <3>4. CASE Begin(r) \/ Statement(r) \/ Commit(r) \/ Committed(r) \/ Delay(r)
      BY <3>4 DEF Begin, Statement, Commit, Committed, Delay
    <3>5. CASE ReadBack(r) \/ PageQuery(r) \/ PageRows(r)
      BY <3>5 DEF ReadBack, PageQuery, PageRows
    <3>6. CASE LateStep(r)
      BY <1>1, <3>6, LateStages
    <3> QED
      BY <1>1, <3>1, <3>2, <3>3, <3>4, <3>5, <3>6, NextCases, MainStays, OthersStay
         DEF Handles, Storage, Fails
  <2>3. \A r \in Requests : Follows(r, s)
    BY <2>1, <2>2 DEF Follows
  <2> QED
    BY <2>3 DEF Opposed
<1>3. ASSUME ~Opposed', NEW q \in Requests PROVE cause'[q] # "deadlock"
  BY <1>1, <1>2, <1>3, NoCycle, DeadlockCause DEF TurnInv
<1> QED
  BY <1>1, <1>3, TurnsKept, LateTurnsKept DEF TurnInv

\* For any number of requests, calls that take their rows in one common order
\* are never aborted as a deadlock.
THEOREM OneOrderNeverDeadlocks == Spec => []DeadlockNeedsOpposedOrders
<1>1. TurnInv => DeadlockNeedsOpposedOrders
  BY DEF TurnInv, Opposed, DeadlockNeedsOpposedOrders
<1> QED
  BY <1>1, TurnInitial, TurnInductive, TypedHolds, CountHolds, LockHolds, PTL DEF Spec

----
(***************************************************************************)
(* The table and its queries implement AtomicTable                         *)
(***************************************************************************)
\* A step of one request moves this one alone.
LEMMA ProgressStep ==
  ASSUME NEW r \in Requests, \A q \in Requests \ {r} : pc'[q] = pc[q]
  PROVE  /\ Progress[r] = Stage(pc[r])
         /\ Progress' = [Progress EXCEPT ![r] = Stage(pc'[r])]
BY DEF Progress

\* What a request goes through without its stage changing is nothing to the
\* table.
LEMMA ProgressSame ==
  ASSUME NEW r \in Requests, \A q \in Requests \ {r} : pc'[q] = pc[q],
         Stage(pc'[r]) = Stage(pc[r])
  PROVE  Progress' = Progress
BY DEF Progress

\* The tries of one request change alone.
LEMMA PendingStep ==
  ASSUME NEW r \in Requests, \A q \in Requests \ {r} : late'[q] = late[q]
  PROVE  /\ Pending[r] = {a \in Attempts : late[r][a].commits}
         /\ Pending' = [Pending EXCEPT ![r] = {a \in Attempts : late'[r][a].commits}]
BY DEF Pending

LEMMA PendingSame == UNCHANGED late => UNCHANGED Pending
BY DEF Pending

\* A try that is given up adds itself, if it may still be stored.
LEMMA PendingLeft ==
  ASSUME Typed, LateInv, NEW r \in Requests
  PROVE  LET left == {a \in Attempts : LeftBy(r)[a].commits}
         IN  \/ left = Pending[r]
             \/ pc[r] = "rows" /\ \E a \in Attempts : left = Pending[r] \cup {a}
<1> DEFINE left == {a \in Attempts : LeftBy(r)[a].commits}
<1>1. Pending[r] = {a \in Attempts : late[r][a].commits}
  BY DEF Pending
<1>2. CASE LeftBy(r) = late[r]
  BY <1>1, <1>2
<1>3. CASE LeftBy(r) # late[r]
  <2>1. pc[r] = "rows" /\ attempt[r] \in Attempts
    BY <1>3 DEF LeftBy, Typed
  <2>2. late[r][attempt[r]] = NoTxn
    <3>1. ~(attempt[r] < attempt[r])
      BY <2>1 DEF Attempts
    <3> QED
      BY <2>1, <3>1 DEF LateInv, Abandoned, Calling
  <2>3. \A a \in Attempts : LeftBy(r)[a].commits =
                             IF a = attempt[r] THEN Commits(r) ELSE late[r][a].commits
    BY <1>3 DEF LeftBy, Typed
  <2>4. ~late[r][attempt[r]].commits
    BY <2>2 DEF NoTxn
  <2>5. CASE Commits(r)
    <3>1. left = Pending[r] \cup {attempt[r]}
      BY <1>1, <2>1, <2>3, <2>5
    <3> QED
      BY <2>1, <3>1
  <2>6. CASE ~Commits(r)
    <3>1. left = Pending[r]
      BY <1>1, <2>1, <2>3, <2>4, <2>6
    <3> QED
      BY <3>1
  <2> QED
    BY <2>5, <2>6
<1> QED
  BY <1>2, <1>3

LEMMA GivesUpRefines ==
  ASSUME Typed, LateInv, NEW r \in Requests,
         late' = late \/ late' = [late EXCEPT ![r] = LeftBy(r)]
  PROVE  Atomic!GivesUp(r)
<1>1. CASE late' = late
  BY <1>1, PendingSame DEF Atomic!GivesUp
<1>2. CASE late' = [late EXCEPT ![r] = LeftBy(r)]
  <2>1. late'[r] = LeftBy(r) /\ \A q \in Requests \ {r} : late'[q] = late[q]
    BY <1>2 DEF Typed
  <2>2. Pending' = [Pending EXCEPT ![r] = {a \in Attempts : LeftBy(r)[a].commits}]
    BY <2>1, PendingStep
  <2>3. CASE {a \in Attempts : LeftBy(r)[a].commits} = Pending[r]
    <3>1. Pending' = Pending
      BY <2>2, <2>3 DEF Pending
    <3> QED
      BY <3>1 DEF Atomic!GivesUp
  <2>4. CASE /\ pc[r] = "rows"
             /\ \E a \in Attempts : {b \in Attempts : LeftBy(r)[b].commits} = Pending[r] \cup {a}
    <3>1. Progress[r] = "trying"
      BY <2>4 DEF Progress, Stage
    <3> QED
      BY <2>2, <2>4, <3>1 DEF Atomic!GivesUp
  <2> QED
    BY <2>3, <2>4, PendingLeft
<1> QED
  BY <1>1, <1>2

LEMMA FirstMoment == Init => Atomic!Init
<1> SUFFICES ASSUME Init PROVE Atomic!Init
  OBVIOUS
<1>1. op \in [Requests -> Ops]
  BY TypedInitial DEF Typed
<1>2. Progress = [r \in Requests |-> "unsent"]
  BY DEF Init, Progress, Stage
<1>3. Pending = [r \in Requests |-> {}]
  BY DEF Init, Pending, NoTxn
<1> QED
  BY <1>1, <1>2, <1>3 DEF Init, Atomic!Init, Atomic!Names, Names

LEMMA ArriveRefines ==
  ASSUME Typed, NEW r \in Requests, Arrive(r), \A q \in Requests \ {r} : pc'[q] = pc[q]
  PROVE  Atomic!Ask(r)
<1>1. PICK o \in Ops :
        /\ op' = [op EXCEPT ![r] = o]
        /\ pc'[r] = IF o.kind = "index" THEN "page" ELSE "begin"
  <2>1. PICK o \in Ops :
          /\ op' = [op EXCEPT ![r] = o]
          /\ IF o.kind = "index" THEN pc' = [pc EXCEPT ![r] = "page"]
                                 ELSE pc' = [pc EXCEPT ![r] = "begin"]
    BY DEF Arrive
  <2>2. pc'[r] = IF o.kind = "index" THEN "page" ELSE "begin"
    BY <2>1 DEF Typed
  <2> QED
    BY <2>1, <2>2
<1>2. pc[r] = "unsent" /\ UNCHANGED <<table, got, Pending>>
  BY PendingSame DEF Arrive
<1>3. Progress[r] = "unsent"
      /\ Progress' = [Progress EXCEPT ![r] = IF o.kind = "index" THEN "reading" ELSE "trying"]
  BY <1>1, <1>2, ProgressStep DEF Stage
<1> QED
  BY <1>1, <1>2, <1>3 DEF Atomic!Ask, Atomic!Goes

LEMMA CommitRefines ==
  ASSUME Typed, LockInv, NEW r \in Requests, Commit(r), \A q \in Requests \ {r} : pc'[q] = pc[q]
  PROVE  Atomic!Store(r)
<1>1. /\ pc[r] = "rows" /\ todo[r] = <<>> /\ pc'[r] = "committed" /\ UNCHANGED <<op, got, Pending>>
  BY PendingSame DEF Commit, Typed
<1>2. Locked(r) /\ op[r].names \subseteq Names /\ op[r].unknown \subseteq op[r].names
  BY OpsNames DEF Typed, LockInv
<1>3. \A n \in Names : ~In(n, todo[r])
  BY <1>1 DEF In
<1>4. op[r].unknown = {} /\ held[r] = op[r].names \ op[r].nils
  BY <1>1, <1>2, <1>3 DEF Locked, Rows
<1>5. Progress[r] = "trying" /\ Progress' = [Progress EXCEPT ![r] = "stored"]
  BY <1>1, ProgressStep DEF Stage
<1> QED
  BY <1>1, <1>4, <1>5 DEF Commit, Atomic!Store, Atomic!Stores, Atomic!Goes, Atomic!Names, Names

\* A call that ends.
LEMMA AnswerRefines ==
  ASSUME Typed, LockInv, NEW r \in Requests, \A q \in Requests \ {r} : pc'[q] = pc[q],
         Calling(r), UNCHANGED <<table, op, got>>, Atomic!GivesUp(r),
         NEW e \in Answers, pc'[r] = Answer(r, e), e = "none" => pc[r] = "committed"
  PROVE  Atomic!Answer(r)
<1>1. Progress[r] \in {"trying", "stored"} /\ (pc[r] = "committed" => Progress[r] = "stored")
  BY ProgressStep DEF Calling, Stage
<1>2. op[r].kind \in {"update", "json", "batch"}
  BY DEF LockInv, Locked, Typed, Ops
<1>3. Progress' = [Progress EXCEPT ![r] = Stage(pc'[r])]
  BY ProgressStep
<1>4. CASE op[r].kind = "json"
  <2>1. Stage(pc'[r]) = "reading"
    BY <1>4 DEF Answer, Stage
  <2> QED
    BY <1>1, <1>3, <1>4, <2>1 DEF Atomic!Answer, Atomic!Goes
<1>5. CASE op[r].kind = "update"
  <2>1. Stage(pc'[r]) = "ok"
    BY <1>5 DEF Answer, Stage
  <2> QED
    BY <1>1, <1>3, <1>5, <2>1 DEF Atomic!Answer, Atomic!Goes
<1>6. CASE op[r].kind = "batch" /\ e = "none"
  <2>1. Stage(pc'[r]) = "ok" /\ Progress[r] = "stored"
    BY <1>1, <1>6 DEF Answer, Stage
  <2> QED
    BY <1>3, <1>6, <2>1 DEF Atomic!Answer, Atomic!Goes
<1>7. CASE op[r].kind = "batch" /\ e # "none"
  <2>1. Stage(pc'[r]) = "failed"
    BY <1>7 DEF Answer, Stage
  <2> QED
    BY <1>1, <1>3, <1>7, <2>1 DEF Atomic!Answer, Atomic!Goes
<1> QED
  BY <1>2, <1>4, <1>5, <1>6, <1>7

LEMMA FailRefines ==
  ASSUME Typed, LockInv, LateInv, NEW r \in Requests, Fails(r),
         \A q \in Requests \ {r} : pc'[q] = pc[q]
  PROVE  Atomic!Retry(r) \/ Atomic!Answer(r)
<1>1. Calling(r) /\ UNCHANGED <<table, op, got>> /\ Atomic!GivesUp(r)
  BY FailStages, GivesUpRefines
<1>2. CASE pc'[r] = "delay"
  <2>1. Progress[r] \in {"trying", "stored"} /\ Progress' = [Progress EXCEPT ![r] = "trying"]
    BY <1>1, <1>2, ProgressStep DEF Calling, Stage
  <2> QED
    BY <1>1, <2>1 DEF Atomic!Retry, Atomic!Goes
<1>3. ASSUME NEW e \in Errors, pc'[r] = Answer(r, e) PROVE Atomic!Answer(r)
  BY <1>1, <1>3, AnswerRefines, KnownErrors DEF Answers
<1> QED
  BY <1>2, <1>3, FailStages

\* What is left of an attempt is stored or forgotten.
LEMMA LateRefines ==
  ASSUME Typed, LateInv, NEW r \in Requests, LateStep(r)
  PROVE  Atomic!StoreLate(r) \/ Atomic!Forget(r) \/ UNCHANGED Atomic!vars
<1>1. PICK a \in Attempts : Late(r, a)
  BY DEF LateStep
<1>2. late[r][a] # NoTxn
  <2>1. ~NoTxn.commits
    BY DEF NoTxn
  <2> QED
    BY <1>1, <2>1 DEF Late, LateCommit, LateEnds
<1>3. late' = [late EXCEPT ![r][a] = NoTxn] /\ UNCHANGED <<op, Progress, got>>
  BY <1>1 DEF Late, LateCommit, LateEnds, callVars, Progress
<1>4. /\ \A q \in Requests \ {r} : late'[q] = late[q]
      /\ \A b \in Attempts : late'[r][b] = IF b = a THEN NoTxn ELSE late[r][b]
  BY <1>3 DEF Typed
<1>5. /\ {b \in Attempts : late'[r][b].commits} = {b \in Attempts : late[r][b].commits} \ {a}
      /\ Pending[r] = {b \in Attempts : late[r][b].commits}
  BY <1>4 DEF NoTxn, Pending
<1>6. Pending' = [Pending EXCEPT ![r] = Pending[r] \ {a}]
  BY <1>4, <1>5, PendingStep
<1>7. CASE LateCommit(r, a)
  <2>1. a \in Pending[r]
    BY <1>5, <1>7 DEF LateCommit
  <2>2. op[r].unknown = {} /\ late[r][a].held \cup late[r][a].next = op[r].names \ op[r].nils
    BY <1>2, <1>7 DEF LateCommit, LateInv, Abandoned, Rows
  <2>3. Atomic!Stores(r)
    BY <1>7, <2>2 DEF LateCommit, Atomic!Stores, Atomic!Names, Names
  <2> QED
    BY <1>3, <1>6, <2>1, <2>3 DEF Atomic!StoreLate
<1>8. CASE LateEnds(r, a)
  <2>1. UNCHANGED table
    BY <1>8 DEF LateEnds
  <2>2. CASE a \in Pending[r]
    BY <1>3, <1>6, <2>1, <2>2 DEF Atomic!Forget
  <2>3. CASE a \notin Pending[r]
    <3>1. Pending' = Pending
      BY <1>6, <2>3 DEF Pending
    <3> QED
      BY <1>3, <2>1, <3>1 DEF Atomic!vars
  <2> QED
    BY <2>2, <2>3
<1> QED
  BY <1>1, <1>7, <1>8 DEF Late

LEMMA ReadBackRefines ==
  ASSUME Typed, LockInv, NEW r \in Requests, ReadBack(r), \A q \in Requests \ {r} : pc'[q] = pc[q]
  PROVE  Atomic!Read(r) \/ Atomic!ReadFails(r)
<1>1. pc[r] = "get" /\ op[r].kind = "json" /\ op[r] \in Ops /\ UNCHANGED <<table, op, Pending>>
  BY PendingSame DEF ReadBack, Typed, LockInv, Locked
<1>2. PICK c \in Counters : op[r].names = {c}
  BY <1>1 DEF Ops
<1>3. Progress[r] = "reading" /\ Progress' = [Progress EXCEPT ![r] = Stage(pc'[r])]
  BY <1>1, ProgressStep DEF Stage
<1>4. CASE pc'[r] = "ok" /\ got' = [got EXCEPT ![r][c] = Seen(c)]
  <2>1. Stage(pc'[r]) = "ok"
    BY <1>4 DEF Stage
  <2>2. got' = [got EXCEPT ![r] = [n \in Names |-> IF n \in {c} THEN Seen(n) ELSE @[n]]]
    BY <1>4 DEF Typed
  <2>3. {c} \in (SUBSET Gauges) \cup (SUBSET Counters)
    BY <1>2
  <2> QED
    BY <1>1, <1>3, <2>1, <2>2, <2>3 DEF Atomic!Read, Atomic!Goes, Atomic!Names, Names, Seen
<1>5. CASE pc'[r] = "failed" /\ UNCHANGED got
  <2>1. Stage(pc'[r]) = "failed"
    BY <1>5 DEF Stage
  <2> QED
    BY <1>1, <1>3, <1>5, <2>1 DEF Atomic!ReadFails, Atomic!Goes
<1> QED
  BY <1>2, <1>4, <1>5 DEF ReadBack, Typed

LEMMA PageRefines ==
  ASSUME Typed, NEW r \in Requests, PageQuery(r) \/ PageRows(r),
         \A q \in Requests \ {r} : pc'[q] = pc[q]
  PROVE  Atomic!Read(r) \/ UNCHANGED Atomic!vars
<1>1. UNCHANGED <<table, op, Pending>>
  BY PendingSame DEF PageQuery, PageRows
<1>2. Progress[r] = "reading" /\ Progress' = [Progress EXCEPT ![r] = Stage(pc'[r])]
  BY ProgressStep DEF PageQuery, PageRows, Stage
<1>3. Stage(pc'[r]) \in {"reading", "ok"}
  BY DEF PageQuery, PageRows, Typed, Stage
<1>4. PICK ns \in (SUBSET Gauges) \cup (SUBSET Counters) :
        got' = [got EXCEPT ![r] = [n \in Names |-> IF n \in ns THEN Seen(n) ELSE @[n]]]
  <2>1. CASE PageQuery(r)
    <3>1. got' = got
      BY <2>1 DEF PageQuery
    <3>2. got' = [got EXCEPT ![r] = [n \in Names |-> IF n \in {} THEN Seen(n) ELSE @[n]]]
      BY <3>1 DEF Typed
    <3>3. {} \in (SUBSET Gauges) \cup (SUBSET Counters)
      OBVIOUS
    <3> QED
      BY <3>2, <3>3
  <2>2. CASE PageRows(r)
    <3>1. PICK some \in SUBSET PageKind(pc[r]) :
            got' = [got EXCEPT ![r] = [n \in Names |-> IF n \in some THEN Seen(n) ELSE @[n]]]
      BY <2>2 DEF PageRows
    <3>2. some \in (SUBSET Gauges) \cup (SUBSET Counters)
      BY <3>1 DEF PageKind
    <3> QED
      BY <3>1, <3>2
  <2> QED
    BY <2>1, <2>2
<1> QED
  BY <1>1, <1>2, <1>3, <1>4 DEF Atomic!Read, Atomic!Goes, Atomic!Names, Names, Seen

LEMMA MainRefines ==
  ASSUME Typed, LateInv,
         Signal \/ Drained \/ DrainTimeout \/ CloseReturns \/ Kill \/ UNCHANGED vars
  PROVE  Atomic!Break \/ UNCHANGED Atomic!vars
<1>1. CASE Signal \/ Drained \/ DrainTimeout \/ UNCHANGED vars
  BY <1>1 DEF Signal, Drained, DrainTimeout, Main, vars, callVars, Progress, Pending, Atomic!vars
<1>2. CASE CloseReturns \/ Kill
  <2>1. /\ pc' = [r \in Requests |-> IF Active(r) THEN "broken" ELSE pc[r]]
        /\ late' = [r \in Requests |-> LeftBy(r)]
        /\ UNCHANGED <<table, op, got>>
    BY <1>2 DEF CloseReturns, Kill, Gone
  <2>2. ASSUME NEW r \in Requests
        PROVE  Stage(pc'[r]) = IF Progress[r] \in {"trying", "stored", "reading"} THEN "broken"
                               ELSE Progress[r]
    <3>1. pc[r] \in Stages
      BY DEF Typed
    <3> QED
      BY <2>1, <3>1 DEF Progress, Stage, Stages, Active, Ended
  <2>3. Progress' = [r \in Requests |->
                       IF Progress[r] \in {"trying", "stored", "reading"} THEN "broken"
                       ELSE Progress[r]]
    BY <2>2 DEF Progress
  <2>4. \A r \in Requests : Pending'[r] = {a \in Attempts : LeftBy(r)[a].commits}
    BY <2>1 DEF Pending
  <2>5. Pending' \in [Requests -> SUBSET Attempts]
    BY DEF Pending
  <2>6. ASSUME NEW r \in Requests
        PROVE  \/ Pending'[r] = Pending[r]
               \/ Progress[r] = "trying" /\ \E a \in Attempts : Pending'[r] = Pending[r] \cup {a}
    <3>1. pc[r] = "rows" => Progress[r] = "trying"
      BY DEF Progress, Stage
    <3> QED
      BY <2>4, <3>1, PendingLeft
  <2> QED
    BY <2>1, <2>3, <2>5, <2>6 DEF Atomic!Break
<1> QED
  BY <1>1, <1>2

LEMMA StepIsAtomic == Typed /\ LockInv /\ LateInv /\ [Next]_vars => [Atomic!Next]_(Atomic!vars)
<1> SUFFICES ASSUME Typed, LockInv, LateInv, [Next]_vars PROVE Atomic!Next \/ UNCHANGED Atomic!vars
  OBVIOUS
<1>1. ASSUME NEW r \in Requests, Handles(r) PROVE Atomic!Next \/ UNCHANGED Atomic!vars
  <2>1. \A q \in Requests \ {r} : pc'[q] = pc[q]
    BY <1>1, OthersStay DEF Same
  <2>2. CASE Arrive(r)
    BY <2>1, <2>2, ArriveRefines DEF Atomic!Next
  <2>3. CASE Begin(r) \/ Statement(r) \/ Delay(r)
    <3>1. UNCHANGED <<table, op, got, Pending>> /\ Stage(pc'[r]) = Stage(pc[r])
      BY <2>3, PendingSame DEF Begin, Statement, Delay, Typed, Stage
    <3> QED
      BY <2>1, <3>1, ProgressSame DEF Atomic!vars
  <2>4. CASE Fails(r)
    BY <2>1, <2>4, FailRefines DEF Atomic!Next
  <2>5. CASE Commit(r)
    BY <2>1, <2>5, CommitRefines DEF Atomic!Next
  <2>6. CASE Committed(r)
    <3>1. /\ Calling(r) /\ pc[r] = "committed" /\ pc'[r] = Answer(r, "none")
          /\ UNCHANGED <<table, op, got>> /\ Atomic!GivesUp(r)
      BY <2>6, GivesUpRefines DEF Committed, Returns, Calling, Typed
    <3>2. "none" \in Answers
      BY DEF Answers
    <3> QED
      BY <2>1, <3>1, <3>2, AnswerRefines DEF Atomic!Next
  <2>7. CASE ReadBack(r)
    BY <2>1, <2>7, ReadBackRefines DEF Atomic!Next
  <2>8. CASE PageQuery(r) \/ PageRows(r)
    BY <2>1, <2>8, PageRefines DEF Atomic!Next
  <2>9. CASE LateStep(r)
    BY <2>9, LateRefines DEF Atomic!Next
  <2> QED
    BY <1>1, <2>2, <2>3, <2>4, <2>5, <2>6, <2>7, <2>8, <2>9 DEF Handles, Storage, Fails
<1> QED
  BY <1>1, NextCases, MainRefines DEF Atomic!Next

\* The statements of a transaction, its commit, the loop of Retry and the
\* queries implement a table whose every access happens at one moment.
THEOREM TableImplementsAtomicTable == Spec => TableIsAtomic
<1>1. Init => Atomic!Init
  BY FirstMoment
<1>2. Typed /\ LockInv /\ LateInv /\ [Next]_vars => [Atomic!Next]_(Atomic!vars)
  BY StepIsAtomic
<1> QED
  BY <1>1, <1>2, TypedHolds, LockHolds, LateHolds, PTL DEF Spec, TableIsAtomic, Atomic!Spec
====
