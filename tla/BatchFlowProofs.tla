---- MODULE BatchFlowProofs ----
(***************************************************************************)
(* Proofs about the abstract line of batches, for any collectors, workers  *)
(* and bound: nothing is lost, repeated or reordered between the           *)
(* collectors and the workers, and a worker tries each batch once.         *)
(***************************************************************************)
EXTENDS BatchFlow, TLAPS

AtMostOne == {<<>>} \cup {<<b>> : b \in Batch}

\* The line's variables have their types.
THEOREM Typing == Spec => []TypeOK
<1>1. Init => TypeOK
  BY DEF Init, TypeOK
<1>2. TypeOK /\ [Next]_vars => TypeOK'
  <2> SUFFICES ASSUME TypeOK, [Next]_vars PROVE TypeOK'
    OBVIOUS
  <2>1. ASSUME NEW c \in Collectors, Enter(c) PROVE TypeOK'
    <3>1. [src |-> c, n |-> accepted[c] + 1] \in Batch
      BY <2>1 DEF Batch, TypeOK
    <3> QED
      BY <2>1, <3>1 DEF Enter, TypeOK
  <2>2. ASSUME NEW w \in Workers, Leave(w) PROVE TypeOK'
    <3>1. Head(line) \in Batch /\ Tail(line) \in Seq(Batch)
      BY <2>2 DEF Leave, TypeOK
    <3>2. Head(line).src \in Collectors
      BY <3>1 DEF Batch
    <3>3. slot' \in [Workers -> {<<>>} \cup {<<b>> : b \in Batch}]
      BY <2>2, <3>1 DEF Leave, TypeOK
    <3> QED
      BY <2>2, <3>1, <3>2, <3>3 DEF Leave, TypeOK
  <2>3. ASSUME NEW w \in Workers, Finish(w) PROVE TypeOK'
    <3>1. PICK b \in Batch : slot[w] = <<b>>
      BY <2>3 DEF Finish, TypeOK
    <3>2. sent' = [sent EXCEPT ![b.src] = @ \cup {b.n}] /\ b.src \in Collectors /\ b.n \in Nat
      BY <2>3, <3>1 DEF Finish, Batch
    <3>3. slot' \in [Workers -> {<<>>} \cup {<<bb>> : bb \in Batch}]
      BY <2>3 DEF Finish, TypeOK
    <3>4. sent' \in [Collectors -> SUBSET Nat]
      BY <3>2 DEF TypeOK
    <3> QED
      BY <2>3, <3>3, <3>4 DEF Finish, TypeOK
  <2>4. CASE Signal
    BY <2>4 DEF Signal, TypeOK
  <2>5. CASE Down
    BY <2>5 DEF Down, TypeOK
  <2>6. CASE UNCHANGED vars
    BY <2>6 DEF vars, TypeOK
  <2> QED
    BY <2>1, <2>2, <2>3, <2>4, <2>5, <2>6 DEF Next
<1> QED
  BY <1>1, <1>2, PTL DEF Spec

----
\* InOrder without the set of positions: a batch is on the line exactly when
\* it has entered and not left.
On(c, n) == \E i \in 1..Len(line) : line[i].src = c /\ line[i].n = n

LineInv ==
  /\ \A c \in Collectors : taken[c] <= accepted[c]
  /\ \A c \in Collectors, n \in Nat : On(c, n) <=> taken[c] < n /\ n <= accepted[c]
  /\ \A i, j \in 1..Len(line) :
       i < j /\ line[i].src = line[j].src => line[i].n < line[j].n

LEMMA LineInvIsInOrder == TypeOK /\ LineInv => InOrder
<1> SUFFICES ASSUME TypeOK, LineInv, NEW c \in Collectors
             PROVE  {line[i].n : i \in {j \in 1..Len(line) : line[j].src = c}}
                      = (taken[c] + 1)..accepted[c]
  BY DEF InOrder, LineInv
<1>1. ASSUME NEW i \in 1..Len(line), line[i].src = c
      PROVE  line[i].n \in (taken[c] + 1)..accepted[c]
  <2>1. line[i] \in Batch
    BY DEF TypeOK
  <2>2. On(c, line[i].n)
    BY <1>1 DEF On
  <2>3. line[i].n \in Nat
    BY <2>1 DEF Batch
  <2>4. taken[c] < line[i].n /\ line[i].n <= accepted[c]
    BY <2>2, <2>3 DEF LineInv
  <2> QED
    BY <2>3, <2>4 DEF TypeOK
<1>2. ASSUME NEW n \in (taken[c] + 1)..accepted[c]
      PROVE  \E i \in 1..Len(line) : line[i].src = c /\ line[i].n = n
  <2>1. n \in Nat /\ taken[c] < n /\ n <= accepted[c]
    BY DEF TypeOK
  <2> QED
    BY <2>1 DEF LineInv, On
<1> QED
  BY <1>1, <1>2

\* The batch at the head is the next one of its collector: an earlier one
\* would have left, a later one stands behind it.
LEMMA HeadIsNext ==
  ASSUME TypeOK, LineInv, line # <<>>
  PROVE  /\ Head(line) = line[1] /\ 1 \in 1..Len(line)
         /\ Head(line).src \in Collectors
         /\ Head(line).n = taken[Head(line).src] + 1
         /\ taken[Head(line).src] < accepted[Head(line).src]
<1>1. Head(line) = line[1] /\ 1 \in 1..Len(line)
  BY DEF TypeOK
<1>2. line[1] \in Batch
  BY <1>1 DEF TypeOK
<1> DEFINE c == line[1].src
<1>3. c \in Collectors /\ line[1].n \in Nat
  BY <1>2 DEF Batch
<1>4. On(c, line[1].n)
  BY <1>1 DEF On
<1>5. taken[c] < line[1].n /\ line[1].n <= accepted[c]
  BY <1>3, <1>4 DEF LineInv
<1>6. taken[c] \in Nat /\ accepted[c] \in Nat
  BY <1>3 DEF TypeOK
<1>7. On(c, taken[c] + 1)
  BY <1>3, <1>5, <1>6 DEF LineInv
<1>8. PICK i \in 1..Len(line) : line[i].src = c /\ line[i].n = taken[c] + 1
  BY <1>7 DEF On
<1>9. line[1].n = taken[c] + 1
  <2>1. CASE i = 1
    BY <2>1, <1>8
  <2>2. CASE i # 1
    <3>1. 1 < i
      BY <2>2
    <3>2. line[1].n < line[i].n
      BY <3>1, <1>1, <1>8 DEF LineInv
    <3> QED
      BY <3>2, <1>8, <1>5, <1>6, <1>3
  <2> QED
    BY <2>1, <2>2
<1> QED
  BY <1>1, <1>3, <1>5, <1>6, <1>9

\* The line's invariant: entering puts a collector's newest batch behind its
\* others, leaving removes its oldest.
LEMMA LineInvInductive == Spec => []LineInv
<1>1. Init => LineInv
  BY DEF Init, LineInv, On
<1>2. TypeOK /\ LineInv /\ [Next]_vars => LineInv'
  <2> SUFFICES ASSUME TypeOK, LineInv, [Next]_vars PROVE LineInv'
    OBVIOUS
  <2>1. ASSUME NEW c \in Collectors, Enter(c) PROVE LineInv'
    <3> DEFINE new == [src |-> c, n |-> accepted[c] + 1]
    <3>1. /\ line' = Append(line, new) /\ taken' = taken
          /\ accepted' = [accepted EXCEPT ![c] = @ + 1]
      BY <2>1 DEF Enter
    <3>2. new.src = c /\ new.n = accepted[c] + 1 /\ accepted[c] \in Nat
      BY DEF TypeOK
    <3>3. /\ Len(line') = Len(line) + 1 /\ Len(line) \in Nat
          /\ \A i \in 1..Len(line) : line'[i] = line[i]
          /\ line'[Len(line) + 1] = new
      BY <3>1 DEF TypeOK
    <3> HIDE DEF new
    <3>4. \A d \in Collectors : taken'[d] <= accepted'[d]
      BY <3>1 DEF LineInv, TypeOK
    <3>5. ASSUME NEW d \in Collectors, NEW n \in Nat
          PROVE  On(d, n)' <=> taken'[d] < n /\ n <= accepted'[d]
      <4>1. On(d, n)' <=> On(d, n) \/ (d = c /\ n = accepted[c] + 1)
        BY <3>2, <3>3 DEF On
      <4>2. On(d, n) <=> taken[d] < n /\ n <= accepted[d]
        BY DEF LineInv
      <4>3. taken[d] \in Nat /\ accepted[d] \in Nat /\ taken[d] <= accepted[d]
        BY DEF TypeOK, LineInv
      <4>4. accepted'[d] = IF d = c THEN accepted[c] + 1 ELSE accepted[d]
        BY <3>1 DEF TypeOK
      <4> QED
        BY <3>1, <4>1, <4>2, <4>3, <4>4
    <3>6. ASSUME NEW i \in 1..Len(line'), NEW j \in 1..Len(line'),
                 i < j, line'[i].src = line'[j].src
          PROVE  line'[i].n < line'[j].n
      <4>1. i \in 1..Len(line) /\ line'[i] = line[i]
        BY <3>3, <3>6
      <4>2. CASE j \in 1..Len(line)
        BY <4>1, <4>2, <3>3, <3>6 DEF LineInv
      <4>3. CASE j = Len(line) + 1
        <5>0. line[i] \in Batch
          BY <4>1 DEF TypeOK
        <5>1. line[i].src = c /\ line[i].n \in Nat
          BY <5>0, <4>1, <4>3, <3>2, <3>3, <3>6 DEF Batch
        <5>2. On(c, line[i].n)
          BY <4>1, <5>1 DEF On
        <5>3. line[i].n <= accepted[c]
          BY <5>1, <5>2 DEF LineInv
        <5> QED
          BY <4>1, <4>3, <5>1, <5>3, <3>2, <3>3
      <4> QED
        BY <4>2, <4>3, <3>3
    <3> QED
      BY <3>4, <3>5, <3>6 DEF LineInv
  <2>2. ASSUME NEW w \in Workers, Leave(w) PROVE LineInv'
    <3> DEFINE c == Head(line).src
    <3>1. /\ line # <<>> /\ line' = Tail(line) /\ accepted' = accepted
          /\ taken' = [taken EXCEPT ![c] = @ + 1]
      BY <2>2 DEF Leave
    <3>2. /\ line[1].src = c /\ line[1].n = taken[c] + 1 /\ 1 \in 1..Len(line)
          /\ c \in Collectors /\ taken[c] < accepted[c]
      BY <3>1, HeadIsNext
    <3>3. /\ Len(line') = Len(line) - 1 /\ Len(line) \in Nat
          /\ \A i \in 1..Len(line') : line'[i] = line[i + 1]
      BY <3>1 DEF TypeOK
    <3> HIDE DEF c
    <3>4. \A d \in Collectors : taken'[d] <= accepted'[d]
      BY <3>1, <3>2 DEF LineInv, TypeOK
    <3>5. ASSUME NEW d \in Collectors, NEW n \in Nat
          PROVE  On(d, n)' <=> taken'[d] < n /\ n <= accepted'[d]
      <4>1. On(d, n)' => On(d, n)
        BY <3>3 DEF On
      <4>2. On(d, n) => On(d, n)' \/ (d = c /\ n = taken[c] + 1)
        <5> SUFFICES ASSUME On(d, n), ~(d = c /\ n = taken[c] + 1) PROVE On(d, n)'
          OBVIOUS
        <5>1. PICK i \in 1..Len(line) : line[i].src = d /\ line[i].n = n
          BY DEF On
        <5>2. i # 1
          BY <5>1, <3>2
        <5>3. i - 1 \in 1..Len(line') /\ line'[i - 1] = line[i]
          BY <5>1, <5>2, <3>3
        <5> QED
          BY <5>1, <5>3 DEF On
      <4>3. ASSUME d = c, n = taken[c] + 1 PROVE ~On(d, n)'
        <5> SUFFICES ASSUME NEW i \in 1..Len(line'),
                            line'[i].src = c, line'[i].n = taken[c] + 1
                     PROVE  FALSE
          BY <4>3 DEF On
        <5>1. i + 1 \in 1..Len(line) /\ 1 < i + 1 /\ line'[i] = line[i + 1]
          BY <3>3
        <5>2. line[1].n < line[i + 1].n
          BY <5>1, <3>2 DEF LineInv
        <5> QED
          BY <5>1, <5>2, <3>2, <4>3
      <4>4. On(d, n) <=> taken[d] < n /\ n <= accepted[d]
        BY DEF LineInv
      <4>5. taken[d] \in Nat /\ accepted[d] \in Nat /\ taken[c] \in Nat
        BY <3>2 DEF TypeOK
      <4>6. taken'[d] = IF d = c THEN taken[c] + 1 ELSE taken[d]
        BY <3>1, <3>2 DEF TypeOK
      <4>7. CASE d = c /\ n = taken[c] + 1
        BY <4>3, <4>5, <4>6, <4>7
      <4>8. CASE ~(d = c /\ n = taken[c] + 1)
        <5>1. On(d, n)' <=> On(d, n)
          BY <4>1, <4>2, <4>8
        <5> QED
          <6>1. CASE d = c
            BY <6>1, <5>1, <4>4, <4>5, <4>6, <4>8, <3>1
          <6>2. CASE d # c
            BY <6>2, <5>1, <4>4, <4>6, <3>1
          <6> QED
            BY <6>1, <6>2
      <4> QED
        BY <4>7, <4>8
    <3>6. ASSUME NEW i \in 1..Len(line'), NEW j \in 1..Len(line'),
                 i < j, line'[i].src = line'[j].src
          PROVE  line'[i].n < line'[j].n
      <4>1. /\ i + 1 \in 1..Len(line) /\ line'[i] = line[i + 1]
            /\ j + 1 \in 1..Len(line) /\ line'[j] = line[j + 1]
            /\ i + 1 < j + 1
        BY <3>3, <3>6
      <4> QED
        BY <4>1, <3>6 DEF LineInv
    <3> QED
      BY <3>4, <3>5, <3>6 DEF LineInv
  <2>3. ASSUME NEW w \in Workers, Finish(w) PROVE LineInv'
    BY <2>3 DEF Finish, LineInv, On
  <2>4. CASE Signal
    BY <2>4 DEF Signal, LineInv, On
  <2>5. CASE Down
    BY <2>5 DEF Down, LineInv, On
  <2>6. CASE UNCHANGED vars
    BY <2>6 DEF vars, LineInv, On
  <2> QED
    BY <2>1, <2>2, <2>3, <2>4, <2>5, <2>6 DEF Next
<1> QED
  BY <1>1, <1>2, Typing, PTL DEF Spec

\* Between the collectors and the workers no batch is lost, repeated or
\* reordered.
THEOREM Fifo == Spec => []InOrder
BY Typing, LineInvInductive, LineInvIsInOrder, PTL

----
\* TriedOnce without sets of workers: worker w is sending batch n of c.
Sending(w, c, n) == slot[w] # <<>> /\ slot[w][1].src = c /\ slot[w][1].n = n

SlotInv ==
  \A c \in Collectors, n \in Nat :
    /\ (1 <= n /\ n <= taken[c]) <=> (n \in sent[c] \/ \E w \in Workers : Sending(w, c, n))
    /\ \A w \in Workers : Sending(w, c, n) => n \notin sent[c]
    /\ \A v, w \in Workers : Sending(v, c, n) /\ Sending(w, c, n) => v = w

LEMMA SlotInvIsTriedOnce == TypeOK /\ SlotInv => TriedOnce
<1> SUFFICES ASSUME TypeOK, SlotInv, NEW c \in Collectors
             PROVE  LET now == {w \in Workers : slot[w] # <<>> /\ slot[w][1].src = c}
                    IN /\ sent[c] \cup {slot[w][1].n : w \in now} = 1..taken[c]
                       /\ \A w \in now : slot[w][1].n \notin sent[c]
                       /\ \A v, w \in now : slot[v] = slot[w] => v = w
  BY DEF TriedOnce
<1> DEFINE now == {w \in Workers : slot[w] # <<>> /\ slot[w][1].src = c}
<1>1. ASSUME NEW w \in now
      PROVE  slot[w][1].n \in Nat /\ Sending(w, c, slot[w][1].n)
  <2>1. PICK b \in Batch : slot[w] = <<b>>
    BY DEF TypeOK
  <2> QED
    BY <2>1 DEF Sending, Batch
<1>2. sent[c] \subseteq Nat /\ taken[c] \in Nat
  BY DEF TypeOK
<1>3. sent[c] \cup {slot[w][1].n : w \in now} = 1..taken[c]
  <2>1. ASSUME NEW n \in sent[c] PROVE n \in 1..taken[c]
    BY <1>2 DEF SlotInv
  <2>2. ASSUME NEW w \in now PROVE slot[w][1].n \in 1..taken[c]
    BY <1>1, <1>2 DEF SlotInv
  <2>3. ASSUME NEW n \in 1..taken[c], n \notin sent[c]
        PROVE  \E w \in now : slot[w][1].n = n
    <3>1. PICK w \in Workers : Sending(w, c, n)
      BY <2>3, <1>2 DEF SlotInv
    <3> QED
      BY <3>1 DEF Sending
  <2> QED
    BY <2>1, <2>2, <2>3
<1>4. \A w \in now : slot[w][1].n \notin sent[c]
  BY <1>1 DEF SlotInv
<1>5. ASSUME NEW v \in now, NEW w \in now, slot[v] = slot[w] PROVE v = w
  BY <1>1, <1>5 DEF SlotInv
<1> QED
  BY <1>3, <1>4, <1>5

\* Every batch a worker has taken is in that worker's hands or has been tried,
\* never both, and never in two workers' hands.
THEOREM OneWorkerEach == Spec => []TriedOnce
<1>1. Init => SlotInv
  BY DEF Init, SlotInv, Sending
<1>2. TypeOK /\ LineInv /\ SlotInv /\ [Next]_vars => SlotInv'
  <2> SUFFICES ASSUME TypeOK, LineInv, SlotInv, [Next]_vars PROVE SlotInv'
    OBVIOUS
  <2>1. ASSUME NEW c \in Collectors, Enter(c) PROVE SlotInv'
    BY <2>1 DEF Enter, SlotInv, Sending
  <2>2. ASSUME NEW w \in Workers, Leave(w) PROVE SlotInv'
    <3> DEFINE h == Head(line)
    <3>1. /\ line # <<>> /\ slot[w] = <<>> /\ sent' = sent
          /\ slot' = [slot EXCEPT ![w] = <<h>>]
          /\ taken' = [taken EXCEPT ![h.src] = @ + 1]
      BY <2>2 DEF Leave
    <3>2. h.src \in Collectors /\ h.n = taken[h.src] + 1
      BY <3>1, HeadIsNext
    <3> HIDE DEF h
    <3> SUFFICES ASSUME NEW d \in Collectors, NEW n \in Nat
                 PROVE  /\ (1 <= n /\ n <= taken'[d]) <=>
                             (n \in sent'[d] \/ \E v \in Workers : Sending(v, d, n)')
                        /\ \A v \in Workers : Sending(v, d, n)' => n \notin sent'[d]
                        /\ \A u, v \in Workers : Sending(u, d, n)' /\ Sending(v, d, n)' => u = v
      BY DEF SlotInv
    <3>3. \A v \in Workers : Sending(v, d, n)' <=>
             (IF v = w THEN h.src = d /\ h.n = n ELSE Sending(v, d, n))
      BY <3>1 DEF Sending, TypeOK
    <3>4. ~Sending(w, d, n)
      BY <3>1 DEF Sending
    <3>5. taken'[d] = IF d = h.src THEN taken[d] + 1 ELSE taken[d]
      BY <3>1, <3>2 DEF TypeOK
    <3>6. taken[d] \in Nat /\ taken[h.src] \in Nat
      BY <3>2 DEF TypeOK
    <3>7. /\ (1 <= n /\ n <= taken[d]) <=> (n \in sent[d] \/ \E v \in Workers : Sending(v, d, n))
          /\ \A v \in Workers : Sending(v, d, n) => n \notin sent[d]
          /\ \A u, v \in Workers : Sending(u, d, n) /\ Sending(v, d, n) => u = v
      BY DEF SlotInv
    <3>8. CASE d = h.src /\ n = h.n
      <4>1. n \notin sent[d] /\ \A v \in Workers : ~Sending(v, d, n)
        BY <3>8, <3>2, <3>6, <3>7
      <4>2. \A v \in Workers : Sending(v, d, n)' <=> v = w
        BY <4>1, <3>3, <3>8
      <4>3. 1 <= n /\ n <= taken'[d]
        BY <3>8, <3>2, <3>5, <3>6
      <4> QED
        BY <4>1, <4>2, <4>3, <3>1
    <3>9. CASE ~(d = h.src /\ n = h.n)
      <4>1. \A v \in Workers : Sending(v, d, n)' <=> Sending(v, d, n)
        BY <3>9, <3>3, <3>4
      <4>2. n <= taken'[d] <=> n <= taken[d]
        BY <3>9, <3>2, <3>5, <3>6
      <4> QED
        BY <4>1, <4>2, <3>1, <3>7
    <3> QED
      BY <3>8, <3>9
  <2>3. ASSUME NEW w \in Workers, Finish(w) PROVE SlotInv'
    <3>1. PICK b \in Batch : slot[w] = <<b>>
      BY <2>3 DEF Finish, TypeOK
    <3>2. /\ sent' = [sent EXCEPT ![b.src] = @ \cup {b.n}] /\ taken' = taken
          /\ slot' = [slot EXCEPT ![w] = <<>>]
          /\ b.src \in Collectors /\ b.n \in Nat
      BY <2>3, <3>1 DEF Finish, Batch
    <3> SUFFICES ASSUME NEW d \in Collectors, NEW n \in Nat
                 PROVE  /\ (1 <= n /\ n <= taken'[d]) <=>
                             (n \in sent'[d] \/ \E v \in Workers : Sending(v, d, n)')
                        /\ \A v \in Workers : Sending(v, d, n)' => n \notin sent'[d]
                        /\ \A u, v \in Workers : Sending(u, d, n)' /\ Sending(v, d, n)' => u = v
      BY DEF SlotInv
    <3>3. \A v \in Workers : Sending(v, d, n)' <=> v # w /\ Sending(v, d, n)
      BY <3>2 DEF Sending, TypeOK
    <3>4. Sending(w, d, n) <=> d = b.src /\ n = b.n
      BY <3>1 DEF Sending
    <3>5. n \in sent'[d] <=> n \in sent[d] \/ (d = b.src /\ n = b.n)
      BY <3>2 DEF TypeOK
    <3>7. /\ (1 <= n /\ n <= taken[d]) <=> (n \in sent[d] \/ \E v \in Workers : Sending(v, d, n))
          /\ \A v \in Workers : Sending(v, d, n) => n \notin sent[d]
          /\ \A u, v \in Workers : Sending(u, d, n) /\ Sending(v, d, n) => u = v
      BY DEF SlotInv
    <3> QED
      BY <3>2, <3>3, <3>4, <3>5, <3>7
  <2>4. CASE Signal
    BY <2>4 DEF Signal, SlotInv, Sending
  <2>5. CASE Down
    BY <2>5 DEF Down, SlotInv, Sending
  <2>6. CASE UNCHANGED vars
    BY <2>6 DEF vars, SlotInv, Sending
  <2> QED
    BY <2>1, <2>2, <2>3, <2>4, <2>5, <2>6 DEF Next
<1> QED
  BY <1>1, <1>2, Typing, LineInvInductive, SlotInvIsTriedOnce, PTL DEF Spec
====
