---- MODULE BatchFlow ----
(***************************************************************************)
(* What the agent's pipeline promises while the process lives: the batches *)
(* the collectors hand over go through one bounded first-in first-out line *)
(* to the workers, each to one worker and once.  AgentPipeline implements  *)
(* this line with three channels and two goroutines between them.          *)
(***************************************************************************)
EXTENDS Integers, Sequences

CONSTANTS
  Collectors,  \* who hands over batches
  Workers,     \* who sends them
  Bound        \* how many batches the line holds

Batch == [src : Collectors, n : Nat \ {0}]

VARIABLES
  line,      \* the batches on their way, oldest first
  slot,      \* the batch each worker is sending, if any
  accepted,  \* batches of each collector that have entered the line
  taken,     \* batches of each collector that have left it
  sent,      \* numbers of the batches of each collector that have been tried
  life       \* "up", "stopping" after a signal, "down" when the process is gone

vars == <<line, slot, accepted, taken, sent, life>>

Init ==
  /\ line = <<>>
  /\ slot = [w \in Workers |-> <<>>]
  /\ accepted = [c \in Collectors |-> 0]
  /\ taken = [c \in Collectors |-> 0]
  /\ sent = [c \in Collectors |-> {}]
  /\ life = "up"

\* The next batch of collector c enters.
Enter(c) ==
  /\ life # "down" /\ Len(line) < Bound
  /\ line' = Append(line, [src |-> c, n |-> accepted[c] + 1])
  /\ accepted' = [accepted EXCEPT ![c] = @ + 1]
  /\ UNCHANGED <<slot, taken, sent, life>>

\* An idle worker takes the oldest batch.
Leave(w) ==
  /\ life # "down" /\ slot[w] = <<>> /\ line # <<>>
  /\ slot' = [slot EXCEPT ![w] = <<Head(line)>>]
  /\ line' = Tail(line)
  /\ taken' = [taken EXCEPT ![Head(line).src] = @ + 1]
  /\ UNCHANGED <<accepted, sent, life>>

\* The worker is done with its batch, sent or given up.
Finish(w) ==
  /\ life # "down" /\ slot[w] # <<>>
  /\ sent' = [sent EXCEPT ![slot[w][1].src] = @ \cup {slot[w][1].n}]
  /\ slot' = [slot EXCEPT ![w] = <<>>]
  /\ UNCHANGED <<line, accepted, taken, life>>

Signal ==
  /\ life = "up" /\ life' = "stopping"
  /\ UNCHANGED <<line, slot, accepted, taken, sent>>

\* Only a process that has been told to stop goes down.
Down ==
  /\ life = "stopping" /\ life' = "down"
  /\ UNCHANGED <<line, slot, accepted, taken, sent>>

Next ==
  \/ \E c \in Collectors : Enter(c)
  \/ \E w \in Workers : Leave(w) \/ Finish(w)
  \/ Signal
  \/ Down

Spec == Init /\ [][Next]_vars

----
TypeOK ==
  /\ line \in Seq(Batch)
  /\ slot \in [Workers -> {<<>>} \cup {<<b>> : b \in Batch}]
  /\ accepted \in [Collectors -> Nat]
  /\ taken \in [Collectors -> Nat]
  /\ sent \in [Collectors -> SUBSET Nat]
  /\ life \in {"up", "stopping", "down"}

\* The line holds exactly the batches that have entered and not left, and those
\* of one collector in the order they were collected.
InOrder ==
  /\ \A c \in Collectors :
       {line[i].n : i \in {j \in 1..Len(line) : line[j].src = c}}
         = (taken[c] + 1)..accepted[c]
  /\ \A i, j \in 1..Len(line) :
       i < j /\ line[i].src = line[j].src => line[i].n < line[j].n

\* A batch that has left is being sent by one worker or has been tried.
TriedOnce ==
  \A c \in Collectors :
    LET now == {w \in Workers : slot[w] # <<>> /\ slot[w][1].src = c}
    IN /\ sent[c] \cup {slot[w][1].n : w \in now} = 1..taken[c]
       /\ \A w \in now : slot[w][1].n \notin sent[c]
       /\ \A v, w \in now : slot[v] = slot[w] => v = w
====
