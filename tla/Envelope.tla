---- MODULE Envelope ----
(***************************************************************************)
(* What happens to a batch between the collector that makes it and the     *)
(* storage that applies it, as operators: the hash of a metric             *)
(* (utils/hash.go, app/agent.go, server/handlers.go), the encryption in    *)
(* blocks (crypto/utils.go) and the merging of duplicates (handlers.go).   *)
(*                                                                         *)
(* A metric has an id, a type, an amount and a hash.  A pointer and an     *)
(* optional string are sequences of at most one element.  A hash is what   *)
(* it is computed from: HMAC-SHA256 is taken to be injective.  A byte of a *)
(* text is the text and the position in it.                                *)
(***************************************************************************)
EXTENDS Integers, Sequences, SequencesExt

CONSTANTS
  Width,     \* bits of an int64
  BlockSize  \* bytes that fit into one RSA block, the key size less 11

ASSUME EnvelopeAssumption == Width \in Nat \ {0} /\ BlockSize \in Nat \ {0}

\* Mutant: integers without a width.
Wrap_Unbounded(i) == i

\* 2^(Width - 1): an int64 is at least its negative and below it.
Limit ==
  LET power[n \in 0..(Width - 1)] == IF n = 0 THEN 1 ELSE 2 * power[n - 1]
  IN  power[Width - 1]

Int64s == -Limit..(Limit - 1)

\* Two's complement.
Wrap(i) == ((i + Limit) % (2 * Limit)) - Limit
InRange(i) == i = Wrap(i)

Nil == <<>>

----
\* utils.CalculateHash of the text of a metric.
CalculateHash(m, key) == IF key = "none" THEN <<>> ELSE <<key, m.id, m.type, m.amount>>

Signed(m, key) == [m EXCEPT !.hash = CalculateHash(m, key)]

\* verifyMetricHash
VerifyMetricHash(m, key) ==
  key = "none" \/ /\ m.hash # <<>>
                  /\ m.amount # Nil /\ m.type \in {"gauge", "counter"}
                  /\ m.hash = CalculateHash(m, key)
----
\* The text of a batch, in n bytes.
Bytes(batch, n) == [i \in 1..n |-> <<batch, n, i>>]

\* Reading a text back: it must be complete.
Parses(bytes) == bytes # <<>> /\ bytes = Bytes(bytes[1][1], bytes[1][2])
Parse(bytes) == bytes[1][1]

\* Mutant: the last, shorter block is left out.
EncryptLargeData_WholeBlocks(data, pair) ==
  [i \in 1..(Len(data) \div BlockSize) |->
     [pair |-> pair, data |-> SubSeq(data, (i - 1) * BlockSize + 1, i * BlockSize)]]

\* One encrypted block for each BlockSize bytes, the last one may be shorter.
EncryptLargeData(data, pair) ==
  [i \in 1..((Len(data) + BlockSize - 1) \div BlockSize) |->
     LET last == i * BlockSize IN
     [pair |-> pair,
      data |-> SubSeq(data, last - BlockSize + 1, IF last > Len(data) THEN Len(data) ELSE last)]]

\* A block that another key encrypted is not decrypted.
Decrypts(blocks, pair) == \A i \in DOMAIN blocks : blocks[i].pair = pair
DecryptLargeData(blocks) == FlattenSeq([i \in DOMAIN blocks |-> blocks[i].data])
----
SameMetric(m, n) == m.id = n.id /\ m.type = n.type

\* Mutant: a duplicate counter replaces the earlier one.
Combine_Replace(old, m) == m

\* Two metrics of one name and type: the later one stands, with the sum if
\* both are counters with a delta.
Combine(old, m) ==
  IF m.type = "counter" /\ m.amount # Nil /\ old.amount # Nil
  THEN [m EXCEPT !.amount = <<Wrap(old.amount[1] + @[1])>>]
  ELSE m

\* A metric put into metricsMap of UpdatesHandler, the set of its values.
MergeInto(merged, m) ==
  LET same == {x \in merged : SameMetric(x, m)} IN
  (merged \ same) \cup (IF same = {} THEN {m} ELSE {Combine(x, m) : x \in same})

\* metricsMap after the first n metrics of a batch, and after all.
Merge(batch) ==
  LET merged[n \in 0..Len(batch)] == IF n = 0 THEN {} ELSE MergeInto(merged[n - 1], batch[n])
  IN  merged[Len(batch)]
====
