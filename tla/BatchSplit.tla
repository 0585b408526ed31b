----------------------------- MODULE BatchSplit -----------------------------
(***************************************************************************)
(* How add_batch_task splits a range of items into calls of add_task.      *)
(***************************************************************************)
EXTENDS Integers

\* hardware_concurrency, sizeof(*start) and cacheline_size, which is at least 1 on the
\* threads that initialise it.
BatchInput == [items : Nat, threads : Nat \ {0}, itemSize : Nat \ {0}, line : Nat \ {0}]

\* aligned_batch_size: what each thread would get.
Share(in) == (in.items + in.threads - 1) \div in.threads

\* aligned_batch_size_elements: the cache lines of a share, taken as a number of items.
BatchSize(in) ==
  LET lines == (Share(in) * in.itemSize) \div in.line
  IN IF lines > 1 THEN lines ELSE 1

\* Mutant: rounded up, as for a last batch that is not separate.
FullBatchesUp(in) == (in.items + BatchSize(in) - 1) \div BatchSize(in)

\* num_aligned_batches
FullBatches(in) == in.items \div BatchSize(in)

Unsplit(in) == in.items = 0 \/ in.threads > in.items

\* The calls: the items from `first' up to `stop', which is not among them.
Batches(in) ==
  IF Unsplit(in) THEN [i \in {1} |-> [first |-> 0, stop |-> in.items]]
  ELSE [i \in 1 .. FullBatches(in) + 1 |->
         [first |-> (i - 1) * BatchSize(in),
          stop |-> IF i <= FullBatches(in) THEN i * BatchSize(in) ELSE in.items]]

Holds(batch, x) == batch.first <= x /\ x < batch.stop

\* The iterators that the batches are made of: no batch begins or ends outside the range,
\* or ends before it begins.
BatchesInRange(in) ==
  \A i \in DOMAIN Batches(in) :
    LET batch == Batches(in)[i]
    IN 0 <= batch.first /\ batch.first <= batch.stop /\ batch.stop <= in.items

\* Every item is in one batch, and in one only, although the size of a batch is a number
\* of cache lines used as a number of items.
EachItemOnce(in) ==
  \A x \in 0 .. in.items - 1 :
    \E i \in DOMAIN Batches(in) :
      /\ Holds(Batches(in)[i], x)
      /\ \A j \in DOMAIN Batches(in) : Holds(Batches(in)[j], x) => j = i
=============================================================================
