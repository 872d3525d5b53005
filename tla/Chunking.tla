------------------------------ MODULE Chunking ------------------------------
(***************************************************************************)
(* _chunk_batch (collectors/pipeline.py): the loop that cuts a batch into  *)
(* the chunks a destination is sent, closed by number of items or by       *)
(* bytes.  Events are the positions of the batch; an event is known by its *)
(* serialised size.  One step is one iteration of the loop.                *)
(***************************************************************************)
EXTENDS Integers, Sequences

CONSTANTS
    Limits,  \* batch configurations: max_items, and max_bytes (0 or less: none)
    Batches  \* batches: how many events, and the bytes of the first 0, 1, 2... of them

ASSUME ChunkingAssumption ==
    /\ \A l \in Limits : l.items \in Nat \ {0} /\ l.bytes \in Int
    /\ \A b \in Batches :
        /\ b.len \in Nat /\ b.upto \in [0..b.len -> Nat]
        /\ \A i, j \in 0..b.len : i <= j => b.upto[i] <= b.upto[j]

VARIABLES
    limit,     \* the destination's batch configuration
    batch,     \* the batch
    next,      \* the event the loop takes next
    chunks,    \* chunks closed so far, each a sequence of events
    cur,       \* the open chunk
    curBytes,  \* its size
    done

chunkVars == <<limit, batch, next, chunks, cur, curBytes, done>>

ChunkInit ==
    /\ limit \in Limits
    /\ batch \in Batches
    /\ next = 1
    /\ chunks = <<>> /\ cur = <<>> /\ curBytes = 0
    /\ done = FALSE

UseBytes == limit.bytes > 0
Bytes(e) == IF UseBytes THEN batch.upto[e] - batch.upto[e - 1] ELSE 0

\* Mutant: the chunk is closed one item too late.
FullLate(e) ==
    /\ cur # <<>>
    /\ Len(cur) > limit.items \/ (UseBytes /\ curBytes + Bytes(e) > limit.bytes)

\* The open chunk has no room for event e; an empty one always has.
Full(e) ==
    /\ cur # <<>>
    /\ Len(cur) >= limit.items \/ (UseBytes /\ curBytes + Bytes(e) > limit.bytes)

\* Mutant: the byte count is not reset with the chunk.
TakeUnreset ==
    /\ next <= batch.len
    /\ chunks' = IF Full(next) THEN Append(chunks, cur) ELSE chunks
    /\ cur' = IF Full(next) THEN <<next>> ELSE Append(cur, next)
    /\ curBytes' = curBytes + Bytes(next)
    /\ next' = next + 1
    /\ UNCHANGED <<limit, batch, done>>

\* One iteration: close the open chunk if need be, then append the event.
Take ==
    /\ next <= batch.len
    /\ chunks' = IF Full(next) THEN Append(chunks, cur) ELSE chunks
    /\ cur' = IF Full(next) THEN <<next>> ELSE Append(cur, next)
    /\ curBytes' = (IF Full(next) THEN 0 ELSE curBytes) + Bytes(next)
    /\ next' = next + 1
    /\ UNCHANGED <<limit, batch, done>>

\* Mutant: the last chunk is forgotten.
FinishEarly ==
    /\ next > batch.len
    /\ ~done
    /\ chunks' = IF chunks = <<>> THEN <<cur>> ELSE chunks
    /\ cur' = <<>>
    /\ done' = TRUE
    /\ UNCHANGED <<limit, batch, next, curBytes>>

\* The last chunk; an empty batch becomes one empty chunk, so that the breaker
\* and the metrics see it.
Finish ==
    /\ next > batch.len
    /\ ~done
    /\ chunks' = IF cur # <<>> THEN Append(chunks, cur)
                 ELSE IF chunks = <<>> THEN <<cur>> ELSE chunks
    /\ cur' = <<>>
    /\ done' = TRUE
    /\ UNCHANGED <<limit, batch, next, curBytes>>

ChunkNext == Take \/ Finish
ChunkSpec == ChunkInit /\ [][ChunkNext]_chunkVars

-----------------------------------------------------------------------------
(* Properties.                                                             *)

\* The last event of the i-th chunk; an empty chunk ends before the first.
End(cs, i) == IF i = 0 \/ cs[i] = <<>> THEN 0 ELSE cs[i][Len(cs[i])]

\* The events after a, up to b, in order.
Run(a, b) == [j \in 1..(b - a) |-> a + j]

\* At every point the closed chunks and the open one hold exactly the events read
\* so far, each once and in order: what the limits cut apart is sent as a whole
\* (pipeline.py:2838-2859).
NothingDropped ==
    /\ \A i \in 1..Len(chunks) :
        /\ End(chunks, i - 1) <= End(chunks, i) /\ End(chunks, i) < next
        /\ chunks[i] = Run(End(chunks, i - 1), End(chunks, i))
    /\ cur = Run(End(chunks, Len(chunks)), next - 1)

\* What a chunk of the events after a, up to b may be: within both limits, or a
\* single event that alone exceeds the bytes.
Fits(a, b) ==
    /\ b - a <= limit.items
    /\ UseBytes => b - a = 1 \/ batch.upto[b] - batch.upto[a] <= limit.bytes

\* No chunk exceeds max_items, nor max_bytes unless it is a single event, and
\* none is empty unless the batch is (pipeline.py:2828-2836).
WithinLimits ==
    batch.len > 0 =>
        \A i \in 1..Len(chunks) : chunks[i] # <<>> /\ Fits(End(chunks, i - 1), End(chunks, i))

\* Another way to cut the batch within the limits: the k-th of its m chunks ends
\* with event ends[k].
Cut(m, ends) ==
    /\ ends[0] = 0 /\ ends[m] = batch.len
    /\ \A k \in 1..m : ends[k - 1] < ends[k] /\ Fits(ends[k - 1], ends[k])

\* No other way to cut the batch, in order and within the limits, needs fewer
\* chunks: taking events as they come costs no extra request (pipeline.py:2828).
FewestChunks ==
    batch.len > 0 =>
        \A m \in 0..(Len(chunks) - 1) : \A ends \in [0..m -> 0..batch.len] : ~Cut(m, ends)

-----------------------------------------------------------------------------
(* The inductive strengthening behind the theorems.                        *)

ChunkTypes ==
    /\ limit \in Limits /\ batch \in Batches
    /\ next \in 1..(batch.len + 1)
    /\ chunks \in Seq(Seq(Nat)) /\ cur \in Seq(Nat)
    /\ curBytes \in Nat /\ done \in BOOLEAN

\* While the loop runs, the open chunk is within the limits, its bytes are counted,
\* and it is only empty before the first event.
OpenChunk ==
    LET start == End(chunks, Len(chunks))
    IN  ~done => /\ curBytes = IF UseBytes THEN batch.upto[next - 1] - batch.upto[start] ELSE 0
                 /\ IF next = 1 THEN chunks = <<>> ELSE start < next - 1 /\ Fits(start, next - 1)

Finished == done => next = batch.len + 1

\* No chunk of another cut ends later than the chunk closed in its place.
Ahead(m, ends) ==
    Cut(m, ends) => \A k \in 0..m : k <= Len(chunks) => ends[k] <= End(chunks, k)

\* Ahead, for the cuts TLC can list.
AheadOfSome ==
    \A m \in 0..batch.len : \A ends \in [0..m -> 0..batch.len] : Ahead(m, ends)

=============================================================================
