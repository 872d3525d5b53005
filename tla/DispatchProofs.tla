--------------------------- MODULE DispatchProofs ---------------------------
(***************************************************************************)
(* Theorems about the delivery to one destination: the dispatch of a batch *)
(* (Dispatch), the loop that cuts it into chunks (Chunking) and the breaker *)
(* that lets its sends through (CircuitBreaker), for every batch, number of *)
(* messages and workers, limits of size and of retries, and timing.        *)
(***************************************************************************)
EXTENDS Dispatch, Chunking, CircuitBreaker, TLAPS

-----------------------------------------------------------------------------
(* Dispatch: no event of the batch is lost.                                *)

\* The events of a chunk belong to the batch.
LEMMA ChunkInBatch ==
    ASSUME NEW i \in 1..Len(Chunks)
    PROVE  Chunks[i] \subseteq Events
  BY DEF Events

\* An upsert keeps the table well typed and only adds rows.
LEMMA UpsertFacts ==
    ASSUME rows \in [Events -> Kinds], NEW es, NEW k \in Kinds, k # "none", Upsert(es, k)
    PROVE  /\ rows' \in [Events -> Kinds]
           /\ \A e \in Events : e \in es \/ rows[e] # "none" => rows'[e] # "none"
  BY DEF Upsert

\* Dead-lettering the batch settles all of it, or drops it in the log.
LEMMA PersistFacts ==
    ASSUME TypeOK, NEW k \in Kinds, k # "none", PersistBatch(k),
           UNCHANGED <<accepted, shadowed>>
    PROVE  /\ rows' \in [Events -> Kinds] /\ dropped' \in SUBSET Events
           /\ Events \subseteq Settled'
<1>1. CASE Upsert(Events, k) /\ UNCHANGED dropped
  BY <1>1, UpsertFacts DEF TypeOK, Settled
<1>2. CASE dropped' = dropped \cup Events /\ UNCHANGED rows
  BY <1>2 DEF TypeOK, Settled
<1> QED BY <1>1, <1>2 DEF PersistBatch

\* Every step keeps the types.
LEMMA TypeStep ==
    ASSUME TypeOK, KindKnown, [Next]_vars
    PROVE  TypeOK'
<1> USE DispatchAssumption
<1>0. \A k \in {"rejected", "breaker_open", "exhausted", "destination_missing",
               "cross_tenant_destination"} : k \in Kinds /\ k # "none"
  BY DEF Kinds
<1>1. CASE Reconfigure
  BY <1>1 DEF Reconfigure, TypeOK, fate, run, count
<1>p. ASSUME NEW c \in Copies, NEW phase \in Phases, Publish(c, phase) \/ LetGo(c, "exhausted")
      PROVE  pc' \in [Copies -> Phases] /\ abandoned' \in [Copies -> Causes]
  BY <1>p DEF Publish, LetGo, Goto, Phases, Causes, TypeOK
<1>e. ASSUME NEW c \in Copies, EndRun(c)
      PROVE  chunk' \in [Copies -> 1..Len(Chunks)] /\ attempt' \in [Copies -> 0..MaxAttempts]
  BY <1>e DEF EndRun, TypeOK
<1>2. ASSUME NEW c \in Copies, Undeliverable(c) PROVE TypeOK'
  <2>1. rows' \in [Events -> Kinds] /\ dropped' \in SUBSET Events
    BY <1>0, <1>2, PersistFacts DEF Undeliverable
  <2> QED BY <1>2, <2>1 DEF Undeliverable, Goto, Phases, TypeOK, run, count
<1>3. ASSUME NEW c \in Copies, Shadow(c) PROVE TypeOK'
  BY <1>3 DEF Shadow, Goto, Phases, TypeOK, run, count
<1>4. ASSUME NEW c \in Copies, Start(c) PROVE TypeOK'
  BY <1>4 DEF Start, Goto, Phases, TypeOK, fate, run, count
<1>5. ASSUME NEW c \in Copies, Advance(c), UNCHANGED count
      PROVE  /\ pc' \in [Copies -> Phases] /\ chunk' \in [Copies -> 1..Len(Chunks)]
             /\ attempt' \in [Copies -> 0..MaxAttempts]
             /\ retries' \in [Copies -> 0..MaxRetries] /\ kind' \in [Copies -> Kinds]
             /\ abandoned' \in [Copies -> Causes]
             /\ transients' \in 0..MaxTransients /\ crashes' \in 0..MaxCrashes
  <2>1. pc' \in [Copies -> Phases]
    BY <1>5 DEF Advance, Goto, Phases, TypeOK
  <2>2. chunk' \in [Copies -> 1..Len(Chunks)]
    <3>1. CASE chunk[c] < Len(Chunks)
      <4>1. chunk[c] + 1 \in 1..Len(Chunks) /\ chunk' = [chunk EXCEPT ![c] = @ + 1]
        BY <1>5, <3>1 DEF Advance, TypeOK
      <4> QED BY <4>1 DEF TypeOK
    <3> QED BY <1>5, <1>e, <3>1 DEF Advance
  <2>3. attempt' \in [Copies -> 0..MaxAttempts]
    <3>1. attempt' = [attempt EXCEPT ![c] = 0]
      BY <1>5 DEF Advance, EndRun
    <3> QED BY <3>1 DEF TypeOK
  <2> QED BY <1>5, <2>1, <2>2, <2>3 DEF Advance, TypeOK, count
<1>6. ASSUME NEW c \in Copies, Transient(c)
      PROVE  /\ pc' \in [Copies -> Phases] /\ chunk' \in [Copies -> 1..Len(Chunks)]
             /\ attempt' \in [Copies -> 0..MaxAttempts]
             /\ retries' \in [Copies -> 0..MaxRetries] /\ kind' \in [Copies -> Kinds]
             /\ abandoned' \in [Copies -> Causes]
             /\ transients' \in 0..MaxTransients /\ crashes' \in 0..MaxCrashes
  <2>1. pc' \in [Copies -> Phases] /\ abandoned' \in [Copies -> Causes]
    BY <1>6, <1>p DEF Transient, Phases
  <2>2. retries' \in [Copies -> 0..MaxRetries]
    <3>1. \/ retries' = retries
          \/ retries[c] < MaxRetries /\ retries' = [retries EXCEPT ![c] = @ + 1]
      BY <1>6 DEF Transient
    <3>2. retries[c] < MaxRetries => retries[c] + 1 \in 0..MaxRetries
      BY DEF TypeOK
    <3> QED BY <3>1, <3>2 DEF TypeOK
  <2>3. transients' \in 0..MaxTransients
    BY <1>6 DEF Transient, TypeOK
  <2> QED BY <1>6, <1>e, <2>1, <2>2, <2>3 DEF Transient, TypeOK
<1>7. ASSUME NEW c \in Copies, Sending(c)
      PROVE  /\ Chunks[chunk[c]] \subseteq Events /\ target' \in Targets
             /\ shadowed' \in SUBSET Events
  BY <1>7, ChunkInBatch DEF Sending, TypeOK
<1>8. ASSUME NEW c \in Copies, Accept(c) PROVE TypeOK'
  BY <1>5, <1>7, <1>8 DEF Accept, TypeOK
<1>9. ASSUME NEW c \in Copies, Reject(c) PROVE TypeOK'
  <2>1. PICK es \in SUBSET Chunks[chunk[c]] :
          /\ Sending(c) /\ accepted' = accepted \cup (Chunks[chunk[c]] \ es)
          /\ \/ Upsert(es, "rejected") /\ Advance(c) /\ UNCHANGED count
             \/ UNCHANGED rows /\ Transient(c)
          /\ UNCHANGED dropped
    BY <1>9 DEF Reject
  <2>2. rows' \in [Events -> Kinds]
    BY <1>0, <2>1, UpsertFacts DEF TypeOK
  <2>3. accepted' \in SUBSET Events /\ dropped' \in SUBSET Events
    BY <1>7, <2>1 DEF TypeOK
  <2> QED BY <1>5, <1>6, <1>7, <2>1, <2>2, <2>3 DEF TypeOK
<1>10. ASSUME NEW c \in Copies, Retry(c) PROVE TypeOK'
  <2>1. PICK es \in SUBSET Chunks[chunk[c]] :
          /\ Sending(c) /\ accepted' = accepted \cup es
          /\ \/ /\ attempt[c] < MaxAttempts
                /\ attempt' = [attempt EXCEPT ![c] = @ + 1]
                /\ UNCHANGED <<pc, chunk, retries, kind, abandoned, count>>
             \/ Transient(c)
          /\ UNCHANGED <<rows, dropped>>
    BY <1>10 DEF Retry
  <2>2. accepted' \in SUBSET Events /\ UNCHANGED <<rows, dropped>>
    BY <1>7, <2>1 DEF TypeOK
  <2>3. CASE /\ attempt[c] < MaxAttempts
             /\ attempt' = [attempt EXCEPT ![c] = @ + 1]
             /\ UNCHANGED <<pc, chunk, retries, kind, abandoned, count>>
    BY <1>7, <2>1, <2>2, <2>3, SMTT(30) DEF TypeOK, count
  <2>4. CASE Transient(c)
    BY <1>6, <1>7, <2>1, <2>2, <2>4 DEF TypeOK
  <2> QED BY <2>1, <2>3, <2>4
<1>11. ASSUME NEW c \in Copies, NEW k \in Kinds, DeadLetter(c, k) PROVE TypeOK'
  <2>1. pc' \in [Copies -> Phases] /\ abandoned' \in [Copies -> Causes]
    BY <1>11, <1>p DEF DeadLetter, Phases
  <2> QED BY <1>11, <1>e, <2>1 DEF DeadLetter, TypeOK, fate, count
<1>12. ASSUME NEW c \in Copies, DispatchToDlq(c) PROVE TypeOK'
  <2>1. kind[c] \in Kinds /\ kind[c] # "none"
    BY <1>12 DEF DispatchToDlq, KindKnown, TypeOK
  <2>2. rows' \in [Events -> Kinds] /\ dropped' \in SUBSET Events
    BY <1>12, <2>1, PersistFacts DEF DispatchToDlq
  <2> QED BY <1>12, <2>2 DEF DispatchToDlq, Goto, Phases, TypeOK, run, count
<1>13. ASSUME NEW c \in Copies, Crash(c) \/ EnqueueAgain(c) PROVE TypeOK'
  <2>1. pc' \in [Copies -> Phases]
    BY <1>13 DEF Crash, EnqueueAgain, Goto, Phases, TypeOK
  <2>2. crashes' \in 0..MaxCrashes /\ transients' = transients
    BY <1>13, SMTT(30) DEF Crash, EnqueueAgain, TypeOK, count
  <2>3. UNCHANGED <<target, fate, retries, kind, abandoned>>
    BY <1>13 DEF Crash, EnqueueAgain, run
  <2>4. chunk' \in [Copies -> 1..Len(Chunks)] /\ attempt' \in [Copies -> 0..MaxAttempts]
    BY <1>13, <1>e DEF Crash, EnqueueAgain, run, TypeOK
  <2> QED BY <2>1, <2>2, <2>3, <2>4 DEF TypeOK, fate
<1>14. CASE UNCHANGED vars
  BY <1>14 DEF vars, TypeOK, fate, run, count
<1> QED
  BY <1>0, <1>1, <1>2, <1>3, <1>4, <1>8, <1>9, <1>10, <1>11, <1>12, <1>13, <1>14
     DEF Next, Work, BreakerOpen, Unexpected

-----------------------------------------------------------------------------
\* What is settled stays settled, and a finished attempt settles its chunk.
LEMMA SettledGrows ==
    ASSUME TypeOK, TypeOK', KindKnown, [Next]_vars
    PROVE  Settled \subseteq Settled'
<1> USE DEF Settled
<1>1. ASSUME /\ accepted \subseteq accepted' /\ dropped \subseteq dropped'
             /\ shadowed \subseteq shadowed'
             /\ \A e \in Events : rows[e] # "none" => rows'[e] # "none"
      PROVE  Settled \subseteq Settled'
  BY <1>1
<1>2. ASSUME NEW k \in Kinds, k # "none", PersistBatch(k), UNCHANGED <<accepted, shadowed>>
      PROVE  Settled \subseteq Settled'
  BY <1>2, PersistFacts DEF TypeOK
<1> HIDE DEF Settled
<1>3. CASE UNCHANGED fate
  BY <1>1, <1>3 DEF fate
<1>4. ASSUME NEW c \in Copies, Undeliverable(c) PROVE Settled \subseteq Settled'
  BY <1>2, <1>4 DEF Undeliverable, Kinds
<1>5. ASSUME NEW c \in Copies, DispatchToDlq(c) PROVE Settled \subseteq Settled'
  BY <1>2, <1>5 DEF DispatchToDlq, KindKnown, TypeOK
<1>6. ASSUME NEW c \in Copies, Reject(c) PROVE Settled \subseteq Settled'
  <2>1. PICK es : (Upsert(es, "rejected") \/ UNCHANGED rows)
                  /\ accepted \subseteq accepted' /\ UNCHANGED <<dropped, shadowed>>
    BY <1>6 DEF Reject, Sending
  <2>2. \A e \in Events : rows[e] # "none" => rows'[e] # "none"
    BY <2>1 DEF Upsert, TypeOK
  <2> QED BY <1>1, <2>1, <2>2
<1>7. ASSUME NEW c \in Copies, Accept(c) \/ Retry(c) \/ Shadow(c)
      PROVE  Settled \subseteq Settled'
  <2>1. /\ accepted \subseteq accepted' /\ shadowed \subseteq shadowed'
        /\ UNCHANGED <<rows, dropped>>
    BY <1>7 DEF Accept, Retry, Shadow, Sending
  <2> QED BY <1>1, <2>1
<1>8. ASSUME NEW c \in Copies, NEW k,
             Start(c) \/ DeadLetter(c, k) \/ Crash(c) \/ EnqueueAgain(c)
      PROVE  UNCHANGED fate
  BY <1>8 DEF Start, DeadLetter, Crash, EnqueueAgain
<1>9. CASE Reconfigure \/ UNCHANGED vars
  BY <1>3, <1>9 DEF Reconfigure, vars
<1> QED
  BY <1>3, <1>4, <1>5, <1>6, <1>7, <1>8, <1>9 DEF Next, Work, BreakerOpen, Unexpected

\* The parts of DispatchInv besides the types.
Progress ==
    /\ NothingLost /\ PassedSettled /\ RunFresh /\ RetriesCounted /\ AbandonedEnded
    /\ KindKnown /\ HandedOver

\* Where a message goes when its run publishes one, or fails.
LEMMA PublishFacts ==
    ASSUME TypeOK, NEW c \in Copies, NEW phase \in Phases,
           Publish(c, phase) \/ LetGo(c, "exhausted")
    PROVE  /\ \A d \in Copies \ {c} : pc'[d] = pc[d] /\ abandoned'[d] = abandoned[d]
           /\ \/ pc'[c] = phase /\ abandoned'[c] = abandoned[c]
              \/ pc'[c] = "done" /\ abandoned'[c] \in {"refused", "exhausted"}
           /\ Publish(c, phase) /\ abandoned'[c] = "exhausted"
                => pc'[c] = phase /\ abandoned[c] = "exhausted"
  BY DEF Publish, LetGo, Goto, TypeOK

\* A step of one message, said message by message: it stays under way from the first
\* chunk on, is let go with a cause, or ends with the batch settled.
LEMMA MessageStep ==
    ASSUME TypeOK, TypeOK', Progress, Settled \subseteq Settled', NEW c \in Copies,
           \A d \in Copies \ {c} : /\ pc'[d] = pc[d] /\ abandoned'[d] = abandoned[d]
                                   /\ chunk'[d] = chunk[d] /\ kind'[d] = kind[d]
                                   /\ retries'[d] = retries[d],
           transients <= transients',
           retries'[c] <= transients',
           chunk'[c] = 1,
           pc[c] # "done", pc'[c] \in {"queued", "send", "dlq", "done"},
           \/ pc'[c] # "done" /\ abandoned'[c] = abandoned[c]
           \/ pc'[c] = "done" /\ abandoned'[c] = abandoned[c] /\ Events \subseteq Settled'
           \/ pc'[c] = "done" /\ abandoned'[c] = "refused"
           \/ /\ pc'[c] = "done" /\ abandoned'[c] = "exhausted"
              /\ retries'[c] = MaxRetries /\ MaxRetries < transients',
           pc'[c] = "dlq" => kind'[c] # "none"
    PROVE  Progress'
<1>0. abandoned[c] = "no"
  BY DEF Progress, AbandonedEnded
<1>1. NothingLost'
  BY DEF Progress, NothingLost
<1>2. PassedSettled'
  <2> SUFFICES ASSUME NEW d \in Copies, pc'[d] = "send",
                      NEW i \in 1..Len(Chunks), i < chunk'[d]
               PROVE  Chunks[i] \subseteq Settled'
    BY DEF PassedSettled
  <2>1. d # c
    OBVIOUS
  <2> QED BY <2>1 DEF Progress, PassedSettled
<1>3. RunFresh'
  BY DEF Progress, RunFresh
<1>4. RetriesCounted'
  <2>1. \A d \in Copies : retries[d] \in Int
    BY DEF TypeOK
  <2>2. transients \in Int /\ transients' \in Int /\ MaxRetries \in Int
    BY DispatchAssumption DEF TypeOK
  <2>3. ASSUME NEW d \in Copies \ {c}
        PROVE  /\ retries'[d] <= transients'
               /\ abandoned'[d] = "exhausted" => retries'[d] = MaxRetries /\ MaxRetries < transients'
    BY <2>1, <2>2, <2>3 DEF Progress, RetriesCounted
  <2>4. abandoned'[c] = "exhausted" => retries'[c] = MaxRetries /\ MaxRetries < transients'
    BY <1>0
  <2> QED BY <2>3, <2>4 DEF RetriesCounted
<1>5. AbandonedEnded' /\ KindKnown' /\ HandedOver'
  BY <1>0, DispatchAssumption DEF Progress, AbandonedEnded, KindKnown, HandedOver
<1> QED BY <1>1, <1>2, <1>3, <1>4, <1>5 DEF Progress

\* A step that moves no message keeps what was settled behind it.
LEMMA FateStep ==
    ASSUME Progress, Settled \subseteq Settled',
           UNCHANGED <<pc, chunk, retries, kind, abandoned, transients>>
    PROVE  Progress'
  BY DEF Progress, NothingLost, PassedSettled, RunFresh, RetriesCounted, AbandonedEnded,
         KindKnown, HandedOver

\* The chunk that was sent is settled: the message takes the next one or ends.
LEMMA AdvanceStep ==
    ASSUME TypeOK, TypeOK', Progress, Settled \subseteq Settled',
           NEW c \in Copies, Advance(c), pc[c] = "send", UNCHANGED count,
           Chunks[chunk[c]] \subseteq Settled'
    PROVE  Progress'
<1> USE DispatchAssumption
<1>0. Len(Chunks) \in Nat /\ \A d \in Copies : chunk[d] \in 1..Len(Chunks)
  BY DEF TypeOK
<1>1. \A i \in 1..Len(Chunks) : i <= chunk[c] => Chunks[i] \subseteq Settled'
  <2>1. \A i \in 1..Len(Chunks) : i <= chunk[c] => i < chunk[c] \/ i = chunk[c]
    BY <1>0
  <2>2. \A i \in 1..Len(Chunks) : i < chunk[c] => Chunks[i] \subseteq Settled
    BY DEF Progress, PassedSettled
  <2> QED BY <2>1, <2>2
<1>2. CASE chunk[c] < Len(Chunks)
  <2>1. /\ chunk' = [chunk EXCEPT ![c] = @ + 1] /\ pc' = pc
        /\ UNCHANGED <<retries, kind, abandoned, transients>>
    BY <1>2 DEF Advance, count
  <2>2. chunk'[c] = chunk[c] + 1 /\ \A d \in Copies \ {c} : chunk'[d] = chunk[d]
    BY <2>1 DEF TypeOK
  <2>3. \A i \in 1..Len(Chunks) : i < chunk'[c] => i <= chunk[c]
    <3>1. chunk[c] \in Int
      BY <1>0
    <3> QED BY <2>2, <3>1
  <2>4. PassedSettled'
    BY <1>1, <2>1, <2>2, <2>3 DEF Progress, PassedSettled
  <2>5. RunFresh'
    BY <2>1, <2>2 DEF Progress, RunFresh
  <2>6. NothingLost' /\ RetriesCounted' /\ AbandonedEnded' /\ KindKnown' /\ HandedOver'
    BY <2>1 DEF Progress, NothingLost, RetriesCounted, AbandonedEnded, KindKnown, HandedOver
  <2> QED BY <2>4, <2>5, <2>6 DEF Progress
<1>3. CASE ~(chunk[c] < Len(Chunks))
  <2>1. /\ pc' = [pc EXCEPT ![c] = "done"] /\ chunk' = [chunk EXCEPT ![c] = 1]
        /\ UNCHANGED <<retries, kind, abandoned, transients>>
    BY <1>3 DEF Advance, Goto, EndRun, count
  <2>2. Events \subseteq Settled'
    <3>1. \A i \in 1..Len(Chunks) : i <= chunk[c]
      BY <1>0, <1>3
    <3>2. \A i \in 1..Len(Chunks) : Chunks[i] \subseteq Settled'
      BY <1>1, <3>1
    <3> QED BY <3>2 DEF Events
  <2>3. /\ pc'[c] = "done" /\ chunk'[c] = 1
        /\ \A d \in Copies \ {c} : pc'[d] = pc[d] /\ chunk'[d] = chunk[d]
    BY <2>1 DEF TypeOK
  <2>4. transients <= transients' /\ retries'[c] <= transients'
    <3>1. transients \in Int /\ retries[c] <= transients
      BY DEF TypeOK, Progress, RetriesCounted
    <3> QED BY <2>1, <3>1
  <2> QED BY <2>1, <2>2, <2>3, <2>4, MessageStep
<1> QED BY <1>2, <1>3

\* A retryable error: the message is queued again, refused, or exhausted by one failure
\* more than there are retries.
LEMMA TransientStep ==
    ASSUME TypeOK, TypeOK', Progress, Settled \subseteq Settled',
           NEW c \in Copies, Transient(c), pc[c] = "send"
    PROVE  Progress'
<1> USE DispatchAssumption
<1>1. /\ transients \in Nat /\ retries \in [Copies -> 0..MaxRetries]
      /\ retries[c] \in Nat /\ retries[c] <= transients
  BY DEF TypeOK, Progress, RetriesCounted
<1>2. /\ transients' = transients + 1 /\ kind' = kind
      /\ chunk'[c] = 1 /\ \A d \in Copies \ {c} : chunk'[d] = chunk[d]
  BY DEF Transient, EndRun, TypeOK
<1>3. /\ \A d \in Copies \ {c} : retries'[d] = retries[d]
      /\ \/ Publish(c, "queued") /\ retries'[c] = retries[c] + 1
         \/ LetGo(c, "exhausted") /\ retries'[c] = retries[c] /\ retries[c] = MaxRetries
  <2>1. CASE retries[c] < MaxRetries
    BY <1>1, <2>1 DEF Transient
  <2>2. CASE ~(retries[c] < MaxRetries)
    <3>1. retries[c] = MaxRetries
      BY <1>1, <2>2
    <3> QED BY <2>2, <3>1 DEF Transient
  <2> QED BY <2>1, <2>2
<1>4. transients <= transients' /\ retries'[c] <= transients'
  BY <1>1, <1>2, <1>3
<1>5. "queued" \in Phases /\ pc[c] # "done"
  BY DEF Phases
<1>6. /\ \A d \in Copies \ {c} : pc'[d] = pc[d] /\ abandoned'[d] = abandoned[d]
      /\ \/ pc'[c] = "queued" /\ abandoned'[c] = abandoned[c]
         \/ pc'[c] = "done" /\ abandoned'[c] \in {"refused", "exhausted"}
  BY <1>3, <1>5, PublishFacts
<1>7. pc'[c] = "done" /\ abandoned'[c] = "exhausted" =>
        retries'[c] = MaxRetries /\ MaxRetries < transients'
  <2>1. CASE Publish(c, "queued")
    BY <1>5, <2>1, PublishFacts
  <2>2. CASE retries'[c] = retries[c] /\ retries[c] = MaxRetries
    BY <1>1, <1>2, <2>2
  <2> QED BY <1>3, <2>1, <2>2
<1> QED BY <1>2, <1>3, <1>4, <1>5, <1>6, <1>7, MessageStep

\* A step of a message leaves it live, settles the whole batch, or lets it go.
LEMMA ProgressStep ==
    ASSUME TypeOK, TypeOK', Progress,
           Settled \subseteq Settled', [Next]_vars
    PROVE  Progress'
<1> USE DispatchAssumption
<1>0. \A c \in Copies : retries[c] <= transients /\ transients \in Int
  BY DEF Progress, RetriesCounted, TypeOK
<1>1. ASSUME NEW c \in Copies, NEW phase \in {"queued", "send", "done"}, Goto(c, phase),
             pc[c] # "done", phase = "done" => Events \subseteq Settled',
             UNCHANGED <<retries, kind, abandoned, transients>>,
             chunk'[c] = 1, \A d \in Copies \ {c} : chunk'[d] = chunk[d]
      PROVE  Progress'
  <2>1. pc'[c] = phase /\ \A d \in Copies \ {c} : pc'[d] = pc[d]
    BY <1>1 DEF Goto, TypeOK
  <2> QED BY <1>0, <1>1, <2>1, MessageStep
<1>2. ASSUME NEW c \in Copies, Undeliverable(c) \/ Shadow(c) \/ DispatchToDlq(c)
      PROVE  Progress'
  <2>1. Goto(c, "done") /\ pc[c] \in {"queued", "dlq"} /\ UNCHANGED <<run, abandoned, count>>
    BY <1>2 DEF Undeliverable, Shadow, DispatchToDlq
  <2>2. ASSUME Shadow(c) PROVE Events \subseteq Settled'
    BY <2>2 DEF Shadow, Settled, Events
  <2>3. ASSUME Undeliverable(c) PROVE Events \subseteq Settled'
    BY <2>3, PersistFacts DEF Undeliverable, Kinds
  <2>4. ASSUME DispatchToDlq(c) PROVE Events \subseteq Settled'
    BY <2>4, PersistFacts DEF DispatchToDlq, Progress, KindKnown, TypeOK
  <2>5. Events \subseteq Settled'
    BY <1>2, <2>2, <2>3, <2>4
  <2>6. chunk[c] = 1
    BY <2>1 DEF Progress, RunFresh
  <2> QED BY <1>1, <2>1, <2>5, <2>6 DEF run, count
<1>3. ASSUME NEW c \in Copies, Accept(c) PROVE Progress'
  <2>1. Chunks[chunk[c]] \subseteq Settled'
    BY <1>3 DEF Accept, Settled
  <2> QED BY <1>3, <2>1, AdvanceStep DEF Accept, Sending
<1>4. ASSUME NEW c \in Copies, Reject(c) PROVE Progress'
  <2>1. PICK es \in SUBSET Chunks[chunk[c]] :
          /\ pc[c] = "send" /\ accepted' = accepted \cup (Chunks[chunk[c]] \ es)
          /\ \/ Upsert(es, "rejected") /\ Advance(c) /\ UNCHANGED count
             \/ Transient(c)
    BY <1>4 DEF Reject, Sending
  <2>2. CASE Upsert(es, "rejected") /\ Advance(c) /\ UNCHANGED count
    <3>1. Chunks[chunk[c]] \subseteq Events
      BY ChunkInBatch DEF TypeOK
    <3>2. \A e \in es : e \in Settled'
      BY <2>2, <3>1 DEF Upsert, Settled
    <3>3. Chunks[chunk[c]] \subseteq Settled'
      BY <2>1, <3>2 DEF Settled
    <3> QED BY <2>1, <2>2, <3>3, AdvanceStep
  <2> QED BY <2>1, <2>2, TransientStep
<1>5. ASSUME NEW c \in Copies, Retry(c) PROVE Progress'
  <2>1. CASE Transient(c)
    BY <1>5, <2>1, TransientStep DEF Retry, Sending
  <2>2. CASE UNCHANGED <<pc, chunk, retries, kind, abandoned, count>>
    BY <2>2, FateStep DEF count
  <2> QED BY <1>5, <2>1, <2>2 DEF Retry
<1>6. ASSUME NEW c \in Copies, Start(c) PROVE Progress'
  <2>1. chunk[c] = 1
    BY <1>6 DEF Start, Progress, RunFresh
  <2> QED BY <1>1, <1>6, <2>1 DEF Start, run, count
<1>7. ASSUME NEW c \in Copies, Crash(c) PROVE Progress'
  <2>1. chunk'[c] = 1 /\ \A d \in Copies \ {c} : chunk'[d] = chunk[d]
    BY <1>7 DEF Crash, EndRun, TypeOK
  <2> QED BY <1>1, <1>7, <2>1 DEF Crash
<1>8. ASSUME NEW c \in Copies, EnqueueAgain(c) PROVE Progress'
  <2>1. chunk[c] = 1
    BY <1>8 DEF EnqueueAgain, Progress, RunFresh
  <2> QED BY <1>1, <1>8, <2>1 DEF EnqueueAgain, run, count
<1>9. ASSUME NEW c \in Copies, NEW k, k # "none", DeadLetter(c, k) PROVE Progress'
  <2>1. /\ kind'[c] = k /\ chunk'[c] = 1
        /\ \A d \in Copies \ {c} : kind'[d] = kind[d] /\ chunk'[d] = chunk[d]
        /\ UNCHANGED <<retries, transients>>
    BY <1>9 DEF DeadLetter, EndRun, TypeOK, count
  <2>2. "dlq" \in Phases /\ pc[c] # "done" /\ Publish(c, "dlq")
    BY <1>9 DEF Phases, DeadLetter
  <2>3. /\ \A d \in Copies \ {c} : pc'[d] = pc[d] /\ abandoned'[d] = abandoned[d]
        /\ \/ pc'[c] = "dlq" /\ abandoned'[c] = abandoned[c]
           \/ pc'[c] = "done" /\ abandoned'[c] = "refused"
    BY <2>2, PublishFacts
  <2> QED BY <1>0, <1>9, <2>1, <2>2, <2>3, MessageStep
<1>10. CASE Reconfigure \/ UNCHANGED vars
  BY <1>10, FateStep DEF Reconfigure, vars, run, count
<1> QED
  BY <1>2, <1>3, <1>4, <1>5, <1>6, <1>7, <1>8, <1>9, <1>10
     DEF Next, Work, BreakerOpen, Unexpected

\* The initial states satisfy the inductive invariant.
LEMMA InvInit == Init => DispatchInv
<1> SUFFICES ASSUME Init PROVE DispatchInv
  OBVIOUS
<1>1. TypeOK
  BY DispatchAssumption DEF Init, TypeOK, Phases, Kinds, Causes
<1>2. NothingLost /\ PassedSettled /\ RunFresh
  BY DispatchAssumption DEF Init, NothingLost, PassedSettled, RunFresh
<1>3. RetriesCounted /\ AbandonedEnded /\ KindKnown /\ HandedOver
  BY DispatchAssumption DEF Init, RetriesCounted, AbandonedEnded, KindKnown, HandedOver
<1> QED BY <1>1, <1>2, <1>3 DEF DispatchInv

\* Every step keeps it.
LEMMA InvStep ==
    ASSUME DispatchInv, [Next]_vars
    PROVE  DispatchInv' /\ Settled \subseteq Settled'
<1>1. TypeOK /\ Progress /\ KindKnown
  BY DEF DispatchInv, Progress
<1>2. TypeOK' /\ Settled \subseteq Settled'
  BY <1>1, TypeStep, SettledGrows
<1>3. Progress'
  BY <1>1, <1>2, ProgressStep
<1> QED BY <1>2, <1>3 DEF DispatchInv, Progress

\* Counters, chunks, dead letters and causes stay in their domains whatever fails, also
\* when more runs fail than Celery retries (tasks.py:158-290, pipeline.py:2862-3464).
THEOREM DispatchTypes == Spec => []TypeOK
<1>1. DispatchInv /\ [Next]_vars => DispatchInv'
  BY InvStep
<1>2. DispatchInv => TypeOK
  BY DEF DispatchInv
<1> QED
  BY InvInit, <1>1, <1>2, PTL DEF Spec

\* A message that ended has settled the whole batch or is one that was let go, however
\* many runs fail: not between two chunks, not by a rejection, not by a crash, a second
\* message or a change of configuration (tasks.py:158-290, pipeline.py:2862-3464).
THEOREM BatchNeverLost == Spec => []NothingLost
<1>1. DispatchInv /\ [Next]_vars => DispatchInv'
  BY InvStep
<1>2. DispatchInv => NothingLost
  BY DEF DispatchInv
<1> QED
  BY InvInit, <1>1, <1>2, PTL DEF Spec

\* Why a message is let go: its last Celery retry was used and one run more than that
\* failed, or the broker refused the message its run published.
LetGoForCause ==
    \A c \in Copies : abandoned[c] # "no" =>
        /\ pc[c] = "done"
        /\ \/ abandoned[c] = "exhausted" /\ retries[c] = MaxRetries /\ MaxRetries < transients
           \/ abandoned[c] = "refused"

\* A batch with no live message and an unsettled event had one of its messages let go,
\* and only for one of the two causes: a retryable error after the last retry, which
\* writes no dead letter (tasks.py:196-197), or a refused apply_async (tasks.py:206, 221).
THEOREM OnlyLetGoLoses ==
    Spec => [](LetGoForCause /\ (NoSilentLoss \/ \E c \in Copies : abandoned[c] # "no"))
<1>1. DispatchInv /\ [Next]_vars => DispatchInv'
  BY InvStep
<1>2. ASSUME DispatchInv
      PROVE  LetGoForCause /\ (NoSilentLoss \/ \E c \in Copies : abandoned[c] # "no")
  <2>1. LetGoForCause
    BY <1>2 DEF DispatchInv, AbandonedEnded, RetriesCounted, LetGoForCause, TypeOK, Causes
  <2>2. pc[First] = "done" \/ Live(First)
    BY <1>2, DispatchAssumption DEF DispatchInv, HandedOver, TypeOK, Phases, Live
  <2>3. NoSilentLoss \/ \E c \in Copies : abandoned[c] # "no"
    BY <1>2, <2>2, DispatchAssumption DEF DispatchInv, NothingLost, NoSilentLoss
  <2> QED BY <2>1, <2>3
<1> QED
  BY InvInit, <1>1, <1>2, PTL DEF Spec

\* Some message for the batch is live; one was let go.
Owned == \E c \in Copies : Live(c)
Abandoned == \E c \in Copies : abandoned[c] # "no"

\* A message that was let go stays so.
LEMMA AbandonedStays ==
    ASSUME DispatchInv, [Next]_vars
    PROVE  Abandoned => Abandoned'
<1> SUFFICES ASSUME NEW d \in Copies, abandoned[d] # "no" PROVE abandoned'[d] # "no"
  BY DEF Abandoned
<1>1. pc[d] = "done" /\ abandoned \in [Copies -> Causes]
  BY DEF DispatchInv, AbandonedEnded, TypeOK
<1>2. ASSUME NEW c \in Copies, NEW phase, Publish(c, phase) \/ LetGo(c, "exhausted")
      PROVE  abandoned'[d] # "no"
  BY <1>1, <1>2 DEF Publish, LetGo
<1>3. ASSUME NEW c \in Copies, Transient(c) PROVE abandoned'[d] # "no"
  BY <1>2, <1>3 DEF Transient
<1>4. ASSUME NEW c \in Copies, Accept(c) \/ Reject(c) \/ Retry(c) PROVE abandoned'[d] # "no"
  BY <1>3, <1>4 DEF Accept, Reject, Retry, Advance
<1>5. ASSUME NEW c \in Copies, NEW k, DeadLetter(c, k) PROVE abandoned'[d] # "no"
  BY <1>2, <1>5 DEF DeadLetter
<1>6. ASSUME NEW c \in Copies, Undeliverable(c) \/ Shadow(c) \/ Start(c) \/ DispatchToDlq(c)
                               \/ Crash(c) \/ EnqueueAgain(c)
      PROVE  UNCHANGED abandoned
  BY <1>6 DEF Undeliverable, Shadow, Start, DispatchToDlq, Crash, EnqueueAgain
<1>7. CASE Reconfigure \/ UNCHANGED vars
  BY <1>7 DEF Reconfigure, vars
<1> QED
  BY <1>4, <1>5, <1>6, <1>7 DEF Next, Work, BreakerOpen, Unexpected

\* A step of the lane is a step of the contract, or changes nothing it speaks of.
LEMMA ContractStep ==
    ASSUME DispatchInv, [Next]_vars
    PROVE  [Contract!Next]_(Contract!vars)
<1>1. /\ DispatchInv' /\ Settled \subseteq Settled'
      /\ Settled' \in SUBSET Events
  BY InvStep DEF DispatchInv, TypeOK, Settled
<1>2. Owned' \/ Settled' = Events \/ Abandoned'
  <2>1. pc'[First] = "done" \/ Live(First)'
    BY <1>1, DispatchAssumption DEF DispatchInv, HandedOver, TypeOK, Phases, Live
  <2> QED BY <1>1, <2>1, DispatchAssumption DEF DispatchInv, NothingLost, Owned, Abandoned
<1>3. Abandoned => Abandoned'
  BY AbandonedStays
<1>4. CASE Owned
  <2>1. /\ Contract!Work <=>
             /\ Owned /\ Settled' \in SUBSET Events /\ Settled \subseteq Settled'
             /\ Owned' \in BOOLEAN /\ Abandoned' \in BOOLEAN
             /\ (Abandoned => Abandoned')
             /\ (Owned' \/ Settled' = Events \/ Abandoned')
    BY DEF Contract!Work, Owned, Abandoned
  <2>2. Owned' \in BOOLEAN /\ Abandoned' \in BOOLEAN
    BY DEF Owned, Abandoned
  <2> QED BY <1>1, <1>2, <1>3, <1>4, <2>1, <2>2 DEF Contract!Next
<1>5. CASE ~Owned
  <2>1. \A c \in Copies : pc[c] \notin {"queued", "send", "dlq"}
    BY <1>5 DEF Owned, Live
  <2>2. UNCHANGED <<fate, abandoned>>
    <3>1. \A c \in Copies : ~Work(c) /\ ~Crash(c)
      BY <2>1 DEF Work, Undeliverable, Shadow, Start, Accept, Reject, Retry, Sending,
                  BreakerOpen, Unexpected, DeadLetter, DispatchToDlq, Crash
    <3> QED BY <3>1 DEF Next, Reconfigure, EnqueueAgain, vars
  <2>3. Settled' = Settled /\ Abandoned' = Abandoned
    BY <2>2 DEF fate, Settled, Abandoned
  <2>4. CASE Owned'
    BY <1>5, <2>3, <2>4 DEF Contract!Next, Contract!HandOverAgain, Owned, Abandoned
  <2>5. CASE ~Owned'
    BY <1>5, <2>3, <2>5 DEF Contract!vars, Owned, Abandoned
  <2> QED BY <2>4, <2>5
<1> QED BY <1>4, <1>5

\* The Celery lane implements the safety part of the delivery contract, for every
\* batch, chunking, number of messages and retry limit, however many runs fail
\* (tasks.py:148-283, pipeline.py:3028-3462).
THEOREM LaneKeepsContract == Spec => Contract!Safety
<1>1. Init => Contract!Init
  <2> SUFFICES ASSUME Init PROVE Contract!Init
    OBVIOUS
  <2>1. pc[First] = "queued" /\ First \in Copies
    BY DispatchAssumption DEF Init
  <2>2. Owned
    BY <2>1 DEF Owned, Live
  <2>3. Settled = {} /\ ~Abandoned
    BY DEF Init, Settled, Abandoned
  <2> QED BY <2>2, <2>3 DEF Contract!Init, Owned, Abandoned
<1>2. DispatchInv /\ [Next]_vars => DispatchInv'
  BY InvStep
<1>3. DispatchInv /\ [Next]_vars => [Contract!Next]_(Contract!vars)
  BY ContractStep
<1> QED
  BY InvInit, <1>1, <1>2, <1>3, PTL DEF Spec, Contract!Safety

-----------------------------------------------------------------------------
(* Chunking: the loop is ahead of every other cut.                         *)

\* What the runs of consecutive events are made of.
LEMMA RunFacts ==
    ASSUME NEW a \in Nat, NEW b \in Nat, a <= b
    PROVE  /\ Run(a, b) \in Seq(Nat) /\ Len(Run(a, b)) = b - a
           /\ \A j \in 1..(b - a) : Run(a, b)[j] = a + j
           /\ Run(a, b) = <<>> <=> a = b
           /\ Append(Run(a, b), b + 1) = Run(a, b + 1)
           /\ <<b + 1>> = Run(b, b + 1)
<1>1. b - a \in Nat /\ b + 1 - a = (b - a) + 1 /\ b + 1 \in Nat
  OBVIOUS
<1>2. \A j \in 1..(b - a) : a + j \in Nat
  OBVIOUS
<1>3. Run(a, b) \in [1..(b - a) -> Nat] /\ \A j \in 1..(b - a) : Run(a, b)[j] = a + j
  BY <1>2 DEF Run
<1>4. Run(a, b) \in Seq(Nat) /\ Len(Run(a, b)) = b - a
  BY <1>1, <1>3
<1>5. Run(a, b) = <<>> <=> a = b
  BY <1>4, <1>1
<1>6. Append(Run(a, b), b + 1) = Run(a, b + 1)
  <2>1. /\ Append(Run(a, b), b + 1) \in Seq(Nat)
        /\ Len(Append(Run(a, b), b + 1)) = b - a + 1
        /\ \A j \in 1..(b - a) : Append(Run(a, b), b + 1)[j] = a + j
        /\ Append(Run(a, b), b + 1)[b - a + 1] = b + 1
    BY <1>1, <1>3, <1>4
  <2>2. Append(Run(a, b), b + 1) = [j \in 1..(b - a + 1) |-> Append(Run(a, b), b + 1)[j]]
    BY <2>1
  <2>3. \A j \in 1..(b - a + 1) : Append(Run(a, b), b + 1)[j] = a + j
    BY <2>1
  <2> QED BY <1>1, <2>2, <2>3 DEF Run
<1>7. <<b + 1>> = Run(b, b + 1)
  BY DEF Run
<1> QED BY <1>3, <1>4, <1>5, <1>6, <1>7

\* The same for the event before n, as the loop meets them.
LEMMA RunUpTo ==
    ASSUME NEW n \in Nat \ {0}
    PROVE  /\ <<n>> = Run(n - 1, n) /\ Run(n - 1, n) \in Seq(Nat) /\ Run(n - 1, n - 1) = <<>>
           /\ \A a \in Nat : a <= n - 1 =>
                /\ Append(Run(a, n - 1), n) = Run(a, n) /\ Run(a, n) \in Seq(Nat)
                /\ Len(Run(a, n - 1)) = n - 1 - a /\ (Run(a, n - 1) = <<>> <=> a = n - 1)
<1> DEFINE b == n - 1
<1>1. b \in Nat /\ b + 1 = n /\ b <= b /\ b <= b + 1 /\ b + 1 \in Nat
  OBVIOUS
<1> HIDE DEF b
<1>2. <<b + 1>> = Run(b, b + 1) /\ Run(b, b + 1) \in Seq(Nat) /\ Run(b, b) = <<>>
  BY <1>1, RunFacts
<1>3. ASSUME NEW a \in Nat, a <= b
      PROVE  /\ Append(Run(a, b), b + 1) = Run(a, b + 1) /\ Run(a, b + 1) \in Seq(Nat)
             /\ Len(Run(a, b)) = b - a /\ (Run(a, b) = <<>> <=> a = b)
  <2>1. a <= b + 1
    BY <1>1, <1>3
  <2> QED BY <1>1, <1>3, <2>1, RunFacts
<1> QED BY <1>1, <1>2, <1>3 DEF b

\* Where chunks end.
LEMMA EndFacts ==
    ASSUME NEW cs \in Seq(Seq(Nat))
    PROVE  Len(cs) \in Nat /\ End(cs, 0) = 0 /\ \A i \in 0..Len(cs) : End(cs, i) \in Nat
<1>1. ASSUME NEW i \in 1..Len(cs) PROVE End(cs, i) \in Nat
  <2>1. cs[i] \in Seq(Nat)
    OBVIOUS
  <2> QED BY <2>1 DEF End
<1> QED BY <1>1 DEF End

\* Closing the open chunk leaves the others as they are.
LEMMA CloseFacts ==
    ASSUME ChunkTypes, NEW a \in Nat, NEW b \in Nat, a < b, cur = Run(a, b),
           chunks' = Append(chunks, cur)
    PROVE  /\ chunks' \in Seq(Seq(Nat)) /\ Len(chunks') = Len(chunks) + 1
           /\ \A i \in 0..Len(chunks) : End(chunks', i) = End(chunks, i)
           /\ \A i \in 1..Len(chunks) : chunks'[i] = chunks[i]
           /\ chunks'[Len(chunks) + 1] = cur /\ End(chunks', Len(chunks) + 1) = b
<1>1. /\ chunks' \in Seq(Seq(Nat)) /\ Len(chunks') = Len(chunks) + 1
      /\ \A i \in 1..Len(chunks) : chunks'[i] = chunks[i]
      /\ chunks'[Len(chunks) + 1] = cur /\ Len(chunks) \in Nat
  BY DEF ChunkTypes
<1>2. \A i \in 0..Len(chunks) : End(chunks', i) = End(chunks, i)
  BY <1>1 DEF End
<1>3. cur # <<>> /\ cur[Len(cur)] = b
  <2>1. a <= b /\ a # b /\ b - a \in 1..(b - a) /\ a + (b - a) = b
    OBVIOUS
  <2>2. Len(cur) = b - a /\ cur # <<>> /\ cur[b - a] = a + (b - a)
    BY <2>1, RunFacts
  <2> QED BY <2>1, <2>2
<1>4. End(chunks', Len(chunks) + 1) = b
  <2>1. Len(chunks) + 1 # 0
    BY <1>1
  <2> QED BY <1>1, <1>3, <2>1 DEF End
<1> QED BY <1>1, <1>2, <1>4

\* A chunk that begins no later than the open one and has room for the next event
\* would have to be larger than the limits: the greedy loop is ahead of every cut.
LEMMA GreedyAhead ==
    ASSUME ChunkTypes, next <= batch.len, Full(next),
           NEW a \in 0..batch.len, a < next - 1, Len(cur) = next - 1 - a,
           curBytes = IF UseBytes THEN batch.upto[next - 1] - batch.upto[a] ELSE 0,
           NEW c \in 0..batch.len, NEW d \in 0..batch.len, c <= a, Fits(c, d)
    PROVE  d <= next - 1
<1> SUFFICES ASSUME d >= next PROVE FALSE
  BY DEF ChunkTypes
<1>0. batch \in Batches /\ limit \in Limits /\ next \in 1..(batch.len + 1)
  BY DEF ChunkTypes
<1>a. /\ batch.len \in Nat /\ batch.upto \in [0..batch.len -> Nat]
      /\ limit.items \in Nat /\ limit.bytes \in Int
      /\ \A i, j \in 0..batch.len : i <= j => batch.upto[i] <= batch.upto[j]
  BY <1>0, ChunkingAssumption
<1>b. next \in Nat /\ a \in Nat /\ c \in Nat /\ d \in Nat
  BY <1>0, <1>a
<1>1. CASE Len(cur) >= limit.items
  <2>1. d - c > limit.items
    BY <1>a, <1>b, <1>1
  <2> QED BY <1>a, <1>b, <2>1 DEF Fits
<1>2. CASE UseBytes /\ curBytes + Bytes(next) > limit.bytes
  <2>1. next \in 0..batch.len /\ next - 1 \in 0..batch.len
    BY <1>a, <1>b
  <2>2. /\ batch.upto[next] \in Nat /\ batch.upto[next - 1] \in Nat
        /\ batch.upto[a] \in Nat /\ batch.upto[c] \in Nat /\ batch.upto[d] \in Nat
    BY <1>a, <2>1
  <2>3. curBytes = batch.upto[next - 1] - batch.upto[a]
        /\ Bytes(next) = batch.upto[next] - batch.upto[next - 1]
    BY <1>2 DEF Bytes
  <2>4. batch.upto[c] <= batch.upto[a] /\ batch.upto[next] <= batch.upto[d]
    BY <1>a, <1>b, <2>1
  <2>5. batch.upto[d] - batch.upto[c] > limit.bytes
    <3>1. \A p, q, r, v, w \in Nat : \A l \in Int :
            v <= p /\ r <= w /\ (q - p) + (r - q) > l => w - v > l
      OBVIOUS
    <3>2. (batch.upto[next - 1] - batch.upto[a]) + (batch.upto[next] - batch.upto[next - 1])
            > limit.bytes
      BY <1>2, <2>3
    <3> QED BY <1>a, <2>2, <2>4, <3>1, <3>2, ZenonT(30)
  <2>6. d - c # 1
    BY <1>b
  <2>7. batch.upto[d] - batch.upto[c] <= limit.bytes
    BY <1>2, <2>6 DEF Fits
  <2>8. \A x, l \in Int : ~(x > l /\ x <= l)
    OBVIOUS
  <2>9. batch.upto[d] - batch.upto[c] \in Int
    BY <2>2, SMTT(30)
  <2> QED BY <1>a, <2>5, <2>7, <2>8, <2>9
<1> QED BY <1>1, <1>2 DEF Full

AheadOfAll == \A m \in Nat : \A ends \in [0..m -> 0..batch.len] : Ahead(m, ends)

ChunkInv ==
    ChunkTypes /\ NothingDropped /\ OpenChunk /\ Finished /\ WithinLimits /\ AheadOfAll

\* Closing the open chunk, in the loop or behind it.
LEMMA CloseStep ==
    ASSUME ChunkInv, ~done, UNCHANGED <<limit, batch>>,
           cur # <<>>, chunks' = Append(chunks, cur),
           (Full(next) /\ next <= batch.len) \/ next = batch.len + 1
    PROVE  /\ chunks' \in Seq(Seq(Nat)) /\ Len(chunks') \in Nat /\ End(chunks', Len(chunks')) = next - 1
           /\ \A i \in 1..Len(chunks') :
                /\ End(chunks', i - 1) <= End(chunks', i) /\ End(chunks', i) < next
                /\ chunks'[i] = Run(End(chunks', i - 1), End(chunks', i))
                /\ batch.len > 0 => chunks'[i] # <<>> /\ Fits(End(chunks', i - 1), End(chunks', i))
           /\ AheadOfAll'
<1> DEFINE E == End(chunks, Len(chunks))
<1>0. /\ next \in Nat /\ batch.len \in Nat /\ Len(chunks) \in Nat /\ E \in Nat
      /\ next - 1 \in Nat /\ next - 1 \in 0..batch.len
  <2>1. batch.len \in Nat /\ next \in 1..(batch.len + 1)
    BY ChunkingAssumption DEF ChunkInv, ChunkTypes
  <2> QED BY <2>1, EndFacts DEF ChunkInv, ChunkTypes
<1>1. cur = Run(E, next - 1)
  BY DEF ChunkInv, NothingDropped
<1>2. /\ E < next - 1 /\ Fits(E, next - 1)
      /\ curBytes = IF UseBytes THEN batch.upto[next - 1] - batch.upto[E] ELSE 0
  <2>1. E <= next - 1
    BY <1>0, EndFacts DEF ChunkInv, ChunkTypes, OpenChunk
  <2>2. E # next - 1
    BY <1>0, <1>1, <2>1, RunFacts
  <2>3. next # 1
    BY <1>0, <2>1, <2>2
  <2> QED BY <2>3 DEF ChunkInv, OpenChunk
<1>3. /\ chunks' \in Seq(Seq(Nat)) /\ Len(chunks') = Len(chunks) + 1
      /\ \A i \in 0..Len(chunks) : End(chunks', i) = End(chunks, i)
      /\ \A i \in 1..Len(chunks) : chunks'[i] = chunks[i]
      /\ chunks'[Len(chunks) + 1] = cur /\ End(chunks', Len(chunks) + 1) = next - 1
  BY <1>0, <1>1, <1>2, CloseFacts DEF ChunkInv
<1>4. ASSUME NEW i \in 1..Len(chunks')
      PROVE  /\ End(chunks', i - 1) <= End(chunks', i) /\ End(chunks', i) < next
             /\ chunks'[i] = Run(End(chunks', i - 1), End(chunks', i))
             /\ batch.len > 0 => chunks'[i] # <<>> /\ Fits(End(chunks', i - 1), End(chunks', i))
  <2>1. CASE i \in 1..Len(chunks)
    <3>1. i - 1 \in 0..Len(chunks) /\ i \in 0..Len(chunks)
      BY <1>0, <2>1
    <3> QED BY <1>3, <2>1, <3>1 DEF ChunkInv, NothingDropped, WithinLimits
  <2>2. CASE i = Len(chunks) + 1
    <3>1. i - 1 = Len(chunks) /\ Len(chunks) \in 0..Len(chunks)
      BY <1>0, <2>2
    <3>2. End(chunks', i - 1) = E /\ End(chunks', i) = next - 1 /\ chunks'[i] = cur
      BY <1>3, <2>2, <3>1
    <3> QED BY <1>0, <1>1, <1>2, <3>2
  <2> QED BY <1>0, <1>3, <2>1, <2>2
<1>5. AheadOfAll'
  <2> SUFFICES ASSUME NEW m \in Nat, NEW ends \in [0..m -> 0..batch.len], Cut(m, ends),
                      NEW k \in 0..m, k <= Len(chunks')
               PROVE  ends[k] <= End(chunks', k)
    BY DEF AheadOfAll, Ahead, Cut, Fits, UseBytes
  <2>1. \A n \in 0..m : n <= Len(chunks) => ends[n] <= End(chunks, n)
    BY DEF ChunkInv, AheadOfAll, Ahead
  <2>2. CASE k <= Len(chunks)
    BY <1>0, <1>3, <2>1, <2>2
  <2>3. CASE k = Len(chunks) + 1
    <3>1. k \in 1..m /\ k - 1 \in 0..m /\ k - 1 = Len(chunks)
      BY <1>0, <2>3
    <3>2. ends[k - 1] <= E /\ Fits(ends[k - 1], ends[k])
      BY <1>0, <2>1, <3>1 DEF Cut
    <3>3. ends[k] \in 0..batch.len /\ ends[k - 1] \in 0..batch.len /\ E \in 0..batch.len
      BY <1>0, <1>2, <3>1
    <3>4. End(chunks', k) = next - 1
      BY <1>3, <2>3
    <3>5. CASE next = batch.len + 1
      BY <1>0, <3>3, <3>4, <3>5, SMTT(30)
    <3>6. CASE Full(next) /\ next <= batch.len
      <4>1. Len(cur) = next - 1 - E
        <5>1. E <= next - 1
          BY <1>0, <1>2
        <5> QED BY <1>0, <1>1, <5>1, RunFacts
      <4>2. ends[k] <= next - 1
        BY <1>2, <3>2, <3>3, <3>6, <4>1, GreedyAhead DEF ChunkInv
      <4> QED BY <3>4, <4>2
    <3> QED BY <3>5, <3>6
  <2> QED BY <1>0, <1>3, <2>2, <2>3
<1>6. End(chunks', Len(chunks')) = next - 1
  BY <1>3
<1>7. Len(chunks') \in Nat /\ chunks' \in Seq(Seq(Nat))
  BY <1>0, <1>3
<1> QED BY <1>4, <1>5, <1>6, <1>7

LEMMA TakeStep == ASSUME ChunkInv, Take PROVE ChunkInv'
<1> DEFINE E == End(chunks, Len(chunks))
<1>0. /\ batch \in Batches /\ limit \in Limits /\ next \in 1..(batch.len + 1)
      /\ chunks \in Seq(Seq(Nat)) /\ cur \in Seq(Nat) /\ curBytes \in Nat
      /\ limit' = limit /\ batch' = batch /\ done' = done /\ next' = next + 1
      /\ done \in BOOLEAN
      /\ Len(chunks) \in Nat /\ E \in Nat
  BY EndFacts DEF ChunkInv, ChunkTypes, Take
<1>1. /\ batch.len \in Nat /\ batch.upto \in [0..batch.len -> Nat]
      /\ limit.items \in Nat \ {0} /\ limit.bytes \in Int
      /\ \A i, j \in 0..batch.len : i <= j => batch.upto[i] <= batch.upto[j]
  BY <1>0, ChunkingAssumption
<1>2. /\ next \in Nat /\ next <= batch.len /\ next - 1 \in Nat /\ (next - 1) + 1 = next
      /\ next \in 0..batch.len /\ next - 1 \in 0..batch.len
      /\ next' - 1 = next /\ next' \in 1..(batch.len + 1) /\ next' # 1
  BY <1>0, <1>1 DEF Take
<1>3. ~done /\ ~done'
  BY <1>0, <1>1, <1>2 DEF ChunkInv, Finished
<1>4. /\ batch.upto[next] \in Nat /\ batch.upto[next - 1] \in Nat
      /\ batch.upto[next - 1] <= batch.upto[next]
  BY <1>1, <1>2, SMTT(30)
<1>5. Bytes(next) \in Nat /\ curBytes' \in Nat
  <2>1. Bytes(next) \in Nat
    BY <1>4 DEF Bytes
  <2> QED BY <1>0, <2>1 DEF Take
<1>6. /\ cur = Run(E, next - 1) /\ E <= next - 1 /\ (next # 1 => E < next - 1 /\ Fits(E, next - 1))
      /\ curBytes = IF UseBytes THEN batch.upto[next - 1] - batch.upto[E] ELSE 0
  <2>1. next = 1 => E = 0
    BY <1>3, EndFacts DEF ChunkInv, ChunkTypes, OpenChunk
  <2> QED BY <1>0, <1>2, <1>3, <2>1 DEF ChunkInv, NothingDropped, OpenChunk
<1>7. Finished'
  BY <1>3 DEF Finished
<1>8. CASE Full(next)
  <2>1. cur # <<>> /\ chunks' = Append(chunks, cur) /\ cur' = <<next>> /\ curBytes' = Bytes(next)
    BY <1>8, <1>5 DEF Full, Take
  <2>2. /\ chunks' \in Seq(Seq(Nat)) /\ Len(chunks') \in Nat
        /\ End(chunks', Len(chunks')) = next - 1
        /\ \A i \in 1..Len(chunks') :
             /\ End(chunks', i - 1) <= End(chunks', i) /\ End(chunks', i) < next
             /\ chunks'[i] = Run(End(chunks', i - 1), End(chunks', i))
             /\ batch.len > 0 => chunks'[i] # <<>> /\ Fits(End(chunks', i - 1), End(chunks', i))
        /\ AheadOfAll'
    BY <1>0, <1>2, <1>3, <1>8, <2>1, CloseStep
  <2>3. cur' = Run(next - 1, next) /\ cur' \in Seq(Nat)
    <3>1. next \in Nat \ {0}
      BY <1>2
    <3> QED BY <2>1, <3>1, RunUpTo
  <2>4. ChunkTypes'
    BY <1>0, <1>2, <1>5, <2>2, <2>3, <1>3 DEF ChunkTypes
  <2>5. NothingDropped'
    <3>1. \A i \in 1..Len(chunks') : End(chunks', i) \in Nat
      BY <2>2, EndFacts
    <3>2. \A i \in 1..Len(chunks') : End(chunks', i) < next'
      <4>1. \A x, y \in Nat : x < y => x < y + 1
        OBVIOUS
      <4> QED BY <1>0, <1>2, <2>2, <3>1, <4>1
    <3> QED BY <1>2, <2>2, <2>3, <3>2 DEF NothingDropped
  <2>6. WithinLimits'
    BY <1>0, <2>2 DEF WithinLimits, Fits, UseBytes
  <2>7. OpenChunk'
    <3>1. next - 1 < next /\ Fits(next - 1, next)
      BY <1>1, <1>2 DEF Fits
    <3>2. curBytes' = IF UseBytes THEN batch.upto[next] - batch.upto[next - 1] ELSE 0
      BY <2>1 DEF Bytes
    <3> QED BY <1>0, <1>2, <2>2, <3>1, <3>2 DEF OpenChunk, Fits, UseBytes
  <2> QED BY <1>7, <2>2, <2>4, <2>5, <2>6, <2>7 DEF ChunkInv
<1>9. CASE ~Full(next)
  <2>1. chunks' = chunks /\ cur' = Append(cur, next) /\ curBytes' = curBytes + Bytes(next)
    BY <1>9 DEF Take
  <2>2. cur' = Run(E, next) /\ cur' \in Seq(Nat)
    <3>1. next \in Nat \ {0}
      BY <1>2
    <3> QED BY <1>0, <1>6, <2>1, <3>1, RunUpTo
  <2>3. ChunkTypes'
    BY <1>0, <1>2, <1>3, <1>5, <2>1, <2>2 DEF ChunkTypes
  <2>4. NothingDropped'
    <3>1. \A i \in 1..Len(chunks) : End(chunks, i) < next'
      BY <1>0, <1>2, EndFacts DEF NothingDropped, ChunkInv
    <3> QED BY <1>2, <2>1, <2>2, <3>1 DEF NothingDropped, ChunkInv
  <2>5. WithinLimits' /\ AheadOfAll'
    BY <1>0, <2>1 DEF WithinLimits, Fits, UseBytes, AheadOfAll, Ahead, Cut, ChunkInv
  <2>6. E \in 0..batch.len /\ batch.upto[E] \in Nat
    BY <1>0, <1>1, <1>2, <1>6
  <2>7. curBytes' = IF UseBytes THEN batch.upto[next] - batch.upto[E] ELSE 0
    BY <1>4, <1>6, <2>1, <2>6 DEF Bytes
  <2>8. E < next /\ Fits(E, next)
    <3>1. CASE cur = <<>>
      <4>1. E = next - 1
        <5>1. next \in Nat \ {0}
          BY <1>2
        <5> QED BY <1>0, <1>6, <3>1, <5>1, RunUpTo
      <4> QED BY <1>1, <1>2, <4>1 DEF Fits
    <3>2. CASE cur # <<>>
      <4>1. Len(cur) = next - 1 - E
        BY <1>0, <1>2, <1>6, RunFacts
      <4>2. Len(cur) < limit.items /\ (UseBytes => curBytes' <= limit.bytes)
        <5>1. Len(cur) \in Nat /\ limit.items \in Int /\ limit.bytes \in Int /\ curBytes' \in Int
          BY <1>0, <1>1, <1>5
        <5>2. ~(Len(cur) >= limit.items) /\ (UseBytes => ~(curBytes' > limit.bytes))
          BY <1>9, <2>1, <3>2 DEF Full
        <5> QED BY <5>1, <5>2
      <4>3. next - E <= limit.items /\ E < next
        BY <1>0, <1>1, <1>2, <1>6, <4>1, <4>2
      <4> QED BY <2>7, <4>2, <4>3 DEF Fits
    <3> QED BY <3>1, <3>2
  <2>9. OpenChunk'
    BY <1>0, <1>2, <2>1, <2>7, <2>8 DEF OpenChunk, Fits, UseBytes
  <2> QED BY <1>7, <2>3, <2>4, <2>5, <2>9 DEF ChunkInv
<1> QED BY <1>8, <1>9

LEMMA FinishStep == ASSUME ChunkInv, Finish PROVE ChunkInv'
<1> DEFINE E == End(chunks, Len(chunks))
<1>0. /\ batch \in Batches /\ limit \in Limits /\ next \in 1..(batch.len + 1)
      /\ chunks \in Seq(Seq(Nat)) /\ cur \in Seq(Nat) /\ curBytes \in Nat
      /\ limit' = limit /\ batch' = batch /\ next' = next /\ curBytes' = curBytes /\ ~done /\ done' = TRUE /\ cur' = <<>>
      /\ Len(chunks) \in Nat /\ E \in Nat
  BY EndFacts DEF ChunkInv, ChunkTypes, Finish
<1>1. batch.len \in Nat
  BY <1>0, ChunkingAssumption
<1>2. next = batch.len + 1 /\ next - 1 = batch.len
  <2>1. next \in 1..(batch.len + 1) /\ next > batch.len
    BY <1>0 DEF Finish
  <2> QED BY <1>1, <2>1
<1>3. Finished' /\ OpenChunk'
  BY <1>0, <1>2 DEF Finished, OpenChunk
<1>4. cur' = Run(next - 1, next' - 1)
  <2>1. next \in Nat \ {0}
    BY <1>1, <1>2
  <2> QED BY <1>0, <2>1, RunUpTo
<1>5. CASE cur # <<>>
  <2>1. chunks' = Append(chunks, cur)
    BY <1>5 DEF Finish
  <2>2. /\ chunks' \in Seq(Seq(Nat)) /\ Len(chunks') \in Nat
        /\ End(chunks', Len(chunks')) = next - 1
        /\ \A i \in 1..Len(chunks') :
             /\ End(chunks', i - 1) <= End(chunks', i) /\ End(chunks', i) < next
             /\ chunks'[i] = Run(End(chunks', i - 1), End(chunks', i))
             /\ batch.len > 0 => chunks'[i] # <<>> /\ Fits(End(chunks', i - 1), End(chunks', i))
        /\ AheadOfAll'
    BY <1>0, <1>2, <1>5, <2>1, CloseStep
  <2>3. ChunkTypes'
    BY <1>0, <2>2 DEF ChunkTypes
  <2>4. NothingDropped'
    BY <1>0, <1>4, <2>2 DEF NothingDropped
  <2>5. WithinLimits'
    BY <1>0, <2>2 DEF WithinLimits, Fits, UseBytes
  <2> QED BY <1>3, <2>2, <2>3, <2>4, <2>5 DEF ChunkInv
<1>6. CASE cur = <<>>
  <2>1. next = 1 /\ chunks = <<>> /\ batch.len = 0
    <3>1. cur = Run(E, next - 1)
      BY DEF ChunkInv, NothingDropped
    <3>2. next # 1 => E < next - 1
      BY <1>0 DEF ChunkInv, OpenChunk
    <3>3. next # 1 => cur # <<>>
      <4>1. next \in Nat \ {0}
        BY <1>1, <1>2
      <4>2. next # 1 => E <= next - 1 /\ E # next - 1
        BY <1>0, <3>2, <4>1
      <4> QED BY <1>0, <3>1, <4>1, <4>2, RunUpTo
    <3> QED BY <1>0, <1>1, <1>2, <1>6, <3>3 DEF ChunkInv, OpenChunk
  <2>2. chunks' = << <<>> >>
    BY <1>6, <2>1 DEF Finish
  <2>3. chunks' \in Seq(Seq(Nat)) /\ Len(chunks') = 1 /\ chunks'[1] = <<>>
    BY <2>2
  <2>4. End(chunks', 0) = 0 /\ End(chunks', 1) = 0 /\ Run(0, 0) = <<>>
    <3>1. Run(0, 0) = <<>>
      BY RunFacts
    <3> QED BY <2>3, <3>1 DEF End
  <2>5. ChunkTypes'
    BY <1>0, <2>3 DEF ChunkTypes
  <2>6. NothingDropped'
    BY <1>0, <2>1, <2>3, <2>4 DEF NothingDropped
  <2>7. WithinLimits'
    BY <1>0, <2>1 DEF WithinLimits
  <2>8. AheadOfAll'
    <3> SUFFICES ASSUME NEW m \in Nat, NEW ends \in [0..m -> 0..0],
                        NEW k \in 0..m, k <= 1
                 PROVE  ends[k] <= End(chunks', k)
      <4>1. batch'.len = 0
        BY <1>0, <2>1
      <4> QED BY <2>3, <4>1 DEF AheadOfAll, Ahead
    <3>1. ends[k] = 0
      OBVIOUS
    <3> QED BY <2>4, <3>1
  <2> QED BY <1>3, <2>5, <2>6, <2>7, <2>8 DEF ChunkInv
<1> QED BY <1>5, <1>6

\* The invariant holds at first, and every step keeps it.
LEMMA ChunkInductive ==
    /\ ChunkInit => ChunkInv
    /\ ChunkInv /\ [ChunkNext]_chunkVars => ChunkInv'
<1>1. ASSUME ChunkInit PROVE ChunkInv
  <2>1. /\ batch \in Batches /\ limit \in Limits /\ next = 1 /\ chunks = <<>> /\ cur = <<>>
        /\ curBytes = 0 /\ done = FALSE /\ Len(chunks) = 0
    BY <1>1 DEF ChunkInit
  <2>2. batch.len \in Nat /\ batch.upto[0] \in Nat /\ End(chunks, 0) = 0
    BY <2>1, ChunkingAssumption DEF End
  <2>3. ChunkTypes
    <3>1. <<>> \in Seq(Seq(Nat)) /\ <<>> \in Seq(Nat) /\ 1 \in 1..(batch.len + 1)
      BY <2>2
    <3> QED BY <2>1, <3>1 DEF ChunkTypes
  <2>4. NothingDropped
    <3>1. Run(0, 1 - 1) = <<>>
      BY RunUpTo
    <3> QED BY <2>1, <2>2, <3>1 DEF NothingDropped
  <2>5. OpenChunk /\ Finished /\ WithinLimits
    BY <2>1, <2>2 DEF OpenChunk, Finished, WithinLimits
  <2>6. AheadOfAll
    BY <2>1, <2>2 DEF AheadOfAll, Ahead, Cut
  <2> QED BY <2>3, <2>4, <2>5, <2>6 DEF ChunkInv
<1>2. ASSUME ChunkInv, UNCHANGED chunkVars PROVE ChunkInv'
  BY <1>2 DEF chunkVars, ChunkInv, ChunkTypes, NothingDropped, OpenChunk, Finished, WithinLimits,
              AheadOfAll, Ahead, Cut, Fits, UseBytes
<1> QED BY <1>1, <1>2, TakeStep, FinishStep DEF ChunkNext

\* For every batch and every limits, each event is in exactly one chunk, in order
\* (pipeline.py:2838-2859).
THEOREM EventsChunkedOnce == ChunkSpec => []NothingDropped
<1>1. ChunkInv => NothingDropped
  BY DEF ChunkInv
<1> QED BY <1>1, ChunkInductive, PTL DEF ChunkSpec

\* For every batch and every limits, no chunk exceeds the limits but a single event
\* that is too large alone, and none is empty (pipeline.py:2828-2836).
THEOREM ChunksWithinLimits == ChunkSpec => []WithinLimits
<1>1. ChunkInv => WithinLimits
  BY DEF ChunkInv
<1> QED BY <1>1, ChunkInductive, PTL DEF ChunkSpec

\* For every batch and every limits, no other way to cut the batch within the
\* limits takes fewer chunks (pipeline.py:2828).
THEOREM GreedyIsOptimal == ChunkSpec => []FewestChunks
<1>1. ChunkInv => FewestChunks
  <2> SUFFICES ASSUME ChunkInv, batch.len > 0, NEW m \in 0..(Len(chunks) - 1),
                      NEW ends \in [0..m -> 0..batch.len], Cut(m, ends)
               PROVE  FALSE
    BY DEF FewestChunks
  <2>1. /\ Len(chunks) \in Nat /\ batch.len \in Nat /\ next \in 1..(batch.len + 1)
        /\ m \in Nat /\ m \in 0..m /\ m <= Len(chunks) /\ m \in 0..Len(chunks)
        /\ m + 1 \in 1..Len(chunks) /\ (m + 1) - 1 = m
    <3>1. Len(chunks) \in Nat /\ batch.len \in Nat /\ next \in 1..(batch.len + 1)
      BY EndFacts, ChunkingAssumption DEF ChunkInv, ChunkTypes
    <3> QED BY <3>1
  <2>2. batch.len <= End(chunks, m)
    BY <2>1 DEF ChunkInv, AheadOfAll, Ahead, Cut
  <2>3. End(chunks, m) \in Nat /\ End(chunks, m + 1) \in Nat
    BY <2>1, EndFacts DEF ChunkInv, ChunkTypes
  <2>4. /\ End(chunks, m) <= End(chunks, m + 1) /\ End(chunks, m + 1) < next
        /\ chunks[m + 1] = Run(End(chunks, m), End(chunks, m + 1)) /\ chunks[m + 1] # <<>>
    BY <2>1 DEF ChunkInv, NothingDropped, WithinLimits
  <2>5. End(chunks, m) # End(chunks, m + 1)
    BY <2>3, <2>4, RunFacts
  <2> QED BY <2>1, <2>2, <2>3, <2>4, <2>5
<1> QED BY <1>1, ChunkInductive, PTL DEF ChunkSpec

-----------------------------------------------------------------------------
(* CircuitBreaker: an open breaker outlives the outage by the horizon.     *)

\* Every step keeps the types.
LEMMA BreakerTypeStep ==
    ASSUME BreakerTypes, [BreakerNext]_breakerVars
    PROVE  BreakerTypes'
<1> USE BreakerAssumption DEF BreakerTypes
<1>1. ASSUME NEW w \in Workers, Send(w)
      PROVE  /\ at' \in [Workers -> BreakerPhases]
             /\ age' \in [Workers -> 0..SendMax] /\ doomed' \in [Workers -> BOOLEAN]
  BY <1>1 DEF Send, Enter, BreakerPhases
<1>3. ASSUME NEW w \in Workers, NEW phase \in BreakerPhases, Enter(w, phase)
      PROVE  at' \in [Workers -> BreakerPhases]
  BY <1>3 DEF Enter
<1>4. "idle" \in BreakerPhases /\ "probe" \in BreakerPhases /\ "heal" \in BreakerPhases
      /\ "failed" \in BreakerPhases /\ "trip" \in BreakerPhases
  BY DEF BreakerPhases
<1>5. ASSUME NEW w \in Workers, CheckClosed(w) \/ CheckFailsOpen(w) PROVE BreakerTypes'
  <2>1. Send(w) /\ UNCHANGED <<keys, sink>>
    BY <1>5 DEF CheckClosed, CheckFailsOpen
  <2>2. /\ at' \in [Workers -> BreakerPhases]
        /\ age' \in [Workers -> 0..SendMax] /\ doomed' \in [Workers -> BOOLEAN]
    BY <1>1, <2>1
  <2> QED BY <2>1, <2>2 DEF keys, sink
<1>6. ASSUME NEW w \in Workers, WinProbe(w) PROVE BreakerTypes'
  <2>1. Send(w)
    BY <1>6 DEF WinProbe
  <2>2. /\ at' \in [Workers -> BreakerPhases]
        /\ age' \in [Workers -> 0..SendMax] /\ doomed' \in [Workers -> BOOLEAN]
    BY <1>1, <2>1
  <2>3. probeTTL' \in 0..Cooldown
    BY <1>6 DEF WinProbe
  <2> QED BY <1>6, <2>2, <2>3 DEF WinProbe, sink
<1>7. ASSUME NEW w \in Workers,
             CheckOpen(w) \/ Refused(w) \/ Delivered(w) \/ AttemptFails(w)
      PROVE BreakerTypes'
  BY <1>3, <1>4, <1>7 DEF CheckOpen, Refused, Delivered, AttemptFails, keys, sink, sends
<1>8. ASSUME NEW w \in Workers, Unrecorded(w) \/ RecordLost(w) \/ WorkerDies(w) PROVE BreakerTypes'
  BY <1>3, <1>4, <1>8 DEF Unrecorded, RecordLost, WorkerDies, keys, sink, sends
<1>9. ASSUME NEW w \in Workers, RecordSuccess(w) PROVE BreakerTypes'
  BY <1>3, <1>4, <1>9 DEF RecordSuccess, sink, sends
<1>10. ASSUME NEW w \in Workers, RecordFailure(w) PROVE BreakerTypes'
  <2>1. fail' \in 0..Threshold /\ failTTL' \in 0..Window
    BY <1>10 DEF RecordFailure, Incremented
  <2>2. at' \in [Workers -> BreakerPhases]
    BY <1>3, <1>4, <1>10 DEF RecordFailure
  <2> QED BY <1>10, <2>1, <2>2 DEF RecordFailure, sink, sends
<1>11. ASSUME NEW w \in Workers, Trip(w) PROVE BreakerTypes'
  <2>1. at' \in [Workers -> BreakerPhases] /\ openTTL' \in 0..Cooldown
    BY <1>3, <1>4, <1>11 DEF Trip
  <2> QED BY <1>11, <2>1 DEF Trip, sink, sends
<1>12. CASE SinkDown
  <2>1. healthy' \in 0..Horizon /\ doomed' \in [Workers -> BOOLEAN]
    BY <1>12 DEF SinkDown, Horizon
  <2> QED BY <1>12, <2>1 DEF SinkDown, keys
<1>13. CASE SinkUp
  BY <1>13 DEF SinkUp, keys, sends
<1>14. CASE Tick
  <2>1. /\ failTTL' \in 0..Window /\ openTTL' \in 0..Cooldown
        /\ probeTTL' \in 0..Cooldown /\ fail' \in 0..Threshold
    BY <1>14 DEF Tick, Aged
  <2>2. healthy' \in 0..Horizon
    BY <1>14 DEF Tick, Horizon
  <2>3. age' \in [Workers -> 0..SendMax]
    BY <1>14 DEF Tick
  <2> QED BY <1>14, <2>1, <2>2, <2>3 DEF Tick
<1>15. CASE UNCHANGED breakerVars
  BY <1>15 DEF breakerVars, keys, sink, sends
<1> HIDE DEF BreakerTypes
<1> QED
  BY <1>5, <1>6, <1>7, <1>8, <1>9, <1>10, <1>11, <1>12, <1>13, <1>14, <1>15
     DEF BreakerNext, Attempt, Outcome, Record

\* DownResets, LateFailures and OpenEnds: what the horizon rests on.
InTime == DownResets /\ LateFailures /\ OpenEnds

\* No step makes a failure later, or an open key longer, than the horizon.
LEMMA InTimeStep ==
    ASSUME BreakerTypes, InTime, [BreakerNext]_breakerVars
    PROVE  InTime'
<1> USE BreakerAssumption DEF InTime, DownResets, LateFailures, OpenEnds
<1>1. ASSUME NEW w \in Workers, Send(w),
             UNCHANGED <<openTTL, sink>>
      PROVE  InTime'
  <2>1. up' = up /\ healthy' = healthy /\ openTTL' = openTTL
    BY <1>1 DEF sink
  <2>2. /\ at' = [at EXCEPT ![w] = "send"] /\ age' = [age EXCEPT ![w] = 0]
        /\ doomed' = [doomed EXCEPT ![w] = ~up]
    BY <1>1 DEF Send, Enter
  <2>3. doomed'[w] => healthy = 0
    BY <2>2 DEF BreakerTypes
  <2>4. ASSUME NEW v \in Workers, v # w
        PROVE  at'[v] = at[v] /\ age'[v] = age[v] /\ (doomed'[v] <=> doomed[v])
    BY <2>2, <2>4 DEF BreakerTypes
  <2>5. at'[w] = "send" /\ age'[w] = 0
    BY <2>2 DEF BreakerTypes
  <2> QED BY <2>1, <2>3, <2>4, <2>5 DEF BreakerTypes
<1>2. ASSUME NEW w \in Workers, NEW phase, Enter(w, phase), phase # "send",
             phase \in {"failed", "trip"} => healthy <= SendMax,
             UNCHANGED <<sink, age, doomed>>, openTTL' \in {0, openTTL}
      PROVE  InTime'
  BY <1>2 DEF Enter, sink, BreakerTypes
<1>3. ASSUME NEW w \in Workers, CheckClosed(w) \/ CheckFailsOpen(w) \/ WinProbe(w)
      PROVE  InTime'
  BY <1>1, <1>3 DEF CheckClosed, CheckFailsOpen, WinProbe, keys
<1>4. ASSUME NEW w \in Workers, CheckOpen(w) \/ Refused(w) \/ Delivered(w)
      PROVE  InTime'
  BY <1>2, <1>4 DEF CheckOpen, Refused, Delivered, keys, sends
<1>5. ASSUME NEW w \in Workers, AttemptFails(w) PROVE InTime'
  <2>1. healthy <= SendMax
    BY <1>5 DEF AttemptFails, BreakerTypes
  <2> QED BY <1>2, <1>5, <2>1 DEF AttemptFails, keys, sends
<1>6. ASSUME NEW w \in Workers,
             Unrecorded(w) \/ RecordLost(w) \/ WorkerDies(w) \/ RecordSuccess(w)
      PROVE  InTime'
  BY <1>2, <1>6 DEF Unrecorded, RecordLost, WorkerDies, RecordSuccess, keys, sends
<1>7. ASSUME NEW w \in Workers, RecordFailure(w) PROVE InTime'
  <2>1. healthy <= SendMax
    BY <1>7 DEF RecordFailure
  <2> QED BY <1>2, <1>7, <2>1 DEF RecordFailure, sends
<1>8. ASSUME NEW w \in Workers, Trip(w) PROVE InTime'
  <2>1. healthy <= SendMax /\ openTTL' = Cooldown /\ at' = [at EXCEPT ![w] = "idle"]
        /\ UNCHANGED <<sink, age, doomed>>
    BY <1>8 DEF Trip, Enter, sends
  <2> QED BY <2>1 DEF sink, BreakerTypes, Horizon
<1>9. CASE SinkDown
  BY <1>9 DEF SinkDown, keys, BreakerTypes, Horizon
<1>10. CASE SinkUp
  BY <1>10 DEF SinkUp, keys, sends
<1>11. CASE Tick
  <2>1. healthy' <= healthy + 1 /\ healthy' \in 0..Horizon /\ (up' <=> up)
        /\ (~up => healthy' = healthy)
    BY <1>11 DEF Tick, BreakerTypes, Horizon
  <2>2. openTTL' > 0 => openTTL' = openTTL - 1 /\ openTTL > 0
    BY <1>11 DEF Tick, Aged, BreakerTypes
  <2>3. OpenEnds'
    <3>1. healthy \in Nat /\ openTTL \in Nat /\ Horizon \in Nat /\ healthy' \in Nat
      BY <2>1 DEF BreakerTypes, Horizon
    <3> SUFFICES ASSUME openTTL' > 0 PROVE healthy' + openTTL' <= Horizon
      OBVIOUS
    <3>2. healthy + openTTL <= Horizon
      BY <2>2
    <3>3. healthy' <= healthy + 1 /\ openTTL' = openTTL - 1 /\ openTTL' \in Int
      BY <2>1, <2>2, <3>1
    <3>4. \A h, i, o, p, m \in Int : i <= h + 1 /\ p = o - 1 /\ h + o <= m => i + p <= m
      OBVIOUS
    <3>5. healthy \in Int /\ healthy' \in Int /\ openTTL \in Int /\ Horizon \in Int
      BY <3>1
    <3> HIDE BreakerAssumption DEF InTime, DownResets, LateFailures, OpenEnds
    <3>6. healthy' <= healthy + 1 /\ openTTL' = openTTL - 1 /\ healthy + openTTL <= Horizon
      BY <3>2, <3>3, Zenon
    <3> QED BY <3>3, <3>4, <3>5, <3>6, Zenon
  <2>4. LateFailures'
    <3> SUFFICES ASSUME NEW w \in Workers
                 PROVE  /\ at'[w] = "send" /\ doomed'[w] => healthy' <= age'[w]
                        /\ at'[w] \in {"failed", "trip"} => healthy' <= SendMax
      OBVIOUS
    <3>1. at'[w] = at[w] /\ (doomed'[w] <=> doomed[w]) /\ at[w] \notin {"failed", "trip"}
      BY <1>11 DEF Tick
    <3>2. at[w] = "send" => age'[w] = age[w] + 1
      BY <1>11 DEF Tick
    <3> QED BY <2>1, <3>1, <3>2 DEF BreakerTypes, Horizon
  <2> QED BY <2>1, <2>3, <2>4
<1>12. CASE UNCHANGED breakerVars
  BY <1>12 DEF breakerVars, keys, sink, sends
<1> HIDE DEF InTime
<1> QED
  BY <1>3, <1>4, <1>5, <1>6, <1>7, <1>8, <1>9, <1>10, <1>11, <1>12
     DEF BreakerNext, Attempt, Outcome, Record

\* BreakerInv holds initially, and every step keeps it.
LEMMA BreakerInductive ==
    /\ BreakerInit => BreakerInv
    /\ BreakerInv /\ [BreakerNext]_breakerVars => BreakerInv'
<1>1. ASSUME BreakerInit PROVE BreakerInv
  <2>1. BreakerTypes
    BY <1>1, BreakerAssumption DEF BreakerInit, BreakerTypes, BreakerPhases, Horizon
  <2>2. DownResets /\ LateFailures /\ OpenEnds
    BY <1>1 DEF BreakerInit, DownResets, LateFailures, OpenEnds
  <2> QED BY <2>1, <2>2 DEF BreakerInv
<1>2. BreakerInv /\ [BreakerNext]_breakerVars => BreakerInv'
  BY BreakerTypeStep, InTimeStep DEF BreakerInv, InTime
<1> QED BY <1>1, <1>2

\* The keys live no longer than their TTLs and a send no longer than its timeout
\* (circuit_breaker.py:130-294).
THEOREM BreakerTyped == BreakerSpec => []BreakerTypes
<1>1. BreakerInv => BreakerTypes
  BY DEF BreakerInv
<1> QED
  BY <1>1, BreakerInductive, PTL DEF BreakerSpec

\* A destination that has answered for SendMax + Cooldown ticks is never refused:
\* the breaker is closed and no late failure can open it (circuit_breaker.py:130-294).
THEOREM BlackoutEnds == BreakerSpec => []BlackoutBounded
<1>1. BreakerInv => BlackoutBounded
  <2> SUFFICES ASSUME BreakerInv, healthy = Horizon
               PROVE  openTTL = 0 /\ \A w \in Workers : at[w] \notin {"failed", "trip"}
    BY DEF BlackoutBounded
  <2>1. openTTL = 0
    BY BreakerAssumption DEF BreakerInv, BreakerTypes, OpenEnds, Horizon
  <2>2. ~(healthy <= SendMax)
    BY BreakerAssumption DEF Horizon
  <2> QED BY <2>1, <2>2 DEF BreakerInv, LateFailures
<1> QED
  BY <1>1, BreakerInductive, PTL DEF BreakerSpec

=============================================================================
