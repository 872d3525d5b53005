------------------------- MODULE CollectCycleProofs -------------------------
(***************************************************************************)
(* Theorems about CollectCycle, for every number of workers, destinations  *)
(* and events.                                                             *)
(*                                                                         *)
(* FaultyInv is inductive for Next and for the faults of the lock:         *)
(* deduplication keeps live cycles apart whatever happens to the lock.     *)
(* CycleInv is inductive for Next alone and gives that no cursor passes an *)
(* event that is neither accounted for nor taken by a named cause.         *)
(***************************************************************************)
EXTENDS CollectCycle, TLAPS

\* A collector starts inside the stream, and never past the cursor it was given.
LEMMA StartInStream ==
    ASSUME TypeOK, NEW c \in Cursors
    PROVE  /\ StartOf(c) \in 0..NumEvents
           /\ c >= 0 => StartOf(c) <= c
  BY BoundsAssumption DEF TypeOK, StartOf, Behind, Cursors, Absent, Empty

\* Every step of a cycle, of the vendor, of Redis or of a fault keeps the types.
LEMMA TypeStep ==
    ASSUME TypeOK, [Next \/ LockFault]_vars
    PROVE  TypeOK'
<1> USE BoundsAssumption, WorkersAssumption
<1>1. CASE Publish
  BY <1>1 DEF TypeOK, Publish, store, sinks, causes, local
<1>2. CASE RedisFlush
  BY <1>2 DEF TypeOK, RedisFlush, store, sinks, causes, local, Cursors
<1>3. ASSUME NEW e \in Events, ClaimExpire(e) \/ ClaimEvict(e) PROVE TypeOK'
  BY <1>3 DEF TypeOK, ClaimExpire, ClaimEvict, Incomplete, store, sinks, causes,
              local
<1>4. ASSUME NEW w \in Workers, Begin(w) \/ BeginLockless(w) \/ SkipInactive(w)
      PROVE TypeOK'
  <2>1. CASE Begin(w)
    BY <2>1 DEF TypeOK, Begin, Goto, Phases, store, sinks, causes
  <2>2. CASE BeginLockless(w)
    BY <2>2 DEF TypeOK, BeginLockless, Goto, Phases, store, sinks, causes
  <2>3. CASE SkipInactive(w)
    BY <2>3 DEF TypeOK, SkipInactive, Goto, Incomplete, Phases, store, sinks, causes
  <2> QED BY <1>4, <2>1, <2>2, <2>3
<1>5. ASSUME NEW w \in Workers, Load(w) PROVE TypeOK'
  <2>1. LoadedCursor \in Cursors
    BY DEF TypeOK, LoadedCursor
  <2>2. StartOf(LoadedCursor) \in 0..NumEvents
    BY <2>1, StartInStream
  <2> HIDE BoundsAssumption
  <2> QED
    BY <1>5, <2>1, <2>2 DEF TypeOK, Load, SkippedBy, Goto, Phases, store, sinks
<1>6. ASSUME NEW w \in Workers,
             Deduped(w) \/ Quarantine(w) \/ Discard(w) \/ Append(w)
      PROVE TypeOK'
  <2> PICK e \in Events : Yields(w, e)
    BY <1>6 DEF Deduped, Quarantine, Discard, Append
  <2>0. e \in 0..NumEvents /\ pos' \in [Workers -> 0..NumEvents]
    BY DEF Yields, Events, TypeOK
  <2>1. CASE Deduped(w)
    BY <2>0, <2>1 DEF TypeOK, Deduped, Yields, store, sinks, causes
  <2>2. CASE Quarantine(w)
    <3>1. PICK x \in Events : Claim(w, x)
                 /\ quarantined' \in SUBSET Events /\ discarded' \in SUBSET Events
      BY <2>2 DEF Quarantine, TypeOK
    <3> QED BY <2>0, <2>2, <3>1 DEF TypeOK, Quarantine, Claim, store, causes
  <2>3. CASE Discard(w)
    <3>1. PICK x \in Events : Claim(w, x) /\ discarded' = discarded \cup {x}
      BY <2>3 DEF Discard
    <3> QED BY <2>0, <2>3, <3>1 DEF TypeOK, Discard, Claim, store, causes
  <2>4. CASE Append(w)
    <3>1. PICK x \in Events, flush \in BOOLEAN :
            /\ Claim(w, x)
            /\ batch' = [batch EXCEPT ![w] = @ \cup {x}]
            /\ IF flush THEN Goto(w, "enqueue") /\ todo' = [todo EXCEPT ![w] = Dests]
                        ELSE UNCHANGED <<pc, todo>>
      BY <2>4 DEF Append
    <3>2. pc' \in [Workers -> Phases] /\ todo' \in [Workers -> SUBSET Dests]
      BY <3>1 DEF TypeOK, Goto, Phases
    <3>3. claims' \in SUBSET Events /\ unsettled' \in [Workers -> SUBSET Events]
          /\ batch' \in [Workers -> SUBSET Events]
      BY <3>1 DEF TypeOK, Claim
    <3> QED BY <2>0, <2>4, <3>2, <3>3 DEF TypeOK, Append, store, sinks, causes
  <2> QED BY <1>6, <2>1, <2>2, <2>3, <2>4
<1>7. ASSUME NEW w \in Workers, EndOfStream(w) \/ Settle(w) PROVE TypeOK'
  <2> pos[w] \in Cursors
    BY DEF TypeOK, Cursors
  <2> QED
    BY <1>7 DEF TypeOK, EndOfStream, Settle, Goto, Phases, store, sinks, causes
<1>8. ASSUME NEW w \in Workers, NEW d \in Dests, EnqueueTo(w, d) \/ ShedTo(w, d)
      PROVE TypeOK'
  BY <1>8 DEF TypeOK, EnqueueTo, ShedTo, store, causes
<1>9. ASSUME NEW w \in Workers,
             SaveHot(w) \/ SaveCold(w) \/ ErrorSaveFails(w)
      PROVE TypeOK'
  <2>1. CASE SaveHot(w)
    BY <2>1 DEF TypeOK, SaveHot, Incomplete, Goto, Phases, sinks, causes
  <2>2. CASE SaveCold(w)
    BY <2>2 DEF TypeOK, SaveCold, Goto, Phases, sinks, causes
  <2>3. CASE ErrorSaveFails(w)
    BY <2>3 DEF TypeOK, ErrorSaveFails, Goto, Phases, store, sinks, causes
  <2> QED BY <1>9, <2>1, <2>2, <2>3
<1>10. ASSUME NEW w \in Workers, Raise(w) \/ Interrupt(w)
       PROVE  /\ failures' \in 0..MaxFailures /\ failed' \in [Workers -> BOOLEAN]
              /\ out' \in [Workers -> Cursors] /\ pc' \in [Workers -> Phases]
  <2> ErrorCursor(w) \in Cursors
    BY DEF TypeOK, ErrorCursor, Cursors
  <2>1. CASE Raise(w)
    BY <2>1 DEF TypeOK, Raise, Incomplete, Goto, Phases
  <2>2. CASE Interrupt(w)
    BY <2>2 DEF TypeOK, Interrupt, Incomplete, Goto, Phases
  <2> QED BY <1>10, <2>1, <2>2
<1>11. ASSUME NEW w \in Workers, FailEarly(w) \/ FailCycle(w) \/ Shutdown(w)
       PROVE TypeOK'
  <2>1. /\ Raise(w) \/ Interrupt(w)
        /\ UNCHANGED <<head, causes, lock, store, claims, sinks, owns, before,
                       start, pos, batch, unsettled, todo>>
    BY <1>11 DEF FailEarly, FailCycle, Shutdown
  <2> QED BY <1>10, <2>1 DEF TypeOK, store, sinks, causes
<1>12. ASSUME NEW w \in Workers, ClaimUnseen(w) PROVE TypeOK'
  <2>1. PICK e \in Events :
          /\ Yields(w, e) /\ claims' = claims \cup {e}
          /\ orphaned' = orphaned \cup {e} /\ (Raise(w) \/ Interrupt(w))
          /\ UNCHANGED <<head, skipped, evicted, overrun, lock, store, sinks, owns,
                         before, start, batch, unsettled, todo>>
    BY <1>12 DEF ClaimUnseen
  <2>2. pos' \in [Workers -> 0..NumEvents]
    BY <2>1 DEF Yields, Events, TypeOK
  <2> QED BY <1>10, <2>1, <2>2 DEF TypeOK, store, sinks
<1>13. ASSUME NEW w \in Workers, Release(w) \/ ReleaseFails(w) PROVE TypeOK'
  <2>1. CASE Release(w)
    BY <2>1 DEF TypeOK, Release, Goto, Phases, store, sinks, causes
  <2>2. CASE ReleaseFails(w)
    BY <2>2 DEF TypeOK, ReleaseFails, Incomplete, Goto, Phases, store, sinks
  <2> QED BY <1>13, <2>1, <2>2
<1>14. ASSUME NEW w \in Workers, Unlock(w) \/ Crash(w) PROVE TypeOK'
  <2>1. /\ lock' \in Workers \cup {Nobody} /\ failures' \in 0..MaxFailures
        /\ orphaned' \in SUBSET Events
    BY <1>14 DEF TypeOK, Unlock, UnlockedBy, Crash, Incomplete
  <2>2. Forget(w) /\ UNCHANGED <<head, skipped, evicted, store, claims, sinks>>
    BY <1>14 DEF Unlock, Crash
  <2>3. Absent \in Cursors /\ "off" \in Phases /\ 0 \in 0..NumEvents
    BY DEF Cursors, Phases
  <2> HIDE BoundsAssumption
  <2> QED BY <2>1, <2>2, <2>3 DEF TypeOK, Forget, Goto, store, sinks
<1>15. CASE LockTimeout
  BY <1>15 DEF TypeOK, LockTimeout, store, sinks, causes, local
<1>16. CASE LockExpire
  BY <1>16 DEF TypeOK, LockExpire, store, sinks, local
<1>17. CASE UNCHANGED vars
  BY <1>17 DEF TypeOK, vars, store, sinks, causes, local
<1> QED
  BY <1>1, <1>2, <1>3, <1>4, <1>5, <1>6, <1>7, <1>8, <1>9, <1>11, <1>12, <1>13,
     <1>14, <1>15, <1>16, <1>17 DEF Next, CycleStep, LockFault

-----------------------------------------------------------------------------
\* The part of FaultyInv about claims, as one formula over the four variables
\* it reads.
Apart == ExclusiveProcessing /\ OffClean

\* No step, faulty or not, lets two live cycles hold the same event.
LEMMA ApartStep ==
    ASSUME TypeOK, Apart, [Next \/ LockFault]_vars
    PROVE  Apart'
<1> USE DEF Apart, ExclusiveProcessing, OffClean
<1>1. CASE UNCHANGED <<pc, claims, batch, unsettled, evicted>>
  BY <1>1
<1>2. CASE RedisFlush
  BY <1>2 DEF RedisFlush, local, causes
<1>3. ASSUME NEW e \in Events, ClaimExpire(e) \/ ClaimEvict(e) PROVE Apart'
  BY <1>3 DEF ClaimExpire, ClaimEvict, local, causes
<1>4. ASSUME NEW w \in Workers, NEW phase, phase \notin {"off", "unlock"},
             Goto(w, phase),
             UNCHANGED <<batch, unsettled, evicted>>, claims \subseteq claims'
      PROVE Apart'
  BY <1>4 DEF Goto, TypeOK
<1>5. ASSUME NEW w \in Workers, NEW e \in Events, Claim(w, e), pc[w] = "collect",
             UNCHANGED <<pc, batch, evicted>>
      PROVE Apart'
  BY <1>5 DEF Claim, TypeOK
<1>6. ASSUME NEW w \in Workers, Append(w) PROVE Apart'
  <2>1. PICK e \in Events :
          /\ pc[w] = "collect" /\ Claim(w, e)
          /\ batch' = [batch EXCEPT ![w] = @ \cup {e}]
          /\ Goto(w, "enqueue") \/ UNCHANGED pc
          /\ UNCHANGED evicted
    BY <1>6 DEF Append, Yields, causes
  <2> QED BY <2>1 DEF Claim, Goto, TypeOK
<1>7. ASSUME NEW w \in Workers, Settle(w) PROVE Apart'
  <2>1. /\ Goto(w, "collect") \/ Goto(w, "saveHot")
        /\ unsettled' = [unsettled EXCEPT ![w] = @ \ batch[w]]
        /\ batch' = [batch EXCEPT ![w] = {}] /\ UNCHANGED <<claims, evicted>>
    BY <1>7 DEF Settle, Enqueuing, causes
  <2> QED BY <2>1 DEF Goto, TypeOK
<1>8. ASSUME NEW w \in Workers, Release(w) \/ ReleaseFails(w) \/ Unlock(w) \/ Crash(w)
      PROVE Apart'
  <2>1. /\ Goto(w, "unlock") \/ Goto(w, "off")
        /\ claims' = claims \/ claims' = claims \ unsettled[w]
        /\ unsettled' = [unsettled EXCEPT ![w] = {}]
        /\ batch' = [batch EXCEPT ![w] = {}] /\ evicted' = evicted
    BY <1>8 DEF Release, ReleaseFails, Unlock, Crash, Forget, causes
  <2>2. \A v \in Workers : v # w => unsettled'[v] \subseteq claims' \cup evicted'
    BY <2>1 DEF TypeOK
  <2> QED BY <2>1, <2>2 DEF Goto, TypeOK
<1>9. CASE Publish \/ LockTimeout \/ LockExpire \/ UNCHANGED vars
  BY <1>9, <1>1 DEF Publish, LockTimeout, LockExpire, vars, local, causes
<1>10. ASSUME NEW w \in Workers,
              \/ Begin(w) \/ BeginLockless(w) \/ SkipInactive(w) \/ Load(w)
              \/ EndOfStream(w) \/ SaveHot(w) \/ SaveCold(w) \/ FailEarly(w)
              \/ FailCycle(w) \/ ErrorSaveFails(w) \/ Shutdown(w) \/ ClaimUnseen(w)
       PROVE Apart'
  <2>1. /\ \/ Goto(w, "load") \/ Goto(w, "collect") \/ Goto(w, "enqueueLast")
           \/ Goto(w, "saveHot") \/ Goto(w, "saveCold") \/ Goto(w, "release")
        /\ UNCHANGED <<batch, unsettled, evicted>> /\ claims \subseteq claims'
    BY <1>10 DEF Begin, BeginLockless, SkipInactive, Load, EndOfStream, SaveHot,
                 SaveCold, FailEarly, FailCycle, ErrorSaveFails, Shutdown,
                 ClaimUnseen, Raise, Interrupt, causes
  <2> QED BY <2>1, <1>4
<1>11. ASSUME NEW w \in Workers, Deduped(w) \/ Quarantine(w) \/ Discard(w)
       PROVE Apart'
  <2>1. CASE Deduped(w)
    BY <2>1, <1>1 DEF Deduped, causes
  <2>2. CASE Quarantine(w)
    BY <2>2, <1>5 DEF Quarantine, Yields, causes
  <2>3. CASE Discard(w)
    BY <2>3, <1>5 DEF Discard, Yields, causes
  <2> QED BY <1>11, <2>1, <2>2, <2>3
<1>12. ASSUME NEW w \in Workers, NEW d \in Dests, EnqueueTo(w, d) \/ ShedTo(w, d)
       PROVE Apart'
  BY <1>12, <1>1 DEF EnqueueTo, ShedTo, causes
<1> QED
  BY <1>2, <1>3, <1>6, <1>7, <1>8, <1>9, <1>10, <1>11, <1>12
     DEF Next, CycleStep, LockFault

\* A cycle that has not overrun its lock keeps it until it ends: no other step,
\* the end of a late cycle included, frees it.
LEMMA LockHeldStep ==
    ASSUME TypeOK, LockHeld, [Next \/ LockFault]_vars
    PROVE  LockHeld'
<1> USE WorkersAssumption DEF LockHeld, TypeOK
<1>1. CASE UNCHANGED <<pc, lock, overrun>>
  BY <1>1
<1>2. CASE RedisFlush
  BY <1>2 DEF RedisFlush, local, causes
<1>3. ASSUME NEW w \in Workers, Begin(w) PROVE LockHeld'
  BY <1>3 DEF Begin, Goto, causes
<1>4. ASSUME NEW w \in Workers, Unlock(w) PROVE LockHeld'
  <2>1. /\ lock' = UnlockedBy(w) /\ pc' = [pc EXCEPT ![w] = "off"]
        /\ overrun' = overrun \ {w}
    BY <1>4 DEF Unlock, Forget, Goto
  <2>2. lock' = lock \/ lock = w
    BY <2>1 DEF UnlockedBy
  <2> QED BY <2>1, <2>2
<1>5. ASSUME NEW w \in Workers, Crash(w) PROVE LockHeld'
  <2>1. /\ lock' = lock /\ pc' = [pc EXCEPT ![w] = "off"]
        /\ overrun' = overrun \ {w}
    BY <1>5 DEF Crash, Forget, Goto
  <2> QED BY <2>1
<1>6. CASE LockTimeout
  BY <1>6 DEF LockTimeout, local, causes
<1>7. CASE LockExpire
  BY <1>7 DEF LockExpire, local
<1>8. ASSUME NEW w \in Workers, BeginLockless(w) PROVE LockHeld'
  BY <1>8 DEF BeginLockless, Goto
<1>9. ASSUME NEW w \in Workers, NEW phase, Goto(w, phase), pc[w] # "off",
             UNCHANGED <<lock, overrun>>
      PROVE LockHeld'
  BY <1>9 DEF Goto
<1> HIDE DEF LockHeld, TypeOK
<1>10. ASSUME NEW w \in Workers,
             \/ SkipInactive(w) \/ Load(w) \/ EndOfStream(w) \/ Settle(w)
             \/ SaveHot(w) \/ SaveCold(w) \/ FailEarly(w) \/ FailCycle(w)
             \/ ErrorSaveFails(w) \/ Shutdown(w) \/ ClaimUnseen(w) \/ Release(w)
             \/ ReleaseFails(w)
      PROVE LockHeld'
  <2>1. /\ pc[w] # "off" /\ UNCHANGED <<lock, overrun>>
        /\ \/ Goto(w, "collect") \/ Goto(w, "enqueueLast") \/ Goto(w, "saveHot")
           \/ Goto(w, "saveCold") \/ Goto(w, "release") \/ Goto(w, "unlock")
    BY <1>10 DEF SkipInactive, Load, EndOfStream, Settle, SaveHot, SaveCold,
                FailEarly, FailCycle, ErrorSaveFails, Shutdown, ClaimUnseen, Yields,
                Raise, Interrupt, Release, ReleaseFails, Enqueuing, causes
  <2> QED BY <2>1, <1>9
<1>11. ASSUME NEW w \in Workers, Append(w) PROVE LockHeld'
  <2>1. /\ UNCHANGED <<lock, overrun>> /\ pc[w] # "off"
        /\ Goto(w, "enqueue") \/ pc' = pc
    BY <1>11 DEF Append, Yields, causes
  <2> QED BY <2>1, <1>1, <1>9
<1>12. ASSUME NEW w \in Workers, NEW d \in Dests,
             EnqueueTo(w, d) \/ ShedTo(w, d)
      PROVE LockHeld'
  BY <1>12, <1>1 DEF EnqueueTo, ShedTo, causes
<1>13. ASSUME NEW w \in Workers, Deduped(w) \/ Quarantine(w) \/ Discard(w)
      PROVE LockHeld'
  BY <1>13, <1>1 DEF Deduped, Quarantine, Discard, causes
<1>14. CASE \/ Publish \/ UNCHANGED vars
            \/ \E e \in Events : ClaimExpire(e) \/ ClaimEvict(e)
  BY <1>14, <1>1 DEF Publish, ClaimExpire, ClaimEvict, local, vars, causes
<1> QED
  BY <1>2, <1>3, <1>4, <1>5, <1>6, <1>7, <1>8, <1>10, <1>11, <1>12, <1>13, <1>14
     DEF Next, CycleStep, LockFault

\* FaultyInv holds initially and is preserved by every step and every fault.
LEMMA FaultyInductive ==
    /\ Init => FaultyInv
    /\ FaultyInv /\ [Next \/ LockFault]_vars => FaultyInv'
<1>1. Init => FaultyInv
  BY BoundsAssumption DEF Init, FaultyInv, TypeOK, ExclusiveProcessing, OffClean,
                          LockHeld, Cursors, Absent, Phases
<1>2. FaultyInv /\ [Next \/ LockFault]_vars => FaultyInv'
  BY TypeStep, ApartStep, LockHeldStep DEF FaultyInv, Apart
<1> QED BY <1>1, <1>2

\* Cursors, queues, claims and the state of a cycle stay in their domains under
\* every fault of the lock, the workers and the release (pipeline.py:1274-2006).
THEOREM CycleTypes == SpecLockLost => []TypeOK
<1>1. FaultyInv => TypeOK
  BY DEF FaultyInv
<1> QED
  BY <1>1, FaultyInductive, PTL DEF SpecLockLost

\* Whatever happens to the lock, to the workers or to the release of claims, two
\* live cycles process the same event only if Redis evicted its key, and no
\* `finally' deletes the claim of another cycle (pipeline.py:1274-1295,
\* 1988-2006, state/dedupe.py:16-23).
THEOREM ExclusiveUnderFaults == SpecLockLost => []ExclusiveProcessing
<1>1. FaultyInv => ExclusiveProcessing
  BY DEF FaultyInv
<1> QED
  BY <1>1, FaultyInductive, PTL DEF SpecLockLost

\* However many locks expire or are never taken, two cycles run together only
\* while one of them is without a lock of its own: a late cycle never frees its
\* successor's lock (pipeline.py:767-775, 889-903).
THEOREM LockLossDoesNotCascade == SpecLockLost => []NoCascade
<1>1. FaultyInv => NoCascade
  BY DEF FaultyInv, LockHeld, NoCascade
<1> QED
  BY <1>1, FaultyInductive, PTL DEF SpecLockLost

-----------------------------------------------------------------------------
\* Nothing already accounted for is ever taken back.
LEMMA AccountedGrows ==
    ASSUME TypeOK, [Next \/ LockFault]_vars
    PROVE  Accounted \subseteq Accounted'
<1> USE DEF Accounted, TypeOK
<1>1. CASE UNCHANGED sinks
  BY <1>1 DEF sinks
<1>2. ASSUME NEW w \in Workers, Quarantine(w) \/ Discard(w)
      PROVE Accounted \subseteq Accounted'
  <2>1. /\ UNCHANGED <<queue, shed>>
        /\ quarantined \subseteq quarantined' /\ discarded \subseteq discarded'
    BY <1>2 DEF Quarantine, Discard
  <2> QED BY <2>1
<1>3. ASSUME NEW w \in Workers, NEW d \in Dests, EnqueueTo(w, d) \/ ShedTo(w, d)
      PROVE Accounted \subseteq Accounted'
  <2>1. /\ UNCHANGED <<quarantined, discarded>>
        /\ \A x \in Dests : queue[x] \subseteq queue'[x] /\ shed[x] \subseteq shed'[x]
    BY <1>3 DEF EnqueueTo, ShedTo
  <2> QED BY <2>1
<1>4. ASSUME NEW w \in Workers,
             \/ Begin(w) \/ SkipInactive(w) \/ Load(w) \/ Deduped(w) \/ Append(w)
             \/ EndOfStream(w) \/ Settle(w) \/ SaveHot(w) \/ SaveCold(w)
             \/ FailEarly(w) \/ FailCycle(w) \/ ErrorSaveFails(w) \/ Shutdown(w)
             \/ ClaimUnseen(w) \/ Release(w) \/ ReleaseFails(w) \/ Unlock(w)
             \/ Crash(w) \/ BeginLockless(w)
      PROVE UNCHANGED sinks
  BY <1>4 DEF Begin, SkipInactive, Load, Deduped, Append, EndOfStream, Settle,
              SaveHot, SaveCold, FailEarly, FailCycle, ErrorSaveFails, Shutdown,
              ClaimUnseen, Release, ReleaseFails, Unlock, Crash, BeginLockless
<1>5. CASE \/ Publish \/ RedisFlush \/ LockTimeout \/ LockExpire \/ UNCHANGED vars
           \/ \E e \in Events : ClaimExpire(e) \/ ClaimEvict(e)
  BY <1>5, <1>1 DEF Publish, RedisFlush, LockTimeout, LockExpire, ClaimExpire,
                    ClaimEvict, vars
<1> HIDE DEF Accounted, TypeOK
<1> QED
  BY <1>1, <1>2, <1>3, <1>4, <1>5 DEF Next, CycleStep, LockFault

\* The history variables only grow, so nothing answered is taken back, and no
\* step but a fault of the lock makes a cycle overrun.
LEMMA AnsweredGrows ==
    ASSUME TypeOK, [Next \/ LockFault]_vars
    PROVE  /\ Answered \subseteq Answered'
           /\ [Next]_vars => overrun' \subseteq overrun
<1> DEFINE Kept == orphaned \subseteq orphaned' /\ skipped \subseteq skipped'
<1>1. ASSUME NEW w \in Workers, Begin(w) \/ CycleStep(w) \/ Crash(w)
      PROVE  Kept /\ overrun' \subseteq overrun
  <2>1. CASE \/ Begin(w) \/ SkipInactive(w) \/ Deduped(w) \/ Quarantine(w)
             \/ Discard(w) \/ Append(w) \/ EndOfStream(w) \/ Settle(w)
             \/ SaveHot(w) \/ SaveCold(w) \/ FailEarly(w) \/ FailCycle(w)
             \/ ErrorSaveFails(w) \/ Shutdown(w) \/ Release(w)
             \/ \E d \in Dests : EnqueueTo(w, d) \/ ShedTo(w, d)
    BY <2>1 DEF Begin, SkipInactive, Deduped, Quarantine, Discard, Append,
                EndOfStream, Settle, SaveHot, SaveCold, FailEarly, FailCycle,
                ErrorSaveFails, Shutdown, Release, EnqueueTo, ShedTo, causes
  <2>2. CASE Load(w) \/ ClaimUnseen(w) \/ ReleaseFails(w) \/ Unlock(w) \/ Crash(w)
    BY <2>2 DEF Load, ClaimUnseen, ReleaseFails, Unlock, Crash, Forget
  <2> QED BY <1>1, <2>1, <2>2 DEF CycleStep
<1>2. ASSUME \/ Publish \/ RedisFlush \/ LockTimeout \/ UNCHANGED vars
             \/ \E e \in Events : ClaimExpire(e) \/ ClaimEvict(e)
      PROVE  Kept /\ overrun' \subseteq overrun
  BY <1>2 DEF Publish, RedisFlush, LockTimeout, ClaimExpire, ClaimEvict, vars,
              causes
<1>3. [Next]_vars => Kept /\ overrun' \subseteq overrun
  <2> HIDE DEF Kept
  <2> QED BY <1>1, <1>2 DEF Next
<1>4. LockFault => Kept
  BY DEF LockFault, LockExpire, BeginLockless
<1>5. Kept
  BY <1>3, <1>4
<1> QED BY <1>3, <1>5, AccountedGrows DEF Answered

-----------------------------------------------------------------------------
\* The parts of CycleInv that speak of what has been accounted for.
Covered ==
    /\ ClaimsBacked /\ DivertedAccounted /\ CursorCovered
    /\ ReadCovered /\ ServedHoldBatch /\ SaveCovered /\ BeforeCovered

\* A step of the vendor or of Redis keeps everything covered.
LEMMA CoveredEnvironment ==
    ASSUME TypeOK, Covered,
           \/ Publish \/ RedisFlush \/ LockTimeout \/ UNCHANGED vars
           \/ \E e \in Events : ClaimExpire(e) \/ ClaimEvict(e)
    PROVE  Covered'
<1>1. /\ UNCHANGED <<local, sinks, cold, orphaned, skipped>>
      /\ claims' \subseteq claims /\ hot' \in {hot, Absent}
  BY DEF Publish, RedisFlush, LockTimeout, ClaimExpire, ClaimEvict, vars, store,
         causes
<1>2. Answered' = Answered
  BY <1>1 DEF Answered, Accounted, sinks
<1>3. UNCHANGED <<pc, before, pos, batch, unsettled, todo, out, queue, shed>>
  BY <1>1 DEF local, sinks
<1>4. CursorCovered'
  BY <1>1, <1>2, BoundsAssumption DEF Covered, CursorCovered, Absent, Events, TypeOK
<1>5. BeforeCovered'
  BY <1>2, <1>3 DEF Covered, BeforeCovered, CoveredUpTo
<1>6. ClaimsBacked' /\ DivertedAccounted'
  BY <1>1, <1>2, <1>3 DEF Covered, ClaimsBacked, DivertedAccounted
<1>7. ReadCovered' /\ ServedHoldBatch' /\ SaveCovered'
  BY <1>2, <1>3 DEF Covered, ReadCovered, ServedHoldBatch, SaveCovered, Enqueuing,
                    CoveredUpTo
<1> QED BY <1>4, <1>5, <1>6, <1>7 DEF Covered

\* A step that moves one worker's cycle but leaves the claims, the stores, every
\* batch and the cursor it started from alone has to establish only what its new
\* phase promises.
LEMMA CoveredByPhase ==
    ASSUME TypeOK, Covered, Answered \subseteq Answered', UNCHANGED <<hot, cold>>,
           UNCHANGED <<claims, unsettled, batch, before>>,
           ReadCovered', ServedHoldBatch', SaveCovered'
    PROVE  Covered'
<1>1. CursorCovered' /\ BeforeCovered'
  BY DEF Covered, CursorCovered, BeforeCovered, CoveredUpTo
<1>2. ClaimsBacked' /\ DivertedAccounted'
  BY DEF Covered, ClaimsBacked, DivertedAccounted
<1> QED BY <1>1, <1>2 DEF Covered

\* While w's cycle runs, every other worker is idle and owns nothing.
LEMMA OthersIdle ==
    ASSUME OneCycle, Apart, NEW w \in Workers, lock = w,
           NEW v \in Workers, v # w
    PROVE  pc[v] = "off" /\ unsettled[v] = {} /\ batch[v] = {}
  BY DEF OneCycle, Apart, OffClean

\* A step of a running cycle keeps everything covered.
LEMMA CoveredCycle ==
    ASSUME TypeOK, TypeOK', Apart, OneCycle, Covered, Answered \subseteq Answered',
           NEW w \in Workers, Begin(w) \/ CycleStep(w) \/ Crash(w)
    PROVE  Covered'
<1> USE BoundsAssumption
<1> DEFINE OnlyPhase(phase) == UNCHANGED <<hot, cold, claims, unsettled, batch,
                                          before, pos, queue, shed>>
                               /\ Goto(w, phase)
<1>0. pc[w] # "off" => \A v \in Workers \ {w} : pc[v] = "off" /\ unsettled[v] = {}
  BY OthersIdle DEF OneCycle
<1>1. CASE Begin(w) \/ SkipInactive(w) \/ Shutdown(w) \/ ErrorSaveFails(w)
  <2>1. /\ OnlyPhase("load") \/ OnlyPhase("release")
        /\ UNCHANGED <<todo, out>>
    BY <1>1 DEF Begin, SkipInactive, Shutdown, Interrupt, ErrorSaveFails, store,
                sinks
  <2>2. ReadCovered' /\ ServedHoldBatch' /\ SaveCovered'
    BY <2>1 DEF Covered, ReadCovered, ServedHoldBatch, SaveCovered, Enqueuing,
                CoveredUpTo, Goto, TypeOK
  <2> QED BY <2>1, <2>2, CoveredByPhase
<1>2. CASE Load(w)
  <2>1. LoadedCursor \in Cursors /\ CoveredUpTo(LoadedCursor)
    BY DEF TypeOK, LoadedCursor, Covered, CursorCovered, CoveredUpTo
  <2>2. StartOf(LoadedCursor) \in 0..NumEvents
        /\ (LoadedCursor >= 0 => StartOf(LoadedCursor) <= LoadedCursor)
    BY <2>1, StartInStream
  <2>3. /\ before' = [before EXCEPT ![w] = LoadedCursor]
        /\ pos' = [pos EXCEPT ![w] = StartOf(LoadedCursor)]
        /\ pc' = [pc EXCEPT ![w] = "collect"] /\ pc[w] = "load"
        /\ UNCHANGED <<hot, cold, claims, unsettled, batch, queue, shed, out, todo>>
        /\ skipped' = skipped \cup SkippedBy(LoadedCursor)
    BY <1>2 DEF Load, Goto, store, sinks
  <2>4. \A e \in Events : e <= StartOf(LoadedCursor) => e \in Answered'
    <3>1. CASE LoadedCursor >= 0
      BY <2>1, <2>2, <3>1 DEF CoveredUpTo, Events, Cursors, Absent, Empty
    <3>2. CASE ~(LoadedCursor >= 0)
      <4>1. \A e \in Events : e <= StartOf(LoadedCursor) =>
                e \in Accounted \/ e \in skipped'
        BY <2>3, <3>2 DEF SkippedBy
      <4> QED BY <4>1 DEF Answered
    <3> QED BY <3>1, <3>2
  <2>5. ReadCovered'
    <3>1. \A v \in Workers \ {w} : pc'[v] = "off"
      BY <1>0, <2>3 DEF TypeOK
    <3> QED BY <2>3, <2>4, <3>1 DEF ReadCovered, TypeOK
  <2>6. BeforeCovered'
    BY <2>1, <2>3 DEF Covered, BeforeCovered, CoveredUpTo, TypeOK
  <2>7. ServedHoldBatch' /\ SaveCovered'
    BY <1>0, <2>3 DEF ServedHoldBatch, SaveCovered, Enqueuing, TypeOK
  <2>8. CursorCovered' /\ ClaimsBacked' /\ DivertedAccounted'
    BY <2>3 DEF Covered, CursorCovered, ClaimsBacked, DivertedAccounted
  <2> QED BY <2>5, <2>6, <2>7, <2>8 DEF Covered
<1>3. CASE EndOfStream(w)
  <2>1. /\ pc[w] = "collect"
        /\ UNCHANGED <<hot, cold, claims, unsettled, batch, before, pos, queue, shed>>
        /\ \/ Goto(w, "enqueueLast") /\ todo' = [todo EXCEPT ![w] = Dests] /\ out' = out
           \/ Goto(w, "saveHot") /\ out' = [out EXCEPT ![w] = pos[w]] /\ todo' = todo
              /\ batch[w] = {}
    BY <1>3 DEF EndOfStream, store, sinks
  <2>2. ReadCovered' /\ ServedHoldBatch'
    BY <2>1 DEF Covered, ReadCovered, ServedHoldBatch, CoveredUpTo, Enqueuing, Goto,
                TypeOK
  <2>3. SaveCovered'
    BY <2>1 DEF Covered, ReadCovered, SaveCovered, CoveredUpTo, Goto, TypeOK
  <2> QED BY <2>1, <2>2, <2>3, CoveredByPhase
<1>4. CoveredUpTo(ErrorCursor(w))
  BY DEF Covered, BeforeCovered, ErrorCursor, CoveredUpTo, Events, Empty
<1>a. ASSUME FailEarly(w) \/ FailCycle(w) PROVE Covered'
  <2>1. /\ OnlyPhase("saveHot") /\ todo' = todo
        /\ out' = [out EXCEPT ![w] = ErrorCursor(w)]
    BY <1>a DEF FailEarly, FailCycle, Raise, store, sinks
  <2>2. ReadCovered' /\ ServedHoldBatch'
    BY <2>1 DEF Covered, ReadCovered, ServedHoldBatch, CoveredUpTo, Enqueuing, Goto,
                TypeOK
  <2>3. SaveCovered'
    BY <1>4, <2>1 DEF Covered, SaveCovered, CoveredUpTo, Goto, TypeOK
  <2> QED BY <2>1, <2>2, <2>3, CoveredByPhase
<1>b. CASE ClaimUnseen(w)
  <2>1. PICK e \in Events :
          /\ pos' = [pos EXCEPT ![w] = e] /\ claims' = claims \cup {e}
          /\ orphaned' = orphaned \cup {e}
          /\ UNCHANGED <<hot, cold, unsettled, batch, before, queue, shed, todo>>
          /\ \/ Goto(w, "saveHot") /\ out' = [out EXCEPT ![w] = ErrorCursor(w)]
             \/ Goto(w, "release") /\ out' = out
    BY <1>b DEF ClaimUnseen, Yields, Raise, Interrupt, store, sinks
  <2>2. e \in Answered'
    BY <2>1 DEF Answered
  <2>3. CursorCovered' /\ BeforeCovered' /\ DivertedAccounted'
    BY <2>1 DEF Covered, CursorCovered, BeforeCovered, CoveredUpTo, DivertedAccounted
  <2>4. ClaimsBacked'
    BY <2>1, <2>2 DEF Covered, ClaimsBacked
  <2>5. /\ pc'[w] \in {"saveHot", "release"}
        /\ \A v \in Workers \ {w} : pc'[v] = pc[v] /\ pos'[v] = pos[v]
    BY <2>1 DEF Goto, TypeOK
  <2>6. ReadCovered' /\ ServedHoldBatch'
    BY <2>1, <2>5 DEF Covered, ReadCovered, ServedHoldBatch, Enqueuing
  <2>7. SaveCovered'
    BY <1>4, <2>1 DEF Covered, SaveCovered, CoveredUpTo, Goto, TypeOK
  <2> QED BY <2>3, <2>4, <2>6, <2>7 DEF Covered
<1>5. CASE Deduped(w)
  <2>1. PICK e \in Events :
          /\ pc[w] = "collect" /\ e = pos[w] + 1 /\ e \in claims
          /\ pos' = [pos EXCEPT ![w] = e]
          /\ UNCHANGED <<hot, cold, claims, unsettled, batch, before, queue, shed,
                         pc, todo, out>>
    BY <1>5 DEF Deduped, Yields, store, sinks
  <2>2. e \in batch[w] \/ e \in Answered
    BY <1>0, <2>1 DEF Covered, ClaimsBacked, DivertedAccounted
  <2>3. \A x \in Events : x <= e => x <= pos[w] \/ x = e
    BY <2>1 DEF Events, TypeOK
  <2>4. ReadCovered'
    BY <2>1, <2>2, <2>3 DEF Covered, ReadCovered, CoveredUpTo, TypeOK
  <2>5. ServedHoldBatch' /\ SaveCovered'
    BY <2>1 DEF Covered, ServedHoldBatch, SaveCovered, CoveredUpTo, Enqueuing
  <2> QED BY <2>1, <2>4, <2>5, CoveredByPhase
<1>6. ASSUME NEW d \in Dests, EnqueueTo(w, d) \/ ShedTo(w, d)
      PROVE  Covered'
  <2>1. /\ Enqueuing(w) /\ todo' = [todo EXCEPT ![w] = @ \ {d}]
        /\ UNCHANGED <<hot, cold, claims, unsettled, batch, before, pos, pc, out>>
        /\ \A x \in Dests : queue[x] \cup shed[x] \subseteq queue'[x] \cup shed'[x]
        /\ batch[w] \subseteq queue'[d] \cup shed'[d]
    BY <1>6 DEF EnqueueTo, ShedTo, store, TypeOK
  <2>2. ReadCovered' /\ SaveCovered'
    BY <2>1 DEF Covered, ReadCovered, SaveCovered, CoveredUpTo
  <2>3. ServedHoldBatch'
    BY <2>1 DEF Covered, ServedHoldBatch, Enqueuing, TypeOK
  <2> QED BY <2>1, <2>2, <2>3, CoveredByPhase
<1>7. ASSUME NEW e \in Events, Yields(w, e), Claim(w, e),
             UNCHANGED <<hot, cold, before>>
      PROVE  /\ pc[w] = "collect" /\ e \in unsettled'[w]
             /\ e \in batch'[w] \cup Answered' /\ batch[w] \subseteq batch'[w]
                => (ClaimsBacked' /\ \A x \in Events :
                        x <= pos'[w] => x \in batch'[w] \/ x \in Answered')
  <2>1. /\ pc[w] = "collect" /\ e = pos[w] + 1 /\ pos' = [pos EXCEPT ![w] = e]
        /\ claims' = claims \cup {e} /\ e \in unsettled'[w]
        /\ \A v \in Workers : unsettled[v] \subseteq unsettled'[v]
    BY <1>7 DEF Yields, Claim, TypeOK
  <2>2. \A x \in Events : x <= pos'[w] => x <= pos[w] \/ x = e
    BY <2>1 DEF Events, TypeOK
  <2>3. ClaimsBacked'
    BY <2>1 DEF Covered, ClaimsBacked
  <2> QED BY <2>1, <2>2, <2>3 DEF Covered, ReadCovered
<1>8. CASE Quarantine(w) \/ Discard(w)
  <2>1. PICK e \in Events :
          /\ Yields(w, e) /\ Claim(w, e) /\ e \in quarantined' \cup discarded'
          /\ UNCHANGED <<hot, cold, before, batch, queue, shed, pc, todo, out>>
    BY <1>8 DEF Quarantine, Discard, store
  <2>2. e \in Answered'
    BY <2>1 DEF Answered, Accounted
  <2>3. /\ pc[w] = "collect" /\ ClaimsBacked'
        /\ \A x \in Events : x <= pos'[w] => x \in batch'[w] \/ x \in Answered'
    BY <1>7, <2>1, <2>2
  <2>4. unsettled' = [unsettled EXCEPT ![w] = @ \cup {e}]
        /\ \A v \in Workers \ {w} : pos'[v] = pos[v]
    BY <2>1 DEF Claim, Yields, TypeOK
  <2>5. DivertedAccounted'
    BY <2>1, <2>2, <2>4 DEF Covered, DivertedAccounted, TypeOK
  <2>6. ReadCovered'
    BY <2>1, <2>3, <2>4 DEF Covered, ReadCovered, CoveredUpTo
  <2>7. CursorCovered' /\ ServedHoldBatch' /\ SaveCovered'
    BY <2>1 DEF Covered, CursorCovered, ServedHoldBatch, SaveCovered,
                CoveredUpTo, Enqueuing
  <2>8. BeforeCovered'
    BY <2>1 DEF Covered, BeforeCovered, CoveredUpTo
  <2> QED BY <2>3, <2>5, <2>6, <2>7, <2>8 DEF Covered
<1>9. CASE Append(w)
  <2>1. PICK e \in Events :
          /\ Yields(w, e) /\ Claim(w, e)
          /\ batch' = [batch EXCEPT ![w] = @ \cup {e}]
          /\ UNCHANGED <<hot, cold, before, queue, shed, out>>
          /\ \/ Goto(w, "enqueue") /\ todo' = [todo EXCEPT ![w] = Dests]
             \/ UNCHANGED <<pc, todo>>
    BY <1>9 DEF Append, store, sinks
  <2>2. e \in batch'[w] /\ batch[w] \subseteq batch'[w]
    BY <2>1 DEF TypeOK
  <2>3. /\ pc[w] = "collect" /\ ClaimsBacked'
        /\ \A x \in Events : x <= pos'[w] => x \in batch'[w] \/ x \in Answered'
    BY <1>7, <2>1, <2>2
  <2>4. unsettled' = [unsettled EXCEPT ![w] = @ \cup {e}]
        /\ \A v \in Workers \ {w} : pos'[v] = pos[v]
    BY <2>1 DEF Claim, Yields, TypeOK
  <2>5. DivertedAccounted'
    BY <2>1, <2>4 DEF Covered, DivertedAccounted, TypeOK
  <2>6. ReadCovered'
    BY <2>1, <2>3, <2>4 DEF Covered, ReadCovered, CoveredUpTo, Goto, TypeOK
  <2>7. CursorCovered' /\ BeforeCovered'
    BY <2>1 DEF Covered, CursorCovered, BeforeCovered, CoveredUpTo
  <2>8. ServedHoldBatch' /\ SaveCovered'
    BY <2>1, <2>3 DEF Covered, ServedHoldBatch, SaveCovered, CoveredUpTo, Enqueuing,
                      Goto, TypeOK
  <2> QED BY <2>3, <2>5, <2>6, <2>7, <2>8 DEF Covered
<1>10. CASE Settle(w)
  <2>1. /\ Enqueuing(w) /\ todo[w] = {}
        /\ unsettled' = [unsettled EXCEPT ![w] = @ \ batch[w]]
        /\ batch' = [batch EXCEPT ![w] = {}]
        /\ UNCHANGED <<hot, cold, claims, before, pos, queue, shed, todo>>
        /\ \/ Goto(w, "collect") /\ out' = out
           \/ Goto(w, "saveHot") /\ out' = [out EXCEPT ![w] = pos[w]]
    BY <1>10 DEF Settle, store, sinks
  <2>2. batch[w] \subseteq Answered'
    BY <2>1 DEF Covered, ServedHoldBatch, Answered, Accounted, TypeOK
  <2>3. \A e \in Events : e <= pos[w] => e \in Answered'
    BY <2>1, <2>2 DEF Covered, ReadCovered, Enqueuing
  <2>4. ClaimsBacked' /\ DivertedAccounted'
    BY <2>1, <2>2 DEF Covered, ClaimsBacked, DivertedAccounted, TypeOK
  <2>5. CursorCovered' /\ BeforeCovered'
    BY <2>1 DEF Covered, CursorCovered, BeforeCovered, CoveredUpTo
  <2>6. ReadCovered'
    BY <2>1, <2>3 DEF Covered, ReadCovered, CoveredUpTo, Enqueuing, Goto, TypeOK
  <2>7. ServedHoldBatch'
    BY <2>1 DEF Covered, ServedHoldBatch, Enqueuing, Goto, TypeOK
  <2>8. SaveCovered'
    BY <2>1, <2>3 DEF Covered, ReadCovered, SaveCovered, CoveredUpTo, Enqueuing,
                      Goto, TypeOK
  <2> QED BY <2>4, <2>5, <2>6, <2>7, <2>8 DEF Covered
<1>11. CASE SaveHot(w) \/ SaveCold(w)
  <2>1. /\ pc[w] \in {"saveHot", "saveCold"}
        /\ hot' \in {hot, out[w]} /\ cold' \in {cold, out[w]}
        /\ UNCHANGED <<claims, unsettled, batch, before, pos, queue, shed, out, todo>>
        /\ Goto(w, "saveCold") \/ Goto(w, "release")
    BY <1>11 DEF SaveHot, SaveCold, store, sinks
  <2>2. CoveredUpTo(out[w])
    BY <2>1 DEF Covered, SaveCovered
  <2>3. CursorCovered'
    BY <2>1, <2>2 DEF Covered, CursorCovered, CoveredUpTo
  <2>a. BeforeCovered'
    BY <2>1 DEF Covered, BeforeCovered, CoveredUpTo
  <2>4. ClaimsBacked' /\ DivertedAccounted'
    BY <2>1 DEF Covered, ClaimsBacked, DivertedAccounted
  <2>5. ReadCovered' /\ ServedHoldBatch'
    BY <2>1 DEF Covered, ReadCovered, ServedHoldBatch, CoveredUpTo, Enqueuing, Goto,
                TypeOK
  <2>6. SaveCovered'
    BY <2>1 DEF Covered, SaveCovered, CoveredUpTo, Goto, TypeOK
  <2> QED BY <2>a, <2>3, <2>4, <2>5, <2>6 DEF Covered
<1>12. CASE Release(w) \/ ReleaseFails(w) \/ Unlock(w) \/ Crash(w)
  <2>1. /\ unsettled' = [unsettled EXCEPT ![w] = {}]
        /\ batch' = [batch EXCEPT ![w] = {}]
        /\ Goto(w, "unlock") \/ Goto(w, "off")
        /\ UNCHANGED <<hot, cold, queue, shed>> /\ before'[w] \in {before[w], Absent}
        /\ \A v \in Workers \ {w} : /\ before'[v] = before[v] /\ pos'[v] = pos[v]
                                     /\ todo'[v] = todo[v] /\ out'[v] = out[v]
    BY <1>12 DEF Release, ReleaseFails, Unlock, Crash, Forget, store, sinks, TypeOK
  <2>2. claims' \subseteq claims /\ \A e \in unsettled[w] \cap claims' : e \in Answered'
    <3>1. CASE Release(w)
      BY <3>1 DEF Release
    <3>2. CASE Unlock(w)
      BY <3>2 DEF Unlock, Apart, OffClean
    <3>3. CASE ReleaseFails(w) \/ Crash(w)
      BY <3>3 DEF ReleaseFails, Crash, Answered
    <3> QED BY <1>12, <3>1, <3>2, <3>3
  <2>3. /\ unsettled'[w] = {}
        /\ \A v \in Workers \ {w} : /\ unsettled'[v] = unsettled[v]
                                     /\ batch'[v] = batch[v] /\ pc'[v] = pc[v]
    BY <2>1 DEF Goto, TypeOK
  <2>4. CursorCovered'
    BY <2>1 DEF Covered, CursorCovered
  <2>5. BeforeCovered'
    BY <2>1 DEF Covered, BeforeCovered, CoveredUpTo, Absent, Events
  <2>6. ClaimsBacked'
    BY <2>2, <2>3 DEF Covered, ClaimsBacked
  <2>7. DivertedAccounted'
    BY <2>3 DEF Covered, DivertedAccounted
  <2>8. pc'[w] \in {"unlock", "off"}
    BY <2>1 DEF Goto, TypeOK
  <2>9. ReadCovered' /\ ServedHoldBatch' /\ SaveCovered'
    BY <2>1, <2>3, <2>8 DEF Covered, ReadCovered, ServedHoldBatch, SaveCovered,
                            CoveredUpTo, Enqueuing
  <2> QED BY <2>4, <2>5, <2>6, <2>7, <2>9 DEF Covered
<1> QED
  BY <1>1, <1>2, <1>3, <1>a, <1>b, <1>5, <1>6, <1>8, <1>9, <1>10, <1>11, <1>12
     DEF CycleStep

\* CycleInv holds initially and is preserved by every step of a cycle, of the
\* vendor and of Redis.
LEMMA CycleInductive ==
    /\ Init => CycleInv
    /\ CycleInv /\ [Next]_vars => CycleInv'
<1>1. Init => CycleInv
  <2> SUFFICES ASSUME Init PROVE CycleInv
    OBVIOUS
  <2>1. FaultyInv
    BY FaultyInductive
  <2>2. overrun = {} /\ ClaimsBacked /\ DivertedAccounted
    BY DEF Init, ClaimsBacked, DivertedAccounted
  <2>3. CursorCovered /\ BeforeCovered
    BY DEF Init, CursorCovered, BeforeCovered, CoveredUpTo, Events, Absent
  <2>4. ReadCovered /\ ServedHoldBatch /\ SaveCovered
    BY DEF Init, ReadCovered, ServedHoldBatch, SaveCovered, Enqueuing
  <2> QED BY <2>1, <2>2, <2>3, <2>4 DEF CycleInv
<1>2. ASSUME CycleInv, [Next]_vars PROVE CycleInv'
  <2>1. TypeOK /\ Apart /\ Covered /\ FaultyInv /\ overrun = {}
    BY <1>2 DEF CycleInv, FaultyInv, Apart, Covered
  <2>2. OneCycle
    BY <2>1 DEF FaultyInv, LockHeld, OneCycle
  <2>3. FaultyInv' /\ TypeOK'
    BY <1>2, <2>1, FaultyInductive DEF FaultyInv
  <2>4. overrun' = {} /\ Answered \subseteq Answered'
    BY <1>2, <2>1, AnsweredGrows
  <2>5. Covered'
    BY <1>2, <2>1, <2>2, <2>3, <2>4, CoveredEnvironment, CoveredCycle DEF Next
  <2> QED BY <2>3, <2>4, <2>5 DEF CycleInv, Covered
<1> QED BY <1>1, <1>2

\* While the lock outlives its cycle, neither the Redis nor the database cursor
\* ever passes an event that was not handed off, shed, quarantined or dropped by
\* policy, whichever operations of whichever cycles fail and whichever process
\* dies, except the events whose claim a cycle cut short left behind and those
\* behind the lookback of a cycle that found no position
\* (pipeline.py:1763-1939, state/cursor.py).
THEOREM CursorNeverPassesUnaccounted == Spec => []CursorCovered
<1>1. CycleInv => CursorCovered
  BY DEF CycleInv
<1> QED
  BY <1>1, CycleInductive, PTL DEF Spec

\* A dedupe key never outlives its cycle without a hand-off behind it, unless a
\* lost reply of SET, a refused DEL or a killed process left it; every other
\* failure lets the retry claim the event again (pipeline.py:925-942, 1274-1295,
\* 1988-2006).
THEOREM ClaimsAlwaysBacked == Spec => []ClaimsBacked
<1>1. CycleInv => ClaimsBacked
  BY DEF CycleInv
<1> QED
  BY <1>1, CycleInductive, PTL DEF Spec

-----------------------------------------------------------------------------
\* A destination already served by a cycle holds its batch, under every fault of
\* the lock.
LEMMA ServedStep ==
    ASSUME TypeOK, ServedHoldBatch, [Next \/ LockFault]_vars
    PROVE  ServedHoldBatch'
<1> DEFINE Served(w) == Enqueuing(w) =>
              \A d \in Dests \ todo[w] : batch[w] \subseteq queue[d] \cup shed[d]
<1>1. ASSUME UNCHANGED <<pc, todo, batch, queue, shed>> PROVE ServedHoldBatch'
  BY <1>1 DEF ServedHoldBatch, Enqueuing
<1>2. ASSUME NEW w \in Workers, UNCHANGED <<queue, shed>>, Served(w)',
             \A v \in Workers \ {w} : /\ pc'[v] = pc[v] /\ todo'[v] = todo[v]
                                      /\ batch'[v] = batch[v]
      PROVE  ServedHoldBatch'
  BY <1>2 DEF ServedHoldBatch, Enqueuing
<1>3. ASSUME NEW w \in Workers,
             \/ Begin(w) \/ BeginLockless(w) \/ SkipInactive(w) \/ Load(w)
             \/ Settle(w) \/ SaveHot(w) \/ SaveCold(w) \/ FailEarly(w)
             \/ FailCycle(w) \/ ErrorSaveFails(w) \/ Shutdown(w) \/ ClaimUnseen(w)
             \/ Release(w) \/ ReleaseFails(w) \/ Unlock(w) \/ Crash(w)
      PROVE  ServedHoldBatch'
  <2>1. /\ \/ Goto(w, "off") \/ Goto(w, "load") \/ Goto(w, "collect")
           \/ Goto(w, "saveHot") \/ Goto(w, "saveCold") \/ Goto(w, "release")
           \/ Goto(w, "unlock")
        /\ UNCHANGED <<queue, shed>>
    BY <1>3 DEF Begin, BeginLockless, SkipInactive, Load, Settle, SaveHot, SaveCold,
                FailEarly, FailCycle, ErrorSaveFails, Shutdown, ClaimUnseen, Raise,
                Interrupt, Release, ReleaseFails, Unlock, Crash, Forget, sinks
  <2>2. \A v \in Workers \ {w} : todo'[v] = todo[v] /\ batch'[v] = batch[v]
    BY <1>3 DEF Begin, BeginLockless, SkipInactive, Load, Settle, SaveHot, SaveCold,
                FailEarly, FailCycle, ErrorSaveFails, Shutdown, ClaimUnseen,
                Release, ReleaseFails, Unlock, Crash, Forget, TypeOK
  <2>3. /\ pc'[w] \notin {"enqueue", "enqueueLast"}
        /\ \A v \in Workers \ {w} : pc'[v] = pc[v]
    BY <2>1 DEF Goto, TypeOK
  <2>4. Served(w)'
    BY <2>3 DEF Enqueuing
  <2> QED BY <1>2, <2>1, <2>2, <2>3, <2>4
<1>4. ASSUME NEW w \in Workers, EndOfStream(w) \/ Append(w)
      PROVE  ServedHoldBatch'
  <2>1. /\ UNCHANGED <<queue, shed>> /\ pc[w] = "collect"
        /\ \A v \in Workers \ {w} : batch'[v] = batch[v]
        /\ \/ Goto(w, "enqueue") /\ todo' = [todo EXCEPT ![w] = Dests]
           \/ Goto(w, "enqueueLast") /\ todo' = [todo EXCEPT ![w] = Dests]
           \/ Goto(w, "saveHot") /\ todo' = todo
           \/ UNCHANGED <<pc, todo>>
    BY <1>4 DEF EndOfStream, Append, Yields, sinks, TypeOK
  <2>2. /\ \A v \in Workers \ {w} : pc'[v] = pc[v] /\ todo'[v] = todo[v]
        /\ pc'[w] \in {"enqueue", "enqueueLast"} => todo'[w] = Dests
    BY <2>1 DEF Goto, TypeOK
  <2>3. Served(w)'
    BY <2>2 DEF Enqueuing
  <2> QED BY <1>2, <2>1, <2>2, <2>3
<1>5. ASSUME NEW w \in Workers, NEW d \in Dests, EnqueueTo(w, d) \/ ShedTo(w, d)
      PROVE  ServedHoldBatch'
  <2>1. /\ todo' = [todo EXCEPT ![w] = @ \ {d}] /\ UNCHANGED <<pc, batch>>
        /\ \A x \in Dests : queue[x] \cup shed[x] \subseteq queue'[x] \cup shed'[x]
        /\ batch[w] \subseteq queue'[d] \cup shed'[d]
    BY <1>5 DEF EnqueueTo, ShedTo, TypeOK
  <2> QED BY <2>1 DEF ServedHoldBatch, Enqueuing, TypeOK
<1>6. ASSUME NEW w \in Workers, Deduped(w) \/ Quarantine(w) \/ Discard(w)
      PROVE  ServedHoldBatch'
  BY <1>1, <1>6 DEF Deduped, Quarantine, Discard, sinks
<1>7. CASE \/ Publish \/ RedisFlush \/ LockTimeout \/ LockExpire \/ UNCHANGED vars
           \/ \E e \in Events : ClaimExpire(e) \/ ClaimEvict(e)
  BY <1>1, <1>7 DEF Publish, RedisFlush, LockTimeout, LockExpire, ClaimExpire,
                    ClaimEvict, vars, local, sinks
<1> HIDE DEF Served
<1> QED
  BY <1>3, <1>4, <1>5, <1>6, <1>7 DEF Next, CycleStep, LockFault

\* A cycle that does not fail lets go of its batch only when every destination
\* has it, so what is carried stays carried.
LEMMA CarriedGrows ==
    ASSUME TypeOK, OffClean, ServedHoldBatch, AllCarried,
           [Next \/ LockFault]_vars, failures' = failures
    PROVE  Carried \subseteq Carried'
<1>0. Accounted \subseteq Accounted' /\ ~Incomplete
  BY AccountedGrows DEF Incomplete, TypeOK
<1> DEFINE Kept == \A v \in Workers : batch[v] \subseteq batch'[v] \cup Accounted'
<1>1. ASSUME Kept PROVE Carried \subseteq Carried'
  BY <1>0, <1>1 DEF Carried
<1>2. ASSUME batch' = batch PROVE Kept
  BY <1>2
<1>3. ASSUME NEW w \in Workers, batch[w] \subseteq Accounted',
             batch' = [batch EXCEPT ![w] = {}]
      PROVE  Kept
  BY <1>3 DEF TypeOK
<1>4. ASSUME NEW w \in Workers, Settle(w) PROVE Kept
  <2>1. /\ Enqueuing(w) /\ todo[w] = {} /\ UNCHANGED <<queue, shed>>
        /\ batch' = [batch EXCEPT ![w] = {}]
    BY <1>4 DEF Settle, sinks
  <2>2. batch[w] \subseteq Accounted'
    BY <2>1 DEF ServedHoldBatch, Accounted, TypeOK
  <2> QED BY <1>3, <2>1, <2>2
<1>5. ASSUME NEW w \in Workers, Release(w) \/ Unlock(w) PROVE Kept
  <2>1. batch' = [batch EXCEPT ![w] = {}] /\ pc[w] \in {"release", "unlock"}
    BY <1>5 DEF Release, Unlock, Forget
  <2>2. batch[w] = {}
    BY <2>1 DEF AllCarried, CycleCarries, OffClean
  <2> QED BY <1>3, <2>1, <2>2
<1>6. ASSUME NEW w \in Workers, Append(w) PROVE Kept
  <2>1. PICK e \in Events : batch' = [batch EXCEPT ![w] = @ \cup {e}]
    BY <1>6 DEF Append
  <2> QED BY <2>1 DEF TypeOK
<1>7. ASSUME NEW w \in Workers,
             \/ Begin(w) \/ BeginLockless(w) \/ SkipInactive(w) \/ Load(w)
             \/ Deduped(w) \/ Quarantine(w) \/ Discard(w) \/ EndOfStream(w)
             \/ SaveHot(w) \/ SaveCold(w) \/ FailEarly(w) \/ FailCycle(w)
             \/ ErrorSaveFails(w) \/ Shutdown(w) \/ ClaimUnseen(w)
      PROVE  Kept
  BY <1>2, <1>7 DEF Begin, BeginLockless, SkipInactive, Load, Deduped, Quarantine,
     Discard, EndOfStream, SaveHot, SaveCold, FailEarly, FailCycle, ErrorSaveFails,
     Shutdown, ClaimUnseen
<1>8. ASSUME NEW w \in Workers, NEW d \in Dests, EnqueueTo(w, d) \/ ShedTo(w, d)
      PROVE  Kept
  BY <1>2, <1>8 DEF EnqueueTo, ShedTo
<1>9. CASE \/ Publish \/ RedisFlush \/ LockTimeout \/ LockExpire \/ UNCHANGED vars
           \/ \E e \in Events : ClaimExpire(e) \/ ClaimEvict(e)
  BY <1>1, <1>2, <1>9 DEF Publish, RedisFlush, LockTimeout, LockExpire, ClaimExpire,
                          ClaimEvict, vars, local
<1>10. ASSUME NEW w \in Workers, ReleaseFails(w) \/ Crash(w) PROVE FALSE
  BY <1>0, <1>10 DEF ReleaseFails, Crash
<1> HIDE DEF Kept
<1> QED
  BY <1>1, <1>4, <1>5, <1>6, <1>7, <1>8, <1>9, <1>10
     DEF Next, CycleStep, LockFault

\* A cycle that does not move keeps carrying what it read.
LEMMA IdleCarries ==
    ASSUME NEW v \in Workers, CycleCarries(v), Carried \subseteq Carried',
           pc'[v] = pc[v], pos'[v] = pos[v], out'[v] = out[v], batch'[v] = batch[v]
    PROVE  CycleCarries(v)'
  BY DEF CycleCarries, CarriedUpTo

\* A step of w's cycle has to establish only what its own new phase promises
\* when it leaves the cursors alone and claims only what is carried.
LEMMA CarriedByPhase ==
    ASSUME TypeOK, AllCarried, Carried \subseteq Carried', NEW w \in Workers,
           UNCHANGED <<hot, cold>>, claims' \subseteq claims \cup Carried',
           CycleCarries(w)',
           \A v \in Workers \ {w} : /\ pc'[v] = pc[v] /\ pos'[v] = pos[v]
                                    /\ out'[v] = out[v] /\ batch'[v] = batch[v]
    PROVE  AllCarried'
<1>1. \A v \in Workers : CycleCarries(v)'
  <2> TAKE v \in Workers
  <2>1. CASE v # w
    BY <2>1, IdleCarries DEF AllCarried
  <2> QED BY <2>1
<1>2. PositionKnown' /\ claims' \subseteq Carried'
  BY DEF AllCarried, PositionKnown
<1>3. CarriedUpTo(hot)' /\ CarriedUpTo(cold)'
  BY DEF AllCarried, CarriedUpTo
<1> QED BY <1>1, <1>2, <1>3 DEF AllCarried

\* A step of the vendor, of Redis or of the lock's TTL loses nothing carried.
LEMMA SharedEnvironment ==
    ASSUME TypeOK, AllCarried, Carried \subseteq Carried',
           \/ Publish \/ RedisFlush \/ LockTimeout \/ LockExpire \/ UNCHANGED vars
           \/ \E e \in Events : ClaimExpire(e) \/ ClaimEvict(e)
    PROVE  AllCarried'
<1>1. /\ UNCHANGED <<local, cold>> /\ claims' \subseteq claims
      /\ hot' \in {hot, Absent}
  BY DEF Publish, RedisFlush, LockTimeout, LockExpire, ClaimExpire, ClaimEvict, vars,
         store
<1>2. UNCHANGED <<pc, pos, out, batch>>
  BY <1>1 DEF local
<1>3. \A v \in Workers : CycleCarries(v)'
  BY <1>2, IdleCarries DEF AllCarried
<1>4. PositionKnown' /\ claims' \subseteq Carried'
  BY <1>1 DEF AllCarried, PositionKnown
<1>5. CarriedUpTo(cold)'
  BY <1>1 DEF AllCarried, CarriedUpTo
<1>6. CarriedUpTo(hot)'
  <2>1. CASE hot' = hot
    BY <2>1 DEF AllCarried, CarriedUpTo
  <2>2. CASE hot' = Absent
    BY <2>2, BoundsAssumption DEF CarriedUpTo, Absent, Events
  <2> QED BY <1>1, <2>1, <2>2
<1> QED BY <1>3, <1>4, <1>5, <1>6 DEF AllCarried

\* A step of one of several overlapping cycles loses nothing carried.
LEMMA SharedCycle ==
    ASSUME TypeOK, TypeOK', OffClean, AllCarried, Carried \subseteq Carried',
           NEW w \in Workers,
           Begin(w) \/ BeginLockless(w) \/ CycleStep(w) \/ Crash(w),
           failures' = failures
    PROVE  AllCarried'
<1> DEFINE Others == \A v \in Workers \ {w} :
                         /\ pc'[v] = pc[v] /\ pos'[v] = pos[v]
                         /\ out'[v] = out[v] /\ batch'[v] = batch[v]
<1>0. CycleCarries(w)
  BY DEF AllCarried
<1>a. ~Incomplete
  BY DEF Incomplete, TypeOK
<1>1. CASE Begin(w) \/ BeginLockless(w) \/ Unlock(w)
  <2>1. /\ Goto(w, "load") \/ Goto(w, "off")
        /\ UNCHANGED <<hot, cold, claims>>
    BY <1>1 DEF Begin, BeginLockless, Unlock, Forget, store
  <2>2. Others
    BY <1>1 DEF Begin, BeginLockless, Unlock, Forget, Goto, TypeOK
  <2>3. CycleCarries(w)'
    BY <2>1 DEF CycleCarries, Goto, TypeOK
  <2> QED BY <2>1, <2>2, <2>3, CarriedByPhase
<1>2. CASE \/ SkipInactive(w) \/ Shutdown(w) \/ FailEarly(w) \/ FailCycle(w)
           \/ ClaimUnseen(w) \/ ReleaseFails(w) \/ Crash(w)
  BY <1>a, <1>2 DEF SkipInactive, Shutdown, FailEarly, FailCycle, ClaimUnseen,
                    ReleaseFails, Crash, Raise, Interrupt
<1>3. CASE ErrorSaveFails(w)
  <2>1. /\ pc[w] = "saveCold" /\ Goto(w, "release")
        /\ UNCHANGED <<hot, cold, claims, pos, out, batch>>
    BY <1>3 DEF ErrorSaveFails, store
  <2>2. Others
    BY <2>1 DEF Goto, TypeOK
  <2>3. CycleCarries(w)'
    BY <1>0, <2>1 DEF CycleCarries, Goto, TypeOK
  <2> QED BY <2>1, <2>2, <2>3, CarriedByPhase
<1>4. CASE Load(w)
  <2>1. LoadedCursor \in 0..NumEvents /\ CarriedUpTo(LoadedCursor)
    BY DEF TypeOK, LoadedCursor, Cursors, AllCarried, PositionKnown, Absent, Empty
  <2>2. StartOf(LoadedCursor) <= LoadedCursor /\ StartOf(LoadedCursor) \in 0..NumEvents
    BY <2>1, StartInStream DEF Cursors
  <2>3. /\ pos' = [pos EXCEPT ![w] = StartOf(LoadedCursor)]
        /\ pc' = [pc EXCEPT ![w] = "collect"]
        /\ UNCHANGED <<hot, cold, claims, batch, out>>
    BY <1>4 DEF Load, Goto, store
  <2>4. Others
    BY <2>3 DEF TypeOK
  <2>5. \A e \in Events : e <= StartOf(LoadedCursor) => e \in Carried'
    BY <2>1, <2>2, BoundsAssumption DEF CarriedUpTo, Events
  <2>6. pc'[w] = "collect" /\ pos'[w] = StartOf(LoadedCursor)
    BY <2>3 DEF TypeOK
  <2>7. CycleCarries(w)'
    BY <2>5, <2>6 DEF CycleCarries, CarriedUpTo
  <2> QED BY <2>3, <2>4, <2>7, CarriedByPhase
<1>5. CASE EndOfStream(w)
  <2>1. /\ pc[w] = "collect" /\ UNCHANGED <<hot, cold, claims, batch, pos>>
        /\ \/ Goto(w, "enqueueLast") /\ out' = out
           \/ /\ Goto(w, "saveHot") /\ out' = [out EXCEPT ![w] = pos[w]]
              /\ batch[w] = {}
    BY <1>5 DEF EndOfStream, store
  <2>2. Others
    BY <2>1 DEF Goto, TypeOK
  <2>3. pos[w] >= 0 /\ CarriedUpTo(pos[w])
    BY <1>0, <2>1 DEF CycleCarries, TypeOK
  <2>4. \/ pc'[w] = "enqueueLast"
        \/ pc'[w] = "saveHot" /\ out'[w] = pos[w] /\ batch'[w] = {}
    BY <2>1 DEF Goto, TypeOK
  <2>5. CycleCarries(w)'
    BY <2>1, <2>3, <2>4 DEF CycleCarries, CarriedUpTo
  <2> QED BY <2>1, <2>2, <2>5, CarriedByPhase
<1>6. ASSUME NEW e \in Events, Yields(w, e), e \in Carried',
             UNCHANGED <<hot, cold, out>>, claims' \subseteq claims \cup {e},
             pc' = pc \/ Goto(w, "enqueue"),
             \A v \in Workers \ {w} : batch'[v] = batch[v]
      PROVE  AllCarried'
  <2>1. /\ pc[w] = "collect" /\ pc'[w] \in {"collect", "enqueue"}
        /\ e = pos[w] + 1 /\ pos'[w] = e
    BY <1>6 DEF Yields, Goto, TypeOK
  <2>2. Others
    BY <1>6 DEF Yields, Goto, TypeOK
  <2>3. \A x \in Events : x <= e => x <= pos[w] \/ x = e
    BY <2>1 DEF Events, TypeOK
  <2>4. CarriedUpTo(pos[w])
    BY <1>0, <2>1 DEF CycleCarries
  <2>5. CarriedUpTo(pos[w])'
    BY <1>6, <2>1, <2>3, <2>4 DEF CarriedUpTo
  <2>6. CycleCarries(w)'
    BY <2>1, <2>5 DEF CycleCarries
  <2> QED BY <1>6, <2>2, <2>6, CarriedByPhase
<1>7. CASE Deduped(w)
  <2>1. PICK e \in Events : Yields(w, e) /\ e \in claims
    BY <1>7 DEF Deduped
  <2>2. UNCHANGED <<hot, cold, out, claims, pc, batch>>
    BY <1>7 DEF Deduped, store
  <2>3. e \in Carried'
    BY <2>1 DEF AllCarried
  <2> QED BY <1>6, <2>1, <2>2, <2>3
<1>8. CASE Quarantine(w) \/ Discard(w)
  <2>1. PICK e \in Events :
          Yields(w, e) /\ Claim(w, e) /\ e \in quarantined' \cup discarded'
    BY <1>8 DEF Quarantine, Discard
  <2>2. UNCHANGED <<hot, cold, out, pc, batch>>
    BY <1>8 DEF Quarantine, Discard, store
  <2>3. e \in Carried'
    BY <2>1 DEF Carried, Accounted
  <2> QED BY <1>6, <2>1, <2>2, <2>3 DEF Claim
<1>9. CASE Append(w)
  <2>1. PICK e \in Events :
          /\ Yields(w, e) /\ Claim(w, e)
          /\ batch' = [batch EXCEPT ![w] = @ \cup {e}]
          /\ pc' = pc \/ Goto(w, "enqueue")
    BY <1>9 DEF Append
  <2>2. UNCHANGED <<hot, cold, out>>
    BY <1>9 DEF Append, store
  <2>3. e \in batch'[w] /\ \A v \in Workers \ {w} : batch'[v] = batch[v]
    BY <2>1 DEF TypeOK
  <2>4. e \in Carried'
    BY <2>3 DEF Carried
  <2> QED BY <1>6, <2>1, <2>2, <2>3, <2>4 DEF Claim
<1>10. ASSUME NEW d \in Dests, EnqueueTo(w, d) \/ ShedTo(w, d) PROVE AllCarried'
  <2>1. UNCHANGED <<hot, cold, claims, pc, pos, out, batch>>
    BY <1>10 DEF EnqueueTo, ShedTo, store
  <2>2. Others /\ CycleCarries(w)'
    BY <1>0, <2>1, IdleCarries
  <2> QED BY <2>1, <2>2, CarriedByPhase
<1>11. CASE Settle(w)
  <2>1. /\ Enqueuing(w) /\ batch' = [batch EXCEPT ![w] = {}]
        /\ UNCHANGED <<hot, cold, claims, pos>>
        /\ \/ Goto(w, "collect") /\ out' = out
           \/ Goto(w, "saveHot") /\ out' = [out EXCEPT ![w] = pos[w]]
    BY <1>11 DEF Settle, store
  <2>2. Others
    BY <2>1 DEF Goto, TypeOK
  <2>3. pos[w] >= 0 /\ CarriedUpTo(pos[w])
    BY <1>0, <2>1 DEF CycleCarries, Enqueuing, TypeOK
  <2>4. /\ pc'[w] = "collect" \/ (pc'[w] = "saveHot" /\ out'[w] = pos[w])
        /\ batch'[w] = {}
    BY <2>1 DEF Goto, TypeOK
  <2>5. CycleCarries(w)'
    BY <2>1, <2>3, <2>4 DEF CycleCarries, CarriedUpTo
  <2> QED BY <2>1, <2>2, <2>5, CarriedByPhase
<1>12. CASE SaveHot(w) \/ SaveCold(w)
  <2>1. /\ pc[w] \in {"saveHot", "saveCold"}
        /\ hot' \in {hot, out[w]} /\ cold' \in {cold, out[w]}
        /\ UNCHANGED <<claims, pos, out, batch>>
        /\ \/ pc[w] = "saveHot" /\ Goto(w, "saveCold")
           \/ pc[w] = "saveCold" /\ Goto(w, "release")
    BY <1>12 DEF SaveHot, SaveCold, store
  <2>2. out[w] >= 0 /\ CarriedUpTo(out[w])
    BY <1>0, <2>1 DEF CycleCarries
  <2>3. Others
    BY <2>1 DEF Goto, TypeOK
  <2>4. CycleCarries(w)'
    <3>1. pc'[w] \in {"saveCold", "release"} /\ out'[w] = out[w] /\ batch'[w] = {}
      BY <1>0, <2>1 DEF CycleCarries, Goto, TypeOK
    <3> QED BY <2>2, <3>1 DEF CycleCarries, CarriedUpTo
  <2>5. \A v \in Workers : CycleCarries(v)'
    <3> TAKE v \in Workers
    <3>1. CASE v # w
      BY <2>3, <3>1, IdleCarries DEF AllCarried
    <3> QED BY <2>4, <3>1
  <2>6. PositionKnown' /\ claims' \subseteq Carried'
    BY <2>1, <2>2 DEF AllCarried, PositionKnown
  <2>7. CarriedUpTo(hot)' /\ CarriedUpTo(cold)'
    BY <2>1, <2>2 DEF AllCarried, CarriedUpTo
  <2> QED BY <2>5, <2>6, <2>7 DEF AllCarried
<1>13. CASE Release(w)
  <2>1. /\ claims' = claims \ unsettled[w] /\ batch' = [batch EXCEPT ![w] = {}]
        /\ Goto(w, "unlock") /\ UNCHANGED <<hot, cold, pos, out>>
    BY <1>13 DEF Release, store
  <2>2. Others
    BY <2>1 DEF Goto, TypeOK
  <2>3. CycleCarries(w)'
    BY <2>1 DEF CycleCarries, Goto, TypeOK
  <2> QED BY <2>1, <2>2, <2>3, CarriedByPhase
<1> HIDE DEF Others
<1> QED
  BY <1>1, <1>2, <1>3, <1>4, <1>5, <1>7, <1>8, <1>9, <1>10, <1>11, <1>12, <1>13
     DEF CycleStep

\* A step that is not a failure leaves no claim behind; and it skips nothing
\* while the stream keeps a position.
LEMMA NoCauseWithoutFailure ==
    ASSUME TypeOK, PositionKnown, [Next \/ LockFault]_vars, failures' = failures
    PROVE  UNCHANGED <<orphaned, skipped>>
<1>0. ~Incomplete
  BY DEF Incomplete, TypeOK
<1>1. ASSUME NEW w \in Workers, Load(w) PROVE UNCHANGED <<orphaned, skipped>>
  <2>1. LoadedCursor >= 0
    BY DEF LoadedCursor, PositionKnown
  <2> QED BY <1>1, <2>1 DEF Load, SkippedBy
<1>2. ASSUME NEW w \in Workers,
             \/ Begin(w) \/ SkipInactive(w) \/ Deduped(w) \/ Quarantine(w)
             \/ Discard(w) \/ Append(w) \/ EndOfStream(w) \/ Settle(w)
             \/ SaveHot(w) \/ SaveCold(w) \/ FailEarly(w) \/ FailCycle(w)
             \/ ErrorSaveFails(w) \/ Shutdown(w) \/ Release(w)
             \/ \E d \in Dests : EnqueueTo(w, d) \/ ShedTo(w, d)
      PROVE UNCHANGED <<orphaned, skipped>>
  BY <1>2 DEF Begin, SkipInactive, Deduped, Quarantine, Discard, Append,
              EndOfStream, Settle, SaveHot, SaveCold, FailEarly, FailCycle,
              ErrorSaveFails, Shutdown, Release, EnqueueTo, ShedTo, causes
<1>3. ASSUME NEW w \in Workers, Unlock(w) \/ BeginLockless(w)
      PROVE UNCHANGED <<orphaned, skipped>>
  BY <1>3 DEF Unlock, BeginLockless
<1>4. ASSUME NEW w \in Workers, ClaimUnseen(w) \/ ReleaseFails(w) \/ Crash(w)
      PROVE FALSE
  BY <1>0, <1>4 DEF ClaimUnseen, ReleaseFails, Crash, Raise, Interrupt
<1>5. CASE \/ Publish \/ RedisFlush \/ LockTimeout \/ LockExpire \/ UNCHANGED vars
           \/ \E e \in Events : ClaimExpire(e) \/ ClaimEvict(e)
  BY <1>5 DEF Publish, RedisFlush, LockTimeout, LockExpire, ClaimExpire, ClaimEvict,
              vars, causes
<1> QED
  BY <1>1, <1>2, <1>3, <1>4, <1>5 DEF Next, CycleStep, LockFault

\* Failures are counted and never forgotten.
LEMMA FailuresGrow ==
    ASSUME TypeOK, [Next \/ LockFault]_vars
    PROVE  failures' \in {failures, failures + 1}
<1>1. CASE failures' = failures
  BY <1>1
<1>2. CASE Incomplete
  BY <1>2 DEF Incomplete
<1>3. ASSUME NEW w \in Workers,
             \/ SkipInactive(w) \/ FailEarly(w) \/ FailCycle(w) \/ Shutdown(w)
             \/ ClaimUnseen(w) \/ ReleaseFails(w) \/ Crash(w)
      PROVE  Incomplete
  BY <1>3 DEF SkipInactive, FailEarly, FailCycle, Shutdown, ClaimUnseen,
              ReleaseFails, Crash, Raise, Interrupt
<1>4. ASSUME NEW w \in Workers,
             \/ Begin(w) \/ BeginLockless(w) \/ Load(w) \/ Deduped(w)
             \/ Quarantine(w) \/ Discard(w) \/ Append(w) \/ EndOfStream(w)
             \/ Settle(w) \/ SaveCold(w) \/ ErrorSaveFails(w) \/ Release(w)
             \/ Unlock(w) \/ \E d \in Dests : EnqueueTo(w, d) \/ ShedTo(w, d)
      PROVE  failures' = failures
  BY <1>4 DEF Begin, BeginLockless, Load, Deduped, Quarantine, Discard, Append,
     EndOfStream, Settle, SaveCold, ErrorSaveFails, Release, Unlock, EnqueueTo, ShedTo
<1>5. ASSUME NEW w \in Workers, SaveHot(w) PROVE failures' = failures \/ Incomplete
  BY <1>5 DEF SaveHot
<1>6. CASE \/ Publish \/ RedisFlush \/ LockTimeout \/ LockExpire \/ UNCHANGED vars
           \/ \E e \in Events : ClaimExpire(e)
  BY <1>6 DEF Publish, RedisFlush, LockTimeout, LockExpire, ClaimExpire, vars
<1>7. CASE \E e \in Events : ClaimEvict(e)
  BY <1>2, <1>7 DEF ClaimEvict
<1> QED
  BY <1>1, <1>2, <1>3, <1>4, <1>5, <1>6, <1>7 DEF Next, CycleStep, LockFault

\* SharedInv holds initially and is preserved although cycles overlap.
LEMMA SharedInductive ==
    /\ Init => SharedInv
    /\ SharedInv /\ [Next \/ LockFault]_vars => SharedInv'
<1>1. ASSUME Init PROVE SharedInv
  <2>1. CycleInv
    BY <1>1, CycleInductive
  <2>2. FaultyInv /\ ServedHoldBatch
    BY <2>1 DEF CycleInv
  <2>3. /\ claims = {} /\ hot = 0 /\ cold = 0 /\ orphaned = {} /\ skipped = {}
        /\ \A w \in Workers : pc[w] = "off"
    BY <1>1 DEF Init
  <2>4. CarriedUpTo(hot) /\ CarriedUpTo(cold) /\ PositionKnown
    BY <2>3 DEF CarriedUpTo, Events, PositionKnown
  <2>5. \A w \in Workers : CycleCarries(w)
    BY <2>3 DEF CycleCarries
  <2> QED BY <2>2, <2>3, <2>4, <2>5 DEF SharedInv, AllCarried
<1>2. ASSUME SharedInv, [Next \/ LockFault]_vars PROVE SharedInv'
  <2>1. TypeOK /\ OffClean /\ FaultyInv /\ ServedHoldBatch
    BY <1>2 DEF SharedInv, FaultyInv
  <2>2. FaultyInv' /\ TypeOK'
    BY <1>2, <2>1, FaultyInductive DEF FaultyInv
  <2>3. ServedHoldBatch'
    BY <1>2, <2>1, ServedStep
  <2>4. ASSUME failures' = 0 PROVE AllCarried' /\ orphaned' = {} /\ skipped' = {}
    <3>1. failures = 0 /\ failures' = failures
      BY <1>2, <2>1, <2>4, FailuresGrow DEF TypeOK
    <3>2. AllCarried /\ orphaned = {} /\ skipped = {}
      BY <1>2, <3>1 DEF SharedInv
    <3>3. Carried \subseteq Carried'
      BY <1>2, <2>1, <3>1, <3>2, CarriedGrows
    <3>4. AllCarried'
      BY <1>2, <2>1, <2>2, <3>1, <3>2, <3>3, SharedEnvironment, SharedCycle
         DEF Next, LockFault
    <3>5. UNCHANGED <<orphaned, skipped>>
      BY <1>2, <2>1, <3>1, <3>2, NoCauseWithoutFailure DEF AllCarried
    <3> QED BY <3>2, <3>4, <3>5
  <2> QED BY <2>2, <2>3, <2>4 DEF SharedInv
<1> QED BY <1>1, <1>2

\* Losing the lock costs nothing by itself: however many cycles of the stream
\* overlap, once all have ended without a failure the next one starts before
\* every unaccounted event, no claim was left behind and nothing was skipped,
\* although a cursor may meanwhile stand past events that another cycle still
\* holds (pipeline.py:845-903, 1274-1295).
THEOREM LockAloneLosesNothing ==
    SpecLockLost => [](failures = 0 => NoLossAtRest /\ orphaned = {} /\ skipped = {})
<1>1. ASSUME SharedInv, failures = 0
      PROVE  NoLossAtRest /\ orphaned = {} /\ skipped = {}
  <2>0. orphaned = {} /\ skipped = {}
    BY <1>1 DEF SharedInv
  <2> SUFFICES ASSUME \A w \in Workers : pc[w] = "off",
                      NEW e \in Events, LoadedCursor >= 0, e <= StartOf(LoadedCursor)
               PROVE  e \in Answered
    BY <2>0 DEF NoLossAtRest
  <2>1. TypeOK /\ OffClean /\ AllCarried
    BY <1>1 DEF SharedInv, FaultyInv
  <2>2. LoadedCursor \in 0..NumEvents /\ CarriedUpTo(LoadedCursor)
    BY <2>1 DEF TypeOK, LoadedCursor, Cursors, AllCarried, Absent, Empty
  <2>3. StartOf(LoadedCursor) <= LoadedCursor /\ StartOf(LoadedCursor) \in 0..NumEvents
    BY <2>1, <2>2, StartInStream DEF Cursors
  <2>4. e <= LoadedCursor
    BY <2>2, <2>3, BoundsAssumption DEF Events
  <2>5. e \in Carried
    BY <2>2, <2>4 DEF CarriedUpTo
  <2> QED BY <2>1, <2>5 DEF Carried, OffClean, Answered
<1> QED
  BY <1>1, SharedInductive, PTL DEF SpecLockLost

=============================================================================
