------------------------------- MODULE Bulkhead -------------------------------
(***************************************************************************)
(* The two layers that bound the concurrent sends to one destination       *)
(* (pipeline.dispatch_batch_to_destination): a lease in a Redis sorted set *)
(* shared by every worker process (output/destination_limiter.py), and     *)
(* inside it a resizable semaphore of the event loop                       *)
(* (output/concurrency_pool.py).                                           *)
(*                                                                         *)
(* Time is counted in ticks.  The score of a slot is the clock of the host *)
(* that took it, so a slot is kept as its age by Redis's clock, negative   *)
(* when that host runs ahead.                                              *)
(***************************************************************************)
EXTENDS Integers, FiniteSets

CONSTANTS
    Tasks,       \* dispatches in flight at a time
    Loops,       \* event loops, one per worker process
    LoopOf,      \* the loop a dispatch runs in
    Skew,        \* how far the clock of a loop's host is ahead of Redis's
    Tokens,      \* the tokens a dispatch may draw, all different: at any time one is new
    NoToken,     \* no lease is held
    Limits,      \* values DeliveryConfig.concurrency takes as operators edit it
    Lease,       \* LEASE_MS
    MaxWait,     \* max_wait_seconds
    MaxFaults    \* bound on deaths, lost replies and cancellations

ASSUME BulkheadAssumption ==
    /\ IsFiniteSet(Tasks) /\ IsFiniteSet(Loops)
    /\ DOMAIN Tokens = Tasks
    /\ \A t \in Tasks : NoToken \notin Tokens[t]
    /\ \A t, u \in Tasks : t # u => Tokens[t] \cap Tokens[u] = {}
    /\ LoopOf \in [Tasks -> Loops] /\ Skew \in [Loops -> Int]
    /\ Limits \subseteq Nat \ {0}
    /\ Lease \in Nat /\ MaxWait \in Nat /\ MaxFaults \in Nat

VARIABLES
    stage,    \* of a dispatch: "idle", "lease", "permit" or "send"
    cap,      \* the concurrency it has read; 0 when it is idle
    token,    \* its token while it waits for or holds a slot
    waited,   \* how long it has waited for a slot
    tenure,   \* how long it has held its slot, counted until it is overdue
    slots,    \* the sorted set: the age of each slot in it
    ttl,      \* ticks until Redis expires the whole key
    limit,    \* DestinationSlot._limit of a loop; 0: the loop has no slot
    target,   \* DestinationSlot._target
    free,     \* permits of its semaphore that nobody holds
    faults    \* faults so far

lease   == <<token, slots, ttl>>
permits == <<limit, target, free>>
timing  == <<waited, tenure>>
vars    == <<stage, cap, lease, timing, permits, faults>>

NoSlots == [k \in {} |-> 0]

Init ==
    /\ stage = [t \in Tasks |-> "idle"] /\ cap = [t \in Tasks |-> 0]
    /\ token = [t \in Tasks |-> NoToken]
    /\ waited = [t \in Tasks |-> 0] /\ tenure = [t \in Tasks |-> 0]
    /\ slots = NoSlots /\ ttl = 0
    /\ limit = [l \in Loops |-> 0] /\ target = [l \in Loops |-> 0]
    /\ free = [l \in Loops |-> 0]
    /\ faults = 0

-----------------------------------------------------------------------------
InLoop(l, stages) == {t \in Tasks : LoopOf[t] = l /\ stage[t] \in stages}
Senders(l)        == InLoop(l, {"send"})

\* DestinationSlot._pending: holders and waiters.
Pending(l) == InLoop(l, {"permit", "send"})

\* Mutant: a new semaphore takes the place of the one in use.
RetargetReplacing(l, new) ==
    /\ target' = [target EXCEPT ![l] = new]
    /\ limit' = [limit EXCEPT ![l] = new]
    /\ free' = [free EXCEPT ![l] = new]

\* get_semaphore and retarget: a slot with nobody in or at it gets a new semaphore,
\* a larger limit releases the permits it adds, a smaller one waits for the exits.
Retarget(l, new) ==
    /\ target' = [target EXCEPT ![l] = new]
    /\ limit' = [limit EXCEPT ![l] =
          IF target[l] # new /\ (Pending(l) = {} \/ new > @) THEN new ELSE @]
    /\ free' = [free EXCEPT ![l] = @ + (limit'[l] - limit[l])]

Fresh(t) == Tokens[t] \ DOMAIN slots

\* A dispatch has read the configuration, which may have changed since
\* (_load_destination_config); get_semaphore, then slot() with a token of its own.
Enter(t) ==
    /\ stage[t] = "idle"
    /\ Fresh(t) # {}
    /\ \E c \in Limits : /\ Retarget(LoopOf[t], c)
                         /\ cap' = [cap EXCEPT ![t] = c]
    /\ stage' = [stage EXCEPT ![t] = "lease"]
    /\ token' = [token EXCEPT ![t] = CHOOSE k \in Fresh(t) : TRUE]
    /\ UNCHANGED <<slots, ttl, timing, faults>>

-----------------------------------------------------------------------------
(* _ACQUIRE_LUA.                                                           *)

\* Mutant: the script evicts nothing.
LiveAll(t) == DOMAIN slots

\* Mutant: a slot expires by the key's remaining time, not its own age.
LiveByKey(t) == {k \in DOMAIN slots : ttl = Lease}

\* The slots ZREMRANGEBYSCORE leaves, by the clock of the caller.
Live(t) == {k \in DOMAIN slots : slots[k] < Lease - Skew[LoopOf[t]]}

Room(t) == Cardinality(Live(t)) < cap[t]

Evicted(t) == [k \in Live(t) |-> slots[k]]

\* Evict, count, add.
Added(t) == [k \in Live(t) \cup {token[t]} |->
                IF k = token[t] THEN 0 - Skew[LoopOf[t]] ELSE slots[k]]

\* The slot is granted.
Admit(t) ==
    /\ stage[t] = "lease"
    /\ Room(t)
    /\ slots' = Added(t) /\ ttl' = Lease
    /\ stage' = [stage EXCEPT ![t] = "permit"]
    /\ waited' = [waited EXCEPT ![t] = 0]
    /\ UNCHANGED <<cap, token, tenure, permits, faults>>

\* On without a lease.
FailOpen(t) ==
    /\ stage' = [stage EXCEPT ![t] = "permit"]
    /\ token' = [token EXCEPT ![t] = NoToken]
    /\ waited' = [waited EXCEPT ![t] = 0]

\* Mutant: the deadline is not looked at.
RefuseForever(t) ==
    /\ stage[t] = "lease"
    /\ ~Room(t)
    /\ slots' = Evicted(t)
    /\ UNCHANGED <<stage, cap, token, ttl, timing, permits, faults>>

\* The cap is reached: poll again, or past max_wait_seconds go on without a lease.
Refuse(t) ==
    /\ stage[t] = "lease"
    /\ ~Room(t)
    /\ slots' = Evicted(t)
    /\ IF waited[t] < MaxWait THEN UNCHANGED <<stage, token, waited>> ELSE FailOpen(t)
    /\ UNCHANGED <<cap, ttl, tenure, permits, faults>>

\* Redis cannot be reached, before or after it ran the script: no lease either, but
\* the slot may be taken.
Unreachable(t) ==
    /\ stage[t] = "lease"
    /\ faults < MaxFaults /\ faults' = faults + 1
    /\ \/ UNCHANGED <<slots, ttl>>
       \/ Room(t) /\ slots' = Added(t) /\ ttl' = Lease
    /\ FailOpen(t)
    /\ UNCHANGED <<cap, tenure, permits>>

-----------------------------------------------------------------------------
\* Mutant: the slot is entered without a permit.
PermitUnchecked(t) ==
    /\ stage[t] = "permit"
    /\ free' = [free EXCEPT ![LoopOf[t]] = @ - 1]
    /\ stage' = [stage EXCEPT ![t] = "send"]
    /\ UNCHANGED <<cap, lease, timing, limit, target, faults>>

\* DestinationSlot.__aenter__ acquires a permit.
Permit(t) ==
    /\ stage[t] = "permit"
    /\ free[LoopOf[t]] > 0
    /\ free' = [free EXCEPT ![LoopOf[t]] = @ - 1]
    /\ stage' = [stage EXCEPT ![t] = "send"]
    /\ UNCHANGED <<cap, lease, timing, limit, target, faults>>

\* The dispatches of a set are over.
Leave(S) ==
    /\ stage'  = [t \in Tasks |-> IF t \in S THEN "idle" ELSE stage[t]]
    /\ cap'    = [t \in Tasks |-> IF t \in S THEN 0 ELSE cap[t]]
    /\ token'  = [t \in Tasks |-> IF t \in S THEN NoToken ELSE token[t]]
    /\ waited' = [t \in Tasks |-> IF t \in S THEN 0 ELSE waited[t]]
    /\ tenure' = [t \in Tasks |-> IF t \in S THEN 0 ELSE tenure[t]]

\* slot() ends: ZREM, which may fail and leave the slot to its lease.
Release(t, fails) ==
    /\ slots' = IF fails THEN slots ELSE [k \in DOMAIN slots \ {token[t]} |-> slots[k]]
    /\ Leave({t})
    /\ fails => faults < MaxFaults
    /\ faults' = IF fails THEN faults + 1 ELSE faults

\* DestinationSlot.__aexit__: the permit is absorbed while the limit is above target.
Exit(l) ==
    IF limit[l] > target[l]
    THEN limit' = [limit EXCEPT ![l] = @ - 1] /\ UNCHANGED free
    ELSE free' = [free EXCEPT ![l] = @ + 1] /\ UNCHANGED limit

\* The chunks are sent.
Finish(t) ==
    /\ stage[t] = "send"
    /\ Exit(LoopOf[t])
    /\ \E fails \in BOOLEAN : Release(t, fails)
    /\ UNCHANGED <<ttl, target>>

\* A dispatch is cancelled while it waits for a permit.
Cancel(t) ==
    /\ stage[t] = "permit"
    /\ faults < MaxFaults /\ faults' = faults + 1
    /\ slots' = [k \in DOMAIN slots \ {token[t]} |-> slots[k]]
    /\ Leave({t})
    /\ UNCHANGED <<ttl, permits>>

\* A loop ends, and with it its entry of the pool; when the process dies its
\* dispatches leave their slots behind.
EndLoop(l) ==
    /\ limit[l] # 0
    /\ IF InLoop(l, {"lease", "permit", "send"}) = {} THEN UNCHANGED faults
       ELSE faults < MaxFaults /\ faults' = faults + 1
    /\ Leave({t \in Tasks : LoopOf[t] = l})
    /\ limit' = [limit EXCEPT ![l] = 0] /\ target' = [target EXCEPT ![l] = 0]
    /\ free' = [free EXCEPT ![l] = 0]
    /\ UNCHANGED <<slots, ttl>>

-----------------------------------------------------------------------------
Holds(t) == stage[t] \in {"permit", "send"} /\ token[t] # NoToken

\* The lease, which is never renewed, ran out under its holder: the key's expiry or
\* the clock of some worker may take its slot away while it is still sending.
Overdue(t) ==
    \/ tenure[t] >= Lease
    \/ \E l \in Loops : tenure[t] + Skew[l] - Skew[LoopOf[t]] >= Lease

\* It holds a lease that has not run out.
Current(t) == Holds(t) /\ ~Overdue(t)

\* A slot every clock takes for expired ages no further.
Older(a) == IF \A l \in Loops : a >= Lease - Skew[l] THEN a ELSE a + 1

\* Nothing bounds a dispatch by its lease, which spans every chunk and retry.
\* PEXPIRE: the key goes when nothing was added for a lease.
Tick ==
    /\ tenure' = [t \in Tasks |-> IF Current(t) THEN tenure[t] + 1
                                  ELSE tenure[t]]
    /\ waited' = [t \in Tasks |-> IF stage[t] = "lease" /\ waited[t] < MaxWait
                                 THEN waited[t] + 1 ELSE waited[t]]
    /\ ttl' = IF ttl = 0 THEN 0 ELSE ttl - 1
    /\ slots' = IF ttl' = 0 THEN NoSlots ELSE [k \in DOMAIN slots |-> Older(slots[k])]
    /\ UNCHANGED <<stage, cap, token, permits, faults>>

Next ==
    \/ Tick
    \/ \E t \in Tasks :
         \/ Enter(t) \/ Admit(t) \/ Refuse(t) \/ Unreachable(t)
         \/ Permit(t) \/ Finish(t) \/ Cancel(t)
    \/ \E l \in Loops : EndLoop(l)

\* Dispatches run, polls and sends come to an end (timeouts), time passes; the
\* semaphore serves its waiters in turn.
Fairness ==
    /\ WF_vars(Tick)
    /\ \A t \in Tasks : /\ WF_vars(Admit(t) \/ Refuse(t) \/ Finish(t))
                        /\ SF_vars(Permit(t))

Spec == Init /\ [][Next]_vars /\ Fairness

-----------------------------------------------------------------------------
(* Properties.                                                             *)

TypeOK ==
    /\ stage \in [Tasks -> {"idle", "lease", "permit", "send"}]
    /\ cap \in [Tasks -> Limits \cup {0}] /\ (\A t \in Tasks : token[t] \in Tokens[t] \cup {NoToken})
    /\ waited \in [Tasks -> 0..MaxWait] /\ tenure \in [Tasks -> 0..Lease]
    /\ DOMAIN slots \subseteq UNION {Tokens[t] : t \in Tasks}
    /\ \A k \in DOMAIN slots : slots[k] \in Int
    /\ ttl \in 0..Lease
    /\ limit \in [Loops -> Nat] /\ target \in [Loops -> Nat] /\ free \in [Loops -> Nat]
    /\ faults \in 0..MaxFaults

Holders == {t \in Tasks : Current(t)}

\* Across processes and hosts: of any dispatches that hold a lease that has not run
\* out, one has read a concurrency that allows them all.  Deaths, lost replies,
\* releases that fail, reconfigurations, clocks that differ and dispatches that
\* overstay do not raise the cap: only the overstayers themselves come on top of it
\* (output/destination_limiter.py:48-72).
CapHeld == \A S \in SUBSET Holders : S # {} => \E t \in S : Cardinality(S) <= cap[t]

\* Inside a loop permits are neither made nor lost, however the slot is resized
\* under its holders and waiters: the senders and the free permits are the limit.
PermitsConserved == \A l \in Loops :
    /\ Cardinality(Senders(l)) + free[l] = limit[l]
    /\ target[l] <= limit[l]

\* Once the faults are over, every slot of the sorted set is soon one that a
\* dispatch holds or asked for.
LeaksHeal == <>[](\A k \in DOMAIN slots : \E t \in Tasks : token[t] = k)

\* No dispatch waits for ever: it sends, or its process died.
NobodyStuck == \A t \in Tasks : stage[t] = "lease" ~> stage[t] \in {"send", "idle"}

\* "O limite novo passa a valer à medida que o trabalho drena" (concurrency_pool):
\* when the work in flight has drained the new limit is in force.
DrainedInForce == \A l \in Loops : Pending(l) = {} => limit[l] = target[l]

=============================================================================
