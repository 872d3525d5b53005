--------------------------- MODULE CircuitBreaker ---------------------------
(***************************************************************************)
(* The circuit breaker of one destination (collectors/circuit_breaker.py)  *)
(* and the way _send_chunk_with_retry (collectors/pipeline.py) drives it.  *)
(*                                                                         *)
(* All state is three Redis keys with a TTL; every worker process reads    *)
(* and writes them in separate round trips, and every round trip may be    *)
(* refused by Redis.  A TTL of 0 is an absent key.  Time advances in       *)
(* ticks: a send spans up to SendMax of them, while the two round trips    *)
(* that record a failure fit into the tick in which the send ended.        *)
(***************************************************************************)
EXTENDS Integers, FiniteSets

CONSTANTS
    Workers,    \* processes sending to this destination
    Threshold,  \* failure_threshold
    Cooldown,   \* cooldown_s, in ticks
    Window,     \* window_s, in ticks
    SendMax     \* timeout_ms, in ticks: asyncio.wait_for ends a send by then

ASSUME BreakerAssumption ==
    /\ Threshold \in Nat \ {0}
    /\ Cooldown \in Nat \ {0}
    /\ Window \in Nat \ {0}
    /\ SendMax \in Nat

VARIABLES
    fail,      \* breaker:{id}:fail, 0 when absent; see RecordFailure
    failTTL,   \* its TTL
    openTTL,   \* TTL of breaker:{id}:open
    probeTTL,  \* TTL of breaker:{id}:probe
    up,        \* the sink answers
    healthy,   \* ticks since the sink came back, counted up to Horizon
    at,        \* where each worker stands
    age,       \* ticks the send has been in flight
    doomed     \* the sink was down during the send in flight

keys        == <<fail, failTTL, openTTL, probeTTL>>
sink        == <<up, healthy>>
sends       == <<age, doomed>>
breakerVars == <<keys, sink, at, sends>>

BreakerPhases == {"idle", "probe", "send", "heal", "failed", "trip"}

\* Longest time a breaker may stay open after its sink recovered: a send that
\* started in time to see the outage, then a full cooldown.
Horizon == SendMax + Cooldown

BreakerInit ==
    /\ fail = 0 /\ failTTL = 0 /\ openTTL = 0 /\ probeTTL = 0
    /\ up = TRUE /\ healthy = Horizon
    /\ at = [w \in Workers |-> "idle"]
    /\ age = [w \in Workers |-> 0]
    /\ doomed = [w \in Workers |-> FALSE]

Enter(w, phase) == at' = [at EXCEPT ![w] = phase]

-----------------------------------------------------------------------------
(* check(): EXISTS open, then SET probe NX EX cooldown_s.                  *)

\* The send starts.
Send(w) ==
    /\ Enter(w, "send")
    /\ age' = [age EXCEPT ![w] = 0]
    /\ doomed' = [doomed EXCEPT ![w] = ~up]

CheckClosed(w) ==
    /\ at[w] = "idle"
    /\ openTTL = 0
    /\ Send(w)
    /\ UNCHANGED <<keys, sink>>

CheckOpen(w) ==
    /\ at[w] = "idle"
    /\ openTTL > 0
    /\ Enter(w, "probe")
    /\ UNCHANGED <<keys, sink, sends>>

\* SET NX wins: this send is the probe.
WinProbe(w) ==
    /\ at[w] = "probe"
    /\ probeTTL = 0
    /\ probeTTL' = Cooldown
    /\ Send(w)
    /\ UNCHANGED <<fail, failTTL, openTTL, sink>>

\* Mutant: a refused call renews the cooldown.
RefusedRenewing(w) ==
    /\ at[w] = "probe"
    /\ probeTTL > 0
    /\ openTTL' = Cooldown
    /\ Enter(w, "idle")
    /\ UNCHANGED <<fail, failTTL, probeTTL, sink, sends>>

\* Mutant: a refused call renews the open key and takes the token over.
RefusedExtending(w) ==
    /\ at[w] = "probe"
    /\ probeTTL > 0
    /\ openTTL' = Cooldown /\ probeTTL' = Cooldown
    /\ Enter(w, "idle")
    /\ UNCHANGED <<fail, failTTL, sink, sends>>

\* BreakerOpen: the caller gives up on its batch.
Refused(w) ==
    /\ at[w] = "probe"
    /\ probeTTL > 0
    /\ Enter(w, "idle")
    /\ UNCHANGED <<keys, sink, sends>>

\* RedisError in check(): fail open.
CheckFailsOpen(w) ==
    /\ at[w] \in {"idle", "probe"}
    /\ Send(w)
    /\ UNCHANGED <<keys, sink>>

-----------------------------------------------------------------------------
(* _send_chunk_with_retry: the outcomes of one attempt.                    *)

\* Something was accepted and the result is not retryable.
Delivered(w) ==
    /\ at[w] = "send"
    /\ Enter(w, "heal")
    /\ UNCHANGED <<keys, sink, sends>>

\* wait_for timed out, or the sink answered 429 / 5xx.
AttemptFails(w) ==
    /\ at[w] = "send"
    /\ doomed[w]
    /\ Enter(w, "failed")
    /\ UNCHANGED <<keys, sink, sends>>

\* Everything was rejected for good, or send_batch raised something else than
\* a timeout: neither success nor failure is recorded.
Unrecorded(w) ==
    /\ at[w] = "send"
    /\ Enter(w, "idle")
    /\ UNCHANGED <<keys, sink, sends>>

-----------------------------------------------------------------------------
(* record_success() and record_failure().                                  *)

\* DEL fail open probe
RecordSuccess(w) ==
    /\ at[w] = "heal"
    /\ fail' = 0 /\ failTTL' = 0 /\ openTTL' = 0 /\ probeTTL' = 0
    /\ Enter(w, "idle")
    /\ UNCHANGED <<sink, sends>>

\* INCR fail; EXPIRE fail window_s.  Only fail_count >= threshold is ever read,
\* so the counter stops at Threshold.
Incremented(n) == IF n < Threshold THEN n + 1 ELSE Threshold

RecordFailure(w) ==
    /\ at[w] = "failed"
    /\ fail' = Incremented(fail)
    /\ failTTL' = Window
    /\ Enter(w, IF fail' >= Threshold THEN "trip" ELSE "idle")
    /\ UNCHANGED <<openTTL, probeTTL, sink, sends>>

\* Mutant: the open key gets the TTL of the failure window.
TripForWindow(w) ==
    /\ at[w] = "trip"
    /\ openTTL' = Window
    /\ Enter(w, "idle")
    /\ UNCHANGED <<fail, failTTL, probeTTL, sink, sends>>

\* SET open EX cooldown_s, a round trip of its own.
Trip(w) ==
    /\ at[w] = "trip"
    /\ openTTL' = Cooldown
    /\ Enter(w, "idle")
    /\ UNCHANGED <<fail, failTTL, probeTTL, sink, sends>>

\* RedisError while recording: logged, and the attempt is over.
RecordLost(w) ==
    /\ at[w] \in {"heal", "failed", "trip"}
    /\ Enter(w, "idle")
    /\ UNCHANGED <<keys, sink, sends>>

-----------------------------------------------------------------------------
(* The environment.                                                        *)

\* The worker dies, or its coroutine is cancelled, wherever it stands.
WorkerDies(w) ==
    /\ at[w] # "idle"
    /\ Enter(w, "idle")
    /\ UNCHANGED <<keys, sink, sends>>

SinkDown ==
    /\ up
    /\ up' = FALSE
    /\ healthy' = 0
    /\ doomed' = [w \in Workers |-> TRUE]
    /\ UNCHANGED <<keys, at, age>>

SinkUp ==
    /\ ~up
    /\ up' = TRUE
    /\ UNCHANGED <<keys, healthy, at, sends>>

Aged(ttl) == IF ttl > 0 THEN ttl - 1 ELSE 0

\* One tick: keys age, sends in flight get older, none beyond its timeout.
Tick ==
    /\ \A w \in Workers : /\ at[w] \notin {"failed", "trip"}
                          /\ at[w] = "send" => age[w] < SendMax
    /\ failTTL' = Aged(failTTL)
    /\ fail' = IF failTTL' = 0 THEN 0 ELSE fail
    /\ openTTL' = Aged(openTTL)
    /\ probeTTL' = Aged(probeTTL)
    /\ age' = [w \in Workers |-> IF at[w] = "send" THEN age[w] + 1 ELSE age[w]]
    /\ healthy' = IF up /\ healthy < Horizon THEN healthy + 1 ELSE healthy
    /\ UNCHANGED <<up, at, doomed>>

-----------------------------------------------------------------------------
Attempt(w) ==
    \/ CheckClosed(w) \/ CheckOpen(w) \/ WinProbe(w) \/ Refused(w)
    \/ CheckFailsOpen(w)

Outcome(w) == Delivered(w) \/ AttemptFails(w) \/ Unrecorded(w)

Record(w) == RecordSuccess(w) \/ RecordFailure(w) \/ Trip(w) \/ RecordLost(w)

BreakerNext ==
    \/ \E w \in Workers : Attempt(w) \/ Outcome(w) \/ Record(w) \/ WorkerDies(w)
    \/ SinkDown \/ SinkUp \/ Tick

\* Time passes; a worker with a batch checks the breaker, a send ends by its
\* timeout and the outcome is recorded.
BreakerFairness ==
    /\ WF_breakerVars(Tick)
    /\ \A w \in Workers : WF_breakerVars(Attempt(w)) /\ WF_breakerVars(Outcome(w) \/ Record(w))

BreakerSpec == BreakerInit /\ [][BreakerNext]_breakerVars /\ BreakerFairness

-----------------------------------------------------------------------------
(* Properties.                                                             *)

\* Every variable stays in its domain.
BreakerTypes ==
    /\ fail \in 0..Threshold /\ failTTL \in 0..Window
    /\ openTTL \in 0..Cooldown /\ probeTTL \in 0..Cooldown
    /\ up \in BOOLEAN /\ healthy \in 0..Horizon
    /\ at \in [Workers -> BreakerPhases]
    /\ age \in [Workers -> 0..SendMax]
    /\ doomed \in [Workers -> BOOLEAN]

\* Once the sink has answered for SendMax + Cooldown ticks the breaker is closed
\* and nothing recorded late can open it again: no interleaving of the separate
\* round trips of check, record_success and record_failure, no lost recording and
\* no dead probe holder keeps refusing a healthy destination
\* (circuit_breaker.py:130-294).
BlackoutBounded ==
    healthy = Horizon =>
        /\ openTTL = 0
        /\ \A w \in Workers : at[w] \notin {"failed", "trip"}

\* Whatever the sink does and whoever dies holding the probe token, some worker
\* is let through again and again (circuit_breaker.py:18-22).
SendsContinue == []<>(\E w \in Workers : at[w] = "send")

-----------------------------------------------------------------------------
(* The inductive strengthening behind the theorems.                        *)

\* The recovery is counted from the end of the last outage.
DownResets == up \/ healthy = 0

\* A send that saw the outage is at least as old as the recovery, and a failure
\* is recorded in the tick in which its send ended.
LateFailures ==
    \A w \in Workers :
        /\ at[w] = "send" /\ doomed[w] => healthy <= age[w]
        /\ at[w] \in {"failed", "trip"} => healthy <= SendMax

\* What is left of the cooldown ends within the horizon.
OpenEnds == openTTL > 0 => healthy + openTTL <= Horizon

BreakerInv == BreakerTypes /\ DownResets /\ LateFailures /\ OpenEnds

=============================================================================
