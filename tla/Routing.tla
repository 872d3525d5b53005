------------------------------- MODULE Routing -------------------------------
(***************************************************************************)
(* The routing engine (collectors/routing/engine.py) as the collection     *)
(* cycle calls it (pipeline._enqueue_routed): a batch of events against    *)
(* the routes of an organisation.                                          *)
(*                                                                         *)
(* First the routes are read and ordered, and the routes API's lint        *)
(* (find_unreachable) passes over the same list.  Then each event is       *)
(* evaluated, one step per route, its destinations are resolved, and the   *)
(* copies are put in the sub-batches of their destinations.  Last, the     *)
(* events without a destination are written to the dead-letter table.      *)
(*                                                                         *)
(* A label is an integer, Text (a value no number compares with) or None.  *)
(* A condition maps fields to clauses; a clause is a set of comparisons    *)
(* [op, val], val the set of the values it names.                          *)
(***************************************************************************)
EXTENDS Integers, Sequences, FiniteSets

CONSTANTS
    Dests,        \* destinations
    NoDest,       \* no default destination is configured
    Text, None,   \* a label that is not a number; a label that is absent
    Batch,        \* sequence of events: labels, wazuh, geo, bucket
    RouteSets,    \* possible sets of routes
    Defaults,     \* possible default destinations
    Samplings,    \* possible sampling settings
    LoopDests,    \* destinations that feed the Wazuh manager
    Residency,    \* declared residency zone of each destination
    Lookups       \* possible sets of look-ups that succeed

Fields == {"organization_id", "vendor", "severity"}
Names  == Fields \cup {"org_id"}

\* _canonical_field.
Canonical(f) == IF f = "org_id" THEN "organization_id" ELSE f

\* A compiled route; its condition spells no field twice.
WellFormed(r) ==
    /\ DOMAIN r.cond \subseteq Names
    /\ \A f, g \in DOMAIN r.cond : Canonical(f) = Canonical(g) => f = g
    /\ r.drop \in BOOLEAN /\ r.final \in BOOLEAN /\ r.enabled \in BOOLEAN
    /\ r.redact \in BOOLEAN /\ r.protect \in BOOLEAN
    /\ r.canary \in 0..100 /\ r.sample \in 0..100
    /\ r.dests \in Seq(Dests)

ASSUME RoutingAssumption ==
    /\ NoDest \notin Dests /\ Text # None
    /\ Batch \in Seq([labels : [Fields -> Int \cup {Text, None}], wazuh : BOOLEAN,
                      geo : STRING, bucket : 0..99])
    /\ \A R \in RouteSets : IsFiniteSet(R) /\ \A r \in R : WellFormed(r)
    /\ Defaults \subseteq Dests \cup {NoDest}

VARIABLES
    routes,       \* the compiled routes in evaluation order
    fallback,     \* the default destination, or NoDest
    sampling,     \* SamplingConfig
    known,        \* which look-ups succeeded: "residency", "loops"
    pc,           \* "lint", "evaluate", "resolve", "done", then "stored" or "unwritten"
    scan,         \* the route the lint is at
    closing,      \* its seen_final, as positions
    unreachable,  \* the positions it reports
    event,        \* the event in hand
    next,         \* the route it is evaluated against next
    applied,      \* the positions of the routes that matched and applied
    chosen,       \* the winning route of each destination assigned so far
    sub,          \* copies in the sub-batch of each destination
    dropped,      \* events discarded by a drop route
    looped,       \* events suppressed by the loop guard
    unrouted,     \* events for the dead-letter table
    rows,         \* events with a row in it
    blocked,      \* pairs of event and destination excluded by residency
    sampled       \* pairs of event and destination sampled out

config   == <<routes, fallback, sampling, known>>
lint     == <<scan, closing, unreachable>>
hand     == <<event, next, applied, chosen>>
outcomes == <<sub, dropped, looped, unrouted, rows, blocked, sampled>>
vars     == <<config, pc, lint, hand, outcomes>>

-----------------------------------------------------------------------------
(* Conditions.                                                             *)

\* compare_values, for the operators a route may use.  An absent label satisfies ne
\* and nin only; what does not compare is no match.
Compare(c, actual) ==
    \/ c.op = "exists" /\ actual # None
    \/ c.op = "absent" /\ actual = None
    \/ c.op \in {"eq", "in"}  /\ actual \in c.val
    \/ c.op \in {"ne", "nin"} /\ actual \notin c.val
    \/ /\ actual \notin {Text, None} /\ Text \notin c.val
       /\ \A v \in c.val : \/ c.op = "gt"  /\ actual > v
                           \/ c.op = "gte" /\ actual >= v
                           \/ c.op = "lt"  /\ actual < v
                           \/ c.op = "lte" /\ actual <= v
       /\ c.op \in {"gt", "gte", "lt", "lte"}

\* _match_clause: every comparison of the clause holds.
MatchClause(clause, actual) == \A c \in clause : Compare(c, actual)

\* matches: every clause of the condition holds.
Matches(cond, labels) ==
    \A f \in DOMAIN cond : MatchClause(cond[f], labels[Canonical(f)])

\* _canary_pass.
CanaryPass(percent, bucket) == percent >= 100 \/ (percent > 0 /\ bucket < percent)

\* _clause_value_set is not None: a clause of a single eq or in.
Enumerable(clause) == \E c \in clause : clause = {c} /\ c.op \in {"eq", "in"}
ValueSet(clause)   == UNION {c.val : c \in clause}

\* _subsumes.
Subsumes(a, b) == \A f \in DOMAIN a :
    /\ Enumerable(a[f])
    /\ \E g \in DOMAIN b :
         /\ Canonical(g) = Canonical(f)
         /\ Enumerable(b[g]) /\ ValueSet(b[g]) # {}
         /\ ValueSet(b[g]) \subseteq ValueSet(a[f])

-----------------------------------------------------------------------------
\* order_routes: by priority, then by id.
Before(a, b) == a.priority < b.priority \/ (a.priority = b.priority /\ a.id < b.id)

NoneChosen == [d \in {} |-> 0]

Orderings(R) == {s \in [1..Cardinality(R) -> R] :
    \A i, j \in 1..Cardinality(R) : i < j => Before(s[i], s[j])}

Init ==
    /\ \E R \in RouteSets : routes \in Orderings(R)
    /\ fallback \in Defaults /\ sampling \in Samplings /\ known \in Lookups
    /\ pc = "lint" /\ scan = 1 /\ closing = {} /\ unreachable = {}
    /\ event = 1 /\ next = 1 /\ applied = {} /\ chosen = NoneChosen
    /\ sub = [d \in Dests |-> <<>>]
    /\ dropped = {} /\ looped = {} /\ unrouted = {} /\ rows = {}
    /\ blocked = {} /\ sampled = {}

\* Mutant: a canary route closes the list too.
ClosesCanary(r) == r.final

\* What closes the list to the routes behind it: a full, final route.
Closes(r) == r.final /\ r.canary >= 100

\* find_unreachable, one route at a time.
Lint ==
    /\ pc = "lint" /\ scan <= Len(routes)
    /\ scan' = scan + 1
    /\ LET r == routes[scan]
           shadowed == \E i \in closing : Subsumes(routes[i].cond, r.cond)
       IN  /\ unreachable' = IF r.enabled /\ shadowed THEN unreachable \cup {scan}
                             ELSE unreachable
           /\ closing' = IF r.enabled /\ ~shadowed /\ Closes(r) THEN closing \cup {scan}
                         ELSE closing
    /\ UNCHANGED <<config, pc, hand, outcomes>>

LintDone ==
    /\ pc = "lint" /\ scan > Len(routes)
    /\ pc' = IF Batch = <<>> THEN "done" ELSE "evaluate"
    /\ UNCHANGED <<config, lint, hand, outcomes>>

-----------------------------------------------------------------------------
(* evaluate_event.                                                         *)

Ev == Batch[event]

\* The next event of the batch, or the end of it.
NextEvent ==
    /\ pc' = IF event = Len(Batch) THEN "done" ELSE "evaluate"
    /\ event' = event + 1 /\ next' = 1 /\ applied' = {} /\ chosen' = NoneChosen

Applies(r, e) ==
    /\ r.enabled
    /\ Matches(r.cond, e.labels)
    /\ CanaryPass(r.canary, e.bucket)

Evaluating == pc = "evaluate" /\ next <= Len(routes)

\* Disabled, no match, or outside of the canary: on to the next route.
FallThrough ==
    /\ Evaluating
    /\ ~Applies(routes[next], Ev)
    /\ next' = next + 1
    /\ UNCHANGED <<config, pc, lint, event, applied, chosen, outcomes>>

\* A drop route discards the event, whatever routes applied before.
Drop ==
    /\ Evaluating
    /\ Applies(routes[next], Ev) /\ routes[next].drop
    /\ dropped' = dropped \cup {event}
    /\ NextEvent
    /\ UNCHANGED <<config, lint, sub, looped, unrouted, rows, blocked, sampled>>

\* The destinations of the routes.
Targets(r) == {r.dests[i] : i \in 1..Len(r.dests)}

\* Mutant: the first route keeps its destination, redacting or not.
WinsFirst(d) == d \notin DOMAIN chosen

\* The route in hand takes a destination no route has yet, or one a route that does
\* not redact has, when it redacts itself.
Wins(d) == d \notin DOMAIN chosen
           \/ (~routes[chosen[d]].redact /\ routes[next].redact)

\* A route adds its destinations; a final one ends the evaluation.
Assign ==
    /\ Evaluating
    /\ Applies(routes[next], Ev) /\ ~routes[next].drop
    /\ applied' = applied \cup {next}
    /\ chosen' = [d \in DOMAIN chosen \cup Targets(routes[next]) |->
                    IF d \in Targets(routes[next]) /\ Wins(d) THEN next ELSE chosen[d]]
    /\ next' = next + 1
    /\ pc' = IF routes[next].final THEN "resolve" ELSE pc
    /\ UNCHANGED <<config, lint, event, outcomes>>

EvaluateDone ==
    /\ pc = "evaluate" /\ next > Len(routes)
    /\ pc' = "resolve"
    /\ UNCHANGED <<config, lint, hand, outcomes>>

-----------------------------------------------------------------------------
(* route_batch.                                                            *)

\* _load_wazuh_loop_destination_ids, asked about the destinations of the routes.
Named   == UNION {Targets(routes[i]) : i \in 1..Len(routes)}
LoopIds == IF "loops" \in known THEN LoopDests \cap Named ELSE {}

\* _residency_conflict.
Conflict(zone, geo) ==
    /\ zone # "none" /\ geo # "none"
    /\ zone # "global" /\ geo # "global"
    /\ zone # geo

AfterLoop == IF Ev.wazuh THEN DOMAIN chosen \ LoopIds ELSE DOMAIN chosen
Excluded  == {d \in AfterLoop : "residency" \in known /\ Conflict(Residency[d], Ev.geo)}
Remaining == AfterLoop \ Excluded

Resolved ==
    /\ pc = "resolve"
    /\ blocked' = blocked \cup {<<event, d>> : d \in Excluded}
    /\ NextEvent
    /\ UNCHANGED <<config, lint, dropped, rows>>

\* _should_sample_out, and the sample_rate a copy that is kept is marked with.
Reduces(r)   == sampling.enabled /\ r.sample < 100 /\ ~(r.protect /\ sampling.enforced)
SampleOut(r) == Reduces(r) /\ ~CanaryPass(r.sample, Ev.bucket)
Rate(r)      == IF Reduces(r) THEN r.sample ELSE 100

\* The copy a route sends to one of its destinations.
Copy(r) == [event |-> event, via |-> "route", redacted |-> r.redact, rate |-> Rate(r)]

\* Each remaining destination gets its copy, unless the route samples it out.
Deliver ==
    /\ Resolved
    /\ Remaining # {}
    /\ LET out == {d \in Remaining : SampleOut(routes[chosen[d]])}
       IN  /\ sampled' = sampled \cup {<<event, d>> : d \in out}
           /\ sub' = [d \in Dests |-> IF d \in Remaining \ out
                                       THEN Append(sub[d], Copy(routes[chosen[d]]))
                                       ELSE sub[d]]
    /\ UNCHANGED <<looped, unrouted>>

\* _no_destination: no route, or all destinations excluded.
Suppress == Ev.wazuh /\ (fallback = NoDest \/ fallback \in LoopIds)

LoopBlocked ==
    /\ Resolved
    /\ Remaining = {}
    /\ Suppress
    /\ looped' = looped \cup {event}
    /\ UNCHANGED <<sub, unrouted, sampled>>

ToFallback ==
    /\ Resolved
    /\ Remaining = {}
    /\ ~Suppress /\ fallback # NoDest
    /\ sub' = [sub EXCEPT ![fallback] = Append(@,
                  [event |-> event, via |-> "fallback", redacted |-> FALSE, rate |-> 100])]
    /\ UNCHANGED <<looped, unrouted, sampled>>

\* Mutant: without a default destination the event is only passed over.
UnroutedForgotten ==
    /\ Resolved
    /\ Remaining = {}
    /\ ~Suppress /\ fallback = NoDest
    /\ UNCHANGED <<sub, looped, unrouted, sampled>>

\* The event is left to _enqueue_routed.
Unrouted ==
    /\ Resolved
    /\ Remaining = {}
    /\ ~Suppress /\ fallback = NoDest
    /\ unrouted' = unrouted \cup {event}
    /\ UNCHANGED <<sub, looped, sampled>>

-----------------------------------------------------------------------------
(* The end of _enqueue_routed.                                             *)

\* persist_batch_dlq: the rows of the events without a destination, in one
\* transaction.
Persist ==
    /\ pc = "done" /\ pc' = "stored"
    /\ rows' = unrouted
    /\ UNCHANGED <<config, lint, hand, sub, dropped, looped, unrouted, blocked, sampled>>

\* The transaction fails: persist_batch_dlq logs it and returns FALSE, which nobody
\* looks at.
PersistFails ==
    /\ pc = "done" /\ unrouted # {}
    /\ pc' = "unwritten"
    /\ UNCHANGED <<config, lint, hand, outcomes>>

-----------------------------------------------------------------------------
Next ==
    \/ Lint \/ LintDone
    \/ FallThrough \/ Drop \/ Assign \/ EvaluateDone
    \/ Deliver \/ LoopBlocked \/ ToFallback \/ Unrouted
    \/ Persist \/ PersistFails

Spec == Init /\ [][Next]_vars

-----------------------------------------------------------------------------
(* Properties.                                                             *)

Positions == 1..Len(routes)
Copies(d) == {sub[d][i] : i \in 1..Len(sub[d])}

\* The events without a destination, until the rows are to be there, and then the
\* rows.
Kept == IF pc = "stored" THEN rows ELSE unrouted

\* No silent loss: an event the batch is done with was discarded by a drop route,
\* suppressed as a loop, copied to or sampled out of a destination, however its
\* routes were excluded, or has its row in the dead-letter table once that is
\* written; a table that cannot be written is logged, and loses them.
NoSilentLoss == \A e \in 1..(event - 1) :
    \/ e \in dropped \cup looped \cup Kept
    \/ \E d \in Dests : <<e, d>> \in sampled \/ \E c \in Copies(d) : c.event = e

\* The routes that apply to an event, by definition: no earlier one that applies is
\* final or drops.
AppliesTo(e) == {i \in Positions :
    /\ Applies(routes[i], Batch[e])
    /\ \A j \in 1..(i - 1) : Applies(routes[j], Batch[e]) =>
                                 ~routes[j].final /\ ~routes[j].drop}

\* A destination gets one copy of an event, and the copy a route sends is masked
\* when any route that sends the event there masks: a route that does not, placed
\* before or after it, never lets the clear text through.
OneSafeCopy == \A d \in Dests :
    /\ \A i, j \in 1..Len(sub[d]) : i < j => sub[d][i].event # sub[d][j].event
    /\ \A c \in Copies(d) : c.via = "route" =>
         \A i \in AppliesTo(c.event) :
            routes[i].redact /\ d \in Targets(routes[i]) => c.redacted

\* The lint of the routes API is sound: a route it reports as unreachable never
\* applies to any event.
UnreachableSound == unreachable \cap applied = {}

\* "zero perda, visível, replayável" (_enqueue_routed): the events without a
\* destination end with a row each.  The code does not keep it: the write may fail.
UnroutedKept == pc \in {"stored", "unwritten"} => unrouted \subseteq rows

\* An event collected from Wazuh is never sent back to the Wazuh manager.
LoopNeverFed == \A d \in LoopDests : \A c \in Copies(d) : ~Batch[c.event].wazuh

=============================================================================
