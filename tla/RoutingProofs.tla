---------------------------- MODULE RoutingProofs ----------------------------
(***************************************************************************)
(* Theorems about Routing, for every list of well-formed routes, batch and *)
(* configuration.                                                          *)
(***************************************************************************)
EXTENDS Routing, FiniteSetTheorems, TLAPS

\* What _subsumes proves of two conditions holds of every event: an event that
\* matches the narrower one matches the broader one.
LEMMA SubsumesSound ==
    ASSUME NEW a, NEW b, NEW labels, Subsumes(a, b), Matches(b, labels)
    PROVE  Matches(a, labels)
<1> SUFFICES ASSUME NEW f \in DOMAIN a
             PROVE  MatchClause(a[f], labels[Canonical(f)])
  BY DEF Matches
<1> DEFINE actual == labels[Canonical(f)]
<1>1. PICK g \in DOMAIN b :
         /\ Canonical(g) = Canonical(f)
         /\ Enumerable(b[g]) /\ ValueSet(b[g]) \subseteq ValueSet(a[f])
  BY DEF Subsumes
<1>2. PICK x \in b[g] : b[g] = {x} /\ x.op \in {"eq", "in"}
  BY <1>1 DEF Enumerable
<1>3. PICK y \in a[f] : a[f] = {y} /\ y.op \in {"eq", "in"}
  BY DEF Subsumes, Enumerable
<1>4. Compare(x, actual)
  BY <1>1, <1>2 DEF Matches, MatchClause
<1>5. actual \in x.val
  BY <1>2, <1>4 DEF Compare
<1>6. actual \in y.val
  BY <1>1, <1>2, <1>3, <1>5 DEF ValueSet
<1>7. Compare(y, actual)
  BY <1>3, <1>6 DEF Compare
<1> QED BY <1>3, <1>7 DEF MatchClause

-----------------------------------------------------------------------------
(* The inductive invariant.                                                *)

\* The list that is evaluated.
RoutesOK ==
    /\ Len(routes) \in Nat
    /\ \A i \in Positions : WellFormed(routes[i])
    /\ fallback \in Dests \cup {NoDest}

\* The lint has passed the routes before scan.
LintOK ==
    /\ scan \in Nat \ {0}
    /\ \A i \in closing : i \in Positions /\ i < scan /\ routes[i].enabled /\ Closes(routes[i])
    /\ \A i \in unreachable : /\ i \in Positions
                              /\ \E j \in closing : j < i /\ Subsumes(routes[j].cond, routes[i].cond)

\* A route that applies and is not the last word.
GoesOn(i) == Applies(routes[i], Ev) => ~routes[i].final /\ ~routes[i].drop

\* The route's destinations are taken, by a route that masks if it masks.
Taken(i) == \A d \in Targets(routes[i]) :
    d \in DOMAIN chosen /\ (routes[i].redact => routes[chosen[d]].redact)

\* What the evaluation of the event in hand has established.
HandOK ==
    /\ event \in 1..(Len(Batch) + 1) /\ next \in 1..(Len(routes) + 1)
    /\ pc \in {"lint", "evaluate", "resolve", "done", "stored", "unwritten"}
    /\ pc = "lint" => event = 1 /\ next = 1
    /\ pc \in {"evaluate", "resolve"} => event \in 1..Len(Batch)
    /\ DOMAIN chosen \subseteq Dests /\ \A d \in DOMAIN chosen : chosen[d] \in Positions
    /\ pc \in {"lint", "evaluate"} => \A i \in 1..(next - 1) :
         event \in 1..Len(Batch) => GoesOn(i) /\ (Applies(routes[i], Ev) => Taken(i))
    /\ pc = "resolve" => \A i \in AppliesTo(event) : Taken(i)
    /\ pc \notin {"evaluate", "resolve"} => applied = {}
    /\ applied # {} => applied \subseteq AppliesTo(event)

CopyRecords == [event : 1..Len(Batch), via : {"route", "fallback"},
                redacted : BOOLEAN, rate : 0..100]

\* Copies were made of the events before the one in hand.
SubOK ==
    /\ sub \in [Dests -> Seq(CopyRecords)]
    /\ \A d \in Dests : \A i \in 1..Len(sub[d]) : sub[d][i].event < event

\* The events the batch is done with, as route_batch accounts for them.
Accounted == \A e \in 1..(event - 1) :
    \/ e \in dropped \cup looped \cup unrouted
    \/ \E d \in Dests : <<e, d>> \in sampled \/ \E c \in Copies(d) : c.event = e

RoutingInv == RoutesOK /\ LintOK /\ HandOK /\ SubOK /\ Accounted /\ OneSafeCopy

-----------------------------------------------------------------------------
LEMMA BatchFacts == Len(Batch) \in Nat
  BY RoutingAssumption

LEMMA RoutingInit == Init => RoutingInv
<1> SUFFICES ASSUME Init PROVE RoutingInv
  OBVIOUS
<1>1. PICK R \in RouteSets : routes \in [1..Cardinality(R) -> R]
  BY DEF Init, Orderings
<1>2. Cardinality(R) \in Nat
  BY RoutingAssumption, FS_CardinalityType
<1>3. Len(routes) \in Nat /\ \A i \in Positions : routes[i] \in R
  BY <1>1, <1>2 DEF Positions
<1>4. RoutesOK
  BY <1>3, RoutingAssumption DEF Init, RoutesOK
<1>5. LintOK
  BY DEF Init, LintOK
<1>6. HandOK
  BY <1>3, BatchFacts DEF Init, HandOK, NoneChosen
<1>7. SubOK /\ OneSafeCopy
  BY DEF Init, SubOK, OneSafeCopy, Copies
<1>8. Accounted
  BY DEF Init, Accounted
<1> QED BY <1>4, <1>5, <1>6, <1>7, <1>8 DEF RoutingInv

-----------------------------------------------------------------------------
\* What the steps leave alone.
LEMMA OutcomesStand ==
    ASSUME SubOK, Accounted, OneSafeCopy,
           UNCHANGED <<routes, event, sub, dropped, looped, unrouted, sampled>>
    PROVE  SubOK' /\ Accounted' /\ OneSafeCopy'
<1>1. \A d : Copies(d)' = Copies(d)
  BY DEF Copies
<1>2. \A e : AppliesTo(e)' = AppliesTo(e)
  BY DEF AppliesTo, Positions
<1>3. SubOK'
  BY DEF SubOK
<1>4. Accounted'
  BY <1>1 DEF Accounted
<1>5. OneSafeCopy'
  BY <1>1, <1>2 DEF OneSafeCopy
<1> QED BY <1>3, <1>4, <1>5

LEMMA LintStep ==
    ASSUME RoutingInv, Lint \/ LintDone
    PROVE  RoutingInv'
<1> USE DEF RoutingInv
<1>0. UNCHANGED <<routes, fallback, event, next, applied, chosen, sub, dropped, looped,
                  unrouted, sampled>> /\ pc = "lint"
  BY DEF Lint, LintDone, config, hand, outcomes
<1>1. RoutesOK'
  BY <1>0 DEF RoutesOK, Positions
<1>2. SubOK' /\ Accounted' /\ OneSafeCopy'
  BY <1>0, OutcomesStand
<1>3. HandOK'
  <2>1. pc' \in {"lint", "evaluate", "done"}
    BY <1>0 DEF Lint, LintDone
  <2>2. pc' = "evaluate" => Len(Batch) >= 1
    BY <1>0, BatchFacts, RoutingAssumption DEF Lint, LintDone
  <2>3. event = 1 /\ next = 1 /\ applied = {}
    BY <1>0 DEF HandOK
  <2> QED BY <1>0, <2>1, <2>2, <2>3, BatchFacts DEF HandOK, Positions
<1>4. LintOK'
  <2>1. CASE LintDone
    BY <1>0, <2>1 DEF LintDone, lint, LintOK, Positions
  <2>2. CASE Lint
    <3>1. scan \in Positions /\ scan' = scan + 1
      BY <2>2 DEF Lint, LintOK, Positions, RoutesOK
    <3> DEFINE shadowed == \E i \in closing : Subsumes(routes[i].cond, routes[scan].cond)
    <3>2. \/ closing' = closing
          \/ /\ closing' = closing \cup {scan}
             /\ routes[scan].enabled /\ Closes(routes[scan])
      BY <2>2 DEF Lint
    <3>3. closing \subseteq closing'
      BY <3>2
    <3>4. unreachable' = unreachable \/ (unreachable' = unreachable \cup {scan} /\ shadowed)
      BY <2>2 DEF Lint
    <3>5. \A i \in closing' : /\ i \in Positions /\ i < scan'
                              /\ routes[i].enabled /\ Closes(routes[i])
      BY <3>1, <3>2 DEF LintOK, Positions
    <3>6. \A i \in unreachable' : /\ i \in Positions
            /\ \E j \in closing' : j < i /\ Subsumes(routes[j].cond, routes[i].cond)
      BY <3>1, <3>3, <3>4 DEF LintOK, Positions
    <3>7. scan' \in Nat \ {0}
      BY <3>1 DEF LintOK
    <3> QED BY <1>0, <3>5, <3>6, <3>7 DEF LintOK, Positions
  <2> QED BY <2>1, <2>2
<1> QED BY <1>1, <1>2, <1>3, <1>4

\* While an event is evaluated the outcomes stand.
LEMMA HeldStill ==
    ASSUME RoutingInv,
           UNCHANGED <<routes, fallback, scan, closing, unreachable, event, sub, dropped,
                       looped, unrouted, sampled>>
    PROVE  RoutesOK' /\ LintOK' /\ SubOK' /\ Accounted' /\ OneSafeCopy'
<1> USE DEF RoutingInv
<1>1. RoutesOK' /\ LintOK'
  BY DEF RoutesOK, LintOK, Positions
<1>2. SubOK' /\ Accounted' /\ OneSafeCopy'
  BY OutcomesStand
<1> QED BY <1>1, <1>2

LEMMA FallThroughStep ==
    ASSUME RoutingInv, FallThrough
    PROVE  RoutingInv'
<1> USE DEF RoutingInv
<1>1. /\ UNCHANGED <<routes, fallback, scan, closing, unreachable, event, sub, dropped,
                      looped, unrouted, sampled, pc, applied, chosen>>
      /\ pc = "evaluate" /\ next \in Positions /\ next' = next + 1
      /\ ~Applies(routes[next], Ev)
  BY DEF FallThrough, Evaluating, config, lint, outcomes, HandOK, RoutesOK, Positions
<1>2. HandOK'
  <2>1. \A i \in 1..(next' - 1) : GoesOn(i) /\ (Applies(routes[i], Ev) => Taken(i))
    BY <1>1 DEF HandOK, RoutesOK, Positions, GoesOn
  <2> QED BY <1>1, <2>1 DEF HandOK, RoutesOK, Positions, GoesOn, Taken, Ev, AppliesTo
<1> QED BY <1>1, <1>2, HeldStill

LEMMA EvaluateDoneStep ==
    ASSUME RoutingInv, EvaluateDone
    PROVE  RoutingInv'
<1> USE DEF RoutingInv
<1>1. /\ UNCHANGED <<routes, fallback, scan, closing, unreachable, event, sub, dropped,
                      looped, unrouted, sampled, next, applied, chosen>>
      /\ pc = "evaluate" /\ next = Len(routes) + 1 /\ pc' = "resolve"
  BY DEF EvaluateDone, config, lint, hand, outcomes, HandOK, RoutesOK, Positions
<1>2. \A i \in AppliesTo(event) : Taken(i)
  BY <1>1 DEF HandOK, RoutesOK, AppliesTo, Positions, Ev
<1>3. HandOK'
  BY <1>1, <1>2 DEF HandOK, Positions, Taken, AppliesTo
<1> QED BY <1>1, <1>3, HeldStill

LEMMA AssignStep ==
    ASSUME RoutingInv, Assign
    PROVE  RoutingInv'
<1> USE DEF RoutingInv
<1>1. /\ UNCHANGED <<routes, fallback, scan, closing, unreachable, event, sub, dropped,
                      looped, unrouted, sampled>>
      /\ pc = "evaluate" /\ next \in Positions /\ next' = next + 1
      /\ Applies(routes[next], Ev) /\ ~routes[next].drop
      /\ applied' = applied \cup {next}
      /\ pc' = IF routes[next].final THEN "resolve" ELSE "evaluate"
      /\ event \in 1..Len(Batch)
  BY DEF Assign, Evaluating, config, lint, outcomes, HandOK, RoutesOK, Positions
<1>2. Targets(routes[next]) \subseteq Dests
  BY <1>1 DEF RoutesOK, WellFormed, Targets
<1>3. /\ DOMAIN chosen' = DOMAIN chosen \cup Targets(routes[next])
      /\ \A d \in DOMAIN chosen' : chosen'[d] =
           IF d \in Targets(routes[next]) /\ Wins(d) THEN next ELSE chosen[d]
  BY DEF Assign
<1>4. DOMAIN chosen' \subseteq Dests /\ \A d \in DOMAIN chosen' : chosen'[d] \in Positions
  BY <1>1, <1>2, <1>3 DEF HandOK, Wins
<1>5. \A d \in DOMAIN chosen : routes[chosen[d]].redact => routes[chosen'[d]].redact
  BY <1>3 DEF Wins
<1> DEFINE TakenAfter(i) == \A d \in Targets(routes[i]) :
               d \in DOMAIN chosen' /\ (routes[i].redact => routes[chosen'[d]].redact)
<1>6. \A i : Taken(i) => TakenAfter(i)
  BY <1>3, <1>5 DEF Taken
<1>7. TakenAfter(next)
  <2> SUFFICES ASSUME NEW d \in Targets(routes[next])
               PROVE  d \in DOMAIN chosen' /\ (routes[next].redact => routes[chosen'[d]].redact)
    OBVIOUS
  <2>1. d \in DOMAIN chosen'
    BY <1>3
  <2>2. CASE Wins(d)
    BY <1>3, <2>1, <2>2
  <2>3. CASE ~Wins(d)
    <3>1. d \in DOMAIN chosen /\ chosen'[d] = chosen[d]
      BY <1>3, <2>1, <2>3 DEF Wins
    <3>2. routes[next].redact => routes[chosen[d]].redact
      BY <2>3, <3>1 DEF Wins
    <3> QED BY <2>1, <3>1, <3>2
  <2> QED BY <2>2, <2>3
<1>8. next \in AppliesTo(event)
  BY <1>1 DEF HandOK, GoesOn, AppliesTo, Positions, Ev
<1>9. \A i \in AppliesTo(event) : (i > next /\ routes[next].final) => FALSE
  BY <1>1 DEF AppliesTo, Positions, Ev
<1>10. applied' \subseteq AppliesTo(event)
  BY <1>1, <1>8 DEF HandOK
<1>11. ASSUME pc' = "evaluate"
       PROVE  \A i \in 1..(next' - 1) : GoesOn(i) /\ (Applies(routes[i], Ev) => TakenAfter(i))
  <2> TAKE i \in 1..(next' - 1)
  <2>1. CASE i = next
    BY <1>1, <1>7, <1>11, <2>1 DEF GoesOn
  <2>2. CASE i # next
    <3>1. i \in 1..(next - 1)
      BY <1>1, <2>2 DEF Positions
    <3> QED BY <1>1, <1>6, <3>1 DEF HandOK
  <2> QED BY <2>1, <2>2
<1>12. ASSUME pc' = "resolve"
       PROVE  \A i \in AppliesTo(event) : TakenAfter(i)
  <2> TAKE i \in AppliesTo(event)
  <2>1. i \in Positions /\ Applies(routes[i], Ev) /\ i <= next
    BY <1>1, <1>9, <1>12 DEF AppliesTo, Ev, Positions
  <2>2. CASE i = next
    BY <1>7, <2>2
  <2>3. CASE i # next
    <3>1. i \in 1..(next - 1)
      BY <1>1, <2>1, <2>3 DEF Positions
    <3> QED BY <1>1, <1>6, <2>1, <3>1 DEF HandOK
  <2> QED BY <2>2, <2>3
<1>13. UNCHANGED <<Positions, Ev>> /\ AppliesTo(event)' = AppliesTo(event)
  BY <1>1 DEF AppliesTo, Positions, Applies, Ev
<1>14. /\ event' \in 1..(Len(Batch) + 1) /\ next' \in 1..(Len(routes') + 1)
       /\ pc' \in {"evaluate", "resolve"} /\ event' \in 1..Len(Batch)
  BY <1>1 DEF HandOK, RoutesOK, Positions
<1>15. pc' = "evaluate" => \A i \in 1..(next' - 1) :
         (GoesOn(i) /\ (Applies(routes[i], Ev) => Taken(i)))'
  BY <1>1, <1>11, <1>13 DEF GoesOn, Taken, Applies
<1>16. pc' = "resolve" => \A i \in AppliesTo(event)' : Taken(i)'
  BY <1>1, <1>12, <1>13 DEF Taken
<1>17. HandOK'
  BY <1>4, <1>10, <1>13, <1>14, <1>15, <1>16 DEF HandOK
<1> QED BY <1>1, <1>17, HeldStill

-----------------------------------------------------------------------------
\* The event in hand is settled: the next one starts from nothing.
Advances ==
    /\ pc \in {"evaluate", "resolve"}
    /\ NextEvent
    /\ UNCHANGED <<routes, fallback, scan, closing, unreachable>>

LEMMA AdvancesStep ==
    ASSUME RoutingInv, Advances
    PROVE  RoutesOK' /\ LintOK' /\ HandOK' /\ event \in 1..Len(Batch)
<1> USE DEF RoutingInv
<1>1. RoutesOK' /\ LintOK'
  BY DEF Advances, RoutesOK, LintOK, Positions
<1>2. event \in 1..Len(Batch) /\ event' = event + 1 /\ next' = 1 /\ applied' = {}
      /\ DOMAIN chosen' = {}
  BY DEF Advances, NextEvent, HandOK, NoneChosen
<1>3. pc' \in {"evaluate", "done"} /\ (pc' = "evaluate" => event # Len(Batch))
  BY DEF Advances, NextEvent
<1>4. next' \in 1..(Len(routes') + 1)
  BY <1>1, <1>2 DEF RoutesOK
<1>5. event' \in 1..(Len(Batch) + 1) /\ (pc' = "evaluate" => event' \in 1..Len(Batch))
  BY <1>2, <1>3, BatchFacts
<1>6. HandOK'
  BY <1>2, <1>3, <1>4, <1>5 DEF HandOK
<1> QED BY <1>1, <1>2, <1>6

\* A copy of the event in hand that is masked when it must be.
SafeCopy(d, c) ==
    /\ c \in CopyRecords /\ c.event = event
    /\ c.via = "route" =>
         \A i \in AppliesTo(event) : routes[i].redact /\ d \in Targets(routes[i]) => c.redacted

\* Each sub-batch stays, or gets one safe copy.
LEMMA CopiesStep ==
    ASSUME RoutingInv, Advances, event \in 1..Len(Batch),
           sub' \in [Dests -> Seq(CopyRecords)],
           \A d \in Dests : \/ sub'[d] = sub[d]
                            \/ \E c : SafeCopy(d, c) /\ sub'[d] = Append(sub[d], c)
    PROVE  SubOK' /\ OneSafeCopy'
<1> USE DEF RoutingInv
<1>1. event' = event + 1 /\ routes' = routes
  BY DEF Advances, NextEvent
<1>2. \A e : AppliesTo(e)' = AppliesTo(e)
  BY <1>1 DEF AppliesTo, Positions, Applies
<1>3. ASSUME NEW d \in Dests
      PROVE  /\ \A i \in 1..Len(sub'[d]) : sub'[d][i].event < event'
             /\ \A i, j \in 1..Len(sub'[d]) : i < j => sub'[d][i].event # sub'[d][j].event
             /\ \A i \in 1..Len(sub'[d]) : sub'[d][i].via = "route" =>
                  \A k \in AppliesTo(sub'[d][i].event) :
                     routes[k].redact /\ d \in Targets(routes[k]) => sub'[d][i].redacted
  <2>0. sub[d] \in Seq(CopyRecords)
    BY DEF SubOK
  <2>1. \A i \in 1..Len(sub[d]) : sub[d][i].event \in Int /\ sub[d][i].event < event
    <3> TAKE i \in 1..Len(sub[d])
    <3>1. sub[d][i] \in CopyRecords
      BY <2>0
    <3> QED BY <3>1 DEF SubOK, CopyRecords
  <2>2. /\ \A i, j \in 1..Len(sub[d]) : i < j => sub[d][i].event # sub[d][j].event
        /\ \A i \in 1..Len(sub[d]) : sub[d][i].via = "route" =>
             \A k \in AppliesTo(sub[d][i].event) :
                routes[k].redact /\ d \in Targets(routes[k]) => sub[d][i].redacted
    BY DEF OneSafeCopy, Copies
  <2>3. CASE sub'[d] = sub[d]
    BY <1>1, <2>1, <2>2, <2>3
  <2>4. CASE \E c : SafeCopy(d, c) /\ sub'[d] = Append(sub[d], c)
    <3>1. PICK c : SafeCopy(d, c) /\ sub'[d] = Append(sub[d], c)
      BY <2>4
    <3>2. c \in CopyRecords /\ c.event = event
      BY <3>1 DEF SafeCopy
    <3>3. Len(sub[d]) \in Nat /\ Len(sub'[d]) = Len(sub[d]) + 1
      BY <2>0, <3>1, <3>2
    <3>4. /\ sub'[d][Len(sub[d]) + 1] = c
          /\ \A i \in 1..Len(sub[d]) : sub'[d][i] = sub[d][i]
      BY <2>0, <3>1, <3>2
    <3>5. \A i \in 1..Len(sub'[d]) : i \in 1..Len(sub[d]) \/ i = Len(sub[d]) + 1
      BY <3>3
    <3>6. \A i \in 1..Len(sub'[d]) : sub'[d][i].event < event'
      BY <1>1, <2>1, <3>2, <3>4, <3>5, SMTT(30)
    <3>7. \A i, j \in 1..Len(sub'[d]) : i < j => sub'[d][i].event # sub'[d][j].event
      <4> TAKE i, j \in 1..Len(sub'[d])
      <4> HAVE i < j
      <4>1. i \in 1..Len(sub[d])
        BY <3>3
      <4>2. CASE j \in 1..Len(sub[d])
        BY <2>2, <3>4, <4>1, <4>2
      <4>3. CASE j = Len(sub[d]) + 1
        BY <2>1, <3>2, <3>4, <4>1, <4>3
      <4> QED BY <3>5, <4>2, <4>3
    <3>8. c.via = "route" => \A k \in AppliesTo(event) :
            routes[k].redact /\ d \in Targets(routes[k]) => c.redacted
      BY <3>1 DEF SafeCopy
    <3>9. ASSUME NEW i \in 1..Len(sub'[d]), sub'[d][i].via = "route",
                 NEW k \in AppliesTo(sub'[d][i].event),
                 routes[k].redact /\ d \in Targets(routes[k])
          PROVE  sub'[d][i].redacted
      <4>1. CASE i \in 1..Len(sub[d])
        BY <2>2, <3>4, <3>9, <4>1
      <4>2. CASE i = Len(sub[d]) + 1
        BY <3>2, <3>4, <3>8, <3>9, <4>2
      <4> QED BY <3>5, <4>1, <4>2
    <3> QED BY <3>6, <3>7, <3>9
  <2> QED BY <2>3, <2>4
<1>4. SubOK'
  <2>1. CopyRecords' = CopyRecords
    BY DEF CopyRecords
  <2> QED BY <1>3, <2>1 DEF SubOK
<1>5. OneSafeCopy'
  BY <1>1, <1>2, <1>3 DEF OneSafeCopy, Copies
<1> QED BY <1>4, <1>5

\* The event in hand is accounted for, and nothing that was is forgotten.
LEMMA AccountedStep ==
    ASSUME RoutingInv, Advances, event \in 1..Len(Batch),
           dropped \subseteq dropped', looped \subseteq looped', unrouted \subseteq unrouted',
           sampled \subseteq sampled',
           \A d \in Dests : Copies(d) \subseteq Copies(d)',
           \/ event \in dropped' \cup looped' \cup unrouted'
           \/ \E d \in Dests : <<event, d>> \in sampled' \/ \E c \in Copies(d)' : c.event = event
    PROVE  Accounted'
<1> SUFFICES ASSUME NEW e \in 1..(event' - 1)
             PROVE  \/ e \in dropped' \cup looped' \cup unrouted'
                    \/ \E d \in Dests : \/ <<e, d>> \in sampled'
                                        \/ \E c \in Copies(d)' : c.event = e
  BY DEF Accounted
<1>1. event' = event + 1
  BY DEF Advances, NextEvent
<1>2. CASE e = event
  BY <1>2
<1>3. CASE e # event
  <2>1. e \in 1..(event - 1)
    BY <1>1, <1>3
  <2> QED BY <2>1 DEF Accounted, RoutingInv
<1> QED BY <1>2, <1>3

LEMMA DropStep ==
    ASSUME RoutingInv, Drop
    PROVE  RoutingInv'
<1>1. Advances /\ UNCHANGED <<sub, looped, unrouted, sampled>> /\ dropped' = dropped \cup {event}
  BY DEF Drop, Evaluating, Advances, config, lint
<1>2. RoutesOK' /\ LintOK' /\ HandOK' /\ event \in 1..Len(Batch)
  BY <1>1, AdvancesStep
<1>3. SubOK' /\ OneSafeCopy'
  BY <1>1, <1>2, CopiesStep DEF RoutingInv, SubOK
<1>4. \A d \in Dests : Copies(d)' = Copies(d)
  BY <1>1 DEF Copies
<1>5. Accounted'
  BY <1>1, <1>2, <1>4, AccountedStep
<1> QED BY <1>2, <1>3, <1>5 DEF RoutingInv

\* What every resolution of the destinations shares.
LEMMA ResolvedStep ==
    ASSUME RoutingInv, Resolved
    PROVE  /\ Advances /\ RoutesOK' /\ LintOK' /\ HandOK' /\ event \in 1..Len(Batch)
           /\ dropped' = dropped
<1>1. Advances /\ dropped' = dropped
  BY DEF Resolved, Advances, config, lint
<1> QED BY <1>1, AdvancesStep

LEMMA AsideStep ==
    ASSUME RoutingInv, LoopBlocked \/ Unrouted
    PROVE  RoutingInv'
<1>1. /\ Resolved /\ UNCHANGED <<sub, sampled>>
      /\ looped \subseteq looped' /\ unrouted \subseteq unrouted'
      /\ event \in looped' \cup unrouted'
  BY DEF LoopBlocked, Unrouted
<1>2. Advances /\ RoutesOK' /\ LintOK' /\ HandOK' /\ event \in 1..Len(Batch) /\ dropped' = dropped
  BY <1>1, ResolvedStep
<1>3. SubOK' /\ OneSafeCopy'
  BY <1>1, <1>2, CopiesStep DEF RoutingInv, SubOK
<1>4. \A d \in Dests : Copies(d)' = Copies(d)
  BY <1>1 DEF Copies
<1>5. Accounted'
  BY <1>1, <1>2, <1>4, AccountedStep
<1> QED BY <1>2, <1>3, <1>5 DEF RoutingInv

\* Appending a copy keeps the ones that are there.
LEMMA AppendKeeps ==
    ASSUME NEW s \in Seq(CopyRecords), NEW c \in CopyRecords
    PROVE  /\ Append(s, c) \in Seq(CopyRecords)
           /\ {s[i] : i \in 1..Len(s)} \subseteq {Append(s, c)[i] : i \in 1..Len(Append(s, c))}
           /\ c \in {Append(s, c)[i] : i \in 1..Len(Append(s, c))}
<1>1. Append(s, c) \in Seq(CopyRecords) /\ Len(s) \in Nat /\ Len(Append(s, c)) = Len(s) + 1
  OBVIOUS
<1>2. Append(s, c)[Len(s) + 1] = c /\ \A i \in 1..Len(s) : Append(s, c)[i] = s[i]
  OBVIOUS
<1>3. Len(s) + 1 \in 1..Len(Append(s, c)) /\ \A i \in 1..Len(s) : i \in 1..Len(Append(s, c))
  BY <1>1
<1> QED BY <1>1, <1>2, <1>3

LEMMA ToFallbackStep ==
    ASSUME RoutingInv, ToFallback
    PROVE  RoutingInv'
<1> DEFINE c == [event |-> event, via |-> "fallback", redacted |-> FALSE, rate |-> 100]
<1>1. Resolved /\ UNCHANGED <<looped, unrouted, sampled>> /\ fallback # NoDest
  BY DEF ToFallback
<1>2. Advances /\ RoutesOK' /\ LintOK' /\ HandOK' /\ event \in 1..Len(Batch) /\ dropped' = dropped
  BY <1>1, ResolvedStep
<1>3. c \in CopyRecords /\ c.event = event /\ c.via # "route"
  BY <1>2 DEF CopyRecords
<1>4. fallback \in Dests /\ sub \in [Dests -> Seq(CopyRecords)]
  BY <1>1 DEF RoutingInv, RoutesOK, SubOK
<1> HIDE DEF c
<1>5. /\ sub' = [sub EXCEPT ![fallback] = Append(sub[fallback], c)]
      /\ \A d \in Dests : SafeCopy(d, c)
  BY <1>3 DEF ToFallback, SafeCopy, c
<1>6. Append(sub[fallback], c) \in Seq(CopyRecords)
  BY <1>3, <1>4
<1>7. SubOK' /\ OneSafeCopy'
  <2>1. sub' \in [Dests -> Seq(CopyRecords)]
    BY <1>4, <1>5, <1>6
  <2>2. \A d \in Dests : sub'[d] = sub[d] \/ sub'[d] = Append(sub[d], c)
    BY <1>4, <1>5
  <2> QED BY <1>2, <1>5, <2>1, <2>2, CopiesStep
<1>8. (\A d \in Dests : Copies(d) \subseteq Copies(d)') /\ c \in Copies(fallback)'
  <2>1. \A d \in Dests : d # fallback => sub'[d] = sub[d]
    BY <1>4, <1>5
  <2>2. fallback' = fallback /\ sub'[fallback] = Append(sub[fallback], c)
    BY <1>2, <1>4, <1>5 DEF Advances
  <2>3. Copies(fallback) \subseteq Copies(fallback)' /\ c \in Copies(fallback)'
    BY <1>3, <1>4, <2>2, AppendKeeps DEF Copies
  <2>4. \A d \in Dests : d # fallback => Copies(d)' = Copies(d)
    BY <2>1 DEF Copies
  <2> QED BY <2>2, <2>3, <2>4
<1>9. Accounted'
  <2>1. fallback' = fallback
    BY <1>2 DEF Advances
  <2>2. \E d \in Dests : \E x \in Copies(d)' : x.event = event
    BY <1>3, <1>4, <1>8, <2>1
  <2> QED BY <1>1, <1>2, <1>8, <2>2, AccountedStep
<1> QED BY <1>2, <1>7, <1>9 DEF RoutingInv

LEMMA DeliverStep ==
    ASSUME RoutingInv, Deliver
    PROVE  RoutingInv'
<1> DEFINE out == {d \in Remaining : SampleOut(routes[chosen[d]])}
           kept == Remaining \ out
           c(d) == Copy(routes[chosen[d]])
<1>1. /\ Resolved /\ pc = "resolve" /\ UNCHANGED <<looped, unrouted>> /\ Remaining # {}
      /\ sampled' = sampled \cup {<<event, d>> : d \in out}
      /\ sub' = [d \in Dests |-> IF d \in kept THEN Append(sub[d], c(d)) ELSE sub[d]]
  BY DEF Deliver, Resolved
<1>2. Advances /\ RoutesOK' /\ LintOK' /\ HandOK' /\ event \in 1..Len(Batch) /\ dropped' = dropped
  BY <1>1, ResolvedStep
<1>3. Remaining \subseteq DOMAIN chosen /\ Remaining \subseteq Dests
  BY DEF Remaining, AfterLoop, RoutingInv, HandOK
<1>4. \A d \in Remaining : SafeCopy(d, c(d)) /\ c(d) \in CopyRecords /\ c(d).event = event
  <2> TAKE d \in Remaining
  <2>1. d \in DOMAIN chosen /\ chosen[d] \in Positions /\ WellFormed(routes[chosen[d]])
    BY <1>3 DEF RoutingInv, HandOK, RoutesOK
  <2>2. routes[chosen[d]].redact \in BOOLEAN /\ Rate(routes[chosen[d]]) \in 0..100
    <3>1. routes[chosen[d]].redact \in BOOLEAN /\ routes[chosen[d]].sample \in 0..100
      BY <2>1, Zenon DEF WellFormed
    <3>2. 100 \in 0..100
      OBVIOUS
    <3> QED BY <3>1, <3>2, Zenon DEF Rate
  <2>3. c(d) \in CopyRecords /\ c(d).event = event /\ c(d).redacted = routes[chosen[d]].redact
    BY <1>2, <2>2 DEF CopyRecords, Copy
  <2>4. \A i \in AppliesTo(event) :
          routes[i].redact /\ d \in Targets(routes[i]) => c(d).redacted
    BY <1>1, <2>3 DEF RoutingInv, HandOK, Taken
  <2> QED BY <2>3, <2>4 DEF SafeCopy
<1> HIDE DEF c
<1>5. sub \in [Dests -> Seq(CopyRecords)]
  BY DEF RoutingInv, SubOK
<1>6. \A d \in Dests : sub'[d] = IF d \in kept THEN Append(sub[d], c(d)) ELSE sub[d]
  BY <1>1
<1>7. SubOK' /\ OneSafeCopy'
  <2>1. \A d \in kept : Append(sub[d], c(d)) \in Seq(CopyRecords)
    BY <1>3, <1>4, <1>5
  <2>2. sub' \in [Dests -> Seq(CopyRecords)]
    BY <1>1, <1>5, <2>1
  <2>3. \A d \in Dests : \/ sub'[d] = sub[d]
                         \/ \E x : SafeCopy(d, x) /\ sub'[d] = Append(sub[d], x)
    BY <1>4, <1>6
  <2> QED BY <1>2, <2>2, <2>3, CopiesStep
<1>8. \A d \in Dests : /\ Copies(d) \subseteq Copies(d)'
                       /\ d \in kept => c(d) \in Copies(d)'
  <2> TAKE d \in Dests
  <2>1. CASE d \in kept
    <3>1. sub[d] \in Seq(CopyRecords) /\ c(d) \in CopyRecords /\ sub'[d] = Append(sub[d], c(d))
      BY <1>4, <1>5, <1>6, <2>1
    <3> QED BY <3>1, AppendKeeps DEF Copies
  <2>2. CASE d \notin kept
    BY <1>6, <2>2 DEF Copies
  <2> QED BY <2>1, <2>2
<1>9. Accounted'
  <2>1. PICK d \in Remaining : TRUE
    BY <1>1
  <2>2. CASE d \in out
    <3>1. d \in Dests /\ <<event, d>> \in sampled'
      BY <1>1, <1>3, <2>2
    <3> QED BY <1>1, <1>2, <1>8, <3>1, AccountedStep
  <2>3. CASE d \in kept
    <3>1. d \in Dests /\ \E x \in Copies(d)' : x.event = event
      BY <1>3, <1>4, <1>8, <2>3
    <3> QED BY <1>1, <1>2, <1>8, <3>1, AccountedStep
  <2> QED BY <2>2, <2>3
<1> QED BY <1>2, <1>7, <1>9 DEF RoutingInv

-----------------------------------------------------------------------------
LEMMA PersistStep ==
    ASSUME RoutingInv, Persist \/ PersistFails
    PROVE  RoutingInv'
<1>1. /\ UNCHANGED <<routes, fallback, scan, closing, unreachable, event, sub, dropped,
                      looped, unrouted, sampled, next, applied, chosen>>
      /\ pc = "done" /\ pc' \in {"stored", "unwritten"}
  BY DEF Persist, PersistFails, config, lint, hand, outcomes
<1>2. applied = {}
  BY <1>1 DEF RoutingInv, HandOK
<1>3. HandOK'
  BY <1>1, <1>2 DEF RoutingInv, HandOK, Positions
<1> QED BY <1>1, <1>3, HeldStill DEF RoutingInv

LEMMA RoutingStep == RoutingInv /\ [Next]_vars => RoutingInv'
<1> SUFFICES ASSUME RoutingInv, [Next]_vars PROVE RoutingInv'
  OBVIOUS
<1>1. CASE UNCHANGED vars
  <2>1. UNCHANGED <<routes, fallback, scan, closing, unreachable, event, sub, dropped,
                    looped, unrouted, sampled, pc, next, applied, chosen>>
    BY <1>1 DEF vars, config, lint, hand, outcomes
  <2>2. HandOK'
    BY <2>1 DEF RoutingInv, HandOK, Positions, GoesOn, Taken, Ev, AppliesTo, Applies
  <2> QED BY <2>1, <2>2, HeldStill DEF RoutingInv
<1>2. CASE Next
  BY <1>2, LintStep, FallThroughStep, DropStep, AssignStep, EvaluateDoneStep, DeliverStep,
     AsideStep, ToFallbackStep, PersistStep DEF Next
<1> QED BY <1>1, <1>2

\* Once they are written, the rows are those of the events without a destination.
StoredOK == pc = "stored" => rows = unrouted

LEMMA StoredStep == StoredOK /\ [Next]_vars => StoredOK'
<1> SUFFICES ASSUME StoredOK, [Next]_vars PROVE StoredOK'
  OBVIOUS
<1>1. CASE UNCHANGED vars
  BY <1>1 DEF StoredOK, vars, outcomes
<1>2. CASE Lint \/ LintDone \/ FallThrough \/ Assign \/ EvaluateDone
  BY <1>2 DEF StoredOK, Lint, LintDone, FallThrough, Assign, EvaluateDone, Evaluating
<1>3. CASE Drop \/ Deliver \/ LoopBlocked \/ ToFallback \/ Unrouted
  BY <1>3 DEF StoredOK, Drop, Deliver, LoopBlocked, ToFallback, Unrouted, Resolved, NextEvent
<1>4. CASE Persist \/ PersistFails
  BY <1>4 DEF StoredOK, Persist, PersistFails
<1> QED BY <1>1, <1>2, <1>3, <1>4 DEF Next

\* A route reported unreachable that applied would have met, before it, a final
\* route of the full stream that applies whenever it does.
LEMMA ReportedNeverApplies ==
    ASSUME RoutingInv
    PROVE  UnreachableSound
<1> SUFFICES ASSUME NEW i \in unreachable, i \in applied PROVE FALSE
  BY DEF UnreachableSound
<1>1. i \in AppliesTo(event)
  BY DEF RoutingInv, HandOK
<1>2. PICK j \in closing : j < i /\ Subsumes(routes[j].cond, routes[i].cond)
  BY DEF RoutingInv, LintOK
<1>3. j \in Positions /\ i \in Positions /\ routes[j].enabled /\ Closes(routes[j])
  BY <1>1 DEF RoutingInv, LintOK, AppliesTo
<1>4. j \in 1..(i - 1)
  BY <1>2, <1>3 DEF Positions, RoutingInv, RoutesOK
<1>5. Applies(routes[i], Batch[event])
  BY <1>1 DEF AppliesTo
<1>6. Matches(routes[j].cond, Batch[event].labels)
  BY <1>2, <1>5, SubsumesSound DEF Applies
<1>7. Applies(routes[j], Batch[event]) /\ routes[j].final
  BY <1>3, <1>6 DEF Applies, Closes, CanaryPass
<1> QED BY <1>1, <1>4, <1>7 DEF AppliesTo

\* Whatever the routes, their order, the look-ups that fail and the default
\* destination, no event leaves route_batch and _enqueue_routed without an outcome,
\* but for the write of the rows that fails.
THEOREM NoEventLostInRouting == Spec => []NoSilentLoss
<1>1. Init => StoredOK
  BY DEF Init, StoredOK
<1>2. RoutingInv /\ StoredOK => NoSilentLoss
  BY DEF RoutingInv, Accounted, StoredOK, NoSilentLoss, Kept
<1> QED BY RoutingInit, RoutingStep, StoredStep, <1>1, <1>2, PTL DEF Spec

\* One copy per destination, masked when a route that sends the event there masks.
THEOREM MaskingWins == Spec => []OneSafeCopy
<1>1. RoutingInv => OneSafeCopy
  BY DEF RoutingInv
<1> QED BY RoutingInit, RoutingStep, <1>1, PTL DEF Spec

\* find_unreachable reports only routes no event of any batch is evaluated into.
THEOREM LintIsSound == Spec => []UnreachableSound
<1>1. RoutingInv => UnreachableSound
  BY ReportedNeverApplies
<1> QED BY RoutingInit, RoutingStep, <1>1, PTL DEF Spec

=============================================================================
