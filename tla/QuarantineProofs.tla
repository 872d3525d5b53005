--------------------------- MODULE QuarantineProofs ---------------------------
(***************************************************************************)
(* Proofs about Quarantine.  A mark follows from what a replay has already *)
(* handed over (HandedOver), a row that is gone stays gone because an      *)
(* event goes to the quarantine once a cycle (Fresh), and the budget's     *)
(* counters count what they stand for (Counted).                           *)
(***************************************************************************)
EXTENDS Quarantine, FiniteSetTheorems, TLAPS

Types ==
    /\ handled \subseteq Events /\ tried \subseteq handled
    /\ writes \in [Kinds -> Int]
    /\ row \in [Events -> {"none", "held", "marked", "gone"}]
    /\ run \in [Replays -> {Idle} \cup Working]

\* A replay that sends has handed over what it no longer has to do.
HandedOver == \A r \in Replays : run[r].pc = "send" =>
    \A d \in Dests \ DropNewest : d \in run[r].todo \/ <<run[r].event, d>> \in sent

\* An event that did not fail yet has no row and no replay.
Fresh == /\ \A e \in Events : e \notin handled => row[e] = "none"
         /\ \A r \in Replays : run[r].pc # "idle" => run[r].event \in handled

Least(a, b) == IF a < b THEN a ELSE b

\* The counter of a reason counts its failures up to the first refused.
Counted == \A k \in Kinds :
    writes[k] = Least(Cardinality(Of(handled, k)), Cap + 1)

IInv == Types /\ HandedOver /\ Fresh /\ MarkedWasSent

-----------------------------------------------------------------------------
(* Replays and rows.                                                       *)

LEMMA TypesStep == Types /\ [Next]_vars => Types'
<1> SUFFICES ASSUME Types, [Next]_vars PROVE Types'
    OBVIOUS
<1> USE QuarantineAssumption DEF Types
<1>1. CASE UNCHANGED vars
    BY <1>1 DEF vars, intake
<1>2. ASSUME NEW e \in Events, Fail(e) PROVE Types'
  <2>1. KindOf[e] \in Kinds /\ Count(KindOf[e]) \in Int
      BY DEF Count
  <2>2. writes' \in [Kinds -> Int]
      BY <1>2, <2>1 DEF Fail
  <2>3. row' \in [Events -> {"none", "held", "marked", "gone"}]
      BY <1>2 DEF Fail
  <2>4. handled' \subseteq Events /\ tried' \subseteq handled'
      BY <1>2 DEF Fail
  <2> QED
      BY <1>2, <2>2, <2>3, <2>4 DEF Fail
<1>3. ASSUME NEW e \in Events, Delete(e) \/ Expire(e) \/ Request(e) PROVE Types'
    BY <1>3 DEF Delete, Expire, Request, intake, world, counts
<1>4. ASSUME NEW k \in Kinds, Remap(k) PROVE Types'
    BY <1>4 DEF Remap, intake
<1>5. ASSUME NEW r \in Replays, NEW e \in Events, Click(r, e) \/ Take(r, e) PROVE Types'
  <2>1. \A b \in BOOLEAN : [pc |-> "read", event |-> e, task |-> b, todo |-> {}] \in Working
      BY DEF Working
  <2> QED
      BY <1>5, <2>1 DEF Click, Take, Set, intake
<1>6. ASSUME NEW r \in Replays, Step(r) \/ Error(r) \/ Crash(r) PROVE Types'
  <2>1. CASE Refuse(r) \/ Crash(r)
      BY <2>1 DEF Refuse, Crash, Set, intake
  <2>2. CASE Error(r) \/ CommitStale(r)
      BY <2>2 DEF Error, CommitStale, Abandon, Set, intake
  <2>3. CASE Attempt(r)
    <3>1. run[r] \in Working
        BY <2>3 DEF Attempt, Idle
    <3>2. [run[r] EXCEPT !.pc = "send", !.todo = Dests] \in Working
        BY <3>1 DEF Working
    <3> QED
        BY <2>3, <3>2 DEF Attempt, Set, intake
  <2>4. CASE Enqueue(r)
    <3>1. run[r] \in Working
        BY <2>4 DEF Enqueue, Idle
    <3>2. \A d : [run[r] EXCEPT !.todo = @ \ {d}] \in Working
        BY <3>1 DEF Working
    <3> QED
        BY <2>4, <3>2 DEF Enqueue, Set, intake
  <2>5. CASE Commit(r)
      BY <2>5 DEF Commit, Set, intake
  <2> QED
      BY <1>6, <2>1, <2>2, <2>3, <2>4, <2>5 DEF Step
<1> QED
    BY <1>1, <1>2, <1>3, <1>4, <1>5, <1>6 DEF Next

\* What a step does to the replays that send, and to what was handed over.
LEMMA HandedOverStep == Types /\ HandedOver /\ [Next]_vars => HandedOver' /\ sent \subseteq sent'
<1> SUFFICES ASSUME Types, HandedOver, [Next]_vars PROVE HandedOver' /\ sent \subseteq sent'
    OBVIOUS
<1> USE DEF Types, HandedOver
<1>1. CASE UNCHANGED vars
    BY <1>1 DEF vars
<1>2. ASSUME NEW e \in Events, Fail(e) \/ Delete(e) \/ Expire(e) \/ Request(e)
      PROVE HandedOver' /\ sent \subseteq sent'
    BY <1>2 DEF Fail, Delete, Expire, Request
<1>3. ASSUME NEW k \in Kinds, Remap(k) PROVE HandedOver' /\ sent \subseteq sent'
    BY <1>3 DEF Remap
<1>4. ASSUME NEW r \in Replays, NEW e \in Events, Click(r, e) \/ Take(r, e)
      PROVE HandedOver' /\ sent \subseteq sent'
    BY <1>4 DEF Click, Take, Set
<1>5. ASSUME NEW r \in Replays, Step(r) \/ Error(r) \/ Crash(r)
      PROVE HandedOver' /\ sent \subseteq sent'
  <2>1. CASE Refuse(r) \/ Crash(r) \/ Commit(r)
      BY <2>1 DEF Refuse, Crash, Commit, Set, Idle
  <2>2. CASE Error(r) \/ CommitStale(r)
      BY <2>2 DEF Error, CommitStale, Abandon, Set, Idle
  <2>3. CASE Attempt(r)
    <3>1. run[r] \in Working
        BY <2>3 DEF Attempt, Idle
    <3>2. run'[r].todo = Dests /\ \A q \in Replays \ {r} : run'[q] = run[q]
        BY <2>3, <3>1 DEF Attempt, Set, Working
    <3> QED
        BY <2>3, <3>2 DEF Attempt
  <2>4. CASE Enqueue(r)
    <3>1. run[r] \in Working
        BY <2>4 DEF Enqueue, Idle
    <3>2. PICK d \in run[r].todo :
            /\ \/ sent' = sent \cup {<<run[r].event, d>>}
               \/ d \in DropNewest /\ sent' = sent
            /\ Set(r, [run[r] EXCEPT !.todo = @ \ {d}])
        BY <2>4 DEF Enqueue
    <3>3. /\ run'[r].todo = run[r].todo \ {d} /\ run'[r].event = run[r].event
          /\ \A q \in Replays \ {r} : run'[q] = run[q]
        BY <3>1, <3>2 DEF Set, Working
    <3>4. sent \subseteq sent'
        BY <3>2
    <3>5. ASSUME NEW q \in Replays \ {r}, run'[q].pc = "send", NEW c \in Dests \ DropNewest
          PROVE c \in run'[q].todo \/ <<run'[q].event, c>> \in sent'
        BY <3>3, <3>4, <3>5
    <3>6. ASSUME NEW c \in Dests \ DropNewest
          PROVE c \in run'[r].todo \/ <<run'[r].event, c>> \in sent'
      <4>1. c \in run[r].todo \/ <<run[r].event, c>> \in sent
          BY <2>4 DEF Enqueue
      <4> QED
          BY <3>2, <3>3, <3>4, <4>1
    <3> QED
        BY <3>4, <3>5, <3>6
  <2> QED
      BY <1>5, <2>1, <2>2, <2>3, <2>4 DEF Step
<1> QED
    BY <1>1, <1>2, <1>3, <1>4, <1>5 DEF Next

\* A step changes a row to held only when the event is new, to marked only for an
\* event handed over, and to nothing else but gone.
LEMMA RowStep ==
    ASSUME Types, HandedOver, Fresh, [Next]_vars, NEW e \in Events
    PROVE  /\ row[e] = "gone" => row'[e] = "gone"
           /\ row'[e] = "marked" => \/ row[e] = "marked"
                                    \/ \A d \in Dests \ DropNewest : <<e, d>> \in sent
           /\ e \notin handled' => row'[e] = "none"
<1> DEFINE Goal == /\ row[e] = "gone" => row'[e] = "gone"
                   /\ row'[e] = "marked" => \/ row[e] = "marked"
                                            \/ \A d \in Dests \ DropNewest : <<e, d>> \in sent
                   /\ e \notin handled' => row'[e] = "none"
<1> USE DEF Types
<1>1. CASE UNCHANGED vars
    BY <1>1 DEF vars, intake, Fresh
<1>2. ASSUME NEW f \in Events, Fail(f) PROVE Goal
    BY <1>2 DEF Fail, Fresh
<1>3. ASSUME NEW f \in Events, Delete(f) \/ Expire(f) \/ Request(f) PROVE Goal
    BY <1>3 DEF Delete, Expire, Request, intake, Fresh
<1>4. ASSUME NEW k \in Kinds, Remap(k) PROVE Goal
    BY <1>4 DEF Remap, intake, Fresh
<1>5. ASSUME NEW r \in Replays, NEW f \in Events, Click(r, f) \/ Take(r, f) PROVE Goal
    BY <1>5 DEF Click, Take, intake, Fresh
<1>6. ASSUME NEW r \in Replays, Step(r) \/ Error(r) \/ Crash(r) PROVE Goal
  <2>1. CASE Refuse(r) \/ Attempt(r) \/ Enqueue(r) \/ Crash(r)
      BY <2>1 DEF Refuse, Attempt, Enqueue, Crash, intake, Fresh
  <2>2. CASE Error(r) \/ CommitStale(r)
      BY <2>2 DEF Error, CommitStale, Abandon, intake, Fresh
  <2>3. CASE Commit(r)
    <3>1. run[r] \in Working
        BY <2>3 DEF Commit, Idle
    <3>2. run[r].event \in Events /\ row[run[r].event] # "gone" /\ handled' = handled
        BY <2>3, <3>1 DEF Commit, Working, intake
    <3>3. \A d \in Dests \ DropNewest : <<run[r].event, d>> \in sent
        BY <2>3 DEF Commit, HandedOver
    <3>4. CASE e = run[r].event
      <4>1. row'[e] = "marked" /\ row[e] # "gone"
          BY <2>3, <3>2, <3>4 DEF Commit
      <4>2. e \in handled
          BY <2>3, <3>4 DEF Fresh, Commit
      <4> QED
          BY <3>2, <3>3, <3>4, <4>1, <4>2
    <3>5. CASE e # run[r].event
        BY <2>3, <3>2, <3>5 DEF Commit, Fresh
    <3> QED
        BY <3>4, <3>5
  <2> QED
      BY <1>6, <2>1, <2>2, <2>3 DEF Step
<1> QED
    BY <1>1, <1>2, <1>3, <1>4, <1>5, <1>6 DEF Next

LEMMA FreshStep == Types /\ HandedOver /\ Fresh /\ [Next]_vars => Fresh'
<1> SUFFICES ASSUME Types, HandedOver, Fresh, [Next]_vars PROVE Fresh'
    OBVIOUS
<1>1. \A e \in Events : e \notin handled' => row'[e] = "none"
    BY RowStep
<1>2. \A r \in Replays : run'[r].pc # "idle" => run'[r].event \in handled'
  <2> USE DEF Types, Fresh
  <2>1. CASE UNCHANGED vars
      BY <2>1 DEF vars, intake
  <2>2. ASSUME NEW e \in Events, Fail(e) \/ Delete(e) \/ Expire(e) \/ Request(e)
        PROVE handled \subseteq handled' /\ run' = run
      BY <2>2 DEF Fail, Delete, Expire, Request, intake
  <2>3. ASSUME NEW k \in Kinds, Remap(k) PROVE handled' = handled /\ run' = run
      BY <2>3 DEF Remap, intake
  <2>4. ASSUME NEW r \in Replays, NEW e \in Events, Click(r, e) \/ Take(r, e)
        PROVE \A q \in Replays : run'[q].pc # "idle" => run'[q].event \in handled'
    <3>1. handled' = handled
        BY <2>4 DEF Click, Take, intake
    <3>2. CASE run' = run
        BY <3>1, <3>2
    <3>3. CASE run' # run
      <4>1. PICK b \in BOOLEAN :
              run' = [run EXCEPT ![r] = [pc |-> "read", event |-> e, task |-> b, todo |-> {}]]
          BY <2>4, <3>3 DEF Click, Take, Set
      <4>2. e \in handled
          BY <2>4, <3>3 DEF Click, Take, Replayable
      <4> QED
          BY <3>1, <4>1, <4>2
    <3> QED
        BY <3>2, <3>3
  <2>5. ASSUME NEW r \in Replays, Step(r) \/ Error(r) \/ Crash(r)
        PROVE /\ handled' = handled /\ \A q \in Replays \ {r} : run'[q] = run[q]
              /\ \/ run'[r].pc = "idle"
                 \/ run[r].pc # "idle" /\ run'[r].event = run[r].event
    <3>1. CASE Refuse(r) \/ Commit(r) \/ Crash(r)
        BY <3>1 DEF Refuse, Commit, Crash, Set, Idle, intake
    <3>2. CASE Error(r) \/ CommitStale(r)
        BY <3>2 DEF Error, CommitStale, Abandon, Set, Idle, intake
    <3>3. CASE Attempt(r) \/ Enqueue(r)
      <4>1. run[r] \in Working
          BY <3>3 DEF Attempt, Enqueue, Idle
      <4>2. CASE Attempt(r)
          BY <4>1, <4>2 DEF Attempt, Set, Working, intake
      <4>3. CASE Enqueue(r)
        <5>1. PICK d \in run[r].todo : run' = [run EXCEPT ![r] = [run[r] EXCEPT !.todo = @ \ {d}]]
            BY <4>3 DEF Enqueue, Set
        <5> QED
            BY <4>1, <4>3, <5>1 DEF Enqueue, Working, intake
      <4> QED
          BY <3>3, <4>2, <4>3
    <3> QED
        BY <2>5, <3>1, <3>2, <3>3 DEF Step
  <2>6. ASSUME NEW r \in Replays, Step(r) \/ Error(r) \/ Crash(r)
        PROVE \A q \in Replays : run'[q].pc # "idle" => run'[q].event \in handled'
      BY <2>5, <2>6
  <2> QED
      BY <2>1, <2>2, <2>3, <2>4, <2>6 DEF Next
<1> QED
    BY <1>1, <1>2 DEF Fresh

LEMMA InitIInv == Init => IInv
    BY DEF Init, IInv, Types, HandedOver, Fresh, MarkedWasSent, Idle

LEMMA StepIInv == IInv /\ [Next]_vars => IInv'
<1> SUFFICES ASSUME IInv, [Next]_vars PROVE IInv'
    OBVIOUS
<1>1. Types' /\ HandedOver' /\ Fresh' /\ sent \subseteq sent'
    BY TypesStep, HandedOverStep, FreshStep DEF IInv
<1>2. MarkedWasSent'
  <2> SUFFICES ASSUME NEW e \in Events, row'[e] = "marked", NEW d \in Dests \ DropNewest
               PROVE <<e, d>> \in sent'
      BY DEF MarkedWasSent
  <2>1. row[e] = "marked" \/ <<e, d>> \in sent
      BY RowStep DEF IInv
  <2> QED
      BY <1>1, <2>1 DEF IInv, MarkedWasSent
<1> QED
    BY <1>1, <1>2 DEF IInv

\* For every number of replays, events and destinations: whatever crashes, fails or
\* races, a row marked as reprocessed was handed to each destination that does not
\* shed load.
THEOREM MarkedAlwaysSent == Spec => []MarkedWasSent
<1>1. IInv => MarkedWasSent
    BY DEF IInv
<1> QED
    BY InitIInv, StepIInv, <1>1, PTL DEF Spec

\* A row that was discarded or pruned never comes back.
THEOREM GoneStaysGone == Spec => DeletedForGood
<1>1. IInv /\ [Next]_vars => [\A e \in Events : row[e] = "gone" => row'[e] = "gone"]_vars
    BY RowStep DEF IInv
<1> QED
    BY InitIInv, StepIInv, <1>1, PTL DEF Spec, DeletedForGood

-----------------------------------------------------------------------------
(* The budget.                                                             *)

LEMMA OfGrows ==
    ASSUME NEW S, S \subseteq Events, NEW e \in Events \ S
    PROVE  /\ Cardinality(Of(S \cup {e}, KindOf[e])) = Cardinality(Of(S, KindOf[e])) + 1
           /\ Cardinality(Of(S, KindOf[e])) \in Nat
           /\ \A k : k # KindOf[e] => Of(S \cup {e}, k) = Of(S, k)
<1>1. IsFiniteSet(Of(S, KindOf[e]))
    BY QuarantineAssumption, FS_Subset DEF Of
<1>2. Of(S \cup {e}, KindOf[e]) = Of(S, KindOf[e]) \cup {e} /\ e \notin Of(S, KindOf[e])
    BY DEF Of
<1>3. Cardinality(Of(S, KindOf[e]) \cup {e}) = Cardinality(Of(S, KindOf[e])) + 1
    BY <1>1, <1>2, FS_AddElement
<1>4. \A k : k # KindOf[e] => Of(S \cup {e}, k) = Of(S, k)
    BY DEF Of
<1> QED
    BY <1>1, <1>2, <1>3, <1>4, FS_CardinalityType

BInv == Types /\ Counted /\ KindsRepresented

LEMMA InitBInv == Init => BInv
<1> SUFFICES ASSUME Init PROVE BInv
    OBVIOUS
<1>1. Types
    BY InitIInv DEF IInv
<1>2. \A k \in Kinds : Of(handled, k) = {} /\ Of(tried, k) = {}
    BY DEF Init, Of
<1>3. Cardinality({}) = 0
    BY FS_EmptySet
<1>4. Counted
    BY <1>2, <1>3, QuarantineAssumption DEF Init, Counted, Least
<1>5. KindsRepresented
    BY <1>2, <1>3, QuarantineAssumption DEF KindsRepresented
<1> QED
    BY <1>1, <1>4, <1>5 DEF BInv

LEMMA FailBInv == ASSUME BInv, NEW e \in Events, Fail(e) PROVE Counted' /\ KindsRepresented'
<1> DEFINE k == KindOf[e]
           c == Cardinality(Of(handled, k))
           t == Cardinality(Of(tried, k))
<1>1. k \in Kinds /\ Cap \in Nat
    BY QuarantineAssumption
<1>2. handled \subseteq Events /\ tried \subseteq handled /\ e \notin handled /\ e \notin tried
    BY DEF BInv, Types, Fail
<1>3. /\ handled' = handled \cup {e}
      /\ writes' = [writes EXCEPT ![k] = Count(k)]
      /\ tried' = IF Spent(k) THEN tried ELSE tried \cup {e}
    BY DEF Fail
<1>4. c \in Nat /\ Cardinality(Of(handled', k)) = c + 1
    BY <1>2, <1>3, OfGrows
<1>5. t \in Nat /\ Cardinality(Of(tried \cup {e}, k)) = t + 1
    BY <1>2, OfGrows
<1>6. \A j \in Kinds \ {k} : Of(handled', j) = Of(handled, j) /\ Of(tried', j) = Of(tried, j)
    BY <1>2, <1>3, OfGrows
<1>7. writes \in [Kinds -> Int] /\ writes[k] = Least(c, Cap + 1)
    BY <1>1 DEF BInv, Types, Counted
<1>8. t = IF c < Cap THEN c ELSE Cap
    BY <1>1 DEF BInv, KindsRepresented
<1>9. writes'[k] = Least(c + 1, Cap + 1) /\ \A j \in Kinds \ {k} : writes'[j] = writes[j]
    BY <1>1, <1>3, <1>4, <1>7 DEF Count, Least
<1>10. Spent(k) <=> c >= Cap
    BY <1>1, <1>4, <1>7 DEF Spent, Least
<1>11. Cardinality(Of(tried', k)) = IF c + 1 < Cap THEN c + 1 ELSE Cap
  <2>1. CASE Spent(k)
      BY <1>1, <1>3, <1>4, <1>8, <1>10, <2>1
  <2>2. CASE ~Spent(k)
      BY <1>1, <1>3, <1>4, <1>5, <1>8, <1>10, <2>2
  <2> QED
      BY <2>1, <2>2
<1>12. Counted'
  <2> SUFFICES ASSUME NEW j \in Kinds
               PROVE writes'[j] = Least(Cardinality(Of(handled', j)), Cap + 1)
      BY DEF Counted, Least, Of
  <2>1. CASE j = k
      BY <1>4, <1>9, <2>1
  <2>2. CASE j # k
      BY <1>6, <1>9, <2>2 DEF BInv, Counted
  <2> QED
      BY <2>1, <2>2
<1>13. KindsRepresented'
  <2> SUFFICES ASSUME NEW j \in Kinds
               PROVE Cardinality(Of(tried', j)) = IF Cardinality(Of(handled', j)) < Cap
                                                  THEN Cardinality(Of(handled', j)) ELSE Cap
      BY DEF KindsRepresented, Of
  <2>1. CASE j = k
      BY <1>4, <1>11, <2>1
  <2>2. CASE j # k
      BY <1>6, <2>2 DEF BInv, KindsRepresented
  <2> QED
      BY <2>1, <2>2
<1> QED
    BY <1>12, <1>13

LEMMA StepBInv == BInv /\ [Next]_vars => BInv'
<1> SUFFICES ASSUME BInv, [Next]_vars PROVE BInv'
    OBVIOUS
<1>1. Types'
    BY TypesStep DEF BInv
<1>2. (\E e \in Events : Fail(e)) \/ UNCHANGED intake
    BY DEF Next, vars, Delete, Expire, Request, Remap, Click, Take, Step, Refuse, Attempt,
           Enqueue, Commit, CommitStale, Error, Crash, Abandon
<1>3. CASE UNCHANGED intake
    BY <1>1, <1>3 DEF BInv, Counted, KindsRepresented, Of, Least, intake
<1>4. CASE \E e \in Events : Fail(e)
    BY <1>1, <1>4, FailBInv DEF BInv
<1> QED
    BY <1>2, <1>3, <1>4

\* For every budget, set of reasons and order of failures: each reason gets the rows
\* its own budget allows.
THEOREM KindsAlwaysRepresented == Spec => []KindsRepresented
<1>1. BInv => KindsRepresented
    BY DEF BInv
<1> QED
    BY InitBInv, StepBInv, <1>1, PTL DEF Spec

-----------------------------------------------------------------------------
(* Types: what is sent was stored whole, and a task that runs still has its *)
(* message.                                                                *)

Ranges ==
    /\ expired \subseteq Events /\ mapped \subseteq Kinds /\ told \subseteq Events
    /\ requests \in 0..MaxRequests /\ faults \in 0..MaxFaults

\* Only an event that was stored whole gets past attempt_reprocess.
WholeSent ==
    /\ \A r \in Replays : run[r].pc = "send" => run[r].event \notin Truncated
    /\ sent \subseteq (Events \ Truncated) \X Dests

\* Messages are acknowledged late: one for each task at work, and none that was not
\* asked for.
MessagesKept ==
    /\ messages \in [Events -> Int]
    /\ \A e \in Events : Cardinality(Running(e)) <= messages[e] /\ messages[e] <= requests

TInv == BInv /\ Ranges /\ WholeSent /\ MessagesKept

LEMMA RunningFinite ==
    ASSUME NEW e, NEW r
    PROVE  /\ IsFiniteSet(Running(e)) /\ Cardinality(Running(e)) \in Nat
           /\ Cardinality(Running(e) \cup {r}) =
                IF r \in Running(e) THEN Cardinality(Running(e)) ELSE Cardinality(Running(e)) + 1
           /\ Cardinality(Running(e) \ {r}) =
                IF r \in Running(e) THEN Cardinality(Running(e)) - 1 ELSE Cardinality(Running(e))
<1>1. IsFiniteSet(Running(e))
    BY QuarantineAssumption, FS_Subset DEF Running
<1> QED
    BY <1>1, FS_CardinalityType, FS_AddElement, FS_RemoveElement

LEMMA RangesStep == Types /\ Ranges /\ [Next]_vars => Ranges'
<1> SUFFICES ASSUME Types, Ranges, [Next]_vars PROVE Ranges'
    OBVIOUS
<1> USE QuarantineAssumption DEF Ranges
<1>1. CASE UNCHANGED vars
    BY <1>1 DEF vars, world, counts
<1>2. ASSUME NEW e \in Events, Fail(e) \/ Delete(e) \/ Expire(e) \/ Request(e) PROVE Ranges'
    BY <1>2 DEF Fail, Delete, Expire, Request, world, counts
<1>3. ASSUME NEW k \in Kinds, Remap(k) PROVE Ranges'
    BY <1>3 DEF Remap, counts
<1>4. ASSUME NEW r \in Replays, NEW e \in Events, Click(r, e) \/ Take(r, e) PROVE Ranges'
    BY <1>4 DEF Click, Take, world, counts
<1>5. ASSUME NEW r \in Replays, Step(r) \/ Error(r) \/ Crash(r) PROVE Ranges'
  <2>1. run[r] \in Working
      BY <1>5 DEF Types, Step, Refuse, Attempt, Enqueue, Commit, CommitStale, Error, Crash, Idle
  <2>2. run[r].event \in Events
      BY <2>1 DEF Working
  <2>3. told' \subseteq Events
      BY <1>5, <2>2 DEF Step, Refuse, Attempt, Enqueue, Commit, CommitStale, Error, Crash, Abandon
  <2>4. UNCHANGED world
      BY <1>5 DEF Step, Refuse, Attempt, Enqueue, Commit, CommitStale, Error, Crash, Abandon
  <2>5. UNCHANGED counts \/ Fault
      BY <1>5 DEF Step, Refuse, Attempt, Enqueue, Commit, CommitStale, Error, Crash
  <2> QED
      BY <2>3, <2>4, <2>5 DEF Fault, world, counts
<1> QED
    BY <1>1, <1>2, <1>3, <1>4, <1>5 DEF Next

LEMMA WholeSentStep == Types /\ WholeSent /\ [Next]_vars => WholeSent'
<1> SUFFICES ASSUME Types, WholeSent, [Next]_vars PROVE WholeSent'
    OBVIOUS
<1> USE DEF Types, WholeSent
<1>1. CASE UNCHANGED vars
    BY <1>1 DEF vars
<1>2. ASSUME NEW e \in Events, Fail(e) \/ Delete(e) \/ Expire(e) \/ Request(e) PROVE WholeSent'
    BY <1>2 DEF Fail, Delete, Expire, Request
<1>3. ASSUME NEW k \in Kinds, Remap(k) PROVE WholeSent'
    BY <1>3 DEF Remap
<1>4. ASSUME NEW r \in Replays, NEW e \in Events, Click(r, e) \/ Take(r, e) PROVE WholeSent'
    BY <1>4 DEF Click, Take, Set
<1>5. ASSUME NEW r \in Replays, Step(r) \/ Error(r) \/ Crash(r) PROVE WholeSent'
  <2>0. run[r] \in Working
      BY <1>5 DEF Step, Refuse, Attempt, Enqueue, Commit, CommitStale, Error, Crash, Idle
  <2>1. CASE Refuse(r) \/ Crash(r) \/ Commit(r)
      BY <2>1 DEF Refuse, Crash, Commit, Set, Idle
  <2>2. CASE Error(r) \/ CommitStale(r)
      BY <2>2 DEF Error, CommitStale, Abandon, Set, Idle
  <2>3. CASE Attempt(r)
    <3>1. run'[r].event = run[r].event /\ \A q \in Replays \ {r} : run'[q] = run[q]
        BY <2>0, <2>3 DEF Attempt, Set, Working
    <3> QED
        BY <2>3, <3>1 DEF Attempt
  <2>4. CASE Enqueue(r)
    <3>1. PICK d \in run[r].todo :
            /\ sent' = sent \cup {<<run[r].event, d>>} \/ sent' = sent
            /\ Set(r, [run[r] EXCEPT !.todo = @ \ {d}])
        BY <2>4 DEF Enqueue
    <3>2. run'[r].event = run[r].event /\ \A q \in Replays \ {r} : run'[q] = run[q]
        BY <2>0, <3>1 DEF Set, Working
    <3>3. d \in Dests /\ run[r].event \in Events \ Truncated
        BY <2>0, <2>4 DEF Enqueue, Working
    <3>4. sent' \subseteq (Events \ Truncated) \X Dests
        BY <3>1, <3>3
    <3> QED
        BY <2>4, <3>2, <3>4 DEF Enqueue
  <2> QED
      BY <1>5, <2>1, <2>2, <2>3, <2>4 DEF Step
<1> QED
    BY <1>1, <1>2, <1>3, <1>4, <1>5 DEF Next

\* A replay that ends with its message acknowledged takes one task and one message away.
LEMMA AckedKeepsMessages ==
    ASSUME Types, Ranges, MessagesKept, NEW r \in Replays, run[r] \in Working,
           Set(r, Idle), messages' = Acked(r), requests' = requests
    PROVE  MessagesKept'
<1> DEFINE x == run[r].event
<1>1. x \in Events /\ run[r].task \in BOOLEAN /\ run[r].pc # "idle"
    BY DEF Working
<1>2. \A q \in Replays : run'[q] = IF q = r THEN Idle ELSE run[q]
    BY DEF Types, Set
<1>3. \A e : Running(e)' = Running(e) \ {r}
    BY <1>2 DEF Running, Idle
<1>4. messages' \in [Events -> Int]
    BY <1>1 DEF Acked, MessagesKept
<1>5. ASSUME NEW e \in Events PROVE Cardinality(Running(e)') <= messages'[e] /\ messages'[e] <= requests
  <2>1. /\ Cardinality(Running(e)) \in Nat /\ messages[e] \in Int /\ requests \in Int
        /\ Cardinality(Running(e)) <= messages[e] /\ messages[e] <= requests
    <3>1. Cardinality(Running(e)) \in Nat
        BY RunningFinite
    <3>2. requests \in Int
        BY QuarantineAssumption DEF Ranges
    <3> QED
        BY <3>1, <3>2 DEF MessagesKept
  <2>2. CASE e = x /\ run[r].task
    <3>1. r \in Running(e)
        BY <1>1, <2>2 DEF Running
    <3>2. Cardinality(Running(e)') = Cardinality(Running(e)) - 1
        BY <1>3, <3>1, RunningFinite
    <3>3. messages'[e] = messages[e] - 1
        BY <1>1, <2>2 DEF Acked, MessagesKept
    <3> QED
        BY <2>1, <3>2, <3>3
  <2>3. CASE ~(e = x /\ run[r].task)
    <3>1. r \notin Running(e)
        BY <2>3 DEF Running
    <3>2. Cardinality(Running(e)') = Cardinality(Running(e))
        BY <1>3, <3>1, RunningFinite
    <3>3. messages'[e] = messages[e]
        BY <1>1, <2>3 DEF Acked, MessagesKept
    <3> QED
        BY <2>1, <3>2, <3>3
  <2> QED
      BY <2>2, <2>3
<1> QED
    BY <1>4, <1>5 DEF MessagesKept

\* A step that leaves the tasks and the messages alone, or lets go of a task.
LEMMA FewerTasksKeepMessages ==
    ASSUME Ranges, MessagesKept, messages' = messages, requests' \in Int, requests <= requests',
           \A e \in Events : Running(e)' \subseteq Running(e)
    PROVE  MessagesKept'
<1>1. ASSUME NEW e \in Events PROVE Cardinality(Running(e)') <= messages[e] /\ messages[e] <= requests'
  <2>1. Cardinality(Running(e)') \in Nat /\ Cardinality(Running(e)') <= Cardinality(Running(e))
      BY RunningFinite, FS_Subset, FS_CardinalityType
  <2>2. Cardinality(Running(e)) \in Nat
      BY RunningFinite
  <2>3. messages[e] \in Int /\ requests \in Int
      BY QuarantineAssumption DEF MessagesKept, Ranges
  <2> QED
      BY <2>1, <2>2, <2>3 DEF MessagesKept
<1> QED
    BY <1>1 DEF MessagesKept

LEMMA MessagesStep == Types /\ Ranges /\ MessagesKept /\ [Next]_vars => MessagesKept'
<1> SUFFICES ASSUME Types, Ranges, MessagesKept, [Next]_vars PROVE MessagesKept'
    OBVIOUS
<1>0. requests \in Int
    BY QuarantineAssumption DEF Ranges
<1>1. CASE UNCHANGED vars
    BY <1>0, <1>1, FewerTasksKeepMessages DEF vars, counts, Running
<1>2. ASSUME NEW e \in Events, Fail(e) \/ Delete(e) \/ Expire(e) PROVE MessagesKept'
  <2>1. run' = run /\ messages' = messages /\ requests' = requests
      BY <1>2 DEF Fail, Delete, Expire, counts
  <2> QED
      BY <1>0, <2>1, FewerTasksKeepMessages DEF Running
<1>3. ASSUME NEW e \in Events, Request(e) PROVE MessagesKept'
  <2>1. /\ run' = run /\ requests' = requests + 1
        /\ messages' = [messages EXCEPT ![e] = @ + 1]
      BY <1>3 DEF Request
  <2>2. \A f \in Events : Running(f)' = Running(f) /\ Cardinality(Running(f)) \in Nat
      BY <2>1, RunningFinite DEF Running
  <2> QED
      BY <1>0, <2>1, <2>2 DEF MessagesKept
<1>4. ASSUME NEW k \in Kinds, Remap(k) PROVE MessagesKept'
  <2>1. run' = run /\ messages' = messages /\ requests' = requests
      BY <1>4 DEF Remap, counts
  <2> QED
      BY <1>0, <2>1, FewerTasksKeepMessages DEF Running
<1>5. ASSUME NEW r \in Replays, NEW e \in Events, Click(r, e) PROVE MessagesKept'
  <2>1. messages' = messages /\ requests' = requests + 1
      BY <1>5 DEF Click
  <2>2. \A q \in Replays : run'[q] = IF q = r THEN [pc |-> "read", event |-> e, task |-> FALSE, todo |-> {}]
                                     ELSE run[q]
      BY <1>5 DEF Click, Set, Types
  <2>3. \A f \in Events : Running(f)' \subseteq Running(f)
      BY <2>2 DEF Running
  <2> QED
      BY <1>0, <2>1, <2>3, FewerTasksKeepMessages
<1>6. ASSUME NEW r \in Replays, NEW e \in Events, Take(r, e) PROVE MessagesKept'
  <2>1. requests' = requests /\ messages[e] > Cardinality(Running(e)) /\ run[r] = Idle
      BY <1>6 DEF Take, Pending, counts
  <2>2. \A f \in Events : Cardinality(Running(f)) \in Nat /\ messages[f] \in Int
      BY RunningFinite DEF MessagesKept
  <2>3. CASE Replayable(e)
    <3>1. messages' = messages
        BY <1>6, <2>3 DEF Take
    <3>2. \A q \in Replays : run'[q] = IF q = r THEN [pc |-> "read", event |-> e, task |-> TRUE, todo |-> {}]
                                       ELSE run[q]
        BY <1>6, <2>3 DEF Take, Set, Types
    <3>3. Running(e)' = Running(e) \cup {r} /\ \A f \in Events \ {e} : Running(f)' = Running(f)
        BY <2>1, <3>2 DEF Running, Idle
    <3>4. Cardinality(Running(e)') <= Cardinality(Running(e)) + 1
        BY <2>2, <3>3, RunningFinite
    <3>5. Cardinality(Running(e)') <= messages[e]
      <4>1. Cardinality(Running(e)') \in Nat
          BY <3>3, RunningFinite, FS_AddElement, FS_CardinalityType
      <4> QED
          BY <2>1, <2>2, <3>4, <4>1
    <3> QED
        BY <2>1, <3>1, <3>3, <3>5 DEF MessagesKept
  <2>4. CASE ~Replayable(e)
    <3>1. run' = run /\ messages' = [messages EXCEPT ![e] = @ - 1]
        BY <1>6, <2>4 DEF Take
    <3>2. \A f \in Events : Running(f)' = Running(f)
        BY <3>1 DEF Running
    <3> QED
        BY <1>0, <2>1, <2>2, <3>1, <3>2 DEF MessagesKept
  <2> QED
      BY <2>3, <2>4
<1>7. ASSUME NEW r \in Replays, Step(r) \/ Error(r) \/ Crash(r) PROVE MessagesKept'
  <2>0. run[r] \in Working
      BY <1>7 DEF Types, Step, Refuse, Attempt, Enqueue, Commit, CommitStale, Error, Crash, Idle
  <2>1. CASE Refuse(r) \/ Commit(r) \/ CommitStale(r) \/ Error(r)
    <3>1. Set(r, Idle) /\ messages' = Acked(r) /\ requests' = requests
        BY <2>1 DEF Refuse, Commit, CommitStale, Error, Abandon, Fault, counts
    <3> QED
        BY <2>0, <3>1, AckedKeepsMessages
  <2>2. CASE Crash(r)
    <3>1. messages' = messages /\ requests' = requests
        BY <2>2 DEF Crash, Fault
    <3>2. \A f \in Events : Running(f)' \subseteq Running(f)
        BY <2>2 DEF Crash, Set, Types, Running, Idle
    <3> QED
        BY <1>0, <3>1, <3>2, FewerTasksKeepMessages
  <2>3. CASE Attempt(r) \/ Enqueue(r)
    <3>1. messages' = messages /\ requests' = requests
        BY <2>3 DEF Attempt, Enqueue, counts
    <3>2. /\ run'[r].event = run[r].event /\ run'[r].task = run[r].task
          /\ \A q \in Replays \ {r} : run'[q] = run[q]
      <4>1. CASE Attempt(r)
          BY <2>0, <4>1 DEF Attempt, Set, Types, Working
      <4>2. CASE Enqueue(r)
        <5>1. PICK d : run' = [run EXCEPT ![r] = [run[r] EXCEPT !.todo = @ \ {d}]]
            BY <4>2 DEF Enqueue, Set
        <5> QED
            BY <2>0, <5>1 DEF Types, Working
      <4> QED
          BY <2>3, <4>1, <4>2
    <3>3. run[r].pc # "idle"
        BY <2>3 DEF Attempt, Enqueue
    <3>4. \A f \in Events : Running(f)' \subseteq Running(f)
        BY <3>2, <3>3 DEF Running
    <3> QED
        BY <1>0, <3>1, <3>4, FewerTasksKeepMessages
  <2> QED
      BY <1>7, <2>1, <2>2, <2>3 DEF Step
<1> QED
    BY <1>1, <1>2, <1>3, <1>4, <1>5, <1>6, <1>7 DEF Next

\* Types.  The counters stay within their bounds, only what was stored whole is sent,
\* and an event has as many messages as were asked for and not acknowledged, never
\* fewer than none: no end of a replay acknowledges a message that is not its own.
THEOREM QuarantineTypes == Spec => []TypeOK
<1>1. Init => TInv
  <2> SUFFICES ASSUME Init PROVE TInv
      OBVIOUS
  <2>1. Ranges /\ WholeSent
      BY QuarantineAssumption DEF Init, Ranges, WholeSent, Idle
  <2>2. \A e : Running(e) = {}
      BY DEF Init, Running, Idle
  <2>3. MessagesKept
      BY <2>2, FS_EmptySet DEF Init, MessagesKept
  <2> QED
      BY <2>1, <2>3, InitBInv DEF TInv
<1>2. TInv /\ [Next]_vars => TInv'
    BY StepBInv, RangesStep, WholeSentStep, MessagesStep DEF TInv, BInv
<1>3. TInv => TypeOK
  <2> SUFFICES ASSUME TInv PROVE TypeOK
      OBVIOUS
  <2>1. writes \in [Kinds -> 0..(Cap + 1)]
    <3> SUFFICES ASSUME NEW k \in Kinds PROVE writes[k] \in 0..(Cap + 1)
        BY DEF TInv, BInv, Types
    <3>1. Cardinality(Of(handled, k)) \in Nat
      <4>1. IsFiniteSet(Of(handled, k))
          BY QuarantineAssumption, FS_Subset DEF Of, TInv, BInv, Types
      <4> QED
          BY <4>1, FS_CardinalityType
    <3> QED
        BY <3>1, QuarantineAssumption DEF TInv, BInv, Counted, Least
  <2>2. messages \in [Events -> 0..MaxRequests]
    <3> SUFFICES ASSUME NEW e \in Events PROVE messages[e] \in 0..MaxRequests
        BY DEF TInv, MessagesKept
    <3>1. Cardinality(Running(e)) \in Nat
        BY RunningFinite
    <3> QED
        BY <3>1, QuarantineAssumption DEF TInv, MessagesKept, Ranges
  <2> QED
      BY <2>1, <2>2 DEF TInv, BInv, Types, Ranges, WholeSent, TypeOK
<1> QED
    BY <1>1, <1>2, <1>3, PTL DEF Spec

=============================================================================
