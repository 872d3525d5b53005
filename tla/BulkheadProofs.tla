---------------------------- MODULE BulkheadProofs ----------------------------
(***************************************************************************)
(* Theorems about Bulkhead, for every number of dispatches and loops, every *)
(* configuration, clock skew and sequence of faults.                        *)
(***************************************************************************)
EXTENDS Bulkhead, FiniteSetTheorems, TLAPS

(* The inductive invariant.                                                *)

Types ==
    /\ stage \in [Tasks -> {"idle", "lease", "permit", "send"}]
    /\ cap \in [Tasks -> Nat] /\ tenure \in [Tasks -> Nat]
    /\ DOMAIN token = Tasks /\ IsFiniteSet(DOMAIN slots) /\ ttl \in Nat

\* A dispatch draws its own tokens, and only a held slot grows old.
Own(t) == /\ token[t] \in Tokens[t] \cup {NoToken}
          /\ stage[t] = "lease" => token[t] \in Tokens[t]
          /\ stage[t] = "idle" => token[t] = NoToken
          /\ ~Holds(t) => tenure[t] = 0
          /\ tenure[t] <= Lease

\* A lease that has not run out is in the sorted set, its age and the key's expiry known.
InSet(t) == /\ token[t] \in DOMAIN slots
            /\ slots[token[t]] = tenure[t] - Skew[LoopOf[t]]
            /\ ttl >= Lease - tenure[t]

LeaseInv == /\ Types /\ (\A t \in Tasks : Own(t) /\ (Current(t) => InSet(t)))
            /\ CapHeld

PermitInv == /\ limit \in [Loops -> Nat] /\ target \in [Loops -> Nat]
             /\ free \in [Loops -> Nat] /\ PermitsConserved

-----------------------------------------------------------------------------
(* The cap across processes.                                               *)

\* A lease is current as long as the dispatch and its time are the same.
LEMMA SameCurrent ==
    ASSUME NEW u \in Tasks, Holds(u)' <=> Holds(u), tenure'[u] = tenure[u]
    PROVE  Current(u)' <=> Current(u)
  BY DEF Current, Overdue

\* The slot of a current lease is never among those a caller evicts, whatever its clock.
LEMMA HeldIsLive ==
    ASSUME LeaseInv, NEW t \in Tasks, NEW u \in Tasks, Current(u)
    PROVE  token[u] \in Live(t)
<1>1. InSet(u) /\ tenure[u] \in Nat
  BY DEF LeaseInv, Types
<1>2. LoopOf[t] \in Loops /\ LoopOf[u] \in Loops
  BY BulkheadAssumption
<1>4. Skew[LoopOf[t]] \in Int /\ Skew[LoopOf[u]] \in Int /\ Lease \in Nat
  BY <1>2, BulkheadAssumption
<1>3. tenure[u] + Skew[LoopOf[t]] - Skew[LoopOf[u]] < Lease
  BY <1>1, <1>2, <1>4 DEF Current, Overdue
<1>5. slots[token[u]] < Lease - Skew[LoopOf[t]]
  BY <1>1, <1>3, <1>4 DEF InSet
<1> QED BY <1>1, <1>5 DEF Live, InSet

\* The holders of leases are no more than the slots that are live for a caller.
LEMMA HoldersCounted ==
    ASSUME LeaseInv, NEW t \in Tasks, NEW S \in SUBSET Holders
    PROVE  /\ IsFiniteSet(S) /\ IsFiniteSet(Live(t))
           /\ Cardinality(S) \in Nat /\ Cardinality(Live(t)) \in Nat
           /\ Cardinality(S) <= Cardinality(Live(t))
<1> DEFINE f == [u \in S |-> token[u]]
<1>1. IsFiniteSet(Live(t))
  BY FS_Subset DEF LeaseInv, Types, Live
<1>2. \A u \in S : u \in Tasks /\ Current(u) /\ token[u] \in Live(t) /\ token[u] \in Tokens[u]
  BY HeldIsLive DEF Holders, LeaseInv, Own, Current, Holds
<1>3. \A u, v \in S : u # v => token[u] # token[v]
  BY <1>2, BulkheadAssumption
<1>4. f \in Injection(S, Live(t))
  BY <1>2, <1>3 DEF Injection, IsInjective
<1> QED BY <1>1, <1>4, FS_Injection, FS_CardinalityType

\* Steps after which the holders, as far as they still hold, are as they were.
LEMMA FewerHolders ==
    ASSUME LeaseInv, \A t \in Tasks : Current(t)' => Current(t) /\ cap'[t] = cap[t]
    PROVE  CapHeld'
<1>1. Holders' \subseteq Holders
  BY DEF Holders
<1> SUFFICES ASSUME NEW S \in SUBSET Holders', S # {}
             PROVE  \E t \in S : Cardinality(S) <= cap'[t]
  BY DEF CapHeld
<1>2. PICK t \in S : Cardinality(S) <= cap[t]
  BY <1>1 DEF LeaseInv, CapHeld
<1>3. t \in Tasks /\ Current(t)'
  BY DEF Holders
<1> QED BY <1>2, <1>3

\* What the script does keeps the slots of the holders.
LEMMA ScriptKeeps ==
    ASSUME LeaseInv, NEW t \in Tasks, NEW u \in Tasks, Current(u), u # t,
           stage[t] = "lease", slots' = Added(t) \/ slots' = Evicted(t)
    PROVE  token[u] \in DOMAIN slots' /\ slots'[token[u]] = slots[token[u]]
<1>1. token[u] \in Live(t)
  BY HeldIsLive
<1>2. token[u] \in Tokens[u] /\ token[t] \in Tokens[t]
  BY DEF LeaseInv, Own, Current, Holds
<1>3. token[u] # token[t]
  BY <1>2, BulkheadAssumption
<1> QED BY <1>1, <1>3 DEF Added, Evicted

LEMMA ScriptFinite ==
    ASSUME LeaseInv, NEW t \in Tasks
    PROVE  IsFiniteSet(DOMAIN Added(t)) /\ IsFiniteSet(DOMAIN Evicted(t))
<1>1. IsFiniteSet(Live(t))
  BY FS_Subset DEF LeaseInv, Types, Live
<1> QED BY <1>1, FS_AddElement DEF Added, Evicted

LEMMA LeaseInit == Init => LeaseInv
<1> SUFFICES ASSUME Init PROVE LeaseInv
  OBVIOUS
<1>1. Types
  BY FS_EmptySet DEF Init, Types, NoSlots
<1>2. \A t \in Tasks : ~Holds(t) /\ Own(t)
  BY BulkheadAssumption DEF Init, Own, Holds
<1>3. CapHeld
  BY <1>2 DEF CapHeld, Holders, Current
<1> QED BY <1>1, <1>2, <1>3 DEF LeaseInv, Current

LEMMA EnterLease ==
    ASSUME LeaseInv, NEW t \in Tasks, Enter(t)
    PROVE  LeaseInv'
<1>1. /\ stage[t] = "idle" /\ stage' = [stage EXCEPT ![t] = "lease"]
      /\ UNCHANGED <<slots, ttl, tenure>>
      /\ \E c \in Limits : cap' = [cap EXCEPT ![t] = c]
  BY DEF Enter, timing
<1>2. \E k \in Tokens[t] : token' = [token EXCEPT ![t] = k]
  <2>1. (CHOOSE k \in Fresh(t) : TRUE) \in Tokens[t]
    BY DEF Enter, Fresh
  <2> QED BY <2>1 DEF Enter
<1>3. Types'
  BY <1>1, <1>2, BulkheadAssumption DEF LeaseInv, Types
<1>4. ASSUME NEW u \in Tasks PROVE Own(u)' /\ (Current(u)' => InSet(u)' /\ Current(u) /\ cap'[u] = cap[u])
  <2>1. CASE u = t
    BY <1>1, <1>2, <2>1 DEF LeaseInv, Types, Own, Current, Holds
  <2>2. CASE u # t
    <3>1. stage'[u] = stage[u] /\ token'[u] = token[u] /\ cap'[u] = cap[u]
      BY <1>1, <1>2, <2>2 DEF LeaseInv, Types
    <3>2. Own(u)' /\ (Holds(u)' <=> Holds(u)) /\ tenure'[u] = tenure[u]
      BY <1>1, <3>1 DEF LeaseInv, Own, Holds
    <3> QED BY <1>1, <3>1, <3>2, SameCurrent DEF LeaseInv, InSet
  <2> QED BY <2>1, <2>2
<1>5. CapHeld'
  BY <1>4, FewerHolders
<1> QED BY <1>3, <1>4, <1>5 DEF LeaseInv

LEMMA AdmitLease ==
    ASSUME LeaseInv, NEW t \in Tasks, Admit(t)
    PROVE  LeaseInv'
<1>1. /\ stage[t] = "lease" /\ stage' = [stage EXCEPT ![t] = "permit"]
      /\ slots' = Added(t) /\ ttl' = Lease /\ UNCHANGED <<cap, token, tenure>> /\ Room(t)
  BY DEF Admit
<1>2. Types'
  BY <1>1, ScriptFinite, BulkheadAssumption DEF LeaseInv, Types
<1>3. token[t] \in Tokens[t] /\ token[t] # NoToken /\ tenure[t] = 0
  BY <1>1, BulkheadAssumption DEF LeaseInv, Own, Holds
<1>4. LoopOf[t] \in Loops /\ Skew[LoopOf[t]] \in Int
  BY BulkheadAssumption
<1>5. Own(t)' /\ InSet(t)'
  <2>1. token[t] \in DOMAIN slots' /\ slots'[token[t]] = 0 - Skew[LoopOf[t]]
    BY <1>1 DEF Added
  <2>2. stage'[t] = "permit" /\ token' = token /\ tenure' = tenure
    BY <1>1 DEF LeaseInv, Types
  <2> QED BY <1>1, <1>3, <1>4, <2>1, <2>2, BulkheadAssumption DEF Own, InSet, Holds
<1>6. ASSUME NEW u \in Tasks, u # t
      PROVE  Own(u)' /\ (Current(u)' => InSet(u)' /\ Current(u))
  <2>1. stage'[u] = stage[u] /\ token'[u] = token[u] /\ tenure'[u] = tenure[u]
    BY <1>1, <1>6 DEF LeaseInv, Types
  <2>2. Own(u)' /\ (Current(u)' <=> Current(u))
    BY <2>1, SameCurrent DEF LeaseInv, Own, Holds
  <2>3. ASSUME Current(u) PROVE InSet(u)'
    <3>1. token[u] \in DOMAIN slots' /\ slots'[token[u]] = slots[token[u]]
      BY <1>1, <1>6, <2>3, ScriptKeeps
    <3>2. InSet(u) /\ tenure[u] \in Nat
      BY <2>3 DEF LeaseInv, Types
    <3>3. ttl' >= Lease - tenure'[u]
      BY <1>1, <2>1, <3>2, BulkheadAssumption
    <3> QED BY <2>1, <3>1, <3>2, <3>3 DEF InSet
  <2> QED BY <2>2, <2>3
<1>7. CapHeld'
  <2> SUFFICES ASSUME NEW S \in SUBSET Holders', S # {}
               PROVE  \E u \in S : Cardinality(S) <= cap'[u]
    BY DEF CapHeld
  <2>1. S \ {t} \subseteq Holders
    BY <1>6 DEF Holders
  <2>2. CASE t \in S
    <3>1. /\ IsFiniteSet(S \ {t}) /\ Cardinality(S \ {t}) \in Nat
          /\ Cardinality(Live(t)) \in Nat /\ Cardinality(S \ {t}) <= Cardinality(Live(t))
      BY <2>1, HoldersCounted
    <3>2. (S \ {t}) \cup {t} = S
      BY <2>2
    <3>3. Cardinality(S) = Cardinality(S \ {t}) + 1
      BY <3>1, <3>2, FS_AddElement
    <3>4. Cardinality(Live(t)) < cap[t] /\ cap[t] \in Nat
      BY <1>1 DEF Room, LeaseInv, Types
    <3> QED BY <1>1, <2>2, <3>1, <3>3, <3>4
  <2>3. CASE t \notin S
    <3>1. S \in SUBSET Holders
      BY <2>1, <2>3
    <3> QED BY <1>1, <3>1 DEF LeaseInv, CapHeld
  <2> QED BY <2>2, <2>3
<1> QED BY <1>2, <1>5, <1>6, <1>7 DEF LeaseInv

LEMMA AskLease ==
    ASSUME LeaseInv, NEW t \in Tasks, Refuse(t) \/ Unreachable(t)
    PROVE  LeaseInv'
<1>1. /\ stage[t] = "lease" /\ UNCHANGED <<cap, tenure>>
      /\ slots' \in {slots, Evicted(t), Added(t)} /\ (ttl' = ttl \/ ttl' = Lease)
      /\ \/ UNCHANGED <<stage, token>>
         \/ /\ stage' = [stage EXCEPT ![t] = "permit"]
            /\ token' = [token EXCEPT ![t] = NoToken]
  BY DEF Refuse, Unreachable, FailOpen
<1>2. Types'
  BY <1>1, ScriptFinite, BulkheadAssumption DEF LeaseInv, Types
<1>3. tenure[t] = 0
  BY <1>1 DEF LeaseInv, Own, Holds
<1>4. Own(t)' /\ ~Current(t)'
  <2>1. CASE UNCHANGED <<stage, token>>
    BY <1>1, <1>3, <2>1 DEF LeaseInv, Own, Current, Holds
  <2>2. CASE /\ stage' = [stage EXCEPT ![t] = "permit"]
             /\ token' = [token EXCEPT ![t] = NoToken]
    <3>1. stage'[t] = "permit" /\ token'[t] = NoToken
      BY <2>2 DEF LeaseInv, Types
    <3> QED BY <1>1, <1>3, <3>1, BulkheadAssumption DEF Own, Current, Holds
  <2> QED BY <1>1, <2>1, <2>2
<1>5. ASSUME NEW u \in Tasks, u # t
      PROVE  Own(u)' /\ (Current(u)' => InSet(u)' /\ Current(u))
  <2>1. stage'[u] = stage[u] /\ token'[u] = token[u] /\ tenure'[u] = tenure[u]
    BY <1>1, <1>5 DEF LeaseInv, Types
  <2>2. Own(u)' /\ (Current(u)' <=> Current(u))
    BY <2>1, SameCurrent DEF LeaseInv, Own, Holds
  <2>3. ASSUME Current(u) PROVE InSet(u)'
    <3>1. InSet(u) /\ tenure[u] \in Nat
      BY <2>3 DEF LeaseInv, Types
    <3>2. token[u] \in DOMAIN slots' /\ slots'[token[u]] = slots[token[u]]
      BY <1>1, <1>5, <2>3, <3>1, ScriptKeeps DEF InSet
    <3>3. ttl' >= Lease - tenure'[u]
      BY <1>1, <2>1, <3>1, BulkheadAssumption DEF InSet
    <3> QED BY <2>1, <3>1, <3>2, <3>3 DEF InSet
  <2> QED BY <2>2, <2>3
<1>6. CapHeld'
  BY <1>1, <1>4, <1>5, FewerHolders
<1> QED BY <1>2, <1>4, <1>5, <1>6 DEF LeaseInv

LEMMA PermitLease ==
    ASSUME LeaseInv, NEW t \in Tasks, Permit(t)
    PROVE  LeaseInv'
<1>1. /\ stage[t] = "permit" /\ stage' = [stage EXCEPT ![t] = "send"]
      /\ UNCHANGED <<cap, token, tenure, slots, ttl>>
  BY DEF Permit, lease, timing
<1>2. Types'
  BY <1>1 DEF LeaseInv, Types
<1>3. ASSUME NEW u \in Tasks PROVE Own(u)' /\ (Current(u)' => InSet(u)' /\ Current(u))
  <2>1. \/ u = t /\ stage'[u] = "send"
        \/ u # t /\ stage'[u] = stage[u]
    BY <1>1 DEF LeaseInv, Types
  <2>2. Own(u) /\ (Current(u) => InSet(u))
    BY DEF LeaseInv
  <2>3. Own(u)' /\ (Holds(u)' <=> Holds(u)) /\ tenure'[u] = tenure[u]
    BY <1>1, <2>1, <2>2 DEF Own, Holds
  <2> QED BY <1>1, <2>2, <2>3, SameCurrent DEF InSet
<1>4. CapHeld'
  BY <1>1, <1>3, FewerHolders
<1> QED BY <1>2, <1>3, <1>4 DEF LeaseInv

\* A step in which the dispatches of a set end, and of the slots at most theirs go.
LEMMA LeaveLease ==
    ASSUME LeaseInv, NEW S \in SUBSET Tasks, Leave(S), ttl' = ttl, NEW G,
           G \subseteq {token[t] : t \in S},
           slots' = slots \/ slots' = [k \in DOMAIN slots \ G |-> slots[k]]
    PROVE  LeaseInv'
<1>1. Types'
  <2>1. IsFiniteSet(DOMAIN slots')
    BY FS_Subset DEF LeaseInv, Types
  <2> QED BY <2>1 DEF Leave, LeaseInv, Types
<1>2. ASSUME NEW u \in Tasks
      PROVE  Own(u)' /\ (Current(u)' => InSet(u)' /\ Current(u) /\ cap'[u] = cap[u])
  <2>1. CASE u \in S
    BY <2>1, BulkheadAssumption DEF Leave, Own, Current, Holds
  <2>2. CASE u \notin S
    <3>1. /\ stage'[u] = stage[u] /\ token'[u] = token[u] /\ tenure'[u] = tenure[u]
          /\ cap'[u] = cap[u]
      BY <2>2 DEF Leave
    <3>2. Own(u)' /\ (Current(u)' <=> Current(u))
      BY <3>1, SameCurrent DEF LeaseInv, Own, Holds
    <3>3. ASSUME Current(u) PROVE InSet(u)'
      <4>1. InSet(u) /\ token[u] \in Tokens[u] /\ token[u] # NoToken
        BY <3>3 DEF LeaseInv, Own, Current, Holds
      <4>2. \A t \in S : token[t] \in Tokens[t] \cup {NoToken} /\ t # u
        BY <2>2 DEF LeaseInv, Own
      <4>3. token[u] \notin G
        BY <4>1, <4>2, BulkheadAssumption
      <4>4. token[u] \in DOMAIN slots' /\ slots'[token[u]] = slots[token[u]]
        BY <4>1, <4>3 DEF InSet
      <4> QED BY <3>1, <4>1, <4>4 DEF InSet
    <3> QED BY <3>1, <3>2, <3>3
  <2> QED BY <2>1, <2>2
<1>3. CapHeld'
  BY <1>2, FewerHolders
<1> QED BY <1>1, <1>2, <1>3 DEF LeaseInv

LEMMA TickLease ==
    ASSUME LeaseInv, Tick
    PROVE  LeaseInv'
<1>1. /\ UNCHANGED <<stage, cap, token>>
      /\ tenure' = [t \in Tasks |-> IF Current(t) THEN tenure[t] + 1 ELSE tenure[t]]
      /\ ttl' = IF ttl = 0 THEN 0 ELSE ttl - 1
  BY DEF Tick
<1>2. Types'
  <2>1. IsFiniteSet(DOMAIN slots')
    BY FS_EmptySet DEF Tick, NoSlots, LeaseInv, Types
  <2>2. tenure' \in [Tasks -> Nat] /\ ttl' \in Nat
    BY <1>1 DEF LeaseInv, Types
  <2> QED BY <1>1, <2>1, <2>2 DEF LeaseInv, Types
<1>3. ASSUME NEW u \in Tasks PROVE Own(u)' /\ (Current(u)' => Current(u))
  <2>1. /\ Own(u) /\ tenure[u] \in Nat /\ Lease \in Nat
        /\ tenure'[u] = IF Current(u) THEN tenure[u] + 1 ELSE tenure[u]
    BY <1>1, BulkheadAssumption DEF LeaseInv, Types
  <2>2. Holds(u)' <=> Holds(u)
    BY <1>1 DEF Holds
  <2>3. CASE Current(u)
    <3>1. tenure[u] < Lease /\ Holds(u)
      BY <2>1, <2>3 DEF Current, Overdue
    <3> QED BY <1>1, <2>1, <2>2, <2>3, <3>1 DEF Own
  <2>4. CASE ~Current(u)
    BY <1>1, <2>1, <2>2, <2>4, SameCurrent DEF Own
  <2> QED BY <2>3, <2>4
<1>4. ASSUME NEW u \in Tasks, Current(u)' PROVE InSet(u)'
  <2>1. InSet(u) /\ tenure[u] \in Nat /\ tenure'[u] = tenure[u] + 1
    BY <1>1, <1>3, <1>4 DEF LeaseInv, Types
  <2>2. /\ LoopOf[u] \in Loops /\ Skew[LoopOf[u]] \in Int /\ Lease \in Nat
        /\ tenure'[u] < Lease
    BY <1>4, <2>1, BulkheadAssumption DEF Current, Overdue
  <2>3. ttl \in Nat /\ ttl >= Lease - tenure[u]
    BY <2>1 DEF InSet, LeaseInv, Types
  <2>4. ttl' # 0 /\ ttl' >= Lease - tenure'[u]
    BY <1>1, <2>1, <2>2, <2>3
  <2>5. slots' = [k \in DOMAIN slots |-> Older(slots[k])]
    BY <2>4 DEF Tick
  <2>6. slots[token[u]] = tenure[u] - Skew[LoopOf[u]] /\ token[u] \in DOMAIN slots
    BY <2>1 DEF InSet
  <2>7. ~(slots[token[u]] >= Lease - Skew[LoopOf[u]])
    BY <2>1, <2>2, <2>6
  <2>8. Older(slots[token[u]]) = slots[token[u]] + 1
    BY <2>2, <2>7 DEF Older
  <2>9. slots'[token[u]] = tenure'[u] - Skew[LoopOf[u]]
    BY <2>1, <2>2, <2>5, <2>6, <2>8
  <2> QED BY <1>1, <2>1, <2>2, <2>4, <2>5, <2>6, <2>9 DEF InSet
<1>5. CapHeld'
  BY <1>1, <1>3, FewerHolders
<1> QED BY <1>2, <1>3, <1>4, <1>5 DEF LeaseInv

LEMMA LeaseStep == LeaseInv /\ [Next]_vars => LeaseInv'
<1> SUFFICES ASSUME LeaseInv, [Next]_vars PROVE LeaseInv'
  OBVIOUS
<1>1. CASE UNCHANGED vars
  BY <1>1 DEF vars, lease, timing, LeaseInv, Types, Own, Holds, InSet, CapHeld, Holders,
             Current, Overdue
<1>2. ASSUME NEW t \in Tasks, Finish(t) \/ Cancel(t) PROVE LeaseInv'
  <2>1. Leave({t}) /\ ttl' = ttl
        /\ (slots' = slots \/ slots' = [k \in DOMAIN slots \ {token[t]} |-> slots[k]])
    BY <1>2 DEF Finish, Release, Cancel
  <2>2. {t} \in SUBSET Tasks /\ {token[t]} \subseteq {token[u] : u \in {t}}
    OBVIOUS
  <2> QED BY <2>1, <2>2, LeaveLease, Zenon
<1>3. ASSUME NEW l \in Loops, EndLoop(l) PROVE LeaseInv'
  <2>1. Leave({t \in Tasks : LoopOf[t] = l}) /\ ttl' = ttl /\ slots' = slots
    BY <1>3 DEF EndLoop
  <2> QED BY <2>1, LeaveLease
<1>4. CASE Next
  BY <1>2, <1>3, <1>4, EnterLease, AdmitLease, AskLease, PermitLease, TickLease DEF Next
<1> QED BY <1>1, <1>4

\* However many processes and hosts dispatch to a destination, whoever dies, overstays
\* its lease or loses a release, and however the clocks differ: the leases that have
\* not run out never exceed the cap (output/destination_limiter.py:48-166).
THEOREM CapAlwaysHeld == Spec => []CapHeld
<1>1. LeaseInv => CapHeld
  BY DEF LeaseInv
<1> QED BY LeaseInit, LeaseStep, <1>1, PTL DEF Spec

-----------------------------------------------------------------------------
(* The permits of a loop.                                                  *)

BulkheadInv == LeaseInv /\ PermitInv

LEMMA SendersFinite == \A l \in Loops : IsFiniteSet(Senders(l)) /\ Cardinality(Senders(l)) \in Nat
  BY FS_Subset, FS_CardinalityType, BulkheadAssumption DEF Senders, InLoop

\* Nobody starts or ends sending and no permit moves.
LEMMA PermitsStill ==
    ASSUME PermitInv, UNCHANGED <<limit, target, free>>,
           \A l \in Loops : Senders(l)' = Senders(l)
    PROVE  PermitInv'
  BY DEF PermitInv, PermitsConserved

\* Resizing in place, with the senders that are there.
LEMMA RetargetPermits ==
    ASSUME PermitInv, NEW l \in Loops, NEW c \in Nat, Retarget(l, c),
           \A k \in Loops : Senders(k)' = Senders(k)
    PROVE  PermitInv'
<1> DEFINE n == Cardinality(Senders(l))
<1>1. n \in Nat /\ limit[l] \in Nat /\ target[l] \in Nat /\ free[l] \in Nat
      /\ n + free[l] = limit[l] /\ target[l] <= limit[l]
  BY SendersFinite DEF PermitInv, PermitsConserved
<1>2. Pending(l) = {} => n = 0
  <2>1. Senders(l) \subseteq Pending(l)
    BY DEF Senders, Pending, InLoop
  <2> QED BY <2>1, FS_EmptySet
<1>3. /\ limit'[l] = IF target[l] # c /\ (Pending(l) = {} \/ c > limit[l]) THEN c ELSE limit[l]
      /\ target'[l] = c /\ free'[l] = free[l] + (limit'[l] - limit[l])
      /\ \A k \in Loops : k # l => limit'[k] = limit[k] /\ target'[k] = target[k]
                                   /\ free'[k] = free[k]
  BY DEF Retarget, PermitInv
<1>4. limit'[l] \in Nat /\ free'[l] \in Nat
  BY <1>1, <1>2, <1>3
<1>5. n + free'[l] = limit'[l] /\ target'[l] <= limit'[l]
  BY <1>1, <1>3
<1>6. limit' \in [Loops -> Nat] /\ target' \in [Loops -> Nat] /\ free' \in [Loops -> Nat]
  <2>1. \A k \in Loops : limit'[k] \in Nat /\ free'[k] \in Nat
    BY <1>3, <1>4 DEF PermitInv
  <2> QED BY <2>1 DEF Retarget, PermitInv
<1>7. PermitsConserved'
  BY <1>3, <1>5 DEF PermitInv, PermitsConserved
<1> QED BY <1>6, <1>7 DEF PermitInv

LEMMA PermitPermits ==
    ASSUME BulkheadInv, NEW t \in Tasks, Permit(t)
    PROVE  PermitInv'
<1> DEFINE l == LoopOf[t]
<1>1. /\ l \in Loops /\ free[l] \in Nat /\ free[l] > 0 /\ UNCHANGED <<limit, target>>
      /\ free' = [free EXCEPT ![l] = free[l] - 1]
      /\ stage[t] = "permit" /\ stage' = [stage EXCEPT ![t] = "send"]
  BY BulkheadAssumption DEF Permit, BulkheadInv, PermitInv
<1>2. /\ Senders(l)' = Senders(l) \cup {t} /\ t \notin Senders(l)
      /\ \A k \in Loops : k # l => Senders(k)' = Senders(k)
  BY <1>1 DEF Senders, InLoop, BulkheadInv, LeaseInv, Types
<1>3. Cardinality(Senders(l)') = Cardinality(Senders(l)) + 1
  BY <1>1, <1>2, SendersFinite, FS_AddElement
<1> HIDE DEF l
<1>4. free' \in [Loops -> Nat] /\ free'[l] = free[l] - 1
      /\ \A k \in Loops : k # l => free'[k] = free[k]
  BY <1>1 DEF BulkheadInv, PermitInv
<1>5. Cardinality(Senders(l)') + free'[l] = limit'[l] /\ target'[l] <= limit'[l]
  BY <1>1, <1>3, <1>4, SendersFinite DEF BulkheadInv, PermitInv, PermitsConserved
<1>6. \A k \in Loops : k # l => Cardinality(Senders(k)') + free'[k] = limit'[k]
                                 /\ target'[k] <= limit'[k]
  BY <1>1, <1>2, <1>4 DEF BulkheadInv, PermitInv, PermitsConserved
<1>7. \A k \in Loops : Cardinality(Senders(k)') + free'[k] = limit'[k] /\ target'[k] <= limit'[k]
  BY <1>5, <1>6
<1> QED BY <1>1, <1>4, <1>7 DEF BulkheadInv, PermitInv, PermitsConserved

LEMMA FinishPermits ==
    ASSUME BulkheadInv, NEW t \in Tasks, Finish(t)
    PROVE  PermitInv'
<1> DEFINE l == LoopOf[t]
<1>1. l \in Loops /\ stage[t] = "send" /\ target' = target /\ Leave({t}) /\ Exit(l)
  BY BulkheadAssumption DEF Finish, Release
<1>2. /\ Senders(l)' = Senders(l) \ {t} /\ t \in Senders(l)
      /\ \A k \in Loops : k # l => Senders(k)' = Senders(k)
  BY <1>1 DEF Senders, InLoop, Leave
<1>3. Cardinality(Senders(l)') = Cardinality(Senders(l)) - 1
  BY <1>1, <1>2, SendersFinite, FS_RemoveElement
<1> HIDE DEF l
<1>4. /\ limit[l] \in Nat /\ target[l] \in Nat /\ free[l] \in Nat
      /\ Cardinality(Senders(l)) + free[l] = limit[l] /\ target[l] <= limit[l]
  BY <1>1 DEF BulkheadInv, PermitInv, PermitsConserved
<1>5. CASE limit[l] > target[l]
  <2>1. limit' = [limit EXCEPT ![l] = limit[l] - 1] /\ free' = free
    BY <1>1, <1>5 DEF Exit
  <2>2. limit' \in [Loops -> Nat] /\ limit'[l] = limit[l] - 1
        /\ \A k \in Loops : k # l => limit'[k] = limit[k]
    BY <1>1, <1>4, <1>5, <2>1 DEF BulkheadInv, PermitInv
  <2>3. Cardinality(Senders(l)') + free'[l] = limit'[l] /\ target'[l] <= limit'[l]
    BY <1>1, <1>3, <1>4, <1>5, <2>1, <2>2, SendersFinite
  <2>4. \A k \in Loops : k # l => Cardinality(Senders(k)') + free'[k] = limit'[k]
                                   /\ target'[k] <= limit'[k]
    BY <1>1, <1>2, <2>1, <2>2 DEF BulkheadInv, PermitInv, PermitsConserved
  <2>5. \A k \in Loops : Cardinality(Senders(k)') + free'[k] = limit'[k]
                          /\ target'[k] <= limit'[k]
    BY <2>3, <2>4
  <2> QED BY <1>1, <2>1, <2>2, <2>5 DEF BulkheadInv, PermitInv, PermitsConserved
<1>6. CASE ~(limit[l] > target[l])
  <2>1. free' = [free EXCEPT ![l] = free[l] + 1] /\ limit' = limit
    BY <1>1, <1>6 DEF Exit
  <2>2. free' \in [Loops -> Nat] /\ free'[l] = free[l] + 1
        /\ \A k \in Loops : k # l => free'[k] = free[k]
    BY <1>1, <1>4, <2>1 DEF BulkheadInv, PermitInv
  <2>3. Cardinality(Senders(l)') + free'[l] = limit'[l] /\ target'[l] <= limit'[l]
    BY <1>1, <1>3, <1>4, <2>1, <2>2, SendersFinite
  <2>4. \A k \in Loops : k # l => Cardinality(Senders(k)') + free'[k] = limit'[k]
                                   /\ target'[k] <= limit'[k]
    BY <1>1, <1>2, <2>1, <2>2 DEF BulkheadInv, PermitInv, PermitsConserved
  <2>5. \A k \in Loops : Cardinality(Senders(k)') + free'[k] = limit'[k]
                          /\ target'[k] <= limit'[k]
    BY <2>3, <2>4
  <2> QED BY <1>1, <2>1, <2>2, <2>5 DEF BulkheadInv, PermitInv, PermitsConserved
<1> QED BY <1>5, <1>6

LEMMA EndLoopPermits ==
    ASSUME BulkheadInv, NEW l \in Loops, EndLoop(l)
    PROVE  PermitInv'
<1>1. /\ Senders(l)' = {} /\ \A k \in Loops : k # l => Senders(k)' = Senders(k)
  <2>1. \A u \in Tasks : stage'[u] = IF LoopOf[u] = l THEN "idle" ELSE stage[u]
    BY DEF EndLoop, Leave
  <2> QED BY <2>1 DEF Senders, InLoop
<1>2. /\ limit' = [limit EXCEPT ![l] = 0] /\ target' = [target EXCEPT ![l] = 0]
      /\ free' = [free EXCEPT ![l] = 0]
  BY DEF EndLoop
<1>3. /\ limit' \in [Loops -> Nat] /\ target' \in [Loops -> Nat] /\ free' \in [Loops -> Nat]
      /\ limit'[l] = 0 /\ target'[l] = 0 /\ free'[l] = 0
      /\ \A k \in Loops : k # l => limit'[k] = limit[k] /\ target'[k] = target[k]
                                   /\ free'[k] = free[k]
  BY <1>2 DEF BulkheadInv, PermitInv
<1>4. Cardinality(Senders(l)') + free'[l] = limit'[l] /\ target'[l] <= limit'[l]
  BY <1>1, <1>3, FS_EmptySet
<1>5. \A k \in Loops : k # l => Cardinality(Senders(k)') + free'[k] = limit'[k]
                                 /\ target'[k] <= limit'[k]
  BY <1>1, <1>3 DEF BulkheadInv, PermitInv, PermitsConserved
<1>6. \A k \in Loops : Cardinality(Senders(k)') + free'[k] = limit'[k] /\ target'[k] <= limit'[k]
  BY <1>4, <1>5
<1> QED BY <1>3, <1>6 DEF PermitInv, PermitsConserved

LEMMA PermitStep == BulkheadInv /\ [Next]_vars => PermitInv'
<1> SUFFICES ASSUME BulkheadInv, [Next]_vars PROVE PermitInv'
  OBVIOUS
<1> USE DEF BulkheadInv
<1>1. CASE UNCHANGED vars \/ Tick
  <2>1. UNCHANGED <<stage, limit, target, free>>
    BY <1>1 DEF vars, permits, Tick
  <2> QED BY <2>1, PermitsStill DEF Senders, InLoop
<1>2. ASSUME NEW t \in Tasks, Enter(t) PROVE PermitInv'
  <2>1. PICK c \in Limits : Retarget(LoopOf[t], c)
    BY <1>2 DEF Enter
  <2>2. \A k \in Loops : Senders(k)' = Senders(k)
    BY <1>2 DEF Enter, Senders, InLoop, LeaseInv, Types
  <2>3. c \in Nat /\ LoopOf[t] \in Loops
    BY <2>1, BulkheadAssumption
  <2> QED BY <2>1, <2>2, <2>3, RetargetPermits
<1>3. ASSUME NEW t \in Tasks, Admit(t) \/ Refuse(t) \/ Unreachable(t) \/ Cancel(t) PROVE PermitInv'
  <2>1. UNCHANGED <<limit, target, free>> /\ stage[t] # "send" /\ DOMAIN stage = Tasks
    BY <1>3 DEF Admit, Refuse, Unreachable, Cancel, permits, LeaseInv, Types
  <2>2. \A u \in Tasks : stage'[u] = "send" <=> stage[u] = "send"
    BY <1>3, <2>1 DEF Admit, Refuse, Unreachable, Cancel, FailOpen, Leave
  <2>3. \A k \in Loops : Senders(k)' = Senders(k)
    BY <2>2 DEF Senders, InLoop
  <2> QED BY <2>1, <2>3, PermitsStill
<1>4. CASE Next
  BY <1>1, <1>2, <1>3, <1>4, PermitPermits, FinishPermits, EndLoopPermits DEF Next
<1> QED BY <1>1, <1>4

LEMMA PermitInit == Init => PermitInv
<1> SUFFICES ASSUME Init PROVE PermitInv
  OBVIOUS
<1>1. \A l \in Loops : Senders(l) = {}
  BY DEF Init, Senders, InLoop
<1> QED BY <1>1, FS_EmptySet DEF Init, PermitInv, PermitsConserved

\* Whatever resizes the slot, under whatever holders and waiters, a loop has as many
\* permits as its limit, and the limit is never below the target.
THEOREM PermitsAlwaysConserved == Spec => []PermitsConserved
<1>1. Init => BulkheadInv
  BY LeaseInit, PermitInit DEF BulkheadInv
<1>2. BulkheadInv /\ [Next]_vars => BulkheadInv'
  BY LeaseStep, PermitStep DEF BulkheadInv
<1>3. BulkheadInv => PermitsConserved
  BY DEF BulkheadInv, PermitInv
<1> QED BY <1>1, <1>2, <1>3, PTL DEF Spec

-----------------------------------------------------------------------------
(* Types.                                                                  *)

\* What TypeOK says beyond the inductive invariant.
Ranges ==
    /\ cap \in [Tasks -> Limits \cup {0}] /\ waited \in [Tasks -> 0..MaxWait]
    /\ DOMAIN slots \subseteq UNION {Tokens[t] : t \in Tasks}
    /\ \A k \in DOMAIN slots : slots[k] \in Int
    /\ ttl \in 0..Lease /\ faults \in 0..MaxFaults

\* What the script leaves or adds are slots of tokens that were drawn.
LEMMA ScriptRanges ==
    ASSUME LeaseInv, Ranges, NEW t \in Tasks, stage[t] = "lease",
           slots' = Evicted(t) \/ slots' = Added(t)
    PROVE  /\ DOMAIN slots' \subseteq UNION {Tokens[u] : u \in Tasks}
           /\ \A k \in DOMAIN slots' : slots'[k] \in Int
<1>1. token[t] \in Tokens[t] /\ Skew[LoopOf[t]] \in Int
  BY BulkheadAssumption DEF LeaseInv, Own
<1>2. CASE slots' = Evicted(t)
  BY <1>2 DEF Evicted, Live, Ranges
<1>3. CASE slots' = Added(t)
  BY <1>1, <1>3 DEF Added, Live, Ranges
<1> QED BY <1>2, <1>3

\* Dispatches end, and slots go.
LEMMA LeaveRanges ==
    ASSUME Ranges, NEW S, Leave(S), NEW G, ttl' = ttl, faults' \in 0..MaxFaults,
           slots' = slots \/ slots' = [k \in DOMAIN slots \ G |-> slots[k]]
    PROVE  Ranges'
<1>1. cap' \in [Tasks -> Limits \cup {0}] /\ waited' \in [Tasks -> 0..MaxWait]
  BY BulkheadAssumption DEF Ranges, Leave
<1> QED BY <1>1 DEF Ranges

LEMMA RangesStep == BulkheadInv /\ Ranges /\ [Next]_vars => Ranges'
<1> SUFFICES ASSUME LeaseInv, Ranges, [Next]_vars PROVE Ranges'
  BY DEF BulkheadInv
<1> USE BulkheadAssumption
<1>1. CASE UNCHANGED vars
  BY <1>1 DEF vars, lease, timing, Ranges
<1>2. ASSUME NEW t \in Tasks, Enter(t) PROVE Ranges'
  BY <1>2 DEF Enter, timing, Ranges
<1>3. ASSUME NEW t \in Tasks, Admit(t) PROVE Ranges'
  <2>1. DOMAIN slots' \subseteq UNION {Tokens[u] : u \in Tasks}
        /\ \A k \in DOMAIN slots' : slots'[k] \in Int
    BY <1>3, ScriptRanges DEF Admit
  <2> QED BY <1>3, <2>1 DEF Admit, Ranges
<1>4. ASSUME NEW t \in Tasks, Refuse(t) PROVE Ranges'
  <2>1. DOMAIN slots' \subseteq UNION {Tokens[u] : u \in Tasks}
        /\ \A k \in DOMAIN slots' : slots'[k] \in Int
    BY <1>4, ScriptRanges DEF Refuse
  <2> QED BY <1>4, <2>1 DEF Refuse, FailOpen, Ranges
<1>5. ASSUME NEW t \in Tasks, Unreachable(t) PROVE Ranges'
  <2>1. DOMAIN slots' \subseteq UNION {Tokens[u] : u \in Tasks}
        /\ \A k \in DOMAIN slots' : slots'[k] \in Int
    BY <1>5, ScriptRanges DEF Unreachable, Ranges
  <2>2. ttl' \in 0..Lease /\ faults' \in 0..MaxFaults
    BY <1>5 DEF Unreachable, Ranges
  <2> QED BY <1>5, <2>1, <2>2 DEF Unreachable, FailOpen, Ranges
<1>6. ASSUME NEW t \in Tasks, Permit(t) PROVE Ranges'
  BY <1>6 DEF Permit, lease, timing, Ranges
<1>7. ASSUME NEW t \in Tasks, Finish(t) PROVE Ranges'
  <2>1. PICK fails \in BOOLEAN : Release(t, fails)
    BY <1>7 DEF Finish
  <2>2. faults' \in 0..MaxFaults /\ ttl' = ttl /\ Leave({t})
        /\ (slots' = slots \/ slots' = [k \in DOMAIN slots \ {token[t]} |-> slots[k]])
    BY <1>7, <2>1 DEF Finish, Release, Ranges
  <2> QED BY <2>2, LeaveRanges
<1>8. ASSUME NEW t \in Tasks, Cancel(t) PROVE Ranges'
  <2>1. faults' \in 0..MaxFaults /\ ttl' = ttl /\ Leave({t})
        /\ slots' = [k \in DOMAIN slots \ {token[t]} |-> slots[k]]
    BY <1>8 DEF Cancel, Ranges
  <2> QED BY <2>1, LeaveRanges
<1>9. ASSUME NEW l \in Loops, EndLoop(l) PROVE Ranges'
  <2>1. faults' \in 0..MaxFaults /\ ttl' = ttl /\ slots' = slots
        /\ Leave({t \in Tasks : LoopOf[t] = l})
    BY <1>9 DEF EndLoop, Ranges
  <2> QED BY <2>1, LeaveRanges
<1>10. CASE Tick
  <2>1. waited' \in [Tasks -> 0..MaxWait]
    BY <1>10 DEF Tick, Ranges
  <2>2. ttl' \in 0..Lease /\ UNCHANGED <<cap, faults>>
    BY <1>10 DEF Tick, Ranges
  <2>3. DOMAIN slots' \subseteq DOMAIN slots /\ \A k \in DOMAIN slots' : slots'[k] \in Int
    BY <1>10 DEF Tick, NoSlots, Older, Ranges
  <2> QED BY <2>1, <2>2, <2>3 DEF Ranges
<1> QED BY <1>1, <1>2, <1>3, <1>4, <1>5, <1>6, <1>7, <1>8, <1>9, <1>10 DEF Next

\* Tokens, waits, tenures, the ages of slots and the permits keep their ranges; in
\* particular no permit goes below zero.
THEOREM BulkheadTypes == Spec => []TypeOK
<1>1. Init => BulkheadInv /\ Ranges
  <2>1. Init => Ranges
    BY BulkheadAssumption DEF Init, Ranges, NoSlots
  <2> QED BY <2>1, LeaseInit, PermitInit DEF BulkheadInv
<1>2. BulkheadInv /\ Ranges /\ [Next]_vars => (BulkheadInv /\ Ranges)'
  BY LeaseStep, PermitStep, RangesStep DEF BulkheadInv
<1>3. BulkheadInv /\ Ranges => TypeOK
  <2> SUFFICES ASSUME BulkheadInv, Ranges PROVE TypeOK
    OBVIOUS
  <2>1. ASSUME NEW t \in Tasks PROVE tenure[t] \in 0..Lease /\ token[t] \in Tokens[t] \cup {NoToken}
    BY BulkheadAssumption DEF BulkheadInv, LeaseInv, Types, Own, InSet
  <2>2. tenure \in [Tasks -> 0..Lease]
    BY <2>1 DEF BulkheadInv, LeaseInv, Types
  <2> QED BY <2>1, <2>2 DEF BulkheadInv, LeaseInv, Types, PermitInv, Ranges, TypeOK
<1> QED BY <1>1, <1>2, <1>3, PTL DEF Spec

=============================================================================
