---------------------------- MODULE AbsenceProofs ----------------------------
(***************************************************************************)
(* Theorems about Absence, for every number of keys and processes, every   *)
(* window, grace, forgetting time and budget, and every sequence of faults. *)
(***************************************************************************)
EXTENDS Absence, WellFoundedInduction, TLAPS

(* Least and greatest elements.                                            *)

LEMMA LeastExists ==
    ASSUME NEW S \in SUBSET Nat, S # {}
    PROVE  Min(S) \in S /\ \A y \in S : Min(S) <= y
<1> DEFINE R == OpToRel(<, Nat)
<1>1. \A x, y \in Nat : <<y, x>> \in R <=> y < x
  BY DEF OpToRel
<1>2. IsWellFoundedOn(R, Nat)
  BY NatLessThanWellFounded
<1> HIDE DEF R
<1>3. PICK x \in S : \A y \in S : ~ (<<y, x>> \in R)
  BY <1>2, WFMin
<1>4. ASSUME NEW y \in S PROVE x <= y
  <2>1. x \in Nat /\ y \in Nat
    OBVIOUS
  <2>2. ~(y < x)
    BY <1>1, <1>3, <2>1
  <2> QED BY <2>1, <2>2
<1> QED BY <1>4 DEF Min

LEMMA GreatestExists ==
    ASSUME NEW n \in Nat, NEW S \in SUBSET (0..n), S # {}
    PROVE  Max(S) \in S /\ \A y \in S : Max(S) >= y
<1> DEFINE T == {n - x : x \in S}
<1>1. T \in SUBSET Nat /\ T # {}
  <2>1. \A x \in S : n - x \in Nat
    OBVIOUS
  <2> QED BY <2>1
<1>2. PICK x \in S : Min(T) = n - x
  BY <1>1, LeastExists
<1>3. ASSUME NEW y \in S PROVE x >= y
  <2>1. n - y \in T
    OBVIOUS
  <2>2. n - x <= n - y
    BY <1>1, <1>2, <2>1, LeastExists
  <2> QED BY <2>2
<1> QED BY <1>3 DEF Max

\* Of two numbers.
LEMMA LesserOfTwo ==
    ASSUME NEW a \in Int, NEW b \in Int
    PROVE  Min({a, b}) = IF a <= b THEN a ELSE b
  BY DEF Min

LEMMA GreaterOfTwo ==
    ASSUME NEW a \in Int, NEW b \in Int
    PROVE  Max({a, b}) = IF a >= b THEN a ELSE b
  BY DEF Max

-----------------------------------------------------------------------------
(* Types.                                                                  *)

Phases  == {"idle", "read", "unwatch", "close", "unmark", "alert"}
Decided == Phases \ {"idle", "read"}

TickRecord == [pc : Phases, forget : SUBSET Keys, back : SUBSET Keys, silent : SUBSET Keys,
               left : 0..AlertBudget, due : [Keys -> Marks], marks : [Keys -> Marks]]

CycleRecord == [pc : {"idle", "save", "count", "flush"}, keys : SUBSET Keys,
                known : SUBSET Keys, capped : BOOLEAN]

WorldTypes ==
    /\ waiting \in [Keys -> Ages(Reach + 1)] /\ hidden \subseteq Keys
    /\ seen \in [Keys -> Ages(Forget + 1)]
    /\ alerted \in [Keys -> Marks]
    /\ beat \in 0..(ObserverMaxAge + 1) /\ own \in 0..(ObserverMaxAge + 1)
    /\ lag \in Ages(Reach + 1) /\ lock \in BOOLEAN
    /\ open \subseteq Keys
    /\ cyc \in CycleRecord
    /\ age \in 0..CycleMax
    /\ heard \subseteq Keys /\ starved \subseteq Keys /\ faults \in 0..MaxFaults

TickTypes ==
    /\ tick \in [Tickers -> TickRecord]
    /\ \A t \in Tickers : tick[t].forget \cap (tick[t].back \cup tick[t].silent) = {}

\* A cycle that reached its cap left something behind, the age of which it saves.
CappedLeft == cyc.pc = "save" /\ cyc.capped => Backlog # {}

Types == WorldTypes /\ TickTypes /\ CappedLeft

LEMMA ReachCovers == Reach \in Nat /\ Deadline <= Reach /\ ObserverMaxAge + CycleMax <= Reach
  BY AbsenceAssumption, GreaterOfTwo DEF Reach

\* What a period does to an age.
LEMMA OlderAge ==
    ASSUME NEW top \in Nat, NEW a \in Ages(top)
    PROVE  /\ Older(a, top) \in Ages(top)
           /\ a = Absent => Older(a, top) = Absent
           /\ a # Absent => Older(a, top) = IF a < top THEN a + 1 ELSE top
           /\ a # Absent => a \in 0..top /\ Older(a, top) # Absent
<1>1. CASE a = Absent
  BY <1>1 DEF Older, Ages
<1>2. CASE a # Absent
  <2>1. a \in 0..top
    BY <1>2 DEF Ages
  <2>2. Older(a, top) = IF a + 1 <= top THEN a + 1 ELSE top
    BY <1>2, <2>1, LesserOfTwo DEF Older
  <2> QED BY <1>2, <2>1, <2>2 DEF Ages, Absent
<1> QED BY <1>1, <1>2

LEMMA FromDecided == \A first, d : From(first, d) \in Decided
  BY DEF From, Decided, Phases

LEMMA TriedLeast ==
    ASSUME Types, NEW t \in Tickers, Tried(t) # {}
    PROVE  /\ Min(Tried(t)) \in tick[t].silent /\ Min(Tried(t)) \in Keys
           /\ tick[t].left \in 1..AlertBudget
<1>1. tick[t] \in TickRecord
  BY DEF Types, TickTypes
<1>2. Tried(t) = tick[t].silent /\ tick[t].left # 0
  BY DEF Tried
<1>3. tick[t].silent \in SUBSET Keys /\ tick[t].left \in 0..AlertBudget
  BY <1>1 DEF TickRecord
<1>4. Tried(t) \in SUBSET Nat
  BY <1>2, <1>3, AbsenceAssumption DEF Keys
<1> QED BY <1>2, <1>3, <1>4, LeastExists, AbsenceAssumption

LEMMA IdleTyped ==
    IdleTick \in TickRecord /\ IdleTick.forget \cap (IdleTick.back \cup IdleTick.silent) = {}
<1>1. NoMark \in [Keys -> Marks]
  BY DEF NoMark, Marks
<1>2. 0 \in 0..AlertBudget
  BY AbsenceAssumption
<1> QED BY <1>1, <1>2 DEF IdleTick, TickRecord, Phases

LEMMA TypesInit == Init => Types
<1> SUFFICES ASSUME Init PROVE Types
  OBVIOUS
<1>1. WorldTypes
  <2>1. Absent \in Ages(Reach + 1) /\ Absent \in Ages(Forget + 1) /\ Absent \in Marks
    BY DEF Ages, Marks
  <2>2. ObserverMaxAge + 1 \in 0..(ObserverMaxAge + 1) /\ 0 \in 0..CycleMax /\ 0 \in 0..MaxFaults
    BY AbsenceAssumption
  <2> QED BY <2>1, <2>2 DEF Init, WorldTypes, CycleRecord, NoMark, IdleCycle
<1>2. TickTypes
  BY IdleTyped DEF Init, TickTypes
<1>3. CappedLeft
  BY DEF Init, CappedLeft, IdleCycle
<1> QED BY <1>1, <1>2, <1>3 DEF Types

LEMMA HearsTyped ==
    ASSUME WorldTypes, NEW keys, Hears(keys)
    PROVE  heard' \subseteq Keys /\ starved' \subseteq Keys
  BY DEF WorldTypes, Hears, Overdue

LEMMA FaultCounted == WorldTypes /\ Fails => faults' \in 0..MaxFaults
  BY AbsenceAssumption DEF Fails, WorldTypes

\* The events and the cycle: nothing here touches a tick.
LEMMA CycleTypes ==
    ASSUME Types,
           \/ \E k \in Keys : Happen(k)
           \/ Collect \/ CollectFails \/ SaveState \/ Count \/ Flush \/ FlushLost \/ Stranger
    PROVE  Types' /\ tick' = tick
<1> USE DEF Types
<1>0. 0 \in Ages(Reach + 1) /\ 0 \in Ages(Forget + 1) /\ Absent \in Ages(Reach + 1) /\ 0 # Absent
      /\ 0 \in 0..CycleMax /\ 0 \in 0..(ObserverMaxAge + 1)
  BY ReachCovers, AbsenceAssumption DEF Ages, Absent
<1>1. ASSUME NEW k \in Keys, Happen(k) PROVE WorldTypes' /\ CappedLeft' /\ tick' = tick
  <2>1. WorldTypes'
    BY <1>0, <1>1 DEF Happen, redis, cycle, silence, WorldTypes
  <2>2. CappedLeft'
    BY <1>0, <1>1 DEF Happen, cycle, CappedLeft, Backlog, WorldTypes
  <2> QED BY <1>1, <2>1, <2>2 DEF Happen
<1>2. ASSUME Collect PROVE WorldTypes' /\ CappedLeft' /\ tick' = tick
  <2>1. PICK read \in SUBSET Backlog :
          /\ IF read = Backlog THEN UNCHANGED faults ELSE read # {} /\ Fails
          /\ waiting' = [k \in Keys |-> IF k \in read THEN Absent ELSE waiting[k]]
          /\ hidden' = hidden \ read
          /\ cyc' = [IdleCycle EXCEPT !.pc = "save", !.keys = read, !.capped = read # Backlog]
    BY <1>2 DEF Collect
  <2>2. faults' \in 0..MaxFaults
    BY <2>1, AbsenceAssumption DEF Fails, WorldTypes
  <2>3. waiting' \in [Keys -> Ages(Reach + 1)]
    BY <1>0, <2>1 DEF WorldTypes
  <2>4. cyc' = [pc |-> "save", keys |-> read, known |-> {}, capped |-> read # Backlog] /\ read \subseteq Keys
    BY <2>1 DEF IdleCycle, Backlog
  <2>5. WorldTypes'
    <3> DEFINE c == read # Backlog
    <3>1. cyc' \in CycleRecord /\ hidden' \subseteq Keys
      <4>1. c \in BOOLEAN /\ cyc' = [pc |-> "save", keys |-> read, known |-> {}, capped |-> c]
        BY <2>4
      <4> HIDE DEF c
      <4> QED BY <2>1, <2>4, <4>1 DEF CycleRecord, WorldTypes
    <3>2. UNCHANGED <<seen, alerted, beat, own, lag, lock, open, heard, starved>> /\ age' = 0
      BY <1>2 DEF Collect, redis, silence
    <3> QED BY <1>0, <2>2, <2>3, <3>1, <3>2 DEF WorldTypes
  <2>6. CappedLeft'
    <3> SUFFICES ASSUME cyc'.capped PROVE Backlog' # {}
      BY DEF CappedLeft
    <3>1. PICK k \in Backlog : k \notin read
      <4>1. read # Backlog
        BY <2>4
      <4> QED BY <4>1, Zenon
    <3>2. k \in Keys /\ waiting'[k] # Absent
      BY <2>1, <3>1 DEF Backlog
    <3> QED BY <3>2 DEF Backlog
  <2> QED BY <1>2, <2>5, <2>6 DEF Collect
<1>3. ASSUME CollectFails PROVE WorldTypes' /\ CappedLeft' /\ tick' = tick
  <2>1. PICK read \in SUBSET Backlog :
          /\ waiting' = [k \in Keys |-> IF k \in read THEN Absent ELSE waiting[k]]
          /\ hidden' = Backlog \ read
          /\ cyc' = [IdleCycle EXCEPT !.pc = "count", !.keys = read]
    BY <1>3 DEF CollectFails
  <2>2. faults' \in 0..MaxFaults /\ age' = 0
        /\ UNCHANGED <<seen, alerted, beat, own, lag, lock, open, tick, heard, starved>>
    BY <1>3, FaultCounted DEF CollectFails, redis, silence
  <2>3. waiting' \in [Keys -> Ages(Reach + 1)]
    BY <1>0, <2>1 DEF WorldTypes
  <2>4. /\ cyc' = [pc |-> "count", keys |-> read, known |-> {}, capped |-> FALSE]
        /\ read \subseteq Keys /\ Backlog \subseteq Keys
    BY <2>1 DEF IdleCycle, Backlog
  <2>5. WorldTypes'
    <3>1. hidden' \subseteq Keys
      BY <2>1, <2>4
    <3>2. cyc' \in CycleRecord
      BY <2>4 DEF CycleRecord
    <3> QED BY <1>0, <2>2, <2>3, <3>1, <3>2 DEF WorldTypes
  <2> QED BY <2>2, <2>4, <2>5 DEF CappedLeft
<1>4. ASSUME SaveState PROVE WorldTypes' /\ CappedLeft' /\ tick' = tick
  <2>1. lag' \in Ages(Reach + 1)
    <3>1. CASE cyc.capped
      <4> DEFINE S == {waiting[k] : k \in Backlog}
      <4>1. S # {}
        BY <1>4, <3>1 DEF SaveState, CappedLeft
      <4>2. S \in SUBSET (0..(Reach + 1))
        BY DEF WorldTypes, Backlog, Ages
      <4>3. lag' = Max(S)
        BY <1>4, <3>1 DEF SaveState
      <4>4. Reach + 1 \in Nat
        BY ReachCovers
      <4> HIDE DEF S
      <4>5. Max(S) \in S
        BY <4>1, <4>2, <4>4, GreatestExists
      <4> QED BY <4>2, <4>3, <4>5 DEF Ages
    <3>2. CASE ~cyc.capped
      BY <1>0, <1>4, <3>2 DEF SaveState
    <3> QED BY <3>1, <3>2
  <2>2. cyc' \in CycleRecord /\ cyc'.pc = "count"
    BY <1>4 DEF SaveState, WorldTypes, CycleRecord
  <2> QED BY <1>4, <2>1, <2>2 DEF SaveState, source, redis, silence, WorldTypes, CappedLeft
<1>5. ASSUME NEW written, Sighted(written)
      PROVE  /\ seen' \in [Keys -> Ages(Forget + 1)] /\ heard' \subseteq Keys /\ starved' \subseteq Keys
             /\ beat' \in 0..(ObserverMaxAge + 1)
  BY <1>0, <1>5 DEF Sighted, WorldTypes
<1>6. ASSUME Flush PROVE WorldTypes' /\ CappedLeft' /\ tick' = tick
  <2>1. PICK written : Sighted(written)
    BY <1>6 DEF Flush
  <2>2. cyc' \in CycleRecord /\ cyc'.pc = "idle"
    BY <1>6 DEF Flush, IdleCycle, CycleRecord
  <2> QED BY <1>0, <1>5, <1>6, <2>1, <2>2 DEF Flush, source, WorldTypes, CappedLeft
<1>7. ASSUME Stranger PROVE WorldTypes' /\ CappedLeft' /\ tick' = tick
  <2>1. PICK written : Sighted(written)
    BY <1>7 DEF Stranger
  <2> QED BY <1>5, <1>7, <2>1 DEF Stranger, source, cycle, WorldTypes, CappedLeft, Backlog
<1>8. ASSUME Count PROVE WorldTypes' /\ CappedLeft' /\ tick' = tick
  <2>1. cyc' \in CycleRecord /\ cyc'.pc = "flush"
    BY <1>8 DEF Count, WorldTypes, CycleRecord
  <2> QED BY <1>8, <2>1 DEF Count, source, redis, silence, WorldTypes, CappedLeft
<1>9. ASSUME FlushLost PROVE WorldTypes' /\ CappedLeft' /\ tick' = tick
  <2>1. faults' \in 0..MaxFaults
    BY <1>9, FaultCounted DEF FlushLost
  <2>2. cyc' \in CycleRecord /\ cyc'.pc = "idle"
    BY <1>9 DEF FlushLost, IdleCycle, CycleRecord
  <2> QED BY <1>9, <2>1, <2>2 DEF FlushLost, source, redis, silence, WorldTypes, CappedLeft
<1>10. tick' = tick => TickTypes'
  BY DEF TickTypes
<1> QED BY <1>1, <1>2, <1>3, <1>4, <1>6, <1>7, <1>8, <1>9, <1>10

LEMMA PassTypes ==
    ASSUME Types, Pass
    PROVE  Types' /\ tick' = tick
<1> USE DEF Types
<1>1. Reach + 1 \in Nat /\ Forget + 1 \in Nat /\ ObserverMaxAge + 1 \in Nat
  BY ReachCovers, AbsenceAssumption
<1>2. UNCHANGED <<hidden, alerted, open, cyc, tick, heard, starved>> /\ lock' = FALSE
  BY DEF Pass, silence
<1>3. waiting' \in [Keys -> Ages(Reach + 1)]
      /\ \A k \in Keys : waiting[k] # Absent => waiting'[k] # Absent
  <2>1. waiting' = [k \in Keys |-> Older(waiting[k], Reach + 1)]
    BY DEF Pass
  <2>2. \A k \in Keys : waiting[k] \in Ages(Reach + 1)
    BY DEF WorldTypes
  <2> QED BY <1>1, <2>1, <2>2, OlderAge
<1>4. seen' \in [Keys -> Ages(Forget + 1)]
  <2>1. seen' = [k \in Keys |-> Older(seen[k], Forget + 1)]
    BY DEF Pass
  <2>2. \A k \in Keys : seen[k] \in Ages(Forget + 1)
    BY DEF WorldTypes
  <2> QED BY <1>1, <2>1, <2>2, OlderAge
<1>5. lag' \in Ages(Reach + 1)
  BY <1>1, OlderAge DEF Pass, WorldTypes
<1>6. beat' \in 0..(ObserverMaxAge + 1) /\ own' \in 0..(ObserverMaxAge + 1)
  <2>1. \A a \in {beat, own} : a \in Ages(ObserverMaxAge + 1) /\ a # Absent
    BY DEF WorldTypes, Ages, Absent
  <2>2. \A a \in {beat', own'} : a \in Ages(ObserverMaxAge + 1) /\ a # Absent
    BY <1>1, <2>1, OlderAge DEF Pass
  <2> QED BY <2>2 DEF Ages
<1>7. age' \in 0..CycleMax /\ faults' \in 0..MaxFaults
  BY AbsenceAssumption, FaultCounted DEF Pass, WorldTypes
<1>8. WorldTypes'
  BY <1>2, <1>3, <1>4, <1>5, <1>6, <1>7 DEF WorldTypes
<1>9. CappedLeft'
  BY <1>2, <1>3 DEF CappedLeft, Backlog
<1> QED BY <1>2, <1>8, <1>9 DEF TickTypes

\* A step that changes one tick, and one that changes none.
LEMMA OneTick ==
    ASSUME TickTypes, NEW t \in Tickers, NEW r \in TickRecord,
           r.forget \cap (r.back \cup r.silent) = {}, tick' = [tick EXCEPT ![t] = r]
    PROVE  TickTypes' /\ tick'[t] = r /\ \A u \in Tickers : u # t => tick'[u] = tick[u]
  BY DEF TickTypes

\* The phase of a tick changes and nothing of what it decided.
LEMMA NextPhase ==
    ASSUME TickTypes, NEW t \in Tickers, NEW p \in Phases, tick' = [tick EXCEPT ![t].pc = p]
    PROVE  /\ TickTypes' /\ tick'[t] = [tick[t] EXCEPT !.pc = p] /\ tick'[t].pc = p
           /\ \A u \in Tickers : u # t => tick'[u] = tick[u]
<1>1. tick[t] \in TickRecord /\ tick[t].forget \cap (tick[t].back \cup tick[t].silent) = {}
  BY DEF TickTypes
<1> DEFINE r == [tick[t] EXCEPT !.pc = p]
<1>2. r \in TickRecord /\ r.forget \cap (r.back \cup r.silent) = {}
  BY <1>1 DEF TickRecord
<1>3. tick' = [tick EXCEPT ![t] = r]
  OBVIOUS
<1> HIDE DEF r
<1>4. TickTypes' /\ tick'[t] = r /\ \A u \in Tickers : u # t => tick'[u] = tick[u]
  BY <1>2, <1>3, OneTick
<1>5. r.pc = p
  BY <1>1 DEF r, TickRecord
<1> QED BY <1>4, <1>5 DEF r

\* Only ticks, marks, the vigil and the alerts move.
LEMMA WorldKept ==
    ASSUME Types, TickTypes', UNCHANGED <<waiting, hidden, lag, cyc, age>>,
           seen' \in [Keys -> Ages(Forget + 1)], alerted' \in [Keys -> Marks],
           beat' \in 0..(ObserverMaxAge + 1), own' = own, lock' \in BOOLEAN, open' \subseteq Keys,
           heard' \subseteq Keys, starved' \subseteq Keys, faults' \in 0..MaxFaults
    PROVE  Types'
  BY DEF Types, WorldTypes, CappedLeft, Backlog

\* A tick goes back to idle.
LEMMA TickEnds ==
    ASSUME TickTypes, NEW t \in Tickers, tick' = [tick EXCEPT ![t] = IdleTick]
    PROVE  TickTypes' /\ tick'[t] = IdleTick /\ \A u \in Tickers : u # t => tick'[u] = tick[u]
  BY IdleTyped, OneTick

\* The snapshot: what the tick decides, and that it decides one thing of a key.
LEMMA ReadDecides ==
    ASSUME Types, NEW t \in Tickers, Read(t)
    PROVE  /\ TickTypes' /\ tick'[t].pc = From("unwatch", [forget |-> ToForget, back |-> Back])
           /\ tick'[t].forget = ToForget /\ tick'[t].back = Back /\ tick'[t].silent = Silent
           /\ tick'[t].left \in 0..AlertBudget /\ tick'[t].due = NoMark /\ tick'[t].marks = alerted
           /\ \A u \in Tickers : u # t => tick'[u] = tick[u]
<1> DEFINE p == From("unwatch", [forget |-> ToForget, back |-> Back])
           R(n) == [pc |-> p, forget |-> ToForget, back |-> Back, silent |-> Silent,
                    left |-> n, due |-> NoMark, marks |-> alerted]
<1>1. p \in Phases
  BY FromDecided DEF Decided
<1>2. ToForget \subseteq Keys /\ Back \subseteq Keys /\ Silent \subseteq Keys
      /\ ToForget \cap (Back \cup Silent) = {}
  BY DEF ToForget, Back, Silent, Overdue
<1>3. NoMark \in [Keys -> Marks] /\ alerted \in [Keys -> Marks]
  BY DEF NoMark, Marks, Types, WorldTypes
<1>4. PICK left \in 0..AlertBudget : tick' = [tick EXCEPT ![t] = R(left)]
  <2>1. \E left \in (IF Silent = {} THEN {0} ELSE 0..AlertBudget) : tick' = [tick EXCEPT ![t] = R(left)]
    BY Zenon DEF Read
  <2>2. (IF Silent = {} THEN {0} ELSE 0..AlertBudget) \subseteq 0..AlertBudget
    BY AbsenceAssumption
  <2> HIDE DEF R
  <2> QED BY <2>1, <2>2
<1> DEFINE r == R(left)
<1>5. tick' = [tick EXCEPT ![t] = r]
  BY <1>4
<1> HIDE DEF p
<1>6. r \in TickRecord /\ r.forget \cap (r.back \cup r.silent) = {}
  BY <1>1, <1>2, <1>3 DEF TickRecord
<1>7. r.pc = p /\ r.forget = ToForget /\ r.back = Back /\ r.silent = Silent
      /\ r.left \in 0..AlertBudget /\ r.due = NoMark /\ r.marks = alerted
  OBVIOUS
<1> HIDE DEF r
<1>8. TickTypes' /\ tick'[t] = r /\ \A u \in Tickers : u # t => tick'[u] = tick[u]
  BY <1>5, <1>6, OneTick DEF Types
<1> QED BY <1>7, <1>8 DEF p

LEMMA BumpTick ==
    ASSUME Types, NEW t \in Tickers, Bump(t), NEW k, k = Min(Tried(t))
    PROVE  /\ TickTypes' /\ k \in Keys /\ k \in tick[t].silent /\ k \in open
           /\ Hears({k})
           /\ tick'[t].pc = tick[t].pc /\ tick'[t].forget = tick[t].forget
           /\ tick'[t].back = tick[t].back /\ tick'[t].marks = tick[t].marks
           /\ tick'[t].silent = tick[t].silent \ {k} /\ tick'[t].left = tick[t].left - 1
           /\ tick'[t].due =
                [tick[t].due EXCEPT ![k] = IF tick[t].marks[k] = Absent THEN Newest ELSE @]
           /\ \A u \in Tickers : u # t => tick'[u] = tick[u]
<1> DEFINE d == [tick[t].due EXCEPT ![k] = IF tick[t].marks[k] = Absent THEN Newest ELSE @]
           r == [tick[t] EXCEPT !.marks = tick[t].marks, !.silent = tick[t].silent \ {k},
                                !.left = tick[t].left - 1, !.due = d]
<1>1. k \in Keys /\ k \in tick[t].silent /\ tick[t].left \in 1..AlertBudget
  BY TriedLeast DEF Bump
<1>2. tick[t] \in TickRecord /\ tick[t].forget \cap (tick[t].back \cup tick[t].silent) = {}
  BY DEF Types, TickTypes
<1>3. tick[t].due \in [Keys -> Marks] /\ tick[t].silent \ {k} \in SUBSET Keys
      /\ tick[t].left - 1 \in 0..AlertBudget
  BY <1>1, <1>2, AbsenceAssumption DEF TickRecord
<1>4. d \in [Keys -> Marks] /\ tick[t].marks \in [Keys -> Marks]
      /\ tick[t].silent \ {k} \in SUBSET tick[t].silent
  BY <1>1, <1>2, <1>3 DEF Marks, TickRecord
<1>5. /\ tick' = [u \in Tickers |-> tick'[u]]
      /\ tick'[t] = r /\ \A u \in Tickers : u # t => tick'[u] = tick[u]
  BY <1>2 DEF Bump, Types, TickTypes, TickRecord
<1>6. k \in open /\ Hears({k})
  BY DEF Bump
<1> HIDE DEF d
<1> DEFINE s == tick[t].silent \ {k}
           n == tick[t].left - 1
<1> HIDE DEF s, n
<1>7. r \in TickRecord /\ r.forget \cap (r.back \cup r.silent) = {}
      /\ r.pc = tick[t].pc /\ r.forget = tick[t].forget /\ r.back = tick[t].back
      /\ r.silent = tick[t].silent \ {k} /\ r.left = tick[t].left - 1
      /\ r.due = d /\ r.marks = tick[t].marks
  <2>1. s \in SUBSET tick[t].silent /\ n \in 0..AlertBudget
    BY <1>3, <1>4 DEF s, n
  <2>2. r = [tick[t] EXCEPT !.marks = tick[t].marks, !.silent = s, !.left = n, !.due = d]
    BY DEF s, n
  <2> HIDE DEF r
  <2>3. r \in TickRecord /\ r.forget \cap (r.back \cup r.silent) = {}
      /\ r.pc = tick[t].pc /\ r.forget = tick[t].forget /\ r.back = tick[t].back
      /\ r.silent = s /\ r.left = n /\ r.due = d /\ r.marks = tick[t].marks
    BY <1>2, <1>4, <2>1, <2>2 DEF TickRecord
  <2> QED BY <2>3 DEF s, n
<1> HIDE DEF r
<1>8. TickTypes'
  BY <1>5, <1>7 DEF Types, TickTypes
<1> QED BY <1>1, <1>5, <1>6, <1>7, <1>8 DEF d

LEMMA SupersededMarks ==
    ASSUME NEW marks \in [Keys -> Marks], NEW k \in Keys
    PROVE  /\ Superseded(marks, k) \in [Keys -> Marks]
           /\ \A j \in Keys : j # k => Superseded(marks, k)[j] = marks[j]
           /\ Superseded(marks, k)[k] # Newest
  BY DEF Superseded, Marks, Newest, Former, Absent

\* A new Detection of a key: marks that named the last one name a former one now.
\* What an alert for key k does to the tick t that raises it and to the others.
AlertMove(t, k) ==
    /\ k \in Keys /\ k \in tick[t].silent /\ k \notin open
    /\ Hears({k}) /\ open' = open \cup {k} /\ alerted' = Superseded(alerted, k)
    /\ \A u \in Tickers :
         /\ tick'[u].pc = tick[u].pc /\ tick'[u].forget = tick[u].forget
         /\ tick'[u].back = tick[u].back
         /\ tick'[u].silent = IF u = t THEN tick[u].silent \ {k} ELSE tick[u].silent
         /\ tick'[u].left = IF u = t THEN tick[u].left - 1 ELSE tick[u].left
         /\ tick'[u].due = IF u = t THEN [tick[u].due EXCEPT ![k] = Newest]
                           ELSE Superseded(tick[u].due, k)
         /\ tick'[u].marks = Superseded(tick[u].marks, k)

LEMMA AlertTick ==
    ASSUME Types, NEW t \in Tickers, Alert(t), NEW k, k = Min(Tried(t))
    PROVE  TickTypes' /\ AlertMove(t, k)
<1>1. k \in Keys /\ k \in tick[t].silent /\ tick[t].left \in 1..AlertBudget
  BY TriedLeast DEF Alert
<1>2. k \notin open /\ Hears({k}) /\ open' = open \cup {k}
      /\ alerted' = Superseded(alerted, k)
  BY DEF Alert
<1> DEFINE now(u) == [tick[u] EXCEPT !.marks = Superseded(@, k), !.due = Superseded(@, k)]
           new(u) == IF u # t THEN now(u)
                     ELSE [now(u) EXCEPT !.silent = @ \ {k}, !.left = @ - 1, !.due[k] = Newest]
<1>3. tick' = [u \in Tickers |-> new(u)]
  <2> HIDE DEF new, now
  <2> DEFINE m == Min(Tried(t))
             was(u) == [tick[u] EXCEPT !.marks = Superseded(@, m), !.due = Superseded(@, m)]
             is(u) == IF u # t THEN was(u)
                      ELSE [was(u) EXCEPT !.silent = @ \ {m}, !.left = @ - 1, !.due[m] = Newest]
  <2>1. tick' = [u \in Tickers |-> is(u)]
    BY Zenon DEF Alert
  <2>2. ASSUME NEW u \in Tickers PROVE is(u) = new(u)
    <3> HIDE DEF m
    <3>1. m = k
      BY DEF m
    <3> QED BY <3>1, Zenon DEF new, now
  <2> HIDE DEF is
  <2> QED BY <2>1, <2>2
<1>4. ASSUME NEW u \in Tickers
      PROVE  /\ new(u).pc = tick[u].pc /\ new(u).forget = tick[u].forget
             /\ new(u).back = tick[u].back
             /\ new(u).silent = IF u = t THEN tick[u].silent \ {k} ELSE tick[u].silent
             /\ new(u).left = IF u = t THEN tick[u].left - 1 ELSE tick[u].left
             /\ new(u).due = IF u = t THEN [tick[u].due EXCEPT ![k] = Newest]
                             ELSE Superseded(tick[u].due, k)
             /\ new(u).marks = Superseded(tick[u].marks, k)
             /\ new(u) \in TickRecord
             /\ new(u).forget \cap (new(u).back \cup new(u).silent) = {}
  <2>1. tick[u] \in TickRecord /\ tick[u].forget \cap (tick[u].back \cup tick[u].silent) = {}
    BY DEF Types, TickTypes
  <2>2. tick[u].due \in [Keys -> Marks] /\ tick[u].marks \in [Keys -> Marks]
        /\ tick[u].silent \in SUBSET Keys /\ tick[u].left \in 0..AlertBudget
    BY <2>1 DEF TickRecord
  <2>3. Superseded(tick[u].due, k) \in [Keys -> Marks] /\ Superseded(tick[u].marks, k) \in [Keys -> Marks]
    BY <1>1, <2>2, SupersededMarks
  <2>4. [Superseded(tick[u].due, k) EXCEPT ![k] = Newest] = [tick[u].due EXCEPT ![k] = Newest]
        /\ [tick[u].due EXCEPT ![k] = Newest] \in [Keys -> Marks]
    BY <1>1, <2>2 DEF Superseded, Marks
  <2>5. CASE u # t
    <3>1. new(u) = [tick[u] EXCEPT !.marks = Superseded(tick[u].marks, k),
                                   !.due = Superseded(tick[u].due, k)]
      BY <2>5
    <3> QED BY <2>1, <2>3, <2>5, <3>1 DEF TickRecord
  <2>6. CASE u = t
    <3> DEFINE d == [tick[u].due EXCEPT ![k] = Newest]
    <3>1. new(u) = [tick[u] EXCEPT !.marks = Superseded(tick[u].marks, k),
                                   !.silent = tick[u].silent \ {k}, !.left = tick[u].left - 1,
                                   !.due = d]
      BY <2>1, <2>4, <2>6 DEF TickRecord
    <3>2. tick[u].left - 1 \in 0..AlertBudget /\ d \in [Keys -> Marks]
          /\ tick[u].silent \ {k} \in SUBSET tick[u].silent
      BY <1>1, <2>4, <2>6, AbsenceAssumption
    <3> DEFINE s == tick[u].silent \ {k}
               n == tick[u].left - 1
               m == Superseded(tick[u].marks, k)
               r == new(u)
    <3>3. r = [tick[u] EXCEPT !.marks = m, !.silent = s, !.left = n, !.due = d]
          /\ s \in SUBSET tick[u].silent /\ n \in 0..AlertBudget /\ m \in [Keys -> Marks]
      BY <2>3, <3>1, <3>2
    <3> HIDE DEF d, s, n, m, r, new
    <3>4. r \in TickRecord /\ r.forget \cap (r.back \cup r.silent) = {}
          /\ r.pc = tick[u].pc /\ r.forget = tick[u].forget /\ r.back = tick[u].back
          /\ r.silent = s /\ r.left = n /\ r.due = d /\ r.marks = m
      BY <2>1, <3>2, <3>3 DEF TickRecord
    <3>5. new(u) \in TickRecord /\ new(u).forget \cap (new(u).back \cup new(u).silent) = {}
          /\ new(u).pc = tick[u].pc /\ new(u).forget = tick[u].forget
          /\ new(u).back = tick[u].back /\ new(u).silent = tick[u].silent \ {k}
          /\ new(u).left = tick[u].left - 1 /\ new(u).due = d
          /\ new(u).marks = Superseded(tick[u].marks, k)
      BY <3>4 DEF r, s, n, m
    <3> QED BY <2>6, <3>5 DEF d
  <2> QED BY <2>5, <2>6
<1> HIDE DEF new
<1>5. TickTypes'
  BY <1>3, <1>4 DEF TickTypes
<1>6. \A u \in Tickers : tick'[u] = new(u)
  BY <1>3
<1>7. ASSUME NEW u \in Tickers
      PROVE  /\ tick'[u].pc = tick[u].pc /\ tick'[u].forget = tick[u].forget
             /\ tick'[u].back = tick[u].back
             /\ tick'[u].silent = IF u = t THEN tick[u].silent \ {k} ELSE tick[u].silent
             /\ tick'[u].left = IF u = t THEN tick[u].left - 1 ELSE tick[u].left
             /\ tick'[u].due = IF u = t THEN [tick[u].due EXCEPT ![k] = Newest]
                               ELSE Superseded(tick[u].due, k)
             /\ tick'[u].marks = Superseded(tick[u].marks, k)
  BY <1>4, <1>6, ZenonT(30)
<1> QED BY <1>1, <1>2, <1>5, <1>7, Zenon DEF AlertMove

LEMMA RecordLostTick ==
    ASSUME Types, NEW t \in Tickers, RecordLost(t), NEW k, k = Min(Tried(t))
    PROVE  /\ TickTypes' /\ k \in Keys /\ Hears({k})
           /\ tick'[t] = [tick[t] EXCEPT !.silent = @ \ {k}]
           /\ \A u \in Tickers : u # t => tick'[u] = tick[u]
<1> DEFINE r == [tick[t] EXCEPT !.silent = @ \ {k}]
<1>1. k \in Keys
  BY TriedLeast DEF RecordLost
<1>2. tick[t] \in TickRecord /\ tick[t].forget \cap (tick[t].back \cup tick[t].silent) = {}
  BY DEF Types, TickTypes
<1>3. r \in TickRecord /\ r.forget \cap (r.back \cup r.silent) = {}
  BY <1>2 DEF TickRecord
<1>4. tick' = [tick EXCEPT ![t] = r] /\ Hears({k})
  BY DEF RecordLost
<1> HIDE DEF r
<1>5. TickTypes' /\ tick'[t] = r /\ \A u \in Tickers : u # t => tick'[u] = tick[u]
  BY <1>3, <1>4, OneTick DEF Types
<1> QED BY <1>1, <1>4, <1>5 DEF r

LEMMA TickStepTypes ==
    ASSUME Types, NEW t \in Tickers, Tick(t)
    PROVE  Types'
<1> USE DEF Types
<1>0. faults \in 0..MaxFaults /\ seen \in [Keys -> Ages(Forget + 1)] /\ alerted \in [Keys -> Marks]
      /\ beat \in 0..(ObserverMaxAge + 1) /\ lock \in BOOLEAN /\ open \subseteq Keys
      /\ heard \subseteq Keys /\ starved \subseteq Keys
  BY DEF WorldTypes
<1>1. CASE Begin(t)
  <2>1. TickTypes'
    BY <1>1, NextPhase DEF Begin, Phases
  <2> QED BY <1>0, <1>1, <2>1, WorldKept DEF Begin, source, redis, cycle, silence
<1>2. CASE Read(t)
  <2>1. TickTypes'
    BY <1>2, ReadDecides
  <2> QED BY <1>0, <1>2, <2>1, WorldKept DEF Read, source, redis, cycle, silence
<1>3. CASE Held(t)
  <2>1. TickTypes'
    BY <1>3, TickEnds DEF Held
  <2> QED BY <1>0, <1>3, <2>1, WorldKept, HearsTyped DEF Held, source, redis, cycle, silence
<1>4. CASE Unwatch(t)
  <2>1. TickTypes'
    BY <1>4, NextPhase DEF Unwatch, Phases
  <2>2. seen' \in [Keys -> Ages(Forget + 1)] /\ alerted' \in [Keys -> Marks]
    BY <1>0, <1>4 DEF Unwatch, Ages, Marks
  <2> QED BY <1>0, <1>4, <2>1, <2>2, WorldKept DEF Unwatch, source, cycle
<1>5. CASE Close(t)
  <2>1. TickTypes'
    BY <1>5, NextPhase, FromDecided DEF Close, Decided
  <2>2. open' \subseteq Keys
    BY <1>0, <1>5 DEF Close
  <2> QED BY <1>0, <1>5, <2>1, <2>2, WorldKept DEF Close, source, redis, cycle, silence
<1>6. CASE Unmark(t)
  <2>1. TickTypes'
    BY <1>6, NextPhase DEF Unmark, Phases
  <2>2. alerted' \in [Keys -> Marks]
    BY <1>0, <1>6 DEF Unmark, Marks
  <2> QED BY <1>0, <1>6, <2>1, <2>2, WorldKept DEF Unmark, source, cycle, silence
<1>7. CASE Bump(t)
  <2>1. TickTypes' /\ heard' \subseteq Keys /\ starved' \subseteq Keys
    BY <1>0, <1>7, BumpTick, HearsTyped
  <2> QED BY <1>0, <1>7, <2>1, WorldKept DEF Bump, source, redis, cycle, silence
<1>8. CASE Alert(t)
  <2>1. TickTypes' /\ heard' \subseteq Keys /\ starved' \subseteq Keys
        /\ open' \subseteq Keys /\ alerted' \in [Keys -> Marks]
    <3>1. PICK k : k = Min(Tried(t))
      OBVIOUS
    <3>2. TickTypes' /\ AlertMove(t, k)
      BY <1>8, <3>1, AlertTick
    <3>3. k \in Keys /\ Hears({k}) /\ open' = open \cup {k}
          /\ alerted' = Superseded(alerted, k)
      BY <3>2 DEF AlertMove
    <3> QED BY <1>0, <3>2, <3>3, SupersededMarks, HearsTyped
  <2> QED BY <1>0, <1>8, <2>1, WorldKept DEF Alert, source, cycle, silence
<1>9. CASE Mark(t)
  <2>1. TickTypes'
    BY <1>9, TickEnds DEF Mark
  <2>2. tick[t].due \in [Keys -> Marks]
    BY DEF TickTypes, TickRecord
  <2>3. alerted' \in [Keys -> Marks]
    BY <1>0, <1>9, <2>2 DEF Mark
  <2>4. starved' \subseteq Keys
    BY <1>0, <1>9 DEF Mark, Starves, Overdue
  <2> QED BY <1>0, <1>9, <2>1, <2>3, <2>4, WorldKept DEF Mark, source, cycle
<1> QED BY <1>1, <1>2, <1>3, <1>4, <1>5, <1>6, <1>7, <1>8, <1>9 DEF Tick

\* What fails in a tick, and who closes an alert by hand.
LEMMA FaultTypes ==
    ASSUME Types,
           \/ NoTick \/ Wipe \/ \E k \in Keys : AnalystCloses(k)
           \/ \E t \in Tickers : \/ BeginUnlocked(t) \/ TickDies(t)
                                 \/ WriteLost(t) \/ CloseLost(t) \/ RecordLost(t)
    PROVE  Types'
<1> USE DEF Types
<1>0. faults \in 0..MaxFaults /\ seen \in [Keys -> Ages(Forget + 1)] /\ alerted \in [Keys -> Marks]
      /\ beat \in 0..(ObserverMaxAge + 1) /\ lock \in BOOLEAN /\ open \subseteq Keys
      /\ heard \subseteq Keys /\ starved \subseteq Keys /\ (Fails => faults' \in 0..MaxFaults)
  BY FaultCounted DEF WorldTypes
<1>1. CASE NoTick
  <2>1. TickTypes'
    BY <1>1 DEF NoTick, TickTypes
  <2> QED BY <1>0, <1>1, <2>1, WorldKept, HearsTyped DEF NoTick, source, redis, cycle, silence
<1>2. CASE Wipe
  <2>1. TickTypes'
    BY <1>2 DEF Wipe, TickTypes
  <2>2. seen' \in [Keys -> Ages(Forget + 1)] /\ alerted' \in [Keys -> Marks]
        /\ beat' \in 0..(ObserverMaxAge + 1)
    BY <1>2, AbsenceAssumption DEF Wipe, NoMark, Ages, Marks
  <2> QED BY <1>0, <1>2, <2>1, <2>2, WorldKept DEF Wipe, source, cycle
<1>3. ASSUME NEW k \in Keys, AnalystCloses(k) PROVE Types'
  <2>1. TickTypes' /\ open' \subseteq Keys
    BY <1>0, <1>3 DEF AnalystCloses, TickTypes
  <2> QED BY <1>0, <1>3, <2>1, WorldKept DEF AnalystCloses, source, redis, cycle, silence
<1>4. ASSUME NEW t \in Tickers, BeginUnlocked(t) PROVE Types'
  <2>1. TickTypes'
    BY <1>4, NextPhase DEF BeginUnlocked, Phases
  <2> QED BY <1>0, <1>4, <2>1, WorldKept DEF BeginUnlocked, source, redis, cycle, silence
<1>5. ASSUME NEW t \in Tickers, TickDies(t) PROVE Types'
  <2>1. TickTypes'
    BY <1>5, TickEnds DEF TickDies
  <2> QED BY <1>0, <1>5, <2>1, WorldKept, HearsTyped DEF TickDies, source, redis, cycle, silence
<1>6. ASSUME NEW t \in Tickers, WriteLost(t) PROVE Types'
  <2>1. TickTypes'
    <3>1. CASE tick' = [tick EXCEPT ![t].pc = "close"]
      BY <3>1, NextPhase DEF Phases
    <3>2. CASE tick' = [tick EXCEPT ![t].pc = "alert"]
      BY <3>2, NextPhase DEF Phases
    <3>3. CASE tick' = [tick EXCEPT ![t] = IdleTick]
      BY <3>3, TickEnds
    <3> QED BY <1>6, <3>1, <3>2, <3>3 DEF WriteLost
  <2>2. starved' \subseteq Keys
    BY <1>0, <1>6 DEF WriteLost, Starves, Overdue
  <2> QED BY <1>0, <1>6, <2>1, <2>2, WorldKept DEF WriteLost, source, redis, cycle
<1>7. ASSUME NEW t \in Tickers, CloseLost(t) PROVE Types'
  <2>1. TickTypes'
    BY <1>7, NextPhase, FromDecided DEF CloseLost, Decided
  <2>2. open' \subseteq Keys
    BY <1>0, <1>7 DEF CloseLost
  <2> QED BY <1>0, <1>7, <2>1, <2>2, WorldKept DEF CloseLost, source, redis, cycle, silence
<1>8. ASSUME NEW t \in Tickers, RecordLost(t) PROVE Types'
  <2>1. PICK k : k = Min(Tried(t))
    OBVIOUS
  <2>2. TickTypes' /\ Hears({k}) /\ k \in Keys
    BY <1>8, <2>1, RecordLostTick
  <2> QED BY <1>0, <1>8, <2>2, WorldKept, HearsTyped DEF RecordLost, source, redis, cycle, silence
<1> QED BY <1>1, <1>2, <1>3, <1>4, <1>5, <1>6, <1>7, <1>8

LEMMA TypesStep == Types /\ [Next]_vars => Types'
<1> SUFFICES ASSUME Types, [Next]_vars PROVE Types'
  OBVIOUS
<1>1. CASE UNCHANGED vars
  BY <1>1 DEF vars, source, redis, cycle, silence, Types, WorldTypes, TickTypes, CappedLeft, Backlog
<1>2. CASE Next
  BY <1>2, CycleTypes, PassTypes, TickStepTypes, FaultTypes DEF Next, Cycle, Fault
<1> QED BY <1>1, <1>2

\* Ages stay within their bounds, marks name Detections, budgets never go negative,
\* and a tick works on disjoint sets of keys, so that no key is forgotten and alerted
\* by the same tick (evaluate_absence_rule).
THEOREM AbsenceTypes == Spec => []TypeOK
<1>1. Types => TypeOK
  <2> SUFFICES ASSUME Types PROVE TypeOK
    OBVIOUS
  <2>1. ASSUME NEW t \in Tickers
        PROVE  /\ tick[t].pc \in Phases
               /\ tick[t].forget \cup tick[t].back \cup tick[t].silent \subseteq Keys
               /\ tick[t].left \in 0..AlertBudget
               /\ {tick[t].marks, tick[t].due} \subseteq [Keys -> Marks]
               /\ tick[t].forget \cap (tick[t].back \cup tick[t].silent) = {}
    BY DEF Types, TickTypes, TickRecord
  <2> QED BY <2>1 DEF Types, WorldTypes, CycleRecord, TypeOK, Phases
<1> QED BY TypesInit, TypesStep, <1>1, PTL DEF Spec

-----------------------------------------------------------------------------
(* An alert is honest.                                                     *)

\* How long an event may have waited: no longer than the cycle's heartbeat is old and a
\* cycle may take, or than the lag that was saved, unless a cycle failed to read it.
\* The second and third part say it of the heartbeat the running cycle will write.
Bounded(k) ==
    /\ \/ own > ObserverMaxAge
       \/ waiting[k] <= own + CycleMax
       \/ waiting[k] <= lag
       \/ k \in hidden
    /\ cyc.pc = "save" /\ ~cyc.capped => waiting[k] <= age \/ k \in hidden
    /\ cyc.pc \in {"count", "flush"} => waiting[k] <= age \/ waiting[k] <= lag \/ k \in hidden

AllBounded == \A k \in Keys : Bounded(k)

LEMMA WorldNumbers ==
    ASSUME Types
    PROVE  /\ \A k \in Keys : waiting[k] \in Int /\ waiting[k] >= -1
           /\ own \in Nat /\ lag \in Int /\ lag >= -1 /\ age \in Nat /\ age <= CycleMax
           /\ CycleMax \in Nat /\ ObserverMaxAge \in Nat
  BY AbsenceAssumption, ReachCovers DEF Types, WorldTypes, Ages, Absent

LEMMA PassBounded ==
    ASSUME Types, AllBounded, Pass
    PROVE  AllBounded'
<1> SUFFICES ASSUME NEW k \in Keys PROVE Bounded(k)'
  BY DEF AllBounded
<1> DEFINE top == Reach + 1
<1>1. Bounded(k) /\ top \in Nat
  BY ReachCovers DEF AllBounded
<1>2. waiting[k] \in Ages(top) /\ lag \in Ages(top)
  BY DEF Types, WorldTypes
<1>3. waiting'[k] = Older(waiting[k], top) /\ lag' = Older(lag, top)
      /\ own' = Older(own, ObserverMaxAge + 1) /\ UNCHANGED <<hidden, cyc>>
      /\ age' = IF cyc.pc = "idle" THEN 0 ELSE age + 1
  BY DEF Pass
<1> HIDE DEF top
<1>4. /\ waiting[k] = -1 => waiting'[k] = -1
      /\ waiting[k] # -1 => waiting[k] \in 0..top
                            /\ waiting'[k] = IF waiting[k] < top THEN waiting[k] + 1 ELSE top
  BY <1>1, <1>2, <1>3, OlderAge DEF Absent
<1>5. /\ lag = -1 => lag' = -1
      /\ lag # -1 => lag \in 0..top /\ lag' = IF lag < top THEN lag + 1 ELSE top
  BY <1>1, <1>2, <1>3, OlderAge DEF Absent
<1>6. own' = IF own < ObserverMaxAge + 1 THEN own + 1 ELSE ObserverMaxAge + 1
  <2>1. own \in Ages(ObserverMaxAge + 1) /\ own # Absent /\ ObserverMaxAge + 1 \in Nat
    BY AbsenceAssumption DEF Types, WorldTypes, Ages, Absent
  <2> QED BY <1>3, <2>1, OlderAge
<1>7. waiting[k] <= lag => waiting'[k] <= lag'
  BY <1>1, <1>4, <1>5
<1>8. waiting[k] <= age => waiting'[k] <= age + 1
  BY <1>1, <1>4, WorldNumbers
<1>9. \/ own' > ObserverMaxAge
      \/ waiting[k] <= own + CycleMax => waiting'[k] <= own' + CycleMax
  BY <1>1, <1>4, <1>6, WorldNumbers
<1>10. own > ObserverMaxAge => own' > ObserverMaxAge
  BY <1>6, WorldNumbers
<1> QED BY <1>1, <1>3, <1>7, <1>8, <1>9, <1>10 DEF Bounded

LEMMA BoundedStep == Types /\ AllBounded /\ [Next]_vars => AllBounded'
<1> SUFFICES ASSUME Types, AllBounded, [Next]_vars PROVE AllBounded'
  OBVIOUS
<1>1. CASE UNCHANGED <<waiting, hidden, own, lag, cyc, age>>
  BY <1>1 DEF AllBounded, Bounded
<1>2. ASSUME NEW j \in Keys, Happen(j) PROVE AllBounded'
  <2> SUFFICES ASSUME NEW k \in Keys PROVE Bounded(k)'
    BY DEF AllBounded
  <2>1. waiting'[k] = waiting[k] \/ waiting'[k] = 0
    BY <1>2 DEF Happen, Types, WorldTypes
  <2>2. UNCHANGED <<hidden, own, lag, cyc, age>>
    BY <1>2 DEF Happen, redis, cycle
  <2> QED BY <2>1, <2>2, WorldNumbers DEF AllBounded, Bounded
<1>3. CASE Collect
  <2> SUFFICES ASSUME NEW k \in Keys PROVE Bounded(k)'
    BY DEF AllBounded
  <2>1. PICK read \in SUBSET Backlog :
          /\ waiting' = [i \in Keys |-> IF i \in read THEN Absent ELSE waiting[i]]
          /\ hidden' = hidden \ read
          /\ cyc' = [IdleCycle EXCEPT !.pc = "save", !.keys = read, !.capped = read # Backlog]
    BY <1>3 DEF Collect
  <2>2. UNCHANGED <<own, lag>> /\ age' = 0 /\ cyc'.pc = "save" /\ cyc'.capped = (read # Backlog)
    BY <1>3, <2>1 DEF Collect, redis, IdleCycle
  <2>3. CASE k \in read \/ waiting[k] = Absent
    <3>1. waiting'[k] = -1
      BY <2>1, <2>3 DEF Absent
    <3> QED BY <2>2, <3>1, WorldNumbers DEF Bounded
  <2>4. CASE k \notin read /\ waiting[k] # Absent
    <3>1. waiting'[k] = waiting[k] /\ read # Backlog /\ (k \in hidden => k \in hidden')
      BY <2>1, <2>4 DEF Backlog
    <3> QED BY <2>2, <3>1 DEF AllBounded, Bounded
  <2> QED BY <2>3, <2>4
<1>4. CASE CollectFails
  <2> SUFFICES ASSUME NEW k \in Keys PROVE Bounded(k)'
    BY DEF AllBounded
  <2>1. PICK read \in SUBSET Backlog :
          /\ waiting' = [i \in Keys |-> IF i \in read THEN Absent ELSE waiting[i]]
          /\ hidden' = Backlog \ read
          /\ cyc' = [IdleCycle EXCEPT !.pc = "count", !.keys = read]
    BY <1>4 DEF CollectFails
  <2>2. UNCHANGED <<own, lag>> /\ age' = 0 /\ cyc'.pc = "count"
    BY <1>4, <2>1 DEF CollectFails, redis, IdleCycle
  <2>3. waiting'[k] = -1 \/ k \in hidden'
    BY <2>1 DEF Backlog, Absent
  <2> QED BY <2>2, <2>3, WorldNumbers DEF Bounded
<1>5. CASE SaveState
  <2> SUFFICES ASSUME NEW k \in Keys PROVE Bounded(k)'
    BY DEF AllBounded
  <2>1. UNCHANGED <<waiting, hidden, own, age>> /\ cyc.pc = "save" /\ cyc'.pc = "count"
    BY <1>5 DEF SaveState, source, redis, Types, WorldTypes, CycleRecord
  <2>2. CASE cyc.capped
    <3> DEFINE S == {waiting[j] : j \in Backlog}
    <3>1. S # {}
      BY <2>1, <2>2 DEF Types, CappedLeft
    <3>2. S \in SUBSET (0..(Reach + 1))
      BY DEF Types, WorldTypes, Backlog, Ages
    <3>3. lag' = Max(S) /\ Reach + 1 \in Nat /\ (k \in Backlog => waiting[k] \in S)
      BY <1>5, <2>2, ReachCovers DEF SaveState
    <3> HIDE DEF S
    <3>4. Max(S) \in S /\ \A y \in S : Max(S) >= y
      BY <3>1, <3>2, <3>3, GreatestExists
    <3>5. waiting[k] <= lag'
      <4>1. CASE k \in Backlog
        <5>1. waiting[k] \in 0..(Reach + 1) /\ Max(S) \in 0..(Reach + 1) /\ Max(S) >= waiting[k]
          BY <3>2, <3>3, <3>4, <4>1
        <5> QED BY <3>3, <5>1
      <4>2. CASE k \notin Backlog
        <5>1. waiting[k] = -1 /\ lag' \in 0..(Reach + 1)
          BY <3>2, <3>3, <3>4, <4>2 DEF Backlog, Absent
        <5> QED BY <5>1
      <4> QED BY <4>1, <4>2
    <3> QED BY <2>1, <3>5 DEF Bounded
  <2>3. CASE ~cyc.capped
    <3>1. waiting[k] <= age \/ k \in hidden
      BY <2>1, <2>3 DEF AllBounded, Bounded
    <3> QED BY <2>1, <3>1, WorldNumbers DEF Bounded
  <2> QED BY <2>2, <2>3
<1>6. CASE Flush
  <2> SUFFICES ASSUME NEW k \in Keys PROVE Bounded(k)'
    BY DEF AllBounded
  <2>1. UNCHANGED <<waiting, hidden, lag>> /\ cyc.pc = "flush" /\ cyc'.pc = "idle" /\ own' = 0
    BY <1>6 DEF Flush, source, IdleCycle
  <2> QED BY <2>1, WorldNumbers DEF AllBounded, Bounded
<1>7. CASE FlushLost
  <2>1. UNCHANGED <<waiting, hidden, lag, own, age>> /\ cyc'.pc = "idle"
    BY <1>7 DEF FlushLost, source, redis, IdleCycle
  <2> QED BY <2>1 DEF AllBounded, Bounded
<1>8. CASE Count
  <2>1. UNCHANGED <<waiting, hidden, lag, own, age>> /\ cyc.pc = "count" /\ cyc'.pc = "flush"
    BY <1>8 DEF Count, source, redis, Types, WorldTypes, CycleRecord
  <2> QED BY <2>1 DEF AllBounded, Bounded
<1>9. ASSUME NEW t \in Tickers,
             \/ Tick(t) \/ BeginUnlocked(t) \/ TickDies(t)
             \/ WriteLost(t) \/ CloseLost(t) \/ RecordLost(t)
      PROVE  UNCHANGED <<waiting, hidden, own, lag, cyc, age>>
  BY <1>9 DEF Tick, Begin, Read, Held, Unwatch, Close, Unmark, Bump, Alert, Mark, BeginUnlocked,
     TickDies, WriteLost, CloseLost, RecordLost, source, redis, cycle
<1>10. (NoTick \/ Wipe \/ Stranger \/ \E k \in Keys : AnalystCloses(k))
       => UNCHANGED <<waiting, hidden, own, lag, cyc, age>>
  BY DEF NoTick, Wipe, Stranger, AnalystCloses, source, redis, cycle
<1>11. UNCHANGED vars => UNCHANGED <<waiting, hidden, own, lag, cyc, age>>
  BY DEF vars, source, redis, cycle
<1> QED BY <1>1, <1>2, <1>3, <1>4, <1>5, <1>6, <1>7, <1>8, <1>9, <1>10, <1>11, PassBounded
        DEF Next, Cycle, Fault

\* However the cycles of the organization, failed reads, lost heartbeats and ticks
\* cross: when a tick finds a key silent, no event of the key has been waiting for
\* longer than the window or the age the heartbeat may have, unless a cycle failed to
\* read it or the cycle that should read it is dead and another's heartbeat masks that
\* (the guards of evaluate_absence_rule).
THEOREM AlertsAreHonest == Spec => HonestAlert
<1>1. Init => Types /\ AllBounded
  <2>1. Init => AllBounded
    BY AbsenceAssumption DEF Init, AllBounded, Bounded, IdleCycle
  <2> QED BY <2>1, TypesInit
<1>2. Types /\ AllBounded /\ [Next]_vars => (Types /\ AllBounded)'
  BY TypesStep, BoundedStep
<1>3. Types /\ AllBounded =>
        \A t \in Tickers : Read(t) =>
          \A k \in tick'[t].silent : waiting[k] <= Reach \/ k \in hidden \/ Masked
  <2> SUFFICES ASSUME Types, AllBounded, NEW t \in Tickers, Read(t), NEW k \in tick'[t].silent,
                      ~Masked
               PROVE  waiting[k] <= Reach \/ k \in hidden
    OBVIOUS
  <2>1. k \in Keys
    BY ReadDecides DEF Silent, Overdue
  <2>2. own <= ObserverMaxAge /\ ~(lag > Deadline)
    <3>1. beat \in Nat /\ beat <= ObserverMaxAge /\ ~(lag > Deadline)
      BY AbsenceAssumption DEF Read, Observed, Lagging, Types, WorldTypes
    <3> QED BY <3>1, WorldNumbers DEF Masked
  <2>3. \/ waiting[k] <= own + CycleMax
        \/ waiting[k] <= lag
        \/ k \in hidden
    BY <2>1, <2>2, WorldNumbers DEF AllBounded, Bounded
  <2> QED BY <2>1, <2>2, <2>3, WorldNumbers, ReachCovers, AbsenceAssumption
<1> QED BY <1>1, <1>2, <1>3, PTL DEF Spec, HonestAlert

-----------------------------------------------------------------------------
(* No key is forgotten without a word.                                     *)

\* The tick will still decide on the key, or has decided to alert it.
Pending(t, k) == tick[t].pc = "read" \/ (tick[t].pc \in Decided /\ k \in tick[t].silent)

\* The silence of a key that was not heard of has only now become one, and the tick
\* of this period has not come to it yet.
Fresh(k) ==
    \/ seen[k] <= Deadline + Grace
    \/ /\ seen[k] = Deadline + Grace + 1
       /\ ~lock \/ \E t \in Tickers : Pending(t, k)

Accounted(k) == k \in heard \/ k \in starved

AllTold == \A k \in Keys : Accounted(k) \/ Fresh(k)

\* Of a rule that gives a key time to be a candidate.
HeardInv == Candidates => AllTold

LEMMA SeenNumbers ==
    ASSUME Types, NEW k \in Keys
    PROVE  /\ seen[k] \in Int /\ seen[k] >= -1 /\ Deadline + Grace \in Nat
           /\ Deadline + Grace + 1 \in Nat /\ Forget \in Nat
           /\ Candidates => Deadline + Grace + 1 <= Forget
  BY AbsenceAssumption DEF Types, WorldTypes, Ages, Absent, Candidates

\* A key is accounted for, or not silent, or as it was before.
Tells(k) ==
    \/ Accounted(k)'
    \/ seen'[k] <= Deadline + Grace
    \/ /\ ~Accounted(k) /\ seen'[k] = seen[k] /\ lock' = lock
       /\ \A t \in Tickers : Pending(t, k) => Pending(t, k)'

LEMMA StillTold ==
    ASSUME AllTold, \A k \in Keys : Tells(k)
    PROVE  AllTold'
<1> SUFFICES ASSUME NEW k \in Keys, ~Accounted(k)', ~(seen'[k] <= Deadline + Grace) PROVE Fresh(k)'
  BY DEF AllTold, Fresh
<1>1. /\ ~Accounted(k) /\ seen'[k] = seen[k] /\ lock' = lock
      /\ \A t \in Tickers : Pending(t, k) => Pending(t, k)'
  BY DEF Tells
<1>2. Fresh(k)
  BY <1>1 DEF AllTold
<1> QED BY <1>1, <1>2 DEF Fresh

\* Nothing but what the ticks are about has changed.
LEMMA QuietTold ==
    ASSUME AllTold, UNCHANGED <<seen, lock, heard, starved>>,
           \A t \in Tickers, k \in Keys : Pending(t, k) => Pending(t, k)'
    PROVE  AllTold'
<1>1. \A k \in Keys : Tells(k)
  BY DEF Tells, Accounted
<1> QED BY <1>1, StillTold

\* The keys heard of are accounted for, and the others are still waiting for a tick.
LEMMA HearsTold ==
    ASSUME Types, AllTold, NEW keys, Hears(keys), seen' = seen,
           keys = Keys \/ lock' = lock,
           \A t \in Tickers, k \in Keys \ keys : Pending(t, k) => Pending(t, k)'
    PROVE  AllTold'
<1> SUFFICES ASSUME NEW k \in Keys PROVE Tells(k)
  BY StillTold
<1>1. CASE k \in keys
  BY <1>1, SeenNumbers DEF Tells, Accounted, Hears, Overdue
<1>2. CASE k \notin keys
  BY <1>2 DEF Tells, Accounted, Hears
<1> QED BY <1>1, <1>2

LEMMA SightedTold ==
    ASSUME Types, AllTold, NEW written, Sighted(written), UNCHANGED <<lock, tick>>
    PROVE  AllTold'
<1> SUFFICES ASSUME NEW k \in Keys PROVE Tells(k)
  BY StillTold
<1>1. CASE k \in written
  <2>1. seen'[k] = 0
    BY <1>1 DEF Sighted
  <2> QED BY <2>1, SeenNumbers DEF Tells
<1>2. CASE k \notin written
  BY <1>2 DEF Tells, Accounted, Sighted, Pending
<1> QED BY <1>1, <1>2

\* A tick goes from one of the phases after its decision to another.
LEMMA PhasePending ==
    ASSUME Types, NEW t \in Tickers, NEW p \in Decided, tick[t].pc \in Decided,
           tick' = [tick EXCEPT ![t].pc = p]
    PROVE  \A u \in Tickers, k \in Keys : Pending(u, k) => Pending(u, k)'
<1>1. tick'[t] = [tick[t] EXCEPT !.pc = p] /\ \A u \in Tickers : u # t => tick'[u] = tick[u]
  BY NextPhase DEF Types, Decided
<1>2. tick[t] \in TickRecord
  BY DEF Types, TickTypes
<1>3. tick'[t].pc = p /\ tick'[t].silent = tick[t].silent
  BY <1>1, <1>2 DEF TickRecord
<1> QED BY <1>1, <1>3 DEF Pending, Decided

\* A tick that has come to its end leaves only what it could not afford.
LEMMA EndTold ==
    ASSUME Types, AllTold, NEW t \in Tickers, tick[t].pc = "alert", Tried(t) = {},
           tick' = [tick EXCEPT ![t] = IdleTick], starved' = starved \cup Starves(t),
           UNCHANGED <<seen, lock, heard>>
    PROVE  AllTold'
<1> SUFFICES ASSUME NEW k \in Keys PROVE Tells(k)
  BY StillTold
<1>1. \A u \in Tickers : u # t => tick'[u] = tick[u]
  BY TickEnds DEF Types
<1>2. CASE k \in tick[t].silent
  <2>1. tick[t].left = 0
    BY <1>2 DEF Tried
  <2>2. k \in Overdue => k \in heard \/ k \in starved'
    BY <1>2, <2>1 DEF Starves
  <2>3. k \notin Overdue => seen[k] <= Deadline + Grace
    BY SeenNumbers DEF Overdue
  <2> QED BY <2>2, <2>3 DEF Tells, Accounted
<1>3. CASE k \notin tick[t].silent
  <2>1. \A u \in Tickers : Pending(u, k) => Pending(u, k)'
    BY <1>1, <1>3 DEF Pending
  <2> QED BY <2>1 DEF Tells, Accounted
<1> QED BY <1>2, <1>3

\* A key has been tried: it is no longer pending in the tick that tried it.
LEMMA TriedPending ==
    ASSUME NEW t \in Tickers, NEW j,
           tick'[t].silent = tick[t].silent \ {j},
           \A u \in Tickers : tick'[u].pc = tick[u].pc,
           \A u \in Tickers : u # t => tick'[u].silent = tick[u].silent
    PROVE  \A u \in Tickers, k \in Keys \ {j} : Pending(u, k) => Pending(u, k)'
  BY DEF Pending

LEMMA PassTold ==
    ASSUME Candidates, Types, AllTold, Pass
    PROVE  AllTold'
<1>1. lock' = FALSE /\ heard' = heard /\ starved' = starved /\ tick' = tick /\ lock
      /\ \A t \in Tickers : tick[t].pc = "idle"
  BY DEF Pass, Running, silence
<1>2. ASSUME NEW k \in Keys, ~Accounted(k) PROVE Fresh(k)'
  <2>1. seen[k] <= Deadline + Grace
    BY <1>1, <1>2 DEF AllTold, Fresh, Pending, Decided
  <2>2. Forget + 1 \in Nat /\ seen[k] \in Ages(Forget + 1)
    BY AbsenceAssumption DEF Types, WorldTypes
  <2>3. seen'[k] = Older(seen[k], Forget + 1)
    BY DEF Pass
  <2>4. seen'[k] = -1 \/ seen'[k] = seen[k] + 1
    BY <2>1, <2>2, <2>3, OlderAge, SeenNumbers DEF Absent
  <2> QED BY <1>1, <2>1, <2>4, SeenNumbers DEF Fresh
<1> QED BY <1>1, <1>2 DEF AllTold, Accounted

LEMMA ReadTold ==
    ASSUME Candidates, Types, AllTold, NEW t \in Tickers, Read(t)
    PROVE  AllTold'
<1>1. /\ tick'[t].pc \in Decided /\ tick'[t].silent = Silent
      /\ \A u \in Tickers : u # t => tick'[u] = tick[u]
  BY ReadDecides, FromDecided
<1>2. UNCHANGED <<seen, lock, heard, starved>>
  BY DEF Read, redis, silence
<1>3. ASSUME NEW k \in Keys, ~Accounted(k) PROVE Fresh(k)'
  <2>1. CASE seen[k] <= Deadline + Grace
    BY <1>2, <2>1 DEF Fresh
  <2>2. CASE seen[k] = Deadline + Grace + 1
    <3>1. k \in Silent
      BY <2>2, SeenNumbers DEF Silent, Overdue, ToForget
    <3>2. Pending(t, k)'
      BY <1>1, <3>1 DEF Pending
    <3> QED BY <1>2, <2>2, <3>2 DEF Fresh
  <2> QED BY <1>3, <2>1, <2>2 DEF AllTold, Fresh
<1> QED BY <1>2, <1>3 DEF AllTold, Accounted

\* A tick begins, with the lock or without.
LEMMA BeginTold ==
    ASSUME Types, AllTold, NEW t \in Tickers, Begin(t) \/ BeginUnlocked(t)
    PROVE  AllTold'
<1>1. UNCHANGED <<seen, heard, starved>> /\ tick' = [tick EXCEPT ![t].pc = "read"]
  BY DEF Begin, BeginUnlocked, redis, silence
<1>2. tick'[t].pc = "read"
  BY <1>1, NextPhase DEF Types, Phases
<1>3. \A k \in Keys : Pending(t, k)'
  BY <1>2 DEF Pending
<1> QED BY <1>1, <1>3 DEF AllTold, Accounted, Fresh

LEMMA HeardStep ==
    ASSUME Types, HeardInv, [Next]_vars
    PROVE  HeardInv'
<1> SUFFICES ASSUME Candidates, AllTold PROVE AllTold'
  BY DEF HeardInv, Candidates
<1>1. ASSUME NEW t \in Tickers, Held(t) \/ TickDies(t) PROVE AllTold'
  <2>1. Hears(Keys) /\ seen' = seen
    BY <1>1 DEF Held, TickDies, redis
  <2> QED BY <2>1, HearsTold
<1>2. ASSUME NoTick PROVE AllTold'
  <2>1. Hears(Keys) /\ seen' = seen
    BY <1>2 DEF NoTick, redis
  <2> QED BY <2>1, HearsTold
<1>3. ASSUME NEW t \in Tickers, Unwatch(t) PROVE AllTold'
  <2>1. \A u \in Tickers, k \in Keys : Pending(u, k) => Pending(u, k)'
    BY <1>3, PhasePending DEF Unwatch, Decided, Phases
  <2>2. ASSUME NEW k \in Keys PROVE Tells(k)
    <3>1. CASE k \in tick[t].forget
      <4>1. seen'[k] = -1
        BY <1>3, <3>1 DEF Unwatch, Absent
      <4> QED BY <4>1, SeenNumbers DEF Tells
    <3>2. CASE k \notin tick[t].forget
      BY <1>3, <2>1, <3>2 DEF Unwatch, Tells, Accounted
    <3> QED BY <3>1, <3>2
  <2> QED BY <2>2, StillTold
<1>4. ASSUME NEW t \in Tickers, Close(t) \/ CloseLost(t) PROVE AllTold'
  <2>1. \A u \in Tickers, k \in Keys : Pending(u, k) => Pending(u, k)'
    BY <1>4, PhasePending, FromDecided DEF Close, CloseLost, Decided, Phases
  <2> QED BY <1>4, <2>1, QuietTold DEF Close, CloseLost, redis, silence
<1>5. ASSUME NEW t \in Tickers, Unmark(t) PROVE AllTold'
  <2>1. \A u \in Tickers, k \in Keys : Pending(u, k) => Pending(u, k)'
    BY <1>5, PhasePending DEF Unmark, Decided, Phases
  <2> QED BY <1>5, <2>1, QuietTold DEF Unmark, silence
<1>6. ASSUME NEW t \in Tickers, Mark(t) PROVE AllTold'
  BY <1>6, EndTold DEF Mark
<1>7. ASSUME NEW t \in Tickers, WriteLost(t) PROVE AllTold'
  <2>1. UNCHANGED <<seen, lock, heard>>
    BY <1>7 DEF WriteLost, redis
  <2>2. ASSUME NEW p \in {"close", "alert"}, tick[t].pc \in {"unwatch", "unmark"},
               tick' = [tick EXCEPT ![t].pc = p], starved' = starved
        PROVE  AllTold'
    <3>1. \A u \in Tickers, k \in Keys : Pending(u, k) => Pending(u, k)'
      BY <2>2, PhasePending DEF Decided, Phases
    <3> QED BY <2>1, <2>2, <3>1, QuietTold
  <2>3. ASSUME tick[t].pc = "alert", Tried(t) = {}, tick' = [tick EXCEPT ![t] = IdleTick],
               starved' = starved \cup Starves(t)
        PROVE  AllTold'
    BY <2>1, <2>3, EndTold
  <2> QED BY <1>7, <2>2, <2>3 DEF WriteLost
<1>8. ASSUME NEW t \in Tickers, Bump(t) PROVE AllTold'
  <2>1. PICK j : j = Min(Tried(t))
    OBVIOUS
  <2>2. /\ Hears({j}) /\ tick'[t].pc = tick[t].pc /\ tick'[t].silent = tick[t].silent \ {j}
        /\ \A u \in Tickers : u # t => tick'[u] = tick[u]
    BY <1>8, <2>1, BumpTick
  <2>3. \A u \in Tickers, k \in Keys \ {j} : Pending(u, k) => Pending(u, k)'
    BY <2>2, TriedPending
  <2> QED BY <1>8, <2>2, <2>3, HearsTold DEF Bump, redis
<1>9. ASSUME NEW t \in Tickers, Alert(t) PROVE AllTold'
  <2>1. PICK j : j = Min(Tried(t))
    OBVIOUS
  <2>2. /\ Hears({j}) /\ tick'[t].silent = tick[t].silent \ {j}
        /\ \A u \in Tickers : tick'[u].pc = tick[u].pc
        /\ \A u \in Tickers : u # t => tick'[u].silent = tick[u].silent
    <3>1. AlertMove(t, j)
      BY <1>9, <2>1, AlertTick
    <3> QED BY <3>1 DEF AlertMove
  <2>3. \A u \in Tickers, k \in Keys \ {j} : Pending(u, k) => Pending(u, k)'
    BY <2>2, TriedPending
  <2> QED BY <1>9, <2>2, <2>3, HearsTold DEF Alert
<1>10. ASSUME NEW t \in Tickers, RecordLost(t) PROVE AllTold'
  <2>1. PICK j : j = Min(Tried(t))
    OBVIOUS
  <2>2. Hears({j}) /\ tick'[t] = [tick[t] EXCEPT !.silent = @ \ {j}]
        /\ \A u \in Tickers : u # t => tick'[u] = tick[u]
    BY <1>10, <2>1, RecordLostTick
  <2>3. tick[t] \in TickRecord
    BY DEF Types, TickTypes
  <2>4. tick'[t].pc = tick[t].pc /\ tick'[t].silent = tick[t].silent \ {j}
    BY <2>2, <2>3 DEF TickRecord
  <2>5. \A u \in Tickers, k \in Keys \ {j} : Pending(u, k) => Pending(u, k)'
    BY <2>2, <2>4, TriedPending
  <2> QED BY <1>10, <2>2, <2>5, HearsTold DEF RecordLost, redis
<1>11. ASSUME Flush \/ Stranger PROVE AllTold'
  <2>1. PICK written : Sighted(written)
    BY <1>11 DEF Flush, Stranger
  <2> QED BY <1>11, <2>1, SightedTold DEF Flush, Stranger
<1>12. ASSUME Wipe PROVE AllTold'
  <2>1. \A k \in Keys : seen'[k] = -1
    BY <1>12 DEF Wipe, Absent
  <2>2. \A k \in Keys : Tells(k)
    BY <2>1, SeenNumbers DEF Tells
  <2> QED BY <2>2, StillTold
<1>13. UNCHANGED vars \/ Collect \/ SaveState \/ Count \/ CollectFails \/ FlushLost
       \/ (\E k \in Keys : Happen(k) \/ AnalystCloses(k))
       => UNCHANGED <<seen, lock, heard, starved, tick>>
  BY DEF vars, Collect, SaveState, Count, CollectFails, FlushLost, Happen, AnalystCloses,
     redis, silence
<1>14. UNCHANGED <<seen, lock, heard, starved, tick>> => AllTold'
  BY QuietTold DEF Pending
<1> QED BY <1>1, <1>2, <1>3, <1>4, <1>5, <1>6, <1>7, <1>8, <1>9, <1>10, <1>11, <1>12, <1>13,
           <1>14, BeginTold, PassTold, ReadTold
        DEF Next, Cycle, Fault, Tick

\* A key is dropped from the vigil only after its silence was alerted, or after a tick
\* that was held, failed or came to it with the budget spent while it lasted, however
\* cycles, faults and overlapping ticks cross, and whatever the other rules leave of
\* the budget (evaluate_absence_rule).
THEOREM NoKeyForgottenUnheard == Spec => ForgottenWasAlerted
<1> DEFINE I == Types /\ HeardInv
<1>1. Init => I
  <2> SUFFICES ASSUME Init PROVE I
    OBVIOUS
  <2>1. \A k \in Keys : seen[k] = -1
    BY DEF Init, Absent
  <2>2. HeardInv
    BY <2>1, SeenNumbers, TypesInit DEF HeardInv, AllTold, Fresh
  <2> QED BY <2>2, TypesInit
<1>2. I /\ [Next]_vars => I'
  BY TypesStep, HeardStep
<1>3. I => \A t \in Tickers : Read(t) /\ Candidates => tick'[t].forget \subseteq heard \cup starved
  <2> SUFFICES ASSUME I, NEW t \in Tickers, Read(t), Candidates, NEW k \in tick'[t].forget
               PROVE  k \in heard \cup starved
    OBVIOUS
  <2>1. k \in Keys /\ seen[k] > Forget
    BY ReadDecides DEF ToForget
  <2>2. ~Fresh(k)
    BY <2>1, SeenNumbers DEF Fresh
  <2> QED BY <2>1, <2>2 DEF HeardInv, AllTold, Accounted
<1> QED BY <1>1, <1>2, <1>3, PTL DEF Spec, ForgottenWasAlerted

-----------------------------------------------------------------------------
(* An open Detection is marked.                                            *)

\* Without faults there is one tick at a time, the one the lock was taken for.
OneAtATime == /\ \A t, u \in Tickers : Running(t) /\ Running(u) => t = u
              /\ \A t \in Tickers : Running(t) => lock

\* Where the mark of an open Detection is while a tick is at work: in the hash; or gone
\* from it, in the snapshot of the tick that is about to close the Detection; or among
\* the marks that the tick will set.
MarkedAt(t, k) ==
    /\ tick[t].pc \in {"read", "unwatch", "unmark"} => alerted[k] = Newest
    /\ tick[t].pc = "close" => /\ tick[t].marks[k] = Newest
                               /\ k \in tick[t].forget \/ alerted[k] = Newest
    /\ tick[t].pc = "unmark" => k \notin tick[t].back
    /\ tick[t].pc = "alert" => \/ tick[t].due[k] = Newest
                               \/ alerted[k] = Newest /\ tick[t].due[k] = Absent

\* The snapshot is the hash until this tick writes to it, and marks are due only
\* when it alerts.
Snapshot(t) == /\ tick[t].pc = "unwatch" => tick[t].marks = alerted
               /\ tick[t].pc \in {"unwatch", "close", "unmark"} => tick[t].due = NoMark

AllMarked ==
    /\ OneAtATime
    /\ (\A t \in Tickers : ~Running(t)) => \A k \in open : alerted[k] = Newest
    /\ \A t \in Tickers : Snapshot(t) /\ \A k \in open : MarkedAt(t, k)

MarksInv == faults = 0 => AllMarked

\* A step of the only tick there is.
LEMMA OnlyTick ==
    ASSUME AllMarked, NEW t \in Tickers, Running(t), lock' = lock,
           \A u \in Tickers : u # t => tick'[u].pc = tick[u].pc,
           Running(t)' => Snapshot(t)' /\ \A k \in open' : MarkedAt(t, k)',
           ~Running(t)' => \A k \in open' : alerted'[k] = Newest
    PROVE  AllMarked'
<1>1. \A u \in Tickers : u # t => tick[u].pc = "idle" /\ tick'[u].pc = "idle"
  BY DEF AllMarked, OneAtATime, Running
<1>2. OneAtATime'
  BY <1>1 DEF AllMarked, OneAtATime, Running
<1>3. \A u \in Tickers : ~Running(u)' => Snapshot(u)' /\ \A k \in open' : MarkedAt(u, k)'
  BY DEF Running, Snapshot, MarkedAt
<1>4. \A u \in Tickers : Snapshot(u)' /\ \A k \in open' : MarkedAt(u, k)'
  BY <1>1, <1>3 DEF Running
<1> QED BY <1>1, <1>2, <1>4 DEF AllMarked, Running

LEMMA MarksStep ==
    ASSUME Types, MarksInv, [Next]_vars
    PROVE  MarksInv'
<1> SUFFICES ASSUME faults' = 0 PROVE AllMarked'
  BY DEF MarksInv
<1>1. faults \in Nat /\ ~Fails
  BY AbsenceAssumption DEF Types, WorldTypes, Fails
<1>2. faults' = faults => AllMarked
  BY DEF MarksInv
<1>3. ASSUME UNCHANGED <<alerted, open, tick, faults>>, lock' = lock \/ \A t \in Tickers : ~Running(t)
      PROVE  AllMarked'
  BY <1>2, <1>3 DEF AllMarked, OneAtATime, Running, Snapshot, MarkedAt
<1>4. ASSUME NEW t \in Tickers, Begin(t) PROVE AllMarked'
  <2>1. AllMarked /\ ~lock /\ lock' = TRUE /\ UNCHANGED <<alerted, open>>
    BY <1>2, <1>4 DEF Begin, redis
  <2>2. \A u \in Tickers : tick[u].pc = "idle"
    BY <2>1 DEF AllMarked, OneAtATime, Running
  <2>3. tick'[t].pc = "read" /\ \A u \in Tickers : u # t => tick'[u] = tick[u]
    <3>1. tick' = [tick EXCEPT ![t].pc = "read"]
      BY <1>4 DEF Begin
    <3> QED BY <3>1, NextPhase DEF Types, Phases
  <2>4. \A k \in open : alerted[k] = Newest
    BY <2>1, <2>2 DEF AllMarked, Running
  <2> QED BY <2>1, <2>2, <2>3, <2>4 DEF AllMarked, OneAtATime, Running, Snapshot, MarkedAt
<1>5. ASSUME NEW t \in Tickers, Read(t) PROVE AllMarked'
  <2>1. AllMarked /\ lock' = lock /\ tick[t].pc = "read" /\ UNCHANGED <<alerted, open>>
    BY <1>2, <1>5 DEF Read, redis
  <2>2. \A k \in open : alerted[k] = Newest /\ k \in Keys
    BY <2>1 DEF AllMarked, MarkedAt, Types, WorldTypes
  <2>3. /\ tick'[t].due = NoMark /\ tick'[t].marks = alerted
        /\ tick'[t].pc \in {"unwatch", "close", "alert"}
        /\ \A u \in Tickers : u # t => tick'[u] = tick[u]
    <3>1. \A d : From("unwatch", d) \in {"unwatch", "close", "alert"}
      BY DEF From
    <3> QED BY <1>5, <3>1, ReadDecides
  <2>4. Snapshot(t)' /\ \A k \in open' : MarkedAt(t, k)'
    BY <2>1, <2>2, <2>3 DEF Snapshot, MarkedAt, NoMark
  <2> QED BY <2>1, <2>3, <2>4, OnlyTick DEF Running
<1>6. ASSUME NEW t \in Tickers, Held(t) PROVE AllMarked'
  <2>1. AllMarked /\ lock' = lock /\ tick[t].pc = "read" /\ UNCHANGED <<alerted, open>>
    BY <1>2, <1>6 DEF Held, redis
  <2>2. tick'[t].pc = "idle" /\ \A u \in Tickers : u # t => tick'[u] = tick[u]
    <3>1. tick'[t] = IdleTick /\ \A u \in Tickers : u # t => tick'[u] = tick[u]
      BY <1>6, TickEnds DEF Held, Types
    <3> QED BY <3>1 DEF IdleTick
  <2>3. \A k \in open : alerted[k] = Newest
    BY <2>1 DEF AllMarked, MarkedAt
  <2> QED BY <2>1, <2>2, <2>3, OnlyTick DEF Running
<1>7. ASSUME NEW t \in Tickers, NEW p \in Phases, tick' = [tick EXCEPT ![t].pc = p]
      PROVE  /\ tick'[t].pc = p /\ tick'[t].forget = tick[t].forget /\ tick'[t].back = tick[t].back
             /\ tick'[t].marks = tick[t].marks /\ tick'[t].due = tick[t].due
             /\ \A u \in Tickers : u # t => tick'[u] = tick[u]
  <2>1. tick'[t] = [tick[t] EXCEPT !.pc = p] /\ \A u \in Tickers : u # t => tick'[u] = tick[u]
    BY <1>7, NextPhase DEF Types
  <2>2. tick[t] \in TickRecord
    BY DEF Types, TickTypes
  <2> QED BY <2>1, <2>2 DEF TickRecord
<1>8. ASSUME NEW t \in Tickers, Unwatch(t) PROVE AllMarked'
  <2>1. AllMarked /\ lock' = lock /\ tick[t].pc = "unwatch" /\ open' = open
    BY <1>2, <1>8 DEF Unwatch
  <2>2. /\ tick'[t].pc = "close" /\ tick'[t].forget = tick[t].forget
        /\ tick'[t].marks = tick[t].marks /\ tick'[t].due = tick[t].due
        /\ \A u \in Tickers : u # t => tick'[u] = tick[u]
    BY <1>7, <1>8 DEF Unwatch, Phases
  <2>3. tick[t].marks = alerted /\ tick[t].due = NoMark
        /\ \A k \in open : alerted[k] = Newest /\ k \in Keys
    BY <2>1 DEF AllMarked, Snapshot, MarkedAt, Types, WorldTypes
  <2>4. \A k \in Keys : k \in tick[t].forget \/ alerted'[k] = alerted[k]
    BY <1>8 DEF Unwatch
  <2>5. Snapshot(t)' /\ \A k \in open' : MarkedAt(t, k)'
    BY <2>1, <2>2, <2>3, <2>4 DEF Snapshot, MarkedAt
  <2> QED BY <2>1, <2>2, <2>5, OnlyTick DEF Running
<1>9. ASSUME NEW t \in Tickers, Close(t) PROVE AllMarked'
  <2>1. AllMarked /\ lock' = lock /\ tick[t].pc = "close" /\ open' = open \ Closing(t)
        /\ alerted' = alerted
    BY <1>2, <1>9 DEF Close, redis
  <2>2. /\ tick'[t].pc \in {"unmark", "alert"} /\ tick'[t].back = tick[t].back
        /\ tick'[t].due = tick[t].due
        /\ \A u \in Tickers : u # t => tick'[u] = tick[u]
    <3>1. From("close", tick[t]) \in {"unmark", "alert"}
      BY DEF From
    <3> QED BY <1>7, <1>9, <3>1 DEF Close, Phases
  <2>3. tick[t].due = NoMark
        /\ \A k \in open' : /\ k \in Keys /\ alerted[k] = Newest /\ k \notin tick[t].back
    <3>1. \A k \in open : tick[t].marks[k] = Newest /\ k \in Keys
                          /\ (k \in tick[t].forget \/ alerted[k] = Newest)
      BY <2>1 DEF AllMarked, MarkedAt, Types, WorldTypes
    <3>2. \A k \in open' : k \in open /\ k \notin tick[t].forget \cup tick[t].back
      BY <2>1, <3>1 DEF Closing
    <3> QED BY <2>1, <3>1, <3>2 DEF AllMarked, Snapshot
  <2>4. Snapshot(t)' /\ \A k \in open' : MarkedAt(t, k)'
    BY <2>1, <2>2, <2>3 DEF Snapshot, MarkedAt, NoMark
  <2> QED BY <2>1, <2>2, <2>4, OnlyTick DEF Running
<1>10. ASSUME NEW t \in Tickers, Unmark(t) PROVE AllMarked'
  <2>1. AllMarked /\ lock' = lock /\ tick[t].pc = "unmark" /\ open' = open
    BY <1>2, <1>10 DEF Unmark
  <2>2. tick'[t].pc = "alert" /\ tick'[t].due = tick[t].due
        /\ \A u \in Tickers : u # t => tick'[u] = tick[u]
    BY <1>7, <1>10 DEF Unmark, Phases
  <2>3. tick[t].due = NoMark /\ \A k \in open : k \in Keys /\ alerted[k] = Newest /\ k \notin tick[t].back
    BY <2>1 DEF AllMarked, Snapshot, MarkedAt, Types, WorldTypes
  <2>4. \A k \in Keys : k \in tick[t].back \/ alerted'[k] = alerted[k]
    BY <1>10 DEF Unmark
  <2>5. Snapshot(t)' /\ \A k \in open' : MarkedAt(t, k)'
    BY <2>1, <2>2, <2>3, <2>4 DEF Snapshot, MarkedAt, NoMark
  <2> QED BY <2>1, <2>2, <2>5, OnlyTick DEF Running
<1>11. ASSUME NEW t \in Tickers, Bump(t) PROVE AllMarked'
  <2>1. AllMarked /\ lock' = lock /\ tick[t].pc = "alert" /\ UNCHANGED <<alerted, open>>
    BY <1>2, <1>11 DEF Bump, redis
  <2>2. PICK j : j = Min(Tried(t))
    OBVIOUS
  <2>3. /\ j \in Keys /\ tick'[t].pc = tick[t].pc
        /\ tick'[t].due = [tick[t].due EXCEPT ![j] = IF tick[t].marks[j] = Absent THEN Newest ELSE @]
        /\ \A u \in Tickers : u # t => tick'[u] = tick[u]
    BY <1>11, <2>2, BumpTick
  <2>4. tick[t].due \in [Keys -> Marks] /\ open \subseteq Keys
    BY DEF Types, WorldTypes, TickTypes, TickRecord
  <2>5. \A k \in open' : tick'[t].due[k] \in {tick[t].due[k], Newest}
    BY <2>1, <2>3, <2>4
  <2>6. Snapshot(t)' /\ \A k \in open' : MarkedAt(t, k)'
    BY <2>1, <2>3, <2>5 DEF AllMarked, Snapshot, MarkedAt
  <2> QED BY <2>1, <2>3, <2>6, OnlyTick DEF Running
<1>12. ASSUME NEW t \in Tickers, Alert(t) PROVE AllMarked'
  <2>1. AllMarked /\ lock' = lock /\ tick[t].pc = "alert"
    BY <1>2, <1>12 DEF Alert
  <2>2. PICK j : j = Min(Tried(t))
    OBVIOUS
  <2>3. /\ j \in Keys /\ j \notin open /\ open' = open \cup {j} /\ alerted' = Superseded(alerted, j)
        /\ tick'[t].due = [tick[t].due EXCEPT ![j] = Newest]
        /\ \A u \in Tickers : tick'[u].pc = tick[u].pc
    <3>1. AlertMove(t, j)
      BY <1>12, <2>2, AlertTick
    <3> QED BY <3>1 DEF AlertMove
  <2>4. tick[t].due \in [Keys -> Marks] /\ alerted \in [Keys -> Marks] /\ open \subseteq Keys
    BY DEF Types, WorldTypes, TickTypes, TickRecord
  <2>5. \A k \in open' : \/ tick'[t].due[k] = Newest
                         \/ k \in open /\ tick'[t].due[k] = tick[t].due[k] /\ alerted'[k] = alerted[k]
    BY <2>3, <2>4, SupersededMarks
  <2>6. Snapshot(t)' /\ \A k \in open' : MarkedAt(t, k)'
    BY <2>1, <2>3, <2>5 DEF AllMarked, Snapshot, MarkedAt
  <2> QED BY <2>1, <2>3, <2>6, OnlyTick DEF Running
<1>13. ASSUME NEW t \in Tickers, Mark(t) PROVE AllMarked'
  <2>1. AllMarked /\ lock' = lock /\ tick[t].pc = "alert" /\ open' = open
    BY <1>2, <1>13 DEF Mark
  <2>2. tick'[t].pc = "idle" /\ \A u \in Tickers : u # t => tick'[u] = tick[u]
    <3>1. tick'[t] = IdleTick /\ \A u \in Tickers : u # t => tick'[u] = tick[u]
      BY <1>13, TickEnds DEF Mark, Types
    <3> QED BY <3>1 DEF IdleTick
  <2>3. \A k \in open : k \in Keys /\ (tick[t].due[k] = Newest
                                       \/ (alerted[k] = Newest /\ tick[t].due[k] = Absent))
    BY <2>1 DEF AllMarked, MarkedAt, Types, WorldTypes
  <2>4. \A k \in open' : alerted'[k] = Newest
    BY <1>13, <2>1, <2>3 DEF Mark, Newest, Absent
  <2> QED BY <2>1, <2>2, <2>4, OnlyTick DEF Running
<1>14. ASSUME NEW j \in Keys, AnalystCloses(j) PROVE AllMarked'
  <2>1. AllMarked /\ UNCHANGED <<alerted, lock, tick>> /\ open' \subseteq open
    BY <1>2, <1>14 DEF AnalystCloses, redis
  <2> QED BY <2>1 DEF AllMarked, OneAtATime, Running, Snapshot, MarkedAt
<1>15. Pass \/ Collect => UNCHANGED <<alerted, open, tick, faults>>
                          /\ (lock' = lock \/ \A t \in Tickers : ~Running(t))
  BY <1>1 DEF Pass, Collect, redis
<1>16. UNCHANGED vars \/ SaveState \/ Count \/ Flush \/ Stranger \/ (\E k \in Keys : Happen(k))
       => UNCHANGED <<alerted, open, tick, faults, lock>>
  BY DEF vars, SaveState, Count, Flush, Stranger, Happen, redis
<1>17. Fault => Fails
  BY DEF Fault, CollectFails, FlushLost, NoTick, Wipe, BeginUnlocked, TickDies, WriteLost,
     CloseLost, RecordLost
<1> QED BY <1>1, <1>3, <1>4, <1>5, <1>6, <1>8, <1>9, <1>10, <1>11, <1>12, <1>13, <1>14, <1>15,
           <1>16, <1>17
        DEF Next, Cycle, Tick

\* As long as no write failed, between two ticks the mark of a key with an open
\* Detection names that Detection, so its return closes it, whatever the analysts
\* close meanwhile (the order of HDEL, close and HSET in evaluate_absence_rule).
THEOREM OpenAlwaysMarked == Spec => []OpenIsMarked
<1>1. Init => MarksInv
  BY DEF Init, MarksInv, AllMarked, OneAtATime, Running, Snapshot, MarkedAt, IdleTick
<1>2. Types /\ MarksInv /\ [Next]_vars => (Types /\ MarksInv)'
  BY TypesStep, MarksStep
<1>3. MarksInv => OpenIsMarked
  BY DEF MarksInv, AllMarked, OpenIsMarked
<1> QED BY TypesInit, <1>1, <1>2, <1>3, PTL DEF Spec

=============================================================================
