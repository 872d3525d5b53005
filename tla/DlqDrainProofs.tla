--------------------------- MODULE DlqDrainProofs ---------------------------
(***************************************************************************)
(* Theorems about DlqDrain, for every number of drains, table, lot size    *)
(* and ceiling: a row leaves the table only by a cause the module names,   *)
(* and a drain that runs alone never loses one to another's stamp.         *)
(***************************************************************************)
EXTENDS DlqDrain, TLAPS

\* What the upsert of delivery.py makes of the table.
LEMMA UpsertFacts ==
    ASSUME TypeOK, NEW es \in SUBSET Events, Upsert(es)
    PROVE  /\ rows' \in SUBSET Row
           /\ \A r, s \in rows' : r.event = s.event => r = s
           /\ gen' \in [Events -> 0..MaxGen]
           /\ \A e \in Events : gen[e] <= gen'[e]
           /\ \A r \in rows : \E s \in rows' : KeyOf(s) = KeyOf(r)
           /\ \A s \in rows' :
                \/ s \in rows
                \/ s.kind = "error" /\ \E r \in rows : KeyOf(r) = KeyOf(s)
                \/ s.kind = "error" /\ s.gen = gen[s.event] + 1 /\ gen'[s.event] = s.gen
           /\ \A s \in rows' : s.event \in es => s.kind = "error"
           /\ \A e \in es : \E s \in rows' : s.event = e
           /\ \A e \in Events : HasRow(e) => gen'[e] = gen[e]
           /\ \A e \in Events : gen'[e] # gen[e] => \E s \in rows' : s.event = e
<1> USE DrainAssumption DEF TypeOK
<1> DEFINE fresh == {e \in es : ~HasRow(e)}
           Made(e) == [event |-> e, gen |-> gen[e] + 1, kind |-> "error"]
           Redo(r) == IF r.event \in es THEN [r EXCEPT !.kind = "error"] ELSE r
<1>1. rows' = {Redo(r) : r \in rows} \cup {Made(e) : e \in fresh}
  BY DEF Upsert
<1>2. \A r \in rows : /\ Redo(r) \in Row /\ KeyOf(Redo(r)) = KeyOf(r)
                      /\ Redo(r).event = r.event /\ Redo(r).gen = r.gen
                      /\ (Redo(r) = r \/ Redo(r).kind = "error")
                      /\ (r.event \in es => Redo(r).kind = "error")
  BY DEF Row, KeyOf, Kinds
<1>3. \A e \in fresh : /\ Made(e) \in Row /\ Made(e).event = e /\ Made(e).kind = "error"
                       /\ Made(e).gen = gen[e] + 1
  BY DEF Upsert, Row, Kinds
<1>4. gen' \in [Events -> 0..MaxGen] /\ \A e \in Events : gen[e] <= gen'[e]
  BY DEF Upsert
<1>5. \A e \in fresh : gen'[e] = gen[e] + 1
  BY DEF Upsert
<1>6. \A r \in rows : r.event \notin fresh
  BY DEF HasRow
<1> HIDE DEF Made, Redo
<1>7. rows' \in SUBSET Row
  BY <1>1, <1>2, <1>3
<1>8. \A r, s \in rows' : r.event = s.event => r = s
  <2> SUFFICES ASSUME NEW r \in rows', NEW s \in rows', r.event = s.event PROVE r = s
    OBVIOUS
  <2>1. CASE \E x \in rows, y \in rows : r = Redo(x) /\ s = Redo(y)
    BY <2>1, <1>2
  <2>2. CASE \E x \in fresh, y \in fresh : r = Made(x) /\ s = Made(y)
    BY <2>2, <1>3
  <2>3. ASSUME NEW x \in rows, NEW y \in fresh PROVE Redo(x).event # Made(y).event
    BY <1>2, <1>3, <1>6
  <2> QED BY <1>1, <2>1, <2>2, <2>3
<1>9. \A r \in rows : \E s \in rows' : KeyOf(s) = KeyOf(r)
  BY <1>1, <1>2
<1>10. ASSUME NEW s \in rows'
       PROVE  /\ \/ s \in rows
                 \/ s.kind = "error" /\ \E r \in rows : KeyOf(r) = KeyOf(s)
                 \/ s.kind = "error" /\ s.gen = gen[s.event] + 1 /\ gen'[s.event] = s.gen
              /\ s.event \in es => s.kind = "error"
  <2>1. CASE \E r \in rows : s = Redo(r)
    BY <2>1, <1>2
  <2>2. CASE \E e \in fresh : s = Made(e)
    BY <2>2, <1>3, <1>5
  <2> QED BY <1>1, <2>1, <2>2
<1>11. ASSUME NEW e \in es PROVE \E s \in rows' : s.event = e
  <2>1. CASE e \in fresh
    BY <2>1, <1>1, <1>3
  <2>2. CASE HasRow(e)
    BY <2>2, <1>1, <1>2 DEF HasRow
  <2> QED BY <2>1, <2>2
<1>12. ASSUME NEW e \in Events
       PROVE  /\ HasRow(e) => gen'[e] = gen[e]
              /\ gen'[e] # gen[e] => e \in es
  BY DEF Upsert
<1> QED BY <1>4, <1>7, <1>8, <1>9, <1>10, <1>11, <1>12

\* What meeting a fate makes of the history: while an event keeps its row, a fate
\* is never taken back.
LEMMA MeetFacts ==
    ASSUME TypeOK, NEW es, NEW what \in Fates, what # "none" \/ es = {}, Meet(es, what)
    PROVE  /\ fate' \in [Events -> Fates]
           /\ \A e \in Events : gen'[e] = gen[e] /\ fate[e] # "none" => fate'[e] # "none"
           /\ \A e \in Events : gen'[e] = gen[e] /\ HasRow(e) /\ e \in es
                                    => fate'[e] # "none"
<1>1. "none" \in Fates /\ fate \in [Events -> Fates]
  BY DEF Fates, TypeOK
<1>2. fate' \in [Events -> Fates]
  BY <1>1 DEF Meet
<1>3. ASSUME NEW e \in Events, gen'[e] = gen[e]
      PROVE  fate'[e] = IF e \in es /\ HasRow(e) /\ fate[e] # "delivered"
                          THEN what ELSE fate[e]
  BY <1>3 DEF Meet
<1> QED BY <1>2, <1>3

\* The rows S, those also in T with kind k.
Relabel(S, T, k) == {IF r \in T THEN [r EXCEPT !.kind = k] ELSE r : r \in S}

\* The new table holds the rows S, those in T with kind k.
Relabelled(S, T, k) ==
    /\ rows' \in SUBSET Row
    /\ \A r, s \in rows' : r.event = s.event => r = s
    /\ \A r \in S : \E s \in rows' : KeyOf(s) = KeyOf(r)
    /\ \A s \in rows' : \E r \in S :
          KeyOf(r) = KeyOf(s) /\ (s.kind = r.kind \/ (s.kind = k /\ r \in T))

\* Changing the kind of some rows and dropping others keeps the keys apart.
LEMMA RelabelFacts ==
    ASSUME TypeOK, NEW S \in SUBSET rows, NEW T \in SUBSET rows, NEW k \in Kinds,
           rows' = Relabel(S, T, k)
    PROVE  Relabelled(S, T, k)
<1> DEFINE Redo(r) == IF r \in T THEN [r EXCEPT !.kind = k] ELSE r
<1>1. rows' = {Redo(r) : r \in S}
  BY DEF Relabel
<1>2. ASSUME NEW r \in S
      PROVE  /\ Redo(r) \in Row /\ KeyOf(Redo(r)) = KeyOf(r)
             /\ Redo(r).event = r.event
             /\ (Redo(r).kind = r.kind \/ (Redo(r).kind = k /\ r \in T))
  <2>1. r \in Row
    BY DEF TypeOK
  <2>2. CASE r \in T
    BY <2>1, <2>2 DEF Row, KeyOf
  <2>3. CASE r \notin T
    BY <2>1, <2>3
  <2> QED BY <2>2, <2>3
<1>3. \A r, s \in S : r.event = s.event => r = s
  BY DEF TypeOK
<1> HIDE DEF Redo
<1> QED BY <1>1, <1>2, <1>3 DEF Relabelled

\* Proceed keeps the types of the task variables.
LEMMA ProceedFacts ==
    ASSUME TypeOK, NEW d \in Drains, NEW keys \in SUBSET Key, NEW left \in SUBSET Events,
           Proceed(d, keys, left)
    PROVE  /\ pc' \in [Drains -> Phases]
           /\ want' \in [Drains -> SUBSET Events] /\ rest' \in [Drains -> SUBSET Events]
           /\ todo' \in [Drains -> SUBSET Key] /\ lot' \in [Drains -> SUBSET Key]
           /\ gone' \in [Drains -> SUBSET Key]
           /\ todo' = [todo EXCEPT ![d] = keys]
           /\ lot' = [lot EXCEPT ![d] = {}] /\ gone' = [gone EXCEPT ![d] = {}]
           /\ pc'[d] \notin {"read", "delete"}
           /\ \A c \in Drains \ {d} : pc'[c] = pc[c]
<1>1. /\ rest' \in [Drains -> SUBSET Events] /\ todo' \in [Drains -> SUBSET Key]
      /\ lot' \in [Drains -> SUBSET Key] /\ gone' \in [Drains -> SUBSET Key]
      /\ todo' = [todo EXCEPT ![d] = keys]
      /\ lot' = [lot EXCEPT ![d] = {}] /\ gone' = [gone EXCEPT ![d] = {}]
  BY DEF Proceed, TypeOK
<1>2. want' \in [Drains -> SUBSET Events]
  BY DEF Proceed, TypeOK
<1>3. \E phase \in {"stamp", "queued", "off"} : pc' = [pc EXCEPT ![d] = phase]
  BY DEF Proceed, Goto
<1>4. /\ pc' \in [Drains -> Phases] /\ pc'[d] \notin {"read", "delete"}
      /\ \A c \in Drains \ {d} : pc'[c] = pc[c]
  BY <1>3 DEF TypeOK, Phases
<1> QED BY <1>1, <1>2, <1>4

\* The events of keys, and the keys of rows, are what they should be.
LEMMA KeyFacts ==
    /\ \A keys \in SUBSET Key : EventsOf(keys) \in SUBSET Events
    /\ \A r \in Row : KeyOf(r) \in Key
    /\ \A keys \in SUBSET Key : \A r \in Row :
          KeyOf(r) \in keys => r.event \in EventsOf(keys)
    /\ \A r, s \in Row : KeyOf(r) = KeyOf(s) => r.event = s.event /\ r.gen = s.gen
<1>1. \A keys \in SUBSET Key : EventsOf(keys) \in SUBSET Events
  BY DEF EventsOf, Key
<1>2. \A r \in Row : KeyOf(r) \in Key
  BY DEF Row, KeyOf, Key
<1>3. \A r \in Row : KeyOf(r)[1] = r.event /\ KeyOf(r)[2] = r.gen
  BY DEF KeyOf
<1>4. \A keys : \A k \in keys : k[1] \in EventsOf(keys)
  BY DEF EventsOf
<1> QED BY <1>1, <1>2, <1>3, <1>4

\* What listing the candidates makes of the table and of the task.
LEMMA ListFacts ==
    ASSUME TypeOK, NEW d \in Drains, List(d)
    PROVE  /\ rows' \in SUBSET Row
           /\ \A r, s \in rows' : r.event = s.event => r = s
           /\ \A r \in rows : r.event \notin Blank => \E s \in rows' : KeyOf(s) = KeyOf(r)
           /\ \A s \in rows' : \E r \in rows :
                 KeyOf(r) = KeyOf(s) /\ (s.kind = r.kind \/ s.kind = "error")
           /\ pc' \in [Drains -> Phases]
           /\ want' \in [Drains -> SUBSET Events] /\ rest' \in [Drains -> SUBSET Events]
           /\ todo' \in [Drains -> SUBSET Key] /\ lot' \in [Drains -> SUBSET Key]
           /\ gone' \in [Drains -> SUBSET Key]
           /\ \A k \in todo'[d] : \E r \in rows : k = KeyOf(r)
           /\ \A c \in Drains \ {d} : todo'[c] = todo[c] /\ pc'[c] = pc[c]
           /\ lot' = [lot EXCEPT ![d] = {}] /\ gone' = [gone EXCEPT ![d] = {}]
           /\ pc'[d] \notin {"read", "delete"}
           /\ UNCHANGED <<gen, fate, tried, faults>>
<1> DEFINE listed == {r \in rows : r.event \in want[d]}
<1>1. PICK taken \in SUBSET listed :
        /\ rows' = {IF r \in taken /\ r.event \in Garbled
                      THEN [r EXCEPT !.kind = "error"] ELSE r :
                    r \in {r \in rows : ~(r \in taken /\ r.event \in Blank)}}
        /\ Proceed(d, {KeyOf(r) : r \in {r \in taken : r.event \notin Blank \cup Garbled}},
                   {r.event : r \in listed \ taken})
        /\ UNCHANGED <<gen, fate, tried, faults>>
  BY DEF List
<1> DEFINE S == {r \in rows : ~(r \in taken /\ r.event \in Blank)}
           T == {r \in taken : r.event \in Garbled}
           keys == {KeyOf(r) : r \in {r \in taken : r.event \notin Blank \cup Garbled}}
           left == {r.event : r \in listed \ taken}
<1>2. rows' = Relabel(S, T, "error")
  BY <1>1 DEF Relabel
<1>3. S \in SUBSET rows /\ T \in SUBSET rows /\ "error" \in Kinds
  BY DEF Kinds
<1>4. \A r \in rows : r.event \notin Blank => r \in S
  OBVIOUS
<1>5. keys \in SUBSET Key /\ left \in SUBSET Events
  BY KeyFacts DEF TypeOK, Row
<1>6. \A k \in keys : \E r \in rows : k = KeyOf(r)
  OBVIOUS
<1>7. Proceed(d, keys, left)
  BY <1>1
<1> HIDE DEF S, T, keys, left, listed
<1>8. Relabelled(S, T, "error")
  BY <1>2, <1>3, RelabelFacts
<1>9. /\ pc' \in [Drains -> Phases] /\ pc'[d] \notin {"read", "delete"}
      /\ want' \in [Drains -> SUBSET Events] /\ rest' \in [Drains -> SUBSET Events]
      /\ todo' \in [Drains -> SUBSET Key] /\ lot' \in [Drains -> SUBSET Key]
      /\ gone' \in [Drains -> SUBSET Key]
      /\ todo' = [todo EXCEPT ![d] = keys]
      /\ lot' = [lot EXCEPT ![d] = {}] /\ gone' = [gone EXCEPT ![d] = {}]
      /\ \A c \in Drains \ {d} : pc'[c] = pc[c]
  BY <1>5, <1>7, ProceedFacts
<1>10. /\ \A k \in todo'[d] : \E r \in rows : k = KeyOf(r)
       /\ \A c \in Drains \ {d} : todo'[c] = todo[c]
  BY <1>6, <1>9 DEF TypeOK
<1>11. /\ \A r \in rows : r.event \notin Blank => \E s \in rows' : KeyOf(s) = KeyOf(r)
       /\ \A s \in rows' : \E r \in rows :
             KeyOf(r) = KeyOf(s) /\ (s.kind = r.kind \/ s.kind = "error")
  BY <1>3, <1>4, <1>8 DEF Relabelled
<1>12. rows' \in SUBSET Row /\ \A r, s \in rows' : r.event = s.event => r = s
  BY <1>8 DEF Relabelled
<1> QED BY <1>1, <1>9, <1>10, <1>11, <1>12

\* What stamping a lot makes of the table and of the task.
LEMMA StampFacts ==
    ASSUME TypeOK, NEW d \in Drains, Stamp(d)
    PROVE  /\ rows' \in SUBSET Row
           /\ \A r, s \in rows' : r.event = s.event => r = s
           /\ \A r \in rows : \E s \in rows' : KeyOf(s) = KeyOf(r)
           /\ \A s \in rows' : \E r \in rows :
                 KeyOf(r) = KeyOf(s) /\ (s.kind = r.kind \/ KeyOf(s) \in lot'[d])
           /\ pc' \in [Drains -> Phases] /\ pc'[d] = "send"
           /\ todo' \in [Drains -> SUBSET Key] /\ lot' \in [Drains -> SUBSET Key]
           /\ todo'[d] \subseteq todo[d] /\ lot'[d] \subseteq todo[d]
           /\ \A c \in Drains \ {d} :
                 todo'[c] = todo[c] /\ lot'[c] = lot[c] /\ pc'[c] = pc[c]
           /\ UNCHANGED <<gen, tried, faults, want, rest, gone>>
           /\ Meet(EventsOf(lot'[d] \cap Unread(d)), "restamped")
<1>1. PICK keys \in SUBSET todo[d] :
        /\ lot' = [lot EXCEPT ![d] = keys]
        /\ todo' = [todo EXCEPT ![d] = @ \ keys]
        /\ rows' = {IF KeyOf(r) \in keys THEN [r EXCEPT !.kind = "reprocessing"] ELSE r :
                    r \in rows}
        /\ Goto(d, "send")
        /\ UNCHANGED <<gen, tried, faults, want, rest, gone>>
        /\ Meet(EventsOf(keys \cap Unread(d)), "restamped")
  BY DEF Stamp
<1> DEFINE T == {r \in rows : KeyOf(r) \in keys}
<1>2. rows' = Relabel(rows, T, "reprocessing")
  BY <1>1 DEF Relabel
<1>3. T \in SUBSET rows /\ "reprocessing" \in Kinds
  BY DEF Kinds
<1> HIDE DEF T
<1>4. Relabelled(rows, T, "reprocessing")
  BY <1>2, <1>3, RelabelFacts
<1>5. lot'[d] = keys /\ \A r \in T : KeyOf(r) \in keys
  BY <1>1 DEF T, TypeOK
<1>6. \A s \in rows' : \E r \in rows :
         KeyOf(r) = KeyOf(s) /\ (s.kind = r.kind \/ KeyOf(s) \in lot'[d])
  BY <1>4, <1>5 DEF Relabelled
<1>7. /\ rows' \in SUBSET Row /\ \A r, s \in rows' : r.event = s.event => r = s
      /\ \A r \in rows : \E s \in rows' : KeyOf(s) = KeyOf(r)
  BY <1>4 DEF Relabelled
<1> QED BY <1>1, <1>5, <1>6, <1>7 DEF Goto, Phases, TypeOK

\* Every step keeps the types, and the unique constraint of the table.
LEMMA TypeStep ==
    ASSUME TypeOK, [Next]_vars
    PROVE  TypeOK'
<1> USE DrainAssumption
<1>0. {"none", "delivered", "unsent", "restamped", "purged"} \subseteq Fates
  BY DEF Fates
<1>1. ASSUME NEW e \in Events, LiveDeadLetter(e) PROVE TypeOK'
  <2>1. /\ rows' \in SUBSET Row /\ gen' \in [Events -> 0..MaxGen]
        /\ \A r, s \in rows' : r.event = s.event => r = s
    BY <1>1, UpsertFacts DEF LiveDeadLetter
  <2>2. fate' \in [Events -> Fates]
    BY <1>0, <1>1, MeetFacts DEF LiveDeadLetter
  <2> QED BY <1>1, <2>1, <2>2 DEF LiveDeadLetter, TypeOK, task
<1>2. ASSUME NEW d \in Drains, Request(d) PROVE TypeOK'
  BY <1>2 DEF Request, Goto, Phases, TypeOK, table
<1>3. ASSUME NEW d \in Drains, List(d) PROVE TypeOK'
  BY <1>3, ListFacts DEF TypeOK
<1>4. ASSUME NEW d \in Drains, Stamp(d) PROVE TypeOK'
  <2>1. fate' \in [Events -> Fates]
    BY <1>0, <1>4, StampFacts, MeetFacts
  <2> QED BY <1>4, <2>1, StampFacts DEF TypeOK
<1>5. ASSUME NEW d \in Drains, SendReturns(d) PROVE TypeOK'
  <2>0. EventsOf(lot[d]) \in SUBSET Events
    BY KeyFacts DEF TypeOK
  <2>1. PICK ok \in SUBSET EventsOf(lot[d]) :
          /\ Meet(ok, "delivered") /\ tried' = tried \cup EventsOf(lot[d])
          /\ Upsert(EventsOf(lot[d]) \ ok)
    BY <1>5 DEF SendReturns
  <2>2. /\ rows' \in SUBSET Row /\ gen' \in [Events -> 0..MaxGen]
        /\ \A r, s \in rows' : r.event = s.event => r = s
    BY <2>0, <2>1, UpsertFacts
  <2>3. fate' \in [Events -> Fates]
    BY <1>0, <2>1, MeetFacts
  <2> QED BY <1>5, <2>0, <2>1, <2>2, <2>3 DEF SendReturns, Goto, Phases, TypeOK, task
<1>6. ASSUME NEW d \in Drains, SendSkipped(d) PROVE TypeOK'
  <2>1. fate' \in [Events -> Fates]
    BY <1>0, <1>6, MeetFacts DEF SendSkipped
  <2>2. EventsOf(lot[d]) \in SUBSET Events
    BY KeyFacts DEF TypeOK
  <2> QED BY <1>6, <2>1, <2>2 DEF SendSkipped, Goto, Phases, TypeOK, task
<1>7. ASSUME NEW d \in Drains, SendRefused(d) PROVE TypeOK'
  <2>0. EventsOf(lot[d]) \in SUBSET Events /\ Remainder(d) \in SUBSET Events
    BY KeyFacts DEF TypeOK, Remainder
  <2>1. /\ rows' \in SUBSET Row /\ gen' \in [Events -> 0..MaxGen]
        /\ \A r, s \in rows' : r.event = s.event => r = s
    BY <1>7, <2>0, UpsertFacts DEF SendRefused, TypeOK
  <2>2. fate' \in [Events -> Fates]
    BY <1>0, <1>7, MeetFacts DEF SendRefused
  <2>3. Proceed(d, {}, Remainder(d)) /\ {} \in SUBSET Key
    BY <1>7 DEF SendRefused
  <2>4. faults' \in 0..MaxFaults /\ UNCHANGED tried
    BY <1>7 DEF SendRefused, Fault, TypeOK
  <2> QED BY <2>0, <2>1, <2>2, <2>3, <2>4, ProceedFacts DEF TypeOK
<1>8. ASSUME NEW d \in Drains, SendFails(d) PROVE TypeOK'
  <2>0. EventsOf(lot[d]) \in SUBSET Events
    BY KeyFacts DEF TypeOK
  <2>1. /\ rows' \in SUBSET Row /\ gen' \in [Events -> 0..MaxGen]
        /\ \A r, s \in rows' : r.event = s.event => r = s
    BY <1>8, <2>0, UpsertFacts DEF SendFails, TypeOK
  <2>2. fate' \in [Events -> Fates]
    BY <1>0, <1>8, MeetFacts DEF SendFails
  <2>3. Proceed(d, todo[d], rest[d])
    BY <1>8 DEF SendFails
  <2>4. todo[d] \in SUBSET Key /\ rest[d] \in SUBSET Events
    BY DEF TypeOK
  <2>5. faults' \in 0..MaxFaults /\ tried' \in SUBSET Events
    BY <1>8, <2>0 DEF SendFails, Fault, TypeOK
  <2> QED BY <2>1, <2>2, <2>3, <2>4, <2>5, ProceedFacts DEF TypeOK
<1>9. ASSUME NEW d \in Drains, Read(d) PROVE TypeOK'
  BY <1>9 DEF Read, Goto, Phases, TypeOK, table
<1>10. ASSUME NEW d \in Drains, Delete(d) PROVE TypeOK'
  <2>1. todo[d] \in SUBSET Key /\ rest[d] \in SUBSET Events
    BY DEF TypeOK
  <2>2. /\ rows' \in SUBSET Row
        /\ \A r, s \in rows' : r.event = s.event => r = s
    BY <1>10 DEF Delete, TypeOK
  <2>3. Proceed(d, todo[d], rest[d]) /\ UNCHANGED <<gen, fate, tried, faults>>
    BY <1>10 DEF Delete
  <2> QED BY <2>1, <2>2, <2>3, ProceedFacts DEF TypeOK
<1>11. ASSUME NEW d \in Drains, Crash(d) PROVE TypeOK'
  BY <1>11 DEF Crash, Fault, Goto, Phases, TypeOK, table
<1>12. CASE Purge
  <2>1. fate' \in [Events -> Fates]
    BY <1>0, <1>12, MeetFacts DEF Purge
  <2>2. /\ rows' \in SUBSET Row
        /\ \A r, s \in rows' : r.event = s.event => r = s
    BY <1>12 DEF Purge, TypeOK
  <2> QED BY <1>12, <2>1, <2>2 DEF Purge, TypeOK, task
<1>13. CASE UNCHANGED vars
  BY <1>13 DEF vars, table, task, TypeOK
<1> QED BY <1>1, <1>2, <1>3, <1>4, <1>5, <1>6, <1>7, <1>8, <1>9, <1>10, <1>11, <1>12, <1>13
        DEF Next, Work

\* Rows that keep their keys keep their events in the table.
LEMMA KeptRows ==
    ASSUME TypeOK, TypeOK', NEW e \in Events, HasRow(e),
           \A r \in rows : r.event = e => \E s \in rows' : KeyOf(s) = KeyOf(r)
    PROVE  HasRow(e)'
<1>1. PICK r \in rows : r.event = e
  BY DEF HasRow
<1>2. PICK s \in rows' : KeyOf(s) = KeyOf(r)
  BY <1>1
<1>3. s.event = e
  BY <1>1, <1>2, KeyFacts DEF TypeOK
<1> QED BY <1>3 DEF HasRow

\* A step that ends a row only once the event met its fate, and takes no fate back
\* without a new row, loses nothing.
LEMMA RowGone ==
    ASSUME DrainInv, TypeOK',
           \A e \in Events \ Blank : HasRow(e) => HasRow(e)' \/ fate'[e] # "none",
           \A e \in Events : gen'[e] # gen[e] => HasRow(e)',
           \A e \in Events : gen'[e] = gen[e] /\ fate[e] # "none" => fate'[e] # "none"
    PROVE  NoRowLost'
<1> SUFFICES ASSUME NEW e \in Events \ Blank, gen'[e] > 0, ~HasRow(e)'
             PROVE  fate'[e] # "none"
  BY DEF NoRowLost, Rowless, HasRow
<1>1. gen'[e] = gen[e]
  OBVIOUS
<1>2. CASE HasRow(e)
  BY <1>2
<1>3. CASE ~HasRow(e)
  BY <1>1, <1>3 DEF DrainInv, NoRowLost, Rowless
<1> QED BY <1>2, <1>3

\* Given the invariant no step loses a row; only Delete needs its last part.
LEMMA RowStep ==
    ASSUME DrainInv, TypeOK', [Next]_vars
    PROVE  NoRowLost'
<1>0. {"none", "delivered", "unsent", "restamped", "purged"} \subseteq Fates
  BY DEF Fates
<1>1. ASSUME NEW es \in SUBSET Events, Upsert(es), NEW ok, NEW what \in Fates,
             what # "none" \/ ok = {}, Meet(ok, what)
      PROVE  NoRowLost'
  <2>1. /\ \A r \in rows : \E s \in rows' : KeyOf(s) = KeyOf(r)
        /\ \A e \in Events : gen'[e] # gen[e] => HasRow(e)'
    BY <1>1, UpsertFacts DEF DrainInv, HasRow
  <2>2. \A e \in Events : HasRow(e) => HasRow(e)'
    BY <2>1, KeptRows DEF DrainInv
  <2>3. \A e \in Events : gen'[e] = gen[e] /\ fate[e] # "none" => fate'[e] # "none"
    BY <1>1, MeetFacts DEF DrainInv
  <2> QED BY <2>1, <2>2, <2>3, RowGone
<1>2. ASSUME UNCHANGED gen, NEW ok, NEW what \in Fates, what # "none", Meet(ok, what),
             \A r \in rows : \E s \in rows' : KeyOf(s) = KeyOf(r)
      PROVE  NoRowLost'
  <2>1. \A e \in Events : HasRow(e) => HasRow(e)'
    BY <1>2, KeptRows DEF DrainInv
  <2>2. \A e \in Events : gen'[e] = gen[e] /\ fate[e] # "none" => fate'[e] # "none"
    BY <1>2, MeetFacts DEF DrainInv
  <2> QED BY <1>2, <2>1, <2>2, RowGone
<1>3. ASSUME NEW x \in Events, LiveDeadLetter(x) PROVE NoRowLost'
  BY <1>0, <1>1, <1>3 DEF LiveDeadLetter
<1>4. ASSUME NEW d \in Drains, List(d) PROVE NoRowLost'
  <2>1. /\ \A r \in rows : r.event \notin Blank => \E s \in rows' : KeyOf(s) = KeyOf(r)
        /\ UNCHANGED <<gen, fate>>
    BY <1>4, ListFacts DEF DrainInv
  <2>2. \A e \in Events \ Blank : HasRow(e) => HasRow(e)'
    BY <2>1, KeptRows DEF DrainInv
  <2> QED BY <2>1, <2>2, RowGone
<1>5. ASSUME NEW d \in Drains, Stamp(d) PROVE NoRowLost'
  <2>1. /\ \A r \in rows : \E s \in rows' : KeyOf(s) = KeyOf(r)
        /\ UNCHANGED gen
        /\ Meet(EventsOf(lot'[d] \cap Unread(d)), "restamped")
    BY <1>5, StampFacts DEF DrainInv
  <2> QED BY <1>0, <1>2, <2>1
<1>6. ASSUME NEW d \in Drains, SendReturns(d) \/ SendRefused(d) \/ SendFails(d)
      PROVE  NoRowLost'
  <2>1. EventsOf(lot[d]) \in SUBSET Events
    BY KeyFacts DEF TypeOK, DrainInv
  <2>2. PICK ok \in SUBSET EventsOf(lot[d]) :
          /\ Meet(ok, "delivered")
          /\ \/ Upsert(EventsOf(lot[d]) \ ok) \/ Upsert(EventsOf(lot[d]))
             \/ UNCHANGED <<rows, gen>>
    BY <1>6 DEF SendReturns, SendRefused, SendFails
  <2>3. EventsOf(lot[d]) \ ok \in SUBSET Events
    BY <2>1
  <2> QED BY <1>0, <1>1, <1>2, <2>1, <2>2, <2>3
<1>7. ASSUME NEW d \in Drains, SendSkipped(d) PROVE NoRowLost'
  BY <1>0, <1>2, <1>7 DEF SendSkipped
<1>8. ASSUME NEW d \in Drains, Delete(d) PROVE NoRowLost'
  <2>1. \A r \in rows : r \in rows' \/ fate[r.event] # "none"
    BY <1>8 DEF Delete, DrainInv, StampMeansFate, StampSpeaksFor
  <2>2. UNCHANGED <<gen, fate>>
    BY <1>8 DEF Delete
  <2>3. \A e \in Events : HasRow(e) => HasRow(e)' \/ fate'[e] # "none"
    BY <2>1, <2>2 DEF HasRow
  <2> QED BY <2>2, <2>3, RowGone
<1>9. CASE Purge
  <2>1. PICK old \in SUBSET rows :
          /\ rows' = rows \ old /\ UNCHANGED gen
          /\ Meet({r.event : r \in old}, "purged")
    BY <1>9 DEF Purge
  <2>2. \A e \in Events : fate[e] # "none" => fate'[e] # "none"
    BY <1>0, <2>1, MeetFacts DEF DrainInv
  <2>3. \A e \in Events : HasRow(e) /\ e \in {r.event : r \in old} => fate'[e] # "none"
    BY <1>0, <2>1, MeetFacts DEF DrainInv
  <2>4. \A e \in Events : HasRow(e) => HasRow(e)' \/ fate'[e] # "none"
    BY <2>1, <2>3 DEF HasRow
  <2> QED BY <2>1, <2>2, <2>4, RowGone
<1>10. CASE UNCHANGED <<rows, gen, fate>>
  BY <1>10 DEF DrainInv, NoRowLost, Rowless, HasRow
<1> QED BY <1>3, <1>4, <1>5, <1>6, <1>7, <1>8, <1>9, <1>10
        DEF Next, Work, Request, Read, Crash, vars, table

\* The keys in use have been given out before, after every step.
LEMMA IssuedStep ==
    ASSUME DrainInv, TypeOK', [Next]_vars
    PROVE  KeysIssued'
<1> USE DrainAssumption
<1>0. /\ \A r \in rows : KeyOf(r)[1] = r.event /\ KeyOf(r)[2] = r.gen
      /\ \A r \in rows' : KeyOf(r)[1] = r.event /\ KeyOf(r)[2] = r.gen
  BY DEF KeyOf
<1>1. ASSUME NEW es \in SUBSET Events, Upsert(es)
      PROVE  /\ \A r \in rows' : r.gen <= gen'[r.event]
             /\ \A e \in Events : gen[e] <= gen'[e]
  <2>1. /\ \A e \in Events : gen[e] <= gen'[e]
        /\ \A s \in rows' :
             \/ s \in rows
             \/ \E r \in rows : KeyOf(r) = KeyOf(s)
             \/ gen'[s.event] = s.gen
    BY <1>1, UpsertFacts DEF DrainInv
  <2>2. ASSUME NEW s \in rows' PROVE s.gen <= gen'[s.event]
    <3>1. s.gen \in Nat /\ s.event \in Events /\ gen[s.event] \in Nat /\ gen'[s.event] \in Nat
      BY DEF DrainInv, TypeOK, Row
    <3>2. (\E r \in rows : KeyOf(r) = KeyOf(s)) => s.gen <= gen[s.event]
      BY <1>0 DEF DrainInv, KeysIssued
    <3> QED BY <2>1, <3>1, <3>2 DEF DrainInv, KeysIssued
  <2> QED BY <2>1, <2>2
<1>2. ASSUME \A e \in Events : gen[e] <= gen'[e],
             \A r \in rows' : r.gen <= gen'[r.event],
             \A c \in Drains : todo'[c] \cup lot'[c] \cup gone'[c]
                                 \subseteq todo[c] \cup lot[c] \cup gone[c]
      PROVE  KeysIssued'
  <2>1. ASSUME NEW c \in Drains, NEW k \in todo'[c] \cup lot'[c] \cup gone'[c]
        PROVE  k[2] <= gen'[k[1]]
    <3>1. k \in todo[c] \cup lot[c] \cup gone[c]
      BY <1>2
    <3>2. k[1] \in Events /\ k[2] \in Nat
      BY <3>1 DEF DrainInv, TypeOK, Key
    <3>3. k[2] <= gen[k[1]]
      BY <3>1 DEF DrainInv, KeysIssued
    <3>4. gen[k[1]] \in Nat /\ gen'[k[1]] \in Nat /\ gen[k[1]] <= gen'[k[1]]
      BY <3>2, <1>2 DEF DrainInv, TypeOK
    <3> QED BY <3>2, <3>3, <3>4
  <2> QED BY <1>2, <2>1 DEF KeysIssued
<1>3. ASSUME UNCHANGED gen PROVE \A e \in Events : gen[e] <= gen'[e]
  BY <1>3 DEF DrainInv, TypeOK
<1>4. ASSUME UNCHANGED gen, \A s \in rows' : \E r \in rows : KeyOf(r) = KeyOf(s)
      PROVE  \A s \in rows' : s.gen <= gen'[s.event]
  BY <1>0, <1>4 DEF DrainInv, KeysIssued
<1>5. ASSUME NEW d \in Drains, NEW keys \in SUBSET Key, NEW left \in SUBSET Events,
             Proceed(d, keys, left), keys \subseteq todo[d]
      PROVE  \A c \in Drains : todo'[c] \cup lot'[c] \cup gone'[c]
                                 \subseteq todo[c] \cup lot[c] \cup gone[c]
  <2>1. /\ todo' = [todo EXCEPT ![d] = keys]
        /\ lot' = [lot EXCEPT ![d] = {}] /\ gone' = [gone EXCEPT ![d] = {}]
    BY <1>5, ProceedFacts DEF DrainInv
  <2> QED BY <1>5, <2>1 DEF DrainInv, TypeOK
<1>6. ASSUME NEW x \in Events, LiveDeadLetter(x) PROVE KeysIssued'
  BY <1>1, <1>2, <1>6 DEF LiveDeadLetter, task
<1>7. ASSUME NEW d \in Drains, List(d) PROVE KeysIssued'
  <2>1. /\ UNCHANGED gen /\ \A s \in rows' : \E r \in rows : KeyOf(r) = KeyOf(s)
        /\ \A k \in todo'[d] : \E r \in rows : k = KeyOf(r)
        /\ \A c \in Drains \ {d} : todo'[c] = todo[c]
        /\ lot' = [lot EXCEPT ![d] = {}] /\ gone' = [gone EXCEPT ![d] = {}]
    BY <1>7, ListFacts DEF DrainInv
  <2>2. \A k \in todo'[d] : k[2] <= gen'[k[1]]
    BY <1>0, <2>1 DEF DrainInv, KeysIssued
  <2>3. \A c \in Drains \ {d} : \A k \in todo'[c] \cup lot'[c] \cup gone'[c] : k[2] <= gen'[k[1]]
    BY <2>1 DEF DrainInv, KeysIssued, TypeOK
  <2>4. lot'[d] = {} /\ gone'[d] = {}
    BY <2>1 DEF DrainInv, TypeOK
  <2> QED BY <1>4, <2>1, <2>2, <2>3, <2>4 DEF KeysIssued
<1>8. ASSUME NEW d \in Drains, Stamp(d) PROVE KeysIssued'
  <2>1. /\ \A s \in rows' : \E r \in rows : KeyOf(r) = KeyOf(s)
        /\ todo'[d] \subseteq todo[d] /\ lot'[d] \subseteq todo[d]
        /\ \A c \in Drains \ {d} : todo'[c] = todo[c] /\ lot'[c] = lot[c]
        /\ UNCHANGED <<gen, gone>>
    BY <1>8, StampFacts DEF DrainInv
  <2> QED BY <1>2, <1>3, <1>4, <2>1
<1>9. ASSUME NEW d \in Drains, SendReturns(d) PROVE KeysIssued'
  <2>1. EventsOf(lot[d]) \in SUBSET Events
    BY KeyFacts DEF TypeOK, DrainInv
  <2> QED BY <1>1, <1>2, <1>9, <2>1 DEF SendReturns, task
<1>10. ASSUME NEW d \in Drains, SendRefused(d) \/ SendFails(d) PROVE KeysIssued'
  <2>1. /\ EventsOf(lot[d]) \in SUBSET Events /\ Remainder(d) \in SUBSET Events
        /\ todo[d] \in SUBSET Key /\ rest[d] \in SUBSET Events /\ {} \in SUBSET Key
    BY KeyFacts DEF TypeOK, DrainInv, Remainder
  <2>2. /\ \A r \in rows' : r.gen <= gen'[r.event]
        /\ \A e \in Events : gen[e] <= gen'[e]
    <3>1. CASE Upsert(EventsOf(lot[d]))
      BY <1>1, <2>1, <3>1
    <3>2. CASE UNCHANGED <<rows, gen>>
      BY <1>3, <3>2 DEF DrainInv, KeysIssued
    <3> QED BY <1>10, <3>1, <3>2 DEF SendRefused, SendFails
  <2>3. Proceed(d, {}, Remainder(d)) \/ Proceed(d, todo[d], rest[d])
    BY <1>10 DEF SendRefused, SendFails
  <2> QED BY <1>2, <1>5, <2>1, <2>2, <2>3
<1>11. ASSUME NEW d \in Drains, Delete(d) PROVE KeysIssued'
  <2>1. todo[d] \in SUBSET Key /\ rest[d] \in SUBSET Events
    BY DEF DrainInv, TypeOK
  <2>2. \A c \in Drains : todo'[c] \cup lot'[c] \cup gone'[c]
                            \subseteq todo[c] \cup lot[c] \cup gone[c]
    BY <1>5, <1>11, <2>1 DEF Delete
  <2> QED BY <1>2, <1>3, <1>11, <2>2 DEF Delete, DrainInv, KeysIssued
<1>12. CASE /\ UNCHANGED gen /\ rows' \subseteq rows
            /\ \A c \in Drains : todo'[c] \cup lot'[c] \cup gone'[c]
                                   \subseteq todo[c] \cup lot[c] \cup gone[c]
  BY <1>2, <1>3, <1>12 DEF DrainInv, KeysIssued
<1>13. ASSUME NEW d \in Drains, Request(d) \/ Read(d) \/ Crash(d) \/ SendSkipped(d)
       PROVE  KeysIssued'
  BY <1>12, <1>13 DEF Request, Read, Crash, SendSkipped, DrainInv, TypeOK, table, task
<1>14. CASE Purge \/ UNCHANGED vars
  BY <1>12, <1>14 DEF Purge, vars, table, task
<1> QED BY <1>6, <1>7, <1>8, <1>9, <1>10, <1>11, <1>13, <1>14 DEF Next, Work

\* A step that takes no fate from an event with a row.
FateKept == \A e \in Events : HasRow(e) /\ fate[e] # "none" => fate'[e] # "none"

\* What a surviving stamp says to one drain outlives the steps of everybody else:
\* they may rewrite a row or delete it, and if they stamp it they leave its fate.
LEMMA BystanderStep ==
    ASSUME DrainInv, TypeOK', NEW c \in Drains, FateKept,
           pc'[c] = pc[c], lot'[c] = lot[c], gone'[c] = gone[c],
           \A s \in rows' : KeyOf(s) \in lot[c] \cup gone[c] =>
               \E r \in rows :
                  /\ KeyOf(r) = KeyOf(s)
                  /\ \/ s.kind = r.kind \/ s.kind = "error"
                     \/ pc[c] = "read" /\ KeyOf(s) \in lot[c] => fate'[s.event] # "none"
    PROVE  StampSpeaksFor(c)'
<1> SUFFICES ASSUME NEW s \in rows'
             PROVE  /\ pc[c] = "read" /\ KeyOf(s) \in lot[c] /\ s.kind = "reprocessing"
                         => fate'[s.event] # "none"
                    /\ pc[c] = "delete" /\ KeyOf(s) \in gone[c] => fate'[s.event] # "none"
  BY DEF StampSpeaksFor
<1>1. CASE KeyOf(s) \in lot[c] \cup gone[c]
  <2>1. PICK r \in rows :
          /\ KeyOf(r) = KeyOf(s)
          /\ \/ s.kind = r.kind \/ s.kind = "error"
             \/ pc[c] = "read" /\ KeyOf(s) \in lot[c] => fate'[s.event] # "none"
    BY <1>1
  <2>2. r.event = s.event /\ r.event \in Events
    BY <2>1, KeyFacts DEF DrainInv, TypeOK, Row
  <2>3. fate[r.event] # "none" => fate'[s.event] # "none"
    BY <2>2 DEF FateKept, HasRow
  <2>4. StampSpeaksFor(c)
    BY DEF DrainInv, StampMeansFate
  <2>5. pc[c] = "read" => pc[c] # "delete"
    OBVIOUS
  <2> QED BY <2>1, <2>3, <2>4, <2>5 DEF StampSpeaksFor
<1> QED BY <1>1

\* Meeting a fate keeps the fates of the rows that stay, and so does an upsert.
LEMMA FateStays ==
    ASSUME DrainInv, NEW es, NEW what \in Fates, what # "none" \/ es = {}, Meet(es, what),
           UNCHANGED gen \/ \E us \in SUBSET Events : Upsert(us)
    PROVE  /\ FateKept
           /\ \A e \in Events : HasRow(e) /\ e \in es => fate'[e] # "none"
<1>1. \A e \in Events : HasRow(e) => gen'[e] = gen[e]
  BY UpsertFacts DEF DrainInv
<1> QED BY <1>1, MeetFacts DEF FateKept, DrainInv

\* A row the upsert writes never turns a key some drain holds into a stamped one.
LEMMA BystanderUpsert ==
    ASSUME DrainInv, TypeOK', NEW es \in SUBSET Events, Upsert(es),
           NEW c \in Drains, FateKept,
           pc'[c] = pc[c], lot'[c] = lot[c], gone'[c] = gone[c]
    PROVE  StampSpeaksFor(c)'
<1>1. ASSUME NEW s \in rows', KeyOf(s) \in lot[c] \cup gone[c]
      PROVE  \E r \in rows : KeyOf(r) = KeyOf(s) /\ (s.kind = r.kind \/ s.kind = "error")
  <2>1. \/ s \in rows
        \/ s.kind = "error" /\ \E r \in rows : KeyOf(r) = KeyOf(s)
        \/ s.gen = gen[s.event] + 1
    BY UpsertFacts DEF DrainInv
  <2>2. KeyOf(s)[1] = s.event /\ KeyOf(s)[2] = s.gen
    BY DEF KeyOf
  <2>3. s.gen <= gen[s.event]
    BY <1>1, <2>2 DEF DrainInv, KeysIssued
  <2>4. gen[s.event] \in Nat
    BY DrainAssumption DEF DrainInv, TypeOK, Row
  <2> QED BY <2>1, <2>3, <2>4
<1> QED BY <1>1, BystanderStep

\* A stamp that survives a drain's dispatch speaks for that dispatch, unless another
\* drain stamped the row again before the reading, which leaves its fate.
LEMMA StampStep ==
    ASSUME DrainInv, TypeOK', [Next]_vars
    PROVE  StampMeansFate'
<1>0. /\ rows \in SUBSET Row /\ rows' \in SUBSET Row
      /\ {"none", "delivered", "unsent", "restamped", "purged"} \subseteq Fates
  BY DEF DrainInv, TypeOK, Fates
<1>1. ASSUME NEW d \in Drains, pc'[d] \notin {"read", "delete"}
      PROVE  StampSpeaksFor(d)'
  BY <1>1 DEF StampSpeaksFor
<1>2. ASSUME NEW d \in Drains, StampSpeaksFor(d)',
             \A c \in Drains \ {d} : StampSpeaksFor(c)'
      PROVE  StampMeansFate'
  BY <1>2 DEF StampMeansFate
<1>3. ASSUME NEW c \in Drains, rows' \subseteq rows, FateKept,
             pc'[c] = pc[c], lot'[c] = lot[c], gone'[c] = gone[c]
      PROVE  StampSpeaksFor(c)'
  BY <1>3, BystanderStep
<1>4. UNCHANGED fate => FateKept
  BY DEF FateKept
<1>5. ASSUME NEW x \in Events, LiveDeadLetter(x) PROVE StampMeansFate'
  <2>1. /\ Upsert({x}) /\ {x} \in SUBSET Events /\ Meet({}, "none")
        /\ UNCHANGED <<pc, lot, gone>>
    BY <1>5 DEF LiveDeadLetter, task
  <2>2. FateKept
    BY <1>0, <2>1, FateStays
  <2> QED BY <2>1, <2>2, BystanderUpsert DEF StampMeansFate
<1>6. ASSUME NEW d \in Drains, SendReturns(d) PROVE StampMeansFate'
  <2>1. EventsOf(lot[d]) \in SUBSET Events /\ lot[d] \in SUBSET Key
    BY KeyFacts DEF TypeOK, DrainInv
  <2>2. PICK ok \in SUBSET EventsOf(lot[d]) :
          Meet(ok, "delivered") /\ Upsert(EventsOf(lot[d]) \ ok)
    BY <1>6 DEF SendReturns
  <2>3. /\ FateKept
        /\ \A e \in Events : HasRow(e) /\ e \in ok => fate'[e] # "none"
    BY <1>0, <2>1, <2>2, FateStays
  <2>4. \A s \in rows' : /\ s.event \in EventsOf(lot[d]) \ ok => s.kind = "error"
                         /\ s.kind # "error" => s \in rows
    BY <2>1, <2>2, UpsertFacts DEF DrainInv
  <2>5. \A s \in rows' : KeyOf(s) \in lot[d] => s.event \in EventsOf(lot[d])
    BY <1>0, <2>1, KeyFacts
  <2>6. /\ pc'[d] = "read" /\ UNCHANGED <<lot, gone>>
        /\ \A c \in Drains \ {d} : pc'[c] = pc[c]
    BY <1>6 DEF SendReturns, Goto, task, DrainInv, TypeOK
  <2>7. ASSUME NEW s \in rows', KeyOf(s) \in lot[d], s.kind = "reprocessing"
        PROVE  fate'[s.event] # "none"
    <3>1. s \in rows /\ s.event \in ok /\ s.event \in Events
      BY <2>1, <2>4, <2>5, <2>7
    <3> QED BY <2>3, <3>1 DEF HasRow
  <2>8. StampSpeaksFor(d)'
    BY <2>6, <2>7 DEF StampSpeaksFor
  <2>9. \A c \in Drains \ {d} : StampSpeaksFor(c)'
    BY <2>1, <2>2, <2>3, <2>6, BystanderUpsert
  <2> QED BY <1>2, <2>8, <2>9
<1>7. ASSUME NEW d \in Drains, SendSkipped(d) PROVE StampMeansFate'
  <2>1. /\ pc'[d] = "read" /\ UNCHANGED <<rows, gen, lot, gone>>
        /\ Meet(EventsOf(lot[d]), "unsent")
        /\ \A c \in Drains \ {d} : pc'[c] = pc[c]
    BY <1>7 DEF SendSkipped, Goto, task, DrainInv, TypeOK
  <2>2. /\ FateKept
        /\ \A e \in Events : HasRow(e) /\ e \in EventsOf(lot[d]) => fate'[e] # "none"
    BY <1>0, <2>1, FateStays
  <2>3. lot[d] \in SUBSET Key
    BY DEF DrainInv, TypeOK
  <2>4. ASSUME NEW r \in rows, KeyOf(r) \in lot[d] PROVE fate'[r.event] # "none"
    <3>1. r.event \in Events /\ r.event \in EventsOf(lot[d])
      BY <1>0, <2>3, <2>4, KeyFacts DEF Row
    <3> QED BY <2>2, <3>1 DEF HasRow
  <2>5. StampSpeaksFor(d)'
    BY <2>1, <2>4 DEF StampSpeaksFor
  <2>6. \A c \in Drains \ {d} : StampSpeaksFor(c)'
    BY <1>3, <2>1, <2>2
  <2> QED BY <1>2, <2>5, <2>6
<1>8. ASSUME NEW d \in Drains, Read(d) PROVE StampMeansFate'
  <2>1. /\ pc[d] = "read" /\ pc'[d] = "delete" /\ UNCHANGED <<rows, fate, lot>>
        /\ gone'[d] = {k \in lot[d] : \A r \in rows : KeyOf(r) = k => r.kind = "reprocessing"}
        /\ \A c \in Drains \ {d} : pc'[c] = pc[c] /\ gone'[c] = gone[c]
    BY <1>8 DEF Read, Goto, table, DrainInv, TypeOK
  <2>2. ASSUME NEW r \in rows, KeyOf(r) \in gone'[d] PROVE fate[r.event] # "none"
    BY <2>1, <2>2 DEF DrainInv, StampMeansFate, StampSpeaksFor
  <2>3. StampSpeaksFor(d)'
    BY <2>1, <2>2 DEF StampSpeaksFor
  <2>4. \A c \in Drains \ {d} : StampSpeaksFor(c)'
    BY <1>3, <1>4, <2>1
  <2> QED BY <1>2, <2>3, <2>4
<1>9. ASSUME NEW d \in Drains, List(d) PROVE StampMeansFate'
  <2>1. /\ \A s \in rows' : \E r \in rows :
              KeyOf(r) = KeyOf(s) /\ (s.kind = r.kind \/ s.kind = "error")
        /\ pc'[d] \notin {"read", "delete"} /\ UNCHANGED fate
        /\ lot' = [lot EXCEPT ![d] = {}] /\ gone' = [gone EXCEPT ![d] = {}]
        /\ \A c \in Drains \ {d} : pc'[c] = pc[c]
    BY <1>9, ListFacts DEF DrainInv
  <2>2. \A c \in Drains \ {d} : lot'[c] = lot[c] /\ gone'[c] = gone[c]
    BY <2>1 DEF DrainInv, TypeOK
  <2>3. \A c \in Drains \ {d} : StampSpeaksFor(c)'
    BY <1>4, <2>1, <2>2, BystanderStep
  <2> QED BY <1>1, <1>2, <2>1, <2>3
<1>10. ASSUME NEW d \in Drains, Stamp(d) PROVE StampMeansFate'
  <2> DEFINE keys == lot'[d] \cap Unread(d)
  <2>1. /\ \A s \in rows' : \E r \in rows :
              KeyOf(r) = KeyOf(s) /\ (s.kind = r.kind \/ KeyOf(s) \in lot'[d])
        /\ pc'[d] = "send" /\ UNCHANGED <<gen, gone>>
        /\ \A c \in Drains \ {d} : lot'[c] = lot[c] /\ pc'[c] = pc[c]
        /\ Meet(EventsOf(keys), "restamped") /\ lot' \in [Drains -> SUBSET Key]
    BY <1>10, StampFacts DEF DrainInv
  <2>2. /\ FateKept
        /\ \A e \in Events : HasRow(e) /\ e \in EventsOf(keys) => fate'[e] # "none"
    BY <1>0, <2>1, FateStays
  <2>3. ASSUME NEW c \in Drains \ {d} PROVE StampSpeaksFor(c)'
    <3>1. ASSUME NEW s \in rows', NEW r \in rows, KeyOf(r) = KeyOf(s),
                 KeyOf(s) \in lot'[d], pc[c] = "read", KeyOf(s) \in lot[c]
          PROVE  fate'[s.event] # "none"
      <4>1. KeyOf(s) \in keys /\ keys \in SUBSET Key
        BY <2>1, <3>1 DEF Unread
      <4>2. s.event \in EventsOf(keys) /\ r.event = s.event /\ s.event \in Events
        BY <1>0, <3>1, <4>1, KeyFacts DEF Row
      <4> QED BY <2>2, <4>2 DEF HasRow
    <3>2. \A s \in rows' : \E r \in rows :
             /\ KeyOf(r) = KeyOf(s)
             /\ \/ s.kind = r.kind
                \/ pc[c] = "read" /\ KeyOf(s) \in lot[c] => fate'[s.event] # "none"
      BY <2>1, <3>1
    <3>3. pc'[c] = pc[c] /\ lot'[c] = lot[c] /\ gone'[c] = gone[c]
      BY <2>1
    <3> QED BY <2>2, <3>2, <3>3, BystanderStep
  <2> QED BY <1>1, <1>2, <2>1, <2>3
<1>11. ASSUME NEW d \in Drains, NEW keys \in SUBSET Key, NEW left \in SUBSET Events,
              Proceed(d, keys, left)
       PROVE  /\ StampSpeaksFor(d)'
              /\ \A c \in Drains \ {d} : /\ pc'[c] = pc[c] /\ lot'[c] = lot[c]
                                         /\ gone'[c] = gone[c]
  <2>1. /\ lot' = [lot EXCEPT ![d] = {}] /\ gone' = [gone EXCEPT ![d] = {}]
        /\ pc'[d] \notin {"read", "delete"}
        /\ \A c \in Drains \ {d} : pc'[c] = pc[c]
    BY <1>11, ProceedFacts DEF DrainInv
  <2> QED BY <1>1, <2>1 DEF DrainInv, TypeOK
<1>12. ASSUME NEW d \in Drains, SendRefused(d) \/ SendFails(d) \/ Delete(d)
       PROVE  StampMeansFate'
  <2>1. /\ EventsOf(lot[d]) \in SUBSET Events /\ Remainder(d) \in SUBSET Events
        /\ todo[d] \in SUBSET Key /\ rest[d] \in SUBSET Events /\ {} \in SUBSET Key
    BY KeyFacts DEF TypeOK, DrainInv, Remainder
  <2>2. Proceed(d, {}, Remainder(d)) \/ Proceed(d, todo[d], rest[d])
    BY <1>12 DEF SendRefused, SendFails, Delete
  <2>3. /\ StampSpeaksFor(d)'
        /\ \A c \in Drains \ {d} : /\ pc'[c] = pc[c] /\ lot'[c] = lot[c]
                                   /\ gone'[c] = gone[c]
    BY <1>11, <2>1, <2>2
  <2>4. \/ UNCHANGED fate /\ rows' \subseteq rows
        \/ /\ \E ok : Meet(ok, "delivered")
           /\ UNCHANGED <<rows, gen>> \/ Upsert(EventsOf(lot[d]))
    BY <1>12 DEF SendRefused, SendFails, Delete
  <2>5. FateKept
    BY <1>0, <1>4, <2>1, <2>4, FateStays
  <2>6. \A c \in Drains \ {d} : StampSpeaksFor(c)'
    BY <1>3, <2>1, <2>3, <2>4, <2>5, BystanderUpsert
  <2> QED BY <1>2, <2>3, <2>6
<1>13. ASSUME NEW d \in Drains, Request(d) \/ Crash(d) PROVE StampMeansFate'
  <2>1. /\ pc'[d] = "queued" /\ UNCHANGED <<rows, fate>>
        /\ \A c \in Drains \ {d} : /\ pc'[c] = pc[c] /\ lot'[c] = lot[c]
                                   /\ gone'[c] = gone[c]
    BY <1>13 DEF Request, Crash, Goto, table, DrainInv, TypeOK
  <2> QED BY <1>1, <1>2, <1>3, <1>4, <2>1
<1>14. CASE Purge
  <2>1. /\ \E es : Meet(es, "purged")
        /\ rows' \subseteq rows /\ UNCHANGED <<gen, pc, lot, gone>>
    BY <1>14 DEF Purge, task
  <2>2. FateKept
    BY <1>0, <2>1, FateStays
  <2> QED BY <1>3, <2>1, <2>2 DEF StampMeansFate
<1>15. CASE UNCHANGED vars
  BY <1>3, <1>4, <1>15 DEF vars, table, task, StampMeansFate
<1> QED BY <1>5, <1>6, <1>7, <1>8, <1>9, <1>10, <1>12, <1>13, <1>14, <1>15 DEF Next, Work

\* DrainInv holds initially, and every step keeps it.
LEMMA DrainInductive ==
    /\ Init => DrainInv
    /\ DrainInv /\ [Next]_vars => DrainInv'
<1>1. Init => TypeOK
  BY DrainAssumption DEF Init, TypeOK, Phases, Fates
<1>2. Init => NoRowLost /\ KeysIssued /\ StampMeansFate
  BY DEF Init, NoRowLost, Rowless, KeysIssued, StampMeansFate, StampSpeaksFor
<1>3. DrainInv /\ [Next]_vars => DrainInv'
  BY TypeStep, RowStep, IssuedStep, StampStep DEF DrainInv
<1> QED BY <1>1, <1>2, <1>3 DEF DrainInv

\* The table keeps one row per event, however many drains run at once, and what a
\* drain holds are keys of rows: drain_destination_dlq, tasks.py:475-480.
THEOREM DrainTypes == Spec => []TypeOK
<1>1. DrainInv => TypeOK
  BY DEF DrainInv
<1> QED BY <1>1, DrainInductive, PTL DEF Spec

\* A row with a payload leaves the table only for a reason of its own time in the
\* table: the sink accepted the event, retention deleted the row, the dispatch of
\* its lot sent nothing, or another drain stamped it between a drain's dispatch and
\* its reading; whatever is refused, fails or crashes, for any number of drains at
\* once: drain_destination_dlq, tasks.py:475-480, 538-596.
THEOREM RowsLeaveForAReason == Spec => []NoRowLost
<1>1. DrainInv => NoRowLost
  BY DEF DrainInv
<1> QED BY <1>1, DrainInductive, PTL DEF Spec

\* A drain that never shares the destination with another one loses a row only by a
\* dispatch that sends nothing: a row that is gone was accepted, or retention's, or
\* of such a dispatch: drain_destination_dlq, tasks.py:475-480.
THEOREM LoneDrainLosesOnlyUnsent ==
    ASSUME \A a, b \in Drains : a = b
    PROVE  Spec => [](\A e \in Rowless : fate[e] \in {"delivered", "purged", "unsent"})
<1> DEFINE Never == \A e \in Events : fate[e] # "restamped"
           Goal == \A e \in Rowless : fate[e] \in {"delivered", "purged", "unsent"}
<1>1. Init => Never
  BY DEF Init
<1>2. ASSUME Never, DrainInv, [Next]_vars PROVE Never'
  <2>1. ASSUME NEW es, NEW what, Meet(es, what), what # "restamped" \/ es = {}
        PROVE  Never'
    BY <1>2, <2>1 DEF Meet
  <2>2. \A d \in Drains : EventsOf(lot'[d] \cap Unread(d)) = {}
    BY DEF EventsOf, Unread
  <2>3. ASSUME NEW d \in Drains, Stamp(d) PROVE Never'
    <3>1. Meet(EventsOf(lot'[d] \cap Unread(d)), "restamped")
      BY <1>2, <2>3, StampFacts DEF DrainInv
    <3> QED BY <2>1, <2>2, <3>1
  <2>4. CASE UNCHANGED fate
    BY <1>2, <2>4
  <2>5. ASSUME NEW d \in Drains, SendReturns(d) \/ SendRefused(d) \/ SendFails(d)
        PROVE  Never'
    <3>1. \E ok : Meet(ok, "delivered")
      BY <2>5 DEF SendReturns, SendRefused, SendFails
    <3> QED BY <2>1, <3>1
  <2>6. ASSUME NEW d \in Drains, SendSkipped(d) PROVE Never'
    BY <2>1, <2>6 DEF SendSkipped
  <2>7. CASE Purge
    <3>1. \E es : Meet(es, "purged")
      BY <2>7 DEF Purge
    <3> QED BY <2>1, <3>1
  <2>8. ASSUME NEW x \in Events, LiveDeadLetter(x) PROVE Never'
    BY <2>1, <2>8 DEF LiveDeadLetter
  <2>9. ASSUME NEW d \in Drains,
               Request(d) \/ List(d) \/ Read(d) \/ Delete(d) \/ Crash(d)
        PROVE  Never'
    BY <2>4, <2>9 DEF Request, List, Read, Delete, Crash, table
  <2>10. CASE UNCHANGED vars
    BY <2>4, <2>10 DEF vars, table
  <2> QED BY <1>2, <2>3, <2>5, <2>6, <2>7, <2>8, <2>9, <2>10 DEF Next, Work
<1>3. Never /\ DrainInv => Goal
  BY DEF DrainInv, NoRowLost, Rowless, TypeOK, Fates
<1> HIDE DEF Never, Goal
<1>4. Never /\ DrainInv /\ [Next]_vars => Never'
  BY <1>2
<1>5. Spec => []Goal
  BY <1>1, <1>3, <1>4, DrainInductive, PTL DEF Spec
<1> QED BY <1>5 DEF Goal

=============================================================================
