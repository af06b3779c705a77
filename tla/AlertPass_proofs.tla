-------------------------- MODULE AlertPass_proofs --------------------------
(***************************************************************************)
(* Theorems about alert passes, for any rules, threads and limits: what    *)
(* becomes of recorded events, and when a rule may fire again.             *)
(***************************************************************************)
EXTENDS AlertPass, FiniteSetTheorems, TLAPS

Rows == [enabled : BOOLEAN, state : {"armed", "fired"}, age : 0..COOLDOWN]
Items == [act : {"fire", "mark", "rearm"}, age : 0..COOLDOWN]
Pass == [step : {"idle", "run", "deliver"}, todo : OfSomeRules(Items), out : Nat]

\* What a pass has where.
PassesOK ==
    \A p \in Passes :
        /\ pass[p].step = "idle" => pass[p] = NoPass
        /\ pass[p].step # "run" => DOMAIN Todo(p) = {}
        /\ pass[p].step = "deliver" => pass[p].out > 0

PassInv == AlertTypeOK /\ PassesOK

-----------------------------------------------------------------------------
(* Functions on a part of the rules *)

\* A function on some of the rules is one on its domain, and the other way round.
LEMMA OfSomeRulesIs ==
    ASSUME NEW S
    PROVE  /\ \A f \in OfSomeRules(S) :
                DOMAIN f \in SUBSET Rules /\ f = [r \in DOMAIN f |-> f[r]] /\ \A r \in DOMAIN f : f[r] \in S
           /\ \A D \in SUBSET Rules : \A f \in [D -> S] : f \in OfSomeRules(S)
BY DEF OfSomeRules

LEMMA NothingIsOfSomeRules == \A S : <<>> \in OfSomeRules(S)
<1> SUFFICES ASSUME NEW S PROVE <<>> \in OfSomeRules(S)
    OBVIOUS
<1>1. <<>> \in [{} -> S]
    OBVIOUS
<1> QED
    BY <1>1 DEF OfSomeRules

\* Leaving a rule out.
LEMMA RestrictIs ==
    ASSUME NEW S, NEW f \in OfSomeRules(S), NEW D \in SUBSET DOMAIN f
    PROVE  /\ Restrict(f, D) \in OfSomeRules(S)
           /\ DOMAIN Restrict(f, D) = D
           /\ \A r \in D : Restrict(f, D)[r] = f[r]
<1>1. DOMAIN f \in SUBSET Rules /\ \A r \in DOMAIN f : f[r] \in S
    BY OfSomeRulesIs
<1>2. Restrict(f, D) = [r \in D |-> f[r]]
    BY DEF Restrict
<1>3. Restrict(f, D) \in [D -> S]
    BY <1>1, <1>2
<1> QED
    BY <1>1, <1>2, <1>3, OfSomeRulesIs

\* NoPass is a pass.
LEMMA NoPassIs ==
    /\ NoPass \in Pass
    /\ DOMAIN NoPass.todo = {} /\ NoPass.step = "idle" /\ NoPass.out = 0
<1>1. <<>> \in OfSomeRules(Items) /\ DOMAIN <<>> = {}
    BY NothingIsOfSomeRules
<1> QED
    BY <1>1 DEF NoPass, Pass

\* What a pass finds to do.
LEMMA ToDoIs ==
    ASSUME row \in OfSomeRules(Rows)
    PROVE  /\ ToDo \in OfSomeRules(Items)
           /\ \A r \in DOMAIN ToDo :
                /\ r \in DOMAIN row
                /\ \/ ToDo[r].act = "fire" /\ Fires(r)
                   \/ ToDo[r].act = "rearm" /\ Rearms(r)
                /\ ToDo[r].age = row[r].age
<1> DEFINE acts == {r \in DOMAIN row : row[r].enabled /\ (Fires(r) \/ Rearms(r))}
<1>1. DOMAIN row \in SUBSET Rules /\ \A r \in DOMAIN row : row[r] \in Rows
    BY OfSomeRulesIs
<1>2. ToDo = [r \in acts |-> [act |-> IF Fires(r) THEN "fire" ELSE "rearm", age |-> row[r].age]]
    BY DEF ToDo
<1>3. ToDo \in [acts -> Items]
    BY <1>1, <1>2 DEF Items, Rows
<1>4. ToDo \in OfSomeRules(Items)
    BY <1>1, <1>3, OfSomeRulesIs
<1> QED
    BY <1>2, <1>4

-----------------------------------------------------------------------------
(* Typing *)

\* The actions of the passes write a row that exists, or none.
LEMMA UpdateType ==
    ASSUME AlertTypeOK, NEW r \in Rules, NEW age \in 0..COOLDOWN, NEW state \in {"armed", "fired"},
           update_fire_state(r, age, state)
    PROVE  /\ row' \in OfSomeRules(Rows)
           /\ DOMAIN row' = DOMAIN row
           /\ \A q \in DOMAIN row \ {r} : row'[q] = row[q]
           /\ r \in DOMAIN row => row'[r].age = age /\ row'[r].state = state
<1>1. row \in OfSomeRules(Rows)
    BY DEF AlertTypeOK, Rows
<1>2. DOMAIN row \in SUBSET Rules /\ row \in [DOMAIN row -> Rows]
    BY <1>1, OfSomeRulesIs
<1>3. CASE r \in DOMAIN row
  <2>1. row' = [row EXCEPT ![r].age = age, ![r].state = state]
    BY <1>3 DEF update_fire_state
  <2>2. row' \in [DOMAIN row -> Rows]
    BY <1>2, <1>3, <2>1 DEF Rows
  <2>3. row' \in OfSomeRules(Rows)
    BY <1>2, <2>2, OfSomeRulesIs
  <2>4. /\ \A q \in DOMAIN row \ {r} : row'[q] = row[q]
        /\ row'[r].age = age /\ row'[r].state = state
    BY <1>2, <1>3, <2>1 DEF Rows
  <2> QED
    BY <2>1, <2>3, <2>4
<1>4. CASE r \notin DOMAIN row
    BY <1>1, <1>4 DEF update_fire_state
<1> QED
    BY <1>3, <1>4

\* A rule is done with.
LEMMA DoneType ==
    ASSUME PassInv, NEW p \in Passes, NEW r \in DOMAIN Todo(p), NEW out \in Nat, Done(p, r, out),
           Runs(p)
    PROVE  /\ pass' \in [Passes -> Pass]
           /\ PassesOK'
           /\ \A q \in Passes \ {p} : pass'[q] = pass[q]
           /\ pass'[p].out = out
           /\ DOMAIN Todo(p)' = DOMAIN Todo(p) \ {r}
           /\ \A q \in DOMAIN Todo(p)' : Todo(p)'[q] = Todo(p)[q]
           /\ pass'[p].step = "run" => DOMAIN Todo(p)' # {}
<1> DEFINE D == DOMAIN Todo(p) \ {r}
           rest == Restrict(Todo(p), D)
           next == IF DOMAIN rest # {} THEN [step |-> "run", todo |-> rest, out |-> out]
                   ELSE IF out = 0 THEN NoPass
                   ELSE [NoPass EXCEPT !.step = "deliver", !.out = out]
<1>1. pass \in [Passes -> Pass]
    BY DEF PassInv, AlertTypeOK, Items, Pass
<1>2. rest \in OfSomeRules(Items) /\ DOMAIN rest = D /\ \A q \in D : rest[q] = Todo(p)[q]
  <2>1. Todo(p) \in OfSomeRules(Items)
    BY <1>1 DEF Todo, Pass
  <2> QED
    BY <2>1, RestrictIs
<1>3. pass' = [pass EXCEPT ![p] = next]
    BY DEF Done
<1>4. /\ next \in Pass /\ next.out = out /\ DOMAIN next.todo = D
      /\ \A q \in D : next.todo[q] = Todo(p)[q]
      /\ next.step = "idle" => next = NoPass
      /\ next.step # "run" => D = {}
      /\ next.step = "deliver" => out > 0
      /\ next.step = "run" => D # {}
  <2>1. CASE D # {}
    BY <2>1, <1>2 DEF Pass
  <2>2. CASE D = {} /\ out = 0
    BY <2>2, <1>2, NoPassIs
  <2>3. CASE D = {} /\ out # 0
    <3> DEFINE nothing == <<>>
    <3>1. next = [step |-> "deliver", todo |-> nothing, out |-> out]
      BY <2>3, <1>2 DEF NoPass
    <3>2. nothing \in OfSomeRules(Items) /\ DOMAIN nothing = {}
      BY NothingIsOfSomeRules
    <3> HIDE DEF nothing, next
    <3> QED
      BY <2>3, <3>1, <3>2 DEF Pass
  <2> QED
    BY <2>1, <2>2, <2>3
<1> HIDE DEF next
<1>5. /\ pass'[p] = next /\ pass' \in [Passes -> Pass]
      /\ \A q \in Passes \ {p} : pass'[q] = pass[q]
    BY <1>1, <1>3, <1>4
<1>6. PassesOK'
    BY <1>4, <1>5 DEF PassInv, PassesOK, Todo
<1> QED
    BY <1>4, <1>5, <1>6 DEF Todo

\* Which pass each action moves, and how; the others stay as they are.
LEMMA PassMoves ==
    ASSUME PassInv, NEW p \in Passes, Start(p) \/ PassStep(p)
    PROVE  /\ pass' \in [Passes -> Pass]
           /\ PassesOK'
           /\ \A q \in Passes \ {p} : pass'[q] = pass[q]
<1> DEFINE Moved == /\ pass' \in [Passes -> Pass]
                    /\ PassesOK'
                    /\ \A q \in Passes \ {p} : pass'[q] = pass[q]
<1>1. pass \in [Passes -> Pass] /\ row \in OfSomeRules(Rows)
    BY DEF PassInv, AlertTypeOK, Items, Pass, Rows
<1>2. \A q \in Passes : Todo(q) \in OfSomeRules(Items)
    BY <1>1 DEF Todo, Pass
<1>3. ASSUME NEW next \in Pass, pass' = [pass EXCEPT ![p] = next],
             next.step = "idle" => next = NoPass,
             next.step # "run" => DOMAIN next.todo = {},
             next.step = "deliver" => next.out > 0
      PROVE  Moved
  <2>1. /\ pass'[p] = next /\ pass' \in [Passes -> Pass]
        /\ \A q \in Passes \ {p} : pass'[q] = pass[q]
    BY <1>1, <1>3
  <2> QED
    BY <2>1, <1>3 DEF PassInv, PassesOK, Todo
<1>4. CASE Start(p)
  <2> DEFINE next == [step |-> "run", todo |-> ToDo, out |-> 0]
  <2>1. ToDo \in OfSomeRules(Items)
    BY ToDoIs, <1>1
  <2>3. next \in Pass /\ next.step = "run"
    BY <2>1 DEF Pass
  <2>4. pass' = [pass EXCEPT ![p] = next]
    BY <1>4 DEF Start
  <2> HIDE DEF next
  <2> QED
    BY <1>3, <2>3, <2>4
<1>5. ASSUME NEW r \in Rules, RecordEvent(p, r) PROVE Moved
  <2> DEFINE todo == [Todo(p) EXCEPT ![r].act = "mark"]
             next == [pass[p] EXCEPT !.todo = todo]
  <2>1. r \in DOMAIN Todo(p) /\ Runs(p)
    BY <1>5 DEF RecordEvent
  <2>2. todo \in OfSomeRules(Items)
    <3>1. DOMAIN Todo(p) \in SUBSET Rules /\ Todo(p) \in [DOMAIN Todo(p) -> Items]
      BY <1>2, OfSomeRulesIs
    <3>2. todo \in [DOMAIN Todo(p) -> Items]
      BY <2>1, <3>1 DEF Items
    <3> QED
      BY <3>1, <3>2, OfSomeRulesIs
  <2>3. pass' = [pass EXCEPT ![p] = next]
    BY <1>1, <1>5 DEF RecordEvent, Todo, Pass
  <2>4. next \in Pass /\ next.step = "run"
    <3> HIDE DEF todo
    <3> QED
      BY <1>1, <2>1, <2>2 DEF Pass, Runs
  <2> HIDE DEF next
  <2> QED
    BY <1>3, <2>3, <2>4
<1>6. ASSUME NEW r \in Rules, RecordRaises(p, r) PROVE Moved
    BY <1>3, <1>6, NoPassIs DEF RecordRaises
<1>7. ASSUME NEW r \in Rules, MarkFired(p, r) PROVE Moved
  <2>1. pass[p].out + 1 \in Nat
    BY <1>1 DEF Pass
  <2> QED
    BY <1>7, <2>1, DoneType DEF MarkFired
<1>8. ASSUME NEW r \in Rules, Rearm(p, r) PROVE Moved
  <2>1. pass[p].out \in Nat
    BY <1>1 DEF Pass
  <2> QED
    BY <1>8, <2>1, DoneType DEF Rearm
<1>9. CASE Deliver(p)
  <2> DEFINE next == IF pass[p].out = 1 THEN NoPass ELSE [pass[p] EXCEPT !.out = @ - 1]
  <2>1. pass[p] \in Pass /\ pass[p].step = "deliver" /\ pass[p].out > 0 /\ DOMAIN pass[p].todo = {}
    BY <1>1, <1>9 DEF Deliver, PassInv, PassesOK, Todo
  <2>2. pass' = [pass EXCEPT ![p] = next]
    BY <1>9 DEF Deliver
  <2>3. next = NoPass \/ (next \in Pass /\ next.step = "deliver" /\ next.out > 0 /\ DOMAIN next.todo = {})
    BY <2>1 DEF Pass
  <2> HIDE DEF next
  <2> QED
    BY <1>3, <2>2, <2>3, NoPassIs
<1> QED
    BY <1>4, <1>5, <1>6, <1>7, <1>8, <1>9 DEF PassStep

-----------------------------------------------------------------------------
(* Where recorded events are *)

Owed == channel.buffer + digest + Cardinality(Marking) + Cardinality(InHand)

\* Accounted, and what survives the death of the process or of a rule: nothing is
\* sent that was not recorded.  It keeps missing, from which a digest takes away
\* what was buffered, a natural number.
CountInv ==
    /\ IsFiniteSet(Marking) /\ IsFiniteSet(InHand)
    /\ missing >= Owed
    /\ Accounted

\* One pass has recorded, or marked, an event of one rule.
LEMMA MarkingMoves ==
    ASSUME NEW p \in Passes, \A q \in Passes \ {p} : pass'[q] = pass[q]
    PROVE  /\ (\A r \in Rules : Marked(p, r)' <=> Marked(p, r)) => Marking' = Marking
           /\ \A r \in Rules :
                (\A s \in Rules \ {r} : Marked(p, s)' <=> Marked(p, s)) =>
                    /\ Marked(p, r)' => Marking' = Marking \cup {<<p, r>>}
                    /\ ~Marked(p, r)' => Marking' = Marking \ {<<p, r>>}
           /\ (\A r \in Rules : ~Marked(p, r)') => Marking' \subseteq Marking
           /\ \A r \in Rules : <<p, r>> \in Marking <=> Marked(p, r)
<1>1. \A q \in Passes \ {p}, r \in Rules : Marked(q, r)' <=> Marked(q, r)
    BY DEF Marked, Todo
<1>2. \A q \in Passes, r \in Rules :
        /\ <<q, r>> \in Marking <=> Marked(q, r)
        /\ <<q, r>> \in Marking' <=> Marked(q, r)'
    BY DEF Marking
<1>3. Marking \subseteq Passes \X Rules /\ Marking' \subseteq Passes \X Rules
    BY DEF Marking
<1> QED
    BY <1>1, <1>2, <1>3

\* One pass has one event more, or less, in hand.
LEMMA HandMoves ==
    ASSUME NEW p \in Passes, \A q \in Passes \ {p} : pass'[q] = pass[q],
           pass[p].out \in Nat, pass'[p].out \in Nat
    PROVE  /\ pass'[p].out = pass[p].out => InHand' = InHand
           /\ pass'[p].out <= pass[p].out => InHand' \subseteq InHand
           /\ pass'[p].out = pass[p].out + 1 =>
                LET new == <<p, pass'[p].out>> IN InHand' = InHand \cup {new} /\ new \notin InHand
           /\ pass[p].out = pass'[p].out + 1 =>
                LET old == <<p, pass[p].out>> IN InHand' = InHand \ {old} /\ old \in InHand
<1>1. \A e : e \in InHand <=> \E q \in Passes : \E n \in 1..pass[q].out : e = <<q, n>>
    BY DEF InHand
<1>2. \A e : e \in InHand' <=> \E q \in Passes : \E n \in 1..pass'[q].out : e = <<q, n>>
    BY DEF InHand
<1> DEFINE Others == {e \in InHand : e[1] # p}
           Has(n) == {<<p, i>> : i \in 1..n}
<1>3. InHand = Others \cup Has(pass[p].out)
    BY <1>1
<1>4. InHand' = Others \cup Has(pass'[p].out)
    BY <1>1, <1>2
<1>5. \A e \in Others : e \notin Has(pass[p].out) /\ e \notin Has(pass'[p].out)
    OBVIOUS
<1>6. \A m, n \in Nat :
        /\ m <= n => Has(m) \subseteq Has(n)
        /\ n = m + 1 => Has(n) = Has(m) \cup {<<p, n>>} /\ <<p, n>> \notin Has(m)
    OBVIOUS
<1>7. \A n : <<p, n>> \notin Others
    OBVIOUS
<1> HIDE DEF Others, Has
<1> QED
    BY <1>3, <1>4, <1>5, <1>6, <1>7

\* What is in hand grows by one event, shrinks by one, or shrinks.
LEMMA CountMoves ==
    ASSUME NEW S, NEW T, IsFiniteSet(S)
    PROVE  /\ Cardinality(S) \in Nat
           /\ \A e : e \notin S /\ T = S \cup {e} =>
                IsFiniteSet(T) /\ Cardinality(T) = Cardinality(S) + 1
           /\ \A e : e \in S /\ T = S \ {e} =>
                IsFiniteSet(T) /\ Cardinality(T) = Cardinality(S) - 1
           /\ T \subseteq S => IsFiniteSet(T) /\ Cardinality(T) <= Cardinality(S)
BY FS_CardinalityType, FS_AddElement, FS_RemoveElement, FS_Subset

Counted == missing' \in Nat /\ CountInv'

\* What a pass does with the events it has.
LEMMA PassCounts ==
    ASSUME PassInv, CountInv, NEW p \in Passes, Start(p) \/ PassStep(p)
    PROVE  Counted
<1> DEFINE m == Cardinality(Marking)
           h == Cardinality(InHand)
<1> USE DEF Owed
<1>1. /\ channel.buffer \in Nat /\ digest \in Nat /\ missing \in Nat
      /\ m \in Nat /\ h \in Nat
    BY CountMoves DEF PassInv, AlertTypeOK, CountInv
<1>2. /\ pass \in [Passes -> Pass] /\ pass[p].out \in Nat
      /\ row \in OfSomeRules(Rows)
    BY DEF PassInv, AlertTypeOK, Items, Pass, Rows
<1>3. /\ pass' \in [Passes -> Pass] /\ pass'[p].out \in Nat
      /\ \A q \in Passes \ {p} : pass'[q] = pass[q]
    BY PassMoves DEF Pass
<1>4. ASSUME Marking' = Marking, InHand' = InHand, UNCHANGED <<channel, digest, missing>>,
             mishaps \subseteq mishaps'
      PROVE  Counted
    BY <1>1, <1>4 DEF Counted, CountInv, Accounted
<1>5. CASE Start(p)
  <2>1. pass[p] = NoPass /\ pass'[p] = [step |-> "run", todo |-> ToDo, out |-> 0]
    BY <1>2, <1>5 DEF Start, PassInv, PassesOK
  <2>2. \A q \in Rules : ~Marked(p, q) /\ ~Marked(p, q)'
    BY <1>2, <2>1, NoPassIs, ToDoIs DEF Marked, Todo
  <2>3. Marking' = Marking
    BY <1>3, <2>2, MarkingMoves
  <2>4. InHand' = InHand
    <3>1. pass'[p].out = pass[p].out
      BY <2>1, NoPassIs
    <3> QED
      BY <1>2, <1>3, <3>1, HandMoves
  <2> QED
    BY <1>4, <1>5, <2>3, <2>4 DEF Start
<1>6. ASSUME NEW r \in Rules, RecordEvent(p, r) PROVE Counted
  <2>1. pass' = [pass EXCEPT ![p].todo[r].act = "mark"]
    BY <1>6 DEF RecordEvent
  <2>2. r \in DOMAIN Todo(p) /\ Todo(p) \in [DOMAIN Todo(p) -> Items] /\ Todo(p)[r].act = "fire"
    BY <1>2, <1>6, OfSomeRulesIs DEF RecordEvent, Todo, Pass
  <2>3. Todo(p)' = [Todo(p) EXCEPT ![r].act = "mark"] /\ pass'[p].out = pass[p].out
    BY <1>2, <2>1 DEF Todo, Pass
  <2>4. /\ ~Marked(p, r) /\ Marked(p, r)'
        /\ \A s \in Rules \ {r} : Marked(p, s)' <=> Marked(p, s)
    BY <2>2, <2>3 DEF Marked, Items
  <2>5. InHand' = InHand /\ Marking' = Marking \cup {<<p, r>>} /\ <<p, r>> \notin Marking
    BY <1>2, <1>3, <2>3, <2>4, MarkingMoves, HandMoves
  <2>6. IsFiniteSet(Marking') /\ Cardinality(Marking') = m + 1
    BY <2>5, CountMoves DEF CountInv
  <2> HIDE DEF m, h
  <2>7. m = Cardinality(Marking) /\ h = Cardinality(InHand)
    BY DEF m, h
  <2> QED
    BY <1>1, <1>6, <2>5, <2>6, <2>7 DEF RecordEvent, Counted, CountInv, Accounted
<1>7. ASSUME NEW r \in Rules, RecordRaises(p, r) PROVE Counted
  <2>1. pass'[p] = NoPass
    BY <1>2, <1>7 DEF RecordRaises
  <2>2. Marking' \subseteq Marking /\ InHand' \subseteq InHand
    <3>1. \A q \in Rules : ~Marked(p, q)'
      BY <2>1, NoPassIs DEF Marked, Todo
    <3>2. Marking' \subseteq Marking
      BY <1>3, <3>1, MarkingMoves
    <3>3. pass'[p].out <= pass[p].out
      BY <1>2, <2>1, NoPassIs
    <3>4. InHand' \subseteq InHand
      BY <1>2, <1>3, <3>3, HandMoves
    <3> QED
      BY <3>2, <3>4
  <2>3. /\ IsFiniteSet(Marking') /\ Cardinality(Marking') \in Nat /\ Cardinality(Marking') <= m
        /\ IsFiniteSet(InHand') /\ Cardinality(InHand') \in Nat /\ Cardinality(InHand') <= h
    BY <2>2, CountMoves, FS_CardinalityType DEF CountInv
  <2>4. "deleted" \in mishaps' /\ UNCHANGED <<channel, digest, missing>>
    BY <1>7 DEF RecordRaises
  <2>5. Accounted'
    BY <2>4 DEF Accounted
  <2> HIDE DEF m, h
  <2>6. m = Cardinality(Marking) /\ h = Cardinality(InHand)
    BY DEF m, h
  <2>7. missing' >= Owed'
    BY <1>1, <2>3, <2>4, <2>6 DEF CountInv
  <2> QED
    BY <1>1, <2>3, <2>4, <2>5, <2>7 DEF Counted, CountInv
<1>8. ASSUME NEW r \in Rules, MarkFired(p, r) PROVE Counted
  <2>1. /\ pass'[p].out = pass[p].out + 1
        /\ DOMAIN Todo(p)' = DOMAIN Todo(p) \ {r}
        /\ \A q \in DOMAIN Todo(p)' : Todo(p)'[q] = Todo(p)[q]
    <3>1. pass[p].out + 1 \in Nat
      BY <1>2
    <3> QED
      BY <1>8, <3>1, DoneType DEF MarkFired
  <2>2. /\ Marked(p, r) /\ ~Marked(p, r)'
        /\ \A s \in Rules \ {r} : Marked(p, s)' <=> Marked(p, s)
    BY <1>8, <2>1 DEF Marked, MarkFired
  <2>3. Marking' = Marking \ {<<p, r>>} /\ <<p, r>> \in Marking
    BY <1>3, <2>2, MarkingMoves
  <2>4. \E e : InHand' = InHand \cup {e} /\ e \notin InHand
    BY <1>2, <1>3, <2>1, HandMoves
  <2>5. /\ IsFiniteSet(Marking') /\ Cardinality(Marking') = m - 1
        /\ IsFiniteSet(InHand') /\ Cardinality(InHand') = h + 1
    BY <2>3, <2>4, CountMoves DEF CountInv
  <2> HIDE DEF m, h
  <2>6. m = Cardinality(Marking) /\ h = Cardinality(InHand)
    BY DEF m, h
  <2> QED
    BY <1>1, <1>8, <2>5, <2>6 DEF MarkFired, Counted, CountInv, Accounted
<1>9. ASSUME NEW r \in Rules, Rearm(p, r) PROVE Counted
  <2>1. /\ pass'[p].out = pass[p].out
        /\ DOMAIN Todo(p)' = DOMAIN Todo(p) \ {r}
        /\ \A q \in DOMAIN Todo(p)' : Todo(p)'[q] = Todo(p)[q]
    BY <1>2, <1>9, DoneType DEF Rearm
  <2>2. \A s \in Rules : Marked(p, s)' <=> Marked(p, s)
    BY <1>9, <2>1 DEF Marked, Rearm
  <2>3. Marking' = Marking /\ InHand' = InHand
    BY <1>2, <1>3, <2>1, <2>2, MarkingMoves, HandMoves
  <2> QED
    BY <1>4, <1>9, <2>3 DEF Rearm
<1>10. CASE Deliver(p)
  <2>1. pass[p].step = "deliver" /\ pass[p].out > 0 /\ DOMAIN Todo(p) = {}
    BY <1>10 DEF Deliver, PassInv, PassesOK
  <2>2. pass'[p] = IF pass[p].out = 1 THEN NoPass ELSE [pass[p] EXCEPT !.out = @ - 1]
    BY <1>2, <1>10 DEF Deliver
  <2>3. pass[p].out = pass'[p].out + 1 /\ DOMAIN Todo(p)' = {}
    BY <1>2, <2>1, <2>2, NoPassIs DEF Todo, Pass
  <2>4. \A s \in Rules : Marked(p, s)' <=> Marked(p, s)
    BY <2>1, <2>3 DEF Marked
  <2>5. Marking' = Marking /\ \E e : InHand' = InHand \ {e} /\ e \in InHand
    BY <1>2, <1>3, <2>3, <2>4, MarkingMoves, HandMoves
  <2>6. IsFiniteSet(InHand') /\ Cardinality(InHand') = h - 1
    BY <2>5, CountMoves DEF CountInv
  <2>7. \/ missing' = missing - 1 /\ channel'.buffer = channel.buffer
        \/ missing' = missing /\ channel'.buffer = channel.buffer + 1
    BY <1>10 DEF Deliver, Throttled, PassInv, AlertTypeOK
  <2> HIDE DEF m, h
  <2>8. m = Cardinality(Marking) /\ h = Cardinality(InHand)
    BY DEF m, h
  <2>9. h - 1 \in Nat
    BY <2>6, FS_CardinalityType
  <2> QED
    BY <1>1, <1>10, <2>5, <2>6, <2>7, <2>8, <2>9 DEF Deliver, Counted, CountInv, Accounted
<1> QED
    BY <1>5, <1>6, <1>7, <1>8, <1>9, <1>10 DEF PassStep

\* Everybody else.
LEMMA CountStep == PassInv /\ CountInv /\ [AlertNext]_vars => Counted
<1> SUFFICES ASSUME PassInv, CountInv, [AlertNext]_vars PROVE Counted
    OBVIOUS
<1> DEFINE m == Cardinality(Marking)
           h == Cardinality(InHand)
<1> USE DEF Owed
<1>1. /\ channel.buffer \in Nat /\ digest \in Nat /\ missing \in Nat
      /\ m \in Nat /\ h \in Nat
    BY CountMoves DEF PassInv, AlertTypeOK, CountInv
<1>2. ASSUME UNCHANGED pass PROVE UNCHANGED <<Marking, InHand>>
    BY <1>2 DEF Marking, Marked, Todo, InHand
<1>3. ASSUME UNCHANGED <<pass, digest, missing>>, mishaps \subseteq mishaps',
             channel'.buffer = channel.buffer
      PROVE  Counted
    BY <1>1, <1>2, <1>3 DEF Counted, CountInv, Accounted
<1>4. ASSUME NEW p \in Passes, Start(p) \/ PassStep(p) PROVE Counted
    BY <1>4, PassCounts
<1>5. ASSUME NEW r \in Rules, save_rule(r) \/ patch_rule(r) \/ delete_rule(r) PROVE Counted
    BY <1>3, <1>5 DEF save_rule, patch_rule, delete_rule
<1>6. ASSUME NEW r \in Rules, NEW z \in Zones, PriceMoves(r, z) PROVE Counted
    BY <1>3, <1>6 DEF PriceMoves
<1>7. CASE FlushBuffer
  <2>1. channel'.buffer = 0 /\ digest' = channel.buffer /\ digest = 0 /\ UNCHANGED <<missing, mishaps, pass>>
    BY <1>7 DEF FlushBuffer, PassInv, AlertTypeOK
  <2> QED
    BY <1>1, <1>2, <2>1 DEF Counted, CountInv, Accounted
<1>8. CASE SendDigest \/ DiscardDigest
    BY <1>1, <1>2, <1>8 DEF SendDigest, DiscardDigest, Counted, CountInv, Accounted
<1>9. CASE TimePasses
  <2>1. channel'.buffer = channel.buffer
    BY <1>9 DEF TimePasses, PassInv, AlertTypeOK
  <2> QED
    BY <1>3, <1>9, <2>1 DEF TimePasses
<1>10. CASE Crash
  <2>1. \A p \in Passes : pass'[p] = NoPass
    BY <1>10 DEF Crash
  <2>2. Marking' = {} /\ InHand' = {}
    BY <2>1, NoPassIs DEF Marking, Marked, Todo, InHand
  <2>3. IsFiniteSet({}) /\ Cardinality({}) = 0
    BY FS_EmptySet
  <2> QED
    BY <1>1, <1>10, <2>2, <2>3 DEF Crash, Counted, CountInv, Accounted
<1>11. CASE UNCHANGED vars
    BY <1>3, <1>11 DEF vars
<1> QED
    BY <1>4, <1>5, <1>6, <1>7, <1>8, <1>9, <1>10, <1>11 DEF AlertNext

-----------------------------------------------------------------------------

\* Whatever the prices, the rules and the threads do, the types stay, and so does
\* what a pass may be in the middle of.
LEMMA PassInvStep == PassInv /\ CountInv /\ [AlertNext]_vars => PassInv'
<1> SUFFICES ASSUME PassInv, CountInv, [AlertNext]_vars PROVE PassInv'
    OBVIOUS
<1> DEFINE Channels == [count : 0..MAX_PER_MINUTE, buffer : Nat, old : BOOLEAN, quiet : BOOLEAN,
                        addressed : BOOLEAN]
           Lasts == [cleared : BOOLEAN, told : BOOLEAN, age : 0..COOLDOWN]
<1>1. /\ row \in OfSomeRules(Rows) /\ zone \in [Rules -> Zones] /\ pass \in [Passes -> Pass]
      /\ channel \in Channels /\ digest \in Nat /\ last \in [Rules -> Lasts]
      /\ mishaps \subseteq Mishaps /\ PassesOK
    BY DEF PassInv, AlertTypeOK, Rows, Items, Pass
<1>2. missing' \in Nat
    BY CountStep DEF Counted
<1>3. ASSUME row' \in OfSomeRules(Rows), zone' \in [Rules -> Zones], pass' \in [Passes -> Pass],
             channel' \in Channels, digest' \in Nat, last' \in [Rules -> Lasts],
             mishaps' \subseteq Mishaps, PassesOK'
      PROVE  PassInv'
    BY <1>2, <1>3 DEF PassInv, AlertTypeOK, Rows, Items, Pass
<1>4. ASSUME UNCHANGED pass PROVE pass' \in [Passes -> Pass] /\ PassesOK'
    BY <1>1, <1>4 DEF PassesOK, Todo
<1>5. COOLDOWN \in Nat /\ COOLDOWN > 0 /\ MAX_PER_MINUTE \in Nat /\ MAX_PER_MINUTE > 0
    BY AlertAssumption
<1>6. DOMAIN row \in SUBSET Rules /\ row \in [DOMAIN row -> Rows]
    BY <1>1, OfSomeRulesIs
<1>7. ASSUME NEW p \in Passes, NEW r \in Rules, RecordEvent(p, r) PROVE PassInv'
  <2>1. last' \in [Rules -> Lasts]
    BY <1>1, <1>5, <1>7 DEF RecordEvent
  <2> QED
    BY <1>1, <1>3, <1>7, <2>1, PassMoves DEF PassStep, RecordEvent
<1>8. ASSUME NEW p \in Passes, NEW r \in Rules, RecordRaises(p, r) PROVE PassInv'
    BY <1>1, <1>3, <1>8, PassMoves DEF PassStep, RecordRaises, Mishaps
<1>9. ASSUME NEW p \in Passes, NEW r \in Rules, MarkFired(p, r) \/ Rearm(p, r) PROVE PassInv'
  <2>1. pass' \in [Passes -> Pass] /\ PassesOK'
    BY <1>9, PassMoves DEF PassStep
  <2>2. r \in DOMAIN Todo(p) => Todo(p)[r].age \in 0..COOLDOWN
    <3>1. Todo(p) \in OfSomeRules(Items)
      BY <1>1 DEF Todo, Pass
    <3>2. r \in DOMAIN Todo(p) => Todo(p)[r] \in Items
      BY <3>1, OfSomeRulesIs
    <3> QED
      BY <3>2 DEF Items
  <2>3. row' \in OfSomeRules(Rows)
    BY <1>5, <1>9, <2>2, UpdateType DEF MarkFired, Rearm, PassInv
  <2>4. last' \in [Rules -> Lasts]
    BY <1>1, <1>9 DEF MarkFired, Rearm
  <2> QED
    BY <1>1, <1>3, <1>9, <2>1, <2>3, <2>4 DEF MarkFired, Rearm
<1>10. ASSUME NEW p \in Passes, Start(p) \/ Deliver(p) PROVE PassInv'
  <2>1. pass' \in [Passes -> Pass] /\ PassesOK'
    BY <1>10, PassMoves DEF PassStep
  <2>2. CASE Start(p)
    BY <1>1, <1>3, <2>1, <2>2 DEF Start, Mishaps
  <2>3. CASE Deliver(p)
    <3>1. Throttled \in Channels
      BY <1>1, <1>5 DEF Throttled
    <3>2. channel' \in Channels
      BY <2>3, <3>1 DEF Deliver
    <3> QED
      BY <1>1, <1>3, <2>1, <2>3, <3>2 DEF Deliver
  <2> QED
    BY <1>10, <2>2, <2>3
<1>11. ASSUME NEW r \in Rules, save_rule(r) PROVE PassInv'
  <2>1. row' \in [DOMAIN row \cup {r} -> Rows]
    BY <1>5, <1>6, <1>11 DEF save_rule, NewRule, Never, Rows
  <2>2. row' \in OfSomeRules(Rows)
    BY <1>6, <2>1, OfSomeRulesIs
  <2>3. last' \in [Rules -> Lasts]
    BY <1>1, <1>5, <1>11 DEF save_rule, NoEvent
  <2> QED
    BY <1>1, <1>3, <1>4, <1>11, <2>2, <2>3 DEF save_rule, Mishaps
<1>12. ASSUME NEW r \in Rules, patch_rule(r) PROVE PassInv'
  <2>1. row' \in [DOMAIN row -> Rows]
    BY <1>6, <1>12 DEF patch_rule, Rows
  <2>2. row' \in OfSomeRules(Rows)
    BY <1>6, <2>1, OfSomeRulesIs
  <2> QED
    BY <1>1, <1>3, <1>4, <1>12, <2>2 DEF patch_rule
<1>13. ASSUME NEW r \in Rules, delete_rule(r) PROVE PassInv'
  <2>1. row' \in OfSomeRules(Rows)
    BY <1>1, <1>13, RestrictIs DEF delete_rule
  <2> QED
    BY <1>1, <1>3, <1>4, <1>13, <2>1 DEF delete_rule
<1>14. ASSUME NEW r \in Rules, NEW z \in Zones, PriceMoves(r, z) PROVE PassInv'
  <2>1. zone' \in [Rules -> Zones] /\ last' \in [Rules -> Lasts]
    BY <1>1, <1>14 DEF PriceMoves
  <2> QED
    BY <1>1, <1>3, <1>4, <1>14, <2>1 DEF PriceMoves
<1>15. CASE FlushBuffer
  <2>1. channel' \in Channels /\ digest' \in Nat
    <3>1. /\ channel' = [channel EXCEPT !.count = 0, !.buffer = 0, !.old = FALSE, !.quiet = FALSE]
          /\ digest' = channel.buffer
      BY <1>15 DEF FlushBuffer
    <3>2. 0 \in 0..MAX_PER_MINUTE /\ 0 \in Nat
      BY <1>5
    <3> QED
      BY <1>1, <3>1, <3>2
  <2> QED
    BY <1>1, <1>3, <1>4, <1>15, <2>1 DEF FlushBuffer
<1>16. CASE SendDigest \/ DiscardDigest
  <2>1. /\ UNCHANGED <<row, zone, pass, channel, last>> /\ digest' = 0
        /\ mishaps' \subseteq mishaps \cup {"discarded"}
    BY <1>16 DEF SendDigest, DiscardDigest
  <2>2. mishaps' \subseteq Mishaps
    BY <1>1, <2>1 DEF Mishaps
  <2> QED
    BY <1>1, <1>3, <1>4, <2>1, <2>2
<1>17. CASE TimePasses
  <2>1. \A age \in 0..COOLDOWN : Later(age) \in 0..COOLDOWN
    BY <1>5 DEF Later
  <2>2. row' \in [DOMAIN row -> Rows]
    BY <1>6, <1>17, <2>1 DEF TimePasses, Rows
  <2>3. row' \in OfSomeRules(Rows)
    BY <1>6, <2>2, OfSomeRulesIs
  <2>4. last' \in [Rules -> Lasts]
    BY <1>1, <1>17, <2>1 DEF TimePasses
  <2>5. channel' \in Channels
    BY <1>1, <1>17 DEF TimePasses
  <2> QED
    BY <1>1, <1>3, <1>4, <1>17, <2>3, <2>4, <2>5 DEF TimePasses
<1>18. CASE Crash
  <2>1. pass' \in [Passes -> Pass] /\ PassesOK'
    BY <1>18, NoPassIs DEF Crash, PassesOK, Todo
  <2> QED
    BY <1>1, <1>3, <1>18, <2>1 DEF Crash, Mishaps
<1>19. CASE UNCHANGED vars
    BY <1>1, <1>3, <1>4, <1>19 DEF vars
<1> HIDE DEF Channels, Lasts
<1> QED
    BY <1>7, <1>8, <1>9, <1>10, <1>11, <1>12, <1>13, <1>14, <1>15, <1>16, <1>17, <1>18, <1>19
    DEF AlertNext, PassStep

AlertInv == PassInv /\ CountInv

LEMMA AlertInvInit == AlertInit => AlertInv
<1> SUFFICES ASSUME AlertInit PROVE AlertInv
    OBVIOUS
<1>1. COOLDOWN \in Nat /\ COOLDOWN > 0 /\ MAX_PER_MINUTE \in Nat /\ MAX_PER_MINUTE > 0
    BY AlertAssumption
<1>2. pass \in [Passes -> Pass] /\ \A p \in Passes : pass[p] = NoPass
    BY NoPassIs DEF AlertInit
<1>3. PassesOK
    BY <1>2, NoPassIs DEF PassesOK, Todo
<1>4. row \in OfSomeRules(Rows)
  <2>1. row \in [Rules -> Rows]
    BY <1>1 DEF AlertInit, NewRule, Never, Rows
  <2> QED
    BY <2>1, OfSomeRulesIs
<1>5. AlertTypeOK
  <2>1. /\ zone \in [Rules -> Zones] /\ digest \in Nat /\ missing \in Nat
        /\ channel \in [count : 0..MAX_PER_MINUTE, buffer : Nat, old : BOOLEAN, quiet : BOOLEAN,
                        addressed : BOOLEAN]
        /\ last \in [Rules -> [cleared : BOOLEAN, told : BOOLEAN, age : 0..COOLDOWN]]
        /\ mishaps = {}
    <3>1. 0 \in 0..MAX_PER_MINUTE /\ COOLDOWN \in 0..COOLDOWN
      BY <1>1
    <3>2. channel \in [count : 0..MAX_PER_MINUTE, buffer : Nat, old : BOOLEAN, quiet : BOOLEAN,
                       addressed : BOOLEAN]
      <4>1. PICK b \in BOOLEAN :
              channel = [count |-> 0, buffer |-> 0, old |-> TRUE, quiet |-> TRUE, addressed |-> b]
        BY DEF AlertInit
      <4> QED
        BY <3>1, <4>1
    <3>3. last \in [Rules -> [cleared : BOOLEAN, told : BOOLEAN, age : 0..COOLDOWN]]
      BY <3>1 DEF AlertInit, NoEvent
    <3> QED
      BY <3>2, <3>3 DEF AlertInit, Zones
  <2> QED
    BY <1>2, <1>4, <2>1 DEF AlertTypeOK, Rows, Items, Pass, Mishaps
<1>6. Marking = {} /\ InHand = {}
    BY <1>2, NoPassIs DEF Marking, Marked, Todo, InHand
<1>7. IsFiniteSet({}) /\ Cardinality({}) = 0
    BY FS_EmptySet
<1>8. CountInv
    BY <1>6, <1>7 DEF AlertInit, CountInv, Accounted, Owed
<1> QED
    BY <1>3, <1>5, <1>8 DEF AlertInv, PassInv

THEOREM AlertInvariant == AlertSpec => []AlertInv
<1>1. AlertInit => AlertInv
    BY AlertInvInit
<1>2. AlertInv /\ [AlertNext]_vars => AlertInv'
    BY PassInvStep, CountStep DEF AlertInv, Counted
<1> QED
    BY <1>1, <1>2, PTL DEF AlertSpec

\* Typing.  That missing stays a natural number says that no more events are sent,
\* alone or in digests, than were recorded, whatever dies or is deleted.
THEOREM AlertTypeCorrect == AlertSpec => []AlertTypeOK
<1>1. AlertInv => AlertTypeOK
    BY DEF AlertInv, PassInv
<1> QED
    BY <1>1, AlertInvariant, PTL

\* However many passes, channels' windows and digests: a recorded event that was
\* not sent is with a pass, in the buffer or in the digest, unless the process died,
\* a rule was deleted under a pass or a digest had no target.
THEOREM EventsAreAccounted == AlertSpec => []Accounted
<1>1. AlertInv => Accounted
    BY DEF AlertInv, CountInv
<1> QED
    BY <1>1, AlertInvariant, PTL

-----------------------------------------------------------------------------
(* When a rule may fire *)

Calm == mishaps \cap {"crash", "overlap"} = {}

\* An event of the rule is recorded, and its row does not say so yet.
Reported(r) == \E p \in Passes : Marked(p, r)

\* The row says at least that the last event is as recent as it is, and is armed
\* only if the price has been beyond the hysteresis since.
RowKnows(r) == row[r].age <= last[r].age /\ (row[r].state = "armed" => last[r].cleared)

\* What a pass read is still true when it acts on it.
TodoKnows(p, r) ==
    /\ Todo(p)[r].act = "fire" =>
         last[r].age = COOLDOWN /\ (r \in CrossRules => last[r].cleared)
    /\ Todo(p)[r].act = "rearm" => last[r].cleared /\ Todo(p)[r].age <= last[r].age

OneRuns == \A p, q \in Passes : Runs(p) /\ Runs(q) => p = q
RowsKnow == \A r \in DOMAIN row : Reported(r) \/ RowKnows(r)
TodosKnow == \A p \in Passes : \A r \in DOMAIN Todo(p) : TodoKnows(p, r)

CrossInv ==
    /\ \A r \in Rules : zone[r] = "below" => last[r].cleared
    /\ Calm => OneRuns /\ RowsKnow /\ TodosKnow

\* Typing, in the form in which the next proofs use it.
TypesOK ==
    /\ COOLDOWN \in Nat
    /\ DOMAIN row \in SUBSET Rules /\ row \in [DOMAIN row -> Rows]
    /\ \A r \in DOMAIN row :
         row[r].age \in 0..COOLDOWN /\ row[r].state \in {"armed", "fired"}
    /\ last \in [Rules -> [cleared : BOOLEAN, told : BOOLEAN, age : 0..COOLDOWN]]
    /\ \A r \in Rules : last[r].age \in 0..COOLDOWN /\ last[r].cleared \in BOOLEAN
    /\ pass \in [Passes -> Pass]
    /\ \A p \in Passes : DOMAIN Todo(p) \in SUBSET Rules /\ (~Runs(p) => DOMAIN Todo(p) = {})
    /\ \A p \in Passes : \A r \in DOMAIN Todo(p) : Todo(p)[r] \in Items

LEMMA Types == PassInv => TypesOK
<1> SUFFICES ASSUME PassInv PROVE TypesOK
    OBVIOUS
<1>1. row \in OfSomeRules(Rows) /\ pass \in [Passes -> Pass]
    BY DEF PassInv, AlertTypeOK, Rows, Items, Pass
<1>2. DOMAIN row \in SUBSET Rules /\ row \in [DOMAIN row -> Rows]
    BY <1>1, OfSomeRulesIs
<1>3. \A p \in Passes : Todo(p) \in OfSomeRules(Items)
    BY <1>1 DEF Todo, Pass
<1>4. \A p \in Passes : /\ DOMAIN Todo(p) \in SUBSET Rules
                        /\ \A r \in DOMAIN Todo(p) : Todo(p)[r] \in Items
    BY <1>3, OfSomeRulesIs
<1>5. \A p \in Passes : ~Runs(p) => DOMAIN Todo(p) = {}
    BY DEF PassInv, PassesOK, Runs
<1>6. last \in [Rules -> [cleared : BOOLEAN, told : BOOLEAN, age : 0..COOLDOWN]]
    BY DEF PassInv, AlertTypeOK
<1>7. \A r \in Rules : last[r].age \in 0..COOLDOWN /\ last[r].cleared \in BOOLEAN
    BY <1>6
<1>8. \A r \in DOMAIN row : row[r].age \in 0..COOLDOWN /\ row[r].state \in {"armed", "fired"}
    BY <1>2 DEF Rows
<1> QED
    BY <1>1, <1>2, <1>4, <1>5, <1>6, <1>7, <1>8, AlertAssumption DEF TypesOK

LEMMA TypesNext == PassInv' => TypesOK'
BY Types, PTL

\* Where no pass is between its two transactions, every row knows.
LEMMA AllRowsKnow ==
    ASSUME PassInv, RowsKnow, OneRuns, NEW p \in Passes, Runs(p), "mark" \notin Acts(p)
    PROVE  \A r \in DOMAIN row : RowKnows(r)
<1>1. \A q \in Passes, r \in Rules : ~Marked(q, r)
    BY Types DEF TypesOK, OneRuns, Marked, Acts
<1> QED
    BY <1>1, Types DEF TypesOK, RowsKnow, Reported

\* The step of a pass that acts on rule r: what has to be shown is about r alone.
LEMMA ActsOnOne ==
    ASSUME PassInv, PassInv', CrossInv, Calm, NEW p \in Passes, NEW r \in Rules, Runs(p),
           \A q \in Passes \ {p} : pass'[q] = pass[q],
           zone' = zone,
           \A s \in Rules \ {r} : last'[s] = last[s],
           zone[r] = "below" => last'[r].cleared,
           DOMAIN row' = DOMAIN row,
           \A s \in DOMAIN row \ {r} : row'[s] = row[s] /\ (Marked(p, s) => Marked(p, s)'),
           r \in DOMAIN row => Marked(p, r)' \/ RowKnows(r)',
           \A s \in DOMAIN Todo(p)' \ {r} : s \in DOMAIN Todo(p) /\ Todo(p)'[s] = Todo(p)[s],
           r \in DOMAIN Todo(p)' => Todo(p)'[r].act = "mark"
    PROVE  CrossInv'
<1>1. \A q \in Passes \ {p} : ~Runs(q) /\ ~Runs(q)' /\ DOMAIN Todo(q) = {} /\ DOMAIN Todo(q)' = {}
    BY Types DEF TypesOK, CrossInv, OneRuns, Runs, Todo
<1>2. OneRuns'
    BY <1>1 DEF OneRuns
<1>3. RowsKnow'
  <2> SUFFICES ASSUME NEW s \in DOMAIN row' PROVE Reported(s)' \/ RowKnows(s)'
      BY DEF RowsKnow
  <2>1. CASE s = r
      BY <2>1 DEF Reported
  <2>2. CASE s # r
    <3>1. s \in Rules /\ row'[s] = row[s] /\ last'[s] = last[s]
      BY <2>2, Types DEF TypesOK
    <3>2. Marked(p, s) \/ RowKnows(s)
      BY <1>1, <3>1 DEF CrossInv, RowsKnow, Reported, Marked
    <3> QED
      BY <2>2, <3>1, <3>2 DEF Reported, RowKnows
  <2> QED
      BY <2>1, <2>2
<1>4. TodosKnow'
  <2> SUFFICES ASSUME NEW s \in DOMAIN Todo(p)' PROVE TodoKnows(p, s)'
      BY <1>1 DEF TodosKnow
  <2>1. CASE s = r
      BY <2>1 DEF TodoKnows
  <2>2. CASE s # r
    <3>1. s \in DOMAIN Todo(p) /\ Todo(p)'[s] = Todo(p)[s] /\ s \in Rules
      BY <2>2, Types DEF TypesOK
    <3>2. TodoKnows(p, s) /\ last'[s] = last[s]
      BY <2>2, <3>1 DEF CrossInv, TodosKnow
    <3> QED
      BY <3>1, <3>2 DEF TodoKnows
  <2> QED
      BY <2>1, <2>2
<1>5. \A s \in Rules : zone'[s] = "below" => last'[s].cleared
    BY DEF CrossInv
<1> QED
    BY <1>2, <1>3, <1>4, <1>5 DEF CrossInv

\* Where no pass moves, a rule only gets further from its last event.
LEMMA OnlyGetsFurther ==
    ASSUME PassInv, PassInv', CrossInv, UNCHANGED pass, mishaps \subseteq mishaps',
           \A r \in Rules : /\ zone'[r] = "below" => last'[r].cleared
                            /\ last[r].age <= last'[r].age /\ (last[r].cleared => last'[r].cleared),
           \A r \in DOMAIN row' :
              \/ r \in DOMAIN row /\ row'[r].age = row[r].age /\ row'[r].state = row[r].state
              \/ RowKnows(r)'
    PROVE  CrossInv'
<1>1. \A p \in Passes, r \in Rules : Marked(p, r)' <=> Marked(p, r)
    BY DEF Marked, Todo
<1>2. OneRuns => OneRuns'
    BY DEF OneRuns, Runs
<1>3. RowsKnow => RowsKnow'
  <2> SUFFICES ASSUME RowsKnow, NEW r \in DOMAIN row' PROVE Reported(r)' \/ RowKnows(r)'
      BY DEF RowsKnow
  <2>1. r \in Rules
      BY Types, TypesNext DEF TypesOK
  <2>2. CASE r \in DOMAIN row /\ row'[r].age = row[r].age /\ row'[r].state = row[r].state
    <3>1. Reported(r) \/ RowKnows(r)
      BY <2>2 DEF RowsKnow
    <3>2. Reported(r) => Reported(r)'
      BY <1>1, <2>1 DEF Reported
    <3>3. /\ row[r].age \in Int /\ last[r].age \in Int /\ last'[r].age \in Int
      BY <2>1, <2>2, Types, TypesNext DEF TypesOK
    <3>4. RowKnows(r) => RowKnows(r)'
      BY <2>1, <2>2, <3>3 DEF RowKnows
    <3> QED
      BY <3>1, <3>2, <3>4
  <2> QED
      BY <2>2
<1>4. TodosKnow => TodosKnow'
  <2> SUFFICES ASSUME TodosKnow, NEW p \in Passes, NEW r \in DOMAIN Todo(p)' PROVE TodoKnows(p, r)'
      BY DEF TodosKnow
  <2>1. r \in DOMAIN Todo(p) /\ Todo(p)' = Todo(p) /\ r \in Rules /\ TodoKnows(p, r)
      BY Types, TypesNext DEF TypesOK, Todo, TodosKnow
  <2>2. /\ COOLDOWN \in Nat /\ last[r].age \in 0..COOLDOWN /\ last'[r].age \in 0..COOLDOWN
        /\ Todo(p)[r].age \in 0..COOLDOWN
      BY <2>1, Types, TypesNext DEF TypesOK, Items
  <2> QED
      BY <2>1, <2>2 DEF TodoKnows
<1> QED
    BY <1>2, <1>3, <1>4 DEF CrossInv, Calm

\* The steps of a pass.
LEMMA PassKeepsCrossInv ==
    ASSUME PassInv, PassInv', CrossInv, NEW p \in Passes, PassStep(p)
    PROVE  CrossInv'
<1> USE DEF Calm
<1>0. TypesOK /\ TypesOK'
    BY Types, TypesNext
<1>1. /\ \A q \in Passes \ {p} : pass'[q] = pass[q]
      /\ pass \in [Passes -> Pass]
    BY <1>0, PassMoves DEF TypesOK
<1>2. ASSUME ~Calm', \A r \in Rules : zone'[r] = "below" => last'[r].cleared
      PROVE  CrossInv'
    BY <1>2 DEF CrossInv
<1>3. ASSUME NEW r \in Rules, RecordEvent(p, r) PROVE CrossInv'
  <2>1. r \in DOMAIN Todo(p) /\ UNCHANGED <<row, zone, mishaps>> /\ Runs(p)
    BY <1>3 DEF RecordEvent
  <2>2. Todo(p)' = [Todo(p) EXCEPT ![r].act = "mark"]
    BY <1>1, <1>3 DEF RecordEvent, Todo, Pass
  <2>3. /\ DOMAIN Todo(p)' = DOMAIN Todo(p) /\ Todo(p)'[r].act = "mark"
        /\ \A s \in DOMAIN Todo(p) \ {r} : Todo(p)'[s] = Todo(p)[s]
    BY <1>0, <2>1, <2>2 DEF TypesOK, Items
  <2>4. /\ \A s \in Rules \ {r} : last'[s] = last[s]
        /\ last'[r].cleared = (zone[r] = "below")
    BY <1>0, <1>3 DEF RecordEvent, TypesOK
  <2>5. Marked(p, r)' /\ \A s \in DOMAIN row \ {r} : Marked(p, s) => Marked(p, s)'
    BY <2>1, <2>3 DEF Marked
  <2>6. CASE Calm
    BY <1>1, <2>1, <2>3, <2>4, <2>5, <2>6, ActsOnOne
  <2>7. CASE ~Calm
    BY <1>2, <2>1, <2>4, <2>7 DEF CrossInv
  <2> QED
    BY <2>6, <2>7
<1>4. ASSUME NEW r \in Rules, RecordRaises(p, r) PROVE CrossInv'
  <2>1. /\ UNCHANGED <<row, zone, last>> /\ mishaps' = mishaps \cup {"deleted"}
        /\ Runs(p) /\ "mark" \notin Acts(p)
        /\ Todo(p)' = <<>> /\ ~Runs(p)'
    BY <1>1, <1>4, NoPassIs DEF RecordRaises, Todo, Runs, NoPass
  <2>2. CASE Calm
    <3>1. \A q \in Passes : ~Runs(q)' /\ DOMAIN Todo(q)' = {}
      BY <1>0, <1>1, <2>1, <2>2 DEF CrossInv, OneRuns, Runs, TypesOK
    <3>2. \A s \in DOMAIN row : RowKnows(s)
      BY <2>1, <2>2, AllRowsKnow DEF CrossInv
    <3>3. OneRuns' /\ TodosKnow'
      BY <3>1 DEF OneRuns, TodosKnow
    <3>4. RowsKnow'
      BY <2>1, <3>2 DEF RowsKnow, RowKnows
    <3> QED
      BY <2>1, <3>3, <3>4 DEF CrossInv
  <2>3. CASE ~Calm
    BY <1>2, <2>1, <2>3 DEF CrossInv
  <2> QED
    BY <2>2, <2>3
<1>5. ASSUME NEW r \in Rules, NEW age \in 0..COOLDOWN, NEW state \in {"armed", "fired"},
             NEW out \in Nat, Runs(p), r \in DOMAIN Todo(p),
             update_fire_state(r, age, state), Done(p, r, out), UNCHANGED <<zone, mishaps>>,
             \A s \in Rules : last'[s].age = last[s].age /\ last'[s].cleared = last[s].cleared,
             \A s \in Rules \ {r} : last'[s] = last[s],
             Calm => age <= last[r].age /\ (state = "armed" => last[r].cleared)
      PROVE  CrossInv'
  <2>1. /\ DOMAIN Todo(p)' = DOMAIN Todo(p) \ {r}
        /\ \A s \in DOMAIN Todo(p)' : Todo(p)'[s] = Todo(p)[s]
    BY <1>5, DoneType
  <2>2. /\ DOMAIN row' = DOMAIN row /\ \A s \in DOMAIN row \ {r} : row'[s] = row[s]
        /\ r \in DOMAIN row => row'[r].age = age /\ row'[r].state = state
    BY <1>5, UpdateType DEF PassInv
  <2>3. CASE Calm
    <3>1. r \in DOMAIN row => RowKnows(r)'
      BY <1>5, <2>2, <2>3 DEF RowKnows
    <3>2. \A s \in DOMAIN row \ {r} : Marked(p, s) => Marked(p, s)'
      BY <2>1 DEF Marked
    <3>3. zone[r] = "below" => last'[r].cleared
      BY <1>5 DEF CrossInv
    <3> QED
      BY <1>1, <1>5, <2>1, <2>2, <2>3, <3>1, <3>2, <3>3, ActsOnOne
  <2>4. CASE ~Calm
    BY <1>2, <1>5, <2>4 DEF CrossInv
  <2> QED
    BY <2>3, <2>4
<1>6. ASSUME NEW r \in Rules, MarkFired(p, r) PROVE CrossInv'
  <2>1. pass[p].out + 1 \in Nat
    BY <1>1 DEF Pass
  <2>2. 0 \in 0..COOLDOWN /\ 0 <= last[r].age
    BY <1>0 DEF TypesOK
  <2> QED
    BY <1>5, <1>6, <2>1, <2>2 DEF MarkFired
<1>7. ASSUME NEW r \in Rules, Rearm(p, r) PROVE CrossInv'
  <2>1. pass[p].out \in Nat
    BY <1>1 DEF Pass
  <2>2. r \in DOMAIN Todo(p) /\ Todo(p)[r].age \in 0..COOLDOWN
    BY <1>0, <1>7 DEF Rearm, TypesOK, Items
  <2>3. Calm => Todo(p)[r].age <= last[r].age /\ last[r].cleared
    BY <1>7, <2>2 DEF Rearm, CrossInv, TodosKnow, TodoKnows
  <2>4. /\ \A s \in Rules : last'[s].age = last[s].age /\ last'[s].cleared = last[s].cleared
        /\ \A s \in Rules \ {r} : last'[s] = last[s]
    BY <1>0, <1>7 DEF Rearm, TypesOK
  <2> QED
    BY <1>5, <1>7, <2>1, <2>2, <2>3, <2>4 DEF Rearm
<1>8. CASE Deliver(p)
  <2>1. /\ DOMAIN Todo(p) = {} /\ ~Runs(p) /\ UNCHANGED <<row, zone, last, mishaps>>
    BY <1>8 DEF Deliver, PassInv, PassesOK, Runs
  <2>2. ~Runs(p)' /\ DOMAIN Todo(p)' = {}
    BY <1>1, <1>8, <2>1, NoPassIs DEF Deliver, Runs, Todo, Pass
  <2>3. \A q \in Passes : Runs(q)' = Runs(q) /\ DOMAIN Todo(q)' = DOMAIN Todo(q)
                          /\ \A s \in DOMAIN Todo(q) : Todo(q)'[s] = Todo(q)[s]
    BY <1>1, <2>1, <2>2 DEF Runs, Todo
  <2>4. OneRuns => OneRuns'
    BY <2>3 DEF OneRuns
  <2>5. RowsKnow => RowsKnow'
    BY <2>1, <2>3 DEF RowsKnow, Reported, Marked, RowKnows
  <2>6. TodosKnow => TodosKnow'
    BY <2>1, <2>3 DEF TodosKnow, TodoKnows
  <2> QED
    BY <2>1, <2>4, <2>5, <2>6 DEF CrossInv
<1> QED
    BY <1>3, <1>4, <1>6, <1>7, <1>8 DEF PassStep

\* A pass starts: what it reads is true, as no other runs.
LEMMA StartKeepsCrossInv ==
    ASSUME PassInv, PassInv', CrossInv, NEW p \in Passes, Start(p)
    PROVE  CrossInv'
<1>0. TypesOK /\ TypesOK'
    BY Types, TypesNext
<1>1. /\ UNCHANGED <<row, zone, last>>
      /\ mishaps' = mishaps \cup (IF \E q \in Passes : Runs(q) THEN {"overlap"} ELSE {})
    BY DEF Start
<1>2. /\ \A q \in Passes \ {p} : pass'[q] = pass[q]
      /\ Todo(p)' = ToDo
    BY <1>0, PassMoves DEF Start, Todo, TypesOK
<1> SUFFICES ASSUME Calm' PROVE OneRuns' /\ RowsKnow' /\ TodosKnow'
    BY <1>1 DEF CrossInv
<1>3. Calm /\ \A q \in Passes : ~Runs(q)
    BY <1>1 DEF Calm
<1>4. \A q \in Passes \ {p} : ~Runs(q)' /\ DOMAIN Todo(q)' = {}
    BY <1>0, <1>2, <1>3 DEF Runs, Todo, TypesOK
<1>5. \A r \in DOMAIN row : RowKnows(r)
    BY <1>0, <1>3 DEF CrossInv, RowsKnow, Reported, Marked, TypesOK
<1>6. RowsKnow'
    BY <1>1, <1>5 DEF RowsKnow, RowKnows
<1>7. TodosKnow'
  <2> SUFFICES ASSUME NEW r \in DOMAIN ToDo
               PROVE  /\ ToDo[r].act = "fire" =>
                           last[r].age = COOLDOWN /\ (r \in CrossRules => last[r].cleared)
                      /\ ToDo[r].act = "rearm" => last[r].cleared /\ ToDo[r].age <= last[r].age
    BY <1>1, <1>2, <1>4 DEF TodosKnow, TodoKnows
  <2>1. row \in OfSomeRules(Rows)
    BY DEF PassInv, AlertTypeOK, Rows
  <2>2. /\ r \in DOMAIN row /\ ToDo[r].age = row[r].age
        /\ ToDo[r].act = "fire" => Fires(r)
        /\ ToDo[r].act = "rearm" => Rearms(r)
    BY <2>1, ToDoIs
  <2>3. r \in Rules /\ RowKnows(r) /\ (zone[r] = "below" => last[r].cleared)
    BY <1>0, <1>5, <2>2 DEF CrossInv, TypesOK
  <2>4. /\ row[r].age \in 0..COOLDOWN /\ last[r].age \in 0..COOLDOWN /\ COOLDOWN \in Nat
        /\ row[r].state \in {"armed", "fired"}
    BY <1>0, <2>2, <2>3 DEF TypesOK
  <2> QED
    BY <2>2, <2>3, <2>4 DEF Fires, Rearms, RowKnows
<1> QED
    BY <1>4, <1>6, <1>7 DEF OneRuns

\* Time passes only when no pass runs, and for the rows as for their events.
LEMMA TimeKeepsCrossInv ==
    ASSUME PassInv, PassInv', CrossInv, TimePasses
    PROVE  CrossInv'
<1>0. TypesOK /\ TypesOK'
    BY Types, TypesNext
<1>1. \A m, n \in 0..COOLDOWN : /\ m <= n => Later(m) <= Later(n)
                               /\ m <= Later(m)
    BY <1>0 DEF Later, TypesOK
<1>2. /\ \A r \in Rules : last'[r].age = Later(last[r].age) /\ last'[r].cleared = last[r].cleared
      /\ DOMAIN row' = DOMAIN row
      /\ \A r \in DOMAIN row : row'[r].age = Later(row[r].age) /\ row'[r].state = row[r].state
      /\ UNCHANGED <<pass, mishaps, zone>> /\ \A p \in Passes : ~Runs(p)
    BY <1>0 DEF TimePasses, TypesOK, Rows
<1>3. Calm => \A r \in DOMAIN row : RowKnows(r)
    BY <1>0, <1>2 DEF CrossInv, RowsKnow, Reported, Marked, TypesOK
<1>4. Calm => \A r \in DOMAIN row : RowKnows(r)'
  <2> SUFFICES ASSUME Calm, NEW r \in DOMAIN row PROVE RowKnows(r)'
    OBVIOUS
  <2>1. r \in Rules /\ row[r].age \in 0..COOLDOWN /\ last[r].age \in 0..COOLDOWN
    BY <1>0 DEF TypesOK
  <2>2. row[r].age <= last[r].age /\ (row[r].state = "armed" => last[r].cleared)
    BY <1>3 DEF RowKnows
  <2>3. Later(row[r].age) <= Later(last[r].age)
    BY <1>1, <2>1, <2>2
  <2> QED
    BY <1>2, <2>1, <2>2, <2>3 DEF RowKnows
<1>5. \A r \in Rules : last[r].age <= last'[r].age
    BY <1>0, <1>1, <1>2 DEF TypesOK
<1>6. CASE Calm
    BY <1>2, <1>4, <1>5, <1>6, OnlyGetsFurther DEF CrossInv
<1>7. CASE ~Calm
    BY <1>2, <1>7 DEF CrossInv, Calm
<1> QED
    BY <1>6, <1>7

LEMMA CrossInvStep == PassInv /\ PassInv' /\ CrossInv /\ [AlertNext]_vars => CrossInv'
<1> SUFFICES ASSUME PassInv, PassInv', CrossInv, [AlertNext]_vars PROVE CrossInv'
    OBVIOUS
<1>0. TypesOK /\ TypesOK'
    BY Types, TypesNext
<1>1. ASSUME UNCHANGED <<pass, zone, last>>, mishaps \subseteq mishaps',
             \A r \in DOMAIN row' : r \in DOMAIN row /\ row'[r].age = row[r].age
                                                     /\ row'[r].state = row[r].state
      PROVE  CrossInv'
  <2>1. \A r \in Rules : last[r].age <= last'[r].age
    BY <1>0, <1>1 DEF TypesOK
  <2> QED
    BY <1>1, <2>1, OnlyGetsFurther DEF CrossInv
<1>2. ASSUME NEW p \in Passes, Start(p) PROVE CrossInv'
    BY <1>2, StartKeepsCrossInv
<1>3. ASSUME NEW p \in Passes, PassStep(p) PROVE CrossInv'
    BY <1>3, PassKeepsCrossInv
<1>4. ASSUME NEW r \in Rules, save_rule(r) PROVE CrossInv'
  <2>1. UNCHANGED <<zone, pass>> /\ mishaps \subseteq mishaps'
        /\ last'[r].cleared = TRUE /\ last'[r].age = COOLDOWN
        /\ \A q \in Rules \ {r} : last'[q] = last[q]
    BY <1>0, <1>4 DEF save_rule, TypesOK, NoEvent
  <2>2. \A q \in Rules : /\ zone'[q] = "below" => last'[q].cleared
                         /\ last[q].age <= last'[q].age /\ (last[q].cleared => last'[q].cleared)
    <3>1. /\ COOLDOWN \in Nat /\ last[r].age \in 0..COOLDOWN /\ last[r].cleared \in BOOLEAN
          /\ \A q \in Rules : last[q].age <= last[q].age /\ (zone[q] = "below" => last[q].cleared)
      BY <1>0 DEF CrossInv, TypesOK
    <3>2. last[r].age <= last'[r].age /\ last'[r].cleared
      BY <2>1, <3>1
    <3> QED
      BY <2>1, <3>1, <3>2
  <2>3. \A q \in DOMAIN row' : q # r => q \in DOMAIN row /\ row'[q] = row[q]
    BY <1>4 DEF save_rule
  <2>4. r \in DOMAIN row' => RowKnows(r)'
    BY <1>0, <1>4, <2>1 DEF save_rule, RowKnows, NewRule, Never, TypesOK
  <2> QED
    BY <2>1, <2>2, <2>3, <2>4, OnlyGetsFurther
<1>5. ASSUME NEW r \in Rules, patch_rule(r) PROVE CrossInv'
  <2>1. DOMAIN row' = DOMAIN row
        /\ \A q \in DOMAIN row : row'[q].age = row[q].age /\ row'[q].state = row[q].state
    BY <1>0, <1>5 DEF patch_rule, TypesOK, Rows
  <2> QED
    BY <1>1, <1>5, <2>1 DEF patch_rule
<1>6. ASSUME NEW r \in Rules, delete_rule(r) PROVE CrossInv'
    BY <1>1, <1>6 DEF delete_rule, Restrict
<1>7. ASSUME NEW r \in Rules, NEW z \in Zones, PriceMoves(r, z) PROVE CrossInv'
  <2>1. /\ UNCHANGED <<row, pass, mishaps>> /\ zone' = [zone EXCEPT ![r] = z]
        /\ \A q \in Rules \ {r} : last'[q] = last[q]
        /\ last'[r].age = last[r].age /\ last'[r].cleared = (last[r].cleared \/ z = "below")
    BY <1>0, <1>7 DEF PriceMoves, TypesOK
  <2>2. zone \in [Rules -> Zones]
    BY DEF PassInv, AlertTypeOK
  <2>3. \A q \in Rules : /\ zone'[q] = "below" => last'[q].cleared
                         /\ last[q].age <= last'[q].age /\ (last[q].cleared => last'[q].cleared)
    BY <1>0, <2>1, <2>2 DEF CrossInv, TypesOK
  <2> QED
    BY <2>1, <2>3, OnlyGetsFurther
<1>8. CASE FlushBuffer \/ SendDigest \/ DiscardDigest \/ UNCHANGED vars
    BY <1>1, <1>8 DEF FlushBuffer, SendDigest, DiscardDigest, vars
<1>9. CASE TimePasses
    BY <1>9, TimeKeepsCrossInv
<1>10. CASE Crash
    BY <1>10 DEF Crash, CrossInv, Calm
<1> QED
    BY <1>2, <1>3, <1>4, <1>5, <1>6, <1>7, <1>8, <1>9, <1>10 DEF AlertNext

\* "Only fire on the transition": as long as passes do not overlap and none dies, two
\* events of a rule are a cooldown apart, and a price rule fires again only after
\* the price has been beyond the hysteresis; whatever happens to rules meanwhile.
THEOREM CrossingsFireOnce == AlertSpec => OneEventPerCrossing
<1>1. AlertInit => CrossInv
  <2> SUFFICES ASSUME AlertInit PROVE CrossInv
    OBVIOUS
  <2>1. TypesOK
    BY AlertInvInit, Types DEF AlertInv
  <2>2. \A p \in Passes : pass[p] = NoPass /\ ~Runs(p) /\ DOMAIN Todo(p) = {}
    BY NoPassIs DEF AlertInit, Runs, Todo
  <2>3. \A r \in Rules : last[r].cleared /\ last[r].age = COOLDOWN
    BY DEF AlertInit, NoEvent
  <2>4. \A r \in DOMAIN row : r \in Rules /\ RowKnows(r)
    BY <2>1, <2>3 DEF AlertInit, RowKnows, TypesOK, NewRule, Never
  <2> QED
    BY <2>2, <2>3, <2>4 DEF CrossInv, OneRuns, RowsKnow, TodosKnow
<1>2. AlertInv /\ AlertInv' /\ CrossInv /\ [AlertNext]_vars => CrossInv'
    BY CrossInvStep DEF AlertInv
<1>3. AlertInv /\ CrossInv /\ [AlertNext]_vars =>
        [\A r \in Rules :
           Recorded(r) /\ mishaps \cap {"crash", "overlap"} = {} =>
             last[r].age = COOLDOWN /\ (r \in CrossRules => last[r].cleared)]_vars
  <2> SUFFICES ASSUME CrossInv, NEW r \in Rules, NEW p \in Passes, RecordEvent(p, r), Calm
               PROVE  last[r].age = COOLDOWN /\ (r \in CrossRules => last[r].cleared)
    BY DEF Recorded, Calm
  <2>1. r \in DOMAIN Todo(p) /\ Todo(p)[r].act = "fire"
    BY DEF RecordEvent
  <2> QED
    BY <2>1 DEF CrossInv, TodosKnow, TodoKnows
<1> QED
    BY <1>1, <1>2, <1>3, AlertInvariant, PTL DEF AlertSpec, OneEventPerCrossing

-----------------------------------------------------------------------------
(* What silences a rule *)

Alone == mishaps \cap {"overlap", "reused"} = {}

\* What the row of a rule with this state and age may say.
Silent(r, state, age) ==
    /\ state = "fired" => last[r].told
    /\ age < COOLDOWN => last[r].age <= age

\* What a pass is going to write is true of the events there have been.
TodoTrue(p, r) ==
    /\ Todo(p)[r].act = "mark" => Silent(r, "fired", 0)
    /\ Todo(p)[r].act = "rearm" => Silent(r, "armed", Todo(p)[r].age)

\* SilencedByEvent, and what makes it inductive: one pass at most runs, which writes
\* nothing but the truth.
SilentInv ==
    Alone =>
        /\ OneRuns
        /\ \A r \in DOMAIN row : Silent(r, row[r].state, row[r].age)
        /\ \A p \in Passes : \A r \in DOMAIN Todo(p) : TodoTrue(p, r)

\* No pass starts, and what there is of rows and work was there before, with events
\* that are as recent as they were.
LEMMA SilenceStays ==
    ASSUME PassInv, PassInv', SilentInv, mishaps \subseteq mishaps',
           \A p \in Passes : Runs(p)' => Runs(p),
           \A p \in Passes : \A r \in DOMAIN Todo(p)' :
              \/ r \in DOMAIN Todo(p) /\ Todo(p)'[r] = Todo(p)[r] /\ UNCHANGED last[r]
              \/ TodoTrue(p, r)',
           Alone => \A r \in DOMAIN row' :
              \/ /\ r \in DOMAIN row /\ row'[r].age = row[r].age /\ row'[r].state = row[r].state
                 /\ UNCHANGED last[r]
              \/ Silent(r, row[r].state, row[r].age)'
    PROVE  SilentInv'
<1> SUFFICES ASSUME Alone'
             PROVE  /\ OneRuns'
                    /\ \A r \in DOMAIN row' : Silent(r, row[r].state, row[r].age)'
                    /\ \A p \in Passes : \A r \in DOMAIN Todo(p)' : TodoTrue(p, r)'
    BY DEF SilentInv
<1>1. Alone
    BY DEF Alone
<1>2. OneRuns'
    BY <1>1 DEF SilentInv, OneRuns
<1>3. ASSUME NEW r \in DOMAIN row' PROVE Silent(r, row[r].state, row[r].age)'
    BY <1>1, <1>3 DEF SilentInv, Silent
<1>4. ASSUME NEW p \in Passes, NEW r \in DOMAIN Todo(p)' PROVE TodoTrue(p, r)'
    BY <1>1, <1>4 DEF SilentInv, Silent, TodoTrue
<1> QED
    BY <1>2, <1>3, <1>4

\* The work of a pass on one rule.
LEMMA PassStaysTrue ==
    ASSUME PassInv, PassInv', SilentInv, NEW p \in Passes, PassStep(p)
    PROVE  SilentInv'
<1>0. TypesOK /\ TypesOK'
    BY Types, TypesNext
<1>1. /\ \A q \in Passes \ {p} : pass'[q] = pass[q]
      /\ pass \in [Passes -> Pass]
    BY <1>0, PassMoves DEF TypesOK
<1>2. \A q \in Passes \ {p} : Runs(q)' = Runs(q) /\ Todo(q)' = Todo(q)
    BY <1>1 DEF Runs, Todo
<1>3. Alone /\ Runs(p) => \A q \in Passes \ {p} : DOMAIN Todo(q) = {}
    BY <1>0 DEF SilentInv, OneRuns, TypesOK
<1>4. ASSUME NEW r \in DOMAIN Todo(p), Runs(p), mishaps' = mishaps,
             \A s \in Rules \ {r} : last'[s] = last[s],
             \A s \in DOMAIN Todo(p)' \ {r} : s \in DOMAIN Todo(p) /\ Todo(p)'[s] = Todo(p)[s],
             Alone /\ r \in DOMAIN Todo(p)' => TodoTrue(p, r)',
             DOMAIN row' = DOMAIN row, \A s \in DOMAIN row \ {r} : row'[s] = row[s],
             Alone /\ r \in DOMAIN row => Silent(r, row[r].state, row[r].age)'
      PROVE  SilentInv'
  <2> SUFFICES ASSUME Alone PROVE SilentInv'
    BY <1>4 DEF SilentInv, Alone
  <2>1. r \in Rules
    BY <1>0, <1>4 DEF TypesOK
  <2>2. \A s \in DOMAIN row' : s \in Rules
    BY <1>0 DEF TypesOK
  <2>3. \A q \in Passes : \A s \in DOMAIN Todo(q)' : s \in Rules
    BY <1>0 DEF TypesOK
  <2>4. \A q \in Passes : Runs(q)' => Runs(q)
    BY <1>2, <1>4
  <2>5. \A q \in Passes : \A s \in DOMAIN Todo(q)' :
              \/ s \in DOMAIN Todo(q) /\ Todo(q)'[s] = Todo(q)[s] /\ UNCHANGED last[s]
              \/ TodoTrue(q, s)'
    BY <1>2, <1>3, <1>4, <2>3
  <2>6. \A s \in DOMAIN row' :
              \/ /\ s \in DOMAIN row /\ row'[s].age = row[s].age /\ row'[s].state = row[s].state
                 /\ UNCHANGED last[s]
              \/ Silent(s, row[s].state, row[s].age)'
    BY <1>4, <2>2
  <2> QED
    BY <1>4, <2>4, <2>5, <2>6, SilenceStays
<1>5. ASSUME NEW r \in Rules, RecordEvent(p, r) PROVE SilentInv'
  <2>1. r \in DOMAIN Todo(p) /\ UNCHANGED <<row, mishaps>> /\ Runs(p)
    BY <1>5 DEF RecordEvent
  <2>2. Todo(p)' = [Todo(p) EXCEPT ![r].act = "mark"]
    BY <1>1, <1>5 DEF RecordEvent, Todo, Pass
  <2>3. /\ DOMAIN Todo(p)' = DOMAIN Todo(p) /\ Todo(p)'[r].act = "mark"
        /\ \A s \in DOMAIN Todo(p) \ {r} : Todo(p)'[s] = Todo(p)[s]
    BY <1>0, <2>1, <2>2 DEF TypesOK, Items
  <2>4. /\ \A s \in Rules \ {r} : last'[s] = last[s]
        /\ last'[r].told /\ last'[r].age = 0
    BY <1>0, <1>5 DEF RecordEvent, TypesOK
  <2>5. TodoTrue(p, r)'
    BY <2>3, <2>4 DEF TodoTrue, Silent
  <2>6. r \in DOMAIN row => Silent(r, row[r].state, row[r].age)'
    BY <1>0, <2>1, <2>4 DEF Silent, TypesOK
  <2> QED
    BY <1>4, <2>1, <2>3, <2>4, <2>5, <2>6
<1>6. ASSUME NEW r \in Rules, RecordRaises(p, r) PROVE SilentInv'
  <2>1. /\ UNCHANGED <<row, last>> /\ mishaps \subseteq mishaps'
        /\ Todo(p)' = <<>> /\ ~Runs(p)'
    BY <1>1, <1>6, NoPassIs DEF RecordRaises, Todo, Runs, NoPass
  <2> QED
    BY <1>2, <2>1, SilenceStays
<1>7. ASSUME NEW r \in Rules, NEW age \in 0..COOLDOWN, NEW state \in {"armed", "fired"},
             NEW out \in Nat, Runs(p), r \in DOMAIN Todo(p),
             update_fire_state(r, age, state), Done(p, r, out), UNCHANGED mishaps,
             \A s \in Rules \ {r} : last'[s] = last[s],
             Alone => Silent(r, state, age)'
      PROVE  SilentInv'
  <2>1. /\ DOMAIN Todo(p)' = DOMAIN Todo(p) \ {r}
        /\ \A s \in DOMAIN Todo(p)' : Todo(p)'[s] = Todo(p)[s]
    BY <1>7, DoneType
  <2>2. /\ DOMAIN row' = DOMAIN row /\ \A s \in DOMAIN row \ {r} : row'[s] = row[s]
        /\ r \in DOMAIN row => row'[r].age = age /\ row'[r].state = state
    BY <1>7, UpdateType DEF PassInv
  <2>3. Alone /\ r \in DOMAIN row => Silent(r, row[r].state, row[r].age)'
    BY <1>7, <2>2 DEF Silent
  <2> QED
    BY <1>4, <1>7, <2>1, <2>2, <2>3
<1>8. ASSUME NEW r \in Rules, MarkFired(p, r) PROVE SilentInv'
  <2>1. pass[p].out + 1 \in Nat /\ 0 \in 0..COOLDOWN
    BY <1>0, <1>1 DEF Pass, TypesOK
  <2>2. Alone => Silent(r, "fired", 0)'
    BY <1>8 DEF MarkFired, SilentInv, TodoTrue, Silent
  <2> QED
    BY <1>7, <1>8, <2>1, <2>2 DEF MarkFired
<1>9. ASSUME NEW r \in Rules, Rearm(p, r) PROVE SilentInv'
  <2>1. /\ pass[p].out \in Nat
        /\ r \in DOMAIN Todo(p) /\ Todo(p)[r].age \in 0..COOLDOWN
    BY <1>0, <1>1, <1>9 DEF Rearm, TypesOK, Items, Pass
  <2>2. /\ \A s \in Rules \ {r} : last'[s] = last[s]
        /\ last'[r].age = last[r].age
    BY <1>0, <1>9 DEF Rearm, TypesOK
  <2>3. Alone => Silent(r, "armed", Todo(p)[r].age)
    BY <1>9, <2>1 DEF Rearm, SilentInv, TodoTrue
  <2> DEFINE age == Todo(p)[r].age
  <2>4. Alone => (age < COOLDOWN => last'[r].age <= age)
    BY <2>2, <2>3 DEF Silent
  <2> HIDE DEF age
  <2> QED
    BY <1>7, <1>9, <2>1, <2>2, <2>4 DEF Rearm, Silent, age
<1>10. CASE Deliver(p)
  <2>1. /\ DOMAIN Todo(p) = {} /\ ~Runs(p) /\ UNCHANGED <<row, last, mishaps>>
    BY <1>10 DEF Deliver, PassInv, PassesOK, Runs
  <2>2. ~Runs(p)' /\ DOMAIN Todo(p)' = {}
    BY <1>1, <1>10, <2>1, NoPassIs DEF Deliver, Runs, Todo, Pass
  <2> QED
    BY <1>2, <2>1, <2>2, SilenceStays
<1> QED
    BY <1>5, <1>6, <1>8, <1>9, <1>10 DEF PassStep

\* A pass starts alone, and what it reads is what the rows say.
LEMMA StartStaysTrue ==
    ASSUME PassInv, PassInv', SilentInv, NEW p \in Passes, Start(p)
    PROVE  SilentInv'
<1>0. TypesOK /\ TypesOK'
    BY Types, TypesNext
<1>1. /\ UNCHANGED <<row, last>>
      /\ mishaps' = mishaps \cup (IF \E q \in Passes : Runs(q) THEN {"overlap"} ELSE {})
    BY DEF Start
<1>2. /\ \A q \in Passes \ {p} : pass'[q] = pass[q]
      /\ Todo(p)' = ToDo
    BY <1>0, PassMoves DEF Start, Todo, TypesOK
<1> SUFFICES ASSUME Alone'
             PROVE  /\ OneRuns'
                    /\ \A r \in DOMAIN row' : Silent(r, row[r].state, row[r].age)'
                    /\ \A q \in Passes : \A r \in DOMAIN Todo(q)' : TodoTrue(q, r)'
    BY DEF SilentInv
<1>3. Alone /\ \A q \in Passes : ~Runs(q)
    BY <1>1 DEF Alone
<1>4. \A q \in Passes \ {p} : ~Runs(q)' /\ DOMAIN Todo(q)' = {}
    BY <1>0, <1>2, <1>3 DEF Runs, Todo, TypesOK
<1>5. \A r \in DOMAIN row' : Silent(r, row[r].state, row[r].age)'
    BY <1>1, <1>3 DEF SilentInv, Silent
<1>6. ASSUME NEW r \in DOMAIN ToDo PROVE TodoTrue(p, r)'
  <2>1. row \in OfSomeRules(Rows)
    BY DEF PassInv, AlertTypeOK, Rows
  <2>2. /\ r \in DOMAIN row /\ ToDo[r].age = row[r].age
        /\ ToDo[r].act \in {"fire", "rearm"}
    BY <2>1, ToDoIs
  <2>3. Silent(r, row[r].state, row[r].age)
    BY <1>3, <2>2 DEF SilentInv
  <2> QED
    BY <1>1, <1>2, <2>2, <2>3 DEF TodoTrue, Silent
<1> QED
    BY <1>2, <1>4, <1>5, <1>6 DEF OneRuns

LEMMA SilentStep == PassInv /\ PassInv' /\ SilentInv /\ [AlertNext]_vars => SilentInv'
<1> SUFFICES ASSUME PassInv, PassInv', SilentInv, [AlertNext]_vars PROVE SilentInv'
    OBVIOUS
<1>0. TypesOK /\ TypesOK'
    BY Types, TypesNext
<1>1. ASSUME UNCHANGED <<pass, last>>, mishaps \subseteq mishaps',
             \A r \in DOMAIN row' : r \in DOMAIN row /\ row'[r].age = row[r].age
                                                     /\ row'[r].state = row[r].state
      PROVE  SilentInv'
    BY <1>1, SilenceStays DEF Runs, Todo
<1>2. ASSUME NEW p \in Passes, Start(p) PROVE SilentInv'
    BY <1>2, StartStaysTrue
<1>3. ASSUME NEW p \in Passes, PassStep(p) PROVE SilentInv'
    BY <1>3, PassStaysTrue
<1>4. ASSUME NEW r \in Rules, save_rule(r) PROVE SilentInv'
  <2>1. /\ UNCHANGED pass /\ mishaps \subseteq mishaps' /\ r \notin DOMAIN row
        /\ last' = [last EXCEPT ![r] = NoEvent]
        /\ row' = [q \in DOMAIN row \cup {r} |-> IF q = r THEN NewRule ELSE row[q]]
    BY <1>4 DEF save_rule
  <2>2. \A q \in Rules \ {r} : last'[q] = last[q]
    BY <1>0, <2>1 DEF TypesOK
  <2>3. Silent(r, row[r].state, row[r].age)'
    BY <1>0, <2>1 DEF Silent, NewRule, Never, TypesOK
  <2>4. \A q \in DOMAIN row' : q # r => q \in DOMAIN row /\ row'[q] = row[q] /\ q \in Rules
    BY <1>0, <2>1 DEF TypesOK
  <2>5. CASE \E p \in Passes : r \in DOMAIN Todo(p) /\ Todo(p)[r].act # "fire"
    BY <1>4, <2>5 DEF save_rule, SilentInv, Alone
  <2>6. CASE \A p \in Passes : r \in DOMAIN Todo(p) => Todo(p)[r].act = "fire"
    <3>1. \A p \in Passes : DOMAIN Todo(p)' \in SUBSET Rules
                            /\ Todo(p)' = Todo(p) /\ (Runs(p)' <=> Runs(p))
      BY <1>0, <2>1 DEF TypesOK, Todo, Runs
    <3>2. \A p \in Passes : \A q \in DOMAIN Todo(p)' :
              \/ q \in DOMAIN Todo(p) /\ Todo(p)'[q] = Todo(p)[q] /\ UNCHANGED last[q]
              \/ TodoTrue(p, q)'
      <4> SUFFICES ASSUME NEW p \in Passes, NEW q \in DOMAIN Todo(p)', q = r PROVE TodoTrue(p, q)'
        BY <2>2, <3>1
      <4> QED
        BY <2>6, <3>1 DEF TodoTrue
    <3>3. \A q \in DOMAIN row' :
              \/ /\ q \in DOMAIN row /\ row'[q].age = row[q].age /\ row'[q].state = row[q].state
                 /\ UNCHANGED last[q]
              \/ Silent(q, row[q].state, row[q].age)'
      BY <2>2, <2>3, <2>4
    <3> QED
      BY <2>1, <3>1, <3>2, <3>3, SilenceStays
  <2> QED
    BY <2>5, <2>6
<1>5. ASSUME NEW r \in Rules, patch_rule(r) PROVE SilentInv'
  <2>1. DOMAIN row' = DOMAIN row
        /\ \A q \in DOMAIN row : row'[q].age = row[q].age /\ row'[q].state = row[q].state
    BY <1>0, <1>5 DEF patch_rule, TypesOK, Rows
  <2> QED
    BY <1>1, <1>5, <2>1 DEF patch_rule
<1>6. ASSUME NEW r \in Rules, delete_rule(r) PROVE SilentInv'
    BY <1>1, <1>6 DEF delete_rule, Restrict
<1>7. ASSUME NEW r \in Rules, NEW z \in Zones, PriceMoves(r, z) PROVE SilentInv'
  <2>1. /\ UNCHANGED <<row, pass, mishaps>>
        /\ \A q \in Rules : last'[q].told = last[q].told /\ last'[q].age = last[q].age
    BY <1>0, <1>7 DEF PriceMoves, TypesOK
  <2>2. /\ \A q \in DOMAIN row : q \in Rules
        /\ \A p \in Passes : \A q \in DOMAIN Todo(p) : q \in Rules
    BY <1>0 DEF TypesOK
  <2> QED
    BY <2>1, <2>2 DEF SilentInv, Alone, OneRuns, Runs, Silent, TodoTrue, Todo
<1>8. CASE FlushBuffer \/ SendDigest \/ DiscardDigest \/ UNCHANGED vars
    BY <1>1, <1>8 DEF FlushBuffer, SendDigest, DiscardDigest, vars
<1>9. CASE TimePasses
  <2>1. /\ \A r \in Rules : last'[r].age = Later(last[r].age) /\ last'[r].told = last[r].told
        /\ DOMAIN row' = DOMAIN row
        /\ \A r \in DOMAIN row : row'[r].age = Later(row[r].age) /\ row'[r].state = row[r].state
        /\ UNCHANGED <<pass, mishaps>> /\ \A p \in Passes : ~Runs(p)
    BY <1>0, <1>9 DEF TimePasses, TypesOK, Rows
  <2>2. \A m, n \in 0..COOLDOWN : (m < COOLDOWN => n <= m) => (Later(m) < COOLDOWN => Later(n) <= Later(m))
    BY <1>0 DEF Later, TypesOK
  <2>3. ASSUME Alone, NEW r \in DOMAIN row PROVE Silent(r, row[r].state, row[r].age)'
    <3>1. Silent(r, row[r].state, row[r].age)
      BY <2>3 DEF SilentInv
    <3>2. r \in Rules /\ row[r].age \in 0..COOLDOWN /\ last[r].age \in 0..COOLDOWN
      BY <1>0, <2>3 DEF TypesOK
    <3> QED
      BY <2>1, <2>2, <2>3, <3>1, <3>2 DEF Silent
  <2>4. \A p \in Passes : DOMAIN Todo(p)' = {} /\ (Runs(p)' <=> Runs(p))
    BY <1>0, <2>1 DEF TypesOK, Todo, Runs
  <2> QED
    BY <2>1, <2>3, <2>4, SilenceStays
<1>10. CASE Crash
  <2>1. /\ UNCHANGED <<row, last>> /\ mishaps \subseteq mishaps'
        /\ \A p \in Passes : DOMAIN Todo(p)' = {} /\ ~Runs(p)'
    BY <1>10, NoPassIs DEF Crash, Todo, Runs
  <2> QED
    BY <2>1, SilenceStays
<1> QED
    BY <1>2, <1>3, <1>4, <1>5, <1>6, <1>7, <1>8, <1>9, <1>10 DEF AlertNext

\* "record_event" before "update_fire_state": wherever the process dies, a stored rule
\* is marked as fired, or kept in its cooldown, only on account of an event that was
\* recorded; unless passes overlap or the name of a rule was reused under a pass.
THEOREM RulesAreSilencedByEvents == AlertSpec => []SilencedByEvent
<1>1. AlertInit => SilentInv
  <2> SUFFICES ASSUME AlertInit PROVE SilentInv
    OBVIOUS
  <2>1. \A p \in Passes : ~Runs(p) /\ DOMAIN Todo(p) = {}
    BY NoPassIs DEF AlertInit, Runs, Todo
  <2>2. \A r \in DOMAIN row : Silent(r, row[r].state, row[r].age)
    BY AlertAssumption DEF AlertInit, Silent, NewRule, Never
  <2> QED
    BY <2>1, <2>2 DEF SilentInv, OneRuns
<1>2. AlertInv /\ AlertInv' /\ SilentInv /\ [AlertNext]_vars => SilentInv'
    BY SilentStep DEF AlertInv
<1>3. SilentInv => SilencedByEvent
    BY DEF SilentInv, Alone, Silent, SilencedByEvent
<1> QED
    BY <1>1, <1>2, <1>3, AlertInvariant, PTL DEF AlertSpec
=============================================================================
