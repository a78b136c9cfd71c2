---------------------------- MODULE AlertsProofs ----------------------------
(***************************************************************************)
(* What holds of the alert engine for every set of rules, targets and      *)
(* workers, and every number of failing calls and deaths.                  *)
(***************************************************************************)
EXTENDS Alerts, TLAPS

LEMMA LoopWorks == Loop \in Workers
BY DEF Workers

LEMMA NeedIsBounded == ASSUME NEW k \in Keys PROVE Need(k) \in 1 .. MaxStrikes
BY StrikesAssumption DEF Need, Keys

\* A streak never leaves 0..MaxStrikes.
LEMMA AdvanceBounded ==
  ASSUME NEW old \in [Keys -> 0 .. MaxStrikes], NEW reported \in SUBSET Keys
  PROVE  Advance(old, reported) \in [Keys -> 0 .. MaxStrikes]
<1>1. ASSUME NEW k \in Keys
      PROVE  (IF k \notin reported THEN 0
              ELSE IF old[k] + 1 < Need(k) THEN old[k] + 1 ELSE Need(k)) \in 0 .. MaxStrikes
  BY NeedIsBounded, StrikesAssumption
<1>. QED BY <1>1 DEF Advance

LEMMA InitTypes == Init => TypeOK
BY StrikesAssumption, IdsAssumption, BoundsAssumption
   DEF Init, TypeOK, NoStreak, NothingOpen, NeverEvaluated

\* The parts of a step that several actions share keep their types.
CycleTypes ==
  /\ pc \in [Workers -> {"idle", "listing", "writing", "pushing"}]
  /\ breaches \in [Workers -> SUBSET Keys]
  /\ existing \in [Workers -> [Keys -> Ids \cup {NoId}]]
  /\ todo \in [Workers -> SUBSET Keys]
  /\ pushing \in [Workers -> Ids \cup {NoId}]

EngineTypes ==
  /\ streak \in [Workers -> [Keys -> 0 .. MaxStrikes]]
  /\ lived \in [Workers -> [1 .. MaxStrikes -> SUBSET Keys]]

AlertsType == alerts \in [Ids -> Row \cup {NoRow}]

LEMMA NothingOpenType == NothingOpen \in [Keys -> Ids \cup {NoId}]
BY DEF NothingOpen

LEMMA NoStreakType == NoStreak \in [Keys -> 0 .. MaxStrikes]
BY StrikesAssumption DEF NoStreak

LEMMA CycleOverTypes ==
  ASSUME NEW w \in Workers, CycleTypes, CycleOver(w) PROVE CycleTypes'
<1>1. existing' \in [Workers -> [Keys -> Ids \cup {NoId}]]
  BY NothingOpenType DEF CycleOver, CycleTypes
<1>. QED BY <1>1 DEF CycleOver, CycleTypes

LEMMA EngineGoneTypes ==
  ASSUME NEW w \in Workers, EngineTypes, EngineGone(w) PROVE EngineTypes'
<1>1. NeverEvaluated \in [1 .. MaxStrikes -> SUBSET Keys]
  BY DEF NeverEvaluated
<1>. QED BY <1>1, NoStreakType DEF EngineGone, EngineTypes

LEMMA ProcessAfterTypes ==
  ASSUME NEW w \in Workers, EngineTypes, ProcessAfter(w) PROVE EngineTypes'
BY EngineGoneTypes DEF ProcessAfter, EngineTypes, engine

LEMMA InsertType ==
  ASSUME NEW k \in Keys, NEW i \in Ids, AlertsType, Insert(k, i) PROVE AlertsType'
<1>1. [key |-> k, acked |-> FALSE, pushes |-> 0] \in Row
  BY DEF Row
<1>. QED BY <1>1 DEF Insert, AlertsType

LEMMA RememberType ==
  ASSUME NEW old \in [1 .. MaxStrikes -> SUBSET Keys], NEW reported \in SUBSET Keys
  PROVE  Remember(old, reported) \in [1 .. MaxStrikes -> SUBSET Keys]
<1>1. ASSUME NEW n \in 1 .. MaxStrikes, n # 1 PROVE old[n - 1] \in SUBSET Keys
  <2>1. n - 1 \in 1 .. MaxStrikes
    BY <1>1, StrikesAssumption
  <2>. QED BY <2>1
<1>2. ASSUME NEW n \in 1 .. MaxStrikes
      PROVE  (IF n = 1 THEN reported ELSE old[n - 1]) \in SUBSET Keys
  BY <1>1
<1>. QED BY <1>2 DEF Remember

LEMMA PushedRow ==
  ASSUME NEW row \in Row PROVE [row EXCEPT !.pushes = row.pushes + 1] \in Row
<1>1. row.pushes + 1 \in Nat
  BY DEF Row
<1>. QED BY <1>1 DEF Row

LEMMA EvaluateType == Evaluate \in SUBSET world
BY DEF Evaluate

\* The type invariant: in particular a streak never passes the strike count.
THEOREM TypeCorrect == Spec => []TypeOK
<1>1. TypeOK /\ [Next]_vars => TypeOK'
  <2> SUFFICES ASSUME TypeOK, [Next]_vars PROVE TypeOK'
    OBVIOUS
  <2> USE DEF TypeOK, cycle, engine
  <2>1. ASSUME NEW k \in Keys, WorldChanges(k) PROVE TypeOK'
    BY <2>1 DEF WorldChanges
  <2>2. ASSUME NEW r \in Rules, RuleBreaks(r) PROVE TypeOK'
    BY <2>2 DEF RuleBreaks
  <2>3. ASSUME NEW i \in Ids, AckAlert(i) PROVE TypeOK'
    BY <2>3 DEF AckAlert, Row
  <2>4. ASSUME NEW w \in Workers, TickBegin(w) PROVE TypeOK'
    <3>1. streak' \in [Workers -> [Keys -> 0 .. MaxStrikes]]
      <4>1. Advance(streak[w], Evaluate) \in [Keys -> 0 .. MaxStrikes]
        BY AdvanceBounded, EvaluateType
      <4>. QED BY <2>4, <4>1 DEF TickBegin
    <3>2. lived' \in [Workers -> [1 .. MaxStrikes -> SUBSET Keys]]
      <4>1. Remember(lived[w], Evaluate) \in [1 .. MaxStrikes -> SUBSET Keys]
        BY RememberType, EvaluateType
      <4>. QED BY <2>4, <4>1 DEF TickBegin
    <3>3. breaches' \in [Workers -> SUBSET Keys]
      BY <2>4, EvaluateType DEF TickBegin
    <3>. QED BY <3>1, <3>2, <3>3, <2>4 DEF TickBegin
  <2>5. ASSUME NEW w \in Workers, ListOpen(w) PROVE TypeOK'
    BY <2>5 DEF ListOpen
  <2>6. ASSUME NEW w \in Workers, NEW k \in Keys, Refresh(w, k) PROVE TypeOK'
    BY <2>6 DEF Refresh
  <2>7. ASSUME NEW w \in Workers, NEW k \in Keys, OpenAlert(w, k) PROVE TypeOK'
    <3>1. AlertsType'
      BY <2>7, InsertType DEF OpenAlert, AlertsType
    <3>. QED BY <2>7, <3>1 DEF OpenAlert, AlertsType
  <2>8. ASSUME NEW w \in Workers, PushDone(w) PROVE TypeOK'
    <3>1. AlertsType'
      <4>1. CASE UNCHANGED alerts
        BY <4>1 DEF AlertsType
      <4>2. CASE alerts[pushing[w]] # NoRow
                 /\ alerts' = [alerts EXCEPT ![pushing[w]].pushes = @ + 1]
        <5>1. CASE pushing[w] \in Ids
          <6> DEFINE row == alerts[pushing[w]]
          <6>1. row \in Row
            BY <4>2, <5>1
          <6>2. [row EXCEPT !.pushes = row.pushes + 1] \in Row
            BY <6>1, PushedRow
          <6>3. alerts' = [alerts EXCEPT ![pushing[w]] = [row EXCEPT !.pushes = row.pushes + 1]]
            BY <4>2
          <6> HIDE DEF row
          <6>. QED BY <6>2, <6>3, <5>1 DEF AlertsType
        <5>2. CASE pushing[w] \notin Ids
          BY <4>2, <5>2 DEF AlertsType
        <5>. QED BY <5>1, <5>2
      <4>. QED BY <2>8, <4>1, <4>2 DEF PushDone
    <3>. QED BY <2>8, <3>1 DEF PushDone, AlertsType
  <2>9. ASSUME NEW w \in Workers, Resolve(w) PROVE TypeOK'
    <3>1. CycleTypes' /\ EngineTypes'
      BY <2>9, CycleOverTypes, ProcessAfterTypes DEF Resolve, CycleTypes, EngineTypes
    <3>. QED BY <2>9, <3>1 DEF Resolve, CycleTypes, EngineTypes
  <2>10. ASSUME NEW w \in Workers, DatabaseFails(w) PROVE TypeOK'
    <3>1. CycleTypes' /\ EngineTypes'
      BY <2>10, CycleOverTypes, ProcessAfterTypes DEF DatabaseFails, CycleTypes, EngineTypes
    <3>. QED BY <2>10, <3>1, BoundsAssumption DEF DatabaseFails, CycleTypes, EngineTypes
  <2>11. ASSUME NEW w \in Workers, NEW k \in Keys, InsertUnanswered(w, k) PROVE TypeOK'
    <3>1. CycleTypes' /\ EngineTypes'
      BY <2>11, CycleOverTypes, ProcessAfterTypes DEF InsertUnanswered, CycleTypes, EngineTypes
    <3>2. AlertsType'
      BY <2>11, InsertType DEF InsertUnanswered, AlertsType
    <3>. QED BY <2>11, <3>1, <3>2, BoundsAssumption
             DEF InsertUnanswered, CycleTypes, EngineTypes, AlertsType
  <2>12. ASSUME NEW w \in Workers, Crash(w) PROVE TypeOK'
    <3>1. CycleTypes' /\ EngineTypes'
      BY <2>12, CycleOverTypes, EngineGoneTypes DEF Crash, CycleTypes, EngineTypes
    <3>. QED BY <2>12, <3>1, BoundsAssumption DEF Crash, CycleTypes, EngineTypes
  <2>13. CASE UNCHANGED vars
    BY <2>13 DEF vars
  <2>. QED
    BY <2>1, <2>2, <2>3, <2>4, <2>5, <2>6, <2>7, <2>8, <2>9, <2>10, <2>11, <2>12, <2>13
       DEF Next, Proceed
<1>. QED BY <1>1, InitTypes, PTL DEF Spec

-----------------------------------------------------------------------------
(* Every alert is earned.  The inductive invariant relates the engine's    *)
(* capped counters to the evaluations they stand for, and the keys left to *)
(* write to the counters, which a cycle does not move once it has begun.   *)

Earned(w) ==
  /\ \A k \in Keys : \A n \in 1 .. streak[w][k] : k \in lived[w][n]
  /\ \A k \in todo[w] : streak[w][k] >= Need(k)
  /\ pc[w] \in {"idle", "listing"} => todo[w] = {}

EarnedInv == \A w \in Workers : Earned(w)

LEMMA AdvanceEarned ==
  ASSUME NEW old \in [Keys -> 0 .. MaxStrikes], NEW reported \in SUBSET Keys,
         NEW past \in [1 .. MaxStrikes -> SUBSET Keys],
         \A k \in Keys : \A n \in 1 .. old[k] : k \in past[n]
  PROVE  \A k \in Keys : \A n \in 1 .. Advance(old, reported)[k] :
           k \in Remember(past, reported)[n]
<1> SUFFICES ASSUME NEW k \in Keys, NEW n \in 1 .. Advance(old, reported)[k]
             PROVE  k \in Remember(past, reported)[n]
  OBVIOUS
<1>1. Advance(old, reported)[k] \in 0 .. MaxStrikes
  BY AdvanceBounded
<1>2. k \in reported /\ Advance(old, reported)[k] <= old[k] + 1
  <2>1. Advance(old, reported)[k] = IF k \notin reported THEN 0
                  ELSE IF old[k] + 1 < Need(k) THEN old[k] + 1 ELSE Need(k)
    BY DEF Advance
  <2>2. old[k] \in 0 .. MaxStrikes /\ Need(k) \in 1 .. MaxStrikes
    BY NeedIsBounded
  <2>. QED BY <2>1, <2>2, StrikesAssumption
<1>3. n \in 1 .. MaxStrikes
  BY <1>1, StrikesAssumption
<1>4. Remember(past, reported)[n] = IF n = 1 THEN reported ELSE past[n - 1]
  BY <1>3 DEF Remember
<1>5. CASE n = 1
  BY <1>2, <1>4, <1>5
<1>6. CASE n # 1
  <2>1. old[k] \in 0 .. MaxStrikes
    OBVIOUS
  <2>2. n - 1 \in 1 .. old[k]
    BY <1>1, <1>2, <1>3, <1>6, <2>1, StrikesAssumption
  <2>. QED BY <1>4, <1>6, <2>2
<1>. QED BY <1>5, <1>6

LEMMA CycleOverEarned ==
  ASSUME TypeOK, EarnedInv, NEW w \in Workers, CycleOver(w), UNCHANGED engine \/ EngineGone(w)
  PROVE  EarnedInv'
<1> SUFFICES ASSUME NEW v \in Workers PROVE Earned(v)'
  BY DEF EarnedInv
<1> USE DEF TypeOK, CycleOver
<1>1. todo'[w] = {} /\ (v # w => todo'[v] = todo[v] /\ pc'[v] = pc[v])
  OBVIOUS
<1>2. CASE UNCHANGED engine
  BY <1>1, <1>2 DEF EarnedInv, Earned, engine
<1>3. CASE EngineGone(w)
  <2>1. CASE v # w
    BY <1>1, <1>3, <2>1 DEF EarnedInv, Earned, EngineGone
  <2>2. CASE v = w
    <3>1. streak'[w] = NoStreak
      BY <1>3 DEF EngineGone
    <3>. QED BY <1>1, <2>2, <3>1 DEF Earned, NoStreak
  <2>. QED BY <2>1, <2>2
<1>. QED BY <1>2, <1>3

LEMMA EarnedStep == TypeOK /\ EarnedInv /\ [Next]_vars => EarnedInv'
<1> SUFFICES ASSUME TypeOK, EarnedInv, [Next]_vars PROVE EarnedInv'
  OBVIOUS
<1>1. ASSUME UNCHANGED <<pc, todo, engine>> PROVE EarnedInv'
  BY <1>1 DEF EarnedInv, Earned, engine
<1>2. ASSUME NEW k \in Keys, WorldChanges(k) PROVE EarnedInv'
  BY <1>1, <1>2 DEF WorldChanges, cycle
<1>3. ASSUME NEW r \in Rules, RuleBreaks(r) PROVE EarnedInv'
  BY <1>1, <1>3 DEF RuleBreaks, cycle
<1>4. ASSUME NEW i \in Ids, AckAlert(i) PROVE EarnedInv'
  BY <1>1, <1>4 DEF AckAlert, cycle
<1>5. ASSUME NEW w \in Workers, TickBegin(w) PROVE EarnedInv'
  <2> SUFFICES ASSUME NEW v \in Workers PROVE Earned(v)'
    BY DEF EarnedInv
  <2>1. Evaluate \in SUBSET Keys
    BY EvaluateType DEF TypeOK
  <2>2. CASE v # w
    BY <1>5, <2>2 DEF TickBegin, EarnedInv, Earned, TypeOK
  <2>3. CASE v = w
    <3>1. streak'[w] = Advance(streak[w], Evaluate) /\ lived'[w] = Remember(lived[w], Evaluate)
      BY <1>5 DEF TickBegin, TypeOK
    <3>2. \A k \in Keys : \A n \in 1 .. streak'[w][k] : k \in lived'[w][n]
      <4>1. streak[w] \in [Keys -> 0 .. MaxStrikes] /\ lived[w] \in [1 .. MaxStrikes -> SUBSET Keys]
        BY DEF TypeOK
      <4>2. \A k \in Keys : \A n \in 1 .. streak[w][k] : k \in lived[w][n]
        BY DEF EarnedInv, Earned
      <4>. QED BY <2>1, <3>1, <4>1, <4>2, AdvanceEarned
    <3>3. todo'[w] = {}
      BY <1>5 DEF TickBegin, EarnedInv, Earned
    <3>. QED BY <2>3, <3>2, <3>3 DEF Earned
  <2>. QED BY <2>2, <2>3
<1>6. ASSUME NEW w \in Workers, ListOpen(w) PROVE EarnedInv'
  BY <1>6 DEF ListOpen, engine, EarnedInv, Earned, TypeOK
<1>7. ASSUME NEW w \in Workers, NEW k \in Keys, Refresh(w, k) PROVE EarnedInv'
  BY <1>7 DEF Refresh, engine, EarnedInv, Earned, TypeOK
<1>8. ASSUME NEW w \in Workers, NEW k \in Keys, OpenAlert(w, k) PROVE EarnedInv'
  BY <1>8 DEF OpenAlert, engine, EarnedInv, Earned, TypeOK
<1>9. ASSUME NEW w \in Workers, PushDone(w) PROVE EarnedInv'
  BY <1>9 DEF PushDone, engine, EarnedInv, Earned, TypeOK
<1>10. ASSUME NEW w \in Workers, Resolve(w) PROVE EarnedInv'
  BY <1>10, CycleOverEarned DEF Resolve, ProcessAfter
<1>11. ASSUME NEW w \in Workers, DatabaseFails(w) PROVE EarnedInv'
  BY <1>11, CycleOverEarned DEF DatabaseFails, ProcessAfter
<1>12. ASSUME NEW w \in Workers, NEW k \in Keys, InsertUnanswered(w, k) PROVE EarnedInv'
  BY <1>12, CycleOverEarned DEF InsertUnanswered, ProcessAfter
<1>13. ASSUME NEW w \in Workers, Crash(w) PROVE EarnedInv'
  BY <1>13, CycleOverEarned DEF Crash
<1>14. CASE UNCHANGED vars
  BY <1>1, <1>14 DEF vars, cycle
<1>. QED
  BY <1>2, <1>3, <1>4, <1>5, <1>6, <1>7, <1>8, <1>9, <1>10, <1>11, <1>12, <1>13, <1>14
     DEF Next, Proceed

LEMMA InitEarned == Init => EarnedInv
BY DEF Init, EarnedInv, Earned, NoStreak

LEMMA Inserted ==
  ASSUME AlertsType, NEW k \in Keys, NEW j \in Ids, Insert(k, j), NEW i \in Ids,
         alerts[i] = NoRow, alerts'[i] # NoRow
  PROVE  alerts'[i].key = k
BY DEF Insert, AlertsType

\* A step that puts a row where there was none inserts a key some worker has
\* left to write.
LEMMA WhoOpens ==
  ASSUME TypeOK, [Next]_vars, NEW i \in Ids, alerts[i] = NoRow, alerts'[i] # NoRow
  PROVE  \E w \in Workers : \E k \in todo[w] : alerts'[i].key = k
<1>1. ASSUME NEW w \in Workers, NEW k \in Keys, OpenAlert(w, k) \/ InsertUnanswered(w, k)
      PROVE  \E v \in Workers : \E j \in todo[v] : alerts'[i].key = j
  <2>1. PICK j \in Ids : Insert(k, j)
    BY <1>1 DEF OpenAlert, InsertUnanswered
  <2>2. alerts'[i].key = k
    BY <2>1, Inserted DEF TypeOK, AlertsType
  <2>. QED BY <1>1, <2>2 DEF OpenAlert, InsertUnanswered
<1>2. ASSUME NEW j \in Ids, AckAlert(j) PROVE FALSE
  BY <1>2 DEF AckAlert, TypeOK
<1>3. ASSUME NEW w \in Workers, PushDone(w) PROVE FALSE
  BY <1>3 DEF PushDone, TypeOK
<1>4. ASSUME NEW w \in Workers, Resolve(w) PROVE FALSE
  BY <1>4 DEF Resolve
<1>5. ASSUME UNCHANGED alerts PROVE FALSE
  BY <1>5
<1>. QED BY <1>1, <1>2, <1>3, <1>4, <1>5
         DEF Next, Proceed, WorldChanges, RuleBreaks, TickBegin, ListOpen, Refresh,
             DatabaseFails, Crash, vars

\* An alert opens only after its rule's strikes in consecutive evaluations of
\* the worker that opens it, whatever fails, restarts or runs beside it.
THEOREM OpensOnlyEarned == Spec => OpensEarned
<1>1. TypeOK /\ EarnedInv /\ [Next]_vars =>
        \A i \in Ids : alerts[i] = NoRow /\ alerts'[i] # NoRow =>
          \E w \in Workers : EarnedBy(w, alerts'[i].key)
  <2> SUFFICES ASSUME TypeOK, EarnedInv, [Next]_vars,
                      NEW i \in Ids, alerts[i] = NoRow, alerts'[i] # NoRow
               PROVE  \E w \in Workers : EarnedBy(w, alerts'[i].key)
    OBVIOUS
  <2>1. PICK w \in Workers : \E k \in todo[w] : alerts'[i].key = k
    BY WhoOpens
  <2>2. PICK k \in todo[w] : alerts'[i].key = k
    BY <2>1
  <2>3. k \in Keys /\ streak[w][k] \in 0 .. MaxStrikes
    BY DEF TypeOK
  <2>4. streak[w][k] >= Need(k) /\ \A n \in 1 .. streak[w][k] : k \in lived[w][n]
    BY <2>3 DEF EarnedInv, Earned
  <2>5. Need(k) \in 1 .. MaxStrikes
    BY <2>3, NeedIsBounded
  <2>6. \A n \in 1 .. Need(k) : k \in lived[w][n]
    BY <2>3, <2>4, <2>5, StrikesAssumption
  <2>. QED BY <2>2, <2>6 DEF EarnedBy
<1>2. Spec => []EarnedInv
  BY TypeCorrect, InitEarned, EarnedStep, PTL DEF Spec
<1>. QED BY <1>1, <1>2, TypeCorrect, PTL DEF Spec, OpensEarned
-----------------------------------------------------------------------------
(* Every alert is pushed at most once.  The inductive invariant says what a *)
(* worker holds while its push is out: an id of its own, whose row, if it   *)
(* is still there, has a rule with an event type and no push yet.           *)

PushLimit(row) == IF row.key[1] \in PushRules THEN 1 ELSE 0

Holding(w) ==
  /\ pushing[w] # NoId => pc[w] = "pushing"
  /\ \A v \in Workers \ {w} : pushing[w] # NoId => pushing[v] # pushing[w]
  /\ pushing[w] \in OpenIds =>
       alerts[pushing[w]].pushes = 0 /\ alerts[pushing[w]].key[1] \in PushRules

HoldingInv == \A w \in Workers : Holding(w)
PushInv == HoldingInv /\ PushedOnce

\* Rows that lose nothing but their place, or only their acknowledgement, and
\* workers that at most let go of an id, keep the invariant.
LEMMA QuietlyPushedOnce ==
  ASSUME TypeOK, PushInv,
         \A i \in Ids : alerts'[i] # NoRow =>
            /\ alerts[i] # NoRow
            /\ alerts'[i].pushes = alerts[i].pushes /\ alerts'[i].key = alerts[i].key,
         \A w \in Workers : pushing'[w] # NoId =>
            pushing'[w] = pushing[w] /\ pc'[w] = pc[w]
  PROVE  PushInv'
<1>1. HoldingInv'
  <2> SUFFICES ASSUME NEW w \in Workers PROVE Holding(w)'
    BY DEF HoldingInv
  <2>1. CASE pushing'[w] = NoId
    BY <2>1, IdsAssumption DEF Holding, OpenIds
  <2>2. CASE pushing'[w] # NoId
    <3>1. Holding(w)
      BY DEF PushInv, HoldingInv
    <3>. QED BY <2>2, <3>1 DEF Holding, OpenIds
  <2>. QED BY <2>1, <2>2
<1>2. PushedOnce'
  BY DEF PushInv, PushedOnce, OpenIds
<1>. QED BY <1>1, <1>2 DEF PushInv

LEMMA CycleOverLetsGo ==
  ASSUME TypeOK, NEW w \in Workers, CycleOver(w)
  PROVE  \A v \in Workers : pushing'[v] # NoId =>
            pushing'[v] = pushing[v] /\ pc'[v] = pc[v]
BY DEF CycleOver, TypeOK

\* What inserting a row under an unused id does, whoever pushes it.
LEMMA InsertedRow ==
  ASSUME TypeOK, NEW k \in Keys, NEW i \in Ids, NextId(i), Insert(k, i)
  PROVE  /\ \A w \in Workers : pushing[w] # i
         /\ alerts'[i].pushes = 0 /\ alerts'[i].key = k
         /\ \A j \in Ids \ {i} : alerts'[j] = alerts[j]
BY DEF TypeOK, Insert, NextId, Unused

LEMMA InsertPushedOnce ==
  ASSUME TypeOK, PushInv, NEW k \in Keys, NEW i \in Ids, NextId(i), Insert(k, i)
  PROVE  PushedOnce'
<1> SUFFICES ASSUME NEW j \in Ids, alerts'[j] # NoRow
             PROVE  alerts'[j].pushes <= (IF alerts'[j].key[1] \in PushRules THEN 1 ELSE 0)
  BY DEF PushedOnce, OpenIds
<1>1. CASE j = i
  BY <1>1, InsertedRow
<1>2. CASE j # i
  BY <1>2, InsertedRow DEF PushInv, PushedOnce, OpenIds
<1>. QED BY <1>1, <1>2

LEMMA InsertHolding ==
  ASSUME TypeOK, PushInv, NEW k \in Keys, NEW i \in Ids, NextId(i), Insert(k, i),
         NEW w \in Workers, pushing'[w] = pushing[w], pc'[w] = pc[w],
         \A v \in Workers : pushing'[v] \in {pushing[v], i}
  PROVE  Holding(w)'
<1>1. Holding(w) /\ \A v \in Workers : pushing[v] # i
  BY InsertedRow DEF PushInv, HoldingInv
<1>2. \A j \in Ids \ {i} : alerts'[j] = alerts[j]
  BY InsertedRow
<1>. QED BY <1>1, <1>2 DEF Holding, OpenIds

\* The push of w is recorded on the row w holds, which nobody else holds.
LEMMA PushCounted ==
  ASSUME TypeOK, PushInv, NEW w \in Workers, PushDone(w), alerts[pushing[w]] # NoRow,
         alerts' = [alerts EXCEPT ![pushing[w]].pushes = @ + 1]
  PROVE  PushInv'
<1> DEFINE i == pushing[w]
<1>1. CASE i \notin Ids
  <2>1. alerts' = alerts
    BY <1>1 DEF TypeOK
  <2>2. \A v \in Workers : pushing'[v] # NoId => pushing'[v] = pushing[v] /\ pc'[v] = pc[v]
    BY DEF PushDone, TypeOK
  <2>. QED BY <2>1, <2>2, QuietlyPushedOnce
<1>2. CASE i \in Ids
  <2>1. alerts[i] \in Row /\ i \in OpenIds /\ i # NoId
    BY <1>2, IdsAssumption DEF TypeOK, OpenIds
  <2>2. alerts[i].pushes = 0 /\ alerts[i].key[1] \in PushRules
    BY <2>1 DEF PushInv, HoldingInv, Holding
  <2>3. alerts'[i].pushes = 1 /\ alerts'[i].key = alerts[i].key
    BY <1>2, <2>1, <2>2 DEF TypeOK, Row
  <2>4. \A j \in Ids \ {i} : alerts'[j] = alerts[j]
    BY DEF TypeOK
  <2>5. PushedOnce'
    BY <2>2, <2>3, <2>4 DEF PushInv, PushedOnce, OpenIds
  <2>6. ASSUME NEW v \in Workers PROVE Holding(v)'
    <3>1. pushing'[w] = NoId /\ \A u \in Workers \ {w} : pushing'[u] = pushing[u] /\ pc'[u] = pc[u]
      BY DEF PushDone, TypeOK
    <3>2. CASE v = w
      BY <3>1, <3>2, IdsAssumption DEF Holding, OpenIds
    <3>3. CASE v # w
      <4>1. Holding(v) /\ pushing[v] # i
        BY <2>1, <3>3 DEF PushInv, HoldingInv, Holding
      <4>. QED BY <2>4, <3>1, <3>3, <4>1 DEF Holding, OpenIds
    <3>. QED BY <3>2, <3>3
  <2>. QED BY <2>5, <2>6 DEF PushInv, HoldingInv
<1>. QED BY <1>1, <1>2

LEMMA PushStep == TypeOK /\ PushInv /\ [Next]_vars => PushInv'
<1> SUFFICES ASSUME TypeOK, PushInv, [Next]_vars PROVE PushInv'
  OBVIOUS
<1>1. ASSUME UNCHANGED <<alerts, pc, pushing>> PROVE PushInv'
  BY <1>1, QuietlyPushedOnce
<1>2. ASSUME NEW i \in Ids, AckAlert(i) PROVE PushInv'
  BY <1>2, QuietlyPushedOnce DEF AckAlert, cycle, TypeOK, Row
<1>3. ASSUME NEW w \in Workers, TickBegin(w) PROVE PushInv'
  <2>1. pushing[w] = NoId
    BY <1>3 DEF TickBegin, PushInv, HoldingInv, Holding
  <2>. QED BY <1>3, <2>1, QuietlyPushedOnce DEF TickBegin, TypeOK
<1>4. ASSUME NEW w \in Workers, ListOpen(w) PROVE PushInv'
  <2>1. pushing[w] = NoId
    BY <1>4 DEF ListOpen, PushInv, HoldingInv, Holding
  <2>. QED BY <1>4, <2>1, QuietlyPushedOnce DEF ListOpen, TypeOK
<1>5. ASSUME NEW w \in Workers, NEW k \in Keys, Refresh(w, k) PROVE PushInv'
  BY <1>1, <1>5 DEF Refresh
<1>6. ASSUME NEW w \in Workers, NEW k \in Keys, OpenAlert(w, k) PROVE PushInv'
  <2>1. PICK i \in Ids : /\ NextId(i) /\ Insert(k, i)
                         /\ IF k[1] \in PushRules
                            THEN pc' = [pc EXCEPT ![w] = "pushing"]
                                 /\ pushing' = [pushing EXCEPT ![w] = i]
                            ELSE UNCHANGED <<pc, pushing>>
    BY <1>6 DEF OpenAlert
  <2>2. \A v \in Workers : pushing'[v] \in {pushing[v], i}
    BY <2>1 DEF TypeOK
  <2>3. PushedOnce'
    BY <2>1, InsertPushedOnce
  <2>4. ASSUME NEW v \in Workers PROVE Holding(v)'
    <3>1. CASE v = w /\ k[1] \in PushRules
      <4>1. pushing'[v] = i /\ pc'[v] = "pushing" /\ \A u \in Workers \ {v} : pushing'[u] = pushing[u]
        BY <2>1, <3>1 DEF TypeOK
      <4>. QED BY <2>1, <3>1, <4>1, InsertedRow DEF Holding
    <3>2. CASE ~(v = w /\ k[1] \in PushRules)
      <4>1. pushing'[v] = pushing[v] /\ pc'[v] = pc[v]
        BY <2>1, <3>2 DEF TypeOK
      <4>. QED BY <2>1, <2>2, <4>1, InsertHolding
    <3>. QED BY <3>1, <3>2
  <2>. QED BY <2>3, <2>4 DEF PushInv, HoldingInv
<1>7. ASSUME NEW w \in Workers, PushDone(w) PROVE PushInv'
  <2>1. CASE UNCHANGED alerts
    <3>1. \A v \in Workers : pushing'[v] # NoId => pushing'[v] = pushing[v] /\ pc'[v] = pc[v]
      BY <1>7 DEF PushDone, TypeOK
    <3>. QED BY <2>1, <3>1, QuietlyPushedOnce
  <2>2. CASE alerts[pushing[w]] # NoRow
             /\ alerts' = [alerts EXCEPT ![pushing[w]].pushes = @ + 1]
    BY <1>7, <2>2, PushCounted
  <2>. QED BY <1>7, <2>1, <2>2 DEF PushDone
<1>8. ASSUME NEW w \in Workers, Resolve(w) PROVE PushInv'
  BY <1>8, QuietlyPushedOnce, CycleOverLetsGo DEF Resolve
<1>9. ASSUME NEW w \in Workers, DatabaseFails(w) PROVE PushInv'
  BY <1>9, QuietlyPushedOnce, CycleOverLetsGo DEF DatabaseFails
<1>10. ASSUME NEW w \in Workers, NEW k \in Keys, InsertUnanswered(w, k) PROVE PushInv'
  <2>1. PICK i \in Ids : NextId(i) /\ Insert(k, i)
    BY <1>10 DEF InsertUnanswered
  <2>2. PushedOnce'
    BY <2>1, InsertPushedOnce
  <2>3. ASSUME NEW v \in Workers PROVE Holding(v)'
    <3>1. pushing[w] = NoId
      BY <1>10 DEF InsertUnanswered, PushInv, HoldingInv, Holding
    <3>2. CycleOver(w)
      BY <1>10 DEF InsertUnanswered
    <3>3. pushing' = pushing
      BY <3>1, <3>2 DEF CycleOver, TypeOK
    <3>4. CASE v = w
      BY <3>1, <3>3, <3>4, IdsAssumption DEF Holding, OpenIds
    <3>5. CASE v # w
      <4>1. pc'[v] = pc[v]
        BY <3>2, <3>5 DEF CycleOver, TypeOK
      <4>. QED BY <2>1, <3>3, <4>1, InsertHolding
    <3>. QED BY <3>4, <3>5
  <2>. QED BY <2>2, <2>3 DEF PushInv, HoldingInv
<1>11. ASSUME NEW w \in Workers, Crash(w) PROVE PushInv'
  BY <1>11, QuietlyPushedOnce, CycleOverLetsGo DEF Crash
<1>. QED
  BY <1>1, <1>2, <1>3, <1>4, <1>5, <1>6, <1>7, <1>8, <1>9, <1>10, <1>11
     DEF Next, Proceed, WorldChanges, RuleBreaks, cycle, vars

LEMMA InitPushInv == Init => PushInv
BY IdsAssumption DEF Init, PushInv, HoldingInv, Holding, PushedOnce, OpenIds

\* An alert is pushed at most once in its life, and only if its rule has an
\* event type, whatever workers run beside each other, fail or restart.
THEOREM NeverPushedTwice == Spec => []PushedOnce
<1>1. Spec => []PushInv
  BY TypeCorrect, InitPushInv, PushStep, PTL DEF Spec
<1>2. PushInv => PushedOnce
  BY DEF PushInv
<1>. QED BY <1>1, <1>2, PTL

-----------------------------------------------------------------------------
(* Acknowledgements. *)

LEMMA PushLeavesAck ==
  ASSUME TypeOK, NEW w \in Workers, PushDone(w), NEW i \in OpenIds, alerts[i].acked
  PROVE  alerts'[i].acked
<1>1. alerts[i] \in Row
  BY DEF TypeOK, OpenIds
<1>2. CASE alerts' = alerts
  BY <1>2
<1>3. CASE alerts' = [alerts EXCEPT ![pushing[w]].pushes = @ + 1]
  <2>1. CASE i = pushing[w]
    <3>1. alerts'[i] = [alerts[i] EXCEPT !.pushes = alerts[i].pushes + 1]
      BY <1>3, <2>1 DEF TypeOK, OpenIds
    <3>2. alerts'[i].acked = alerts[i].acked
      BY <1>1, <3>1 DEF Row
    <3>. QED BY <3>2
  <2>2. CASE i # pushing[w]
    BY <1>3, <2>2 DEF TypeOK, OpenIds
  <2>. QED BY <2>1, <2>2
<1>. QED BY <1>2, <1>3 DEF PushDone

LEMMA InsertLeavesAck ==
  ASSUME TypeOK, NEW k \in Keys, NEW j \in Ids, NextId(j), Insert(k, j),
         NEW i \in OpenIds, alerts[i].acked
  PROVE  alerts'[i].acked
BY DEF NextId, Unused, Insert, OpenIds, TypeOK

\* No step of any worker takes back a user's acknowledgement of an alert that
\* stays open.
THEOREM AcknowledgementHolds == Spec => AckHolds
<1>1. TypeOK /\ [Next]_vars =>
        \A i \in OpenIds : alerts[i].acked /\ alerts'[i] # NoRow => alerts'[i].acked
  <2> SUFFICES ASSUME TypeOK, [Next]_vars, NEW i \in OpenIds, alerts[i].acked, alerts'[i] # NoRow
               PROVE  alerts'[i].acked
    OBVIOUS
  <2>1. ASSUME NEW j \in Ids, AckAlert(j) PROVE alerts'[i].acked
    <3>1. CASE i = j
      <4>1. alerts[i] \in Row /\ alerts'[i] = [alerts[i] EXCEPT !.acked = TRUE]
        BY <2>1, <3>1 DEF AckAlert, TypeOK, OpenIds
      <4>2. alerts'[i].acked = TRUE
        BY <4>1 DEF Row
      <4>. QED BY <4>2
    <3>2. CASE i # j
      BY <2>1, <3>2 DEF AckAlert, TypeOK, OpenIds
    <3>. QED BY <3>1, <3>2
  <2>2. ASSUME NEW w \in Workers, NEW k \in Keys, OpenAlert(w, k) \/ InsertUnanswered(w, k)
        PROVE  alerts'[i].acked
    BY <2>2, InsertLeavesAck DEF OpenAlert, InsertUnanswered
  <2>3. ASSUME NEW w \in Workers, PushDone(w) PROVE alerts'[i].acked
    BY <2>3, PushLeavesAck
  <2>4. ASSUME NEW w \in Workers, Resolve(w) PROVE alerts'[i].acked
    BY <2>4 DEF Resolve, OpenIds
  <2>5. ASSUME UNCHANGED alerts PROVE alerts'[i].acked
    BY <2>5
  <2>. QED BY <2>1, <2>2, <2>3, <2>4, <2>5
           DEF Next, Proceed, WorldChanges, RuleBreaks, TickBegin, ListOpen, Refresh,
               DatabaseFails, Crash, vars
<1>. QED BY <1>1, TypeCorrect, PTL DEF Spec, AckHolds

-----------------------------------------------------------------------------
(* What the engine promises when the loop is the only worker: one open alert *)
(* per key, and the lifecycle of AlertLifecycle.                             *)

\* A streak stops at the strikes of its own rule.
CappedInv == \A w \in Workers : \A k \in Keys : streak[w][k] <= Need(k)

Listed(k) == existing[Loop][k]

\* What the loop knows of the table while it writes: the row it listed is still
\* the row of its key; a key without a listed row has a row only when the loop
\* opened it in this cycle, so only when it breached with a full streak and is
\* no longer left to write.
KnowsRows(k) ==
  /\ Listed(k) # NoId => Listed(k) \in RowsOf(k)
  /\ Listed(k) = NoId /\ RowsOf(k) # {} => k \in breaches[Loop] \ todo[Loop]
  /\ k \in breaches[Loop] \ todo[Loop] /\ streak[Loop][k] >= Need(k) => RowsOf(k) # {}

LeftToWrite ==
  \A k \in todo[Loop] : k \in breaches[Loop] /\ streak[Loop][k] >= Need(k)

KnowsInv == pc[Loop] \in {"writing", "pushing"} => LeftToWrite /\ \A k \in Keys : KnowsRows(k)

SoleInv == CappedInv /\ AtMostOneOpen /\ KnowsInv

LEMMA OnlyLoop == ASSUME OneShots = {} PROVE Workers = {Loop}
BY DEF Workers

LEMMA AdvanceCapped ==
  ASSUME NEW old \in [Keys -> 0 .. MaxStrikes], NEW reported \in SUBSET Keys, NEW k \in Keys
  PROVE  Advance(old, reported)[k] <= Need(k)
<1>1. Need(k) \in 1 .. MaxStrikes /\ old[k] \in 0 .. MaxStrikes
  BY NeedIsBounded
<1>2. Advance(old, reported)[k] = IF k \notin reported THEN 0
        ELSE IF old[k] + 1 < Need(k) THEN old[k] + 1 ELSE Need(k)
  BY DEF Advance
<1>. QED BY <1>1, <1>2, StrikesAssumption

LEMMA EngineGoneCapped ==
  ASSUME TypeOK, CappedInv, NEW w \in Workers, UNCHANGED engine \/ EngineGone(w)
  PROVE  CappedInv'
<1>1. CASE UNCHANGED engine
  BY <1>1 DEF engine, CappedInv
<1>2. CASE EngineGone(w)
  <2> SUFFICES ASSUME NEW v \in Workers, NEW k \in Keys PROVE streak'[v][k] <= Need(k)
    BY DEF CappedInv
  <2>1. CASE v = w
    <3>1. streak'[v][k] = 0
      BY <1>2, <2>1 DEF EngineGone, NoStreak, TypeOK
    <3>. QED BY <3>1, NeedIsBounded, StrikesAssumption
  <2>2. CASE v # w
    BY <1>2, <2>2 DEF EngineGone, CappedInv, TypeOK
  <2>. QED BY <2>1, <2>2
<1>. QED BY <1>1, <1>2

LEMMA CappedStep == TypeOK /\ CappedInv /\ [Next]_vars => CappedInv'
<1> SUFFICES ASSUME TypeOK, CappedInv, [Next]_vars PROVE CappedInv'
  OBVIOUS
<1>1. ASSUME NEW w \in Workers, TickBegin(w) PROVE CappedInv'
  <2> SUFFICES ASSUME NEW v \in Workers, NEW k \in Keys PROVE streak'[v][k] <= Need(k)
    BY DEF CappedInv
  <2>1. CASE v = w
    <3>1. streak'[v] = Advance(streak[v], Evaluate)
      BY <1>1, <2>1 DEF TickBegin, TypeOK
    <3>2. streak[v] \in [Keys -> 0 .. MaxStrikes] /\ Evaluate \in SUBSET Keys
      BY EvaluateType DEF TypeOK
    <3>. QED BY <3>1, <3>2, AdvanceCapped
  <2>2. CASE v # w
    BY <1>1, <2>2 DEF TickBegin, CappedInv, TypeOK
  <2>. QED BY <2>1, <2>2
<1>2. ASSUME NEW w \in Workers,
             Resolve(w) \/ DatabaseFails(w) \/ Crash(w) \/ \E k \in Keys : InsertUnanswered(w, k)
      PROVE  CappedInv'
  BY <1>2, EngineGoneCapped
     DEF Resolve, DatabaseFails, Crash, InsertUnanswered, ProcessAfter
<1>3. ASSUME UNCHANGED streak PROVE CappedInv'
  BY <1>3 DEF CappedInv
<1>. QED
  BY <1>1, <1>2, <1>3
     DEF Next, Proceed, WorldChanges, RuleBreaks, AckAlert, ListOpen, Refresh, OpenAlert,
         PushDone, engine, vars

-----------------------------------------------------------------------------
(* What the steps of the loop do to the rows of a key. *)

RowsKept == \A i \in Ids : /\ alerts'[i] # NoRow <=> alerts[i] # NoRow
                           /\ alerts[i] # NoRow => alerts'[i].key = alerts[i].key

LEMMA KeptRows ==
  ASSUME RowsKept
  PROVE  /\ \A k \in Keys : RowsOf(k)' = RowsOf(k)
         /\ AtMostOneOpen => AtMostOneOpen'
<1>1. OpenIds' = OpenIds
  BY DEF RowsKept, OpenIds
<1>2. \A k \in Keys : RowsOf(k)' = RowsOf(k)
  BY <1>1 DEF RowsKept, OpenIds, RowsOf
<1>3. AtMostOneOpen => AtMostOneOpen'
  BY <1>1 DEF RowsKept, OpenIds, AtMostOneOpen
<1>. QED BY <1>2, <1>3

LEMMA AckKeepsRows == ASSUME TypeOK, NEW i \in Ids, AckAlert(i) PROVE RowsKept
<1>1. \A j \in Ids \ {i} : alerts'[j] = alerts[j]
  BY DEF AckAlert, TypeOK
<1>2. alerts[i] \in Row /\ alerts'[i] = [alerts[i] EXCEPT !.acked = TRUE]
  BY DEF AckAlert, TypeOK
<1>3. alerts'[i] \in Row /\ alerts'[i].key = alerts[i].key
  BY <1>2 DEF Row
<1>4. alerts'[i] # NoRow /\ alerts[i] # NoRow
  BY <1>2, <1>3, IdsAssumption
<1>. QED BY <1>1, <1>3, <1>4 DEF RowsKept

LEMMA PushKeepsRows == ASSUME TypeOK, NEW w \in Workers, PushDone(w) PROVE RowsKept
<1>1. CASE alerts' = alerts
  BY <1>1 DEF RowsKept
<1>2. CASE alerts' # alerts
  <2> DEFINE i == pushing[w]
  <2>1. alerts[i] # NoRow /\ alerts' = [alerts EXCEPT ![i].pushes = @ + 1]
    BY <1>2 DEF PushDone
  <2>2. i \in Ids
    BY <1>2, <2>1 DEF TypeOK
  <2>3. \A j \in Ids \ {i} : alerts'[j] = alerts[j]
    BY <2>1, <2>2 DEF TypeOK
  <2>4. alerts[i] \in Row
    BY <2>1, <2>2 DEF TypeOK
  <2>5. alerts'[i] = [alerts[i] EXCEPT !.pushes = alerts[i].pushes + 1]
    BY <2>1, <2>2 DEF TypeOK
  <2>6. alerts'[i] \in Row /\ alerts'[i].key = alerts[i].key
    BY <2>4, <2>5, PushedRow DEF Row
  <2>7. alerts'[i] # NoRow
    BY <2>6, IdsAssumption
  <2>. QED BY <2>1, <2>3, <2>6, <2>7 DEF RowsKept
<1>. QED BY <1>1, <1>2

\* Inserting an alert on a key without one.
LEMMA InsertedRows ==
  ASSUME TypeOK, NEW k \in Keys, NEW i \in Ids, alerts[i] = NoRow, Insert(k, i), RowsOf(k) = {}
  PROVE  /\ RowsOf(k)' = {i}
         /\ \A j \in Keys \ {k} : RowsOf(j)' = RowsOf(j)
         /\ AtMostOneOpen => AtMostOneOpen'
<1> DEFINE row == [key |-> k, acked |-> FALSE, pushes |-> 0]
<1>1. row \in Row
  BY DEF Row
<1>2. row # NoRow
  BY <1>1, IdsAssumption
<1>3. alerts'[i] = row /\ \A j \in Ids \ {i} : alerts'[j] = alerts[j]
  BY DEF Insert, TypeOK
<1>4. OpenIds' = OpenIds \cup {i} /\ row.key = k
  BY <1>2, <1>3 DEF OpenIds
<1> HIDE DEF row
<1>5. RowsOf(k)' = {i}
  BY <1>3, <1>4 DEF RowsOf, OpenIds
<1>6. \A j \in Keys \ {k} : RowsOf(j)' = RowsOf(j)
  BY <1>3, <1>4 DEF RowsOf, OpenIds
<1>7. AtMostOneOpen => AtMostOneOpen'
  BY <1>3, <1>4 DEF AtMostOneOpen, RowsOf, OpenIds
<1>. QED BY <1>5, <1>6, <1>7

\* The one UPDATE at the end of a cycle clears exactly the keys that no rule
\* reported.
LEMMA ResolvedRows ==
  ASSUME TypeOK, SoleInv, Resolve(Loop)
  PROVE  /\ \A k \in Keys \ breaches[Loop] : RowsOf(k)' = {}
         /\ \A k \in breaches[Loop] : RowsOf(k)' = RowsOf(k)
         /\ AtMostOneOpen'
<1>1. \A k \in Keys : KnowsRows(k)
  BY DEF SoleInv, KnowsInv, Resolve
<1>2. \A i \in Ids : alerts'[i] = IF i \in Cleared(Loop) THEN NoRow ELSE alerts[i]
  BY DEF Resolve
<1>3. OpenIds' = OpenIds \ Cleared(Loop)
  BY <1>2 DEF OpenIds
<1>4. AtMostOneOpen'
  BY <1>2, <1>3 DEF SoleInv, AtMostOneOpen, OpenIds
<1>5. ASSUME NEW k \in Keys \ breaches[Loop] PROVE RowsOf(k)' = {}
  <2> SUFFICES ASSUME NEW i \in RowsOf(k)' PROVE FALSE
    OBVIOUS
  <2>1. i \in RowsOf(k) /\ i \notin Cleared(Loop)
    BY <1>2, <1>3 DEF RowsOf, OpenIds
  <2>2. Listed(k) # NoId /\ Listed(k) \in RowsOf(k)
    BY <1>1, <2>1 DEF KnowsRows
  <2>3. Listed(k) = i
    BY <2>1, <2>2 DEF SoleInv, AtMostOneOpen, RowsOf
  <2>. QED BY <2>1, <2>2, <2>3 DEF Cleared, Listed
<1>6. ASSUME NEW k \in breaches[Loop] PROVE RowsOf(k)' = RowsOf(k)
  <2>1. k \in Keys
    BY LoopWorks DEF TypeOK
  <2>2. ASSUME NEW i \in RowsOf(k) PROVE i \notin Cleared(Loop)
    <3> SUFFICES ASSUME NEW j \in Keys \ breaches[Loop], Listed(j) = i, i # NoId PROVE FALSE
      BY DEF Cleared, Listed
    <3>1. i \in RowsOf(j)
      BY <1>1 DEF KnowsRows
    <3>. QED BY <3>1 DEF RowsOf
  <2>. QED BY <1>2, <1>3, <2>2 DEF RowsOf, OpenIds
<1>. QED BY <1>4, <1>5, <1>6

-----------------------------------------------------------------------------
(* The invariant is inductive. *)

LEMMA CycleOverKnows == ASSUME TypeOK, CycleOver(Loop) PROVE KnowsInv'
BY LoopWorks DEF KnowsInv, CycleOver, TypeOK

LEMMA ListOpenKnows == ASSUME TypeOK, ListOpen(Loop) PROVE KnowsInv'
<1>1. /\ breaches' = breaches /\ streak' = streak
      /\ todo'[Loop] = {k \in breaches[Loop] : streak[Loop][k] >= Need(k)}
  BY LoopWorks DEF ListOpen, engine, TypeOK
<1>2. PICK m : OpenByKey(m) /\ existing' = [existing EXCEPT ![Loop] = m]
  BY DEF ListOpen
<1>3. existing'[Loop] = m
  BY <1>2, LoopWorks DEF TypeOK
<1>4. ASSUME NEW k \in Keys PROVE KnowsRows(k)'
  <2>1. RowsOf(k)' = RowsOf(k)
    BY DEF ListOpen, RowsOf, OpenIds
  <2>2. IF RowsOf(k) = {} THEN m[k] = NoId ELSE m[k] \in RowsOf(k)
    BY <1>2 DEF OpenByKey
  <2>3. m[k] \in RowsOf(k) => m[k] # NoId
    BY IdsAssumption DEF RowsOf, OpenIds
  <2>4. k \notin breaches'[Loop] \ todo'[Loop] \/ ~(streak'[Loop][k] >= Need(k))
    BY <1>1
  <2>5. Listed(k)' = m[k]
    BY <1>3 DEF Listed
  <2>. QED BY <2>1, <2>2, <2>3, <2>4, <2>5 DEF KnowsRows
<1>. QED BY <1>1, <1>4 DEF KnowsInv, LeftToWrite

LEMMA RefreshKnows ==
  ASSUME TypeOK, SoleInv, NEW k \in Keys, Refresh(Loop, k) PROVE KnowsInv'
<1>1. /\ existing' = existing /\ breaches' = breaches /\ streak' = streak
      /\ todo'[Loop] = todo[Loop] \ {k}
  BY LoopWorks DEF Refresh, engine, TypeOK
<1>2. LeftToWrite /\ \A j \in Keys : KnowsRows(j)
  BY DEF Refresh, SoleInv, KnowsInv
<1>3. Listed(k) # NoId
  BY DEF Refresh, Listed
<1>4. ASSUME NEW j \in Keys PROVE KnowsRows(j)'
  <2>1. RowsOf(j)' = RowsOf(j) /\ Listed(j)' = Listed(j)
    BY <1>1 DEF Refresh, RowsOf, OpenIds, Listed
  <2>. QED BY <1>1, <1>2, <1>3, <2>1 DEF KnowsRows
<1>. QED BY <1>1, <1>2, <1>4 DEF KnowsInv, LeftToWrite

\* A key left to write that was not listed has no row.
LEMMA NothingToDouble ==
  ASSUME SoleInv, NEW k \in Keys, pc[Loop] = "writing", k \in todo[Loop], existing[Loop][k] = NoId
  PROVE  RowsOf(k) = {}
BY DEF SoleInv, KnowsInv, KnowsRows, Listed

LEMMA OpenAlertKnows ==
  ASSUME TypeOK, SoleInv, NEW k \in Keys, OpenAlert(Loop, k)
  PROVE  /\ KnowsInv' /\ AtMostOneOpen'
         /\ RowsOf(k) = {} /\ RowsOf(k)' # {} /\ \A j \in Keys \ {k} : RowsOf(j)' = RowsOf(j)
<1>1. /\ existing' = existing /\ breaches' = breaches /\ streak' = streak
      /\ todo'[Loop] = todo[Loop] \ {k} /\ k \in todo[Loop]
  BY LoopWorks DEF OpenAlert, engine, TypeOK
<1>2. LeftToWrite /\ \A j \in Keys : KnowsRows(j)
  BY DEF OpenAlert, SoleInv, KnowsInv
<1>3. Listed(k) = NoId /\ RowsOf(k) = {}
  BY NothingToDouble DEF OpenAlert, Listed
<1>4. PICK i \in Ids : alerts[i] = NoRow /\ Insert(k, i)
  BY DEF OpenAlert, NextId, Unused
<1>5. /\ RowsOf(k)' = {i} /\ \A j \in Keys \ {k} : RowsOf(j)' = RowsOf(j)
      /\ AtMostOneOpen'
  BY <1>3, <1>4, InsertedRows DEF SoleInv
<1>6. ASSUME NEW j \in Keys PROVE KnowsRows(j)'
  <2>1. Listed(j)' = Listed(j)
    BY <1>1 DEF Listed
  <2>2. CASE j = k
    BY <1>1, <1>2, <1>3, <1>5, <2>1, <2>2 DEF KnowsRows, LeftToWrite
  <2>3. CASE j # k
    BY <1>1, <1>2, <1>5, <2>1, <2>3 DEF KnowsRows
  <2>. QED BY <2>2, <2>3
<1>7. KnowsInv'
  BY <1>1, <1>2, <1>6 DEF KnowsInv, LeftToWrite
<1>. QED BY <1>3, <1>5, <1>7

LEMMA InsertUnansweredRows ==
  ASSUME TypeOK, SoleInv, NEW k \in Keys, InsertUnanswered(Loop, k)
  PROVE  /\ AtMostOneOpen'
         /\ RowsOf(k) = {} /\ RowsOf(k)' # {} /\ \A j \in Keys \ {k} : RowsOf(j)' = RowsOf(j)
<1>1. RowsOf(k) = {}
  BY NothingToDouble DEF InsertUnanswered
<1>2. PICK i \in Ids : alerts[i] = NoRow /\ Insert(k, i)
  BY DEF InsertUnanswered, NextId, Unused
<1>. QED BY <1>1, <1>2, InsertedRows DEF SoleInv

LEMMA KeptKnows ==
  ASSUME RowsKept, SoleInv, UNCHANGED <<existing, breaches, todo, streak>>,
         pc'[Loop] \in {"writing", "pushing"} => pc[Loop] \in {"writing", "pushing"}
  PROVE  KnowsInv' /\ AtMostOneOpen'
<1>1. AtMostOneOpen'
  BY KeptRows DEF SoleInv
<1>2. \A k \in Keys : KnowsRows(k) => KnowsRows(k)'
  BY KeptRows DEF KnowsRows, Listed
<1>. QED BY <1>1, <1>2 DEF SoleInv, KnowsInv, LeftToWrite

LEMMA SoleStep ==
  ASSUME OneShots = {}, TypeOK, SoleInv, [Next]_vars PROVE SoleInv'
<1>1. CappedInv'
  BY CappedStep DEF SoleInv
<1>2. SUFFICES KnowsInv' /\ AtMostOneOpen'
  BY <1>1 DEF SoleInv
<1>3. ASSUME UNCHANGED <<alerts, existing, breaches, todo, streak, pc>>
      PROVE  KnowsInv' /\ AtMostOneOpen'
  BY <1>3, KeptKnows DEF RowsKept
<1>4. ASSUME NEW i \in Ids, AckAlert(i) PROVE KnowsInv' /\ AtMostOneOpen'
  BY <1>4, AckKeepsRows, KeptKnows DEF AckAlert, cycle, engine
<1>5. ASSUME TickBegin(Loop) PROVE KnowsInv' /\ AtMostOneOpen'
  <2>1. pc'[Loop] = "listing" /\ alerts' = alerts
    BY <1>5, LoopWorks DEF TickBegin, TypeOK
  <2>. QED BY <2>1 DEF KnowsInv, SoleInv, AtMostOneOpen, OpenIds
<1>6. ASSUME ListOpen(Loop) PROVE KnowsInv' /\ AtMostOneOpen'
  BY <1>6, ListOpenKnows DEF ListOpen, SoleInv, AtMostOneOpen, OpenIds
<1>7. ASSUME NEW k \in Keys, Refresh(Loop, k) PROVE KnowsInv' /\ AtMostOneOpen'
  BY <1>7, RefreshKnows DEF Refresh, SoleInv, AtMostOneOpen, OpenIds
<1>8. ASSUME NEW k \in Keys, OpenAlert(Loop, k) PROVE KnowsInv' /\ AtMostOneOpen'
  BY <1>8, OpenAlertKnows
<1>9. ASSUME PushDone(Loop) PROVE KnowsInv' /\ AtMostOneOpen'
  <2>1. RowsKept
    BY <1>9, LoopWorks, PushKeepsRows
  <2>. QED BY <1>9, <2>1, KeptKnows DEF PushDone, engine
<1>10. ASSUME Resolve(Loop) PROVE KnowsInv' /\ AtMostOneOpen'
  BY <1>10, CycleOverKnows, ResolvedRows DEF Resolve
<1>11. ASSUME DatabaseFails(Loop) \/ Crash(Loop) PROVE KnowsInv' /\ AtMostOneOpen'
  BY <1>11, CycleOverKnows DEF DatabaseFails, Crash, SoleInv, AtMostOneOpen, OpenIds
<1>12. ASSUME NEW k \in Keys, InsertUnanswered(Loop, k) PROVE KnowsInv' /\ AtMostOneOpen'
  BY <1>12, CycleOverKnows, InsertUnansweredRows DEF InsertUnanswered
<1>. QED
  BY OnlyLoop, <1>3, <1>4, <1>5, <1>6, <1>7, <1>8, <1>9, <1>10, <1>11, <1>12
     DEF Next, Proceed, WorldChanges, RuleBreaks, cycle, engine, vars

LEMMA InitSole == Init => SoleInv
BY NeedIsBounded, LoopWorks, StrikesAssumption
   DEF Init, SoleInv, CappedInv, NoStreak, AtMostOneOpen, OpenIds, KnowsInv

LEMMA SoleAlways == ASSUME OneShots = {} PROVE Spec => [](TypeOK /\ SoleInv)
<1>1. TypeOK /\ SoleInv /\ [Next]_vars => SoleInv'
  BY SoleStep
<1>. QED BY <1>1, TypeCorrect, InitSole, PTL DEF Spec

\* While the loop is the only worker, no key ever has two open alerts: the
\* engine looks before it opens, and a lost answer or a restart makes it look
\* again.
THEOREM NeverTwoOpen == ASSUME OneShots = {} PROVE Spec => []AtMostOneOpen
<1>1. SoleInv => AtMostOneOpen
  BY DEF SoleInv
<1>. QED BY <1>1, SoleAlways, PTL

-----------------------------------------------------------------------------
(* The refinement: every step of the engine is a step of the promise, or   *)
(* leaves raised, count and verdict alone.                                 *)

Verdict == IF pc[Loop] = "idle" THEN NoRow ELSE breaches[Loop]

LEMMA VerdictStands ==
  ASSUME TypeOK, pc[Loop] # "idle" PROVE Verdict = breaches[Loop] /\ Verdict # NoRow
BY LoopWorks, NoVerdictAssumption DEF Verdict, TypeOK

LEMMA JudgeMapped ==
  ASSUME TypeOK, CappedInv, TickBegin(Loop) PROVE Promise!Judge(Evaluate)
<1>1. /\ pc[Loop] = "idle" /\ pc'[Loop] = "listing" /\ breaches'[Loop] = Evaluate
      /\ streak'[Loop] = Advance(streak[Loop], Evaluate) /\ alerts' = alerts
  BY LoopWorks DEF TickBegin, TypeOK
<1>2. ASSUME NEW k \in Keys
      PROVE  (IF k \notin Evaluate THEN 0
              ELSE IF streak[Loop][k] + 1 < Need(k) THEN streak[Loop][k] + 1 ELSE Need(k))
             = IF k \in Evaluate THEN Promise!Capped(streak[Loop][k] + 1, k) ELSE 0
  BY DEF Promise!Capped
<1>3. Advance(streak[Loop], Evaluate)
      = [k \in Keys |-> IF k \in Evaluate THEN Promise!Capped(streak[Loop][k] + 1, k) ELSE 0]
  BY <1>2 DEF Advance
<1>4. \A k \in Keys : RowsOf(k)' = RowsOf(k)
  BY <1>1 DEF RowsOf, OpenIds
<1>. QED BY <1>1, <1>3, <1>4 DEF Promise!Judge

\* A key left to write has its full count.
LEMMA FullCount ==
  ASSUME TypeOK, SoleInv, pc[Loop] = "writing", NEW k \in todo[Loop]
  PROVE  k \in Keys /\ k \in breaches[Loop] /\ streak[Loop][k] = Need(k)
<1>1. k \in Keys
  BY LoopWorks DEF TypeOK
<1>2. streak[Loop][k] \in 0 .. MaxStrikes /\ Need(k) \in 1 .. MaxStrikes
  BY <1>1, LoopWorks, NeedIsBounded DEF TypeOK
<1>3. streak[Loop][k] <= Need(k) /\ streak[Loop][k] >= Need(k) /\ k \in breaches[Loop]
  BY <1>1, LoopWorks DEF SoleInv, CappedInv, KnowsInv, LeftToWrite
<1>. QED BY <1>1, <1>2, <1>3

LEMMA RaiseMapped ==
  ASSUME TypeOK, SoleInv, NEW k \in Keys, OpenAlert(Loop, k) PROVE Promise!Raise(k)
<1>1. pc[Loop] = "writing" /\ k \in todo[Loop] /\ breaches' = breaches /\ streak' = streak
  BY DEF OpenAlert, engine
<1>2. pc'[Loop] # "idle"
  BY LoopWorks, <1>1 DEF OpenAlert, TypeOK
<1>3. k \in breaches[Loop] /\ streak[Loop][k] = Need(k)
  BY <1>1, FullCount
<1>4. RowsOf(k) = {} /\ RowsOf(k)' # {} /\ \A j \in Keys \ {k} : RowsOf(j)' = RowsOf(j)
  BY OpenAlertKnows
<1>5. {j \in Keys : RowsOf(j)' # {}} = {j \in Keys : RowsOf(j) # {}} \cup {k}
  BY <1>4
<1>6. Verdict # NoRow
  BY <1>1, VerdictStands
<1>. QED BY <1>1, <1>2, <1>3, <1>4, <1>5, <1>6 DEF Promise!Raise, Verdict

LEMMA RaiseAndAbandonMapped ==
  ASSUME TypeOK, SoleInv, NEW k \in Keys, InsertUnanswered(Loop, k), UNCHANGED streak
  PROVE  Promise!RaiseAndAbandon(k)
<1>1. pc[Loop] = "writing" /\ k \in todo[Loop]
  BY DEF InsertUnanswered
<1>2. pc'[Loop] = "idle"
  BY LoopWorks DEF InsertUnanswered, CycleOver, TypeOK
<1>3. k \in breaches[Loop] /\ streak[Loop][k] = Need(k)
  BY <1>1, FullCount
<1>4. RowsOf(k) = {} /\ RowsOf(k)' # {} /\ \A j \in Keys \ {k} : RowsOf(j)' = RowsOf(j)
  BY InsertUnansweredRows
<1>5. {j \in Keys : RowsOf(j)' # {}} = {j \in Keys : RowsOf(j) # {}} \cup {k}
  BY <1>4
<1>6. Verdict # NoRow
  BY <1>1, VerdictStands
<1>. QED BY <1>1, <1>2, <1>3, <1>4, <1>5, <1>6 DEF Promise!RaiseAndAbandon, Verdict

LEMMA ConcludeMapped ==
  ASSUME TypeOK, SoleInv, Resolve(Loop), UNCHANGED streak PROVE Promise!Conclude
<1>1. pc[Loop] = "writing" /\ todo[Loop] = {}
  BY DEF Resolve
<1>2. pc'[Loop] = "idle"
  BY LoopWorks DEF Resolve, CycleOver, TypeOK
<1>3. breaches[Loop] \subseteq Keys
  BY LoopWorks DEF TypeOK
<1>4. ASSUME NEW k \in breaches[Loop], streak[Loop][k] = Need(k) PROVE RowsOf(k) # {}
  <2>1. k \in Keys /\ Need(k) \in 1 .. MaxStrikes
    BY <1>3, NeedIsBounded
  <2>2. KnowsRows(k)
    BY <1>1, <2>1 DEF SoleInv, KnowsInv
  <2>. QED BY <1>1, <1>4, <2>1, <2>2 DEF KnowsRows
<1>5. {k \in Keys : RowsOf(k)' # {}} = {k \in Keys : RowsOf(k) # {}} \cap breaches[Loop]
  BY <1>3, ResolvedRows
<1>6. Verdict # NoRow
  BY <1>1, VerdictStands
<1>. QED BY <1>1, <1>2, <1>3, <1>4, <1>5, <1>6 DEF Promise!Conclude, Verdict

LEMMA AbandonMapped ==
  ASSUME TypeOK, DatabaseFails(Loop), UNCHANGED streak PROVE Promise!Abandon
<1>1. pc[Loop] # "idle" /\ alerts' = alerts
  BY DEF DatabaseFails
<1>2. pc'[Loop] = "idle"
  BY LoopWorks DEF DatabaseFails, CycleOver, TypeOK
<1>3. \A k \in Keys : RowsOf(k)' = RowsOf(k)
  BY <1>1 DEF RowsOf, OpenIds
<1>4. Verdict # NoRow
  BY <1>1, VerdictStands
<1>. QED BY <1>1, <1>2, <1>3, <1>4 DEF Promise!Abandon, Verdict

LEMMA RestartMapped == ASSUME TypeOK, Crash(Loop) PROVE Promise!Restart
<1>1. pc'[Loop] = "idle" /\ streak'[Loop] = NoStreak /\ alerts' = alerts
  BY LoopWorks DEF Crash, CycleOver, EngineGone, TypeOK
<1>2. \A k \in Keys : RowsOf(k)' = RowsOf(k)
  BY <1>1 DEF RowsOf, OpenIds
<1>. QED BY <1>1, <1>2 DEF Promise!Restart, NoStreak

\* The steps within a cycle that the promise does not see.
LEMMA Unseen ==
  ASSUME TypeOK, RowsKept, UNCHANGED <<streak, breaches>>,
         (pc'[Loop] = "idle") <=> (pc[Loop] = "idle")
  PROVE  UNCHANGED Promise!avars
BY KeptRows DEF Promise!avars

LEMMA StepMapped ==
  ASSUME OneShots = {}, TypeOK, SoleInv, [Next]_vars PROVE [Promise!ANext]_Promise!avars
<1>1. ASSUME UNCHANGED <<alerts, streak, breaches, pc>> PROVE UNCHANGED Promise!avars
  BY <1>1, Unseen DEF RowsKept
<1>2. ASSUME NEW i \in Ids, AckAlert(i) PROVE UNCHANGED Promise!avars
  BY <1>2, AckKeepsRows, Unseen DEF AckAlert, cycle, engine
<1>3. ASSUME TickBegin(Loop) PROVE Promise!ANext
  <2>1. Promise!Judge(Evaluate)
    BY <1>3, JudgeMapped DEF SoleInv
  <2>2. Evaluate \in SUBSET Keys
    BY EvaluateType DEF TypeOK
  <2>. QED BY <2>1, <2>2 DEF Promise!ANext
<1>4. ASSUME ListOpen(Loop) PROVE UNCHANGED Promise!avars
  <2>1. pc[Loop] # "idle" /\ pc'[Loop] # "idle"
    BY <1>4, LoopWorks DEF ListOpen, TypeOK
  <2>. QED BY <1>4, <2>1, Unseen DEF ListOpen, RowsKept, engine
<1>5. ASSUME NEW k \in Keys, Refresh(Loop, k) PROVE UNCHANGED Promise!avars
  BY <1>5, <1>1 DEF Refresh, engine
<1>6. ASSUME NEW k \in Keys, OpenAlert(Loop, k) PROVE Promise!ANext
  BY <1>6, RaiseMapped DEF Promise!ANext
<1>7. ASSUME PushDone(Loop) PROVE UNCHANGED Promise!avars
  <2>1. pc[Loop] # "idle" /\ pc'[Loop] # "idle"
    BY <1>7, LoopWorks DEF PushDone, TypeOK
  <2>2. RowsKept
    BY <1>7, LoopWorks, PushKeepsRows
  <2>. QED BY <1>7, <2>1, <2>2, Unseen DEF PushDone, engine
<1>8. ASSUME Resolve(Loop) PROVE Promise!ANext
  BY <1>8, ConcludeMapped DEF Promise!ANext, Resolve, ProcessAfter, engine
<1>9. ASSUME DatabaseFails(Loop) PROVE Promise!ANext
  BY <1>9, AbandonMapped DEF Promise!ANext, DatabaseFails, ProcessAfter, engine
<1>10. ASSUME NEW k \in Keys, InsertUnanswered(Loop, k) PROVE Promise!ANext
  BY <1>10, RaiseAndAbandonMapped DEF Promise!ANext, InsertUnanswered, ProcessAfter, engine
<1>11. ASSUME Crash(Loop) PROVE Promise!ANext
  BY <1>11, RestartMapped DEF Promise!ANext
<1>. QED
  BY OnlyLoop, <1>1, <1>2, <1>3, <1>4, <1>5, <1>6, <1>7, <1>8, <1>9, <1>10, <1>11
     DEF Next, Proceed, WorldChanges, RuleBreaks, cycle, engine, vars

LEMMA InitMapped == Init => Promise!AInit
BY LoopWorks DEF Init, Promise!AInit, RowsOf, OpenIds, NoStreak

\* With the loop as the only worker, the alerts table keeps the promise of
\* AlertLifecycle through acknowledgements, throwing rules, failing database
\* calls, lost answers and restarts.
THEOREM LoopKeepsPromise == ASSUME OneShots = {} PROVE Spec => KeepsPromise
<1>1. TypeOK /\ SoleInv /\ [Next]_vars => [Promise!ANext]_Promise!avars
  BY StepMapped
<1>. QED BY <1>1, InitMapped, SoleAlways, PTL DEF Spec, KeepsPromise, Promise!ASpec
=============================================================================
