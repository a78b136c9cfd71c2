------------------------------- MODULE Alerts -------------------------------
(***************************************************************************)
(* The alert engine of the poller worker (alerts/engine.ts), its database  *)
(* store (alerts/store.ts) and the notifying decorator around it           *)
(* (alerts/notifying-store.ts), with every await of a cycle a point where  *)
(* the database may fail, the process may die, a user may acknowledge an   *)
(* alert and another worker may run.                                       *)
(*                                                                         *)
(* Workers: Loop is the systemd service, which cycles for ever; a one-shot *)
(* is an invocation of the worker with --once, which runs one cycle with   *)
(* an engine of its own against the same table.                            *)
(*                                                                         *)
(* Data abstracted: a rule is the set of targets it reports (world) and    *)
(* whether its evaluate() throws (faulty); messages, severities and dates  *)
(* are left out.  A resolved row is history no code path reads back, so    *)
(* the model drops it; its id is used again once no cycle holds it.        *)
(***************************************************************************)
EXTENDS Naturals

CONSTANTS
  Rules, Targets,
  MaxStrikes,   \* the largest strike count of a rule
  Strikes,      \* Strikes[r]: the strikes of rule r
  PushRules,    \* the rules with a notification event type
  Loop,         \* the long-running worker
  OneShots,     \* workers started with --once
  Ids,          \* alert ids
  NoRow,        \* an id without an open row
  MaxFailures,  \* bound on failing database calls
  MaxCrashes    \* bound on deaths of a worker

NoId == 0
Workers == {Loop} \cup OneShots
Keys == Rules \X Targets
Need(k) == Strikes[k[1]]
Row == [key : Keys, acked : BOOLEAN, pushes : Nat]

ASSUME StrikesAssumption == MaxStrikes \in Nat /\ Strikes \in [Rules -> 1 .. MaxStrikes]
ASSUME IdsAssumption == Ids \subseteq Nat \ {NoId} /\ NoRow \notin Row
ASSUME NoVerdictAssumption == \A judged \in SUBSET Keys : judged # NoRow
ASSUME BoundsAssumption == MaxFailures \in Nat /\ MaxCrashes \in Nat

VARIABLES
  world,     \* the keys whose condition holds, as the rules would report them
  faulty,    \* the rules whose evaluate() throws on the data as it is now
  alerts,    \* alerts[i]: the open row with id i, or NoRow
  streak,    \* streak[w][k]: the engine's Map, an absent key as 0
  pc,        \* where worker w is in its cycle
  breaches,  \* breaches[w]: breachByKey of the running cycle
  existing,  \* existing[w][k]: openByKey of the running cycle, NoId where absent
  todo,      \* todo[w]: the breaches its open/refresh loop has not reached yet
  pushing,   \* pushing[w]: the id whose push is being sent
  lived,     \* lived[w][n]: what w's n-th last evaluation reported (a history)
  failures, crashes

cycle == <<pc, breaches, existing, todo, pushing>>
engine == <<streak, lived>>
vars == <<world, faulty, alerts, cycle, engine, failures, crashes>>

OpenIds == {i \in Ids : alerts[i] # NoRow}
RowsOf(k) == {i \in OpenIds : alerts[i].key = k}

NoStreak == [k \in Keys |-> 0]
NothingOpen == [k \in Keys |-> NoId]
NeverEvaluated == [n \in 1 .. MaxStrikes |-> {}]

Init ==
  /\ world = {} /\ faulty = {}
  /\ alerts = [i \in Ids |-> NoRow]
  /\ streak = [w \in Workers |-> NoStreak]
  /\ pc = [w \in Workers |-> "idle"]
  /\ breaches = [w \in Workers |-> {}]
  /\ existing = [w \in Workers |-> NothingOpen]
  /\ todo = [w \in Workers |-> {}]
  /\ pushing = [w \in Workers |-> NoId]
  /\ lived = [w \in Workers |-> NeverEvaluated]
  /\ failures = 0 /\ crashes = 0

-----------------------------------------------------------------------------
(* The machines under watch. *)

\* A condition appears or goes away.
WorldChanges(k) ==
  /\ world' = IF k \in world THEN world \ {k} ELSE world \cup {k}
  /\ UNCHANGED <<faulty, alerts, cycle, engine, failures, crashes>>

\* The data a rule reads becomes such that it throws, or usable again.
RuleBreaks(r) ==
  /\ faulty' = IF r \in faulty THEN faulty \ {r} ELSE faulty \cup {r}
  /\ UNCHANGED <<world, alerts, cycle, engine, failures, crashes>>

-----------------------------------------------------------------------------
(* A cycle of worker w. *)

\* What the rules report, those that throw being skipped.
Evaluate == {k \in world : k[1] \notin faulty}

\* Slips of the streak update: no cap; a clear key keeps its streak; the cap one
\* short of the strike count.
AdvanceUncapped(old, reported) == [k \in Keys |-> IF k \in reported THEN old[k] + 1 ELSE 0]
AdvanceNoReset(old, reported) ==
  [k \in Keys |-> IF k \in reported /\ old[k] < Need(k) THEN old[k] + 1 ELSE old[k]]
AdvanceShort(old, reported) ==
  [k \in Keys |-> IF k \notin reported THEN 0
                  ELSE IF old[k] + 1 < Need(k) THEN old[k] + 1 ELSE Need(k) - 1]

\* The streak map after an evaluation that reported `reported`: capped at the
\* rule's strikes, dropped for a key that does not breach.
Advance(old, reported) ==
  [k \in Keys |-> IF k \notin reported THEN 0
                  ELSE IF old[k] + 1 < Need(k) THEN old[k] + 1 ELSE Need(k)]

\* The history of the last MaxStrikes evaluations, latest first.
Remember(old, reported) ==
  [n \in 1 .. MaxStrikes |-> IF n = 1 THEN reported ELSE old[n - 1]]

\* assembleRuleInput has read the database, and tick() runs up to its first
\* await: evaluation and debounce.  (An assembly that fails changes nothing.)
TickBegin(w) ==
  /\ pc[w] = "idle"
  /\ pc' = [pc EXCEPT ![w] = "listing"]
  /\ breaches' = [breaches EXCEPT ![w] = Evaluate]
  /\ streak' = [streak EXCEPT ![w] = Advance(@, Evaluate)]
  /\ lived' = [lived EXCEPT ![w] = Remember(@, Evaluate)]
  /\ UNCHANGED <<world, faulty, alerts, existing, todo, pushing, failures, crashes>>

\* A slip: the open rows are looked up under another key than they are stored.
OpenByKeyMissed(m) == m = NothingOpen

\* openByKey keeps one row per key; which one, when there are several, is up to
\* the order the database returns them in.
OpenByKey(m) ==
  /\ m \in [Keys -> Ids \cup {NoId}]
  /\ \A k \in Keys : IF RowsOf(k) = {} THEN m[k] = NoId ELSE m[k] \in RowsOf(k)

\* listOpen returns.  The breaches that met their strike count are left to write.
ListOpen(w) ==
  /\ pc[w] = "listing"
  /\ \E m \in [Keys -> Ids \cup {NoId}] : OpenByKey(m) /\ existing' = [existing EXCEPT ![w] = m]
  /\ todo' = [todo EXCEPT ![w] = {k \in breaches[w] : streak[w][k] >= Need(k)}]
  /\ pc' = [pc EXCEPT ![w] = "writing"]
  /\ UNCHANGED <<world, faulty, alerts, breaches, pushing, engine, failures, crashes>>

\* Slips of refresh: it notifies as open() does; it writes the whole row anew.
RefreshPushes(w, k) ==
  /\ pc[w] = "writing" /\ k \in todo[w] /\ existing[w][k] # NoId
  /\ todo' = [todo EXCEPT ![w] = @ \ {k}]
  /\ IF k[1] \in PushRules
     THEN pc' = [pc EXCEPT ![w] = "pushing"] /\ pushing' = [pushing EXCEPT ![w] = existing[w][k]]
     ELSE UNCHANGED <<pc, pushing>>
  /\ UNCHANGED <<world, faulty, alerts, breaches, existing, engine, failures, crashes>>
RefreshRewrites(w, k) ==
  /\ pc[w] = "writing" /\ k \in todo[w] /\ existing[w][k] # NoId
  /\ todo' = [todo EXCEPT ![w] = @ \ {k}]
  /\ alerts' = [i \in Ids |-> IF i = existing[w][k] /\ alerts[i] # NoRow
                              THEN [alerts[i] EXCEPT !.acked = FALSE] ELSE alerts[i]]
  /\ UNCHANGED <<world, faulty, pc, breaches, existing, pushing, engine, failures, crashes>>

\* A row that is open already gets its lastSeen, message and severity bumped,
\* none of which the model keeps.
Refresh(w, k) ==
  /\ pc[w] = "writing" /\ k \in todo[w] /\ existing[w][k] # NoId
  /\ todo' = [todo EXCEPT ![w] = @ \ {k}]
  /\ UNCHANGED <<world, faulty, alerts, pc, breaches, existing, pushing, engine, failures, crashes>>

\* newId() returns an id no row has and no cycle holds; which one is
\* immaterial, so the lowest.
Unused(i) ==
  /\ alerts[i] = NoRow
  /\ \A w \in Workers : pushing[w] # i /\ \A k \in Keys : existing[w][k] # i
NextId(i) == Unused(i) /\ \A j \in Ids : Unused(j) => i <= j

Insert(k, i) == alerts' = [alerts EXCEPT ![i] = [key |-> k, acked |-> FALSE, pushes |-> 0]]

\* A new alert is inserted; if its rule has an event type, the push is next.
OpenAlert(w, k) ==
  /\ pc[w] = "writing" /\ k \in todo[w] /\ existing[w][k] = NoId
  /\ todo' = [todo EXCEPT ![w] = @ \ {k}]
  /\ \E i \in Ids :
       /\ NextId(i) /\ Insert(k, i)
       /\ IF k[1] \in PushRules
          THEN pc' = [pc EXCEPT ![w] = "pushing"] /\ pushing' = [pushing EXCEPT ![w] = i]
          ELSE UNCHANGED <<pc, pushing>>
  /\ UNCHANGED <<world, faulty, breaches, existing, engine, failures, crashes>>

\* sendPush returns, having sent or having thrown: the decorator catches it.
PushDone(w) ==
  /\ pc[w] = "pushing"
  /\ \/ /\ alerts[pushing[w]] # NoRow
        /\ alerts' = [alerts EXCEPT ![pushing[w]].pushes = @ + 1]
     \/ UNCHANGED alerts
  /\ pc' = [pc EXCEPT ![w] = "writing"]
  /\ pushing' = [pushing EXCEPT ![w] = NoId]
  /\ UNCHANGED <<world, faulty, breaches, existing, todo, engine, failures, crashes>>

\* The locals of a cycle go with it, and the engine of a --once worker too.
CycleOver(w) ==
  /\ pc' = [pc EXCEPT ![w] = "idle"]
  /\ breaches' = [breaches EXCEPT ![w] = {}]
  /\ existing' = [existing EXCEPT ![w] = NothingOpen]
  /\ todo' = [todo EXCEPT ![w] = {}]
  /\ pushing' = [pushing EXCEPT ![w] = NoId]

EngineGone(w) ==
  /\ streak' = [streak EXCEPT ![w] = NoStreak]
  /\ lived' = [lived EXCEPT ![w] = NeverEvaluated]

ProcessAfter(w) == IF w = Loop THEN UNCHANGED engine ELSE EngineGone(w)

\* Slips: a key that is still debouncing counts as clear; an acknowledged alert
\* is left to the user.
ClearedIfNotReady(w) ==
  {existing[w][k] : k \in {j \in Keys : j \notin breaches[w] \/ streak[w][j] < Need(j)}} \ {NoId}
ClearedUnlessAcked(w) ==
  {i \in {existing[w][k] : k \in Keys \ breaches[w]} \ {NoId} :
     alerts[i] # NoRow => ~alerts[i].acked}

\* resolvedIds: the listed rows whose key no rule reported this cycle.
Cleared(w) == {existing[w][k] : k \in Keys \ breaches[w]} \ {NoId}

\* All writes done: one UPDATE stamps resolvedAt on every cleared row.
Resolve(w) ==
  /\ pc[w] = "writing" /\ todo[w] = {}
  /\ alerts' = [i \in Ids |-> IF i \in Cleared(w) THEN NoRow ELSE alerts[i]]
  /\ CycleOver(w) /\ ProcessAfter(w)
  /\ UNCHANGED <<world, faulty, failures, crashes>>

-----------------------------------------------------------------------------
(* What goes wrong. *)

\* A database call of the cycle throws: runAlertsSafe catches, and the cycle
\* ends with what it has written so far.
DatabaseFails(w) ==
  /\ failures < MaxFailures /\ failures' = failures + 1
  /\ \/ pc[w] = "listing"
     \/ pc[w] = "writing" /\ (todo[w] # {} \/ Cleared(w) # {})
  /\ CycleOver(w) /\ ProcessAfter(w)
  /\ UNCHANGED <<world, faulty, alerts, crashes>>

\* The INSERT is committed and its answer lost.
InsertUnanswered(w, k) ==
  /\ failures < MaxFailures /\ failures' = failures + 1
  /\ pc[w] = "writing" /\ k \in todo[w] /\ existing[w][k] = NoId
  /\ \E i \in Ids : NextId(i) /\ Insert(k, i)
  /\ CycleOver(w) /\ ProcessAfter(w)
  /\ UNCHANGED <<world, faulty, crashes>>

\* The process dies, at any await or between cycles, and is started again.
Crash(w) ==
  /\ crashes < MaxCrashes /\ crashes' = crashes + 1
  /\ w = Loop \/ pc[w] # "idle"
  /\ CycleOver(w) /\ EngineGone(w)
  /\ UNCHANGED <<world, faulty, alerts, failures>>

-----------------------------------------------------------------------------
(* A user acknowledges an alert on the /alerts page. *)
AckAlert(i) ==
  /\ alerts[i] # NoRow
  /\ alerts' = [alerts EXCEPT ![i].acked = TRUE]
  /\ UNCHANGED <<world, faulty, cycle, engine, failures, crashes>>

Proceed(w) ==
  \/ ListOpen(w)
  \/ \E k \in Keys : Refresh(w, k) \/ OpenAlert(w, k)
  \/ PushDone(w)
  \/ Resolve(w)

Next ==
  \/ \E k \in Keys : WorldChanges(k)
  \/ \E r \in Rules : RuleBreaks(r)
  \/ \E i \in Ids : AckAlert(i)
  \/ \E w \in Workers :
       \/ TickBegin(w)
       \/ Proceed(w)
       \/ DatabaseFails(w)
       \/ \E k \in Keys : InsertUnanswered(w, k)
       \/ Crash(w)

Spec == Init /\ [][Next]_vars

\* The loop comes back to its cycle for ever (setTimeout, runAlertsSafe never throws).
\* Nothing has to end that awaits the database or a push endpoint, for neither has a
\* timeout; nobody has to start a --once worker, and no user has to acknowledge anything.
Fairness == WF_vars(TickBegin(Loop))

FairSpec == Spec /\ Fairness

-----------------------------------------------------------------------------
(* Properties. *)

TypeOK ==
  /\ world \subseteq Keys /\ faulty \subseteq Rules
  /\ alerts \in [Ids -> Row \cup {NoRow}]
  /\ streak \in [Workers -> [Keys -> 0 .. MaxStrikes]]
  /\ pc \in [Workers -> {"idle", "listing", "writing", "pushing"}]
  /\ breaches \in [Workers -> SUBSET Keys]
  /\ existing \in [Workers -> [Keys -> Ids \cup {NoId}]]
  /\ todo \in [Workers -> SUBSET Keys]
  /\ pushing \in [Workers -> Ids \cup {NoId}]
  /\ lived \in [Workers -> [1 .. MaxStrikes -> SUBSET Keys]]
  /\ failures \in 0 .. MaxFailures /\ crashes \in 0 .. MaxCrashes

\* While the loop is the only worker, a key never has two open alerts: not
\* after an insert whose answer was lost, nor after a restart in mid-cycle.
AtMostOneOpen == \A i, j \in OpenIds : alerts[i].key = alerts[j].key => i = j

\* An alert opens only when the worker that opens it, since it was started,
\* has seen its key breach in as many consecutive evaluations as the rule has
\* strikes: failed cycles, restarts and other workers earn no strike.
EarnedBy(w, k) == \A n \in 1 .. Need(k) : k \in lived[w][n]
OpensEarned ==
  [][\A i \in Ids : alerts[i] = NoRow /\ alerts'[i] # NoRow =>
        \E w \in Workers : EarnedBy(w, alerts'[i].key)]_vars

\* An alert is pushed at most once in its life, however often it is observed
\* again, and only if its rule has an event type (the fire-once seam of
\* notifying-store.ts).
PushedOnce ==
  \A i \in OpenIds : alerts[i].pushes <= (IF alerts[i].key[1] \in PushRules THEN 1 ELSE 0)

\* An acknowledged alert stays acknowledged until it is resolved, whatever
\* cycle was under way when the user acknowledged it.
AckHolds ==
  [][\A i \in OpenIds : alerts[i].acked /\ alerts'[i] # NoRow => alerts'[i].acked]_vars

\* With the loop as the only worker, the alerts table implements the promise
\* of AlertLifecycle, through failing calls and restarts.
Promise == INSTANCE AlertLifecycle WITH
  Strikes <- [k \in Keys |-> Need(k)],
  NoVerdict <- NoRow,
  raised <- {k \in Keys : RowsOf(k) # {}},
  count <- streak[Loop],
  verdict <- IF pc[Loop] = "idle" THEN NoRow ELSE breaches[Loop]
KeepsPromise == Promise!ASpec

\* One call of the loop is never answered: poller/index.ts awaits it, so there is no
\* further cycle.
LoopHangs == \E await \in {"listing", "writing", "pushing"} : <>[](pc[Loop] = await)

\* A condition that lasts, and that its rule can read, is shown in the end, unless a
\* call of the loop hangs for ever.
LastingBreachIsShown ==
  LoopHangs \/ \A k \in Keys :
                 <>[](k \in world /\ k[1] \notin faulty) => <>[](RowsOf(k) # {})

\* Once a condition is gone for good, every alert on it is resolved in the
\* end, duplicates left by concurrent workers included, unless a call of the
\* loop hangs for ever.  A --once worker may hang.
ClearedIsResolved ==
  LoopHangs \/ \A k \in Keys : <>[](k \notin world) => <>[](RowsOf(k) = {})
=============================================================================
