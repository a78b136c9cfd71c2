---------------------------- MODULE PollerProofs ----------------------------
(***************************************************************************)
(* What holds of the poller's loop for any number of services, jobs and    *)
(* deaths, whatever the intervals, time bounds and the breaker's numbers.  *)
(***************************************************************************)
EXTENDS Poller, FiniteSetTheorems, TLAPS

\* The steps of a pass, one by one.
LoopSteps ==
  \/ PassBegins \/ Sleep \/ TimePasses \/ Crash
  \/ AgentAnswers
  \/ \E s \in Services : \/ TurnComes(s) \/ NotConfigured(s) \/ BeginPoll(s)
                         \/ PollTimesOut(s) \/ Persist(s) \/ Record(s)
                         \/ \E ok \in BOOLEAN : PollEnds(s, ok)
  \/ \E j \in Jobs : BeginJob(j) \/ JobEnds(j)

LEMMA NextSteps == Next <=> LoopSteps
BY DEF Next, Prompt, InItsOwnTime, PollAnswered, LoopSteps

LEMMA Numbers ==
  /\ Interval \in [Services -> Nat \ {0}] /\ Jitter \in [Services -> Nat]
  /\ Tick \in Nat \ {0} /\ Backoff \in Nat \ {0} /\ Threshold \in Nat \ {0} /\ PollTimeout \in Nat \ {0}
  /\ PollTail \in Nat /\ AskTime \in Nat /\ RestartDelay \in Nat /\ MaxCrashes \in Nat /\ MaxHung \in Nat
  /\ PollTail <= Backoff /\ Never \notin Int
BY TimesAssumption, TailAssumption, NeverAssumption

\* One thing is first: no two have the same position.
LEMMA OneFirst ==
  ASSUME todo \subseteq Steps, NEW x, NEW y, First(x), First(y) PROVE x = y
<1>1. x \in Steps /\ y \in Steps /\ Position[x] <= Position[y] /\ Position[y] <= Position[x]
  BY DEF First
<1>2. Position[x] \in Nat /\ Position[y] \in Nat
  BY <1>1, StepsAssumption
<1>3. Position[x] = Position[y]
  BY <1>1, <1>2
<1>. QED BY <1>1, <1>3, StepsAssumption

-----------------------------------------------------------------------------
(* The types. *)

Ages == Nat \cup {Never}
Breakers == {[failures |-> n, tripped |-> n = Threshold] : n \in 0 .. Threshold}

LEMMA OlderType == ASSUME NEW age \in Ages PROVE Older(age) \in Ages
BY DEF Older, Ages

LEMMA LessType == ASSUME NEW n \in Nat PROVE Less(n) \in Nat /\ (n # 0 => Less(n) = n - 1)
BY DEF Less

LEMMA SaturatedType ==
  ASSUME NEW n \in Nat
  PROVE  /\ Saturated(n) \in 0 .. Threshold /\ Saturated(n) <= n
         /\ (Saturated(n) = Threshold <=> n >= Threshold)
BY Numbers DEF Saturated

LEMMA ClosedType == Closed \in Breakers /\ Closed.failures = 0 /\ Closed.tripped = FALSE
<1>1. 0 \in 0 .. Threshold /\ (0 = Threshold) = FALSE
  BY Numbers
<1>2. Closed = [failures |-> 0, tripped |-> 0 = Threshold]
  BY <1>1 DEF Closed
<1>. QED BY <1>1, <1>2 DEF Breakers

LEMMA BreakerFields ==
  ASSUME NEW b \in Breakers PROVE b.failures \in 0 .. Threshold /\ b.tripped = (b.failures = Threshold)
BY DEF Breakers

LEMMA RecordType ==
  ASSUME NEW b \in Breakers, NEW ok \in BOOLEAN
  PROVE  /\ RecordResult(b, ok) \in Breakers
         /\ ok => RecordResult(b, ok).failures = 0
         /\ ~ok => RecordResult(b, ok).failures = Saturated(b.failures + 1)
<1>1. CASE ok
  BY <1>1, ClosedType DEF RecordResult
<1>2. CASE ~ok
  <2> DEFINE n == b.failures + 1
  <2>1. n \in Nat
    BY BreakerFields, Numbers
  <2>2. RecordResult(b, ok) = [failures |-> Saturated(n), tripped |-> n >= Threshold]
    BY <1>2 DEF RecordResult
  <2>. HIDE DEF n
  <2>3. RecordResult(b, ok) = [failures |-> Saturated(n), tripped |-> Saturated(n) = Threshold]
    BY <2>1, <2>2, SaturatedType
  <2>4. Saturated(n) \in 0 .. Threshold
    BY <2>1, SaturatedType
  <2>. QED BY <1>2, <2>3, <2>4 DEF Breakers, n
<1>. QED BY <1>1, <1>2

LEMMA TypeInit == Init => TypeOK
<1> SUFFICES ASSUME Init PROVE TypeOK
  OBVIOUS
<1>1. breaker \in [Services -> Breakers]
  BY ClosedType DEF Init
<1>2. rows \in [Services -> 0 .. Threshold] /\ crashes \in 0 .. MaxCrashes
  BY Numbers DEF Init
<1>3. untilFirst \in [Services -> Nat]
  BY Numbers DEF Init
<1>4. timed \in [Steps -> Nat \cup {Never}] /\ hung \in 0 .. MaxHung
  BY Numbers DEF Init
<1>. QED BY <1>1, <1>2, <1>3, <1>4 DEF Init, TypeOK, Breakers

LEMMA TypeStep == TypeOK /\ [Next]_vars => TypeOK'
<1> SUFFICES ASSUME TypeOK, [Next]_vars PROVE TypeOK'
  OBVIOUS
<1>. USE Numbers DEF TypeOK
<1>1. CASE UNCHANGED vars
  BY <1>1 DEF vars, loop, clocks, history
<1>2. CASE PassBegins
  <2>1. timed' \in [Steps -> Nat \cup {Never}]
    BY <1>2 DEF PassBegins
  <2>. QED BY <1>2, <2>1 DEF PassBegins, DueServices, DueJobs, Steps
<1>3. CASE Sleep
  BY <1>3 DEF Sleep, clocks, history
<1>4. CASE TimePasses
  <2>1. /\ sinceEnd' \in [Services -> Nat \cup {Never}]
        /\ sinceJob' \in [Jobs -> Nat \cup {Never}]
    BY <1>4, OlderType DEF TimePasses, Ages
  <2>2. untilFirst' \in [Services -> Nat] /\ tail' \in [Services -> Nat]
    BY <1>4, LessType DEF TimePasses
  <2>3. timed' = timed \/ timed' = [x \in Steps |-> Older(timed[x])]
    BY <1>4 DEF TimePasses
  <2>4. timed' \in [Steps -> Nat \cup {Never}]
    BY <2>3, OlderType DEF Ages
  <2>5. hung' \in 0 .. MaxHung /\ spent' \in Nat
    BY <1>4 DEF TimePasses
  <2>. QED BY <1>4, <2>1, <2>2, <2>4, <2>5 DEF TimePasses
<1>5. CASE Crash
  <2>1. breaker' \in [Services -> Breakers]
    BY <1>5, ClosedType DEF Crash, FreshLoop
  <2>2. crashes' \in 0 .. MaxCrashes
    BY <1>5 DEF Crash
  <2>3. untilFirst' \in [Services -> Nat]
    BY <1>5 DEF Crash, FreshLoop
  <2>. QED BY <1>5, <2>1, <2>2, <2>3 DEF Crash, FreshLoop, Breakers
<1>6. ASSUME NEW s \in Services, BeginPoll(s) PROVE TypeOK'
  BY <1>6 DEF BeginPoll, clocks, history
<1>7. ASSUME NEW s \in Services, NEW ok \in BOOLEAN, PollEnds(s, ok) PROVE TypeOK'
  BY <1>7 DEF PollEnds, clocks, history
<1>8. ASSUME NEW s \in Services, PollTimesOut(s) PROVE TypeOK'
  BY <1>8 DEF PollTimesOut, history
<1>9. ASSUME NEW s \in Services, Persist(s) PROVE TypeOK'
  <2>1. rows[s] + 1 \in Nat
    OBVIOUS
  <2>2. Saturated(rows[s] + 1) \in 0 .. Threshold
    BY <2>1, SaturatedType
  <2>. QED BY <1>9, <2>2 DEF Persist, clocks, history
<1>10. ASSUME NEW s \in Services, Record(s) PROVE TypeOK'
  <2>1. RecordResult(breaker[s], outcome) \in Breakers
    BY RecordType DEF Breakers
  <2>. QED BY <1>10, <2>1 DEF Record, Breakers
<1>11. ASSUME NEW j \in Jobs, BeginJob(j) PROVE TypeOK'
  BY <1>11 DEF BeginJob, clocks, history
<1>12. ASSUME NEW j \in Jobs, JobEnds(j) PROVE TypeOK'
  BY <1>12 DEF JobEnds, clocks, history
<1>13. ASSUME NEW s \in Services, TurnComes(s) PROVE TypeOK'
  BY <1>13 DEF TurnComes, clocks, history
<1>14. ASSUME NEW s \in Services, NotConfigured(s) PROVE TypeOK'
  BY <1>14 DEF NotConfigured, clocks, history
<1>15. CASE AgentAnswers
  BY <1>15 DEF AgentAnswers, clocks, history
<1>. QED
  BY <1>1, <1>2, <1>3, <1>4, <1>5, <1>6, <1>7, <1>8, <1>9, <1>10, <1>11, <1>12, <1>13, <1>14, <1>15, NextSteps
  DEF LoopSteps

\* The loop's variables stay in their types, whatever is down and however often it dies.
THEOREM PollerTypes == Spec => []TypeOK
<1>. QED BY TypeInit, TypeStep, PTL DEF Spec

-----------------------------------------------------------------------------
(* The breakers and the heartbeats. *)

Visible(s) == breaker[s].failures <= rows[s]

\* Between the two writes of an outcome the heartbeat is one ahead of the breaker.
BreakerInv ==
  \A s \in Services :
    IF phase = "recording" /\ First(s)
    THEN outcome = TRUE \/ Saturated(breaker[s].failures + 1) <= rows[s]
    ELSE Visible(s)

LEMMA BreakerInit == Init => BreakerInv
<1> SUFFICES ASSUME Init, NEW s \in Services PROVE phase # "recording" /\ Visible(s)
  BY DEF BreakerInv
<1>. QED BY ClosedType DEF Init, Visible

\* Where the phase is another, and what is first the same, nothing is to be shown.
LEMMA BreakerSame ==
  ASSUME BreakerInv, UNCHANGED <<breaker, rows>>, phase # "recording", phase' # "recording"
  PROVE  BreakerInv'
BY DEF BreakerInv, Visible

LEMMA BreakerStep == TypeOK /\ BreakerInv /\ [Next]_vars => BreakerInv'
<1> SUFFICES ASSUME TypeOK, BreakerInv, [Next]_vars PROVE BreakerInv'
  OBVIOUS
<1>1. CASE UNCHANGED vars
  BY <1>1 DEF vars, loop, BreakerInv, Visible, First
<1>2. CASE PassBegins
  BY <1>2, BreakerSame DEF PassBegins
<1>3. CASE Sleep
  BY <1>3, BreakerSame DEF Sleep
<1>4. CASE TimePasses
  BY <1>4 DEF TimePasses, BreakerInv, Visible, First
<1>5. CASE Crash
  <2>1. ASSUME NEW s \in Services PROVE breaker'[s].failures = 0 /\ rows'[s] \in Nat /\ phase' = "down"
    BY <1>5, ClosedType, Numbers DEF Crash, FreshLoop, TypeOK
  <2>. QED BY <2>1 DEF BreakerInv, Visible
<1>6. ASSUME NEW s \in Services, BeginPoll(s) PROVE BreakerInv'
  BY <1>6, BreakerSame DEF BeginPoll
<1>7. ASSUME NEW s \in Services, NEW ok \in BOOLEAN, PollEnds(s, ok) PROVE BreakerInv'
  BY <1>7, BreakerSame DEF PollEnds
<1>8. ASSUME NEW s \in Services, PollTimesOut(s) PROVE BreakerInv'
  BY <1>8, BreakerSame DEF PollTimesOut
<1>9. ASSUME NEW s \in Services, Persist(s) PROVE BreakerInv'
  <2> SUFFICES ASSUME NEW t \in Services
               PROVE  IF First(t) THEN outcome = TRUE \/ Saturated(breaker[t].failures + 1) <= rows'[t]
                      ELSE breaker[t].failures <= rows'[t]
    BY <1>9 DEF Persist, BreakerInv, Visible, First
  <2>1. First(s) /\ breaker[t].failures <= rows[t]
    BY <1>9 DEF Persist, BreakerInv, Visible
  <2>2. CASE t = s
    <3>1. outcome = TRUE \/ rows'[t] = Saturated(rows[t] + 1)
      BY <1>9, <2>2 DEF Persist, TypeOK
    <3>2. breaker[t].failures \in Nat /\ rows[t] \in Nat
      BY BreakerFields, Numbers DEF TypeOK, Breakers
    <3>3. Saturated(breaker[t].failures + 1) <= Saturated(rows[t] + 1)
      BY <2>1, <3>2, Numbers DEF Saturated
    <3>. QED BY <2>1, <2>2, <3>1, <3>3
  <2>3. CASE t # s
    <3>1. ~First(t) /\ rows'[t] = rows[t]
      BY <1>9, <2>1, <2>3, OneFirst DEF Persist, TypeOK
    <3>. QED BY <2>1, <3>1
  <2>. QED BY <2>2, <2>3
<1>10. ASSUME NEW s \in Services, Record(s) PROVE BreakerInv'
  <2> SUFFICES ASSUME NEW t \in Services PROVE breaker'[t].failures <= rows[t]
    BY <1>10 DEF Record, BreakerInv, Visible
  <2>1. CASE t = s
    <3>1. breaker'[t] = RecordResult(breaker[t], outcome) /\ breaker[t] \in Breakers /\ outcome \in BOOLEAN
      BY <1>10, <2>1 DEF Record, TypeOK, Breakers
    <3>2. rows[t] \in Nat
      BY Numbers DEF TypeOK
    <3>3. outcome = TRUE \/ Saturated(breaker[t].failures + 1) <= rows[t]
      BY <1>10, <2>1 DEF Record, BreakerInv
    <3>. QED BY <3>1, <3>2, <3>3, RecordType
  <2>2. CASE t # s
    <3>1. ~First(t)
      BY <1>10, <2>2, OneFirst DEF Record, TypeOK
    <3>2. breaker'[t] = breaker[t]
      BY <1>10, <2>2 DEF Record, TypeOK
    <3>. QED BY <3>1, <3>2 DEF BreakerInv, Visible
  <2>. QED BY <2>1, <2>2
<1>11. ASSUME NEW j \in Jobs, BeginJob(j) PROVE BreakerInv'
  BY <1>11, BreakerSame DEF BeginJob
<1>12. ASSUME NEW j \in Jobs, JobEnds(j) PROVE BreakerInv'
  BY <1>12, BreakerSame DEF JobEnds
<1>13. ASSUME NEW s \in Services, TurnComes(s) PROVE BreakerInv'
  BY <1>13, BreakerSame DEF TurnComes, clocks
<1>14. ASSUME NEW s \in Services, NotConfigured(s) PROVE BreakerInv'
  BY <1>14, BreakerSame DEF NotConfigured, clocks
<1>15. CASE AgentAnswers
  BY <1>15, BreakerSame DEF AgentAnswers, clocks
<1>. QED
  BY <1>1, <1>2, <1>3, <1>4, <1>5, <1>6, <1>7, <1>8, <1>9, <1>10, <1>11, <1>12, <1>13, <1>14, <1>15, NextSteps
  DEF LoopSteps

LEMMA BreakerShown == TypeOK /\ BreakerInv => BreakerIsVisible
<1> SUFFICES ASSUME TypeOK, BreakerInv, phase # "recording", NEW s \in Services
             PROVE  breaker[s].failures <= rows[s] /\ (breaker[s].tripped => rows[s] = Threshold)
  BY DEF BreakerIsVisible
<1>1. breaker[s] \in Breakers /\ rows[s] \in 0 .. Threshold
  BY DEF TypeOK, Breakers
<1>2. breaker[s].failures <= rows[s]
  BY DEF BreakerInv, Visible
<1>3. breaker[s].tripped => breaker[s].failures = Threshold
  BY <1>1, BreakerFields, Zenon
<1>4. breaker[s].failures = Threshold => rows[s] = Threshold
  BY <1>1, <1>2, Numbers
<1>. QED BY <1>2, <1>3, <1>4

\* Wherever the worker dies or a poll fails, a breaker that is tripped is one that the
\* heartbeats on record show: alerts/store.ts, which counts those, sees it.
THEOREM BreakersAreShown == Spec => []BreakerIsVisible
<1>. QED BY TypeInit, TypeStep, BreakerInit, BreakerStep, BreakerShown, PTL DEF Spec

-----------------------------------------------------------------------------
(* The pace of the polls. *)

LEMMA MaxOfTwo == ASSUME NEW a \in Nat, NEW b \in Nat PROVE Max({a, b}) = Larger(a, b)
<1>1. Larger(a, b) \in {a, b} /\ \A y \in {a, b} : Larger(a, b) >= y
  BY DEF Larger
<1>2. \A x \in {a, b} : (\A y \in {a, b} : x >= y) => x = Larger(a, b)
  BY <1>1
<1>. QED BY <1>1, <1>2 DEF Max

LEMMA PromiseKept ==
  ASSUME NEW s \in Services
  PROVE  /\ Promised(s) = EffectiveInterval(s) /\ EffectiveInterval(s) \in Nat
         /\ breaker[s].tripped => EffectiveInterval(s) >= Backoff
<1>1. Interval[s] \in Nat /\ Backoff \in Nat
  BY Numbers
<1>2. Max({Interval[s], Backoff}) = Larger(Interval[s], Backoff)
  BY <1>1, MaxOfTwo
<1>3. Larger(Interval[s], Backoff) \in Nat /\ Larger(Interval[s], Backoff) >= Backoff
  BY <1>1 DEF Larger
<1>. QED BY <1>1, <1>2, <1>3 DEF Promised, EffectiveInterval

\* What the pass has yet to poll was due when it began, and still is.
PaceInv == \A s \in Services \cap todo : IsDue(s)

LEMMA PaceInit == Init => PaceInv
BY DEF Init, PaceInv

\* A service stays due while it waits, and its breaker is left alone.
LEMMA StaysDue ==
  ASSUME TypeOK, NEW s \in Services, IsDue(s), breaker'[s] = breaker[s],
         sinceEnd'[s] = sinceEnd[s] \/ sinceEnd'[s] = Older(sinceEnd[s])
  PROVE  IsDue(s)'
<1>1. sinceEnd[s] \in Ages /\ EffectiveInterval(s) \in Nat /\ EffectiveInterval(s)' = EffectiveInterval(s)
  BY PromiseKept DEF TypeOK, Ages, EffectiveInterval
<1>. HIDE DEF EffectiveInterval
<1>2. CASE sinceEnd[s] = Never
  BY <1>2 DEF IsDue, Older
<1>3. CASE sinceEnd[s] # Never
  BY <1>1, <1>3, Numbers DEF IsDue, Older, Ages
<1>. QED BY <1>2, <1>3

LEMMA PaceSame ==
  ASSUME TypeOK, PaceInv, UNCHANGED <<breaker, sinceEnd>>, todo' \subseteq todo PROVE PaceInv'
BY DEF PaceInv, IsDue, EffectiveInterval

LEMMA PaceStep == TypeOK /\ PaceInv /\ [Next]_vars => PaceInv'
<1> SUFFICES ASSUME TypeOK, PaceInv, [Next]_vars PROVE PaceInv'
  OBVIOUS
<1>1. CASE UNCHANGED vars
  BY <1>1, PaceSame DEF vars, loop, clocks, history
<1>2. CASE PassBegins
  <2>1. \A s \in Services \cap todo' : IsDue(s)
    BY <1>2, StepsAssumption DEF PassBegins, DueServices, DueJobs
  <2>. QED BY <1>2, <2>1 DEF PassBegins, PaceInv, IsDue, EffectiveInterval
<1>3. CASE Sleep
  BY <1>3, PaceSame DEF Sleep, clocks
<1>4. CASE TimePasses
  <2>1. ASSUME NEW s \in Services \cap todo PROVE IsDue(s)'
    <3>1. IsDue(s) /\ breaker'[s] = breaker[s] /\ sinceEnd'[s] = Older(sinceEnd[s])
      BY <1>4 DEF TimePasses, PaceInv
    <3>. QED BY <3>1, StaysDue
  <2>. QED BY <1>4, <2>1 DEF TimePasses, PaceInv
<1>5. CASE Crash
  BY <1>5 DEF Crash, PaceInv
<1>6. ASSUME NEW s \in Services, BeginPoll(s) PROVE PaceInv'
  BY <1>6, PaceSame DEF BeginPoll, clocks
<1>7. ASSUME NEW s \in Services, NEW ok \in BOOLEAN, PollEnds(s, ok) PROVE PaceInv'
  BY <1>7, PaceSame DEF PollEnds, clocks
<1>8. ASSUME NEW s \in Services, PollTimesOut(s) PROVE PaceInv'
  BY <1>8, PaceSame DEF PollTimesOut
<1>9. ASSUME NEW s \in Services, Persist(s) PROVE PaceInv'
  BY <1>9, PaceSame DEF Persist, clocks
<1>10. ASSUME NEW s \in Services, Record(s) PROVE PaceInv'
  <2>1. ASSUME NEW t \in Services \cap todo' PROVE IsDue(t)'
    <3>1. t # s /\ t \in todo
      BY <1>10 DEF Record
    <3>2. IsDue(t) /\ breaker'[t] = breaker[t] /\ sinceEnd'[t] = sinceEnd[t]
      BY <1>10, <3>1 DEF Record, PaceInv, TypeOK
    <3>. QED BY <3>2, StaysDue
  <2>. QED BY <2>1 DEF PaceInv
<1>11. ASSUME NEW j \in Jobs, BeginJob(j) PROVE PaceInv'
  BY <1>11, PaceSame DEF BeginJob, clocks
<1>12. ASSUME NEW j \in Jobs, JobEnds(j) PROVE PaceInv'
  BY <1>12, PaceSame DEF JobEnds, clocks
<1>13. ASSUME NEW s \in Services, TurnComes(s) PROVE PaceInv'
  BY <1>13, PaceSame DEF TurnComes, clocks
<1>14. ASSUME NEW s \in Services, NotConfigured(s) PROVE PaceInv'
  BY <1>14, PaceSame DEF NotConfigured, clocks
<1>15. CASE AgentAnswers
  BY <1>15, PaceSame DEF AgentAnswers, clocks
<1>. QED
  BY <1>1, <1>2, <1>3, <1>4, <1>5, <1>6, <1>7, <1>8, <1>9, <1>10, <1>11, <1>12, <1>13, <1>14, <1>15, NextSteps
  DEF LoopSteps

LEMMA PaceKept ==
  PaceInv => \A s \in Services : PollBegins(s) /\ sinceEnd[s] # Never => sinceEnd[s] >= Promised(s)
BY PromiseKept DEF PaceInv, PollBegins, First, IsDue

\* However long a pass lasts, whatever hangs and however often the worker is started
\* again, no poll begins sooner after the one before than scheduler.ts promises.
THEOREM NeverTooSoon == Spec => NeverHurried
<1>1. PaceInv => [\A s \in Services : PollBegins(s) /\ sinceEnd[s] # Never => sinceEnd[s] >= Promised(s)]_vars
  BY PaceKept
<1>. QED BY <1>1, TypeInit, TypeStep, PaceInit, PaceStep, PTL DEF Spec, NeverHurried

-----------------------------------------------------------------------------
(* The calls of an abandoned poll. *)

\* They end before the back-off does, counted from the end of the poll.
TailInv ==
  \A s \in Services :
    \/ tail[s] = 0
    \/ /\ tail[s] <= PollTail
       /\ \/ phase \in {"persisting", "recording"} /\ First(s)
          \/ sinceEnd[s] # Never /\ tail[s] + sinceEnd[s] <= PollTail

LEMMA TailInit == Init => TailInv
BY DEF Init, TailInv

\* Steps that leave tails and ages alone, while no outcome is written.
LEMMA TailSame ==
  ASSUME TailInv, UNCHANGED <<tail, sinceEnd>>,
         phase \notin {"persisting", "recording"} \/ (phase' \in {"persisting", "recording"} /\ UNCHANGED todo)
  PROVE  TailInv'
BY DEF TailInv, First

LEMMA TailStep == TypeOK /\ TailInv /\ [Next]_vars => TailInv'
<1> SUFFICES ASSUME TypeOK, TailInv, [Next]_vars PROVE TailInv'
  OBVIOUS
<1>1. CASE UNCHANGED vars
  BY <1>1 DEF vars, loop, clocks, history, TailInv, First
<1>2. CASE PassBegins
  BY <1>2, TailSame DEF PassBegins
<1>3. CASE Sleep
  BY <1>3, TailSame DEF Sleep, clocks
<1>4. CASE TimePasses
  <2> SUFFICES ASSUME NEW s \in Services, tail'[s] # 0
               PROVE  /\ tail'[s] <= PollTail
                      /\ \/ phase \in {"persisting", "recording"} /\ First(s)
                         \/ sinceEnd'[s] # Never /\ tail'[s] + sinceEnd'[s] <= PollTail
    BY <1>4 DEF TimePasses, TailInv, First
  <2>1. tail[s] \in Nat /\ tail'[s] = Less(tail[s]) /\ sinceEnd'[s] = Older(sinceEnd[s])
    BY <1>4 DEF TimePasses, TypeOK
  <2>2. tail[s] # 0 /\ tail'[s] = tail[s] - 1
    BY <2>1 DEF Less
  <2>3. tail[s] <= PollTail /\ tail'[s] <= PollTail
    BY <2>1, <2>2, Numbers DEF TailInv
  <2>4. CASE phase \in {"persisting", "recording"} /\ First(s)
    BY <2>3, <2>4
  <2>5. CASE ~(phase \in {"persisting", "recording"} /\ First(s))
    <3>1. sinceEnd[s] # Never /\ tail[s] + sinceEnd[s] <= PollTail /\ sinceEnd[s] \in Nat
      BY <2>2, <2>5 DEF TailInv, TypeOK
    <3>2. sinceEnd'[s] = sinceEnd[s] + 1
      BY <2>1, <3>1 DEF Older
    <3>. QED BY <2>1, <2>2, <2>3, <3>1, <3>2, Numbers
  <2>. QED BY <2>4, <2>5
<1>5. CASE Crash
  BY <1>5 DEF Crash, TailInv
<1>6. ASSUME NEW s \in Services, BeginPoll(s) PROVE TailInv'
  BY <1>6, TailSame DEF BeginPoll, clocks
<1>7. ASSUME NEW s \in Services, NEW ok \in BOOLEAN, PollEnds(s, ok) PROVE TailInv'
  BY <1>7, TailSame DEF PollEnds, clocks
<1>8. ASSUME NEW s \in Services, PollTimesOut(s) PROVE TailInv'
  <2> SUFFICES ASSUME NEW t \in Services, tail'[t] # 0
               PROVE  /\ tail'[t] <= PollTail
                      /\ First(t) \/ (sinceEnd[t] # Never /\ tail'[t] + sinceEnd[t] <= PollTail)
    BY <1>8 DEF PollTimesOut, TailInv, First
  <2>1. CASE t = s
    BY <1>8, <2>1, Numbers DEF PollTimesOut, TypeOK
  <2>2. CASE t # s
    BY <1>8, <2>2 DEF PollTimesOut, TypeOK, TailInv
  <2>. QED BY <2>1, <2>2
<1>9. ASSUME NEW s \in Services, Persist(s) PROVE TailInv'
  BY <1>9, TailSame DEF Persist, clocks
<1>10. ASSUME NEW s \in Services, Record(s) PROVE TailInv'
  <2> SUFFICES ASSUME NEW t \in Services, tail[t] # 0
               PROVE  tail[t] <= PollTail /\ sinceEnd'[t] # Never /\ tail[t] + sinceEnd'[t] <= PollTail
    BY <1>10 DEF Record, TailInv
  <2>1. CASE t = s
    <3>1. sinceEnd'[t] = 0 /\ tail[t] \in Nat /\ tail[t] <= PollTail
      BY <1>10, <2>1 DEF Record, TypeOK, TailInv
    <3>. QED BY <3>1, Numbers
  <2>2. CASE t # s
    <3>1. ~First(t) /\ sinceEnd'[t] = sinceEnd[t]
      BY <1>10, <2>2, OneFirst DEF Record, TypeOK
    <3>. QED BY <3>1 DEF TailInv
  <2>. QED BY <2>1, <2>2
<1>11. ASSUME NEW j \in Jobs, BeginJob(j) PROVE TailInv'
  BY <1>11, TailSame DEF BeginJob, clocks
<1>12. ASSUME NEW j \in Jobs, JobEnds(j) PROVE TailInv'
  BY <1>12, TailSame DEF JobEnds, clocks
<1>13. ASSUME NEW s \in Services, TurnComes(s) PROVE TailInv'
  BY <1>13, TailSame DEF TurnComes, clocks
<1>14. ASSUME NEW s \in Services, NotConfigured(s) PROVE TailInv'
  BY <1>14, TailSame DEF NotConfigured, clocks
<1>15. CASE AgentAnswers
  BY <1>15, TailSame DEF AgentAnswers, clocks
<1>. QED
  BY <1>1, <1>2, <1>3, <1>4, <1>5, <1>6, <1>7, <1>8, <1>9, <1>10, <1>11, <1>12, <1>13, <1>14, <1>15, NextSteps
  DEF LoopSteps

LEMMA TailGone ==
  TypeOK /\ PaceInv /\ TailInv =>
    \A s \in Services : PollBegins(s) /\ breaker[s].tripped => tail[s] = 0
<1> SUFFICES ASSUME TypeOK, PaceInv, TailInv, NEW s \in Services, PollBegins(s), breaker[s].tripped, tail[s] # 0
             PROVE  FALSE
  OBVIOUS
<1>1. phase = "loading" /\ IsDue(s)
  BY DEF PollBegins, First, PaceInv
<1>2. sinceEnd[s] # Never /\ tail[s] + sinceEnd[s] <= PollTail
  BY <1>1 DEF TailInv
<1>3. sinceEnd[s] \in Nat /\ tail[s] \in Nat
  BY <1>2 DEF TypeOK
<1>4. sinceEnd[s] >= EffectiveInterval(s) /\ EffectiveInterval(s) >= Backoff /\ EffectiveInterval(s) \in Nat
  BY <1>1, <1>2, PromiseKept DEF IsDue
<1>. QED BY <1>2, <1>3, <1>4, Numbers

\* Timeouts never pile up on a service that hangs.
THEOREM TimeoutsDoNotPileUp == Spec => NoPileUp
<1>1. TypeOK /\ PaceInv /\ TailInv => [\A s \in Services : PollBegins(s) /\ breaker[s].tripped => tail[s] = 0]_vars
  BY TailGone
<1>. QED
  BY <1>1, TypeInit, TypeStep, PaceInit, PaceStep, TailInit, TailStep, PTL DEF Spec, NoPileUp

-----------------------------------------------------------------------------
(* The length of a pass. *)

LEMMA CostType == ASSUME NEW x \in Steps PROVE Cost(x) \in Nat
BY Numbers DEF Cost

LEMMA UnitsFinite == IsFiniteSet(Units(Steps))
<1>. DEFINE f == [x \in Steps |-> {x} \X (1 .. Cost(x))]
            T == {f[x] : x \in Steps}
<1>1. IsFiniteSet(T)
  <2>1. f \in Surjection(Steps, T)
    BY DEF Surjection
  <2>. HIDE DEF f, T
  <2>. QED BY <2>1, StepsAssumption, FS_Surjection
<1>2. ASSUME NEW t \in T PROVE IsFiniteSet(t)
  <2>1. PICK x \in Steps : t = {x} \X (1 .. Cost(x))
    OBVIOUS
  <2>2. IsFiniteSet({x}) /\ IsFiniteSet(1 .. Cost(x))
    <3>1. 1 \in Int /\ Cost(x) \in Int
      BY CostType
    <3>. QED BY <3>1, FS_Singleton, FS_Interval
  <2>. QED BY <2>1, <2>2, FS_Product
<1>3. Units(Steps) = UNION T
  BY DEF Units
<1>. HIDE DEF T
<1>. QED BY <1>1, <1>2, <1>3, FS_UNION

\* No set of steps takes longer than all do, and without one of them it takes that one's time less.
LEMMA UnitsLeft ==
  ASSUME NEW S \in SUBSET Steps
  PROVE  /\ Cardinality(Units(S)) \in Nat /\ Cardinality(Units(S)) <= Cardinality(Units(Steps))
         /\ Cardinality(Units(Steps)) \in Nat
         /\ \A x \in S : Cardinality(Units(S)) = Cardinality(Units(S \ {x})) + Cost(x)
<1>1. Units(S) \in SUBSET Units(Steps)
  BY DEF Units
<1>2. /\ IsFiniteSet(Units(S)) /\ Cardinality(Units(S)) <= Cardinality(Units(Steps))
      /\ Cardinality(Units(S)) \in Nat /\ Cardinality(Units(Steps)) \in Nat
  BY <1>1, UnitsFinite, FS_Subset, FS_CardinalityType
<1>3. ASSUME NEW x \in S PROVE Cardinality(Units(S)) = Cardinality(Units(S \ {x})) + Cost(x)
  <2>. DEFINE U == Units(S)
              V == {x} \X (1 .. Cost(x))
  <2>1. Cost(x) \in Nat
    BY CostType
  <2>2. IsFiniteSet(V) /\ Cardinality(V) = Cost(x)
    <3>1. IsFiniteSet({x}) /\ Cardinality({x}) = 1
      BY FS_Singleton
    <3>2. IsFiniteSet(1 .. Cost(x)) /\ Cardinality(1 .. Cost(x)) = Cost(x)
      BY <2>1, FS_Interval
    <3>3. IsFiniteSet(V) /\ Cardinality(V) = 1 * Cost(x)
      BY <3>1, <3>2, FS_Product
    <3>. QED BY <2>1, <3>3
  <2>3. U \cap V = V /\ U \ V = Units(S \ {x})
    BY DEF Units
  <2>4. Cardinality(U \ V) = Cardinality(U) - Cardinality(U \cap V)
    BY <1>2, FS_Difference
  <2>5. Cardinality(U) \in Nat
    BY <1>2
  <2>. HIDE DEF U, V
  <2>6. Cardinality(Units(S \ {x})) = Cardinality(U) - Cost(x)
    BY <2>2, <2>3, <2>4, Zenon
  <2>7. \A u, c \in Nat : u = (u - c) + c
    OBVIOUS
  <2>8. Cardinality(U) = Cardinality(Units(S \ {x})) + Cost(x)
    BY <2>1, <2>5, <2>6, <2>7, Zenon
  <2>. QED BY <2>8 DEF U
<1>. QED BY <1>2, <1>3

-----------------------------------------------------------------------------
(* Punctuality. *)

Turn == {"loading", "polling", "persisting", "recording"}
Work == {"asking", "working"}

\* What the pass has used up of the time of the step it is at, and what is left to it at
\* most, the sleep after it included.
Used ==
  spent + (IF phase \in {"persisting", "recording"} THEN PollTimeout
           ELSE IF phase = "working" /\ First(Logs) THEN AskTime ELSE 0)
Left == Tick + Cardinality(Units(todo)) - Used

\* The await is within its bound, and it is that of the first step; a worker that is
\* down has forgotten all ages; what was polled before has its start behind it.
AwaitInv ==
  /\ phase = "down" => /\ todo = {}
                       /\ \A s \in Services : sinceEnd[s] = Never
                       /\ \A j \in Jobs : sinceJob[j] = Never
  /\ phase = "sleeping" => todo = {} /\ spent <= Tick
  /\ phase \notin {"down", "sleeping", "polling", "asking"} => spent = 0
  /\ phase = "polling" => spent <= PollTimeout
  /\ phase = "asking" => spent <= AskTime /\ First(Logs)
  /\ phase \in Turn => \E s \in Services : First(s)
  /\ phase \in Work => \E j \in Jobs : First(j)
  /\ \A s \in Services : sinceEnd[s] # Never \/ s \in todo => untilFirst[s] = 0

\* The part of an age that was spent in bounded awaits.
PartOf(part, age) == IF age = Never THEN part = Never ELSE part # Never /\ part <= age
TimedInv ==
  /\ \A s \in Services : PartOf(timed[s], sinceEnd[s])
  /\ \A j \in Jobs : PartOf(timed[j], sinceJob[j])

InTime(age, left, limit) == age # Never => age + left < limit
Limit(s) == EffectiveInterval(s) + (IF s \in todo THEN 2 * LongestPass ELSE LongestPass)

\* What the pass may still take is counted in: so a job is late by one pass, a service
\* by one when its turn is yet to come and by two until the pass that found it due is over.
LateInv ==
  /\ \A j \in Jobs : InTime(timed[j], Left, Every[j] + LongestPass)
  /\ \A s \in Services : InTime(timed[s], Left, Limit(s))

LEMMA PartOlder ==
  ASSUME NEW part \in Ages, NEW age \in Ages, PartOf(part, age)
  PROVE  PartOf(part, Older(age)) /\ PartOf(Older(part), Older(age))
BY Numbers DEF PartOf, Ages, Older

LEMMA TimedInit == Init => TimedInv
BY DEF Init, TimedInv, PartOf, Steps

LEMMA TimedStep == TypeOK /\ TimedInv /\ [Next]_vars => TimedInv'
<1> SUFFICES ASSUME TypeOK, TimedInv, [Next]_vars PROVE TimedInv'
  OBVIOUS
<1>. USE DEF TimedInv
<1>1. CASE UNCHANGED <<timed, sinceEnd, sinceJob>>
  BY <1>1
<1>2. CASE PassBegins
  <2>1. /\ sinceJob' = [j \in Jobs |-> IF j \in DueJobs THEN 0 ELSE sinceJob[j]]
        /\ timed' = [x \in Steps |-> IF x \in DueJobs THEN 0 ELSE timed[x]]
        /\ UNCHANGED sinceEnd
    BY <1>2 DEF PassBegins
  <2>2. \A s \in Services : timed'[s] = timed[s] /\ sinceEnd'[s] = sinceEnd[s]
    BY <2>1, StepsAssumption DEF DueJobs, Steps
  <2>3. ASSUME NEW j \in Jobs PROVE PartOf(timed'[j], sinceJob'[j])
    <3>1. CASE j \in DueJobs
      BY <2>1, <3>1, Numbers DEF Steps, PartOf
    <3>2. CASE j \notin DueJobs
      BY <2>1, <3>2 DEF Steps
    <3>. QED BY <3>1, <3>2
  <2>. QED BY <2>2, <2>3
<1>3. CASE TimePasses
  <2>1. /\ timed' = timed \/ timed' = [x \in Steps |-> Older(timed[x])]
        /\ sinceEnd' = [s \in Services |-> Older(sinceEnd[s])]
        /\ sinceJob' = [j \in Jobs |-> Older(sinceJob[j])]
    BY <1>3 DEF TimePasses
  <2>2. ASSUME NEW s \in Services PROVE PartOf(timed'[s], sinceEnd'[s])
    <3>1. timed[s] \in Ages /\ sinceEnd[s] \in Ages /\ (timed'[s] = timed[s] \/ timed'[s] = Older(timed[s]))
      BY <2>1 DEF TypeOK, Ages, Steps
    <3>. QED BY <2>1, <3>1, PartOlder
  <2>3. ASSUME NEW j \in Jobs PROVE PartOf(timed'[j], sinceJob'[j])
    <3>1. timed[j] \in Ages /\ sinceJob[j] \in Ages /\ (timed'[j] = timed[j] \/ timed'[j] = Older(timed[j]))
      BY <2>1 DEF TypeOK, Ages, Steps
    <3>. QED BY <2>1, <3>1, PartOlder
  <2>. QED BY <2>2, <2>3
<1>4. CASE Crash
  BY <1>4 DEF Crash, FreshLoop, PartOf, Steps
<1>5. ASSUME NEW s \in Services, Record(s) PROVE TimedInv'
  <2>1. /\ sinceEnd' = [sinceEnd EXCEPT ![s] = 0] /\ timed' = [timed EXCEPT ![s] = 0]
        /\ UNCHANGED sinceJob
    BY <1>5 DEF Record
  <2>2. ASSUME NEW t \in Services PROVE PartOf(timed'[t], sinceEnd'[t])
    <3>1. CASE t = s
      BY <2>1, <3>1, Numbers DEF PartOf, TypeOK, Steps
    <3>2. CASE t # s
      BY <2>1, <3>2 DEF TypeOK
    <3>. QED BY <3>1, <3>2
  <2>3. \A j \in Jobs : timed'[j] = timed[j]
    BY <2>1, StepsAssumption DEF TypeOK
  <2>. QED BY <2>1, <2>2, <2>3
<1>6. UNCHANGED <<timed, sinceEnd, sinceJob>> \/ PassBegins \/ TimePasses \/ Crash \/ \E s \in Services : Record(s)
  BY NextSteps DEF LoopSteps, vars, clocks, history, Sleep, AgentAnswers, TurnComes, NotConfigured, BeginPoll,
     PollTimesOut, PollEnds, Persist, BeginJob, JobEnds
<1>. QED BY <1>1, <1>2, <1>3, <1>4, <1>5, <1>6

LEMMA AwaitInit == Init => AwaitInv
BY DEF Init, AwaitInv, Turn, Work

\* The steps of a pass that take nothing off the agenda.
LEMMA AwaitSame ==
  ASSUME AwaitInv, UNCHANGED <<todo, clocks>>, spent' = 0, phase' \in Turn,
         NEW s \in Services, First(s), TypeOK
  PROVE  AwaitInv'
<1>1. \A t \in Services : (sinceEnd[t] # Never \/ t \in todo => untilFirst[t] = 0)'
  BY DEF AwaitInv, clocks
<1>2. (\E t \in Services : First(t))'
  BY DEF First
<1>. QED BY <1>1, <1>2, Numbers DEF AwaitInv, Turn, Work

LEMMA AwaitStep == TypeOK /\ AwaitInv /\ [Next]_vars => AwaitInv'
<1> SUFFICES ASSUME TypeOK, AwaitInv, [Next]_vars PROVE AwaitInv'
  OBVIOUS
<1>. USE Numbers DEF Turn, Work
<1>1. CASE UNCHANGED vars
  BY <1>1 DEF vars, loop, clocks, AwaitInv, First
<1>2. CASE PassBegins
  <2>1. /\ phase' = "ready" /\ spent' = 0 /\ todo' = DueServices \cup DueJobs
        /\ UNCHANGED <<sinceEnd, untilFirst>>
    BY <1>2 DEF PassBegins
  <2>2. \A s \in Services : s \in todo' => untilFirst[s] = 0
    BY <2>1, StepsAssumption DEF DueServices, DueJobs
  <2>. QED BY <2>1, <2>2 DEF AwaitInv
<1>3. CASE Sleep
  BY <1>3 DEF Sleep, clocks, AwaitInv
<1>4. CASE TimePasses
  <2>1. /\ UNCHANGED <<phase, todo>> /\ spent \in Nat
        /\ (TimeLeft /\ spent' = spent + 1) \/ (Untimed /\ spent' = spent)
        /\ sinceEnd' = [s \in Services |-> Older(sinceEnd[s])]
        /\ sinceJob' = [j \in Jobs |-> Older(sinceJob[j])]
        /\ untilFirst' = [s \in Services |-> IF phase = "down" THEN untilFirst[s] ELSE Less(untilFirst[s])]
    BY <1>4 DEF TimePasses, TypeOK
  <2>2. /\ phase = "sleeping" => spent' <= Tick
        /\ phase = "polling" => spent' <= PollTimeout
        /\ phase = "asking" => spent' <= AskTime
        /\ phase \notin {"down", "sleeping", "polling", "asking"} => spent' = 0
    BY <2>1 DEF TimeLeft, Untimed, AwaitInv
  <2>3. ASSUME NEW s \in Services, sinceEnd'[s] # Never \/ s \in todo' PROVE untilFirst'[s] = 0
    <3>1. untilFirst[s] = 0
      BY <2>1, <2>3 DEF AwaitInv, Older
    <3>. QED BY <2>1, <3>1 DEF Less
  <2>4. phase = "down" => (\A s \in Services : sinceEnd'[s] = Never) /\ (\A j \in Jobs : sinceJob'[j] = Never)
    BY <2>1 DEF AwaitInv, Older
  <2>5. \A x : First(x)' <=> First(x)
    BY <2>1 DEF First
  <2>. QED BY <2>1, <2>2, <2>3, <2>4, <2>5 DEF AwaitInv
<1>5. CASE Crash
  BY <1>5 DEF Crash, FreshLoop, AwaitInv
<1>6. ASSUME NEW s \in Services, BeginPoll(s) PROVE AwaitInv'
  BY <1>6, AwaitSame DEF BeginPoll
<1>7. ASSUME NEW s \in Services, NEW ok \in BOOLEAN, PollEnds(s, ok) PROVE AwaitInv'
  BY <1>7, AwaitSame DEF PollEnds
<1>8. ASSUME NEW s \in Services, PollTimesOut(s) PROVE AwaitInv'
  <2>1. \A t \in Services : (sinceEnd[t] # Never \/ t \in todo => untilFirst[t] = 0)'
    BY <1>8 DEF PollTimesOut, AwaitInv
  <2>2. (\E t \in Services : First(t))' /\ phase' = "persisting" /\ spent' = 0
    BY <1>8 DEF PollTimesOut, First
  <2>. QED BY <2>1, <2>2 DEF AwaitInv
<1>9. ASSUME NEW s \in Services, Persist(s) PROVE AwaitInv'
  BY <1>9, AwaitSame DEF Persist
<1>10. ASSUME NEW s \in Services, Record(s) PROVE AwaitInv'
  <2>1. /\ First(s) /\ phase' = "ready" /\ spent' = 0 /\ UNCHANGED untilFirst /\ todo' \subseteq todo
        /\ \A t \in Services : t # s => sinceEnd'[t] = sinceEnd[t]
    BY <1>10 DEF Record, TypeOK
  <2>2. \A t \in Services : sinceEnd'[t] # Never \/ t \in todo' => untilFirst'[t] = 0
    BY <2>1 DEF AwaitInv, First
  <2>. QED BY <2>1, <2>2 DEF AwaitInv
<1>11. ASSUME NEW j \in Jobs, BeginJob(j) PROVE AwaitInv'
  <2>1. First(j)' /\ spent' = 0 /\ phase' = (IF j = Logs THEN "asking" ELSE "working")
    BY <1>11 DEF BeginJob, First
  <2>2. \A t \in Services : (sinceEnd[t] # Never \/ t \in todo => untilFirst[t] = 0)'
    BY <1>11 DEF BeginJob, clocks, AwaitInv
  <2>. QED BY <2>1, <2>2 DEF AwaitInv
<1>12. ASSUME NEW j \in Jobs, JobEnds(j) PROVE AwaitInv'
  BY <1>12 DEF JobEnds, clocks, AwaitInv
<1>13. ASSUME NEW s \in Services, TurnComes(s) PROVE AwaitInv'
  BY <1>13, AwaitSame DEF TurnComes
<1>14. ASSUME NEW s \in Services, NotConfigured(s) PROVE AwaitInv'
  BY <1>14, AwaitSame DEF NotConfigured
<1>15. CASE AgentAnswers
  <2>1. \E j \in Jobs : First(j)'
    BY <1>15 DEF AgentAnswers, AwaitInv, First
  <2>. QED BY <1>15, <2>1 DEF AgentAnswers, clocks, AwaitInv
<1>. QED
  BY <1>1, <1>2, <1>3, <1>4, <1>5, <1>6, <1>7, <1>8, <1>9, <1>10, <1>11, <1>12, <1>13, <1>14, <1>15, NextSteps
  DEF LoopSteps

LEMMA PassType == LongestPass \in Nat /\ LongestPass >= Tick /\ LongestPass = Tick + Cardinality(Units(Steps))
<1>1. Cardinality(Units(Steps)) \in Nat
  BY UnitsLeft
<1>. QED BY <1>1, Numbers DEF LongestPass

LEMMA UsedType == ASSUME TypeOK PROVE Used \in Nat
BY Numbers DEF TypeOK, Used

LEMMA LeftType == ASSUME TypeOK PROVE Left \in Int /\ Left <= LongestPass
<1>1. Cardinality(Units(todo)) \in Nat /\ Cardinality(Units(todo)) <= Cardinality(Units(Steps))
      /\ Cardinality(Units(Steps)) \in Nat
  BY UnitsLeft DEF TypeOK
<1>. QED BY <1>1, UsedType, PassType, Numbers DEF Left

\* The step that is at work has not used up more than its own time.
LEMMA UsedBounds ==
  ASSUME TypeOK, AwaitInv, NEW x, First(x), (phase \in Turn /\ x \in Services) \/ (phase \in Work /\ x \in Jobs)
  PROVE  x \in Steps /\ x \in todo /\ Used <= Cost(x)
<1>1. x \in todo /\ x \in Steps
  BY DEF First, TypeOK
<1>2. CASE phase \in Turn /\ x \in Services
  <2>1. Cost(x) = PollTimeout
    BY <1>2 DEF Cost
  <2>2. spent \in Nat /\ (phase = "polling" => spent <= PollTimeout) /\ (phase # "polling" => spent = 0)
    BY <1>2 DEF TypeOK, AwaitInv, Turn
  <2>. QED BY <1>1, <1>2, <2>1, <2>2, Numbers DEF Used, Turn
<1>3. CASE phase \in Work /\ x \in Jobs
  <2>1. First(Logs) => x = Logs
    BY OneFirst DEF TypeOK
  <2>2. Cost(x) = IF x = Logs THEN AskTime ELSE 0
    BY <1>3, StepsAssumption DEF Cost
  <2>3. CASE phase = "asking"
    <3>1. x = Logs /\ spent \in Nat /\ spent <= AskTime
      BY <2>1, <2>3 DEF AwaitInv, TypeOK
    <3>. QED BY <1>1, <2>2, <2>3, <3>1, Numbers DEF Used
  <2>4. CASE phase = "working"
    <3>1. spent = 0
      BY <2>4 DEF AwaitInv
    <3>. QED BY <1>1, <2>1, <2>2, <2>4, <3>1, Numbers DEF Used
  <2>. QED BY <1>3, <2>3, <2>4 DEF Work
<1>. QED BY <1>2, <1>3

LEMMA LeftIsSome == ASSUME TypeOK, AwaitInv, phase # "down" PROVE Left >= 0
<1>1. Cardinality(Units(todo)) \in Nat
  BY UnitsLeft DEF TypeOK
<1>2. CASE phase \in {"sleeping", "ready"}
  <2>1. spent \in Nat /\ spent <= Tick
    BY <1>2, Numbers DEF AwaitInv, TypeOK
  <2>. QED BY <1>1, <1>2, <2>1, Numbers DEF Left, Used
<1>3. CASE phase \notin {"sleeping", "ready"}
  <2>0. phase \in Turn \/ phase \in Work
    BY <1>3 DEF TypeOK, Turn, Work
  <2>1. PICK x : First(x) /\ ((phase \in Turn /\ x \in Services) \/ (phase \in Work /\ x \in Jobs))
    BY <2>0 DEF AwaitInv
  <2>2. x \in todo /\ x \in Steps /\ Used <= Cost(x)
    BY <2>1, UsedBounds
  <2>3. Cardinality(Units(todo)) = Cardinality(Units(todo \ {x})) + Cost(x)
    BY <2>2, UnitsLeft DEF TypeOK
  <2>4. Cardinality(Units(todo \ {x})) \in Nat /\ Cost(x) \in Nat
    BY <2>2, UnitsLeft, CostType DEF TypeOK
  <2>. QED BY <1>1, <2>2, <2>3, <2>4, UsedType, Numbers DEF Left
<1>. QED BY <1>2, <1>3

\* The step that is over is taken off the agenda.
LEMMA LeftAfter ==
  ASSUME TypeOK, TypeOK', AwaitInv, NEW x, First(x), todo' = todo \ {x}, phase' = "ready", spent' = 0,
         (phase \in Turn /\ x \in Services) \/ (phase \in Work /\ x \in Jobs)
  PROVE  Left' <= Left
<1>1. x \in todo /\ x \in Steps /\ Used <= Cost(x)
  BY UsedBounds
<1>2. /\ Cardinality(Units(todo)) = Cardinality(Units(todo \ {x})) + Cost(x)
      /\ Cardinality(Units(todo \ {x})) \in Nat /\ Cost(x) \in Nat
  BY <1>1, UnitsLeft, CostType DEF TypeOK
<1>3. Units(todo)' = Units(todo \ {x}) /\ Used' = 0
  BY DEF Units, Used
<1>4. Left' = Tick + Cardinality(Units(todo \ {x})) - 0
  BY <1>3 DEF Left
<1>5. Left = Tick + Cardinality(Units(todo)) - Used
  BY DEF Left
<1>. QED BY <1>1, <1>2, <1>4, <1>5, UsedType, Numbers

\* The agenda is as long as it was, and more of it is used up.
LEMMA LessIsLeft ==
  ASSUME TypeOK, UNCHANGED todo, Used \in Nat, Used' \in Nat, Used <= Used' PROVE Left' <= Left
<1>1. Cardinality(Units(todo)) \in Nat
  BY UnitsLeft DEF TypeOK
<1>2. Left' = Tick + Cardinality(Units(todo)) - Used'
  BY DEF Left, Units
<1>3. Left = Tick + Cardinality(Units(todo)) - Used
  BY DEF Left
<1>4. \A t, u, a, b \in Nat : a <= b => t + u - b <= t + u - a
  OBVIOUS
<1>. QED BY <1>1, <1>2, <1>3, <1>4, Numbers, Zenon

LEMMA InTimeKept ==
  ASSUME NEW age \in Ages, NEW left \in Int, NEW less \in Int, NEW limit \in Int, InTime(age, left, limit), less <= left
  PROVE  InTime(age, less, limit)
BY DEF InTime, Ages

LEMMA InTimeOlder ==
  ASSUME NEW age \in Ages, NEW left \in Int, NEW limit \in Int, InTime(age, left, limit)
  PROVE  InTime(Older(age), left - 1, limit)
BY Numbers DEF InTime, Ages, Older

LEMMA LimitType ==
  ASSUME NEW s \in Services
  PROVE  Limit(s) \in Nat /\ EffectiveInterval(s) \in Nat /\ EffectiveInterval(s) > 0
         /\ Limit(s) >= EffectiveInterval(s) + LongestPass
<1>1. EffectiveInterval(s) \in Nat /\ EffectiveInterval(s) > 0
  BY Numbers DEF EffectiveInterval, Larger
<1>. HIDE DEF EffectiveInterval
<1>. QED BY <1>1, PassType DEF Limit

LEMMA LateInit == Init => LateInv
BY DEF Init, LateInv, InTime, Steps

\* Steps that leave the ages, the breakers and the agenda of the services alone, or end one job.
LEMMA LateSame ==
  ASSUME TypeOK, TypeOK', LateInv, UNCHANGED <<timed, breaker>>,
         \A s \in Services : s \in todo' <=> s \in todo, Left' <= Left
  PROVE  LateInv'
<1>1. Left \in Int /\ Left' \in Int
  <2>1. (TypeOK => Left \in Int) /\ (TypeOK => Left \in Int)'
    BY LeftType, PTL
  <2>. QED BY <2>1
<1>2. ASSUME NEW j \in Jobs PROVE InTime(timed[j], Left', Every[j] + LongestPass)
  <2>1. Every[j] + LongestPass \in Int /\ timed[j] \in Ages
    BY PassType, TimesAssumption DEF TypeOK, Ages, Steps
  <2>2. InTime(timed[j], Left, Every[j] + LongestPass)
    BY DEF LateInv
  <2>. QED BY <1>1, <2>1, <2>2, InTimeKept
<1>3. ASSUME NEW s \in Services PROVE InTime(timed[s], Left', Limit(s)) /\ Limit(s)' = Limit(s)
  <2>1. Limit(s) \in Int /\ timed[s] \in Ages
    BY LimitType DEF TypeOK, Ages, Steps
  <2>2. InTime(timed[s], Left, Limit(s))
    BY DEF LateInv
  <2>3. Limit(s)' = Limit(s)
    BY DEF Limit, EffectiveInterval
  <2>. QED BY <1>1, <2>1, <2>2, <2>3, InTimeKept
<1>. QED BY <1>2, <1>3 DEF LateInv, InTime

LEMMA LateStep == TypeOK /\ TypeOK' /\ AwaitInv /\ AwaitInv' /\ TimedInv /\ LateInv /\ [Next]_vars => LateInv'
<1> SUFFICES ASSUME TypeOK, TypeOK', AwaitInv, AwaitInv', TimedInv, LateInv, [Next]_vars PROVE LateInv'
  OBVIOUS
<1>0. /\ Left \in Int /\ Left' \in Int /\ Left <= LongestPass /\ Left' <= LongestPass
      /\ LongestPass \in Nat /\ Used \in Nat /\ Used' \in Nat /\ spent \in Nat
  <2>1. (TypeOK => Left \in Int /\ Left <= LongestPass /\ Used \in Nat) /\ (TypeOK => Left \in Int /\ Left <= LongestPass /\ Used \in Nat)'
    BY LeftType, UsedType, PTL
  <2>. QED BY <2>1, PassType DEF TypeOK
<1>1. CASE UNCHANGED vars
  <2>1. Left' = Left
    BY <1>1 DEF vars, loop, Left, Used, First
  <2>. QED BY <1>0, <1>1, <2>1, LateSame DEF vars, loop, history
<1>2. CASE PassBegins
  <2>1. /\ phase' = "ready" /\ spent' = 0 /\ todo' = DueServices \cup DueJobs
        /\ UNCHANGED <<sinceEnd, untilFirst, breaker>>
        /\ timed' = [x \in Steps |-> IF x \in DueJobs THEN 0 ELSE timed[x]]
    BY <1>2 DEF PassBegins
  <2>2. ASSUME NEW j \in Jobs PROVE InTime(timed'[j], Left', Every[j] + LongestPass)
    <3>1. Every[j] \in Nat /\ Every[j] > 0
      BY TimesAssumption
    <3>2. CASE j \in DueJobs
      BY <1>0, <2>1, <3>1, <3>2 DEF InTime, Steps
    <3>3. CASE j \notin DueJobs
      <4>1. /\ timed'[j] = timed[j] /\ timed[j] \in Ages
            /\ sinceJob[j] \in Nat /\ ~(sinceJob[j] >= Every[j])
        BY <2>1, <3>3 DEF DueJobs, TypeOK, Ages, Steps
      <4>2. timed[j] # Never /\ timed[j] <= sinceJob[j]
        BY <4>1, Numbers DEF TimedInv, PartOf
      <4>. QED BY <1>0, <3>1, <4>1, <4>2 DEF InTime, Ages
    <3>. QED BY <3>2, <3>3
  <2>3. ASSUME NEW s \in Services PROVE InTime(timed'[s], Left', Limit(s)')
    <3>. DEFINE eff == EffectiveInterval(s)
    <3>1. eff \in Nat /\ eff > 0 /\ EffectiveInterval(s)' = eff
      BY <2>1, LimitType DEF EffectiveInterval
    <3>2. timed[s] \in Ages /\ sinceEnd[s] \in Ages /\ timed'[s] = timed[s]
      BY <2>1, StepsAssumption DEF TypeOK, Ages, Steps, DueJobs
    <3>. SUFFICES ASSUME timed[s] # Never PROVE timed[s] + Left' < Limit(s)'
      BY <3>2 DEF InTime
    <3>3. sinceEnd[s] \in Nat /\ timed[s] \in Nat /\ timed[s] <= sinceEnd[s] /\ untilFirst[s] = 0
      BY <3>2, Numbers DEF Ages, AwaitInv, TimedInv, PartOf
    <3>4. s \in todo' <=> IsDue(s)
      BY <2>1, <3>3, StepsAssumption DEF DueServices, DueJobs
    <3>5. Limit(s)' = eff + (IF s \in todo' THEN 2 * LongestPass ELSE LongestPass)
      BY <3>1 DEF Limit
    <3>. HIDE DEF eff
    <3>6. CASE ~IsDue(s)
      <4>1. sinceEnd[s] < eff
        BY <3>1, <3>3, <3>6 DEF IsDue, eff
      <4>. QED BY <1>0, <3>1, <3>3, <3>4, <3>5, <3>6, <4>1
    <3>7. CASE IsDue(s)
      <4>1. phase = "sleeping" /\ todo = {}
        BY <1>2, <3>3, Numbers DEF PassBegins, AwaitInv
      <4>2. InTime(timed[s], Left, Limit(s)) /\ Limit(s) = eff + LongestPass
        BY <4>1 DEF LateInv, Limit, eff
      <4>3. Left >= 0
        BY <4>1, LeftIsSome
      <4>4. timed[s] + Left < eff + LongestPass
        BY <4>2 DEF InTime
      <4>. QED BY <1>0, <3>1, <3>3, <3>4, <3>5, <3>7, <4>3, <4>4
    <3>. QED BY <3>6, <3>7
  <2>. QED BY <2>1, <2>2, <2>3 DEF LateInv
<1>3. CASE Sleep
  <2>1. Left' <= Left
    <3>1. UNCHANGED todo /\ Used = 0
      BY <1>3 DEF Sleep, Used, AwaitInv
    <3>. QED BY <1>0, <3>1, LessIsLeft, UsedType
  <2>. QED BY <1>0, <1>3, <2>1, LateSame DEF Sleep, history
<1>4. CASE TimePasses /\ Untimed
  <2>1. UNCHANGED <<phase, spent, todo, timed, breaker>>
    BY <1>4 DEF TimePasses, TimeLeft, Untimed
  <2>2. Left' = Left
    BY <2>1 DEF Left, Used, First
  <2>. QED BY <1>0, <2>1, <2>2, LateSame
<1>16. CASE TimePasses /\ TimeLeft
  <2>1. /\ UNCHANGED <<phase, todo, breaker>> /\ spent' = spent + 1
        /\ timed' = [x \in Steps |-> Older(timed[x])]
    BY <1>16 DEF TimePasses, TimeLeft, Untimed
  <2>2. Left' = Left - 1
    <3>1. Cardinality(Units(todo)) \in Nat
      BY UnitsLeft DEF TypeOK
    <3>2. Used' = Used + 1
      BY <1>0, <2>1, Numbers DEF Used, First
    <3>3. Left' = Tick + Cardinality(Units(todo)) - (Used + 1)
      BY <2>1, <3>2 DEF Left, Units
    <3>. QED BY <1>0, <3>1, <3>3, Numbers DEF Left
  <2>3. ASSUME NEW j \in Jobs PROVE InTime(timed'[j], Left', Every[j] + LongestPass)
    <3>1. Every[j] + LongestPass \in Int /\ timed[j] \in Ages /\ timed'[j] = Older(timed[j])
      BY <2>1, PassType, TimesAssumption DEF TypeOK, Ages, Steps
    <3>2. InTime(timed[j], Left, Every[j] + LongestPass)
      BY DEF LateInv
    <3>. QED BY <1>0, <2>2, <3>1, <3>2, InTimeOlder
  <2>4. ASSUME NEW s \in Services PROVE InTime(timed'[s], Left', Limit(s)')
    <3>1. Limit(s) \in Int /\ timed[s] \in Ages /\ timed'[s] = Older(timed[s])
      BY <2>1, LimitType DEF TypeOK, Ages, Steps
    <3>2. InTime(timed[s], Left, Limit(s))
      BY DEF LateInv
    <3>3. Limit(s)' = Limit(s)
      BY <2>1 DEF Limit, EffectiveInterval
    <3>. QED BY <1>0, <2>2, <3>1, <3>2, <3>3, InTimeOlder
  <2>. QED BY <2>3, <2>4 DEF LateInv
<1>5. CASE Crash
  BY <1>5 DEF Crash, FreshLoop, LateInv, InTime, Steps
<1>6. ASSUME NEW s \in Services, BeginPoll(s) PROVE LateInv'
  <2>1. Left' <= Left
    <3>1. UNCHANGED todo /\ Used = 0
      BY <1>6 DEF BeginPoll, Used, AwaitInv
    <3>. QED BY <1>0, <3>1, LessIsLeft, UsedType, Numbers
  <2>. QED BY <1>0, <1>6, <2>1, LateSame DEF BeginPoll, history
<1>7. ASSUME NEW s \in Services, NEW ok \in BOOLEAN, PollEnds(s, ok) PROVE LateInv'
  <2>1. Left' <= Left
    <3>1. UNCHANGED todo /\ Used = spent /\ Used' = PollTimeout /\ spent <= PollTimeout
      BY <1>0, <1>7, Numbers DEF PollEnds, Used, AwaitInv
    <3>. QED BY <1>0, <3>1, LessIsLeft, UsedType, Numbers
  <2>. QED BY <1>0, <1>7, <2>1, LateSame DEF PollEnds, history
<1>8. ASSUME NEW s \in Services, PollTimesOut(s) PROVE LateInv'
  <2>1. Left' <= Left
    <3>1. UNCHANGED todo /\ Used = spent /\ Used' = PollTimeout /\ spent <= PollTimeout
      BY <1>0, <1>8, Numbers DEF PollTimesOut, Used, AwaitInv
    <3>. QED BY <1>0, <3>1, LessIsLeft, UsedType, Numbers
  <2>. QED BY <1>0, <1>8, <2>1, LateSame DEF PollTimesOut, history
<1>9. ASSUME NEW s \in Services, Persist(s) PROVE LateInv'
  <2>1. Left' <= Left
    <3>1. UNCHANGED todo /\ Used' = Used
      BY <1>9 DEF Persist, Used, AwaitInv
    <3>. QED BY <1>0, <3>1, LessIsLeft, UsedType, Numbers
  <2>. QED BY <1>0, <1>9, <2>1, LateSame DEF Persist, history
<1>10. ASSUME NEW s \in Services, Record(s) PROVE LateInv'
  <2>1. /\ First(s) /\ phase = "recording" /\ phase' = "ready" /\ spent' = 0 /\ todo' = todo \ {s}
        /\ timed' = [timed EXCEPT ![s] = 0]
    BY <1>10 DEF Record
  <2>2. Left' <= Left
    <3>1. phase \in Turn /\ s \in Services
      BY <2>1 DEF Turn
    <3>. QED BY <2>1, <3>1, LeftAfter
  <2>3. ASSUME NEW j \in Jobs PROVE InTime(timed'[j], Left', Every[j] + LongestPass)
    <3>1. Every[j] + LongestPass \in Int /\ timed[j] \in Ages /\ timed'[j] = timed[j]
      BY <2>1, PassType, TimesAssumption, StepsAssumption DEF TypeOK, Ages, Steps
    <3>2. InTime(timed[j], Left, Every[j] + LongestPass)
      BY DEF LateInv
    <3>. QED BY <1>0, <2>2, <3>1, <3>2, InTimeKept
  <2>4. ASSUME NEW t \in Services PROVE InTime(timed'[t], Left', Limit(t)')
    <3>1. CASE t = s
      <4>1. timed'[t] = 0
        BY <2>1, <3>1 DEF TypeOK, Steps
      <4>. DEFINE eff == EffectiveInterval(t)'
      <4>2. eff \in Nat /\ eff > 0
        BY Numbers DEF EffectiveInterval, Larger
      <4>3. Limit(t)' = eff + LongestPass
        BY <2>1, <3>1 DEF Limit
      <4>. HIDE DEF eff
      <4>4. \A l \in Int, e, p \in Nat : e > 0 /\ l <= p => 0 + l < e + p
        OBVIOUS
      <4>5. 0 + Left' < eff + LongestPass
        BY <1>0, <4>2, <4>4, Zenon
      <4>. QED BY <4>1, <4>3, <4>5, Zenon DEF InTime
    <3>2. CASE t # s
      <4>1. timed'[t] = timed[t] /\ breaker'[t] = breaker[t] /\ (t \in todo' <=> t \in todo)
        BY <1>10, <3>2 DEF Record, TypeOK
      <4>2. Limit(t) \in Int /\ timed[t] \in Ages
        BY LimitType DEF TypeOK, Ages, Steps
      <4>3. InTime(timed[t], Left, Limit(t))
        BY DEF LateInv
      <4>4. Limit(t)' = Limit(t)
        BY <4>1 DEF Limit, EffectiveInterval
      <4>. QED BY <1>0, <2>2, <4>1, <4>2, <4>3, <4>4, InTimeKept
    <3>. QED BY <3>1, <3>2
  <2>. QED BY <2>1, <2>3, <2>4 DEF LateInv
<1>11. ASSUME NEW j \in Jobs, BeginJob(j) PROVE LateInv'
  <2>1. Left' <= Left
    <3>1. UNCHANGED todo /\ Used = 0
      BY <1>11 DEF BeginJob, Used, AwaitInv
    <3>. QED BY <1>0, <3>1, LessIsLeft, UsedType, Numbers
  <2>. QED BY <1>0, <1>11, <2>1, LateSame DEF BeginJob, history
<1>12. ASSUME NEW j \in Jobs, JobEnds(j) PROVE LateInv'
  <2>1. First(j) /\ phase \in Work /\ phase' = "ready" /\ spent' = 0 /\ todo' = todo \ {j}
    BY <1>12 DEF JobEnds, Work
  <2>2. Left' <= Left
    BY <2>1, LeftAfter
  <2>3. \A s \in Services : s \in todo' <=> s \in todo
    BY <2>1, StepsAssumption
  <2>. QED BY <1>12, <2>2, <2>3, LateSame DEF JobEnds, history
<1>13. ASSUME NEW s \in Services, TurnComes(s) PROVE LateInv'
  <2>1. Left' <= Left
    <3>1. UNCHANGED todo /\ Used = 0
      BY <1>13 DEF TurnComes, Used, AwaitInv
    <3>. QED BY <1>0, <3>1, LessIsLeft, UsedType, Numbers
  <2>. QED BY <1>0, <1>13, <2>1, LateSame DEF TurnComes, history
<1>14. ASSUME NEW s \in Services, NotConfigured(s) PROVE LateInv'
  <2>1. Left' <= Left
    <3>1. UNCHANGED todo /\ Used = 0
      BY <1>14 DEF NotConfigured, Used, AwaitInv
    <3>. QED BY <1>0, <3>1, LessIsLeft, UsedType, Numbers
  <2>. QED BY <1>0, <1>14, <2>1, LateSame DEF NotConfigured, history
<1>15. CASE AgentAnswers
  <2>1. Left' <= Left
    <3>1. UNCHANGED todo /\ Used = spent /\ Used' = AskTime /\ spent <= AskTime
      BY <1>0, <1>15, Numbers DEF AgentAnswers, Used, AwaitInv, First
    <3>. QED BY <1>0, <3>1, LessIsLeft, UsedType, Numbers
  <2>. QED BY <1>0, <1>15, <2>1, LateSame DEF AgentAnswers, history
<1>17. TimePasses => Untimed \/ TimeLeft
  BY DEF TimePasses
<1>. QED
  BY <1>1, <1>2, <1>3, <1>4, <1>5, <1>6, <1>7, <1>8, <1>9, <1>10, <1>11, <1>12, <1>13, <1>14, <1>15, <1>16, <1>17,
     NextSteps DEF LoopSteps

LEMMA LateMeansPunctual == TypeOK /\ AwaitInv /\ TimedInv /\ LateInv => Punctual
<1>. SUFFICES ASSUME TypeOK, AwaitInv, TimedInv, LateInv PROVE Punctual
  OBVIOUS
<1>1. CASE phase = "down"
  <2>1. (\A s \in Services : sinceEnd[s] = Never) /\ (\A j \in Jobs : sinceJob[j] = Never)
    BY <1>1 DEF AwaitInv
  <2>2. (\A s \in Services : timed[s] = Never) /\ (\A j \in Jobs : timed[j] = Never)
    BY <2>1 DEF TimedInv, PartOf
  <2>. QED BY <2>2 DEF Punctual
<1>2. CASE phase # "down"
  <2>1. Left \in Int /\ Left >= 0 /\ LongestPass \in Nat
    BY <1>2, LeftType, LeftIsSome, PassType
  <2>2. ASSUME NEW j \in Jobs, timed[j] # Never PROVE timed[j] < Every[j] + LongestPass
    <3>1. Every[j] \in Nat /\ timed[j] \in Nat
      BY <2>2, TimesAssumption DEF TypeOK, Steps
    <3>2. timed[j] + Left < Every[j] + LongestPass
      BY <2>2 DEF LateInv, InTime
    <3>. QED BY <2>1, <3>1, <3>2
  <2>3. ASSUME NEW s \in Services, timed[s] # Never PROVE timed[s] < Promised(s) + 2 * LongestPass
    <3>. DEFINE eff == EffectiveInterval(s)
    <3>1. eff \in Nat /\ timed[s] \in Nat /\ Promised(s) = eff
      BY <2>3, PromiseKept DEF TypeOK, Steps
    <3>2. timed[s] + Left < eff + (IF s \in todo THEN 2 * LongestPass ELSE LongestPass)
      BY <2>3 DEF LateInv, InTime, Limit
    <3>. HIDE DEF eff
    <3>. QED BY <2>1, <3>1, <3>2
  <2>. QED BY <2>2, <2>3 DEF Punctual
<1>. QED BY <1>1, <1>2

\* No service starves behind others that hang, and no job behind them: but for time that
\* passes in awaits on the database or a push, of which nothing is assumed, both come round
\* within a bound that the timeouts and the number of the steps give.
THEOREM NothingStarves == Spec => []Punctual
<1>. QED
  BY TypeInit, TypeStep, AwaitInit, AwaitStep, TimedInit, TimedStep, LateInit, LateStep, LateMeansPunctual, PTL
  DEF Spec

=============================================================================
