------------------------------- MODULE Poller -------------------------------
(***************************************************************************)
(* The timing loop of the poller worker (poller/index.ts) and the circuit  *)
(* breaker that paces it (poller/scheduler.ts).                            *)
(*                                                                         *)
(* One pass of the loop captures the time once, polls every service that   *)
(* is due by that time, one after the other, then pulls logs, evaluates    *)
(* alerts and prunes the tables when those are due, and sleeps.  Time      *)
(* passes only while the worker awaits something; it is kept as ages       *)
(* relative to the present.  Since dueness is decided with the time        *)
(* captured at the top of the pass, and a pass changes the breaker of a    *)
(* service or the clock of a job only when it runs it, the whole agenda of *)
(* a pass is known when it begins.                                         *)
(*                                                                         *)
(* A poll that runs into the timeout is abandoned, not cancelled: its HTTP *)
(* calls go on behind the loop's back for up to PollTail.                  *)
(*                                                                         *)
(* Timers and HTTP calls to the services are bounded.  What awaits the     *)
(* database, or a push endpoint (web-push's sendNotification), has no      *)
(* timeout: it may last as long as it likes, and for ever.                 *)
(***************************************************************************)
EXTENDS Integers, FiniteSets, FiniteSetsExt

CONSTANTS
  Services,      \* the registered pollers
  Agent,         \* the one the logs are pulled from
  Optional,      \* those whose configuration may be missing when their turn comes
  Announcer,     \* plex-recent: the one whose new titles are pushed
  Jobs, Logs,    \* the periodic jobs, and the log pull among them
  Position,      \* the order of a pass: services as registered, then the jobs
  Interval,      \* the poll interval of a service
  Backoff,       \* BREAKER_BACKOFF_MS
  Threshold,     \* BREAKER_THRESHOLD
  Jitter,        \* startJitter of a service
  Every,         \* the interval of a job
  Tick,          \* TICK_MS
  PollTimeout,   \* POLL_TIMEOUT_MS
  PollTail,      \* how long the calls of an abandoned poll go on
  AskTime,       \* how long the calls of one log pull take at most
  RestartDelay,  \* RestartSec of the systemd unit
  Never,         \* the age of what has not happened
  MaxHung,       \* bound on the time that passes in awaits without a timeout
  MaxCrashes     \* bound on deaths of the worker

Steps == Services \cup Jobs

ASSUME StepsAssumption ==
  /\ IsFiniteSet(Steps) /\ Services \cap Jobs = {}
  /\ Optional \subseteq Services /\ Agent \in Services \ Optional /\ Announcer \in Services
  /\ Logs \in Jobs
  /\ Position \in [Steps -> Nat]
  /\ \A x, y \in Steps : Position[x] = Position[y] => x = y
ASSUME TimesAssumption ==
  /\ Interval \in [Services -> Nat \ {0}] /\ Jitter \in [Services -> Nat]
  /\ Every \in [Jobs -> Nat \ {0}]
  /\ {Tick, Backoff, Threshold, PollTimeout} \subseteq Nat \ {0}
  /\ {PollTail, AskTime, RestartDelay, MaxHung, MaxCrashes} \subseteq Nat
  /\ Never \notin Nat
\* Six calls of at most 8 s, the longest chain of a client, less the 10 s after
\* which the poll was abandoned.
ASSUME TailAssumption == PollTail <= Backoff
ASSUME NeverAssumption == Never \notin Int

VARIABLES
  phase,      \* what the worker awaits, or "ready" between two awaits
  spent,      \* how long it has awaited it, where that is bounded
  todo,       \* the services and jobs the running pass has not finished
  outcome,    \* whether the poll just made was ok
  breaker,    \* breakers: failures (counted up to Threshold) and tripped
  sinceEnd,   \* the age of lastAttempt, the end of the last poll of a service
  untilFirst, \* the time left until nextEligible
  sinceJob,   \* the age of lastLogPull, lastAlerts, lastRetention
  tail,       \* tail[s]: how long calls of an abandoned poll of s still go on
  rows,       \* rows[s]: the latest failed heartbeats in service_status, up to
              \* Threshold, since the last ok one
  timed,      \* a history: how much of sinceEnd and sinceJob passed in awaits that
              \* something bounds
  hung,       \* how much time has passed in those that nothing does
  crashes

loop == <<phase, spent, todo, outcome>>
clocks == <<sinceEnd, untilFirst, sinceJob, tail>>
history == <<timed, hung>>
vars == <<loop, breaker, clocks, rows, history, crashes>>

Closed == [failures |-> 0, tripped |-> FALSE]

\* The locals of runLoop, when the process starts.
FreshLoop ==
  /\ breaker' = [s \in Services |-> Closed]
  /\ sinceEnd' = [s \in Services |-> Never]
  /\ untilFirst' = Jitter
  /\ sinceJob' = [j \in Jobs |-> Never]
  /\ timed' = [x \in Steps |-> Never]

Init ==
  /\ phase = "down" /\ spent = 0 /\ todo = {} /\ outcome = FALSE
  /\ breaker = [s \in Services |-> Closed]
  /\ sinceEnd = [s \in Services |-> Never]
  /\ untilFirst = Jitter
  /\ sinceJob = [j \in Jobs |-> Never]
  /\ tail = [s \in Services |-> 0]
  /\ rows = [s \in Services |-> 0]
  /\ timed = [x \in Steps |-> Never] /\ hung = 0
  /\ crashes = 0

-----------------------------------------------------------------------------
(* The breaker. *)

Larger(a, b) == IF a > b THEN a ELSE b

\* A slip: the shorter of the two.
IntervalShortened(s) ==
  IF breaker[s].tripped /\ Interval[s] > Backoff THEN Backoff ELSE Interval[s]

EffectiveInterval(s) ==
  IF breaker[s].tripped THEN Larger(Interval[s], Backoff) ELSE Interval[s]

IsDue(s) == sinceEnd[s] = Never \/ sinceEnd[s] >= EffectiveInterval(s)

Saturated(n) == IF n < Threshold THEN n ELSE Threshold

\* Slips: it trips one failure late; a success leaves it tripped.
RecordLate(b, ok) ==
  IF ok THEN Closed
  ELSE [failures |-> Saturated(b.failures + 1), tripped |-> b.failures >= Threshold]
RecordSticky(b, ok) ==
  [failures |-> IF ok THEN 0 ELSE Saturated(b.failures + 1),
   tripped |-> b.tripped \/ (~ok /\ b.failures + 1 >= Threshold)]

RecordResult(b, ok) ==
  IF ok THEN Closed
  ELSE [failures |-> Saturated(b.failures + 1), tripped |-> b.failures + 1 >= Threshold]

-----------------------------------------------------------------------------
(* A pass of the loop. *)

First(x) == x \in todo /\ \A y \in todo : Position[x] <= Position[y]

\* A slip: a tripped breaker lets no poll through.
DueUnlessTripped == {s \in Services : untilFirst[s] = 0 /\ IsDue(s) /\ ~breaker[s].tripped}

DueServices == {s \in Services : untilFirst[s] = 0 /\ IsDue(s)}
DueJobs == {j \in Jobs : sinceJob[j] = Never \/ sinceJob[j] >= Every[j]}

\* `now` is captured and the pass begins.  A job's clock is set to that `now`.
PassBegins ==
  /\ \/ phase = "sleeping" /\ spent = Tick
     \/ phase = "down" /\ spent = RestartDelay
  /\ phase' = "ready" /\ spent' = 0
  /\ todo' = DueServices \cup DueJobs
  /\ sinceJob' = [j \in Jobs |-> IF j \in DueJobs THEN 0 ELSE sinceJob[j]]
  /\ timed' = [x \in Steps |-> IF x \in DueJobs THEN 0 ELSE timed[x]]
  /\ UNCHANGED <<outcome, breaker, sinceEnd, untilFirst, tail, rows, hung, crashes>>

\* pollOnce loads the configuration of the service first.
TurnComes(s) ==
  /\ phase = "ready" /\ First(s)
  /\ phase' = "loading" /\ spent' = 0
  /\ UNCHANGED <<todo, outcome, breaker, clocks, rows, history, crashes>>

NotConfigured(s) ==
  /\ phase = "loading" /\ First(s) /\ s \in Optional
  /\ outcome' = FALSE
  /\ phase' = "persisting" /\ spent' = 0
  /\ UNCHANGED <<todo, breaker, clocks, rows, history, crashes>>

BeginPoll(s) ==
  /\ phase = "loading" /\ First(s)
  /\ phase' = "polling" /\ spent' = 0
  /\ UNCHANGED <<todo, outcome, breaker, clocks, rows, history, crashes>>

\* The poll is answered, or fails.
PollEnds(s, ok) ==
  /\ phase = "polling" /\ First(s)
  /\ outcome' = ok
  /\ phase' = "persisting" /\ spent' = 0
  /\ UNCHANGED <<todo, breaker, clocks, rows, history, crashes>>

\* A slip: nothing bounds a poll.
PollHangs(s) ==
  /\ phase = "polling" /\ First(s) /\ spent = PollTimeout
  /\ UNCHANGED vars

\* withTimeout gives up on it.
PollTimesOut(s) ==
  /\ phase = "polling" /\ First(s) /\ spent = PollTimeout
  /\ outcome' = FALSE
  /\ phase' = "persisting" /\ spent' = 0
  /\ tail' = [tail EXCEPT ![s] = PollTail]
  /\ UNCHANGED <<todo, breaker, sinceEnd, untilFirst, sinceJob, rows, history, crashes>>

\* persistOutcome has inserted the heartbeat (snapshots and metrics follow; the
\* model keeps none of them).
Persist(s) ==
  /\ phase = "persisting" /\ First(s)
  /\ rows' = [rows EXCEPT ![s] = IF outcome THEN 0 ELSE Saturated(@ + 1)]
  /\ phase' = "recording" /\ spent' = 0
  /\ UNCHANGED <<todo, outcome, breaker, clocks, history, crashes>>

\* The push of new titles, if there is any, is done; the breaker takes the outcome in,
\* at Date.now().
Record(s) ==
  /\ phase = "recording" /\ First(s)
  /\ breaker' = [breaker EXCEPT ![s] = RecordResult(@, outcome)]
  /\ sinceEnd' = [sinceEnd EXCEPT ![s] = 0]
  /\ timed' = [timed EXCEPT ![s] = 0]
  /\ todo' = todo \ {s}
  /\ phase' = "ready" /\ spent' = 0
  /\ UNCHANGED <<outcome, untilFirst, sinceJob, tail, rows, hung, crashes>>

\* A log pull asks the agent (its calls come here before its statements, all together).
BeginJob(j) ==
  /\ phase = "ready" /\ First(j)
  /\ phase' = (IF j = Logs THEN "asking" ELSE "working") /\ spent' = 0
  /\ UNCHANGED <<todo, outcome, breaker, clocks, rows, history, crashes>>

AgentAnswers ==
  /\ phase = "asking"
  /\ phase' = "working" /\ spent' = 0
  /\ UNCHANGED <<todo, outcome, breaker, clocks, rows, history, crashes>>

JobEnds(j) ==
  /\ phase = "working" /\ First(j)
  /\ todo' = todo \ {j}
  /\ phase' = "ready" /\ spent' = 0
  /\ UNCHANGED <<outcome, breaker, clocks, rows, history, crashes>>

Sleep ==
  /\ phase = "ready" /\ todo = {}
  /\ phase' = "sleeping" /\ spent' = 0
  /\ UNCHANGED <<todo, outcome, breaker, clocks, rows, history, crashes>>

\* A database error that nothing catches (loadServiceConfig, persistOutcome,
\* runRetention), or the process is killed: systemd starts it again.
Crash ==
  /\ crashes < MaxCrashes /\ crashes' = crashes + 1
  /\ phase # "down"
  /\ phase' = "down" /\ spent' = 0 /\ todo' = {} /\ outcome' = FALSE
  /\ FreshLoop
  /\ tail' = [s \in Services |-> 0]
  /\ UNCHANGED <<rows, hung>>

-----------------------------------------------------------------------------
(* Time. *)

\* The awaits that something bounds: the tick, systemd, withTimeout, httpFetch.
TimeLeft ==
  \/ phase = "sleeping" /\ spent < Tick
  \/ phase = "down" /\ spent < RestartDelay
  \/ phase = "polling" /\ spent < PollTimeout
  \/ phase = "asking" /\ spent < AskTime

\* Those that nothing bounds: statements, and the pushes of new titles and of alerts.
Untimed ==
  \/ phase \in {"loading", "persisting", "working"}
  \/ phase = "recording" /\ outcome /\ First(Announcer)

Older(age) == IF age = Never THEN Never ELSE age + 1
Less(left) == IF left = 0 THEN 0 ELSE left - 1

TimePasses ==
  /\ \/ /\ TimeLeft
        /\ spent' = spent + 1 /\ timed' = [x \in Steps |-> Older(timed[x])]
        /\ UNCHANGED hung
     \/ /\ Untimed /\ hung < MaxHung
        /\ hung' = hung + 1
        /\ UNCHANGED <<spent, timed>>
  /\ sinceEnd' = [s \in Services |-> Older(sinceEnd[s])]
  /\ sinceJob' = [j \in Jobs |-> Older(sinceJob[j])]
  /\ untilFirst' =
       [s \in Services |-> IF phase = "down" THEN untilFirst[s] ELSE Less(untilFirst[s])]
  /\ tail' = [s \in Services |-> Less(tail[s])]
  /\ UNCHANGED <<phase, todo, outcome, breaker, rows, crashes>>

PollAnswered == \E s \in Services, ok \in BOOLEAN : PollEnds(s, ok)

\* What a timer or the loop itself brings about.
Prompt ==
  \/ PassBegins
  \/ \E s \in Services : TurnComes(s) \/ PollTimesOut(s) \/ (~Untimed /\ Record(s))
  \/ \E j \in Jobs : BeginJob(j)
  \/ AgentAnswers
  \/ Sleep

\* What waits for the database or for a push.
InItsOwnTime ==
  \/ \E s \in Services : NotConfigured(s) \/ BeginPoll(s) \/ Persist(s) \/ (Untimed /\ Record(s))
  \/ \E j \in Jobs : JobEnds(j)

Next == Prompt \/ InItsOwnTime \/ PollAnswered \/ TimePasses \/ Crash

Spec == Init /\ [][Next]_vars

\* Timers fire, the agent's answers come or their timeouts, time goes on.  No service has
\* to answer a poll, no statement and no push has to end.
Fairness == WF_vars(Prompt) /\ WF_vars(TimePasses)
FairSpec == Spec /\ Fairness

-----------------------------------------------------------------------------
(* Properties. *)

TypeOK ==
  /\ phase \in {"down", "sleeping", "ready", "loading", "polling", "persisting", "recording",
                "asking", "working"}
  /\ spent \in Nat /\ todo \subseteq Steps /\ outcome \in BOOLEAN
  /\ breaker \in [Services -> {[failures |-> n, tripped |-> n = Threshold] : n \in 0 .. Threshold}]
  /\ sinceEnd \in [Services -> Nat \cup {Never}]
  /\ untilFirst \in [Services -> Nat]
  /\ sinceJob \in [Jobs -> Nat \cup {Never}]
  /\ tail \in [Services -> Nat]
  /\ rows \in [Services -> 0 .. Threshold]
  /\ timed \in [Steps -> Nat \cup {Never}] /\ hung \in 0 .. MaxHung
  /\ crashes \in 0 .. MaxCrashes

\* The interval the header of scheduler.ts promises: backing off, never
\* shortening.
Promised(s) == IF breaker[s].tripped THEN Max({Interval[s], Backoff}) ELSE Interval[s]

PollBegins(s) == phase = "loading" /\ phase' = "polling" /\ First(s)

\* A poll never begins sooner after the end of the one before than the interval
\* promised for the breaker as it is, however long the pass had lasted when its
\* turn came.
NeverHurried ==
  [][\A s \in Services : PollBegins(s) /\ sinceEnd[s] # Never => sinceEnd[s] >= Promised(s)]_vars

\* While its breaker is tripped a service never gets a new poll on top of the
\* calls of an abandoned one: timeouts do not pile up on a hung service.
NoPileUp ==
  [][\A s \in Services : PollBegins(s) /\ breaker[s].tripped => tail[s] = 0]_vars

\* No service starves behind the others, however many of them hang: but for time spent in
\* awaits on the database or a push, which nothing bounds, the last poll of a service is
\* never older than its interval and two passes in which every poll runs into its timeout,
\* and a job is never later than one such pass.
\* (Of steps that take so many units of time each, so many units together.)
Cost(x) == IF x \in Services THEN PollTimeout ELSE IF x = Logs THEN AskTime ELSE 0
Units(steps) == UNION {{x} \X (1 .. Cost(x)) : x \in steps}
LongestPass == Tick + Cardinality(Units(Steps))
Punctual ==
  /\ \A s \in Services : timed[s] # Never => timed[s] < Promised(s) + 2 * LongestPass
  /\ \A j \in Jobs : timed[j] # Never => timed[j] < Every[j] + LongestPass

\* What the worker holds against a service, the heartbeats in the database
\* show: alerts/store.ts counts them to tell that a breaker is open.  (The
\* converse fails after a restart, which closes the breakers.)
BreakerIsVisible ==
  phase \in {"ready", "sleeping", "working"} =>
    \A s \in Services :
      /\ breaker[s].failures <= rows[s]
      /\ breaker[s].tripped => rows[s] = Threshold

\* Every service has its turn again and again, tripped or not, so it can recover, unless
\* one await on the database or a push lasts for ever: "a hung service can never wedge the
\* poll loop" (clients/http.ts), a hung database or push endpoint can.
AlwaysPolledAgain == <>[]Untimed \/ \A s \in Services : []<>(phase = "loading" /\ First(s))

\* scheduler.ts: "while tripped the service is marked down and polled only at
\* the slow backoff cadence until it recovers"; the log pull asks the agent
\* every five seconds all the same.
LogPullBacksOff ==
  [][phase = "ready" /\ phase' = "asking" /\ breaker[Agent].tripped
       => sinceEnd[Agent] >= Backoff]_vars
=============================================================================
