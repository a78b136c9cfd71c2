--------------------------- MODULE ServiceAlerts ---------------------------
(***************************************************************************)
(* One polled service from its heartbeats to its alerts: the poller writes *)
(* a service_status row per poll, alerts/store.ts reads the latest Window  *)
(* of them back in every alert cycle, and the rules service.down and       *)
(* poller.breaker-open (alerts/rules.ts) judge what it made of them.       *)
(*                                                                         *)
(* The module stands on two others: the poller keeps what Poller shows of  *)
(* it (a poll comes no sooner than the effective interval after the last,  *)
(* and no later than Slack beyond it), and the engine is replaced by its   *)
(* promise, AlertLifecycle, which Alerts is shown to keep.  Polls and      *)
(* alert cycles take turns in one loop, so no poll falls into a cycle.     *)
(*                                                                         *)
(* Nothing looks past the latest heartbeat that was ok, so the model keeps *)
(* the failed ones since.                                                  *)
(***************************************************************************)
EXTENDS Naturals, Sequences, TLC

CONSTANTS
  Interval,       \* of the service
  Backoff,        \* BREAKER_BACKOFF_MS
  Threshold,      \* BREAKER_THRESHOLD
  Window,         \* heartbeats read back per service
  EscalateAfter,  \* ALERT_THRESHOLDS.breakerOpenMs
  AlertEvery,     \* ALERT_INTERVAL_MS
  Slack,          \* how late a poll or a cycle may be
  NoVerdict,      \* no alert cycle is under way
  MaxFaults       \* bound on restarts of the worker and failing alert cycles

ASSUME PositiveAssumption ==
  {Interval, Backoff, Threshold, Window, EscalateAfter, AlertEvery} \subseteq Nat \ {0}
ASSUME BoundsAssumption == {Slack, MaxFaults} \subseteq Nat
ASSUME ThresholdAssumption == Threshold <= Window

Down == "service.down"
BreakerOpen == "poller.breaker-open"
Rules == {Down, BreakerOpen}

VARIABLES
  up,        \* the service answers
  streak,    \* the ages of the failed heartbeats since the latest ok one, newest
             \* first, as far as the window shows
  sincePoll, \* the age of lastAttempt
  failures,  \* the worker's consecutiveFailures, counted up to Settled
  polled,    \* this worker has polled the service
  sinceCycle,          \* the age of the last alert cycle of this worker
  raised, count, verdict,  \* the alerts, as AlertLifecycle keeps them
  faults

Lifecycle == INSTANCE AlertLifecycle WITH
  Keys <- Rules, Strikes <- (Down :> 2 @@ BreakerOpen :> 1)

alerting == <<raised, count, verdict>>
polling == <<streak, sincePoll, failures, polled>>
vars == <<up, polling, sinceCycle, alerting, faults>>

Init ==
  /\ up = TRUE /\ streak = <<>> /\ sincePoll = 0 /\ failures = 0 /\ polled = FALSE
  /\ sinceCycle = AlertEvery
  /\ Lifecycle!AInit
  /\ faults = 0

-----------------------------------------------------------------------------
(* Polling. *)

Larger(a, b) == IF a > b THEN a ELSE b
Capped(n, cap) == IF n < cap THEN n ELSE cap

\* By then, the window holds only polls made under the open breaker.
Settled == Threshold + Window - 1

Tripped == failures >= Threshold

\* A slip: the breaker never slows the polls.
NeverSlower == Interval

EffectiveInterval == IF Tripped THEN Larger(Interval, Backoff) ELSE Interval

\* The oldest age anything asks for.
Old == Larger(EscalateAfter, Larger(Interval, Backoff) + Slack)

ServiceChanges ==
  /\ up' = ~up
  /\ UNCHANGED <<polling, sinceCycle, alerting, faults>>

\* A worker that has just started has not polled yet: the service is due.
IsDue == polled => sincePoll >= EffectiveInterval

Polled ==
  /\ verdict = NoVerdict
  /\ IsDue
  /\ failures' = IF up THEN 0 ELSE Capped(failures + 1, Settled)
  /\ polled' = TRUE
  /\ sincePoll' = 0
  /\ UNCHANGED <<up, sinceCycle, alerting, faults>>

\* The streak with one more failure, as far as the window shows it.
Grown == SubSeq(<<0>> \o streak, 1, Capped(Len(streak) + 1, Window))

\* A slip: failures are counted across heartbeats that are ok.
PollUnbroken == Polled /\ streak' = IF up THEN streak ELSE Grown

Poll == Polled /\ streak' = IF up THEN <<>> ELSE Grown

-----------------------------------------------------------------------------
(* The alert cycle. *)

\* A slip: the window is one heartbeat short.
OpenForShortWindow ==
  IF Len(streak) >= Threshold THEN streak[Capped(Len(streak), Window - 1)] ELSE 0

\* breakerOpenMs, with null as 0: the age of the oldest failure of the streak.
BreakerOpenFor == IF Len(streak) >= Threshold THEN streak[Len(streak)] ELSE 0

Reports ==
  {r \in Rules : \/ r = Down /\ streak # <<>>
                 \/ r = BreakerOpen /\ BreakerOpenFor >= EscalateAfter}

CycleBegins ==
  /\ sinceCycle >= AlertEvery
  /\ Lifecycle!Judge(Reports)
  /\ sinceCycle' = 0
  /\ UNCHANGED <<up, polling, faults>>

CycleWrites ==
  /\ \/ \E r \in Rules : Lifecycle!Raise(r)
     \/ Lifecycle!Conclude
  /\ UNCHANGED <<up, polling, sinceCycle, faults>>

\* A database call of the cycle fails.
CycleFails ==
  /\ faults < MaxFaults /\ faults' = faults + 1
  /\ Lifecycle!Abandon \/ \E r \in Rules : Lifecycle!RaiseAndAbandon(r)
  /\ UNCHANGED <<up, polling, sinceCycle>>

\* The worker starts afresh: breaker and streaks are forgotten, rows and alerts
\* stay.
Restart ==
  /\ faults < MaxFaults /\ faults' = faults + 1
  /\ failures' = 0 /\ polled' = FALSE /\ sinceCycle' = AlertEvery
  /\ Lifecycle!Restart
  /\ UNCHANGED <<up, streak, sincePoll>>

-----------------------------------------------------------------------------
(* Time: no poll and no cycle is later than Slack. *)

TimePasses ==
  /\ polled => sincePoll < EffectiveInterval + Slack
  /\ sinceCycle < AlertEvery + Slack
  /\ streak' = [i \in DOMAIN streak |-> Capped(streak[i] + 1, Old)]
  /\ sincePoll' = Capped(sincePoll + 1, Old)
  /\ sinceCycle' = sinceCycle + 1
  /\ UNCHANGED <<up, failures, polled, alerting, faults>>

Proceed == Poll \/ CycleBegins \/ CycleWrites
Next == Proceed \/ ServiceChanges \/ CycleFails \/ Restart \/ TimePasses

Spec == Init /\ [][Next]_vars

\* Time goes on, and every pass of the loop makes the polls and the cycle that
\* are due: a poll comes round although alert cycles come in between.
Fairness ==
  /\ WF_vars(TimePasses) /\ SF_vars(Poll)
  /\ WF_vars(CycleBegins) /\ WF_vars(CycleWrites)
FairSpec == Spec /\ Fairness

-----------------------------------------------------------------------------
(* Properties. *)

Raised(r) == r \in raised' \ raised

\* An alert is withdrawn only by a cycle that saw the service answer again.
\* For poller.breaker-open this rests on the size of the window alone: the
\* oldest of Window failures, Backoff apart, is just EscalateAfter old when the
\* newest comes in.  It holds once the window is filled with polls made under
\* the open breaker (see EscalationStays for what comes before).
WithdrawnOnRecovery ==
  [][\A r \in raised \ raised' : streak = <<>> \/ (r = BreakerOpen /\ failures < Settled)]_vars

\* A service that stays down is reported by both alerts in the end, and they
\* stay, whatever restarts came before.
OutageIsShown == <>[]~up => <>[](raised = Rules)

\* ... and neither survives its recovery.
RecoveryIsShown == <>[]up => <>[](raised = {})

\* types.ts: breakerOpenMs is the "ms since the breaker opened for this service,
\* or null if closed", and rules.ts: "the duration itself is the debounce"; so
\* the alert stays for as long as the breaker does.
EscalationStays == [][BreakerOpen \notin raised \ raised' \/ ~Tripped]_vars

\* rules.ts: service.down is "down for two consecutive polls".
DownForTwoPolls ==
  [][Raised(Down) => Len(streak) >= 2]_vars
=============================================================================
