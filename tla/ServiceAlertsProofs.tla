------------------------ MODULE ServiceAlertsProofs ------------------------
(***************************************************************************)
(* An alert of a polled service is withdrawn on recovery only, for every   *)
(* interval, back-off, breaker threshold and window of heartbeats in which *)
(* the window is large enough for the escalation.                          *)
(***************************************************************************)
EXTENDS ServiceAlerts, SequenceTheorems, TLAPS

\* The interval under an open breaker.
Slowed == Larger(Interval, Backoff)

\* The newest and the oldest heartbeat of a window of polls under an open breaker are
\* far enough apart to escalate.
WindowSuffices == (Window - 1) * Slowed >= EscalateAfter

TypesInv ==
  /\ up \in BOOLEAN /\ polled \in BOOLEAN
  /\ streak \in Seq(Nat) /\ Len(streak) <= Window
  /\ sincePoll \in Nat /\ failures \in Nat
  /\ raised \subseteq Rules

\* Polls under an open breaker are a back-off apart: the i-th newest failure is as many
\* back-offs older than the newest one, as far as ages are told apart, once the worker
\* has made i polls of which the last ones were slowed.
AgesInv ==
  /\ failures > 0 => polled
  /\ \A i \in 1 .. Window :
       failures >= Threshold + i - 1 =>
         /\ i <= Len(streak)
         /\ streak[i] >= Capped((i - 1) * Slowed + sincePoll, Old)

\* No heartbeat comes between a cycle's judgement and its end.
VerdictInv ==
  verdict # NoVerdict =>
    /\ Down \in verdict \/ streak = <<>>
    /\ BreakerOpen \in verdict \/ streak = <<>> \/ failures < Settled

OutageInv == TypesInv /\ AgesInv /\ VerdictInv

LEMMA Constants ==
  /\ Interval \in Nat \ {0} /\ Backoff \in Nat \ {0} /\ Threshold \in Nat \ {0} /\ Window \in Nat \ {0}
  /\ EscalateAfter \in Nat \ {0} /\ AlertEvery \in Nat \ {0} /\ Slack \in Nat /\ Threshold <= Window
  /\ Slowed \in Nat /\ Old \in Nat /\ Settled \in Nat /\ EscalateAfter <= Old
  /\ Settled = Threshold + Window - 1
<1>1. /\ Interval \in Nat \ {0} /\ Backoff \in Nat \ {0} /\ Threshold \in Nat \ {0} /\ Window \in Nat \ {0}
      /\ EscalateAfter \in Nat \ {0} /\ AlertEvery \in Nat \ {0} /\ Slack \in Nat /\ Threshold <= Window
  BY PositiveAssumption, BoundsAssumption, ThresholdAssumption
<1>. QED BY <1>1 DEF Slowed, Old, Larger, Settled

\* One more failure pushes the others back by one.
LEMMA GrownStreak ==
  ASSUME TypesInv
  PROVE  /\ Grown \in Seq(Nat)
         /\ Len(Grown) = Capped(Len(streak) + 1, Window)
         /\ Len(Grown) \in 1 .. Window
         /\ Grown[1] = 0
         /\ \A i \in 2 .. Len(Grown) : Grown[i] = streak[i - 1]
<1>. DEFINE s == <<0>> \o streak
            n == Capped(Len(streak) + 1, Window)
<1>1. /\ s \in Seq(Nat) /\ Len(s) = Len(streak) + 1
      /\ s[1] = 0
      /\ \A i \in 2 .. Len(streak) + 1 : s[i] = streak[i - 1]
  BY DEF TypesInv
<1>2. n \in 1 .. Window /\ n <= Len(s)
  BY <1>1, Constants DEF TypesInv, Capped
<1>3. Grown = SubSeq(s, 1, n) BY DEF Grown
<1>. HIDE DEF s, n
<1>4. SubSeq(s, 1, n) \in Seq(Nat) /\ Len(SubSeq(s, 1, n)) = n /\ \A i \in 1 .. n : SubSeq(s, 1, n)[i] = s[i]
  BY <1>1, <1>2, Constants
<1>. QED BY <1>1, <1>2, <1>3, <1>4, Constants DEF n, TypesInv

-----------------------------------------------------------------------------
(* The initial state and each step. *)

LEMMA OutageInitial == Init => OutageInv
<1>. SUFFICES ASSUME Init PROVE OutageInv OBVIOUS
<1>1. TypesInv
  <2>1. up = TRUE /\ streak = <<>> /\ sincePoll = 0 /\ failures = 0 /\ polled = FALSE /\ raised = {}
    BY DEF Init, Lifecycle!AInit
  <2>2. <<>> \in Seq(Nat) /\ Len(<<>>) <= Window BY Constants
  <2>. QED BY <2>1, <2>2 DEF TypesInv
<1>2. AgesInv BY Constants DEF Init, AgesInv
<1>3. VerdictInv BY DEF Init, VerdictInv, Lifecycle!AInit
<1>. QED BY <1>1, <1>2, <1>3 DEF OutageInv

\* A poll.
LEMMA PollStep ==
  ASSUME OutageInv, Poll
  PROVE  OutageInv'
<1>. USE DEF OutageInv
<1>1. TypesInv'
  <2>1. streak' \in Seq(Nat) /\ Len(streak') <= Window
    BY GrownStreak, Constants DEF Poll
  <2>2. failures' \in Nat BY Constants DEF Poll, Polled, Capped, TypesInv
  <2>. QED BY <2>1, <2>2 DEF Poll, Polled, alerting, TypesInv
<1>2. AgesInv'
  <2>1. CASE up
    <3>1. failures' = 0 BY <2>1 DEF Poll, Polled
    <3>. QED BY <3>1, Constants DEF AgesInv
  <2>2. CASE ~up
    <3>1. /\ failures' = Capped(failures + 1, Settled) /\ polled' = TRUE /\ sincePoll' = 0
          /\ streak' = Grown
      BY <2>2 DEF Poll, Polled
    <3>2. ASSUME NEW i \in 1 .. Window, failures' >= Threshold + i - 1
          PROVE  i <= Len(streak') /\ streak'[i] >= Capped((i - 1) * Slowed + sincePoll', Old)
      <4>1. CASE i = 1
        <5>1. streak'[i] = 0 /\ 1 <= Len(streak') BY <3>1, <4>1, GrownStreak, Constants
        <5>2. (i - 1) * Slowed + sincePoll' = 0 BY <3>1, <4>1, Constants
        <5>. QED BY <5>1, <5>2, <4>1, Constants DEF Capped
      <4>2. CASE i > 1
        <5>1. failures >= Threshold + (i - 1) - 1 /\ failures >= Threshold /\ i - 1 \in 1 .. Window
          BY <3>1, <3>2, <4>2, Constants DEF Capped, TypesInv
        <5>2. i - 1 <= Len(streak) /\ streak[i - 1] >= Capped(((i - 1) - 1) * Slowed + sincePoll, Old)
          BY <5>1 DEF AgesInv
        <5>3. sincePoll >= Slowed
          BY <5>1, Constants DEF Poll, Polled, IsDue, EffectiveInterval, Tripped, Slowed, AgesInv, TypesInv
        <5>4. i <= Len(Grown) /\ Grown[i] = streak[i - 1]
          <6>1. i <= Len(Grown) BY <5>2, <4>2, GrownStreak, Constants DEF Capped, TypesInv
          <6>. QED BY <6>1, <4>2, GrownStreak, Constants
        <5>5. (i - 1) * Slowed = ((i - 1) - 1) * Slowed + Slowed
          <6>1. \A k, b \in Int : k * b = (k - 1) * b + b OBVIOUS
          <6>. QED BY <6>1, Constants
        <5>6. ((i - 1) - 1) * Slowed \in Int /\ streak[i - 1] \in Int
          BY <4>2, <5>2, Constants DEF TypesInv
        <5>7. \A x, y, z, v \in Int : v >= Capped(x + y, Old) /\ y >= z => v >= Capped(x + z + 0, Old)
          BY Constants DEF Capped
        <5>8. streak[i - 1] >= Capped(((i - 1) - 1) * Slowed + Slowed + 0, Old)
          <6>. DEFINE x == ((i - 1) - 1) * Slowed
                      v == streak[i - 1]
          <6>1. x \in Int /\ v \in Int /\ sincePoll \in Int /\ Slowed \in Int /\ v >= Capped(x + sincePoll, Old) /\ sincePoll >= Slowed
            BY <5>2, <5>3, <5>6, Constants DEF TypesInv
          <6>. HIDE DEF x, v
          <6>2. v >= Capped(x + Slowed + 0, Old) BY <6>1, <5>7
          <6>. QED BY <6>2 DEF x, v
        <5>. QED BY <3>1, <5>4, <5>5, <5>8
      <4>. QED BY <4>1, <4>2, Constants
    <3>. QED BY <3>1, <3>2 DEF AgesInv
  <2>. QED BY <2>1, <2>2 DEF TypesInv
<1>3. VerdictInv' BY DEF Poll, Polled, alerting, VerdictInv
<1>. QED BY <1>1, <1>2, <1>3

\* The service changes, time passes, or the worker starts afresh.
LEMMA OtherStep ==
  ASSUME OutageInv, ServiceChanges \/ TimePasses \/ Restart
  PROVE  OutageInv' /\ raised' = raised
<1>. USE DEF OutageInv
<1>1. CASE ServiceChanges
  BY <1>1 DEF ServiceChanges, polling, alerting, TypesInv, AgesInv, VerdictInv
<1>2. CASE TimePasses
  <2>1. /\ streak' = [i \in 1 .. Len(streak) |-> Capped(streak[i] + 1, Old)]
        /\ sincePoll' = Capped(sincePoll + 1, Old)
        /\ UNCHANGED <<up, failures, polled, raised, verdict>>
    BY <1>2 DEF TimePasses, alerting, TypesInv
  <2>2. \A i \in 1 .. Len(streak) : Capped(streak[i] + 1, Old) \in Nat
    BY Constants DEF TypesInv, Capped
  <2>3. streak' \in Seq(Nat) /\ Len(streak') = Len(streak)
    BY <2>1, <2>2 DEF TypesInv
  <2>4. sincePoll' \in Nat BY <2>1, Constants DEF TypesInv, Capped
  <2>5. TypesInv' BY <2>1, <2>3, <2>4 DEF TypesInv
  <2>6. ASSUME NEW i \in 1 .. Window, failures' >= Threshold + i - 1
        PROVE  i <= Len(streak') /\ streak'[i] >= Capped((i - 1) * Slowed + sincePoll', Old)
    <3>1. i <= Len(streak) /\ streak[i] >= Capped((i - 1) * Slowed + sincePoll, Old)
      BY <2>1, <2>6 DEF AgesInv
    <3>2. streak'[i] = Capped(streak[i] + 1, Old) BY <2>1, <3>1, Constants DEF TypesInv
    <3>3. (i - 1) * Slowed \in Nat /\ streak[i] \in Nat BY <3>1, Constants DEF TypesInv
    <3>4. \A x, y, v \in Nat : v >= Capped(x + y, Old) => Capped(v + 1, Old) >= Capped(x + Capped(y + 1, Old), Old)
      BY Constants DEF Capped
    <3>5. Capped(streak[i] + 1, Old) >= Capped((i - 1) * Slowed + Capped(sincePoll + 1, Old), Old)
      <4>. DEFINE x == (i - 1) * Slowed
                  v == streak[i]
      <4>1. x \in Nat /\ v \in Nat /\ sincePoll \in Nat /\ v >= Capped(x + sincePoll, Old)
        BY <3>1, <3>3 DEF TypesInv
      <4>. HIDE DEF x, v
      <4>2. Capped(v + 1, Old) >= Capped(x + Capped(sincePoll + 1, Old), Old) BY <4>1, <3>4
      <4>. QED BY <4>2 DEF x, v
    <3>. QED BY <2>1, <2>3, <3>1, <3>2, <3>5
  <2>7. AgesInv' BY <2>1, <2>6 DEF AgesInv
  <2>8. VerdictInv'
    <3>1. streak = <<>> => streak' = <<>> BY <2>3 DEF TypesInv
    <3>. QED BY <3>1, <2>1 DEF VerdictInv
  <2>. QED BY <2>1, <2>5, <2>7, <2>8
<1>3. CASE Restart
  <2>1. failures' = 0 /\ verdict' = NoVerdict /\ UNCHANGED <<up, streak, sincePoll, raised>> /\ polled' = FALSE
    BY <1>3 DEF Restart, Lifecycle!Restart
  <2>2. TypesInv' BY <2>1 DEF TypesInv
  <2>3. \A i \in 1 .. Window : ~(0 >= Threshold + i - 1) BY Constants
  <2>4. AgesInv' BY <2>1, <2>3 DEF AgesInv
  <2>. QED BY <2>1, <2>2, <2>4 DEF VerdictInv
<1>. QED BY <1>1, <1>2, <1>3

\* A window full of slowed polls escalates: a judgement that leaves the breaker out saw
\* the service answer, or came before the window was full.
LEMMA JudgeStep ==
  ASSUME WindowSuffices, OutageInv, CycleBegins
  PROVE  OutageInv' /\ raised' = raised
<1>. USE DEF OutageInv
<1>1. /\ verdict' = Reports
      /\ UNCHANGED <<up, streak, sincePoll, failures, polled, raised>>
  BY DEF CycleBegins, Lifecycle!Judge, polling
<1>2. TypesInv' /\ AgesInv' BY <1>1 DEF TypesInv, AgesInv
<1>3. Down \in Reports \/ streak = <<>> BY DEF Reports, Rules
<1>4. ASSUME failures >= Settled PROVE BreakerOpen \in Reports
  <2>1. Window <= Len(streak) /\ streak[Window] >= Capped((Window - 1) * Slowed + sincePoll, Old)
    BY <1>4, Constants DEF AgesInv
  <2>2. Len(streak) = Window BY <2>1, Constants DEF TypesInv
  <2>3. streak[Window] \in Nat /\ (Window - 1) * Slowed \in Nat BY <2>2, Constants DEF TypesInv
  <2>4. \A x, y, v, e \in Nat : v >= Capped(x + y, Old) /\ x >= e /\ e <= Old => v >= e
    BY Constants DEF Capped
  <2>5. streak[Window] >= EscalateAfter
    <3>. DEFINE x == (Window - 1) * Slowed
                v == streak[Window]
    <3>1. x \in Nat /\ v \in Nat /\ sincePoll \in Nat /\ v >= Capped(x + sincePoll, Old) /\ x >= EscalateAfter
          /\ EscalateAfter \in Nat /\ EscalateAfter <= Old
      BY <2>1, <2>3, Constants DEF TypesInv, WindowSuffices
    <3>. HIDE DEF x, v
    <3>2. v >= EscalateAfter BY <3>1, <2>4
    <3>. QED BY <3>2 DEF v
  <2>6. BreakerOpenFor >= EscalateAfter BY <2>2, <2>5, Constants DEF BreakerOpenFor
  <2>. QED BY <2>6 DEF Reports, Rules
<1>5. VerdictInv' BY <1>1, <1>3, <1>4, Constants DEF VerdictInv, TypesInv
<1>. QED BY <1>1, <1>2, <1>5

\* The rest of the cycle, failing or not.
LEMMA CycleStep ==
  ASSUME OutageInv, CycleWrites \/ CycleFails
  PROVE  OutageInv' /\ (raised \subseteq raised' \/ (raised' = raised \cap verdict /\ verdict # NoVerdict))
<1>. USE DEF OutageInv
<1>1. UNCHANGED <<up, streak, sincePoll, failures, polled>>
  BY DEF CycleWrites, CycleFails, polling
<1>2. /\ verdict' \in {verdict, NoVerdict}
      /\ \/ \E r \in Rules : raised' = raised \cup {r}
         \/ raised' = raised
         \/ raised' = raised \cap verdict /\ verdict # NoVerdict
  BY DEF CycleWrites, CycleFails, Lifecycle!Raise, Lifecycle!RaiseAndAbandon, Lifecycle!Abandon, Lifecycle!Conclude
<1>3. TypesInv' BY <1>1, <1>2 DEF TypesInv
<1>4. AgesInv' BY <1>1 DEF AgesInv
<1>5. VerdictInv' BY <1>1, <1>2 DEF VerdictInv
<1>. QED BY <1>2, <1>3, <1>4, <1>5

-----------------------------------------------------------------------------
(* The theorem. *)

Withdrawals == \A r \in raised \ raised' : streak = <<>> \/ (r = BreakerOpen /\ failures < Settled)

LEMMA OutageStep ==
  ASSUME WindowSuffices, OutageInv, [Next]_vars
  PROVE  OutageInv' /\ Withdrawals
<1>1. CASE Poll
  <2>1. raised' = raised BY <1>1 DEF Poll, Polled, alerting
  <2>. QED BY <1>1, <2>1, PollStep DEF Withdrawals
<1>2. CASE CycleBegins BY <1>2, JudgeStep DEF Withdrawals
<1>3. CASE CycleWrites \/ CycleFails
  <2>1. OutageInv' /\ (raised \subseteq raised' \/ (raised' = raised \cap verdict /\ verdict # NoVerdict))
    BY <1>3, CycleStep
  <2>2. raised \subseteq {Down, BreakerOpen} BY DEF OutageInv, TypesInv, Rules
  <2>. QED BY <2>1, <2>2 DEF Withdrawals, OutageInv, VerdictInv
<1>4. CASE ServiceChanges \/ TimePasses \/ Restart BY <1>4, OtherStep DEF Withdrawals
<1>5. CASE UNCHANGED vars
  <2>1. UNCHANGED <<up, streak, sincePoll, failures, polled, raised, verdict>>
    BY <1>5 DEF vars, polling, alerting
  <2>. QED BY <2>1 DEF OutageInv, TypesInv, AgesInv, VerdictInv, Withdrawals
<1>. QED BY <1>1, <1>2, <1>3, <1>4, <1>5 DEF Next, Proceed

\* service.down is withdrawn only by a cycle that saw the service answer again, and so is
\* poller.breaker-open once the window is full of polls under the open breaker, through
\* restarts and failing cycles and for all intervals, if the window reaches as far back as
\* the escalation (the six heartbeats read in alerts/store.ts, with BREAKER_BACKOFF_MS
\* against breakerOpenMs of ALERT_THRESHOLDS).
THEOREM OutageIsNotForgotten == ASSUME WindowSuffices PROVE Spec => WithdrawnOnRecovery
<1>1. Init => OutageInv BY OutageInitial
<1>2. OutageInv /\ [Next]_vars => OutageInv' BY OutageStep
<1>3. OutageInv /\ [Next]_vars => [Withdrawals]_vars BY OutageStep
<1>. QED BY <1>1, <1>2, <1>3, PTL DEF Spec, WithdrawnOnRecovery, Withdrawals
=============================================================================
