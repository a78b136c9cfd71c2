# stack-dashboard: specifications, model checking and proofs

TLA+ modules of the stack-dashboard (a Next.js dashboard over Postgres, a poller
worker, and a Python node agent on the NAS), the TLC configurations that check
them, and TLAPS proofs about them. Source paths below are relative to `src/`
of the application (`src/src/...` in `PROJECT.json`) unless they start with
`agent/`, `public/`, `scripts/` or `deploy/`.

To run: `tlc -config X.cfg M` for the module M of a run, `tlapm M.tla` for each
of `AlertsProofs`, `PollerProofs`, `ServiceAlertsProofs`, `TelemetryProofs`,
`ActionsProofs`, `PeopleProofs`, `IngestionProofs`, `BrowserProofs`. `PROJECT.json`
lists the runs, the definitions of each module with the lines they translate,
the hazards, the findings and the theorems.

## 1. Inventory

Three processes share one Postgres database: the **web server**
(`server/entry.ts`: Next.js plus a UDP listener and a WebSocket), the **poller
worker** (`poller/index.ts`, under systemd with `Restart=on-failure`; the same
program with `--once` runs one cycle beside it), and on each machine a **node
agent** (`agent/nas_agent.py`) answering HTTP requests.

| Component | State | Operations | Interacts with |
|---|---|---|---|
| Poller loop, scheduler, breaker (`poller/index.ts`, `scheduler.ts`) | breaker and `nextEligible` per service, `lastLogPull`, `lastAlerts`, `lastRetention` (memory) | a pass: poll what is due, pull logs, run alerts, prune, sleep | every service by HTTP, all tables |
| Persistence (`poller/persist.ts`) | `service_status`, `snapshots`, `metrics` | three inserts per poll | read by alerts, panels, log pull |
| Alert engine, store, notifying store (`alerts/`) | streak map (memory), `alerts` table | cycle: evaluate, debounce, listOpen, open/refresh, push, resolve | heartbeats, snapshots, push |
| Alert rules (`alerts/rules.ts`) | thresholds | pure predicates | - |
| Alert queries and ack (`app/api/alerts`) | `alerts.acked` | list, count, acknowledge | alerts table, audit |
| Push (`lib/notifications`), service worker (`public/sw.js`) | subscriptions, preferences, VAPID configuration | subscribe, unsubscribe, fan-out with pruning | alerts, new media |
| New media (`poller/new-media.ts`, `clients/plex-recent.ts`) | seen set per section (memory) | diff a poll, notify | push |
| Service clients (`poller/clients/`) | none | a poll: one request it cannot do without, others it can | services, persistence |
| Log ingestion (`poller/logs.ts`) | `log_lines`, `log_cursors`, app buffer | journal, docker and app pulls; commit batch with cursor | agent, database |
| Retention (`poller/retention.ts`, `runLogRetention`) | all time-series tables | delete by age, collapse metrics, keep latest N snapshots, cap log size | concurrent with `--once` |
| UDP listener (`server/telemetry-listener.ts`) | latest NAS snapshot, machine map, `connected` | accept or drop a datagram, staleness timer, subscribe | agents' UDP, WebSocket |
| WebSocket (`server/telemetry-ws.ts`, `entry.ts`) | clients, `alive` flags | upgrade, push, ping, reap | listener, browsers |
| Browser provider (`components/telemetry`) | socket, back-off, live value | connect, message, reconnect; live or polled values | WebSocket, panels |
| Action dispatch (`actions/execute.ts`, `registry.ts`) | registry, audit rows | role, parameters, deny list, confirmation, execute, audit | executors, audit |
| Executors (`actions/services`) | none | HTTP calls; some are read-modify-write | services, agent |
| Node agent (`agent/`) | previous /proc sample, TTL caches | GET stats and logs, POST planned control actions | poller, executors |
| Sessions, login, limiter (`lib/session.ts`, `rate-limit.ts`, `app/login`) | `sessions`, `users`, hit lists (memory) | create, validate with renewal, destroy, disable user, throttle | every request |
| Panels (`lib/panels`) | none | assemble view models from heartbeats and snapshots | database |
| Action runner (`components/actions`) | pending dialog, `busy` (one tab) | run, confirm, cancel, post, take the answer | `/api/actions` |
| Log page (`components/logs`, `app/api/logs`) | rows shown, tail and older cursors (one tab) | filter, first page, tail, older page | `log_lines` |
| Panels, badge and alerts page in the browser (`components/panels`, `components/alerts`) | what was polled last, live values over it (one tab) | mount, poll, take an answer, acknowledge, refresh | panel routes, `/api/alerts`, browser provider |
| Settings, secrets, other UI, schema, workflow validators, deployment | configuration only | stateless or read-only | - |

What is hard, and the properties that make each part correct:

* **Alerts.** A cycle awaits the database before and between its writes, and
  any call can fail, commit without an answer, or never return because the
  process died; a user acknowledges at any time; `--once` runs a second engine
  on the same table. Correct means: an alert is raised exactly for a condition
  seen in enough consecutive evaluations, once, pushed once, kept until a cycle
  judged it clear, and in the end the table agrees with the world.
* **Poller.** One sequential loop with a time captured at the top of a pass;
  polls that hang; breakers lost on restart; jobs that share the loop. Correct
  means: a failing service is never asked sooner than its back-off, none is
  starved, and what the alerts infer from the heartbeats agrees with the breaker.
* **Heartbeats to alerts.** Three clocks (poll interval or back-off, alert
  cycle, escalation time) and a window of six rows. Correct means: an outage is
  reported and stays reported until the service answers.
* **Telemetry.** Loss, duplication, reordering, daemon restarts, clock skew,
  reconnecting browsers. Correct means: never an older state after a newer one
  of the same run, a stale feed is shown as such, a live one as live in the end.
* **Logs and retention.** Cursors and crashes: each line stored exactly once,
  no coarse bucket counted twice, the newest rows never deleted.
* **Actions.** Gates before effects, an audit row for each attempt, executors
  that stop half way. **Accounts.** A disabled user or a destroyed session is
  never served again. **Push.** A live subscription is never pruned.

* **Readings.** A heartbeat and its snapshots are two statements, a poll can
  fail, hang or half succeed. Correct means: no alarm, machine or governor is
  shown on data older than its window.
* **Browser.** Dialogs and answers overtake each other, lines arrive while pages
  load, timers poll on while requests hang. Correct means: one confirmed action
  at a time, no line missing between two that are shown, nothing shown older
  than its interval while its polls are answered in time or the feed laid over
  them is heard, no acknowledgement taken back.
* **Agent.** A thread per request over one sampler and nested caches. Correct
  means: rates over time that passed, values no older than their cache says, no
  two threads waiting for each other.

`PROJECT.json` lists the hazards one by one with their lines and the properties
that are for them.

## 2. Plan

1. `AlertLifecycle` (what the engine promises), `Alerts` (how it keeps it),
   `AlertsProofs`. Done.
2. `Poller` (loop and breaker), `ServiceAlerts` (heartbeats, window, rules, on
   top of `AlertLifecycle`), `PollerProofs`, `ServiceAlertsProofs`. Done.
3. `Telemetry` (listener over a lossy channel, WebSocket fan-out, a reconnecting
   browser), `TelemetryProofs`. Done.
4. `LogPull`: journal cursor, docker watermark, batches, crashes;
   `Retention`, `Readings`, and `NodeAgent` (sampler and caches). Done,
   `IngestionProofs` for the four.
5. `Push`: fan-out against enabling, renewal, unsubscribing, preferences;
   `NewMedia`; `Accounts` and `LoginLimit`. Done, `PeopleProofs` for the four.
6. `Actions` (dispatch, executors, the agent's planner). Done, `ActionsProofs`.
7. `Runner`, `LogViewer`, `Pages` in the browser. Done, `BrowserProofs`.
8. `StackDashboard` puts the parts of 4 to 7 under one specification. Done; that
   the parts keep in it what is proved of them alone is in `BrowserProofs`.

What is left: the job sequence of `runOnce`; the thresholds of the two rules
that are left out (`auth.ssh-burst`, `tls.cert-expiry`); the workflow validators
as pure operators against reference definitions. No safety property that a run
checks lacks its theorem; liveness is TLC's.

## 3. Modules

### AlertLifecycle and Alerts

`AlertLifecycle` is the contract read off `alerts/engine.ts` and the /alerts
page: per (rule, target) key an alert is raised or not; `Judge` is one
evaluation of all keys, `Raise` needs as many consecutive judgements as the
rule has strikes, `Conclude` withdraws exactly what was judged clear, `Abandon`
and `RaiseAndAbandon` are failing cycles, `Restart` forgets counts but no alert.

`Alerts` is the engine with its stores. One worker's cycle is cut at its awaits:

| Action | Code |
|---|---|
| `TickBegin` | `assembleRuleInput` returned; `tick` up to its first await: evaluate, skip throwing rules, advance streaks |
| `ListOpen` | `listOpen` returned; `openByKey` is built, which of several rows of a key it keeps is a choice |
| `Refresh`, `OpenAlert` | one iteration of the open/refresh loop, in any order |
| `PushDone` | `sendPush` after the insert, sent or thrown and caught |
| `Resolve` | the single UPDATE over the listed rows whose key was clear; end of the cycle |
| `DatabaseFails`, `InsertUnanswered` | a call throws, before or after it took effect; `runAlertsSafe` drops the cycle |
| `Crash` | the process dies anywhere; the streaks are gone |
| `AckAlert` | `ackAlert`: an UPDATE guarded by "not resolved" |
| `WorldChanges`, `RuleBreaks` | the data the rules read |

`Loop` is the systemd worker, `OneShots` are `--once` workers, whose engine
ends with the cycle. `lived` is a history variable (the last evaluations of
each worker), read by properties only. `failures` and `crashes` only count
towards the bounds. A resolved row is dropped, as nothing reads it back; ids
are then reused, but never one that a running cycle still holds.

### Poller

One action per await of `runLoop`. Time is a set of ages, and the awaits are of
two kinds. Those that a timer ends (`TimeLeft`): the tick, systemd's
`RestartSec`, `withTimeout` around a poll, and `httpFetch` in a log pull. And
those that nothing ends (`Untimed`): every statement on the database, which
includes `loadServiceConfig` before each poll, and every push, that of new
titles after the poll of plex-recent (`Announcer`) and that of alerts in the
alert cycle, since `webpush.sendNotification` is called without a timeout. They
may last for ever. The runs let `MaxHung` units of time pass in them; the
theorems hold for any bound.

| Action | Code |
|---|---|
| `PassBegins`, `Sleep` | the top of the loop and the tick |
| `TurnComes` | a due service: `pollOnce` calls `loadServiceConfig` |
| `NotConfigured`, `BeginPoll` | it returned nothing, or a configuration; plex-recent loads its own inside `poll`, so under the timeout |
| `PollEnds`, `PollTimesOut` | the race in `withTimeout`; the calls of an abandoned poll go on (`tail`) |
| `Persist`, `Record` | `persistOutcome`; the pushes of new titles, if any, are over and the breaker takes the outcome in |
| `BeginJob`, `AgentAnswers`, `JobEnds` | log pull, alerts, retention; the log pull asks the agent before it writes |
| `Crash` | every uncaught error (`loadServiceConfig`, `persistOutcome`, `runRetention`), and a kill |

The agenda `todo` of a pass is computed at its beginning, since dueness uses the
`now` captured there and no service or job occurs twice in a pass. `rows` is
what the database has: the length of the latest run of failed heartbeats.
`timed` is a history: the ages, counting only time that passed in awaits that
something ends. What a pass can take of that at most (`LongestPass`) is a tick
and as many units of time as its steps have together (`Units`).

### ServiceAlerts

One service through the parts above: heartbeats with their ages, the window of
six read back by `assembleRuleInput` (lines 105-145), the rules `service.down`
and `poller.breaker-open`, and the alerts as an instance of `AlertLifecycle`.
It stands on `Poller` for when polls come (not before the effective interval,
not later than `Slack` after it) and on `Alerts` for the engine. `Settled` is
the number of consecutive failures after which the window holds only polls made
under the open breaker.

### Telemetry

`server/telemetry-listener.ts`, `server/telemetry-ws.ts` and
`components/telemetry/telemetry-provider.tsx` in one module, since what a tab
shows depends on all three. A datagram is reduced to feed, daemon run and
sequence number; a later `sent_ts` is a later (run, seq). A tick is 500 ms.

| Action | Code |
|---|---|
| `Send`, `Lose`, `DaemonRestarts` | the agents and the network (external) |
| `Ingest` | `ingest`: `shouldAccept`, then `Take` (store, `emit`) or `Refuse`; the datagram may stay and arrive again |
| `Tick`, `CheckStale` | 500 ms pass; the `setInterval` callback marks every feed older than its window and emits if any changed |
| `Emit` | the subscription of `telemetry-ws.ts`: one frame with the whole state per client |
| `Accept` | the `connection` handler: register, send the current state |
| `Heartbeat`, `Pong` | the ping timer: terminate who did not answer, ping the others |
| `CutOff` | a connection that dies with neither end told |
| `BrowserOpen`, `BrowserMessage`, `ConnectFails`, `ConnectionLost`, `ReconnectTimer` | the callbacks of `connect`, `onDown` and the back-off |
| `Mount`, `Dispose`, `ServerRestarts` | the effect and its cleanup; the web server restarts |

`ignored` is a history variable: the datagrams later than the held one that
were refused since it was taken. Ages saturate just above the window. Two things
the module makes explicit and that are limits of the design, not findings:

* A tab has no heartbeat of its own. On a connection that died without a close
  frame it keeps its last value, live or not, until its own TCP stack reports
  the loss, so the properties about tabs except the `cut` ones.
* A daemon that restarts early in a run is not recognised by its sequence
  number. `IgnoredAtMost` says what the code does guarantee: at most
  `RUN_RESET_SEQ_DROP + 1` later datagrams of one run are refused, which is
  about eight minutes at two per second. The feed is shown as disconnected for
  that time (`SilenceShown`).

### LogPull

`poller/logs.ts` against the agent's log endpoints. A worker (`Pullers`: the
loop, and `--once`) takes its sources one after the other: `PullBegins`,
`LoadCursor`, `PullJournal` or `PullDocker` (the agent's answer), `CommitBatch`
(lines and cursor in one transaction); `TaskFails` and `PullerDies` may fall
between any two. A line is its number in its source. The journal answers the
lines after a cursor, docker those since a second, to which the worker adds a
watermark in milliseconds. `emitted` counts the lines of all sources, which is
what bounds them. `shared`, `from`, `tailed` and `marks` are histories:
sources two workers pulled at once, where a first pull begins, what `tail` cut
off, what fell into the millisecond of a watermark.

### Retention

The statements of `poller/retention.ts` and `runLogRetention` against workers
that insert. No statement touches two tables, so a behaviour follows one
(`table`): heartbeats (`Expire`), metrics (`RawToHours` and `HoursToDays`, a
row being the set of samples it averages), snapshots (`ReadNewest`, then
`DeleteRest`), log lines (`PruneLogsByAge`, `CountLogs`, `FindCutoff`,
`PruneLogsBySize`). `disk` is the size Postgres reports, which only grows.

### NewMedia, Readings

`NewMedia` follows one library section: its shelf changes, a poll fetches the
newest (`FetchSection`, or `SectionBlank` when the section's request fails),
`Detect` compares with the seen set, `Announce` pushes, `MediaRestart` forgets.
The shelf has each title's `addedAt`; the newest are the titles with fewer than
`Top` later ones, in no order, and so is what waits to be pushed.

`Readings` follows one kind of snapshot of one service from the request to what
alert rules and panels make of it: a client is the request it must have and
those it may miss (`Clients`), a payload the symptom it tells of. `PollAsks`,
`MainAnswers`, `MoreAnswers` (or their failures, or `PollRunsOut`),
`HeartbeatInserted` and `SnapshotsInserted` are the awaits: what a client must
have waits for what it may miss, and an error blanks a kind or leaves it out, as
each client does. `AgentForRules`, `SmartForRules`, `MachineOnline` and
`GovernorRunning` read the tables; `Panels` has, for each panel builder of
`lib/panels/assemble.ts`, the snapshots it puts together and the services whose
heartbeats it shows as up. `torn` is a history: the worker died between its
newest heartbeat and the row. Three things it leaves alone: between the two
inserts of one outcome a panel can read the new heartbeat with the old snapshot;
`smart` and `governor` come with an agent's poll that succeeded without them, so
a panel that shows the agent as up says nothing of their age (the drive rule and
`GovernorRunning` have their own clauses); and `deriveAlertCount`
(`assemble.ts:89-101`), a number on the overview, reads the agent's newest
snapshot however old.

### Accounts, LoginLimit

`Accounts` follows the sessions of one user, requests of several browsers
interleaved at every await: `LoginAsks`, `ReadUser`, `CreateSession`;
`RequestAsks`, `SelectSession`, then `DeleteDead` or `Renew`, then a page, a
logout (`DestroySession`) or a change of password (`UpdatePassword`,
`PruneSessions`). An administrator disables and enables the user meanwhile, and
any statement may fail. `LoginLimit` is `check` of `lib/rate-limit.ts` for one
address; the hits kept are a set, each with the number of its call, since two
calls may fall into one millisecond.

### Actions

The registry is the forty actions as the services register them, each with its
role, blast radius, gate at the agent and the sequence of calls of its executor
(`do`, `read` and `put`, `try`, `walk` for the stepped limit). `Dispatch` walks
the gates of `actions/execute.ts` in their order; `AgentPlans` is the agent's
own gate. A call may be refused, or take effect and lose its answer
(`AnswerLost`); `Audit` and `AuditFails` are the insert that follows, `again`
the second attempt when the first insert throws. `did` and `before` are
histories: what a job has done, and what it found if nobody wrote beside it.

### Push

`EnablePush`, `EndpointChanges`, `Unsubscribe` and `SetUserPreferences` run
beside the fan-out of the worker (`SendPush`) and a test push of the server
(`SendPushToUser`), which reads preferences, delivers and prunes in steps
(`ReadPreferences`, `Takes`, `Deliver`, `Prune`). Subscribing at the push
service and inserting the row are one step of `EnablePush`: until the row is
there nothing is delivered to the endpoint and nothing can prune it.

### Runner, LogViewer, Pages

`Runner` is the context of one tab: `RunSafe` and `RunGated` for a button or
the palette, `TypeConfirm`, `Cancel`, `Execute`, and answers and rejected
fetches in any order. `LogViewer` is the log page: a request is read by the
server (`RunLogQuery`) and arrives later (`FirstArrives`, `TailArrives`,
`OlderArrives`), in any order, while the worker stores lines whose time may be
older than what is stored. A page is the set of lines that the limit lets through
(`Selected`), put in the order of the query.

`Pages` follows one view of one tab: a panel, the badge or the alerts page, which
differ in whether their first data come with the page and in the live values
laid over what they poll (`Views`). `Refetch` is the timer, which waits for no
answer; the server reads (`GetAnswers`) and the answer is taken in later
(`ListArrives`), in any order, or never (`FetchFails`). `Ack`, `PostAcks` and
`AckArrives` are an acknowledgement with the refresh that follows. `FeedFrame`,
`FeedCutOff` and `FeedEnds` are what the provider of `Telemetry` does to the
context: a feed that is heard renews its slice or is said to be silent, one
whose connection is cut off stays live with the slice it has. What is shown is
known by the time at which the server, or the feed, had it: `PolledAt` for what
comes with polls alone, `OverlaidAt` for what live values are laid over.
`behind`, `toldAt` and `misled` are histories.

### NodeAgent

A thread per request. `ReadCounters` and `SwapSample` are the sampler, which
stamps before it reads and swaps at the end; `GetBegins`, `ComputeEnds`,
`ComputeRaises` are a `TimedCache` that holds its lock while it computes. Locks
are held as a sequence, innermost first, since what computes `/docker` asks the
cache of containers. A thread is a record (`ThreadType`) with what it has read,
the locks it holds and what it will answer.

### StackDashboard

EXTENDS these twelve parts. At run time they all go on at once, but none of
their variables is read by another part: what they have in common is modelled
in `Alerts`, `ServiceAlerts` and `Poller`, or on both sides where they meet (the
agent's log answers in `LogPull`, its planner in `Actions`). A product of them
would multiply states without adding an interleaving that any property could
tell apart. So `focus` names the part a behaviour follows, and the others stay
in an initial state. It is not a composition of interacting parts and claims
nothing about their interaction.

## 4. Runs

| Run | Instance | What it shows |
|---|---|---|
| `alerts` | rules `down` (2 strikes, push) and `cert` (1, no push), one target, one failing call, one restart, 3 ids | all seven properties, with refinement and liveness; 85 600 states |
| `alerts_once` | one rule of one strike, loop and one `--once` worker, 4 ids | what survives a concurrent worker: push once, convergence. (At most one open row per key does not: both workers may insert.) |
| `poller` | a service faster and one slower than the back-off, the slow one optional and the one whose titles are pushed, two jobs, two units of time in untimed awaits, one restart | pacing, no pile-up, punctuality, breaker against heartbeats, every service again and again unless one untimed await lasts for ever; 1 241 681 states |
| `poller_log_storm` | the same | violation: log pulls ignore the breaker |
| `service_alerts` | the code's numbers in units of 15 s (interval 30 s, back-off 60 s, window 6, escalation 300 s), slack 15 s, one fault | withdrawal only on recovery, outage and recovery are shown |
| `service_alerts_flap` | the same, no fault | violation: the breaker alert is withdrawn during the outage |
| `service_down_one_poll` | the same, no fault | violation: one failed poll suffices |
| `telemetry` | one feed, one tab, two daemon runs of two datagrams, both in flight at once, one break | the safety of the listener, agreement of tabs with it, silence reaching the tab, reconnection; 384 826 states |
| `stack` | the twelve parts of `StackDashboard`, each with small bounds of its own | the table below; 1 128 837 states |
| `smart_rule_silent` | `Readings` alone | violation: the drive rule never sees a drive |
| `sliding_expiry` | `Accounts` alone | violation: the cookie of an extended session expires |
| `new_media_again` | `NewMedia` alone | violation: after one failed section feed, titles that were told are told again |

What `stack` checks, part by part (`PartsTypes` is the type invariant of all):

| Property | Part | Says |
|---|---|---|
| `EachLineOnce` | `LogPull` | no line is stored twice, and no cursor passes a line that is not stored, with the exceptions the code has |
| `EveryLineStored` | `LogPull` | again and again everything written to a journal is stored |
| `NothingKeptIsLost` | `Retention` | a sample is in one row, never in two, until its time is over; a snapshot goes only when Keep newer ones exist |
| `ToldOnceWhileListed` | `NewMedia` | no new title is skipped, none that stayed listed is told again |
| `NothingStaleShown` | `Readings` | no alarm, machine or governor outlives its window; a panel that shows a service as up shows what that very poll told |
| `SessionsEnd` | `Accounts` | what ended stays ended; old passwords keep no session |
| `LimiterExact` | `LoginLimit` | allowed iff fewer than the limit were allowed in the window |
| `Accounted` | `Actions` | effects passed every gate; the audit row does not contradict them |
| `AloneIsExact` | `Actions` | a job nobody wrote beside leaves exactly what was asked |
| `OneAtATime` | `Runner` | at most one confirmed action is under way in a tab |
| `PushReaches` | `Push` | a living subscription is spared; only who wanted it is pushed to |
| `PagesTellTrue` | `LogViewer` | `NoHoles`: nothing is missing between two lines shown, with the code's exceptions |
| | `Pages` | `PageKeepsUp`: nothing polled is shown older than an interval and a request while polls are answered in time, nor anything that live values are laid over while the feed is heard; an acknowledged alert is shown as open only after a list that was read before, and until the next one |
| `AgentTellsTrue` | `NodeAgent` | rates over time that passed, cached values in time, locks without a cycle |

**Bounds.** Two keys are enough for a failure to hit one key and starve the
other, and for strikes of one and of more than one; a third id lets a key be
re-opened while an older id is still held. One failure and one restart per
behaviour can fall at every await, before or after one another; what a second
one could add is covered by the theorems, which hold for every number. In `poller`
the times are small but keep the order that matters: poll timeout and log pull
interval below the back-off, one interval below and one above it, `PollTail`
equal to the back-off, its worst case; a breaker trips at the second failure. `service_alerts` uses the real ratios. In
`telemetry` a reset threshold of 0 with two sequence numbers yields every
outcome of `shouldAccept` (higher, equal, lower by no more than the threshold,
lower by more), two datagrams in flight yield every reordering across a restart
of the daemon, two frames per pipe a change behind a frame under way, and the
back-off reaches its cap at once. One break may be a cut, a lost connection or
a restart of the server. The theorems cover the numbers that TLC does not.

In `stack`: two workers and two kinds of source let a pull overlap another at
every step, three lines with one of them blank and a window of one make every
batch a partial one; a day of two hours and three writes reach both collapses of
one sample with an insert between; three titles over a window of two let one
fall out and return; a stale window of two, a poll of one and a clock of four
let data grow stale during a poll. Two sessions in two browsers, one setting,
a TTL of four and a clock of four let each end of a session fall between the read
and the write of the other's request: a session past half of its time is renewed
at 3, and what was logged out, pruned, disabled or expired at 4 meets a late UPDATE. The four actions of `Offered` are the kinds of executor:
stepped, read-modify-write, behind the agent and taken on trust, destructive;
two jobs and two faults suffice for one to write beside the other while an
answer or an audit insert fails. Two endpoints on one device and two people are
a renewal and a second user. Pages of one line over three lines and two requests
under way are every overtaking there is. In `Pages` a request is in time if it is
answered within its tick, which is the interval: three ticks then let a late
answer overtake three polls, an acknowledgement be overtaken by a list and put
right by the next, and the last frame of a feed that ended grow too old. Two threads and the pair of caches that
nest are the one way locks could form a cycle. `MCStack.cfg` says
`CHECK_DEADLOCK FALSE`, and so do the two violation configurations beside it,
because a part comes to rest when its bounds are used up.

**Fairness.** Timers and HTTP calls are bounded, statements and pushes are not,
and the fairness follows that line. In `Poller` the steps of the loop that a
timer or the loop itself brings about (`Prompt`) and the passage of time are
weakly fair; nothing that waits for the database or for a push is
(`InItsOwnTime`), so the property has to say what then happens:
`AlwaysPolledAgain` holds unless one such await lasts for ever (`<>[]Untimed`).
In `Alerts` only the call of the next cycle (`TickBegin(Loop)`) is weakly fair;
its two liveness properties hold unless the loop stays for ever in one await of
a cycle (`LoopHangs`). `ServiceAlerts` and the loop's pull in `LogPull` are
fair throughout: their promise is about a worker whose statements, pushes and
calls end, and the other two say that there is no other way for it to stop.
Nothing makes a service answer (a poll ends by timeout), a user
acknowledge, a rule recover or a `--once` worker start. In `ServiceAlerts` a
due poll is strongly fair, because alert cycles disable it for a moment and
every pass polls what is due before it evaluates alerts. In `Telemetry` timers
and the events of a live connection are weakly fair and the handshake is
strongly fair, because it is disabled while the tab waits between attempts: a
server that is up answers one of them. Nothing makes a daemon send, a network
lose or deliver, a connection break, a heartbeat fall or a user act. In `stack`
only the loop's pull (`LoopPulls`) is weakly fair: `runLoop` calls it again for
ever and catches what it throws. The agent need not answer well: calls may fail
as often as the bound allows.

## 5. Findings

* The log pull is not behind the breaker (`poller_log_storm`), against
  `poller/scheduler.ts:8-11`.
* `poller.breaker-open` flaps at the beginning of an outage
  (`service_alerts_flap`): for a service polled every 30 s that fails fast, the
  sixth failure makes the first one 300 s old just before the seventh poll pushes it out of the
  window, after which the oldest is about 275 s old. A cycle in that gap opens
  and pushes the alert, the next one resolves it, and a second alert follows.
* `service.down` means two alert cycles, not two polls
  (`service_down_one_poll`).
* The drive rule is silent (`smart_rule_silent`): the snapshot is an object
  `{drives: [...]}`, `alerts/store.ts:152` hands it on as if it were the list, the
  rule's loop throws, and a rule that throws is skipped in every cycle.
* New titles are told again (`new_media_again`): `poller/index.ts:42` says that a
  new title only notifies once. When one section's feed fails, the poll is a
  success with an empty section, which replaces the seen set, and the next good
  poll announces its newest again, by the same process.
* Sliding expiry ends with the cookie (`sliding_expiry`): `session.ts:38` gives
  the cookie one fixed lifetime, and only the row is extended later.

Observed while modelling, without a run of their own, since no doc promises the
opposite or the consequence is small:

* Log retention: the size that is compared with the cap is
  `pg_total_relation_size`, which a DELETE does not shrink, so once the cap has
  been reached, lines are cut at every hourly run (`disk` in
  `Retention`). `retention.ts:119` announces hour to day first; the code
  collapses raw to hour first. An error of `runRetention` is not caught by the
  loop: if it keeps failing, the worker dies at the end of its first pass each
  time, after one alert cycle, and no rule of two strikes ever opens an alert. (The
  runs bound the restarts, so none of them shows it.)
* Log pull: docker lines that arrive later in the millisecond of the watermark
  are dropped, `tail=1000` cuts a longer burst, and the first pull of a container
  looks back 300 s only (`marks`, `tailed`, `from`).
* Poller: `clients/http.ts` says that a hung service can never wedge the poll loop,
  and none can. One push endpoint that takes the connection and never answers
  can: `notifications/send.ts:52` awaits `sendNotification` without a timeout, and the loop
  awaits that, for new titles and for alerts.
* New media: a title that drops out of the newest and comes back is told again,
  too (`listed` ends with either).
* Readings: `tdarr.node` judges the newest snapshot whatever its age, so does
  the count of alerts in the overview's strip, and no caller fills in what `tls.cert-expiry` reads.
* Node agent: two `/proc` samples that overlap may swap in the wrong order and
  yield rates over no time or negative ones (`beside`); a `TimedCache` whose
  function raises computes again at the next request within its TTL.
* Accounts: re-enabling a user revives the sessions that no request met while he
  was disabled; two administrators can disable each other.
* Actions: a rejected parameter set leaves no audit row, although
  `execute.ts:29` speaks of every attempt; when the audit insert of a successful
  action fails, the answer and the second row say "error"; a systemd action is
  audited "ok" when the command failed, since the agent answers with its output
  either way (`OnTrust`); two administrators who step or patch the same thing at
  once overwrite each other (`AloneIsExact` excludes them).
* Runner: a rejected fetch leaves `busy` set until a reload; the answer to one
  action closes the dialog opened for another.
* Push: two users of one browser are both subscribed with its endpoint, so each
  event is shown twice there; disabled users are still pushed to.
* Log page: an answer to an earlier filter is taken in, overlapping tails repeat
  rows, and a line older than the newest shown never comes by the tail (`mixed`,
  `late`, `cut` are the exceptions `NoHoles` makes).
* Telemetry in the browser: a connection that dies without a close frame leaves
  `live` set until the browser notices, as the provider has no heartbeat, and
  `governor-merge.ts` and `downloads-merge.ts` prefer the old slice to fresh polls all that
  time (`FeedCutOff`; the governor card does tell the slice's age).
  `useMachineTelemetry(...).live` is read off the last frame alone and outlives its
  socket; no panel calls that hook.
* Pages: a panel whose fetches fail goes on showing the last good data with no
  sign of the error, which `use-panel-data.ts:8` says is surfaced beside it; a late
  answer replaces a newer one; when the feed ends, a panel steps back to what
  it polled before; a list that was read before an acknowledgement shows the
  alert as open again until the next list (`misled`).

## 6. Proofs

Every invariant and every safety action property that a passing run checks is a
theorem here. The argument is always the same: an inductive invariant that says
what is true *between* the steps, a lemma for each action or group of actions, and
a last step that yields the property. The names of the invariants are those of
the modules.

`AlertsProofs` proves, for every set of rules, targets, workers and ids, every
strike count and every number of failures and deaths:

* `TypeCorrect`: `Spec => []TypeOK`. `TypeOK` is inductive as it stands.
* `OpensOnlyEarned`: `Spec => OpensEarned`. The capped counter of a key must
  stand for that many latest evaluations of the worker (`Earned`, first
  conjunct), and the keys left to write must still have full counters, which
  holds because counters move only when a cycle begins (second and third
  conjunct). `EarnedInv` with `TypeOK` is inductive; `WhoOpens` shows that a row
  appears only for a key some worker has left to write.

* `NeverPushedTwice`: `Spec => []PushedOnce`, for any number of workers. Between
  the INSERT and the answer of the push service a worker holds an id; `Holding`
  says that the id is its own, and that its row, if it is still there, has a
  rule with an event type and no push yet. Without it a second push of the same
  row could not be excluded.
* `AcknowledgementHolds`: `Spec => AckHolds`, from the types alone: the writes of
  a cycle that was under way when the user clicked leave the column alone.

Two more theorems of `AlertsProofs` assume that the loop is the only worker
(`OneShots = {}`; with a `--once` worker both are false, which is why
`MCAlertsOnce` does not check them):

* `NeverTwoOpen`: `Spec => []AtMostOneOpen`. `KnowsRows` relates what the loop
  listed to the table while it writes: a listed row is still the row of its key,
  and a key without a listed row has a row only if this cycle opened it. With
  `AtMostOneOpen` and the bound of a streak by its own rule's strikes
  (`CappedInv`) it is inductive.
* `LoopKeepsPromise`: `Spec => KeepsPromise`, the refinement of `AlertLifecycle`
  that `MCAlerts` checks: `JudgeMapped`, `RaiseMapped`, `ConcludeMapped`,
  `AbandonMapped`, `RaiseAndAbandonMapped` and `RestartMapped` map one step each,
  every other step stutters (`Unseen`).

`TelemetryProofs` proves, for every number of feeds, tabs, restarts and
datagrams, every window and every reset threshold:

* `SilenceIsShown`: `Spec => []SilenceShown`. The bound by itself is not
  inductive, since a tick ages every snapshot: `ListenerInv` adds that a
  snapshot marked connected is within its window once the timer has run in this
  tick, and the timer must have run before the next one.
* `NoStepBack`: `Spec => NeverStepsBack`, from the types: the steps that change
  a snapshot are `Ingest`, whose reset clause needs a later datagram, so that
  within a run only a higher number is left (`AcceptedGoesOn`), the ageing and
  the marking, which keep the number, and a restart, which forgets it.
* `NotIgnoredForLong`: `Spec => []IgnoredAtMost`. `RefusedInv` says where the
  refused datagrams lie: their numbers are between the held one less
  `ResetDrop` and the held one, so there are at most `ResetDrop + 1` in a run
  (`NearEnough`).

* `TabsCatchUp`: `Spec => []TabsAgree`, and `NoLiveWithoutSocket`:
  `Spec => []LiveNeedsSocket`. `TabsAgree` speaks of an empty pipe only;
  `ConnInv` says what is true of a full one: the last frame of a working tab's
  pipe is the state of the listener, and with an empty pipe so is what the tab
  has. Every emission appends to every pipe, and connecting sends the state
  first, so no step leaves an older last frame.
* `TelemetryTypes`: `Spec => []TypeOK`, from the types in these invariants and
  those of the refused datagrams.

`PollerProofs` proves, for every number of services, jobs and deaths and all
times:

* `PollerTypes`: `Spec => []TypeOK`.
* `BreakersAreShown`: `Spec => []BreakerIsVisible`. `BreakerInv` says by how much
  the heartbeats on record are ahead of the breaker's count: by one between the
  two writes of an outcome, otherwise they are at least as many. A crash resets
  the count and leaves the rows.
* `NeverTooSoon`: `Spec => NeverHurried`. `PaceInv`: whatever is left on the
  agenda of a pass is due now, since ages only grow during the pass; so a poll
  that begins late in a pass is judged by an old `now` and is still not early.
* `TimeoutsDoNotPileUp`: `Spec => NoPileUp`. `TailInv`: what is left of the
  calls of an abandoned poll and the time since its end are together at most
  `PollTail`, and `PollTail` is at most a back-off (`TailAssumption`), so nothing
  is left when the service is due again under a tripped breaker.
* `NothingStarves`: `Spec => []Punctual`. The ages alone are not inductive, since
  the step that is due may be the last of a long agenda. It speaks of time in awaits that something ends
  (`timed`), and assumes nothing of the others: a statement or a push may last for
  ever. `LateInv` adds to each
  such age what the pass can still take (`Left`: the units of the steps on the agenda,
  less what the present one has used), and that sum stays below the limit: a
  step taken off the agenda frees its units, time that passes moves from one
  summand to the other, and a new pass begins only when nothing is left. A service
  that becomes due during a pass waits for the next one, and there for its turn:
  it is late by one pass until it is on the agenda (`Limit`), and by two at most.
  `AwaitInv` bounds each await. The sum over the steps is the cardinality of a
  disjoint union, so the theorem needs no recursion.

`ServiceAlertsProofs`: `OutageIsNotForgotten`, `Spec => WithdrawnOnRecovery`, for
every interval, back-off, threshold and window that satisfy one hypothesis,
`WindowSuffices`: the newest and the oldest of a window of heartbeats that are a
back-off (or the interval, if longer) apart span the time to escalate. The code
meets it with nothing to spare: (6 - 1) * 60 s = 5 min. One heartbeat less in
the window, or a shorter back-off, and `poller.breaker-open` would resolve itself
in the middle of a long outage. `AgesInv` is the point: after so many failures
the i-th newest heartbeat is at least i - 1 back-offs older than the newest.
`VerdictInv` says that what a cycle judged is not overtaken by a heartbeat.

`ActionsProofs`, for any number of jobs, faults and deaths:

* `EffectsAccounted`: `ActionSpec => []Accounted`. `JobsInv` gives each job the
  history its position implies: a job that runs passed the gates, and so did one
  that did anything; the calls before `next` that change something are done; a
  job that is over has an audit row that fits, or two failed inserts. That the
  registry's forty entries are well formed is a lemma (`Defined`).
* `AloneHolds`: `ActionSpec => []AloneIsExact`. `ExactInv` says of a job that
  nobody wrote beside what limit and item are at each of its calls, from what it
  found: between the read and the write of a patch, at each step of the walk to a
  new limit, and untouched for the rest. Only two shapes of calls write either
  (`WalkCalls`, `PutCalls`), and a write takes the sight (`before`) from all others.
* The lemma `ActionTypesHold` has the types, among them that `before` holds at
  most one sight of a job (`AtMostOneSight`).

`PeopleProofs`:

* `EndedStaysEnded`: `AccountSpec => []SessionsEnd`. Beside the types,
  `TokensInv` says that tokens are handed out in order, so that an ended one is
  not issued again, and that requests hold issued ones; `PasswordInv` that a
  session which is not excused has the user's present password unless a change is
  between its two statements.
* `LimiterIsExact`: `LimitSpec => []LimiterExact`. `HitsInv`: what is kept are
  allowed calls with their own times, and no allowed call of the window lacks; so
  counting what is left after the cut is counting the window.
* `LivingIsSpared`: `PushSpec => []PushReaches`. `EndpointsInv`: the endpoints of
  a device ascend, rows of `kept` are of the present one and a row that is to be
  pruned of an earlier one, so pruning takes none of `kept`. `WillingInv`: each
  cached "wanted" was true at some time of the fan-out.
* `ToldOnceWhileListedHolds`: `MediaSpec => []ToldOnceWhileListed`. `ListedInv`: a title that
  was pushed and is still listed is in the answer on its way and in what the
  detector has seen, and what waits to be pushed is seen too, so neither is
  detected a second time.
* Type lemmas of the four: `AccountTypesHold` (a login under way holds one of the
  passwords), `LimitTypesHold`, `PushTypesHold`, `MediaTypesHold`.

`IngestionProofs`:

* `EachLineOnceHolds`: `LogSpec => []EachLineOnce`, and `LogTypesHold`. A cursor
  moves in the transaction that stores lines, but was read long before:
  `BatchesInv` says that what a worker is about to commit is all that its cursor
  will pass, whatever was appended since; `CursorsInv` the same of the cursors in
  the table and in the hands of workers; `UnsharedInv` that in a source nobody
  else pulled meanwhile the cursor is as it was read, and nothing behind it is
  stored twice. It needs the least of a set of line numbers. Induction over data is
  out of reach (below), but a least element of a set of naturals follows from
  the library's fact that < is well-founded (`LeastNatural`).
* `NothingStaleHolds`: `ReadingSpec => []NothingStaleShown`, and
  `ReadingTypesHold`. `PollInv` ties what a poll under way has been told to the
  time of the symptom, `RowInv` the same of the row in the table (`ToldSince`); a
  reading is as old as its poll may last, and then as old as the window lets it be.
* `NothingKeptIsLostHolds`: `RetentionSpec => []NothingKeptIsLost`. `KeepInv` is
  `MetricsInv` (each sample is in one row, of the bucket of its time, until it
  is about to expire) or `SnapshotsInv` (between the choice and the delete, what
  is not chosen has Keep newer ones or came meanwhile), over `NumbersInv` (a
  number is given out once). That truncation to an hour is within the day of its
  time is `TruncIsBegin`.
* `RetentionTypesHold`: its bound on `disk` needs `RoomInv`: rows and inserts
  under way are together no more than the numbers given out.
* `AgentTellsTrueHolds`: `AgentSpec => []AgentTellsTrue`, and `AgentTypesHold`.
  `OwnersInv`: no two requests hold a lock of one cache. `ThreadsInv`: which locks
  a request holds at each step (only `/docker` holds one while it asks for
  another, and who holds that one asks for none) and how old the list
  is that it goes on with. `SamplesInv`: a sample that no other overlaps is alone,
  so its predecessor was swapped in before it was stamped.

`BrowserProofs`:

* `OneConfirmedAtATime`: `RunnerSpec => []OneAtATime`. `BusyInv`: while a
  confirmed post is under way the tab is busy, and it is the only one; `Execute`
  needs a tab that is not busy.
* `PagesTellTrueHolds`: `Spec => []PagesTellTrue`, two invariants. `ViewInv` for
  the log page: an answer on its way has every line that its query is about, as
  far as it goes, but late ones (`AnswersInv`), and from the newest line down to
  where the tab has been (`Reach`: shown or cut off) nothing is missing
  (`ShownInv`); `SelectedHasNoHoles` is the fact about the query's limit. `PageInv`
  for the others: polls are an interval apart (`FetchesInv`), so while answers are
  in time the data are of the last poll, or of the one before while that is under
  way (`FreshInv`); the slice of a feed that is not cut off is within its window,
  and nothing is said of one that is (`FeedInv`); what is read after an
  acknowledgement shows it (`AckedInv`).
* `PartsBehave`: a behaviour of `StackDashboard` is one of each part's own
  specification. So the theorems above, which are about `LogSpec`, `ActionSpec`
  and so on, say what `stack` checks.
* `PartsTyped`: `Spec => []PartsTypes`, from that and the type theorem of each of
  the twelve parts.

The assumptions are those of the modules: in `Alerts` strike counts between 1
and their maximum, natural ids other than `NoId`, `NoRow` neither a row nor a
set of keys; in `Telemetry` natural numbers with a non-empty window and pipe, and
`None` neither a snapshot nor a view of one; in `Poller` natural times, a
`Never` that is no number, a back-off no shorter than `PollTail`, and an agent
whose configuration is there; in the
others natural bounds and distinguished values outside their types. TLC
evaluates them in the runs of those modules.

Apart from those, three theorems have a hypothesis: `OneShots = {}` twice and
`WindowSuffices`, as said above.

Model-checked only: liveness and everything that rests on fairness or ENABLED
(`LastingBreachIsShown`, `ClearedIsResolved`, `AlwaysPolledAgain`,
`OutageIsShown`, `RecoveryIsShown`, `SilenceReachesTheTab`, `Reconnects`,
`EveryLineStored`), which is out of the prover's reach, and the six violations.
No definition of the modules is recursive, so there is none whose values
could not be reasoned about.

## 7. Not modelled

* Nothing that keeps state: encryption of secrets, the database schema, parsing
  of `/proc`, the service worker, deployment scripts.
* Field mapping of the service clients and the texts, severities and thresholds
  of alert rules: a payload is the symptom it tells of, and a rule asks for that
  symptom. Two rules (`auth.ssh-burst`, `tls.cert-expiry`) enter `Alerts` only as
  conditions.
* Panels beyond which machines and governors show as alive, and beyond how old
  what they show is; a request without a session, which fails like any other.
* `appLog` and its buffer: nothing in the repository calls it, so every flush is
  empty.
* The order of the jobs within `runOnce`; each job is modelled by itself with a
  `--once` worker beside the loop.
* The agent's UDP sender on other machines is `Send` of `Telemetry`; the parsing
  of command output is left out.
* Workflow validators: development tooling, pure checks of JSON, planned last.
* Of the modelled parts: resolved alerts (history), audit rows of logins, the
  timing of password verification, creating users, saving credentials, datagrams
  that do not parse (dropped before any state changes), a port that cannot be
  bound. The wall clock is taken to be monotonic.
