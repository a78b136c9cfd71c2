------------------------------ MODULE Readings ------------------------------
(***************************************************************************)
(* The way of a reading: a client asks its service (poller/clients), the   *)
(* outcome is persisted as a heartbeat and, by a later statement, as       *)
(* snapshots (poller/persist.ts), and what they say is read back by the    *)
(* alert rules (alerts/store.ts, alerts/rules.ts) and by the panels        *)
(* (lib/panels/queries.ts, lib/panels/assemble.ts).                        *)
(*                                                                         *)
(* Services share nothing but the poller's time, and the kinds of a        *)
(* service's snapshots nothing but its heartbeat: a behaviour follows one  *)
(* kind of one service and one symptom that its payload can tell of.  A    *)
(* unit of time is longer than a request that is answered.                 *)
(***************************************************************************)
EXTENDS Integers, FiniteSets

CONSTANTS
  StaleAfter,   \* AGENT_STALE_MS
  GateStale,    \* 3 * poll_secs: a governor that has not stamped its file is dead
  PollTimeout,  \* POLL_TIMEOUT_MS
  Absent,
  MaxTime,      \* bound on the clock
  MaxTurns      \* bound on the changes of the symptom, failing requests and deaths

ASSUME ReadingsAssumption ==
  /\ {StaleAfter, GateStale, PollTimeout, MaxTime, MaxTurns} \subseteq Nat
  /\ Absent \notin BOOLEAN

VARIABLES
  followed,  \* the service, the kind and the symptom
  time,
  wrong,     \* the symptom is there
  turns,
  gateTs,    \* when the tdarr-gate service last stamped its status file
  poll,      \* the poll under way
  heart,     \* the newest row of service_status
  row,       \* the newest row of the kind in snapshots
  lastWrong, \* when the symptom was last there (a history)
  answered,  \* when the service last answered its main request (a history)
  torn       \* the worker died between its newest heartbeat and the row (a history)

worldVars == <<followed, time, wrong, turns, gateTs, lastWrong>>
readingHistory == <<answered, torn>>
readingVars == <<worldVars, poll, heart, row, readingHistory>>

-----------------------------------------------------------------------------
(* The clients: the request without which a poll fails, the others, and     *)
(* whether one of these that fails leaves its row out or its part of the    *)
(* row blank, as if it had nothing to tell.                 *)

AgentClient == [must |-> "stats", may |-> {"smart", "governor"}, blank |-> FALSE]
TdarrClient == [must |-> "nodes", may |-> {"library"}, blank |-> TRUE]
ArrClient == [must |-> "queue", may |-> {"health", "rootfolder"}, blank |-> TRUE]
SabnzbdClient == [must |-> "queue", may |-> {"totals"}, blank |-> TRUE]
ProwlarrClient == [must |-> "indexers", may |-> {"indexerstatus"}, blank |-> TRUE]
QbittorrentClient == [must |-> "torrents", may |-> {}, blank |-> FALSE]
PlexClient == [must |-> "sessions", may |-> {}, blank |-> FALSE]
TautulliClient == [must |-> "activity", may |-> {}, blank |-> FALSE]
SeerrClient == [must |-> "requests", may |-> {}, blank |-> FALSE]

Clients ==
  [agent |-> AgentClient, tdarr |-> TdarrClient, sonarr |-> ArrClient, sabnzbd |-> SabnzbdClient,
   prowlarr |-> ProwlarrClient, qbittorrent |-> QbittorrentClient, plex |-> PlexClient,
   tautulli |-> TautulliClient, seerr |-> SeerrClient]

HostTroubles == {"dstate", "tier", "util", "units"}

Kinds == UNION {{c.must} \cup c.may : c \in {Clients[s] : s \in DOMAIN Clients}}

\* What the answer to a request can tell of.
TellsOf(request) ==
  CASE request = "stats" -> HostTroubles
    [] request = "smart" -> {"drive"}
    [] request = "nodes" -> {"node"}
    [] OTHER -> {"nothing"}

Client == Clients[followed.service]
Kind == followed.kind
Waiting == [at |-> "idle", since |-> 0, told |-> Absent, now |-> 0]

ReadingInit ==
  /\ \E s \in DOMAIN Clients : \E k \in {Clients[s].must} \cup Clients[s].may : \E t \in TellsOf(k) :
       followed = [service |-> s, kind |-> k, symptom |-> t]
  /\ wrong \in IF followed.symptom = "nothing" THEN {FALSE} ELSE BOOLEAN
  /\ time = 0 /\ turns = 0 /\ gateTs = 0
  /\ poll = Waiting
  /\ heart = Absent /\ row = Absent
  /\ lastWrong = 0 /\ answered = 0 /\ torn = FALSE

-----------------------------------------------------------------------------
(* The world. *)

Turn == turns < MaxTurns /\ turns' = turns + 1

\* A poll under way cannot outlast its timeout; a statement can take any time.
TimePasses ==
  /\ time < MaxTime /\ time' = time + 1
  /\ poll.at \in {"main", "more"} => time - poll.since < PollTimeout
  /\ lastWrong' = IF wrong THEN time' ELSE lastWrong
  /\ UNCHANGED <<followed, wrong, turns, gateTs, poll, heart, row, readingHistory>>

SymptomTurns ==
  /\ Turn /\ followed.symptom # "nothing"
  /\ wrong' = ~wrong /\ lastWrong' = time
  /\ UNCHANGED <<followed, time, gateTs, poll, heart, row, readingHistory>>

GateStamps ==
  /\ Kind = "governor"
  /\ gateTs' = time
  /\ UNCHANGED <<followed, time, wrong, turns, lastWrong, poll, heart, row, readingHistory>>

-----------------------------------------------------------------------------
(* A poll. *)

\* persistOutcome takes the time at once; its statements come when they come.
PollEndsWith(how, told) == poll' = [poll EXCEPT !.at = how, !.told = told, !.now = time]

PollAsks ==
  /\ poll.at = "idle"
  /\ poll' = [Waiting EXCEPT !.at = "main", !.since = time]
  /\ UNCHANGED <<worldVars, heart, row, readingHistory>>

MainAnswers ==
  /\ poll.at = "main"
  /\ IF Client.may = {} THEN PollEndsWith("ok", wrong)
     ELSE poll' = [poll EXCEPT !.at = "more", !.told = IF Kind = Client.must THEN wrong ELSE Absent]
  /\ answered' = time
  /\ UNCHANGED <<worldVars, heart, row, torn>>

MainFails ==
  /\ poll.at = "main" /\ Turn
  /\ PollEndsWith("failed", Absent)
  /\ UNCHANGED <<followed, time, wrong, gateTs, lastWrong, heart, row, readingHistory>>

\* The agent may find the governor's file unreadable or too old (its verdict may itself
\* come from its cache); the client judges the age of the stamp again.
ParseGovernor(running, ts) ==
  [running |-> running /\ time - ts <= GateStale, ts |-> ts]

\* What the client must have waits for what it may miss.
MoreAnswers ==
  /\ poll.at = "more"
  /\ \E told \in IF Kind = Client.must THEN {poll.told}
                  ELSE IF Kind = "governor" THEN {ParseGovernor(running, gateTs) : running \in BOOLEAN}
                  ELSE {wrong} :
       PollEndsWith("ok", told)
  /\ UNCHANGED <<worldVars, heart, row, readingHistory>>

MoreFails ==
  /\ poll.at = "more" /\ Turn
  /\ PollEndsWith("ok", IF Kind = Client.must THEN poll.told ELSE IF Client.blank THEN FALSE ELSE Absent)
  /\ UNCHANGED <<followed, time, wrong, gateTs, lastWrong, heart, row, readingHistory>>

PollRunsOut ==
  /\ poll.at \in {"main", "more"} /\ time - poll.since = PollTimeout
  /\ PollEndsWith("failed", Absent)
  /\ UNCHANGED <<worldVars, heart, row, readingHistory>>

HeartbeatInserted ==
  /\ poll.at \in {"ok", "failed"}
  /\ heart' = [ok |-> poll.at = "ok", at |-> poll.now]
  /\ poll' = IF poll.told = Absent THEN Waiting ELSE [poll EXCEPT !.at = "rows"]
  /\ torn' = FALSE
  /\ UNCHANGED <<worldVars, row, answered>>

SnapshotsInserted ==
  /\ poll.at = "rows"
  /\ row' = [told |-> poll.told, at |-> poll.now]
  /\ poll' = Waiting
  /\ UNCHANGED <<worldVars, heart, readingHistory>>

PollerStops ==
  /\ poll.at # "idle" /\ Turn
  /\ poll' = Waiting
  /\ torn' = (torn \/ poll.at = "rows")
  /\ UNCHANGED <<followed, time, wrong, gateTs, lastWrong, heart, row, answered>>

ReadingNext ==
  \/ TimePasses \/ SymptomTurns \/ GateStamps
  \/ PollAsks \/ MainAnswers \/ MainFails \/ MoreAnswers \/ MoreFails \/ PollRunsOut
  \/ HeartbeatInserted \/ SnapshotsInserted \/ PollerStops

ReadingSpec == ReadingInit /\ [][ReadingNext]_readingVars

-----------------------------------------------------------------------------
(* What an alert cycle makes of the tables. *)

Age == time - row.at
Has(kind) == Kind = kind /\ row # Absent
Tells(kind) == Has(kind) /\ row.told

\* A slip: the newest stats are judged, however old.
AgentOfAnyAge == Tells("stats")
AgentForRules == Tells("stats") /\ Age < StaleAfter

\* parseAgentSmart's list is stored as { drives: [...] }, and read back as a list:
\* the rule's loop over an object throws, and a rule that throws reports nothing.
SmartForRules == IF Has("smart") THEN [shape |-> "object", bad |-> row.told] ELSE [shape |-> "list", bad |-> FALSE]
SmartHealth == SmartForRules.shape = "list" /\ SmartForRules.bad

HostRules == AgentForRules /\ followed.symptom \in {"dstate", "tier", "util"}
FailedUnits == AgentForRules /\ followed.symptom = "units"
TdarrNode == Tells("nodes")

\* The symptom is reported.
Reported == HostRules \/ FailedUnits \/ SmartHealth \/ TdarrNode

-----------------------------------------------------------------------------
(* What the panels make of them: of each service, the answers a panel shows,  *)
(* whatever their age.  (sonarr stands for radarr as well; a request reads   *)
(* the tables at one time.  The overview's own count of troubles,             *)
(* deriveAlertCount, is left out: it takes a stats row of any age.) *)

BuildOverview ==
  [plex |-> {"sessions"}, sabnzbd |-> {"queue"}, qbittorrent |-> {"torrents"}, sonarr |-> {"queue"},
   tdarr |-> {"nodes"}, agent |-> {"stats"}]
BuildMachine == [agent |-> {"stats", "smart"}]
BuildStreams == [plex |-> {"sessions"}, tautulli |-> {"activity"}]
BuildDownloads == [sabnzbd |-> {"queue", "totals"}, qbittorrent |-> {"torrents"}]
BuildArr ==
  [sonarr |-> {"queue", "health", "rootfolder"}, prowlarr |-> {"indexers", "indexerstatus"}, seerr |-> {"requests"}]
BuildTdarrPanel == [tdarr |-> {"nodes", "library"}, agent |-> {"governor"}]
BuildStorage == [agent |-> {"stats", "smart"}, sonarr |-> {"rootfolder"}]
BuildRail == [tdarr |-> {"nodes"}, plex |-> {"sessions"}]

Panels ==
  [overview |-> BuildOverview, machines |-> BuildMachine, streams |-> BuildStreams, downloads |-> BuildDownloads,
   arr |-> BuildArr, tdarr |-> BuildTdarrPanel, storage |-> BuildStorage, rail |-> BuildRail]

\* The services whose latest polls a panel shows beside that: the overview those of
\* all, a machine that of its agent, the others a strip of cells.
PolledOn ==
  [overview |-> DOMAIN Clients, machines |-> {"agent"}, streams |-> {"plex", "tautulli"},
   downloads |-> {"sabnzbd", "qbittorrent"}, arr |-> {"sonarr", "prowlarr", "seerr"}, tdarr |-> {"tdarr"},
   storage |-> {"agent"}, rail |-> {}]

ShowsReading(panel) ==
  /\ followed.service \in DOMAIN Panels[panel]
  /\ Kind \in Panels[panel][followed.service] /\ row # Absent

\* The newest cell of the service.
ShowsUp(panel) == followed.service \in PolledOn[panel] /\ heart # Absent /\ heart.ok

\* The traffic of a NAS that was heard of lately; that of an older row shows as none.
ShowsTraffic == Has("stats") /\ Age < StaleAfter

MachineOnline == Has("stats") /\ heart # Absent /\ heart.ok /\ Age < StaleAfter

GovernorRunning == Has("governor") /\ row.told.running /\ Age <= StaleAfter

-----------------------------------------------------------------------------
(* Properties. *)

ToldType == IF Kind = "governor" THEN [running : BOOLEAN, ts : 0 .. MaxTime] ELSE BOOLEAN

ReadingTypes ==
  /\ followed \in [service : DOMAIN Clients, kind : Kinds, symptom : HostTroubles \cup {"drive", "node", "nothing"}]
  /\ wrong \in BOOLEAN /\ turns \in 0 .. MaxTurns
  /\ {time, gateTs, lastWrong, answered} \subseteq 0 .. MaxTime
  /\ poll \in [at : {"idle", "main", "more", "ok", "failed", "rows"}, since : 0 .. MaxTime,
               told : ToldType \cup {Absent}, now : 0 .. MaxTime]
  /\ torn \in BOOLEAN
  /\ heart = Absent \/ heart \in [ok : BOOLEAN, at : 0 .. MaxTime]
  /\ row = Absent \/ row \in [told : ToldType, at : 0 .. MaxTime]

AlarmIsFresh == Reported /\ Kind = "stats" => time - lastWrong < StaleAfter + PollTimeout
LiveMeansAnswered == MachineOnline \/ ShowsTraffic => time - answered < StaleAfter + PollTimeout
RunningGateIsAlive == GovernorRunning => time - gateTs <= StaleAfter + GateStale

\* What a poll cannot do without, or stores blank when it fails.
EachTimeStored == Kind = Client.must \/ Client.blank
UpMeansOfThatPoll ==
  \A panel \in DOMAIN Panels :
    ShowsUp(panel) /\ ShowsReading(panel) /\ EachTimeStored /\ poll.at # "rows" /\ ~torn => row.at = heart.at

\* Whatever fails, hangs or dies on the way, no host alarm outlives its symptom and
\* no machine shows as online or with traffic by more than the stale window and a poll,
\* no governor as running by more than that window and its own.  And a panel that
\* shows a service as up shows what that very poll told of what it cannot do without
\* or stores blank, but between the two inserts and where the worker died there.  (The
\* agent's smart and governor rows may be older: its poll does without them.)
NothingStaleShown == AlarmIsFresh /\ LiveMeansAnswered /\ RunningGateIsAlive /\ UpMeansOfThatPoll

\* "A drive reports SMART problems": what the newest SMART reading tells is reported.
BadDriveIsReported == Tells("smart") => Reported
=============================================================================
