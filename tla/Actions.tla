------------------------------ MODULE Actions ------------------------------
(***************************************************************************)
(* The control plane: the action registry (actions/registry.ts and         *)
(* actions/services/), the dispatch of the server                          *)
(* (app/api/actions/route.ts, actions/execute.ts), the executors, and the  *)
(* planner of the node agent (agent/controlib.py, agent/nas_agent.py).     *)
(* A job is one POST to /api/actions.  Every call of an executor to a      *)
(* service is a step, and may be applied although its answer is lost.      *)
(***************************************************************************)
EXTENDS Integers, Sequences, FiniteSets, SequencesExt

CONSTANTS
  Jobs,
  Offered,       \* the actions of the registry that are asked for
  Limits,        \* worker limits that can be asked for
  NoAction,
  MaxJobFaults   \* bound on refused calls, lost answers, failing inserts, crashes

-----------------------------------------------------------------------------
(* The registry: what an action may do, who may ask, and the calls its     *)
(* executor makes, one after the other: a "read" changes nothing, a "do"   *)
(* or a "try" changes something, and a "try" may fail.                     *)

Login == <<"read", "do">>

Register(names, radius, role, calls) ==
  {[name |-> n, radius |-> radius, role |-> role, calls |-> calls,
    agent |-> "", header |-> FALSE] : n \in names}

\* agentAction: an action of the node agent, and whether X-Confirm is sent along.
ViaAgent(name, radius, role, agentName, confirm) ==
  {[name |-> name, radius |-> radius, role |-> role, calls |-> <<"do">>,
    agent |-> agentName, header |-> confirm]}

PlexActions ==
  Register({"plex.scan-library", "plex.refresh-metadata"}, "safe", "viewer", <<"do">>)
  \cup Register({"plex.terminate-stream", "plex.empty-trash"}, "destructive", "admin", <<"do">>)
  \cup ViaAgent("plex.restart-container", "destructive", "admin", "docker_restart", TRUE)

SabActions ==
  Register({"sab.pause-queue", "sab.resume-queue", "sab.pause-job", "sab.resume-job", "sab.set-priority",
            "sab.set-speedlimit", "sab.retry-failed"}, "disruptive", "admin", <<"do">>)
  \cup Register({"sab.delete-job"}, "destructive", "admin", <<"do">>)

QbitActions ==
  Register({"qbit.pause-all", "qbit.resume-all", "qbit.pause-torrent", "qbit.resume-torrent",
            "qbit.recheck-torrent", "qbit.reannounce-torrent", "qbit.set-category",
            "qbit.set-share-limits"}, "disruptive", "admin", Login)
  \cup Register({"qbit.delete-torrent"}, "destructive", "admin", Login)
  \cup Register({"qbit.set-global-limits"}, "disruptive", "admin", Login \o Login)

ArrActions ==
  UNION {Register({s \o "search-missing", s \o "search-item"}, "safe", "viewer", <<"do">>)
         \cup Register({s \o "grab-release"}, "disruptive", "admin", <<"do">>)
         \cup Register({s \o "remove-queue-item"}, "destructive", "admin", <<"do">>)
         \cup Register({s \o "toggle-monitored", s \o "set-quality-profile"}, "disruptive", "admin",
                       <<"read", "put">>)
         \cup Register({s \o "delete-media-file"}, "destructive", "admin", <<"do", "try">>)
         : s \in {"sonarr.", "radarr."}}

ProwlarrActions ==
  Register({"prowlarr.test-indexer"}, "safe", "viewer", <<"read", "read">>)
  \cup Register({"prowlarr.toggle-indexer"}, "disruptive", "admin", <<"read", "put">>)

SeerrActions ==
  Register({"seerr.approve-request"}, "safe", "admin", <<"do">>)
  \cup Register({"seerr.decline-request"}, "disruptive", "admin", <<"do">>)

\* The id of a node is looked up by its name first.
TdarrActions ==
  Register({"tdarr.pause-node", "tdarr.resume-node"}, "disruptive", "admin", <<"read", "do">>)
  \cup Register({"tdarr.pause-all-nodes"}, "disruptive", "admin", <<"read", "try">>)
  \cup Register({"tdarr.set-worker-limit"}, "disruptive", "admin", <<"read", "walk">>)
  \cup Register({"tdarr.cancel-transcode"}, "destructive", "admin", <<"read", "do">>)
  \cup Register({"tdarr.scan-library"}, "safe", "viewer", <<"do">>)

AgentActions ==
  ViaAgent("auto.run-unit", "disruptive", "admin", "systemd_run", FALSE)
  \cup ViaAgent("auto.restart-unit", "destructive", "admin", "systemd_restart", TRUE)
  \cup ViaAgent("auto.tiermover-dry-run", "safe", "viewer", "tiermover_dry_run", FALSE)
  \cup ViaAgent("infra.container-start", "safe", "admin", "docker_start", FALSE)
  \cup ViaAgent("infra.container-stop", "destructive", "admin", "docker_stop", TRUE)
  \cup ViaAgent("infra.container-restart", "destructive", "admin", "docker_restart", TRUE)
  \cup ViaAgent("infra.reboot-nas", "destructive", "admin", "nas_reboot", TRUE)

RegisterAll == PlexActions \cup SabActions \cup QbitActions \cup ArrActions \cup ProwlarrActions
                 \cup SeerrActions \cup TdarrActions \cup AgentActions

Def(name) == CHOOSE d \in RegisterAll : d.name = name

ASSUME ActionsAssumption ==
  /\ Jobs \subseteq Nat /\ Limits \subseteq Nat /\ MaxJobFaults \in Nat
  /\ Offered \subseteq {d.name : d \in RegisterAll} /\ NoAction \notin Offered

\* ACTIONS of the agent: those that ask for the second factor.
AgentDestructive == {"docker_restart", "docker_stop", "systemd_restart", "nas_reboot"}

\* No id is registered twice, and what the agent asks a second factor for is sent one.
ASSUME RegistryAssumption ==
  \A d \in RegisterAll : /\ (\A e \in RegisterAll : d.name = e.name => d = e)
                          /\ (d.agent \in AgentDestructive => d.header)

VARIABLES
  job,       \* the jobs
  limit,     \* a worker limit of a Tdarr node
  item,      \* a series, a movie or an indexer, as its service keeps it
  jobFaults,
  did,       \* did[j]: the calls a service applied of a j that did not die (a history)
  before     \* before[j]: limit and item when j began, or {} once another job wrote (a history)

jobHistory == <<did, before>>
actionVars == <<job, limit, item, jobFaults, jobHistory>>

Fresh0 == [at |-> "free", act |-> NoAction, admin |-> FALSE, protected |-> FALSE, confirm |-> "none",
           want |-> 0, got |-> {}, next |-> 1, left |-> 0, ok |-> TRUE, row |-> "none", unlogged |-> 0]

Items == [toggled : BOOLEAN, profile : BOOLEAN]

ActionInit ==
  /\ job = [j \in Jobs |-> Fresh0]
  /\ limit = 1 /\ item = [toggled |-> TRUE, profile |-> FALSE]
  /\ jobFaults = 0
  /\ did = [j \in Jobs |-> {}] /\ before = [j \in Jobs |-> {}]

Calls(j) == Def(job[j].act).calls
InFlight(j) == job[j].at \in {"running", "audit", "again"}
Becomes(j, r) == job' = [job EXCEPT ![j] = r]
JobFault == jobFaults < MaxJobFaults /\ jobFaults' = jobFaults + 1

-----------------------------------------------------------------------------
(* executeAction, up to the executor. *)

\* What is asked for: an action, by whom, of what, how confirmed and with what value.
Asks == [act : Offered, admin : BOOLEAN, protected : BOOLEAN, confirm : {"none", "wrong", "right"},
         want : Limits, valid : BOOLEAN]

Destructive(a) == Def(a).radius = "destructive"

\* role, params, deny list, confirm: the row of the audit log, if any, and whether to go on.
Verdict(q) ==
  IF Def(q.act).role = "admin" /\ ~q.admin THEN "denied"
  ELSE IF ~q.valid THEN "none"
  ELSE IF q.protected THEN "denied"
  ELSE IF Destructive(q.act) /\ q.confirm # "right" THEN "denied"
  ELSE "go"

\* The POST of a job.  A refused one ends here, with its row in the audit log.
Dispatch(j, q) ==
  /\ job[j].at = "free" /\ \A k \in Jobs : k < j => job[k].at # "free"
  /\ LET r == [Fresh0 EXCEPT !.act = q.act, !.admin = q.admin, !.protected = q.protected,
                             !.confirm = q.confirm, !.want = q.want]
     IN  IF Verdict(q) = "go"
         THEN /\ Becomes(j, [r EXCEPT !.at = "running"])
              /\ before' = [before EXCEPT ![j] = {<<limit, item>>}]
         ELSE /\ Becomes(j, [Fresh0 EXCEPT !.at = "over", !.row = Verdict(q)])
              /\ UNCHANGED before
  /\ UNCHANGED <<limit, item, jobFaults, did>>

-----------------------------------------------------------------------------
(* The executors. *)

Due(j, kind) == job[j].at = "running" /\ job[j].next <= Len(Calls(j)) /\ Calls(j)[job[j].next] = kind
Ahead(j, kind) == job[j].next < Len(Calls(j)) /\ Calls(j)[job[j].next + 1] = kind

GoesOn(j) == Becomes(j, [job[j] EXCEPT !.next = @ + 1])
Fails(j) == Becomes(j, [job[j] EXCEPT !.at = "audit", !.ok = FALSE, !.next = 1, !.got = {}, !.left = 0])

\* Tdarr's relay only steps by one: how far, and which way, is settled by what was read.
Delta(current, j) == job[j].want - current

\* A login, get-nodes, the first half of getMutatePut.
Read(j) ==
  /\ Due(j, "read")
  /\ Becomes(j, [job[j] EXCEPT !.next = @ + 1,
                               !.got = IF Ahead(j, "put") THEN {item} ELSE {},
                               !.left = IF Ahead(j, "walk") THEN Delta(limit, j) ELSE 0])
  /\ UNCHANGED <<limit, item, jobFaults, jobHistory>>

\* plan_action of the agent: the deny list, then the second factor.
AgentPlans(j) ==
  LET d == Def(job[j].act)
  IN  d.agent # "" => ~job[j].protected /\ (d.agent \in AgentDestructive => d.header)

Did(j) == did' = [did EXCEPT ![j] = @ \cup {job[j].next}]

\* The service, or the agent's plan, refuses a call, or it is not configured.
CallRefused(j) ==
  /\ \E kind \in {"read", "do", "put", "walk"} : Due(j, kind)
  /\ IF AgentPlans(j) THEN JobFault ELSE UNCHANGED jobFaults
  /\ Fails(j)
  /\ UNCHANGED <<limit, item, jobHistory>>

\* A call that is neither of an item nor of a worker limit.
Do(j) ==
  /\ Due(j, "do") /\ AgentPlans(j)
  /\ GoesOn(j) /\ Did(j)
  /\ UNCHANGED <<limit, item, jobFaults, before>>

\* run_cmd logs an exit code other than 0 and returns the output all the same.
UnitFails(j) ==
  /\ Due(j, "do") /\ AgentPlans(j)
  /\ Def(job[j].act).agent \in {"systemd_run", "systemd_restart", "tiermover_dry_run", "nas_reboot"}
  /\ JobFault
  /\ GoesOn(j)
  /\ UNCHANGED <<limit, item, jobHistory>>

\* The search after a deleted file, the nodes of pause-all-nodes: tried, applied or not.
Try(j) ==
  /\ Due(j, "try")
  /\ GoesOn(j)
  /\ Did(j) \/ UNCHANGED did
  /\ UNCHANGED <<limit, item, jobFaults, before>>

\* Jobs that have begun lose sight of what they found once another one writes.
OthersSee(j) == before' = [k \in Jobs |-> IF k = j THEN before[k] ELSE {}]

\* The whole resource that was read, and the patch.
Patched(read, j) ==
  IF Def(job[j].act).name \in {"sonarr.set-quality-profile", "radarr.set-quality-profile"}
  THEN [read EXCEPT !.profile = job[j].want > 0]
  ELSE [read EXCEPT !.toggled = job[j].want > 0]

\* A slip: what is put is the patch alone.
PatchAlone(j) == item' = Patched([toggled |-> FALSE, profile |-> FALSE], j)
PutBack(j) == \E read \in job[j].got : item' = Patched(read, j)

Put(j) ==
  /\ Due(j, "put")
  /\ PutBack(j)
  /\ GoesOn(j) /\ Did(j) /\ OthersSee(j)
  /\ UNCHANGED <<limit, jobFaults>>

\* increase or decrease, once.
Sign(n) == IF n > 0 THEN 1 ELSE -1
Altered(j) == limit' = IF limit = 0 /\ job[j].left < 0 THEN 0 ELSE limit + Sign(job[j].left)

WalkStep(j) ==
  /\ Due(j, "walk") /\ job[j].left # 0
  /\ Altered(j)
  /\ Becomes(j, [job[j] EXCEPT !.left = @ - Sign(@)]) /\ Did(j) /\ OthersSee(j)
  /\ UNCHANGED <<item, jobFaults>>

WalkEnds(j) ==
  /\ Due(j, "walk") /\ job[j].left = 0
  /\ GoesOn(j)
  /\ UNCHANGED <<limit, item, jobFaults, jobHistory>>

\* The call is applied, and its answer is late or unreadable.
AnswerLost(j) ==
  /\ JobFault
  /\ \/ Due(j, "do") /\ AgentPlans(j) /\ UNCHANGED <<limit, item, before>>
     \/ Due(j, "put") /\ PutBack(j) /\ OthersSee(j) /\ UNCHANGED limit
     \/ Due(j, "walk") /\ job[j].left # 0 /\ Altered(j) /\ OthersSee(j) /\ UNCHANGED item
  /\ Fails(j) /\ Did(j)

ExecutorEnds(j) ==
  /\ job[j].at = "running" /\ job[j].next > Len(Calls(j))
  /\ Becomes(j, [job[j] EXCEPT !.at = "audit", !.got = {}])
  /\ UNCHANGED <<limit, item, jobFaults, jobHistory>>

-----------------------------------------------------------------------------
(* The audit log. *)

Forget(j) == before' = [before EXCEPT ![j] = {}]
Logged(j) == IF job[j].at = "again" \/ ~job[j].ok THEN "error" ELSE "ok"

Audit(j) ==
  /\ job[j].at \in {"audit", "again"}
  /\ Becomes(j, [job[j] EXCEPT !.at = "over", !.row = Logged(j), !.want = 0, !.next = 1])
  /\ Forget(j)
  /\ UNCHANGED <<limit, item, jobFaults, did>>

\* A slip: the insert is outside of the try.
AuditGivesUp(j) ==
  /\ job[j].at \in {"audit", "again"}
  /\ JobFault
  /\ Becomes(j, [job[j] EXCEPT !.at = "over", !.unlogged = @ + 1])
  /\ Forget(j)
  /\ UNCHANGED <<limit, item, did>>

\* The insert throws: the first time it is caught as if the executor had failed.
AuditFails(j) ==
  /\ job[j].at \in {"audit", "again"}
  /\ JobFault
  /\ Becomes(j, [job[j] EXCEPT !.at = IF @ = "audit" THEN "again" ELSE "over", !.unlogged = @ + 1])
  /\ Forget(j)
  /\ UNCHANGED <<limit, item, did>>

\* The server dies with its jobs.
ServerDies ==
  /\ \E j \in Jobs : InFlight(j)
  /\ JobFault
  /\ job' = [j \in Jobs |-> IF InFlight(j) THEN [Fresh0 EXCEPT !.at = "died"] ELSE job[j]]
  /\ did' = [j \in Jobs |-> IF InFlight(j) THEN {} ELSE did[j]]
  /\ before' = [j \in Jobs |-> {}]
  /\ UNCHANGED <<limit, item>>

ActionNext ==
  \/ \E j \in Jobs :
       \/ \E q \in Asks : Dispatch(j, q)
       \/ Read(j) \/ CallRefused(j) \/ Do(j) \/ UnitFails(j) \/ Try(j) \/ Put(j)
       \/ WalkStep(j) \/ WalkEnds(j) \/ AnswerLost(j) \/ ExecutorEnds(j)
       \/ Audit(j) \/ AuditFails(j)
  \/ ServerDies

ActionSpec == ActionInit /\ [][ActionNext]_actionVars

-----------------------------------------------------------------------------
(* Properties. *)

ActionTypes ==
  /\ \A j \in Jobs :
       /\ job[j].at \in {"free", "running", "audit", "again", "over", "died"}
       /\ job[j].act \in Offered \cup {NoAction} /\ job[j].row \in {"none", "ok", "denied", "error"}
       /\ did[j] \subseteq 1 .. 4 /\ Cardinality(before[j]) <= 1
  /\ limit \in Nat /\ item \in Items /\ jobFaults \in 0 .. MaxJobFaults

\* What a job must have done to be logged as "ok".
Whole(j) == {i \in 1 .. Len(Calls(j)) : Calls(j)[i] \in {"do", "put"}}
OnTrust(j) == Def(job[j].act).agent \notin {"", "docker_start", "docker_stop", "docker_restart"}

\* Whatever was done to a service was asked for by somebody who may, and confirmed
\* when it destroys; once its job is over the audit log tells of it, unless the
\* insert failed twice, and never says "ok" of a job that was not done (a job of
\* systemd is taken on trust) nor "denied" of one that was.
Accounted ==
  \A j \in Jobs :
    /\ did[j] # {} =>
         /\ Def(job[j].act).role = "admin" => job[j].admin
         /\ ~job[j].protected
         /\ Destructive(job[j].act) => job[j].confirm = "right"
         /\ job[j].at = "over" => job[j].row \in {"ok", "error"} \/ job[j].unlogged = 2
    /\ job[j].row = "ok" => Whole(j) \subseteq did[j] \/ OnTrust(j)
    /\ job[j].row = "denied" => did[j] = {}

\* A job nobody wrote beside, and that succeeded, leaves the worker limit or the
\* item as it was asked to, and all else as it found it.
AloneIsExact ==
  \A j \in Jobs :
    job[j].at = "audit" /\ job[j].ok =>
      \A was \in before[j] :
        <<limit, item>> = << IF "walk" \in ToSet(Calls(j)) THEN job[j].want ELSE was[1],
                             IF "put" \in ToSet(Calls(j)) THEN Patched(was[2], j) ELSE was[2] >>
=============================================================================
