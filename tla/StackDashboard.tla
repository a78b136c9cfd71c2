--------------------------- MODULE StackDashboard ---------------------------
(***************************************************************************)
(* The parts of the stack that the other compositions leave out, side by   *)
(* side.  They run at once but share nothing that is a variable here, and  *)
(* what is promised is promised of a part: so a behaviour follows one of   *)
(* them, the others rest, and any of them may be the one.                  *)
(***************************************************************************)
EXTENDS LogPull, Retention, NewMedia, Readings, Accounts, LoginLimit, Actions, Runner, Push, LogViewer, Pages, NodeAgent

VARIABLE focus \* the part followed

vars == <<focus, logVars, retentionVars, mediaVars, readingVars, accountVars, limitVars, actionVars,
          runnerVars, pushVars, viewVars, pageVars, agentVars>>

Parts == {"logs", "retention", "media", "readings", "accounts", "limiter", "actions", "runner", "push", "viewer", "pages", "agent"}

\* A part that rests does so in one of its initial states.
Init ==
  /\ focus \in Parts
  /\ LogInit /\ RetentionInit /\ MediaInit /\ ReadingInit /\ AccountInit /\ LimitInit /\ ActionInit
  /\ RunnerInit /\ PushInit /\ ViewInit /\ PageInit /\ AgentInit
  /\ focus # "retention" => table = "status"
  /\ focus # "readings" => followed.service = "plex"
  /\ focus # "pages" => view = (CHOOSE followedView \in Followed : TRUE)
  /\ focus # "agent" => asked = CHOOSE family \in Families : TRUE

Others(part) ==
  /\ UNCHANGED focus
  /\ part # "logs" => UNCHANGED logVars
  /\ part # "retention" => UNCHANGED retentionVars
  /\ part # "media" => UNCHANGED mediaVars
  /\ part # "readings" => UNCHANGED readingVars
  /\ part # "accounts" => UNCHANGED accountVars
  /\ part # "limiter" => UNCHANGED limitVars
  /\ part # "actions" => UNCHANGED actionVars
  /\ part # "runner" => UNCHANGED runnerVars
  /\ part # "push" => UNCHANGED pushVars
  /\ part # "viewer" => UNCHANGED viewVars
  /\ part # "pages" => UNCHANGED pageVars
  /\ part # "agent" => UNCHANGED agentVars

Next ==
  \/ focus = "logs" /\ LogNext /\ Others("logs")
  \/ focus = "retention" /\ RetentionNext /\ Others("retention")
  \/ focus = "media" /\ MediaNext /\ Others("media")
  \/ focus = "readings" /\ ReadingNext /\ Others("readings")
  \/ focus = "accounts" /\ AccountNext /\ Others("accounts")
  \/ focus = "limiter" /\ LimitNext /\ Others("limiter")
  \/ focus = "actions" /\ ActionNext /\ Others("actions")
  \/ focus = "runner" /\ RunnerNext /\ Others("runner")
  \/ focus = "push" /\ PushNext /\ Others("push")
  \/ focus = "viewer" /\ ViewNext /\ Others("viewer")
  \/ focus = "pages" /\ PageNext /\ Others("pages")
  \/ focus = "agent" /\ AgentNext /\ Others("agent")

Spec == Init /\ [][Next]_vars

\* The worker that loops goes on with its pull, and begins another one.
LoopPulls == focus = "logs" /\ PullStep("loop") /\ Others("logs")
FairSpec == Spec /\ WF_logVars(LoopPulls)

-----------------------------------------------------------------------------
(* Properties. *)

\* Every part's variables stay in their types.
PartsTypes ==
  /\ LogTypes /\ RetentionTypes /\ MediaTypes /\ ReadingTypes /\ AccountTypes /\ LimitTypes
  /\ ActionTypes /\ RunnerTypes /\ PushTypes /\ ViewTypes /\ PageTypes /\ AgentTypes

\* What an open tab shows tells the truth: the log viewer of the stored lines, with none
\* missing in between (NoHoles), and the other pages of what they poll and of a feed
\* that is heard, each as recent as it is answered, with no acknowledgement taken back
\* (PageKeepsUp).
PagesTellTrue == NoHoles /\ PageKeepsUp
=============================================================================
