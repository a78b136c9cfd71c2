------------------------------- MODULE Runner -------------------------------
(***************************************************************************)
(* The runner of actions in a browser tab                                  *)
(* (components/actions/action-runner.tsx), with the buttons and the        *)
(* palette that call it (components/actions/action-button.tsx,             *)
(* components/shell/command-palette.tsx).  A post is what was sent to      *)
(* /api/actions; answers come at any time, in any order.                   *)
(***************************************************************************)
EXTENDS Integers

CONSTANTS
  SafeActions, OtherActions, DestructiveActions, \* by blast radius
  NoDialog,
  MaxPosts       \* bound on the posts of a tab

ASSUME RunnerAssumption == MaxPosts \in Nat

VARIABLES
  pending,    \* the action of the dialog that is open
  typed,      \* its confirm string has been typed
  busy,
  waiting,    \* posts under way, as <<number, action, whether confirmed by its dialog>>
  posted      \* posts so far

runnerVars == <<pending, typed, busy, waiting, posted>>

Dialogs == OtherActions \cup DestructiveActions

RunnerInit ==
  /\ pending = NoDialog /\ typed = FALSE /\ busy = FALSE
  /\ waiting = {} /\ posted = 0

PostOf(a, gated) == posted' = posted + 1 /\ waiting' = waiting \cup {<<posted + 1, a, gated>>}

\* run: a safe action is posted at once.
RunSafe(a) ==
  /\ posted < MaxPosts /\ PostOf(a, FALSE)
  /\ UNCHANGED <<pending, typed, busy>>

\* run: any other opens its dialog, over whatever dialog is open or waits (the palette
\* opens over a dialog).
RunGated(a) ==
  /\ pending' = a /\ typed' = FALSE
  /\ UNCHANGED <<busy, waiting, posted>>

\* The text typed fits the dialog that is open.
TypeConfirm ==
  /\ pending \in DestructiveActions /\ typed' = TRUE
  /\ UNCHANGED <<pending, busy, waiting, posted>>

\* A slip: cancelling ends the wait.
CancelForgets ==
  /\ pending # NoDialog /\ pending' = NoDialog /\ busy' = FALSE
  /\ UNCHANGED <<typed, waiting, posted>>

\* Cancel, also while the post is under way.
Cancel ==
  /\ pending # NoDialog /\ pending' = NoDialog
  /\ UNCHANGED <<typed, busy, waiting, posted>>

\* execute, behind the button's condition.
Execute ==
  /\ pending # NoDialog /\ ~busy
  /\ pending \in DestructiveActions => typed
  /\ posted < MaxPosts /\ PostOf(pending, TRUE)
  /\ busy' = TRUE
  /\ UNCHANGED <<pending, typed>>

\* The answer to a dialog's post closes the dialog that is open by now.
AnswerComes(m) ==
  /\ m \in waiting /\ waiting' = waiting \ {m}
  /\ IF m[3] THEN busy' = FALSE /\ pending' = NoDialog ELSE UNCHANGED <<busy, pending>>
  /\ UNCHANGED <<typed, posted>>

\* fetch rejects: execute ends before it sets anything.
FetchRejects(m) ==
  /\ m \in waiting /\ waiting' = waiting \ {m}
  /\ UNCHANGED <<pending, typed, busy, posted>>

Reload ==
  /\ pending' = NoDialog /\ typed' = FALSE /\ busy' = FALSE /\ waiting' = {}
  /\ UNCHANGED posted

RunnerNext ==
  \/ \E a \in SafeActions : RunSafe(a)
  \/ \E a \in Dialogs : RunGated(a)
  \/ TypeConfirm \/ Cancel \/ Execute \/ Reload
  \/ \E m \in waiting : AnswerComes(m) \/ FetchRejects(m)

RunnerSpec == RunnerInit /\ [][RunnerNext]_runnerVars

-----------------------------------------------------------------------------
(* Properties. *)

RunnerTypes ==
  /\ pending \in Dialogs \cup {NoDialog} /\ {typed, busy} \subseteq BOOLEAN
  /\ posted \in 0 .. MaxPosts
  /\ \A m \in waiting : m[1] \in 1 .. posted /\ m[2] \in SafeActions \cup Dialogs

\* A tab waits for one confirmed action at a time, whatever dialogs are opened,
\* cancelled and closed by answers meanwhile.
OneAtATime == \A m, n \in waiting : m[3] /\ n[3] => m = n
=============================================================================
