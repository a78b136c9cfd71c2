------------------------------ MODULE NewMedia ------------------------------
(***************************************************************************)
(* The plex-recent poll of one library section and the detector that turns *)
(* its snapshots into pushes (poller/clients/plex-recent.ts,               *)
(* poller/new-media.ts).  A title is what a ratingKey names: a movie, or a *)
(* series its episodes are rolled up to.                                   *)
(***************************************************************************)
EXTENDS Integers, FiniteSets

CONSTANTS
  Titles,
  Top,             \* titles of a section that are looked at: 15
  Undefined,       \* what is not there yet
  MaxShelfChanges, \* bound on the changes of the library
  MaxMediaFaults   \* bound on failing fetches and restarts

ASSUME NewMediaAssumption ==
  /\ Top \in Nat \ {0} /\ Undefined \notin Titles
  /\ MaxShelfChanges \in Nat /\ MaxMediaFaults \in Nat

VARIABLES
  shelf,      \* shelf[t]: the addedAt of t in the section, 0 if it is not there
  changes,
  fetched,    \* the snapshot of the poll under way
  seen,       \* seen.get(kind)
  outbox,     \* events detected and not yet pushed
  mediaFaults,
  told,       \* titles pushed by this process (a history)
  base,       \* titles of this process's first poll (a history)
  listed      \* titles pushed and in the window of every poll since (a history)

mediaHistory == <<told, base, listed>>
mediaVars == <<shelf, changes, fetched, seen, outbox, mediaFaults, mediaHistory>>

Nothing == {Undefined}
Unseeded == {Undefined}

MediaInit ==
  /\ shelf = [t \in Titles |-> 0] /\ changes = 0
  /\ fetched = Nothing /\ seen = Unseeded /\ outbox = {}
  /\ mediaFaults = 0
  /\ told = {} /\ base = {} /\ listed = {}

\* parseRecentlyAdded, sorted and cut.
Newest15(s) == {t \in Titles : s[t] > 0 /\ Cardinality({x \in Titles : s[x] > s[t]}) < Top}

-----------------------------------------------------------------------------
(* The library. *)

ShelfBecomes(s) ==
  /\ changes < MaxShelfChanges /\ changes' = changes + 1
  /\ shelf' = s
  /\ listed' = listed \cap Newest15(s)
  /\ UNCHANGED <<fetched, seen, outbox, mediaFaults, told, base>>

\* A title is added; or a new episode brings its series to the front.
AddTitle(t) == shelf[t] = 0 /\ ShelfBecomes([shelf EXCEPT ![t] = changes + 1])
AddEpisode(t) == shelf[t] > 0 /\ ShelfBecomes([shelf EXCEPT ![t] = changes + 1])
RemoveTitle(t) == shelf[t] > 0 /\ ShelfBecomes([shelf EXCEPT ![t] = 0])

-----------------------------------------------------------------------------
(* The worker. *)

PlexIdle == fetched = Nothing /\ outbox = {}

FetchSection ==
  /\ PlexIdle
  /\ fetched' = Newest15(shelf)
  /\ UNCHANGED <<shelf, changes, seen, outbox, mediaFaults, mediaHistory>>

\* The section is not found, or its feed fails: the poll is a success all the
\* same, with an empty section.
SectionBlank ==
  /\ PlexIdle
  /\ mediaFaults < MaxMediaFaults /\ mediaFaults' = mediaFaults + 1
  /\ fetched' = {} /\ listed' = {}
  /\ UNCHANGED <<shelf, changes, seen, outbox, told, base>>

\* A slip: a section without titles counts as one not seen yet.
FirstOrEmpty(prior) == prior = Unseeded \/ prior = {}
FirstTime(prior) == prior = Unseeded

Detect ==
  /\ fetched # Nothing
  /\ outbox' = IF FirstTime(seen) THEN {} ELSE fetched \ seen
  /\ base' = IF seen = Unseeded THEN fetched ELSE base
  /\ seen' = fetched /\ fetched' = Nothing
  /\ UNCHANGED <<shelf, changes, mediaFaults, told, listed>>

\* One after the other, which the properties do not tell apart; one that fails is
\* logged and forgotten.
Announce(t) ==
  /\ t \in outbox /\ outbox' = outbox \ {t}
  /\ told' = told \cup {t}
  /\ listed' = listed \cup ({t} \cap Newest15(shelf))
  /\ UNCHANGED <<shelf, changes, fetched, seen, mediaFaults, base>>

\* The section list, or all of Plex, fails: ok is false and nothing is detected.
PollFails ==
  /\ PlexIdle
  /\ mediaFaults < MaxMediaFaults /\ mediaFaults' = mediaFaults + 1
  /\ UNCHANGED <<shelf, changes, fetched, seen, outbox, mediaHistory>>

MediaRestart ==
  /\ mediaFaults < MaxMediaFaults /\ mediaFaults' = mediaFaults + 1
  /\ fetched' = Nothing /\ seen' = Unseeded /\ outbox' = {}
  /\ told' = {} /\ base' = {}
  /\ UNCHANGED <<shelf, changes, listed>>

MediaNext ==
  \/ \E t \in Titles : AddTitle(t) \/ AddEpisode(t) \/ RemoveTitle(t) \/ Announce(t)
  \/ FetchSection \/ SectionBlank \/ Detect \/ PollFails \/ MediaRestart

MediaSpec == MediaInit /\ [][MediaNext]_mediaVars

-----------------------------------------------------------------------------
(* Properties. *)

MediaTypes ==
  /\ shelf \in [Titles -> 0 .. MaxShelfChanges] /\ changes \in 0 .. MaxShelfChanges
  /\ fetched \in (SUBSET Titles) \cup {Nothing} /\ seen \in (SUBSET Titles) \cup {Unseeded}
  /\ mediaFaults \in 0 .. MaxMediaFaults
  /\ outbox \cup told \cup base \cup listed \subseteq Titles

\* No title slips by: what the detector has seen was there at the first poll of
\* its process, or is pushed.
NoTitleMissed == seen # Unseeded => seen \subseteq base \cup told \cup outbox

\* While a title stays among the newest of its section in every poll, it is not pushed
\* again, whether polls fail or the worker restarts.  (`listed` is emptied by a poll that
\* takes the section for empty, and loses a title that leaves the newest: such a title is
\* pushed again when it comes back, see OnlyNotifiesOnce.)
NotToldAgain == outbox \cap listed = {}

\* A title is pushed when it comes, and not again while every poll lists it.
ToldOnceWhileListed == NoTitleMissed /\ NotToldAgain

\* poller/index.ts of the one detector of a process: it "holds the per-section seen-set so
\* a new title only notifies once".
OnlyNotifiesOnce == outbox \cap told = {}
=============================================================================
