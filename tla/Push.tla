-------------------------------- MODULE Push --------------------------------
(***************************************************************************)
(* Web push: the subscriptions of the users' devices, their preferences,   *)
(* and the fan-out of an event (lib/notifications/, app/api/notifications/,*)
(* public/sw.js).  The worker fans events out while the server stores      *)
(* subscriptions and preferences and sends tests; every await of a fan-out *)
(* is a step.  One event type is followed.                                 *)
(***************************************************************************)
EXTENDS Integers, FiniteSets

CONSTANTS
  People,         \* users
  Devices,        \* browsers
  MaxEndpoints,   \* bound on the endpoints a device is ever given
  MaxToggles,     \* bound on the toggles of preferences
  MaxPushes       \* bound on the fan-outs

ASSUME PushAssumption == {MaxEndpoints, MaxToggles, MaxPushes} \subseteq Nat

VARIABLES
  endpoint,   \* endpoint[d]: the subscription the push service has of device d, 0 for none
  subscribed, \* the rows of push_subscriptions, as <<user, device, endpoint>>
  prefs,      \* prefs[u]: what the stored preferences of u say of the event type
  fan,        \* fan[p]: the fan-out of process p
  toggles, pushes,
  kept,       \* rows whose device was told it is subscribed (a history)
  willing     \* users who wanted the event at some time of the worker's fan-out (a history)

pushHistory == <<kept, willing>>
pushVars == <<endpoint, subscribed, prefs, fan, toggles, pushes, pushHistory>>

Processes == {"worker", "server"}

\* todo: rows of getAllSubscriptions still to come; row: the one that is sent to; dead:
\* its endpoint is to be pruned; cache: the preferences read so far, as <<user, wanted>>.
NoFan == [todo |-> {}, row |-> {}, dead |-> FALSE, cache |-> {}]

PushInit ==
  /\ endpoint = [d \in Devices |-> 0]
  /\ subscribed = {}
  /\ prefs = [u \in People |-> TRUE]
  /\ fan = [p \in Processes |-> NoFan]
  /\ toggles = 0 /\ pushes = 0
  /\ kept = {} /\ willing = {}

Registered == People \X Devices \X (1 .. MaxEndpoints)
Live(r) == endpoint[r[2]] = r[3]

-----------------------------------------------------------------------------
(* The settings page, and its routes. *)

\* pushManager.subscribe gives a device the endpoint it has, or a new one.
EnablePush(u, d) ==
  /\ endpoint[d] > 0
  /\ subscribed' = subscribed \cup {<<u, d, endpoint[d]>>}
  /\ kept' = kept \cup {<<u, d, endpoint[d]>>}
  /\ UNCHANGED <<endpoint, prefs, fan, toggles, pushes, willing>>

\* The browser drops its subscription and takes another one.
EndpointChanges(d) ==
  /\ endpoint[d] < MaxEndpoints
  /\ endpoint' = [endpoint EXCEPT ![d] = @ + 1]
  /\ kept' = {r \in kept : r[2] # d}
  /\ UNCHANGED <<subscribed, prefs, fan, toggles, pushes, willing>>

Unsubscribe(r) ==
  /\ r \in subscribed
  /\ subscribed' = subscribed \ {r} /\ kept' = kept \ {r}
  /\ UNCHANGED <<endpoint, prefs, fan, toggles, pushes, willing>>

Willing == {u \in People : prefs[u]}

\* The whole object of a form is stored, whatever the form was when it was loaded.
SetUserPreferences(u, wanted) ==
  /\ toggles < MaxToggles /\ toggles' = toggles + 1
  /\ prefs' = [prefs EXCEPT ![u] = wanted]
  /\ willing' = willing \cup IF wanted THEN {u} ELSE {}
  /\ UNCHANGED <<endpoint, subscribed, fan, pushes, kept>>

-----------------------------------------------------------------------------
(* The fan-out. *)

Fanning(p) == fan[p].todo # {} \/ fan[p].row # {}
Fans(p, f) == fan' = [fan EXCEPT ![p] = IF f.todo = {} /\ f.row = {} THEN NoFan ELSE f]

\* sendPush: everybody's subscriptions.
SendPush ==
  /\ ~Fanning("worker") /\ subscribed # {}
  /\ pushes < MaxPushes /\ pushes' = pushes + 1
  /\ Fans("worker", [NoFan EXCEPT !.todo = subscribed])
  /\ willing' = Willing
  /\ UNCHANGED <<endpoint, subscribed, prefs, toggles, kept>>

\* sendPushToUser: the test button, whatever the preferences.
SendPushToUser(u) ==
  /\ ~Fanning("server")
  /\ pushes < MaxPushes /\ pushes' = pushes + 1
  /\ \E r \in subscribed : r[1] = u
  /\ Fans("server", [NoFan EXCEPT !.todo = {r \in subscribed : r[1] = u},
                                  !.cache = {<<u, TRUE>>}])
  /\ UNCHANGED <<endpoint, subscribed, prefs, toggles, pushHistory>>

Cached(p, u) == {c[2] : c \in {c \in fan[p].cache : c[1] = u}}

\* getUserPreferences, once for a user.
ReadPreferences(p, r) ==
  /\ r \in fan[p].todo /\ fan[p].row = {} /\ Cached(p, r[1]) = {}
  /\ Fans(p, [fan[p] EXCEPT !.cache = @ \cup {<<r[1], prefs[r[1]]>>}])
  /\ UNCHANGED <<endpoint, subscribed, prefs, toggles, pushes, pushHistory>>

Takes(p, r) ==
  /\ r \in fan[p].todo /\ fan[p].row = {}
  /\ \E wanted \in Cached(p, r[1]) :
       Fans(p, [fan[p] EXCEPT !.todo = @ \ {r}, !.row = IF wanted THEN {r} ELSE {}])
  /\ UNCHANGED <<endpoint, subscribed, prefs, toggles, pushes, pushHistory>>

\* A slip: a push service that fails has lost the subscription.
AnyFailure(code) == code # 201
DeadSubscription(code) == code \in {404, 410}

\* The push service takes it for an endpoint that lives, and may fail at any.
Deliver(p, r) ==
  /\ fan[p].row = {r} /\ ~fan[p].dead
  /\ \E code \in IF Live(r) THEN {201, 503} ELSE {410, 503} :
       Fans(p, IF DeadSubscription(code) THEN [fan[p] EXCEPT !.dead = TRUE] ELSE [fan[p] EXCEPT !.row = {}])
  /\ UNCHANGED <<endpoint, subscribed, prefs, toggles, pushes, pushHistory>>

\* removeSubscriptionByEndpoint: of whoever owns it.
Prune(p, r) ==
  /\ fan[p].row = {r} /\ fan[p].dead
  /\ subscribed' = {x \in subscribed : <<x[2], x[3]>> # <<r[2], r[3]>>}
  /\ Fans(p, [fan[p] EXCEPT !.row = {}, !.dead = FALSE])
  /\ UNCHANGED <<endpoint, prefs, toggles, pushes, pushHistory>>

PushNext ==
  \/ \E u \in People :
       \/ \E d \in Devices : EnablePush(u, d)
       \/ \E wanted \in BOOLEAN : SetUserPreferences(u, wanted)
       \/ SendPushToUser(u)
  \/ \E d \in Devices : EndpointChanges(d)
  \/ \E r \in Registered : Unsubscribe(r)
  \/ SendPush
  \/ \E p \in Processes, r \in Registered :
       ReadPreferences(p, r) \/ Takes(p, r) \/ Deliver(p, r) \/ Prune(p, r)

PushSpec == PushInit /\ [][PushNext]_pushVars

-----------------------------------------------------------------------------
(* Properties. *)

PushTypes ==
  /\ endpoint \in [Devices -> 0 .. MaxEndpoints] /\ subscribed \cup kept \subseteq Registered
  /\ prefs \in [People -> BOOLEAN] /\ willing \subseteq People
  /\ toggles \in 0 .. MaxToggles /\ pushes \in 0 .. MaxPushes
  /\ \A p \in Processes : fan[p].todo \cup fan[p].row \subseteq Registered

\* A device whose push was enabled stays subscribed as long as its endpoint lives and
\* nobody unsubscribes it, however pushes fail and endpoints of others are pruned; and
\* an event is sent to those only who wanted it at some time of its fan-out.
PushReaches ==
  /\ kept \subseteq subscribed
  /\ \A r \in fan["worker"].row : r[1] \in willing
=============================================================================
