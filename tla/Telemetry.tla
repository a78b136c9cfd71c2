----------------------------- MODULE Telemetry -----------------------------
(***************************************************************************)
(* The live feed: daemons that send numbered UDP datagrams, the listener   *)
(* that keeps the freshest one of every feed (telemetry-listener.ts), the  *)
(* WebSocket server that sends every change to all tabs (telemetry-ws.ts), *)
(* and the provider of a tab, which reconnects for ever                    *)
(* (telemetry-provider.tsx).                                               *)
(*                                                                         *)
(* A datagram is its feed, daemon run and sequence number; the payload is  *)
(* left out, as are datagrams that do not parse, which ingest() drops.     *)
(* Time is an age: a tick is 500 ms, the period of the listener's timer.   *)
(* sent_ts grows along a run and from a run to the next, so the order of   *)
(* sent_ts is that of (run, seq).                                          *)
(***************************************************************************)
EXTENDS Integers, FiniteSets, Sequences

CONSTANTS
  Nas,          \* the feed of kind nas-telemetry
  Boxes,        \* the feeds of kind machine-stats, one per box
  Tabs,         \* browser tabs
  StaleFactor,  \* STALE_FACTOR
  Interval,     \* interval_ms of the daemons, in ticks
  ResetDrop,    \* RUN_RESET_SEQ_DROP
  MinBackoff, MaxBackoff,
  None,         \* no snapshot
  MaxRun, MaxSeq, \* bounds on daemon restarts and on the datagrams of a run
  InFlight,     \* bound on the datagrams of a feed under way
  MaxPipe,      \* bound on the frames under way to a tab
  MaxBreaks     \* bound on server restarts and on connections that break

Feeds == {Nas} \cup Boxes
Window == StaleFactor * Interval
Ages == 0 .. Window + 2   \* Window + 2 stands for any greater age
Older(age) == IF age < Window + 2 THEN age + 1 ELSE age

Datagram == [feed : Feeds, run : 0 .. MaxRun, seq : 0 .. MaxSeq - 1, age : Ages]
Snapshot == [run : 0 .. MaxRun, seq : 0 .. MaxSeq - 1, age : Ages, connected : BOOLEAN]
View == [run : 0 .. MaxRun, seq : 0 .. MaxSeq - 1, connected : BOOLEAN]
Frame == [Feeds -> View \cup {None}]

ASSUME FeedsAssumption == Nas \notin Boxes /\ None \notin Snapshot \cup View
ASSUME NumbersAssumption ==
  /\ StaleFactor \in Nat \ {0} /\ Interval \in Nat \ {0} /\ ResetDrop \in Nat
  /\ MinBackoff \in Nat \ {0} /\ MaxBackoff \in Nat /\ MinBackoff <= MaxBackoff
  /\ MaxRun \in Nat /\ MaxSeq \in Nat /\ InFlight \in Nat /\ MaxPipe \in Nat \ {0} /\ MaxBreaks \in Nat

VARIABLES
  daemon,   \* daemon[f]: the run of f's daemon and the seq it sends next
  net,      \* the datagrams under way
  held,     \* held[f]: the listener's snapshot of f, or None
  timerRan, \* the stale timer has fired in this tick
  ignored,  \* ignored[f]: datagrams newer than held[f] refused since it was taken (a history)
  clients,  \* the sockets of the server, by tab
  alive,    \* alive[t]: the heartbeat's flag of t's socket
  pipe,     \* pipe[t]: the frames under way to t
  cut,      \* the tabs whose connection is dead without either end knowing
  sock,     \* sock[t]: the socket as the tab sees it
  backoff,  \* backoff[t]
  value,    \* value[t]: the context value of t's provider
  breaks

feedVars == <<daemon, net>>
listenVars == <<held, timerRan, ignored>>
wsVars == <<clients, alive, cut>>
tabVars == <<sock, backoff, value>>
vars == <<feedVars, listenVars, wsVars, tabVars, pipe, breaks>>

NothingSeen == [f \in Feeds |-> None]
Empty == [live |-> FALSE, socketOpen |-> FALSE, seen |-> NothingSeen]

Init ==
  /\ daemon = [f \in Feeds |-> [run |-> 0, next |-> 0]]
  /\ net = {}
  /\ held = [f \in Feeds |-> None]
  /\ timerRan = FALSE
  /\ ignored = [f \in Feeds |-> {}]
  /\ clients = {} /\ cut = {}
  /\ alive = [t \in Tabs |-> TRUE]
  /\ pipe = [t \in Tabs |-> <<>>]
  /\ sock = [t \in Tabs |-> "gone"]
  /\ backoff = [t \in Tabs |-> MinBackoff]
  /\ value = [t \in Tabs |-> Empty]
  /\ breaks = 0

-----------------------------------------------------------------------------
(* The daemons and the network. *)

Send(f) ==
  /\ daemon[f].next < MaxSeq
  /\ Cardinality({d \in net : d.feed = f}) < InFlight
  /\ net' = net \cup {[feed |-> f, run |-> daemon[f].run, seq |-> daemon[f].next, age |-> 0]}
  /\ daemon' = [daemon EXCEPT ![f].next = @ + 1]
  /\ UNCHANGED <<listenVars, wsVars, tabVars, pipe, breaks>>

Lose(d) ==
  /\ net' = net \ {d}
  /\ UNCHANGED <<daemon, listenVars, wsVars, tabVars, pipe, breaks>>

DaemonRestarts(f) ==
  /\ daemon[f].run < MaxRun
  /\ daemon' = [daemon EXCEPT ![f] = [run |-> @.run + 1, next |-> 0]]
  /\ UNCHANGED <<net, listenVars, wsVars, tabVars, pipe, breaks>>

\* 500 ms pass; the timer has fired in the last ones.
Tick ==
  /\ timerRan /\ timerRan' = FALSE
  /\ net' = {[d EXCEPT !.age = Older(@)] : d \in net}
  /\ held' = [f \in Feeds |-> IF held[f] = None THEN None
                              ELSE [held[f] EXCEPT !.age = Older(@)]]
  /\ UNCHANGED <<daemon, ignored, wsVars, tabVars, pipe, breaks>>

-----------------------------------------------------------------------------
(* The listener and its only subscriber, the fan-out. *)

StateOf(h) ==
  [f \in Feeds |-> IF h[f] = None THEN None
                   ELSE [run |-> h[f].run, seq |-> h[f].seq, connected |-> h[f].connected]]

\* A slip: a client is skipped whose last ping is not answered yet.
EmitToAnswering(h) ==
  /\ \A t \in clients \ cut : Len(pipe[t]) < MaxPipe
  /\ pipe' = [t \in Tabs |-> IF t \in clients \ cut /\ alive[t]
                             THEN Append(pipe[t], StateOf(h)) ELSE pipe[t]]

\* emit(): one frame with the whole state to every client, in order; what is
\* sent into a dead connection is lost.
Emit(h) ==
  /\ \A t \in clients \ cut : Len(pipe[t]) < MaxPipe
  /\ pipe' = [t \in Tabs |-> IF t \in clients \ cut THEN Append(pipe[t], StateOf(h)) ELSE pipe[t]]

Later(d, prev) == d.run > prev.run \/ (d.run = prev.run /\ d.seq > prev.seq)

\* Slips of the test: a big drop alone is a restart; nothing is.
AcceptAnyBigDrop(prev, d) ==
  \/ prev = None
  \/ d.seq > prev.seq
  \/ prev.seq - d.seq > ResetDrop
AcceptHigherOnly(prev, d) == prev = None \/ d.seq > prev.seq

\* Highest seq wins, except that a big drop with a later sent_ts is a new run.
ShouldAccept(prev, d) ==
  \/ prev = None
  \/ d.seq > prev.seq
  \/ prev.seq - d.seq > ResetDrop /\ Later(d, prev)

\* A slip: the window is one tick too long.
IsStaleLate(age) == age > Window + 1
IsStale(age) == age > Window

Take(d) ==
  /\ held' = [held EXCEPT ![d.feed] =
                [run |-> d.run, seq |-> d.seq, age |-> d.age, connected |-> ~IsStale(d.age)]]
  /\ ignored' = [ignored EXCEPT ![d.feed] = {}]
  /\ Emit(held')

Refuse(d) ==
  /\ ignored' = [ignored EXCEPT ![d.feed] =
                   IF Later(d, held[d.feed]) THEN @ \cup {<<d.run, d.seq>>} ELSE @]
  /\ UNCHANGED <<held, pipe>>

\* A datagram arrives, and may arrive again.
Ingest(d) ==
  /\ net' \in {net, net \ {d}}
  /\ IF ShouldAccept(held[d.feed], d) THEN Take(d) ELSE Refuse(d)
  /\ UNCHANGED <<daemon, timerRan, wsVars, tabVars, breaks>>

GoneStale == {f \in Feeds : held[f] # None /\ held[f].connected /\ IsStale(held[f].age)}

\* A slip: the timer updates its flags and forgets to tell.
CheckStaleSilently ==
  /\ ~timerRan /\ timerRan' = TRUE
  /\ held' = [f \in Feeds |-> IF f \in GoneStale THEN [held[f] EXCEPT !.connected = FALSE]
                              ELSE held[f]]
  /\ UNCHANGED <<feedVars, ignored, pipe, wsVars, tabVars, breaks>>

CheckStale ==
  /\ ~timerRan /\ timerRan' = TRUE
  /\ held' = [f \in Feeds |-> IF f \in GoneStale THEN [held[f] EXCEPT !.connected = FALSE]
                              ELSE held[f]]
  /\ IF GoneStale # {} THEN Emit(held') ELSE UNCHANGED pipe
  /\ UNCHANGED <<feedVars, ignored, wsVars, tabVars, breaks>>

-----------------------------------------------------------------------------
(* Connections. *)

\* The handshake: the server knows the client and sends it the current state.
Accept(t) ==
  /\ sock[t] = "connecting"
  /\ sock' = [sock EXCEPT ![t] = "accepted"]
  /\ clients' = clients \cup {t}
  /\ alive' = [alive EXCEPT ![t] = TRUE]
  /\ pipe' = [pipe EXCEPT ![t] = <<StateOf(held)>>]
  /\ UNCHANGED <<feedVars, listenVars, cut, backoff, value, breaks>>

\* The heartbeat, every 30 s: a client that did not answer the last ping is
\* terminated.  A client that is reachable answers in that time.
Heartbeat ==
  /\ clients # {} /\ \A t \in clients \ cut : alive[t]
  /\ clients' = {t \in clients : alive[t]}
  /\ alive' = [t \in Tabs |-> IF t \in clients THEN FALSE ELSE alive[t]]
  /\ UNCHANGED <<feedVars, listenVars, cut, tabVars, pipe, breaks>>

Pong(t) ==
  /\ t \in clients \ cut /\ ~alive[t]
  /\ alive' = [alive EXCEPT ![t] = TRUE]
  /\ UNCHANGED <<feedVars, listenVars, clients, cut, tabVars, pipe, breaks>>

\* The network drops a connection without a close frame.
CutOff(t) ==
  /\ breaks < MaxBreaks /\ breaks' = breaks + 1
  /\ sock[t] \in {"accepted", "open"}
  /\ cut' = cut \cup {t}
  /\ pipe' = [pipe EXCEPT ![t] = <<>>]
  /\ UNCHANGED <<feedVars, listenVars, clients, alive, tabVars>>

-----------------------------------------------------------------------------
(* The provider of tab t. *)

SocketUp(t) == sock[t] \in {"connecting", "accepted", "open"}

\* onopen
BrowserOpen(t) ==
  /\ sock[t] = "accepted" /\ t \notin cut
  /\ sock' = [sock EXCEPT ![t] = "open"]
  /\ backoff' = [backoff EXCEPT ![t] = MinBackoff]
  /\ value' = [value EXCEPT ![t].socketOpen = TRUE]
  /\ UNCHANGED <<feedVars, listenVars, wsVars, pipe, breaks>>

\* `connected` is the flag of the NAS feed.
Received(frame) ==
  [live |-> frame[Nas] # None /\ frame[Nas].connected, socketOpen |-> TRUE, seen |-> frame]

\* onmessage
BrowserMessage(t) ==
  /\ sock[t] = "open" /\ pipe[t] # <<>>
  /\ value' = [value EXCEPT ![t] = Received(Head(pipe[t]))]
  /\ pipe' = [pipe EXCEPT ![t] = Tail(@)]
  /\ UNCHANGED <<feedVars, listenVars, wsVars, sock, backoff, breaks>>

\* A slip: only the socket flag is dropped.
DownKeepsLive(v) == [v EXCEPT !.socketOpen = FALSE]

\* onDown keeps the last snapshots.
Down(v) == [v EXCEPT !.live = FALSE, !.socketOpen = FALSE]

\* onerror and onclose, which a failing socket fires one right after the other
\* and of which the second finds the timer armed; or the constructor throws.
OnDown(lost) ==
  /\ sock' = [t \in Tabs |-> IF t \in lost THEN "waiting" ELSE sock[t]]
  /\ value' = [t \in Tabs |-> IF t \in lost THEN Down(value[t]) ELSE value[t]]
  /\ pipe' = [t \in Tabs |-> IF t \in lost THEN <<>> ELSE pipe[t]]
  /\ UNCHANGED backoff

ConnectFails(t) ==
  /\ sock[t] = "connecting"
  /\ OnDown({t})
  /\ UNCHANGED <<feedVars, listenVars, wsVars, breaks>>

\* The connection breaks and the tab notices, of a cut one at some later time.
ConnectionLost(t) ==
  /\ sock[t] \in {"accepted", "open"}
  /\ t \in cut \/ breaks < MaxBreaks
  /\ breaks' = IF t \in cut THEN breaks ELSE breaks + 1
  /\ OnDown({t})
  /\ clients' = clients \ {t} /\ cut' = cut \ {t}
  /\ UNCHANGED <<feedVars, listenVars, alive>>

\* A slip: the delay doubles without a cap.
NextBackoffUncapped(b) == 2 * b
NextBackoff(b) == IF 2 * b < MaxBackoff THEN 2 * b ELSE MaxBackoff

\* A slip: the tab gives up at the longest delay.
ReconnectUntilCap(t) ==
  /\ sock[t] = "waiting" /\ backoff[t] < MaxBackoff
  /\ backoff' = [backoff EXCEPT ![t] = NextBackoff(@)]
  /\ sock' = [sock EXCEPT ![t] = "connecting"]
  /\ UNCHANGED <<feedVars, listenVars, wsVars, value, pipe, breaks>>

ReconnectTimer(t) ==
  /\ sock[t] = "waiting"
  /\ backoff' = [backoff EXCEPT ![t] = NextBackoff(@)]
  /\ sock' = [sock EXCEPT ![t] = "connecting"]
  /\ UNCHANGED <<feedVars, listenVars, wsVars, value, pipe, breaks>>

\* The tab is opened ...
Mount(t) ==
  /\ sock[t] = "gone"
  /\ sock' = [sock EXCEPT ![t] = "connecting"]
  /\ backoff' = [backoff EXCEPT ![t] = MinBackoff]
  /\ value' = [value EXCEPT ![t] = Empty]
  /\ UNCHANGED <<feedVars, listenVars, wsVars, pipe, breaks>>

\* ... and closed.
Dispose(t) ==
  /\ sock[t] # "gone"
  /\ sock' = [sock EXCEPT ![t] = "gone"]
  /\ value' = [value EXCEPT ![t] = Empty]
  /\ pipe' = [pipe EXCEPT ![t] = <<>>]
  /\ clients' = clients \ {t} /\ cut' = cut \ {t}
  /\ UNCHANGED <<feedVars, listenVars, alive, backoff, breaks>>

\* The server process is restarted: the snapshots are gone, and the sockets are
\* closed, of which those that are cut off do not learn.
ServerRestarts ==
  /\ breaks < MaxBreaks /\ breaks' = breaks + 1
  /\ held' = [f \in Feeds |-> None]
  /\ ignored' = [f \in Feeds |-> {}]
  /\ timerRan' = FALSE
  /\ OnDown({t \in Tabs \ cut : SocketUp(t)})
  /\ clients' = {}
  /\ UNCHANGED <<feedVars, alive, cut>>

ServerStep == Tick \/ CheckStale \/ Heartbeat \/ ServerRestarts

TabStep(t) ==
  \/ Accept(t) \/ Pong(t) \/ CutOff(t)
  \/ BrowserOpen(t) \/ BrowserMessage(t)
  \/ ConnectFails(t) \/ ConnectionLost(t) \/ ReconnectTimer(t)
  \/ Mount(t) \/ Dispose(t)

Next ==
  \/ \E f \in Feeds : Send(f) \/ DaemonRestarts(f)
  \/ \E d \in net : Ingest(d) \/ Lose(d)
  \/ ServerStep
  \/ \E t \in Tabs : TabStep(t)

Spec == Init /\ [][Next]_vars

\* Timers fire, frames on a live connection arrive, and a server that can be
\* reached again and again is reached in the end.
Fairness ==
  /\ WF_vars(Tick) /\ WF_vars(CheckStale)
  /\ \A t \in Tabs :
       /\ WF_vars(BrowserOpen(t)) /\ WF_vars(BrowserMessage(t))
       /\ WF_vars(ReconnectTimer(t)) /\ SF_vars(Accept(t))

FairSpec == Spec /\ Fairness

-----------------------------------------------------------------------------
(* What the panels read. *)

NasLive(t) == value[t].live

-----------------------------------------------------------------------------
(* Properties. *)

TypeOK ==
  /\ daemon \in [Feeds -> [run : 0 .. MaxRun, next : 0 .. MaxSeq]]
  /\ net \subseteq Datagram
  /\ held \in [Feeds -> Snapshot \cup {None}]
  /\ timerRan \in BOOLEAN
  /\ ignored \in [Feeds -> SUBSET ((0 .. MaxRun) \X (0 .. MaxSeq - 1))]
  /\ clients \subseteq Tabs /\ cut \subseteq Tabs
  /\ alive \in [Tabs -> BOOLEAN]
  /\ pipe \in [Tabs -> Seq(Frame)] /\ \A t \in Tabs : Len(pipe[t]) <= MaxPipe
  /\ sock \in [Tabs -> {"gone", "connecting", "accepted", "open", "waiting"}]
  /\ backoff \in [Tabs -> MinBackoff .. MaxBackoff]
  /\ value \in [Tabs -> [live : BOOLEAN, socketOpen : BOOLEAN, seen : Frame]]
  /\ breaks \in 0 .. MaxBreaks

\* Datagrams may be lost, repeated, delayed and reordered: within a run of the
\* daemon the listener never goes back to an older snapshot.
NeverStepsBack ==
  [][\A f \in Feeds : held[f] # None /\ held'[f] # None /\ held'[f].run = held[f].run
        => held'[f].seq >= held[f].seq]_vars

\* A restarted daemon is not ignored for ever: whatever the listener holds, of
\* the later datagrams of one run it refuses at most ResetDrop + 1 before it
\* takes one.
IgnoredAtMost ==
  \A f \in Feeds : \A r \in 0 .. MaxRun :
    Cardinality({n \in ignored[f] : n[1] = r}) <= ResetDrop + 1

\* A feed that has gone silent is marked disconnected by the first timer event
\* after its window, though no datagram ever comes.
SilenceShown ==
  \A f \in Feeds : held[f] # None /\ held[f].connected => held[f].age <= Window + 1

\* A tab whose connection works has the state of the listener as soon as no
\* frame is under way, at whatever moment it connected.
TabsAgree ==
  \A t \in Tabs : sock[t] = "open" /\ t \notin cut /\ pipe[t] = <<>> =>
    /\ value[t].seen = StateOf(held)
    /\ value[t].live = (held[Nas] # None /\ held[Nas].connected)

\* The panels of the NAS never show the feed as live on a socket that the tab
\* knows to be closed, and no working socket is reaped.
LiveNeedsSocket ==
  \A t \in Tabs :
    /\ NasLive(t) => value[t].socketOpen /\ sock[t] = "open"
    /\ sock[t] \in {"accepted", "open"} /\ t \notin cut => t \in clients

\* A tab whose connection works stops showing the feed as live once it is
\* silent for good.
SilenceReachesTheTab ==
  \A t \in Tabs :
    <>[](sock[t] = "open" /\ t \notin cut /\ (held[Nas] = None \/ IsStale(held[Nas].age)))
      => <>[](~NasLive(t))

\* A tab that stays open is connected again and again, whatever breaks.
Reconnects == \A t \in Tabs : []<>(sock[t] \in {"gone", "open", "accepted"})
=============================================================================
