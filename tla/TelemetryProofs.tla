-------------------------- MODULE TelemetryProofs --------------------------
(***************************************************************************)
(* What holds of the telemetry listener for every number of feeds, tabs,   *)
(* restarts and datagrams, and every window and reset threshold.           *)
(***************************************************************************)
EXTENDS Telemetry, FiniteSetTheorems, TLAPS

\* The listener's part of the type invariant.
ListenerTypes ==
  /\ daemon \in [Feeds -> [run : 0 .. MaxRun, next : 0 .. MaxSeq]]
  /\ net \subseteq Datagram
  /\ held \in [Feeds -> Snapshot \cup {None}]
  /\ timerRan \in BOOLEAN

LEMMA WindowType == Window \in Nat
BY NumbersAssumption DEF Window

LEMMA OlderType == ASSUME NEW age \in Ages PROVE Older(age) \in Ages
BY WindowType DEF Older, Ages

LEMMA OlderDatagram ==
  ASSUME NEW d \in Datagram PROVE [d EXCEPT !.age = Older(d.age)] \in Datagram
<1>1. d.age \in Ages
  BY DEF Datagram
<1>2. Older(d.age) \in Ages
  BY <1>1, OlderType
<1>. QED BY <1>2 DEF Datagram

LEMMA OlderSnapshot ==
  ASSUME NEW s \in Snapshot
  PROVE  /\ [s EXCEPT !.age = Older(s.age)] \in Snapshot
         /\ [s EXCEPT !.age = Older(s.age)].age = Older(s.age)
         /\ [s EXCEPT !.age = Older(s.age)].run = s.run
         /\ [s EXCEPT !.age = Older(s.age)].seq = s.seq
         /\ [s EXCEPT !.age = Older(s.age)].connected = s.connected
<1>1. s.age \in Ages
  BY DEF Snapshot
<1>2. Older(s.age) \in Ages
  BY <1>1, OlderType
<1>. QED BY <1>2 DEF Snapshot

LEMMA MarkedSnapshot ==
  ASSUME NEW s \in Snapshot
  PROVE  /\ [s EXCEPT !.connected = FALSE] \in Snapshot
         /\ [s EXCEPT !.connected = FALSE].run = s.run
         /\ [s EXCEPT !.connected = FALSE].seq = s.seq
         /\ [s EXCEPT !.connected = FALSE].connected = FALSE
BY DEF Snapshot

\* The snapshot taken from a datagram.
Taken(d) == [run |-> d.run, seq |-> d.seq, age |-> d.age, connected |-> ~IsStale(d.age)]

LEMMA TakenType == ASSUME NEW d \in Datagram PROVE Taken(d) \in Snapshot /\ d.feed \in Feeds
BY DEF Taken, Datagram, Snapshot, IsStale

LEMMA TakenFields ==
  ASSUME NEW d PROVE Taken(d).age = d.age /\ Taken(d).connected = ~IsStale(d.age)
BY DEF Taken

LEMMA SentType ==
  ASSUME ListenerTypes, NEW f \in Feeds, Send(f)
  PROVE  daemon' \in [Feeds -> [run : 0 .. MaxRun, next : 0 .. MaxSeq]] /\ net' \subseteq Datagram
<1> DEFINE d == [feed |-> f, run |-> daemon[f].run, seq |-> daemon[f].next, age |-> 0]
<1>1. daemon[f] \in [run : 0 .. MaxRun, next : 0 .. MaxSeq]
  BY DEF ListenerTypes
<1>2. daemon[f].run \in 0 .. MaxRun /\ daemon[f].next \in 0 .. MaxSeq - 1
  BY <1>1, NumbersAssumption DEF Send
<1>3. d \in Datagram
  BY <1>2, WindowType DEF Datagram, Ages
<1>4. net' \subseteq Datagram
  BY <1>3 DEF Send, ListenerTypes
<1>5. [daemon[f] EXCEPT !.next = daemon[f].next + 1] \in [run : 0 .. MaxRun, next : 0 .. MaxSeq]
  BY <1>1, <1>2, NumbersAssumption
<1>6. daemon' = [daemon EXCEPT ![f] = [daemon[f] EXCEPT !.next = daemon[f].next + 1]]
  BY DEF Send
<1>. QED BY <1>4, <1>5, <1>6 DEF ListenerTypes

LEMMA RestartedType ==
  ASSUME ListenerTypes, NEW f \in Feeds, DaemonRestarts(f)
  PROVE  daemon' \in [Feeds -> [run : 0 .. MaxRun, next : 0 .. MaxSeq]]
<1>1. daemon[f] \in [run : 0 .. MaxRun, next : 0 .. MaxSeq]
  BY DEF ListenerTypes
<1>2. daemon[f].run + 1 \in 0 .. MaxRun /\ 0 \in 0 .. MaxSeq
  BY <1>1, NumbersAssumption DEF DaemonRestarts
<1>3. [run |-> daemon[f].run + 1, next |-> 0] \in [run : 0 .. MaxRun, next : 0 .. MaxSeq]
  BY <1>2
<1>4. daemon' = [daemon EXCEPT ![f] = [run |-> daemon[f].run + 1, next |-> 0]]
  BY DEF DaemonRestarts
<1>. QED BY <1>3, <1>4 DEF ListenerTypes

-----------------------------------------------------------------------------
(* A silent feed is marked in time.  The inductive invariant knows whether *)
(* the timer has fired in the current tick: after it has, no connected     *)
(* snapshot is past its window.                                            *)

InTime(f) ==
  held[f] # None /\ held[f].connected =>
    held[f].age <= Window + 1 /\ (timerRan => held[f].age <= Window)

ListenerInv == ListenerTypes /\ \A f \in Feeds : InTime(f)

LEMMA TickInv == ASSUME ListenerInv, Tick PROVE ListenerInv'
<1> USE DEF ListenerInv, ListenerTypes
<1>1. net' \subseteq Datagram
  BY OlderDatagram DEF Tick
<1>2. ASSUME NEW f \in Feeds
      PROVE  held'[f] \in Snapshot \cup {None} /\ InTime(f)'
  <2>1. held'[f] = IF held[f] = None THEN None ELSE [held[f] EXCEPT !.age = Older(held[f].age)]
    BY DEF Tick
  <2>2. CASE held[f] = None
    BY <2>1, <2>2 DEF InTime
  <2>3. CASE held[f] # None
    <3>1. held[f] \in Snapshot
      BY <2>3
    <3>2. /\ held'[f] \in Snapshot /\ held'[f].age = Older(held[f].age)
          /\ held'[f].connected = held[f].connected
      BY <2>1, <2>3, <3>1, OlderSnapshot
    <3>3. held[f].age \in Ages
      BY <3>1 DEF Snapshot
    <3>4. held'[f].connected => held[f].age <= Window
      BY <2>3, <3>2 DEF InTime, Tick
    <3>5. held'[f].connected => held'[f].age <= Window + 1
      BY <3>2, <3>3, <3>4, WindowType DEF Older, Ages
    <3>6. ~timerRan'
      BY DEF Tick
    <3>. QED BY <3>2, <3>5, <3>6 DEF InTime
  <2>. QED BY <2>2, <2>3
<1>3. held' \in [Feeds -> Snapshot \cup {None}]
  BY <1>2 DEF Tick
<1>. QED BY <1>1, <1>2, <1>3 DEF Tick, feedVars

LEMMA TakeInv ==
  ASSUME ListenerInv, NEW d \in Datagram, Take(d), UNCHANGED <<daemon, timerRan>>, net' \subseteq net
  PROVE  ListenerInv'
<1> USE DEF ListenerInv, ListenerTypes
<1>1. held' = [held EXCEPT ![d.feed] = Taken(d)]
  BY DEF Take, Taken
<1>2. Taken(d) \in Snapshot /\ d.feed \in Feeds
  BY TakenType
<1>3. Taken(d).connected => Taken(d).age <= Window
  <2>1. d.age \in Ages
    BY DEF Datagram
  <2>2. ~IsStale(d.age) => d.age <= Window
    BY <2>1, WindowType DEF IsStale, Ages
  <2>. QED BY <2>2, TakenFields
<1>4. ASSUME NEW f \in Feeds PROVE InTime(f)'
  <2>1. CASE f = d.feed
    <3>1. held'[f] = Taken(d) /\ Taken(d).age \in Ages
      BY <1>1, <1>2, <2>1 DEF Snapshot
    <3>. QED BY <1>3, <3>1, WindowType DEF InTime, Ages
  <2>2. CASE f # d.feed
    <3>1. held'[f] = held[f]
      BY <1>1, <2>2
    <3>. QED BY <3>1 DEF InTime
  <2>. QED BY <2>1, <2>2
<1>. QED BY <1>1, <1>2, <1>4

LEMMA CheckStaleInv == ASSUME ListenerInv, CheckStale PROVE ListenerInv'
<1> USE DEF ListenerInv, ListenerTypes
<1>1. ASSUME NEW f \in Feeds
      PROVE  held'[f] \in Snapshot \cup {None} /\ InTime(f)'
  <2>1. held'[f] = IF f \in GoneStale THEN [held[f] EXCEPT !.connected = FALSE] ELSE held[f]
    BY DEF CheckStale
  <2>2. CASE f \in GoneStale
    <3>1. held[f] \in Snapshot
      BY <2>2 DEF GoneStale
    <3>2. held'[f] \in Snapshot /\ held'[f].connected = FALSE
      BY <2>1, <2>2, <3>1, MarkedSnapshot
    <3>. QED BY <3>2 DEF InTime
  <2>3. CASE f \notin GoneStale
    <3>1. held'[f] = held[f]
      BY <2>1, <2>3
    <3>2. held[f] # None /\ held[f].connected => ~IsStale(held[f].age)
      BY <2>3 DEF GoneStale
    <3>3. held[f] # None => held[f].age \in Ages
      BY DEF Snapshot
    <3>. QED BY <3>1, <3>2, <3>3, WindowType DEF InTime, IsStale, Ages
  <2>. QED BY <2>2, <2>3
<1>2. held' \in [Feeds -> Snapshot \cup {None}]
  BY <1>1 DEF CheckStale
<1>. QED BY <1>1, <1>2 DEF CheckStale, feedVars

LEMMA ListenerStep == ListenerInv /\ [Next]_vars => ListenerInv'
<1> SUFFICES ASSUME ListenerInv, [Next]_vars PROVE ListenerInv'
  OBVIOUS
<1>1. ASSUME UNCHANGED <<feedVars, held, timerRan>> PROVE ListenerInv'
  BY <1>1 DEF ListenerInv, ListenerTypes, InTime, feedVars
<1>2. ASSUME NEW f \in Feeds, Send(f) PROVE ListenerInv'
  BY <1>2, SentType DEF Send, ListenerInv, ListenerTypes, InTime, listenVars
<1>3. ASSUME NEW f \in Feeds, DaemonRestarts(f) PROVE ListenerInv'
  BY <1>3, RestartedType DEF DaemonRestarts, ListenerInv, ListenerTypes, InTime, listenVars
<1>4. ASSUME NEW d \in net, Ingest(d) PROVE ListenerInv'
  <2>1. d \in Datagram
    BY DEF ListenerInv, ListenerTypes
  <2>2. UNCHANGED <<daemon, timerRan>> /\ net' \subseteq net
    BY <1>4 DEF Ingest
  <2>3. CASE Take(d)
    BY <2>1, <2>2, <2>3, TakeInv
  <2>4. CASE Refuse(d)
    BY <2>2, <2>4 DEF Refuse, ListenerInv, ListenerTypes, InTime
  <2>. QED BY <1>4, <2>3, <2>4 DEF Ingest
<1>5. ASSUME NEW d \in net, Lose(d) PROVE ListenerInv'
  BY <1>5 DEF Lose, ListenerInv, ListenerTypes, InTime, listenVars
<1>6. ASSUME ServerRestarts PROVE ListenerInv'
  BY <1>6 DEF ServerRestarts, ListenerInv, ListenerTypes, InTime, feedVars
<1>7. ASSUME NEW t \in Tabs, TabStep(t) PROVE ListenerInv'
  BY <1>1, <1>7
     DEF TabStep, Accept, Pong, CutOff, BrowserOpen, BrowserMessage, ConnectFails,
         ConnectionLost, ReconnectTimer, Mount, Dispose, listenVars
<1>8. ASSUME Heartbeat PROVE ListenerInv'
  BY <1>1, <1>8 DEF Heartbeat, listenVars
<1>9. CASE UNCHANGED vars
  BY <1>1, <1>9 DEF vars, listenVars
<1>10. CASE Tick
  BY <1>10, TickInv
<1>11. CASE CheckStale
  BY <1>11, CheckStaleInv
<1>. QED
  BY <1>2, <1>3, <1>4, <1>5, <1>6, <1>7, <1>8, <1>9, <1>10, <1>11 DEF Next, ServerStep

LEMMA InitListener == ASSUME Init PROVE ListenerInv
<1>1. daemon \in [Feeds -> [run : 0 .. MaxRun, next : 0 .. MaxSeq]]
  <2>1. [run |-> 0, next |-> 0] \in [run : 0 .. MaxRun, next : 0 .. MaxSeq]
    BY NumbersAssumption
  <2>. QED BY <2>1 DEF Init
<1>2. held \in [Feeds -> Snapshot \cup {None}] /\ \A f \in Feeds : InTime(f)
  BY DEF Init, InTime
<1>. QED BY <1>1, <1>2 DEF Init, ListenerInv, ListenerTypes

LEMMA ListenerAlways == Spec => []ListenerInv
BY InitListener, ListenerStep, PTL DEF Spec

\* A feed that has fallen silent is marked disconnected by the first timer
\* event after its window, whatever arrives late, is lost or restarts.
THEOREM SilenceIsShown == Spec => []SilenceShown
<1>1. ListenerInv => SilenceShown
  BY DEF ListenerInv, InTime, SilenceShown
<1>. QED BY <1>1, ListenerAlways, PTL

-----------------------------------------------------------------------------
(* Within a run the listener only goes forward. *)

LEMMA AcceptedGoesOn ==
  ASSUME NEW s \in Snapshot, NEW d \in Datagram, ShouldAccept(s, d), d.run = s.run
  PROVE  d.seq >= s.seq
<1>1. s # None
  BY FeedsAssumption
<1>2. s.run \in Int /\ s.seq \in Int /\ d.run \in Int /\ d.seq \in Int
  BY DEF Snapshot, Datagram
<1>. QED BY <1>1, <1>2 DEF ShouldAccept, Later

\* A datagram that arrives late, again or out of order never replaces a newer
\* one of the same daemon run.
THEOREM NoStepBack == Spec => NeverStepsBack
<1>1. ListenerInv /\ [Next]_vars =>
        \A f \in Feeds : held[f] # None /\ held'[f] # None /\ held'[f].run = held[f].run
          => held'[f].seq >= held[f].seq
  <2> SUFFICES ASSUME ListenerInv, [Next]_vars, NEW f \in Feeds, held[f] # None, held'[f] # None,
                      held'[f].run = held[f].run
               PROVE  held'[f].seq >= held[f].seq
    OBVIOUS
  <2>1. held[f] \in Snapshot /\ held[f].seq \in Int
    BY DEF ListenerInv, ListenerTypes, Snapshot
  <2>2. ASSUME held'[f].seq = held[f].seq PROVE held'[f].seq >= held[f].seq
    BY <2>1, <2>2
  <2>3. CASE Tick
    <3>1. held'[f] = [held[f] EXCEPT !.age = Older(held[f].age)]
      BY <2>3 DEF Tick
    <3>. QED BY <2>1, <2>2, <3>1, OlderSnapshot
  <2>4. CASE CheckStale
    <3>1. held'[f] = [held[f] EXCEPT !.connected = FALSE] \/ held'[f] = held[f]
      BY <2>4 DEF CheckStale
    <3>. QED BY <2>1, <2>2, <3>1, MarkedSnapshot
  <2>5. ASSUME NEW d \in net, Ingest(d) PROVE held'[f].seq >= held[f].seq
    <3>1. CASE held'[f] = held[f]
      BY <2>2, <3>1
    <3>2. CASE held'[f] # held[f]
      <4>1. Take(d) /\ ShouldAccept(held[d.feed], d)
        BY <2>5, <3>2 DEF Ingest, Refuse
      <4>2. d \in Datagram /\ held' = [held EXCEPT ![d.feed] = Taken(d)]
        BY <4>1 DEF Take, Taken, ListenerInv, ListenerTypes
      <4>3. d.feed = f /\ held'[f] = Taken(d)
        BY <3>2, <4>2 DEF ListenerInv, ListenerTypes
      <4>4. held'[f].seq = d.seq /\ held'[f].run = d.run
        BY <4>3 DEF Taken
      <4>. QED BY <2>1, <4>1, <4>2, <4>3, <4>4, AcceptedGoesOn
    <3>. QED BY <3>1, <3>2
  <2>6. CASE ServerRestarts
    BY <2>6 DEF ServerRestarts
  <2>7. ASSUME UNCHANGED held PROVE held'[f].seq >= held[f].seq
    BY <2>2, <2>7
  <2>8. ASSUME NEW t \in Tabs, TabStep(t) PROVE UNCHANGED held
    BY <2>8
       DEF TabStep, Accept, Pong, CutOff, BrowserOpen, BrowserMessage, ConnectFails,
           ConnectionLost, ReconnectTimer, Mount, Dispose, listenVars
  <2>. QED
    BY <2>3, <2>4, <2>5, <2>6, <2>7, <2>8
       DEF Next, ServerStep, Send, DaemonRestarts, Lose, Heartbeat, listenVars, vars
<1>. QED BY <1>1, ListenerAlways, PTL DEF Spec, NeverStepsBack

-----------------------------------------------------------------------------
(* A restarted daemon is not ignored for long.  The refused datagrams lie  *)
(* within the reset threshold below the snapshot they were refused for.    *)

\* The type of the history.
IgnoredType == ignored \in [Feeds -> SUBSET (Int \X Int)]

Refusable(f) == (held[f].seq - ResetDrop) .. held[f].seq

RefusedNear(f) ==
  /\ held[f] = None => ignored[f] = {}
  /\ held[f] # None => ignored[f] \subseteq Int \X Refusable(f)

RefusedInv == \A f \in Feeds : RefusedNear(f)

LEMMA SameSeqNear ==
  ASSUME RefusedInv, UNCHANGED ignored,
         \A f \in Feeds : held'[f] = None <=> held[f] = None,
         \A f \in Feeds : held[f] # None => held'[f].seq = held[f].seq
  PROVE  RefusedInv'
BY DEF RefusedInv, RefusedNear, Refusable

LEMMA TakeNear ==
  ASSUME ListenerTypes, RefusedInv, NEW d \in Datagram, Take(d),
         IgnoredType
  PROVE  RefusedInv'
<1> SUFFICES ASSUME NEW f \in Feeds PROVE RefusedNear(f)'
  BY DEF RefusedInv
<1>1. held' = [held EXCEPT ![d.feed] = Taken(d)] /\ ignored' = [ignored EXCEPT ![d.feed] = {}]
  BY DEF Take, Taken
<1>2. CASE f = d.feed
  <2>1. ignored'[f] = {}
    BY <1>1, <1>2 DEF IgnoredType
  <2>. QED BY <2>1 DEF RefusedNear
<1>3. CASE f # d.feed
  <2>1. ignored'[f] = ignored[f] /\ held'[f] = held[f]
    BY <1>1, <1>3 DEF ListenerTypes, IgnoredType
  <2>. QED BY <2>1 DEF RefusedInv, RefusedNear, Refusable
<1>. QED BY <1>2, <1>3

LEMMA RefuseNear ==
  ASSUME ListenerTypes, RefusedInv, NEW d \in Datagram, Refuse(d), ~ShouldAccept(held[d.feed], d),
         IgnoredType
  PROVE  RefusedInv'
<1> SUFFICES ASSUME NEW f \in Feeds PROVE RefusedNear(f)'
  BY DEF RefusedInv
<1>1. held' = held
  BY DEF Refuse
<1>2. RefusedNear(f)
  BY DEF RefusedInv
<1>3. CASE ignored'[f] = ignored[f]
  BY <1>1, <1>2, <1>3 DEF RefusedNear, Refusable
<1>4. CASE ignored'[f] # ignored[f]
  <2>1. /\ d.feed = f /\ Later(d, held[f])
        /\ ignored'[f] = ignored[f] \cup {<<d.run, d.seq>>}
    BY <1>4 DEF Refuse, IgnoredType
  <2>2. held[f] # None /\ ~(d.seq > held[f].seq) /\ ~(held[f].seq - d.seq > ResetDrop)
    BY <2>1 DEF ShouldAccept
  <2>3. held[f] \in Snapshot
    BY <2>2 DEF ListenerTypes
  <2>4. d.run \in Int /\ d.seq \in Int /\ held[f].seq \in Int
    BY <2>3 DEF Datagram, Snapshot
  <2>5. d.seq \in Refusable(f)
    BY <2>2, <2>4, NumbersAssumption DEF Refusable
  <2>6. ignored[f] \subseteq Int \X Refusable(f)
    BY <1>2, <2>2 DEF RefusedNear
  <2>7. ignored'[f] \subseteq Int \X Refusable(f)
    BY <2>1, <2>4, <2>5, <2>6
  <2>8. Refusable(f)' = Refusable(f)
    BY <1>1 DEF Refusable
  <2>. QED BY <1>1, <2>2, <2>7, <2>8 DEF RefusedNear
<1>. QED BY <1>3, <1>4

LEMMA RefusedStep ==
  ASSUME ListenerInv, IgnoredType, RefusedInv, [Next]_vars PROVE IgnoredType' /\ RefusedInv'
<1> USE DEF IgnoredType
<1>1. ASSUME UNCHANGED <<held, ignored>> PROVE IgnoredType' /\ RefusedInv'
  BY <1>1 DEF RefusedInv, RefusedNear, Refusable
<1>2. ASSUME Tick PROVE IgnoredType' /\ RefusedInv'
  <2>1. ASSUME NEW f \in Feeds
        PROVE  /\ held'[f] = None <=> held[f] = None
               /\ held[f] # None => held'[f].seq = held[f].seq
    <3>1. CASE held[f] = None
      BY <1>2, <3>1 DEF Tick
    <3>2. CASE held[f] # None
      <4>1. held[f] \in Snapshot
        BY <3>2 DEF ListenerInv, ListenerTypes
      <4>2. held'[f] = [held[f] EXCEPT !.age = Older(held[f].age)]
        BY <1>2, <3>2 DEF Tick
      <4>3. held'[f] \in Snapshot /\ held'[f].seq = held[f].seq
        BY <4>1, <4>2, OlderSnapshot
      <4>. QED BY <3>2, <4>3, FeedsAssumption
    <3>. QED BY <3>1, <3>2
  <2>2. UNCHANGED ignored
    BY <1>2 DEF Tick
  <2>. QED BY <2>1, <2>2, SameSeqNear
<1>3. ASSUME CheckStale PROVE IgnoredType' /\ RefusedInv'
  <2>1. ASSUME NEW f \in Feeds
        PROVE  /\ held'[f] = None <=> held[f] = None
               /\ held[f] # None => held'[f].seq = held[f].seq
    <3>1. CASE f \notin GoneStale
      BY <1>3, <3>1 DEF CheckStale
    <3>2. CASE f \in GoneStale
      <4>1. held[f] # None /\ held[f] \in Snapshot
        BY <3>2 DEF GoneStale, ListenerInv, ListenerTypes
      <4>2. held'[f] = [held[f] EXCEPT !.connected = FALSE]
        BY <1>3, <3>2 DEF CheckStale
      <4>3. held'[f] \in Snapshot /\ held'[f].seq = held[f].seq
        BY <4>1, <4>2, MarkedSnapshot
      <4>. QED BY <4>1, <4>3, FeedsAssumption
    <3>. QED BY <3>1, <3>2
  <2>2. UNCHANGED ignored
    BY <1>3 DEF CheckStale
  <2>. QED BY <2>1, <2>2, SameSeqNear
<1>4. ASSUME NEW d \in net, Ingest(d) PROVE IgnoredType' /\ RefusedInv'
  <2>1. d \in Datagram
    BY DEF ListenerInv, ListenerTypes
  <2>2. CASE Take(d)
    <3>1. IgnoredType'
      BY <2>2 DEF Take
    <3>. QED BY <2>1, <2>2, <3>1, TakeNear DEF ListenerInv
  <2>3. CASE Refuse(d) /\ ~ShouldAccept(held[d.feed], d)
    <3>1. <<d.run, d.seq>> \in Int \X Int
      BY <2>1 DEF Datagram
    <3>2. IgnoredType'
      BY <2>3, <3>1 DEF Refuse
    <3>. QED BY <2>1, <2>3, <3>2, RefuseNear DEF ListenerInv
  <2>. QED BY <1>4, <2>2, <2>3 DEF Ingest
<1>5. ASSUME ServerRestarts PROVE IgnoredType' /\ RefusedInv'
  BY <1>5 DEF ServerRestarts, RefusedInv, RefusedNear
<1>6. ASSUME NEW t \in Tabs, TabStep(t) PROVE UNCHANGED <<held, ignored>>
  BY <1>6
     DEF TabStep, Accept, Pong, CutOff, BrowserOpen, BrowserMessage, ConnectFails,
         ConnectionLost, ReconnectTimer, Mount, Dispose, listenVars
<1>. QED
  BY <1>1, <1>2, <1>3, <1>4, <1>5, <1>6
     DEF Next, ServerStep, Send, DaemonRestarts, Lose, Heartbeat, listenVars, vars

LEMMA NearEnough ==
  ASSUME ListenerTypes, RefusedInv, NEW f \in Feeds, NEW r \in 0 .. MaxRun
  PROVE  Cardinality({n \in ignored[f] : n[1] = r}) <= ResetDrop + 1
<1> DEFINE refused == {n \in ignored[f] : n[1] = r}
<1>1. CASE held[f] = None
  <2>1. refused = {}
    BY <1>1 DEF RefusedInv, RefusedNear
  <2>. QED BY <2>1, FS_EmptySet, NumbersAssumption
<1>2. CASE held[f] # None
  <2>1. held[f].seq \in Int /\ ResetDrop \in Nat
    BY <1>2, NumbersAssumption DEF ListenerTypes, Snapshot
  <2>2. IsFiniteSet(Refusable(f)) /\ Cardinality(Refusable(f)) = ResetDrop + 1
    <3>1. held[f].seq - ResetDrop \in Int
      BY <2>1
    <3>2. ~(held[f].seq - ResetDrop > held[f].seq)
      BY <2>1
    <3>3. held[f].seq - (held[f].seq - ResetDrop) + 1 = ResetDrop + 1
      BY <2>1
    <3>. QED BY <2>1, <3>1, <3>2, <3>3, FS_Interval DEF Refusable
  <2>3. IsFiniteSet({r}) /\ Cardinality({r}) = 1
    BY FS_Singleton
  <2>4. IsFiniteSet({r} \X Refusable(f)) /\ Cardinality({r} \X Refusable(f)) = 1 * (ResetDrop + 1)
    BY <2>2, <2>3, FS_Product
  <2>5. refused \subseteq {r} \X Refusable(f)
    <3>1. ignored[f] \subseteq Int \X Refusable(f)
      BY <1>2 DEF RefusedInv, RefusedNear
    <3>. QED BY <3>1
  <2>6. Cardinality(refused) <= Cardinality({r} \X Refusable(f))
    BY <2>4, <2>5, FS_Subset
  <2>. QED BY <2>1, <2>4, <2>6
<1>. QED BY <1>1, <1>2

LEMMA InitRefused == Init => IgnoredType /\ RefusedInv
BY DEF Init, IgnoredType, RefusedInv, RefusedNear

\* Whatever the listener holds when a daemon is restarted, it refuses at most
\* ResetDrop + 1 of the new run's datagrams before it takes one.
THEOREM NotIgnoredForLong == Spec => []IgnoredAtMost
<1>1. ListenerInv /\ IgnoredType /\ RefusedInv /\ [Next]_vars => IgnoredType' /\ RefusedInv'
  BY RefusedStep
<1>2. ListenerInv /\ RefusedInv => IgnoredAtMost
  BY NearEnough DEF ListenerInv, IgnoredAtMost
<1>. QED BY <1>1, <1>2, ListenerAlways, InitRefused, PTL DEF Spec

-----------------------------------------------------------------------------
(* Connections.  The last frame under way to a tab that works is the state *)
(* of the listener; when none is under way, the tab has it.                *)

Values == [live : BOOLEAN, socketOpen : BOOLEAN, seen : Frame]

ConnTypes ==
  /\ clients \subseteq Tabs /\ cut \subseteq Tabs
  /\ alive \in [Tabs -> BOOLEAN]
  /\ pipe \in [Tabs -> Seq(Frame)] /\ \A t \in Tabs : Len(pipe[t]) <= MaxPipe
  /\ sock \in [Tabs -> {"gone", "connecting", "accepted", "open", "waiting"}]
  /\ backoff \in [Tabs -> MinBackoff .. MaxBackoff]
  /\ value \in [Tabs -> Values]
  /\ breaks \in 0 .. MaxBreaks

Agrees(t) ==
  /\ value[t].seen = StateOf(held)
  /\ value[t].live = (held[Nas] # None /\ held[Nas].connected)

Working(t) ==
  sock[t] \in {"accepted", "open"} /\ t \notin cut =>
    /\ t \in clients
    /\ pipe[t] # <<>> => pipe[t][Len(pipe[t])] = StateOf(held)
    /\ pipe[t] = <<>> => sock[t] = "open" /\ Agrees(t)

LiveOpen(t) == value[t].live => value[t].socketOpen /\ sock[t] = "open"

ConnInv == ConnTypes /\ \A t \in Tabs : Working(t) /\ LiveOpen(t)

LEMMA StateType == ASSUME NEW h \in [Feeds -> Snapshot \cup {None}] PROVE StateOf(h) \in Frame
<1>1. ASSUME NEW f \in Feeds PROVE StateOf(h)[f] \in View \cup {None}
  <2>1. CASE h[f] = None
    BY <2>1 DEF StateOf
  <2>2. CASE h[f] # None
    <3>1. h[f] \in Snapshot
      BY <2>2
    <3>2. StateOf(h)[f] = [run |-> h[f].run, seq |-> h[f].seq, connected |-> h[f].connected]
      BY <2>2 DEF StateOf
    <3>. QED BY <3>1, <3>2 DEF Snapshot, View
  <2>. QED BY <2>1, <2>2
<1>2. StateOf(h) \in [Feeds -> View \cup {None}]
  BY <1>1 DEF StateOf
<1>. QED BY <1>2 DEF Frame

\* What the frame tells of the NAS is what the listener holds of it.
LEMMA StateOfNas ==
  ASSUME ListenerTypes
  PROVE  (StateOf(held)[Nas] # None /\ StateOf(held)[Nas].connected) = (held[Nas] # None /\ held[Nas].connected)
<1>1. Nas \in Feeds
  BY DEF Feeds
<1>2. CASE held[Nas] = None
  <2>1. StateOf(held)[Nas] = None
    BY <1>1, <1>2 DEF StateOf
  <2>. QED BY <1>2, <2>1
<1>3. CASE held[Nas] # None
  <2>1. held[Nas] \in Snapshot
    BY <1>1, <1>3 DEF ListenerTypes
  <2>2. StateOf(held)[Nas] = [run |-> held[Nas].run, seq |-> held[Nas].seq, connected |-> held[Nas].connected]
    BY <1>1, <1>3 DEF StateOf
  <2>3. StateOf(held)[Nas] \in View /\ StateOf(held)[Nas].connected = held[Nas].connected
    BY <2>1, <2>2 DEF Snapshot, View
  <2>. QED BY <1>3, <2>3, FeedsAssumption
<1>. QED BY <1>2, <1>3

LEMMA ReceivedType == ASSUME NEW frame \in Frame PROVE Received(frame) \in Values
<1>1. (frame[Nas] # None /\ frame[Nas].connected) \in BOOLEAN
  OBVIOUS
<1>. QED BY <1>1 DEF Received, Values

LEMMA DownType ==
  ASSUME NEW v \in Values
  PROVE  Down(v) \in Values /\ Down(v).live = FALSE
BY DEF Down, Values

LEMMA NextBackoffType == ASSUME NEW b \in MinBackoff .. MaxBackoff PROVE NextBackoff(b) \in MinBackoff .. MaxBackoff
BY NumbersAssumption DEF NextBackoff

LEMMA EmptyType == Empty \in Values /\ Empty.live = FALSE
<1>1. NothingSeen \in Frame
  BY DEF NothingSeen, Frame
<1>. QED BY <1>1 DEF Empty, Values

LEMMA InitConn == Init => ConnInv
<1> SUFFICES ASSUME Init PROVE ConnInv
  OBVIOUS
<1>1. pipe \in [Tabs -> Seq(Frame)] /\ \A t \in Tabs : Len(pipe[t]) <= MaxPipe
  BY NumbersAssumption DEF Init
<1>2. value \in [Tabs -> Values] /\ \A t \in Tabs : value[t].live = FALSE
  BY EmptyType DEF Init
<1>3. backoff \in [Tabs -> MinBackoff .. MaxBackoff] /\ breaks \in 0 .. MaxBreaks
  BY NumbersAssumption DEF Init
<1>. QED BY <1>1, <1>2, <1>3 DEF Init, ConnInv, ConnTypes, Working, LiveOpen

\* Nothing of the connections changes, nor what a frame would tell.
LEMMA ConnSame ==
  ASSUME ConnInv, UNCHANGED <<wsVars, tabVars, pipe, breaks>>, StateOf(held)' = StateOf(held),
         (held[Nas] # None /\ held[Nas].connected)' = (held[Nas] # None /\ held[Nas].connected)
  PROVE  ConnInv'
BY DEF ConnInv, ConnTypes, Working, LiveOpen, Agrees, wsVars, tabVars

LEMMA HeldSame ==
  ASSUME ConnInv, UNCHANGED <<wsVars, tabVars, pipe, breaks, held>> PROVE ConnInv'
BY ConnSame DEF StateOf

LEMMA TickConn == ASSUME ListenerInv, ConnInv, Tick PROVE ConnInv'
<1>1. ASSUME NEW f \in Feeds
      PROVE  /\ held'[f] = None <=> held[f] = None
             /\ held[f] # None => /\ held'[f].run = held[f].run /\ held'[f].seq = held[f].seq
                                  /\ held'[f].connected = held[f].connected
  <2>1. CASE held[f] = None
    BY <2>1 DEF Tick
  <2>2. CASE held[f] # None
    <3>1. held[f] \in Snapshot
      BY <2>2 DEF ListenerInv, ListenerTypes
    <3>2. held'[f] = [held[f] EXCEPT !.age = Older(held[f].age)]
      BY <2>2 DEF Tick
    <3>. QED BY <2>2, <3>1, <3>2, OlderSnapshot, FeedsAssumption
  <2>. QED BY <2>1, <2>2
<1>2. StateOf(held)' = StateOf(held)
  BY <1>1 DEF StateOf
<1>3. (held[Nas] # None /\ held[Nas].connected)' = (held[Nas] # None /\ held[Nas].connected)
  <2>1. Nas \in Feeds
    BY DEF Feeds
  <2>. QED BY <1>1, <2>1
<1>. QED BY <1>2, <1>3, ConnSame DEF Tick

\* A change is told to all that work.
LEMMA EmitConn ==
  ASSUME ListenerTypes', ConnInv, Emit(held'), UNCHANGED <<wsVars, tabVars, breaks>>
  PROVE  ConnInv'
<1>1. StateOf(held)' \in Frame /\ StateOf(held') = StateOf(held)'
  <2>1. held' \in [Feeds -> Snapshot \cup {None}]
    BY DEF ListenerTypes
  <2>2. StateOf(held') \in Frame
    BY <2>1, StateType
  <2>3. StateOf(held') = StateOf(held)'
    BY DEF StateOf
  <2>. QED BY <2>2, <2>3
<1>2. ASSUME NEW t \in Tabs
      PROVE  /\ pipe'[t] \in Seq(Frame) /\ Len(pipe'[t]) <= MaxPipe
             /\ t \in clients \ cut => pipe'[t] # <<>> /\ pipe'[t][Len(pipe'[t])] = StateOf(held)'
  <2>1. pipe[t] \in Seq(Frame) /\ Len(pipe[t]) <= MaxPipe
    BY DEF ConnInv, ConnTypes
  <2>2. CASE t \in clients \ cut
    <3>1. pipe'[t] = Append(pipe[t], StateOf(held)') /\ Len(pipe[t]) < MaxPipe
      BY <1>1, <2>2 DEF Emit
    <3>. HIDE DEF StateOf
    <3>. QED BY <1>1, <2>1, <3>1, NumbersAssumption
  <2>3. CASE t \notin clients \ cut
    BY <2>1, <2>3 DEF Emit
  <2>. QED BY <2>2, <2>3
<1>3. pipe' \in [Tabs -> Seq(Frame)]
  BY <1>2 DEF Emit
<1>4. UNCHANGED <<clients, alive, cut, sock, backoff, value, breaks>>
  BY DEF wsVars, tabVars
<1>. HIDE DEF StateOf
<1>5. ConnTypes'
  BY <1>2, <1>3, <1>4 DEF ConnInv, ConnTypes
<1>6. ASSUME NEW t \in Tabs PROVE Working(t)' /\ LiveOpen(t)'
  BY <1>2, <1>4, <1>6 DEF ConnInv, Working, LiveOpen
<1>. QED BY <1>5, <1>6 DEF ConnInv

\* One tab's socket, frames and value change; the listener and the others rest.
LEMMA OneTab ==
  ASSUME ConnInv, ConnTypes', UNCHANGED held, NEW t \in Tabs,
         \A u \in Tabs \ {t} : /\ pipe'[u] = pipe[u] /\ sock'[u] = sock[u] /\ value'[u] = value[u]
                               /\ (u \in cut' <=> u \in cut) /\ (u \in clients => u \in clients'),
         Working(t)', LiveOpen(t)'
  PROVE  ConnInv'
<1>1. StateOf(held)' = StateOf(held)
  BY DEF StateOf
<1>2. ASSUME NEW u \in Tabs, u # t PROVE Working(u)' /\ LiveOpen(u)'
  BY <1>1, <1>2 DEF ConnInv, Working, LiveOpen, Agrees
<1>. QED BY <1>2 DEF ConnInv

LEMMA AcceptConn == ASSUME ListenerInv, ConnInv, NEW t \in Tabs, Accept(t) PROVE ConnInv'
<1>1. StateOf(held) \in Frame /\ StateOf(held)' = StateOf(held)
  BY StateType DEF ListenerInv, ListenerTypes, Accept, StateOf, listenVars
<1>. HIDE DEF StateOf
<1>2. <<StateOf(held)>> \in Seq(Frame) /\ Len(<<StateOf(held)>>) = 1
  BY <1>1
<1>3. ConnTypes'
  BY <1>2, NumbersAssumption DEF Accept, ConnInv, ConnTypes
<1>4. /\ sock'[t] = "accepted" /\ t \in clients' /\ pipe'[t] = <<StateOf(held)>>
      /\ value' = value /\ UNCHANGED held
  BY DEF Accept, ConnInv, ConnTypes, listenVars
<1>5. Working(t)'
  BY <1>1, <1>4 DEF Working
<1>6. LiveOpen(t)'
  BY <1>4 DEF LiveOpen, ConnInv, Accept
<1>. QED BY <1>3, <1>4, <1>5, <1>6, OneTab DEF Accept, ConnInv, ConnTypes

LEMMA BrowserOpenConn == ASSUME ConnInv, NEW t \in Tabs, BrowserOpen(t) PROVE ConnInv'
<1> DEFINE v == [value[t] EXCEPT !.socketOpen = TRUE]
<1>1. v \in Values /\ v.live = value[t].live /\ v.seen = value[t].seen /\ v.socketOpen = TRUE
  <2>1. value[t] \in Values
    BY DEF ConnInv, ConnTypes
  <2>. QED BY <2>1 DEF Values
<1>2. value' = [value EXCEPT ![t] = v] /\ UNCHANGED <<held, clients, alive, cut, pipe, breaks>>
  BY DEF BrowserOpen, listenVars, wsVars
<1>. HIDE DEF v
<1>3. ConnTypes'
  <2>1. MinBackoff \in MinBackoff .. MaxBackoff
    BY NumbersAssumption
  <2>2. backoff' \in [Tabs -> MinBackoff .. MaxBackoff]
    BY <2>1 DEF BrowserOpen, ConnInv, ConnTypes
  <2>3. value' \in [Tabs -> Values]
    BY <1>1, <1>2 DEF ConnInv, ConnTypes
  <2>4. sock' \in [Tabs -> {"gone", "connecting", "accepted", "open", "waiting"}]
    BY DEF BrowserOpen, ConnInv, ConnTypes
  <2>. QED BY <1>2, <2>2, <2>3, <2>4 DEF ConnInv, ConnTypes
<1>4. sock'[t] = "open" /\ sock[t] = "accepted" /\ t \notin cut /\ value'[t] = v
  BY <1>2 DEF BrowserOpen, ConnInv, ConnTypes
<1>5. Working(t)'
  BY <1>2, <1>4 DEF Working, ConnInv, StateOf
<1>6. LiveOpen(t)'
  BY <1>1, <1>4 DEF LiveOpen
<1>. QED BY <1>2, <1>3, <1>4, <1>5, <1>6, OneTab DEF BrowserOpen, ConnInv, ConnTypes

LEMMA NoLength == \A q : q = <<>> => Len(q) = 0
OBVIOUS

LEMMA BrowserMessageConn == ASSUME ListenerInv, ConnInv, NEW t \in Tabs, BrowserMessage(t) PROVE ConnInv'
<1> DEFINE v == Received(Head(pipe[t]))
<1>1. pipe[t] \in Seq(Frame) /\ pipe[t] # <<>> /\ sock[t] = "open"
  BY DEF BrowserMessage, ConnInv, ConnTypes
<1>2. Head(pipe[t]) \in Frame /\ Tail(pipe[t]) \in Seq(Frame) /\ Len(Tail(pipe[t])) = Len(pipe[t]) - 1
  BY <1>1
<1>3. v \in Values /\ v.socketOpen = TRUE
  BY <1>2, ReceivedType DEF Received
<1>4. /\ value' = [value EXCEPT ![t] = v] /\ pipe' = [pipe EXCEPT ![t] = Tail(pipe[t])]
      /\ UNCHANGED <<held, clients, alive, cut, sock, backoff, breaks>>
  BY DEF BrowserMessage, listenVars, wsVars
<1>5. ConnTypes'
  <2>. HIDE DEF v
  <2>1. Len(pipe[t]) <= MaxPipe /\ Len(pipe[t]) \in Nat
    BY <1>1 DEF ConnInv, ConnTypes
  <2>. QED BY <1>2, <1>3, <1>4, <2>1, NumbersAssumption DEF ConnInv, ConnTypes
<1>6. value'[t] = v /\ pipe'[t] = Tail(pipe[t]) /\ sock'[t] = "open"
  BY <1>1, <1>4 DEF ConnInv, ConnTypes
<1>7. Working(t)'
  <2>1. StateOf(held)' = StateOf(held) /\ cut' = cut /\ clients' = clients
    BY <1>4 DEF StateOf
  <2>2. SUFFICES ASSUME t \notin cut
                 PROVE  /\ t \in clients
                        /\ Tail(pipe[t]) # <<>> => Tail(pipe[t])[Len(Tail(pipe[t]))] = StateOf(held)
                        /\ Tail(pipe[t]) = <<>> => Agrees(t)'
    BY <1>6, <2>1 DEF Working
  <2>3. t \in clients /\ pipe[t][Len(pipe[t])] = StateOf(held)
    BY <1>1, <2>2 DEF ConnInv, Working
  <2>4. ASSUME Tail(pipe[t]) # <<>> PROVE Tail(pipe[t])[Len(Tail(pipe[t]))] = StateOf(held)
    <3>. HIDE DEF StateOf
    <3>1. Len(Tail(pipe[t])) \in 1 .. Len(Tail(pipe[t]))
      BY <1>2, <2>4
    <3>2. Tail(pipe[t])[Len(Tail(pipe[t]))] = pipe[t][Len(Tail(pipe[t])) + 1]
      BY <1>1, <3>1
    <3>3. Len(Tail(pipe[t])) + 1 = Len(pipe[t])
      BY <1>1, <1>2
    <3>. QED BY <2>3, <3>2, <3>3
  <2>5. ASSUME Tail(pipe[t]) = <<>> PROVE Agrees(t)'
    <3>1. Head(pipe[t]) = StateOf(held)
      <4>. HIDE DEF StateOf
      <4>1. Len(pipe[t]) = 1
        <5>1. Len(Tail(pipe[t])) = 0
          BY <2>5, NoLength, Zenon
        <5>2. Len(pipe[t]) - 1 = 0 /\ Len(pipe[t]) \in Nat
          BY <1>1, <1>2, <5>1
        <5>. QED BY <5>2
      <4>. QED BY <1>1, <2>3, <4>1
    <3>2. v.seen = StateOf(held) /\ v.live = (StateOf(held)[Nas] # None /\ StateOf(held)[Nas].connected)
      BY <3>1 DEF Received
    <3>. HIDE DEF v
    <3>3. v.live = (held[Nas] # None /\ held[Nas].connected)
      BY <3>2, StateOfNas DEF ListenerInv
    <3>. QED BY <1>4, <1>6, <2>1, <3>2, <3>3 DEF Agrees
  <2>. QED BY <2>3, <2>4, <2>5
<1>8. LiveOpen(t)'
  BY <1>3, <1>6 DEF LiveOpen
<1>. HIDE DEF v
<1>. QED BY <1>4, <1>5, <1>7, <1>8, OneTab DEF ConnInv, ConnTypes

\* Whoever is lost waits for another connection, and nobody else notices.
LEMMA DownConn ==
  ASSUME ConnInv, NEW lost \in SUBSET Tabs, OnDown(lost),
         \/ UNCHANGED held \/ \A t \in Tabs \ (cut \cup lost) : sock[t] \notin {"accepted", "open"},
         clients' \subseteq clients, cut' \subseteq cut, cut \ cut' \subseteq lost,
         UNCHANGED held => clients \ clients' \subseteq lost,
         UNCHANGED alive, breaks' \in 0 .. MaxBreaks
  PROVE  ConnInv'
<1>1. ConnTypes'
  <2>1. \A t \in Tabs : Down(value[t]) \in Values
    BY DownType DEF ConnInv, ConnTypes
  <2>2. value' \in [Tabs -> Values]
    BY <2>1 DEF OnDown, ConnInv, ConnTypes
  <2>3. pipe' \in [Tabs -> Seq(Frame)] /\ \A t \in Tabs : Len(pipe'[t]) <= MaxPipe
    BY NumbersAssumption DEF OnDown, ConnInv, ConnTypes
  <2>4. sock' \in [Tabs -> {"gone", "connecting", "accepted", "open", "waiting"}]
    BY DEF OnDown, ConnInv, ConnTypes
  <2>. QED BY <2>2, <2>3, <2>4 DEF OnDown, ConnInv, ConnTypes
<1>2. ASSUME NEW t \in Tabs, t \in lost PROVE Working(t)' /\ LiveOpen(t)'
  <2>1. sock'[t] = "waiting" /\ value'[t] = Down(value[t]) /\ value[t] \in Values
    BY <1>2 DEF OnDown, ConnInv, ConnTypes
  <2>2. value'[t].live = FALSE
    BY <2>1, DownType
  <2>. QED BY <2>1, <2>2 DEF Working, LiveOpen
<1>3. ASSUME NEW t \in Tabs, t \notin lost PROVE Working(t)' /\ LiveOpen(t)'
  <2>1. sock'[t] = sock[t] /\ value'[t] = value[t] /\ pipe'[t] = pipe[t] /\ (t \in cut' <=> t \in cut)
    BY <1>3 DEF OnDown
  <2>2. LiveOpen(t)'
    BY <2>1 DEF ConnInv, LiveOpen
  <2>3. CASE sock[t] \in {"accepted", "open"} /\ t \notin cut
    <3>1. UNCHANGED held
      BY <1>3, <2>3
    <3>2. StateOf(held)' = StateOf(held) /\ (t \in clients => t \in clients')
      BY <1>3, <3>1 DEF StateOf
    <3>3. Working(t)'
      BY <2>1, <2>3, <3>1, <3>2 DEF ConnInv, Working, Agrees
    <3>. QED BY <2>2, <3>3
  <2>4. CASE ~(sock[t] \in {"accepted", "open"} /\ t \notin cut)
    BY <2>1, <2>2, <2>4 DEF Working
  <2>. QED BY <2>3, <2>4
<1>. QED BY <1>1, <1>2, <1>3 DEF ConnInv

LEMMA ConnStep == ListenerInv /\ ConnInv /\ [Next]_vars => ConnInv'
<1> SUFFICES ASSUME ListenerInv, ConnInv, [Next]_vars PROVE ConnInv'
  OBVIOUS
<1>0. ListenerTypes'
  BY ListenerStep DEF ListenerInv
<1>1. CASE UNCHANGED vars
  BY <1>1, HeldSame DEF vars, listenVars
<1>2. ASSUME NEW f \in Feeds, Send(f) \/ DaemonRestarts(f) PROVE ConnInv'
  BY <1>2, HeldSame DEF Send, DaemonRestarts, listenVars
<1>3. ASSUME NEW d \in net, Lose(d) PROVE ConnInv'
  BY <1>3, HeldSame DEF Lose, listenVars
<1>4. ASSUME NEW d \in net, Ingest(d) PROVE ConnInv'
  <2>1. CASE Take(d)
    BY <1>0, <1>4, <2>1, EmitConn DEF Ingest, Take
  <2>2. CASE Refuse(d)
    BY <1>4, <2>2, HeldSame DEF Ingest, Refuse
  <2>. QED BY <1>4, <2>1, <2>2 DEF Ingest
<1>5. CASE Tick
  BY <1>5, TickConn
<1>6. CASE CheckStale
  <2>1. CASE GoneStale # {}
    BY <1>0, <1>6, <2>1, EmitConn DEF CheckStale
  <2>2. CASE GoneStale = {}
    <3>1. UNCHANGED held
      BY <1>6, <2>2 DEF CheckStale, ListenerInv, ListenerTypes
    <3>. QED BY <1>6, <2>2, <3>1, HeldSame DEF CheckStale
  <2>. QED BY <2>1, <2>2
<1>7. CASE Heartbeat
  <2>1. /\ UNCHANGED <<held, cut, pipe, sock, backoff, value, breaks>> /\ clients' \subseteq clients
        /\ alive' \in [Tabs -> BOOLEAN] /\ clients \ cut \subseteq clients'
    BY <1>7 DEF Heartbeat, listenVars, tabVars, ConnInv, ConnTypes
  <2>2. ConnTypes'
    BY <2>1 DEF ConnInv, ConnTypes
  <2>3. StateOf(held)' = StateOf(held)
    BY <2>1 DEF StateOf
  <2>4. ASSUME NEW t \in Tabs PROVE Working(t)' /\ LiveOpen(t)'
    BY <2>1, <2>3 DEF ConnInv, Working, LiveOpen, Agrees
  <2>. QED BY <2>2, <2>4 DEF ConnInv
<1>8. CASE ServerRestarts
  <2> DEFINE lost == {t \in Tabs \ cut : SocketUp(t)}
  <2>1. OnDown(lost) /\ clients' = {} /\ UNCHANGED <<alive, cut>>
    BY <1>8 DEF ServerRestarts
  <2>2. breaks' \in 0 .. MaxBreaks
    BY <1>8, NumbersAssumption DEF ServerRestarts, ConnInv, ConnTypes
  <2>3. \A t \in Tabs \ (cut \cup lost) : sock[t] \notin {"accepted", "open"}
    BY DEF SocketUp
  <2>4. held' = [f \in Feeds |-> None]
    BY <1>8 DEF ServerRestarts
  <2>5. ConnTypes' /\ \A t \in Tabs : Working(t)' /\ LiveOpen(t)'
    <3>1. ConnTypes'
      <4>1. \A t \in Tabs : Down(value[t]) \in Values
        BY DownType DEF ConnInv, ConnTypes
      <4>2. value' \in [Tabs -> Values]
        BY <2>1, <4>1 DEF OnDown, ConnInv, ConnTypes
      <4>3. pipe' \in [Tabs -> Seq(Frame)] /\ \A t \in Tabs : Len(pipe'[t]) <= MaxPipe
        BY <2>1, NumbersAssumption DEF OnDown, ConnInv, ConnTypes
      <4>. QED BY <2>1, <2>2, <4>2, <4>3 DEF OnDown, ConnInv, ConnTypes
    <3>2. ASSUME NEW t \in Tabs PROVE Working(t)' /\ LiveOpen(t)'
      <4>1. CASE t \in lost
        <5>1. sock'[t] = "waiting" /\ value'[t] = Down(value[t]) /\ value[t] \in Values
          BY <2>1, <4>1 DEF OnDown, ConnInv, ConnTypes
        <5>2. value'[t].live = FALSE
          BY <5>1, DownType
        <5>. QED BY <5>1, <5>2 DEF Working, LiveOpen
      <4>2. CASE t \notin lost
        <5>1. sock'[t] = sock[t] /\ value'[t] = value[t] /\ cut' = cut
          BY <2>1, <4>2 DEF OnDown
        <5>. QED BY <2>3, <4>2, <5>1 DEF Working, LiveOpen, ConnInv
      <4>. QED BY <4>1, <4>2
    <3>. QED BY <3>1, <3>2
  <2>. QED BY <2>5 DEF ConnInv
<1>9. ASSUME NEW t \in Tabs, TabStep(t) PROVE ConnInv'
  <2>1. CASE Accept(t)
    BY <2>1, AcceptConn
  <2>2. CASE Pong(t)
    <3>1. /\ UNCHANGED <<held, clients, cut, pipe, sock, backoff, value, breaks>>
          /\ alive' \in [Tabs -> BOOLEAN]
      BY <2>2 DEF Pong, listenVars, tabVars, ConnInv, ConnTypes
    <3>2. StateOf(held)' = StateOf(held)
      BY <3>1 DEF StateOf
    <3>. QED BY <3>1, <3>2 DEF ConnInv, ConnTypes, Working, LiveOpen, Agrees
  <2>3. CASE CutOff(t)
    <3>1. /\ cut' = cut \cup {t} /\ pipe' = [pipe EXCEPT ![t] = <<>>]
          /\ UNCHANGED <<held, clients, alive, sock, backoff, value>>
      BY <2>3 DEF CutOff, listenVars, tabVars
    <3>2. breaks' \in 0 .. MaxBreaks
      BY <2>3, NumbersAssumption DEF CutOff, ConnInv, ConnTypes
    <3>3. pipe' \in [Tabs -> Seq(Frame)] /\ \A u \in Tabs : Len(pipe'[u]) <= MaxPipe
      BY <3>1, NumbersAssumption DEF ConnInv, ConnTypes
    <3>4. ConnTypes'
      BY <3>1, <3>2, <3>3 DEF ConnInv, ConnTypes
    <3>5. Working(t)' /\ LiveOpen(t)'
      BY <3>1 DEF Working, LiveOpen, ConnInv
    <3>. QED BY <3>1, <3>4, <3>5, OneTab DEF ConnInv, ConnTypes
  <2>4. CASE BrowserOpen(t)
    BY <2>4, BrowserOpenConn
  <2>5. CASE BrowserMessage(t)
    BY <2>5, BrowserMessageConn
  <2>6. CASE ConnectFails(t)
    BY <2>6, DownConn DEF ConnectFails, listenVars, wsVars, ConnInv, ConnTypes
  <2>7. CASE ConnectionLost(t)
    <3>1. breaks' \in 0 .. MaxBreaks
      BY <2>7, NumbersAssumption DEF ConnectionLost, ConnInv, ConnTypes
    <3>2. /\ OnDown({t}) /\ clients' = clients \ {t} /\ cut' = cut \ {t} /\ UNCHANGED <<held, alive>>
      BY <2>7 DEF ConnectionLost, listenVars
    <3>. QED BY <3>1, <3>2, DownConn
  <2>8. CASE ReconnectTimer(t)
    <3>1. /\ sock[t] = "waiting" /\ sock' = [sock EXCEPT ![t] = "connecting"]
          /\ UNCHANGED <<held, clients, alive, cut, pipe, value, breaks>>
      BY <2>8 DEF ReconnectTimer, listenVars, wsVars
    <3>2. backoff' \in [Tabs -> MinBackoff .. MaxBackoff]
      BY <2>8, NextBackoffType DEF ReconnectTimer, ConnInv, ConnTypes
    <3>3. ConnTypes'
      BY <3>1, <3>2 DEF ConnInv, ConnTypes
    <3>4. sock'[t] = "connecting" /\ value'[t].live = FALSE
      <4>1. ~value[t].live /\ value[t] \in Values
        BY <3>1 DEF ConnInv, ConnTypes, LiveOpen
      <4>. QED BY <3>1, <4>1 DEF ConnInv, ConnTypes, Values
    <3>5. Working(t)' /\ LiveOpen(t)'
      BY <3>4 DEF Working, LiveOpen
    <3>. QED BY <3>1, <3>3, <3>5, OneTab DEF ConnInv, ConnTypes
  <2>9. CASE Mount(t) \/ Dispose(t)
    <3>1. /\ UNCHANGED <<held, alive, breaks>> /\ value' = [value EXCEPT ![t] = Empty]
          /\ sock' \in {[sock EXCEPT ![t] = "connecting"], [sock EXCEPT ![t] = "gone"]}
          /\ pipe' \in {pipe, [pipe EXCEPT ![t] = <<>>]}
          /\ clients' \in {clients, clients \ {t}} /\ cut' \in {cut, cut \ {t}}
      BY <2>9 DEF Mount, Dispose, listenVars, wsVars
    <3>2. backoff' \in [Tabs -> MinBackoff .. MaxBackoff]
      <4>1. MinBackoff \in MinBackoff .. MaxBackoff
        BY NumbersAssumption
      <4>. QED BY <2>9, <4>1 DEF Mount, Dispose, ConnInv, ConnTypes
    <3>3. pipe' \in [Tabs -> Seq(Frame)] /\ \A u \in Tabs : Len(pipe'[u]) <= MaxPipe
      <4>1. CASE pipe' = pipe
        BY <4>1 DEF ConnInv, ConnTypes
      <4>2. CASE pipe' = [pipe EXCEPT ![t] = <<>>]
        BY <4>2, NumbersAssumption DEF ConnInv, ConnTypes
      <4>. QED BY <3>1, <4>1, <4>2
    <3>4. value' \in [Tabs -> Values]
      BY <3>1, EmptyType DEF ConnInv, ConnTypes
    <3>5. ConnTypes'
      BY <3>1, <3>2, <3>3, <3>4 DEF ConnInv, ConnTypes
    <3>6. sock'[t] \in {"connecting", "gone"} /\ value'[t].live = FALSE
      BY <3>1, EmptyType DEF ConnInv, ConnTypes
    <3>7. Working(t)' /\ LiveOpen(t)'
      BY <3>6 DEF Working, LiveOpen
    <3>. QED BY <3>1, <3>5, <3>7, OneTab DEF ConnInv, ConnTypes
  <2>. QED BY <1>9, <2>1, <2>2, <2>3, <2>4, <2>5, <2>6, <2>7, <2>8, <2>9 DEF TabStep
<1>. QED BY <1>1, <1>2, <1>3, <1>4, <1>5, <1>6, <1>7, <1>8, <1>9 DEF Next, ServerStep

LEMMA ConnAlways == Spec => []ConnInv
BY InitConn, ConnStep, ListenerAlways, PTL DEF Spec

\* However a tab came to be connected, and whatever was sent, lost or restarted around
\* it, once no frame is under way it has the state of the listener.
THEOREM TabsCatchUp == Spec => []TabsAgree
<1>1. ConnInv => TabsAgree
  BY DEF ConnInv, Working, Agrees, TabsAgree
<1>. QED BY <1>1, ConnAlways, PTL

\* No tab shows the NAS as live on a socket that it knows to be closed, and the
\* heartbeat reaps no socket that works.
THEOREM NoLiveWithoutSocket == Spec => []LiveNeedsSocket
<1>1. ConnInv => LiveNeedsSocket
  BY DEF ConnInv, Working, LiveOpen, LiveNeedsSocket, NasLive
<1>. QED BY <1>1, ConnAlways, PTL

-----------------------------------------------------------------------------
(* All the types. *)

RefusedType == ignored \in [Feeds -> SUBSET ((0 .. MaxRun) \X (0 .. MaxSeq - 1))]

LEMMA RefusedTypeStep == ListenerInv /\ RefusedType /\ [Next]_vars => RefusedType'
<1> SUFFICES ASSUME ListenerInv, RefusedType, [Next]_vars PROVE RefusedType'
  OBVIOUS
<1>. USE DEF RefusedType
<1>1. ASSUME UNCHANGED ignored PROVE RefusedType'
  BY <1>1
<1>2. ASSUME NEW d \in net, Ingest(d) PROVE RefusedType'
  <2>1. d.run \in 0 .. MaxRun /\ d.seq \in 0 .. MaxSeq - 1 /\ d.feed \in Feeds
    BY DEF ListenerInv, ListenerTypes, Datagram
  <2>2. <<d.run, d.seq>> \in (0 .. MaxRun) \X (0 .. MaxSeq - 1)
    BY <2>1
  <2>3. CASE Take(d)
    BY <2>3 DEF Take
  <2>4. CASE Refuse(d)
    BY <2>1, <2>2, <2>4 DEF Refuse
  <2>. QED BY <1>2, <2>3, <2>4 DEF Ingest
<1>3. CASE ServerRestarts
  BY <1>3 DEF ServerRestarts
<1>4. ASSUME NEW t \in Tabs, TabStep(t) PROVE UNCHANGED ignored
  BY <1>4
     DEF TabStep, Accept, Pong, CutOff, BrowserOpen, BrowserMessage, ConnectFails,
         ConnectionLost, ReconnectTimer, Mount, Dispose, listenVars
<1>. QED
  BY <1>1, <1>2, <1>3, <1>4
     DEF Next, ServerStep, Tick, CheckStale, Send, DaemonRestarts, Lose, Heartbeat, listenVars, vars

\* The variables of daemons, listener, server and tabs stay in their types.
THEOREM TelemetryTypes == Spec => []TypeOK
<1>1. Init => RefusedType
  BY DEF Init, RefusedType
<1>2. ListenerInv /\ RefusedType /\ ConnInv => TypeOK
  BY DEF ListenerInv, ListenerTypes, RefusedType, ConnInv, ConnTypes, Values, TypeOK
<1>. QED BY <1>1, <1>2, RefusedTypeStep, ListenerAlways, ConnAlways, PTL DEF Spec
=============================================================================
