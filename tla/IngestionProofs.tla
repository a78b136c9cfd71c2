-------------------------- MODULE IngestionProofs --------------------------
(***************************************************************************)
(* What holds of the readings on their way in: of the node agent that      *)
(* takes them, of the log pull and the polls that store them, of what      *)
(* panels and rules make of them, and of the retention that prunes them;   *)
(* for any threads, sources, workers, windows and numbers of rows.         *)
(***************************************************************************)
EXTENDS LogPull, Readings, NodeAgent, Retention, FiniteSetTheorems, SequenceTheorems, WellFoundedInduction, TLAPS

-----------------------------------------------------------------------------
(* The log pullers. *)

\* A worker between its cursor and its commit holds the source.
Holds(p, s) == puller[p].at \in {"fetch", "commit"} /\ TaskOf(p) = s

\* Line n of source s is at or before cursor m.
Before(s, n, m) == IF s \in Units THEN n <= m ELSE n \in DOMAIN docker[s] /\ docker[s][n] <= m

\* All up to cursor m of source s is stored, or of the kind that may lack.
Passed(s, m) ==
  IF s \in Units
  THEN m <= journal[s] /\ \A n \in (1 .. m) \ Blank : n >= from[s] => copies[s][n] > 0
  ELSE /\ m <= ms /\ m \in marks[s]
       /\ \A n \in DOMAIN docker[s] : docker[s][n] <= m =>
            copies[s][n] > 0 \/ n \in tailed[s] \/ docker[s][n] \in marks[s]

SourcesInv ==
  /\ \A u \in Units : journal[u] <= emitted
  /\ \A c \in Containers :
       /\ Len(docker[c]) <= emitted
       /\ \A i \in DOMAIN docker[c] : docker[c][i] <= ms
       /\ \A i, j \in DOMAIN docker[c] : i <= j => docker[c][i] <= docker[c][j]

TasksInv ==
  \A p \in Pullers : puller[p].at \in {"next", "fetch", "commit"} => puller[p].todo # <<>>

CursorsInv ==
  /\ \A s \in Sources : cursor[s] # NoCursor => Passed(s, cursor[s])
  /\ \A p \in Pullers, s \in Sources : Holds(p, s) /\ puller[p].state # NoCursor => Passed(s, puller[p].state)

\* What a worker is about to commit is all that its cursor will pass.
JournalBatch(u, state, lines, next) ==
  /\ next \in 0 .. journal[u] /\ lines \subseteq 1 .. next
  /\ IF state = NoCursor
     THEN \A n \in (1 .. next) \ Blank : n >= next - Window + 1 => n \in lines
     ELSE state <= next /\ lines = {n \in (1 .. next) \ Blank : n > state}

DockerBatch(c, state, lines, next) ==
  /\ next \in 0 .. ms /\ lines \subseteq DOMAIN docker[c]
  /\ \E r \in lines : docker[c][r] = next
  /\ \A r \in lines : docker[c][r] <= next /\ (state # NoCursor => docker[c][r] > state)
  /\ \A n \in DOMAIN docker[c] : docker[c][n] <= next =>
       \/ n \in lines \/ docker[c][n] = next \/ \A r \in lines : n < r
       \/ state # NoCursor /\ docker[c][n] <= state

BatchesInv ==
  \A p \in Pullers, s \in Sources : Holds(p, s) /\ puller[p].at = "commit" =>
    IF s \in Units THEN JournalBatch(s, puller[p].state, puller[p].lines, puller[p].next)
    ELSE DockerBatch(s, puller[p].state, puller[p].lines, puller[p].next)

\* In a source that no two workers pulled at the same time, the cursor is as it
\* was read, and nothing is stored that it has not passed.
UnsharedInv ==
  \A s \in Sources \ shared :
    /\ \A p \in Pullers : Holds(p, s) => puller[p].state = cursor[s]
    /\ \A n \in 1 .. MaxLines :
         copies[s][n] <= 1 /\ (copies[s][n] > 0 => cursor[s] # NoCursor /\ Before(s, n, cursor[s]))

LogInv == SourcesInv /\ TasksInv /\ CursorsInv /\ BatchesInv /\ UnsharedInv


-----------------------------------------------------------------------------
(* Lemmas on the operators of the pull. *)

\* Whole seconds keep the order of times.
LEMMA SecondsAscend ==
  ASSUME NEW a \in Int, NEW b \in Int, a \div Second < b \div Second PROVE a < b
<1>1. Second \in Nat /\ Second > 0 BY LogNumbersAssumption
<1>. DEFINE q == a \div Second
            r == b \div Second
<1>2. q \in Int /\ r \in Int BY <1>1
<1>3. a = Second * q + (a % Second) /\ b = Second * r + (b % Second)
  BY <1>1, Z3
<1>4. a % Second < Second /\ b % Second >= 0 /\ a % Second \in Int /\ b % Second \in Int BY <1>1, Z3
<1>5. Second * (q + 1) <= Second * r
  <2>1. q + 1 <= r BY <1>2
  <2>. QED BY <2>1, <1>1, <1>2, Z3
<1>6. Second * (q + 1) = Second * q + Second BY <1>1, <1>2
<1>. QED BY <1>3, <1>4, <1>5, <1>6, <1>1, <1>2

\* The containers of a snapshot, in some order.
LEMMA NamesInSequence ==
  ASSUME NEW names \in SUBSET Containers PROVE SetToSeq(names) \in Seq(Containers)
<1>1. IsFiniteSet(names) BY FS_Subset, SourcesAssumption
<1>2. Cardinality(names) \in Nat /\ ExistsBijection(1 .. Cardinality(names), names)
  BY <1>1, FS_CardinalityType
<1>3. PICK f \in [1 .. Cardinality(names) -> names] : IsInjective(f)
  BY <1>2, Zenon DEF ExistsBijection, Bijection, Injection, IsInjective
<1>4. SetToSeq(names) \in [1 .. Cardinality(names) -> names]
  BY <1>3, Zenon DEF SetToSeq
<1>. QED BY <1>2, <1>4

LEMMA SeqTail ==
  ASSUME NEW S, NEW s \in Seq(S), s # <<>>
  PROVE  /\ Head(s) \in S /\ Tail(s) \in Seq(S) /\ Len(s) \in Nat /\ Len(s) >= 1
         /\ Len(s) # 1 => Tail(s) # <<>>
<1>1. Len(s) \in Nat /\ Len(s) >= 1 OBVIOUS
<1>2. Head(s) \in S /\ Tail(s) \in Seq(S) OBVIOUS
<1>3. ASSUME Len(s) # 1 PROVE Tail(s) # <<>>
  <2>1. Len(Tail(s)) = Len(s) - 1 OBVIOUS
  <2>. QED BY <2>1, <1>1, <1>3
<1>. QED BY <1>1, <1>2, <1>3

LEMMA SeqElement == ASSUME NEW S, NEW s \in Seq(S), NEW i \in 1 .. Len(s) PROVE s[i] \in S
OBVIOUS

\* A cursor is a number, and a step of a worker that has a source is in its type.
LEMMA LeaveStep ==
  ASSUME LogTypes, NEW p \in Pullers, puller[p].todo # <<>>
  PROVE  /\ Leave(p) \in PullerType /\ Leave(p).at \in {"idle", "gone", "next"}
         /\ Leave(p).at = "next" => Leave(p).todo # <<>>
<1>1. puller[p] \in PullerType BY DEF LogTypes
<1>2. Idle \in PullerType /\ Ended(p) \in PullerType /\ Ended(p).at \in {"idle", "gone"}
  <2>1. Idle \in PullerType
    <3>1. <<>> \in Seq(Sources) OBVIOUS
    <3>. QED BY <3>1 DEF Idle, PullerType
  <2>2. [Idle EXCEPT !.at = "gone"] \in PullerType
    <3>. QED BY <2>1 DEF PullerType
  <2>3. Idle.at = "idle" /\ [Idle EXCEPT !.at = "gone"].at = "gone" BY DEF Idle
  <2>. QED BY <2>1, <2>2, <2>3 DEF Ended
<1>3. CASE Len(puller[p].todo) = 1 BY <1>2, <1>3 DEF Leave
<1>4. CASE Len(puller[p].todo) # 1
  <2>1. puller[p].todo \in Seq(Sources) BY <1>1 DEF PullerType
  <2>2. Tail(puller[p].todo) \in Seq(Sources) /\ Tail(puller[p].todo) # <<>> BY <2>1, <1>4, SeqTail
  <2>. QED BY <1>1, <1>4, <2>2 DEF Leave, PullerType
<1>. QED BY <1>3, <1>4

LEMMA TaskIsSource ==
  ASSUME LogTypes, NEW p \in Pullers, puller[p].todo # <<>> PROVE TaskOf(p) \in Sources
BY DEF LogTypes, PullerType, TaskOf

LEMMA SourcesApart == \A s \in Sources : s \in Units <=> s \notin Containers
BY SourcesAssumption DEF Sources

-----------------------------------------------------------------------------
(* Types, and what a worker is about to commit. *)

LogBase == LogTypes /\ SourcesInv /\ TasksInv /\ BatchesInv

LEMMA LogBaseInit == LogInit => LogBase
<1>. SUFFICES ASSUME LogInit PROVE LogBase OBVIOUS
<1>1. LogTypes
  BY LogNumbersAssumption, SourcesAssumption DEF LogInit, LogTypes, PullerType, Idle, Cursors
<1>2. SourcesInv BY DEF LogInit, SourcesInv
<1>3. TasksInv /\ BatchesInv BY DEF LogInit, TasksInv, BatchesInv, Holds, Idle
<1>. QED BY <1>1, <1>2, <1>3 DEF LogBase

\* What a source tells later does not touch what is about to be committed.
LEMMA WorldKeepsBase ==
  ASSUME LogBase, (\E u \in Units : WriteJournal(u)) \/ (\E c \in Containers : WriteDocker(c)) \/ MsPasses
  PROVE  LogBase'
<1>. USE DEF LogBase
<1>1. ASSUME NEW u \in Units, WriteJournal(u) PROVE LogBase'
  <2>1. UNCHANGED <<docker, ms, cursor, copies, puller, faults, shared, from, tailed, marks>>
    BY <1>1 DEF WriteJournal, tableVars, logHistory
  <2>2. emitted \in Nat /\ emitted < MaxLines /\ emitted' = emitted + 1 /\ journal[u] <= emitted
    BY <1>1 DEF WriteJournal, Emits, LogTypes, SourcesInv
  <2>3. journal' = [journal EXCEPT ![u] = @ + 1] BY <1>1 DEF WriteJournal
  <2>4. LogTypes'
    <3>1. journal' \in [Units -> 0 .. MaxLines] /\ emitted' \in 0 .. MaxLines
      BY <2>2, <2>3, LogNumbersAssumption DEF LogTypes
    <3>. QED BY <2>1, <3>1 DEF LogTypes
  <2>5. SourcesInv' BY <2>1, <2>2, <2>3 DEF SourcesInv, LogTypes
  <2>6. TasksInv' BY <2>1 DEF TasksInv
  <2>7. BatchesInv'
    <3>1. \A s \in Units : journal[s] \in Nat /\ journal'[s] \in Nat /\ journal[s] <= journal'[s]
      BY <2>3 DEF LogTypes
    <3>2. \A s \in Units : \A a, b, d : JournalBatch(s, a, b, d) => JournalBatch(s, a, b, d)'
      BY <3>1 DEF JournalBatch
    <3>3. \A s \in Sources : \A a, b, d : DockerBatch(s, a, b, d) => DockerBatch(s, a, b, d)'
      BY <2>1 DEF DockerBatch
    <3>. QED BY <2>1, <3>2, <3>3 DEF BatchesInv, Holds, TaskOf
  <2>. QED BY <2>4, <2>5, <2>6, <2>7
<1>2. ASSUME NEW c \in Containers, WriteDocker(c) PROVE LogBase'
  <2>1. UNCHANGED <<journal, ms, cursor, copies, puller, faults, shared, from, tailed, marks>>
    BY <1>2 DEF WriteDocker, tableVars, logHistory
  <2>2. emitted \in Nat /\ emitted < MaxLines /\ emitted' = emitted + 1 /\ Len(docker[c]) <= emitted
    BY <1>2 DEF WriteDocker, Emits, LogTypes, SourcesInv
  <2>3. docker' = [docker EXCEPT ![c] = Append(@, ms)] BY <1>2 DEF WriteDocker
  <2>4. docker \in [Containers -> Seq(0 .. MaxMs)] /\ ms \in 0 .. MaxMs BY DEF LogTypes
  <2>5. /\ docker' \in [Containers -> Seq(0 .. MaxMs)]
        /\ \A d \in Containers : Len(docker'[d]) <= emitted' /\ Len(docker'[d]) <= MaxLines
    <3>1. Append(docker[c], ms) \in Seq(0 .. MaxMs) /\ Len(Append(docker[c], ms)) = Len(docker[c]) + 1
      BY <2>4
    <3>2. docker'[c] = Append(docker[c], ms) /\ \A d \in Containers : d # c => docker'[d] = docker[d]
      BY <2>3, <2>4
    <3>3. Len(docker[c]) \in Nat BY <2>4
    <3>4. ASSUME NEW d \in Containers PROVE Len(docker'[d]) <= emitted' /\ Len(docker'[d]) <= MaxLines
      <4>1. CASE d = c BY <4>1, <3>1, <3>2, <3>3, <2>2, LogNumbersAssumption
      <4>2. CASE d # c
        <5>1. Len(docker[d]) \in Nat BY <2>4
        <5>2. Len(docker[d]) <= MaxLines /\ Len(docker[d]) <= emitted BY DEF LogTypes, SourcesInv
        <5>. QED BY <4>2, <3>2, <5>1, <5>2, <2>2
      <4>. QED BY <4>1, <4>2
    <3>. QED BY <3>1, <3>4, <2>3, <2>4
  <2>6. LogTypes'
    <3>1. emitted' \in 0 .. MaxLines BY <2>2, LogNumbersAssumption
    <3>. QED BY <2>1, <2>5, <3>1 DEF LogTypes
  <2>7. \A d \in Containers : DOMAIN docker[d] \subseteq DOMAIN docker'[d]
          /\ \A n \in DOMAIN docker'[d] : IF n \in DOMAIN docker[d] THEN docker'[d][n] = docker[d][n]
                                       ELSE docker'[d][n] = ms /\ \A i \in DOMAIN docker[d] : i < n
    <3>. TAKE d \in Containers
    <3>1. CASE d = c
      <4>1. docker'[c] = Append(docker[c], ms) BY <2>3, <2>4
      <4>2. docker[c] \in Seq(0 .. MaxMs) BY <2>4
      <4>. QED BY <3>1, <4>1, <4>2, <2>4
    <3>2. CASE d # c BY <3>2, <2>3, <2>4
    <3>. QED BY <3>1, <3>2
  <2>8. SourcesInv'
    <3>1. ASSUME NEW d \in Containers
          PROVE  /\ \A i \in DOMAIN docker'[d] : docker'[d][i] <= ms
                 /\ \A i, j \in DOMAIN docker'[d] : i <= j => docker'[d][i] <= docker'[d][j]
      <4>1. /\ \A i \in DOMAIN docker[d] : docker[d][i] <= ms
            /\ \A i, j \in DOMAIN docker[d] : i <= j => docker[d][i] <= docker[d][j]
        BY DEF SourcesInv
      <4>2. DOMAIN docker'[d] \subseteq Int BY <2>5
      <4>3. DOMAIN docker[d] \subseteq Int BY <2>4
      <4>4. ms \in Int /\ ms <= ms BY <2>4
      <4>5. \A n \in DOMAIN docker'[d] : IF n \in DOMAIN docker[d] THEN docker'[d][n] = docker[d][n]
                                       ELSE docker'[d][n] = ms /\ \A i \in DOMAIN docker[d] : i < n
        BY <2>7
      <4>6. \A i \in DOMAIN docker'[d] : docker'[d][i] <= ms BY <4>1, <4>4, <4>5
      <4>7. ASSUME NEW i \in DOMAIN docker'[d], NEW j \in DOMAIN docker'[d], i <= j PROVE docker'[d][i] <= docker'[d][j]
        <5>1. CASE j \in DOMAIN docker[d]
          <6>1. i \in DOMAIN docker[d]
            <7>1. ASSUME i \notin DOMAIN docker[d] PROVE FALSE
              <8>1. j < i BY <4>5, <5>1, <7>1
              <8>. QED BY <4>2, <4>7, <8>1
            <7>. QED BY <7>1
          <6>. QED BY <4>1, <4>5, <4>7, <5>1, <6>1
        <5>2. CASE j \notin DOMAIN docker[d]
          <6>1. docker'[d][j] = ms BY <4>5, <5>2
          <6>. QED BY <4>6, <6>1
        <5>. QED BY <5>1, <5>2
      <4>. QED BY <4>6, <4>7
    <3>2. \A u \in Units : journal'[u] <= emitted' BY <2>1, <2>2 DEF SourcesInv, LogTypes
    <3>. QED BY <2>5, <3>1, <3>2, <2>1 DEF SourcesInv
  <2>9. TasksInv' BY <2>1 DEF TasksInv
  <2>10. BatchesInv'
    <3>1. \A s \in Units : \A a, b, d : JournalBatch(s, a, b, d) => JournalBatch(s, a, b, d)'
      BY <2>1 DEF JournalBatch
    <3>2. ASSUME NEW d \in Containers, NEW a, NEW b, NEW e, DockerBatch(d, a, b, e) PROVE DockerBatch(d, a, b, e)'
      <4>1. e \in 0 .. ms /\ e <= ms BY <3>2 DEF DockerBatch
      <4>2. \A r \in b : docker'[d][r] = docker[d][r] BY <3>2, <2>7 DEF DockerBatch
      <4>3. b \subseteq DOMAIN docker'[d] BY <3>2, <2>7 DEF DockerBatch
      <4>4. ASSUME NEW n \in DOMAIN docker'[d], docker'[d][n] <= e
            PROVE  \/ n \in b \/ docker'[d][n] = e \/ \A r \in b : n < r
                   \/ a # NoCursor /\ docker'[d][n] <= a
        <5>1. CASE n \in DOMAIN docker[d] BY <5>1, <4>4, <3>2, <2>7 DEF DockerBatch
        <5>2. CASE n \notin DOMAIN docker[d] BY <5>2, <4>4, <4>1, <2>7, <2>4
        <5>. QED BY <5>1, <5>2
      <4>. QED BY <3>2, <4>1, <4>2, <4>3, <4>4, <2>1 DEF DockerBatch
    <3>3. ASSUME NEW p \in Pullers, NEW s \in Sources, Holds(p, s)', puller'[p].at = "commit"
          PROVE  IF s \in Units THEN JournalBatch(s, puller[p].state, puller[p].lines, puller[p].next)'
                 ELSE DockerBatch(s, puller[p].state, puller[p].lines, puller[p].next)'
      <4>1. Holds(p, s) /\ puller[p].at = "commit" BY <3>3, <2>1 DEF Holds, TaskOf
      <4>2. CASE s \in Units BY <4>1, <4>2, <3>1, <2>1 DEF BatchesInv
      <4>3. CASE s \notin Units
        <5>1. s \in Containers BY <4>3, SourcesApart
        <5>. QED BY <4>1, <4>3, <5>1, <3>2, <2>1 DEF BatchesInv
      <4>. QED BY <4>2, <4>3
    <3>. QED BY <3>3 DEF BatchesInv
  <2>. QED BY <2>6, <2>8, <2>9, <2>10
<1>3. ASSUME MsPasses PROVE LogBase'
  <2>1. UNCHANGED <<journal, docker, emitted, cursor, copies, puller, faults, shared, from, tailed, marks>>
    BY <1>3 DEF MsPasses, tableVars, logHistory
  <2>2. ms \in Nat /\ ms < MaxMs /\ ms' = ms + 1 BY <1>3 DEF MsPasses, LogTypes
  <2>3. LogTypes' BY <2>1, <2>2, LogNumbersAssumption DEF LogTypes
  <2>4. SourcesInv'
    <3>1. \A c \in Containers : \A i \in DOMAIN docker[c] : docker[c][i] \in Int /\ docker[c][i] <= ms
      <4>1. \A c \in Containers : docker[c] \in Seq(0 .. MaxMs) BY DEF LogTypes
      <4>2. ASSUME NEW c \in Containers, NEW i \in DOMAIN docker[c] PROVE docker[c][i] \in Int
        BY <4>1, LogNumbersAssumption
      <4>. QED BY <4>2 DEF SourcesInv
    <3>. QED BY <2>1, <2>2, <3>1 DEF SourcesInv
  <2>5. TasksInv' BY <2>1 DEF TasksInv
  <2>6. BatchesInv'
    <3>1. \A s \in Units : \A a, b, d : JournalBatch(s, a, b, d) => JournalBatch(s, a, b, d)'
      BY <2>1 DEF JournalBatch
    <3>2. \A s \in Sources : \A a, b, d : DockerBatch(s, a, b, d) => DockerBatch(s, a, b, d)'
      BY <2>1, <2>2 DEF DockerBatch
    <3>. QED BY <2>1, <3>1, <3>2 DEF BatchesInv, Holds, TaskOf
  <2>. QED BY <2>3, <2>4, <2>5, <2>6
<1>. QED BY <1>1, <1>2, <1>3

Batch(s, step) ==
  IF s \in Units THEN JournalBatch(s, step.state, step.lines, step.next)
  ELSE DockerBatch(s, step.state, step.lines, step.next)

\* A worker goes on: its types, its tasks and what it is about to commit.
LEMMA WorkerMoves ==
  ASSUME LogBase, NEW p \in Pullers, NEW step \in PullerType, Goes(p, step), UNCHANGED sourceVars,
         step.at \in {"next", "fetch", "commit"} => step.todo # <<>>,
         step.at = "commit" => Batch(Head(step.todo), step)
  PROVE  puller' \in [Pullers -> PullerType] /\ SourcesInv' /\ TasksInv' /\ BatchesInv'
<1>1. puller' = [puller EXCEPT ![p] = step] /\ UNCHANGED <<journal, docker, ms, emitted>>
  BY DEF Goes, sourceVars
<1>2. puller \in [Pullers -> PullerType] BY DEF LogBase, LogTypes
<1>3. puller' \in [Pullers -> PullerType] BY <1>1, <1>2
<1>4. SourcesInv' BY <1>1 DEF LogBase, SourcesInv
<1>5. TasksInv' BY <1>1, <1>2 DEF LogBase, TasksInv
<1>6. BatchesInv'
  <2>1. \A s, a, b, d : (JournalBatch(s, a, b, d) => JournalBatch(s, a, b, d)')
                       /\ (DockerBatch(s, a, b, d) => DockerBatch(s, a, b, d)')
    BY <1>1 DEF JournalBatch, DockerBatch
  <2>2. ASSUME NEW q \in Pullers, NEW s \in Sources, Holds(q, s)', puller'[q].at = "commit"
        PROVE  Batch(s, puller'[q])
    <3>1. CASE q = p BY <3>1, <2>2, <1>1, <1>2 DEF Holds, TaskOf
    <3>2. CASE q # p
      <4>1. puller'[q] = puller[q] BY <3>2, <1>1, <1>2
      <4>. QED BY <4>1, <2>2 DEF LogBase, BatchesInv, Holds, TaskOf, Batch
    <3>. QED BY <3>1, <3>2
  <2>. QED BY <2>1, <2>2 DEF BatchesInv, Batch
<1>. QED BY <1>3, <1>4, <1>5, <1>6

\* The same when nothing but the worker and the bound on failures changes.
LEMMA WorkerMovesAlone ==
  ASSUME LogBase, NEW p \in Pullers, NEW step \in PullerType, Goes(p, step),
         UNCHANGED <<sourceVars, tableVars, logHistory>>, faults' \in 0 .. MaxLogFaults,
         step.at \in {"next", "fetch", "commit"} => step.todo # <<>>,
         step.at = "commit" => Batch(Head(step.todo), step)
  PROVE  LogBase'
<1>1. puller' \in [Pullers -> PullerType] /\ SourcesInv' /\ TasksInv' /\ BatchesInv' BY WorkerMoves
<1>2. LogTypes' BY <1>1 DEF LogBase, LogTypes, sourceVars, tableVars, logHistory
<1>. QED BY <1>1, <1>2 DEF LogBase

LEMMA TypeOfWorker == ASSUME LogTypes, NEW p \in Pullers PROVE puller[p] \in PullerType
BY DEF LogTypes

\* Leaving a source, ended or not, and starting over.
LEMMA LeavingKeepsBase ==
  ASSUME LogBase, NEW p \in Pullers, UNCHANGED <<sourceVars, tableVars, logHistory>>, faults' \in 0 .. MaxLogFaults,
         \/ Goes(p, Idle)
         \/ puller[p].todo # <<>> /\ Goes(p, Leave(p))
  PROVE  LogBase'
<1>1. CASE Goes(p, Idle)
  <2>1. Idle \in PullerType /\ Idle.at = "idle"
    <3>1. <<>> \in Seq(Sources) OBVIOUS
    <3>. QED BY <3>1 DEF Idle, PullerType
  <2>. QED BY <1>1, <2>1, WorkerMovesAlone
<1>2. CASE puller[p].todo # <<>> /\ Goes(p, Leave(p))
  <2>1. /\ Leave(p) \in PullerType /\ Leave(p).at \in {"idle", "gone", "next"}
        /\ Leave(p).at = "next" => Leave(p).todo # <<>>
    BY <1>2, LeaveStep DEF LogBase
  <2>. QED BY <1>2, <2>1, WorkerMovesAlone
<1>. QED BY <1>1, <1>2

LEMMA PullBeginsKeepsBase == ASSUME LogBase, NEW p \in Pullers, PullBegins(p) PROVE LogBase'
<1>1. PICK names \in SUBSET Containers :
        Goes(p, [Idle EXCEPT !.at = "next", !.now = ms \div Second, !.todo = JournalUnits \o SetToSeq(names)])
  BY DEF PullBegins
<1>. DEFINE todo == JournalUnits \o SetToSeq(names)
            step == [Idle EXCEPT !.at = "next", !.now = ms \div Second, !.todo = todo]
<1>2. todo \in Seq(Sources) /\ todo # <<>>
  <2>1. SetToSeq(names) \in Seq(Containers) BY NamesInSequence
  <2>2. JournalUnits \in Seq(Units) /\ JournalUnits # <<>> BY SourcesAssumption
  <2>3. Units \subseteq Sources /\ Containers \subseteq Sources BY DEF Sources
  <2>4. SetToSeq(names) \in Seq(Sources) /\ JournalUnits \in Seq(Sources) BY <2>1, <2>2, <2>3
  <2>. HIDE DEF Units
  <2>. QED BY <2>2, <2>4
<1>3. ms \div Second \in Nat
  <2>1. ms \in Nat /\ Second \in Nat /\ Second > 0 BY LogNumbersAssumption DEF LogBase, LogTypes
  <2>. QED BY <2>1
<1>4. step \in PullerType /\ step.at = "next" /\ step.todo = todo
  <2>. HIDE DEF todo
  <2>. QED BY <1>2, <1>3 DEF Idle, PullerType
<1>5. UNCHANGED <<sourceVars, tableVars, logHistory>> /\ faults' \in 0 .. MaxLogFaults
  BY DEF PullBegins, LogBase, LogTypes
<1>. HIDE DEF step
<1>6. Goes(p, step) BY <1>1 DEF step
<1>. QED BY <1>2, <1>4, <1>5, <1>6, WorkerMovesAlone

LEMMA LoadCursorKeepsBase == ASSUME LogBase, NEW p \in Pullers, LoadCursor(p) PROVE LogBase'
<1>. DEFINE step == [puller[p] EXCEPT !.at = "fetch", !.state = cursor[TaskOf(p)]]
<1>1. puller[p] \in PullerType /\ puller[p].todo # <<>>
  BY TypeOfWorker DEF LogBase, TasksInv, LoadCursor, PullerAt
<1>2. TaskOf(p) \in Sources BY <1>1, TaskIsSource DEF LogBase
<1>3. cursor[TaskOf(p)] \in Cursors \cup {NoCursor} BY <1>2 DEF LogBase, LogTypes
<1>4. step \in PullerType /\ step.at = "fetch" /\ step.todo # <<>> BY <1>1, <1>3 DEF PullerType
<1>5. UNCHANGED <<sourceVars, tableVars, logHistory>> /\ faults' \in 0 .. MaxLogFaults /\ Goes(p, step)
  BY DEF LoadCursor, LogBase, LogTypes
<1>. HIDE DEF step
<1>. QED BY <1>4, <1>5, WorkerMovesAlone

LEMMA PullJournalKeepsBase == ASSUME LogBase, NEW p \in Pullers, PullJournal(p) PROVE LogBase'
<1>. DEFINE u == TaskOf(p)
            state == puller[p].state
            answer == JournalAnswer(u, state)
            lines == answer.lines \ Blank
            step == [puller[p] EXCEPT !.at = "commit", !.lines = lines, !.next = answer.cursor]
<1>1. /\ puller[p] \in PullerType /\ puller[p].todo # <<>> /\ u \in Units
      /\ UNCHANGED <<sourceVars, tableVars, logHistory>> /\ faults' \in 0 .. MaxLogFaults
  BY TypeOfWorker DEF LogBase, TasksInv, PullJournal, PullerAt, LogTypes
<1>2. CASE lines = {} /\ answer.cursor = state /\ Goes(p, Leave(p)) BY <1>1, <1>2, LeavingKeepsBase
<1>3. CASE ~(lines = {} /\ answer.cursor = state) /\ Goes(p, step)
  <2>1. journal[u] \in 0 .. MaxLines /\ state \in Cursors \cup {NoCursor}
    BY <1>1 DEF LogBase, LogTypes, PullerType
  <2>2. NoCursor \notin Int /\ Window \in Nat \ {0} /\ MaxLines \in Nat /\ MaxMs \in Nat
    BY SourcesAssumption, LogNumbersAssumption
  <2>3. JournalBatch(u, state, lines, answer.cursor)
    <3>1. CASE state = NoCursor
      <4>1. /\ answer.lines = {n \in 1 .. journal[u] : n >= journal[u] - Window + 1 /\ n <= journal[u]}
            /\ answer.lines # {} => answer.cursor = journal[u]
            /\ answer.lines = {} => answer.cursor = state
        BY <3>1, <2>1 DEF JournalAnswer
      <4>2. answer.lines # {} BY <4>1, <1>3
      <4>. QED BY <3>1, <4>1, <4>2, <2>1, <2>2 DEF JournalBatch
    <3>2. CASE state # NoCursor
      <4>. DEFINE last == state + Window
      <4>1. state \in Nat BY <3>2, <2>1, <2>2 DEF Cursors
      <4>2. /\ answer.lines = {n \in 1 .. journal[u] : n >= state + 1 /\ n <= last}
            /\ answer.lines # {} => answer.cursor = IF last < journal[u] THEN last ELSE journal[u]
            /\ answer.lines = {} => answer.cursor = state
        BY <3>2, <2>1 DEF JournalAnswer
      <4>3. answer.lines # {} BY <4>2, <1>3
      <4>4. state + 1 <= journal[u] BY <4>1, <4>2, <4>3, <2>1
      <4>5. answer.cursor \in 0 .. journal[u] /\ state <= answer.cursor
        BY <4>1, <4>2, <4>3, <4>4, <2>1, <2>2
      <4>6. \A n \in Int : n \in answer.lines <=> n \in 1 .. answer.cursor /\ n > state
        BY <4>1, <4>2, <4>3, <4>4, <2>1, <2>2
      <4>7. answer.lines \subseteq Int BY <4>2, <2>1
      <4>8. lines = {n \in (1 .. answer.cursor) \ Blank : n > state} BY <4>5, <4>6, <4>7, <2>1
      <4>. HIDE DEF lines, answer
      <4>. QED BY <3>2, <4>5, <4>8 DEF JournalBatch
    <3>. QED BY <3>1, <3>2
  <2>4. step \in PullerType
    <3>1. lines \subseteq 1 .. MaxLines /\ answer.cursor \in Cursors
      BY <2>1, <2>2, <2>3 DEF JournalBatch, Cursors
    <3>. HIDE DEF lines, answer
    <3>. QED BY <1>1, <3>1 DEF PullerType
  <2>5. Batch(Head(step.todo), step) /\ step.at = "commit" /\ step.todo # <<>>
    <3>. HIDE DEF lines, answer
    <3>1. step.todo = puller[p].todo /\ step.state = state /\ step.lines = lines /\ step.next = answer.cursor /\ step.at = "commit"
      BY <1>1 DEF PullerType
    <3>. HIDE DEF step
    <3>. QED BY <1>1, <2>3, <3>1 DEF Batch, TaskOf
  <2>. HIDE DEF step
  <2>. QED BY <1>1, <1>3, <2>4, <2>5, WorkerMovesAlone
<1>. QED BY <1>2, <1>3 DEF PullJournal

LEMMA PullDockerKeepsBase == ASSUME LogBase, NEW p \in Pullers, PullDocker(p) PROVE LogBase'
<1>. DEFINE c == TaskOf(p)
            state == puller[p].state
            since == Since(puller[p].now, state)
            lines == Fresh(c, DockerAnswer(c, since), state)
            step == [puller[p] EXCEPT !.at = "commit", !.lines = lines, !.next = Newest(c, lines)]
<1>1. /\ puller[p] \in PullerType /\ puller[p].todo # <<>> /\ c \in Containers
      /\ UNCHANGED <<sourceVars, tableVars, logHistory>> /\ faults' \in 0 .. MaxLogFaults
  BY TypeOfWorker DEF LogBase, TasksInv, PullDocker, PullerAt, LogTypes
<1>2. CASE Goes(p, Leave(p)) BY <1>1, <1>2, LeavingKeepsBase
<1>3. CASE lines # {} /\ Goes(p, step)
  <2>. DEFINE size == Len(docker[c])
  <2>1. /\ docker[c] \in Seq(0 .. MaxMs) /\ size \in Nat /\ DOMAIN docker[c] = 1 .. size /\ size <= MaxLines
        /\ ms \in 0 .. MaxMs /\ state \in Cursors \cup {NoCursor} /\ puller[p].now \in Nat
    BY <1>1 DEF LogBase, LogTypes, PullerType
  <2>2. NoCursor \notin Int /\ Window \in Nat \ {0} /\ MaxMs \in Nat /\ MaxLines \in Nat /\ Second \in Nat \ {0} /\ Lookback \in Nat
    BY SourcesAssumption, LogNumbersAssumption
  <2>3. \A n \in 1 .. size : docker[c][n] \in Nat /\ docker[c][n] <= ms /\ docker[c][n] \div Second \in Int
    <3>1. ASSUME NEW n \in 1 .. size PROVE docker[c][n] \in 0 .. MaxMs BY <2>1, SeqElement
    <3>2. ASSUME NEW n \in 1 .. size PROVE docker[c][n] <= ms BY <2>1, <1>1 DEF LogBase, SourcesInv
    <3>. QED BY <3>1, <3>2, <2>2
  <2>4. \A i, j \in 1 .. size : i <= j => docker[c][i] <= docker[c][j]
    BY <2>1, <1>1 DEF LogBase, SourcesInv
  <2>5. state # NoCursor => state \in Nat BY <2>1, <2>2 DEF Cursors
  <2>6. since \in Int /\ (state # NoCursor => since = state \div Second) BY <2>1, <2>2, <2>5 DEF Since
  <2>7. \A n : n \in lines <=> /\ n \in 1 .. size /\ docker[c][n] \div Second >= since /\ n > size - Window
                             /\ (state # NoCursor => docker[c][n] > state)
    BY <2>1 DEF Fresh, DockerAnswer
  <2>. HIDE DEF lines, since
  <2>8. size \in lines /\ \A r \in lines : docker[c][r] <= docker[c][size]
    <3>1. PICK r \in lines : TRUE BY <1>3
    <3>2. r \in 1 .. size /\ size \in 1 .. size /\ docker[c][r] <= docker[c][size] BY <3>1, <2>1, <2>4, <2>7
    <3>3. ~(docker[c][size] \div Second < docker[c][r] \div Second)
      <4>. SUFFICES ASSUME docker[c][size] \div Second < docker[c][r] \div Second PROVE FALSE OBVIOUS
      <4>1. docker[c][size] \in Int /\ docker[c][r] \in Int BY <3>2, <2>3
      <4>2. docker[c][size] < docker[c][r] BY <4>1, SecondsAscend
      <4>. QED BY <4>1, <4>2, <3>2
    <3>4. docker[c][size] \div Second >= since BY <3>1, <3>2, <3>3, <2>3, <2>6, <2>7
    <3>5. state # NoCursor => docker[c][size] > state
      <4>. SUFFICES ASSUME state # NoCursor PROVE docker[c][size] > state OBVIOUS
      <4>1. state \in Int /\ docker[c][r] \in Int /\ docker[c][size] \in Int BY <2>5, <3>2, <2>3
      <4>2. docker[c][r] > state BY <3>1, <2>7, Zenon
      <4>3. \A a, b, d \in Int : a > b /\ a <= d => d > b OBVIOUS
      <4>. QED BY <3>2, <4>1, <4>2, <4>3, Zenon
    <3>6. size \in lines
      <4>1. size > size - Window BY <2>1, <2>2
      <4>. QED BY <3>2, <3>4, <3>5, <4>1, <2>7
    <3>. QED BY <3>6, <2>1, <2>4, <2>7
  <2>9. Newest(c, lines) = docker[c][size]
    <3>1. \E t \in {docker[c][n] : n \in lines} : \A n \in lines : docker[c][n] <= t BY <2>8
    <3>2. /\ Newest(c, lines) \in {docker[c][n] : n \in lines}
          /\ \A n \in lines : docker[c][n] <= Newest(c, lines)
      BY <3>1, Zenon DEF Newest
    <3>3. PICK r \in lines : Newest(c, lines) = docker[c][r] BY <3>2
    <3>. QED BY <3>2, <3>3, <2>3, <2>7, <2>8
  <2>10. DockerBatch(c, state, lines, docker[c][size])
    <3>1. docker[c][size] \in 0 .. ms /\ lines \subseteq DOMAIN docker[c] BY <2>1, <2>3, <2>7, <2>8
    <3>2. \A r \in lines : docker[c][r] <= docker[c][size] /\ (state # NoCursor => docker[c][r] > state)
      BY <2>7, <2>8
    <3>3. ASSUME NEW n \in DOMAIN docker[c], n \notin lines, ~(state # NoCursor /\ docker[c][n] <= state), NEW r \in lines
          PROVE  n < r
      <4>1. n \in 1 .. size /\ r \in 1 .. size BY <3>3, <2>1, <2>7
      <4>2. CASE n <= size - Window BY <4>1, <4>2, <2>2, <2>7
      <4>3. CASE n > size - Window
        <5>1. state # NoCursor => docker[c][n] > state BY <3>3, <4>1, <2>3, <2>5
        <5>2. docker[c][n] \div Second < since BY <4>1, <4>3, <5>1, <3>3, <2>3, <2>6, <2>7
        <5>3. docker[c][n] \div Second < docker[c][r] \div Second BY <5>2, <4>1, <2>3, <2>6, <2>7
        <5>4. docker[c][n] < docker[c][r] BY <5>3, <4>1, <2>3, SecondsAscend
        <5>. QED BY <5>4, <4>1, <2>3, <2>4
      <4>. QED BY <4>1, <4>2, <4>3, <2>2
    <3>. QED BY <3>1, <3>2, <3>3, <2>8 DEF DockerBatch
  <2>11. step \in PullerType
    <3>1. lines \subseteq 1 .. MaxLines BY <2>1, <2>2, <2>7
    <3>2. docker[c][size] \in Cursors BY <2>1, <2>2, <2>3, <2>7, <2>8 DEF Cursors
    <3>. QED BY <1>1, <3>1, <3>2, <2>9 DEF PullerType
  <2>12. Batch(Head(step.todo), step) /\ step.at = "commit" /\ step.todo # <<>>
    <3>1. step.todo = puller[p].todo /\ step.state = state /\ step.lines = lines /\ step.next = docker[c][size] /\ step.at = "commit"
      BY <1>1, <2>9 DEF PullerType
    <3>2. c \notin Units BY <1>1, SourcesAssumption
    <3>. HIDE DEF step
    <3>. QED BY <1>1, <2>10, <3>1, <3>2 DEF Batch, TaskOf
  <2>. HIDE DEF step
  <2>. QED BY <1>1, <1>3, <2>11, <2>12, WorkerMovesAlone
<1>. QED BY <1>2, <1>3 DEF PullDocker

LEMMA CommitKeepsBase == ASSUME LogBase, NEW p \in Pullers, CommitBatch(p) PROVE LogBase'
<1>. DEFINE s == TaskOf(p)
            read == puller[p].lines
            next == puller[p].next
<1>1. /\ puller[p] \in PullerType /\ puller[p].todo # <<>> /\ puller[p].at = "commit" /\ s \in Sources
  BY TypeOfWorker, TaskIsSource DEF LogBase, TasksInv, CommitBatch, PullerAt
<1>2. /\ copies' = [copies EXCEPT ![s] =
                       [n \in 1 .. MaxLines |-> IF n \in read /\ @[n] < 2 THEN @[n] + 1 ELSE @[n]]]
      /\ cursor' = [cursor EXCEPT ![s] = next]
      /\ Goes(p, Leave(p)) /\ UNCHANGED sourceVars /\ faults' = faults
  BY DEF CommitBatch
<1>3. Batch(s, puller[p]) BY <1>1 DEF LogBase, BatchesInv, Holds, Batch
<1>4. /\ Leave(p) \in PullerType /\ Leave(p).at \in {"idle", "gone", "next"}
      /\ Leave(p).at = "next" => Leave(p).todo # <<>>
  BY <1>1, LeaveStep DEF LogBase
<1>5. puller' \in [Pullers -> PullerType] /\ SourcesInv' /\ TasksInv' /\ BatchesInv'
  BY <1>2, <1>4, WorkerMoves
<1>6. next \in Cursors \cup {NoCursor} BY <1>1 DEF PullerType
<1>7. copies' \in [Sources -> [1 .. MaxLines -> 0 .. 2]]
  <2>1. copies[s] \in [1 .. MaxLines -> 0 .. 2] BY <1>1 DEF LogBase, LogTypes
  <2>2. [n \in 1 .. MaxLines |-> IF n \in read /\ copies[s][n] < 2 THEN copies[s][n] + 1 ELSE copies[s][n]]
          \in [1 .. MaxLines -> 0 .. 2]
    <3>1. \A n \in 1 .. MaxLines : copies[s][n] \in 0 .. 2 BY <2>1
    <3>2. \A n \in 1 .. MaxLines : (IF n \in read /\ copies[s][n] < 2 THEN copies[s][n] + 1 ELSE copies[s][n]) \in 0 .. 2
      BY <3>1
    <3>. QED BY <3>2
  <2>. QED BY <1>2, <2>2 DEF LogBase, LogTypes
<1>8. shared' \subseteq Sources /\ from' \in [Units -> Int]
  <2>1. shared' \subseteq Sources BY <1>1 DEF CommitBatch, LogBase, LogTypes
  <2>2. CASE s \in Units /\ puller[p].state = NoCursor /\ next - Window + 1 > from[s]
    <3>1. from' = [from EXCEPT ![s] = next - Window + 1] BY <2>2 DEF CommitBatch
    <3>2. next \in Int BY <1>3, <2>2, <1>1 DEF Batch, JournalBatch, LogBase, LogTypes
    <3>3. next - Window + 1 \in Int BY <3>2, LogNumbersAssumption
    <3>. QED BY <2>1, <3>1, <3>3 DEF LogBase, LogTypes
  <2>3. CASE ~(s \in Units /\ puller[p].state = NoCursor /\ next - Window + 1 > from[s])
    <3>1. from' = from BY <2>3 DEF CommitBatch
    <3>. QED BY <2>1, <3>1 DEF LogBase, LogTypes
  <2>. QED BY <2>2, <2>3
<1>9. tailed' \in [Containers -> SUBSET (1 .. MaxLines)] /\ marks' \in [Containers -> SUBSET (0 .. MaxMs)]
  <2>1. CASE s \in Containers
    <3>. DEFINE cut == {n \in DOMAIN docker[s] : \A r \in read : n < r /\ copies[s][n] = 0}
    <3>1. tailed' = [tailed EXCEPT ![s] = @ \cup cut] /\ marks' = [marks EXCEPT ![s] = @ \cup {next}]
      BY <2>1 DEF CommitBatch
    <3>2. cut \subseteq 1 .. MaxLines
      <4>1. docker[s] \in Seq(0 .. MaxMs) /\ Len(docker[s]) <= MaxLines BY <2>1 DEF LogBase, LogTypes
      <4>. QED BY <4>1, LogNumbersAssumption
    <3>3. next \in 0 .. MaxMs
      <4>1. s \notin Units BY <2>1, SourcesAssumption
      <4>. QED BY <4>1, <1>3, LogNumbersAssumption DEF Batch, DockerBatch, LogBase, LogTypes
    <3>. HIDE DEF cut
    <3>. QED BY <3>1, <3>2, <3>3 DEF LogBase, LogTypes
  <2>2. CASE s \notin Containers BY <2>2 DEF CommitBatch, LogBase, LogTypes
  <2>. QED BY <2>1, <2>2
<1>10. cursor' \in [Sources -> Cursors \cup {NoCursor}] BY <1>2, <1>6 DEF LogBase, LogTypes
<1>11. LogTypes' BY <1>2, <1>5, <1>7, <1>8, <1>9, <1>10 DEF LogBase, LogTypes, sourceVars
<1>. QED BY <1>5, <1>11 DEF LogBase

LEMMA LogBaseStep == ASSUME LogBase, [LogNext]_logVars PROVE LogBase'
<1>1. CASE UNCHANGED logVars
  <2>1. UNCHANGED <<journal, docker, ms, emitted, cursor, copies, puller, faults, shared, from, tailed, marks>>
    BY <1>1 DEF logVars, sourceVars, tableVars, logHistory
  <2>2. LogTypes' BY <2>1 DEF LogBase, LogTypes
  <2>3. SourcesInv' /\ TasksInv' BY <2>1 DEF LogBase, SourcesInv, TasksInv
  <2>4. \A s, a, b, d : JournalBatch(s, a, b, d)' = JournalBatch(s, a, b, d) /\ DockerBatch(s, a, b, d)' = DockerBatch(s, a, b, d)
    BY <2>1 DEF JournalBatch, DockerBatch
  <2>5. BatchesInv' BY <2>1, <2>4 DEF LogBase, BatchesInv, Holds, TaskOf
  <2>. QED BY <2>2, <2>3, <2>5 DEF LogBase
<1>2. CASE (\E u \in Units : WriteJournal(u)) \/ (\E c \in Containers : WriteDocker(c)) \/ MsPasses
  BY <1>2, WorldKeepsBase
<1>3. ASSUME NEW p \in Pullers, PullStep(p) PROVE LogBase'
  BY <1>3, PullBeginsKeepsBase, LoadCursorKeepsBase, PullJournalKeepsBase, PullDockerKeepsBase, CommitKeepsBase
  DEF PullStep
<1>4. ASSUME NEW p \in Pullers, TaskFails(p) \/ PullerDies(p) PROVE LogBase'
  <2>1. faults' \in 0 .. MaxLogFaults BY <1>4, LogNumbersAssumption DEF TaskFails, PullerDies, LogBase, LogTypes
  <2>2. UNCHANGED <<sourceVars, tableVars, logHistory>> BY <1>4 DEF TaskFails, PullerDies
  <2>. QED BY <1>4, <2>1, <2>2, LeavingKeepsBase DEF TaskFails, PullerDies
<1>. QED BY <1>1, <1>2, <1>3, <1>4 DEF LogNext

-----------------------------------------------------------------------------
(* Cursors pass only what is stored. *)

\* What every step does to what cursors speak of: lines are added at their ends,
\* at the time it is, and nothing is taken back.
Later ==
  /\ \A u \in Units : journal[u] <= journal'[u] /\ from[u] <= from'[u]
  /\ ms <= ms'
  /\ \A c \in Containers :
       /\ marks[c] \subseteq marks'[c] /\ tailed[c] \subseteq tailed'[c]
       /\ DOMAIN docker[c] \subseteq DOMAIN docker'[c]
       /\ \A n \in DOMAIN docker'[c] :
            IF n \in DOMAIN docker[c] THEN docker'[c][n] = docker[c][n] ELSE docker'[c][n] = ms
  /\ \A s \in Sources : \A n \in 1 .. MaxLines : copies[s][n] <= copies'[s][n]

LEMMA CopiesTypes == ASSUME LogBase PROVE \A s \in Sources : \A n \in 1 .. MaxLines : copies[s][n] \in 0 .. 2
<1>1. copies \in [Sources -> [1 .. MaxLines -> 0 .. 2]] BY DEF LogBase, LogTypes
<1>. QED BY <1>1

LEMMA WritingIsLater == ASSUME LogBase, NEW c \in Containers, WriteDocker(c) PROVE Later
<1>1. UNCHANGED <<journal, ms, copies, from, tailed, marks>> BY DEF WriteDocker, tableVars, logHistory
<1>2. docker' = [docker EXCEPT ![c] = Append(@, ms)] /\ docker \in [Containers -> Seq(0 .. MaxMs)]
  BY DEF WriteDocker, LogBase, LogTypes
<1>3. \A u \in Units : journal[u] <= journal[u] /\ from[u] <= from[u] BY DEF LogBase, LogTypes
<1>4. ms <= ms /\ \A s \in Sources : \A n \in 1 .. MaxLines : copies[s][n] <= copies[s][n]
  <2>1. ms \in Nat BY DEF LogBase, LogTypes
  <2>2. ASSUME NEW s \in Sources, NEW n \in 1 .. MaxLines PROVE copies[s][n] <= copies[s][n]
    <3>1. copies[s][n] \in 0 .. 2 BY CopiesTypes
    <3>. QED BY <3>1
  <2>. QED BY <2>1, <2>2
<1>5. ASSUME NEW d \in Containers
      PROVE  /\ DOMAIN docker[d] \subseteq DOMAIN docker'[d]
             /\ \A n \in DOMAIN docker'[d] :
                  IF n \in DOMAIN docker[d] THEN docker'[d][n] = docker[d][n] ELSE docker'[d][n] = ms
  <2>1. CASE d = c
    <3>1. docker'[c] = Append(docker[c], ms) /\ docker[c] \in Seq(0 .. MaxMs) BY <1>2
    <3>. QED BY <2>1, <3>1
  <2>2. CASE d # c BY <2>2, <1>2
  <2>. QED BY <2>1, <2>2
<1>. QED BY <1>1, <1>3, <1>4, <1>5 DEF Later

LEMMA CommitIsLater == ASSUME LogBase, NEW p \in Pullers, CommitBatch(p) PROVE Later
<1>. DEFINE s == TaskOf(p)
            read == puller[p].lines
<1>1. puller[p].todo # <<>> /\ s \in Sources /\ UNCHANGED <<journal, docker, ms>>
  BY TaskIsSource DEF LogBase, TasksInv, CommitBatch, PullerAt, sourceVars
<1>2. copies \in [Sources -> [1 .. MaxLines -> 0 .. 2]] BY DEF LogBase, LogTypes
<1>3. copies' = [copies EXCEPT ![s] =
                   [n \in 1 .. MaxLines |-> IF n \in read /\ @[n] < 2 THEN @[n] + 1 ELSE @[n]]]
  BY DEF CommitBatch
<1>4. ASSUME NEW t \in Sources, NEW n \in 1 .. MaxLines PROVE copies[t][n] <= copies'[t][n]
  <2>1. copies[t][n] \in 0 .. 2 BY <1>2
  <2>. QED BY <2>1, <1>1, <1>2, <1>3
<1>5. \A u \in Units : journal[u] <= journal'[u] /\ from[u] <= from'[u]
  <2>1. ASSUME NEW u \in Units PROVE journal[u] <= journal'[u] BY <1>1 DEF LogBase, LogTypes
  <2>2. ASSUME NEW u \in Units PROVE from[u] <= from'[u]
    <3>1. from \in [Units -> Int] BY DEF LogBase, LogTypes
    <3>2. CASE s \in Units /\ puller[p].state = NoCursor /\ puller[p].next - Window + 1 > from[s]
      <4>1. from' = [from EXCEPT ![s] = puller[p].next - Window + 1] BY <3>2 DEF CommitBatch
      <4>2. from'[u] \in Int BY CommitKeepsBase DEF LogBase, LogTypes
      <4>. QED BY <3>1, <3>2, <4>1, <4>2
    <3>3. CASE ~(s \in Units /\ puller[p].state = NoCursor /\ puller[p].next - Window + 1 > from[s])
      <4>1. from' = from BY <3>3 DEF CommitBatch
      <4>. QED BY <3>1, <4>1
    <3>. QED BY <3>2, <3>3
  <2>. QED BY <2>1, <2>2
<1>6. \A c \in Containers : marks[c] \subseteq marks'[c] /\ tailed[c] \subseteq tailed'[c]
  BY DEF CommitBatch, LogBase, LogTypes
<1>7. ms <= ms' BY <1>1 DEF LogBase, LogTypes
<1>. QED BY <1>1, <1>4, <1>5, <1>6, <1>7 DEF Later

LEMMA OthersAreLater ==
  ASSUME LogBase, UNCHANGED <<docker, tableVars, logHistory>>,
         \/ UNCHANGED <<journal, ms>>
         \/ UNCHANGED journal /\ ms' = ms + 1
         \/ \E u \in Units : journal' = [journal EXCEPT ![u] = @ + 1] /\ UNCHANGED ms
  PROVE  Later
<1>1. UNCHANGED <<docker, copies, from, tailed, marks>> BY DEF tableVars, logHistory
<1>2. \A u \in Units : journal[u] \in Nat /\ from[u] \in Int BY DEF LogBase, LogTypes
<1>3. journal \in [Units -> 0 .. MaxLines] /\ ms \in Nat BY DEF LogBase, LogTypes
<1>4. \A s \in Sources : \A n \in 1 .. MaxLines : copies[s][n] <= copies[s][n] BY CopiesTypes
<1>5. \A u \in Units : journal[u] <= journal'[u] BY <1>2, <1>3
<1>6. ms <= ms' BY <1>3
<1>. QED BY <1>1, <1>2, <1>4, <1>5, <1>6 DEF Later

LEMMA PassedStays ==
  ASSUME LogBase, LogBase', Later, NEW s \in Sources, NEW m \in Int, Passed(s, m) PROVE Passed(s, m)'
<1>1. CASE s \in Units
  <2>1. m <= journal[s] /\ \A n \in (1 .. m) \ Blank : n >= from[s] => copies[s][n] > 0
    BY <1>1 DEF Passed
  <2>2. /\ journal[s] \in 0 .. MaxLines /\ from[s] \in Int /\ copies[s] \in [1 .. MaxLines -> 0 .. 2]
        /\ journal'[s] \in 0 .. MaxLines /\ from'[s] \in Int /\ copies'[s] \in [1 .. MaxLines -> 0 .. 2]
    BY <1>1 DEF LogBase, LogTypes
  <2>3. journal[s] <= journal'[s] /\ from[s] <= from'[s] BY <1>1 DEF Later
  <2>4. m <= journal'[s] BY <2>1, <2>2, <2>3, LogNumbersAssumption
  <2>5. ASSUME NEW n \in (1 .. m) \ Blank, n >= from'[s] PROVE copies'[s][n] > 0
    <3>1. n >= from[s] BY <2>5, <2>2, <2>3
    <3>2. n \in 1 .. MaxLines BY <2>1, <2>2, LogNumbersAssumption
    <3>3. copies[s][n] > 0 /\ copies[s][n] <= copies'[s][n] BY <2>1, <3>1, <3>2 DEF Later
    <3>4. copies[s][n] \in 0 .. 2 /\ copies'[s][n] \in 0 .. 2 BY <2>2, <3>2
    <3>. QED BY <3>3, <3>4
  <2>. QED BY <1>1, <2>4, <2>5 DEF Passed
<1>2. CASE s \notin Units
  <2>1. s \in Containers BY <1>2, SourcesApart
  <2>2. /\ m <= ms /\ m \in marks[s]
        /\ \A n \in DOMAIN docker[s] : docker[s][n] <= m =>
             copies[s][n] > 0 \/ n \in tailed[s] \/ docker[s][n] \in marks[s]
    BY <1>2 DEF Passed
  <2>3. /\ docker[s] \in Seq(0 .. MaxMs) /\ Len(docker[s]) <= MaxLines /\ ms \in 0 .. MaxMs
        /\ ms' \in 0 .. MaxMs /\ copies[s] \in [1 .. MaxLines -> 0 .. 2]
        /\ copies'[s] \in [1 .. MaxLines -> 0 .. 2]
    BY <2>1 DEF LogBase, LogTypes
  <2>4. /\ marks[s] \subseteq marks'[s] /\ tailed[s] \subseteq tailed'[s] /\ ms <= ms'
        /\ \A n \in DOMAIN docker'[s] :
             IF n \in DOMAIN docker[s] THEN docker'[s][n] = docker[s][n] ELSE docker'[s][n] = ms
    BY <2>1 DEF Later
  <2>5. ASSUME NEW n \in DOMAIN docker'[s], docker'[s][n] <= m
        PROVE  copies'[s][n] > 0 \/ n \in tailed'[s] \/ docker'[s][n] \in marks'[s]
    <3>1. CASE n \in DOMAIN docker[s]
      <4>1. docker'[s][n] = docker[s][n] /\ n \in 1 .. MaxLines BY <3>1, <2>3, <2>4, LogNumbersAssumption
      <4>2. copies[s][n] \in 0 .. 2 /\ copies'[s][n] \in 0 .. 2 /\ copies[s][n] <= copies'[s][n] BY <4>1, <2>3 DEF Later
      <4>. QED BY <3>1, <4>1, <4>2, <2>2, <2>4, <2>5
    <3>2. CASE n \notin DOMAIN docker[s]
      <4>1. docker'[s][n] = ms BY <3>2, <2>4
      <4>2. ms = m BY <4>1, <2>2, <2>3, <2>5
      <4>. QED BY <4>1, <4>2, <2>2, <2>4
    <3>. QED BY <3>1, <3>2
  <2>6. m <= ms' BY <2>2, <2>3, <2>4
  <2>. QED BY <1>2, <2>2, <2>4, <2>5, <2>6 DEF Passed
<1>. QED BY <1>1, <1>2

\* The cursor that a worker sets passes what it has stored, or what may lack.
LEMMA CommitPasses ==
  ASSUME LogBase, LogBase', CursorsInv, NEW p \in Pullers, CommitBatch(p),
         NEW s, s = TaskOf(p), NEW next, next = puller[p].next
  PROVE  next \in Int /\ Passed(s, next)'
<1>. DEFINE state == puller[p].state
            read == puller[p].lines
<1>1. /\ puller[p].todo # <<>> /\ puller[p].at = "commit" /\ s \in Sources /\ UNCHANGED <<journal, docker, ms>>
      /\ puller[p] \in PullerType
  BY TaskIsSource, TypeOfWorker DEF LogBase, TasksInv, CommitBatch, PullerAt, sourceVars
<1>2. Batch(s, puller[p]) /\ (state # NoCursor => Passed(s, state))
  BY <1>1 DEF LogBase, BatchesInv, CursorsInv, Holds, Batch
<1>3. state # NoCursor => state \in Nat BY <1>1, LogNumbersAssumption DEF PullerType, Cursors
<1>4. copies' = [copies EXCEPT ![s] =
                   [n \in 1 .. MaxLines |-> IF n \in read /\ @[n] < 2 THEN @[n] + 1 ELSE @[n]]]
  BY DEF CommitBatch
<1>5. ASSUME NEW n \in 1 .. MaxLines PROVE (n \in read \/ copies[s][n] > 0) => copies'[s][n] > 0
  <2>1. copies[s][n] \in 0 .. 2 BY <1>1, CopiesTypes
  <2>2. copies'[s][n] = IF n \in read /\ copies[s][n] < 2 THEN copies[s][n] + 1 ELSE copies[s][n]
    BY <1>1, <1>4 DEF LogBase, LogTypes
  <2>. QED BY <2>1, <2>2
<1>6. CASE s \in Units
  <2>1. JournalBatch(s, state, read, next) BY <1>2, <1>6 DEF Batch
  <2>2. journal[s] \in 0 .. MaxLines /\ from[s] \in Int /\ from'[s] \in Int /\ MaxLines \in Nat /\ Window \in Nat
    BY <1>6, LogNumbersAssumption DEF LogBase, LogTypes
  <2>3. next \in 0 .. journal[s] BY <2>1 DEF JournalBatch
  <2>4. ASSUME NEW n \in (1 .. next) \ Blank, n >= from'[s] PROVE copies'[s][n] > 0
    <3>1. n \in 1 .. MaxLines BY <2>2, <2>3
    <3>2. CASE state = NoCursor
      <4>1. from'[s] >= next - Window + 1
        <5>1. CASE next - Window + 1 > from[s]
          <6>1. from' = [from EXCEPT ![s] = next - Window + 1] BY <5>1, <3>2, <1>6 DEF CommitBatch
          <6>. QED BY <6>1, <1>6, <2>2, <2>3 DEF LogBase, LogTypes
        <5>2. CASE ~(next - Window + 1 > from[s])
          <6>1. from' = from BY <5>2, <3>2, <1>6 DEF CommitBatch
          <6>. QED BY <6>1, <5>2, <2>2, <2>3
        <5>. QED BY <5>1, <5>2
      <4>2. n >= next - Window + 1 BY <4>1, <2>4, <2>2, <2>3
      <4>3. n \in read BY <4>2, <3>2, <2>1 DEF JournalBatch
      <4>. QED BY <4>3, <3>1, <1>5
    <3>3. CASE state # NoCursor
      <4>1. CASE n > state
        <5>1. n \in read BY <4>1, <3>3, <2>1 DEF JournalBatch
        <5>. QED BY <5>1, <3>1, <1>5
      <4>2. CASE ~(n > state)
        <5>1. from' = from BY <3>3 DEF CommitBatch
        <5>2. n \in (1 .. state) \ Blank BY <4>2, <3>3, <1>3, <2>3
        <5>3. copies[s][n] > 0 BY <5>1, <5>2, <3>3, <1>2, <1>6, <2>4 DEF Passed
        <5>. QED BY <5>3, <3>1, <1>5
      <4>. QED BY <4>1, <4>2
    <3>. QED BY <3>2, <3>3
  <2>5. next <= journal'[s] BY <1>1, <2>2, <2>3
  <2>. QED BY <1>6, <2>2, <2>3, <2>4, <2>5 DEF Passed
<1>7. CASE s \notin Units
  <2>1. s \in Containers BY <1>1, <1>7, SourcesApart
  <2>2. DockerBatch(s, state, read, next) BY <1>2, <1>7 DEF Batch
  <2>3. /\ docker[s] \in Seq(0 .. MaxMs) /\ Len(docker[s]) <= MaxLines /\ ms \in 0 .. MaxMs
    BY <2>1 DEF LogBase, LogTypes
  <2>4. next \in 0 .. ms BY <2>2 DEF DockerBatch
  <2>5. /\ tailed' = [tailed EXCEPT ![s] = @ \cup {n \in DOMAIN docker[s] : \A r \in read : n < r /\ copies[s][n] = 0}]
        /\ marks' = [marks EXCEPT ![s] = @ \cup {next}]
    BY <2>1 DEF CommitBatch
  <2>6. /\ tailed'[s] = tailed[s] \cup {n \in DOMAIN docker[s] : \A r \in read : n < r /\ copies[s][n] = 0}
        /\ marks'[s] = marks[s] \cup {next}
    BY <2>1, <2>5 DEF LogBase, LogTypes
  <2>7. ASSUME NEW n \in DOMAIN docker[s], docker[s][n] <= next
        PROVE  copies'[s][n] > 0 \/ n \in tailed'[s] \/ docker[s][n] \in marks'[s]
    <3>1. n \in 1 .. MaxLines BY <2>3, LogNumbersAssumption
    <3>2. CASE n \in read BY <3>1, <3>2, <1>5
    <3>3. CASE docker[s][n] = next BY <3>3, <2>6
    <3>4. CASE \A r \in read : n < r
      <4>1. copies[s][n] \in 0 .. 2 BY <3>1, <1>1, CopiesTypes
      <4>2. CASE copies[s][n] = 0 BY <4>2, <3>4, <2>6
      <4>3. CASE copies[s][n] > 0 BY <4>3, <3>1, <1>5
      <4>. QED BY <4>1, <4>2, <4>3
    <3>5. CASE state # NoCursor /\ docker[s][n] <= state
      <4>1. copies[s][n] > 0 \/ n \in tailed[s] \/ docker[s][n] \in marks[s]
        BY <3>5, <1>2, <1>7 DEF Passed
      <4>. QED BY <4>1, <3>1, <1>5, <2>6
    <3>. QED BY <3>2, <3>3, <3>4, <3>5, <2>2, <2>7 DEF DockerBatch
  <2>8. next <= ms' /\ next \in marks'[s] BY <1>1, <2>3, <2>4, <2>6
  <2>9. next \in Int BY <2>3, <2>4
  <2>. QED BY <1>1, <1>7, <2>7, <2>8, <2>9 DEF Passed
<1>. QED BY <1>6, <1>7

\* Who holds a source in the next state held it before, with the same cursor, or
\* has just read it.
HoldsAsBefore ==
  \A p \in Pullers, s \in Sources : Holds(p, s)' =>
    (Holds(p, s) /\ puller'[p].state = puller[p].state) \/ puller'[p].state = cursor[s]

LEMMA CursorsStay ==
  ASSUME LogBase, LogBase', CursorsInv, UnsharedInv, Later, UNCHANGED <<tableVars, shared>>, HoldsAsBefore
  PROVE  CursorsInv' /\ UnsharedInv'
<1>1. UNCHANGED <<cursor, copies, shared>> BY DEF tableVars
<1>2. /\ \A s \in Sources : cursor[s] # NoCursor => cursor[s] \in Int
      /\ \A q \in Pullers : puller[q].state # NoCursor => puller[q].state \in Int
  BY DEF LogBase, LogTypes, Cursors, PullerType
<1>3. ASSUME NEW s \in Sources, NEW m, m # NoCursor,
             \/ m = cursor[s]
             \/ \E q \in Pullers : Holds(q, s) /\ m = puller[q].state
      PROVE  Passed(s, m)'
  <2>1. m \in Int /\ Passed(s, m) BY <1>2, <1>3 DEF CursorsInv
  <2>. QED BY <2>1, PassedStays
<1>4. \A s \in Sources : cursor'[s] # NoCursor => Passed(s, cursor[s])'
  <2>1. ASSUME NEW s \in Sources, NEW m, m = cursor[s], m # NoCursor PROVE Passed(s, m)' BY <1>3, <2>1
  <2>. QED BY <1>1, <2>1 DEF Passed
<1>5. ASSUME NEW q \in Pullers, NEW s \in Sources, Holds(q, s)', NEW m, m = puller'[q].state, m # NoCursor
      PROVE  Passed(s, m)'
  BY <1>3, <1>5 DEF HoldsAsBefore
<1>6. CursorsInv'
  <2>1. \A q \in Pullers, s \in Sources :
          Holds(q, s)' /\ puller'[q].state # NoCursor => Passed(s, puller[q].state)'
    BY <1>5 DEF Passed
  <2>. QED BY <1>4, <2>1 DEF CursorsInv
<1>7. ASSUME NEW s \in Sources \ shared, NEW q \in Pullers, Holds(q, s)' PROVE puller'[q].state = cursor[s]
  BY <1>7 DEF HoldsAsBefore, UnsharedInv
<1>8. ASSUME NEW s \in Sources, NEW n, NEW m, Before(s, n, m) PROVE Before(s, n, m)'
  <2>1. CASE s \in Units BY <1>8, <2>1 DEF Before
  <2>2. CASE s \notin Units
    <3>1. s \in Containers BY <2>2, SourcesApart
    <3>. QED BY <1>8, <2>2, <3>1 DEF Before, Later
  <2>. QED BY <2>1, <2>2
<1>9. \A s \in Sources \ shared : \A n \in 1 .. MaxLines :
        copies[s][n] <= 1 /\ (copies[s][n] > 0 => cursor[s] # NoCursor /\ Before(s, n, cursor[s])')
  <2>1. ASSUME NEW s \in Sources \ shared, NEW n \in 1 .. MaxLines, copies[s][n] > 0, NEW m, m = cursor[s]
        PROVE  m # NoCursor /\ Before(s, n, m)'
    BY <1>8, <2>1 DEF UnsharedInv
  <2>. QED BY <1>1, <2>1 DEF UnsharedInv
<1>10. UnsharedInv' BY <1>1, <1>7, <1>9 DEF UnsharedInv
<1>. QED BY <1>6, <1>10

LEMMA WorkerHolds ==
  ASSUME LogBase, NEW p \in Pullers, NEW step, Goes(p, step),
         \/ step.at \notin {"fetch", "commit"}
         \/ step.state = cursor[Head(step.todo)]
         \/ puller[p].at = "fetch" /\ step.todo = puller[p].todo /\ step.state = puller[p].state
  PROVE  HoldsAsBefore
<1>1. puller' = [puller EXCEPT ![p] = step] /\ puller \in [Pullers -> PullerType]
  BY DEF Goes, LogBase, LogTypes
<1>2. ASSUME NEW q \in Pullers, NEW s \in Sources, Holds(q, s)'
      PROVE  (Holds(q, s) /\ puller'[q].state = puller[q].state) \/ puller'[q].state = cursor[s]
  <2>1. CASE q = p
    <3>1. puller'[p] = step BY <1>1
    <3>2. step.at \in {"fetch", "commit"} /\ Head(step.todo) = s BY <1>2, <2>1, <3>1 DEF Holds, TaskOf
    <3>. QED BY <2>1, <3>1, <3>2 DEF Holds, TaskOf
  <2>2. CASE q # p
    <3>1. puller'[q] = puller[q] BY <2>2, <1>1
    <3>. QED BY <1>2, <3>1 DEF Holds, TaskOf
  <2>. QED BY <2>1, <2>2
<1>. QED BY <1>2 DEF HoldsAsBefore

LEMMA SameWorkersHold == ASSUME UNCHANGED puller PROVE HoldsAsBefore
BY DEF HoldsAsBefore, Holds, TaskOf

LEMMA BeforeStays ==
  ASSUME LogBase, Later, NEW s \in Sources, NEW n, NEW m, Before(s, n, m) PROVE Before(s, n, m)'
<1>1. CASE s \in Units BY <1>1 DEF Before
<1>2. CASE s \notin Units
  <2>1. s \in Containers BY <1>2, SourcesApart
  <2>. QED BY <1>2, <2>1 DEF Before, Later
<1>. QED BY <1>1, <1>2

\* One transaction: of a source that nobody else has read, what is stored was not
\* there before.
LEMMA CommitKeepsRest ==
  ASSUME LogBase, LogBase', CursorsInv, UnsharedInv, NEW p \in Pullers, CommitBatch(p),
         NEW s, s = TaskOf(p), NEW next, next = puller[p].next
  PROVE  CursorsInv' /\ UnsharedInv'
<1>. DEFINE state == puller[p].state
            read == puller[p].lines
            seen == {q \in Pullers \ {p} : puller[q].at \in {"fetch", "commit"} /\ TaskOf(q) = s}
<1>1. /\ puller[p].todo # <<>> /\ puller[p].at = "commit" /\ s \in Sources /\ UNCHANGED <<journal, docker, ms>>
      /\ puller[p] \in PullerType /\ Holds(p, s)
  BY TaskIsSource, TypeOfWorker DEF LogBase, TasksInv, CommitBatch, PullerAt, sourceVars, Holds
<1>2. /\ cursor' = [cursor EXCEPT ![s] = next] /\ cursor \in [Sources -> Cursors \cup {NoCursor}]
      /\ copies' = [copies EXCEPT ![s] =
                       [n \in 1 .. MaxLines |-> IF n \in read /\ @[n] < 2 THEN @[n] + 1 ELSE @[n]]]
      /\ shared' = IF seen # {} THEN shared \cup {s} ELSE shared
      /\ puller' = [puller EXCEPT ![p] = Leave(p)] /\ puller \in [Pullers -> PullerType]
  BY DEF CommitBatch, Goes, LogBase, LogTypes
<1>3. Later BY CommitIsLater
<1>4. ASSUME NEW q \in Pullers, NEW t \in Sources, Holds(q, t)'
      PROVE  q # p /\ puller'[q] = puller[q] /\ Holds(q, t)
  <2>1. Leave(p).at \notin {"fetch", "commit"} BY <1>1, LeaveStep DEF LogBase
  <2>2. q # p BY <1>2, <1>4, <2>1 DEF Holds
  <2>. QED BY <1>2, <1>4, <2>2 DEF Holds, TaskOf
<1>5. next \in Int /\ Passed(s, next)' BY CommitPasses
<1>6. next # NoCursor BY <1>5, SourcesAssumption
<1>7. CursorsInv'
  <2>1. ASSUME NEW t \in Sources, NEW m, m = cursor'[t], m # NoCursor PROVE Passed(t, m)'
    <3>1. CASE t = s BY <3>1, <2>1, <1>1, <1>2, <1>5
    <3>2. CASE t # s
      <4>1. m = cursor[t] BY <3>2, <2>1, <1>2
      <4>2. m \in Int
        <5>1. cursor[t] \in Cursors \cup {NoCursor} BY <1>2
        <5>. QED BY <5>1, <4>1, <2>1, LogNumbersAssumption DEF Cursors
      <4>3. Passed(t, m) BY <4>1, <2>1 DEF CursorsInv
      <4>. QED BY <4>2, <4>3, <1>3, PassedStays
    <3>. QED BY <3>1, <3>2
  <2>2. ASSUME NEW q \in Pullers, NEW t \in Sources, Holds(q, t)', NEW m, m = puller'[q].state, m # NoCursor
        PROVE  Passed(t, m)'
    <3>1. m = puller[q].state /\ Holds(q, t) BY <1>4, <2>2
    <3>2. m \in Int BY <3>1, <2>2, <1>2 DEF PullerType, Cursors
    <3>. QED BY <3>1, <3>2, <2>2, <1>3, PassedStays DEF CursorsInv
  <2>3. \A t \in Sources : cursor'[t] # NoCursor => Passed(t, cursor[t])' BY <2>1 DEF Passed
  <2>4. \A q \in Pullers, t \in Sources :
          Holds(q, t)' /\ puller'[q].state # NoCursor => Passed(t, puller[q].state)'
    BY <2>2 DEF Passed
  <2>. QED BY <2>3, <2>4 DEF CursorsInv
<1>8. ASSUME NEW t \in Sources \ shared', NEW q \in Pullers, Holds(q, t)' PROVE puller'[q].state = cursor'[t]
  <2>1. q # p /\ puller'[q] = puller[q] /\ Holds(q, t) BY <1>4, <1>8
  <2>2. t # s
    <3>. SUFFICES ASSUME t = s PROVE FALSE OBVIOUS
    <3>1. q \in seen BY <2>1 DEF Holds
    <3>. QED BY <3>1, <1>2, <1>8
  <2>3. t \notin shared BY <1>2, <1>8
  <2>. QED BY <2>1, <2>2, <2>3, <1>2 DEF UnsharedInv
<1>9. ASSUME NEW t \in Sources \ shared', NEW n \in 1 .. MaxLines, NEW m, m = cursor'[t]
      PROVE  copies'[t][n] <= 1 /\ (copies'[t][n] > 0 => m # NoCursor /\ Before(t, n, m)')
  <2>1. t \notin shared BY <1>2, <1>9
  <2>2. copies[t][n] <= 1 /\ (copies[t][n] > 0 => cursor[t] # NoCursor /\ Before(t, n, cursor[t]))
    BY <2>1 DEF UnsharedInv
  <2>3. CASE t # s
    <3>1. m = cursor[t] /\ copies'[t] = copies[t] BY <2>3, <1>2, <1>9 DEF LogBase, LogTypes
    <3>. QED BY <3>1, <2>2, <1>3, BeforeStays
  <2>4. CASE t = s
    <3>1. m = next BY <2>4, <1>1, <1>2, <1>9
    <3>2. state = cursor[s] BY <2>1, <2>4, <1>1 DEF UnsharedInv
    <3>3. copies[s][n] \in 0 .. 2 BY <1>1, CopiesTypes
    <3>4. copies'[s][n] = IF n \in read /\ copies[s][n] < 2 THEN copies[s][n] + 1 ELSE copies[s][n]
      BY <1>1, <1>2 DEF LogBase, LogTypes
    <3>5. Batch(s, puller[p]) BY <1>1 DEF LogBase, BatchesInv, Batch
    <3>6. state # NoCursor => state \in Int BY <1>1 DEF PullerType, Cursors
    <3>7. /\ n \in read => copies[s][n] = 0 /\ Before(s, n, next)
          /\ Before(s, n, state) /\ state # NoCursor => Before(s, n, next)
      <4>1. CASE s \in Units
        <5>1. JournalBatch(s, state, read, next) BY <3>5, <4>1 DEF Batch
        <5>2. n \in read => n <= next /\ (state # NoCursor => ~(n <= state))
          BY <5>1, <3>6, <1>5 DEF JournalBatch
        <5>3. n <= state /\ state # NoCursor => n <= next BY <5>1, <3>6, <1>5 DEF JournalBatch
        <5>. QED BY <5>2, <5>3, <4>1, <2>2, <2>4, <3>2, <3>3 DEF Before
      <4>2. CASE s \notin Units
        <5>1. DockerBatch(s, state, read, next) BY <3>5, <4>2 DEF Batch
        <5>2. s \in Containers BY <4>2, <1>1, SourcesApart
        <5>3. docker[s] \in Seq(0 .. MaxMs) BY <5>2 DEF LogBase, LogTypes
        <5>4. \A i \in DOMAIN docker[s] : docker[s][i] \in Int BY <5>3, LogNumbersAssumption
        <5>5. read \subseteq DOMAIN docker[s] /\ (\E r \in read : docker[s][r] = next)
              /\ \A r \in read : docker[s][r] <= next /\ (state # NoCursor => docker[s][r] > state)
          BY <5>1 DEF DockerBatch
        <5>6. n \in read => Before(s, n, next) /\ (state # NoCursor => ~Before(s, n, state))
          BY <5>4, <5>5, <4>2, <3>6 DEF Before
        <5>7. Before(s, n, state) /\ state # NoCursor => Before(s, n, next)
          BY <5>4, <5>5, <4>2, <3>6, <1>5 DEF Before
        <5>. QED BY <5>6, <5>7, <2>2, <2>4, <3>2, <3>3
      <4>. QED BY <4>1, <4>2
    <3>8. copies'[s][n] > 0 => Before(s, n, next) BY <3>2, <3>3, <3>4, <3>7, <2>2, <2>4
    <3>9. copies'[s][n] > 0 => Before(s, n, next)' BY <3>8, <1>1, <1>3, BeforeStays
    <3>. QED BY <3>1, <3>3, <3>4, <3>7, <3>9, <2>2, <2>4, <1>6
  <2>. QED BY <2>3, <2>4
<1>10. UnsharedInv'
  <2>1. \A t \in Sources \ shared' : \A n \in 1 .. MaxLines :
          copies'[t][n] <= 1 /\ (copies'[t][n] > 0 => cursor'[t] # NoCursor /\ Before(t, n, cursor[t])')
    BY <1>9 DEF Before
  <2>. QED BY <1>8, <2>1 DEF UnsharedInv
<1>. QED BY <1>7, <1>10

-----------------------------------------------------------------------------
(* Each line once. *)

LEMMA LogInvInit == LogInit => LogInv
<1>. SUFFICES ASSUME LogInit PROVE LogInv OBVIOUS
<1>1. LogBase BY LogBaseInit
<1>2. CursorsInv BY DEF LogInit, CursorsInv, Holds, Idle
<1>3. UnsharedInv BY DEF LogInit, UnsharedInv, Holds, Idle
<1>. QED BY <1>1, <1>2, <1>3 DEF LogInv, LogBase

LEMMA LogInvStep == ASSUME LogTypes, LogInv, [LogNext]_logVars PROVE LogTypes' /\ LogInv'
<1>1. LogBase /\ CursorsInv /\ UnsharedInv BY DEF LogInv, LogBase
<1>2. LogBase' BY <1>1, LogBaseStep
<1>3. CASE UNCHANGED logVars
  <2>1. UNCHANGED <<journal, docker, ms, tableVars, logHistory, puller, shared>>
    BY <1>3 DEF logVars, sourceVars, logHistory
  <2>. QED BY <1>1, <1>2, <2>1, OthersAreLater, SameWorkersHold, CursorsStay DEF LogInv, LogBase
<1>4. ASSUME NEW u \in Units, WriteJournal(u) PROVE CursorsInv' /\ UnsharedInv'
  <2>1. UNCHANGED <<docker, ms, tableVars, logHistory, puller, shared>> /\ journal' = [journal EXCEPT ![u] = @ + 1]
    BY <1>4 DEF WriteJournal, logHistory
  <2>. QED BY <1>1, <1>2, <2>1, OthersAreLater, SameWorkersHold, CursorsStay
<1>5. ASSUME NEW c \in Containers, WriteDocker(c) PROVE CursorsInv' /\ UnsharedInv'
  <2>1. UNCHANGED <<tableVars, puller, shared>> BY <1>5 DEF WriteDocker, logHistory
  <2>. QED BY <1>1, <1>2, <1>5, <2>1, WritingIsLater, SameWorkersHold, CursorsStay
<1>6. ASSUME MsPasses PROVE CursorsInv' /\ UnsharedInv'
  <2>1. UNCHANGED <<docker, journal, tableVars, logHistory, puller, shared>> /\ ms' = ms + 1
    BY <1>6 DEF MsPasses, logHistory
  <2>. QED BY <1>1, <1>2, <2>1, OthersAreLater, SameWorkersHold, CursorsStay
<1>7. ASSUME NEW p \in Pullers, CommitBatch(p) PROVE CursorsInv' /\ UnsharedInv'
  BY <1>1, <1>2, <1>7, CommitKeepsRest
<1>8. ASSUME NEW p \in Pullers, NEW step, Goes(p, step), UNCHANGED <<sourceVars, tableVars, logHistory>>,
             \/ step.at \notin {"fetch", "commit"}
             \/ step.state = cursor[Head(step.todo)]
             \/ puller[p].at = "fetch" /\ step.todo = puller[p].todo /\ step.state = puller[p].state
      PROVE  CursorsInv' /\ UnsharedInv'
  <2>1. UNCHANGED <<docker, journal, ms, tableVars, logHistory, shared>> BY <1>8 DEF sourceVars, logHistory
  <2>2. HoldsAsBefore BY <1>1, <1>8, WorkerHolds
  <2>. QED BY <1>1, <1>2, <2>1, <2>2, OthersAreLater, CursorsStay
<1>9. ASSUME NEW p \in Pullers, puller[p].todo # <<>> PROVE Leave(p).at \notin {"fetch", "commit"}
  BY <1>1, <1>9, LeaveStep DEF LogBase
<1>10. ASSUME NEW p \in Pullers, PullBegins(p) PROVE CursorsInv' /\ UnsharedInv'
  <2>1. PICK names \in SUBSET Containers :
          Goes(p, [Idle EXCEPT !.at = "next", !.now = ms \div Second, !.todo = JournalUnits \o SetToSeq(names)])
    BY <1>10 DEF PullBegins
  <2>. DEFINE step == [Idle EXCEPT !.at = "next", !.now = ms \div Second, !.todo = JournalUnits \o SetToSeq(names)]
  <2>2. step.at = "next" BY DEF Idle
  <2>3. UNCHANGED <<sourceVars, tableVars, logHistory>> BY <1>10 DEF PullBegins
  <2>. HIDE DEF step
  <2>4. Goes(p, step) BY <2>1 DEF step
  <2>. QED BY <2>2, <2>3, <2>4, <1>8
<1>11. ASSUME NEW p \in Pullers, LoadCursor(p) PROVE CursorsInv' /\ UnsharedInv'
  <2>. DEFINE step == [puller[p] EXCEPT !.at = "fetch", !.state = cursor[TaskOf(p)]]
  <2>1. puller[p] \in PullerType BY <1>1, TypeOfWorker DEF LogBase
  <2>2. step.state = cursor[Head(step.todo)] BY <2>1 DEF TaskOf, PullerType
  <2>3. Goes(p, step) /\ UNCHANGED <<sourceVars, tableVars, logHistory>> BY <1>11 DEF LoadCursor
  <2>. HIDE DEF step
  <2>. QED BY <2>2, <2>3, <1>8
<1>12. ASSUME NEW p \in Pullers, PullJournal(p) \/ PullDocker(p) PROVE CursorsInv' /\ UnsharedInv'
  <2>1. /\ puller[p].at = "fetch" /\ puller[p] \in PullerType /\ puller[p].todo # <<>>
        /\ UNCHANGED <<sourceVars, tableVars, logHistory>>
    BY <1>1, <1>12, TypeOfWorker DEF LogBase, TasksInv, PullJournal, PullDocker, PullerAt
  <2>2. PICK lines, next : \/ Goes(p, Leave(p))
                           \/ Goes(p, [puller[p] EXCEPT !.at = "commit", !.lines = lines, !.next = next])
    BY <1>12 DEF PullJournal, PullDocker
  <2>. DEFINE step == [puller[p] EXCEPT !.at = "commit", !.lines = lines, !.next = next]
  <2>3. CASE Goes(p, Leave(p)) BY <2>1, <2>3, <1>8, <1>9
  <2>4. CASE Goes(p, step)
    <3>1. step.todo = puller[p].todo /\ step.state = puller[p].state BY <2>1 DEF PullerType
    <3>. HIDE DEF step
    <3>. QED BY <3>1, <2>1, <2>4, <1>8
  <2>. QED BY <2>2, <2>3, <2>4
<1>13. ASSUME NEW p \in Pullers, TaskFails(p) \/ PullerDies(p) PROVE CursorsInv' /\ UnsharedInv'
  <2>1. Idle.at \notin {"fetch", "commit"} BY DEF Idle
  <2>2. UNCHANGED <<sourceVars, tableVars, logHistory>> BY <1>13 DEF TaskFails, PullerDies
  <2>. QED BY <1>13, <2>1, <2>2, <1>8, <1>9 DEF TaskFails, PullerDies
<1>. QED BY <1>2, <1>3, <1>4, <1>5, <1>6, <1>7, <1>10, <1>11, <1>12, <1>13 DEF LogNext, PullStep, LogInv, LogBase

\* The types of the log pullers.
THEOREM LogTypesHold == LogSpec => []LogTypes
<1>1. LogInit => LogTypes /\ LogInv BY LogInvInit, LogBaseInit DEF LogBase
<1>2. LogTypes /\ LogInv /\ [LogNext]_logVars => (LogTypes /\ LogInv)' BY LogInvStep
<1>. QED BY <1>1, <1>2, PTL DEF LogSpec

\* Whatever is written meanwhile, whatever fails and however many workers pull, no
\* cursor passes a line that is not stored, but what a first pull, the tail or a
\* watermark's millisecond may leave out; and nothing is stored twice in a source
\* that no two workers pulled at the same time.
THEOREM EachLineOnceHolds == LogSpec => []EachLineOnce
<1>1. LogInit => LogTypes /\ LogInv BY LogInvInit, LogBaseInit DEF LogBase
<1>2. LogTypes /\ LogInv /\ [LogNext]_logVars => (LogTypes /\ LogInv)' BY LogInvStep
<1>3. LogTypes /\ LogInv => EachLineOnce
  <2>. SUFFICES ASSUME LogTypes, LogInv PROVE EachLineOnce OBVIOUS
  <2>1. StoredOnce BY DEF LogInv, UnsharedInv, StoredOnce
  <2>2. NothingSkipped BY SourcesApart DEF LogInv, CursorsInv, Passed, NothingSkipped, Sources
  <2>. QED BY <2>1, <2>2 DEF EachLineOnce
<1>. QED BY <1>1, <1>2, <1>3, PTL DEF LogSpec

-----------------------------------------------------------------------------
(* The readings. *)

OneFollowed == Kind \in {Client.must} \cup Client.may

\* What is told of a symptom was so at some time of its poll; what says that the
\* governor runs is of a stamp in its window.
ToldSince(told, now) ==
  IF Kind = "governor" THEN told.running => told.ts <= gateTs /\ now - told.ts <= GateStale
  ELSE told = TRUE => now - lastWrong <= PollTimeout

PastInv ==
  /\ {lastWrong, gateTs, answered, poll.since} \subseteq 0 .. time
  /\ wrong = TRUE => lastWrong = time

PollInv ==
  /\ poll.at \in {"main", "more"} => time - poll.since <= PollTimeout
  /\ poll.at = "more" =>
       /\ answered >= poll.since
       /\ Kind = Client.must => poll.told \in BOOLEAN /\ (poll.told = TRUE => lastWrong >= poll.since)
  /\ poll.at \in {"ok", "rows"} =>
       /\ poll.now - answered <= PollTimeout
       /\ poll.told # Absent => ToldSince(poll.told, poll.now)
  /\ poll.at = "failed" => poll.told = Absent
  /\ poll.at = "ok" /\ EachTimeStored => poll.told # Absent
  /\ poll.at = "rows" => poll.told # Absent /\ heart.at = poll.now

RowInv ==
  /\ row # Absent => ToldSince(row.told, row.at) /\ row.at - answered <= PollTimeout
  /\ heart # Absent /\ row # Absent /\ heart.ok /\ EachTimeStored /\ poll.at # "rows" /\ ~torn => row.at = heart.at

ReadingInv == OneFollowed /\ PastInv /\ PollInv /\ RowInv

\* The governor is one of the requests that its client may miss.
LEMMA GovernorIsOptional ==
  ASSUME OneFollowed, followed.service \in DOMAIN Clients, Kind = "governor"
  PROVE  Kind # Client.must /\ Client.blank = FALSE
<1>1. DOMAIN Clients = {"agent", "tdarr", "sonarr", "sabnzbd", "prowlarr", "qbittorrent", "plex", "tautulli", "seerr"}
  BY DEF Clients
<1>2. followed.service = "agent"
  <2>. SUFFICES ASSUME followed.service # "agent" PROVE FALSE OBVIOUS
  <2>1. CASE followed.service = "tdarr" BY <2>1 DEF OneFollowed, Client, Clients, TdarrClient
  <2>2. CASE followed.service = "sonarr" BY <2>2 DEF OneFollowed, Client, Clients, ArrClient
  <2>3. CASE followed.service = "sabnzbd" BY <2>3 DEF OneFollowed, Client, Clients, SabnzbdClient
  <2>4. CASE followed.service = "prowlarr" BY <2>4 DEF OneFollowed, Client, Clients, ProwlarrClient
  <2>5. CASE followed.service = "qbittorrent" BY <2>5 DEF OneFollowed, Client, Clients, QbittorrentClient
  <2>6. CASE followed.service = "plex" BY <2>6 DEF OneFollowed, Client, Clients, PlexClient
  <2>7. CASE followed.service = "tautulli" BY <2>7 DEF OneFollowed, Client, Clients, TautulliClient
  <2>8. CASE followed.service = "seerr" BY <2>8 DEF OneFollowed, Client, Clients, SeerrClient
  <2>. QED BY <1>1, <2>1, <2>2, <2>3, <2>4, <2>5, <2>6, <2>7, <2>8
<1>. QED BY <1>2 DEF Client, Clients, AgentClient

LEMMA ReadingInitial == ReadingInit => ReadingTypes /\ ReadingInv
<1>. SUFFICES ASSUME ReadingInit PROVE ReadingTypes /\ ReadingInv OBVIOUS
<1>1. PICK s \in DOMAIN Clients : \E k \in {Clients[s].must} \cup Clients[s].may : \E t \in TellsOf(k) :
        followed = [service |-> s, kind |-> k, symptom |-> t]
  BY DEF ReadingInit
<1>2. PICK k \in {Clients[s].must} \cup Clients[s].may : \E t \in TellsOf(k) :
        followed = [service |-> s, kind |-> k, symptom |-> t]
  BY <1>1
<1>3. PICK t \in TellsOf(k) : followed = [service |-> s, kind |-> k, symptom |-> t] BY <1>2
<1>4. OneFollowed BY <1>3 DEF OneFollowed, Kind, Client
<1>5. followed \in [service : DOMAIN Clients, kind : Kinds, symptom : HostTroubles \cup {"drive", "node", "nothing"}]
  <2>1. k \in Kinds BY DEF Kinds
  <2>2. t \in HostTroubles \cup {"drive", "node", "nothing"} BY DEF TellsOf
  <2>. QED BY <1>3, <2>1, <2>2
<1>6. ReadingTypes
  <2>1. wrong \in BOOLEAN BY DEF ReadingInit
  <2>2. Waiting \in [at : {"idle", "main", "more", "ok", "failed", "rows"}, since : 0 .. MaxTime,
                     told : ToldType \cup {Absent}, now : 0 .. MaxTime]
    BY ReadingsAssumption DEF Waiting
  <2>3. /\ time = 0 /\ turns = 0 /\ gateTs = 0 /\ poll = Waiting /\ heart = Absent /\ row = Absent
        /\ lastWrong = 0 /\ answered = 0 /\ torn = FALSE
    BY DEF ReadingInit
  <2>4. MaxTime \in Nat /\ MaxTurns \in Nat BY ReadingsAssumption
  <2>5. /\ {time, gateTs, lastWrong, answered} \subseteq 0 .. MaxTime /\ turns \in 0 .. MaxTurns
    BY <2>3, <2>4
  <2>6. torn \in BOOLEAN /\ heart = Absent /\ row = Absent BY <2>3
  <2>. QED BY <1>5, <2>1, <2>2, <2>3, <2>5, <2>6 DEF ReadingTypes
<1>7. PastInv BY <1>6 DEF ReadingInit, PastInv, Waiting
<1>8. PollInv BY DEF ReadingInit, PollInv, Waiting
<1>9. RowInv BY DEF ReadingInit, RowInv
<1>. QED BY <1>4, <1>6, <1>7, <1>8, <1>9 DEF ReadingInv

LEMMA ToldTypeStays == UNCHANGED followed => ToldType' = ToldType
BY DEF ToldType, Kind

PollType ==
  [at : {"idle", "main", "more", "ok", "failed", "rows"}, since : 0 .. MaxTime,
   told : ToldType \cup {Absent}, now : 0 .. MaxTime]

LEMMA EndsTyped ==
  ASSUME ReadingTypes, NEW told \in ToldType \cup {Absent}, NEW how \in {"ok", "failed"}, PollEndsWith(how, told)
  PROVE  poll' \in PollType
BY DEF ReadingTypes, PollEndsWith, PollType

LEMMA ReadingTypesStep ==
  ASSUME ReadingTypes, OneFollowed, PollInv, [ReadingNext]_readingVars
  PROVE  ReadingTypes'
<1>. USE ReadingsAssumption
<1>1. UNCHANGED followed
  BY DEF ReadingNext, TimePasses, SymptomTurns, GateStamps, PollAsks, MainAnswers, MainFails, MoreAnswers, MoreFails,
         PollRunsOut, HeartbeatInserted, SnapshotsInserted, PollerStops, readingVars, worldVars
<1>2. ToldType' = ToldType BY <1>1, ToldTypeStays
<1>3. poll \in PollType BY DEF ReadingTypes, PollType
<1>4. Waiting \in PollType BY DEF Waiting, PollType
<1>5. ASSUME poll' \in PollType, UNCHANGED <<heart, row, torn>>,
             {time', gateTs', lastWrong', answered'} \subseteq 0 .. MaxTime, wrong' \in BOOLEAN, turns' \in 0 .. MaxTurns
      PROVE  ReadingTypes'
  BY <1>1, <1>2, <1>5 DEF ReadingTypes, PollType
<1>6. CASE TimePasses
  <2>1. time' \in 0 .. MaxTime /\ lastWrong' \in 0 .. MaxTime BY <1>6 DEF TimePasses, ReadingTypes
  <2>. QED BY <1>3, <1>5, <1>6, <2>1 DEF TimePasses, readingHistory, ReadingTypes
<1>7. CASE SymptomTurns
  <2>1. turns' \in 0 .. MaxTurns /\ wrong' \in BOOLEAN BY <1>7 DEF SymptomTurns, Turn, ReadingTypes
  <2>. QED BY <1>3, <1>5, <1>7, <2>1 DEF SymptomTurns, readingHistory, ReadingTypes
<1>8. CASE GateStamps BY <1>3, <1>5, <1>8 DEF GateStamps, readingHistory, ReadingTypes
<1>9. CASE PollAsks
  <2>1. poll' \in PollType BY <1>4, <1>9 DEF PollAsks, PollType, ReadingTypes
  <2>. QED BY <2>1, <1>5, <1>9 DEF PollAsks, worldVars, readingHistory, ReadingTypes
<1>10. CASE MainAnswers
  <2>1. Kind = Client.must => wrong \in ToldType
    BY GovernorIsOptional DEF ReadingTypes, ToldType
  <2>2. CASE Client.may = {}
    <3>1. Kind = Client.must BY <2>2 DEF OneFollowed
    <3>2. poll' \in PollType BY <1>10, <2>1, <2>2, <3>1, EndsTyped DEF MainAnswers
    <3>. QED BY <3>2, <1>5, <1>10 DEF MainAnswers, worldVars, ReadingTypes
  <2>3. CASE Client.may # {}
    <3>1. poll' \in PollType BY <1>3, <1>10, <2>1, <2>3 DEF MainAnswers, PollType
    <3>. QED BY <3>1, <1>5, <1>10 DEF MainAnswers, worldVars, ReadingTypes
  <2>. QED BY <2>2, <2>3
<1>11. CASE MainFails
  <2>1. poll' \in PollType BY <1>11, EndsTyped DEF MainFails
  <2>2. turns' \in 0 .. MaxTurns BY <1>11 DEF MainFails, Turn, ReadingTypes
  <2>. QED BY <2>1, <2>2, <1>5, <1>11 DEF MainFails, readingHistory, ReadingTypes
<1>12. CASE MoreAnswers
  <2>1. PICK told \in IF Kind = Client.must THEN {poll.told}
                        ELSE IF Kind = "governor" THEN {ParseGovernor(running, gateTs) : running \in BOOLEAN}
                        ELSE {wrong} : PollEndsWith("ok", told)
    BY <1>12 DEF MoreAnswers
  <2>2. told \in ToldType \cup {Absent}
    <3>1. CASE Kind = Client.must BY <3>1, <1>3 DEF PollType
    <3>2. CASE Kind # Client.must /\ Kind = "governor"
      <4>1. PICK running \in BOOLEAN : told = ParseGovernor(running, gateTs) BY <3>2
      <4>2. (running /\ time - gateTs <= GateStale) \in BOOLEAN OBVIOUS
      <4>3. gateTs \in 0 .. MaxTime BY DEF ReadingTypes
      <4>. QED BY <3>2, <4>1, <4>2, <4>3 DEF ParseGovernor, ToldType
    <3>3. CASE Kind # Client.must /\ Kind # "governor" BY <3>3 DEF ReadingTypes, ToldType
    <3>. QED BY <3>1, <3>2, <3>3
  <2>3. poll' \in PollType BY <2>1, <2>2, EndsTyped
  <2>. QED BY <2>3, <1>5, <1>12 DEF MoreAnswers, worldVars, readingHistory, ReadingTypes
<1>13. CASE MoreFails
  <2>. DEFINE told == IF Kind = Client.must THEN poll.told ELSE IF Client.blank THEN FALSE ELSE Absent
  <2>1. told \in ToldType \cup {Absent}
    <3>1. CASE Kind = Client.must BY <3>1, <1>3 DEF PollType
    <3>2. CASE Kind # Client.must /\ Client.blank
      <4>1. Kind # "governor" BY <3>2, GovernorIsOptional DEF ReadingTypes
      <4>. QED BY <3>2, <4>1 DEF ToldType
    <3>3. CASE Kind # Client.must /\ ~Client.blank BY <3>3
    <3>. QED BY <3>1, <3>2, <3>3
  <2>2. PollEndsWith("ok", told) BY <1>13 DEF MoreFails
  <2>3. poll' \in PollType
    <3>. HIDE DEF told
    <3>. QED BY <2>1, <2>2, EndsTyped
  <2>4. turns' \in 0 .. MaxTurns BY <1>13 DEF MoreFails, Turn, ReadingTypes
  <2>. QED BY <2>3, <2>4, <1>5, <1>13 DEF MoreFails, readingHistory, ReadingTypes
<1>14. CASE PollRunsOut
  <2>1. poll' \in PollType BY <1>14, EndsTyped DEF PollRunsOut
  <2>. QED BY <2>1, <1>5, <1>14 DEF PollRunsOut, worldVars, readingHistory, ReadingTypes
<1>15. CASE HeartbeatInserted
  <2>1. poll' \in PollType BY <1>3, <1>4, <1>15 DEF HeartbeatInserted, PollType
  <2>2. heart' \in [ok : BOOLEAN, at : 0 .. MaxTime] BY <1>3, <1>15 DEF HeartbeatInserted, PollType
  <2>. QED BY <2>1, <2>2, <1>1, <1>2, <1>15 DEF HeartbeatInserted, worldVars, ReadingTypes, PollType
<1>16. CASE SnapshotsInserted
  <2>1. poll' \in PollType BY <1>4, <1>16 DEF SnapshotsInserted
  <2>2. poll.told # Absent BY <1>16 DEF SnapshotsInserted, PollInv
  <2>3. row' \in [told : ToldType, at : 0 .. MaxTime] BY <1>3, <2>2, <1>16 DEF SnapshotsInserted, PollType
  <2>. QED BY <2>1, <2>3, <1>1, <1>2, <1>16 DEF SnapshotsInserted, worldVars, readingHistory, ReadingTypes, PollType
<1>17. CASE PollerStops
  <2>1. poll' \in PollType BY <1>4, <1>17 DEF PollerStops
  <2>2. turns' \in 0 .. MaxTurns BY <1>17 DEF PollerStops, Turn, ReadingTypes
  <2>3. torn' \in BOOLEAN BY <1>17 DEF PollerStops
  <2>. QED BY <2>1, <2>2, <2>3, <1>1, <1>2, <1>17 DEF PollerStops, ReadingTypes, PollType
<1>18. CASE UNCHANGED readingVars
  BY <1>2, <1>18 DEF readingVars, worldVars, readingHistory, ReadingTypes
<1>. QED BY <1>6, <1>7, <1>8, <1>9, <1>10, <1>11, <1>12, <1>13, <1>14, <1>15, <1>16, <1>17, <1>18 DEF ReadingNext
\* The past only grows.
Since0 == lastWrong <= lastWrong' /\ gateTs <= gateTs' /\ answered <= answered' /\ UNCHANGED followed

LEMMA ToldStays ==
  ASSUME ReadingTypes, ReadingTypes', Since0, NEW told \in ToldType, NEW now \in Int, ToldSince(told, now)
  PROVE  ToldSince(told, now)'
<1>1. Kind' = Kind BY DEF Since0, Kind
<1>2. {lastWrong, gateTs, lastWrong', gateTs'} \subseteq Int /\ PollTimeout \in Int /\ GateStale \in Int
  BY ReadingsAssumption DEF ReadingTypes
<1>3. CASE Kind = "governor"
  <2>1. told \in [running : BOOLEAN, ts : 0 .. MaxTime] BY <1>3 DEF ToldType
  <2>. QED BY <2>1, <1>1, <1>2, <1>3 DEF ToldSince, Since0
<1>4. CASE Kind # "governor"
  <2>1. CASE told = TRUE BY <2>1, <1>1, <1>2, <1>4 DEF ToldSince, Since0
  <2>2. CASE told # TRUE BY <2>2, <1>1, <1>4 DEF ToldSince
  <2>. QED BY <2>1, <2>2
<1>. QED BY <1>3, <1>4

\* A row that stays keeps what its readers may take from it.
LEMMA RowStays ==
  ASSUME ReadingTypes, ReadingTypes', Since0, RowInv, row # Absent, UNCHANGED row
  PROVE  (ToldSince(row.told, row.at) /\ row.at - answered <= PollTimeout)'
<1>1. row \in [told : ToldType, at : 0 .. MaxTime] /\ PollTimeout \in Nat BY ReadingsAssumption DEF ReadingTypes
<1>2. row.told \in ToldType /\ row.at \in Int BY <1>1
<1>3. ASSUME NEW told, NEW now, told = row.told, now = row.at PROVE ToldSince(told, now)'
  <2>1. told \in ToldType /\ now \in Int /\ ToldSince(told, now) BY <1>2, <1>3 DEF RowInv
  <2>. QED BY <2>1, ToldStays
<1>4. ToldSince(row.told, row.at)' BY <1>3 DEF ToldSince, Kind
<1>5. answered \in Int /\ answered' \in Int /\ answered <= answered' BY DEF ReadingTypes, Since0
<1>. QED BY <1>1, <1>2, <1>4, <1>5 DEF RowInv

LEMMA PastStep ==
  ASSUME ReadingTypes, ReadingTypes', PastInv, [ReadingNext]_readingVars
  PROVE  PastInv' /\ Since0
<1>. USE DEF PastInv, Since0, ReadingTypes
<1>0. /\ {time, time', lastWrong, lastWrong', gateTs, gateTs', answered, answered', poll.since, poll'.since} \subseteq Nat
      /\ Waiting.since = 0
  BY DEF Waiting
<1>1. CASE TimePasses BY <1>0, <1>1 DEF TimePasses, readingHistory
<1>2. CASE SymptomTurns BY <1>0, <1>2 DEF SymptomTurns, readingHistory
<1>3. CASE GateStamps BY <1>0, <1>3 DEF GateStamps, readingHistory
<1>4. CASE PollAsks
  <2>1. poll'.since = time BY <1>4 DEF PollAsks, Waiting
  <2>. QED BY <1>0, <1>4, <2>1 DEF PollAsks, worldVars, readingHistory
<1>5. CASE MainAnswers
  <2>1. poll'.since = poll.since BY <1>5 DEF MainAnswers, PollEndsWith
  <2>. QED BY <1>0, <1>5, <2>1 DEF MainAnswers, worldVars
<1>6. CASE MainFails
  <2>1. poll'.since = poll.since BY <1>6 DEF MainFails, PollEndsWith
  <2>. QED BY <1>0, <1>6, <2>1 DEF MainFails, readingHistory
<1>7. CASE MoreAnswers
  <2>1. poll'.since = poll.since BY <1>7 DEF MoreAnswers, PollEndsWith
  <2>. QED BY <1>0, <1>7, <2>1 DEF MoreAnswers, worldVars, readingHistory
<1>8. CASE MoreFails
  <2>1. poll'.since = poll.since BY <1>8 DEF MoreFails, PollEndsWith
  <2>. QED BY <1>0, <1>8, <2>1 DEF MoreFails, readingHistory
<1>9. CASE PollRunsOut
  <2>1. poll'.since = poll.since BY <1>9 DEF PollRunsOut, PollEndsWith
  <2>. QED BY <1>0, <1>9, <2>1 DEF PollRunsOut, worldVars, readingHistory
<1>10. CASE HeartbeatInserted
  <2>1. poll'.since \in {0, poll.since} BY <1>0, <1>10 DEF HeartbeatInserted
  <2>. QED BY <1>0, <1>10, <2>1 DEF HeartbeatInserted, worldVars
<1>11. CASE SnapshotsInserted BY <1>0, <1>11 DEF SnapshotsInserted, worldVars, readingHistory
<1>12. CASE PollerStops BY <1>0, <1>12 DEF PollerStops
<1>13. CASE UNCHANGED readingVars BY <1>0, <1>13 DEF readingVars, worldVars, readingHistory
<1>. QED
  BY <1>1, <1>2, <1>3, <1>4, <1>5, <1>6, <1>7, <1>8, <1>9, <1>10, <1>11, <1>12, <1>13 DEF ReadingNext
\* A poll that ended well tells what was so while it ran.
LEMMA PollEnds ==
  ASSUME ReadingTypes, ReadingTypes', NEW told, NEW now, now = time, PollEndsWith("ok", told), now - answered' <= PollTimeout,
         told # Absent => ToldSince(told, now)', EachTimeStored => told # Absent, UNCHANGED followed
  PROVE  PollInv'
<1>1. poll'.at = "ok" /\ poll'.told = told /\ poll'.now = now BY DEF PollEndsWith, ReadingTypes
<1>2. EachTimeStored' = EachTimeStored BY DEF EachTimeStored, Kind, Client
<1>3. poll'.told # Absent => ToldSince(poll.told, poll.now)' BY <1>1 DEF ToldSince, Kind
<1>. QED BY <1>1, <1>2, <1>3 DEF PollInv

LEMMA PollStays ==
  ASSUME ReadingTypes, ReadingTypes', PollInv, Since0, UNCHANGED <<poll, heart>>,
         poll.at \in {"main", "more"} => time' - poll.since <= PollTimeout
  PROVE  PollInv'
<1>1. /\ poll \in [at : {"idle", "main", "more", "ok", "failed", "rows"}, since : 0 .. MaxTime,
                   told : ToldType \cup {Absent}, now : 0 .. MaxTime]
      /\ {lastWrong, lastWrong', answered, answered'} \subseteq Int /\ PollTimeout \in Nat
  BY ReadingsAssumption DEF ReadingTypes
<1>2. EachTimeStored' = EachTimeStored /\ Kind' = Kind /\ Client' = Client BY DEF Since0, EachTimeStored, Kind, Client
<1>3. ASSUME NEW told, NEW now, told = poll.told, now = poll.now, poll.at \in {"ok", "rows"}, told # Absent
      PROVE  ToldSince(told, now)'
  <2>1. told \in ToldType /\ now \in Int /\ ToldSince(told, now) BY <1>1, <1>3 DEF PollInv
  <2>. QED BY <2>1, ToldStays
<1>4. poll'.at \in {"ok", "rows"} /\ poll'.told # Absent => ToldSince(poll.told, poll.now)'
  BY <1>3 DEF ToldSince, Kind
<1>5. poll'.at \in {"ok", "rows"} => poll'.now - answered' <= PollTimeout BY <1>1 DEF PollInv, Since0
<1>6. poll'.at = "more" => /\ answered' >= poll'.since
                           /\ Kind' = Client'.must => /\ poll'.told \in BOOLEAN
                                                      /\ poll'.told = TRUE => lastWrong' >= poll'.since
  BY <1>1, <1>2 DEF PollInv, Since0
<1>. QED BY <1>2, <1>4, <1>5, <1>6 DEF PollInv

LEMMA PollStep ==
  ASSUME ReadingTypes, ReadingTypes', ReadingInv, [ReadingNext]_readingVars
  PROVE  PollInv'
<1>1. OneFollowed /\ PastInv /\ PollInv BY DEF ReadingInv
<1>2. PastInv' /\ Since0 BY <1>1, PastStep
<1>3. /\ {time, time', lastWrong, lastWrong', gateTs, gateTs', answered, answered', poll.since, poll'.since} \subseteq Nat
      /\ PollTimeout \in Nat /\ GateStale \in Nat
  BY ReadingsAssumption DEF ReadingTypes
<1>4. /\ poll \in [at : {"idle", "main", "more", "ok", "failed", "rows"}, since : 0 .. MaxTime,
                   told : ToldType \cup {Absent}, now : 0 .. MaxTime]
      /\ followed.service \in DOMAIN Clients /\ wrong \in BOOLEAN
  BY DEF ReadingTypes
<1>5. ASSUME poll' = Waiting PROVE PollInv' BY <1>5 DEF PollInv, Waiting
<1>6. ASSUME PollEndsWith("failed", Absent) PROVE PollInv' BY <1>4, <1>6 DEF PollInv, PollEndsWith
<1>7. CASE TimePasses
  <2>1. poll.at \in {"main", "more"} => time' - poll.since <= PollTimeout BY <1>3, <1>7 DEF TimePasses
  <2>. QED BY <2>1, <1>1, <1>2, <1>7, PollStays DEF TimePasses
<1>8. CASE SymptomTurns \/ GateStamps \/ UNCHANGED readingVars
  <2>1. UNCHANGED <<poll, heart, time>> BY <1>8 DEF SymptomTurns, GateStamps, readingVars, worldVars
  <2>. QED BY <2>1, <1>1, <1>2, PollStays DEF PollInv
<1>9. CASE PollAsks
  <2>1. poll'.at = "main" /\ poll'.since = time /\ time' = time BY <1>9 DEF PollAsks, Waiting, worldVars
  <2>. QED BY <2>1, <1>3 DEF PollInv
<1>10. CASE MainAnswers
  <2>0. UNCHANGED worldVars /\ answered' = time /\ poll.at = "main" BY <1>10 DEF MainAnswers
  <2>1. time - poll.since <= PollTimeout BY <2>0, <1>1 DEF PollInv
  <2>2. CASE Client.may = {}
    <3>1. PollEndsWith("ok", wrong) /\ Kind = Client.must BY <1>10, <2>2, <1>1 DEF MainAnswers, OneFollowed
    <3>2. wrong # Absent BY <1>4, ReadingsAssumption
    <3>3. Kind # "governor" BY <3>1, <1>1, <1>4, GovernorIsOptional
    <3>4. ASSUME NEW told, NEW now, told = wrong, now = time PROVE ToldSince(told, now)'
      <4>1. told = TRUE => now - lastWrong <= PollTimeout BY <3>4, <1>1, <1>3 DEF PastInv
      <4>2. Kind' = Kind /\ lastWrong' = lastWrong BY <2>0 DEF worldVars, Kind
      <4>. QED BY <4>1, <4>2, <3>3 DEF ToldSince
    <3>5. PICK told, now : told = wrong /\ now = time OBVIOUS
    <3>. QED BY <3>1, <3>2, <3>4, <3>5, <2>0, <1>3, PollEnds DEF worldVars
  <2>3. CASE Client.may # {}
    <3>1. /\ poll'.at = "more" /\ poll'.since = poll.since
          /\ poll'.told = IF Kind = Client.must THEN wrong ELSE Absent
      BY <1>10, <2>3, <1>4 DEF MainAnswers
    <3>2. Kind' = Kind /\ Client' = Client /\ UNCHANGED <<time, wrong, lastWrong>> BY <2>0 DEF worldVars, Kind, Client
    <3>3. poll.since <= time BY <1>1, <1>3 DEF PastInv
    <3>4. wrong = TRUE => lastWrong >= poll.since BY <1>1, <1>3, <3>3 DEF PastInv
    <3>. QED BY <3>1, <3>2, <3>3, <3>4, <2>0, <2>1, <1>4 DEF PollInv
  <2>. QED BY <2>2, <2>3
<1>11. CASE MainFails BY <1>6, <1>11 DEF MainFails
<1>12. CASE MoreAnswers
  <2>0. UNCHANGED worldVars /\ answered' = answered /\ poll.at = "more" BY <1>12 DEF MoreAnswers, readingHistory
  <2>1. time - poll.since <= PollTimeout /\ answered >= poll.since BY <2>0, <1>1 DEF PollInv
  <2>2. PICK told \in IF Kind = Client.must THEN {poll.told}
                        ELSE IF Kind = "governor" THEN {ParseGovernor(running, gateTs) : running \in BOOLEAN}
                        ELSE {wrong} : PollEndsWith("ok", told)
    BY <1>12 DEF MoreAnswers
  <2>3. Kind' = Kind /\ Client' = Client /\ UNCHANGED <<followed, lastWrong, gateTs>> BY <2>0 DEF worldVars, Kind, Client
  <2>4. ASSUME NEW now, now = time, told # Absent PROVE ToldSince(told, now)'
    <3>1. CASE Kind = Client.must
      <4>1. told = poll.told /\ Kind # "governor" BY <2>2, <3>1, <1>1, <1>4, GovernorIsOptional
      <4>2. told = TRUE => lastWrong >= poll.since BY <4>1, <3>1, <2>0, <1>1 DEF PollInv
      <4>3. told = TRUE => now - lastWrong <= PollTimeout BY <4>2, <2>1, <2>4, <1>3
      <4>. QED BY <4>1, <4>3, <2>3 DEF ToldSince
    <3>2. CASE Kind # Client.must /\ Kind = "governor"
      <4>1. PICK running \in BOOLEAN : told = ParseGovernor(running, gateTs) BY <2>2, <3>2
      <4>2. told.ts = gateTs /\ (told.running => now - gateTs <= GateStale) BY <4>1, <2>4 DEF ParseGovernor
      <4>. QED BY <4>2, <2>3, <3>2, <1>3 DEF ToldSince
    <3>3. CASE Kind # Client.must /\ Kind # "governor"
      <4>1. told = wrong BY <2>2, <3>3
      <4>2. told = TRUE => now - lastWrong <= PollTimeout BY <4>1, <2>4, <1>1, <1>3 DEF PastInv
      <4>. QED BY <4>2, <2>3, <3>3 DEF ToldSince
    <3>. QED BY <3>1, <3>2, <3>3
  <2>5. EachTimeStored => told # Absent
    <3>. SUFFICES ASSUME EachTimeStored PROVE told # Absent OBVIOUS
    <3>1. Kind = Client.must \/ Client.blank BY DEF EachTimeStored
    <3>2. CASE Kind = Client.must
      <4>1. told \in BOOLEAN BY <3>2, <2>0, <2>2, <1>1 DEF PollInv
      <4>. QED BY <4>1, ReadingsAssumption
    <3>3. CASE Kind # Client.must
      <4>1. Kind # "governor" BY <3>1, <3>3, <1>1, <1>4, GovernorIsOptional
      <4>2. told \in BOOLEAN BY <4>1, <3>3, <2>2, <1>4
      <4>. QED BY <4>2, ReadingsAssumption
    <3>. QED BY <3>2, <3>3
  <2>6. PICK now : now = time OBVIOUS
  <2>7. now - answered' <= PollTimeout BY <2>0, <2>1, <2>6, <1>3
  <2>. QED BY <2>2, <2>3, <2>4, <2>5, <2>6, <2>7, PollEnds
<1>13. CASE MoreFails
  <2>0. UNCHANGED <<followed, time, gateTs, lastWrong, answered>> /\ poll.at = "more" BY <1>13 DEF MoreFails, readingHistory
  <2>1. time - poll.since <= PollTimeout /\ answered >= poll.since BY <2>0, <1>1 DEF PollInv
  <2>2. PICK told : /\ told = IF Kind = Client.must THEN poll.told ELSE IF Client.blank THEN FALSE ELSE Absent
                    /\ PollEndsWith("ok", told)
    BY <1>13 DEF MoreFails
  <2>3. Kind' = Kind /\ Client' = Client BY <2>0 DEF Kind, Client
  <2>4. ASSUME NEW now, now = time, told # Absent PROVE ToldSince(told, now)'
    <3>1. Kind # "governor" BY <2>2, <2>4, <1>1, <1>4, GovernorIsOptional
    <3>2. told = TRUE => lastWrong >= poll.since
      <4>1. CASE Kind = Client.must BY <4>1, <2>0, <2>2, <1>1 DEF PollInv
      <4>2. CASE Kind # Client.must BY <4>2, <2>2, <2>4
      <4>. QED BY <4>1, <4>2
    <3>3. told = TRUE => now - lastWrong <= PollTimeout BY <3>2, <2>1, <2>4, <1>3
    <3>. QED BY <3>1, <3>3, <2>0, <2>3 DEF ToldSince
  <2>5. EachTimeStored => told # Absent
    <3>. SUFFICES ASSUME EachTimeStored PROVE told # Absent OBVIOUS
    <3>1. CASE Kind = Client.must
      <4>1. told \in BOOLEAN BY <3>1, <2>0, <2>2, <1>1 DEF PollInv
      <4>. QED BY <4>1, ReadingsAssumption
    <3>2. CASE Kind # Client.must BY <3>2, <2>2, ReadingsAssumption DEF EachTimeStored
    <3>. QED BY <3>1, <3>2
  <2>6. PICK now : now = time OBVIOUS
  <2>7. now - answered' <= PollTimeout BY <2>0, <2>1, <2>6, <1>3
  <2>. QED BY <2>0, <2>2, <2>4, <2>5, <2>6, <2>7, PollEnds
<1>14. CASE PollRunsOut BY <1>6, <1>14 DEF PollRunsOut
<1>15. CASE HeartbeatInserted
  <2>1. CASE poll.told = Absent BY <2>1, <1>5, <1>15 DEF HeartbeatInserted
  <2>2. CASE poll.told # Absent
    <3>1. /\ poll'.at = "rows" /\ poll'.told = poll.told /\ poll'.now = poll.now
          /\ heart' = [ok |-> TRUE, at |-> poll.now] /\ poll.at = "ok"
      BY <2>2, <1>1, <1>4, <1>15 DEF HeartbeatInserted, PollInv
    <3>2. heart'.at = poll.now BY <3>1
    <3>3. poll.now - answered <= PollTimeout /\ ToldSince(poll.told, poll.now) BY <3>1, <2>2, <1>1 DEF PollInv
    <3>4. UNCHANGED <<followed, lastWrong, gateTs, answered>> BY <1>15 DEF HeartbeatInserted, worldVars
    <3>5. ToldSince(poll.told, poll.now)' BY <3>1, <3>3, <3>4 DEF ToldSince, Kind
    <3>. QED BY <3>1, <3>2, <3>3, <3>4, <3>5, <2>2 DEF PollInv
  <2>. QED BY <2>1, <2>2
<1>16. CASE SnapshotsInserted BY <1>5, <1>16 DEF SnapshotsInserted
<1>17. CASE PollerStops BY <1>5, <1>17 DEF PollerStops
<1>. QED
  BY <1>7, <1>8, <1>9, <1>10, <1>11, <1>12, <1>13, <1>14, <1>15, <1>16, <1>17 DEF ReadingNext
LEMMA RowStep ==
  ASSUME ReadingTypes, ReadingTypes', ReadingInv, [ReadingNext]_readingVars
  PROVE  RowInv'
<1>1. PastInv /\ PollInv /\ RowInv BY DEF ReadingInv
<1>2. Since0 BY <1>1, PastStep
<1>4. EachTimeStored' = EachTimeStored BY <1>2 DEF Since0, EachTimeStored, Kind, Client
<1>5. CASE UNCHANGED row
  <2>1. row' # Absent => (ToldSince(row.told, row.at) /\ row.at - answered <= PollTimeout)'
    BY <1>1, <1>2, <1>5, RowStays DEF ToldSince, Kind
  <2>2. ASSUME heart' # Absent, row' # Absent, heart'.ok, EachTimeStored, poll'.at # "rows", ~torn' PROVE row'.at = heart'.at
    <3>1. CASE HeartbeatInserted
      <4>1. poll.told = Absent
        <5>. SUFFICES ASSUME poll.told # Absent PROVE FALSE OBVIOUS
        <5>. QED BY <2>2, <3>1 DEF HeartbeatInserted, ReadingTypes
      <4>2. poll.at = "failed" BY <4>1, <2>2, <3>1, <1>1 DEF HeartbeatInserted, PollInv
      <4>3. heart'.ok = FALSE BY <4>2, <3>1 DEF HeartbeatInserted
      <4>. QED BY <4>3, <2>2
    <3>2. CASE PollerStops
      <4>1. poll.at # "rows" /\ ~torn /\ heart' = heart BY <3>2, <2>2 DEF PollerStops
      <4>. QED BY <4>1, <1>1, <1>5, <2>2 DEF RowInv
    <3>3. CASE UNCHANGED readingVars
      BY <3>3, <1>1, <2>2 DEF RowInv, readingVars, worldVars, readingHistory
    <3>4. CASE TimePasses \/ SymptomTurns \/ GateStamps \/ PollAsks \/ MainAnswers \/ MainFails \/ MoreAnswers \/ MoreFails \/ PollRunsOut
      <4>1. UNCHANGED <<heart, torn>> /\ poll.at # "rows"
        BY <3>4, <2>2 DEF TimePasses, SymptomTurns, GateStamps, PollAsks, MainAnswers, MainFails, MoreAnswers, MoreFails,
                    PollRunsOut, worldVars, readingHistory
      <4>. QED BY <4>1, <1>1, <1>5, <2>2 DEF RowInv
    <3>5. CASE SnapshotsInserted
      <4>1. row'.at = poll.now /\ heart' = heart /\ poll.at = "rows" BY <3>5 DEF SnapshotsInserted
      <4>. QED BY <4>1, <1>1 DEF PollInv
    <3>. QED BY <3>1, <3>2, <3>3, <3>4, <3>5 DEF ReadingNext
  <2>. QED BY <2>1, <2>2, <1>4 DEF RowInv
<1>6. CASE SnapshotsInserted
  <2>1. /\ row'.told = poll.told /\ row'.at = poll.now /\ heart' = heart /\ poll.at = "rows"
        /\ UNCHANGED <<followed, lastWrong, gateTs, answered>>
    BY <1>6 DEF SnapshotsInserted, worldVars, readingHistory
  <2>2. heart.at = poll.now /\ ToldSince(poll.told, poll.now) /\ poll.now - answered <= PollTimeout
    BY <2>1, <1>1 DEF PollInv
  <2>3. (ToldSince(row.told, row.at) /\ row.at - answered <= PollTimeout)' BY <2>1, <2>2 DEF ToldSince, Kind
  <2>. QED BY <2>1, <2>2, <2>3 DEF RowInv
<1>7. UNCHANGED row \/ SnapshotsInserted
  BY DEF ReadingNext, TimePasses, SymptomTurns, GateStamps, PollAsks, MainAnswers, MainFails, MoreAnswers, MoreFails,
         PollRunsOut, HeartbeatInserted, PollerStops, readingVars
<1>. QED BY <1>5, <1>6, <1>7

LEMMA ReadingAlways == ReadingSpec => [](ReadingTypes /\ ReadingInv)
<1>1. ReadingInit => ReadingTypes /\ ReadingInv BY ReadingInitial
<1>2. ReadingTypes /\ ReadingInv /\ [ReadingNext]_readingVars => ReadingTypes' /\ ReadingInv'
  <2>. SUFFICES ASSUME ReadingTypes, ReadingInv, [ReadingNext]_readingVars PROVE ReadingTypes' /\ ReadingInv'
    OBVIOUS
  <2>1. OneFollowed /\ PastInv /\ PollInv BY DEF ReadingInv
  <2>2. ReadingTypes' BY <2>1, ReadingTypesStep
  <2>3. PastInv' /\ Since0 BY <2>1, <2>2, PastStep
  <2>4. OneFollowed' BY <2>1, <2>3 DEF Since0, OneFollowed, Kind, Client
  <2>. QED BY <2>2, <2>3, <2>4, PollStep, RowStep DEF ReadingInv
<1>. QED BY <1>1, <1>2, PTL DEF ReadingSpec

\* What the rules and the panels read is followed back to the poll it came from.
LEMMA NothingStale == ReadingTypes /\ ReadingInv => NothingStaleShown
<1>. SUFFICES ASSUME ReadingTypes, ReadingInv PROVE NothingStaleShown OBVIOUS
<1>0. /\ {StaleAfter, GateStale, PollTimeout} \subseteq Nat
      /\ {time, lastWrong, gateTs, answered} \subseteq Nat
      /\ row # Absent => row \in [told : ToldType, at : 0 .. MaxTime]
  BY ReadingsAssumption DEF ReadingTypes
<1>1. RowInv BY DEF ReadingInv
<1>2. AlarmIsFresh
  <2>. SUFFICES ASSUME Reported, Kind = "stats" PROVE time - lastWrong < StaleAfter + PollTimeout BY DEF AlarmIsFresh
  <2>1. ~SmartHealth /\ ~TdarrNode BY DEF SmartHealth, SmartForRules, TdarrNode, Tells, Has
  <2>2. AgentForRules BY <2>1 DEF Reported, HostRules, FailedUnits
  <2>3. row # Absent /\ row.told /\ time - row.at < StaleAfter BY <2>2 DEF AgentForRules, Tells, Has, Age
  <2>4. row.told = TRUE /\ row.at \in Nat BY <2>3, <1>0 DEF ToldType
  <2>5. row.at - lastWrong <= PollTimeout BY <2>3, <2>4, <1>1 DEF RowInv, ToldSince
  <2>. QED BY <2>3, <2>4, <2>5, <1>0
<1>3. LiveMeansAnswered
  <2>. SUFFICES ASSUME Has("stats"), Age < StaleAfter PROVE time - answered < StaleAfter + PollTimeout
    BY DEF LiveMeansAnswered, MachineOnline, ShowsTraffic
  <2>1. row # Absent /\ row.at \in Nat BY <1>0 DEF Has
  <2>2. row.at - answered <= PollTimeout BY <2>1, <1>1 DEF RowInv
  <2>. QED BY <2>1, <2>2, <1>0 DEF Age
<1>4. RunningGateIsAlive
  <2>. SUFFICES ASSUME GovernorRunning PROVE time - gateTs <= StaleAfter + GateStale BY DEF RunningGateIsAlive
  <2>1. Kind = "governor" /\ row # Absent /\ row.told.running /\ time - row.at <= StaleAfter
    BY DEF GovernorRunning, Has, Age
  <2>2. row.told \in [running : BOOLEAN, ts : 0 .. MaxTime] /\ row.at \in Nat BY <2>1, <1>0 DEF ToldType
  <2>3. row.told.ts <= gateTs /\ row.at - row.told.ts <= GateStale BY <2>1, <1>1 DEF RowInv, ToldSince
  <2>. QED BY <2>1, <2>2, <2>3, <1>0
<1>5. UpMeansOfThatPoll BY <1>1 DEF UpMeansOfThatPoll, ShowsUp, ShowsReading, RowInv
<1>. QED BY <1>2, <1>3, <1>4, <1>5 DEF NothingStaleShown

\* The variables of a reading's way stay in their types.
THEOREM ReadingTypesHold == ReadingSpec => []ReadingTypes
BY ReadingAlways, PTL

\* No alarm, machine or governor outlives its windows, whatever requests fail or hang and
\* wherever the worker dies; and what a panel shows of a service that is up is of that poll.
THEOREM NothingStaleHolds == ReadingSpec => []NothingStaleShown
BY ReadingAlways, NothingStale, PTL
-----------------------------------------------------------------------------
(* The node agent. *)

\* The caches a request has locked.
Owns(t) == {t.locks[i][1] : i \in DOMAIN t.locks}

\* The age a value may have when its computation ends.
Behindhand(c) == IF c = "docker" THEN CacheTtl["containers"] ELSE 0

\* Which locks a request holds and waits for at each step, and how old the list of
\* containers is that it goes on with.
WaitsRight(t, now) ==
  /\ t.at \in {"idle", "stamped", "counted", "answered"} => t.locks = <<>>
  /\ t.at \in {"stamped", "counted"} => t.endpoint = "stats"
  /\ t.at \in {"asks", "computes", "answered"} => t.endpoint \in DOMAIN CacheOf
  /\ t.at = "asks" =>
       \/ t.locks = <<>> /\ t.asks = CacheOf[t.endpoint]
       \/ t.endpoint = "docker" /\ t.asks = "containers" /\ \E at \in 0 .. now : t.locks = <<<<"docker", at>>>>
  /\ t.at = "computes" =>
       \/ \E at \in 0 .. now : /\ t.locks = <<<<CacheOf[t.endpoint], at>>>>
                               /\ t.endpoint = "docker" => at - t.list <= CacheTtl["containers"]
       \/ t.endpoint = "docker" /\ \E at, later \in 0 .. now : t.locks = <<<<"containers", later>>, <<"docker", at>>>>

AnswersRight(t) ==
  t.at = "answered" => t.of \in Seconds /\ t.taken - t.of <= CacheTtl[CacheOf[t.endpoint]] + Behindhand(CacheOf[t.endpoint])

CachesInv == \A c \in Caches : cached[c].val # NotYet => cached[c].stamp - cached[c].val <= Behindhand(c)
ThreadsInv == \A r \in Threads : WaitsRight(thread[r], second) /\ AnswersRight(thread[r])
OwnersInv == \A r, q \in Threads : r # q => Owns(thread[r]) \cap Owns(thread[q]) = {}

\* A sample that no other one overlaps is alone, and nothing was swapped in since.
SamplesInv ==
  /\ baseline.ts <= second /\ baseline.counter <= second
  /\ \A r \in Threads : thread[r].ts <= second /\ thread[r].counter <= second
  /\ \A r \in Threads \ beside :
       /\ thread[r].rates.elapsed >= 0 /\ thread[r].rates.grown >= 0
       /\ r \in Sampling => Sampling = {r} /\ baseline.ts <= thread[r].ts
       /\ thread[r].at = "counted" => baseline.counter <= thread[r].counter

AgentInv == AgentFields /\ CachesInv /\ ThreadsInv /\ OwnersInv /\ SamplesInv

LEMMA CacheNames ==
  /\ \A e \in DOMAIN CacheOf : CacheOf[e] = "docker" <=> e = "docker"
  /\ CacheOf["docker"] = "docker" /\ "docker" \in DOMAIN CacheOf
  /\ "stats" \in DOMAIN CacheOf
  /\ \A e \in UNION Families : e \in DOMAIN CacheOf /\ CacheOf[e] \in Caches
  /\ "containers" \in Caches
<1>1. DOMAIN CacheOf = {"stats", "smart", "gpu", "governor", "docker", "actions"} BY DEF CacheOf
<1>2. \A e \in DOMAIN CacheOf : CacheOf[e] = "docker" <=> e = "docker" BY <1>1 DEF CacheOf
<1>3. \A e \in UNION Families : e \in DOMAIN CacheOf /\ CacheOf[e] \in Caches
  BY NodeAgentAssumption DEF Caches
<1>. QED BY <1>1, <1>2, <1>3 DEF CacheOf, Caches

LEMMA AgentTimes ==
  /\ second \in Seconds => second \in Nat
  /\ \A c \in Caches : CacheTtl[c] \in Nat /\ Behindhand(c) \in Nat
  /\ Seconds \subseteq Nat /\ NotYet \notin Seconds /\ 0 \in Seconds
<1>1. "containers" \in Caches BY CacheNames
<1>. QED BY <1>1, NodeAgentAssumption DEF Seconds, Behindhand

LEMMA AgentNumbers ==
  ASSUME AgentFields
  PROVE  /\ second \in Seconds /\ second \in Nat
         /\ baseline.ts \in Nat /\ baseline.counter \in Nat
         /\ \A r \in Threads : /\ thread[r] \in ThreadType
                             /\ thread[r].ts \in Seconds /\ thread[r].counter \in Seconds
                             /\ thread[r].ts \in Nat /\ thread[r].counter \in Nat
<1>1. second \in Seconds /\ baseline \in [ts : Seconds, counter : Seconds] BY DEF AgentFields
<1>2. second \in Nat /\ baseline.ts \in Nat /\ baseline.counter \in Nat BY <1>1, AgentTimes
<1>3. \A r \in Threads : thread[r] \in ThreadType BY DEF AgentFields
<1>4. \A r \in Threads : thread[r].ts \in Seconds /\ thread[r].counter \in Seconds BY <1>3 DEF ThreadType
<1>. QED BY <1>1, <1>2, <1>3, <1>4, AgentTimes

LEMMA OwnsByShape ==
  ASSUME NEW t
  PROVE  /\ t.locks = <<>> => Owns(t) = {}
         /\ \A c, at : t.locks = <<<<c, at>>>> => Owns(t) = {c}
         /\ \A c, at, d, later : t.locks = <<<<d, later>>, <<c, at>>>> => Owns(t) = {c, d}
<1>1. t.locks = <<>> => Owns(t) = {} BY DEF Owns
<1>2. ASSUME NEW c, NEW at, t.locks = <<<<c, at>>>> PROVE Owns(t) = {c}
  <2>1. DOMAIN t.locks = {1} /\ t.locks[1][1] = c BY <1>2
  <2>. QED BY <2>1 DEF Owns
<1>3. ASSUME NEW c, NEW at, NEW d, NEW later, t.locks = <<<<d, later>>, <<c, at>>>> PROVE Owns(t) = {c, d}
  <2>1. DOMAIN t.locks = {1, 2} /\ t.locks[1][1] = d /\ t.locks[2][1] = c BY <1>3
  <2>. QED BY <2>1 DEF Owns
<1>. QED BY <1>1, <1>2, <1>3

\* A request goes on: what it comes to is as a request is to be, and it has locked
\* nothing another one has.
LEMMA TurnKeeps ==
  ASSUME AgentFields, ThreadsInv, OwnersInv, NEW r \in Threads, NEW t \in ThreadType, Turns(r, t),
         WaitsRight(t, second), AnswersRight(t), second' = second,
         \A q \in Threads : q # r => Owns(t) \cap Owns(thread[q]) = {}
  PROVE  thread' \in [Threads -> ThreadType] /\ ThreadsInv' /\ OwnersInv'
<1>1. thread' = [thread EXCEPT ![r] = t] /\ thread \in [Threads -> ThreadType] BY DEF Turns, AgentFields
<1>2. \A q \in Threads : thread'[q] = IF q = r THEN t ELSE thread[q] BY <1>1
<1>3. ThreadsInv'
  <2>1. \A q \in Threads : WaitsRight(thread'[q], second) /\ AnswersRight(thread'[q]) BY <1>2 DEF ThreadsInv
  <2>. QED BY <2>1 DEF ThreadsInv, WaitsRight, AnswersRight
<1>4. OwnersInv'
  <2>1. \A q, p \in Threads : q # p => Owns(thread'[q]) \cap Owns(thread'[p]) = {} BY <1>2 DEF OwnersInv
  <2>. QED BY <2>1 DEF OwnersInv, Owns
<1>. QED BY <1>1, <1>3, <1>4

\* Nothing changes for the sampler when a request that samples no more goes on.
LEMMA SamplesStay ==
  ASSUME AgentFields, SamplesInv, NEW r \in Threads, NEW t \in ThreadType, Turns(r, t), UNCHANGED <<second, baseline>>,
         r \notin Sampling, t.at \notin {"stamped", "counted"}, t.ts <= second, t.counter <= second,
         (t.rates.elapsed >= 0 /\ t.rates.grown >= 0) \/ r \in beside',
         beside' = beside \/ beside' = beside \ {r}
  PROVE  SamplesInv'
<1>1. thread' = [thread EXCEPT ![r] = t] /\ thread \in [Threads -> ThreadType] BY DEF Turns, AgentFields
<1>2. \A q \in Threads : thread'[q] = IF q = r THEN t ELSE thread[q] BY <1>1
<1>3. Sampling' = Sampling BY <1>2 DEF Sampling
<1>. QED BY <1>2, <1>3 DEF SamplesInv

LEMMA IdleThread ==
  /\ NoThread \in ThreadType /\ NoThread.locks = <<>> /\ NoThread.at = "idle" /\ NoThread.ts = 0 /\ NoThread.counter = 0
  /\ NoThread.rates.elapsed = 0 /\ NoThread.rates.grown = 0 /\ Owns(NoThread) = {}
  /\ WaitsRight(NoThread, second) /\ AnswersRight(NoThread)
<1>1. <<>> \in Seq(Caches \X Seconds) OBVIOUS
<1>2. NoThread \in ThreadType BY <1>1, AgentTimes DEF NoThread, NoRates, ThreadType
<1>. QED BY <1>2, OwnsByShape DEF NoThread, NoRates, WaitsRight, AnswersRight

LEMMA OneRaiseMore ==
  ASSUME raises \in 0 .. MaxRaises, Raising
  PROVE  raises' \in 0 .. MaxRaises
BY NodeAgentAssumption DEF Raising

LEMMA AgentInitial == AgentInit => AgentInv
<1>. SUFFICES ASSUME AgentInit PROVE AgentInv OBVIOUS
<1>1. \A r \in Threads : thread[r] = NoThread BY DEF AgentInit
<1>2. AgentFields
  BY IdleThread, AgentTimes, NodeAgentAssumption DEF AgentInit, AgentFields, NothingCached, Seconds
<1>3. CachesInv BY DEF AgentInit, CachesInv, NothingCached
<1>4. ThreadsInv BY <1>1, IdleThread DEF ThreadsInv
<1>5. OwnersInv BY <1>1, IdleThread DEF OwnersInv
<1>6. SamplesInv
  <2>1. Sampling = {} BY <1>1, IdleThread DEF Sampling
  <2>2. baseline.ts = 0 /\ baseline.counter = 0 /\ second = 0 BY DEF AgentInit
  <2>. QED BY <1>1, <2>1, <2>2, IdleThread DEF SamplesInv
<1>. QED BY <1>2, <1>3, <1>4, <1>5, <1>6 DEF AgentInv

LEMMA SecondKeeps == ASSUME AgentInv, SecondPasses PROVE AgentInv'
<1>1. /\ second' = second + 1 /\ second < MaxSeconds
      /\ UNCHANGED <<asked, baseline, cached, thread, raises, beside>>
  BY DEF SecondPasses
<1>2. second \in Nat /\ second' \in Seconds BY <1>1, NodeAgentAssumption DEF AgentInv, AgentFields, Seconds
<1>3. AgentFields' BY <1>1, <1>2 DEF AgentInv, AgentFields
<1>4. CachesInv' BY <1>1 DEF AgentInv, CachesInv
<1>5. ThreadsInv'
  <2>1. \A n \in 0 .. second : n \in 0 .. second' BY <1>1, <1>2
  <2>2. ASSUME NEW r \in Threads PROVE WaitsRight(thread[r], second') /\ AnswersRight(thread[r])
    <3>1. WaitsRight(thread[r], second) /\ AnswersRight(thread[r]) BY DEF AgentInv, ThreadsInv
    <3>. QED BY <2>1, <3>1 DEF WaitsRight
  <2>. QED BY <1>1, <2>2 DEF ThreadsInv, WaitsRight, AnswersRight
<1>6. OwnersInv'
  <2>1. \A q, p \in Threads : q # p => Owns(thread'[q]) \cap Owns(thread'[p]) = {} BY <1>1 DEF AgentInv, OwnersInv
  <2>. QED BY <2>1 DEF OwnersInv, Owns
<1>7. SamplesInv'
  <2>1. Sampling' = Sampling BY <1>1 DEF Sampling
  <2>2. /\ baseline.ts \in Nat /\ baseline.counter \in Nat
        /\ \A r \in Threads : thread[r].ts \in Nat /\ thread[r].counter \in Nat
    BY AgentTimes DEF AgentInv, AgentFields, ThreadType
  <2>3. SamplesInv BY DEF AgentInv
  <2>4. baseline.ts <= second' /\ baseline.counter <= second' BY <1>1, <1>2, <2>2, <2>3 DEF SamplesInv
  <2>5. \A r \in Threads : thread[r].ts <= second' /\ thread[r].counter <= second'
    BY <1>1, <1>2, <2>2, <2>3 DEF SamplesInv
  <2>. QED BY <1>1, <2>1, <2>3, <2>4, <2>5 DEF SamplesInv
<1>. QED BY <1>3, <1>4, <1>5, <1>6, <1>7 DEF AgentInv

LEMMA RestartsKeep == ASSUME AgentInv, AgentRestarts PROVE AgentInv'
<1>1. /\ Raising /\ baseline' = [ts |-> second, counter |-> second]
      /\ cached' = [c \in Caches |-> NothingCached] /\ thread' = [r \in Threads |-> NoThread] /\ beside' = {}
      /\ UNCHANGED <<asked, second>>
  BY DEF AgentRestarts
<1>2. \A r \in Threads : thread'[r] = NoThread BY <1>1
<1>3. AgentFields'
  BY <1>1, IdleThread, AgentTimes, OneRaiseMore DEF AgentInv, AgentFields, NothingCached
<1>4. CachesInv' BY <1>1 DEF CachesInv, NothingCached
<1>5. ThreadsInv'
  <2>1. WaitsRight(NoThread, second') /\ AnswersRight(NoThread) BY <1>1, IdleThread
  <2>. QED BY <1>2, <2>1 DEF ThreadsInv, WaitsRight, AnswersRight
<1>6. OwnersInv' BY <1>2, IdleThread DEF OwnersInv, Owns
<1>7. SamplesInv'
  <2>1. Sampling' = {} BY <1>2, IdleThread DEF Sampling
  <2>2. second \in Nat BY AgentTimes DEF AgentInv, AgentFields
  <2>3. baseline'.ts <= second' /\ baseline'.counter <= second' BY <1>1, <2>2
  <2>4. \A r \in Threads : thread'[r].ts <= second' /\ thread'[r].counter <= second' BY <1>1, <1>2, <2>2, IdleThread
  <2>5. \A r \in Threads : thread'[r].rates.elapsed >= 0 /\ thread'[r].rates.grown >= 0 /\ thread'[r].at # "counted"
    BY <1>2, IdleThread
  <2>. QED BY <2>1, <2>3, <2>4, <2>5 DEF SamplesInv
<1>. QED BY <1>3, <1>4, <1>5, <1>6, <1>7 DEF AgentInv

\* A request is given up or has been answered.
LEMMA IdleKeeps ==
  ASSUME AgentInv, NEW r \in Threads, Turns(r, NoThread), beside' = beside \ {r}, r \notin Sampling,
         raises' \in 0 .. MaxRaises, UNCHANGED <<asked, second, baseline, cached>>
  PROVE  AgentInv'
<1>1. thread' \in [Threads -> ThreadType] /\ ThreadsInv' /\ OwnersInv'
  BY IdleThread, TurnKeeps DEF AgentInv
<1>2. AgentFields' BY <1>1 DEF AgentInv, AgentFields
<1>3. CachesInv' BY DEF AgentInv, CachesInv
<1>4. SamplesInv'
  <2>1. 0 <= second BY AgentTimes DEF AgentInv, AgentFields
  <2>. QED BY <2>1, IdleThread, SamplesStay DEF AgentInv
<1>. QED BY <1>1, <1>2, <1>3, <1>4 DEF AgentInv

LEMMA AnswerKeeps == ASSUME AgentInv, NEW r \in Threads, Answer(r) \/ ComputeRaises(r) PROVE AgentInv'
<1>1. Turns(r, NoThread) /\ beside' = beside \ {r} /\ UNCHANGED <<asked, second, baseline, cached>>
  BY DEF Answer, ComputeRaises
<1>2. r \notin Sampling BY DEF Answer, ComputeRaises, ThreadAt, Sampling
<1>3. raises' \in 0 .. MaxRaises BY OneRaiseMore DEF Answer, ComputeRaises, AgentInv, AgentFields
<1>. QED BY <1>1, <1>2, <1>3, IdleKeeps

LEMMA AskKeeps == ASSUME AgentInv, NEW r \in Threads, NEW e \in asked, AskAgent(r, e) PROVE AgentInv'
<1>. DEFINE sampled == [NoThread EXCEPT !.at = "stamped", !.endpoint = e, !.ts = second]
            other == [NoThread EXCEPT !.at = "asks", !.endpoint = e, !.asks = CacheOf[e]]
<1>0. AgentFields /\ ThreadsInv /\ OwnersInv /\ SamplesInv /\ CachesInv BY DEF AgentInv
<1>1. e \in UNION Families /\ e \in DOMAIN CacheOf /\ CacheOf[e] \in Caches BY <1>0, CacheNames DEF AgentFields
<1>2. thread[r].at = "idle" /\ UNCHANGED <<asked, second, baseline, cached, raises>>
  BY DEF AskAgent, ThreadAt
<1>3. CachesInv' BY <1>0, <1>2 DEF CachesInv
<1>4. second \in Seconds /\ second \in Nat /\ 0 \in Seconds /\ baseline.ts \in Int BY <1>0, AgentTimes, AgentNumbers
<1>5. CASE e = "stats"
  <2>1. Turns(r, sampled) /\ beside' = IF Sampling = {} THEN beside \ {r} ELSE beside \cup Sampling \cup {r}
    BY <1>5 DEF AskAgent
  <2>2. /\ sampled.at = "stamped" /\ sampled.ts = second /\ sampled.counter = 0 /\ sampled.locks = <<>>
        /\ sampled.rates.elapsed = 0 /\ sampled.rates.grown = 0 /\ sampled.endpoint = "stats"
    BY <1>5 DEF NoThread, NoRates
  <2>3. sampled \in ThreadType BY <1>1, <1>4, IdleThread DEF ThreadType
  <2>4. WaitsRight(sampled, second) /\ AnswersRight(sampled) /\ Owns(sampled) = {}
    BY <2>2, OwnsByShape DEF WaitsRight, AnswersRight
  <2>. HIDE DEF sampled
  <2>5. thread' \in [Threads -> ThreadType] /\ ThreadsInv' /\ OwnersInv'
    BY <1>0, <1>2, <2>1, <2>3, <2>4, TurnKeeps
  <2>6. \A q \in Threads : thread'[q] = IF q = r THEN sampled ELSE thread[q]
    BY <1>0, <2>1 DEF Turns, AgentFields
  <2>7. Sampling' = Sampling \cup {r} /\ r \notin Sampling BY <1>2, <2>2, <2>6 DEF Sampling
  <2>8. beside' \subseteq Threads BY <1>0, <2>1 DEF AgentFields, Sampling
  <2>9. SamplesInv'
    <3>1. baseline'.ts <= second' /\ baseline'.counter <= second' BY <1>0, <1>2 DEF SamplesInv
    <3>2. \A q \in Threads : thread'[q].ts <= second' /\ thread'[q].counter <= second'
      BY <1>0, <1>2, <1>4, <2>2, <2>6 DEF SamplesInv
    <3>3. ASSUME NEW q \in Threads \ beside'
          PROVE  /\ thread'[q].rates.elapsed >= 0 /\ thread'[q].rates.grown >= 0
                 /\ q \in Sampling' => Sampling' = {q} /\ baseline'.ts <= thread'[q].ts
                 /\ thread'[q].at = "counted" => baseline'.counter <= thread'[q].counter
      <4>1. CASE q = r BY <4>1, <3>3, <1>0, <1>2, <2>1, <2>2, <2>6, <2>7 DEF SamplesInv
      <4>2. CASE q # r /\ Sampling = {} BY <4>2, <3>3, <1>0, <1>2, <2>1, <2>2, <2>6, <2>7 DEF SamplesInv
      <4>3. CASE q # r /\ Sampling # {} BY <4>3, <3>3, <1>0, <1>2, <2>1, <2>2, <2>6, <2>7 DEF SamplesInv
      <4>. QED BY <4>1, <4>2, <4>3
    <3>. QED BY <3>1, <3>2, <3>3 DEF SamplesInv
  <2>. QED BY <1>0, <1>2, <1>3, <2>5, <2>8, <2>9 DEF AgentInv, AgentFields
<1>6. CASE e # "stats"
  <2>1. Turns(r, other) /\ beside' = beside BY <1>6 DEF AskAgent
  <2>2. /\ other.at = "asks" /\ other.ts = 0 /\ other.counter = 0 /\ other.locks = <<>>
        /\ other.rates.elapsed = 0 /\ other.rates.grown = 0 /\ other.endpoint = e /\ other.asks = CacheOf[e]
    BY DEF NoThread, NoRates
  <2>3. other \in ThreadType BY <1>1, IdleThread DEF ThreadType
  <2>4. WaitsRight(other, second) /\ AnswersRight(other) /\ Owns(other) = {}
    BY <1>1, <2>2, OwnsByShape DEF WaitsRight, AnswersRight
  <2>. HIDE DEF other
  <2>5. thread' \in [Threads -> ThreadType] /\ ThreadsInv' /\ OwnersInv'
    BY <1>0, <1>2, <2>1, <2>3, <2>4, TurnKeeps
  <2>6. SamplesInv'
    <3>1. r \notin Sampling BY <1>2 DEF Sampling
    <3>. QED BY <1>0, <1>2, <1>4, <2>1, <2>2, <2>3, <3>1, SamplesStay
  <2>. QED BY <1>0, <1>2, <1>3, <2>1, <2>5, <2>6 DEF AgentInv, AgentFields
<1>. QED BY <1>5, <1>6

LEMMA CountersKeep == ASSUME AgentInv, NEW r \in Threads, ReadCounters(r) PROVE AgentInv'
<1>. DEFINE t == [thread[r] EXCEPT !.at = "counted", !.counter = second]
<1>0. AgentFields /\ ThreadsInv /\ OwnersInv /\ SamplesInv /\ CachesInv BY DEF AgentInv
<1>1. thread[r].at = "stamped" /\ Turns(r, t) /\ UNCHANGED <<asked, second, baseline, cached, raises, beside>>
  BY DEF ReadCounters, ThreadAt
<1>2. thread[r] \in ThreadType /\ second \in Seconds /\ second \in Nat /\ baseline.counter \in Int
  BY <1>0, AgentNumbers
<1>3. t \in ThreadType /\ t.at = "counted" /\ t.ts = thread[r].ts /\ t.counter = second /\ t.locks = thread[r].locks
      /\ t.rates = thread[r].rates /\ t.endpoint = thread[r].endpoint
  BY <1>2 DEF ThreadType
<1>4. thread[r].locks = <<>> /\ thread[r].endpoint = "stats" BY <1>0, <1>1 DEF ThreadsInv, WaitsRight
<1>5. WaitsRight(t, second) /\ AnswersRight(t) /\ Owns(t) = {}
  BY <1>3, <1>4, OwnsByShape DEF WaitsRight, AnswersRight
<1>. HIDE DEF t
<1>6. thread' \in [Threads -> ThreadType] /\ ThreadsInv' /\ OwnersInv'
  BY <1>0, <1>1, <1>3, <1>5, TurnKeeps
<1>7. \A q \in Threads : thread'[q] = IF q = r THEN t ELSE thread[q]
  BY <1>0, <1>1 DEF Turns, AgentFields
<1>8. Sampling' = Sampling /\ r \in Sampling BY <1>1, <1>3, <1>7 DEF Sampling
<1>9. SamplesInv' BY <1>0, <1>1, <1>2, <1>3, <1>7, <1>8 DEF SamplesInv
<1>. QED BY <1>0, <1>1, <1>6, <1>9 DEF AgentInv, AgentFields, CachesInv

LEMMA SwapKeeps == ASSUME AgentInv, NEW r \in Threads, SwapSample(r) PROVE AgentInv'
<1>. DEFINE elapsed == thread[r].ts - baseline.ts
            grown == Told(elapsed, thread[r].counter - baseline.counter)
            t == [NoThread EXCEPT !.at = "asks", !.endpoint = "stats", !.asks = CacheOf["stats"],
                                  !.rates = [elapsed |-> elapsed, grown |-> grown]]
<1>0. AgentFields /\ ThreadsInv /\ OwnersInv /\ SamplesInv /\ CachesInv BY DEF AgentInv
<1>1. thread[r].at = "counted" /\ baseline' = [ts |-> thread[r].ts, counter |-> thread[r].counter] /\ Turns(r, t)
      /\ UNCHANGED <<asked, second, cached, raises, beside>>
  BY DEF SwapSample, ThreadAt
<1>2. thread[r] \in ThreadType /\ second \in Nat /\ baseline.counter \in Int /\ baseline.ts \in Int
      /\ thread[r].ts \in Seconds /\ thread[r].counter \in Seconds /\ thread[r].ts \in Int /\ thread[r].counter \in Int
  BY <1>0, AgentNumbers
<1>3. elapsed \in Int /\ grown \in Int BY <1>2 DEF Told
<1>4. r \notin beside => elapsed >= 0 /\ grown >= 0
  BY <1>0, <1>1, <1>2 DEF SamplesInv, Told, Sampling
<1>. HIDE DEF elapsed, grown
<1>5. /\ t.at = "asks" /\ t.ts = 0 /\ t.counter = 0 /\ t.locks = <<>> /\ t.endpoint = "stats" /\ t.asks = CacheOf["stats"]
      /\ t.rates.elapsed = elapsed /\ t.rates.grown = grown
  BY DEF NoThread
<1>6. "stats" \in DOMAIN CacheOf /\ "stats" \in {"none"} \cup UNION Families /\ CacheOf["stats"] \in Caches
  <2>1. thread[r].endpoint = "stats" BY <1>0, <1>1 DEF ThreadsInv, WaitsRight
  <2>2. thread[r].endpoint \in {"none"} \cup UNION Families BY <1>2 DEF ThreadType
  <2>. QED BY <2>1, <2>2, CacheNames
<1>7. t \in ThreadType BY <1>3, <1>6, IdleThread DEF ThreadType
<1>8. WaitsRight(t, second) /\ AnswersRight(t) /\ Owns(t) = {}
  BY <1>5, <1>6, OwnsByShape DEF WaitsRight, AnswersRight
<1>. HIDE DEF t
<1>9. thread' \in [Threads -> ThreadType] /\ ThreadsInv' /\ OwnersInv'
  BY <1>0, <1>1, <1>7, <1>8, TurnKeeps
<1>10. \A q \in Threads : thread'[q] = IF q = r THEN t ELSE thread[q]
  BY <1>0, <1>1 DEF Turns, AgentFields
<1>11. Sampling' = Sampling \ {r} /\ r \in Sampling BY <1>1, <1>5, <1>10 DEF Sampling
<1>12. SamplesInv'
  <2>1. baseline'.ts <= second' /\ baseline'.counter <= second' BY <1>0, <1>1 DEF SamplesInv
  <2>2. \A q \in Threads : thread'[q].ts <= second' /\ thread'[q].counter <= second'
    BY <1>0, <1>1, <1>2, <1>5, <1>10 DEF SamplesInv
  <2>3. ASSUME NEW q \in Threads \ beside'
        PROVE  /\ thread'[q].rates.elapsed >= 0 /\ thread'[q].rates.grown >= 0
               /\ q \in Sampling' => Sampling' = {q} /\ baseline'.ts <= thread'[q].ts
               /\ thread'[q].at = "counted" => baseline'.counter <= thread'[q].counter
    <3>1. CASE q = r BY <3>1, <2>3, <1>1, <1>4, <1>5, <1>10, <1>11
    <3>2. CASE q # r
      <4>1. q \notin Sampling BY <3>2, <2>3, <1>0, <1>1, <1>11 DEF SamplesInv
      <4>2. thread'[q] = thread[q] /\ q \notin Sampling' /\ thread[q].at # "counted"
        BY <3>2, <2>3, <4>1, <1>10, <1>11 DEF Sampling
      <4>. QED BY <2>3, <4>2, <1>0, <1>1 DEF SamplesInv
    <3>. QED BY <3>1, <3>2
  <2>. QED BY <2>1, <2>2, <2>3 DEF SamplesInv
<1>13. baseline' \in [ts : Seconds, counter : Seconds] BY <1>1, <1>2
<1>. QED BY <1>0, <1>1, <1>9, <1>12, <1>13 DEF AgentInv, AgentFields, CachesInv

LEMMA PairOfOnes == ASSUME NEW x, NEW y PROVE <<x>> \o <<y>> = <<x, y>>
<1>. DEFINE s == <<x>> \o <<y>>
            S == {x, y}
<1>1. <<x>> \in Seq(S) /\ <<y>> \in Seq(S) /\ <<x, y>> \in Seq(S) OBVIOUS
<1>. HIDE DEF S
<1>2. s \in Seq(S) /\ Len(s) = 2 BY <1>1
<1>3. s[1] = x /\ s[2] = y BY <1>1
<1>. HIDE DEF s
<1>4. Len(<<x, y>>) = 2 /\ \A i \in 1 .. 2 : s[i] = <<x, y>>[i] BY <1>3
<1>5. s = <<x, y>> BY <1>1, <1>2, <1>4, SeqEqual
<1>. QED BY <1>5 DEF s

LEMMA HeldIsOwned ==
  ASSUME NEW c, c \notin Held, NEW q \in Threads
  PROVE  c \notin Owns(thread[q])
BY DEF Held, Owns

LEMMA OwnedSeparately ==
  ASSUME OwnersInv, NEW r \in Threads, NEW q \in Threads, q # r
  PROVE  Owns(thread[r]) \cap Owns(thread[q]) = {}
BY DEF OwnersInv

LEMMA EndpointType == ASSUME AgentFields, NEW r \in Threads PROVE thread[r].endpoint \in {"none"} \cup UNION Families
BY AgentNumbers DEF ThreadType

\* A request that has a lock, or gets one, goes on.
LEMMA LockingKeeps ==
  ASSUME AgentInv, NEW r \in Threads, NEW t \in ThreadType, Turns(r, t), thread[r].at \in {"asks", "computes"},
         t.at \in {"asks", "computes", "answered"}, WaitsRight(t, second), AnswersRight(t),
         \A q \in Threads : q # r => Owns(t) \cap Owns(thread[q]) = {},
         t.ts <= second, t.counter <= second,
         t.rates = thread[r].rates \/ (t.rates.elapsed = 0 /\ t.rates.grown = 0),
         cached' \in [Caches -> [val : Seconds \cup {NotYet}, stamp : Seconds]], CachesInv',
         UNCHANGED <<asked, second, baseline, raises, beside>>
  PROVE  AgentInv'
<1>1. thread' \in [Threads -> ThreadType] /\ ThreadsInv' /\ OwnersInv' BY TurnKeeps DEF AgentInv
<1>2. AgentFields' BY <1>1 DEF AgentInv, AgentFields
<1>3. r \notin Sampling BY DEF Sampling
<1>4. (t.rates.elapsed >= 0 /\ t.rates.grown >= 0) \/ r \in beside'
  BY DEF AgentInv, SamplesInv
<1>5. SamplesInv' BY <1>3, <1>4, SamplesStay DEF AgentInv
<1>. QED BY <1>1, <1>2, <1>5 DEF AgentInv

\* What is kept is, when the lock is taken, as old as the cache allows.
LEMMA KeptIsInTime ==
  ASSUME AgentFields, CachesInv, NEW c \in Caches, Kept(c)
  PROVE  cached[c].val \in Seconds /\ second - cached[c].val <= CacheTtl[c] + Behindhand(c)
<1>1. cached[c].val \in Seconds \cup {NotYet} /\ cached[c].stamp \in Seconds BY DEF AgentFields
<1>2. cached[c].val \in Seconds /\ second - cached[c].stamp <= CacheTtl[c] BY <1>1 DEF Kept
<1>3. cached[c].stamp - cached[c].val <= Behindhand(c) BY <1>1, <1>2, AgentTimes DEF CachesInv
<1>4. cached[c].val \in Nat /\ cached[c].stamp \in Nat /\ second \in Nat /\ CacheTtl[c] \in Nat /\ Behindhand(c) \in Nat
  BY <1>1, <1>2, AgentTimes, AgentNumbers
<1>5. \A s, v, k, m, b \in Nat : s - k <= m /\ k - v <= b => s - v <= m + b OBVIOUS
<1>. QED BY <1>2, <1>3, <1>4, <1>5

LEMMA GetKeeps == ASSUME AgentInv, NEW r \in Threads, GetBegins(r) PROVE AgentInv'
<1>. DEFINE c == thread[r].asks
            served == [NoThread EXCEPT !.at = "answered", !.endpoint = thread[r].endpoint, !.of = cached[c].val, !.taken = second]
            goes == [thread[r] EXCEPT !.at = "computes", !.list = cached[c].val]
            locks == <<<<c, second>>>> \o thread[r].locks
            waits == [thread[r] EXCEPT !.at = IF c = "docker" THEN "asks" ELSE "computes",
                                       !.asks = IF c = "docker" THEN "containers" ELSE c, !.locks = locks,
                                       !.rates = NoRates]
<1>0. AgentFields /\ ThreadsInv /\ OwnersInv /\ SamplesInv /\ CachesInv BY DEF AgentInv
<1>1. /\ thread[r].at = "asks" /\ c \notin Held
      /\ \/ Kept(c) /\ thread[r].locks = <<>> /\ Turns(r, served)
         \/ Kept(c) /\ thread[r].locks # <<>> /\ Turns(r, goes)
         \/ ~Kept(c) /\ Turns(r, waits)
      /\ UNCHANGED <<asked, second, baseline, cached, raises, beside>>
  BY DEF GetBegins, ThreadAt, Serve, Locked
<1>2. /\ thread[r] \in ThreadType /\ second \in Seconds /\ second \in Nat
      /\ thread[r].ts <= second /\ thread[r].counter <= second /\ 0 <= second
  BY <1>0, AgentNumbers DEF SamplesInv
<1>3. /\ thread[r].endpoint \in DOMAIN CacheOf
      /\ \/ thread[r].locks = <<>> /\ c = CacheOf[thread[r].endpoint]
         \/ thread[r].endpoint = "docker" /\ c = "containers" /\ \E at \in 0 .. second : thread[r].locks = <<<<"docker", at>>>>
  BY <1>0, <1>1 DEF ThreadsInv, WaitsRight
<1>4. c \in Caches
  <2>1. thread[r].endpoint \in {"none"} \cup UNION Families BY <1>2 DEF ThreadType
  <2>2. thread[r].endpoint # "none" BY <1>3 DEF CacheOf
  <2>. QED BY <1>3, <2>1, <2>2, CacheNames
<1>. HIDE DEF c
<1>5. cached' \in [Caches -> [val : Seconds \cup {NotYet}, stamp : Seconds]] /\ CachesInv'
  BY <1>0, <1>1 DEF AgentFields, CachesInv
<1>6. CASE Kept(c) /\ thread[r].locks = <<>> /\ Turns(r, served)
  <2>1. cached[c].val \in Seconds /\ second - cached[c].val <= CacheTtl[c] + Behindhand(c)
    BY <1>0, <1>4, <1>6, KeptIsInTime
  <2>2. /\ served \in ThreadType /\ served.at = "answered" /\ served.endpoint = thread[r].endpoint
        /\ served.of = cached[c].val /\ served.taken = second
        /\ served.locks = <<>> /\ served.ts = 0 /\ served.counter = 0
        /\ served.rates.elapsed = 0 /\ served.rates.grown = 0
    BY <1>0, <1>2, <2>1, EndpointType, IdleThread DEF NoThread, NoRates, ThreadType
  <2>. HIDE DEF served
  <2>3. c = CacheOf[thread[r].endpoint] BY <1>3, <1>6
  <2>4. WaitsRight(served, second) /\ Owns(served) = {} BY <1>3, <2>2, OwnsByShape DEF WaitsRight
  <2>5. AnswersRight(served) BY <2>1, <2>2, <2>3 DEF AnswersRight
  <2>. QED BY <1>1, <1>2, <1>5, <1>6, <2>2, <2>4, <2>5, LockingKeeps
<1>7. CASE Kept(c) /\ thread[r].locks # <<>> /\ Turns(r, goes)
  <2>1. PICK at \in 0 .. second : thread[r].locks = <<<<"docker", at>>>> BY <1>3, <1>7
  <2>2. c = "containers" /\ thread[r].endpoint = "docker" BY <1>3, <1>7
  <2>3. cached[c].val \in Seconds /\ second - cached[c].val <= CacheTtl[c] + Behindhand(c)
    BY <1>0, <1>4, <1>7, KeptIsInTime
  <2>4. /\ goes \in ThreadType /\ goes.at = "computes" /\ goes.list = cached[c].val /\ goes.locks = thread[r].locks
        /\ goes.endpoint = "docker" /\ goes.ts = thread[r].ts /\ goes.counter = thread[r].counter /\ goes.rates = thread[r].rates
    BY <1>2, <2>2, <2>3 DEF ThreadType
  <2>. HIDE DEF goes
  <2>5. at - goes.list <= CacheTtl["containers"]
    <3>1. Behindhand(c) = 0 /\ CacheTtl["containers"] \in Nat BY <2>2, AgentTimes, CacheNames DEF Behindhand
    <3>2. second - goes.list <= CacheTtl["containers"] + 0 BY <2>2, <2>3, <2>4, <3>1
    <3>3. goes.list \in Nat BY <2>3, <2>4, AgentTimes
    <3>. QED BY <1>2, <3>1, <3>2, <3>3
  <2>6. goes.locks = <<<<CacheOf[goes.endpoint], at>>>> BY <2>1, <2>4, CacheNames
  <2>7. WaitsRight(goes, second) /\ AnswersRight(goes) BY <2>4, <2>5, <2>6, CacheNames DEF WaitsRight, AnswersRight
  <2>8. Owns(goes) = Owns(thread[r]) BY <2>4 DEF Owns
  <2>9. \A q \in Threads : q # r => Owns(goes) \cap Owns(thread[q]) = {} BY <1>0, <2>8, OwnedSeparately
  <2>. QED BY <1>1, <1>2, <1>5, <1>7, <2>4, <2>7, <2>9, LockingKeeps
<1>8. CASE ~Kept(c) /\ Turns(r, waits)
  <2>1. <<c, second>> \in Caches \X Seconds BY <1>2, <1>4
  <2>2. locks \in Seq(Caches \X Seconds) BY <1>2, <2>1 DEF ThreadType
  <2>3. NoRates \in [elapsed : Int, grown : Int] /\ NoRates.elapsed = 0 /\ NoRates.grown = 0 BY DEF NoRates
  <2>4. /\ waits \in ThreadType /\ waits.at = (IF c = "docker" THEN "asks" ELSE "computes")
        /\ waits.asks = (IF c = "docker" THEN "containers" ELSE c) /\ waits.locks = locks
        /\ waits.endpoint = thread[r].endpoint /\ waits.ts = thread[r].ts /\ waits.counter = thread[r].counter
        /\ waits.rates = NoRates
    BY <1>2, <1>4, <2>2, <2>3, CacheNames DEF ThreadType
  <2>. HIDE DEF waits
  <2>5. second \in 0 .. second BY <1>2
  <2>6. CASE thread[r].locks = <<>> /\ c = CacheOf[thread[r].endpoint]
    <3>1. locks = <<<<c, second>>>> BY <2>6
    <3>2. Owns(waits) = {c} BY <2>4, <3>1, OwnsByShape
    <3>3. WaitsRight(waits, second)
      <4>1. CASE c = "docker"
        <5>1. thread[r].endpoint = "docker" BY <4>1, <1>3, <2>6, CacheNames
        <5>. QED BY <4>1, <5>1, <1>3, <2>4, <2>5, <3>1 DEF WaitsRight
      <4>2. CASE c # "docker"
        <5>1. thread[r].endpoint # "docker" BY <4>2, <2>6, CacheNames
        <5>. QED BY <4>2, <5>1, <1>3, <2>4, <2>5, <2>6, <3>1 DEF WaitsRight
      <4>. QED BY <4>1, <4>2
    <3>4. AnswersRight(waits) BY <2>4 DEF AnswersRight
    <3>5. \A q \in Threads : q # r => Owns(waits) \cap Owns(thread[q]) = {} BY <1>1, <3>2, HeldIsOwned
    <3>. QED BY <1>1, <1>2, <1>5, <1>8, <2>3, <2>4, <3>3, <3>4, <3>5, LockingKeeps
  <2>7. CASE thread[r].endpoint = "docker" /\ c = "containers" /\ \E at \in 0 .. second : thread[r].locks = <<<<"docker", at>>>>
    <3>0. PICK at \in 0 .. second : thread[r].locks = <<<<"docker", at>>>> BY <2>7
    <3>1. locks = <<<<"containers", second>>, <<"docker", at>>>>
      <4>1. locks = <<<<"containers", second>>>> \o <<<<"docker", at>>>> BY <2>7, <3>0
      <4>. HIDE DEF locks
      <4>. QED BY <4>1, PairOfOnes
    <3>2. Owns(waits) = {c} \cup Owns(thread[r]) BY <2>4, <2>7, <3>0, <3>1, OwnsByShape
    <3>3. WaitsRight(waits, second) BY <1>3, <2>4, <2>5, <2>7, <3>1 DEF WaitsRight
    <3>4. AnswersRight(waits) BY <2>4, <2>7 DEF AnswersRight
    <3>5. \A q \in Threads : q # r => Owns(waits) \cap Owns(thread[q]) = {}
      BY <1>0, <1>1, <3>2, HeldIsOwned, OwnedSeparately
    <3>. QED BY <1>1, <1>2, <1>5, <1>8, <2>3, <2>4, <2>7, <3>3, <3>4, <3>5, LockingKeeps
  <2>. QED BY <1>3, <2>6, <2>7
<1>. QED BY <1>1, <1>6, <1>7, <1>8

LEMMA ComputeKeeps == ASSUME AgentInv, NEW r \in Threads, ComputeEnds(r) PROVE AgentInv'
<1>. DEFINE lock == Head(thread[r].locks)
            val == IF lock[1] = "docker" THEN Older(thread[r].list, second) ELSE second
            rest == Tail(thread[r].locks)
            served == [NoThread EXCEPT !.at = "answered", !.endpoint = thread[r].endpoint, !.of = val, !.taken = lock[2]]
            goes == [thread[r] EXCEPT !.locks = rest, !.list = val]
<1>0. AgentFields /\ ThreadsInv /\ OwnersInv /\ SamplesInv /\ CachesInv BY DEF AgentInv
<1>1. /\ thread[r].at = "computes"
      /\ cached' = [cached EXCEPT ![lock[1]] = [val |-> val, stamp |-> lock[2]]]
      /\ (rest = <<>> /\ Turns(r, served)) \/ (rest # <<>> /\ Turns(r, goes))
      /\ UNCHANGED <<asked, second, baseline, raises, beside>>
  BY DEF ComputeEnds, ThreadAt, Serve
<1>2. /\ thread[r] \in ThreadType /\ second \in Seconds /\ second \in Nat
      /\ thread[r].ts <= second /\ thread[r].counter <= second /\ 0 <= second
      /\ thread[r].list \in Seconds /\ thread[r].list \in Nat
  <2>1. thread[r].list \in Seconds BY <1>0, AgentNumbers DEF ThreadType
  <2>2. thread[r].list \in Nat BY <2>1, AgentTimes
  <2>3. thread[r].ts <= second /\ thread[r].counter <= second BY <1>0 DEF SamplesInv
  <2>4. second \in Seconds /\ second \in Nat /\ thread[r] \in ThreadType BY <1>0, AgentNumbers
  <2>. QED BY <2>1, <2>2, <2>3, <2>4
<1>3. /\ thread[r].endpoint \in DOMAIN CacheOf
      /\ \/ \E at \in 0 .. second : /\ thread[r].locks = <<<<CacheOf[thread[r].endpoint], at>>>>
                                    /\ thread[r].endpoint = "docker" => at - thread[r].list <= CacheTtl["containers"]
         \/ thread[r].endpoint = "docker" /\ \E at, later \in 0 .. second :
              thread[r].locks = <<<<"containers", later>>, <<"docker", at>>>>
  BY <1>0, <1>1 DEF ThreadsInv, WaitsRight
<1>4. CacheOf[thread[r].endpoint] \in Caches
  <2>1. thread[r].endpoint # "none" BY <1>3 DEF CacheOf
  <2>. QED BY <1>0, <2>1, EndpointType, CacheNames
<1>5. val \in Seconds /\ val \in Nat /\ (lock[1] # "docker" => val = second) /\ (val = second \/ val = thread[r].list)
  BY <1>2 DEF Older
\* What is put into the cache is no older than a value of it may be.
<1>6. ASSUME NEW c \in Caches, NEW at \in 0 .. second, lock[1] = c, lock[2] = at, at - val <= Behindhand(c)
      PROVE  cached' \in [Caches -> [val : Seconds \cup {NotYet}, stamp : Seconds]] /\ CachesInv'
  <2>1. at \in Seconds BY <1>2, NodeAgentAssumption DEF Seconds
  <2>2. cached' = [cached EXCEPT ![c] = [val |-> val, stamp |-> at]] BY <1>1, <1>6
  <2>. HIDE DEF val
  <2>3. cached' \in [Caches -> [val : Seconds \cup {NotYet}, stamp : Seconds]]
    BY <1>0, <1>5, <2>1, <2>2 DEF AgentFields
  <2>4. \A d \in Caches : cached'[d] = IF d = c THEN [val |-> val, stamp |-> at] ELSE cached[d]
    BY <1>0, <2>2 DEF AgentFields
  <2>5. CachesInv' BY <1>0, <1>6, <2>4 DEF CachesInv
  <2>. QED BY <2>3, <2>5
<1>7. CASE \E at \in 0 .. second : /\ thread[r].locks = <<<<CacheOf[thread[r].endpoint], at>>>>
                                   /\ thread[r].endpoint = "docker" => at - thread[r].list <= CacheTtl["containers"]
  <2>. DEFINE c == CacheOf[thread[r].endpoint]
  <2>1. PICK at \in 0 .. second : /\ thread[r].locks = <<<<c, at>>>>
                                  /\ thread[r].endpoint = "docker" => at - thread[r].list <= CacheTtl["containers"]
    BY <1>7
  <2>2. lock[1] = c /\ lock[2] = at /\ rest = <<>> BY <2>1
  <2>3. c = "docker" <=> thread[r].endpoint = "docker" BY <1>3, CacheNames
  <2>4. at - val <= Behindhand(c)
    <3>1. at \in Nat /\ at <= second BY <1>2, <2>1
    <3>2. CASE c = "docker"
      <4>1. Behindhand(c) = CacheTtl["containers"] /\ CacheTtl["containers"] \in Nat
        BY <3>2, AgentTimes, CacheNames DEF Behindhand
      <4>2. at - thread[r].list <= CacheTtl["containers"] BY <2>1, <2>3, <3>2
      <4>. HIDE DEF val, c
      <4>3. CASE val = second BY <1>2, <3>1, <4>1, <4>3
      <4>4. CASE val = thread[r].list BY <4>1, <4>2, <4>4
      <4>. QED BY <1>5, <4>3, <4>4
    <3>3. CASE c # "docker"
      <4>1. Behindhand(c) = 0 BY <3>3 DEF Behindhand
      <4>2. val = second BY <1>5, <2>2, <3>3
      <4>. HIDE DEF val, c
      <4>. QED BY <1>2, <3>1, <4>1, <4>2
    <3>. QED BY <3>2, <3>3
  <2>5. cached' \in [Caches -> [val : Seconds \cup {NotYet}, stamp : Seconds]] /\ CachesInv'
    BY <1>4, <1>6, <2>2, <2>4
  <2>6. Turns(r, served) BY <1>1, <2>2
  <2>7. lock[2] \in Seconds BY <1>2, <2>2, NodeAgentAssumption DEF Seconds
  <2>8. /\ served \in ThreadType /\ served.at = "answered" /\ served.endpoint = thread[r].endpoint
        /\ served.of = val /\ served.taken = lock[2]
        /\ served.locks = <<>> /\ served.ts = 0 /\ served.counter = 0
        /\ served.rates.elapsed = 0 /\ served.rates.grown = 0
    <3>. HIDE DEF val, lock
    <3>. QED BY <1>0, <1>5, <2>7, EndpointType, IdleThread DEF NoThread, NoRates, ThreadType
  <2>. HIDE DEF served
  <2>9. WaitsRight(served, second) /\ Owns(served) = {} BY <1>3, <2>8, OwnsByShape DEF WaitsRight
  <2>10. AnswersRight(served)
    <3>1. served.taken - served.of <= Behindhand(c) BY <2>2, <2>4, <2>8
    <3>2. served.taken \in Nat /\ served.of \in Nat /\ served.of \in Seconds BY <1>5, <2>7, <2>8, AgentTimes
    <3>3. CacheTtl[c] \in Nat /\ Behindhand(c) \in Nat BY <1>4, AgentTimes
    <3>4. c = CacheOf[served.endpoint] BY <2>8
    <3>. HIDE DEF c
    <3>5. served.taken - served.of <= CacheTtl[c] + Behindhand(c) BY <3>1, <3>2, <3>3
    <3>. QED BY <3>2, <3>4, <3>5 DEF AnswersRight
  <2>. QED BY <1>1, <1>2, <2>5, <2>6, <2>8, <2>9, <2>10, LockingKeeps
<1>8. CASE thread[r].endpoint = "docker" /\ \E at, later \in 0 .. second :
              thread[r].locks = <<<<"containers", later>>, <<"docker", at>>>>
  <2>1. PICK at \in 0 .. second, later \in 0 .. second : thread[r].locks = <<<<"containers", later>>, <<"docker", at>>>>
    BY <1>8
  <2>2. lock[1] = "containers" /\ lock[2] = later /\ rest = <<<<"docker", at>>>> BY <2>1
  <2>3. val = second BY <1>5, <2>2
  <2>4. later - val <= Behindhand("containers") BY <1>2, <2>3 DEF Behindhand
  <2>5. cached' \in [Caches -> [val : Seconds \cup {NotYet}, stamp : Seconds]] /\ CachesInv'
    BY <1>6, <2>2, <2>4, CacheNames
  <2>6. rest # <<>>
    <3>. HIDE DEF rest
    <3>1. Len(rest) = 1 BY <2>2
    <3>. QED BY <3>1
  <2>7. rest \in Seq(Caches \X Seconds)
    <3>1. at \in Seconds BY <1>2, NodeAgentAssumption DEF Seconds
    <3>2. "docker" \in Caches BY <1>4, <1>8, CacheNames
    <3>. HIDE DEF rest
    <3>. QED BY <2>2, <3>1, <3>2
  <2>8. /\ goes \in ThreadType /\ goes.at = "computes" /\ goes.list = second /\ goes.locks = rest
        /\ goes.endpoint = "docker" /\ goes.ts = thread[r].ts /\ goes.counter = thread[r].counter /\ goes.rates = thread[r].rates
    <3>. HIDE DEF rest, val
    <3>. QED BY <1>1, <1>2, <1>8, <2>3, <2>7 DEF ThreadType
  <2>9. Turns(r, goes) BY <1>1, <2>6
  <2>. HIDE DEF goes
  <2>10. goes.locks = <<<<CacheOf[goes.endpoint], at>>>> BY <2>2, <2>8, CacheNames
  <2>11. at - goes.list <= CacheTtl["containers"] BY <1>2, <2>8, AgentTimes, CacheNames
  <2>12. WaitsRight(goes, second) /\ AnswersRight(goes) BY <2>8, <2>10, <2>11, CacheNames DEF WaitsRight, AnswersRight
  <2>13. Owns(goes) = {"docker"} /\ Owns(thread[r]) = {"containers", "docker"}
    BY <2>1, <2>2, <2>8, OwnsByShape
  <2>14. \A q \in Threads : q # r => Owns(goes) \cap Owns(thread[q]) = {} BY <1>0, <2>13, OwnedSeparately
  <2>. QED BY <1>1, <1>2, <2>5, <2>8, <2>9, <2>12, <2>14, LockingKeeps
<1>. QED BY <1>3, <1>7, <1>8

LEMMA AgentStep == AgentInv /\ [AgentNext]_agentVars => AgentInv'
<1>. SUFFICES ASSUME AgentInv, [AgentNext]_agentVars PROVE AgentInv' OBVIOUS
<1>1. CASE UNCHANGED agentVars
  <2>1. UNCHANGED <<asked, second, baseline, cached, thread, raises, beside>> BY <1>1 DEF agentVars
  <2>2. AgentFields' /\ CachesInv' BY <2>1 DEF AgentInv, AgentFields, CachesInv
  <2>3. ThreadsInv' BY <2>1 DEF AgentInv, ThreadsInv, WaitsRight, AnswersRight
  <2>4. OwnersInv'
    <3>1. \A q, p \in Threads : q # p => Owns(thread'[q]) \cap Owns(thread'[p]) = {} BY <2>1 DEF AgentInv, OwnersInv
    <3>. QED BY <3>1 DEF OwnersInv, Owns
  <2>5. SamplesInv' BY <2>1 DEF AgentInv, SamplesInv, Sampling
  <2>. QED BY <2>2, <2>3, <2>4, <2>5 DEF AgentInv
<1>2. CASE AgentNext
  BY <1>2, SecondKeeps, RestartsKeep, AskKeeps, CountersKeep, SwapKeeps, GetKeeps, ComputeKeeps, AnswerKeeps
  DEF AgentNext
<1>. QED BY <1>1, <1>2

LEMMA LocksByShape ==
  ASSUME AgentInv
  PROVE  LocksInOrder
<1>. SUFFICES ASSUME NEW r \in Threads, NEW q \in Threads,
                     NEW i \in DOMAIN thread[r].locks, NEW j \in DOMAIN thread[q].locks
              PROVE  /\ thread[r].locks[i][1] = thread[q].locks[j][1] => r = q
                     /\ r # q /\ thread[r].at = "asks" /\ thread[q].at = "asks" =>
                          ~(thread[r].asks = thread[q].locks[j][1] /\ thread[q].asks = thread[r].locks[i][1])
  BY DEF LocksInOrder, ThreadAt
<1>1. thread[r].locks[i][1] \in Owns(thread[r]) /\ thread[q].locks[j][1] \in Owns(thread[q]) BY DEF Owns
<1>2. thread[r].locks[i][1] = thread[q].locks[j][1] => r = q BY <1>1 DEF AgentInv, OwnersInv
<1>3. ASSUME NEW p \in Threads, thread[p].at = "asks", NEW k \in DOMAIN thread[p].locks PROVE thread[p].locks[k][1] = "docker"
  <2>1. thread[p].locks = <<>> \/ \E at \in 0 .. second : thread[p].locks = <<<<"docker", at>>>>
    BY <1>3 DEF AgentInv, ThreadsInv, WaitsRight
  <2>. QED BY <1>3, <2>1
<1>. QED BY <1>2, <1>3

LEMMA TellsByInv == AgentInv => AgentTellsTrue
<1>. SUFFICES ASSUME AgentInv PROVE AgentTellsTrue OBVIOUS
<1>1. RatesAreOfTime BY DEF AgentInv, SamplesInv, RatesAreOfTime
<1>2. CachedInTime
  <2>. SUFFICES ASSUME NEW r \in Threads, thread[r].at = "answered"
                PROVE  thread[r].taken - thread[r].of <= CacheTtl[CacheOf[thread[r].endpoint]]
                         + (IF CacheOf[thread[r].endpoint] = "docker" THEN CacheTtl["containers"] ELSE 0)
    BY DEF CachedInTime, ThreadAt
  <2>. QED BY DEF AgentInv, ThreadsInv, AnswersRight, Behindhand
<1>. QED BY <1>1, <1>2, LocksByShape DEF AgentTellsTrue

\* However requests interleave, wait for each other's caches and raise, and the agent restarts:
\* rates are of time that passed, no answer is older than its caches allow, and the locks of
\* the caches neither overlap nor close a circle (StatsSampler.snapshot, TimedCache.get).
THEOREM AgentTellsTrueHolds == AgentSpec => []AgentTellsTrue
<1>1. AgentSpec => []AgentInv BY AgentInitial, AgentStep, PTL DEF AgentSpec
<1>. QED BY <1>1, TellsByInv, PTL

\* The agent's threads stay in their types, and what is computed is computed under a lock.
THEOREM AgentTypesHold == AgentSpec => []AgentTypes
<1>1. AgentSpec => []AgentInv BY AgentInitial, AgentStep, PTL DEF AgentSpec
<1>2. AgentInv => AgentTypes
  <2>. SUFFICES ASSUME AgentInv, NEW r \in Threads, thread[r].at = "computes" PROVE thread[r].locks # <<>>
    BY DEF AgentTypes, AgentInv, ThreadAt
  <2>. QED BY DEF AgentInv, ThreadsInv, WaitsRight
<1>. QED BY <1>1, <1>2, PTL
-----------------------------------------------------------------------------
(* Retention. *)

\* Numbers are given out once, and what is written is known by its number.
NumbersInv ==
  /\ clock \in Nat /\ given \in Nat /\ pruned \in Int
  /\ writing \in [Writers -> [at : {"idle", "insert"}, n : Nat, now : Nat]]
  /\ written \subseteq [n : 1 .. given, at : Nat] /\ IsFiniteSet(written)
  /\ \A s, t \in written : s.n = t.n => s = t
  /\ \A w \in Writers : writing[w].at = "insert" => writing[w].n \in 1 .. given /\ \A s \in written : s.n # writing[w].n
  /\ \A w, q \in Writers : writing[w].at = "insert" /\ writing[q].at = "insert" /\ writing[w].n = writing[q].n => w = q

\* The time of a row is the begin of a bucket its samples are of.
OfBucket(r, s) ==
  CASE r.resolution = "raw" -> r.at = s.at
    [] r.resolution = "hour" -> r.at <= s.at /\ s.at < r.at + Hour /\ r.at % Hour = 0
    [] OTHER -> r.at <= s.at /\ s.at < r.at + Day

\* Each sample is in one row, of its own time, until it is about to expire.
MetricsInv ==
  /\ pruning \in [at : {"idle", "hours", "days", "expire"}, now : Nat, kept : {{}}, cut : {0}] /\ pruning.now <= clock
  /\ rows \subseteq [at : Nat, resolution : {"raw", "hour", "day"}, of : SUBSET written]
  /\ \A r, q \in rows : r.of \cap q.of # {} => r = q
  /\ \A r \in rows : \A s \in r.of : OfBucket(r, s)
  /\ \A s \in written : clock - s.at <= MetricsTtl - Day => \E r \in rows : s \in r.of

\* Enough newer snapshots are written for this one to be deleted.
Outnumbered(s) == Cardinality({t \in written : t.n > s.n}) >= Keep

\* Between the choice and the delete, what is not chosen may go.
SnapshotsInv ==
  /\ pruning \in [at : {"idle", "keep", "delete"}, now : Nat, kept : SUBSET Nat, cut : {0}]
  /\ rows \subseteq written
  /\ \A s \in written \ rows : s \in crowded \/ Outnumbered(s)
  /\ pruning.at = "delete" => \A s \in rows : s.n \in pruning.kept \/ s \in crowded \/ Outnumbered(s)

KeepInv ==
  /\ table \in {"metrics", "snapshots"} => NumbersInv
  /\ table = "metrics" => MetricsInv
  /\ table = "snapshots" => SnapshotsInv

LEMMA TruncIsBegin ==
  ASSUME NEW t \in Nat, NEW bucket \in Nat \ {0}
  PROVE  Trunc(t, bucket) \in Nat /\ Trunc(t, bucket) <= t /\ t < Trunc(t, bucket) + bucket /\ Trunc(t, bucket) % bucket = 0
<1>1. t % bucket \in 0 .. bucket - 1 /\ t = bucket * (t \div bucket) + (t % bucket) OBVIOUS
<1>2. t \div bucket \in Nat /\ t % bucket <= t BY <1>1
<1>3. Trunc(t, bucket) = bucket * (t \div bucket) BY <1>1 DEF Trunc
<1>4. (bucket * (t \div bucket)) % bucket = 0 BY <1>2
<1>. QED BY <1>1, <1>2, <1>3, <1>4 DEF Trunc

LEMMA HourInDay ==
  ASSUME NEW h \in Nat, h % Hour = 0
  PROVE  Trunc(h, Day) \in Nat /\ Trunc(h, Day) <= h /\ h + Hour <= Trunc(h, Day) + Day
<1>0. Hour \in Nat \ {0} /\ Day \in Nat \ {0} /\ Day % Hour = 0 BY RetentionAssumption
<1>. DEFINE a == h \div Hour
            b == Day \div Hour
            c == h \div Day
<1>1. h = Hour * a /\ a \in Nat BY <1>0
<1>2. Day = Hour * b /\ b \in Nat BY <1>0
<1>3. h = Day * c + (h % Day) /\ c \in Nat /\ h % Day \in 0 .. Day - 1 BY <1>0
<1>. HIDE DEF a, b, c
<1>4. h % Day = Hour * (a - b * c) /\ a - b * c \in Int
  <2>1. Day * c = Hour * (b * c) BY <1>0, <1>2, <1>3
  <2>2. Hour * a - Hour * (b * c) = Hour * (a - b * c) BY <1>0, <1>1, <1>2, <1>3
  <2>. QED BY <1>0, <1>1, <1>2, <1>3, <2>1, <2>2
<1>5. a - b * c <= b - 1
  <2>. DEFINE k == a - b * c
  <2>1. k \in Int /\ Hour * k < Hour * b BY <1>2, <1>3, <1>4
  <2>. HIDE DEF k
  <2>2. \A i, j, m \in Int : m > 0 /\ m * i < m * j => i < j OBVIOUS
  <2>3. k < b BY <1>0, <1>2, <2>1, <2>2
  <2>4. k <= b - 1 BY <1>2, <2>1, <2>3
  <2>. QED BY <2>4 DEF k
<1>6. h % Day <= Day - Hour
  <2>. DEFINE k == a - b * c
  <2>1. k \in Int /\ h % Day = Hour * k /\ k <= b - 1 BY <1>4, <1>5
  <2>. HIDE DEF k
  <2>2. \A i, j, m \in Int : m > 0 /\ i <= j => m * i <= m * j OBVIOUS
  <2>3. Hour * k <= Hour * (b - 1) BY <1>0, <1>2, <2>1, <2>2
  <2>4. Hour * (b - 1) = Hour * b - Hour BY <1>0, <1>2
  <2>. QED BY <1>0, <1>2, <2>1, <2>3, <2>4
<1>. QED BY <1>0, <1>3, <1>6, TruncIsBegin DEF Trunc

\* The average of a bucket, and the row a row's samples are in after a collapse.
AverageAt(old, to, bucket, b) ==
  [at |-> b, resolution |-> to, of |-> UNION {r.of : r \in {q \in old : Trunc(q.at, bucket) = b}}]
RolledInto(old, to, bucket, r) == IF r \in old THEN AverageAt(old, to, bucket, Trunc(r.at, bucket)) ELSE r

\* What is collapsed: no sample is lost, and none is in two rows.
LEMMA CollapseRolls ==
  ASSUME NEW origin, NEW to, NEW bucket, NEW cutoff, NEW old, old = Aged(origin, cutoff),
         NEW next, next = CollapseTier(origin, to, bucket, cutoff)
  PROVE  /\ \A x \in next : x \in rows \ old \/ \E r \in old : x = AverageAt(old, to, bucket, Trunc(r.at, bucket))
         /\ \A x \in next : \A s \in x.of : \E r \in rows : s \in r.of /\ x = RolledInto(old, to, bucket, r)
         /\ \A r \in rows : RolledInto(old, to, bucket, r) \in next /\ r.of \subseteq RolledInto(old, to, bucket, r).of
<1>1. next = (rows \ old) \cup {AverageAt(old, to, bucket, b) : b \in {Trunc(r.at, bucket) : r \in old}}
  BY DEF CollapseTier, Averages, AverageAt
<1>2. old \subseteq rows BY DEF Aged
<1>3. \A b, s : s \in AverageAt(old, to, bucket, b).of <=> \E r \in old : Trunc(r.at, bucket) = b /\ s \in r.of
  BY DEF AverageAt
<1>. HIDE DEF AverageAt
<1>4. ASSUME NEW x \in next PROVE x \in rows \ old \/ \E r \in old : x = AverageAt(old, to, bucket, Trunc(r.at, bucket))
  BY <1>1
<1>5. ASSUME NEW x \in next, NEW s \in x.of PROVE \E r \in rows : s \in r.of /\ x = RolledInto(old, to, bucket, r)
  <2>1. CASE x \in rows \ old BY <1>5, <2>1 DEF RolledInto
  <2>2. CASE \E r \in old : x = AverageAt(old, to, bucket, Trunc(r.at, bucket))
    <3>1. PICK r \in old : x = AverageAt(old, to, bucket, Trunc(r.at, bucket)) BY <2>2
    <3>2. PICK q \in old : Trunc(q.at, bucket) = Trunc(r.at, bucket) /\ s \in q.of BY <1>3, <1>5, <3>1
    <3>. QED BY <1>2, <3>1, <3>2 DEF RolledInto
  <2>. QED BY <1>4, <2>1, <2>2
<1>6. ASSUME NEW r \in rows
      PROVE  RolledInto(old, to, bucket, r) \in next /\ r.of \subseteq RolledInto(old, to, bucket, r).of
  BY <1>1, <1>3 DEF RolledInto
<1>. QED BY <1>4, <1>5, <1>6

LEMMA KeepInitial == RetentionInit => KeepInv
<1>. SUFFICES ASSUME RetentionInit PROVE KeepInv OBVIOUS
<1>1. NumbersInv
  <2>1. pruned \in Int BY RetentionAssumption DEF RetentionInit
  <2>2. writing \in [Writers -> [at : {"idle", "insert"}, n : Nat, now : Nat]] BY DEF RetentionInit, NotWriting
  <2>3. \A w \in Writers : writing[w].at # "insert" BY DEF RetentionInit, NotWriting
  <2>. QED BY <2>1, <2>2, <2>3, FS_EmptySet DEF RetentionInit, NumbersInv
<1>2. MetricsInv BY DEF RetentionInit, MetricsInv, Resting
<1>3. SnapshotsInv BY DEF RetentionInit, SnapshotsInv, Resting
<1>. QED BY <1>1, <1>2, <1>3 DEF KeepInv

\* What a worker gives up, or takes up with a new number, leaves the numbers in order.
LEMMA WritingKeeps ==
  ASSUME NumbersInv, NEW w \in Writers, NEW step \in [at : {"idle", "insert"}, n : Nat, now : Nat], Writes(w, step),
         given' \in Nat, given <= given', step.at = "insert" => step.n \in given + 1 .. given',
         pruned' \in Int, UNCHANGED <<clock, written>>
  PROVE  NumbersInv'
<1>1. /\ clock \in Nat /\ given \in Nat /\ IsFiniteSet(written) /\ \A s, t \in written : s.n = t.n => s = t
      /\ writing \in [Writers -> [at : {"idle", "insert"}, n : Nat, now : Nat]]
      /\ written \subseteq [n : 1 .. given, at : Nat]
  BY DEF NumbersInv
<1>2. writing' = [writing EXCEPT ![w] = step] BY DEF Writes
<1>3. \A q \in Writers : writing'[q] = IF q = w THEN step ELSE writing[q] BY <1>1, <1>2
<1>4. 1 .. given \subseteq 1 .. given' BY <1>1
<1>5. \A s \in written : s.n \in 1 .. given BY <1>1
<1>6. written' \subseteq [n : 1 .. given', at : Nat] BY <1>1, <1>4
<1>7. \A s \in written : s.n # step.n \/ step.at # "insert" BY <1>1, <1>5
<1>8. \A q \in Writers : writing'[q].at = "insert" => writing'[q].n \in 1 .. given' /\ \A s \in written' : s.n # writing'[q].n
  BY <1>1, <1>3, <1>4, <1>7 DEF NumbersInv
<1>9. \A q \in Writers : q # w /\ writing[q].at = "insert" /\ step.at = "insert" => writing[q].n # step.n
  BY <1>1 DEF NumbersInv
<1>10. \A p, q \in Writers : writing'[p].at = "insert" /\ writing'[q].at = "insert" /\ writing'[p].n = writing'[q].n => p = q
  BY <1>3, <1>9 DEF NumbersInv
<1>. QED BY <1>1, <1>2, <1>6, <1>8, <1>10 DEF NumbersInv

\* What is inserted has a number of its own.
LEMMA InsertNumbers ==
  ASSUME NumbersInv, NEW w \in Writers, writing[w].at = "insert", Writes(w, NotWriting),
         NEW sample, sample = [n |-> writing[w].n, at |-> writing[w].now], written' = written \cup {sample},
         UNCHANGED <<clock, given, pruned>>
  PROVE  NumbersInv' /\ sample \notin written /\ sample \in [n : 1 .. given, at : Nat] /\ \A s \in written : s.n # sample.n
<1>1. /\ clock \in Nat /\ given \in Nat /\ IsFiniteSet(written) /\ \A s, t \in written : s.n = t.n => s = t
      /\ writing \in [Writers -> [at : {"idle", "insert"}, n : Nat, now : Nat]]
      /\ written \subseteq [n : 1 .. given, at : Nat]
      /\ writing[w].n \in 1 .. given /\ \A s \in written : s.n # writing[w].n
  BY DEF NumbersInv
<1>2. writing' = [writing EXCEPT ![w] = NotWriting] /\ NotWriting \in [at : {"idle", "insert"}, n : Nat, now : Nat]
      /\ NotWriting.at = "idle"
  BY DEF Writes, NotWriting
<1>3. \A q \in Writers : writing'[q] = IF q = w THEN NotWriting ELSE writing[q] BY <1>1, <1>2
<1>4. writing[w].now \in Nat BY <1>1
<1>5. sample.n = writing[w].n /\ sample \in [n : 1 .. given, at : Nat] BY <1>1, <1>4
<1>6. sample \notin written /\ \A s \in written : s.n # sample.n BY <1>1, <1>5
<1>7. IsFiniteSet(written') BY <1>1, FS_AddElement
<1>8. \A q \in Writers : writing'[q].at = "insert" => q # w /\ writing'[q] = writing[q] BY <1>2, <1>3
<1>9. \A q \in Writers : writing'[q].at = "insert" => writing'[q].n \in 1 .. given /\ \A s \in written' : s.n # writing'[q].n
  BY <1>5, <1>8 DEF NumbersInv
<1>10. \A p, q \in Writers : writing'[p].at = "insert" /\ writing'[q].at = "insert" /\ writing'[p].n = writing'[q].n => p = q
  BY <1>8 DEF NumbersInv
<1>11. \A s, t \in written' : s.n = t.n => s = t BY <1>1, <1>6
<1>12. writing' \in [Writers -> [at : {"idle", "insert"}, n : Nat, now : Nat]] BY <1>1, <1>2
<1>13. written' \subseteq [n : 1 .. given', at : Nat] BY <1>1, <1>5
<1>. QED BY <1>1, <1>5, <1>6, <1>7, <1>9, <1>10, <1>11, <1>12, <1>13 DEF NumbersInv

\* Statements of retention change no numbers.
LEMMA NumbersStay ==
  ASSUME NumbersInv, UNCHANGED <<writing, given, written>>, clock' \in Nat, pruned' \in Int
  PROVE  NumbersInv'
BY DEF NumbersInv

-----------------------------------------------------------------------------
(* Metrics. *)

LEMMA MetricsInsert ==
  ASSUME MetricsInv, NumbersInv, NEW sample \in [n : Nat, at : Nat], sample \notin written, written' = written \cup {sample},
         rows' = rows \cup {[at |-> sample.at, resolution |-> "raw", of |-> {sample}]}, UNCHANGED <<clock, pruning>>
  PROVE  MetricsInv'
<1>. DEFINE added == [at |-> sample.at, resolution |-> "raw", of |-> {sample}]
<1>1. added.of = {sample} /\ added.resolution = "raw" /\ added.at = sample.at /\ sample.at \in Nat
      /\ added \in [at : Nat, resolution : {"raw", "hour", "day"}, of : SUBSET written']
  OBVIOUS
<1>2. rows' = rows \cup {added} OBVIOUS
<1>. HIDE DEF added
<1>3. \A r \in rows : r.of \subseteq written BY DEF MetricsInv
<1>4. rows' \subseteq [at : Nat, resolution : {"raw", "hour", "day"}, of : SUBSET written']
  <2>1. \A r \in rows : r \in [at : Nat, resolution : {"raw", "hour", "day"}, of : SUBSET written] BY DEF MetricsInv
  <2>2. \A r \in rows : r \in [at : Nat, resolution : {"raw", "hour", "day"}, of : SUBSET written'] BY <2>1
  <2>. QED BY <1>1, <1>2, <2>2
<1>5. \A r, q \in rows' : r.of \cap q.of # {} => r = q
  <2>1. \A r \in rows : r.of \cap added.of = {} BY <1>1, <1>3
  <2>. QED BY <1>2, <2>1 DEF MetricsInv
<1>6. \A r \in rows' : \A s \in r.of : OfBucket(r, s)
  <2>1. OfBucket(added, sample) BY <1>1 DEF OfBucket
  <2>. QED BY <1>1, <1>2, <2>1 DEF MetricsInv
<1>7. \A s \in written' : clock' - s.at <= MetricsTtl - Day => \E r \in rows' : s \in r.of
  <2>1. \E r \in rows' : sample \in r.of BY <1>1, <1>2
  <2>2. \A s \in written : clock - s.at <= MetricsTtl - Day => \E r \in rows' : s \in r.of BY <1>2 DEF MetricsInv
  <2>. QED BY <2>1, <2>2
<1>8. pruning' \in [at : {"idle", "hours", "days", "expire"}, now : Nat, kept : {{}}, cut : {0}] /\ pruning'.now <= clock'
  BY DEF MetricsInv
<1>. QED BY <1>4, <1>5, <1>6, <1>7, <1>8 DEF MetricsInv, OfBucket

\* A collapse of rows into longer buckets that are theirs.
LEMMA MetricsCollapse ==
  ASSUME MetricsInv, NEW origin, NEW to \in {"hour", "day"}, NEW bucket \in Nat \ {0}, NEW cutoff,
         rows' = CollapseTier(origin, to, bucket, cutoff), UNCHANGED <<clock, written>>,
         \A r \in rows : \A s \in r.of : r.resolution = origin =>
           \A x : x.resolution = to /\ x.at = Trunc(r.at, bucket) => OfBucket(x, s),
         pruning' \in [at : {"idle", "hours", "days", "expire"}, now : Nat, kept : {{}}, cut : {0}], pruning'.now <= clock'
  PROVE  MetricsInv'
<1>. DEFINE old == Aged(origin, cutoff)
            Into(r) == RolledInto(old, to, bucket, r)
<1>1. /\ \A x \in rows' : x \in rows \ old \/ \E r \in old : x = AverageAt(old, to, bucket, Trunc(r.at, bucket))
      /\ \A x \in rows' : \A s \in x.of : \E r \in rows : s \in r.of /\ x = Into(r)
      /\ \A r \in rows : Into(r) \in rows' /\ r.of \subseteq Into(r).of
  <2>1. old = Aged(origin, cutoff) OBVIOUS
  <2>. HIDE DEF old
  <2>. QED BY <2>1, CollapseRolls
<1>2. old \subseteq rows /\ \A r \in old : r.resolution = origin BY DEF Aged
<1>. HIDE DEF old
<1>3. \A r \in rows : r.at \in Nat /\ r.of \subseteq written BY DEF MetricsInv
<1>4. \A b : /\ AverageAt(old, to, bucket, b).at = b /\ AverageAt(old, to, bucket, b).resolution = to
             /\ AverageAt(old, to, bucket, b).of \subseteq written
             /\ b \in Nat => AverageAt(old, to, bucket, b) \in [at : Nat, resolution : {"raw", "hour", "day"}, of : SUBSET written]
  BY <1>2, <1>3 DEF AverageAt
<1>5. rows' \subseteq [at : Nat, resolution : {"raw", "hour", "day"}, of : SUBSET written']
  <2>1. ASSUME NEW x \in rows' PROVE x \in [at : Nat, resolution : {"raw", "hour", "day"}, of : SUBSET written]
    <3>1. CASE x \in rows \ old BY <3>1 DEF MetricsInv
    <3>2. CASE \E r \in old : x = AverageAt(old, to, bucket, Trunc(r.at, bucket))
      <4>1. PICK r \in old : x = AverageAt(old, to, bucket, Trunc(r.at, bucket)) BY <3>2
      <4>2. Trunc(r.at, bucket) \in Nat BY <1>2, <1>3, TruncIsBegin
      <4>. QED BY <1>4, <4>1, <4>2
    <3>. QED BY <1>1, <3>1, <3>2
  <2>. QED BY <2>1
<1>6. ASSUME NEW x \in rows', NEW y \in rows', x.of \cap y.of # {} PROVE x = y
  <2>1. PICK s : s \in x.of /\ s \in y.of BY <1>6
  <2>2. PICK r \in rows : s \in r.of /\ x = Into(r) BY <1>1, <2>1
  <2>3. PICK q \in rows : s \in q.of /\ y = Into(q) BY <1>1, <2>1
  <2>4. r = q BY <2>2, <2>3 DEF MetricsInv
  <2>. QED BY <2>2, <2>3, <2>4
<1>7. ASSUME NEW x \in rows', NEW s \in x.of PROVE OfBucket(x, s)
  <2>1. PICK r \in rows : s \in r.of /\ x = Into(r) BY <1>1
  <2>2. CASE r \in old BY <1>2, <1>4, <2>1, <2>2 DEF RolledInto
  <2>3. CASE r \notin old BY <2>1, <2>3 DEF RolledInto, MetricsInv
  <2>. QED BY <2>2, <2>3
<1>8. ASSUME NEW s \in written, clock - s.at <= MetricsTtl - Day PROVE \E x \in rows' : s \in x.of
  <2>1. PICK r \in rows : s \in r.of BY <1>8 DEF MetricsInv
  <2>. QED BY <1>1, <2>1
<1>. QED BY <1>5, <1>6, <1>7, <1>8 DEF MetricsInv, OfBucket

LEMMA HoursKeep == ASSUME MetricsInv, NumbersInv, RawToHours PROVE MetricsInv'
<1>1. /\ rows' = CollapseTier("raw", "hour", Hour, pruning.now - RawToHour) /\ UNCHANGED <<clock, written>>
      /\ pruning' = [pruning EXCEPT !.at = "days"]
  BY DEF RawToHours, Prunes, retentionHistory
<1>2. Hour \in Nat \ {0} BY RetentionAssumption
<1>3. ASSUME NEW r \in rows, NEW s \in r.of, r.resolution = "raw", NEW x, x.resolution = "hour", x.at = Trunc(r.at, Hour)
      PROVE  OfBucket(x, s)
  <2>1. r.at = s.at /\ r.at \in Nat BY <1>3 DEF MetricsInv, OfBucket
  <2>. QED BY <1>2, <1>3, <2>1, TruncIsBegin DEF OfBucket
<1>4. pruning' \in [at : {"idle", "hours", "days", "expire"}, now : Nat, kept : {{}}, cut : {0}] /\ pruning'.now <= clock'
  BY <1>1 DEF MetricsInv
<1>. QED BY <1>1, <1>2, <1>3, <1>4, MetricsCollapse

LEMMA DaysKeep == ASSUME MetricsInv, NumbersInv, HoursToDays PROVE MetricsInv'
<1>1. /\ rows' = CollapseTier("hour", "day", Day, pruning.now - HourToDay) /\ UNCHANGED <<clock, written>>
      /\ pruning' = [pruning EXCEPT !.at = "expire"]
  BY DEF HoursToDays, Prunes, retentionHistory
<1>2. Day \in Nat \ {0} /\ Hour \in Nat \ {0} BY RetentionAssumption
<1>3. ASSUME NEW r \in rows, NEW s \in r.of, r.resolution = "hour", NEW x, x.resolution = "day", x.at = Trunc(r.at, Day)
      PROVE  OfBucket(x, s)
  <2>1. r.at <= s.at /\ s.at < r.at + Hour /\ r.at % Hour = 0 /\ r.at \in Nat BY <1>3 DEF MetricsInv, OfBucket
  <2>2. s.at \in Nat BY DEF MetricsInv, NumbersInv
  <2>3. Trunc(r.at, Day) \in Nat /\ Trunc(r.at, Day) <= r.at /\ r.at + Hour <= Trunc(r.at, Day) + Day BY <2>1, HourInDay
  <2>4. x.at <= s.at /\ s.at < x.at + Day BY <1>2, <1>3, <2>1, <2>2, <2>3
  <2>. QED BY <1>3, <2>4 DEF OfBucket
<1>4. pruning' \in [at : {"idle", "hours", "days", "expire"}, now : Nat, kept : {{}}, cut : {0}] /\ pruning'.now <= clock'
  BY <1>1 DEF MetricsInv
<1>. QED BY <1>1, <1>2, <1>3, <1>4, MetricsCollapse

LEMMA ExpireKeeps == ASSUME MetricsInv, NumbersInv, table = "metrics", Expire PROVE MetricsInv'
<1>1. /\ rows' = {r \in rows : r.at >= pruning.now - MetricsTtl} /\ UNCHANGED <<clock, written>> /\ pruning' = Resting
  BY DEF Expire, Younger, Prunes, retentionHistory
<1>2. pruning' \in [at : {"idle", "hours", "days", "expire"}, now : Nat, kept : {{}}, cut : {0}] /\ pruning'.now <= clock'
  BY <1>1 DEF Resting, NumbersInv
<1>3. clock \in Nat /\ pruning.now \in Nat /\ pruning.now <= clock /\ MetricsTtl \in Nat
      /\ Day \in Nat \ {0} /\ Hour \in Nat \ {0} /\ Hour <= Day
  <2>1. Day \in Nat \ {0} /\ Hour \in Nat \ {0} /\ Day % Hour = 0 /\ MetricsTtl \in Nat BY RetentionAssumption
  <2>2. Hour <= Day
    <3>1. ASSUME Day < Hour PROVE FALSE
      <4>1. Day % Hour = Day BY <2>1, <3>1
      <4>. QED BY <2>1, <4>1
    <3>. QED BY <2>1, <3>1
  <2>. QED BY <2>1, <2>2 DEF MetricsInv, NumbersInv
\* A row that goes has samples older than the promise.
<1>4. ASSUME NEW s \in written, clock - s.at <= MetricsTtl - Day PROVE \E r \in rows' : s \in r.of
  <2>1. PICK r \in rows : s \in r.of BY <1>4 DEF MetricsInv
  <2>2. r.at \in Nat /\ s.at \in Nat /\ OfBucket(r, s) BY <2>1 DEF MetricsInv, NumbersInv
  <2>3. s.at < r.at + Day BY <1>3, <2>2 DEF OfBucket
  <2>4. r.at >= pruning.now - MetricsTtl BY <1>3, <1>4, <2>2, <2>3
  <2>. QED BY <1>1, <2>1, <2>4
<1>5. rows' \subseteq rows BY <1>1
<1>6. \A r \in rows' : \A s \in r.of : OfBucket(r, s) BY <1>5 DEF MetricsInv
<1>7. \A r, q \in rows' : r.of \cap q.of # {} => r = q BY <1>5 DEF MetricsInv
<1>8. rows' \subseteq [at : Nat, resolution : {"raw", "hour", "day"}, of : SUBSET written'] BY <1>1, <1>5 DEF MetricsInv
<1>. QED BY <1>1, <1>2, <1>4, <1>6, <1>7, <1>8 DEF MetricsInv, OfBucket

LEMMA MetricsStay ==
  ASSUME MetricsInv, UNCHANGED <<rows, written>>, clock' \in Nat, clock \in Nat, clock <= clock', NumbersInv,
         pruning' \in [at : {"idle", "hours", "days", "expire"}, now : Nat, kept : {{}}, cut : {0}], pruning'.now <= clock'
  PROVE  MetricsInv'
<1>1. \A s \in written : clock' - s.at <= MetricsTtl - Day => clock - s.at <= MetricsTtl - Day
  <2>1. MetricsTtl \in Nat /\ Day \in Nat BY RetentionAssumption
  <2>2. \A s \in written : s.at \in Nat BY DEF NumbersInv
  <2>. QED BY <2>1, <2>2
<1>. QED BY <1>1 DEF MetricsInv, OfBucket

LEMMA MetricsNext == ASSUME MetricsInv, NumbersInv, NumbersInv', table = "metrics", RetentionNext PROVE MetricsInv'
<1>0. /\ clock \in Nat /\ clock' \in Nat /\ pruning \in [at : {"idle", "hours", "days", "expire"}, now : Nat, kept : {{}}, cut : {0}]
      /\ pruning.now <= clock /\ pruning.now \in Nat
  BY DEF NumbersInv, MetricsInv
<1>1. CASE ClockTicks
  BY <1>0, <1>1, MetricsStay DEF ClockTicks, retentionHistory
<1>2. ASSUME NEW w \in Writers, PersistBegins(w) \/ NothingToInsert(w) PROVE MetricsInv'
  BY <1>0, <1>2, MetricsStay DEF PersistBegins, NothingToInsert, retentionHistory
<1>3. ASSUME NEW w \in Writers, WriterDies(w) PROVE MetricsInv'
  <2>1. UNCHANGED <<rows, written, clock>> /\ (pruning' = pruning \/ pruning' = Resting)
    BY <1>3 DEF WriterDies, retentionHistory
  <2>. QED BY <1>0, <2>1, MetricsStay DEF Resting
<1>4. ASSUME NEW w \in Writers, InsertRow(w) PROVE MetricsInv'
  <2>. DEFINE sample == [n |-> writing[w].n, at |-> writing[w].now]
  <2>1. /\ rows' = rows \cup {[at |-> sample.at, resolution |-> "raw", of |-> {sample}]} /\ written' = written \cup {sample}
        /\ writing[w].at = "insert" /\ UNCHANGED <<clock, pruning>>
    BY <1>4 DEF InsertRow
  <2>2. sample \in [n : Nat, at : Nat] BY DEF NumbersInv
  <2>3. sample \notin written BY <2>1 DEF NumbersInv
  <2>. HIDE DEF sample
  <2>. QED BY <2>1, <2>2, <2>3, MetricsInsert
<1>5. CASE RetentionBegins
  <2>1. UNCHANGED <<rows, written, clock>> /\ pruning' = [Resting EXCEPT !.at = "hours", !.now = clock]
    BY <1>5 DEF RetentionBegins, FirstStep, retentionHistory
  <2>2. /\ pruning' \in [at : {"idle", "hours", "days", "expire"}, now : Nat, kept : {{}}, cut : {0}]
        /\ pruning'.now = clock
    BY <1>0, <2>1 DEF Resting
  <2>. QED BY <1>0, <2>1, <2>2, MetricsStay
<1>6. CASE Expire BY <1>6, ExpireKeeps
<1>7. CASE RawToHours BY <1>7, HoursKeep
<1>8. CASE HoursToDays BY <1>8, DaysKeep
<1>9. CASE ReadNewest \/ DeleteRest \/ PruneLogsByAge \/ CountLogs \/ FindCutoff \/ PruneLogsBySize \/ LogPruningFails
  BY <1>0, <1>9 DEF ReadNewest, DeleteRest, PruneLogsByAge, CountLogs, FindCutoff, PruneLogsBySize, LogPruningFails
<1>. QED BY <1>1, <1>2, <1>3, <1>4, <1>5, <1>6, <1>7, <1>8, <1>9 DEF RetentionNext

LEMMA CountedOnce == ASSUME MetricsInv PROVE SampleCountedOnce
<1>. SUFFICES ASSUME NEW s \in written
              PROVE  LET holding == Cardinality({r \in rows : s \in r.of})
                     IN  holding <= 1 /\ (clock - s.at <= MetricsTtl - Day => holding = 1)
  BY DEF SampleCountedOnce
<1>. DEFINE holders == {r \in rows : s \in r.of}
<1>1. CASE holders = {}
  <2>1. ~(clock - s.at <= MetricsTtl - Day) BY <1>1 DEF MetricsInv
  <2>. QED BY <1>1, <2>1, FS_EmptySet
<1>2. CASE holders # {}
  <2>1. PICK r : r \in holders BY <1>2
  <2>2. holders = {r} BY <2>1 DEF MetricsInv
  <2>. QED BY <2>2, FS_Singleton
<1>. QED BY <1>1, <1>2

-----------------------------------------------------------------------------
(* Snapshots. *)

LEMMA NewerNumbers ==
  ASSUME NEW U, IsFiniteSet(U), NEW V, V = {t.n : t \in U}
  PROVE  IsFiniteSet(V) /\ Cardinality(V) <= Cardinality(U)
<1>. DEFINE f == [t \in U |-> t.n]
<1>1. f \in Surjection(U, V) BY DEF Surjection
<1>. HIDE DEF f
<1>. QED BY <1>1, FS_Surjection

\* What is written later never makes room for one that has enough newer ones.
LEMMA StillOutnumbered ==
  ASSUME IsFiniteSet(written'), written \subseteq written', NEW s, Outnumbered(s)
  PROVE  Cardinality({t \in written' : t.n > s.n}) >= Keep
<1>. DEFINE few == {t \in written : t.n > s.n}
            many == {t \in written' : t.n > s.n}
<1>1. few \subseteq many OBVIOUS
<1>2. IsFiniteSet(many) BY FS_Subset
<1>3. IsFiniteSet(few) BY <1>1, <1>2, FS_Subset
<1>4. Cardinality(few) <= Cardinality(many) BY <1>1, <1>2, FS_Subset
<1>5. Cardinality(few) >= Keep BY DEF Outnumbered
<1>. HIDE DEF few, many
<1>6. Cardinality(few) \in Nat /\ Cardinality(many) \in Nat /\ Keep \in Nat BY <1>2, <1>3, FS_CardinalityType, RetentionAssumption
<1>7. Cardinality(many) >= Keep BY <1>4, <1>5, <1>6
<1>. QED BY <1>7 DEF many

\* The newest are chosen: any other row has enough newer ones.
LEMMA NotChosen ==
  ASSUME SnapshotsInv, NumbersInv, NEW s \in rows, s.n \notin NewestOf(Keep, Ids)
  PROVE  Outnumbered(s)
<1>. DEFINE newer == {t \in rows : t.n > s.n}
            numbers == {j \in Ids : j > s.n}
            all == {t \in written : t.n > s.n}
<1>1. newer \subseteq all /\ all \subseteq written /\ IsFiniteSet(written) BY DEF SnapshotsInv, NumbersInv
<1>2. IsFiniteSet(all) /\ IsFiniteSet(newer) /\ Cardinality(newer) <= Cardinality(all) BY <1>1, FS_Subset
<1>3. numbers = {t.n : t \in newer} BY DEF Ids
<1>4. IsFiniteSet(numbers) /\ Cardinality(numbers) <= Cardinality(newer) BY <1>2, <1>3, NewerNumbers
<1>5. ~(Cardinality(numbers) < Keep) BY DEF NewestOf, Ids
<1>. HIDE DEF newer, numbers, all
<1>6. Cardinality(newer) \in Nat /\ Cardinality(numbers) \in Nat /\ Cardinality(all) \in Nat /\ Keep \in Nat
  BY <1>2, <1>4, FS_CardinalityType, RetentionAssumption
<1>7. Cardinality(all) >= Keep BY <1>2, <1>4, <1>5, <1>6
<1>. QED BY <1>7 DEF all, Outnumbered

LEMMA SnapshotsStay ==
  ASSUME SnapshotsInv, UNCHANGED <<rows, written, crowded>>,
         pruning' \in [at : {"idle", "keep", "delete"}, now : Nat, kept : SUBSET Nat, cut : {0}],
         pruning' = pruning \/ pruning'.at # "delete"
  PROVE  SnapshotsInv'
BY DEF SnapshotsInv, Outnumbered

LEMMA SnapshotsInsert ==
  ASSUME SnapshotsInv, NumbersInv', NEW sample, written' = written \cup {sample}, rows' = rows \cup {sample},
         crowded' = IF pruning.at = "delete" THEN crowded \cup {sample} ELSE crowded, pruning' = pruning
  PROVE  SnapshotsInv'
<1>1. \A s : Outnumbered(s) => Outnumbered(s)'
  <2>1. IsFiniteSet(written') BY DEF NumbersInv
  <2>2. \A s : Outnumbered(s) => Cardinality({t \in written' : t.n > s.n}) >= Keep BY <2>1, StillOutnumbered
  <2>. QED BY <2>2 DEF Outnumbered
<1>2. \A s \in written' \ rows' : s \in crowded' \/ Outnumbered(s)' BY <1>1 DEF SnapshotsInv
<1>3. pruning.at = "delete" => \A s \in rows' : s.n \in pruning.kept \/ s \in crowded' \/ Outnumbered(s)'
  BY <1>1 DEF SnapshotsInv
<1>. QED BY <1>2, <1>3 DEF SnapshotsInv

LEMMA ReadNewestKeeps == ASSUME SnapshotsInv, NumbersInv, ReadNewest PROVE SnapshotsInv'
<1>1. /\ UNCHANGED <<rows, written, crowded>>
      /\ pruning' = Resting \/ pruning' = [pruning EXCEPT !.at = "delete", !.kept = NewestOf(Keep, Ids)]
  BY DEF ReadNewest, retentionHistory
<1>2. CASE pruning' = Resting BY <1>1, <1>2, SnapshotsStay DEF Resting
<1>3. CASE pruning' = [pruning EXCEPT !.at = "delete", !.kept = NewestOf(Keep, Ids)]
  <2>1. NewestOf(Keep, Ids) \subseteq Nat BY DEF NewestOf, Ids, SnapshotsInv, NumbersInv
  <2>2. pruning' \in [at : {"idle", "keep", "delete"}, now : Nat, kept : SUBSET Nat, cut : {0}]
        /\ pruning'.kept = NewestOf(Keep, Ids)
    BY <1>3, <2>1 DEF SnapshotsInv
  <2>3. \A s \in rows : s.n \in NewestOf(Keep, Ids) \/ Outnumbered(s) BY NotChosen
  <2>. QED BY <1>1, <2>2, <2>3 DEF SnapshotsInv, Outnumbered
<1>. QED BY <1>1, <1>2, <1>3

LEMMA DeleteKeeps == ASSUME SnapshotsInv, DeleteRest PROVE SnapshotsInv'
<1>1. /\ pruning.at = "delete" /\ rows' = {r \in rows : r.n \in pruning.kept} /\ UNCHANGED <<written, crowded>>
      /\ pruning' = Resting
  BY DEF DeleteRest, Prunes, retentionHistory
<1>2. \A s \in written \ rows' : s \in crowded \/ Outnumbered(s) BY <1>1 DEF SnapshotsInv
<1>3. rows' \subseteq written BY <1>1 DEF SnapshotsInv
<1>. QED BY <1>1, <1>2, <1>3 DEF SnapshotsInv, Outnumbered, Resting

LEMMA SnapshotsNext == ASSUME SnapshotsInv, NumbersInv, NumbersInv', table = "snapshots", RetentionNext PROVE SnapshotsInv'
<1>0. pruning \in [at : {"idle", "keep", "delete"}, now : Nat, kept : SUBSET Nat, cut : {0}] /\ clock \in Nat
  BY DEF SnapshotsInv, NumbersInv
<1>1. CASE ClockTicks BY <1>0, <1>1, SnapshotsStay DEF ClockTicks, retentionHistory
<1>2. ASSUME NEW w \in Writers, PersistBegins(w) \/ NothingToInsert(w) PROVE SnapshotsInv'
  BY <1>0, <1>2, SnapshotsStay DEF PersistBegins, NothingToInsert, retentionHistory
<1>3. ASSUME NEW w \in Writers, WriterDies(w) PROVE SnapshotsInv'
  <2>1. UNCHANGED <<rows, written, crowded>> /\ (pruning' = pruning \/ pruning' = Resting)
    BY <1>3 DEF WriterDies, retentionHistory
  <2>. QED BY <1>0, <2>1, SnapshotsStay DEF Resting
<1>4. ASSUME NEW w \in Writers, InsertRow(w) PROVE SnapshotsInv'
  BY <1>4, SnapshotsInsert DEF InsertRow
<1>5. CASE RetentionBegins
  <2>1. UNCHANGED <<rows, written, crowded>> /\ pruning' = [Resting EXCEPT !.at = "keep", !.now = clock]
    BY <1>5 DEF RetentionBegins, FirstStep, retentionHistory
  <2>2. pruning' \in [at : {"idle", "keep", "delete"}, now : Nat, kept : SUBSET Nat, cut : {0}] /\ pruning'.at = "keep"
    BY <1>0, <2>1 DEF Resting
  <2>. QED BY <2>1, <2>2, SnapshotsStay
<1>6. CASE ReadNewest BY <1>6, ReadNewestKeeps
<1>7. CASE DeleteRest BY <1>7, DeleteKeeps
<1>8. CASE Expire \/ RawToHours \/ HoursToDays \/ PruneLogsByAge \/ CountLogs \/ FindCutoff \/ PruneLogsBySize \/ LogPruningFails
  BY <1>0, <1>8 DEF Expire, RawToHours, HoursToDays, PruneLogsByAge, CountLogs, FindCutoff, PruneLogsBySize, LogPruningFails
<1>. QED BY <1>1, <1>2, <1>3, <1>4, <1>5, <1>6, <1>7, <1>8 DEF RetentionNext

-----------------------------------------------------------------------------
LEMMA NumbersNext == ASSUME NumbersInv, table \in {"metrics", "snapshots"}, RetentionNext PROVE NumbersInv'
<1>0. clock \in Nat /\ given \in Nat /\ pruned \in Int /\ -RetentionEvery \in Int
      /\ writing \in [Writers -> [at : {"idle", "insert"}, n : Nat, now : Nat]]
  BY RetentionAssumption DEF NumbersInv
<1>1. CASE ClockTicks BY <1>0, <1>1, NumbersStay DEF ClockTicks, retentionHistory
<1>2. ASSUME NEW w \in Writers, PersistBegins(w) PROVE NumbersInv'
  <2>. DEFINE step == [at |-> "insert", n |-> given + 1, now |-> clock]
  <2>1. Writes(w, step) /\ given' = given + 1 /\ UNCHANGED <<clock, pruned, written>>
    BY <1>2 DEF PersistBegins
  <2>2. step \in [at : {"idle", "insert"}, n : Nat, now : Nat] /\ step.n = given + 1 BY <1>0
  <2>. HIDE DEF step
  <2>. QED BY <1>0, <2>1, <2>2, WritingKeeps
<1>3. ASSUME NEW w \in Writers, NothingToInsert(w) \/ WriterDies(w) PROVE NumbersInv'
  <2>1. Writes(w, NotWriting) /\ UNCHANGED <<clock, given, written>> /\ (pruned' = pruned \/ pruned' = -RetentionEvery)
    BY <1>3 DEF NothingToInsert, WriterDies, retentionHistory
  <2>2. NotWriting \in [at : {"idle", "insert"}, n : Nat, now : Nat] /\ NotWriting.at = "idle" BY DEF NotWriting
  <2>. QED BY <1>0, <2>1, <2>2, WritingKeeps
<1>4. ASSUME NEW w \in Writers, InsertRow(w) PROVE NumbersInv'
  <2>. DEFINE sample == [n |-> writing[w].n, at |-> writing[w].now]
  <2>1. writing[w].at = "insert" /\ Writes(w, NotWriting) /\ written' = written \cup {sample} /\ UNCHANGED <<clock, given, pruned>>
    BY <1>4 DEF InsertRow
  <2>. QED BY <2>1, InsertNumbers
<1>5. CASE RetentionBegins BY <1>0, <1>5, NumbersStay DEF RetentionBegins, retentionHistory
<1>6. CASE Expire \/ RawToHours \/ HoursToDays \/ ReadNewest \/ DeleteRest
  BY <1>0, <1>6, NumbersStay DEF Expire, RawToHours, HoursToDays, ReadNewest, DeleteRest, retentionHistory
<1>7. CASE PruneLogsByAge \/ CountLogs \/ FindCutoff \/ PruneLogsBySize \/ LogPruningFails
  BY <1>0, <1>7, NumbersStay DEF PruneLogsByAge, CountLogs, FindCutoff, PruneLogsBySize, LogPruningFails, retentionHistory
<1>. QED BY <1>1, <1>2, <1>3, <1>4, <1>5, <1>6, <1>7 DEF RetentionNext

LEMMA TableStays == ASSUME RetentionNext PROVE table' = table
BY DEF RetentionNext, ClockTicks, PersistBegins, InsertRow, NothingToInsert, WriterDies, RetentionBegins, Expire, RawToHours,
       HoursToDays, ReadNewest, DeleteRest, PruneLogsByAge, CountLogs, FindCutoff, PruneLogsBySize, LogPruningFails

LEMMA KeepStep == KeepInv /\ [RetentionNext]_retentionVars => KeepInv'
<1>. SUFFICES ASSUME KeepInv, [RetentionNext]_retentionVars PROVE KeepInv' OBVIOUS
<1>1. CASE RetentionNext
  BY <1>1, TableStays, NumbersNext, MetricsNext, SnapshotsNext DEF KeepInv
<1>2. CASE UNCHANGED retentionVars
  <2>1. UNCHANGED <<table, clock, rows, writing, pruning, pruned, given, written, crowded>>
    BY <1>2 DEF retentionVars, retentionHistory
  <2>2. NumbersInv => NumbersInv' BY <2>1 DEF NumbersInv
  <2>3. MetricsInv => MetricsInv' BY <2>1 DEF MetricsInv, OfBucket
  <2>4. SnapshotsInv => SnapshotsInv' BY <2>1 DEF SnapshotsInv, Outnumbered
  <2>. QED BY <2>1, <2>2, <2>3, <2>4 DEF KeepInv
<1>. QED BY <1>1, <1>2

\* Whatever fails or dies, and whatever is inserted meanwhile: a sample is averaged into one row
\* until its time is over, and a snapshot goes only after enough newer ones, or because it came
\* between the choice and the delete (runRetention).
THEOREM NothingKeptIsLostHolds == RetentionSpec => []NothingKeptIsLost
<1>1. RetentionSpec => []KeepInv BY KeepInitial, KeepStep, PTL DEF RetentionSpec
<1>2. KeepInv => NothingKeptIsLost
  <2>1. KeepInv => SampleCountedOnce
    <3>1. table # "metrics" => SampleCountedOnce BY DEF SampleCountedOnce
    <3>. QED BY <3>1, CountedOnce DEF KeepInv
  <2>2. KeepInv => NewestSnapshotsKept BY DEF KeepInv, SnapshotsInv, Outnumbered, NewestSnapshotsKept
  <2>. QED BY <2>1, <2>2 DEF NothingKeptIsLost
<1>. QED BY <1>1, <1>2, PTL

-----------------------------------------------------------------------------
(* The types of retention: a table holds no more rows than were inserted.  *)

LEMMA LeastNatural ==
  ASSUME NEW S \in SUBSET Nat, S # {}
  PROVE  \E n \in S : \A m \in S : n <= m
<1>. DEFINE less == {ss \in Nat \X Nat : ss[1] < ss[2]}
<1>1. IsWellFoundedOn(less, Nat) BY NatLessThanWellFounded DEF OpToRel
<1>2. \A x, y \in Nat : <<y, x>> \in less <=> y < x OBVIOUS
<1>. HIDE DEF less
<1>3. PICK n \in S : \A m \in S : ~(<<m, n>> \in less) BY <1>1, WFMin
<1>4. ASSUME NEW m \in S PROVE n <= m
  <2>1. m \in Nat /\ n \in Nat OBVIOUS
  <2>2. ~(m < n) BY <1>2, <1>3, <2>1
  <2>. QED BY <2>1, <2>2
<1>. QED BY <1>4

LEMMA Extremes ==
  ASSUME NEW B \in Nat, NEW S \in SUBSET (0 .. B), S # {}
  PROVE  /\ Min(S) \in S /\ \A x \in S : Min(S) <= x
         /\ Max(S) \in S /\ \A x \in S : x <= Max(S)
<1>1. \E n \in S : \A m \in S : n <= m BY LeastNatural
<1>2. Min(S) \in S /\ \A x \in S : Min(S) <= x BY <1>1 DEF Min
<1>. DEFINE T == {u \in 0 .. B : \A x \in S : x <= u}
<1>3. T \in SUBSET Nat /\ B \in T BY DEF T
<1>4. PICK u \in T : \A v \in T : u <= v BY <1>3, LeastNatural
<1>5. u \in S
  <2>1. CASE u \notin S
    <3>1. PICK x \in S : TRUE OBVIOUS
    <3>2. x < u /\ u - 1 \in 0 .. B BY <2>1, <3>1
    <3>3. \A y \in S : y <= u - 1 BY <2>1
    <3>4. u - 1 \in T BY <3>2, <3>3
    <3>. QED BY <1>4, <3>4
  <2>. QED BY <2>1
<1>6. \E n \in S : \A m \in S : n >= m BY <1>5
<1>7. Max(S) \in S /\ \A x \in S : Max(S) >= x BY <1>6 DEF Max
<1>. QED BY <1>2, <1>7

Pending == {w \in Writers : writing[w].at = "insert"}

\* Rows and rows about to be inserted are no more than the numbers given out.
RoomInv ==
  /\ IsFiniteSet(rows) /\ IsFiniteSet(Pending)
  /\ Cardinality(rows) + Cardinality(Pending) <= given
  /\ disk <= given
  /\ table = "logs" => \A r \in rows : r.n <= given - Cardinality(Pending)

\* Each statement is about its own table.
StatementsInv ==
  /\ pruning.at \in {"hours", "days"} => table = "metrics"
  /\ pruning.at \in {"keep", "delete"} => table = "snapshots"
  /\ pruning.at \in {"age", "count", "cutoff", "size"} => table = "logs"
  /\ pruning.at = "expire" => table \in {"status", "metrics"}

\* Only log lines have a time of their own, and only a worker that inserts has a number.
WritersInv ==
  \A w \in Writers :
    writing[w].at = "insert" => writing[w].n >= 1 /\ (table # "logs" => writing[w].now >= 0)

WritingType == [at : {"idle", "insert"}, n : 0 .. MaxWrites, now : -1 .. MaxClock]
PruningType == [at : Steps, now : 0 .. MaxClock, kept : SUBSET (1 .. MaxWrites), cut : 0 .. MaxWrites]

TableInv == RetentionTypes /\ RoomInv /\ StatementsInv /\ WritersInv

LEMMA RetentionNumbers ==
  /\ MaxClock \in Nat /\ MaxWrites \in Nat /\ MaxDeaths \in Nat /\ RetentionEvery \in Nat \ {0}
  /\ Keep \in Nat \ {0} /\ LogCap \in Nat \ {0} /\ Hour \in Nat \ {0} /\ Day \in Nat \ {0}
  /\ Keeper \in Writers
BY RetentionAssumption DEF Writers

LEMMA TableFields ==
  ASSUME TableInv
  PROVE  /\ table \in Tables /\ clock \in 0 .. MaxClock /\ deaths \in 0 .. MaxDeaths
         /\ given \in 0 .. MaxWrites /\ disk \in 0 .. MaxWrites
         /\ writing \in [Writers -> WritingType] /\ pruning \in PruningType
         /\ pruned \in -RetentionEvery .. MaxClock
         /\ Cardinality(rows) \in Nat /\ Cardinality(Pending) \in Nat
         /\ \A w \in Writers : writing[w].at \in {"idle", "insert"} /\ writing[w].n \in 0 .. MaxWrites
                               /\ writing[w].now \in -1 .. MaxClock
         /\ pruning.at \in Steps /\ pruning.now \in 0 .. MaxClock /\ pruning.kept \in SUBSET (1 .. MaxWrites)
         /\ pruning.cut \in 0 .. MaxWrites
<1>1. /\ table \in Tables /\ clock \in 0 .. MaxClock /\ deaths \in 0 .. MaxDeaths
      /\ given \in 0 .. MaxWrites /\ disk \in 0 .. MaxWrites
      /\ writing \in [Writers -> WritingType] /\ pruning \in PruningType
      /\ pruned \in -RetentionEvery .. MaxClock
  BY DEF TableInv, RetentionTypes, WritingType, PruningType
<1>2. Cardinality(rows) \in Nat /\ Cardinality(Pending) \in Nat BY FS_CardinalityType DEF TableInv, RoomInv
<1>3. \A w \in Writers : writing[w] \in WritingType BY <1>1
<1>. QED BY <1>1, <1>2, <1>3 DEF WritingType, PruningType

LEMMA TableInitial == RetentionInit => TableInv
<1>. SUFFICES ASSUME RetentionInit PROVE TableInv OBVIOUS
<1>1. /\ table \in Tables /\ clock = 0 /\ rows = {} /\ disk = 0 /\ writing = [w \in Writers |-> NotWriting]
      /\ pruning = Resting /\ pruned = -RetentionEvery /\ deaths = 0 /\ given = 0 /\ written = {} /\ crowded = {}
  BY DEF RetentionInit
<1>2. NotWriting \in WritingType /\ NotWriting.at = "idle"
  BY RetentionNumbers DEF NotWriting, WritingType
<1>3. Resting \in PruningType /\ Resting.at = "idle" BY RetentionNumbers DEF Resting, PruningType, Steps
<1>4. writing \in [Writers -> WritingType] /\ \A w \in Writers : writing[w].at = "idle" BY <1>1, <1>2
<1>5. RetentionTypes
  BY <1>1, <1>3, <1>4, RetentionNumbers DEF RetentionTypes, WritingType, PruningType
<1>6. Pending = {} BY <1>4 DEF Pending
<1>7. RoomInv BY <1>1, <1>6, FS_EmptySet DEF RoomInv
<1>8. StatementsInv BY <1>1, <1>3 DEF StatementsInv
<1>9. WritersInv BY <1>4 DEF WritersInv
<1>. QED BY <1>5, <1>7, <1>8, <1>9 DEF TableInv

-----------------------------------------------------------------------------
(* What a statement of retention leaves in order. *)

\* It goes on to a statement of the same table.
LEMMA PrunesOn ==
  ASSUME TableInv, NEW step \in Steps, Prunes(step)
  PROVE  /\ pruning' \in PruningType /\ pruning'.at = step
         /\ pruning'.kept \in {pruning.kept, {}}
<1>1. pruning \in PruningType /\ pruning.kept \in SUBSET (1 .. MaxWrites) BY TableFields
<1>2. Resting \in PruningType /\ Resting.at = "idle" /\ Resting.kept = {}
  BY RetentionNumbers DEF Resting, PruningType, Steps
<1>3. CASE step = "idle" BY <1>2, <1>3 DEF Prunes
<1>4. CASE step # "idle"
  <2>1. pruning' = [pruning EXCEPT !.at = step] BY <1>4 DEF Prunes
  <2>. QED BY <2>1, <1>1 DEF PruningType
<1>. QED BY <1>3, <1>4

LEMMA RowsShrink ==
  ASSUME TableInv, rows' \subseteq rows, UNCHANGED <<table, disk, writing, given, written, crowded>>,
         clock' \in 0 .. MaxClock, deaths' \in 0 .. MaxDeaths, pruned' \in -RetentionEvery .. MaxClock,
         pruning' \in PruningType, StatementsInv'
  PROVE  TableInv'
<1>1. RetentionTypes'
  <2>1. RowType' = RowType BY DEF RowType
  <2>. QED BY <2>1 DEF TableInv, RetentionTypes, PruningType
<1>2. RoomInv'
  <2>1. Pending' = Pending BY DEF Pending
  <2>2. IsFiniteSet(rows') /\ Cardinality(rows') <= Cardinality(rows) BY FS_Subset DEF TableInv, RoomInv
  <2>3. Cardinality(rows') \in Nat BY <2>2, FS_CardinalityType
  <2>4. Cardinality(rows') + Cardinality(Pending) <= given
    BY <2>2, <2>3, TableFields DEF TableInv, RoomInv
  <2>. QED BY <2>1, <2>2, <2>4 DEF TableInv, RoomInv
<1>3. WritersInv' BY DEF TableInv, WritersInv
<1>. QED BY <1>1, <1>2, <1>3 DEF TableInv

\* The averages are no more than the rows they stand for.
LEMMA FewerAverages ==
  ASSUME NEW origin, NEW to, NEW bucket, NEW cutoff, IsFiniteSet(rows)
  PROVE  /\ IsFiniteSet(CollapseTier(origin, to, bucket, cutoff))
         /\ Cardinality(CollapseTier(origin, to, bucket, cutoff)) <= Cardinality(rows)
<1>. DEFINE old == Aged(origin, cutoff)
            of(b) == AverageAt(old, to, bucket, b)
            means == {of(b) : b \in {Trunc(r.at, bucket) : r \in old}}
            f == [r \in old |-> of(Trunc(r.at, bucket))]
<1>1. CollapseTier(origin, to, bucket, cutoff) = (rows \ old) \cup means
  BY DEF CollapseTier, Averages, AverageAt
<1>2. old \subseteq rows BY DEF Aged
<1>3. IsFiniteSet(old) BY <1>2, FS_Subset
<1>. HIDE DEF old
<1>4. f \in Surjection(old, means)
  <2>. HIDE DEF of
  <2>1. f \in [old -> means] OBVIOUS
  <2>2. \A m \in means : \E r \in old : f[r] = m OBVIOUS
  <2>. QED BY <2>1, <2>2 DEF Surjection
<1>. HIDE DEF f, means
<1>5. IsFiniteSet(means) /\ Cardinality(means) <= Cardinality(old) BY <1>3, <1>4, FS_Surjection
<1>6. rows \cap old = old BY <1>2
<1>7. IsFiniteSet(rows \ old) /\ Cardinality(rows \ old) = Cardinality(rows) - Cardinality(old)
  <2>1. IsFiniteSet(rows \ old) /\ Cardinality(rows \ old) = Cardinality(rows) - Cardinality(rows \cap old)
    BY FS_Difference
  <2>. QED BY <1>6, <2>1, Zenon
<1>8. /\ IsFiniteSet((rows \ old) \cup means)
      /\ Cardinality((rows \ old) \cup means)
           = Cardinality(rows \ old) + Cardinality(means) - Cardinality((rows \ old) \cap means)
  BY <1>5, <1>7, FS_Union
<1>9. IsFiniteSet((rows \ old) \cap means) BY <1>5, FS_Intersection
<1>10. /\ Cardinality(rows) \in Nat /\ Cardinality(old) \in Nat /\ Cardinality(means) \in Nat
       /\ Cardinality((rows \ old) \cap means) \in Nat
  BY <1>3, <1>5, <1>9, FS_CardinalityType
<1>11. Cardinality((rows \ old) \cup means) <= Cardinality(rows) BY <1>5, <1>7, <1>8, <1>10
<1>. QED BY <1>1, <1>8, <1>11, Zenon

LEMMA CollapsedTypes ==
  ASSUME TableInv, table = "metrics", NEW origin, NEW to \in {"hour", "day"}, NEW bucket \in Nat \ {0}, NEW cutoff,
         rows' = CollapseTier(origin, to, bucket, cutoff),
         UNCHANGED <<table, clock, disk, writing, pruned, deaths, given, written, crowded>>,
         pruning' \in PruningType, StatementsInv'
  PROVE  TableInv'
<1>. DEFINE Averaged == [at : 0 .. MaxClock, resolution : {"raw", "hour", "day"}, of : SUBSET Samples]
<1>1. \A r \in rows : r \in Averaged /\ r.at \in 0 .. MaxClock /\ r.of \subseteq Samples
  BY DEF TableInv, RetentionTypes, RowType
<1>2. ASSUME NEW x \in rows' PROVE x \in Averaged
  <2>. DEFINE old == Aged(origin, cutoff)
  <2>1. old \subseteq rows BY DEF Aged
  <2>2. CASE x \in rows BY <1>1, <2>2
  <2>3. CASE \E r \in old : x = AverageAt(old, to, bucket, Trunc(r.at, bucket))
    <3>1. PICK r \in old : x = AverageAt(old, to, bucket, Trunc(r.at, bucket)) BY <2>3
    <3>2. Trunc(r.at, bucket) \in 0 .. MaxClock
      <4>1. r.at \in Nat /\ r.at <= MaxClock BY <1>1, <2>1, RetentionNumbers
      <4>2. Trunc(r.at, bucket) \in Nat /\ Trunc(r.at, bucket) <= r.at BY <4>1, TruncIsBegin
      <4>. QED BY <4>1, <4>2, RetentionNumbers
    <3>3. UNION {q.of : q \in {p \in old : Trunc(p.at, bucket) = Trunc(r.at, bucket)}} \subseteq Samples
      BY <1>1, <2>1
    <3>. QED BY <3>1, <3>2, <3>3 DEF AverageAt
  <2>. QED BY <1>2, <2>2, <2>3 DEF CollapseTier, Averages, AverageAt
<1>3. RowType' = RowType /\ RowType = Averaged BY DEF RowType
<1>4. RetentionTypes'
  BY <1>2, <1>3 DEF TableInv, RetentionTypes, PruningType
<1>5. RoomInv'
  <2>1. IsFiniteSet(rows') /\ Cardinality(rows') <= Cardinality(rows) BY FewerAverages DEF TableInv, RoomInv
  <2>2. Pending' = Pending /\ Cardinality(rows') \in Nat BY <2>1, FS_CardinalityType DEF Pending
  <2>3. Cardinality(rows') + Cardinality(Pending) <= given BY <2>1, <2>2, TableFields DEF TableInv, RoomInv
  <2>. QED BY <2>1, <2>2, <2>3 DEF TableInv, RoomInv
<1>6. WritersInv' BY DEF TableInv, WritersInv
<1>. QED BY <1>4, <1>5, <1>6 DEF TableInv

-----------------------------------------------------------------------------
(* The workers. *)

LEMMA WritingTypes ==
  ASSUME TableInv, NEW w \in Writers, NEW step \in WritingType, Writes(w, step)
  PROVE  /\ writing' \in [Writers -> WritingType]
         /\ \A q \in Writers : writing'[q] = IF q = w THEN step ELSE writing[q]
BY TableFields DEF Writes

LEMMA BeginTypes == ASSUME TableInv, NEW w \in Writers, PersistBegins(w) PROVE TableInv'
<1>1. PICK now \in IF table = "logs" THEN {clock - 1, clock} ELSE {clock} :
        Writes(w, [at |-> "insert", n |-> given + 1, now |-> now])
  BY DEF PersistBegins
<1>. DEFINE step == [at |-> "insert", n |-> given + 1, now |-> now]
<1>2. /\ given' = given + 1 /\ given < MaxWrites /\ writing[w].at = "idle"
      /\ UNCHANGED <<table, clock, rows, disk, pruning, pruned, deaths, written, crowded>>
  BY DEF PersistBegins
<1>3. now \in -1 .. MaxClock /\ (table # "logs" => now >= 0) BY TableFields, RetentionNumbers
<1>4. step \in WritingType /\ step.at = "insert" /\ step.n = given + 1 /\ step.now = now
  <2>1. given \in 0 .. MaxWrites /\ given < MaxWrites BY <1>2, TableFields
  <2>2. given + 1 \in 0 .. MaxWrites BY <2>1, RetentionNumbers
  <2>. QED BY <1>3, <2>2 DEF WritingType
<1>5. Writes(w, step) BY <1>1
<1>. HIDE DEF step
<1>6. /\ writing' \in [Writers -> WritingType]
      /\ \A q \in Writers : writing'[q] = IF q = w THEN step ELSE writing[q]
  BY <1>4, <1>5, WritingTypes
<1>7. given' \in 0 .. MaxWrites BY <1>2, TableFields, RetentionNumbers
<1>8. RetentionTypes'
  <2>1. RowType' = RowType BY <1>2 DEF RowType
  <2>. QED BY <1>2, <1>6, <1>7, <2>1 DEF TableInv, RetentionTypes, WritingType
<1>9. RoomInv'
  <2>1. Pending' = Pending \cup {w} /\ w \notin Pending BY <1>2, <1>4, <1>6 DEF Pending
  <2>2. IsFiniteSet(Pending \cup {w}) /\ Cardinality(Pending \cup {w}) = Cardinality(Pending) + 1
    BY <2>1, FS_AddElement DEF TableInv, RoomInv
  <2>3. IsFiniteSet(Pending') /\ Cardinality(Pending') = Cardinality(Pending) + 1 BY <2>1, <2>2, Zenon
  <2>4. Cardinality(rows) + Cardinality(Pending') <= given' BY <1>2, <2>3, TableFields DEF TableInv, RoomInv
  <2>5. table = "logs" => \A r \in rows : r.n <= given' - Cardinality(Pending')
    <3>1. given' - Cardinality(Pending') = given - Cardinality(Pending) BY <1>2, <2>3, TableFields
    <3>. QED BY <3>1 DEF TableInv, RoomInv
  <2>6. disk <= given' BY <1>2, TableFields DEF TableInv, RoomInv
  <2>. QED BY <1>2, <2>3, <2>4, <2>5, <2>6 DEF TableInv, RoomInv
<1>10. StatementsInv' BY <1>2 DEF TableInv, StatementsInv
<1>11. WritersInv'
  <2>1. step.n >= 1 BY <1>4, TableFields
  <2>. QED BY <1>2, <1>3, <1>4, <1>6, <2>1 DEF TableInv, WritersInv
<1>. QED BY <1>8, <1>9, <1>10, <1>11 DEF TableInv

\* A worker that is through with its row, or dead.
LEMMA NotWritingTypes ==
  ASSUME TableInv, NEW w \in Writers, Writes(w, NotWriting)
  PROVE  /\ writing' \in [Writers -> WritingType] /\ Pending' = Pending \ {w}
         /\ IsFiniteSet(Pending') /\ Cardinality(Pending') <= Cardinality(Pending) /\ Cardinality(Pending') \in Nat
         /\ w \in Pending => Cardinality(Pending') = Cardinality(Pending) - 1
         /\ \A q \in Writers : writing'[q].at = "insert" => writing'[q] = writing[q]
<1>1. NotWriting \in WritingType /\ NotWriting.at = "idle" BY RetentionNumbers DEF NotWriting, WritingType
<1>2. /\ writing' \in [Writers -> WritingType]
      /\ \A q \in Writers : writing'[q] = IF q = w THEN NotWriting ELSE writing[q]
  BY <1>1, WritingTypes
<1>3. Pending' = Pending \ {w} BY <1>1, <1>2 DEF Pending
<1>4. IsFiniteSet(Pending \ {w}) /\ Cardinality(Pending \ {w}) = IF w \in Pending THEN Cardinality(Pending) - 1 ELSE Cardinality(Pending)
  BY FS_RemoveElement DEF TableInv, RoomInv
<1>5. IsFiniteSet(Pending') /\ Cardinality(Pending') = IF w \in Pending THEN Cardinality(Pending) - 1 ELSE Cardinality(Pending)
  BY <1>3, <1>4, Zenon
<1>6. Cardinality(Pending') \in Nat BY <1>5, FS_CardinalityType
<1>7. Cardinality(Pending') <= Cardinality(Pending) BY <1>5, TableFields
<1>. QED BY <1>1, <1>2, <1>3, <1>5, <1>6, <1>7

LEMMA InsertTypes == ASSUME TableInv, NEW w \in Writers, InsertRow(w) PROVE TableInv'
<1>. DEFINE sample == [n |-> writing[w].n, at |-> writing[w].now]
            added == CASE table = "metrics" -> [at |-> sample.at, resolution |-> "raw", of |-> {sample}]
                       [] table = "logs" -> [n |-> 1 + Max({0} \cup Ids), at |-> sample.at]
                       [] OTHER -> sample
<1>1. /\ writing[w].at = "insert" /\ rows' = rows \cup {added} /\ disk' = Max({disk, Cardinality(rows')})
      /\ written' \subseteq written \cup {sample} /\ crowded' \subseteq crowded \cup {sample}
      /\ Writes(w, NotWriting) /\ UNCHANGED <<table, clock, pruning, pruned, deaths, given>>
  BY DEF InsertRow, Grown
<1>2. w \in Pending BY <1>1 DEF Pending
<1>3. /\ writing' \in [Writers -> WritingType] /\ IsFiniteSet(Pending') /\ Cardinality(Pending') = Cardinality(Pending) - 1
      /\ Cardinality(Pending') \in Nat /\ \A q \in Writers : writing'[q].at = "insert" => writing'[q] = writing[q]
  BY <1>1, <1>2, NotWritingTypes
<1>4. /\ sample \in Samples /\ sample.n = writing[w].n /\ sample.at = writing[w].now
      /\ sample.n \in 1 .. MaxWrites /\ (table # "logs" => sample.at \in 0 .. MaxClock) /\ sample.at \in -1 .. MaxClock
  BY <1>1, TableFields DEF TableInv, WritersInv, Samples
<1>5. table = "logs" => Max({0} \cup Ids) \in 0 .. given - Cardinality(Pending)
  <2>. SUFFICES ASSUME table = "logs" PROVE Max({0} \cup Ids) \in 0 .. given - Cardinality(Pending) OBVIOUS
  <2>. DEFINE top == given - Cardinality(Pending)
              S == {0} \cup Ids
  <2>1. top \in Nat BY TableFields DEF TableInv, RoomInv
  <2>2. \A r \in rows : r.n \in 0 .. top
    <3>1. \A r \in rows : r.n \in 1 .. MaxWrites BY DEF TableInv, RetentionTypes, RowType, Samples
    <3>. QED BY <2>1, <3>1 DEF TableInv, RoomInv
  <2>3. S \in SUBSET (0 .. top) /\ S # {} BY <2>1, <2>2 DEF Ids
  <2>. HIDE DEF S, top
  <2>4. Max(S) \in S BY <2>1, <2>3, Extremes
  <2>. QED BY <2>3, <2>4 DEF S, top
<1>6. table = "logs" => 1 + Max({0} \cup Ids) \in 1 .. given - Cardinality(Pending')
                        /\ 1 + Max({0} \cup Ids) \in 1 .. MaxWrites
  <2>1. given \in 0 .. MaxWrites /\ Cardinality(Pending) \in Nat BY TableFields
  <2>. DEFINE m == Max({0} \cup Ids)
  <2>2. table = "logs" => m \in 0 .. given - Cardinality(Pending) BY <1>5
  <2>. HIDE DEF m
  <2>3. table = "logs" => 1 + m \in 1 .. given - Cardinality(Pending') /\ 1 + m \in 1 .. MaxWrites
    BY <1>3, <2>1, <2>2, RetentionNumbers
  <2>. QED BY <2>3 DEF m
<1>7. added \in RowType
  <2>1. CASE table = "metrics"
    <3>1. added = [at |-> sample.at, resolution |-> "raw", of |-> {sample}] BY <2>1
    <3>2. RowType = [at : 0 .. MaxClock, resolution : {"raw", "hour", "day"}, of : SUBSET Samples] BY <2>1 DEF RowType
    <3>. HIDE DEF sample, added
    <3>. QED BY <1>4, <2>1, <3>1, <3>2
  <2>2. CASE table = "logs"
    <3>1. added = [n |-> 1 + Max({0} \cup Ids), at |-> sample.at] BY <2>2
    <3>. HIDE DEF sample, added
    <3>. QED BY <1>4, <1>6, <2>2, <3>1 DEF RowType, Samples
  <2>3. CASE table \notin {"metrics", "logs"}
    <3>1. added = sample BY <2>3
    <3>. HIDE DEF sample, added
    <3>. QED BY <1>4, <2>3, <3>1 DEF RowType
  <2>. QED BY <2>1, <2>2, <2>3
<1>8. table = "logs" => added.n = 1 + Max({0} \cup Ids) OBVIOUS
<1>. HIDE DEF added, sample
<1>9. IsFiniteSet(rows') /\ Cardinality(rows') <= Cardinality(rows) + 1 /\ Cardinality(rows') \in Nat
  <2>1. IsFiniteSet(rows \cup {added}) /\ Cardinality(rows \cup {added}) = IF added \in rows THEN Cardinality(rows) ELSE Cardinality(rows) + 1
    BY FS_AddElement DEF TableInv, RoomInv
  <2>2. IsFiniteSet(rows') /\ Cardinality(rows') = IF added \in rows THEN Cardinality(rows) ELSE Cardinality(rows) + 1
    BY <1>1, <2>1, Zenon
  <2>. QED BY <2>2, TableFields
<1>10. Cardinality(rows') + Cardinality(Pending') <= given BY <1>3, <1>9, TableFields DEF TableInv, RoomInv
<1>11. disk' \in 0 .. given
  <2>. DEFINE S == {disk, Cardinality(rows')}
  <2>1. S \in SUBSET (0 .. given) /\ S # {} BY <1>3, <1>9, <1>10, TableFields DEF TableInv, RoomInv
  <2>2. given \in Nat BY TableFields
  <2>. HIDE DEF S
  <2>3. Max(S) \in S BY <2>1, <2>2, Extremes
  <2>. QED BY <1>1, <2>1, <2>3 DEF S
<1>12. RetentionTypes'
  <2>1. RowType' = RowType BY <1>1 DEF RowType
  <2>2. rows' \subseteq RowType /\ written' \subseteq Samples /\ crowded' \subseteq Samples
    BY <1>1, <1>4, <1>7 DEF TableInv, RetentionTypes
  <2>3. disk' \in 0 .. MaxWrites BY <1>11, TableFields, RetentionNumbers
  <2>. QED BY <1>1, <1>3, <2>1, <2>2, <2>3, TableFields DEF RetentionTypes, WritingType, PruningType
<1>13. RoomInv'
  <2>1. table = "logs" => \A r \in rows' : r.n <= given - Cardinality(Pending')
    <3>. SUFFICES ASSUME table = "logs", NEW r \in rows' PROVE r.n <= given - Cardinality(Pending') OBVIOUS
    <3>1. CASE r = added BY <1>6, <1>8, <3>1
    <3>2. CASE r \in rows
      <4>1. r.n <= given - Cardinality(Pending) /\ r.n \in Int
        BY <3>2 DEF TableInv, RoomInv, RetentionTypes, RowType, Samples
      <4>. QED BY <1>3, <4>1, TableFields
    <3>. QED BY <1>1, <3>1, <3>2
  <2>2. disk' <= given' BY <1>1, <1>11, TableFields
  <2>. QED BY <1>1, <1>3, <1>9, <1>10, <2>1, <2>2 DEF RoomInv
<1>14. StatementsInv' BY <1>1 DEF TableInv, StatementsInv
<1>15. WritersInv' BY <1>1, <1>3 DEF TableInv, WritersInv
<1>. QED BY <1>12, <1>13, <1>14, <1>15 DEF TableInv

\* A worker gives up its row.
LEMMA GivesUpTypes ==
  ASSUME TableInv, NEW w \in Writers, Writes(w, NotWriting), UNCHANGED <<table, clock, rows, disk, given, written, crowded>>,
         deaths' \in 0 .. MaxDeaths, pruned' \in -RetentionEvery .. MaxClock, pruning' \in PruningType, StatementsInv'
  PROVE  TableInv'
<1>1. /\ writing' \in [Writers -> WritingType] /\ IsFiniteSet(Pending') /\ Cardinality(Pending') <= Cardinality(Pending)
      /\ Cardinality(Pending') \in Nat /\ \A q \in Writers : writing'[q].at = "insert" => writing'[q] = writing[q]
  BY NotWritingTypes
<1>2. RetentionTypes'
  <2>1. RowType' = RowType BY DEF RowType
  <2>. QED BY <1>1, <2>1 DEF TableInv, RetentionTypes, WritingType, PruningType
<1>3. RoomInv'
  <2>1. Cardinality(rows) + Cardinality(Pending') <= given BY <1>1, TableFields DEF TableInv, RoomInv
  <2>2. ASSUME table = "logs", NEW r \in rows PROVE r.n <= given - Cardinality(Pending')
    <3>1. r.n <= given - Cardinality(Pending) /\ r.n \in Int
      BY <2>2 DEF TableInv, RoomInv, RetentionTypes, RowType, Samples
    <3>. QED BY <1>1, <3>1, TableFields
  <2>. QED BY <1>1, <2>1, <2>2 DEF TableInv, RoomInv
<1>4. WritersInv' BY <1>1 DEF TableInv, WritersInv
<1>. QED BY <1>2, <1>3, <1>4 DEF TableInv

-----------------------------------------------------------------------------
(* Retention. *)

LEMMA ShrinkingTypes ==
  ASSUME TableInv, Expire \/ DeleteRest \/ PruneLogsByAge \/ PruneLogsBySize
  PROVE  TableInv'
<1>1. rows' \subseteq rows BY DEF Expire, DeleteRest, PruneLogsByAge, PruneLogsBySize, Younger
<1>2. UNCHANGED <<table, clock, disk, writing, pruned, deaths, given, written, crowded>>
  BY DEF Expire, DeleteRest, PruneLogsByAge, PruneLogsBySize, retentionHistory
<1>3. PICK step \in {"idle", "count"} : Prunes(step) /\ (step = "count" => pruning.at = "age")
  BY DEF Expire, DeleteRest, PruneLogsByAge, PruneLogsBySize
<1>4. pruning' \in PruningType /\ pruning'.at = step
  <2>1. step \in Steps BY DEF Steps
  <2>. QED BY <1>3, <2>1, PrunesOn
<1>5. StatementsInv' BY <1>2, <1>3, <1>4 DEF TableInv, StatementsInv
<1>. QED BY <1>1, <1>2, <1>4, <1>5, RowsShrink, TableFields

LEMMA CollapsingTypes ==
  ASSUME TableInv, RawToHours \/ HoursToDays
  PROVE  TableInv'
<1>1. table = "metrics" BY DEF RawToHours, HoursToDays, TableInv, StatementsInv
<1>2. UNCHANGED <<table, clock, disk, writing, pruned, deaths, given, written, crowded>>
  BY DEF RawToHours, HoursToDays, retentionHistory
<1>3. PICK step \in {"days", "expire"} : Prunes(step) BY DEF RawToHours, HoursToDays
<1>4. pruning' \in PruningType /\ pruning'.at = step
  <2>1. step \in Steps BY DEF Steps
  <2>. QED BY <1>3, <2>1, PrunesOn
<1>5. StatementsInv' BY <1>1, <1>2, <1>4 DEF StatementsInv
<1>6. CASE RawToHours
  <2>1. rows' = CollapseTier("raw", "hour", Hour, pruning.now - RawToHour) BY <1>6 DEF RawToHours
  <2>. QED BY <1>1, <1>2, <1>4, <1>5, <2>1, CollapsedTypes, RetentionNumbers
<1>7. CASE HoursToDays
  <2>1. rows' = CollapseTier("hour", "day", Day, pruning.now - HourToDay) BY <1>7 DEF HoursToDays
  <2>. QED BY <1>1, <1>2, <1>4, <1>5, <2>1, CollapsedTypes, RetentionNumbers
<1>. QED BY <1>6, <1>7

\* A statement that only reads.
LEMMA ReadingTypesOf ==
  ASSUME TableInv, RetentionBegins \/ ReadNewest \/ CountLogs \/ FindCutoff \/ LogPruningFails
  PROVE  TableInv'
<1>1. UNCHANGED <<table, clock, rows, disk, writing, given, written, crowded>>
  BY DEF RetentionBegins, ReadNewest, CountLogs, FindCutoff, LogPruningFails, retentionHistory
<1>2. Resting \in PruningType /\ Resting.at = "idle"
  BY RetentionNumbers DEF Resting, PruningType, Steps
<1>3. pruning \in PruningType BY TableFields
<1>4. CASE RetentionBegins
  <2>. DEFINE step == FirstStep[table]
  <2>1. /\ step \in Steps \ {"idle"}
        /\ step \in {"hours", "days"} => table = "metrics"
        /\ step \in {"keep", "delete"} => table = "snapshots"
        /\ step \in {"age", "count", "cutoff", "size"} => table = "logs"
        /\ step = "expire" => table \in {"status", "metrics"}
    <3>1. table \in Tables BY TableFields
    <3>2. CASE table = "status" BY <3>2 DEF FirstStep, Steps
    <3>3. CASE table = "metrics" BY <3>3 DEF FirstStep, Steps
    <3>4. CASE table = "snapshots" BY <3>4 DEF FirstStep, Steps
    <3>5. CASE table = "logs" BY <3>5 DEF FirstStep, Steps
    <3>. QED BY <3>1, <3>2, <3>3, <3>4, <3>5 DEF Tables
  <2>. HIDE DEF step
  <2>2. pruning' = [Resting EXCEPT !.at = step, !.now = clock] /\ pruned' = clock /\ UNCHANGED deaths
    BY <1>4 DEF RetentionBegins, step
  <2>3. pruning' \in PruningType /\ pruning'.at = step
    BY <1>2, <2>1, <2>2, TableFields DEF PruningType
  <2>4. StatementsInv' BY <1>1, <2>1, <2>3 DEF StatementsInv
  <2>5. pruned' \in -RetentionEvery .. MaxClock BY <2>2, TableFields, RetentionNumbers
  <2>. QED BY <1>1, <2>2, <2>3, <2>4, <2>5, RowsShrink, TableFields
<1>5. CASE ReadNewest
  <2>1. UNCHANGED <<pruned, deaths>> BY <1>5 DEF ReadNewest
  <2>2. table = "snapshots" BY <1>5 DEF ReadNewest, TableInv, StatementsInv
  <2>3. NewestOf(Keep, Ids) \subseteq 1 .. MaxWrites
    <3>1. \A r \in rows : r.n \in 1 .. MaxWrites BY <2>2 DEF TableInv, RetentionTypes, RowType, Samples
    <3>. QED BY <3>1 DEF NewestOf, Ids
  <2>4. pruning' = Resting \/ pruning' = [pruning EXCEPT !.at = "delete", !.kept = NewestOf(Keep, Ids)]
    BY <1>5 DEF ReadNewest
  <2>5. pruning' \in PruningType /\ pruning'.at \in {"idle", "delete"}
    <3>. DEFINE kept == NewestOf(Keep, Ids)
    <3>. HIDE DEF kept
    <3>1. kept \in SUBSET (1 .. MaxWrites) /\ (pruning' = Resting \/ pruning' = [pruning EXCEPT !.at = "delete", !.kept = kept])
      BY <2>3, <2>4 DEF kept
    <3>2. "delete" \in Steps BY DEF Steps
    <3>. QED BY <1>2, <1>3, <3>1, <3>2 DEF PruningType
  <2>6. StatementsInv' BY <1>1, <2>2, <2>5 DEF StatementsInv
  <2>. QED BY <1>1, <2>1, <2>5, <2>6, RowsShrink, TableFields
<1>6. CASE CountLogs
  <2>. DEFINE total == Cardinality(rows)
              keep == (4 * total) \div 5
  <2>1. UNCHANGED <<pruned, deaths>> BY <1>6 DEF CountLogs
  <2>2. table = "logs" BY <1>6 DEF CountLogs, TableInv, StatementsInv
  <2>3. total \in Nat /\ total <= MaxWrites
    <3>1. Cardinality(rows) + Cardinality(Pending) <= given BY DEF TableInv, RoomInv
    <3>. QED BY <3>1, TableFields, RetentionNumbers
  <2>. HIDE DEF total
  <2>4. keep \in Nat /\ keep <= total BY <2>3
  <2>5. keep \in 0 .. MaxWrites BY <2>3, <2>4, RetentionNumbers
  <2>6. pruning' = Resting \/ pruning' = [pruning EXCEPT !.at = "cutoff", !.cut = keep]
    BY <1>6 DEF CountLogs, total
  <2>. HIDE DEF keep
  <2>7. pruning' \in PruningType /\ pruning'.at \in {"idle", "cutoff"}
    <3>1. "cutoff" \in Steps BY DEF Steps
    <3>. QED BY <1>2, <1>3, <2>5, <2>6, <3>1 DEF PruningType
  <2>8. StatementsInv' BY <1>1, <2>2, <2>7 DEF StatementsInv
  <2>. QED BY <1>1, <2>1, <2>7, <2>8, RowsShrink, TableFields
<1>7. CASE FindCutoff
  <2>1. UNCHANGED <<pruned, deaths>> BY <1>7 DEF FindCutoff
  <2>2. table = "logs" BY <1>7 DEF FindCutoff, TableInv, StatementsInv
  <2>3. CASE pruning' = Resting
    <3>1. StatementsInv' BY <1>1, <1>2, <2>3 DEF StatementsInv
    <3>. QED BY <1>1, <1>2, <2>1, <2>3, <3>1, RowsShrink, TableFields
  <2>4. CASE pruning' # Resting
    <3>. DEFINE cut == pruning.cut
                S == NewestOf(cut, Ids)
    <3>1. cut # 0 /\ ~(Cardinality(rows) < cut) /\ pruning' = [pruning EXCEPT !.at = "size", !.cut = Min(S)]
      BY <1>7, <2>4 DEF FindCutoff
    <3>2. Ids \in SUBSET (0 .. MaxWrites)
      <4>1. \A r \in rows : r.n \in 1 .. MaxWrites BY <2>2 DEF TableInv, RetentionTypes, RowType, Samples
      <4>. QED BY <4>1 DEF Ids
    <3>3. Ids # {}
      <4>1. rows # {}
        <5>1. CASE rows = {}
          <6>1. Cardinality(rows) = 0 BY <5>1, FS_EmptySet, Zenon
          <6>. QED BY <3>1, <6>1, TableFields
        <5>. QED BY <5>1
      <4>. QED BY <4>1 DEF Ids
    <3>4. Max(Ids) \in Ids /\ \A x \in Ids : x <= Max(Ids) BY <3>2, <3>3, Extremes, RetentionNumbers
    <3>5. Max(Ids) \in S
      <4>1. {j \in Ids : j > Max(Ids)} = {}
        <5>1. ASSUME NEW j \in Ids PROVE ~(j > Max(Ids))
          <6>1. j \in 0 .. MaxWrites /\ Max(Ids) \in 0 .. MaxWrites BY <3>2, <3>4
          <6>2. j <= Max(Ids) BY <3>4
          <6>. QED BY <6>1, <6>2
        <5>. QED BY <5>1
      <4>2. Cardinality({j \in Ids : j > Max(Ids)}) = 0 BY <4>1, FS_EmptySet, Zenon
      <4>3. Cardinality({j \in Ids : j > Max(Ids)}) < cut BY <3>1, <4>2, TableFields
      <4>. QED BY <3>4, <4>3 DEF NewestOf
    <3>6. S \in SUBSET (0 .. MaxWrites) /\ S # {} BY <3>2, <3>5 DEF NewestOf
    <3>. HIDE DEF S
    <3>7. Min(S) \in 0 .. MaxWrites BY <3>6, Extremes, RetentionNumbers
    <3>8. pruning' \in PruningType /\ pruning'.at = "size"
      <4>1. "size" \in Steps BY DEF Steps
      <4>. QED BY <1>3, <3>1, <3>7, <4>1 DEF PruningType
    <3>9. StatementsInv' BY <1>1, <2>2, <3>8 DEF StatementsInv
    <3>. QED BY <1>1, <2>1, <3>8, <3>9, RowsShrink, TableFields
  <2>. QED BY <2>3, <2>4
<1>8. CASE LogPruningFails
  <2>1. UNCHANGED pruned /\ deaths' \in 0 .. MaxDeaths BY <1>8, TableFields, RetentionNumbers DEF LogPruningFails
  <2>2. pruning' = Resting BY <1>8 DEF LogPruningFails, Prunes
  <2>3. StatementsInv' BY <1>1, <1>2, <2>2 DEF StatementsInv
  <2>. QED BY <1>1, <1>2, <2>1, <2>2, <2>3, RowsShrink, TableFields
<1>. QED BY <1>4, <1>5, <1>6, <1>7, <1>8

LEMMA TableStep == TableInv /\ [RetentionNext]_retentionVars => TableInv'
<1>. SUFFICES ASSUME TableInv, [RetentionNext]_retentionVars PROVE TableInv' OBVIOUS
<1>1. CASE ClockTicks
  <2>1. UNCHANGED <<table, rows, disk, writing, pruning, pruned, deaths, given, written, crowded>>
    BY <1>1 DEF ClockTicks, retentionHistory
  <2>2. clock' \in 0 .. MaxClock BY <1>1, TableFields, RetentionNumbers DEF ClockTicks
  <2>3. StatementsInv' BY <2>1 DEF TableInv, StatementsInv
  <2>. QED BY <2>1, <2>2, <2>3, RowsShrink, TableFields
<1>2. ASSUME NEW w \in Writers, NothingToInsert(w) PROVE TableInv'
  <2>1. /\ Writes(w, NotWriting)
        /\ UNCHANGED <<table, clock, rows, disk, pruning, pruned, deaths, given, written, crowded>>
    BY <1>2 DEF NothingToInsert, retentionHistory
  <2>2. StatementsInv' BY <2>1 DEF TableInv, StatementsInv
  <2>. QED BY <2>1, <2>2, GivesUpTypes, TableFields
<1>3. ASSUME NEW w \in Writers, WriterDies(w) PROVE TableInv'
  <2>1. /\ Writes(w, NotWriting) /\ UNCHANGED <<table, clock, rows, disk, given, written, crowded>>
        /\ deaths' \in 0 .. MaxDeaths
    BY <1>3, TableFields, RetentionNumbers DEF WriterDies, retentionHistory
  <2>2. /\ pruning' = pruning \/ pruning' = Resting
        /\ pruned' = pruned \/ pruned' = -RetentionEvery
    BY <1>3 DEF WriterDies
  <2>3. Resting \in PruningType /\ Resting.at = "idle"
    BY RetentionNumbers DEF Resting, PruningType, Steps
  <2>4. StatementsInv' BY <2>1, <2>2, <2>3 DEF TableInv, StatementsInv
  <2>5. pruning' \in PruningType /\ pruned' \in -RetentionEvery .. MaxClock
    BY <2>2, <2>3, TableFields, RetentionNumbers
  <2>. QED BY <2>1, <2>4, <2>5, GivesUpTypes
<1>4. CASE UNCHANGED retentionVars
  <2>1. UNCHANGED <<table, clock, rows, disk, writing, pruning, pruned, deaths, given, written, crowded>>
    BY <1>4 DEF retentionVars, retentionHistory
  <2>2. StatementsInv' BY <2>1 DEF TableInv, StatementsInv
  <2>. QED BY <2>1, <2>2, RowsShrink, TableFields
<1>. QED BY <1>1, <1>2, <1>3, <1>4, BeginTypes, InsertTypes, ShrinkingTypes, CollapsingTypes, ReadingTypesOf DEF RetentionNext

\* The tables and what works on them stay in their types: no table holds more rows than
\* were inserted, whatever is averaged, deleted and cut short, and so its file is no larger.
LEMMA RetentionTypesHold == RetentionSpec => []RetentionTypes
<1>1. TableInv => RetentionTypes BY DEF TableInv
<1>. QED BY <1>1, TableInitial, TableStep, PTL DEF RetentionSpec
=============================================================================
