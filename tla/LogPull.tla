------------------------------ MODULE LogPull ------------------------------
(***************************************************************************)
(* Log ingestion (poller/logs.ts) against the agent's log endpoints: the   *)
(* journal family is read after an opaque cursor, docker logs from a       *)
(* second-granular `since` with a millisecond watermark on top.  A worker  *)
(* pulls its sources one after the other; the loop is one worker, `--once` *)
(* another on the same tables.                                             *)
(*                                                                         *)
(* A line is its number in its source; the cursor of a journal is the      *)
(* number of its last line read, that of a container a time in ms.  The    *)
(* worker's own lines are left out: nothing calls appLog, so its buffer is *)
(* empty at every flush.                                                   *)
(***************************************************************************)
EXTENDS Integers, Sequences, FiniteSets, SequencesExt, FiniteSetsExt

CONSTANTS
  JournalUnits,  \* the sequence of journal, auth and kernel sources
  Containers,
  Pullers,       \* workers
  OnePass,       \* those started with --once: they pull once and exit
  Window,        \* lines=1000, tail=1000
  Second,        \* ms in a second
  Lookback,      \* seconds of a container's first pull
  Blank,         \* numbers of the journal lines without a message
  NoCursor,
  MaxLines,      \* bound on the lines of all sources
  MaxMs,         \* bound on the clock
  MaxLogFaults   \* bound on failing calls and deaths

Units == {JournalUnits[i] : i \in DOMAIN JournalUnits}
Sources == Units \cup Containers
Cursors == 0 .. MaxLines + MaxMs

ASSUME SourcesAssumption ==
  /\ JournalUnits \in Seq(Units) \ {<<>>} /\ Units \cap Containers = {} /\ IsFiniteSet(Containers)
  /\ NoCursor \notin Int /\ OnePass \subseteq Pullers
ASSUME LogNumbersAssumption ==
  /\ Window \in Nat \ {0} /\ Second \in Nat \ {0} /\ Lookback \in Nat
  /\ MaxLines \in Nat /\ MaxMs \in Nat /\ MaxLogFaults \in Nat

VARIABLES
  journal,   \* journal[u]: lines written to u
  docker,    \* docker[c]: the times of c's lines
  ms,        \* the clock
  emitted,   \* lines written so far, to any source
  cursor,    \* log_cursors
  copies,    \* copies[s][n]: rows of line n of s in log_lines, 2 for more
  puller,    \* puller[p]: where worker p is
  faults,
  shared,    \* sources whose cursor moved under a worker that had read it (a history)
  from,      \* from[u]: first line of the latest backfill of u (a history)
  tailed,    \* tailed[c]: lines cut off by tail or the look-back (a history)
  marks      \* marks[c]: every watermark of c (a history)

sourceVars == <<journal, docker, ms, emitted>>
tableVars == <<cursor, copies>>
logHistory == <<shared, from, tailed, marks>>
logVars == <<sourceVars, tableVars, puller, faults, logHistory>>

Idle == [at |-> "idle", todo |-> <<>>, now |-> 0, state |-> NoCursor, lines |-> {}, next |-> NoCursor]

LogInit ==
  /\ journal = [u \in Units |-> 0]
  /\ docker = [c \in Containers |-> <<>>]
  /\ ms = 0 /\ emitted = 0
  /\ cursor = [s \in Sources |-> NoCursor]
  /\ copies = [s \in Sources |-> [n \in 1 .. MaxLines |-> 0]]
  /\ puller = [p \in Pullers |-> Idle]
  /\ faults = 0
  /\ shared = {}
  /\ from = [u \in Units |-> 1]
  /\ tailed = [c \in Containers |-> {}]
  /\ marks = [c \in Containers |-> {}]

-----------------------------------------------------------------------------
(* The sources. *)

Emits == emitted < MaxLines /\ emitted' = emitted + 1

WriteJournal(u) ==
  /\ Emits
  /\ journal' = [journal EXCEPT ![u] = @ + 1]
  /\ UNCHANGED <<docker, ms, tableVars, puller, faults, logHistory>>

WriteDocker(c) ==
  /\ Emits
  /\ docker' = [docker EXCEPT ![c] = Append(@, ms)]
  /\ UNCHANGED <<journal, ms, tableVars, puller, faults, logHistory>>

MsPasses ==
  /\ ms < MaxMs /\ ms' = ms + 1
  /\ UNCHANGED <<journal, docker, emitted, tableVars, puller, faults, logHistory>>

\* GET /logs/journal, /logs/auth, /logs/kernel: the newest lines without a
\* cursor, the first ones after it otherwise.
JournalAnswer(u, after) ==
  LET first == IF after = NoCursor THEN journal[u] - Window + 1 ELSE after + 1
      last == IF after = NoCursor THEN journal[u] ELSE after + Window
      lines == {n \in 1 .. journal[u] : n >= first /\ n <= last}
  IN  [lines |-> lines,
       cursor |-> IF lines = {} THEN after
                  ELSE IF last < journal[u] THEN last ELSE journal[u]]

\* GET /logs/docker: the newest lines of those since a second.
DockerAnswer(c, since) ==
  {n \in DOMAIN docker[c] : docker[c][n] \div Second >= since /\ n > Len(docker[c]) - Window}

-----------------------------------------------------------------------------
(* A pull. *)

Goes(p, step) == puller' = [puller EXCEPT ![p] = step]
TaskOf(p) == Head(puller[p].todo)
PullerAt(p, step) == puller[p].at = step

\* The source is left, pulled or not; after the last one the pull is over (the
\* flush of the worker's own lines finds none), and so is a worker of one pass.
Ended(p) == IF p \in OnePass THEN [Idle EXCEPT !.at = "gone"] ELSE Idle
Leave(p) ==
  IF Len(puller[p].todo) = 1 THEN Ended(p)
  ELSE [puller[p] EXCEPT !.at = "next", !.todo = Tail(@), !.state = NoCursor, !.lines = {}, !.next = NoCursor]

\* The tasks: the fixed journals, then the containers of the latest snapshot.
PullBegins(p) ==
  /\ PullerAt(p, "idle")
  /\ \E names \in SUBSET Containers :
       Goes(p, [Idle EXCEPT !.at = "next", !.now = ms \div Second,
                            !.todo = JournalUnits \o SetToSeq(names)])
  /\ UNCHANGED <<sourceVars, tableVars, faults, logHistory>>

LoadCursor(p) ==
  /\ PullerAt(p, "next")
  /\ Goes(p, [puller[p] EXCEPT !.at = "fetch", !.state = cursor[TaskOf(p)]])
  /\ UNCHANGED <<sourceVars, tableVars, faults, logHistory>>

\* A slip: nothing to store means nothing to do.
PullJournalNoBlank(p) ==
  /\ PullerAt(p, "fetch") /\ TaskOf(p) \in Units
  /\ LET answer == JournalAnswer(TaskOf(p), puller[p].state)
         lines == answer.lines \ Blank
     IN  IF lines = {} THEN Goes(p, Leave(p))
         ELSE Goes(p, [puller[p] EXCEPT !.at = "commit", !.lines = lines, !.next = answer.cursor])
  /\ UNCHANGED <<sourceVars, tableVars, faults, logHistory>>

\* Entries without a message are dropped; the cursor passes them.
PullJournal(p) ==
  /\ PullerAt(p, "fetch") /\ TaskOf(p) \in Units
  /\ LET answer == JournalAnswer(TaskOf(p), puller[p].state)
         lines == answer.lines \ Blank
     IN  IF lines = {} /\ answer.cursor = puller[p].state
         THEN Goes(p, Leave(p))
         ELSE Goes(p, [puller[p] EXCEPT !.at = "commit", !.lines = lines, !.next = answer.cursor])
  /\ UNCHANGED <<sourceVars, tableVars, faults, logHistory>>

\* A slip: what shares the watermark's millisecond is taken again.
FreshOrEqual(c, lines, mark) == IF mark = NoCursor THEN lines ELSE {n \in lines : docker[c][n] >= mark}

Fresh(c, lines, mark) == IF mark = NoCursor THEN lines ELSE {n \in lines : docker[c][n] > mark}

Since(now, mark) == IF mark = NoCursor THEN now - Lookback ELSE mark \div Second

Newest(c, lines) == CHOOSE t \in {docker[c][n] : n \in lines} : \A n \in lines : docker[c][n] <= t

PullDocker(p) ==
  /\ PullerAt(p, "fetch") /\ TaskOf(p) \in Containers
  /\ LET c == TaskOf(p)
         mark == puller[p].state
         answer == DockerAnswer(c, Since(puller[p].now, mark))
         lines == Fresh(c, answer, mark)
     IN  IF lines = {} THEN Goes(p, Leave(p))
         ELSE Goes(p, [puller[p] EXCEPT !.at = "commit", !.lines = lines, !.next = Newest(c, lines)])
  /\ UNCHANGED <<sourceVars, tableVars, faults, logHistory>>

\* One transaction inserts the lines and moves the cursor.  (An answer that is
\* lost leaves the source like one that comes.)
CommitBatch(p) ==
  LET s == TaskOf(p)
      read == puller[p].lines
      seen == {q \in Pullers \ {p} : puller[q].at \in {"fetch", "commit"} /\ TaskOf(q) = s}
  IN
  /\ PullerAt(p, "commit")
  /\ copies' = [copies EXCEPT ![s] =
                  [n \in 1 .. MaxLines |-> IF n \in read /\ @[n] < 2 THEN @[n] + 1 ELSE @[n]]]
  /\ cursor' = [cursor EXCEPT ![s] = puller[p].next]
  /\ Goes(p, Leave(p))
  /\ shared' = IF seen # {} THEN shared \cup {s} ELSE shared
  /\ from' = IF s \in Units /\ puller[p].state = NoCursor /\ puller[p].next - Window + 1 > from[s]
             THEN [from EXCEPT ![s] = puller[p].next - Window + 1] ELSE from
  /\ tailed' = IF s \in Containers
               THEN [tailed EXCEPT ![s] = @ \cup {n \in DOMAIN docker[s] : \A r \in read : n < r /\ copies[s][n] = 0}]
               ELSE tailed
  /\ marks' = IF s \in Containers THEN [marks EXCEPT ![s] = @ \cup {puller[p].next}] ELSE marks
  /\ UNCHANGED <<sourceVars, faults>>

\* A call of a task fails, or the agent answers with an error: the task is
\* given up and the next one begins.
TaskFails(p) ==
  /\ faults < MaxLogFaults /\ faults' = faults + 1
  /\ puller[p].todo # <<>>
  /\ Goes(p, Leave(p))
  /\ UNCHANGED <<sourceVars, tableVars, logHistory>>

\* The process dies.
PullerDies(p) ==
  /\ faults < MaxLogFaults /\ faults' = faults + 1
  /\ puller[p].at \notin {"idle", "gone"}
  /\ Goes(p, Idle)
  /\ UNCHANGED <<sourceVars, tableVars, logHistory>>

PullStep(p) == PullBegins(p) \/ LoadCursor(p) \/ PullJournal(p) \/ PullDocker(p) \/ CommitBatch(p)

LogNext ==
  \/ \E u \in Units : WriteJournal(u)
  \/ \E c \in Containers : WriteDocker(c)
  \/ MsPasses
  \/ \E p \in Pullers : PullStep(p) \/ TaskFails(p) \/ PullerDies(p)

LogSpec == LogInit /\ [][LogNext]_logVars

-----------------------------------------------------------------------------
(* Properties. *)

PullerType ==
  [at : {"idle", "next", "fetch", "commit", "gone"}, todo : Seq(Sources), now : Nat,
   state : Cursors \cup {NoCursor}, lines : SUBSET (1 .. MaxLines), next : Cursors \cup {NoCursor}]

LogTypes ==
  /\ journal \in [Units -> 0 .. MaxLines]
  /\ docker \in [Containers -> Seq(0 .. MaxMs)] /\ \A c \in Containers : Len(docker[c]) <= MaxLines
  /\ ms \in 0 .. MaxMs /\ emitted \in 0 .. MaxLines
  /\ cursor \in [Sources -> Cursors \cup {NoCursor}]
  /\ copies \in [Sources -> [1 .. MaxLines -> 0 .. 2]]
  /\ puller \in [Pullers -> PullerType]
  /\ faults \in 0 .. MaxLogFaults
  /\ shared \subseteq Sources
  /\ from \in [Units -> Int]
  /\ tailed \in [Containers -> SUBSET (1 .. MaxLines)]
  /\ marks \in [Containers -> SUBSET (0 .. MaxMs)]

\* Whatever call fails and whenever the worker dies, no line is stored twice,
\* except in a source that two workers pulled at the same time.
StoredOnce == \A s \in Sources \ shared : \A n \in 1 .. MaxLines : copies[s][n] <= 1

\* A cursor never passes a line that is not stored.  A journal may lack what its
\* first pull left out; a container what tail cut off, and what was written in
\* the millisecond of a watermark.
NothingSkipped ==
  /\ \A u \in Units : cursor[u] # NoCursor =>
       \A n \in (1 .. cursor[u]) \ Blank : n >= from[u] => copies[u][n] > 0
  /\ \A c \in Containers : cursor[c] # NoCursor =>
       \A n \in DOMAIN docker[c] : docker[c][n] <= cursor[c] =>
         copies[c][n] > 0 \/ n \in tailed[c] \/ docker[c][n] \in marks[c]

\* Nothing is stored twice, and nothing is left behind.
EachLineOnce == StoredOnce /\ NothingSkipped

\* Again and again every line written to a journal is stored, whatever failed meanwhile:
\* no line waits for ever.
EveryLineStored ==
  []<>(\A u \in Units : \A n \in (1 .. journal[u]) \ Blank : copies[u][n] > 0 \/ n < from[u])
=============================================================================
