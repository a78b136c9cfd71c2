----------------------------- MODULE LogViewer -----------------------------
(***************************************************************************)
(* The log page of a browser tab (components/logs/log-viewer.tsx) and the  *)
(* query behind it (app/api/logs/).  The worker inserts lines meanwhile,   *)
(* with the time they were written at, which may be older than that of     *)
(* lines already stored.  A request is read by the server and answered to  *)
(* the tab in two steps, and answers come in any order.                    *)
(***************************************************************************)
EXTENDS Integers, Sequences, FiniteSets, SequencesExt

CONSTANTS
  LineTags,    \* what the lines are, in the order they are stored
  Filters,     \* sets of tags: a filter shows the lines of its tags
  Page,        \* PAGE
  Cap,         \* the lines a tab keeps: 2000
  MaxLineTime, \* bound on their times
  MaxFlight    \* bound on the requests under way

ASSUME LogViewerAssumption ==
  /\ Filters \subseteq SUBSET ToSet(LineTags) /\ ToSet(LineTags) \in Filters
  /\ {Page, Cap, MaxFlight} \subseteq Nat \ {0} /\ MaxLineTime \in Nat

VARIABLES
  stored,   \* log_lines
  filter,   \* the filters chosen
  shown,    \* rows, newest first
  newest,   \* newestRef, {} for null
  older,    \* olderCursor, {} for null
  flight,   \* the requests under way
  late,     \* lines stored after a line that is newer (a history)
  cut,      \* lines shown and cut off at the end (a history)
  mixed     \* the filter was changed, or a stray answer taken in, since the last first page (a history)

viewHistory == <<late, cut, mixed>>
viewVars == <<stored, filter, shown, newest, older, flight, viewHistory>>

ViewInit ==
  /\ stored = {} /\ filter = ToSet(LineTags)
  /\ shown = <<>> /\ newest = {} /\ older = {}
  /\ flight = {[kind |-> "first", filter |-> filter, from |-> {}, rows |-> {}]}
  /\ late = {} /\ cut = {} /\ mixed = FALSE

\* (ts, id) > (ts, id)
After(x, y) == x.ts > y.ts \/ (x.ts = y.ts /\ x.id > y.id)
NewestFirst(lines) ==
  {seq \in [1 .. Cardinality(lines) -> lines] :
     ToSet(seq) = lines /\ \A i, j \in DOMAIN seq : i < j => After(seq[i], seq[j])}
Cursor(seq, i) == IF seq = <<>> THEN {} ELSE {seq[i]}

-----------------------------------------------------------------------------
(* The server. *)

StoreLine ==
  /\ Cardinality(stored) < Len(LineTags)
  /\ \E ts \in 1 .. MaxLineTime :
       LET id == Cardinality(stored) + 1
           line == [id |-> id, ts |-> ts, tag |-> LineTags[id]]
       IN  /\ stored' = stored \cup {line}
           /\ late' = IF \E x \in stored : After(x, line) THEN late \cup {line} ELSE late
  /\ UNCHANGED <<filter, shown, newest, older, flight, cut, mixed>>

Matching(q) ==
  {x \in stored : /\ x.tag \in q.filter
                  /\ q.kind = "tail" => \A y \in q.from : After(x, y)
                  /\ q.kind = "older" => \A y \in q.from : After(y, x)}

\* A slip: the newest page of what is new, whatever is between it and the tab's newest.
NewestOnly(q) ==
  {x \in Matching(q) : Cardinality({y \in Matching(q) : After(y, x)}) < Page}

\* order by ts, id, the oldest first for a tail, and limit.
Selected(q) ==
  {x \in Matching(q) : Cardinality({y \in Matching(q) : IF q.kind = "tail" THEN After(x, y) ELSE After(y, x)}) < Page}

RunLogQuery(q) ==
  /\ q \in flight /\ q.rows = {}
  /\ \E rows \in NewestFirst(Selected(q)) : flight' = (flight \ {q}) \cup {[q EXCEPT !.rows = {rows}]}
  /\ UNCHANGED <<stored, filter, shown, newest, older, viewHistory>>

-----------------------------------------------------------------------------
(* The tab. *)

Sends(kind, f, from) == flight' = flight \cup {[kind |-> kind, filter |-> f, from |-> from, rows |-> {}]}
MayAsk == Cardinality(flight) < MaxFlight

SetFilter(f) ==
  /\ MayAsk /\ f # filter
  /\ filter' = f /\ Sends("first", f, {})
  /\ mixed' = TRUE
  /\ UNCHANGED <<stored, shown, newest, older, late, cut>>

\* The timer of the live tail: what is newer than the newest line, or the first page.
Tick ==
  /\ MayAsk
  /\ IF newest = {} THEN Sends("first", filter, {}) ELSE Sends("tail", filter, newest)
  /\ UNCHANGED <<stored, filter, shown, newest, older, viewHistory>>

\* loadingOlder lets one of these be under way.
LoadOlder ==
  /\ MayAsk /\ older # {} /\ \A q \in flight : q.kind # "older"
  /\ Sends("older", filter, older)
  /\ UNCHANGED <<stored, filter, shown, newest, older, viewHistory>>

Arrives(q, rows) == q \in flight /\ rows \in q.rows /\ flight' = flight \ {q}

\* Nothing tells the tab that an answer is to an earlier filter, or continues a page
\* that is no longer shown.
Strays(q) ==
  \/ q.filter # filter
  \/ q.kind = "tail" /\ newest # {} /\ \A x \in q.from, y \in newest : After(x, y)
  \/ q.kind = "older" /\ q.from # older
Mixes(q) == mixed' = (mixed \/ Strays(q))

\* setRows, setOlderCursor, newestRef: the page takes the place of everything.
FirstArrives(q, rows) ==
  /\ q.kind = "first" /\ Arrives(q, rows)
  /\ shown' = rows /\ newest' = Cursor(rows, 1) /\ older' = Cursor(rows, Len(rows))
  /\ cut' = {} /\ mixed' = Strays(q)
  /\ UNCHANGED <<stored, filter, late>>

TailFromFirst(q, rows) == newest' = Cursor(rows, 1)

\* Prepended, and the end cut off; an empty answer changes nothing.
TailArrives(q, rows) ==
  /\ q.kind = "tail" /\ Arrives(q, rows)
  /\ IF rows = <<>> THEN UNCHANGED <<shown, newest, cut, mixed>>
     ELSE LET all == rows \o shown
              n == IF Len(all) < Cap THEN Len(all) ELSE Cap
          IN  /\ shown' = SubSeq(all, 1, n) /\ TailFromFirst(q, rows)
              /\ cut' = cut \cup ToSet(SubSeq(all, n + 1, Len(all)))
              /\ Mixes(q)
  /\ UNCHANGED <<stored, filter, older, late>>

\* Appended, and not cut.
OlderArrives(q, rows) ==
  /\ q.kind = "older" /\ Arrives(q, rows)
  /\ shown' = shown \o rows /\ older' = Cursor(rows, Len(rows))
  /\ Mixes(q)
  /\ UNCHANGED <<stored, filter, newest, late, cut>>

\* The request fails: the error is shown, or nothing.
AskFails(q) ==
  /\ q \in flight /\ flight' = flight \ {q}
  /\ UNCHANGED <<stored, filter, shown, newest, older, viewHistory>>

ViewNext ==
  \/ StoreLine
  \/ \E f \in Filters : SetFilter(f)
  \/ Tick \/ LoadOlder
  \/ \E q \in flight :
       \/ RunLogQuery(q) \/ AskFails(q)
       \/ \E rows \in q.rows : FirstArrives(q, rows) \/ TailArrives(q, rows) \/ OlderArrives(q, rows)

ViewSpec == ViewInit /\ [][ViewNext]_viewVars

-----------------------------------------------------------------------------
(* Properties. *)

ViewTypes ==
  /\ filter \in Filters /\ \A x \in stored : x.tag = LineTags[x.id]
  /\ ToSet(shown) \cup newest \cup older \cup late \cup cut \subseteq stored
  /\ Cardinality(flight) <= MaxFlight /\ mixed \in BOOLEAN

\* The page has no holes: unless an answer to an earlier filter was taken in, it shows
\* every line of the filter between its oldest and its newest one, but those stored
\* late and those cut off, in whatever order answers of the tail come in.
NoHoles ==
  ~mixed =>
    \A x \in stored \ (late \cup cut) :
      /\ x.tag \in filter
      /\ \E y \in newest : ~After(x, y)
      /\ \E z \in ToSet(shown) : ~After(z, x)
      => x \in ToSet(shown)
=============================================================================
