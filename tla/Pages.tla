------------------------------- MODULE Pages -------------------------------
(***************************************************************************)
(* What an open page shows of what it polls: the panels                    *)
(* (components/panels/use-panel-data.ts) with the live values laid over    *)
(* them (lib/panels/*-merge.ts), the badge of the shell and the alerts     *)
(* page with its acknowledgements (components/alerts/alerts-view.tsx), and *)
(* the routes that answer them.  Timers do not wait for answers, a fetch   *)
(* has no timeout, and answers come in any order.                          *)
(*                                                                         *)
(* A behaviour follows one view of one tab and one thing it shows.  What   *)
(* is served of it is known by the time the server read it.                *)
(***************************************************************************)
EXTENDS Integers, FiniteSets

CONSTANTS
  Followed,      \* the views that are followed
  RefetchEvery,  \* the interval of a view's timer
  InTime,        \* how long a request may take and be called answered in time
  FeedWindow,    \* how old the last frame can be of a feed that is live and heard
  NoData,
  MaxPageTime,   \* bound on the clock
  MaxFetches,    \* bound on the requests under way
  MaxPageFaults  \* bound on failing fetches and reloads

-----------------------------------------------------------------------------
(* The views: which live values are laid over what they poll, and whether   *)
(* their first data come with the page.                                     *)

Polled(feed) == [feed |-> feed, rendered |-> FALSE]
OverviewPanel == Polled("none")
MachinesPanel == Polled("none")
StoragePanel == Polled("none")
StreamsPanel == Polled("none")
ArrPanel == Polled("none")
RecentlyAddedPanel == Polled("none")
DashboardRail == Polled("none")
LiveAlertCount == Polled("none")
DownloadsPanel == Polled("downloads")
TdarrPanel == Polled("governor")
AlertsView == [feed |-> "none", rendered |-> TRUE]

Views ==
  [overview |-> OverviewPanel, machines |-> MachinesPanel, storage |-> StoragePanel,
   streams |-> StreamsPanel, arr |-> ArrPanel, recent |-> RecentlyAddedPanel,
   rail |-> DashboardRail, badge |-> LiveAlertCount, downloads |-> DownloadsPanel,
   tdarr |-> TdarrPanel, alerts |-> AlertsView]

ASSUME PagesAssumption ==
  /\ Followed \subseteq DOMAIN Views
  /\ {InTime, FeedWindow, MaxPageTime, MaxFetches, MaxPageFaults} \subseteq Nat
  /\ RefetchEvery \in Nat /\ InTime < RefetchEvery /\ FeedWindow <= RefetchEvery + InTime

VARIABLES
  view,
  pageClock,
  subject,    \* what is shown, as the server has it: whether it is there, whether acked
  refetchAt,  \* when the timer fires next
  fetches,    \* the requests under way
  data,       \* what the page has
  feed,       \* the telemetry context: live, when the slice of its last frame was taken, if it has it,
              \* and whether its connection is cut off without the tab knowing, as in Telemetry
  pageFaults,
  behind,     \* a fetch failed, or came late, after the last poll in time (a history)
  toldAt,     \* when the page was told that it has acked, or NoData (a history)
  misled      \* the last list taken in was read before that acknowledgement (a history)

pageHistory == <<behind, toldAt, misled>>
tabVars == <<refetchAt, fetches, data, pageHistory>>
pageVars == <<view, pageClock, subject, tabVars, feed, pageFaults>>

Unread == -1
ViewKind == Views[view]
Served == [at |-> pageClock, there |-> subject.there, acked |-> subject.acked]

\* What mounts loads at once; the alerts page has its first data and waits an interval.
FirstRefetch == IF ViewKind.rendered THEN pageClock + RefetchEvery ELSE pageClock
FirstData == IF ViewKind.rendered THEN Served ELSE NoData

PageInit ==
  /\ view \in Followed
  /\ pageClock = 0
  /\ subject = [there |-> ViewKind.rendered, acked |-> FALSE]
  /\ refetchAt = FirstRefetch /\ data = FirstData
  /\ fetches = {}
  /\ feed = [live |-> FALSE, slice |-> NoData, cut |-> FALSE]
  /\ pageFaults = 0
  /\ behind = FALSE /\ toldAt = NoData /\ misled = FALSE

-----------------------------------------------------------------------------
(* The world: the clock, the server's rows, the feed as Telemetry has it.   *)

\* A feed that is heard renews its slice or is told to be silent; one that is cut off
\* is not told anything, and the tab does not ask.
PageClockTicks ==
  /\ pageClock < MaxPageTime /\ pageClock' = pageClock + 1
  /\ refetchAt > pageClock
  /\ feed.live /\ feed.slice # NoData /\ ~feed.cut => pageClock - feed.slice < FeedWindow
  /\ UNCHANGED <<view, subject, tabVars, feed, pageFaults>>

\* A panel's first row is stored and stays; an alert is acked elsewhere, or resolved for good.
SubjectChanges ==
  /\ \/ ~ViewKind.rendered /\ ~subject.there /\ subject' = [subject EXCEPT !.there = TRUE]
     \/ ViewKind.rendered /\ subject.there /\ subject' = [subject EXCEPT !.there = FALSE]
     \/ ViewKind.rendered /\ subject.there /\ ~subject.acked /\ subject' = [subject EXCEPT !.acked = TRUE]
  /\ UNCHANGED <<view, pageClock, tabVars, feed, pageFaults>>

FeedFrame ==
  /\ ViewKind.feed # "none" /\ ~feed.cut
  /\ \E slice \in {pageClock, NoData} : feed' = [live |-> TRUE, slice |-> slice, cut |-> FALSE]
  /\ UNCHANGED <<view, pageClock, subject, tabVars, pageFaults>>

\* The connection drops without a close frame.
FeedCutOff ==
  /\ feed.live /\ ~feed.cut /\ feed' = [feed EXCEPT !.cut = TRUE]
  /\ UNCHANGED <<view, pageClock, subject, tabVars, pageFaults>>

\* The server says that the feed is silent, or the socket goes down, a cut one late or never.
FeedEnds ==
  /\ feed.live /\ feed' = [feed EXCEPT !.live = FALSE, !.cut = FALSE]
  /\ UNCHANGED <<view, pageClock, subject, tabVars, pageFaults>>

PageFault == pageFaults < MaxPageFaults /\ pageFaults' = pageFaults + 1

-----------------------------------------------------------------------------
(* Polling. *)

NewFetch(kind) == [kind |-> kind, sent |-> pageClock, read |-> Unread, saw |-> NoData]
Room == Cardinality(fetches) < MaxFetches
Late(q) == pageClock - q.sent > InTime

\* load and its interval; a request under way does not hold it up.
Refetch ==
  /\ refetchAt = pageClock /\ Room
  /\ fetches' = fetches \cup {NewFetch("poll")}
  /\ refetchAt' = refetchAt + RefetchEvery
  /\ UNCHANGED <<view, pageClock, subject, data, feed, pageFaults, pageHistory>>

\* GET: the newest rows, or the open alerts.
GetAnswers(q) ==
  /\ q.kind \in {"poll", "refresh"} /\ q.read = Unread
  /\ fetches' = (fetches \ {q}) \cup {[q EXCEPT !.read = pageClock, !.saw = subject]}
  /\ UNCHANGED <<view, pageClock, subject, refetchAt, data, feed, pageFaults, pageHistory>>

\* The answer is taken in, whatever came before it.
ListArrives(q) ==
  /\ q.kind \in {"poll", "refresh"} /\ q.read # Unread
  /\ fetches' = fetches \ {q}
  /\ data' = [at |-> q.read, there |-> q.saw.there, acked |-> q.saw.acked]
  /\ behind' = (Late(q) \/ (behind /\ q.kind = "refresh"))
  /\ misled' = (toldAt # NoData /\ ~q.saw.acked)
  /\ UNCHANGED <<view, pageClock, subject, refetchAt, feed, pageFaults, toldAt>>

\* The last good payload is kept.
FetchFails(q) ==
  /\ q.kind \in {"poll", "refresh"} /\ PageFault
  /\ fetches' = fetches \ {q}
  /\ behind' = TRUE
  /\ UNCHANGED <<view, pageClock, subject, refetchAt, data, feed, toldAt, misled>>

\* What is unmounted takes in no answer any more.
PageReloads ==
  /\ PageFault
  /\ subject.there \/ ~ViewKind.rendered
  /\ refetchAt' = FirstRefetch /\ data' = FirstData /\ fetches' = {}
  /\ behind' = FALSE /\ toldAt' = NoData /\ misled' = FALSE
  /\ UNCHANGED <<view, pageClock, subject, feed>>

-----------------------------------------------------------------------------
(* Acknowledging. *)

Ack ==
  /\ ViewKind.rendered /\ Room /\ data.there /\ ~data.acked
  /\ \A q \in fetches : q.kind # "ack"
  /\ fetches' = fetches \cup {NewFetch("ack")}
  /\ UNCHANGED <<view, pageClock, subject, refetchAt, data, feed, pageFaults, pageHistory>>

\* POST: the update, unless the alert is resolved.
PostAcks(q) ==
  /\ q.kind = "ack" /\ q.read = Unread
  /\ subject' = [subject EXCEPT !.acked = @ \/ subject.there]
  /\ fetches' = (fetches \ {q}) \cup {[q EXCEPT !.read = pageClock, !.saw = subject']}
  /\ UNCHANGED <<view, pageClock, refetchAt, data, feed, pageFaults, pageHistory>>

\* setActive, and a refresh of what the server renders.
AckArrives(q) ==
  /\ q.kind = "ack" /\ q.read # Unread
  /\ IF q.saw.there
     THEN /\ data' = [data EXCEPT !.acked = TRUE]
          /\ fetches' = (fetches \ {q}) \cup {NewFetch("refresh")}
          /\ toldAt' = pageClock /\ misled' = FALSE
     ELSE fetches' = fetches \ {q} /\ UNCHANGED <<data, toldAt, misled>>
  /\ UNCHANGED <<view, pageClock, subject, refetchAt, feed, pageFaults, behind>>

AckFails(q) ==
  /\ q.kind = "ack" /\ PageFault
  /\ fetches' = fetches \ {q}
  /\ UNCHANGED <<view, pageClock, subject, refetchAt, data, feed, pageHistory>>

PageNext ==
  \/ PageClockTicks \/ SubjectChanges \/ FeedFrame \/ FeedCutOff \/ FeedEnds
  \/ Refetch \/ PageReloads \/ Ack
  \/ \E q \in fetches : \/ GetAnswers(q) \/ ListArrives(q) \/ FetchFails(q)
                        \/ PostAcks(q) \/ AckArrives(q) \/ AckFails(q)

PageSpec == PageInit /\ [][PageNext]_pageVars

-----------------------------------------------------------------------------
(* What is shown, as the time it is of; NoData for nothing of it. *)

\* A slip: the last frame's slice, live or not.
LastSlice == feed.slice # NoData
\* The hooks: the slice of the last frame, while live.
LiveSlice == feed.live /\ feed.slice # NoData

\* What comes with polls alone: all of a panel that has no feed, and where live values are
\* laid over it the queue's counts, totals, categories and series of the downloads, and the
\* nodes and figures of Tdarr.  Before the first answer there is a message, or a zero.
PolledAt == IF data # NoData /\ data.there THEN data.at ELSE NoData

\* mergeGovernor: the live one, or the polled one, if any.
MergeGovernor == IF LiveSlice THEN feed.slice ELSE PolledAt

\* mergeDownloads: live speeds, queue and items are laid over a client that the polled data have.
MergeDownloads == IF PolledAt = NoData THEN NoData ELSE IF LiveSlice THEN feed.slice ELSE PolledAt

\* What live values are laid over, which is as old as they are; there is none before the
\* first answer, live or not.
OverlaidAt ==
  CASE data # NoData /\ ViewKind.feed = "governor" -> MergeGovernor
    [] data # NoData /\ ViewKind.feed = "downloads" -> MergeDownloads
    [] OTHER -> PolledAt

-----------------------------------------------------------------------------
(* Properties. *)

PageTypes ==
  /\ view \in Followed /\ pageClock \in 0 .. MaxPageTime /\ pageFaults \in 0 .. MaxPageFaults
  /\ subject \in [there : BOOLEAN, acked : BOOLEAN]
  /\ \A q \in fetches : q.kind \in {"poll", "refresh", "ack"} /\ q.read \in Unread .. MaxPageTime
  /\ data = NoData \/ data \in [at : 0 .. MaxPageTime, there : BOOLEAN, acked : BOOLEAN]
  /\ feed.live \in BOOLEAN /\ feed.cut \in BOOLEAN /\ (feed.slice = NoData \/ feed.slice \in 0 .. MaxPageTime)
  /\ {behind, misled} \subseteq BOOLEAN

\* The page is answered in time.
Answered == ~behind /\ \A q \in fetches : q.kind = "ack" \/ ~Late(q)

\* A poll answers in time; a refresh can put an answer in its place that is older by a request.
Slack == IF ViewKind.rendered THEN 2 * InTime ELSE InTime

\* Nothing is older than the page's interval and a request (two where acknowledging refreshes):
\* what it polls, while fetches are answered in time; what live values are laid over, while
\* the feed that it takes them from is heard, or else while fetches are answered in time.  So
\* it is however answers overtake each other and wherever the feed comes and goes.  (Of a feed
\* that is cut off and still called live nothing can be said: its slice is preferred at any
\* age, however well the polls are answered.)
Recent(at) == pageClock - at <= RefetchEvery + Slack
ShowsNothingOld ==
  /\ PolledAt # NoData /\ Answered => Recent(PolledAt)
  /\ OverlaidAt # NoData /\ (IF LiveSlice THEN ~feed.cut ELSE Answered) => Recent(OverlaidAt)

\* Once the page knows that it has acked, it shows the alert as not acked only if a
\* list that was read before came after, and not beyond the next list in time.
AckStaysShown ==
  toldAt # NoData /\ data.there /\ ~data.acked =>
    misled /\ (Answered => pageClock - toldAt <= RefetchEvery + InTime)

PageKeepsUp == ShowsNothingOld /\ AckStaysShown
=============================================================================
