---------------------------- MODULE BrowserProofs ----------------------------
(***************************************************************************)
(* What an open tab shows and sends: its log page has no holes, its other  *)
(* pages keep up with what they poll, and it waits for one confirmed       *)
(* action at a time; for any lines, pages, intervals and actions.  Last,   *)
(* what is proved of each part by itself, lifted to the parts together.    *)
(***************************************************************************)
EXTENDS StackDashboard, PeopleProofs, ActionsProofs, IngestionProofs, FiniteSetTheorems, SequenceTheorems, TLAPS

-----------------------------------------------------------------------------
(* The runner. *)

\* While the runner is not busy nothing confirmed is under way; what is, is one.
Confirmed == {m \in waiting : m[3] = TRUE}
BusyInv ==
  /\ \A m \in waiting : m[3] \in BOOLEAN
  /\ busy = FALSE => Confirmed = {}
  /\ \A m, n \in Confirmed : m = n

LEMMA BusyInit == RunnerInit => BusyInv
BY DEF RunnerInit, BusyInv, Confirmed

\* A post that its dialog did not confirm changes nothing of this.
LEMMA SafePostHarmless == ASSUME BusyInv, NEW a, RunSafe(a) PROVE BusyInv'
<1> DEFINE m == <<posted + 1, a, FALSE>>
<1>1. m[3] = FALSE
  OBVIOUS
<1>2. waiting' = waiting \cup {m} /\ busy' = busy
  BY DEF RunSafe, PostOf
<1>3. Confirmed' = Confirmed
  BY <1>1, <1>2 DEF Confirmed
<1>4. \A n \in waiting' : n[3] \in BOOLEAN
  BY <1>1, <1>2 DEF BusyInv
<1>. QED BY <1>2, <1>3, <1>4 DEF BusyInv

\* A confirmed post is sent only when none is under way.
LEMMA ConfirmedPostAlone == ASSUME BusyInv, Execute PROVE BusyInv'
<1> DEFINE m == <<posted + 1, pending, TRUE>>
<1>1. m[3] = TRUE
  OBVIOUS
<1>2. waiting' = waiting \cup {m} /\ busy' = TRUE /\ ~busy
  BY DEF Execute, PostOf
<1>3. Confirmed = {}
  BY <1>2 DEF BusyInv, Execute
<1>4. Confirmed' = {m}
  BY <1>1, <1>2, <1>3 DEF Confirmed
<1>5. \A n \in waiting' : n[3] \in BOOLEAN
  BY <1>1, <1>2 DEF BusyInv
<1>. QED BY <1>2, <1>4, <1>5 DEF BusyInv

\* The answer that ends the wait is the one that was waited for.
LEMMA AnswerEndsWait == ASSUME BusyInv, NEW m, AnswerComes(m) PROVE BusyInv'
<1>1. m \in waiting /\ waiting' = waiting \ {m} /\ Confirmed' = Confirmed \ {m}
  BY DEF AnswerComes, Confirmed
<1>2. CASE m[3] = TRUE
  <2>1. m \in Confirmed /\ busy' = FALSE
    BY <1>1, <1>2 DEF AnswerComes, Confirmed
  <2>2. Confirmed' = {}
    BY <1>1, <2>1 DEF BusyInv
  <2>. QED BY <1>1, <2>1, <2>2 DEF BusyInv
<1>3. CASE m[3] = FALSE
  <2>1. busy' = busy /\ Confirmed' = Confirmed
    BY <1>1, <1>3 DEF AnswerComes, Confirmed
  <2>. QED BY <1>1, <2>1 DEF BusyInv
<1>. QED BY <1>1, <1>2, <1>3 DEF BusyInv

LEMMA BusyStep == BusyInv /\ [RunnerNext]_runnerVars => BusyInv'
<1> SUFFICES ASSUME BusyInv, [RunnerNext]_runnerVars PROVE BusyInv'
  OBVIOUS
<1>1. ASSUME NEW a \in SafeActions, RunSafe(a) PROVE BusyInv'
  BY <1>1, SafePostHarmless
<1>2. ASSUME NEW a \in Dialogs, RunGated(a) PROVE BusyInv'
  BY <1>2 DEF RunGated, BusyInv, Confirmed
<1>3. CASE TypeConfirm
  BY <1>3 DEF TypeConfirm, BusyInv, Confirmed
<1>4. CASE Cancel
  BY <1>4 DEF Cancel, BusyInv, Confirmed
<1>5. CASE Execute
  BY <1>5, ConfirmedPostAlone
<1>6. CASE Reload
  BY <1>6 DEF Reload, BusyInv, Confirmed
<1>7. ASSUME NEW m \in waiting, AnswerComes(m) PROVE BusyInv'
  BY <1>7, AnswerEndsWait
<1>8. ASSUME NEW m \in waiting, FetchRejects(m) PROVE BusyInv'
  BY <1>8 DEF FetchRejects, BusyInv, Confirmed
<1>9. CASE UNCHANGED runnerVars
  BY <1>9 DEF runnerVars, BusyInv, Confirmed
<1>. QED BY <1>1, <1>2, <1>3, <1>4, <1>5, <1>6, <1>7, <1>8, <1>9 DEF RunnerNext

LEMMA OneIsConfirmed == BusyInv => OneAtATime
BY DEF BusyInv, OneAtATime, Confirmed

\* However dialogs are opened, cancelled and closed by answers meanwhile, the tab
\* waits for one confirmed action at a time (execute and its busy flag).
THEOREM OneConfirmedAtATime == RunnerSpec => []OneAtATime
<1>1. RunnerSpec => []BusyInv
  BY BusyInit, BusyStep, PTL DEF RunnerSpec
<1>. QED BY <1>1, OneIsConfirmed, PTL

-----------------------------------------------------------------------------
(* What pages show. *)

\* When the timer fired last.
LastPoll == refetchAt - RefetchEvery
PollUnderWay == \E q \in fetches : q.kind = "poll" /\ q.sent = LastPoll

FetchType ==
  [kind : {"poll", "refresh", "ack"}, sent : Nat, read : Int, saw : {NoData} \cup [there : BOOLEAN, acked : BOOLEAN]]

FeedType == [live : BOOLEAN, slice : {NoData} \cup Nat, cut : BOOLEAN]

TimesInv ==
  /\ view \in Followed /\ pageClock \in Nat
  /\ refetchAt \in Int /\ pageClock <= refetchAt /\ refetchAt <= pageClock + RefetchEvery
  /\ subject \in [there : BOOLEAN, acked : BOOLEAN]
  /\ fetches \subseteq FetchType
  /\ data = NoData \/ data \in [at : Nat, there : BOOLEAN, acked : BOOLEAN]
  /\ ViewKind.rendered => data \in [at : Nat, there : BOOLEAN, acked : BOOLEAN]
  /\ behind \in BOOLEAN /\ misled \in BOOLEAN /\ toldAt \in {NoData} \cup Nat
  /\ feed \in FeedType

FeedInv ==
  /\ feed.live => ViewKind.feed # "none"
  /\ feed.live /\ feed.slice # NoData /\ ~feed.cut => pageClock - feed.slice <= FeedWindow

\* A request is read after it is sent; polls are an interval apart.
FetchesInv ==
  \A q \in fetches :
    /\ q.sent <= pageClock
    /\ q.read # Unread => q.sent <= q.read /\ q.read <= pageClock /\ q.saw \in [there : BOOLEAN, acked : BOOLEAN]
    /\ q.kind = "poll" => q.sent = LastPoll \/ q.sent <= LastPoll - RefetchEvery
    /\ q.kind # "poll" => ViewKind.rendered

\* What is read after the acknowledgement shows it; lists that do not were read before.
AckedInv ==
  /\ \A q \in fetches :
       /\ q.kind = "refresh" => subject.acked /\ (q.read # Unread => q.saw.acked)
       /\ q.kind = "ack" /\ q.read # Unread /\ q.saw.there => subject.acked
  /\ toldAt # NoData =>
       /\ subject.acked /\ toldAt <= pageClock /\ ViewKind.rendered
       /\ \A q \in fetches : q.kind = "poll" /\ q.read # Unread /\ ~q.saw.acked => q.read <= toldAt
       /\ data.acked \/ misled
  /\ misled => toldAt # NoData /\ data.at <= toldAt

HasData == ViewKind.rendered \/ data # NoData

\* The data are those of the last poll, or of the one before while it is under way, or of a
\* refresh that came in after it.
FreshInv ==
  Answered /\ HasData =>
    LET oldest == IF PollUnderWay THEN LastPoll - RefetchEvery ELSE LastPoll
    IN  /\ data.at >= oldest \/ (ViewKind.rendered /\ data.at >= oldest - InTime)
        /\ misled => data.at >= oldest

PageInv == TimesInv /\ FeedInv /\ FetchesInv /\ AckedInv /\ FreshInv


LEMMA PageNumbers ==
  /\ RefetchEvery \in Nat /\ InTime \in Nat /\ InTime < RefetchEvery
  /\ FeedWindow \in Nat /\ FeedWindow <= RefetchEvery + InTime
BY PagesAssumption

LEMMA ViewFacts ==
  /\ view \in Followed => ViewKind.rendered \in BOOLEAN /\ ViewKind.feed \in {"none", "downloads", "governor"}
  /\ view' = view => ViewKind' = ViewKind
<1>1. Followed \subseteq {"overview", "machines", "storage", "streams", "arr", "recent", "rail", "badge", "downloads", "tdarr", "alerts"}
  BY PagesAssumption DEF Views
<1>2. ASSUME view \in Followed PROVE ViewKind.rendered \in BOOLEAN /\ ViewKind.feed \in {"none", "downloads", "governor"}
  <2>1. Views[view] \in {Polled("none"), Polled("downloads"), Polled("governor"), AlertsView}
    BY <1>1, <1>2 DEF Views, OverviewPanel, MachinesPanel, StoragePanel, StreamsPanel, ArrPanel,
                      RecentlyAddedPanel, DashboardRail, LiveAlertCount, DownloadsPanel, TdarrPanel
  <2>2. \A f : Polled(f).feed = f /\ Polled(f).rendered = FALSE BY DEF Polled
  <2>3. AlertsView.feed = "none" /\ AlertsView.rendered = TRUE BY DEF AlertsView
  <2>. QED BY <2>1, <2>2, <2>3 DEF ViewKind
<1>. QED BY <1>2 DEF ViewKind

LEMMA PageInitial == PageInit => PageInv
<1>. SUFFICES ASSUME PageInit PROVE PageInv OBVIOUS
<1>1. /\ view \in Followed /\ pageClock = 0 /\ subject = [there |-> ViewKind.rendered, acked |-> FALSE] /\ fetches = {}
      /\ feed = [live |-> FALSE, slice |-> NoData, cut |-> FALSE] /\ behind = FALSE /\ toldAt = NoData /\ misled = FALSE
      /\ refetchAt = (IF ViewKind.rendered THEN pageClock + RefetchEvery ELSE pageClock)
      /\ data = (IF ViewKind.rendered THEN [at |-> pageClock, there |-> subject.there, acked |-> subject.acked] ELSE NoData)
  BY DEF PageInit, FirstRefetch, FirstData, Served
<1>2. ViewKind.rendered \in BOOLEAN BY <1>1, ViewFacts
<1>3. TimesInv
  <2>1. subject \in [there : BOOLEAN, acked : BOOLEAN] /\ subject.there \in BOOLEAN /\ subject.acked \in BOOLEAN
    BY <1>1, <1>2
  <2>2. refetchAt \in Int /\ pageClock <= refetchAt /\ refetchAt <= pageClock + RefetchEvery
    BY <1>1, PageNumbers
  <2>3. /\ data = NoData \/ data \in [at : Nat, there : BOOLEAN, acked : BOOLEAN]
        /\ ViewKind.rendered => data \in [at : Nat, there : BOOLEAN, acked : BOOLEAN]
    <3>1. pageClock \in Nat BY <1>1
    <3>2. CASE ViewKind.rendered
      <4>1. data = [at |-> pageClock, there |-> subject.there, acked |-> subject.acked] BY <1>1, <3>2
      <4>. QED BY <2>1, <3>1, <4>1
    <3>3. CASE ~ViewKind.rendered BY <1>1, <3>3
    <3>. QED BY <3>2, <3>3
  <2>. QED BY <1>1, <2>1, <2>2, <2>3 DEF TimesInv, FeedType
<1>4. FeedInv /\ FetchesInv /\ AckedInv BY <1>1 DEF FeedInv, FetchesInv, AckedInv
<1>5. FreshInv
  <2>1. ~PollUnderWay /\ ~misled BY <1>1 DEF PollUnderWay
  <2>2. HasData => data.at = 0 /\ LastPoll = 0 BY <1>1, PageNumbers DEF LastPoll, HasData
  <2>. QED BY <2>1, <2>2 DEF FreshInv
<1>. QED BY <1>3, <1>4, <1>5 DEF PageInv

\* What leaves the requests, the data and the timer alone.
LEMMA TabStays ==
  ASSUME PageInv, UNCHANGED <<view, tabVars>>, pageClock' \in Nat, pageClock <= pageClock', pageClock' <= refetchAt,
         subject' \in [there : BOOLEAN, acked : BOOLEAN], subject.acked => subject'.acked,
         feed' \in FeedType, FeedInv'
  PROVE  PageInv'
<1>1. UNCHANGED <<view, refetchAt, fetches, data, behind, toldAt, misled>> /\ ViewKind' = ViewKind
  BY ViewFacts DEF tabVars, pageHistory
<1>2. TimesInv /\ FetchesInv /\ AckedInv /\ FreshInv BY DEF PageInv
<1>3. pageClock \in Nat /\ refetchAt \in Int /\ RefetchEvery \in Nat /\ InTime \in Nat BY <1>2, PageNumbers DEF TimesInv
<1>4. \A q \in fetches : q.sent \in Nat /\ q.read \in Int BY <1>2 DEF TimesInv, FetchType
<1>5. TimesInv'
  <2>1. refetchAt' <= pageClock' + RefetchEvery
    <3>1. refetchAt' = refetchAt BY <1>1
    <3>2. refetchAt <= pageClock + RefetchEvery BY <1>2 DEF TimesInv
    <3>3. pageClock' \in Nat /\ pageClock <= pageClock' OBVIOUS
    <3>4. \A a, b, c \in Int : b <= c /\ a <= b + RefetchEvery => a <= c + RefetchEvery BY <1>3
    <3>5. pageClock' \in Int /\ pageClock \in Int /\ refetchAt \in Int BY <1>3, <3>3
    <3>6. refetchAt <= pageClock' + RefetchEvery BY <3>2, <3>3, <3>4, <3>5, Zenon
    <3>. QED BY <3>1, <3>6, Zenon
  <2>. QED BY <1>1, <1>2, <2>1 DEF TimesInv, FetchType
<1>6. LastPoll' = LastPoll /\ PollUnderWay' = PollUnderWay BY <1>1 DEF LastPoll, PollUnderWay
<1>7. FetchesInv' BY <1>1, <1>2, <1>3, <1>4, <1>6 DEF FetchesInv
<1>8. AckedInv'
  <2>1. toldAt # NoData => toldAt <= pageClock'
    <3>1. toldAt # NoData => toldAt \in Nat /\ toldAt <= pageClock BY <1>2 DEF TimesInv, AckedInv
    <3>. QED BY <1>3, <3>1
  <2>. QED BY <1>1, <1>2, <2>1 DEF AckedInv
<1>9. Answered' => Answered BY <1>1, <1>3, <1>4 DEF Answered, Late
<1>10. FreshInv' BY <1>1, <1>2, <1>6, <1>9 DEF FreshInv, HasData
<1>. QED BY <1>5, <1>7, <1>8, <1>10 DEF PageInv

LEMMA WorldKeeps == ASSUME PageInv, PageClockTicks \/ SubjectChanges \/ FeedFrame \/ FeedCutOff \/ FeedEnds PROVE PageInv'
<1>0. TimesInv /\ FeedInv BY DEF PageInv
<1>1. /\ pageClock \in Nat /\ refetchAt \in Int /\ pageClock <= refetchAt /\ FeedWindow \in Nat
      /\ feed \in FeedType /\ subject \in [there : BOOLEAN, acked : BOOLEAN]
  BY <1>0, PageNumbers DEF TimesInv
<1>2. CASE PageClockTicks
  <2>1. /\ pageClock' = pageClock + 1 /\ refetchAt > pageClock /\ UNCHANGED <<view, subject, tabVars, feed>>
        /\ feed.live /\ feed.slice # NoData /\ ~feed.cut => pageClock - feed.slice < FeedWindow
    BY <1>2 DEF PageClockTicks
  <2>2. FeedInv'
    <3>1. ViewKind' = ViewKind BY <2>1, ViewFacts
    <3>2. feed.live /\ feed.slice # NoData /\ ~feed.cut => feed.slice \in Nat /\ pageClock' - feed.slice <= FeedWindow
      <4>1. feed.slice # NoData => feed.slice \in Nat BY <1>1 DEF FeedType
      <4>. QED BY <1>1, <2>1, <4>1
    <3>. QED BY <1>0, <2>1, <3>1, <3>2 DEF FeedInv
  <2>3. pageClock' \in Nat /\ pageClock <= pageClock' /\ pageClock' <= refetchAt BY <1>1, <2>1
  <2>. QED BY <1>1, <2>1, <2>2, <2>3, TabStays
<1>3. CASE SubjectChanges
  <2>1. UNCHANGED <<view, pageClock, tabVars, feed>> /\ subject' \in [there : BOOLEAN, acked : BOOLEAN]
        /\ (subject.acked => subject'.acked)
    BY <1>1, <1>3 DEF SubjectChanges
  <2>2. FeedInv' BY <1>0, <2>1, ViewFacts DEF FeedInv
  <2>. QED BY <1>1, <2>1, <2>2, TabStays
<1>4. CASE FeedFrame
  <2>1. /\ UNCHANGED <<view, pageClock, subject, tabVars>> /\ ViewKind.feed # "none"
        /\ \E slice \in {pageClock, NoData} : feed' = [live |-> TRUE, slice |-> slice, cut |-> FALSE]
    BY <1>4 DEF FeedFrame
  <2>2. feed' \in FeedType BY <1>1, <2>1 DEF FeedType
  <2>3. FeedInv'
    <3>1. ViewKind' = ViewKind BY <2>1, ViewFacts
    <3>2. feed'.slice # NoData => pageClock' - feed'.slice <= FeedWindow BY <1>1, <2>1
    <3>. QED BY <2>1, <3>1, <3>2 DEF FeedInv
  <2>. QED BY <1>1, <2>1, <2>2, <2>3, TabStays
<1>5. CASE FeedEnds
  <2>1. UNCHANGED <<view, pageClock, subject, tabVars>> /\ feed' = [feed EXCEPT !.live = FALSE, !.cut = FALSE]
    BY <1>5 DEF FeedEnds
  <2>2. feed' \in FeedType /\ feed'.live = FALSE BY <1>1, <2>1 DEF FeedType
  <2>3. FeedInv' BY <2>2 DEF FeedInv
  <2>. QED BY <1>1, <2>1, <2>2, <2>3, TabStays
<1>6. CASE FeedCutOff
  <2>1. UNCHANGED <<view, pageClock, subject, tabVars>> /\ feed.live /\ feed' = [feed EXCEPT !.cut = TRUE]
    BY <1>6 DEF FeedCutOff
  <2>2. feed' \in FeedType /\ feed'.cut = TRUE BY <1>1, <2>1 DEF FeedType
  <2>3. FeedInv' BY <1>0, <2>1, <2>2, ViewFacts DEF FeedInv
  <2>. QED BY <1>1, <2>1, <2>2, <2>3, TabStays
<1>. QED BY <1>2, <1>3, <1>4, <1>5, <1>6


\* The shape of what a page keeps, for the steps that change it.
LEMMA TabNumbers ==
  ASSUME TimesInv
  PROVE  /\ pageClock \in Nat /\ refetchAt \in Int /\ pageClock <= refetchAt /\ refetchAt <= pageClock + RefetchEvery
         /\ LastPoll \in Int /\ LastPoll <= pageClock /\ pageClock <= LastPoll + RefetchEvery /\ LastPoll = refetchAt - RefetchEvery
         /\ RefetchEvery \in Nat /\ InTime \in Nat /\ InTime < RefetchEvery
         /\ \A q \in fetches : q \in FetchType /\ q.sent \in Nat /\ q.read \in Int /\ q.kind \in {"poll", "refresh", "ack"}
         /\ HasData => data.at \in Nat
         /\ toldAt # NoData => toldAt \in Nat
<1>1. pageClock \in Nat /\ refetchAt \in Int /\ pageClock <= refetchAt /\ refetchAt <= pageClock + RefetchEvery BY DEF TimesInv
<1>2. \A q \in fetches : q \in FetchType BY DEF TimesInv
<1>3. \A q \in fetches : q.sent \in Nat /\ q.read \in Int /\ q.kind \in {"poll", "refresh", "ack"} BY <1>2 DEF FetchType
<1>4. HasData => data.at \in Nat BY DEF TimesInv, HasData
<1>5. toldAt # NoData => toldAt \in Nat BY DEF TimesInv
<1>. QED BY <1>1, <1>2, <1>3, <1>4, <1>5, PageNumbers DEF LastPoll

LEMMA NewFetchFields ==
  ASSUME NEW kind \in {"poll", "refresh", "ack"}, pageClock \in Nat
  PROVE  /\ NewFetch(kind) \in FetchType
         /\ NewFetch(kind).kind = kind /\ NewFetch(kind).sent = pageClock /\ NewFetch(kind).read = Unread
BY DEF NewFetch, FetchType, Unread

\* A poll that is in time is the last one; when the next one is sent it has come in or is late.
LEMMA InTimeIsLast ==
  ASSUME TimesInv, FetchesInv, NEW q \in fetches, q.kind = "poll", ~Late(q)
  PROVE  q.sent = LastPoll
<1>1. q.sent = LastPoll \/ q.sent <= LastPoll - RefetchEvery BY DEF FetchesInv
<1>2. pageClock - q.sent <= InTime BY TabNumbers DEF Late
<1>3. q.sent \in Nat BY TabNumbers
<1>. QED BY <1>1, <1>2, <1>3, TabNumbers

LEMMA RefetchKeeps == ASSUME PageInv, Refetch PROVE PageInv'
<1>. DEFINE newPoll == NewFetch("poll")
<1>0. TimesInv /\ FeedInv /\ FetchesInv /\ AckedInv /\ FreshInv BY DEF PageInv
<1>1. /\ refetchAt = pageClock /\ fetches' = fetches \cup {newPoll} /\ refetchAt' = refetchAt + RefetchEvery
      /\ UNCHANGED <<view, pageClock, subject, data, feed, behind, toldAt, misled>>
  BY DEF Refetch, pageHistory
<1>2. ViewKind' = ViewKind BY <1>1, ViewFacts
<1>3. newPoll \in FetchType /\ newPoll.kind = "poll" /\ newPoll.sent = pageClock /\ newPoll.read = Unread
  BY <1>0, TabNumbers, NewFetchFields
<1>. HIDE DEF newPoll
<1>4. LastPoll' = LastPoll + RefetchEvery /\ newPoll.sent = LastPoll' /\ LastPoll' = pageClock
  BY <1>0, <1>1, <1>3, TabNumbers DEF LastPoll
<1>5. TimesInv'
  <2>1. refetchAt' \in Int /\ pageClock' <= refetchAt' /\ refetchAt' <= pageClock' + RefetchEvery
    BY <1>0, <1>1, TabNumbers
  <2>2. fetches' \subseteq FetchType BY <1>0, <1>1, <1>3 DEF TimesInv
  <2>. QED BY <1>0, <1>1, <1>2, <2>1, <2>2 DEF TimesInv, FetchType
<1>6. FeedInv' BY <1>0, <1>1, <1>2 DEF FeedInv
<1>7. FetchesInv'
  <2>1. ASSUME NEW q \in fetches
        PROVE  q.kind = "poll" => q.sent = LastPoll' \/ q.sent <= LastPoll' - RefetchEvery
    <3>1. q.kind = "poll" => q.sent = LastPoll \/ q.sent <= LastPoll - RefetchEvery BY <1>0 DEF FetchesInv
    <3>2. q.sent \in Nat BY <1>0, TabNumbers
    <3>. QED BY <1>0, <1>4, <3>1, <3>2, TabNumbers
  <2>2. ASSUME NEW q \in fetches
        PROVE  /\ q.sent <= pageClock
               /\ q.read # Unread => q.sent <= q.read /\ q.read <= pageClock /\ q.saw \in [there : BOOLEAN, acked : BOOLEAN]
               /\ q.kind # "poll" => ViewKind.rendered
    BY <1>0 DEF FetchesInv
  <2>3. newPoll.sent <= pageClock BY <1>0, <1>3, TabNumbers
  <2>. QED BY <1>1, <1>2, <1>3, <1>4, <2>1, <2>2, <2>3 DEF FetchesInv, Unread
<1>8. AckedInv'
  <2>1. \A q \in fetches' : q \in fetches \/ (q.kind = "poll" /\ q.read = Unread) BY <1>1, <1>3
  <2>. QED BY <1>0, <1>1, <1>2, <2>1 DEF AckedInv, Unread
<1>9. FreshInv'
  <2>. SUFFICES ASSUME Answered', HasData
                PROVE  /\ data.at >= LastPoll \/ (ViewKind.rendered /\ data.at >= LastPoll - InTime)
                       /\ misled => data.at >= LastPoll
    <3>1. PollUnderWay' BY <1>1, <1>3, <1>4 DEF PollUnderWay
    <3>2. LastPoll' - RefetchEvery = LastPoll BY <1>0, <1>4, TabNumbers
    <3>. QED BY <1>1, <1>2, <3>1, <3>2 DEF FreshInv, HasData
  <2>1. Answered /\ \A q \in fetches : q.kind = "poll" => ~Late(q) BY <1>1 DEF Answered, Late
  <2>2. ~PollUnderWay
    <3>. SUFFICES ASSUME NEW q \in fetches, q.kind = "poll", q.sent = LastPoll PROVE FALSE BY DEF PollUnderWay
    <3>1. ~(pageClock - q.sent > InTime) BY <2>1 DEF Late
    <3>2. LastPoll = pageClock - RefetchEvery BY <1>0, <1>1, TabNumbers
    <3>. QED BY <1>0, <3>1, <3>2, TabNumbers
  <2>. QED BY <1>0, <2>1, <2>2 DEF FreshInv
<1>. QED BY <1>5, <1>6, <1>7, <1>8, <1>9 DEF PageInv

LEMMA AnswersKeep == ASSUME PageInv, NEW q \in fetches, GetAnswers(q) PROVE PageInv'
<1>. DEFINE read == [q EXCEPT !.read = pageClock, !.saw = subject]
<1>0. TimesInv /\ FeedInv /\ FetchesInv /\ AckedInv /\ FreshInv BY DEF PageInv
<1>1. /\ q.kind \in {"poll", "refresh"} /\ q.read = Unread /\ fetches' = (fetches \ {q}) \cup {read}
      /\ UNCHANGED <<view, pageClock, subject, refetchAt, data, feed, behind, toldAt, misled>>
  BY DEF GetAnswers, pageHistory
<1>2. ViewKind' = ViewKind /\ LastPoll' = LastPoll BY <1>1, ViewFacts DEF LastPoll
<1>3. /\ read \in FetchType /\ read.kind = q.kind /\ read.sent = q.sent /\ read.read = pageClock /\ read.saw = subject
      /\ subject \in [there : BOOLEAN, acked : BOOLEAN]
  <2>1. subject \in [there : BOOLEAN, acked : BOOLEAN] /\ pageClock \in Nat BY <1>0 DEF TimesInv
  <2>2. q \in FetchType BY <1>0, TabNumbers
  <2>3. q \in [kind : {"poll", "refresh", "ack"}, sent : Nat, read : Int, saw : {NoData} \cup [there : BOOLEAN, acked : BOOLEAN]]
    BY <2>2 DEF FetchType
  <2>4. read.kind = q.kind /\ read.sent = q.sent /\ read.read = pageClock /\ read.saw = subject BY <2>3
  <2>5. subject \in {NoData} \cup [there : BOOLEAN, acked : BOOLEAN] /\ pageClock \in Int BY <2>1
  <2>6. read \in FetchType BY <2>3, <2>5 DEF FetchType
  <2>. QED BY <2>1, <2>4, <2>6
<1>. HIDE DEF read
<1>4. TimesInv'
  <2>1. fetches' \subseteq FetchType BY <1>0, <1>1, <1>3 DEF TimesInv
  <2>. QED BY <1>0, <1>1, <1>2, <2>1 DEF TimesInv, FetchType
<1>5. FeedInv' BY <1>0, <1>1, <1>2 DEF FeedInv
<1>6. FetchesInv'
  <2>1. read.sent <= pageClock /\ read.read <= pageClock /\ read.sent <= read.read
    BY <1>0, <1>3, TabNumbers DEF FetchesInv
  <2>. QED BY <1>0, <1>1, <1>2, <1>3, <2>1 DEF FetchesInv
<1>7. AckedInv'
  <2>1. read.kind = "refresh" => subject.acked BY <1>0, <1>3 DEF AckedInv
  <2>2. toldAt # NoData => subject.acked BY <1>0 DEF AckedInv
  <2>. QED BY <1>0, <1>1, <1>2, <1>3, <2>1, <2>2 DEF AckedInv
<1>8. FreshInv'
  <2>1. PollUnderWay' = PollUnderWay
    <3>1. ASSUME PollUnderWay PROVE PollUnderWay' BY <1>1, <1>2, <1>3, <3>1 DEF PollUnderWay
    <3>2. ASSUME PollUnderWay' PROVE PollUnderWay BY <1>1, <1>2, <1>3, <3>2 DEF PollUnderWay
    <3>3. PollUnderWay \in BOOLEAN /\ PollUnderWay' \in BOOLEAN BY DEF PollUnderWay
    <3>. QED BY <3>1, <3>2, <3>3
  <2>2. Answered' => Answered
    <3>. SUFFICES ASSUME Answered' PROVE Answered OBVIOUS
    <3>1. read.kind = "ack" \/ ~(pageClock - read.sent > InTime) BY <1>1 DEF Answered, Late
    <3>2. q.kind = "ack" \/ ~(pageClock - q.sent > InTime) BY <1>3, <3>1
    <3>. QED BY <1>1, <3>2 DEF Answered, Late
  <2>. QED BY <1>0, <1>1, <1>2, <2>1, <2>2 DEF FreshInv, HasData
<1>. QED BY <1>4, <1>5, <1>6, <1>7, <1>8 DEF PageInv


LEMMA ListsKeep == ASSUME PageInv, NEW q \in fetches, ListArrives(q) PROVE PageInv'
<1>0. TimesInv /\ FeedInv /\ FetchesInv /\ AckedInv /\ FreshInv BY DEF PageInv
<1>1. /\ q.kind \in {"poll", "refresh"} /\ q.read # Unread /\ fetches' = fetches \ {q}
      /\ data' = [at |-> q.read, there |-> q.saw.there, acked |-> q.saw.acked]
      /\ behind' = (Late(q) \/ (behind /\ q.kind = "refresh"))
      /\ misled' = (toldAt # NoData /\ ~q.saw.acked)
      /\ UNCHANGED <<view, pageClock, subject, refetchAt, feed, toldAt>>
  BY DEF ListArrives
<1>2. ViewKind' = ViewKind /\ LastPoll' = LastPoll BY <1>1, ViewFacts DEF LastPoll
<1>3. /\ q.sent \in Nat /\ q.read \in Int /\ q.sent <= q.read /\ q.read <= pageClock
      /\ q.saw \in [there : BOOLEAN, acked : BOOLEAN] /\ (q.kind # "poll" => ViewKind.rendered)
  BY <1>0, <1>1, TabNumbers DEF FetchesInv
<1>4. TimesInv'
  <2>1. q.read \in Nat /\ q.saw.there \in BOOLEAN /\ q.saw.acked \in BOOLEAN BY <1>3
  <2>2. data' \in [at : Nat, there : BOOLEAN, acked : BOOLEAN] BY <1>1, <2>1
  <2>3. behind' \in BOOLEAN /\ misled' \in BOOLEAN BY <1>0, <1>1 DEF Late, TimesInv
  <2>4. fetches' \subseteq FetchType BY <1>0, <1>1 DEF TimesInv
  <2>. QED BY <1>0, <1>1, <1>2, <2>2, <2>3, <2>4 DEF TimesInv, FetchType
<1>5. FeedInv' BY <1>0, <1>1, <1>2 DEF FeedInv
<1>6. FetchesInv' BY <1>0, <1>1, <1>2 DEF FetchesInv
<1>7. data'.at = q.read /\ data'.acked = q.saw.acked BY <1>1
<1>8. AckedInv'
  <2>1. misled' => q.read <= toldAt
    <3>. SUFFICES ASSUME misled' PROVE q.read <= toldAt OBVIOUS
    <3>1. toldAt # NoData /\ ~q.saw.acked BY <1>1
    <3>2. q.kind = "poll" BY <1>0, <1>1, <3>1 DEF AckedInv
    <3>. QED BY <1>0, <1>1, <3>1, <3>2 DEF AckedInv
  <2>2. misled' => toldAt # NoData BY <1>1
  <2>3. toldAt # NoData => data'.acked \/ misled' BY <1>1, <1>7
  <2>. QED BY <1>0, <1>1, <1>2, <1>7, <2>1, <2>2, <2>3 DEF AckedInv
<1>9. FreshInv'
  <2>. DEFINE oldest == IF PollUnderWay' THEN LastPoll - RefetchEvery ELSE LastPoll
  <2>. SUFFICES ASSUME Answered'
                PROVE  /\ q.read >= oldest \/ (ViewKind.rendered /\ q.read >= oldest - InTime)
                       /\ misled' => q.read >= oldest
    BY <1>2, <1>7 DEF FreshInv
  <2>1. oldest \in Int /\ oldest <= LastPoll BY <1>0, TabNumbers
  <2>. HIDE DEF oldest
  <2>2. ~Late(q) BY <1>1 DEF Answered
  <2>3. CASE q.kind = "poll"
    <3>1. q.sent = LastPoll BY <1>0, <2>2, <2>3, InTimeIsLast
    <3>. QED BY <1>0, <1>3, <2>1, <3>1, TabNumbers
  <2>4. CASE q.kind = "refresh"
    <3>1. ~misled' BY <1>0, <1>1, <2>4 DEF AckedInv
    <3>2. pageClock - q.sent <= InTime BY <1>0, <1>3, <2>2, TabNumbers DEF Late
    <3>3. q.read >= oldest - InTime BY <1>0, <1>3, <2>1, <3>2, TabNumbers
    <3>. QED BY <1>3, <2>4, <3>1, <3>3
  <2>. QED BY <1>1, <2>3, <2>4
<1>. QED BY <1>4, <1>5, <1>6, <1>8, <1>9 DEF PageInv

LEMMA FailsKeep == ASSUME PageInv, NEW q \in fetches, FetchFails(q) PROVE PageInv'
<1>0. TimesInv /\ FeedInv /\ FetchesInv /\ AckedInv BY DEF PageInv
<1>1. /\ fetches' = fetches \ {q} /\ behind' = TRUE
      /\ UNCHANGED <<view, pageClock, subject, refetchAt, data, feed, toldAt, misled>>
  BY DEF FetchFails
<1>2. ViewKind' = ViewKind /\ LastPoll' = LastPoll BY <1>1, ViewFacts DEF LastPoll
<1>3. TimesInv'
  <2>1. fetches' \subseteq FetchType BY <1>0, <1>1 DEF TimesInv
  <2>. QED BY <1>0, <1>1, <1>2, <2>1 DEF TimesInv, FetchType
<1>4. FeedInv' BY <1>0, <1>1, <1>2 DEF FeedInv
<1>5. FetchesInv' BY <1>0, <1>1, <1>2 DEF FetchesInv
<1>6. AckedInv' BY <1>0, <1>1, <1>2 DEF AckedInv
<1>7. FreshInv' BY <1>1 DEF FreshInv, Answered
<1>. QED BY <1>3, <1>4, <1>5, <1>6, <1>7 DEF PageInv

LEMMA ReloadKeeps == ASSUME PageInv, PageReloads PROVE PageInv'
<1>0. TimesInv /\ FeedInv BY DEF PageInv
<1>1. /\ fetches' = {} /\ behind' = FALSE /\ toldAt' = NoData /\ misled' = FALSE /\ UNCHANGED <<view, pageClock, subject, feed>>
      /\ refetchAt' = (IF ViewKind.rendered THEN pageClock + RefetchEvery ELSE pageClock)
      /\ data' = (IF ViewKind.rendered THEN [at |-> pageClock, there |-> subject.there, acked |-> subject.acked] ELSE NoData)
  BY DEF PageReloads, FirstRefetch, FirstData, Served
<1>2. ViewKind' = ViewKind BY <1>1, ViewFacts
<1>3. pageClock \in Nat /\ subject \in [there : BOOLEAN, acked : BOOLEAN] BY <1>0 DEF TimesInv
<1>4. TimesInv'
  <2>1. refetchAt' \in Int /\ pageClock' <= refetchAt' /\ refetchAt' <= pageClock' + RefetchEvery
    BY <1>1, <1>3, PageNumbers
  <2>2. /\ data' = NoData \/ data' \in [at : Nat, there : BOOLEAN, acked : BOOLEAN]
        /\ ViewKind.rendered => data' \in [at : Nat, there : BOOLEAN, acked : BOOLEAN]
    <3>1. subject.there \in BOOLEAN /\ subject.acked \in BOOLEAN BY <1>3
    <3>2. CASE ViewKind.rendered
      <4>1. data' = [at |-> pageClock, there |-> subject.there, acked |-> subject.acked] BY <1>1, <3>2
      <4>. QED BY <1>3, <3>1, <4>1
    <3>3. CASE ~ViewKind.rendered BY <1>1, <3>3
    <3>. QED BY <3>2, <3>3
  <2>. QED BY <1>0, <1>1, <1>2, <2>1, <2>2 DEF TimesInv
<1>5. FeedInv' BY <1>0, <1>1, <1>2 DEF FeedInv
<1>6. FetchesInv' /\ AckedInv' BY <1>1 DEF FetchesInv, AckedInv
<1>7. FreshInv'
  <2>1. ~PollUnderWay' /\ ~misled' BY <1>1 DEF PollUnderWay
  <2>2. HasData' => data'.at = pageClock /\ LastPoll' = pageClock
    <3>. SUFFICES ASSUME HasData' PROVE data'.at = pageClock /\ LastPoll' = pageClock OBVIOUS
    <3>1. ViewKind.rendered BY <1>1, <1>2 DEF HasData
    <3>2. data'.at = pageClock BY <1>1, <3>1
    <3>3. LastPoll' = (pageClock + RefetchEvery) - RefetchEvery BY <1>1, <3>1 DEF LastPoll
    <3>. QED BY <1>3, <3>2, <3>3, PageNumbers
  <2>. QED BY <1>3, <2>1, <2>2 DEF FreshInv
<1>. QED BY <1>4, <1>5, <1>6, <1>7 DEF PageInv

\* Polls stay what they are where only acknowledgements and refreshes come and go.
LEMMA PollsStay ==
  ASSUME UNCHANGED refetchAt,
         \A q \in fetches' : q \in fetches \/ q.kind # "poll",
         \A q \in fetches : q \in fetches' \/ q.kind # "poll"
  PROVE  PollUnderWay' = PollUnderWay
<1>1. LastPoll' = LastPoll BY DEF LastPoll
<1>2. PollUnderWay => PollUnderWay' BY <1>1 DEF PollUnderWay
<1>3. PollUnderWay' => PollUnderWay BY <1>1 DEF PollUnderWay
<1>4. PollUnderWay \in BOOLEAN /\ PollUnderWay' \in BOOLEAN BY DEF PollUnderWay
<1>. QED BY <1>2, <1>3, <1>4


LEMMA AckKeeps == ASSUME PageInv, Ack PROVE PageInv'
<1>. DEFINE ack == NewFetch("ack")
<1>0. TimesInv /\ FeedInv /\ FetchesInv /\ AckedInv /\ FreshInv BY DEF PageInv
<1>1. /\ ViewKind.rendered /\ fetches' = fetches \cup {ack}
      /\ UNCHANGED <<view, pageClock, subject, refetchAt, data, feed, behind, toldAt, misled>>
  BY DEF Ack, pageHistory
<1>2. ViewKind' = ViewKind /\ LastPoll' = LastPoll BY <1>1, ViewFacts DEF LastPoll
<1>3. ack \in FetchType /\ ack.kind = "ack" /\ ack.sent = pageClock /\ ack.read = Unread
  BY <1>0, TabNumbers, NewFetchFields
<1>. HIDE DEF ack
<1>4. TimesInv'
  <2>1. fetches' \subseteq FetchType BY <1>0, <1>1, <1>3 DEF TimesInv
  <2>. QED BY <1>0, <1>1, <1>2, <2>1 DEF TimesInv, FetchType
<1>5. FeedInv' BY <1>0, <1>1, <1>2 DEF FeedInv
<1>6. FetchesInv'
  <2>1. ack.sent <= pageClock BY <1>0, <1>3, TabNumbers
  <2>. QED BY <1>0, <1>1, <1>2, <1>3, <2>1 DEF FetchesInv, Unread
<1>7. AckedInv' BY <1>0, <1>1, <1>2, <1>3 DEF AckedInv, Unread
<1>8. FreshInv'
  <2>1. PollUnderWay' = PollUnderWay BY <1>1, <1>3, PollsStay
  <2>2. Answered' => Answered BY <1>1 DEF Answered, Late
  <2>. QED BY <1>0, <1>1, <1>2, <2>1, <2>2 DEF FreshInv, HasData
<1>. QED BY <1>4, <1>5, <1>6, <1>7, <1>8 DEF PageInv

LEMMA PostKeeps == ASSUME PageInv, NEW q \in fetches, PostAcks(q) PROVE PageInv'
<1>. DEFINE read == [q EXCEPT !.read = pageClock, !.saw = subject']
<1>0. TimesInv /\ FeedInv /\ FetchesInv /\ AckedInv /\ FreshInv BY DEF PageInv
<1>1. /\ q.kind = "ack" /\ q.read = Unread /\ fetches' = (fetches \ {q}) \cup {read}
      /\ subject' = [subject EXCEPT !.acked = @ \/ subject.there]
      /\ UNCHANGED <<view, pageClock, refetchAt, data, feed, behind, toldAt, misled>>
  BY DEF PostAcks, pageHistory
<1>2. ViewKind' = ViewKind /\ LastPoll' = LastPoll BY <1>1, ViewFacts DEF LastPoll
<1>3. /\ subject' \in [there : BOOLEAN, acked : BOOLEAN] /\ subject'.there = subject.there
      /\ (subject.acked => subject'.acked) /\ (subject.there => subject'.acked)
  <2>1. subject \in [there : BOOLEAN, acked : BOOLEAN] BY <1>0 DEF TimesInv
  <2>. QED BY <1>1, <2>1
<1>4. read \in FetchType /\ read.kind = "ack" /\ read.sent = q.sent /\ read.read = pageClock /\ read.saw = subject'
  <2>1. q \in [kind : {"poll", "refresh", "ack"}, sent : Nat, read : Int, saw : {NoData} \cup [there : BOOLEAN, acked : BOOLEAN]]
    BY <1>0, TabNumbers DEF FetchType
  <2>2. read.kind = q.kind /\ read.sent = q.sent /\ read.read = pageClock /\ read.saw = subject' BY <2>1
  <2>3. subject' \in {NoData} \cup [there : BOOLEAN, acked : BOOLEAN] /\ pageClock \in Int BY <1>0, <1>3 DEF TimesInv
  <2>4. read \in FetchType BY <2>1, <2>3 DEF FetchType
  <2>. QED BY <1>1, <2>2, <2>4
<1>. HIDE DEF read
<1>5. TimesInv'
  <2>1. fetches' \subseteq FetchType BY <1>0, <1>1, <1>4 DEF TimesInv
  <2>. QED BY <1>0, <1>1, <1>2, <1>3, <2>1 DEF TimesInv, FetchType
<1>6. FeedInv' BY <1>0, <1>1, <1>2 DEF FeedInv
<1>7. FetchesInv'
  <2>1. /\ read.sent <= pageClock /\ read.read <= pageClock /\ read.sent <= read.read
        /\ (read.kind # "poll" => ViewKind.rendered)
    BY <1>0, <1>1, <1>4, TabNumbers DEF FetchesInv
  <2>. QED BY <1>0, <1>1, <1>2, <1>3, <1>4, <2>1 DEF FetchesInv
<1>8. AckedInv'
  <2>1. read.saw.there => subject'.acked BY <1>3, <1>4
  <2>. QED BY <1>0, <1>1, <1>2, <1>3, <1>4, <2>1 DEF AckedInv
<1>9. FreshInv'
  <2>1. PollUnderWay' = PollUnderWay BY <1>1, <1>4, PollsStay
  <2>2. Answered' => Answered
    <3>1. \A p \in fetches : p = q \/ p \in fetches' BY <1>1
    <3>. QED BY <1>1, <3>1 DEF Answered, Late
  <2>. QED BY <1>0, <1>1, <1>2, <2>1, <2>2 DEF FreshInv, HasData
<1>. QED BY <1>5, <1>6, <1>7, <1>8, <1>9 DEF PageInv

LEMMA ToldKeeps == ASSUME PageInv, NEW q \in fetches, AckArrives(q), q.saw.there PROVE PageInv'
<1>. DEFINE refresh == NewFetch("refresh")
<1>0. TimesInv /\ FeedInv /\ FetchesInv /\ AckedInv /\ FreshInv BY DEF PageInv
<1>1. /\ q.kind = "ack" /\ q.read # Unread /\ fetches' = (fetches \ {q}) \cup {refresh}
      /\ data' = [data EXCEPT !.acked = TRUE] /\ toldAt' = pageClock /\ misled' = FALSE
      /\ UNCHANGED <<view, pageClock, subject, refetchAt, feed, behind>>
  BY DEF AckArrives
<1>2. ViewKind' = ViewKind /\ LastPoll' = LastPoll BY <1>1, ViewFacts DEF LastPoll
<1>3. refresh \in FetchType /\ refresh.kind = "refresh" /\ refresh.sent = pageClock /\ refresh.read = Unread
  BY <1>0, TabNumbers, NewFetchFields
<1>. HIDE DEF refresh
<1>4. ViewKind.rendered /\ subject.acked BY <1>0, <1>1 DEF FetchesInv, AckedInv
<1>5. /\ data \in [at : Nat, there : BOOLEAN, acked : BOOLEAN] /\ data' \in [at : Nat, there : BOOLEAN, acked : BOOLEAN]
      /\ data'.at = data.at /\ data'.acked
  <2>1. data \in [at : Nat, there : BOOLEAN, acked : BOOLEAN] BY <1>0, <1>4 DEF TimesInv
  <2>. QED BY <1>1, <2>1
<1>6. TimesInv'
  <2>1. fetches' \subseteq FetchType BY <1>0, <1>1, <1>3 DEF TimesInv
  <2>2. toldAt' \in {NoData} \cup Nat BY <1>0, <1>1 DEF TimesInv
  <2>. QED BY <1>0, <1>1, <1>2, <1>5, <2>1, <2>2 DEF TimesInv, FetchType
<1>7. FeedInv' BY <1>0, <1>1, <1>2 DEF FeedInv
<1>8. FetchesInv'
  <2>1. refresh.sent <= pageClock BY <1>0, <1>3, TabNumbers
  <2>. QED BY <1>0, <1>1, <1>2, <1>3, <1>4, <2>1 DEF FetchesInv, Unread
<1>9. AckedInv'
  <2>1. \A p \in fetches : p.read # Unread => p.read <= pageClock BY <1>0 DEF FetchesInv
  <2>2. toldAt' <= pageClock' BY <1>0, <1>1, TabNumbers
  <2>3. \A p \in fetches' : p \in fetches \/ (p.kind = "refresh" /\ p.read = Unread) BY <1>1, <1>3
  <2>4. \A p \in fetches' : /\ p.kind = "refresh" => subject'.acked /\ (p.read # Unread => p.saw.acked)
                            /\ p.kind = "ack" /\ p.read # Unread /\ p.saw.there => subject'.acked
    BY <1>0, <1>1, <1>4, <2>3 DEF AckedInv
  <2>5. \A p \in fetches' : p.kind = "poll" /\ p.read # Unread /\ ~p.saw.acked => p.read <= toldAt'
    BY <1>1, <2>1, <2>3
  <2>. QED BY <1>1, <1>2, <1>4, <1>5, <2>2, <2>4, <2>5 DEF AckedInv, Unread
<1>10. FreshInv'
  <2>1. PollUnderWay' = PollUnderWay BY <1>1, <1>3, PollsStay
  <2>2. Answered' => Answered
    <3>1. \A p \in fetches : p = q \/ p \in fetches' BY <1>1
    <3>. QED BY <1>1, <3>1 DEF Answered, Late
  <2>. QED BY <1>0, <1>1, <1>2, <1>4, <1>5, <2>1, <2>2 DEF FreshInv, HasData
<1>. QED BY <1>6, <1>7, <1>8, <1>9, <1>10 DEF PageInv

LEMMA AckEndsKeep ==
  ASSUME PageInv, NEW q \in fetches, q.kind = "ack", fetches' = fetches \ {q},
         UNCHANGED <<view, pageClock, subject, refetchAt, data, feed, behind, toldAt, misled>>
  PROVE  PageInv'
<1>0. TimesInv /\ FeedInv /\ FetchesInv /\ AckedInv /\ FreshInv BY DEF PageInv
<1>1. ViewKind' = ViewKind /\ LastPoll' = LastPoll BY ViewFacts DEF LastPoll
<1>2. TimesInv'
  <2>1. fetches' \subseteq FetchType BY <1>0 DEF TimesInv
  <2>. QED BY <1>0, <1>1, <2>1 DEF TimesInv, FetchType
<1>3. FeedInv' /\ FetchesInv' /\ AckedInv' BY <1>0, <1>1 DEF FeedInv, FetchesInv, AckedInv
<1>4. FreshInv'
  <2>1. PollUnderWay' = PollUnderWay BY PollsStay
  <2>2. Answered' => Answered
    <3>1. \A p \in fetches : p = q \/ p \in fetches' OBVIOUS
    <3>. QED BY <3>1 DEF Answered, Late
  <2>. QED BY <1>0, <1>1, <2>1, <2>2 DEF FreshInv, HasData
<1>. QED BY <1>2, <1>3, <1>4 DEF PageInv

LEMMA PageStep == PageInv /\ [PageNext]_pageVars => PageInv'
<1>. SUFFICES ASSUME PageInv, [PageNext]_pageVars PROVE PageInv' OBVIOUS
<1>1. CASE PageClockTicks \/ SubjectChanges \/ FeedFrame \/ FeedCutOff \/ FeedEnds BY <1>1, WorldKeeps
<1>2. CASE Refetch BY <1>2, RefetchKeeps
<1>3. CASE PageReloads BY <1>3, ReloadKeeps
<1>4. CASE Ack BY <1>4, AckKeeps
<1>5. ASSUME NEW q \in fetches, GetAnswers(q) PROVE PageInv' BY <1>5, AnswersKeep
<1>6. ASSUME NEW q \in fetches, ListArrives(q) PROVE PageInv' BY <1>6, ListsKeep
<1>7. ASSUME NEW q \in fetches, FetchFails(q) PROVE PageInv' BY <1>7, FailsKeep
<1>8. ASSUME NEW q \in fetches, PostAcks(q) PROVE PageInv' BY <1>8, PostKeeps
<1>9. ASSUME NEW q \in fetches, AckArrives(q) PROVE PageInv'
  <2>1. CASE q.saw.there BY <1>9, <2>1, ToldKeeps
  <2>2. CASE ~q.saw.there
    <3>1. /\ q.kind = "ack" /\ fetches' = fetches \ {q}
          /\ UNCHANGED <<view, pageClock, subject, refetchAt, data, feed, behind, toldAt, misled>>
      BY <1>9, <2>2 DEF AckArrives
    <3>. QED BY <3>1, AckEndsKeep
  <2>. QED BY <2>1, <2>2
<1>10. ASSUME NEW q \in fetches, AckFails(q) PROVE PageInv'
  <2>1. /\ q.kind = "ack" /\ fetches' = fetches \ {q}
        /\ UNCHANGED <<view, pageClock, subject, refetchAt, data, feed, behind, toldAt, misled>>
    BY <1>10 DEF AckFails, pageHistory
  <2>. QED BY <2>1, AckEndsKeep
<1>11. CASE UNCHANGED pageVars
  <2>1. /\ UNCHANGED <<view, tabVars>> /\ UNCHANGED <<pageClock, subject, feed>> BY <1>11 DEF pageVars
  <2>2. TimesInv /\ FeedInv BY DEF PageInv
  <2>3. FeedInv' BY <2>1, <2>2, ViewFacts DEF FeedInv
  <2>4. pageClock \in Nat /\ pageClock <= refetchAt /\ subject \in [there : BOOLEAN, acked : BOOLEAN]
        /\ feed \in FeedType
    BY <2>2 DEF TimesInv
  <2>. QED BY <2>1, <2>3, <2>4, TabStays
<1>. QED BY <1>1, <1>2, <1>3, <1>4, <1>5, <1>6, <1>7, <1>8, <1>9, <1>10, <1>11 DEF PageNext

\* A page that is answered in time, by its data.
LEMMA DataAreRecent ==
  ASSUME PageInv, Answered, HasData
  PROVE  /\ pageClock - data.at <= RefetchEvery + Slack
         /\ misled => pageClock - data.at <= RefetchEvery + InTime
<1>0. TimesInv /\ FetchesInv /\ FreshInv BY DEF PageInv
<1>. DEFINE oldest == IF PollUnderWay THEN LastPoll - RefetchEvery ELSE LastPoll
<1>1. /\ data.at >= oldest \/ (ViewKind.rendered /\ data.at >= oldest - InTime)
      /\ misled => data.at >= oldest
  BY <1>0 DEF FreshInv
<1>2. pageClock <= oldest + RefetchEvery + InTime /\ oldest \in Int
  <2>1. CASE PollUnderWay
    <3>1. PICK q \in fetches : q.kind = "poll" /\ q.sent = LastPoll BY <2>1 DEF PollUnderWay
    <3>2. pageClock - LastPoll <= InTime BY <1>0, <3>1, TabNumbers DEF Answered, Late
    <3>. QED BY <1>0, <2>1, <3>2, TabNumbers
  <2>2. CASE ~PollUnderWay BY <1>0, <2>2, TabNumbers
  <2>. QED BY <2>1, <2>2
<1>. HIDE DEF oldest
<1>3. data.at \in Nat /\ pageClock \in Nat /\ InTime \in Nat /\ RefetchEvery \in Nat BY <1>0, TabNumbers
<1>4. Slack = IF ViewKind.rendered THEN 2 * InTime ELSE InTime BY DEF Slack
<1>5. CASE ViewKind.rendered
  <2>1. data.at >= oldest - InTime BY <1>1, <1>2, <1>3
  <2>2. Slack = 2 * InTime BY <1>4, <1>5
  <2>. QED BY <1>1, <1>2, <1>3, <2>1, <2>2
<1>6. CASE ~ViewKind.rendered
  <2>1. data.at >= oldest BY <1>1, <1>6
  <2>2. Slack = InTime BY <1>4, <1>6
  <2>. QED BY <1>1, <1>2, <1>3, <2>1, <2>2
<1>. QED BY <1>5, <1>6

LEMMA PageShowsIt == PageInv => PageKeepsUp
<1>. SUFFICES ASSUME PageInv PROVE ShowsNothingOld /\ AckStaysShown BY DEF PageKeepsUp
<1>0. TimesInv /\ FeedInv /\ AckedInv BY DEF PageInv
<1>1. ShowsNothingOld
  <2>1. PolledAt # NoData /\ Answered => Recent(PolledAt)
    <3>. SUFFICES ASSUME PolledAt # NoData, Answered PROVE Recent(PolledAt) OBVIOUS
    <3>1. data # NoData /\ PolledAt = data.at BY DEF PolledAt
    <3>2. pageClock - data.at <= RefetchEvery + Slack BY <3>1, DataAreRecent DEF HasData
    <3>. QED BY <3>1, <3>2 DEF Recent
  <2>2. ASSUME OverlaidAt # NoData, IF LiveSlice THEN ~feed.cut ELSE Answered PROVE Recent(OverlaidAt)
    <3>1. CASE LiveSlice /\ OverlaidAt = feed.slice
      <4>1. pageClock - feed.slice <= FeedWindow BY <1>0, <2>2, <3>1 DEF FeedInv, LiveSlice
      <4>2. ViewKind.rendered \in BOOLEAN BY <1>0, ViewFacts DEF TimesInv
      <4>3. InTime <= Slack /\ Slack \in Nat BY <4>2, PageNumbers DEF Slack
      <4>4. feed.slice \in Nat BY <1>0, <3>1 DEF TimesInv, FeedType, LiveSlice
      <4>5. pageClock - feed.slice <= RefetchEvery + Slack
        BY <1>0, <4>1, <4>3, <4>4, TabNumbers, PageNumbers
      <4>. QED BY <3>1, <4>5 DEF Recent
    <3>2. CASE ~(LiveSlice /\ OverlaidAt = feed.slice)
      <4>1. LiveSlice => ViewKind.feed # "none" BY <1>0 DEF FeedInv, LiveSlice
      <4>2. ViewKind.feed \in {"none", "downloads", "governor"} BY <1>0, ViewFacts DEF TimesInv
      <4>3. OverlaidAt = PolledAt BY <3>2 DEF OverlaidAt, MergeGovernor, MergeDownloads
      <4>4. ~LiveSlice
        BY <2>2, <3>2, <4>1, <4>2, <4>3 DEF OverlaidAt, MergeGovernor, MergeDownloads, PolledAt
      <4>. QED BY <2>1, <2>2, <4>3, <4>4
    <3>. QED BY <3>1, <3>2
  <2>. QED BY <2>1, <2>2 DEF ShowsNothingOld
<1>2. AckStaysShown
  <2>. SUFFICES ASSUME toldAt # NoData, data.there, ~data.acked
                PROVE  misled /\ (Answered => pageClock - toldAt <= RefetchEvery + InTime)
    BY DEF AckStaysShown
  <2>1. misled /\ data.at <= toldAt /\ ViewKind.rendered BY <1>0 DEF AckedInv
  <2>2. data \in [at : Nat, there : BOOLEAN, acked : BOOLEAN] BY <1>0, <2>1 DEF TimesInv
  <2>3. ASSUME Answered PROVE pageClock - toldAt <= RefetchEvery + InTime
    <3>1. pageClock - data.at <= RefetchEvery + InTime BY <2>1, <2>3, DataAreRecent DEF HasData
    <3>. QED BY <1>0, <2>1, <2>3, <3>1, TabNumbers DEF HasData
  <2>. QED BY <2>1, <2>3
<1>. QED BY <1>1, <1>2

-----------------------------------------------------------------------------
(* The log page. *)

\* The lines that the tab has taken in since the first page, shown or cut off.
Reach == ToSet(shown) \cup cut
NotNewerThan(x, lines) == \E y \in lines : ~After(x, y)
NotOlderThan(x, lines) == \E z \in lines : ~After(z, x)

AskType(q) ==
  /\ q = [kind |-> q.kind, filter |-> q.filter, from |-> q.from, rows |-> q.rows]
  /\ q.from \subseteq stored /\ \A x, y \in q.from : x = y
  /\ q.kind = "older" => q.from # {}
  /\ \A answer \in q.rows : answer \in Seq(stored)

LinesInv ==
  /\ IsFiniteSet(stored) /\ shown \in Seq(stored) /\ mixed \in BOOLEAN
  /\ \A x \in stored : x.ts \in Nat /\ x.id \in 1 .. Cardinality(stored)
  /\ newest \cup cut \cup older \subseteq stored
  /\ \A x, y \in newest : x = y
  /\ \A x, y \in older : x = y
  /\ \A q \in flight : AskType(q)

\* An answer has every line that its query is about, as far as it goes.
AnswerIsWhole(q, answer) ==
  /\ q.kind = "tail" => \A x \in ToSet(answer), y \in q.from : After(x, y)
  /\ \A x \in Matching(q) \ late :
       /\ q.kind # "tail" => NotOlderThan(x, ToSet(answer))
       /\ q.kind # "older" => NotNewerThan(x, ToSet(answer))
       => x \in ToSet(answer)

AnswersInv == \A q \in flight : \A answer \in q.rows : AnswerIsWhole(q, answer)

\* What the tab has taken in is everything, from its newest line to where it reaches.
NothingBetween ==
  \A x \in stored \ late :
    x.tag \in filter /\ NotNewerThan(x, newest) /\ NotOlderThan(x, Reach) => x \in Reach

ShownInv ==
  ~mixed =>
    /\ older \subseteq Reach
    /\ newest = {} => Reach = {}
    /\ NothingBetween

ViewInv == LinesInv /\ AnswersInv /\ ShownInv

LEMMA ViewNumbers == Page \in Nat /\ Cap \in Nat
BY LogViewerAssumption

\* (ts, id) is an order.
LEMMA AfterOrder ==
  ASSUME NEW x, NEW y, NEW z, {x.ts, x.id, y.ts, y.id, z.ts, z.id} \subseteq Int
  PROVE  /\ After(x, y) /\ After(y, z) => After(x, z)
         /\ ~After(x, y) /\ After(x, z) => After(y, z)
         /\ ~After(x, y) /\ ~After(y, z) => ~After(x, z)
         /\ ~After(x, y) /\ x.id # y.id => After(y, x)
         /\ ~After(y, x) /\ After(z, x) => After(z, y)
BY DEF After

LEMMA LinesHaveTimes == ASSUME LinesInv, NEW x \in stored PROVE x.ts \in Int /\ x.id \in Int
<1>1. x.ts \in Nat /\ x.id \in 1 .. Cardinality(stored) /\ Cardinality(stored) \in Nat BY FS_CardinalityType DEF LinesInv
<1>. QED BY <1>1

LEMMA StoredOrder ==
  ASSUME LinesInv, NEW x \in stored, NEW y \in stored, NEW z \in stored
  PROVE  /\ After(x, y) /\ After(y, z) => After(x, z)
         /\ ~After(x, y) /\ After(x, z) => After(y, z)
         /\ ~After(x, y) /\ ~After(y, z) => ~After(x, z)
         /\ ~After(y, x) /\ After(z, x) => After(z, y)
<1>1. {x.ts, x.id, y.ts, y.id, z.ts, z.id} \subseteq Int BY LinesHaveTimes
<1>. QED BY <1>1, AfterOrder

LEMMA ToSetOfJoined ==
  ASSUME NEW S, NEW s \in Seq(S), NEW t \in Seq(S)
  PROVE  s \o t \in Seq(S) /\ ToSet(s \o t) = ToSet(s) \cup ToSet(t)
<1>1. s \o t \in Seq(S) BY ConcatProperties
<1>2. Range(s \o t) = Range(s) \cup Range(t) BY RangeConcatenation
<1>. QED BY <1>1, <1>2 DEF ToSet, Range

LEMMA ToSetOfParts ==
  ASSUME NEW S, NEW s \in Seq(S), NEW n \in 0 .. Len(s)
  PROVE  /\ SubSeq(s, 1, n) \in Seq(S) /\ SubSeq(s, n + 1, Len(s)) \in Seq(S)
         /\ ToSet(s) = ToSet(SubSeq(s, 1, n)) \cup ToSet(SubSeq(s, n + 1, Len(s)))
<1>1. Len(s) \in Nat /\ (\A i \in 1 .. Len(s) : s[i] \in S) BY LenProperties, ElementOfSeq
<1>2. SubSeq(s, 1, n) \in Seq(S)
  <2>1. n \in Int /\ 1 \in Int /\ (\A i \in 1 .. n : s[i] \in S) BY <1>1
  <2>. QED BY <2>1, SubSeqProperties
<1>3. SubSeq(s, n + 1, Len(s)) \in Seq(S)
  <2>1. n + 1 \in Int /\ Len(s) \in Int /\ (\A i \in n + 1 .. Len(s) : s[i] \in S) BY <1>1
  <2>. QED BY <2>1, SubSeqProperties
<1>4. SubSeq(s, 1, n) \o SubSeq(s, n + 1, Len(s)) = s
  <2>1. 1 \in 1 .. Len(s) + 1 /\ n \in (1 - 1) .. Len(s) /\ Len(s) \in n .. Len(s) BY <1>1
  <2>2. SubSeq(s, 1, n) \o SubSeq(s, n + 1, Len(s)) = SubSeq(s, 1, Len(s)) BY <2>1, ConcatAdjacentSubSeq
  <2>. QED BY <2>2, SubSeqFull
<1>. QED BY <1>2, <1>3, <1>4, ToSetOfJoined

LEMMA ToSetWithin == ASSUME NEW S, NEW s \in Seq(S) PROVE ToSet(s) \subseteq S
<1>1. \A i \in 1 .. Len(s) : s[i] \in S BY ElementOfSeq
<1>2. DOMAIN s = 1 .. Len(s) BY LenProperties
<1>. QED BY <1>1, <1>2 DEF ToSet

\* The cursor is a line of what it is taken from, and none only of nothing.
LEMMA CursorOf ==
  ASSUME NEW S, NEW s \in Seq(S), NEW i, s # <<>> => i \in 1 .. Len(s)
  PROVE  /\ Cursor(s, i) \subseteq ToSet(s)
         /\ \A x, y \in Cursor(s, i) : x = y
         /\ Cursor(s, i) = {} => s = <<>>
<1>1. DOMAIN s = 1 .. Len(s) BY LenProperties
<1>. QED BY <1>1 DEF Cursor, ToSet

\* The limit leaves no hole: what is nearer than a line of the page is on the page.
LEMMA SelectedHasNoHoles ==
  ASSUME LinesInv, NEW q, NEW x \in Matching(q), NEW z \in Selected(q),
         IF q.kind = "tail" THEN ~After(x, z) ELSE ~After(z, x)
  PROVE  x \in Selected(q)
<1>. DEFINE Nearer(l) == {y \in Matching(q) : IF q.kind = "tail" THEN After(l, y) ELSE After(y, l)}
<1>1. Matching(q) \subseteq stored /\ z \in Matching(q) BY DEF Matching, Selected
<1>2. Nearer(x) \subseteq Nearer(z)
  <2>. SUFFICES ASSUME NEW y \in Nearer(x) PROVE y \in Nearer(z) OBVIOUS
  <2>1. y \in stored /\ x \in stored /\ z \in stored /\ y \in Matching(q) BY <1>1
  <2>2. CASE q.kind = "tail"
    <3>1. After(x, y) /\ ~After(x, z) BY <2>2
    <3>2. After(z, y) BY <2>1, <3>1, StoredOrder
    <3>. QED BY <2>1, <2>2, <3>2
  <2>3. CASE q.kind # "tail"
    <3>1. After(y, x) /\ ~After(z, x) BY <2>3
    <3>2. After(y, z) BY <2>1, <3>1, StoredOrder
    <3>. QED BY <2>1, <2>3, <3>2
  <2>. QED BY <2>2, <2>3
<1>3. IsFiniteSet(Nearer(z)) /\ IsFiniteSet(Nearer(x))
  <2>1. IsFiniteSet(stored) BY DEF LinesInv
  <2>2. Nearer(z) \in SUBSET stored /\ Nearer(x) \in SUBSET stored BY <1>1
  <2>. HIDE DEF Nearer
  <2>. QED BY <2>1, <2>2, FS_Subset
<1>4. Cardinality(Nearer(x)) <= Cardinality(Nearer(z)) /\ Cardinality(Nearer(x)) \in Nat /\ Cardinality(Nearer(z)) \in Nat
  <2>. HIDE DEF Nearer
  <2>. QED BY <1>2, <1>3, FS_Subset, FS_CardinalityType
<1>5. Cardinality(Nearer(z)) < Page BY DEF Selected
<1>6. Cardinality(Nearer(x)) < Page
  <2>. HIDE DEF Nearer
  <2>. QED BY <1>4, <1>5, ViewNumbers
<1>. QED BY <1>6 DEF Selected


LEMMA ViewInitial == ViewInit => ViewInv
<1>. SUFFICES ASSUME ViewInit PROVE ViewInv OBVIOUS
<1>1. /\ stored = {} /\ shown = <<>> /\ newest = {} /\ older = {} /\ late = {} /\ cut = {} /\ mixed = FALSE
      /\ flight = {[kind |-> "first", filter |-> filter, from |-> {}, rows |-> {}]}
  BY DEF ViewInit
<1>2. Reach = {}
  <2>1. ToSet(<<>>) = {} BY DEF ToSet
  <2>. QED BY <1>1, <2>1 DEF Reach
<1>3. LinesInv
  <2>1. \A q \in flight : AskType(q) BY <1>1 DEF AskType
  <2>2. shown \in Seq(stored) BY <1>1, EmptySeq
  <2>. QED BY <1>1, <2>1, <2>2, FS_EmptySet DEF LinesInv
<1>4. AnswersInv BY <1>1 DEF AnswersInv
<1>5. ShownInv BY <1>1, <1>2 DEF ShownInv, NothingBetween
<1>. QED BY <1>3, <1>4, <1>5 DEF ViewInv

\* A line that is stored is late, or newer than every other.
LEMMA StoreKeeps == ASSUME ViewInv, StoreLine PROVE ViewInv'
<1>0. LinesInv /\ AnswersInv /\ ShownInv BY DEF ViewInv
<1>. DEFINE id == Cardinality(stored) + 1
<1>1. PICK ts \in 1 .. MaxLineTime :
        /\ stored' = stored \cup {[id |-> id, ts |-> ts, tag |-> LineTags[id]]}
        /\ late' = (IF \E x \in stored : After(x, [id |-> id, ts |-> ts, tag |-> LineTags[id]])
                    THEN late \cup {[id |-> id, ts |-> ts, tag |-> LineTags[id]]} ELSE late)
  BY DEF StoreLine
<1>. DEFINE line == [id |-> id, ts |-> ts, tag |-> LineTags[id]]
<1>2. stored' = stored \cup {line} /\ late' = (IF \E x \in stored : After(x, line) THEN late \cup {line} ELSE late)
      /\ UNCHANGED <<filter, shown, newest, older, flight, cut, mixed>>
  BY <1>1 DEF StoreLine
<1>3. IsFiniteSet(stored) /\ Cardinality(stored) \in Nat BY <1>0, FS_CardinalityType DEF LinesInv
<1>4. line.id = Cardinality(stored) + 1 /\ line.ts \in Nat /\ line.tag = LineTags[id] BY <1>1
<1>. HIDE DEF line, id
<1>5. line \notin stored
  <2>1. \A x \in stored : x.id <= Cardinality(stored) BY <1>0, <1>3 DEF LinesInv
  <2>. QED BY <1>3, <1>4, <2>1
<1>6. IsFiniteSet(stored') /\ Cardinality(stored') = Cardinality(stored) + 1 BY <1>2, <1>3, <1>5, FS_AddElement
<1>7. ASSUME line \notin late', NEW y \in stored PROVE After(line, y)
  <2>1. ~After(y, line) BY <1>2, <1>7
  <2>2. {line.ts, line.id, y.ts, y.id} \subseteq Int BY <1>0, <1>3, <1>4, LinesHaveTimes
  <2>3. y.id # line.id BY <1>0, <1>3, <1>4 DEF LinesInv
  <2>. QED BY <2>1, <2>2, <2>3, AfterOrder
<1>8. LinesInv'
  <2>1. \A x \in stored' : x.ts \in Nat /\ x.id \in 1 .. Cardinality(stored')
    BY <1>0, <1>2, <1>3, <1>4, <1>6 DEF LinesInv
  <2>2. stored \subseteq stored' BY <1>2
  <2>3. shown' \in Seq(stored') BY <1>0, <1>2, <2>2, SeqMonotonic DEF LinesInv
  <2>4. \A q \in flight' : AskType(q)'
    <3>. SUFFICES ASSUME NEW q \in flight PROVE AskType(q)' BY <1>2
    <3>1. AskType(q) BY <1>0 DEF LinesInv
    <3>2. \A answer \in q.rows : answer \in Seq(stored') BY <2>2, <3>1, SeqMonotonic DEF AskType
    <3>. QED BY <2>2, <3>1, <3>2 DEF AskType
  <2>. QED BY <1>0, <1>2, <1>6, <2>1, <2>2, <2>3, <2>4 DEF LinesInv
<1>9. AnswersInv'
  <2>. SUFFICES ASSUME NEW q \in flight, NEW answer \in q.rows PROVE AnswerIsWhole(q, answer)' BY <1>2 DEF AnswersInv
  <2>1. AnswerIsWhole(q, answer) /\ AskType(q) BY <1>0 DEF AnswersInv, LinesInv
  <2>2. ToSet(answer) \subseteq stored
    <3>1. answer \in Seq(stored) BY <2>1 DEF AskType
    <3>. QED BY <3>1, ToSetWithin
  <2>3. ASSUME NEW x \in Matching(q)' \ late',
               q.kind # "tail" => NotOlderThan(x, ToSet(answer)), q.kind # "older" => NotNewerThan(x, ToSet(answer))
        PROVE  x \in ToSet(answer)
    <3>1. x \in stored' /\ x \notin late' BY <2>3 DEF Matching
    <3>2. CASE x = line
      <4>1. \A y \in stored : After(x, y) BY <1>7, <3>1, <3>2
      <4>2. q.kind = "older" BY <2>2, <2>3, <4>1 DEF NotNewerThan
      <4>3. PICK y \in q.from : TRUE BY <2>1, <4>2 DEF AskType
      <4>4. After(y, x) BY <2>3, <4>2, <4>3 DEF Matching
      <4>5. y \in stored BY <2>1, <4>3 DEF AskType
      <4>6. {x.ts, x.id, y.ts, y.id} \subseteq Int BY <1>0, <1>3, <1>4, <3>2, <4>5, LinesHaveTimes
      <4>. QED BY <4>1, <4>4, <4>5, <4>6 DEF After
    <3>3. CASE x # line
      <4>1. x \in stored \ late BY <1>2, <3>1, <3>3
      <4>2. x \in Matching(q) \ late BY <2>3, <4>1 DEF Matching
      <4>. QED BY <2>1, <2>3, <4>2 DEF AnswerIsWhole
    <3>. QED BY <3>2, <3>3
  <2>. QED BY <2>1, <2>3 DEF AnswerIsWhole
<1>10. ShownInv'
  <2>. SUFFICES ASSUME ~mixed PROVE older \subseteq Reach /\ (newest = {} => Reach = {}) /\ NothingBetween'
    BY <1>2 DEF ShownInv, Reach
  <2>1. older \subseteq Reach /\ (newest = {} => Reach = {}) /\ NothingBetween BY <1>0 DEF ShownInv
  <2>2. Reach' = Reach BY <1>2 DEF Reach
  <2>3. ASSUME NEW x \in stored' \ late', x.tag \in filter, NotNewerThan(x, newest), NotOlderThan(x, Reach) PROVE x \in Reach
    <3>1. newest \subseteq stored BY <1>0 DEF LinesInv
    <3>2. x # line BY <1>7, <2>3, <3>1 DEF NotNewerThan
    <3>3. x \in stored \ late BY <1>2, <2>3, <3>2
    <3>. QED BY <2>1, <2>3, <3>3 DEF NothingBetween
  <2>4. \A x \in stored' \ late' : x.tag \in filter /\ NotNewerThan(x, newest) /\ NotOlderThan(x, Reach) => x \in Reach
    BY <2>3
  <2>5. NothingBetween'
    <3>1. \A x \in stored' \ late' :
            x.tag \in filter' /\ (\E y \in newest' : ~After(x, y)) /\ (\E z \in Reach' : ~After(z, x)) => x \in Reach'
      BY <1>2, <2>2, <2>4 DEF NotNewerThan, NotOlderThan
    <3>. QED BY <3>1 DEF NothingBetween, NotNewerThan, NotOlderThan
  <2>. QED BY <2>1, <2>5
<1>. QED BY <1>8, <1>9, <1>10 DEF ViewInv

\* What a step of the tab leaves alone: the server's lines, and the page.
LEMMA PageStays ==
  ASSUME ViewInv, UNCHANGED <<stored, late, filter, shown, newest, older, cut>>, mixed' \in {mixed, TRUE},
         \A q \in flight' : q \in flight \/ (AskType(q) /\ \A answer \in q.rows : AnswerIsWhole(q, answer))
  PROVE  ViewInv'
<1>0. LinesInv /\ AnswersInv /\ ShownInv BY DEF ViewInv
<1>1. \A q : AskType(q)' = AskType(q) BY DEF AskType
<1>2. \A q, answer : AnswerIsWhole(q, answer)' = AnswerIsWhole(q, answer) BY DEF AnswerIsWhole, Matching
<1>3. LinesInv' BY <1>0, <1>1 DEF LinesInv
<1>4. AnswersInv'
  <2>1. \A q \in flight' : \A answer \in q.rows : AnswerIsWhole(q, answer) BY <1>0 DEF AnswersInv
  <2>. QED BY <1>2, <2>1 DEF AnswersInv
<1>5. ShownInv'
  <2>1. mixed \/ ~mixed' \/ mixed' = TRUE BY <1>0 DEF LinesInv
  <2>2. Reach' = Reach BY DEF Reach
  <2>3. NothingBetween' = NothingBetween BY <2>2 DEF NothingBetween, NotNewerThan, NotOlderThan
  <2>. QED BY <1>0, <2>1, <2>2, <2>3 DEF ShownInv
<1>. QED BY <1>3, <1>4, <1>5 DEF ViewInv


\* What a tab asks is not answered yet.
LEMMA AskedIsFresh ==
  ASSUME ViewInv, NEW kind, NEW f, NEW end, end \subseteq stored, \A x, y \in end : x = y,
         kind = "older" => end # {}, Sends(kind, f, end)
  PROVE  \A q \in flight' : q \in flight \/ (AskType(q) /\ \A answer \in q.rows : AnswerIsWhole(q, answer))
<1>. DEFINE ask == [kind |-> kind, filter |-> f, from |-> end, rows |-> {}]
<1>1. flight' = flight \cup {ask} BY DEF Sends
<1>2. AskType(ask) BY DEF AskType
<1>3. ask.rows = {} OBVIOUS
<1>. HIDE DEF ask
<1>. QED BY <1>1, <1>2, <1>3

LEMMA AskingKeeps == ASSUME ViewInv, (\E f \in Filters : SetFilter(f)) \/ Tick \/ LoadOlder PROVE ViewInv'
<1>0. LinesInv BY DEF ViewInv
<1>1. ASSUME NEW f \in Filters, SetFilter(f) PROVE ViewInv'
  <2>1. mixed' = TRUE /\ Sends("first", f, {}) /\ UNCHANGED <<stored, shown, newest, older, late, cut>>
    BY <1>1 DEF SetFilter
  <2>2. \A q \in flight' : q \in flight \/ (AskType(q) /\ \A answer \in q.rows : AnswerIsWhole(q, answer))
    BY <2>1, AskedIsFresh
  <2>3. (\A q : AskType(q)' = AskType(q)) /\ (\A q, answer : AnswerIsWhole(q, answer)' = AnswerIsWhole(q, answer))
    BY <2>1 DEF AskType, AnswerIsWhole, Matching
  <2>4. LinesInv' BY <1>0, <2>1, <2>2, <2>3 DEF LinesInv
  <2>5. AnswersInv'
    <3>1. \A q \in flight' : \A answer \in q.rows : AnswerIsWhole(q, answer) BY <2>2 DEF ViewInv, AnswersInv
    <3>. QED BY <2>3, <3>1 DEF AnswersInv
  <2>6. ShownInv' BY <2>1 DEF ShownInv
  <2>. QED BY <2>4, <2>5, <2>6 DEF ViewInv
<1>2. CASE Tick
  <2>1. UNCHANGED <<stored, late, filter, shown, newest, older, cut, mixed>> BY <1>2 DEF Tick, viewHistory
  <2>2. Sends("first", filter, {}) \/ Sends("tail", filter, newest) BY <1>2 DEF Tick
  <2>3. newest \subseteq stored /\ \A x, y \in newest : x = y BY <1>0 DEF LinesInv
  <2>4. \A q \in flight' : q \in flight \/ (AskType(q) /\ \A answer \in q.rows : AnswerIsWhole(q, answer))
    BY <2>2, <2>3, AskedIsFresh
  <2>. QED BY <2>1, <2>4, PageStays
<1>3. CASE LoadOlder
  <2>1. UNCHANGED <<stored, late, filter, shown, newest, older, cut, mixed>> BY <1>3 DEF LoadOlder, viewHistory
  <2>2. Sends("older", filter, older) /\ older # {} BY <1>3 DEF LoadOlder
  <2>3. older \subseteq stored /\ \A x, y \in older : x = y BY <1>0 DEF LinesInv
  <2>4. \A q \in flight' : q \in flight \/ (AskType(q) /\ \A answer \in q.rows : AnswerIsWhole(q, answer))
    BY <2>2, <2>3, AskedIsFresh
  <2>. QED BY <2>1, <2>4, PageStays
<1>. QED BY <1>1, <1>2, <1>3

\* What the server answers is complete, as far as it goes.
LEMMA ServerKeeps == ASSUME ViewInv, NEW q, RunLogQuery(q) PROVE ViewInv'
<1>0. LinesInv BY DEF ViewInv
<1>1. PICK answer \in NewestFirst(Selected(q)) : flight' = (flight \ {q}) \cup {[q EXCEPT !.rows = {answer}]}
  BY DEF RunLogQuery
<1>2. q \in flight /\ UNCHANGED <<stored, late, filter, shown, newest, older, cut, mixed>>
  BY DEF RunLogQuery, viewHistory
<1>3. AskType(q) BY <1>0, <1>2 DEF LinesInv
<1>. DEFINE response == [kind |-> q.kind, filter |-> q.filter, from |-> q.from, rows |-> {answer}]
<1>4. [q EXCEPT !.rows = {answer}] = response
  <2>1. q = [kind |-> q.kind, filter |-> q.filter, from |-> q.from, rows |-> q.rows] BY <1>3 DEF AskType
  <2>. DEFINE asked4 == [kind |-> q.kind, filter |-> q.filter, from |-> q.from, rows |-> q.rows]
  <2>2. [asked4 EXCEPT !.rows = {answer}] = response OBVIOUS
  <2>. QED BY <2>1, <2>2
<1>5. Selected(q) \subseteq stored /\ Selected(q) \subseteq Matching(q) BY DEF Selected, Matching
<1>6. answer \in Seq(stored) /\ ToSet(answer) = Selected(q)
  <2>1. Cardinality(Selected(q)) \in Nat
    <3>1. IsFiniteSet(stored) BY <1>0 DEF LinesInv
    <3>2. IsFiniteSet(Selected(q)) BY <1>5, <3>1, FS_Subset
    <3>. QED BY <3>2, FS_CardinalityType
  <2>2. answer \in [1 .. Cardinality(Selected(q)) -> Selected(q)] /\ ToSet(answer) = Selected(q) BY <1>1 DEF NewestFirst
  <2>3. answer \in Seq(Selected(q)) BY <2>1, <2>2, SeqDef
  <2>. QED BY <1>5, <2>2, <2>3, SeqMonotonic
<1>7. /\ response.kind = q.kind /\ response.filter = q.filter /\ response.from = q.from /\ response.rows = {answer}
      /\ response = [kind |-> response.kind, filter |-> response.filter, from |-> response.from, rows |-> response.rows]
  OBVIOUS
<1>. HIDE DEF response
<1>8. AskType(response) BY <1>3, <1>6, <1>7 DEF AskType
<1>9. AnswerIsWhole(response, answer)
  <2>1. Matching(response) = Matching(q) BY <1>7 DEF Matching
  <2>2. q.kind = "tail" => \A x \in Selected(q), y \in q.from : After(x, y) BY <1>5 DEF Matching
  <2>3. ASSUME NEW x \in Matching(q), q.kind # "tail" => NotOlderThan(x, Selected(q)), q.kind # "older" => NotNewerThan(x, Selected(q))
        PROVE  x \in Selected(q)
    <3>1. CASE q.kind = "tail"
      <4>1. PICK z \in Selected(q) : ~After(x, z) BY <2>3, <3>1 DEF NotNewerThan
      <4>. QED BY <1>0, <3>1, <4>1, SelectedHasNoHoles
    <3>2. CASE q.kind # "tail"
      <4>1. PICK z \in Selected(q) : ~After(z, x) BY <2>3, <3>2 DEF NotOlderThan
      <4>. QED BY <1>0, <3>2, <4>1, SelectedHasNoHoles
    <3>. QED BY <3>1, <3>2
  <2>. QED BY <1>6, <1>7, <2>1, <2>2, <2>3 DEF AnswerIsWhole
<1>10. \A p \in flight' : p \in flight \/ (AskType(p) /\ \A rest \in p.rows : AnswerIsWhole(p, rest))
  BY <1>1, <1>4, <1>7, <1>8, <1>9
<1>. QED BY <1>2, <1>10, PageStays

LEMMA FailedAskKeeps == ASSUME ViewInv, NEW q, AskFails(q) PROVE ViewInv'
<1>1. UNCHANGED <<stored, late, filter, shown, newest, older, cut, mixed>> /\ flight' = flight \ {q}
  BY DEF AskFails, viewHistory
<1>. QED BY <1>1, PageStays


LEMMA AnswerFacts ==
  ASSUME ViewInv, NEW q \in flight, NEW answer \in q.rows
  PROVE  /\ AskType(q) /\ AnswerIsWhole(q, answer) /\ answer \in Seq(stored) /\ ToSet(answer) \subseteq stored
         /\ q.from \subseteq stored
<1>1. AskType(q) /\ AnswerIsWhole(q, answer) BY DEF ViewInv, LinesInv, AnswersInv
<1>2. answer \in Seq(stored) /\ q.from \subseteq stored BY <1>1 DEF AskType
<1>. QED BY <1>1, <1>2, ToSetWithin

LEMMA TakingInKeeps ==
  ASSUME ViewInv, NEW q, flight' = flight \ {q}, UNCHANGED <<stored, filter, late>>,
         shown' \in Seq(stored), newest' \cup cut' \cup older' \subseteq stored, mixed' \in BOOLEAN,
         \A x, y \in newest' : x = y, \A x, y \in older' : x = y
  PROVE  LinesInv' /\ AnswersInv'
<1>0. LinesInv /\ AnswersInv BY DEF ViewInv
<1>1. (\A p : AskType(p)' = AskType(p)) /\ (\A p, answer : AnswerIsWhole(p, answer)' = AnswerIsWhole(p, answer))
  BY DEF AskType, AnswerIsWhole, Matching
<1>2. LinesInv' BY <1>0, <1>1 DEF LinesInv
<1>3. AnswersInv' BY <1>0, <1>1 DEF AnswersInv
<1>. QED BY <1>2, <1>3

\* NothingBetween after a step, for a line at a time.
LEMMA NothingBetweenAfter ==
  ASSUME UNCHANGED <<stored, filter, late>>,
         \A x \in stored \ late :
           x.tag \in filter /\ NotNewerThan(x, newest') /\ NotOlderThan(x, Reach') => x \in Reach'
  PROVE  NothingBetween'
<1>1. \A x \in stored' \ late' :
        x.tag \in filter' /\ (\E y \in newest' : ~After(x, y)) /\ (\E z \in Reach' : ~After(z, x)) => x \in Reach'
  BY DEF NotNewerThan, NotOlderThan
<1>. QED BY <1>1 DEF NothingBetween, NotNewerThan, NotOlderThan

\* A first page is all there is, from its newest line to its oldest.
LEMMA FirstPageKeeps == ASSUME ViewInv, NEW q, NEW answer, FirstArrives(q, answer) PROVE ViewInv'
<1>1. /\ q.kind = "first" /\ q \in flight /\ answer \in q.rows /\ flight' = flight \ {q}
      /\ shown' = answer /\ newest' = Cursor(answer, 1) /\ older' = Cursor(answer, Len(answer))
      /\ cut' = {} /\ mixed' = Strays(q) /\ UNCHANGED <<stored, filter, late>>
  BY DEF FirstArrives, Arrives
<1>2. AnswerIsWhole(q, answer) /\ answer \in Seq(stored) /\ ToSet(answer) \subseteq stored BY <1>1, AnswerFacts
<1>3. answer # <<>> => 1 \in 1 .. Len(answer) /\ Len(answer) \in 1 .. Len(answer) BY <1>2, EmptySeq
<1>4. /\ newest' \subseteq ToSet(answer) /\ (\A x, y \in newest' : x = y) /\ (newest' = {} => answer = <<>>)
      /\ older' \subseteq ToSet(answer) /\ (\A x, y \in older' : x = y)
  BY <1>1, <1>2, <1>3, CursorOf
<1>5. mixed' \in BOOLEAN BY <1>1 DEF Strays
<1>6. LinesInv' /\ AnswersInv'
  <2>1. shown' \in Seq(stored) /\ newest' \cup cut' \cup older' \subseteq stored BY <1>1, <1>2, <1>4
  <2>. QED BY <1>1, <1>4, <1>5, <2>1, TakingInKeeps
<1>7. Reach' = ToSet(answer) BY <1>1 DEF Reach
<1>8. ShownInv'
  <2>. SUFFICES ASSUME ~mixed' PROVE older' \subseteq Reach' /\ (newest' = {} => Reach' = {}) /\ NothingBetween'
    BY DEF ShownInv
  <2>1. q.filter = filter BY <1>1 DEF Strays
  <2>2. newest' = {} => Reach' = {} BY <1>4, <1>7 DEF ToSet
  <2>3. ASSUME NEW x \in stored \ late, x.tag \in filter, NotNewerThan(x, newest'), NotOlderThan(x, Reach')
        PROVE  x \in Reach'
    <3>1. x \in Matching(q) \ late BY <1>1, <2>1, <2>3 DEF Matching
    <3>2. NotNewerThan(x, ToSet(answer)) BY <1>4, <2>3 DEF NotNewerThan
    <3>. QED BY <1>2, <1>7, <2>3, <3>1, <3>2 DEF AnswerIsWhole
  <2>4. NothingBetween' BY <1>1, <2>3, NothingBetweenAfter
  <2>. QED BY <1>4, <1>7, <2>2, <2>4
<1>. QED BY <1>6, <1>8 DEF ViewInv

\* An answer of the tail begins where the tab's lines, or others before them, end.
LEMMA TailKeeps == ASSUME ViewInv, NEW q, NEW answer, TailArrives(q, answer), answer # <<>> PROVE ViewInv'
<1>. DEFINE all == answer \o shown
<1>. DEFINE n == IF Len(all) < Cap THEN Len(all) ELSE Cap
<1>0. LinesInv /\ ShownInv BY DEF ViewInv
<1>1. /\ q.kind = "tail" /\ q \in flight /\ answer \in q.rows /\ flight' = flight \ {q}
      /\ shown' = SubSeq(all, 1, n) /\ newest' = Cursor(answer, 1)
      /\ cut' = cut \cup ToSet(SubSeq(all, n + 1, Len(all)))
      /\ mixed' = (mixed \/ Strays(q)) /\ UNCHANGED <<stored, filter, older, late>>
  BY DEF TailArrives, Arrives, TailFromFirst, Mixes
<1>2. /\ AnswerIsWhole(q, answer) /\ answer \in Seq(stored) /\ ToSet(answer) \subseteq stored /\ q.from \subseteq stored
      /\ AskType(q)
  BY <1>1, AnswerFacts
<1>3. all \in Seq(stored) /\ ToSet(all) = ToSet(answer) \cup ToSet(shown) BY <1>0, <1>2, ToSetOfJoined DEF LinesInv
<1>4. n \in 0 .. Len(all)
  <2>1. Len(all) \in Nat BY <1>3, LenProperties
  <2>. HIDE DEF all
  <2>. QED BY <2>1, ViewNumbers
<1>5. /\ shown' \in Seq(stored) /\ SubSeq(all, n + 1, Len(all)) \in Seq(stored)
      /\ ToSet(all) = ToSet(shown') \cup ToSet(SubSeq(all, n + 1, Len(all)))
  <2>. HIDE DEF all, n
  <2>. QED BY <1>1, <1>3, <1>4, ToSetOfParts
<1>. HIDE DEF all, n
<1>6. Reach' = ToSet(answer) \cup Reach BY <1>1, <1>3, <1>5 DEF Reach
<1>7. newest' \subseteq ToSet(answer) /\ (\A x, y \in newest' : x = y) /\ newest' # {}
  <2>1. answer # <<>> => 1 \in 1 .. Len(answer) BY <1>2, EmptySeq
  <2>. QED BY <1>1, <1>2, <2>1, CursorOf
<1>8. LinesInv' /\ AnswersInv'
  <2>1. ToSet(SubSeq(all, n + 1, Len(all))) \subseteq stored BY <1>5, ToSetWithin
  <2>2. newest' \cup cut' \cup older' \subseteq stored BY <1>0, <1>1, <1>2, <1>7, <2>1 DEF LinesInv
  <2>3. mixed' \in BOOLEAN BY <1>0, <1>1 DEF LinesInv, Strays
  <2>4. \A x, y \in older' : x = y BY <1>0, <1>1 DEF LinesInv
  <2>. QED BY <1>1, <1>5, <1>7, <2>2, <2>3, <2>4, TakingInKeeps
<1>9. ShownInv'
  <2>. SUFFICES ASSUME ~mixed' PROVE older' \subseteq Reach' /\ (newest' = {} => Reach' = {}) /\ NothingBetween'
    BY DEF ShownInv
  <2>1. ~mixed /\ ~Strays(q) BY <1>1
  <2>2. q.filter = filter /\ (newest # {} => \E f \in q.from : \E y \in newest : ~After(f, y)) BY <1>1, <2>1 DEF Strays
  <2>3. older \subseteq Reach /\ (newest = {} => Reach = {}) /\ NothingBetween BY <1>0, <2>1 DEF ShownInv
  <2>4. Reach \subseteq stored /\ newest \subseteq stored
    <3>1. ToSet(shown) \subseteq stored BY <1>0, ToSetWithin DEF LinesInv
    <3>. QED BY <1>0, <3>1 DEF LinesInv, Reach
  <2>5. ASSUME NEW x \in stored \ late, x.tag \in filter, NotNewerThan(x, newest'), NotOlderThan(x, Reach')
        PROVE  x \in Reach'
    <3>1. NotNewerThan(x, ToSet(answer)) BY <1>7, <2>5 DEF NotNewerThan
    <3>2. CASE \A f \in q.from : After(x, f)
      <4>1. x \in Matching(q) \ late BY <1>1, <2>2, <2>5, <3>2 DEF Matching
      <4>. QED BY <1>1, <1>2, <1>6, <3>1, <4>1 DEF AnswerIsWhole
    <3>3. CASE ~(\A f \in q.from : After(x, f))
      <4>1. PICK f \in q.from : ~After(x, f) BY <3>3
      <4>2. PICK z \in Reach' : ~After(z, x) BY <2>5 DEF NotOlderThan
      <4>3. f \in stored /\ z \in stored BY <1>2, <1>6, <2>4, <4>1, <4>2
      <4>4. z \notin ToSet(answer)
        <5>. SUFFICES ASSUME z \in ToSet(answer) PROVE FALSE OBVIOUS
        <5>1. After(z, f) BY <1>1, <1>2, <4>1 DEF AnswerIsWhole
        <5>. QED BY <1>0, <4>1, <4>2, <4>3, <5>1, StoredOrder
      <4>5. z \in Reach BY <1>6, <4>2, <4>4
      <4>6. PICK g \in q.from, y \in newest : ~After(g, y) BY <2>2, <2>3, <4>5
      <4>7. f = g BY <1>2, <4>1, <4>6 DEF AskType
      <4>8. ~After(x, y) BY <1>0, <2>4, <4>1, <4>3, <4>6, <4>7, StoredOrder
      <4>9. NotNewerThan(x, newest) /\ NotOlderThan(x, Reach) BY <4>2, <4>5, <4>6, <4>8 DEF NotNewerThan, NotOlderThan
      <4>10. x \in Reach BY <2>3, <2>5, <4>9 DEF NothingBetween
      <4>. QED BY <1>6, <4>10
    <3>. QED BY <3>2, <3>3
  <2>6. NothingBetween' BY <1>1, <2>5, NothingBetweenAfter
  <2>. QED BY <1>1, <1>6, <1>7, <2>3, <2>6
<1>. QED BY <1>8, <1>9 DEF ViewInv

\* A page of older lines begins where the tab's lines end.
LEMMA OlderKeeps == ASSUME ViewInv, NEW q, NEW answer, OlderArrives(q, answer) PROVE ViewInv'
<1>0. LinesInv /\ ShownInv BY DEF ViewInv
<1>1. /\ q.kind = "older" /\ q \in flight /\ answer \in q.rows /\ flight' = flight \ {q}
      /\ shown' = shown \o answer /\ older' = Cursor(answer, Len(answer))
      /\ mixed' = (mixed \/ Strays(q)) /\ UNCHANGED <<stored, filter, newest, late, cut>>
  BY DEF OlderArrives, Arrives, Mixes
<1>2. /\ AnswerIsWhole(q, answer) /\ answer \in Seq(stored) /\ ToSet(answer) \subseteq stored /\ q.from \subseteq stored
      /\ AskType(q)
  BY <1>1, AnswerFacts
<1>3. shown' \in Seq(stored) /\ ToSet(shown') = ToSet(shown) \cup ToSet(answer) BY <1>0, <1>1, <1>2, ToSetOfJoined DEF LinesInv
<1>4. Reach' = Reach \cup ToSet(answer) BY <1>1, <1>3 DEF Reach
<1>5. older' \subseteq ToSet(answer) /\ (\A x, y \in older' : x = y)
  <2>1. answer # <<>> => Len(answer) \in 1 .. Len(answer) BY <1>2, EmptySeq
  <2>. QED BY <1>1, <1>2, <2>1, CursorOf
<1>6. LinesInv' /\ AnswersInv'
  <2>1. newest' \cup cut' \cup older' \subseteq stored BY <1>0, <1>1, <1>2, <1>5 DEF LinesInv
  <2>2. mixed' \in BOOLEAN BY <1>0, <1>1 DEF LinesInv, Strays
  <2>3. \A x, y \in newest' : x = y BY <1>0, <1>1 DEF LinesInv
  <2>. QED BY <1>1, <1>3, <1>5, <2>1, <2>2, <2>3, TakingInKeeps
<1>7. ShownInv'
  <2>. SUFFICES ASSUME ~mixed' PROVE older' \subseteq Reach' /\ (newest' = {} => Reach' = {}) /\ NothingBetween'
    BY DEF ShownInv
  <2>1. ~mixed /\ q.filter = filter /\ q.from = older BY <1>1 DEF Strays
  <2>2. older \subseteq Reach /\ (newest = {} => Reach = {}) /\ NothingBetween BY <1>0, <2>1 DEF ShownInv
  <2>3. PICK o \in older : TRUE BY <1>1, <1>2, <2>1 DEF AskType
  <2>4. newest # {} BY <2>2, <2>3
  <2>5. ASSUME NEW x \in stored \ late, x.tag \in filter, NotNewerThan(x, newest'), NotOlderThan(x, Reach')
        PROVE  x \in Reach'
    <3>1. NotNewerThan(x, newest) BY <1>1, <2>5
    <3>2. CASE NotOlderThan(x, Reach)
      <4>1. x \in Reach BY <2>2, <2>5, <3>1, <3>2 DEF NothingBetween
      <4>. QED BY <1>4, <4>1
    <3>3. CASE ~NotOlderThan(x, Reach)
      <4>1. NotOlderThan(x, ToSet(answer)) BY <1>4, <2>5, <3>3 DEF NotOlderThan
      <4>2. \A y \in q.from : After(y, x) BY <2>1, <2>2, <3>3 DEF NotOlderThan
      <4>3. x \in Matching(q) \ late BY <1>1, <2>1, <2>5, <4>2 DEF Matching
      <4>. QED BY <1>1, <1>2, <1>4, <4>1, <4>3 DEF AnswerIsWhole
    <3>. QED BY <3>2, <3>3
  <2>6. NothingBetween' BY <1>1, <2>5, NothingBetweenAfter
  <2>. QED BY <1>1, <1>4, <1>5, <2>4, <2>6
<1>. QED BY <1>6, <1>7 DEF ViewInv

LEMMA ViewStep == ViewInv /\ [ViewNext]_viewVars => ViewInv'
<1>. SUFFICES ASSUME ViewInv, [ViewNext]_viewVars PROVE ViewInv' OBVIOUS
<1>1. CASE StoreLine BY <1>1, StoreKeeps
<1>2. CASE (\E f \in Filters : SetFilter(f)) \/ Tick \/ LoadOlder BY <1>2, AskingKeeps
<1>3. ASSUME NEW q \in flight, RunLogQuery(q) PROVE ViewInv' BY <1>3, ServerKeeps
<1>4. ASSUME NEW q \in flight, AskFails(q) PROVE ViewInv' BY <1>4, FailedAskKeeps
<1>5. ASSUME NEW q \in flight, NEW answer \in q.rows, FirstArrives(q, answer) PROVE ViewInv' BY <1>5, FirstPageKeeps
<1>6. ASSUME NEW q \in flight, NEW answer \in q.rows, TailArrives(q, answer) PROVE ViewInv'
  <2>1. CASE answer # <<>> BY <1>6, <2>1, TailKeeps
  <2>2. CASE answer = <<>>
    <3>1. UNCHANGED <<stored, late, filter, shown, newest, older, cut, mixed>> /\ flight' = flight \ {q}
      BY <1>6, <2>2 DEF TailArrives, Arrives
    <3>. QED BY <3>1, PageStays
  <2>. QED BY <2>1, <2>2
<1>7. ASSUME NEW q \in flight, NEW answer \in q.rows, OlderArrives(q, answer) PROVE ViewInv' BY <1>7, OlderKeeps
<1>8. CASE UNCHANGED viewVars
  <2>1. UNCHANGED <<stored, late, filter, shown, newest, older, cut, mixed>> /\ flight' = flight BY <1>8 DEF viewVars, viewHistory
  <2>. QED BY <2>1, PageStays
<1>. QED BY <1>1, <1>2, <1>3, <1>4, <1>5, <1>6, <1>7, <1>8 DEF ViewNext

LEMMA ViewHasNoHoles == ViewInv => NoHoles
<1>. SUFFICES ASSUME ViewInv, ~mixed, NEW x \in stored \ (late \cup cut), x.tag \in filter,
                     \E y \in newest : ~After(x, y), \E z \in ToSet(shown) : ~After(z, x)
              PROVE  x \in ToSet(shown)
  BY DEF NoHoles
<1>1. NothingBetween BY DEF ViewInv, ShownInv
<1>2. NotNewerThan(x, newest) /\ NotOlderThan(x, Reach) BY DEF NotNewerThan, NotOlderThan, Reach
<1>. QED BY <1>1, <1>2 DEF NothingBetween, Reach

-----------------------------------------------------------------------------
(* What the tab's variables hold. *)

LEMMA RunnerTyped == RunnerSpec => []RunnerTypes
<1>1. RunnerInit => RunnerTypes
  <2>1. 0 \in 0 .. MaxPosts BY RunnerAssumption
  <2>. QED BY <2>1 DEF RunnerInit, RunnerTypes
<1>2. RunnerTypes /\ [RunnerNext]_runnerVars => RunnerTypes'
  <2>. SUFFICES ASSUME RunnerTypes, [RunnerNext]_runnerVars PROVE RunnerTypes' OBVIOUS
  <2>1. posted \in 0 .. MaxPosts /\ posted \in Int /\ MaxPosts \in Int BY RunnerAssumption DEF RunnerTypes
  <2>2. ASSUME NEW a \in SafeActions \cup Dialogs, NEW gated, posted < MaxPosts, PostOf(a, gated)
        PROVE  /\ posted' \in 0 .. MaxPosts
               /\ \A m \in waiting' : m[1] \in 1 .. posted' /\ m[2] \in SafeActions \cup Dialogs
    <3>. DEFINE post == <<posted + 1, a, gated>>
    <3>1. posted' = posted + 1 /\ waiting' = waiting \cup {post} /\ post[1] = posted + 1 /\ post[2] = a
      BY <2>2 DEF PostOf
    <3>. HIDE DEF post
    <3>2. \A m \in waiting : m[1] \in 1 .. posted /\ m[2] \in SafeActions \cup Dialogs BY DEF RunnerTypes
    <3>3. posted' \in 0 .. MaxPosts /\ posted + 1 \in 1 .. posted' /\ 1 .. posted \subseteq 1 .. posted' BY <2>1, <2>2, <3>1
    <3>. QED BY <2>2, <3>1, <3>2, <3>3
  <2>3. ASSUME NEW a \in SafeActions, RunSafe(a) PROVE RunnerTypes'
    <3>1. posted < MaxPosts /\ PostOf(a, FALSE) /\ UNCHANGED <<pending, typed, busy>> BY <2>3 DEF RunSafe
    <3>. QED BY <2>2, <3>1 DEF RunnerTypes
  <2>4. ASSUME NEW a \in Dialogs, RunGated(a) PROVE RunnerTypes' BY <2>4 DEF RunGated, RunnerTypes
  <2>5. CASE TypeConfirm BY <2>5 DEF TypeConfirm, RunnerTypes
  <2>6. CASE Cancel BY <2>6 DEF Cancel, RunnerTypes
  <2>7. CASE Execute
    <3>1. /\ pending \in Dialogs /\ posted < MaxPosts /\ PostOf(pending, TRUE) /\ busy' = TRUE
          /\ UNCHANGED <<pending, typed>>
      BY <2>7 DEF Execute, RunnerTypes
    <3>. QED BY <2>2, <3>1 DEF RunnerTypes
  <2>8. CASE Reload BY <2>8 DEF Reload, RunnerTypes
  <2>9. ASSUME NEW m \in waiting, AnswerComes(m) \/ FetchRejects(m) PROVE RunnerTypes'
    BY <2>9 DEF AnswerComes, FetchRejects, RunnerTypes
  <2>10. CASE UNCHANGED runnerVars BY <2>10 DEF runnerVars, RunnerTypes
  <2>. QED BY <2>3, <2>4, <2>5, <2>6, <2>7, <2>8, <2>9, <2>10 DEF RunnerNext
<1>. QED BY <1>1, <1>2, PTL DEF RunnerSpec

\* Beyond ViewInv.
RequestsInv ==
  /\ filter \in Filters /\ late \subseteq stored
  /\ \A x \in stored : x.tag = LineTags[x.id]
  /\ IsFiniteSet(flight) /\ Cardinality(flight) <= MaxFlight

LEMMA ViewTyped == ViewSpec => []ViewTypes
<1>0. MaxFlight \in Nat \ {0} /\ ToSet(LineTags) \in Filters BY LogViewerAssumption
<1>1. ViewInit => RequestsInv
  <2>. SUFFICES ASSUME ViewInit PROVE RequestsInv OBVIOUS
  <2>1. stored = {} /\ late = {} /\ filter \in Filters BY <1>0 DEF ViewInit
  <2>2. PICK ask : flight = {ask} BY DEF ViewInit
  <2>3. IsFiniteSet(flight) /\ Cardinality(flight) = 1 BY <2>2, FS_Singleton
  <2>4. 1 <= MaxFlight BY <1>0
  <2>. QED BY <2>1, <2>3, <2>4 DEF RequestsInv
<1>2. ViewInv /\ RequestsInv /\ [ViewNext]_viewVars => RequestsInv'
  <2>. SUFFICES ASSUME ViewInv, RequestsInv, [ViewNext]_viewVars PROVE RequestsInv' OBVIOUS
  <2>1. IsFiniteSet(flight) /\ Cardinality(flight) <= MaxFlight /\ Cardinality(flight) \in Nat /\ MaxFlight \in Nat
    BY <1>0, FS_CardinalityType DEF RequestsInv
  <2>. DEFINE Bounded == IsFiniteSet(flight') /\ Cardinality(flight') <= MaxFlight
  <2>2. ASSUME NEW kind, NEW f, NEW end, MayAsk, Sends(kind, f, end) PROVE Bounded
    <3>1. Cardinality(flight) < MaxFlight BY <2>2 DEF MayAsk
    <3>2. PICK ask : flight' = flight \cup {ask} BY <2>2 DEF Sends
    <3>3. IsFiniteSet(flight') /\ (Cardinality(flight') = Cardinality(flight) \/ Cardinality(flight') = Cardinality(flight) + 1)
      BY <2>1, <3>2, FS_AddElement
    <3>. QED BY <2>1, <3>1, <3>3
  <2>3. ASSUME NEW q \in flight, flight' = flight \ {q} PROVE Bounded
    <3>1. IsFiniteSet(flight') /\ Cardinality(flight') = Cardinality(flight) - 1 BY <2>1, <2>3, FS_RemoveElement
    <3>. QED BY <2>1, <3>1
  <2>4. ASSUME NEW q \in flight, NEW reply, flight' = (flight \ {q}) \cup {reply} PROVE Bounded
    <3>. DEFINE rest == flight \ {q}
    <3>1. IsFiniteSet(rest) /\ Cardinality(rest) = Cardinality(flight) - 1 BY <2>1, FS_RemoveElement
    <3>. HIDE DEF rest
    <3>2. /\ IsFiniteSet(rest \cup {reply})
          /\ \/ Cardinality(rest \cup {reply}) = Cardinality(rest)
             \/ Cardinality(rest \cup {reply}) = Cardinality(rest) + 1
      BY <3>1, FS_AddElement
    <3>3. flight' = rest \cup {reply} BY <2>4 DEF rest
    <3>4. IsFiniteSet(flight') /\ (Cardinality(flight') = Cardinality(rest) \/ Cardinality(flight') = Cardinality(rest) + 1)
      BY <3>2, <3>3, Zenon
    <3>. QED BY <2>1, <3>1, <3>4
  <2>5. CASE StoreLine
    <3>. DEFINE id == Cardinality(stored) + 1
    <3>1. PICK ts : /\ stored' = stored \cup {[id |-> id, ts |-> ts, tag |-> LineTags[id]]}
                    /\ late' \subseteq late \cup {[id |-> id, ts |-> ts, tag |-> LineTags[id]]}
      BY <2>5 DEF StoreLine
    <3>2. UNCHANGED <<filter, flight>> BY <2>5 DEF StoreLine
    <3>. HIDE DEF id
    <3>3. \A x \in stored' : x.tag = LineTags[x.id] BY <3>1 DEF RequestsInv
    <3>4. late' \subseteq stored' BY <3>1 DEF RequestsInv
    <3>. QED BY <3>2, <3>3, <3>4 DEF RequestsInv
  <2>6. CASE ~StoreLine
    <3>1. UNCHANGED <<stored, late>>
      BY <2>6 DEF ViewNext, SetFilter, Tick, LoadOlder, RunLogQuery, AskFails, FirstArrives, TailArrives, OlderArrives,
                  viewVars, viewHistory
    <3>2. filter' \in Filters
      BY <2>6 DEF ViewNext, SetFilter, Tick, LoadOlder, RunLogQuery, AskFails, FirstArrives, TailArrives, OlderArrives,
                  viewVars, viewHistory, RequestsInv
    <3>3. Bounded
      <4>. HIDE DEF Bounded
      <4>1. CASE (\E f \in Filters : SetFilter(f)) \/ Tick \/ LoadOlder BY <2>2, <4>1 DEF SetFilter, Tick, LoadOlder
      <4>2. ASSUME NEW q \in flight, RunLogQuery(q) PROVE Bounded BY <2>4, <4>2 DEF RunLogQuery
      <4>3. ASSUME NEW q \in flight,
                   AskFails(q) \/ \E rows3 \in q.rows : FirstArrives(q, rows3) \/ TailArrives(q, rows3) \/ OlderArrives(q, rows3)
            PROVE  Bounded
        BY <2>3, <4>3 DEF AskFails, FirstArrives, TailArrives, OlderArrives, Arrives
      <4>4. CASE UNCHANGED viewVars BY <2>1, <4>4 DEF viewVars, Bounded
      <4>. QED BY <2>6, <4>1, <4>2, <4>3, <4>4 DEF ViewNext
    <3>. QED BY <3>1, <3>2, <3>3 DEF RequestsInv
  <2>. QED BY <2>5, <2>6
<1>3. ViewInv /\ RequestsInv => ViewTypes
  <2>. SUFFICES ASSUME ViewInv, RequestsInv PROVE ViewTypes OBVIOUS
  <2>1. shown \in Seq(stored) /\ newest \cup cut \cup older \subseteq stored /\ mixed \in BOOLEAN BY DEF ViewInv, LinesInv
  <2>2. ToSet(shown) \subseteq stored BY <2>1, ToSetWithin
  <2>. QED BY <2>1, <2>2 DEF ViewTypes, RequestsInv
<1>. QED BY <1>1, <1>2, <1>3, ViewInitial, ViewStep, PTL DEF ViewSpec

\* Beyond PageInv: the clock bounds what is shown.
WithinClock ==
  /\ pageClock <= MaxPageTime /\ pageFaults \in 0 .. MaxPageFaults
  /\ HasData => data.at <= pageClock
  /\ feed.slice # NoData => feed.slice <= pageClock

LEMMA PageTyped == PageSpec => []PageTypes
<1>0. MaxPageTime \in Nat /\ MaxPageFaults \in Nat BY PagesAssumption
<1>1. PageInit => WithinClock
  <2>. SUFFICES ASSUME PageInit PROVE WithinClock OBVIOUS
  <2>1. pageClock = 0 /\ pageFaults = 0 /\ feed.slice = NoData BY DEF PageInit
  <2>2. HasData => data.at = pageClock BY DEF PageInit, FirstData, Served, HasData
  <2>. QED BY <1>0, <2>1, <2>2 DEF WithinClock
<1>2. PageInv /\ WithinClock /\ [PageNext]_pageVars => WithinClock'
  <2>. SUFFICES ASSUME PageInv, WithinClock, [PageNext]_pageVars PROVE WithinClock' OBVIOUS
  <2>1. TimesInv /\ FetchesInv BY DEF PageInv
  <2>2. /\ pageClock \in Nat /\ pageFaults \in 0 .. MaxPageFaults
        /\ HasData => data.at \in Nat
        /\ feed.slice # NoData => feed.slice \in Nat
    BY <2>1, TabNumbers DEF TimesInv, FeedType, WithinClock
  <2>3. view' = view
    BY DEF PageNext, PageClockTicks, SubjectChanges, FeedFrame, FeedCutOff, FeedEnds, Refetch, PageReloads, Ack, GetAnswers, ListArrives,
           FetchFails, PostAcks, AckArrives, AckFails, pageVars
  <2>4. ViewKind' = ViewKind BY <2>3, ViewFacts
  <2>5. pageFaults' \in 0 .. MaxPageFaults
    <3>1. pageFaults' = pageFaults \/ PageFault
      BY DEF PageNext, PageClockTicks, SubjectChanges, FeedFrame, FeedCutOff, FeedEnds, Refetch, PageReloads, Ack, GetAnswers, ListArrives,
             FetchFails, PostAcks, AckArrives, AckFails, pageVars
    <3>. QED BY <1>0, <2>2, <3>1 DEF PageFault
  <2>6. CASE PageClockTicks
    <3>1. pageClock < MaxPageTime /\ pageClock' = pageClock + 1 /\ UNCHANGED <<data, feed>>
      BY <2>6 DEF PageClockTicks, tabVars
    <3>2. HasData' = HasData BY <2>4, <3>1 DEF HasData
    <3>3. pageClock' <= MaxPageTime /\ pageClock <= pageClock' BY <1>0, <2>2, <3>1
    <3>4. HasData => data.at <= pageClock' BY <2>2, <3>1 DEF WithinClock
    <3>5. feed.slice # NoData => feed.slice <= pageClock' BY <2>2, <3>1 DEF WithinClock
    <3>. QED BY <2>5, <3>1, <3>2, <3>3, <3>4, <3>5 DEF WithinClock
  <2>7. CASE ~PageClockTicks
    <3>1. pageClock' = pageClock
      BY <2>7 DEF PageNext, SubjectChanges, FeedFrame, FeedCutOff, FeedEnds, Refetch, PageReloads, Ack, GetAnswers, ListArrives,
           FetchFails, PostAcks, AckArrives, AckFails, pageVars
    <3>2. feed'.slice # NoData => feed'.slice <= pageClock
      <4>1. feed' = feed \/ FeedFrame \/ FeedCutOff \/ FeedEnds
        BY <2>7 DEF PageNext, SubjectChanges, Refetch, PageReloads, Ack, GetAnswers, ListArrives,
             FetchFails, PostAcks, AckArrives, AckFails, pageVars
      <4>2. feed \in FeedType BY <2>1 DEF TimesInv
      <4>3. CASE FeedFrame
        <5>1. \E slice \in {pageClock, NoData} : feed' = [live |-> TRUE, slice |-> slice, cut |-> FALSE]
          BY <4>3 DEF FeedFrame
        <5>2. feed'.slice = NoData \/ feed'.slice = pageClock BY <5>1
        <5>. QED BY <2>2, <5>2
      <4>4. CASE FeedEnds \/ FeedCutOff
        <5>1. feed'.slice = feed.slice BY <4>2, <4>4 DEF FeedEnds, FeedCutOff, FeedType
        <5>. QED BY <5>1 DEF WithinClock
      <4>. QED BY <4>1, <4>3, <4>4 DEF WithinClock
    <3>3. HasData' => data'.at <= pageClock
      <4>1. data' = data \/ (\E q \in fetches : ListArrives(q) \/ AckArrives(q)) \/ PageReloads
        BY <2>7 DEF PageNext, SubjectChanges, FeedFrame, FeedCutOff, FeedEnds, Refetch, Ack, GetAnswers,
             FetchFails, PostAcks, AckFails, pageVars, tabVars
      <4>2. CASE data' = data
        <5>1. HasData' = HasData BY <2>4, <4>2 DEF HasData
        <5>. QED BY <4>2, <5>1 DEF WithinClock
      <4>3. ASSUME NEW q \in fetches, ListArrives(q) PROVE data'.at <= pageClock
        <5>1. q.read # Unread /\ data'.at = q.read BY <4>3 DEF ListArrives
        <5>. QED BY <2>1, <5>1 DEF FetchesInv
      <4>4. ASSUME NEW q \in fetches, AckArrives(q), data' # data PROVE data'.at <= pageClock
        <5>1. q.kind # "poll" /\ data' = [data EXCEPT !.acked = TRUE] BY <4>4 DEF AckArrives
        <5>2. ViewKind.rendered BY <2>1, <5>1 DEF FetchesInv
        <5>3. data \in [at : Nat, there : BOOLEAN, acked : BOOLEAN] BY <2>1, <5>2 DEF TimesInv
        <5>4. data'.at = data.at BY <5>1, <5>3
        <5>. QED BY <5>2, <5>4 DEF WithinClock, HasData
      <4>5. CASE PageReloads
        <5>1. data' = FirstData BY <4>5 DEF PageReloads
        <5>2. HasData' => data'.at = pageClock BY <2>4, <5>1 DEF FirstData, Served, HasData
        <5>. QED BY <2>2, <5>2
      <4>. QED BY <4>1, <4>2, <4>3, <4>4, <4>5
    <3>. QED BY <2>5, <3>1, <3>2, <3>3 DEF WithinClock
  <2>. QED BY <2>6, <2>7
<1>3. PageInv /\ WithinClock => PageTypes
  <2>. SUFFICES ASSUME PageInv, WithinClock PROVE PageTypes OBVIOUS
  <2>1. TimesInv /\ FetchesInv BY DEF PageInv
  <2>2. pageClock \in 0 .. MaxPageTime BY <1>0, <2>1 DEF TimesInv, WithinClock
  <2>3. ASSUME NEW q \in fetches PROVE q.kind \in {"poll", "refresh", "ack"} /\ q.read \in Unread .. MaxPageTime
    <3>1. q.kind \in {"poll", "refresh", "ack"} /\ q.read \in Int /\ q.sent \in Nat BY <2>1, TabNumbers
    <3>2. q.read # Unread => q.sent <= q.read /\ q.read <= pageClock BY <2>1 DEF FetchesInv
    <3>. QED BY <1>0, <2>2, <3>1, <3>2 DEF Unread
  <2>4. data = NoData \/ data \in [at : 0 .. MaxPageTime, there : BOOLEAN, acked : BOOLEAN]
    <3>1. data # NoData => data \in [at : Nat, there : BOOLEAN, acked : BOOLEAN] /\ data.at \in Nat /\ data.at <= pageClock
      BY <2>1, TabNumbers DEF TimesInv, WithinClock, HasData
    <3>2. data # NoData => data.at \in 0 .. MaxPageTime BY <1>0, <2>2, <3>1
    <3>. QED BY <3>1, <3>2
  <2>5. feed.live \in BOOLEAN /\ feed.cut \in BOOLEAN /\ (feed.slice = NoData \/ feed.slice \in 0 .. MaxPageTime)
    <3>1. feed.live \in BOOLEAN /\ feed.cut \in BOOLEAN /\ feed.slice \in {NoData} \cup Nat BY <2>1 DEF TimesInv, FeedType
    <3>2. feed.slice # NoData => feed.slice <= pageClock BY DEF WithinClock
    <3>. QED BY <1>0, <2>2, <3>1, <3>2
  <2>. QED BY <2>1, <2>2, <2>3, <2>4, <2>5 DEF PageTypes, TimesInv, WithinClock
<1>. QED BY <1>1, <1>2, <1>3, PageInitial, PageStep, PTL DEF PageSpec

-----------------------------------------------------------------------------
(* The tab, among the other parts. *)

\* A step follows one part, as that part goes on by itself, and leaves the others alone.
PartsStep ==
  /\ [LogNext]_logVars
  /\ [RetentionNext]_retentionVars
  /\ [MediaNext]_mediaVars
  /\ [ReadingNext]_readingVars
  /\ [AccountNext]_accountVars
  /\ [LimitNext]_limitVars
  /\ [ActionNext]_actionVars
  /\ [RunnerNext]_runnerVars
  /\ [PushNext]_pushVars
  /\ [ViewNext]_viewVars
  /\ [PageNext]_pageVars
  /\ [AgentNext]_agentVars

LEMMA EachPartSteps == [Next]_vars => PartsStep
<1>. SUFFICES ASSUME [Next]_vars PROVE PartsStep OBVIOUS
<1>1. CASE UNCHANGED vars BY <1>1 DEF vars, PartsStep
<1>2. CASE LogNext /\ Others("logs") BY <1>2 DEF Others, PartsStep
<1>3. CASE RetentionNext /\ Others("retention") BY <1>3 DEF Others, PartsStep
<1>4. CASE MediaNext /\ Others("media") BY <1>4 DEF Others, PartsStep
<1>5. CASE ReadingNext /\ Others("readings") BY <1>5 DEF Others, PartsStep
<1>6. CASE AccountNext /\ Others("accounts") BY <1>6 DEF Others, PartsStep
<1>7. CASE LimitNext /\ Others("limiter") BY <1>7 DEF Others, PartsStep
<1>8. CASE ActionNext /\ Others("actions") BY <1>8 DEF Others, PartsStep
<1>9. CASE RunnerNext /\ Others("runner") BY <1>9 DEF Others, PartsStep
<1>10. CASE PushNext /\ Others("push") BY <1>10 DEF Others, PartsStep
<1>11. CASE ViewNext /\ Others("viewer") BY <1>11 DEF Others, PartsStep
<1>12. CASE PageNext /\ Others("pages") BY <1>12 DEF Others, PartsStep
<1>13. CASE AgentNext /\ Others("agent") BY <1>13 DEF Others, PartsStep
<1>. QED BY <1>1, <1>2, <1>3, <1>4, <1>5, <1>6, <1>7, <1>8, <1>9, <1>10, <1>11, <1>12, <1>13 DEF Next

\* Put side by side, every part behaves as it does by itself: so what is proved of a part by
\* itself holds of the parts together, and what the runs check of them together is a part's own
\* (StackDashboard follows one part at a time; the parts share no state, as their code does not).
THEOREM PartsBehave ==
  Spec => /\ LogSpec /\ RetentionSpec /\ MediaSpec /\ ReadingSpec /\ AccountSpec /\ LimitSpec /\ ActionSpec
          /\ RunnerSpec /\ PushSpec /\ ViewSpec /\ PageSpec /\ AgentSpec
<1>1. Init => /\ LogInit /\ RetentionInit /\ MediaInit /\ ReadingInit /\ AccountInit /\ LimitInit /\ ActionInit
              /\ RunnerInit /\ PushInit /\ ViewInit /\ PageInit /\ AgentInit
  BY DEF Init
<1>2. [Next]_vars =>
        /\ [LogNext]_logVars
        /\ [RetentionNext]_retentionVars
        /\ [MediaNext]_mediaVars
        /\ [ReadingNext]_readingVars
        /\ [AccountNext]_accountVars
        /\ [LimitNext]_limitVars
        /\ [ActionNext]_actionVars
        /\ [RunnerNext]_runnerVars
        /\ [PushNext]_pushVars
        /\ [ViewNext]_viewVars
        /\ [PageNext]_pageVars
        /\ [AgentNext]_agentVars
  BY EachPartSteps DEF PartsStep
<1>. QED BY <1>1, <1>2, PTL DEF Spec, LogSpec, RetentionSpec, MediaSpec, ReadingSpec, AccountSpec, LimitSpec, ActionSpec,
                             RunnerSpec, PushSpec, ViewSpec, PageSpec, AgentSpec

\* An open tab tells the truth: the log page has no holes but those that it knows of; what
\* the other pages poll is no older than their interval while they are answered in time, and
\* what live values are laid over neither, while their feed is heard or, without one, they are
\* answered in time; and they take no acknowledgement back that they were told of.  Whatever
\* the other parts do, for any lines, filters, pages and caps, and any intervals
\* (log-viewer.tsx, use-panel-data.ts, governor-merge.ts, downloads-merge.ts, alerts-view.tsx).
THEOREM PagesTellTrueHolds == Spec => []PagesTellTrue
<1>1. Init => ViewInv /\ PageInv BY ViewInitial, PageInitial DEF Init
<1>2. ViewInv /\ PageInv /\ [Next]_vars => (ViewInv /\ PageInv)' BY EachPartSteps, ViewStep, PageStep DEF PartsStep
<1>3. ViewInv /\ PageInv => PagesTellTrue BY ViewHasNoHoles, PageShowsIt DEF PagesTellTrue
<1>. QED BY <1>1, <1>2, <1>3, PTL DEF Spec

\* Every variable stays in its type and within its bounds, whatever the parts do: for any
\* machines, services, people, actions, tables, lines, pages and limits.
THEOREM PartsTyped == Spec => []PartsTypes
<1>1. Spec => [](LogTypes /\ RetentionTypes /\ ReadingTypes /\ AgentTypes)
  BY PartsBehave, LogTypesHold, RetentionTypesHold, ReadingTypesHold, AgentTypesHold, PTL
<1>2. Spec => [](MediaTypes /\ AccountTypes /\ LimitTypes /\ PushTypes)
  BY PartsBehave, MediaTypesHold, AccountTypesHold, LimitTypesHold, PushTypesHold, PTL
<1>3. Spec => [](ActionTypes /\ RunnerTypes /\ ViewTypes /\ PageTypes)
  BY PartsBehave, ActionTypesHold, RunnerTyped, ViewTyped, PageTyped, PTL
<1>4. LogTypes /\ RetentionTypes /\ ReadingTypes /\ AgentTypes /\ MediaTypes /\ AccountTypes /\ LimitTypes /\ PushTypes
      /\ ActionTypes /\ RunnerTypes /\ ViewTypes /\ PageTypes => PartsTypes
  BY DEF PartsTypes
<1>. QED BY <1>1, <1>2, <1>3, <1>4, PTL
=============================================================================
