----------------------------- MODULE PageStream -----------------------------
(***************************************************************************)
(* The message stream of the web page (internal/app/ui/app.js): the        *)
(* session picked, the window of its messages on screen, the pages that    *)
(* extend it and the refreshes that replace it.  The page runs on one      *)
(* thread; what interleaves are the handlers, cut at every await.          *)
(*                                                                         *)
(* A message is its position in the session, which is its time as well:    *)
(* messages have distinct times.  Instant 0 is a time before the first     *)
(* message (a search hit in a row that is not a message can be there).     *)
(* MESSAGE_LIMIT is Limit.  A session only grows.                          *)
(***************************************************************************)
EXTENDS Integers, Sequences, FiniteSets

CONSTANTS
    Sessions,  \* the sessions of the list
    None,      \* no session
    Limit,     \* MESSAGE_LIMIT
    Growing,   \* those of them that are still written
    StartLen,  \* the messages a session begins with
    MaxLen,    \* bound on its messages
    Refreshes, \* the refreshes that can be under way together
    Selects,   \* bound on the sessions and search hits picked
    Toggles,   \* bound on the switches of the order
    Jumps,     \* bound on the jumps to a failure outside of the window
    Forces,    \* bound on the explicit refreshes
    Failures   \* bound on the answers that fail

ASSUME NoneAssumption == None \notin Sessions
ASSUME LimitAssumption == Limit \in Nat \ {0}
ASSUME LengthAssumption == StartLen \in Nat \ {0} /\ MaxLen \in Nat /\ Growing \subseteq Sessions
ASSUME BoundsAssumption == <<Selects, Toggles, Jumps, Forces, Failures>> \in Nat \X Nat \X Nat \X Nat \X Nat

VARIABLES
    len,           \* the messages each session has at the server
    byId,          \* each session's updatedAt as the page's list knows it
    selectedId, order, detail, noMore, pendingDetail,
    focusAt,       \* the instant the window is to be anchored at, and whose session's it is
    pane,          \* whose messages #messages shows, None for loading and error texts
    fetch,         \* syncDetail's requests in flight; state.busy is Busy
    page,          \* loadMore's request in flight; (state.loadingMore)
    jump,          \* failureBeyond's request for the rounds in flight
    lists,         \* the refreshes under way
    left           \* what is left of the bounds

vars == <<len, byId, selectedId, order, detail, noMore, pendingDetail, focusAt, pane,
          fetch, page, jump, lists, left>>
stream == <<detail, noMore, pendingDetail, pane, fetch>>
user == <<selectedId, order, focusAt>>

Orders == {"asc", "desc"}
Edges == {"older", "newer"}
Other(o) == IF o = "desc" THEN "asc" ELSE "desc"
Edge(o) == IF o = "desc" THEN "older" ELSE "newer"
OrderOf(e) == IF e = "older" THEN "desc" ELSE "asc"
NoEdges == [e \in Edges |-> FALSE]
NoAnchor == [of |-> None, at |-> -1]
NoDetail == [session |-> None, signature |-> <<>>, messages |-> <<>>, anchor |-> NoAnchor]
NoFetch == [session |-> None, signature |-> <<>>, order |-> "desc", anchor |-> NoAnchor,
            forced |-> FALSE, messages |-> <<>>, state |-> "idle"]
Busy == fetch.state # "idle"
Anchored(anchor) == anchor.at # NoAnchor.at
Elements(q) == {q[i] : i \in 1..Len(q)}

-----------------------------------------------------------------------------
(* What the server answers: at most Limit messages, oldest first.          *)

Run(from, to) == [i \in 1..(IF to < from THEN 0 ELSE to - from + 1) |-> from + i - 1]
AtMost(a, b) == IF a < b THEN a ELSE b
AtLeast(a, b) == IF a > b THEN a ELSE b

\* From an end of the session of n messages, the first `offset` of them passed over
ByOffset(n, o, offset) ==
    IF o = "desc" THEN Run(AtLeast(1, n - offset - Limit + 1), n - offset)
                  ELSE Run(offset + 1, AtMost(n, offset + Limit))

\* Up to an instant, or from it on
ByTime(n, o, at) ==
    IF o = "desc" THEN Run(AtLeast(1, AtMost(n, at) - Limit + 1), AtMost(n, at))
                  ELSE Run(AtLeast(1, at), AtMost(n, AtLeast(1, at) + Limit - 1))

-----------------------------------------------------------------------------
(* syncDetail, up to its first await.                                      *)

Switched(s, d) == d.session # s

\* mutant: a session that was updated has the signature it had
SignatureStatic(s, updated, o) == <<s, 0, o>>

Signature(s, updated, o) == <<s, updated[s], o>>
Paged(d) == Len(d.messages) > Limit

\* A refetch that is not asked for by the reader and would not show anything else
Needless(s, o, d, updated) ==
    /\ ~Switched(s, d)
    /\ Paged(d) \/ d.signature = Signature(s, updated, o)

Ask(force, s, o, at, d, updated, shown) ==
    /\ fetch' = [session |-> s, signature |-> Signature(s, updated, o), order |-> o, anchor |-> at,
                 forced |-> force \/ Switched(s, d), messages |-> <<>>, state |-> "asked"]
    /\ noMore' = IF Switched(s, d) \/ force THEN NoEdges ELSE noMore
    /\ pane' = IF Switched(s, d) THEN None ELSE shown

\* mutant: a call that finds a fetch in flight is dropped
SyncDetailDropped(force, s, o, at, d, updated) ==
    IF Busy \/ (~force /\ Needless(s, o, d, updated))
    THEN UNCHANGED <<noMore, pendingDetail, pane, fetch>>
    ELSE Ask(force, s, o, at, d, updated, pane) /\ UNCHANGED pendingDetail

\* syncDetail of session s, order o, anchor `at`, over window d and the list `updated`;
\* the callers give the values their handler leaves behind, and detail' = d
SyncDetail(force, s, o, at, d, updated) ==
    IF ~force /\ Needless(s, o, d, updated)
    THEN UNCHANGED <<noMore, pendingDetail, pane, fetch>>
    ELSE IF Busy
    THEN pendingDetail' = TRUE /\ UNCHANGED <<noMore, pane, fetch>>
    ELSE Ask(force, s, o, at, d, updated, pane) /\ UNCHANGED pendingDetail

-----------------------------------------------------------------------------
(* syncDetail, after its awaits.                                           *)

\* The server answers the messages asked for, as the session is then
AnswerFetch ==
    /\ Busy /\ fetch.state \in {"asked", "turned"}
    /\ LET o == IF fetch.state = "turned" THEN Other(fetch.order) ELSE fetch.order
           got == IF Anchored(fetch.anchor) THEN ByTime(len[fetch.session], o, fetch.anchor.at)
                                          ELSE ByOffset(len[fetch.session], o, 0)
       IN fetch' = [fetch EXCEPT !.messages = got,
                                 !.state = IF fetch.state = "turned" THEN "final" ELSE "answered"]
    /\ UNCHANGED <<len, byId, user, detail, noMore, pendingDetail, pane, page, jump, lists, left>>

\* An anchored window that came back empty asks for the other side of the instant, which
\* is the one the order chosen by now does not begin with
EmptyAnchored == fetch.state = "answered" /\ Anchored(fetch.anchor) /\ fetch.messages = <<>>

Turn ==
    /\ Busy /\ EmptyAnchored
    /\ fetch' = [fetch EXCEPT !.state = "turned", !.order = order]
    /\ UNCHANGED <<len, byId, user, detail, noMore, pendingDetail, pane, page, jump, lists, left>>

\* mutant: a painted window is taken for the one asked for, wherever it is anchored
WorthRerunUnpainted(painted, d) == ~painted

\* A queued call is worth another fetch when this one did not paint what it asked for
WorthRerun(painted, d) == ~painted \/ (d.session # None /\ d.anchor.at # focusAt.at)

\* The finally block; the pane is `shown` when it begins
Settle(painted, d, shown) ==
    IF pendingDetail /\ WorthRerun(painted, d)
    THEN pendingDetail' = FALSE /\ Ask(TRUE, selectedId, order, focusAt, d, byId, shown)
    ELSE pendingDetail' = FALSE /\ fetch' = NoFetch /\ pane' = shown /\ UNCHANGED noMore

\* The page replaces state.detail: a page that loadMore has in flight finds another window
Orphaned == page' = [page EXCEPT !.live = FALSE]

Paint ==
    /\ Busy /\ fetch.state \in {"answered", "final"} /\ ~EmptyAnchored
    /\ IF selectedId = fetch.session
       THEN LET d == [session |-> fetch.session, signature |-> fetch.signature,
                      messages |-> fetch.messages, anchor |-> fetch.anchor]
            IN detail' = d /\ Orphaned /\ Settle(TRUE, d, d.session)
       ELSE Settle(FALSE, detail, pane) /\ UNCHANGED <<detail, page>>
    /\ UNCHANGED <<len, byId, user, jump, lists, left>>

\* clearDetail("Failed to load"), whichever session is selected by now
FailFetch ==
    /\ Busy /\ left.failures > 0
    /\ detail' = NoDetail /\ Orphaned /\ Settle(FALSE, NoDetail, None)
    /\ left' = [left EXCEPT !.failures = @ - 1]
    /\ UNCHANGED <<len, byId, user, jump, lists>>

-----------------------------------------------------------------------------
(* loadMore: the window grows at the end its order moves away from.        *)

NoPage == [session |-> None, edge |-> "older", anchor |-> -1, offset |-> 0,
           messages |-> <<>>, live |-> FALSE, state |-> "idle"]
LoadingMore == page.state # "idle"
First(q) == q[1]
Last(q) == q[Len(q)]

\* The scroll at the edge, or the button.  live: state.detail is still the window asked from
LoadMore ==
    LET e == Edge(order) IN
    /\ detail.session # None /\ detail.messages # <<>>
    /\ ~LoadingMore /\ ~noMore[e]
    /\ page' = [session |-> detail.session, edge |-> e,
                anchor |-> IF ~Anchored(focusAt) THEN -1
                           ELSE IF e = "older" THEN First(detail.messages) ELSE Last(detail.messages),
                offset |-> Len(detail.messages), messages |-> <<>>, live |-> TRUE, state |-> "asked"]
    /\ UNCHANGED <<len, byId, user, stream, jump, lists, left>>

AnswerPage ==
    /\ page.state = "asked"
    /\ LET n == len[page.session]
           o == OrderOf(page.edge)
       IN page' = [page EXCEPT !.state = "answered",
                               !.messages = IF page.anchor # -1 THEN ByTime(n, o, page.anchor)
                                                                ELSE ByOffset(n, o, page.offset)]
    /\ UNCHANGED <<len, byId, user, stream, jump, lists, left>>

\* mutant: the page is taken to overlap the window by its anchor alone
FreshButAnchor ==
    IF page.anchor = -1 \/ page.messages = <<>> THEN page.messages
    ELSE IF page.edge = "newer" THEN Tail(page.messages)
    ELSE SubSeq(page.messages, 1, Len(page.messages) - 1)

\* The elements of q that are in set, in the order of q
Among(q, set) ==
    LET in == {i \in 1..Len(q) : q[i] \in set}
        rank == [i \in in |-> Cardinality({j \in in : j <= i})]
    IN [k \in 1..Cardinality(in) |-> q[CHOOSE i \in in : rank[i] = k]]

\* What of the page is not on screen yet
Fresh == Among(page.messages, Elements(page.messages) \ Elements(detail.messages))

Extend ==
    /\ page.state = "answered"
    /\ page' = NoPage
    /\ IF page.live /\ Fresh # <<>>
       THEN /\ detail' = [detail EXCEPT !.messages = IF page.edge = "older" THEN Fresh \o @ ELSE @ \o Fresh]
            /\ pane' = detail.session
            /\ UNCHANGED noMore
       ELSE /\ noMore' = IF page.live THEN [noMore EXCEPT ![page.edge] = TRUE] ELSE noMore
            /\ UNCHANGED <<detail, pane>>
    /\ UNCHANGED <<len, byId, user, pendingDetail, fetch, jump, lists, left>>

FailPage ==
    /\ LoadingMore /\ left.failures > 0
    /\ page' = NoPage
    /\ left' = [left EXCEPT !.failures = @ - 1]
    /\ UNCHANGED <<len, byId, user, stream, jump, lists>>

-----------------------------------------------------------------------------
(* What the reader does.                                                   *)

\* A row of the list (no anchor), or a search hit at an instant
SelectSession(s, at) ==
    /\ left.selects > 0
    /\ <<s, at.at>> # <<selectedId, focusAt.at>>
    /\ selectedId' = s /\ focusAt' = at
    /\ SyncDetail(TRUE, s, order, at, detail, byId)
    /\ left' = [left EXCEPT !.selects = @ - 1]
    /\ UNCHANGED <<len, byId, order, detail, page, jump, lists>>

Select ==
    \E s \in Sessions :
        \/ SelectSession(s, NoAnchor)
        \/ \E at \in 0..len[s] : SelectSession(s, [of |-> s, at |-> at])

SwitchOrder ==
    /\ left.toggles > 0 /\ detail.session # None
    /\ order' = Other(order) /\ focusAt' = NoAnchor
    /\ SyncDetail(TRUE, selectedId, Other(order), NoAnchor, detail, byId)
    /\ left' = [left EXCEPT !.toggles = @ - 1]
    /\ UNCHANGED <<len, byId, selectedId, detail, page, jump, lists>>

\* gotoFailure past the last failure of the window: failureBeyond asks for the rounds
NoJump == [session |-> None, from |-> 0, to |-> 0]
GotoFailure ==
    /\ left.jumps > 0 /\ jump.session = None
    /\ detail.session # None /\ ~Busy /\ detail.messages # <<>>
    /\ jump' = [session |-> detail.session, from |-> First(detail.messages), to |-> Last(detail.messages)]
    /\ left' = [left EXCEPT !.jumps = @ - 1]
    /\ UNCHANGED <<len, byId, user, stream, page, lists>>

\* The rounds are here: the window is anchored at one with a failure past the edge there was
FailureBeyond(t) ==
    /\ jump.session # None
    /\ t < jump.from \/ t > jump.to
    /\ jump' = NoJump
    /\ IF detail.session = None   \* state.detail.sessionId throws
       THEN UNCHANGED <<user, stream>>
       ELSE /\ focusAt' = [of |-> jump.session, at |-> t]
            /\ SyncDetail(TRUE, selectedId, order, focusAt', detail, byId)
            /\ UNCHANGED <<selectedId, order, detail>>
    /\ UNCHANGED <<len, byId, page, lists, left>>

\* No failure that way, or the request failed
NoFailureBeyond ==
    /\ jump.session # None
    /\ jump' = NoJump
    /\ UNCHANGED <<len, byId, user, stream, page, lists, left>>

Jump == NoFailureBeyond \/ \E t \in 1..(IF jump.session = None THEN 0 ELSE len[jump.session]) : FailureBeyond(t)

-----------------------------------------------------------------------------
(* refresh: the timer, the live follow and the count warm-up, and with     *)
(* `force` the reader.                                                     *)

NoList == [force |-> FALSE, sessions |-> <<>>, state |-> "idle"]

Refresh(i, force) ==
    /\ lists[i].state = "idle"
    /\ force => left.forces > 0
    /\ lists' = [lists EXCEPT ![i] = [force |-> force, sessions |-> <<>>, state |-> "asked"]]
    /\ left' = IF force THEN [left EXCEPT !.forces = @ - 1] ELSE left
    /\ UNCHANGED <<len, byId, user, stream, page, jump>>

AnswerList(i) ==
    /\ lists[i].state = "asked"
    /\ lists' = [lists EXCEPT ![i].sessions = len, ![i].state = "answered"]
    /\ UNCHANGED <<len, byId, user, stream, page, jump, left>>

ApplyList(i) ==
    /\ lists[i].state = "answered"
    /\ byId' = lists[i].sessions
    /\ SyncDetail(lists[i].force, selectedId, order, focusAt, detail, lists[i].sessions)
    /\ lists' = [lists EXCEPT ![i] = NoList]
    /\ UNCHANGED <<len, user, detail, page, jump, left>>

FailList(i) ==
    /\ lists[i].state = "asked" /\ left.failures > 0
    /\ lists' = [lists EXCEPT ![i] = NoList]
    /\ left' = [left EXCEPT !.failures = @ - 1]
    /\ UNCHANGED <<len, byId, user, stream, page, jump>>

Refreshing(i) == AnswerList(i) \/ ApplyList(i) \/ FailList(i)

\* The CLI writes a message to a session
Grow(s) ==
    /\ len[s] < MaxLen
    /\ len' = [len EXCEPT ![s] = @ + 1]
    /\ UNCHANGED <<byId, user, stream, page, jump, lists, left>>

-----------------------------------------------------------------------------

\* start(): the list is read, and a session of it selected
Init ==
    /\ len = [s \in Sessions |-> StartLen] /\ byId = len
    /\ selectedId \in Sessions /\ order \in Orders /\ focusAt = NoAnchor
    /\ detail = NoDetail /\ noMore = NoEdges /\ pendingDetail = FALSE /\ pane = None
    /\ fetch = [session |-> selectedId, signature |-> Signature(selectedId, byId, order), order |-> order,
                anchor |-> NoAnchor, forced |-> TRUE, messages |-> <<>>, state |-> "asked"]
    /\ page = NoPage /\ jump = NoJump
    /\ lists = [i \in Refreshes |-> NoList]
    /\ left = [selects |-> Selects, toggles |-> Toggles, jumps |-> Jumps, forces |-> Forces, failures |-> Failures]

Reader == Select \/ SwitchOrder \/ GotoFailure \/ LoadMore
Server == AnswerFetch \/ AnswerPage \/ \E s \in Growing : Grow(s)
Handlers == Turn \/ Paint \/ FailFetch \/ Extend \/ FailPage \/ Jump

Next ==
    \/ Reader \/ Server \/ Handlers
    \/ \E i \in Refreshes : Refreshing(i) \/ \E force \in BOOLEAN : Refresh(i, force)

\* Requests are answered and handlers run; the timer refreshes again and again
Fairness ==
    /\ WF_vars(AnswerFetch \/ Turn \/ Paint)
    /\ WF_vars(AnswerPage \/ Extend)
    /\ \A i \in Refreshes : WF_vars(Refreshing(i)) /\ WF_vars(Refresh(i, FALSE))

Spec == Init /\ [][Next]_vars
FairSpec == Spec /\ Fairness

-----------------------------------------------------------------------------
(* Properties.                                                             *)

\* The window on screen is the selected session's, anchored where the reader asked; while
\* it is not, the requests in flight are for what is selected, or syncDetail runs again
\* once they are settled (the lost selection of the comment in syncDetail)
AsAsked(s, at) == s = selectedId /\ at.at = focusAt.at
WindowAsAsked ==
    \/ detail.session = None /\ pane = None
    \/ AsAsked(detail.session, detail.anchor) /\ pane \in {None, selectedId}
    \/ Busy /\ (pendingDetail \/ AsAsked(fetch.session, fetch.anchor))

\* The window that stays is an unbroken stretch of the session, whatever pages were put
\* together (one of them may be asked for at the wrong place while a new window is on its way),
\* until the order is switched or the session outgrows a window read from its end
Contiguous == ~Busy => \A i \in 1..(Len(detail.messages) - 1) : detail.messages[i + 1] = detail.messages[i] + 1

\* A window that says it has no more at an edge holds the message at that end
NoMoreIsTrue ==
    detail.session = selectedId /\ ~Busy /\ detail.messages # <<>> =>
        /\ noMore["older"] => First(detail.messages) = 1
        /\ noMore["newer"] => Last(detail.messages) = len[selectedId]

\* A window that was paged is replaced by what the reader asked for alone
PagedHolds ==
    [][Paged(detail) /\ detail'.session = detail.session /\ Len(detail'.messages) < Len(detail.messages)
        => fetch.forced]_vars

\* Messages are painted for the session that is selected
PaintsSelected == [][pane' # pane /\ pane' # None => pane' = selectedId']_vars

\* The window is anchored at an instant of the selected session
AnchorOfSelected == focusAt.of \in {None, selectedId}

\* Once the session and the reader rest, an unpaged window shows the session as it is,
\* in the order chosen
FollowsSession ==
    <>[](/\ detail.session = selectedId /\ pane = selectedId
         /\ ~Anchored(focusAt) /\ ~Paged(detail) => detail.messages = ByOffset(len[selectedId], order, 0))
=============================================================================
