-------------------------- MODULE PageStreamProofs --------------------------
(***************************************************************************)
(* The window that stays on screen is the one the reader asked for, and an *)
(* unbroken stretch of its session, for every set of sessions, page size   *)
(* and bound.                                                              *)
(*                                                                         *)
(* What makes it inductive is the half that speaks of the requests in      *)
(* flight: a fetch nobody queued a call behind is for the session and the  *)
(* anchor of now (Queued).  When it settles, what it painted is therefore  *)
(* either what was asked for or not worth keeping.                         *)
(***************************************************************************)
EXTENDS PageStream, FiniteSetTheorems, TLAPS

\* The records keep their fields
Shapes ==
    /\ detail = [session |-> detail.session, signature |-> detail.signature,
                 messages |-> detail.messages, anchor |-> detail.anchor]
    /\ fetch = [session |-> fetch.session, signature |-> fetch.signature, order |-> fetch.order,
                anchor |-> fetch.anchor, forced |-> fetch.forced, messages |-> fetch.messages,
                state |-> fetch.state]

\* A fetch in flight is for what is asked for now, or a call is queued behind it
Queued == Busy => pendingDetail \/ AsAsked(fetch.session, fetch.anchor)

\* With nothing in flight, the window is the one asked for, or there is none
AtRest ==
    ~Busy => \/ detail.session = None /\ pane = None
             \/ AsAsked(detail.session, detail.anchor) /\ pane \in {None, selectedId}

IInv == Shapes /\ selectedId \in Sessions /\ Queued /\ AtRest

USE DEF AsAsked, Busy, NoAnchor, Signature, Switched

LEMMA InitInv == Init => IInv
BY DEF Init, IInv, Shapes, Queued, AtRest, NoDetail

\* A fetch that leaves for the session and the anchor of the next state keeps the invariant
LEMMA AskInv ==
    ASSUME NEW force, NEW d, NEW updated, NEW shown, NEW o,
           Ask(force, selectedId', o, focusAt', d, updated, shown)
    PROVE  /\ fetch' = [session |-> fetch'.session, signature |-> fetch'.signature, order |-> fetch'.order,
                        anchor |-> fetch'.anchor, forced |-> fetch'.forced, messages |-> fetch'.messages,
                        state |-> fetch'.state]
           /\ fetch'.state = "asked" /\ fetch'.session = selectedId' /\ fetch'.anchor = focusAt'
BY DEF Ask

\* A call of syncDetail for the selection and the anchor it leaves behind keeps the invariant,
\* when they are what they were or the call is forced
LEMMA SyncInv ==
    ASSUME IInv, NEW force, NEW updated, NEW o,
           selectedId' \in Sessions, UNCHANGED detail,
           force \/ UNCHANGED <<selectedId, focusAt>>,
           SyncDetail(force, selectedId', o, focusAt', detail, updated)
    PROVE  IInv'
<1>1. CASE ~force /\ Needless(selectedId', o, detail, updated)
  BY <1>1 DEF SyncDetail, IInv, Shapes, Queued, AtRest
<1>2. CASE ~(~force /\ Needless(selectedId', o, detail, updated)) /\ Busy
  BY <1>2 DEF SyncDetail, IInv, Shapes, Queued, AtRest
<1>3. CASE ~(~force /\ Needless(selectedId', o, detail, updated)) /\ ~Busy
  <2>1. Ask(force, selectedId', o, focusAt', detail, updated, pane)
    BY <1>3 DEF SyncDetail
  <2>2. QED
    BY <2>1, AskInv DEF IInv, Shapes, Queued, AtRest
<1>4. QED
  BY <1>1, <1>2, <1>3

\* The finally block keeps the invariant: what was painted is what is asked for, or another
\* fetch leaves
LEMMA SettleInv ==
    ASSUME selectedId \in Sessions, UNCHANGED user,
           NEW painted \in BOOLEAN, NEW shown,
           detail' = [session |-> detail'.session, signature |-> detail'.signature,
                      messages |-> detail'.messages, anchor |-> detail'.anchor],
           Settle(painted, detail', shown),
           ~pendingDetail => \/ detail'.session = None /\ shown = None
                             \/ AsAsked(detail'.session, detail'.anchor) /\ shown \in {None, selectedId},
           painted => detail'.session = selectedId /\ shown = selectedId
    PROVE  IInv'
<1>1. CASE pendingDetail /\ WorthRerun(painted, detail')
  <2>1. Ask(TRUE, selectedId', order, focusAt', detail', byId, shown)
    BY <1>1 DEF Settle, user
  <2>2. QED
    BY <2>1, AskInv DEF IInv, Shapes, Queued, AtRest, user
<1>2. CASE ~(pendingDetail /\ WorthRerun(painted, detail'))
  <2>1. fetch' = NoFetch /\ pane' = shown /\ selectedId' = selectedId /\ focusAt' = focusAt
    BY <1>2 DEF Settle, user
  <2>2. \/ detail'.session = None /\ shown = None
        \/ AsAsked(detail'.session, detail'.anchor) /\ shown \in {None, selectedId}
    BY <1>2, NoneAssumption DEF WorthRerun
  <2>3. QED
    BY <2>1, <2>2 DEF IInv, Shapes, Queued, AtRest, NoFetch
<1>3. QED
  BY <1>1, <1>2

-----------------------------------------------------------------------------
(* The actions.                                                            *)

LEMMA FetchInv == IInv /\ (AnswerFetch \/ Turn) => IInv'
<1> SUFFICES ASSUME IInv, AnswerFetch \/ Turn PROVE IInv'
  OBVIOUS
<1>1. /\ fetch' = [session |-> fetch.session, signature |-> fetch.signature, order |-> fetch'.order,
                   anchor |-> fetch.anchor, forced |-> fetch.forced, messages |-> fetch'.messages,
                   state |-> fetch'.state]
      /\ fetch'.state # "idle" /\ fetch.state # "idle"
  <2>1. CASE AnswerFetch
    BY <2>1 DEF AnswerFetch, IInv, Shapes
  <2>2. CASE Turn
    BY <2>2 DEF Turn, IInv, Shapes
  <2>3. QED
    BY <2>1, <2>2
<1>2. UNCHANGED <<user, detail, pendingDetail, pane>>
  BY DEF AnswerFetch, Turn
<1>3. QED
  BY <1>1, <1>2 DEF IInv, Shapes, Queued, AtRest, user

LEMMA PaintInv == IInv /\ Paint => IInv'
<1> SUFFICES ASSUME IInv, Paint PROVE IInv'
  OBVIOUS
<1>1. CASE selectedId = fetch.session
  <2>1. /\ detail' = [session |-> fetch.session, signature |-> fetch.signature,
                      messages |-> fetch.messages, anchor |-> fetch.anchor]
        /\ Settle(TRUE, detail', fetch.session)
    BY <1>1 DEF Paint
  <2>2. ~pendingDetail => AsAsked(detail'.session, detail'.anchor)
    BY <2>1 DEF IInv, Queued, Paint
  <2>3. UNCHANGED user /\ selectedId \in Sessions
    BY DEF Paint, IInv
  <2>4. QED
    BY <1>1, <2>1, <2>2, <2>3, SettleInv
<1>2. CASE selectedId # fetch.session
  <2>1. Settle(FALSE, detail', pane) /\ UNCHANGED <<user, detail>> /\ pendingDetail
    BY <1>2 DEF Paint, IInv, Queued
  <2>2. selectedId \in Sessions /\ Shapes'
    BY <2>1, <1>2, AskInv DEF IInv, Shapes, Settle, Ask, WorthRerun
  <2>3. QED
    BY <2>1, <2>2, SettleInv DEF Shapes
<1>3. QED
  BY <1>1, <1>2

LEMMA FailFetchInv == IInv /\ FailFetch => IInv'
<1> SUFFICES ASSUME IInv, FailFetch PROVE IInv'
  OBVIOUS
<1>1. detail' = NoDetail /\ Settle(FALSE, detail', None) /\ UNCHANGED user /\ selectedId \in Sessions
  BY DEF FailFetch, IInv
<1>2. QED
  BY <1>1, SettleInv DEF NoDetail

LEMMA ExtendInv == IInv /\ Extend => IInv'
<1> SUFFICES ASSUME IInv, Extend PROVE IInv'
  OBVIOUS
<1>1. /\ detail' = [session |-> detail.session, signature |-> detail.signature,
                    messages |-> detail'.messages, anchor |-> detail.anchor]
      /\ pane' \in {pane, detail.session}
      /\ UNCHANGED <<user, pendingDetail, fetch>>
  BY DEF Extend, IInv, Shapes
<1>2. QED
  BY <1>1 DEF IInv, Shapes, Queued, AtRest, user

\* What the reader does
LEMMA ReaderInv == IInv /\ Reader => IInv'
<1> SUFFICES ASSUME IInv, Reader PROVE IInv'
  OBVIOUS
<1>1. ASSUME NEW s \in Sessions, NEW at, SelectSession(s, at) PROVE IInv'
  BY <1>1, SyncInv DEF SelectSession
<1>2. CASE SwitchOrder
  <2>1. /\ selectedId' = selectedId /\ focusAt' = NoAnchor /\ UNCHANGED detail
        /\ SyncDetail(TRUE, selectedId, Other(order), NoAnchor, detail, byId)
    BY <1>2 DEF SwitchOrder
  <2>2. selectedId' \in Sessions
    BY <2>1 DEF IInv
  <2>3. SyncDetail(TRUE, selectedId', Other(order), focusAt', detail, byId)
    BY <2>1
  <2>4. QED
    BY <2>1, <2>2, <2>3, SyncInv
<1>3. CASE GotoFailure \/ LoadMore
  BY <1>3 DEF GotoFailure, LoadMore, IInv, Shapes, Queued, AtRest, user, stream
<1>4. QED
  BY <1>1, <1>2, <1>3 DEF Reader, Select

LEMMA JumpInv == IInv /\ Jump => IInv'
<1> SUFFICES ASSUME IInv, Jump PROVE IInv'
  OBVIOUS
<1>1. ASSUME NEW t, FailureBeyond(t) PROVE IInv'
  <2>1. CASE detail.session = None
    BY <1>1, <2>1 DEF FailureBeyond, IInv, Shapes, Queued, AtRest, user, stream
  <2>2. CASE detail.session # None
    <3>1. /\ SyncDetail(TRUE, selectedId, order, focusAt', detail, byId)
          /\ selectedId' = selectedId /\ UNCHANGED detail
      BY <1>1, <2>2 DEF FailureBeyond
    <3>2. selectedId' \in Sessions /\ SyncDetail(TRUE, selectedId', order, focusAt', detail, byId)
      BY <3>1 DEF IInv
    <3>3. QED
      BY <3>1, <3>2, SyncInv
  <2>3. QED
    BY <2>1, <2>2
<1>2. CASE NoFailureBeyond
  BY <1>2 DEF NoFailureBeyond, IInv, Shapes, Queued, AtRest, user, stream
<1>3. QED
  BY <1>1, <1>2 DEF Jump

LEMMA ApplyInv ==
    ASSUME IInv, NEW i \in Refreshes, ApplyList(i)
    PROVE  IInv'
<1>1. /\ SyncDetail(lists[i].force, selectedId, order, focusAt, detail, lists[i].sessions)
      /\ UNCHANGED <<selectedId, focusAt, detail>>
  BY DEF ApplyList, user
<1>2. SyncDetail(lists[i].force, selectedId', order, focusAt', detail, lists[i].sessions) /\ selectedId' \in Sessions
  BY <1>1 DEF IInv
<1>3. QED
  BY <1>1, <1>2, SyncInv

LEMMA Invariance == IInv /\ [Next]_vars => IInv'
<1> SUFFICES ASSUME IInv, [Next]_vars PROVE IInv'
  OBVIOUS
<1>1. CASE Reader
  BY <1>1, ReaderInv
<1>2. CASE AnswerFetch \/ Turn
  BY <1>2, FetchInv
<1>3. CASE Paint
  BY <1>3, PaintInv
<1>4. CASE FailFetch
  BY <1>4, FailFetchInv
<1>5. CASE Extend
  BY <1>5, ExtendInv
<1>6. CASE Jump
  BY <1>6, JumpInv
<1>7. ASSUME NEW i \in Refreshes, ApplyList(i) PROVE IInv'
  BY <1>7, ApplyInv
<1>8. CASE \/ AnswerPage \/ FailPage \/ \E s \in Growing : Grow(s)
           \/ \E i \in Refreshes : AnswerList(i) \/ FailList(i) \/ \E force \in BOOLEAN : Refresh(i, force)
  <2>1. UNCHANGED <<user, stream>>
    BY <1>8 DEF AnswerPage, FailPage, Grow, AnswerList, FailList, Refresh
  <2>2. QED
    BY <2>1 DEF IInv, Shapes, Queued, AtRest, user, stream
<1>9. CASE UNCHANGED vars
  BY <1>9 DEF IInv, Shapes, Queued, AtRest, vars, user, stream
<1>10. QED
  BY <1>1, <1>2, <1>3, <1>4, <1>5, <1>6, <1>7, <1>8, <1>9 DEF Next, Server, Handlers, Refreshing

\* Whatever is selected, anchored, paged and refreshed while requests are in flight, the window
\* that stays is the selected session's, anchored where the reader asked (syncDetail's guard
\* after its awaits, and its queue of one)
THEOREM WindowStaysAsAsked == Spec => []WindowAsAsked
<1>1. IInv => WindowAsAsked
  BY DEF IInv, Queued, AtRest, WindowAsAsked
<1>2. QED
  BY InitInv, Invariance, <1>1, PTL DEF Spec

-----------------------------------------------------------------------------
(* Stretches of messages.                                                  *)

\* q is the stretch of messages from a to b, or empty where b is below a
IsRun(q, a, b) ==
    /\ q \in Seq(Int) /\ Len(q) = IF b < a THEN 0 ELSE b - a + 1
    /\ \A i \in 1..Len(q) : q[i] = a + i - 1

LEMMA RunIs ==
    ASSUME NEW a \in Int, NEW b \in Int
    PROVE  IsRun(Run(a, b), a, b)
<1> DEFINE n == IF b < a THEN 0 ELSE b - a + 1
<1>1. n \in Nat
  OBVIOUS
<1>2. Run(a, b) = [i \in 1..n |-> a + i - 1]
  BY DEF Run
<1> HIDE DEF n
<1>3. Run(a, b) \in Seq(Int) /\ Len(Run(a, b)) = n
  BY <1>1, <1>2
<1>4. QED
  BY <1>1, <1>2, <1>3 DEF n, IsRun

LEMMA SameRun ==
    ASSUME NEW a \in Int, NEW b \in Int, NEW p, NEW q, IsRun(p, a, b), IsRun(q, a, b)
    PROVE  p = q
BY DEF IsRun

LEMMA RunHolds ==
    ASSUME NEW a \in Int, NEW b \in Int, NEW q, IsRun(q, a, b)
    PROVE  Elements(q) = a..b
<1>1. Elements(q) \subseteq a..b
  BY DEF Elements, IsRun
<1>2. ASSUME NEW m \in a..b PROVE m \in Elements(q)
  <2>1. m - a + 1 \in 1..Len(q) /\ q[m - a + 1] = m
    BY DEF IsRun
  <2>2. QED
    BY <2>1 DEF Elements
<1>3. QED
  BY <1>1, <1>2

\* Two sequences put together
LEMMA Joined ==
    ASSUME NEW p \in Seq(Int), NEW q \in Seq(Int)
    PROVE  /\ p \o q \in Seq(Int) /\ Len(p \o q) = Len(p) + Len(q) /\ Len(p) \in Nat /\ Len(q) \in Nat
           /\ \A i \in 1..Len(p) : (p \o q)[i] = p[i]
           /\ \A i \in 1..Len(q) : (p \o q)[Len(p) + i] = q[i]
OBVIOUS

\* Two stretches that meet are one.
LEMMA RunsMeet ==
    ASSUME NEW a \in Int, NEW b \in Int, NEW c \in Int, a <= b + 1, b <= c,
           NEW p, NEW q, IsRun(p, a, b), IsRun(q, b + 1, c)
    PROVE  IsRun(p \o q, a, c)
<1> PICK both : both = p \o q
  OBVIOUS
<1>1. p \in Seq(Int) /\ Len(p) = b - a + 1 /\ \A i \in 1..Len(p) : p[i] = a + i - 1
  BY DEF IsRun
<1>2. q \in Seq(Int) /\ Len(q) = c - b /\ \A i \in 1..Len(q) : q[i] = b + i
  BY DEF IsRun
<1>4. /\ both \in Seq(Int) /\ Len(both) = c - a + 1
      /\ \A i \in 1..Len(p) : both[i] = p[i]
      /\ \A i \in 1..Len(q) : both[Len(p) + i] = q[i]
  <2>1. /\ both \in Seq(Int) /\ Len(both) = Len(p) + Len(q)
        /\ \A i \in 1..Len(p) : both[i] = p[i]
        /\ \A i \in 1..Len(q) : both[Len(p) + i] = q[i]
    BY <1>1, <1>2, Joined, Zenon
  <2>2. Len(both) = c - a + 1
    BY <1>1, <1>2, <2>1
  <2>3. QED
    BY <2>1, <2>2
<1>5. ASSUME NEW i \in 1..(c - a + 1) PROVE both[i] = a + i - 1
  <2>1. CASE i <= b - a + 1
    BY <1>1, <1>4, <2>1
  <2>2. CASE i > b - a + 1
    <3>1. i - Len(p) \in 1..Len(q) /\ i = Len(p) + (i - Len(p))
      BY <1>1, <1>2, <2>2
    <3>2. both[i] = q[i - Len(p)]
      BY <1>4, <3>1, Zenon
    <3>3. q[i - Len(p)] = b + (i - Len(p))
      BY <1>2, <3>1
    <3>4. QED
      BY <1>1, <3>2, <3>3
  <2>3. i <= b - a + 1 \/ i > b - a + 1
    OBVIOUS
  <2>4. QED
    BY <2>1, <2>2, <2>3, Zenon
<1>6. IsRun(both, a, c)
  <2>1. c - a + 1 = IF c < a THEN 0 ELSE c - a + 1
    OBVIOUS
  <2>2. QED
    BY <1>4, <1>5, <2>1 DEF IsRun
<1>7. QED
  BY <1>6

\* What is kept of a stretch when it is a stretch too
LEMMA AmongRun ==
    ASSUME NEW x \in Int, NEW y \in Int, NEW q, IsRun(q, x, y),
           NEW c \in Int, NEW d \in Int, NEW set,
           c <= d => x <= c /\ d <= y,
           \A m \in x..y : m \in set <=> m \in c..d
    PROVE  IsRun(Among(q, set), c, d)
<1>0. q \in Seq(Int) /\ Len(q) \in Nat /\ \A i \in 1..Len(q) : q[i] = x + i - 1
  BY DEF IsRun
<1> PICK in : in = {i \in 1..Len(q) : q[i] \in set}
  OBVIOUS
<1> PICK m \in Int, n \in Int : m = c - x + 1 /\ n = d - x + 1
  <2>1. c - x + 1 \in Int /\ d - x + 1 \in Int
    OBVIOUS
  <2>2. QED
    BY <2>1
<1>1. in = m..n
  <2>1. ASSUME NEW i \in 1..Len(q) PROVE q[i] \in set <=> i \in m..n
    <3>1. q[i] = x + i - 1 /\ q[i] \in x..y
      BY <1>0 DEF IsRun
    <3>2. q[i] \in set <=> q[i] \in c..d
      BY <3>1
    <3>3. QED
      BY <3>1, <3>2
  <2>2. \A i \in m..n : i \in 1..Len(q)
    BY DEF IsRun
  <2>3. QED
    BY <2>1, <2>2
<1>2. Cardinality(in) = IF m > n THEN 0 ELSE n - m + 1
  BY <1>1, FS_Interval, Zenon
<1> PICK rank : rank = [i \in in |-> Cardinality({j \in in : j <= i})]
  OBVIOUS
<1>3. ASSUME NEW i \in in PROVE rank[i] = i - m + 1
  <2>1. i \in Int /\ m <= i /\ i <= n
    BY <1>1
  <2>2. {j \in in : j <= i} = m..i
    BY <1>1, <2>1
  <2>3. Cardinality(m..i) = IF m > i THEN 0 ELSE i - m + 1
    BY <2>1, FS_Interval, Zenon
  <2>4. rank[i] = Cardinality({j \in in : j <= i})
    BY Zenon
  <2>5. rank[i] = Cardinality(m..i)
    BY <2>2, <2>4, Zenon
  <2>6. QED
    BY <2>1, <2>3, <2>5
<1>4. ASSUME NEW k \in 1..Cardinality(in)
      PROVE  (CHOOSE i \in in : rank[i] = k) = m + k - 1
  <2>0. k \in Int /\ 1 <= k /\ k <= n - m + 1
    BY <1>2
  <2>1. m + k - 1 \in in /\ in \subseteq Int
    BY <1>1, <2>0
  <2>2. ASSUME NEW i \in in PROVE rank[i] = k <=> i = m + k - 1
    <3>1. i \in Int /\ rank[i] = i - m + 1
      BY <1>3, <2>1
    <3>2. QED
      BY <2>0, <3>1
  <2>3. QED
    BY <2>1, <2>2
<1>5. Among(q, set) = [k \in 1..Cardinality(in) |-> q[CHOOSE i \in in : rank[i] = k]]
  BY DEF Among
<1>6. Among(q, set) = [k \in 1..Cardinality(in) |-> c + k - 1]
  <2>1. ASSUME NEW k \in 1..Cardinality(in) PROVE q[m + k - 1] = c + k - 1
    <3>1. m + k - 1 \in 1..Len(q)
      BY <1>1, <1>2 DEF IsRun
    <3>2. QED
      BY <1>0, <1>2, <3>1
  <2>2. ASSUME NEW k \in 1..Cardinality(in) PROVE q[CHOOSE i \in in : rank[i] = k] = c + k - 1
    BY <1>4, <2>1, Zenon
  <2>3. PICK at : at = [k \in 1..Cardinality(in) |-> CHOOSE i \in in : rank[i] = k]
    OBVIOUS
  <2>4. Among(q, set) = [k \in 1..Cardinality(in) |-> q[at[k]]]
    BY <1>5, <2>3
  <2>5. \A k \in 1..Cardinality(in) : q[at[k]] = c + k - 1
    BY <2>2, <2>3, Zenon
  <2>6. QED
    BY <2>4, <2>5
<1>7. Among(q, set) = Run(c, d)
  <2>1. Cardinality(in) = IF d < c THEN 0 ELSE d - c + 1
    BY <1>2
  <2>2. QED
    BY <1>6, <2>1 DEF Run
<1>8. QED
  BY <1>7, RunIs

-----------------------------------------------------------------------------
(* The window is an unbroken stretch.  While nothing is in flight the page *)
(* that loadMore waits for fits the window; whatever is in flight replaces *)
(* the window or leads to another fetch, and orphans that page.            *)

\* A window of a session of n messages: empty or a stretch of it, from its first if so read
Window(q, n, whole) == q = <<>> \/ \E a, b \in 1..n : a <= b /\ IsRun(q, a, b) /\ (whole => a = 1)
FromStart(anchor) == ~Anchored(anchor) /\ order = "asc"
IsAnchor(anchor) == anchor.at \in Int /\ (anchor.at >= 0 \/ anchor.at = -1)

\* What kind of thing is where
Known ==
    /\ len \in [Sessions -> Nat] /\ order \in Orders /\ IsAnchor(focusAt)
    /\ Busy => fetch.session \in Sessions /\ IsAnchor(fetch.anchor)
    /\ detail.session = None => detail.messages = <<>>
    /\ detail.session # None => detail.session \in Sessions
    /\ LoadingMore => page.session \in Sessions
    /\ page.live => detail.session # None
    /\ page = [session |-> page.session, edge |-> page.edge, anchor |-> page.anchor, offset |-> page.offset,
               messages |-> page.messages, live |-> page.live, state |-> page.state]
    /\ left = [selects |-> left.selects, toggles |-> left.toggles, jumps |-> left.jumps,
               forces |-> left.forces, failures |-> left.failures]
    /\ left.toggles \in Int /\ left.toggles <= Toggles

FetchUnbroken ==
    Busy => /\ fetch.order = order /\ fetch.state \in {"asked", "answered", "turned", "final"}
            /\ fetch.state = "turned" => Anchored(fetch.anchor)
            /\ fetch.state \in {"answered", "final"} =>
                 Window(fetch.messages, len[fetch.session], FromStart(fetch.anchor))

WindowUnbroken ==
    ~Busy /\ detail.session # None => Window(detail.messages, len[detail.session], FromStart(detail.anchor))

\* A page that meets the window at its edge
Fits(q, n) ==
    \E x \in 1..(n + 1), y \in 0..n :
        /\ IsRun(q, x, y)
        /\ IF page.edge = "older" THEN First(detail.messages) - 1 <= y /\ y <= Last(detail.messages)
                                  ELSE First(detail.messages) <= x /\ x <= Last(detail.messages) + 1

PageFits ==
    ~Busy /\ page.live =>
        /\ detail.session # None /\ detail.messages # <<>>
        /\ page.session = detail.session /\ page.edge = Edge(order) /\ page.offset = Len(detail.messages)
        /\ page.anchor = IF ~Anchored(detail.anchor) THEN -1
                         ELSE IF page.edge = "older" THEN First(detail.messages) ELSE Last(detail.messages)
        /\ page.state \in {"asked", "answered"}
        /\ page.state = "answered" => Fits(page.messages, len[page.session])

\* The order has not been switched
SameOrder == left.toggles = Toggles
Unbroken == SameOrder => FetchUnbroken /\ WindowUnbroken /\ PageFits
UInv == IInv /\ Known /\ Unbroken

\* A window read from the session's end has not been outgrown: fewer messages have come
\* since than it has, so that an offset of its size still ends in it or at its edge.
NotOutgrown ==
    ~Busy /\ detail.session # None /\ detail.messages # <<>> /\ ~Anchored(detail.anchor) /\ order = "desc" =>
        len[detail.session] - Last(detail.messages) <= Len(detail.messages)

\* The answers of the server are windows.
LEMMA AnswerIsWindow ==
    ASSUME NEW n \in Nat, NEW o \in Orders, NEW at \in Nat, NEW whole \in BOOLEAN
    PROVE  /\ Window(ByTime(n, o, at), n, FALSE)
           /\ (whole => o = "asc") => Window(ByOffset(n, o, 0), n, whole)
<1>1. ASSUME NEW a \in Int, NEW b \in Int, a >= 1, b <= n, NEW w \in BOOLEAN, w => a = 1
      PROVE  Window(Run(a, b), n, w)
  <2>1. IsRun(Run(a, b), a, b)
    BY RunIs
  <2>2. CASE a <= b
    <3>1. a \in 1..n /\ b \in 1..n
      BY <1>1, <2>2
    <3>2. QED
      BY <1>1, <2>1, <2>2, <3>1 DEF Window
  <2>3. CASE b < a
    <3>1. Run(a, b) = <<>>
      BY <2>1, <2>3 DEF IsRun
    <3>2. QED
      BY <3>1 DEF Window
  <2>4. QED
    BY <2>2, <2>3
<1>2. Window(ByTime(n, o, at), n, FALSE)
  <2>1. CASE o = "desc"
    <3>1. PICK a, b : a = AtLeast(1, AtMost(n, at) - Limit + 1) /\ b = AtMost(n, at)
      OBVIOUS
    <3>2. a \in Int /\ b \in Int /\ a >= 1 /\ b <= n
      BY <3>1, LimitAssumption DEF AtLeast, AtMost
    <3>3. ByTime(n, o, at) = Run(a, b)
      BY <2>1, <3>1 DEF ByTime
    <3>4. QED
      BY <1>1, <3>2, <3>3
  <2>2. CASE o # "desc"
    <3>1. PICK a, b : a = AtLeast(1, at) /\ b = AtMost(n, AtLeast(1, at) + Limit - 1)
      OBVIOUS
    <3>2. a \in Int /\ b \in Int /\ a >= 1 /\ b <= n
      BY <3>1, LimitAssumption DEF AtLeast, AtMost
    <3>3. ByTime(n, o, at) = Run(a, b)
      BY <2>2, <3>1 DEF ByTime
    <3>4. QED
      BY <1>1, <3>2, <3>3
  <2>3. QED
    BY <2>1, <2>2
<1>3. ASSUME whole => o = "asc" PROVE Window(ByOffset(n, o, 0), n, whole)
  <2>1. CASE o = "desc"
    <3>1. PICK a, b : a = AtLeast(1, n - 0 - Limit + 1) /\ b = n - 0
      OBVIOUS
    <3>2. a \in Int /\ b \in Int /\ a >= 1 /\ b <= n /\ ~whole
      BY <1>3, <2>1, <3>1, LimitAssumption DEF AtLeast
    <3>3. ByOffset(n, o, 0) = Run(a, b)
      BY <2>1, <3>1 DEF ByOffset
    <3>4. QED
      BY <1>1, <3>2, <3>3
  <2>2. CASE o # "desc"
    <3>1. PICK a, b : a = 0 + 1 /\ b = AtMost(n, 0 + Limit)
      OBVIOUS
    <3>2. a \in Int /\ b \in Int /\ a = 1 /\ b <= n
      BY <3>1, LimitAssumption DEF AtMost
    <3>3. ByOffset(n, o, 0) = Run(a, b)
      BY <2>2, <3>1 DEF ByOffset
    <3>4. QED
      BY <1>1, <3>2, <3>3
  <2>3. QED
    BY <2>1, <2>2
<1>4. QED
  BY <1>2, <1>3

\* A window of a session stays one when the session grows.
LEMMA WindowGrows ==
    ASSUME NEW q, NEW n \in Nat, NEW m \in Nat, n <= m, NEW whole, Window(q, n, whole)
    PROVE  Window(q, m, whole)
<1>1. \A a \in 1..n : a \in 1..m
  OBVIOUS
<1>2. QED
  BY <1>1 DEF Window

LEMMA InitUnbroken == Init => UInv
<1> SUFFICES ASSUME Init PROVE UInv
  OBVIOUS
<1>1. IInv
  BY InitInv
<1>2. Known
  BY LengthAssumption, BoundsAssumption DEF Init, Known, IsAnchor, NoDetail, NoPage, LoadingMore
<1>3. FetchUnbroken /\ WindowUnbroken /\ PageFits
  BY DEF Init, FetchUnbroken, WindowUnbroken, PageFits, NoPage
<1>4. QED
  BY <1>1, <1>2, <1>3 DEF UInv, Unbroken

\* A fetch that leaves makes the window and the page that is loaded into it things of the past.
LEMMA AskUnbroken ==
    ASSUME NEW force, NEW s, NEW at, NEW d, NEW updated, NEW shown, UNCHANGED order,
           Ask(force, s, order, at, d, updated, shown)
    PROVE  /\ FetchUnbroken' /\ WindowUnbroken' /\ PageFits'
           /\ Busy' /\ fetch'.session = s /\ fetch'.anchor = at
BY DEF Ask, FetchUnbroken, WindowUnbroken, PageFits

\* A call of syncDetail over an unchanged window
LEMMA SyncUnbroken ==
    ASSUME UInv, IInv', NEW force, NEW updated,
           UNCHANGED <<len, order, detail, page>>, IsAnchor(focusAt)', left'.toggles = left.toggles,
           left' = [selects |-> left'.selects, toggles |-> left'.toggles, jumps |-> left'.jumps,
                    forces |-> left'.forces, failures |-> left'.failures],
           SyncDetail(force, selectedId', order, focusAt', detail, updated)
    PROVE  UInv'
<1>0. IInv /\ Known /\ Unbroken /\ selectedId' \in Sessions
  BY DEF UInv, IInv
<1>1. CASE UNCHANGED fetch
  <2>1. Known'
    BY <1>0, <1>1 DEF Known, IsAnchor, LoadingMore
  <2>2. Unbroken'
    BY <1>0, <1>1 DEF Unbroken, SameOrder, FetchUnbroken, WindowUnbroken, PageFits, FromStart, Fits
  <2>3. QED
    BY <2>1, <2>2 DEF UInv
<1>2. CASE Ask(force, selectedId', order, focusAt', detail, updated, pane)
  <2>1. /\ FetchUnbroken' /\ WindowUnbroken' /\ PageFits'
        /\ fetch'.session = selectedId' /\ fetch'.anchor = focusAt'
    BY <1>2, AskUnbroken
  <2>2. Known'
    BY <1>0, <2>1 DEF Known, IsAnchor, LoadingMore
  <2>3. QED
    BY <2>1, <2>2 DEF UInv, Unbroken
<1>3. QED
  BY <1>1, <1>2 DEF SyncDetail

\* Steps that leave the window, its requests and the session alone
LEMMA AloneUnbroken ==
    ASSUME UInv, IInv', UNCHANGED <<len, order, detail, page, fetch, focusAt>>, left'.toggles = left.toggles,
           left' = [selects |-> left'.selects, toggles |-> left'.toggles, jumps |-> left'.jumps,
                    forces |-> left'.forces, failures |-> left'.failures]
    PROVE  UInv'
<1>1. Known'
  BY DEF UInv, Known, IsAnchor, LoadingMore
<1>2. Unbroken'
  BY DEF UInv, Unbroken, SameOrder, FetchUnbroken, WindowUnbroken, PageFits, FromStart, Fits
<1>3. QED
  BY <1>1, <1>2 DEF UInv

\* The answer of a fetch is a window of the session as it is then.
LEMMA AnswerFetchUnbroken ==
    ASSUME UInv, IInv', AnswerFetch \/ Turn
    PROVE  UInv'
<1>0. Known /\ Unbroken /\ IInv
  BY DEF UInv
<1>1. UNCHANGED <<len, order, focusAt, detail, page, left>> /\ Busy /\ Busy'
      /\ fetch' = [fetch EXCEPT !.messages = fetch'.messages, !.state = fetch'.state, !.order = fetch'.order]
      /\ fetch'.order \in {fetch.order, order}
  BY <1>0 DEF AnswerFetch, Turn, user, IInv, Shapes
<1>2. fetch'.session = fetch.session /\ fetch'.anchor = fetch.anchor
  BY <1>0, <1>1 DEF IInv, Shapes
<1>3. Known'
  BY <1>0, <1>1, <1>2 DEF Known, IsAnchor, LoadingMore
<1>4. WindowUnbroken' /\ PageFits'
  BY <1>1 DEF WindowUnbroken, PageFits
<1>5. ASSUME SameOrder PROVE FetchUnbroken'
  <2>0. FetchUnbroken
    BY <1>0, <1>5 DEF Unbroken
  <2>1. CASE Turn
    BY <1>0, <1>1, <1>2, <2>0, <2>1 DEF Turn, EmptyAnchored, FetchUnbroken, Anchored, IInv, Shapes
  <2>2. CASE AnswerFetch
    <3>1. PICK o, n : o = (IF fetch.state = "turned" THEN Other(fetch.order) ELSE fetch.order) /\ n = len[fetch.session]
      OBVIOUS
    <3>2. /\ fetch'.messages = IF Anchored(fetch.anchor) THEN ByTime(n, o, fetch.anchor.at) ELSE ByOffset(n, o, 0)
          /\ fetch'.state \in {"final", "answered"}
      BY <1>0, <2>2, <3>1 DEF AnswerFetch, IInv, Shapes
    <3>3. n \in Nat /\ o \in Orders /\ fetch.order = order
      BY <1>0, <1>1, <2>0, <3>1 DEF Known, FetchUnbroken, Orders, Other
    <3>4. Window(fetch'.messages, n, FromStart(fetch.anchor))
      <4>1. CASE Anchored(fetch.anchor)
        <5>1. fetch.anchor.at \in Nat
          BY <1>0, <1>1, <4>1 DEF Known, IsAnchor, Anchored
        <5>2. Window(ByTime(n, o, fetch.anchor.at), n, FALSE)
          BY <3>3, <5>1, AnswerIsWindow
        <5>3. QED
          BY <3>2, <4>1, <5>2 DEF FromStart, Window
      <4>2. CASE ~Anchored(fetch.anchor)
        <5>1. o = order
          BY <1>1, <2>0, <3>1, <3>3, <4>2 DEF FetchUnbroken
        <5>2. FromStart(fetch.anchor) \in BOOLEAN /\ (FromStart(fetch.anchor) => o = "asc")
          BY <5>1 DEF FromStart
        <5>3. 0 \in Nat
          OBVIOUS
        <5>4. PICK w \in BOOLEAN : w = FromStart(fetch.anchor)
          BY <5>2
        <5>5. Window(ByOffset(n, o, 0), n, w)
          BY <3>3, <5>2, <5>3, <5>4, AnswerIsWindow
        <5>6. QED
          BY <3>2, <4>2, <5>4, <5>5
      <4>3. QED
        BY <4>1, <4>2
    <3>5. QED
      BY <1>1, <1>2, <3>1, <3>2, <3>3, <3>4 DEF FetchUnbroken, FromStart, Anchored
  <2>3. QED
    BY <2>1, <2>2
<1>6. QED
  BY <1>0, <1>1, <1>3, <1>4, <1>5 DEF UInv, Unbroken, SameOrder

\* What the finally block leaves: another fetch, or a window at rest without a page in flight
LEMMA SettleUnbroken ==
    ASSUME UInv, IInv', Busy, NEW painted, NEW shown,
           UNCHANGED <<len, order, selectedId, focusAt>>, left'.toggles = left.toggles,
           left' = [selects |-> left'.selects, toggles |-> left'.toggles, jumps |-> left'.jumps,
                    forces |-> left'.forces, failures |-> left'.failures],
           Settle(painted, detail', shown),
           detail'.session = None => detail'.messages = <<>>,
           detail'.session # None => detail'.session \in Sessions,
           Busy' \/ ~page'.live, page'.live => detail'.session # None,
           page' = [page EXCEPT !.live = page'.live],
           ~Busy' /\ SameOrder /\ detail'.session # None =>
               Window(detail'.messages, len[detail'.session], FromStart(detail'.anchor))
    PROVE  UInv'
<1>0. IInv /\ Known /\ Unbroken /\ selectedId \in Sessions
  BY DEF UInv, IInv
<1>1. page' = [session |-> page.session, edge |-> page.edge, anchor |-> page.anchor, offset |-> page.offset,
               messages |-> page.messages, live |-> page'.live, state |-> page.state]
  BY <1>0 DEF Known
<1>2. CASE Ask(TRUE, selectedId, order, focusAt, detail', byId, shown)
  <2>1. /\ FetchUnbroken' /\ WindowUnbroken' /\ PageFits'
        /\ fetch'.session = selectedId /\ fetch'.anchor = focusAt
    BY <1>2, AskUnbroken
  <2>2. Known'
    BY <1>0, <1>1, <2>1 DEF Known, IsAnchor, LoadingMore
  <2>3. QED
    BY <2>1, <2>2 DEF UInv, Unbroken
<1>3. CASE fetch' = NoFetch
  <2>1. ~Busy'
    BY <1>3 DEF NoFetch
  <2>2. Known'
    BY <1>0, <1>1, <2>1 DEF Known, IsAnchor, LoadingMore
  <2>3. SameOrder => FetchUnbroken' /\ WindowUnbroken' /\ PageFits'
    BY <2>1 DEF FetchUnbroken, WindowUnbroken, PageFits, FromStart
  <2>4. QED
    BY <2>2, <2>3 DEF UInv, Unbroken, SameOrder
<1>4. QED
  BY <1>2, <1>3 DEF Settle

LEMMA PaintUnbroken ==
    ASSUME UInv, IInv', Paint
    PROVE  UInv'
<1>0. /\ IInv /\ Known /\ Unbroken /\ Busy
      /\ UNCHANGED <<len, order, selectedId, focusAt, left>>
  BY DEF UInv, Paint, user
<1>1. CASE selectedId = fetch.session
  <2>1. /\ detail' = [session |-> fetch.session, signature |-> fetch.signature,
                      messages |-> fetch.messages, anchor |-> fetch.anchor]
        /\ page' = [page EXCEPT !.live = FALSE]
        /\ Settle(TRUE, detail', fetch.session)
    BY <1>1 DEF Paint, Orphaned
  <2>2. page'.live = FALSE
    BY <1>0, <2>1 DEF Known
  <2>3. SameOrder => Window(detail'.messages, len[detail'.session], FromStart(detail'.anchor))
    BY <1>0, <2>1 DEF Unbroken, FetchUnbroken, Paint
  <2>4. detail'.session \in Sessions /\ detail'.session # None
    BY <1>0, <2>1, NoneAssumption DEF Known
  <2>5. left' = [selects |-> left'.selects, toggles |-> left'.toggles, jumps |-> left'.jumps,
                 forces |-> left'.forces, failures |-> left'.failures]
    BY <1>0 DEF Known
  <2>6. QED
    BY <1>0, <2>1, <2>2, <2>3, <2>4, <2>5, SettleUnbroken
<1>2. CASE selectedId # fetch.session
  <2>1. Settle(FALSE, detail', pane) /\ UNCHANGED <<detail, page>> /\ pendingDetail
    BY <1>0, <1>2 DEF Paint, IInv, Queued
  <2>2. Busy'
    BY <2>1 DEF Settle, WorthRerun, Ask
  <2>3. page' = [page EXCEPT !.live = page'.live]
    BY <1>0, <2>1 DEF Known
  <2>4. left' = [selects |-> left'.selects, toggles |-> left'.toggles, jumps |-> left'.jumps,
                 forces |-> left'.forces, failures |-> left'.failures]
    BY <1>0 DEF Known
  <2>5. /\ detail'.session = None => detail'.messages = <<>>
        /\ detail'.session # None => detail'.session \in Sessions
        /\ page'.live => detail'.session # None
    BY <1>0, <2>1 DEF Known
  <2>6. QED
    BY <1>0, <2>1, <2>2, <2>3, <2>4, <2>5, SettleUnbroken
<1>3. QED
  BY <1>1, <1>2

LEMMA FailFetchUnbroken ==
    ASSUME UInv, IInv', FailFetch
    PROVE  UInv'
<1>0. /\ IInv /\ Known /\ Unbroken /\ Busy
      /\ UNCHANGED <<len, order, selectedId, focusAt>>
      /\ detail' = NoDetail /\ page' = [page EXCEPT !.live = FALSE] /\ Settle(FALSE, detail', None)
      /\ left' = [left EXCEPT !.failures = @ - 1]
  BY DEF UInv, FailFetch, user, Orphaned
<1>1. /\ left'.toggles = left.toggles
      /\ left' = [selects |-> left'.selects, toggles |-> left'.toggles, jumps |-> left'.jumps,
                  forces |-> left'.forces, failures |-> left'.failures]
      /\ page'.live = FALSE
  BY <1>0 DEF Known
<1>2. detail'.session = None /\ detail'.messages = <<>>
  BY <1>0 DEF NoDetail
<1>3. QED
  BY <1>0, <1>1, <1>2, SettleUnbroken

\* loadMore asks at the edge of the window there is.
LEMMA LoadMoreUnbroken ==
    ASSUME UInv, IInv', LoadMore
    PROVE  UInv'
<1>0. /\ IInv /\ Known /\ Unbroken /\ AtRest
      /\ UNCHANGED <<len, order, focusAt, detail, fetch, left>>
  BY DEF UInv, IInv, LoadMore, user, stream
<1>1. /\ detail.session # None /\ detail.messages # <<>>
      /\ page' = [session |-> detail.session, edge |-> Edge(order),
                  anchor |-> IF ~Anchored(focusAt) THEN -1
                             ELSE IF Edge(order) = "older" THEN First(detail.messages) ELSE Last(detail.messages),
                  offset |-> Len(detail.messages), messages |-> <<>>, live |-> TRUE, state |-> "asked"]
  BY DEF LoadMore
<1>2. ~Busy => (Anchored(focusAt) <=> Anchored(detail.anchor))
  BY <1>0, <1>1 DEF AtRest, Anchored
<1>3. Known'
  BY <1>0, <1>1 DEF Known, IsAnchor, LoadingMore
<1>4. PageFits'
  BY <1>0, <1>1, <1>2 DEF PageFits
<1>5. SameOrder => FetchUnbroken' /\ WindowUnbroken'
  BY <1>0 DEF Unbroken, FetchUnbroken, WindowUnbroken, FromStart
<1>6. QED
  BY <1>0, <1>3, <1>4, <1>5 DEF UInv, Unbroken, SameOrder

\* The page that answers meets the window, unless the session has outgrown it.
LEMMA AnswerPageUnbroken ==
    ASSUME UInv, IInv', NotOutgrown, AnswerPage
    PROVE  UInv'
<1>0. /\ IInv /\ Known /\ Unbroken
      /\ UNCHANGED <<len, order, focusAt, detail, fetch, left>>
  BY DEF UInv, AnswerPage, user, stream
<1>1. PICK n, o : n = len[page.session] /\ o = OrderOf(page.edge)
  OBVIOUS
<1>2. /\ page.state = "asked"
      /\ page' = [session |-> page.session, edge |-> page.edge, anchor |-> page.anchor, offset |-> page.offset,
                  messages |-> page'.messages, live |-> page.live, state |-> "answered"]
      /\ page'.messages = IF page.anchor # -1 THEN ByTime(n, o, page.anchor) ELSE ByOffset(n, o, page.offset)
  BY <1>0, <1>1 DEF AnswerPage, Known
<1>3. n \in Nat
  BY <1>0, <1>1, <1>2 DEF Known, LoadingMore
<1>4. Known'
  BY <1>0, <1>2 DEF Known, IsAnchor, LoadingMore
<1>5. SameOrder => FetchUnbroken' /\ WindowUnbroken'
  BY <1>0 DEF Unbroken, FetchUnbroken, WindowUnbroken, FromStart
<1>6. ASSUME SameOrder PROVE PageFits'
  <2> SUFFICES ASSUME ~Busy, page.live PROVE Fits(page.messages, len[page.session])'
    BY <1>0, <1>2, <1>6 DEF Unbroken, PageFits
  <2>1. /\ detail.session # None /\ detail.messages # <<>>
        /\ page.session = detail.session /\ page.edge = Edge(order) /\ page.offset = Len(detail.messages)
        /\ page.anchor = IF ~Anchored(detail.anchor) THEN -1
                         ELSE IF page.edge = "older" THEN First(detail.messages) ELSE Last(detail.messages)
    BY <1>0, <1>6 DEF Unbroken, PageFits
  <2>2. PICK a \in 1..n, b \in 1..n :
          a <= b /\ IsRun(detail.messages, a, b) /\ (FromStart(detail.anchor) => a = 1)
    BY <1>0, <1>1, <1>6, <2>1 DEF Unbroken, WindowUnbroken, Window
  <2>3. First(detail.messages) = a /\ Last(detail.messages) = b /\ Len(detail.messages) = b - a + 1
    BY <2>2 DEF IsRun, First, Last
  <2>4. ASSUME NEW x \in Int, NEW y \in Int, page'.messages = Run(x, y), 1 <= x, x <= n + 1, 0 <= y, y <= n,
               IF page.edge = "older" THEN a - 1 <= y /\ y <= b ELSE a <= x /\ x <= b + 1
        PROVE  Fits(page.messages, len[page.session])'
    <3>1. IsRun(page'.messages, x, y)
      BY <2>4, RunIs
    <3>2. x \in 1..(n + 1) /\ y \in 0..n /\ len'[page'.session] = n /\ page'.edge = page.edge
      BY <1>0, <1>1, <1>2, <1>3, <2>4
    <3>3. QED
      BY <1>0, <2>3, <2>4, <3>1, <3>2 DEF Fits
  <2>5. CASE page.edge = "older"
    <3>1. o = "desc" /\ order = "desc"
      BY <1>0, <1>1, <2>1, <2>5 DEF OrderOf, Edge, Known, Orders
    <3>2. CASE Anchored(detail.anchor)
      <4>1. page.anchor = a /\ a # -1
        BY <2>1, <2>3, <2>5, <3>2
      <4>2. PICK x, y : x = AtLeast(1, AtMost(n, a) - Limit + 1) /\ y = AtMost(n, a)
        OBVIOUS
      <4>3. x \in Int /\ y = a /\ 1 <= x /\ x <= n + 1
        BY <1>3, <4>2, LimitAssumption DEF AtLeast, AtMost
      <4>4. page'.messages = Run(x, y)
        BY <1>2, <3>1, <4>1, <4>2 DEF ByTime
      <4>5. y \in Int /\ a - 1 <= y /\ y <= b /\ 0 <= y /\ y <= n
        BY <1>3, <2>2, <4>3
      <4>6. QED
        BY <2>4, <2>5, <4>3, <4>4, <4>5
    <3>3. CASE ~Anchored(detail.anchor)
      <4>1. page.anchor = -1 /\ page.offset = b - a + 1
        BY <2>1, <2>3, <3>3
      <4>2. n - b <= b - a + 1
        BY <1>1, <2>1, <2>3, <3>1, <3>3 DEF NotOutgrown
      <4>3. PICK x, y : x = AtLeast(1, n - page.offset - Limit + 1) /\ y = n - page.offset
        OBVIOUS
      <4>4. x \in Int /\ y \in Int /\ 1 <= x /\ x <= n + 1 /\ a - 1 <= y /\ y <= b /\ 0 <= y /\ y <= n
        BY <1>3, <4>1, <4>2, <4>3, LimitAssumption DEF AtLeast
      <4>5. page'.messages = Run(x, y)
        BY <1>2, <3>1, <4>1, <4>3 DEF ByOffset
      <4>6. QED
        BY <2>4, <2>5, <4>4, <4>5
    <3>4. QED
      BY <3>2, <3>3
  <2>6. CASE page.edge # "older"
    <3>1. o = "asc" /\ order = "asc"
      BY <1>0, <1>1, <2>1, <2>6 DEF OrderOf, Edge, Known, Orders
    <3>2. CASE Anchored(detail.anchor)
      <4>1. page.anchor = b /\ b # -1
        BY <2>1, <2>3, <2>6, <3>2
      <4>2. PICK x, y : x = AtLeast(1, b) /\ y = AtMost(n, AtLeast(1, b) + Limit - 1)
        OBVIOUS
      <4>3. x = b /\ y \in Int /\ 0 <= y /\ y <= n
        BY <1>3, <4>2, LimitAssumption DEF AtLeast, AtMost
      <4>4. page'.messages = Run(x, y)
        BY <1>2, <3>1, <4>1, <4>2 DEF ByTime
      <4>5. x \in Int /\ 1 <= x /\ x <= n + 1 /\ a <= x /\ x <= b + 1
        BY <1>3, <2>2, <4>3
      <4>6. QED
        BY <2>4, <2>6, <4>3, <4>4, <4>5
    <3>3. CASE ~Anchored(detail.anchor)
      <4>1. page.anchor = -1 /\ a = 1 /\ page.offset = b
        BY <2>1, <2>2, <2>3, <3>1, <3>3 DEF FromStart
      <4>2. PICK x, y : x = page.offset + 1 /\ y = AtMost(n, page.offset + Limit)
        OBVIOUS
      <4>3. x = b + 1 /\ y \in Int /\ 0 <= y /\ y <= n
        BY <1>3, <4>1, <4>2, LimitAssumption DEF AtMost
      <4>4. page'.messages = Run(x, y)
        BY <1>2, <3>1, <4>1, <4>2 DEF ByOffset
      <4>5. QED
        BY <1>3, <2>4, <2>6, <4>1, <4>3, <4>4
    <3>4. QED
      BY <3>2, <3>3
  <2>7. QED
    BY <2>5, <2>6
<1>7. QED
  BY <1>0, <1>4, <1>5, <1>6 DEF UInv, Unbroken, SameOrder

\* What is new of a page that meets the window is a stretch that ends, or begins, at it.
LEMMA FreshIsRun ==
    ASSUME NEW a \in Int, NEW b \in Int, a <= b, IsRun(detail.messages, a, b),
           NEW x \in Int, NEW y \in Int, IsRun(page.messages, x, y)
    PROVE  /\ a - 1 <= y /\ y <= b => IsRun(Fresh, x, a - 1)
           /\ a <= x /\ x <= b + 1 => IsRun(Fresh, b + 1, y)
<1> PICK set : set = Elements(page.messages) \ Elements(detail.messages)
  OBVIOUS
<1>1. set = (x..y) \ (a..b)
  BY RunHolds
<1>2. ASSUME a - 1 <= y, y <= b PROVE IsRun(Fresh, x, a - 1)
  <2>1. a - 1 \in Int /\ (x <= a - 1 => x <= x /\ a - 1 <= y)
    BY <1>2
  <2>2. \A m \in x..y : m \in set <=> m \in x..(a - 1)
    BY <1>1, <1>2
  <2>3. IsRun(Among(page.messages, set), x, a - 1)
    BY <2>1, <2>2, AmongRun
  <2>4. QED
    BY <2>3 DEF Fresh
<1>3. ASSUME a <= x, x <= b + 1 PROVE IsRun(Fresh, b + 1, y)
  <2>1. b + 1 \in Int /\ (b + 1 <= y => x <= b + 1 /\ y <= y)
    BY <1>3
  <2>2. \A m \in x..y : m \in set <=> m \in (b + 1)..y
    BY <1>1, <1>3
  <2>3. IsRun(Among(page.messages, set), b + 1, y)
    BY <2>1, <2>2, AmongRun
  <2>4. QED
    BY <2>3 DEF Fresh
<1>4. QED
  BY <1>2, <1>3

\* A page that meets the window makes it a longer one.
LEMMA ExtendUnbroken ==
    ASSUME UInv, IInv', Extend
    PROVE  UInv'
<1>0. /\ IInv /\ Known /\ Unbroken
      /\ UNCHANGED <<len, order, focusAt, fetch, left>> /\ page' = NoPage
  BY DEF UInv, Extend, user
<1>1. /\ detail' = [session |-> detail.session, signature |-> detail.signature,
                    messages |-> detail'.messages, anchor |-> detail.anchor]
  BY <1>0 DEF Extend, IInv, Shapes
<1>2. (page.live /\ Fresh # <<>>) \/ UNCHANGED detail
  BY DEF Extend
<1>3. FetchUnbroken' <=> FetchUnbroken
  BY <1>0 DEF FetchUnbroken, FromStart
<1>4. PageFits'
  BY <1>0 DEF PageFits, NoPage
<1>5. CASE UNCHANGED detail
  <2>1. Known'
    BY <1>0, <1>5 DEF Known, IsAnchor, LoadingMore, NoPage
  <2>2. WindowUnbroken' <=> WindowUnbroken
    BY <1>0, <1>5 DEF WindowUnbroken, FromStart
  <2>3. QED
    BY <1>0, <1>3, <1>4, <2>1, <2>2 DEF UInv, Unbroken, SameOrder
<1>6. CASE page.live /\ Fresh # <<>>
  <2>1. /\ page.state = "answered"
        /\ detail'.messages = IF page.edge = "older" THEN Fresh \o detail.messages ELSE detail.messages \o Fresh
    BY <1>0, <1>6 DEF Extend, IInv, Shapes
  <2>2. detail.session # None
    BY <1>0, <1>6 DEF Known
  <2>3. Known'
    BY <1>0, <1>1, <2>2 DEF Known, IsAnchor, LoadingMore, NoPage
  <2>4. ASSUME SameOrder PROVE WindowUnbroken'
    <3> SUFFICES ASSUME ~Busy PROVE Window(detail'.messages, len[detail.session], FromStart(detail.anchor))
      BY <1>0, <1>1 DEF WindowUnbroken, FromStart
    <3> PICK n : n = len[detail.session]
      OBVIOUS
    <3>0. n \in Nat
      BY <1>0, <2>2 DEF Known
    <3>1. PICK a \in 1..n, b \in 1..n :
            a <= b /\ IsRun(detail.messages, a, b) /\ (FromStart(detail.anchor) => a = 1)
      BY <1>0, <1>6, <2>2, <2>4 DEF Unbroken, WindowUnbroken, PageFits, Window
    <3>2. First(detail.messages) = a /\ Last(detail.messages) = b
      BY <3>1 DEF IsRun, First, Last
    <3>3. page.edge = Edge(order) /\ page.session = detail.session /\ Fits(page.messages, n)
      BY <1>0, <1>6, <2>1, <2>4 DEF Unbroken, PageFits
    <3>4. PICK x \in 1..(n + 1), y \in 0..n :
            /\ IsRun(page.messages, x, y)
            /\ IF page.edge = "older" THEN a - 1 <= y /\ y <= b ELSE a <= x /\ x <= b + 1
      BY <3>2, <3>3 DEF Fits
    <3>5. a \in Int /\ b \in Int /\ x \in Int /\ y \in Int
      BY <3>0
    <3>6. CASE page.edge = "older"
      <4>1. IsRun(Fresh, x, a - 1)
        BY <3>1, <3>4, <3>5, <3>6, FreshIsRun
      <4>2. x <= a - 1
        BY <1>6, <3>5, <4>1 DEF IsRun
      <4>3. a - 1 \in Int /\ x <= (a - 1) + 1 /\ a - 1 <= b /\ (a - 1) + 1 = a
        BY <3>1, <3>5, <4>2
      <4>4. IsRun(Fresh \o detail.messages, x, b)
        BY <3>1, <3>5, <4>1, <4>3, RunsMeet
      <4>5. x \in 1..n /\ x <= b /\ ~FromStart(detail.anchor)
        BY <1>0, <3>0, <3>1, <3>3, <3>5, <3>6, <4>2 DEF FromStart, Edge
      <4>6. QED
        BY <2>1, <3>6, <4>4, <4>5 DEF Window
    <3>7. CASE page.edge # "older"
      <4>1. IsRun(Fresh, b + 1, y)
        BY <3>1, <3>4, <3>5, <3>7, FreshIsRun
      <4>2. b + 1 <= y
        BY <1>6, <3>5, <4>1 DEF IsRun
      <4>3. a <= b + 1 /\ b <= y
        BY <3>1, <3>5, <4>2
      <4>4. IsRun(detail.messages \o Fresh, a, y)
        BY <3>1, <3>5, <4>1, <4>3, RunsMeet
      <4>5. y \in 1..n /\ a <= y
        BY <3>0, <3>1, <3>5, <4>2
      <4>6. QED
        BY <2>1, <3>1, <3>7, <4>4, <4>5 DEF Window
    <3>8. QED
      BY <3>6, <3>7
  <2>5. QED
    BY <1>0, <1>3, <1>4, <2>3, <2>4 DEF UInv, Unbroken, SameOrder
<1>7. QED
  BY <1>2, <1>5, <1>6

LEMMA GrowUnbroken ==
    ASSUME UInv, IInv', NEW s \in Growing, Grow(s)
    PROVE  UInv'
<1>0. /\ IInv /\ Known /\ Unbroken /\ s \in Sessions
      /\ len' = [len EXCEPT ![s] = @ + 1]
      /\ UNCHANGED <<order, focusAt, fetch, detail, page, left>>
  BY LengthAssumption DEF UInv, Grow, user, stream
<1>1. \A t \in Sessions : len[t] \in Nat /\ len'[t] \in Nat /\ len[t] <= len'[t]
  BY <1>0 DEF Known
<1>2. Known'
  BY <1>0, <1>1 DEF Known, IsAnchor, LoadingMore
<1>3. ASSUME SameOrder, FetchUnbroken PROVE FetchUnbroken'
  <2>1. Busy => fetch.session \in Sessions
    BY <1>0 DEF Known
  <2>2. QED
    BY <1>0, <1>1, <1>3, <2>1, WindowGrows DEF FetchUnbroken, FromStart
<1>4. ASSUME SameOrder, WindowUnbroken PROVE WindowUnbroken'
  <2>1. detail.session # None => detail.session \in Sessions
    BY <1>0 DEF Known
  <2>2. QED
    BY <1>0, <1>1, <1>4, <2>1, WindowGrows DEF WindowUnbroken, FromStart
<1>5. ASSUME SameOrder, PageFits PROVE PageFits'
  <2>1. ASSUME NEW t \in Sessions, Fits(page.messages, len[t]) PROVE Fits(page.messages, len[t])'
    <3>1. /\ \A x \in 1..(len[t] + 1) : x \in 1..(len'[t] + 1)
          /\ \A y \in 0..len[t] : y \in 0..len'[t]
      BY <1>1
    <3>2. PICK x \in 1..(len[t] + 1), y \in 0..len[t] :
            /\ IsRun(page.messages, x, y)
            /\ IF page.edge = "older" THEN First(detail.messages) - 1 <= y /\ y <= Last(detail.messages)
                                      ELSE First(detail.messages) <= x /\ x <= Last(detail.messages) + 1
      BY <2>1 DEF Fits
    <3>3. QED
      BY <1>0, <3>1, <3>2 DEF Fits
  <2>2. ~Busy /\ page.live => page.session \in Sessions
    BY <1>0, <1>5 DEF PageFits, Known
  <2>3. QED
    BY <1>0, <1>5, <2>1, <2>2 DEF PageFits
<1>6. QED
  BY <1>0, <1>2, <1>3, <1>4, <1>5 DEF UInv, Unbroken, SameOrder

\* What the reader selects, and the order
LEMMA ReaderUnbroken ==
    ASSUME UInv, IInv', Reader
    PROVE  UInv'
<1>0. IInv /\ Known /\ Unbroken
  BY DEF UInv
<1>1. ASSUME NEW s \in Sessions, NEW at, SelectSession(s, at), at.at \in Int, at.at >= 0 \/ at.at = -1 PROVE UInv'
  <2>1. /\ UNCHANGED <<len, order, detail, page>> /\ selectedId' = s /\ focusAt' = at
        /\ left' = [left EXCEPT !.selects = @ - 1]
        /\ SyncDetail(TRUE, s, order, at, detail, byId)
    BY <1>1 DEF SelectSession
  <2>2. /\ left'.toggles = left.toggles
        /\ left' = [selects |-> left'.selects, toggles |-> left'.toggles, jumps |-> left'.jumps,
                    forces |-> left'.forces, failures |-> left'.failures]
    BY <1>0, <2>1 DEF Known
  <2>3. IsAnchor(focusAt)' /\ SyncDetail(TRUE, selectedId', order, focusAt', detail, byId)
    BY <1>1, <2>1 DEF IsAnchor
  <2>4. QED
    BY <2>1, <2>2, <2>3, SyncUnbroken
<1>2. CASE Select
  <2>1. PICK s \in Sessions : SelectSession(s, NoAnchor) \/ \E at \in 0..len[s] : SelectSession(s, [of |-> s, at |-> at])
    BY <1>2 DEF Select
  <2>2. CASE SelectSession(s, NoAnchor)
    <3>1. NoAnchor.at = -1 /\ NoAnchor.at \in Int
      OBVIOUS
    <3>2. QED
      BY <1>1, <2>2, <3>1
  <2>3. ASSUME NEW at \in 0..len[s], SelectSession(s, [of |-> s, at |-> at]) PROVE UInv'
    <3>1. PICK anchor : anchor = [of |-> s, at |-> at]
      OBVIOUS
    <3>2. anchor.at \in Int /\ anchor.at >= 0 /\ SelectSession(s, anchor)
      BY <1>0, <2>3, <3>1 DEF Known
    <3>3. QED
      BY <1>1, <3>2
  <2>4. QED
    BY <2>1, <2>2, <2>3
<1>3. CASE SwitchOrder
  <2>1. /\ UNCHANGED <<len, detail, page, selectedId>> /\ order' = Other(order) /\ focusAt' = NoAnchor
        /\ left' = [left EXCEPT !.toggles = @ - 1]
        /\ SyncDetail(TRUE, selectedId, Other(order), NoAnchor, detail, byId)
    BY <1>3 DEF SwitchOrder
  <2>2. /\ left'.toggles = left.toggles - 1 /\ left'.toggles # Toggles /\ left'.toggles \in Int /\ left'.toggles <= Toggles
        /\ left' = [selects |-> left'.selects, toggles |-> left'.toggles, jumps |-> left'.jumps,
                    forces |-> left'.forces, failures |-> left'.failures]
    BY <1>0, <2>1, BoundsAssumption DEF Known
  <2>3. Busy' => fetch'.session \in Sessions /\ IsAnchor(fetch'.anchor)
    BY <1>0, <2>1 DEF SyncDetail, Ask, Known, IInv, IsAnchor
  <2>4. IsAnchor(focusAt)' /\ order' \in Orders
    BY <1>0, <2>1 DEF IsAnchor, Known, Orders, Other
  <2>5. Known'
    BY <1>0, <2>1, <2>2, <2>3, <2>4 DEF Known, LoadingMore, IsAnchor
  <2>6. QED
    BY <2>2, <2>5 DEF UInv, Unbroken, SameOrder
<1>4. CASE GotoFailure
  <2>1. UNCHANGED <<len, order, detail, page, fetch, focusAt>> /\ left' = [left EXCEPT !.jumps = @ - 1]
    BY <1>4 DEF GotoFailure, user, stream
  <2>2. /\ left'.toggles = left.toggles
        /\ left' = [selects |-> left'.selects, toggles |-> left'.toggles, jumps |-> left'.jumps,
                    forces |-> left'.forces, failures |-> left'.failures]
    BY <1>0, <2>1 DEF Known
  <2>3. QED
    BY <2>1, <2>2, AloneUnbroken
<1>5. QED
  BY <1>2, <1>3, <1>4, LoadMoreUnbroken DEF Reader

LEMMA JumpUnbroken ==
    ASSUME UInv, IInv', Jump
    PROVE  UInv'
<1>0. IInv /\ Known /\ Unbroken
  BY DEF UInv
<1>1. UNCHANGED <<len, order, detail, page, left>>
  BY DEF Jump, NoFailureBeyond, FailureBeyond, user, stream
<1>2. left'.toggles = left.toggles
      /\ left' = [selects |-> left'.selects, toggles |-> left'.toggles, jumps |-> left'.jumps,
                  forces |-> left'.forces, failures |-> left'.failures]
  BY <1>0, <1>1 DEF Known
<1>3. CASE UNCHANGED <<fetch, focusAt>>
  BY <1>1, <1>2, <1>3, AloneUnbroken
<1>4. ASSUME NEW t \in Int, t >= 1, detail.session # None, FailureBeyond(t) PROVE UInv'
  <2>1. /\ focusAt' = [of |-> jump.session, at |-> t]
        /\ SyncDetail(TRUE, selectedId, order, focusAt', detail, byId) /\ selectedId' = selectedId
    BY <1>4 DEF FailureBeyond
  <2>2. IsAnchor(focusAt)'
    BY <1>4, <2>1 DEF IsAnchor
  <2>3. SyncDetail(TRUE, selectedId', order, focusAt', detail, byId)
    BY <2>1
  <2>4. QED
    BY <1>1, <1>2, <2>2, <2>3, SyncUnbroken
<1>5. QED
  <2>1. CASE NoFailureBeyond
    BY <1>3, <2>1 DEF NoFailureBeyond, user, stream
  <2>2. ASSUME NEW t \in 1..(IF jump.session = None THEN 0 ELSE len[jump.session]), FailureBeyond(t)
        PROVE  UInv'
    <3>1. CASE detail.session = None
      BY <1>3, <2>2, <3>1 DEF FailureBeyond, user, stream
    <3>2. CASE detail.session # None
      <4>1. t \in Int /\ t >= 1
        OBVIOUS
      <4>2. QED
        BY <1>4, <2>2, <3>2, <4>1
    <3>3. QED
      BY <3>1, <3>2
  <2>3. QED
    BY <2>1, <2>2 DEF Jump

LEMMA ListUnbroken ==
    ASSUME UInv, IInv', NEW i \in Refreshes, Refreshing(i) \/ \E force \in BOOLEAN : Refresh(i, force)
    PROVE  UInv'
<1>0. IInv /\ Known /\ Unbroken
  BY DEF UInv
<1>1. UNCHANGED <<len, order, detail, page, focusAt>>
  BY DEF Refreshing, AnswerList, ApplyList, FailList, Refresh, user, stream
<1>2. left' = left \/ left' = [left EXCEPT !.failures = @ - 1] \/ left' = [left EXCEPT !.forces = @ - 1]
  BY DEF Refreshing, AnswerList, ApplyList, FailList, Refresh
<1>3. left'.toggles = left.toggles
      /\ left' = [selects |-> left'.selects, toggles |-> left'.toggles, jumps |-> left'.jumps,
                  forces |-> left'.forces, failures |-> left'.failures]
  BY <1>0, <1>2 DEF Known
<1>4. CASE UNCHANGED fetch
  BY <1>1, <1>3, <1>4, AloneUnbroken
<1>5. CASE ApplyList(i)
  <2>1. /\ SyncDetail(lists[i].force, selectedId', order, focusAt', detail, lists[i].sessions)
        /\ IsAnchor(focusAt)'
    BY <1>0, <1>5 DEF ApplyList, user, Known, IsAnchor
  <2>2. QED
    BY <1>1, <1>3, <2>1, SyncUnbroken
<1>6. QED
  BY <1>4, <1>5 DEF Refreshing, AnswerList, FailList, Refresh, stream

LEMMA FailPageUnbroken ==
    ASSUME UInv, IInv', FailPage
    PROVE  UInv'
<1>0. /\ IInv /\ Known /\ Unbroken
      /\ UNCHANGED <<len, order, focusAt, detail, fetch>> /\ page' = NoPage
      /\ left' = [left EXCEPT !.failures = @ - 1]
  BY DEF UInv, FailPage, user, stream
<1>1. Known' /\ left'.toggles = left.toggles
  BY <1>0 DEF Known, IsAnchor, LoadingMore, NoPage
<1>2. PageFits' /\ (FetchUnbroken' <=> FetchUnbroken) /\ (WindowUnbroken' <=> WindowUnbroken)
  BY <1>0 DEF PageFits, NoPage, FetchUnbroken, WindowUnbroken, FromStart
<1>3. QED
  BY <1>0, <1>1, <1>2 DEF UInv, Unbroken, SameOrder

LEMMA UnbrokenStep ==
    ASSUME UInv, NotOutgrown, [Next]_vars
    PROVE  UInv'
<1>1. IInv'
  BY Invariance DEF UInv
<1>2. CASE Reader
  BY <1>1, <1>2, ReaderUnbroken
<1>3. CASE AnswerFetch \/ Turn
  BY <1>1, <1>3, AnswerFetchUnbroken
<1>4. CASE AnswerPage
  BY <1>1, <1>4, AnswerPageUnbroken
<1>5. ASSUME NEW s \in Growing, Grow(s) PROVE UInv'
  BY <1>1, <1>5, GrowUnbroken
<1>6. CASE Paint
  BY <1>1, <1>6, PaintUnbroken
<1>7. CASE FailFetch
  BY <1>1, <1>7, FailFetchUnbroken
<1>8. CASE Extend
  BY <1>1, <1>8, ExtendUnbroken
<1>9. CASE FailPage
  BY <1>1, <1>9, FailPageUnbroken
<1>10. CASE Jump
  BY <1>1, <1>10, JumpUnbroken
<1>11. ASSUME NEW i \in Refreshes, Refreshing(i) \/ \E force \in BOOLEAN : Refresh(i, force) PROVE UInv'
  BY <1>1, <1>11, ListUnbroken
<1>12. CASE UNCHANGED vars
  <2>1. left' = [selects |-> left'.selects, toggles |-> left'.toggles, jumps |-> left'.jumps,
                 forces |-> left'.forces, failures |-> left'.failures]
    BY <1>12 DEF UInv, Known, vars
  <2>2. QED
    BY <1>1, <1>12, <2>1, AloneUnbroken DEF vars
<1>13. QED
  BY <1>2, <1>3, <1>4, <1>5, <1>6, <1>7, <1>8, <1>9, <1>10, <1>11, <1>12 DEF Next, Server, Handlers

\* Whatever pages are put together while windows are replaced, the window that stays is an
\* unbroken stretch of the session: as long as the order has not been switched and no window
\* read from the session's end is outgrown by it (loadMore's offset counts from there).
THEOREM WindowStaysUnbroken ==
    Spec /\ []NotOutgrown => [](left.toggles = Toggles => Contiguous)
<1>1. UInv => (left.toggles = Toggles => Contiguous)
  <2> SUFFICES ASSUME UInv, SameOrder, ~Busy, NEW i \in 1..(Len(detail.messages) - 1)
               PROVE  detail.messages[i + 1] = detail.messages[i] + 1
    BY DEF Contiguous, SameOrder
  <2>1. CASE detail.messages = <<>>
    BY <2>1
  <2>2. CASE detail.messages # <<>>
    <3>1. detail.session # None /\ WindowUnbroken
      BY <2>2 DEF UInv, Known, Unbroken
    <3>2. PICK a \in 1..len[detail.session], b \in 1..len[detail.session] :
            a <= b /\ IsRun(detail.messages, a, b)
      BY <2>2, <3>1 DEF WindowUnbroken, Window
    <3>3. a \in Int /\ b \in Int
      BY <3>1 DEF UInv, Known
    <3>4. QED
      BY <3>2, <3>3 DEF IsRun
  <2>3. QED
    BY <2>1, <2>2
<1>2. QED
  BY InitUnbroken, UnbrokenStep, <1>1, PTL DEF Spec

=============================================================================
