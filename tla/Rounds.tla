------------------------------- MODULE Rounds -------------------------------
(***************************************************************************)
(* One session while a CLI writes it: asks, prompts queued while the agent *)
(* works, context the CLI assembles, replies, tool calls, their results    *)
(* (some of which come only after the next ask) and interruptions.  The    *)
(* server's rounds and the page's are read from the rows at any moment.    *)
(***************************************************************************)
EXTENDS RoundSplit

CONSTANTS
  Files,    \* the files that calls name
  Calls,    \* the calls that are made: [name, files, file]
  MaxRows   \* bound: rows in the session

ASSUME RoundsAssumption ==
  /\ MaxRows \in Nat /\ NoFile \notin Files
  /\ Calls \subseteq [name : Tools, files : SUBSET Files, file : Files \cup {NoFile}]

VARIABLES
  ids,      \* whether the source gives its calls ids
  rows,     \* the session's messages, as a source normalises them
  open      \* the calls the CLI has not written a result for

roundsVars == <<ids, rows, open>>

Now == IF rows = <<>> THEN 1 ELSE Max({1} \cup {rows[i].at : i \in DOMAIN rows})

Write(at, role, aside, words, block) ==
  /\ Len(rows) < MaxRows /\ UNCHANGED ids
  /\ rows' = Append(rows, [at |-> at, role |-> role, aside |-> aside, words |-> words, block |-> block])

Ask ==  \* within the same second as the row before it, or later
  /\ \E at \in {Now, Now + 1} : Write(at, "user", FALSE, "plain", NoBlock)
  /\ UNCHANGED open

Queued == Write(Now + 1, "user", TRUE, "plain", NoBlock) /\ UNCHANGED open
Injected ==
  /\ \E words \in {"plumbing", "glued", "apart"} : Write(Now + 1, "user", FALSE, words, NoBlock)
  /\ UNCHANGED open

Say ==  \* some rows carry no time
  /\ \E at \in {NoTime, Now + 1} : Write(at, "assistant", FALSE, "plain", NoBlock)
  /\ UNCHANGED open

CallTool ==
  \E call \in Calls :
    LET id == IF ids THEN Len(rows) + 1 ELSE NoId
        block == [type |-> "toolCall", id |-> id, name |-> call.name, files |-> call.files, file |-> call.file,
                  failed |-> FALSE]
    IN  /\ Write(Now + 1, "assistant", FALSE, "none", block)
        /\ open' = open \cup {block}

Return ==
  \E call \in open, failed \in BOOLEAN :
    /\ Write(Now + 1, "user", FALSE, "none",
             [NoBlock EXCEPT !.type = "toolResult", !.id = call.id, !.name = call.name, !.failed = failed])
    /\ open' = open \ {call}

Interrupt ==
  /\ Write(Now + 1, "system", FALSE, "none", [NoBlock EXCEPT !.type = "event"])
  /\ UNCHANGED open

RoundsInit == ids \in BOOLEAN /\ rows = <<>> /\ open = {}
RoundsNext == Ask \/ Queued \/ Injected \/ Say \/ CallTool \/ Return \/ Interrupt
RoundsSpec == RoundsInit /\ [][RoundsNext]_roundsVars

-----------------------------------------------------------------------------
Rounds == SplitRounds(rows)
PageRounds == BuildRounds(rows)

\* The rows of the round that row i belongs to: from the ask to the next one
Asks == {i \in DOMAIN rows : IsRoundStart(rows[i])}
Grouped == {i \in DOMAIN rows : \E a \in Asks : a <= i}
AskOf(i) == Max({a \in Asks : a <= i})
RowsOf(a) == {i \in Grouped : AskOf(i) = a}
RoundOf(i) == Cardinality({a \in Asks : a <= i})

\* A file the page and the server judge differently, in one of the round's calls
Contested(a, file) ==
  \E i \in RowsOf(a) :
    /\ rows[i].block.type = "toolCall"
    /\ ~(file \in ServerWrites(rows[i].block) <=> file \in PageWrites(rows[i].block))

\* A round of the page, beside the server's
RoundAgrees(page, k) ==
  LET summary == SummaryOf(rows, page)
      shown == MergeSteps(StepsOf(ItemsOf(rows, page)))
      changed == Rounds[k].changed
  IN  /\ \A n \in DOMAIN shown : Len(shown[n]) > 1 => \A s \in DOMAIN shown[n] : ~IsFailedStep(shown[n][s])
      /\ page.ask # 0 /\ page.no = k
      /\ Len(page.items) + 1 = Rounds[k].messages
      /\ summary.failures = Rounds[k].failures
      /\ summary.lastAt = WorkEnd(Rounds[k])
      /\ \A file \in Files : ~Contested(page.ask, file) =>
           IF ids THEN file \in summary.changed <=> file \in changed \cup Awaited(Rounds[k].pending)
           ELSE file \in summary.changed => file \in changed

\* The page and the server, which split, pair and classify with code of their own,
\* tell the same rounds wherever they see the same asks: as many rows, as many
\* failures, the same end of the work.  Of every file on which they judge each
\* call of the round alike, the page's changes are the server's and those of the
\* writes that have no result in the round; without ids the server's are all that
\* were written.  And no failure is folded away among the reads that went well.
PageAgrees ==
  (\A i \in DOMAIN rows : IsAsk(rows[i]) <=> IsRoundStart(rows[i])) =>
    LET before == Len(PageRounds) - Len(Rounds)  \* rows before the first ask
    IN  /\ before \in {0, 1} /\ (before = 1 => PageRounds[1].ask = 0)
        /\ \A k \in DOMAIN Rounds : RoundAgrees(PageRounds[k + before], k)

\* A file is listed as changed only for a write of that round that was
\* answered, in that round, without failing, wherever calls have ids to pair
\* them with their results by (noteWrite, settleWrite).
ChangedDidNotFail ==
  ids => \A a \in Asks : \A file \in Rounds[RoundOf(a)].changed :
    \E i, j \in RowsOf(a) :
      /\ rows[i].block.type = "toolCall" /\ file \in ServerWrites(rows[i].block)
      /\ rows[j].block.type = "toolResult" /\ rows[j].block.id = rows[i].block.id /\ ~rows[j].block.failed

\* With ids or without: where every result of the session failed and no call
\* is without one, no file was changed.
FailedWritesChangeNothing ==
  open = {} /\ (\A i \in DOMAIN rows : rows[i].block.type = "toolResult" => rows[i].block.failed) =>
    \A k \in DOMAIN Rounds : Rounds[k].changed = {}

\* A write that did not fail is listed by the round that made the call,
\* once its result has come.
ChangedIsComplete ==
  \A i \in Grouped, j \in DOMAIN rows :
    /\ rows[i].block.type = "toolCall"
    /\ rows[j].block.type = "toolResult" /\ rows[j].block.id = rows[i].block.id /\ ~rows[j].block.failed
    => ServerWrites(rows[i].block) \subseteq Rounds[RoundOf(i)].changed

\* The page lists the files the server lists, whatever the calls are.
PageListsChanges ==
  \A k \in DOMAIN Rounds : ids =>
    \E page \in Range(PageRounds) : SummaryOf(rows, page).changed = Rounds[k].changed \cup Awaited(Rounds[k].pending)

\* A search hit's time names a round that has a row of that time (at=).
HitResolves ==
  \A i \in Grouped : rows[i].at # NoTime =>
    \E j \in Grouped : rows[j].at = rows[i].at /\ RoundOf(j) = RoundAt(Rounds, rows[i].at)

\* The delta since a moment has every round with a row from that moment on,
\* and no round that ended before it (since=).
SinceIsTheDelta ==
  \A cut \in 1..(Now + 1) :
    RoundsSince(Rounds, cut) = {RoundOf(i) : i \in {j \in Grouped : cut <= rows[j].at}}

\* The two ways to name rounds by time find the rows that were written then.
TimesNameRounds == HitResolves /\ SinceIsTheDelta

\* Reading only the latest rows cuts no round that begins in them short and
\* adds nothing to it: the rounds of a tail are the last ones of the session.
TailKeepsRounds ==
  \A n \in DOMAIN rows :
    LET tail == SplitRounds(SubSeq(rows, n, Len(rows)))
        skipped == Len(Rounds) - Len(tail)
    IN  \A k \in DOMAIN tail : [tail[k] EXCEPT !.index = @ + skipped] = Rounds[k + skipped]

\* The three ways to name rounds - by an instant, by a beginning, by the latest rows -
\* find the rounds that the whole session has.
SelectionsNameRounds == TimesNameRounds /\ TailKeepsRounds

\* The brief and the page tell the same rounds, and a file they list as changed was.
RoundsReadAlike == PageAgrees /\ ChangedDidNotFail

\* A round that a later ask has closed never changes again, whatever arrives
\* afterwards, the late result of one of its calls included.
ClosedRoundsStay ==
  [][\A k \in 1..(Len(Rounds) - 1) : Rounds'[k] = Rounds[k]]_roundsVars
=============================================================================
