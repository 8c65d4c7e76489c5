------------------------------ MODULE OtelExport ------------------------------
(***************************************************************************)
(* The OTLP exporter of internal/app/telemetry.go: passes over the listed  *)
(* sessions, each read page by page from its end while its CLI may still   *)
(* be writing it, rendered as one span per row under its round's number,   *)
(* and sent in batches; and the cursor that says what has been sent, saved *)
(* to disk when a pass ends and read back after a restart.                 *)
(*                                                                         *)
(* A span is <<round number, row>>: its id is derived from both, so the    *)
(* collector holds one copy of it however often it is sent.                *)
(***************************************************************************)
EXTENDS Integers, Sequences, FiniteSets

CONSTANTS
  Sessions,    \* the sessions inside the export window
  MaxRows,     \* bound: rows of all the sessions
  PageRows,    \* rows per page of allMessages
  BatchSpans,  \* spans per POST
  SameInstant, \* whether two rows can carry the same newest time
  MaxFailures, \* bound: POSTs that fail, saves that fail
  MaxCrashes   \* bound: restarts of the process

ASSUME OtelAssumption ==
  /\ IsFiniteSet(Sessions)
  /\ MaxRows \in Nat /\ PageRows \in Nat \ {0} /\ BatchSpans \in Nat \ {0}
  /\ SameInstant \in BOOLEAN /\ MaxFailures \in Nat /\ MaxCrashes \in Nat

VARIABLES
  rows,      \* how many rows each session has
  starts,    \* the rows of each session that begin a round
  updated,   \* its UpdatedAt, 0 while it has no row
  settled,   \* the newest UpdatedAt that is --otel-settle old
  collector, \* the spans the collector holds of each session
  cursor,    \* otelState in memory
  disk,      \* the cursor file
  pc,        \* between passes, at the next record, reading, sending
  backfill,  \* whether this is the pass that run starts with
  todo, listed, \* records this pass has still to look at, and their UpdatedAt
  cur, list, \* the session being exported and the rows read of it so far
  pending,   \* where in list the spans still to send of it are
  failures, crashes

writerVars == <<rows, starts, updated, settled>>
passVars == <<backfill, todo, listed>>
bounds == <<failures, crashes>>
vars == <<writerVars, collector, cursor, disk, pc, passVars, cur, list, pending, bounds>>

RoundNumbers == 1..MaxRows
\* The cursor of a session never exported.
Unknown == [updated |-> 0, rounds |-> [k \in RoundNumbers |-> <<>>]]

-----------------------------------------------------------------------------
(* buildSessionSpans, and the rounds it groups *)

\* How many rounds have begun within the first p rows that were read.
RoundAt(s, read, p) == Cardinality({q \in 1..p : read[q] \in starts[s]})

Span(s, read, p) == <<RoundAt(s, read, p), read[p]>>

\* Rows before the first round belong to none and make no span.
Built(s, read) == {p \in 1..Len(read) : RoundAt(s, read, p) > 0}

\* The rows of a round in order: its spans without their round.  The cursor has
\* none for a round not sent.
Fingerprint(s, read, k) ==
  LET before == Cardinality({p \in 1..Len(read) : RoundAt(s, read, p) < k})
      size == Cardinality({p \in 1..Len(read) : RoundAt(s, read, p) = k}) IN
  [i \in 1..size |-> read[before + i]]

Changed(s, read) ==
  {k \in RoundNumbers :
     Fingerprint(s, read, k) # <<>> /\ Fingerprint(s, read, k) # cursor[s].rounds[k]}

\* Where the spans to send are in what was read: rounds are sent rising.
RoundsToSend(s, read) ==
  {p \in Built(s, read) : RoundAt(s, read, p) \in Changed(s, read)}

\* What the session really holds.
WholeSession(s) == [i \in 1..rows[s] |-> i]
TrueSpans(s) == {Span(s, WholeSession(s), p) : p \in Built(s, WholeSession(s))}

-----------------------------------------------------------------------------
(* The CLI and the clock *)

\* Rows come with newer times; two of one instant (UpdatedAt is kept in
\* seconds) are written before that instant is settled.
AppendRow(s, start) ==
  /\ Cardinality({e \in Sessions \X (1..MaxRows) : e[2] <= rows[e[1]]}) < MaxRows
  /\ rows' = [rows EXCEPT ![s] = @ + 1]
  /\ starts' = IF start THEN [starts EXCEPT ![s] = @ \cup {rows[s] + 1}] ELSE starts
  /\ \/ updated' = [updated EXCEPT ![s] = @ + 1]
     \/ SameInstant /\ updated[s] > settled[s] /\ UNCHANGED updated
  /\ UNCHANGED <<settled, collector, cursor, disk, pc, passVars, cur, list, pending, bounds>>

Settle(s) ==
  /\ settled[s] # updated[s]
  /\ settled' = [settled EXCEPT ![s] = updated[s]]
  /\ UNCHANGED <<rows, starts, updated, collector, cursor, disk, pc, passVars, cur, list, pending, bounds>>

-----------------------------------------------------------------------------
(* exportOnce *)

BeginPass ==
  /\ pc = "between"
  /\ todo' = Sessions /\ listed' = updated
  /\ pc' = "record"
  /\ UNCHANGED <<writerVars, collector, cursor, disk, backfill, cur, list, pending, bounds>>

\* mutant: a session as old as the settled instant is left too
StillWrittenToo(s) == ~backfill /\ listed[s] >= settled[s]
StillWritten(s) == ~backfill /\ listed[s] > settled[s]
Known(s) == listed[s] # 0 /\ cursor[s].updated = listed[s]

\* What was read of a session goes with the iteration.
Done(s) == pc' = "record" /\ todo' = todo \ {s} /\ list' = <<>>

Skip(s) ==
  /\ pc = "record" /\ s \in todo
  /\ StillWritten(s) \/ Known(s)
  /\ Done(s)
  /\ UNCHANGED <<writerVars, collector, cursor, disk, backfill, listed, cur, pending, bounds>>

BeginRead(s) ==
  /\ pc = "record" /\ s \in todo
  /\ ~StillWritten(s) /\ ~Known(s)
  /\ cur' = s /\ list' = <<>> /\ pc' = "page"
  /\ UNCHANGED <<writerVars, collector, cursor, disk, passVars, pending, bounds>>

\* One page, counted back from the end the session has now, goes before the
\* pages already read; the offset moves by whole pages.
ReadPage ==
  LET left == rows[cur] - Len(list)
      size == IF left < PageRows THEN left ELSE PageRows
      batch == [i \in 1..size |-> left - size + i] IN
  /\ pc = "page"
  /\ list' = batch \o list
  /\ pc' = IF size < PageRows THEN "build" ELSE "page"
  /\ UNCHANGED <<writerVars, collector, cursor, disk, passVars, cur, pending, bounds>>

\* mutant: the cursor takes the version the session has by now
MarkPresent(s, read) ==
  cursor' = [cursor EXCEPT ![s] =
               [updated |-> updated[s],
                rounds |-> [k \in RoundNumbers |-> IF k \in Changed(s, read) THEN Fingerprint(s, read, k)
                                                   ELSE cursor[s].rounds[k]]]]

\* mark: the version that was listed, and the rounds that were sent.
Mark(s, read) ==
  cursor' = [cursor EXCEPT ![s] =
               [updated |-> listed[s],
                rounds |-> [k \in RoundNumbers |-> IF k \in Changed(s, read) THEN Fingerprint(s, read, k)
                                                   ELSE cursor[s].rounds[k]]]]

\* Nothing to render: the session is neither sent nor marked.
BuildNothing ==
  /\ pc = "build" /\ Built(cur, list) = {}
  /\ Done(cur)
  /\ UNCHANGED <<writerVars, collector, cursor, disk, backfill, listed, cur, pending, bounds>>

NothingChanged ==
  /\ pc = "build" /\ Built(cur, list) # {} /\ RoundsToSend(cur, list) = {}
  /\ Mark(cur, list)
  /\ Done(cur)
  /\ UNCHANGED <<writerVars, collector, disk, backfill, listed, cur, pending, bounds>>

BuildRounds ==
  /\ pc = "build" /\ RoundsToSend(cur, list) # {}
  /\ pending' = RoundsToSend(cur, list)
  /\ pc' = "send"
  /\ UNCHANGED <<writerVars, collector, cursor, disk, passVars, cur, list, bounds>>

Batch == {p \in pending : Cardinality({q \in pending : q <= p}) <= BatchSpans}
Receive == collector' = [collector EXCEPT ![cur] = @ \cup {Span(cur, list, p) : p \in Batch}]

SendBatch ==
  /\ pc = "send"
  /\ Receive
  /\ pending' = pending \ Batch
  /\ IF pending' = {}
     THEN Mark(cur, list) /\ Done(cur)
     ELSE UNCHANGED <<cursor, pc, todo, list>>
  /\ UNCHANGED <<writerVars, disk, backfill, listed, cur, bounds>>

Fails == failures < MaxFailures /\ failures' = failures + 1

\* mutant: a session whose sending failed is marked
SendFailsMarked ==
  /\ pc = "send" /\ Fails
  /\ Receive \/ UNCHANGED collector
  /\ pending' = {}
  /\ Mark(cur, list)
  /\ Done(cur)
  /\ UNCHANGED <<writerVars, disk, backfill, listed, cur, crashes>>

\* Both attempts of otlp.Send fail; the collector may have taken the batch.
SendFails ==
  /\ pc = "send" /\ Fails
  /\ Receive \/ UNCHANGED collector
  /\ pending' = {}
  /\ Done(cur)
  /\ UNCHANGED <<writerVars, cursor, disk, backfill, listed, cur, crashes>>

EndPass ==
  /\ pc = "record" /\ todo = {}
  /\ \/ disk' = cursor /\ UNCHANGED failures
     \/ Fails /\ UNCHANGED disk
  /\ pc' = "between" /\ backfill' = FALSE
  /\ UNCHANGED <<writerVars, collector, cursor, todo, listed, cur, list, pending, crashes>>

\* The process ends anywhere in a pass and the next one reads the cursor file.
Crash ==
  /\ crashes < MaxCrashes
  /\ crashes' = crashes + 1
  /\ cursor' = disk
  /\ pc' = "between" /\ backfill' = TRUE
  /\ todo' = {} /\ list' = <<>> /\ pending' = {}
  /\ UNCHANGED <<writerVars, collector, disk, listed, cur, failures>>

-----------------------------------------------------------------------------
Init ==
  /\ rows = [s \in Sessions |-> 0] /\ starts = [s \in Sessions |-> {}]
  /\ updated = [s \in Sessions |-> 0] /\ settled = [s \in Sessions |-> 0]
  /\ collector = [s \in Sessions |-> {}]
  /\ cursor = [s \in Sessions |-> Unknown] /\ disk = cursor
  /\ pc = "between" /\ backfill = TRUE
  /\ todo = {} /\ listed = updated
  /\ cur \in Sessions /\ list = <<>> /\ pending = {}
  /\ failures = 0 /\ crashes = 0

Write == \E s \in Sessions, start \in BOOLEAN : AppendRow(s, start)
Export ==
  \/ BeginPass \/ EndPass
  \/ \E s \in Sessions : Skip(s) \/ BeginRead(s)
  \/ ReadPage \/ BuildNothing \/ NothingChanged \/ BuildRounds
  \/ SendBatch \/ SendFails

Next == Write \/ (\E s \in Sessions : Settle(s)) \/ Export \/ Crash

\* The exporter runs and its ticker fires; time passes.
Fairness == WF_vars(Export) /\ \A s \in Sessions : WF_vars(Settle(s))

Spec == Init /\ [][Next]_vars /\ Fairness

-----------------------------------------------------------------------------
(* Properties *)

\* Every round the cursor remembers, in memory or on disk, is with the
\* collector whole: a failed batch, a failed save or a restart in the middle of
\* a pass never leaves a round marked that was not sent.
RememberedIsSent ==
  \A s \in Sessions : \A c \in {cursor[s], disk[s]}, k \in RoundNumbers :
    \A i \in DOMAIN c.rounds[k] : <<k, c.rounds[k][i]>> \in collector[s]

\* "A single UpdatedAt is enough: a session's content only moves when its newest
\* row does" (telemetry.go:60-61): of a session the cursor knows at its present
\* version, the collector has every row.
KnownIsWhole ==
  \A s \in Sessions : \A c \in {cursor[s], disk[s]} :
    updated[s] > 0 /\ c.updated = updated[s] => TrueSpans(s) \subseteq collector[s]

\* What the cursor knows, in memory or on disk, is with the collector: the rounds it
\* remembers, and of a session it has at its present version every row.
CursorTrue == RememberedIsSent /\ KnownIsWhole

\* "An export is a record of the session, so it pages back until the start"
\* (telemetry.go:341): of a session known at its present version the collector
\* holds nothing that the session does not.
KnownIsExact ==
  \A s \in Sessions :
    updated[s] > 0 /\ cursor[s].updated = updated[s] => collector[s] \subseteq TrueSpans(s)

\* Every row is exported in the end: once a session has stopped growing, some
\* later tick exports it, whatever failed or crashed before.
AllExported ==
  \A s \in Sessions :
    <>[](TrueSpans(s) \subseteq collector[s])
=============================================================================
