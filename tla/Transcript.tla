----------------------------- MODULE Transcript -----------------------------
(***************************************************************************)
(* What the readers of one transcript share: the message every source      *)
(* folds its rows into (blocks.go), the sink that keeps one page of them   *)
(* (messageSink of internal/source/source.go), the outcome of a tool call  *)
(* and the first real prompt as a title.                                   *)
(*                                                                         *)
(* A message is known by the row it begins at, which is also its time; a   *)
(* time of 0 is none.  Its blocks are its text, the calls it makes (their  *)
(* ids) and the results it carries.                                        *)
(***************************************************************************)
EXTENDS Integers, Sequences, FiniteSetsExt, SequencesExt

Message(row, role) ==
  [row |-> row, role |-> role, at |-> row, text |-> FALSE, aside |-> FALSE,
   event |-> FALSE, calls |-> <<>>, results |-> <<>>, usage |-> 0]

\* One toolResult block: the call it answers, the tool's name as the source
\* learned it ("tool" is that of the call, "any" a word for every tool, "" none),
\* and how the call ended ("" where the source does not say).
Answer(call, name, status) == [call |-> call, name |-> name, status |-> status]

\* ToolOutcome.Apply: an exit code speaks where no status does; -1 is no code.
OutcomeStatus(status, exit) == IF status = "" /\ exit > 0 THEN "error" ELSE status

\* The members of S from 1 to n, as a scan comes by them
MetUpTo(S, n) ==
  LET met[i \in 0..n] ==
        IF i = 0 THEN <<>> ELSE IF i \in S THEN Append(met[i - 1], i) ELSE met[i - 1]
  IN met
Ascending(S, n) == MetUpTo(S, n)[n]

\* The messages a source makes of the rows that have one, in the log's order.
MessagesOf(log, HasOne(_), Make(_)) ==
  LET rows == Ascending({i \in 1..Len(log) : HasOne(i)}, Len(log))
  IN [n \in DOMAIN rows |-> Make(rows[n])]

\* firstUserTitle with TitleFromUserText: the first row that is the user's and
\* whose text is not plumbing, within the head of the file; 0 is none.
FirstTitle(log, head, IsUsers(_)) ==
  LET real == {i \in 1..Len(log) : i <= head /\ IsUsers(log[i]) /\ log[i].text = "words"}
  IN IF real = {} THEN 0 ELSE Min(real)

-----------------------------------------------------------------------------
(* messageSink: one page of a transcript, kept while it is scanned          *)

\* limit, offset, from which end, a role or "", an anchor in time or 0
Query(limit, offset, fromEnd, role, at) ==
  [limit |-> limit, offset |-> offset, fromEnd |-> fromEnd, role |-> role, at |-> at]

NewSink == [items |-> <<>>, start |-> 0, skipped |-> 0, open |-> TRUE, end |-> 0]

Capacity(q) == q.limit + (IF q.fromEnd /\ q.at = 0 THEN q.offset ELSE 0)

\* The filters of add: neither ends the scan.
Passes(q, m) ==
  /\ q.role \in {"", m.role}
  /\ q.at # 0 /\ m.at # 0 => IF q.fromEnd THEN m.at <= q.at ELSE m.at >= q.at

\* add, for a page counted from the oldest message
AddOldest(q, s, m) ==
  IF q.at = 0 /\ s.skipped < q.offset THEN [s EXCEPT !.skipped = @ + 1]
  ELSE [s EXCEPT !.items = Append(@, m), !.open = Len(s.items) + 1 < q.limit]

\* mutant: the ring turns at the limit, not at its capacity
AddNewestAtLimit(q, s, m) ==
  IF Len(s.items) < q.limit THEN [s EXCEPT !.items = Append(@, m)]
  ELSE [s EXCEPT !.items[s.start + 1] = m, !.start = (@ + 1) % q.limit]

\* add, for a page counted from the newest: a ring of limit and offset
AddNewest(q, s, m) ==
  IF Len(s.items) < Capacity(q) THEN [s EXCEPT !.items = Append(@, m)]
  ELSE [s EXCEPT !.items[s.start + 1] = m, !.start = (@ + 1) % Capacity(q)]

\* add; a closed sink has ended the scan at the row "end".
Add(q, s, m) ==
  IF ~s.open THEN s
  ELSE IF q.limit = 0 THEN [s EXCEPT !.open = FALSE, !.end = m.row]
  ELSE IF ~Passes(q, m) THEN s
  ELSE IF q.fromEnd THEN AddNewest(q, s, m)
  ELSE [AddOldest(q, s, m) EXCEPT !.end = m.row]

\* result: the ring in order, and of it the page before the offset
SinkPage(q, s) ==
  LET ordered == SubSeq(s.items, s.start + 1, Len(s.items)) \o SubSeq(s.items, 1, s.start)
      end == Len(ordered) - q.offset
  IN IF q.fromEnd /\ q.at = 0 /\ q.offset > 0
     THEN SubSeq(ordered, Max({1, end - q.limit + 1}), end)
     ELSE ordered

SinkUpTo(q, messages) ==
  LET sink[n \in 0..Len(messages)] ==
        IF n = 0 THEN NewSink ELSE Add(q, sink[n - 1], messages[n])
  IN sink
Scan(q, messages) == SinkUpTo(q, messages)[Len(messages)]
PageOf(q, messages) == SinkPage(q, Scan(q, messages))

\* What a page is: of the messages that pass, so many from one end.
Window(q, messages) ==
  LET places == Ascending({i \in DOMAIN messages : Passes(q, messages[i])}, Len(messages))
      passing == [n \in DOMAIN places |-> messages[places[n]]]
      skip == IF q.at = 0 THEN q.offset ELSE 0
  IN IF q.fromEnd
     THEN SubSeq(passing, Max({1, Len(passing) - skip - q.limit + 1}), Len(passing) - skip)
     ELSE SubSeq(passing, skip + 1, Min({Len(passing), skip + q.limit}))
=============================================================================
