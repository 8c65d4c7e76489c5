------------------------- MODULE OpenClawTranscript -------------------------
(***************************************************************************)
(* One OpenClaw session: the rows of transcript_events, in the order of     *)
(* their seq, and the queries over them (internal/source/source_openclaw.go).*)
(***************************************************************************)
EXTENDS Transcript

ClawRow(type, role, text) ==
  [type |-> type, role |-> role, text |-> text, id |-> 0, error |-> FALSE, stop |-> ""]

ClawResult(c, error) == [ClawRow("message", "toolResult", "words") EXCEPT !.id = c, !.error = error]
ClawResults(open) == {ClawResult(c, e) : c \in open, e \in BOOLEAN}

ClawStopReasons == {"stop", "error", ""}

ClawMayWrite(n, open) ==
  {ClawRow("session", "", ""), ClawRow("model_change", "", "words"), ClawRow("message", "user", "words"),
   ClawRow("message", "user", "plumbing")}
  \cup {[ClawRow("message", "assistant", "words") EXCEPT !.stop = s] : s \in ClawStopReasons}
  \cup {[ClawRow("message", "assistant", "") EXCEPT !.id = n, !.stop = "toolUse"]}
  \cup ClawResults(open)

\* Messages
ClawParts(log, i) ==
  LET r == log[i]
      m == [Message(i, r.role) EXCEPT !.usage = IF r.role = "assistant" THEN 1 ELSE 0]
  IN IF r.role = "toolResult"
     THEN [m EXCEPT !.results = <<Answer(r.id, "tool", IF r.error THEN "error" ELSE "ok")>>]
     ELSE IF r.id # 0 THEN [m EXCEPT !.calls = <<r.id>>]
     ELSE [m EXCEPT !.text = TRUE]

ClawMessages(log) == MessagesOf(log, LAMBDA i : log[i].type = "message", LAMBDA i : ClawParts(log, i))

\* readListOne: the message_count of its query
ClawCount(log) == Cardinality({i \in 1..Len(log) : log[i].type = "message"})

\* mutant: every closing message ends the session
ClawStopsOnTools(r) == r.role = "assistant" /\ r.stop # ""

\* Final: a turn that ended to run tools is not the session's result.
ClawStops(r) == r.role = "assistant" /\ r.stop \notin {"", "toolUse"}

\* Final: the last message that stopped, if it is among the last of the model's;
\* its usage is that message's alone.
ClawFinal(log, tail) ==
  LET spoken == {i \in 1..Len(log) : log[i].role = "assistant"}
      recent == {i \in spoken : Cardinality({j \in spoken : j > i}) < tail}
      last == Max({i \in recent : ClawStops(log[i])} \cup {0})
  IN [count |-> ClawCount(log), last |-> last, usage |-> IF last = 0 THEN 0 ELSE 1]

\* Usage: every message's, added up in the database
ClawUsage(log) == Cardinality({i \in 1..Len(log) : log[i].type = "message" /\ log[i].role = "assistant"})

ClawHits(log) == {i \in 1..Len(log) : log[i].type = "message" /\ log[i].text # ""}

\* readListOne: the title is the first user message's, whatever it says.
ClawTitle(log) ==
  LET asks == {i \in 1..Len(log) : log[i].type = "message" /\ log[i].role = "user"}
      first == Min(asks)
  IN IF asks = {} THEN 0 ELSE IF log[first].text = "words" THEN first ELSE 0
=============================================================================
