----------------------------- MODULE PiTranscript -----------------------------
(***************************************************************************)
(* One Pi transcript and its readers (internal/source/source_pi.go).  A     *)
(* message has a time of its own, and its row a later one: it is written    *)
(* when the message is complete.                                            *)
(***************************************************************************)
EXTENDS Transcript

PiRow(type, role, text) == [type |-> type, role |-> role, text |-> text, id |-> 0, error |-> FALSE]

PiResult(c, error) == [PiRow("message", "toolResult", "words") EXCEPT !.id = c, !.error = error]
PiResults(open) == {PiResult(c, e) : c \in open, e \in BOOLEAN}

PiMayWrite(n, open) ==
  {PiRow("session", "", ""), PiRow("model_change", "", "words"),
   PiRow("message", "assistant", "words"), PiRow("message", "user", "words"),
   PiRow("message", "user", "plumbing"), PiRow("message", "bashExecution", "words"),
   [PiRow("message", "assistant", "") EXCEPT !.id = n]}
  \cup PiResults(open)

\* piMessageTime and the row's own time
PiTime(log, i) == i
PiRowTime(log, i) == IF log[i].role = "assistant" THEN i + 1 ELSE i

\* Messages
PiParts(log, i) ==
  LET r == log[i]
      m == [Message(i, r.role) EXCEPT !.at = PiTime(log, i)]
  IN IF r.role = "toolResult"
     THEN [m EXCEPT !.results = <<Answer(r.id, "tool", IF r.error THEN "error" ELSE "ok")>>]
     ELSE IF r.id # 0 THEN [m EXCEPT !.calls = <<r.id>>]
     ELSE [m EXCEPT !.text = TRUE]

PiMessages(log) ==
  MessagesOf(log, LAMBDA i : log[i].type = "message",
    LAMBDA i : [PiParts(log, i) EXCEPT !.usage = IF log[i].role = "assistant" THEN 1 ELSE 0])

\* piCountMessages
PiCount(log, from) == Cardinality({i \in from + 1..Len(log) : log[i].type = "message"})

\* readFinal
PiFinal(log) ==
  LET counted == {i \in 1..Len(log) : log[i].type = "message"}
      replies == {i \in counted : log[i].role = "assistant"}
  IN [count |-> Cardinality(counted), last |-> Max(replies \cup {0}), usage |-> Cardinality(replies)]

\* mutant: a hit with the row's time
PiHitRowTime(log, i) == PiRowTime(log, i)

\* Search: each hit with the time Messages gives the message it is in
PiHits(log) == {i \in 1..Len(log) : log[i].text # ""}
PiHitTime(log, i) == PiTime(log, i)

\* piUserTitle
PiTitle(log, head) == FirstTitle(log, head, LAMBDA r : r.type = "message" /\ r.role = "user")
=============================================================================
