---------------------------- MODULE DshTranscript ----------------------------
(***************************************************************************)
(* One dsh session (internal/source/source_dsh.go): rows with their own     *)
(* ids, some of which are written again or replaced for the model's eyes    *)
(* only.                                                                    *)
(***************************************************************************)
EXTENDS Transcript

DshRow(type, id, text) ==
  [type |-> type, id |-> id, text |-> text, call |-> 0, error |-> FALSE, replaces |-> FALSE, injected |-> FALSE]

\* The results of open calls, and an event that comes again or that a compaction
\* replaces
DshResult(n, c, error) == [DshRow("tool/result", n, "words") EXCEPT !.call = c, !.error = error]
DshResults(n, open) == {DshResult(n, c, e) : c \in open, e \in BOOLEAN}
DshReplaced(r) == [r EXCEPT !.replaces = TRUE]
DshAgain(log) == {log[i] : i \in 2..Len(log)} \cup {DshReplaced(log[i]) : i \in 2..Len(log)}

\* What the harness may write as row n: the header first, then events.
DshMayWrite(log, open) ==
  LET n == Len(log) + 1 IN
  IF log = <<>> THEN {DshRow("session", 1, "")}
  ELSE {DshRow("user/message", n, "words"), DshRow("user/message", n, ""),
        [DshRow("user/message", n, "words") EXCEPT !.injected = TRUE],
        DshRow("assistant/message", n, "words"),
        [DshRow("assistant/message", n, "") EXCEPT !.call = n],
        DshRow("turn/end", n, "")}
       \cup DshResults(n, open) \cup DshAgain(log)

\* dshMessage: the rows that are drawn and have content
DshHasMessage(r) ==
  \/ r.type \in {"user/message", "assistant/message"} /\ (r.text # "" \/ r.call # 0)
  \/ r.type = "tool/result"

\* dshRecord: neither replacements nor a second row of an id that was drawn
DshShown(log, i) ==
  /\ DshHasMessage(log[i]) /\ ~log[i].replaces
  /\ \A j \in 1..(i - 1) : DshHasMessage(log[j]) /\ ~log[j].replaces => log[j].id # log[i].id

DshRole(r) ==
  CASE r.type = "user/message" -> "user"
    [] r.type = "assistant/message" -> "assistant"
    [] OTHER -> "tool"

\* A row's time is in milliseconds, here halves of a second.  dshTimeISO cuts a
\* message's to the second; hitTimestamp leaves a hit's as it is.
DshTime(i) == 2 * i + 1
DshTimeISO(time) == 2 * (time \div 2)
DshHitTime(i) == DshTime(i)

\* dshMessage; a result is that of "tool", whatever its call was named.
DshMessage(log, i) ==
  LET r == log[i]
      m == [Message(i, DshRole(r)) EXCEPT !.at = DshTimeISO(DshTime(i))]
  IN [m EXCEPT !.text = r.type # "tool/result" /\ r.text # "", !.aside = r.injected,
        !.usage = IF r.type = "assistant/message" THEN 1 ELSE 0,
        !.calls = IF r.type = "assistant/message" /\ r.call # 0 THEN <<r.call>> ELSE <<>>,
        !.results = IF r.type = "tool/result"
                    THEN <<Answer(r.call, "any", IF r.error THEN "error" ELSE "ok")>> ELSE <<>>]

DshMessages(log) == MessagesOf(log, LAMBDA i : DshShown(log, i), LAMBDA i : DshMessage(log, i))

\* dshCountMessages: what the user and the model said
DshCount(log) == Cardinality({i \in 1..Len(log) : DshShown(log, i) /\ DshRole(log[i]) # "tool"})

\* readFinal
DshFinal(log) ==
  LET all == DshMessages(log)
      spoken == {n \in DOMAIN all : all[n].role = "assistant"}
  IN [count |-> Cardinality({n \in DOMAIN all : all[n].role # "tool"}),
      last |-> IF spoken = {} THEN 0 ELSE all[Max(spoken)].row,
      usage |-> Cardinality(spoken)]

\* Search with dshSearchRow: the rows by their type, not by their id
DshHits(log) ==
  {i \in 1..Len(log) : /\ log[i].type \in {"user/message", "assistant/message", "tool/result"}
                       /\ ~log[i].replaces /\ log[i].text # ""}

\* mutant: what the harness put in the user's place is a title as well
DshTitleOfAny(log) == FirstTitle(log, Len(log), LAMBDA r : r.type = "user/message" /\ ~r.replaces)

\* buildRecord: the first row the person typed
DshTitle(log) == FirstTitle(log, Len(log), LAMBDA r : r.type = "user/message" /\ ~r.injected /\ ~r.replaces)
=============================================================================
