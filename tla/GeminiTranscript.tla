--------------------------- MODULE GeminiTranscript ---------------------------
(***************************************************************************)
(* One Gemini CLI session, which may go on in a second file                 *)
(* (internal/source/source_gemini.go).  A row "continue" is where it does:  *)
(* the rows after it are the next file's.  A call is answered in place, by  *)
(* a status on its own row, or by a user row that comes later.              *)
(***************************************************************************)
EXTENDS Transcript

GeminiRow(type, text) ==
  [type |-> type, text |-> text, id |-> 0, status |-> "", output |-> FALSE, patched |-> FALSE]

\* A message that comes inside a $set patch: the message has a time, its row none.
GeminiPatched(type) == [GeminiRow(type, "words") EXCEPT !.patched = TRUE]

\* A call as its row has it, and its response on a user row.  The older format
\* leaves a call without a status and answers on a user row; the newer writes the
\* status, with the output or with the user row's copy of it still to come.
GeminiCall(n, status, output) ==
  [GeminiRow("gemini", "") EXCEPT !.id = n, !.status = status, !.output = output]
GeminiEnded(n) == {GeminiCall(n, s, o) : s \in {"success", "error", "cancelled"}, o \in BOOLEAN}
GeminiBegun(n) == {GeminiCall(n, s, FALSE) : s \in {"", "executing"}}
GeminiResult(c, status) == [GeminiRow("user", "") EXCEPT !.id = c, !.status = status]
GeminiResults(open) == {GeminiResult(c, s) : c \in open, s \in {"ok", "error"}}

\* What Gemini CLI may write as row n
GeminiMayWrite(n, open, continued) ==
  {GeminiRow("user", t) : t \in {"words", "plumbing"}}
  \cup {GeminiRow("gemini", "words"), GeminiRow("info", "words"), GeminiRow("$set", "")}
  \cup {GeminiPatched("user"), GeminiPatched("gemini")}
  \cup GeminiEnded(n) \cup GeminiBegun(n) \cup GeminiResults(open)
  \cup (IF continued THEN {} ELSE {GeminiRow("continue", "")})

\* eachGeminiEntryFrom: message rows, alone or inside a $set patch
GeminiEntry(r) == r.type \in {"user", "gemini"}

\* mutant: an answer in place is forgotten when the user row brings its copy
NeverAnswered(log, i, id) == FALSE

\* geminiFolder.answered and .statuses: what earlier rows said of a call
GeminiAnswered(log, i, id) ==
  \E j \in 1..(i - 1) : log[j].type = "gemini" /\ log[j].id = id /\ log[j].output

GeminiStatusOf(log, i, id) ==
  LET said == {j \in 1..(i - 1) : /\ log[j].type = "gemini" /\ log[j].id = id /\ ~log[j].output
                                  /\ log[j].status \notin {"", "executing"}}
  IN IF said = {} THEN "" ELSE log[Max(said)].status

\* geminiFolder.result: the entry's status, or the response's own error
GeminiVerdict(status, response) ==
  CASE status = "success" -> "ok"
    [] status = "error" -> "error"
    [] status = "cancelled" -> "interrupted"
    [] OTHER -> response

\* geminiFolder.parts
GeminiParts(log, i) ==
  LET r == log[i]
      m == Message(i, IF r.type = "gemini" THEN "assistant" ELSE "user")
  IN IF r.id = 0 THEN [m EXCEPT !.text = TRUE]
     ELSE IF r.type = "gemini"
     THEN [m EXCEPT !.calls = <<r.id>>,
             !.results = IF r.output THEN <<Answer(r.id, "tool", GeminiVerdict(r.status, "ok"))>> ELSE <<>>]
     ELSE [m EXCEPT !.results =
             IF GeminiAnswered(log, i, r.id) THEN <<>>
             ELSE <<Answer(r.id, "tool", GeminiVerdict(GeminiStatusOf(log, i, r.id), r.status))>>]

\* Messages: the files of the session one after the other
GeminiMessages(log) ==
  MessagesOf(log, LAMBDA i : GeminiEntry(log[i]),
    LAMBDA i : [GeminiParts(log, i) EXCEPT !.usage = IF log[i].type = "gemini" THEN 1 ELSE 0])

\* geminiCountMessages, of one file from a line boundary on
GeminiCount(log, from, to) == Cardinality({i \in from + 1..to : GeminiEntry(log[i])})

\* Where each of the session's files ends
GeminiEnds(log) == {i \in 1..Len(log) : log[i].type = "continue"} \cup {Len(log)}
GeminiFileCount(log, end) == GeminiCount(log, Max({e \in GeminiEnds(log) : e < end} \cup {0}), end)

\* mergeGeminiRecord: the count of the first file, and those of the others as
\* far as the background count has them; -1 is none.
GeminiListCount(log, counted) ==
  IF Min(GeminiEnds(log)) \notin counted THEN -1
  ELSE LET sum[n \in 0..Len(log)] ==
             IF n = 0 THEN 0 ELSE sum[n - 1] + (IF n \in counted THEN GeminiFileCount(log, n) ELSE 0)
       IN sum[Len(log)]

\* readFinal, over all files
GeminiFinal(log) ==
  LET replies == {i \in 1..Len(log) : log[i].type = "gemini"}
  IN [count |-> Cardinality({i \in 1..Len(log) : GeminiEntry(log[i])}),
      last |-> Max(replies \cup {0}), usage |-> Cardinality(replies)]

\* Search: SearchFile over each of the files, which stamps a hit by its row
GeminiHits(log) == {i \in 1..Len(log) : log[i].text # ""}
GeminiHitTime(log, i) == IF log[i].patched THEN 0 ELSE i

\* geminiUserTitle, of the first file that has one: the rows that are the user's
\* themselves, not those of a patch
GeminiTitle(log, head) == FirstTitle(log, head, LAMBDA r : r.type = "user" /\ r.id = 0 /\ ~r.patched)
=============================================================================
