--------------------------- MODULE ClaudeTranscript ---------------------------
(***************************************************************************)
(* One Claude Code transcript and its four readers                          *)
(* (internal/source/source_claude.go): the messages, the final result, the  *)
(* list's count and search.  "sub" says that the transcript is a            *)
(* subagent's, in which every row is marked isSidechain.                    *)
(***************************************************************************)
EXTENDS Transcript

ClaudeRow(type, sub, text) ==
  [type |-> type, sub |-> sub, text |-> text, side |-> FALSE, id |-> 0, status |-> ""]

\* The results of open calls, and what the program notes.  A stop hook has run
\* without an error, with errors that say something, or with blank ones.
ClaudeResult(c, status) == [ClaudeRow("user", "", "") EXCEPT !.id = c, !.status = status]
ClaudeResults(open) == {ClaudeResult(c, s) : c \in open, s \in {"ok", "error", "interrupted"}}
ClaudeNotes ==
  {ClaudeRow("system", "compact_boundary", "words"), ClaudeRow("system", "stop_hook_summary", "words"),
   ClaudeRow("system", "stop_hook_summary", "blank"), ClaudeRow("system", "stop_hook_summary", ""),
   ClaudeRow("system", "turn_duration", ""),
   ClaudeRow("attachment", "prompt", "words"), ClaudeRow("attachment", "prompt", ""),
   ClaudeRow("attachment", "task-notification", "words"), ClaudeRow("attachment", "hook", "words"),
   ClaudeRow("cost-state", "", "")}

\* What Claude Code may write as row n; open are the calls without a result.
ClaudeMayWrite(n, open, sub) ==
  LET thread ==
        {ClaudeRow("user", "", t) : t \in {"words", "plumbing", "notice"}}
        \cup {ClaudeRow("assistant", "", "words"), [ClaudeRow("assistant", "", "") EXCEPT !.id = n]}
        \cup ClaudeResults(open)
  IN {[r EXCEPT !.side = sub] : r \in thread \cup ClaudeNotes}
     \cup (IF sub THEN {} ELSE {[ClaudeRow("assistant", "", "words") EXCEPT !.side = TRUE]})

\* claudeSystemEvent: a compaction, or a stop hook whose errors say something
ClaudeEvent(r) ==
  \/ r.sub = "compact_boundary"
  \/ r.sub = "stop_hook_summary" /\ r.text = "words"

\* claudeProbe.counts asks of a stop hook only that it has errors; those that say
\* nothing are not drawn.
ClaudeHookFailed(r) == r.sub = "stop_hook_summary" /\ r.text # ""
ClaudeBlankHook(r, sub) ==
  (r.side => sub) /\ r.type = "system" /\ r.sub = "stop_hook_summary" /\ r.text \notin {"", "words"}

ClaudeQueued(r) == r.sub = "prompt"

\* mutant: the count takes every system row
ClaudeCountsLoosely(r, sub) ==
  /\ r.side => sub
  /\ \/ r.type \in {"user", "assistant", "system"}
     \/ r.type = "attachment" /\ ClaudeQueued(r) /\ r.text # ""

\* claudeProbe.counts, on the few fields every whole-file scan decodes
ClaudeCounts(r, sub) ==
  /\ r.side => sub
  /\ \/ r.type \in {"user", "assistant"}
     \/ r.type = "system" /\ (r.sub = "compact_boundary" \/ ClaudeHookFailed(r))
     \/ r.type = "attachment" /\ ClaudeQueued(r) /\ r.text # ""

\* claudeCountMessages, from a line boundary on
ClaudeCount(log, from, sub) ==
  Cardinality({i \in from + 1..Len(log) : ClaudeCounts(log[i], sub)})

\* claudeRow.names: calls of the rows that were folded before row i
ClaudeNamed(log, i, id, sub) ==
  \E j \in 1..(i - 1) : log[j].type = "assistant" /\ log[j].id = id /\ (log[j].side => sub)

\* claudeRow.parts, textOrEvent and toolResult: the notice of an interruption
\* is an event, and the verdict of a result is the row's own.
ClaudeParts(log, i, sub) ==
  LET r == log[i]
      m == Message(i, r.type)
  IN IF r.id = 0 THEN [m EXCEPT !.text = r.text \in {"words", "plumbing"}, !.event = r.text = "notice"]
     ELSE IF r.type = "assistant" THEN [m EXCEPT !.calls = <<r.id>>]
     ELSE [m EXCEPT !.results =
             <<Answer(r.id, IF ClaudeNamed(log, i, r.id, sub) THEN "tool" ELSE "", r.status)>>]

\* The row rule of Messages, and what it makes of the row.
ClaudeShown(r, sub) ==
  /\ r.side => sub
  /\ CASE r.type = "system" -> ClaudeEvent(r)
       [] r.type = "attachment" -> ClaudeQueued(r) /\ r.text # ""
       [] OTHER -> r.type \in {"user", "assistant"}

ClaudeMessages(log, sub) ==
  MessagesOf(log, LAMBDA i : ClaudeShown(log[i], sub),
    LAMBDA i :
      CASE log[i].type = "system" -> [Message(i, "system") EXCEPT !.event = TRUE]
        [] log[i].type = "attachment" -> [Message(i, "user") EXCEPT !.text = TRUE, !.aside = TRUE]
        [] OTHER -> [ClaudeParts(log, i, sub) EXCEPT !.usage = IF log[i].type = "assistant" THEN 1 ELSE 0])

\* readFinal: one pass that counts, adds up the usage of the assistant rows and
\* keeps the last of them; a cost-state row brings the session's own cost.
ClaudeFinal(log, sub) ==
  LET counted == {i \in 1..Len(log) : ClaudeCounts(log[i], sub)}
      replies == {i \in counted : log[i].type = "assistant"}
  IN [count |-> Cardinality(counted),
      last |-> Max(replies \cup {0}),
      usage |-> Cardinality(replies),
      cost |-> \E i \in 1..Len(log) : log[i].type = "cost-state"]

\* claudeSearchable and claudeRowSearchable: where a text can be found
ClaudeHits(log, sub) ==
  {i \in 1..Len(log) :
     /\ log[i].text # "" /\ (log[i].side => sub)
     /\ CASE log[i].type = "system" -> ClaudeEvent(log[i])
          [] log[i].type = "attachment" -> ClaudeQueued(log[i])
          [] OTHER -> log[i].type \in {"user", "assistant"}}

\* claudeUserTitle, within the first claudeHeadLines rows
ClaudeTitle(log, head) == FirstTitle(log, head, LAMBDA r : r.type = "user" /\ r.id = 0)
=============================================================================
