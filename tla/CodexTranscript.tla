--------------------------- MODULE CodexTranscript ---------------------------
(***************************************************************************)
(* One Codex rollout and its readers (internal/source/source_codex.go): the *)
(* walker that folds rows into messages, the count, the final result with   *)
(* its usage by turn, and search.                                           *)
(***************************************************************************)
EXTENDS Transcript

CodexRow(type, sub, text) ==
  [type |-> type, sub |-> sub, text |-> text, id |-> 0, out |-> "", exit |-> -1]

CodexCalls == {"function_call", "apply_patch", "local_shell_call"}

\* The outputs of open calls: how one is laid out, and the exit code it tells, -1
\* for none.  A header may say that the script failed; "rejected" is an output, in
\* plain text or behind a header, that begins as that of a patch which did not land.
CodexOutput(c, out, exit) ==
  [CodexRow("response_item", "function_call_output", "words") EXCEPT !.id = c, !.out = out, !.exit = exit]
CodexEnds ==
  {<<"plain", -1>>, <<"header", 0>>, <<"header", 1>>, <<"failed", -1>>, <<"legacy", 0>>, <<"legacy", 1>>,
   <<"rejected", -1>>, <<"rejected", 0>>}
CodexOutputs(open) == {CodexOutput(c, e[1], e[2]) : c \in open, e \in CodexEnds}

\* What Codex may write as row n.  A turn begins with turn_context, which names
\* it; its usage is one record at its end, or a running total in the old style.
CodexMayWrite(n, open, turns, due, totals) ==
  {CodexRow("session_meta", "", ""), [CodexRow("turn_context", "", "") EXCEPT !.id = turns + 1],
   CodexRow("event_msg", "turn_aborted", "")}
  \cup {CodexRow("response_item", "user", t) : t \in {"words", "plumbing"}}
  \cup {CodexRow("response_item", s, "words") : s \in {"developer", "assistant", "reasoning"}}
  \cup {CodexRow("response_item", "reasoning", ""), CodexRow("response_item", "web_search_call", "")}
  \cup {[CodexRow("response_item", s, "") EXCEPT !.id = n] : s \in CodexCalls}
  \cup CodexOutputs(open)
  \cup (IF due /\ ~totals THEN {CodexRow("token_usage_record", "", "")} ELSE {})
  \cup (IF due /\ totals THEN {[CodexRow("event_msg", "token_count", "") EXCEPT !.id = turns]} ELSE {})

\* codexWalker.names: the calls of earlier rows, and those that are patches
CodexNamed(log, i, id) == \E j \in 1..(i - 1) : log[j].id = id /\ log[j].sub \in CodexCalls
CodexPatches(log, i, id) == \E j \in 1..(i - 1) : log[j].id = id /\ log[j].sub = "apply_patch"

\* codexOutput with codexLegacyOutput and codexStripHeader, and codexPatchRejected:
\* the exit code is read from a header or from the old JSON document, a header may
\* say itself that the script failed, and so does the text of a refused patch.
CodexVerdict(log, i) ==
  LET r == log[i]
  IN IF \/ r.out \in {"header", "legacy", "rejected"} /\ r.exit > 0
        \/ r.out = "failed"
        \/ r.out = "rejected" /\ CodexPatches(log, i, r.id)
     THEN "error" ELSE "ok"

\* mutant: thinking that is encrypted only is a message as well
CodexCountsLoosely(r) ==
  \/ r.type = "event_msg" /\ r.sub = "turn_aborted"
  \/ r.type = "response_item" /\ r.sub # "developer"

\* codexProbe.counts: the rows that yield a message
CodexCounts(r) ==
  \/ r.type = "event_msg" /\ r.sub = "turn_aborted"
  \/ /\ r.type = "response_item" /\ r.sub # "developer"
     /\ r.sub = "reasoning" => r.text # ""

\* codexCountMessages; a compressed rollout cannot be entered at an offset and
\* is counted from its beginning.
CodexCount(log, from) == Cardinality({i \in from + 1..Len(log) : CodexCounts(log[i])})

\* codexWalker.message says nothing of the other rows.
CodexShown(r) ==
  CASE r.type = "event_msg" -> r.sub = "turn_aborted"
    [] r.type = "response_item" ->
         CASE r.sub = "developer" -> FALSE
           [] r.sub = "reasoning" -> r.text # ""
           [] OTHER -> TRUE
    [] OTHER -> FALSE

\* codexWalker.message
CodexMessage(log, i) ==
  LET r == log[i] IN
  IF r.type = "event_msg" THEN [Message(i, "system") EXCEPT !.event = TRUE]
  ELSE
  CASE r.sub = "user" -> [Message(i, "user") EXCEPT !.text = TRUE, !.aside = r.text = "plumbing"]
    [] r.sub = "web_search_call" ->
         [Message(i, "assistant") EXCEPT !.calls = <<0>>, !.results = <<Answer(0, "web_search", "ok")>>]
    [] r.sub \in CodexCalls -> [Message(i, "assistant") EXCEPT !.calls = <<r.id>>]
    [] r.sub = "function_call_output" ->
         [Message(i, "tool") EXCEPT !.results =
            <<Answer(r.id, IF CodexNamed(log, i, r.id) THEN "tool" ELSE "", CodexVerdict(log, i))>>]
    [] OTHER -> [Message(i, "assistant") EXCEPT !.text = TRUE]

CodexSpeaks(r) == CodexShown(r) /\ r.type = "response_item" /\ r.sub \notin {"user", "function_call_output"}

\* addUsage: a token record belongs to the assistant message before it, if the
\* scan, which ends at row stop, still comes by.
CodexUsageOf(log, i, stop) ==
  IF ~CodexSpeaks(log[i]) THEN 0
  ELSE Cardinality({j \in i + 1..stop :
         /\ log[j].type = "token_usage_record"
         /\ \A k \in i + 1..j : ~CodexSpeaks(log[k])})

CodexMessages(log) ==
  MessagesOf(log, LAMBDA i : CodexShown(log[i]),
    LAMBDA i : [CodexMessage(log, i) EXCEPT !.usage = CodexUsageOf(log, i, Len(log))])

\* Messages: one page.  The sink ends the scan where the page is full.
CodexPage(q, log) ==
  LET bare == MessagesOf(log, LAMBDA i : CodexShown(log[i]), LAMBDA i : CodexMessage(log, i))
      s == Scan(q, bare)
      stop == IF s.open THEN Len(log) ELSE s.end
      page == SinkPage(q, s)
  IN [n \in 1..Len(page) |-> [page[n] EXCEPT !.usage = CodexUsageOf(log, page[n].row, stop)]]

-----------------------------------------------------------------------------
(* readFinal *)

\* The turn a row is in: the last turn_context before it, 0 without one
CodexTurn(log, i) ==
  LET turns == {j \in 1..i : log[j].type = "turn_context"}
  IN IF turns = {} THEN 0 ELSE log[Max(turns)].id

\* turnUsageKey: the turn, or the row's own time where the rollout has no turns
CodexUsageKey(log, i) ==
  IF CodexTurn(log, i) # 0 THEN <<"turn", CodexTurn(log, i)>> ELSE <<"ts", i>>

\* Usage is counted once per turn, and not for the turns a fork copied from its
\* parent; a rollout without records has its last running total.
CodexUsage(log, copied) ==
  LET records == {i \in 1..Len(log) : log[i].type = "token_usage_record"}
      own == {CodexUsageKey(log, i) : i \in records} \ {<<"turn", t>> : t \in copied}
      totals == {i \in 1..Len(log) : log[i].sub = "token_count"}
  IN IF own = {} /\ totals # {} THEN log[Max(totals)].id ELSE Cardinality(own)

CodexFinal(log, copied) ==
  LET counted == {i \in 1..Len(log) : CodexCounts(log[i])}
      replies == {i \in counted : log[i].sub = "assistant"}
  IN [count |-> Cardinality(counted), last |-> Max(replies \cup {0}), usage |-> CodexUsage(log, copied)]

\* SearchFile: every row with a text, the ones nobody is shown included
CodexHits(log) == {i \in 1..Len(log) : log[i].text # ""}

\* codexUserTitle
CodexTitle(log, head) == FirstTitle(log, head, LAMBDA r : r.sub = "user")
=============================================================================
