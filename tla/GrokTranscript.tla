--------------------------- MODULE GrokTranscript ---------------------------
(***************************************************************************)
(* One Grok conversation in the two logs the CLI keeps of it                *)
(* (internal/source/source_grok.go): chat_history.jsonl, one whole message  *)
(* a line, while the session runs, and updates.jsonl, the stream of small   *)
(* updates, once it has ended.  The conversation is what happened; both     *)
(* logs follow from it.                                                     *)
(***************************************************************************)
EXTENDS Transcript

\* ask, think, say, call, retitle, done, failed, hook, end: what may happen next
GrokMayHappen(n, open) ==
  {[kind |-> k, id |-> 0] : k \in {"ask", "think", "say", "hook", "end"}}
  \cup {[kind |-> "call", id |-> n]}
  \cup {[kind |-> k, id |-> c] : k \in {"retitle", "done", "failed"}, c \in open}

-----------------------------------------------------------------------------
(* updates.jsonl *)

\* grokRole: hooks and the accounting of a turn are nobody's words.
GrokRole(u) ==
  CASE u.kind = "ask" -> "user"
    [] u.kind \in {"hook", "end"} -> ""
    [] OTHER -> "assistant"

\* Where a new message begins: the speaker is another than that of the last
\* update that had one.
GrokBegins(log, i) ==
  LET before == {j \in 1..(i - 1) : GrokRole(log[j]) # ""}
  IN GrokRole(log[i]) # "" /\ (before = {} \/ GrokRole(log[Max(before)]) # GrokRole(log[i]))

GrokRunEnd(log, i) ==
  Min({j \in i + 1..Len(log) : GrokBegins(log, j)} \cup {Len(log) + 1}) - 1

\* grokGrouper.append: a call that is only given another title has no block.
GrokHasBlock(u) == GrokRole(u) # "" /\ u.kind # "retitle"

\* The rows of a run that are of a kind
GrokRow(log, i, IsIt(_)) == Ascending({n \in i..GrokRunEnd(log, i) : IsIt(log[n])}, Len(log))

\* grokGrouper.flush: the message that begins at row i
GrokFlush(log, i) ==
  LET calls == GrokRow(log, i, LAMBDA u : u.kind = "call")
      ends == GrokRow(log, i, LAMBDA u : u.kind \in {"done", "failed"})
  IN [Message(i, GrokRole(log[i])) EXCEPT
        !.text = GrokRow(log, i, LAMBDA u : u.kind \in {"ask", "say", "think"}) # <<>>,
        !.calls = calls,
        !.results = [n \in DOMAIN ends |->
           Answer(log[ends[n]].id, "tool", IF log[ends[n]].kind = "failed" THEN "error" ELSE "ok")]]

\* mutant: every update that is drawn begins a message
GrokIsUpdate(log, i) == GrokHasBlock(log[i])

\* grokGrouper: a run without a block is no message
GrokIsMessage(log, i) == GrokBegins(log, i) /\ GrokRow(log, i, GrokHasBlock) # <<>>

GrokMessages(log) == MessagesOf(log, LAMBDA i : GrokIsMessage(log, i), LAMBDA i : GrokFlush(log, i))

\* grokCountMessages groups as Messages does, so it cannot start inside a file
GrokCount(log) == Len(GrokMessages(log))

\* readFinal: usage and the stop reason are on the rows that end a turn.
GrokFinal(log) ==
  LET all == GrokMessages(log)
      spoken == {n \in DOMAIN all : all[n].role = "assistant"}
  IN [count |-> Len(all), last |-> IF spoken = {} THEN 0 ELSE all[Max(spoken)].row,
      usage |-> Cardinality({i \in 1..Len(log) : log[i].kind = "end"})]

-----------------------------------------------------------------------------
(* chat_history.jsonl *)

\* eachGrokHistoryMessage: a user row closes what came before it and is a
\* message of its own; everything else joins the message of its turn.  No row has
\* a time and no result an outcome.
GrokTurnBegins(log, i) ==
  /\ GrokHasBlock(log[i])
  /\ \/ log[i].kind = "ask"
     \/ LET before == {j \in 1..(i - 1) : GrokHasBlock(log[j])}
        IN before = {} \/ log[Max(before)].kind = "ask"

GrokTurn(log, i) ==
  LET m == GrokFlush(log, i)
  IN [m EXCEPT !.at = 0, !.results = [n \in DOMAIN m.results |-> [m.results[n] EXCEPT !.status = ""]]]

GrokHistory(log) ==
  MessagesOf(log, LAMBDA i : GrokTurnBegins(log, i),
    LAMBDA i : IF log[i].kind = "ask" THEN [Message(i, "user") EXCEPT !.text = TRUE, !.at = 0]
               ELSE GrokTurn(log, i))

\* finalFromHistory
GrokRunningFinal(log) ==
  LET all == GrokHistory(log)
      spoken == {n \in DOMAIN all : all[n].role = "assistant"}
  IN [count |-> Len(all), last |-> IF spoken = {} THEN 0 ELSE all[Max(spoken)].row]

\* Search reads updates row by row: a hit has its update's time.
GrokHits(log) == {i \in 1..Len(log) : log[i].kind \in {"ask", "say", "think", "done", "failed"}}
=============================================================================
