----------------------------- MODULE Transcripts -----------------------------
(***************************************************************************)
(* One transcript of one source, as its CLI writes it row by row, and what  *)
(* the readers of that source say of it: the pages of messages, the count   *)
(* of the list, the final result and the hits of search.  They are separate *)
(* passes over the same rows (some over other fields, some in the           *)
(* database), and a reader of the answers puts them side by side.           *)
(***************************************************************************)
EXTENDS ClaudeTranscript, CodexTranscript, GeminiTranscript, PiTranscript, GrokTranscript,
        AntigravityTranscript, DshTranscript, OpenClawTranscript

CONSTANTS
  MaxRows,   \* rows of a transcript
  Deeper,    \* formats with one row more
  Limit,     \* the largest page asked for
  LastReplies  \* the replies OpenClaw's Final looks through for the last that stopped

ASSUME TranscriptsAssumption == MaxRows \in Nat /\ Limit \in Nat \ {0} /\ LastReplies \in Nat \ {0}

\* A subagent's transcript is one of Claude's; a rollout of Codex has either
\* usage records or running totals.
Formats == {"claude", "claude-sub", "codex", "codex-totals", "gemini", "pi", "grok",
            "antigravity", "dsh", "openclaw"}

VARIABLES
  format,  \* whose transcript it is
  log      \* its rows

transcriptVars == <<format, log>>

\* Calls that have had no result in a row of their own yet
OpenCalls ==
  LET calls(IsCall(_), IsResult(_), Of(_)) ==
        {Of(log[i]) : i \in {j \in 1..Len(log) : IsCall(log[j])}}
          \ {Of(log[i]) : i \in {j \in 1..Len(log) : IsResult(log[j])}}
  IN CASE format \in {"claude", "claude-sub"} ->
            calls(LAMBDA r : r.id # 0 /\ r.type = "assistant", LAMBDA r : r.id # 0 /\ r.type = "user", LAMBDA r : r.id)
       [] format \in {"codex", "codex-totals"} ->
            calls(LAMBDA r : r.sub \in CodexCalls, LAMBDA r : r.sub = "function_call_output", LAMBDA r : r.id)
       [] format = "gemini" ->
            calls(LAMBDA r : r.id # 0 /\ r.type = "gemini", LAMBDA r : r.id # 0 /\ r.type = "user", LAMBDA r : r.id)
       [] format \in {"pi", "openclaw"} ->
            calls(LAMBDA r : r.id # 0 /\ r.role = "assistant", LAMBDA r : r.role = "toolResult", LAMBDA r : r.id)
       [] format = "grok" ->
            calls(LAMBDA u : u.kind = "call", LAMBDA u : u.kind \in {"done", "failed"}, LAMBDA u : u.id)
       [] format = "dsh" ->
            calls(LAMBDA r : r.call # 0 /\ r.type = "assistant/message", LAMBDA r : r.type = "tool/result", LAMBDA r : r.call)
       [] OTHER -> {}

\* Codex: how many turns there are, and whether the last still lacks its record
Turns == Cardinality({i \in 1..Len(log) : log[i].type = "turn_context"})
Due ==
  \E i \in 1..Len(log) : /\ log[i].type = "turn_context"
                         /\ \A j \in i + 1..Len(log) : log[j].type # "token_usage_record"

\* The rows the CLI may write next
MayWrite ==
  CASE format = "claude" -> ClaudeMayWrite(Len(log) + 1, OpenCalls, FALSE)
    [] format = "claude-sub" -> ClaudeMayWrite(Len(log) + 1, OpenCalls, TRUE)
    [] format = "codex" -> CodexMayWrite(Len(log) + 1, OpenCalls, Turns, Due, FALSE)
    [] format = "codex-totals" -> CodexMayWrite(Len(log) + 1, OpenCalls, Turns, Turns > 0, TRUE)
    [] format = "gemini" ->
         GeminiMayWrite(Len(log) + 1, OpenCalls, \E i \in 1..Len(log) : log[i].type = "continue")
    [] format = "pi" -> PiMayWrite(Len(log) + 1, OpenCalls)
    [] format = "grok" -> GrokMayHappen(Len(log) + 1, OpenCalls)
    [] format = "antigravity" -> AgyMayWrite(log, Cardinality({log[i].index : i \in 1..Len(log)}))
    [] format = "dsh" -> DshMayWrite(log, OpenCalls)
    [] format = "openclaw" -> ClawMayWrite(Len(log) + 1, OpenCalls)

TranscriptsInit == format \in Formats /\ log = <<>>

\* One row more
Write ==
  /\ Len(log) < MaxRows + (IF format \in Deeper THEN 1 ELSE 0)
  /\ \E row \in MayWrite : log' = Append(log, row)
  /\ UNCHANGED format

TranscriptsNext == Write
TranscriptsSpec == TranscriptsInit /\ [][TranscriptsNext]_transcriptVars

-----------------------------------------------------------------------------
(* The readers of the transcript at hand *)

sub == format = "claude-sub"

Messages ==
  CASE format \in {"claude", "claude-sub"} -> ClaudeMessages(log, sub)
    [] format \in {"codex", "codex-totals"} -> CodexMessages(log)
    [] format = "gemini" -> GeminiMessages(log)
    [] format = "pi" -> PiMessages(log)
    [] format = "grok" -> GrokMessages(log)
    [] format = "antigravity" -> AgyMessages(log)
    [] format = "dsh" -> DshMessages(log)
    [] format = "openclaw" -> ClawMessages(log)

Final ==
  CASE format \in {"claude", "claude-sub"} -> ClaudeFinal(log, sub)
    [] format \in {"codex", "codex-totals"} -> CodexFinal(log, {})
    [] format = "gemini" -> GeminiFinal(log)
    [] format = "pi" -> PiFinal(log)
    [] format = "grok" -> GrokFinal(log)
    [] format = "antigravity" -> AgyFinal(log)
    [] format = "dsh" -> DshFinal(log)
    [] format = "openclaw" -> ClawFinal(log, LastReplies)

\* The list's count of a transcript, read from its beginning
Count(rows) ==
  CASE format \in {"claude", "claude-sub"} -> ClaudeCount(rows, 0, sub)
    [] format \in {"codex", "codex-totals"} -> CodexCount(rows, 0)
    [] format = "gemini" -> GeminiCount(rows, 0, Len(rows))
    [] format = "pi" -> PiCount(rows, 0)
    [] format = "grok" -> GrokCount(rows)
    [] format = "antigravity" -> AgyCount(rows)
    [] format = "dsh" -> DshCount(rows)
    [] format = "openclaw" -> ClawCount(rows)

\* What the count adds for the rows after a line boundary, where it may resume
Resumable == {"claude", "claude-sub", "codex", "codex-totals", "gemini", "pi"}
CountFrom(from) ==
  CASE format \in {"claude", "claude-sub"} -> ClaudeCount(log, from, sub)
    [] format \in {"codex", "codex-totals"} -> CodexCount(log, from)
    [] format = "gemini" -> GeminiCount(log, from, Len(log))
    [] format = "pi" -> PiCount(log, from)

\* The rows search finds something in, and the time each hit gets
Hits ==
  CASE format \in {"claude", "claude-sub"} -> ClaudeHits(log, sub)
    [] format \in {"codex", "codex-totals"} -> CodexHits(log)
    [] format = "gemini" -> GeminiHits(log)
    [] format = "pi" -> PiHits(log)
    [] format = "grok" -> GrokHits(log)
    [] format = "antigravity" -> AgyHits(log)
    [] format = "dsh" -> DshHits(log)
    [] format = "openclaw" -> ClawHits(log)

HitTime(i) ==
  CASE format = "gemini" -> GeminiHitTime(log, i)
    [] format = "pi" -> PiHitTime(log, i)
    [] format = "antigravity" -> AgyHitTime(i)
    [] format = "dsh" -> DshHitTime(i)
    [] OTHER -> i

Title ==
  CASE format \in {"claude", "claude-sub"} -> ClaudeTitle(log, MaxRows)
    [] format \in {"codex", "codex-totals"} -> CodexTitle(log, MaxRows)
    [] format = "gemini" -> GeminiTitle(log, MaxRows)
    [] format = "pi" -> PiTitle(log, MaxRows)
    [] format = "antigravity" -> AgyTitle(log)
    [] format = "dsh" -> DshTitle(log)
    [] format = "openclaw" -> ClawTitle(log)
    [] OTHER -> 0

\* A page as it is served: of Codex the scan ends with the page.
Page(q, messages) ==
  IF format \in {"codex", "codex-totals"} THEN CodexPage(q, log) ELSE PageOf(q, messages)

-----------------------------------------------------------------------------
(* What the readers say agrees *)

UsageShown ==
  LET all == Messages
      sum[n \in 0..Len(all)] == IF n = 0 THEN 0 ELSE sum[n - 1] + all[n].usage
  IN sum[Len(all)]

\* The number in the list, the number in the final result and the messages a
\* reader is shown are the same, whether the file was counted whole or its new
\* rows were added to an older count, and over all files of a session.
\* (claudeCountMessages and its like, readFinal, Messages; mergeGeminiRecord.
\* Antigravity and dsh show tool steps and do not count them; Claude's count has
\* the stop hooks whose errors are all blank, which nobody is shown.)
CountsAgree ==
  /\ Count(log) = Final.count
  /\ Count(log) = CASE format \in {"antigravity", "dsh"} ->
                         Cardinality({n \in DOMAIN Messages : Messages[n].role \in {"user", "assistant"}})
                    [] format \in {"claude", "claude-sub"} ->
                         Len(Messages) + Cardinality({i \in 1..Len(log) : ClaudeBlankHook(log[i], sub)})
                    [] OTHER -> Len(Messages)
  /\ format \in Resumable =>
       \A n \in 0..Len(log) : Count(SubSeq(log, 1, n)) + CountFrom(n) = Count(log)
  /\ format = "gemini" => GeminiListCount(log, GeminiEnds(log)) = Final.count

\* What source_claude.go:822-825 says: "the number in the list is the number of
\* rows the reader will get".  A stop hook with blank errors is counted, not shown.
CountIsShown == format \in {"claude", "claude-sub"} => Count(log) = Len(Messages)

\* What a reader asks for; with an anchor, which takes the place of the offset, one
\* offset that would show if it were not ignored
Queries ==
  {q \in [limit : 1..Limit, offset : 0..Limit, fromEnd : BOOLEAN, role : {"", "assistant"}, at : {0, 2}] :
     q.at # 0 => q.offset = 1}

\* Every page is the part of the whole transcript it was asked for, from either
\* end, with a role and an anchor in time: nothing is skipped or comes twice when
\* a reader turns the pages.  Only in Codex, whose usage records come after the
\* message they are folded into, may a full page that counts from the oldest lack
\* a usage: that of the last message of the agent's before the page was full.
\* (messageSink.add and result; CodexSource.Messages.)
PagesAgree ==
  \A messages \in {Messages} : \A q \in Queries :
    LET page == Page(q, messages)
        window == Window(q, messages)
    IN /\ Len(page) = Len(window)
       /\ \A n \in DOMAIN page :
            \/ page[n] = window[n]
            \/ /\ format = "codex" /\ ~q.fromEnd /\ Len(page) = q.limit
               /\ \A i \in page[n].row + 1..page[q.limit].row : ~CodexSpeaks(log[i])
               /\ [page[n] EXCEPT !.usage = window[n].usage] = window[n]

Landing(i) == Page(Query(1, 0, FALSE, "", HitTime(i)), Messages)

\* The window a hit is opened at begins with the message the hit is in
Lands(i) == Landing(i) # <<>> /\ Landing(i)[1].row = i
Drawn(i) == \E n \in DOMAIN Messages : Messages[n].row = i

\* A window anchored at the time of a hit begins with the message the hit is in;
\* in Claude's transcripts every hit is in a message.
\* (lineRules.stamp and keep of searchfile.go; claudeRowSearchable,
\* PiSource.Search.  dsh and Grok give a hit another time than its message, and
\* Antigravity's lines and Gemini's patches none: see EveryHitLands.)
HitsLand ==
  format \notin {"dsh", "grok", "antigravity"} =>
    \A i \in Hits :
      IF Drawn(i) THEN (format = "gemini" => ~log[i].patched) => Lands(i)
      ELSE format \notin {"claude", "claude-sub"}

\* What searchfile.go:41-45 says of every source: "a hit has to carry the time of
\* the message it is in".  A dsh message has its row's time cut to the second
\* (dshTimeISO) and the hit has the row's own; a line of Antigravity's and a patch
\* of Gemini's have no field the hit's time could be read from.
EveryHitLands == \A i \in Hits : Drawn(i) => Lands(i)

\* The rows of a call say that it failed.
Errored(c) ==
  LET some(IsIt(_)) == \E i \in 1..Len(log) : IsIt(log[i])
  IN CASE format \in {"claude", "claude-sub"} ->
            some(LAMBDA r : r.id = c /\ r.status \in {"error", "interrupted"})
       [] format \in {"codex", "codex-totals"} ->
            LET output(IsIt(_)) == some(LAMBDA r : r.id = c /\ r.sub = "function_call_output" /\ IsIt(r))
            IN \/ output(LAMBDA r : r.out = "failed" \/ (r.out \in {"header", "legacy", "rejected"} /\ r.exit > 0))
               \/ /\ output(LAMBDA r : r.out = "rejected")
                  /\ some(LAMBDA r : r.id = c /\ r.sub = "apply_patch")
       [] format = "gemini" ->
            \/ some(LAMBDA r : r.id = c /\ r.type = "gemini" /\ r.status \in {"error", "cancelled"})
            \/ /\ ~some(LAMBDA r : r.id = c /\ r.type = "gemini" /\ r.status = "success")
               /\ some(LAMBDA r : r.id = c /\ r.type = "user" /\ r.status = "error")
       [] format \in {"pi", "openclaw"} -> some(LAMBDA r : r.id = c /\ r.error)
       [] format = "grok" -> some(LAMBDA u : u.id = c /\ u.kind = "failed")
       [] format = "dsh" -> some(LAMBDA r : r.call = c /\ r.error)
       [] OTHER -> FALSE

AnswersTo(c) ==
  UNION {{<<n, k>> : k \in {j \in DOMAIN Messages[n].results : Messages[n].results[j].call = c}} :
           n \in DOMAIN Messages}

\* Every call is answered at most once, in its own message or a later one, by the
\* name it was called with (dsh has one name for all), and as failed exactly when a
\* row recorded a failure - also where the answer stands on two rows, one of which
\* knows how it ended, or where only the words of a refused patch say so.
\* (claudeRow.toolResult, codexOutput, geminiFolder, grokGrouper, dshMessage.)
AnsweredOnce ==
  \A n \in DOMAIN Messages : \A k \in DOMAIN Messages[n].calls :
    LET c == Messages[n].calls[k] IN
    c # 0 =>
      /\ Cardinality(AnswersTo(c)) <= 1
      /\ c \notin OpenCalls => AnswersTo(c) # {}
      /\ \A a \in AnswersTo(c) :
           LET answer == Messages[a[1]].results[a[2]] IN
           /\ a[1] >= n /\ (answer.status = "ok" <=> ~Errored(c))
           /\ answer.name = IF format = "dsh" THEN "any" ELSE "tool"

\* The final result is the last answer among the messages.  Of Claude Code, Gemini,
\* Pi and dsh the usage it reports is what the messages carry: no reply is left out
\* or added up twice.  So it is of Codex, whose records may also come before any
\* reply, and of OpenClaw by its report (Usage); Antigravity adds up the steps that
\* are done; Grok's usage and Codex's running totals are not compared.  OpenClaw
\* looks through the newest replies only, LastReplies of them, for one that stopped.
\* (readFinal of each source, addUsage and turnUsageKey of Codex.)
FinalAgrees ==
  LET spoken == {n \in DOMAIN Messages :
                   /\ Messages[n].role = "assistant"
                   /\ CASE format \in {"codex", "codex-totals"} -> log[Messages[n].row].sub = "assistant"
                        [] format = "openclaw" ->
                             /\ log[Messages[n].row].stop \in {"stop", "error"}
                             /\ Cardinality({k \in DOMAIN Messages : k > n /\ Messages[k].role = "assistant"}) < LastReplies
                        [] OTHER -> TRUE}
  IN /\ Final.last = IF spoken = {} THEN 0 ELSE Messages[Max(spoken)].row
     /\ CASE format = "codex" ->
               \/ Final.usage = UsageShown
               \/ Final.usage > UsageShown
                  /\ \E i \in 1..Len(log) : /\ log[i].type = "token_usage_record"
                                            /\ \A j \in 1..i : ~CodexSpeaks(log[j])
          [] format = "antigravity" -> Final.usage <= UsageShown
          [] format = "openclaw" -> ClawUsage(log) = UsageShown
          [] format \in {"grok", "codex-totals"} -> TRUE
          [] OTHER -> Final.usage = UsageShown

\* While a Grok session runs it is read from another log than afterwards, and
\* the two give the same conversation: as many messages, by the same speakers,
\* with the same calls and results (of which the history does not say how they
\* ended) - unless the user spoke twice in a row, which the updates do not keep
\* apart.
\* (eachGrokHistoryMessage, grokGrouper, finalFromHistory, readFinal.)
GrokFormsAgree ==
  LET asks == {i \in 1..Len(log) : log[i].kind = "ask"}
      apart == \A i, j \in asks : i < j => \E k \in i + 1..j - 1 : GrokHasBlock(log[k]) /\ k \notin asks
      running == GrokHistory(log)
  IN format = "grok" /\ apart =>
       /\ Len(running) = Len(Messages) /\ GrokRunningFinal(log).count = Final.count
       /\ \A n \in DOMAIN running :
            /\ running[n].role = Messages[n].role /\ running[n].text = Messages[n].text
            /\ running[n].calls = Messages[n].calls
            /\ Len(running[n].results) = Len(Messages[n].results)
            /\ \A k \in DOMAIN running[n].results :
                 running[n].results[k] = [Messages[n].results[k] EXCEPT !.status = ""]

\* A session is called by a prompt its reader is shown: the first of its messages
\* that the user wrote and the program did not.
\* (firstUserTitle and the title of each source's buildRecord; OpenClaw's query
\* takes the first user message and has no title where that one is plumbing, and
\* geminiUserTitle passes over the prompts inside a patch.)
TitleIsPrompt ==
  LET prompts == {n \in DOMAIN Messages :
                    /\ Messages[n].role = "user" /\ Messages[n].text /\ ~Messages[n].aside
                    /\ format # "grok" /\ log[Messages[n].row].text = "words"
                    /\ format = "gemini" => ~log[Messages[n].row].patched}
  IN Title # 0 => prompts # {} /\ Title = Messages[Min(prompts)].row

\* What a search or a list quotes of a session is a message its reader is shown, at
\* the time it is shown with: the message of a hit, the prompt of a title.
QuotedIsShown == HitsLand /\ TitleIsPrompt
=============================================================================
