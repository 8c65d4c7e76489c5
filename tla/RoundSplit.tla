----------------------------- MODULE RoundSplit -----------------------------
(***************************************************************************)
(* How a session's rows are read as rounds, on the server (splitRounds and *)
(* the selections of sessionBrief, in brief.go) and again on the page      *)
(* (buildRounds, analyseRound and summarizeRound, in app.js).              *)
(*                                                                         *)
(* A row is [at, role, aside, words, block]: aside says that the CLI       *)
(* flagged it injected or queued; words is what kind of text it carries.   *)
(* A block is [type, id, name, files, file, failed]: files are those the   *)
(* server reads from a call's arguments (toolCallFiles: keys compared with *)
(* case and dashes folded, the files of a patch or a diff), file the one   *)
(* the page reads there (fileOf: six keys, spelt so).  Ids and times are   *)
(* numbers, 0 for none.                                                    *)
(***************************************************************************)
EXTENDS Integers, FiniteSetsExt, SequencesExt

CONSTANTS
  Tools,       \* the names of tools
  toolKindOf,  \* the server's kind of each: by the words of the name
  toolKind     \* the page's: by patterns over the whole name

NoTime == 0
NoId == 0
NoFile == ""
NoTool == ""
NoBlock == [type |-> "none", id |-> NoId, name |-> NoTool, files |-> {}, file |-> NoFile, failed |-> FALSE]

ASSUME ToolsAssumption ==
  NoTool \notin Tools /\ DOMAIN toolKindOf = Tools /\ DOMAIN toolKind = Tools

\* isRoundStart and isAsk: a user row with words of its own, and no marker of
\* plumbing about them.  The server glues the text blocks of a row together, the
\* page puts each on lines of its own, so a marker that two blocks hold may be
\* one to the server only (the row is an ask "apart") or to the page ("glued").
HasWordsOf(m, kinds) == m.role = "user" /\ ~m.aside /\ m.words \in kinds
IsRoundStart(m) == HasWordsOf(m, {"plain", "glued"})
IsAsk(m) == HasWordsOf(m, {"plain", "apart"})

\* The files that a call is said to write
ServerWrites(b) == IF toolKindOf[b.name] = "write" THEN b.files ELSE {}
PageWrites(b) == IF toolKind[b.name] = "write" THEN {b.file} \ {NoFile} ELSE {}

-----------------------------------------------------------------------------
(* The server *)

NewRound(index, at) ==
  [index |-> index, startAt |-> at, endAt |-> NoTime, lastAt |-> NoTime, messages |-> 0,
   toolCalls |-> 0, failures |-> 0, failed |-> <<>>, files |-> {}, changed |-> {}, pending |-> {},
   interrupted |-> FALSE, replied |-> FALSE, humanLast |-> FALSE]

\* A write without an id counts on the spot; one with an id waits for its result
\* mutant: every write counts on the spot
NoteAnyWrite(r, b) == [r EXCEPT !.changed = @ \cup ServerWrites(b)]
NoteWrite(r, b) ==
  IF ServerWrites(b) = {} THEN r
  ELSE IF b.id = NoId THEN [r EXCEPT !.changed = @ \cup ServerWrites(b)]
  ELSE [r EXCEPT !.pending = {p \in @ : p.id # b.id} \cup {[id |-> b.id, files |-> ServerWrites(b)]}]

Awaited(pending) == UNION {p.files : p \in pending}

SettleWrite(r, b) ==
  LET due == {p \in r.pending : p.id = b.id}
  IN  [r EXCEPT !.pending = @ \ due,
                !.changed = IF b.failed THEN @ ELSE @ \cup Awaited(due)]

ReadCall(r, b) == NoteWrite([r EXCEPT !.toolCalls = @ + 1, !.files = @ \cup b.files], b)

ReadResult(r, b, at) ==
  SettleWrite(IF b.failed THEN [r EXCEPT !.failures = @ + 1, !.failed = Append(@, at)] ELSE r, b)

ReadBlock(r, b, at) ==
  CASE b.type = "toolCall" -> ReadCall(r, b)
    [] b.type = "toolResult" -> ReadResult(r, b, at)
    [] b.type = "event" -> [r EXCEPT !.interrupted = TRUE]
    [] OTHER -> r

Later(old, at) == IF at = NoTime THEN old ELSE at
IsWork(m) == m.role = "assistant" \/ m.block.type # "none"

ReadRow(r, m, starting) ==
  [ReadBlock(r, m.block, m.at) EXCEPT
     !.messages = @ + 1, !.lastAt = Later(@, m.at), !.humanLast = starting,
     !.endAt = IF starting \/ IsWork(m) THEN Later(@, m.at) ELSE @,
     !.replied = @ \/ (m.role = "assistant" /\ m.words # "none")]

\* mutant: the calls waiting for a result are kept when a round ends
NextRowKeepingPending(rounds, m) ==
  IF IsRoundStart(m)
  THEN Append(rounds, ReadRow([NewRound(Len(rounds) + 1, m.at) EXCEPT
                                 !.pending = IF rounds = <<>> THEN {} ELSE Last(rounds).pending], m, TRUE))
  ELSE IF rounds = <<>> THEN rounds
  ELSE [rounds EXCEPT ![Len(rounds)] = ReadRow(@, m, FALSE)]
\* mutant: a failed result is listed in the round of its call too
NextRowBlaming(rounds, m) ==
  LET asking == {k \in 1..(Len(rounds) - 1) : \E p \in rounds[k].pending : p.id = m.block.id}
      late == m.block.type = "toolResult" /\ m.block.failed /\ asking # {}
      read == [rounds EXCEPT ![Len(rounds)] = ReadRow(@, m, FALSE)]
  IN  IF IsRoundStart(m) THEN Append(rounds, ReadRow(NewRound(Len(rounds) + 1, m.at), m, TRUE))
      ELSE IF rounds = <<>> THEN rounds
      ELSE IF late THEN [read EXCEPT ![Max(asking)].failed = Append(@, m.at)] ELSE read
NextRow(rounds, m) ==
  IF IsRoundStart(m) THEN Append(rounds, ReadRow(NewRound(Len(rounds) + 1, m.at), m, TRUE))
  ELSE IF rounds = <<>> THEN rounds   \* before the first ask: in no round
  ELSE [rounds EXCEPT ![Len(rounds)] = ReadRow(@, m, FALSE)]

\* The rounds after each of the rows
ReadUpTo(rows) ==
  LET read[n \in 0..Len(rows)] == IF n = 0 THEN <<>> ELSE NextRow(read[n - 1], rows[n])
  IN  read

SplitRounds(rows) ==
  LET rounds == ReadUpTo(rows)[Len(rows)]
  IN  [k \in DOMAIN rounds |-> [rounds[k] EXCEPT !.interrupted = @ \/ rounds[k].humanLast]]

WorkEnd(r) == IF r.endAt # NoTime THEN r.endAt ELSE r.startAt
\* mutant: a round ends with its work
SpanEndAtWork(r) == WorkEnd(r)
SpanEnd(r) == IF r.lastAt # NoTime THEN r.lastAt ELSE WorkEnd(r)

\* The round at= names: the first whose span holds the time, 0 if none does
RoundAt(rounds, at) ==
  LET holding == {k \in DOMAIN rounds : /\ rounds[k].startAt # NoTime
                                        /\ rounds[k].startAt <= at /\ at <= SpanEnd(rounds[k])}
  IN  IF holding = {} THEN 0 ELSE Min(holding)

\* The rounds since= selects
\* mutant: the rounds that began since
RoundsBegunSince(rounds, cut) == {k \in DOMAIN rounds : cut <= rounds[k].startAt}
RoundsSince(rounds, cut) ==
  {k \in DOMAIN rounds : SpanEnd(rounds[k]) = NoTime \/ cut <= SpanEnd(rounds[k])}

-----------------------------------------------------------------------------
(* The page *)

\* buildRounds: [no, ask, items], items being row numbers; what comes before
\* the first ask is a round without one, numbered 0
Group(rounds, rows, i) ==
  IF IsAsk(rows[i])
  THEN Append(rounds, [no |-> Len(rounds), ask |-> i, items |-> <<>>])
  ELSE [rounds EXCEPT ![Len(rounds)].items = Append(@, i)]

BuiltUpTo(rows) ==
  LET built[n \in 0..Len(rows)] ==
        IF n = 0 THEN <<[no |-> 0, ask |-> 0, items |-> <<>>]>> ELSE Group(built[n - 1], rows, n)
  IN  built

BuildRounds(rows) ==
  LET all == BuiltUpTo(rows)[Len(rows)]
  IN  IF all[1].items = <<>> THEN Tail(all) ELSE all

ToolStep(call, result) == [kind |-> "tool", call |-> call, result |-> result]
OtherStep(kind) == [kind |-> kind, call |-> NoBlock, result |-> NoBlock]

\* The steps a result may answer: by id, or without ids the oldest call still
\* waiting that it names, or the oldest waiting at all
Claimed(steps, b) ==
  LET waiting == {s \in DOMAIN steps : steps[s].call # NoBlock /\ steps[s].result = NoBlock}
      named == {s \in waiting : steps[s].call.name = b.name}
  IN  IF b.id # NoId THEN {s \in waiting : steps[s].call.id = b.id}
      ELSE IF named # {} THEN {Min(named)}
      ELSE {s \in waiting : s = Min(waiting)}

\* mutant: a result that answers no call of its round is left out
ReadStepPairedOnly(steps, m) ==
  LET b == m.block
  IN  CASE b.type = "toolCall" -> Append(steps, ToolStep(b, NoBlock))
        [] b.type = "toolResult" ->
             IF Claimed(steps, b) = {} THEN steps
             ELSE [steps EXCEPT ![Max(Claimed(steps, b))].result = b]
        [] b.type = "event" -> Append(steps, OtherStep("event"))
        [] OTHER -> Append(steps, OtherStep("note"))
ReadStep(steps, m) ==
  LET b == m.block
  IN  CASE b.type = "toolCall" -> Append(steps, ToolStep(b, NoBlock))
        [] b.type = "toolResult" ->
             IF Claimed(steps, b) = {} THEN Append(steps, ToolStep(NoBlock, b))
             ELSE [steps EXCEPT ![Max(Claimed(steps, b))].result = b]
        [] b.type = "event" -> Append(steps, OtherStep("event"))
        [] OTHER -> Append(steps, OtherStep("note"))

\* analyseRound: the items' steps; the last words of the agent are the reply
\* and no step
IsReply(items, n) ==
  LET said == {i \in DOMAIN items : items[i].role = "assistant" /\ items[i].words # "none"}
  IN  n \in said /\ \A i \in said : i <= n

AnalysedUpTo(items) ==
  LET steps[n \in 0..Len(items)] ==
        IF n = 0 THEN <<>>
        ELSE IF IsReply(items, n) /\ items[n].block = NoBlock THEN steps[n - 1]
        ELSE ReadStep(steps[n - 1], items[n])
  IN  steps
StepsOf(items) == AnalysedUpTo(items)[Len(items)]

IsFailedStep(step) == step.kind = "tool" /\ step.result.failed
\* mutant: a failed read is folded like the others
MergeableAnyway(step) == step.call # NoBlock /\ toolKind[step.call.name] \in {"read", "search"}
Mergeable(step) ==
  step.call # NoBlock /\ toolKind[step.call.name] \in {"read", "search"} /\ ~step.result.failed

\* mergeSteps: what is shown, each entry the run of steps it stands for
Flushed(acc) == IF acc.run = <<>> THEN acc.out ELSE Append(acc.out, acc.run)
Merge(acc, step) ==
  IF Mergeable(step) THEN [acc EXCEPT !.run = Append(@, step)]
  ELSE [out |-> Append(Flushed(acc), <<step>>), run |-> <<>>]
MergedUpTo(steps) ==
  LET merged[n \in 0..Len(steps)] ==
        IF n = 0 THEN [out |-> <<>>, run |-> <<>>] ELSE Merge(merged[n - 1], steps[n])
  IN  merged
MergeSteps(steps) == Flushed(MergedUpTo(steps)[Len(steps)])

\* The places of the tool steps
FlatToolSteps(shown) ==
  {p \in UNION {{n} \X DOMAIN shown[n] : n \in DOMAIN shown} : shown[p[1]][p[2]].kind = "tool"}

\* summarizeRound: the folded line
WorkedUpTo(items, begun) ==
  LET worked[n \in 0..Len(items)] ==
        IF n = 0 THEN begun
        ELSE IF IsWork(items[n]) THEN Later(worked[n - 1], items[n].at) ELSE worked[n - 1]
  IN  worked

ItemsOf(rows, round) == [n \in 1..Len(round.items) |-> rows[round.items[n]]]
SummaryOf(rows, round) ==
  LET items == ItemsOf(rows, round)
      shown == MergeSteps(StepsOf(items))
      tools == FlatToolSteps(shown)
      begun == IF round.ask # 0 THEN rows[round.ask].at ELSE items[1].at
      changes(step) == IF step.call = NoBlock \/ step.result.failed THEN {} ELSE PageWrites(step.call)
  IN  [failures |-> Cardinality({p \in tools : IsFailedStep(shown[p[1]][p[2]])}),
       changed |-> UNION {changes(shown[p[1]][p[2]]) : p \in tools},
       lastAt |-> WorkedUpTo(items, begun)[Len(items)]]
=============================================================================
