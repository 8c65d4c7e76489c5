------------------------ MODULE AntigravityTranscript ------------------------
(***************************************************************************)
(* One Antigravity transcript and its readers                               *)
(* (internal/source/source_antigravity.go).  A step is written when it      *)
(* begins and again, under the same index and the same time, whenever it is *)
(* corrected: the latest line of a step is the step.                        *)
(***************************************************************************)
EXTENDS Transcript

AgyRow(type, text, index) == [type |-> type, text |-> text, index |-> index, born |-> 0, done |-> FALSE]

\* A step, begun as row n, and another line of one that was not the user's
AgyTexts == {"words", ""}
AgyStep(type, index, n, done) == [AgyRow(type, "words", index) EXCEPT !.born = n, !.done = done]
AgyCorrected(r, text) == [r EXCEPT !.text = text, !.done = TRUE]

AgyBegun(index, n) ==
  {AgyStep(t, index, n, d) : t \in {"USER_INPUT", "PLANNER_RESPONSE", "RUN_COMMAND"}, d \in BOOLEAN}
AgyCorrections(log) ==
  {AgyCorrected(log[i], x) : i \in {j \in 1..Len(log) : log[j].type # "USER_INPUT"}, x \in AgyTexts}

\* What the CLI may write as the next row, after so many steps
AgyMayWrite(log, steps) == AgyBegun(steps + 1, Len(log) + 1) \cup AgyCorrections(log)

\* agySteps: the last write of an index wins
AgyLine(log, index) == Max({i \in 1..Len(log) : log[i].index = index})

\* agySteps: the lines that are steps, in the order of their indexes
AgySteps(log) ==
  LET indexes == {log[i].index : i \in 1..Len(log)}
  IN [n \in 1..Cardinality(indexes) |-> AgyLine(log, n)]

\* agyRole
AgyRole(r) ==
  CASE r.type = "USER_INPUT" -> "user"
    [] r.type = "PLANNER_RESPONSE" -> "assistant"
    [] OTHER -> "system"

AgyConversation(r) == AgyRole(r) \in {"user", "assistant"}

\* Messages: every step, those that are not the conversation's as events
AgyMessages(log) ==
  LET steps == AgySteps(log)
  IN [n \in DOMAIN steps |->
        LET r == log[steps[n]] IN
        [Message(steps[n], AgyRole(r)) EXCEPT !.at = r.born, !.text = AgyConversation(r),
           !.event = ~AgyConversation(r), !.usage = IF AgyRole(r) = "assistant" THEN 1 ELSE 0]]

\* mutant: every line of a step is counted
AgyCountLines(log) == Cardinality({i \in 1..Len(log) : AgyConversation(log[i])})

\* agyCountMessages: the whole file each time, one for each conversation step
AgyCount(log) == Cardinality({log[i].index : i \in {j \in 1..Len(log) : AgyConversation(log[j])}})

\* readFinal: the usage of the steps that are done
AgyFinal(log) ==
  LET steps == AgySteps(log)
      spoken == {n \in DOMAIN steps : AgyRole(log[steps[n]]) = "assistant"}
  IN [count |-> Cardinality({n \in DOMAIN steps : AgyConversation(log[steps[n]])}),
      last |-> IF spoken = {} THEN 0 ELSE steps[Max(spoken)],
      usage |-> Cardinality({n \in spoken : log[steps[n]].done})]

\* There is no Search here: SearchFile scans every line, the ones a later line of
\* their step has replaced included, and stamps a hit by a field these rows do
\* not have.
AgyHits(log) == {i \in 1..Len(log) : log[i].text # ""}
AgyHitTime(i) == 0

\* buildRecord: the opening ask, as any of its lines gives it
AgyTitle(log) == FirstTitle(log, Len(log), LAMBDA r : r.type = "USER_INPUT")
=============================================================================
