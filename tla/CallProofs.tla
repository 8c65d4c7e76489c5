------------------------------ MODULE CallProofs ------------------------------
(***************************************************************************)
(* Every call in a transcript is answered once, for any transcript of any  *)
(* format.  In the rows it is one invariant: a row makes a call of its own *)
(* number, or has the result of one that is open (Matched).  What is left  *)
(* is that the messages say what the rows do: one row each in most formats *)
(* (Told), two rows that share an answer in Gemini, a run of rows in Grok  *)
(* (Spans).                                                                *)
(***************************************************************************)
EXTENDS ServerProofs

-----------------------------------------------------------------------------
(* The answers to calls, where a message is made of one row *)

\* What the message of row i says of calls: the one it makes, the one it answers,
\* the name it has for that, and, of the rows of good, that it went well
CalledAs == IF format = "dsh" THEN "any" ELSE "tool"
Tells(m, i, call, reply, good) ==
  /\ m.row = i
  /\ \A k \in DOMAIN m.calls : m.calls[k] # 0 => m.calls[k] = call[i]
  /\ \A k \in DOMAIN m.results : m.results[k].call # 0 =>
       /\ k = 1 /\ m.results[k].call = reply[i] /\ m.results[k].name = CalledAs
       /\ m.results[k].status = "ok" <=> i \in good
  /\ reply[i] # 0 => 1 \in DOMAIN m.results /\ m.results[1].call = reply[i]

Told(ms, n, rows, S, call, reply, good) ==
  /\ Kept(S, n, rows) /\ Len(rows) \in Nat /\ DOMAIN ms = 1..Len(rows)
  /\ \A k \in 1..Len(rows) : rows[k] \in 1..n /\ Tells(ms[k], rows[k], call, reply, good)

LEMMA ToldHolds ==
  ASSUME NEW n \in Nat, NEW S, NEW call, NEW reply, NEW good, NEW rows, rows = Ascending(S, n), NEW make,
         NEW x, x = [k \in DOMAIN rows |-> make[rows[k]]],
         \A i \in 1..n : i \in S => Tells(make[i], i, call, reply, good)
  PROVE  Told(x, n, rows, S, call, reply, good)
<1>1. Kept(S, n, rows)
  BY AscendingLists
<1>2. PICK L \in Nat : L = Len(rows) /\ DOMAIN rows = 1..L
  BY <1>1 DEF Kept
<1>3. \A k \in 1..L : rows[k] \in 1..n /\ rows[k] \in S
  BY <1>1, <1>2 DEF Kept
<1>4. \A k \in 1..L : x[k] = make[rows[k]]
  BY <1>2
<1>5. DOMAIN x = 1..L
  BY <1>2
<1>6. \A k \in 1..L : Tells(x[k], rows[k], call, reply, good)
  BY <1>3, <1>4
<1> QED  BY ONLY <1>1, <1>2, <1>3, <1>5, <1>6, Zenon DEF Told

\* A call has the number of its row, is answered in that row or later, and once.
Paired(n, S, call, reply) ==
  /\ \A i \in 1..n : i \in S /\ call[i] # 0 => call[i] = i
  /\ \A i \in 1..n : reply[i] # 0 => reply[i] <= i
  /\ \A i \in 1..n, j \in 1..n : i \in S /\ j \in S /\ reply[i] # 0 /\ reply[i] = reply[j] => i = j

\* A call that is not open has an answer, which says how it ended.
Concluded(n, S, call, reply, good) ==
  /\ \A i \in 1..n : call[i] # 0 /\ call[i] \notin OpenCalls => \E j \in 1..n : j \in S /\ reply[j] = call[i]
  /\ \A j \in 1..n : j \in S /\ reply[j] # 0 => (j \in good <=> ~Errored(reply[j]))

\* The answers to a call, by the messages they are in
AnswersOf(m, c) == {<<m, k>> : k \in {j \in DOMAIN Messages[m].results : Messages[m].results[j].call = c}}

LEMMA AnswersAre ==
  ASSUME NEW c, NEW a
  PROVE  a \in AnswersTo(c) <=> \E m \in DOMAIN Messages : \E k \in DOMAIN Messages[m].results :
                                  a = <<m, k>> /\ Messages[m].results[k].call = c
<1>1. AnswersTo(c) = UNION {AnswersOf(m, c) : m \in DOMAIN Messages}
  BY Zenon DEF AnswersTo, AnswersOf
<1>2. a \in AnswersTo(c) <=> \E m \in DOMAIN Messages : a \in AnswersOf(m, c)
  BY ONLY <1>1
<1>3. ASSUME NEW m
      PROVE  a \in AnswersOf(m, c) <=> \E k \in DOMAIN Messages[m].results : a = <<m, k>> /\ Messages[m].results[k].call = c
  <2>1. PICK r : r = Messages[m].results
    OBVIOUS
  <2>2. a \in {<<m, k>> : k \in {j \in DOMAIN r : r[j].call = c}} <=> \E k \in DOMAIN r : a = <<m, k>> /\ r[k].call = c
    BY ONLY TRUE
  <2> QED  BY ONLY <2>1, <2>2, Zenon DEF AnswersOf
<1> QED  BY ONLY <1>2, <1>3, Zenon

\* At most one, if any two are the same
LEMMA OneAtMost ==
  ASSUME NEW A, \A x \in A, y \in A : x = y
  PROVE  Cardinality(A) <= 1
<1>1. CASE A = {}
  BY <1>1, FS_EmptySet
<1>2. CASE A # {}
  <2>1. PICK x : A = {x}
    BY <1>2
  <2> QED  BY <2>1, FS_Singleton
<1> QED  BY <1>1, <1>2

\* One call and its answers
IsAnswered(n, c) ==
  /\ Cardinality(AnswersTo(c)) <= 1
  /\ c \notin OpenCalls => AnswersTo(c) # {}
  /\ \A a \in AnswersTo(c) :
       LET reply == Messages[a[1]].results[a[2]] IN
       a[1] >= n /\ reply.name = CalledAs /\ (reply.status = "ok" <=> ~Errored(c))

LEMMA EachAnswered ==
  ASSUME \A n \in DOMAIN Messages : \A k \in DOMAIN Messages[n].calls :
           Messages[n].calls[k] # 0 => IsAnswered(n, Messages[n].calls[k])
  PROVE  AnsweredOnce
BY Zenon DEF AnsweredOnce, IsAnswered, CalledAs

\* Message m is the answer a to call c, with the name and the outcome its row gives it.
RowAnswers(ms, rows, reply, good, m, a, c) ==
  /\ a = <<m, 1>> /\ reply[rows[m]] = c
  /\ ms[m].results[1].name = CalledAs
  /\ ms[m].results[1].status = "ok" <=> rows[m] \in good

LEMMA RowsAnswered ==
  ASSUME NEW n \in Nat, NEW rows, NEW S, NEW call, NEW reply, NEW good,
         Told(Messages, n, rows, S, call, reply, good), Paired(n, S, call, reply),
         Concluded(n, S, call, reply, good)
  PROVE  AnsweredOnce
<1>1. PICK ms : ms = Messages
  OBVIOUS
<1>2. Told(ms, n, rows, S, call, reply, good)
  BY ONLY <1>1, Told(Messages, n, rows, S, call, reply, good)
<1>3. PICK L \in Nat : L = Len(rows) /\ DOMAIN ms = 1..L
  BY ONLY <1>2, Zenon DEF Told
<1>4. /\ \A k \in 1..L : rows[k] \in 1..n /\ rows[k] \in S
      /\ \A k \in 1..L, l \in 1..L : k < l => rows[k] < rows[l]
      /\ \A j \in 1..n : j \in S => \E k \in 1..L : rows[k] = j
  BY ONLY <1>2, <1>3, Zenon DEF Told, Kept
<1>5. \A k \in 1..L : Tells(ms[k], rows[k], call, reply, good)
  BY ONLY <1>2, <1>3, Zenon DEF Told
\* An answer to a call is of the one row that has it.
<1>6. ASSUME NEW c, c # 0, NEW a \in AnswersTo(c)
      PROVE  \E m \in 1..L : RowAnswers(ms, rows, reply, good, m, a, c)
  <2>1. PICK m \in DOMAIN ms : \E k \in DOMAIN ms[m].results : a = <<m, k>> /\ ms[m].results[k].call = c
    <3>1. \E m \in DOMAIN Messages : \E k \in DOMAIN Messages[m].results :
            a = <<m, k>> /\ Messages[m].results[k].call = c
      BY ONLY <1>6, AnswersAre, Zenon
    <3> QED  BY ONLY <1>1, <3>1
  <2>2. PICK k \in DOMAIN ms[m].results : a = <<m, k>> /\ ms[m].results[k].call = c
    BY <2>1
  <2>3. m \in 1..L
    BY ONLY <2>1, <1>3
  <2>4. Tells(ms[m], rows[m], call, reply, good)
    BY ONLY <2>3, <1>5
  <2>5. /\ k = 1 /\ ms[m].results[k].call = reply[rows[m]] /\ ms[m].results[k].name = CalledAs
        /\ ms[m].results[k].status = "ok" <=> rows[m] \in good
    BY ONLY <2>2, <2>4, <1>6, Zenon DEF Tells
  <2>6. a = <<m, 1>> /\ reply[rows[m]] = c /\ ms[m].results[1].name = CalledAs
        /\ (ms[m].results[1].status = "ok" <=> rows[m] \in good)
    BY ONLY <2>2, <2>5
  <2>7. RowAnswers(ms, rows, reply, good, m, a, c)
    BY ONLY <2>6, Zenon DEF RowAnswers
  <2> QED  BY ONLY <2>3, <2>7
<1>7. ASSUME NEW c, c # 0, NEW a \in AnswersTo(c), NEW b \in AnswersTo(c)
      PROVE  a = b
  <2>1. PICK l \in 1..L : a = <<l, 1>> /\ reply[rows[l]] = c
    BY ONLY <1>6, <1>7, Zenon DEF RowAnswers
  <2>2. PICK m \in 1..L : b = <<m, 1>> /\ reply[rows[m]] = c
    BY ONLY <1>6, <1>7, Zenon DEF RowAnswers
  <2>3. rows[l] = rows[m]
    BY ONLY <2>1, <2>2, <1>4, <1>7, Paired(n, S, call, reply), Zenon DEF Paired
  <2>4. l = m
    BY ONLY <2>3, <1>3, <1>4
  <2> QED  BY ONLY <2>1, <2>2, <2>4
<1>8. ASSUME NEW m \in DOMAIN ms, NEW k \in DOMAIN ms[m].calls, ms[m].calls[k] # 0
      PROVE  IsAnswered(m, ms[m].calls[k])
  <2>1. PICK c : c = ms[m].calls[k] /\ c # 0
    BY <1>8
  <2>2. m \in 1..L /\ rows[m] \in 1..n /\ rows[m] \in S
    BY <1>3, <1>4
  <2>3. Tells(ms[m], rows[m], call, reply, good)
    BY ONLY <2>2, <1>5
  <2>4. c = call[rows[m]]
    BY ONLY <1>8, <2>1, <2>3, Zenon DEF Tells
  <2>5. c = rows[m]
    BY ONLY <2>1, <2>2, <2>4, Paired(n, S, call, reply), Zenon DEF Paired
  <2>6. Cardinality(AnswersTo(c)) <= 1
    BY ONLY <1>7, <2>1, OneAtMost, Zenon
  <2>7. ASSUME c \notin OpenCalls PROVE AnswersTo(c) # {}
    <3>1. PICK j \in 1..n : j \in S /\ reply[j] = c
      BY ONLY <2>1, <2>2, <2>4, <2>7, Concluded(n, S, call, reply, good), Zenon DEF Concluded
    <3>2. PICK l \in 1..L : rows[l] = j
      BY <3>1, <1>4
    <3>3. Tells(ms[l], j, call, reply, good)
      BY ONLY <3>2, <1>5
    <3>4. 1 \in DOMAIN ms[l].results /\ ms[l].results[1].call = c
      BY ONLY <3>1, <3>3, <2>1, Zenon DEF Tells
    <3>5. l \in DOMAIN ms
      BY ONLY <3>2, <1>3
    <3>6. <<l, 1>> \in AnswersTo(c)
      BY ONLY <1>1, <3>4, <3>5, AnswersAre, Zenon
    <3> QED  BY <3>6
  <2>8. ASSUME NEW a \in AnswersTo(c)
        PROVE  a[1] >= m /\ ms[a[1]].results[a[2]].name = CalledAs /\ (ms[a[1]].results[a[2]].status = "ok" <=> ~Errored(c))
    <3>8. PICK l \in 1..L : RowAnswers(ms, rows, reply, good, l, a, c)
      BY ONLY <1>6, <2>1, <2>8, Zenon
    <3>1. a = <<l, 1>> /\ reply[rows[l]] = c /\ ms[l].results[1].name = CalledAs
          /\ (ms[l].results[1].status = "ok" <=> rows[l] \in good)
      BY ONLY <3>8, Zenon DEF RowAnswers
    <3>2. rows[l] \in 1..n /\ rows[l] \in S
      BY ONLY <3>1, <1>4
    <3>3. reply[rows[l]] <= rows[l]
      BY ONLY <3>1, <3>2, <2>1, Paired(n, S, call, reply), Zenon DEF Paired
    <3>4. rows[m] <= rows[l]
      BY ONLY <3>1, <3>3, <2>5
    <3>5. l >= m
      BY ONLY <3>1, <3>2, <3>4, <2>2, <1>3, <1>4
    <3>6. rows[l] \in good <=> ~Errored(c)
      BY ONLY <3>1, <3>2, <2>1, Concluded(n, S, call, reply, good), Zenon DEF Concluded
    <3>7. a[1] = l /\ a[2] = 1
      BY ONLY <3>1
    <3> QED  BY ONLY <3>1, <3>5, <3>6, <3>7, Zenon
  <2>9. IsAnswered(m, c)
    BY ONLY <1>1, <2>6, <2>7, <2>8, Zenon DEF IsAnswered
  <2> QED  BY ONLY <2>1, <2>9
<1>9. \A m \in DOMAIN Messages : \A k \in DOMAIN Messages[m].calls :
        Messages[m].calls[k] # 0 => IsAnswered(m, Messages[m].calls[k])
  BY ONLY <1>1, <1>8, Zenon
<1> QED  BY ONLY <1>9, EachAnswered, Zenon

-----------------------------------------------------------------------------
(* Calls and their results in the rows of a transcript *)

\* The call that a row of format f makes, and the call it has the result of, 0
\* for none
CallIn(f, r) ==
  CASE f \in {"claude", "claude-sub"} -> IF r.type = "assistant" THEN r.id ELSE 0
    [] f \in {"codex", "codex-totals"} -> IF r.sub \in CodexCalls THEN r.id ELSE 0
    [] f = "gemini" -> IF r.type = "gemini" THEN r.id ELSE 0
    [] f \in {"pi", "openclaw"} -> IF r.role = "assistant" THEN r.id ELSE 0
    [] f = "grok" -> IF r.kind = "call" THEN r.id ELSE 0
    [] f = "dsh" -> IF r.type = "assistant/message" THEN r.call ELSE 0
    [] OTHER -> 0

ResultIn(f, r) ==
  CASE f \in {"claude", "claude-sub"} -> IF r.type = "user" THEN r.id ELSE 0
    [] f \in {"codex", "codex-totals"} -> IF r.sub = "function_call_output" THEN r.id ELSE 0
    [] f = "gemini" -> IF r.type = "user" THEN r.id ELSE 0
    [] f \in {"pi", "openclaw"} -> IF r.role = "toolResult" THEN r.id ELSE 0
    [] f = "grok" -> IF r.kind \in {"done", "failed"} THEN r.id ELSE 0
    [] f = "dsh" -> IF r.type = "tool/result" THEN r.call ELSE 0
    [] OTHER -> 0

\* A call is open while no row has its result.
IsOpen(f, w, c) ==
  (\E i \in 1..Len(w) : CallIn(f, w[i]) = c) /\ ~\E j \in 1..Len(w) : ResultIn(f, w[j]) = c

LEMMA OpenAre ==
  ASSUME format \in Formats, NEW c, c # 0
  PROVE  c \in OpenCalls <=> IsOpen(format, log, c)
<1>1. CASE format \in {"claude", "claude-sub"}
  <2>1. OpenCalls = {log[i].id : i \in {j \in 1..Len(log) : log[j].id # 0 /\ log[j].type = "assistant"}}
                      \ {log[i].id : i \in {j \in 1..Len(log) : log[j].id # 0 /\ log[j].type = "user"}}
    BY ONLY <1>1, Zenon DEF OpenCalls
  <2>2. \A r : /\ CallIn(format, r) = IF r.type = "assistant" THEN r.id ELSE 0
               /\ ResultIn(format, r) = IF r.type = "user" THEN r.id ELSE 0
    BY ONLY <1>1, Zenon DEF CallIn, ResultIn
  <2> QED  BY ONLY <2>1, <2>2, c # 0 DEF IsOpen
<1>2. CASE format \in {"codex", "codex-totals"}
  <2>1. OpenCalls = {log[i].id : i \in {j \in 1..Len(log) : log[j].sub \in CodexCalls}}
                      \ {log[i].id : i \in {j \in 1..Len(log) : log[j].sub = "function_call_output"}}
    BY ONLY <1>2, Zenon DEF OpenCalls
  <2>2. \A r : /\ CallIn(format, r) = IF r.sub \in CodexCalls THEN r.id ELSE 0
               /\ ResultIn(format, r) = IF r.sub = "function_call_output" THEN r.id ELSE 0
    BY ONLY <1>2, Zenon DEF CallIn, ResultIn
  <2> QED  BY ONLY <2>1, <2>2, c # 0 DEF IsOpen
<1>3. CASE format = "gemini"
  <2>1. OpenCalls = {log[i].id : i \in {j \in 1..Len(log) : log[j].id # 0 /\ log[j].type = "gemini"}}
                      \ {log[i].id : i \in {j \in 1..Len(log) : log[j].id # 0 /\ log[j].type = "user"}}
    BY ONLY <1>3, Zenon DEF OpenCalls
  <2>2. \A r : /\ CallIn(format, r) = IF r.type = "gemini" THEN r.id ELSE 0
               /\ ResultIn(format, r) = IF r.type = "user" THEN r.id ELSE 0
    BY ONLY <1>3, Zenon DEF CallIn, ResultIn
  <2> QED  BY ONLY <2>1, <2>2, c # 0 DEF IsOpen
<1>4. CASE format \in {"pi", "openclaw"}
  <2>1. OpenCalls = {log[i].id : i \in {j \in 1..Len(log) : log[j].id # 0 /\ log[j].role = "assistant"}}
                      \ {log[i].id : i \in {j \in 1..Len(log) : log[j].role = "toolResult"}}
    BY ONLY <1>4, Zenon DEF OpenCalls
  <2>2. \A r : /\ CallIn(format, r) = IF r.role = "assistant" THEN r.id ELSE 0
               /\ ResultIn(format, r) = IF r.role = "toolResult" THEN r.id ELSE 0
    BY ONLY <1>4, Zenon DEF CallIn, ResultIn
  <2> QED  BY ONLY <2>1, <2>2, c # 0 DEF IsOpen
<1>5. CASE format = "grok"
  <2>1. OpenCalls = {log[i].id : i \in {j \in 1..Len(log) : log[j].kind = "call"}}
                      \ {log[i].id : i \in {j \in 1..Len(log) : log[j].kind \in {"done", "failed"}}}
    BY ONLY <1>5, Zenon DEF OpenCalls
  <2>2. \A r : /\ CallIn(format, r) = IF r.kind = "call" THEN r.id ELSE 0
               /\ ResultIn(format, r) = IF r.kind \in {"done", "failed"} THEN r.id ELSE 0
    BY ONLY <1>5, Zenon DEF CallIn, ResultIn
  <2> QED  BY ONLY <2>1, <2>2, c # 0 DEF IsOpen
<1>6. CASE format = "dsh"
  <2>1. OpenCalls = {log[i].call : i \in {j \in 1..Len(log) : log[j].call # 0 /\ log[j].type = "assistant/message"}}
                      \ {log[i].call : i \in {j \in 1..Len(log) : log[j].type = "tool/result"}}
    BY ONLY <1>6, Zenon DEF OpenCalls
  <2>2. \A r : /\ CallIn(format, r) = IF r.type = "assistant/message" THEN r.call ELSE 0
               /\ ResultIn(format, r) = IF r.type = "tool/result" THEN r.call ELSE 0
    BY ONLY <1>6, Zenon DEF CallIn, ResultIn
  <2> QED  BY ONLY <2>1, <2>2, c # 0 DEF IsOpen
<1>7. CASE format = "antigravity"
  <2>1. OpenCalls = {}
    BY ONLY <1>7, Zenon DEF OpenCalls
  <2>2. \A r : CallIn(format, r) = 0
    BY ONLY <1>7, Zenon DEF CallIn
  <2> QED  BY ONLY <2>1, <2>2, c # 0, Zenon DEF IsOpen
<1> QED  BY ONLY <1>1, <1>2, <1>3, <1>4, <1>5, <1>6, <1>7, format \in Formats, Zenon DEF Formats

\* A new row makes a call of its own number, or has the result of an open one, or
\* neither.
Fresh(call, result, n, open) ==
  \/ call \in {0, n} /\ result = 0
  \/ call = 0 /\ result \in open

\* What else a row with a call or a result says
ClaudeEnds == {"ok", "error", "interrupted"}
ClaudeTool(r, side) ==
  \/ r.id = 0
  \/ r.type = "assistant" /\ r.status = "" /\ r.side = side
  \/ r.type = "user" /\ r.status \in ClaudeEnds /\ r.side = side
ClaudeFresh(r, n, open) == Fresh(IF r.type = "assistant" THEN r.id ELSE 0, IF r.type = "user" THEN r.id ELSE 0, n, open)

LEMMA ClaudePlainLine ==
  ASSUME NEW n, NEW open, NEW side, NEW s, NEW u, NEW t, NEW b
  PROVE  ClaudeTool([ClaudeRow(s, u, t) EXCEPT !.side = b], side) /\ ClaudeFresh([ClaudeRow(s, u, t) EXCEPT !.side = b], n, open)
<1>1. PICK x : x = [ClaudeRow(s, u, t) EXCEPT !.side = b]
  OBVIOUS
<1>2. x.id = 0
  BY ONLY <1>1 DEF ClaudeRow
<1> QED  BY ONLY <1>1, <1>2, Zenon DEF ClaudeTool, ClaudeFresh, Fresh

LEMMA ClaudeCallLine ==
  ASSUME NEW n, NEW open, NEW side, NEW x, x = [[ClaudeRow("assistant", "", "") EXCEPT !.id = n] EXCEPT !.side = side]
  PROVE  ClaudeTool(x, side) /\ ClaudeFresh(x, n, open)
<1>1. PICK y : y = [ClaudeRow("assistant", "", "") EXCEPT !.id = n] /\ x = [y EXCEPT !.side = side]
  BY Zenon
<1>2. PICK no : y = [type |-> "assistant", sub |-> "", text |-> "", side |-> no, id |-> n, status |-> ""]
  BY ONLY <1>1 DEF ClaudeRow
<1>3. PICK b : b = side
  OBVIOUS
<1>4. x = [y EXCEPT !.side = b]
  BY ONLY <1>1, <1>3, Zenon
<1>5. x.type = "assistant" /\ x.status = "" /\ x.side = b /\ x.id = n /\ "assistant" # "user"
  BY ONLY <1>2, <1>4
<1> QED  BY ONLY <1>3, <1>5, Zenon DEF ClaudeTool, ClaudeFresh, Fresh

LEMMA ClaudeResultLine ==
  ASSUME NEW n, NEW open, NEW side, NEW c \in open, NEW s \in ClaudeEnds, NEW x, x = [ClaudeResult(c, s) EXCEPT !.side = side]
  PROVE  ClaudeTool(x, side) /\ ClaudeFresh(x, n, open)
<1>1. PICK y : y = ClaudeResult(c, s) /\ x = [y EXCEPT !.side = side]
  BY Zenon
<1>2. PICK no : y = [type |-> "user", sub |-> "", text |-> "", side |-> no, id |-> c, status |-> s]
  BY ONLY <1>1 DEF ClaudeRow, ClaudeResult
<1>3. PICK b : b = side
  OBVIOUS
<1>4. x = [y EXCEPT !.side = b]
  BY ONLY <1>1, <1>3, Zenon
<1>5. x.type = "user" /\ x.status = s /\ x.side = b /\ x.id = c /\ "assistant" # "user"
  BY ONLY <1>2, <1>4
<1>6. c \in open /\ s \in ClaudeEnds
  OBVIOUS
<1> QED  BY ONLY <1>3, <1>5, <1>6, Zenon DEF ClaudeTool, ClaudeFresh, Fresh

LEMMA ClaudeToolLines ==
  ASSUME NEW n, NEW open, NEW side, NEW row \in ClaudeMayWrite(n, open, side)
  PROVE  ClaudeTool(row, side) /\ ClaudeFresh(row, n, open)
<1> DEFINE Fits(x) == ClaudeTool(x, side) /\ ClaudeFresh(x, n, open)
           A == {ClaudeRow("user", "", t) : t \in {"words", "plumbing", "notice"}}
           B == {ClaudeRow("assistant", "", "words"), [ClaudeRow("assistant", "", "") EXCEPT !.id = n]}
           D == IF side THEN {} ELSE {[ClaudeRow("assistant", "", "words") EXCEPT !.side = TRUE]}
<1>1. ClaudeMayWrite(n, open, side) = {[r EXCEPT !.side = side] : r \in A \cup B \cup ClaudeResults(open) \cup ClaudeNotes} \cup D
  BY Zenon DEF ClaudeMayWrite
<1>2. \A b : \A s, u, t : Fits([ClaudeRow(s, u, t) EXCEPT !.side = b])
  BY ClaudePlainLine, Zenon
<1> HIDE DEF Fits
<1>3. \A r \in A \cup B : Fits([r EXCEPT !.side = side])
  <2>1. Fits([[ClaudeRow("assistant", "", "") EXCEPT !.id = n] EXCEPT !.side = side])
    BY ClaudeCallLine, Zenon DEF Fits
  <2> QED  BY <1>2, <2>1, Zenon
<1>4. \A r \in ClaudeResults(open) : Fits([r EXCEPT !.side = side])
  <2>1. \A c \in open : \A s \in ClaudeEnds : Fits([ClaudeResult(c, s) EXCEPT !.side = side])
    BY ClaudeResultLine, Zenon DEF Fits
  <2>2. ASSUME NEW r \in ClaudeResults(open) PROVE \E c \in open : \E s \in ClaudeEnds : r = ClaudeResult(c, s)
    BY DEF ClaudeResults, ClaudeEnds
  <2> QED  BY <2>1, <2>2, Zenon
<1>5. \A r \in ClaudeNotes : Fits([r EXCEPT !.side = side])
  BY <1>2, Zenon DEF ClaudeNotes
<1>6. \A x \in D : Fits(x)
  <2>1. \A x \in D : x = [ClaudeRow("assistant", "", "words") EXCEPT !.side = TRUE]
    OBVIOUS
  <2>2. Fits([ClaudeRow("assistant", "", "words") EXCEPT !.side = TRUE])
    BY <1>2, Zenon
  <2> HIDE DEF D
  <2> QED  BY <2>1, <2>2, Zenon
<1> HIDE DEF A, B, D
<1>7. Fits(row)
  BY <1>1, <1>3, <1>4, <1>5, <1>6
<1> QED  BY <1>7 DEF Fits

CodexTool(r) ==
  \/ r.sub \notin CodexCalls /\ r.sub # "function_call_output"
  \/ r.sub \in CodexCalls /\ r.sub # "function_call_output"
  \/ r.sub = "function_call_output" /\ r.sub \notin CodexCalls /\ r.type = "response_item"
CodexFresh(r, n, open) ==
  Fresh(IF r.sub \in CodexCalls THEN r.id ELSE 0, IF r.sub = "function_call_output" THEN r.id ELSE 0, n, open)

LEMMA CodexToolLines ==
  ASSUME NEW n, NEW open, NEW turns, NEW due, NEW totals, NEW row \in CodexMayWrite(n, open, turns, due, totals)
  PROVE  CodexTool(row) /\ CodexFresh(row, n, open)
<1> DEFINE Fits(x) == CodexTool(x) /\ CodexFresh(x, n, open)
           A == {CodexRow("session_meta", "", ""), [CodexRow("turn_context", "", "") EXCEPT !.id = turns + 1],
                 CodexRow("event_msg", "turn_aborted", "")}
           B == {CodexRow("response_item", "user", t) : t \in {"words", "plumbing"}}
           C == {CodexRow("response_item", s, "words") : s \in {"developer", "assistant", "reasoning"}}
           D == {CodexRow("response_item", "reasoning", ""), CodexRow("response_item", "web_search_call", "")}
           E == {[CodexRow("response_item", s, "") EXCEPT !.id = n] : s \in CodexCalls}
           F == CodexOutputs(open)
           G == IF due /\ ~totals THEN {CodexRow("token_usage_record", "", "")} ELSE {}
           H == IF due /\ totals THEN {[CodexRow("event_msg", "token_count", "") EXCEPT !.id = turns]} ELSE {}
<1>1. CodexMayWrite(n, open, turns, due, totals) = A \cup B \cup C \cup D \cup E \cup F \cup G \cup H
  BY Zenon DEF CodexMayWrite
<1>2. ASSUME NEW x, x.sub # "function_call_output", x.sub \notin CodexCalls
      PROVE  Fits(x)
  BY <1>2, Zenon DEF CodexTool, CodexFresh, Fresh
<1>3. ASSUME NEW x, x.sub \in CodexCalls, x.id = n
      PROVE  Fits(x)
  <2>1. x.sub # "function_call_output"
    BY <1>3 DEF CodexCalls
  <2> QED  BY <1>3, <2>1, Zenon DEF CodexTool, CodexFresh, Fresh
<1>4. ASSUME NEW x, x.sub = "function_call_output", x.type = "response_item", x.id \in open
      PROVE  Fits(x)
  <2>1. x.sub \notin CodexCalls
    BY <1>4 DEF CodexCalls
  <2> QED  BY <1>4, <2>1, Zenon DEF CodexTool, CodexFresh, Fresh
<1>5. /\ "" # "function_call_output" /\ "" \notin CodexCalls
      /\ "token_count" # "function_call_output" /\ "token_count" \notin CodexCalls
      /\ "turn_aborted" # "function_call_output" /\ "turn_aborted" \notin CodexCalls
      /\ "user" # "function_call_output" /\ "user" \notin CodexCalls
      /\ "developer" # "function_call_output" /\ "developer" \notin CodexCalls
      /\ "assistant" # "function_call_output" /\ "assistant" \notin CodexCalls
      /\ "reasoning" # "function_call_output" /\ "reasoning" \notin CodexCalls
      /\ "web_search_call" # "function_call_output" /\ "web_search_call" \notin CodexCalls
  BY DEF CodexCalls
<1>6. \A s, u, t : CodexRow(s, u, t).sub = u
  BY DEF CodexRow
<1>8. \A c, o, e : /\ CodexOutput(c, o, e).sub = "function_call_output" /\ CodexOutput(c, o, e).type = "response_item"
                   /\ CodexOutput(c, o, e).id = c
  BY DEF CodexRow, CodexOutput
<1> HIDE DEF Fits
<1>9. \A s, u, t : u # "function_call_output" /\ u \notin CodexCalls => Fits(CodexRow(s, u, t))
  <2> SUFFICES ASSUME NEW s, NEW u, NEW t, u # "function_call_output", u \notin CodexCalls,
                      NEW x, x = CodexRow(s, u, t)
               PROVE  Fits(x)
    BY Zenon
  <2>1. x.sub = u
    BY <1>6, Zenon
  <2>2. x.sub # "function_call_output" /\ x.sub \notin CodexCalls
    BY <2>1
  <2> QED  BY <1>2, <2>2, Zenon
<1>10. \A s, u, t, v : u # "function_call_output" /\ u \notin CodexCalls => Fits([CodexRow(s, u, t) EXCEPT !.id = v])
  <2> SUFFICES ASSUME NEW s, NEW u, NEW t, NEW v, u # "function_call_output", u \notin CodexCalls,
                      NEW x, x = [CodexRow(s, u, t) EXCEPT !.id = v]
               PROVE  Fits(x)
    BY Zenon
  <2>1. x.sub = u
    BY DEF CodexRow
  <2>2. x.sub # "function_call_output" /\ x.sub \notin CodexCalls
    BY <2>1
  <2> QED  BY <1>2, <2>2, Zenon
<1>11. \A x \in A : Fits(x)
  <2>1. PICK v : v = turns + 1
    OBVIOUS
  <2>2. Fits([CodexRow("turn_context", "", "") EXCEPT !.id = v])
    BY <1>5, <1>10, Zenon
  <2> QED  BY <1>5, <1>9, <2>1, <2>2, Zenon
<1>12. \A x \in B : Fits(x)
  BY <1>5, <1>9, Zenon
<1>13. \A x \in C : Fits(x)
  BY <1>5, <1>9, Zenon
<1>14. \A x \in D : Fits(x)
  BY <1>5, <1>9, Zenon
<1>15. \A x \in E : Fits(x)
  <2>1. \A s \in CodexCalls : Fits([CodexRow("response_item", s, "") EXCEPT !.id = n])
    <3> SUFFICES ASSUME NEW s \in CodexCalls, NEW x, x = [CodexRow("response_item", s, "") EXCEPT !.id = n]
                 PROVE  Fits(x)
      BY Zenon
    <3>1. x.sub = s /\ x.id = n
      BY DEF CodexRow
    <3>2. x.sub \in CodexCalls
      BY <3>1
    <3> QED  BY <1>3, <3>1, <3>2, Zenon
  <2> QED  BY <2>1, Zenon
<1>16. \A x \in F : Fits(x)
  <2>1. \A c \in open : \A o, e : Fits(CodexOutput(c, o, e))
    BY <1>4, <1>8, Zenon
  <2>2. \A x \in CodexOutputs(open) : \E c \in open : \E o, e : x = CodexOutput(c, o, e)
    BY DEF CodexOutputs
  <2>3. ASSUME NEW x \in F PROVE Fits(x)
    <3>1. PICK c \in open : \E o, e : x = CodexOutput(c, o, e)
      BY <2>2
    <3>2. PICK o, e : x = CodexOutput(c, o, e)
      BY <3>1
    <3> QED  BY <2>1, <3>2, Zenon
  <2> QED  BY <2>3
<1>17. \A x \in G : Fits(x)
  <2>1. Fits(CodexRow("token_usage_record", "", ""))
    BY <1>5, <1>9, Zenon
  <2>2. \A x \in G : x = CodexRow("token_usage_record", "", "")
    OBVIOUS
  <2> HIDE DEF G
  <2> QED  BY <2>1, <2>2, Zenon
<1>18. \A x \in H : Fits(x)
  <2>1. Fits([CodexRow("event_msg", "token_count", "") EXCEPT !.id = turns])
    BY <1>5, <1>10, Zenon
  <2>2. \A x \in H : x = [CodexRow("event_msg", "token_count", "") EXCEPT !.id = turns]
    OBVIOUS
  <2> HIDE DEF H
  <2> QED  BY <2>1, <2>2, Zenon
<1> HIDE DEF A, B, C, D, E, F, G, H
<1>19. Fits(row)
  BY <1>1, <1>11, <1>12, <1>13, <1>14, <1>15, <1>16, <1>17, <1>18
<1> QED  BY <1>19 DEF Fits

\* A call of Gemini's carries its output, or a verdict without one, or none yet.
GeminiEnds3 == {"success", "error", "cancelled"}
GeminiTool(r) ==
  \/ r.id = 0 /\ ~r.output
  \/ r.type = "gemini" /\ r.id # 0 /\ r.output /\ r.status \in GeminiEnds3
  \/ r.type = "gemini" /\ r.id # 0 /\ ~r.output /\ r.status \in GeminiEnds3 \cup {"", "executing"}
  \/ r.type = "user" /\ r.id # 0 /\ ~r.output /\ r.status \in {"ok", "error"}
GeminiFresh(r, n, open) == Fresh(IF r.type = "gemini" THEN r.id ELSE 0, IF r.type = "user" THEN r.id ELSE 0, n, open)

LEMMA GeminiToolLines ==
  ASSUME NEW n, n # 0, NEW open, 0 \notin open, NEW continued, NEW row \in GeminiMayWrite(n, open, continued)
  PROVE  GeminiTool(row) /\ GeminiFresh(row, n, open)
<1> DEFINE Fits(x) == GeminiTool(x) /\ GeminiFresh(x, n, open)
           A == {GeminiRow("user", t) : t \in {"words", "plumbing"}}
           B == {GeminiRow("gemini", "words"), GeminiRow("info", "words"), GeminiRow("$set", "")}
           P == {GeminiPatched("user"), GeminiPatched("gemini")}
           F == IF continued THEN {} ELSE {GeminiRow("continue", "")}
<1>1. GeminiMayWrite(n, open, continued) = A \cup B \cup P \cup GeminiEnded(n) \cup GeminiBegun(n) \cup GeminiResults(open) \cup F
  BY Zenon DEF GeminiMayWrite
<1>2. ASSUME NEW x, x.id = 0, ~x.output PROVE Fits(x)
  BY <1>2, Zenon DEF GeminiTool, GeminiFresh, Fresh
<1>3. ASSUME NEW x, x.type = "gemini", x.id = n, x.status \in GeminiEnds3 PROVE Fits(x)
  <2>1. "gemini" # "user" /\ x.status \in GeminiEnds3 \cup {"", "executing"}
    BY <1>3
  <2> QED  BY <1>3, <2>1, n # 0, Zenon DEF GeminiTool, GeminiFresh, Fresh
<1>4. ASSUME NEW x, x.type = "gemini", x.id = n, ~x.output, x.status \in {"", "executing"} PROVE Fits(x)
  <2>1. "gemini" # "user" /\ x.status \in GeminiEnds3 \cup {"", "executing"}
    BY <1>4
  <2> QED  BY <1>4, <2>1, n # 0, Zenon DEF GeminiTool, GeminiFresh, Fresh
<1>5. ASSUME NEW x, x.type = "user", x.id \in open, ~x.output, x.status \in {"ok", "error"} PROVE Fits(x)
  <2>1. "gemini" # "user" /\ x.id # 0
    BY <1>5
  <2> QED  BY <1>5, <2>1, Zenon DEF GeminiTool, GeminiFresh, Fresh
<1>6. \A s, t : GeminiRow(s, t).id = 0 /\ ~GeminiRow(s, t).output
  BY DEF GeminiRow
<1>16. \A s : GeminiPatched(s).id = 0 /\ ~GeminiPatched(s).output
  BY DEF GeminiRow, GeminiPatched
<1>7. ASSUME NEW s, NEW o, NEW x, x = GeminiCall(n, s, o)
      PROVE  x.type = "gemini" /\ x.id = n /\ x.status = s
  BY <1>7 DEF GeminiRow, GeminiCall
<1>8. ASSUME NEW s, NEW x, x = GeminiCall(n, s, FALSE)
      PROVE  ~x.output
  BY <1>8 DEF GeminiRow, GeminiCall
<1> HIDE DEF Fits
<1>9. \A x \in A \cup B : Fits(x)
  BY <1>2, <1>6, Zenon
<1>15. \A x \in P : Fits(x)
  BY <1>2, <1>16, Zenon
<1>10. ASSUME NEW x \in GeminiEnded(n) PROVE Fits(x)
  <2>1. PICK s \in {"success", "error", "cancelled"} : \E o \in BOOLEAN : x = GeminiCall(n, s, o)
    BY <1>10 DEF GeminiEnded
  <2>2. PICK o : x = GeminiCall(n, s, o)
    BY <2>1
  <2>3. x.type = "gemini" /\ x.id = n /\ x.status = s
    BY <1>7, <2>2, Zenon
  <2>4. x.status \in GeminiEnds3
    BY <2>3 DEF GeminiEnds3
  <2> QED  BY <1>3, <2>3, <2>4, Zenon
<1>11. ASSUME NEW x \in GeminiBegun(n) PROVE Fits(x)
  <2>1. \E s \in {"", "executing"} : x = GeminiCall(n, s, FALSE)
    BY <1>11, Zenon DEF GeminiBegun
  <2>2. PICK s \in {"", "executing"} : x = GeminiCall(n, s, FALSE)
    BY <2>1, Zenon
  <2>3. x.type = "gemini" /\ x.id = n /\ x.status = s
    BY <1>7, <2>2, Zenon
  <2>4. ~x.output
    BY <1>8, <2>2, Zenon
  <2>5. x.status \in {"", "executing"}
    BY <2>3
  <2> QED  BY <1>4, <2>3, <2>4, <2>5, Zenon
<1>12. ASSUME NEW x \in GeminiResults(open) PROVE Fits(x)
  <2>1. \E c \in open : \E s \in {"ok", "error"} : x = GeminiResult(c, s)
    BY <1>12 DEF GeminiResults
  <2>2. PICK c \in open : \E s \in {"ok", "error"} : x = GeminiResult(c, s)
    BY <2>1
  <2>3. PICK s \in {"ok", "error"} : x = GeminiResult(c, s)
    BY <2>2
  <2>4. x.type = "user" /\ x.id = c /\ x.status = s /\ ~x.output
    BY ONLY <2>3 DEF GeminiRow, GeminiResult
  <2>5. x.id \in open /\ x.status \in {"ok", "error"}
    BY <2>4
  <2> QED  BY <1>5, <2>4, <2>5, Zenon
<1>13. \A x \in F : Fits(x)
  <2>1. Fits(GeminiRow("continue", ""))
    BY <1>2, <1>6, Zenon
  <2>2. \A x \in F : x = GeminiRow("continue", "")
    OBVIOUS
  <2> HIDE DEF F
  <2> QED  BY <2>1, <2>2, Zenon
<1> HIDE DEF A, B, P, F
<1>14. Fits(row)
  BY <1>1, <1>9, <1>10, <1>12, <1>13, <1>11, <1>15
<1> QED  BY <1>14 DEF Fits

\* Pi and OpenClaw
BlockTool(r) ==
  \/ r.id = 0 /\ ~r.error
  \/ r.type = "message" /\ r.role = "assistant" /\ ~r.error
  \/ r.type = "message" /\ r.role = "toolResult"
BlockFresh(r, n, open) == Fresh(IF r.role = "assistant" THEN r.id ELSE 0, IF r.role = "toolResult" THEN r.id ELSE 0, n, open)

LEMMA BlockLines ==
  ASSUME NEW n, NEW open, NEW x,
         \/ x.id = 0 /\ ~x.error
         \/ x.type = "message" /\ x.role = "assistant" /\ ~x.error /\ x.id = n
         \/ x.type = "message" /\ x.role = "toolResult" /\ x.id \in open
  PROVE  BlockTool(x) /\ BlockFresh(x, n, open)
<1>1. CASE x.id = 0 /\ ~x.error
  BY <1>1, Zenon DEF BlockTool, BlockFresh, Fresh
<1>2. "assistant" # "toolResult"
  OBVIOUS
<1>3. CASE x.type = "message" /\ x.role = "assistant" /\ ~x.error /\ x.id = n
  BY <1>2, <1>3, Zenon DEF BlockTool, BlockFresh, Fresh
<1>4. CASE x.type = "message" /\ x.role = "toolResult" /\ x.id \in open
  BY <1>2, <1>4, Zenon DEF BlockTool, BlockFresh, Fresh
<1> QED  BY <1>1, <1>3, <1>4

LEMMA PiToolLines ==
  ASSUME NEW n, NEW open, NEW row \in PiMayWrite(n, open)
  PROVE  BlockTool(row) /\ BlockFresh(row, n, open)
<1> DEFINE Fits(x) == BlockTool(x) /\ BlockFresh(x, n, open)
           A == {PiRow("session", "", ""), PiRow("model_change", "", "words"),
                 PiRow("message", "assistant", "words"), PiRow("message", "user", "words"),
                 PiRow("message", "user", "plumbing"), PiRow("message", "bashExecution", "words"),
                 [PiRow("message", "assistant", "") EXCEPT !.id = n]}
<1>1. PiMayWrite(n, open) = A \cup PiResults(open)
  BY Zenon DEF PiMayWrite
<1>2. ASSUME NEW s, NEW t, NEW u, NEW x, x = PiRow(s, t, u) PROVE Fits(x)
  <2>1. x.id = 0 /\ ~x.error
    BY <1>2 DEF PiRow
  <2> QED  BY <2>1, BlockLines, Zenon
<1>3. ASSUME NEW x, x = [PiRow("message", "assistant", "") EXCEPT !.id = n] PROVE Fits(x)
  <2>1. x.type = "message" /\ x.role = "assistant" /\ ~x.error /\ x.id = n
    BY <1>3 DEF PiRow
  <2> QED  BY <2>1, BlockLines, Zenon
<1> HIDE DEF Fits
<1>4. \A x \in A : Fits(x)
  BY <1>2, <1>3, Zenon
<1>5. ASSUME NEW x \in PiResults(open) PROVE Fits(x)
  <2>1. PICK c \in open : \E e \in BOOLEAN : x = PiResult(c, e)
    BY <1>5 DEF PiResults
  <2>2. PICK e : x = PiResult(c, e)
    BY <2>1
  <2>3. x.type = "message" /\ x.role = "toolResult" /\ x.id = c
    BY <2>2 DEF PiRow, PiResult
  <2>4. x.id \in open
    BY <2>3
  <2> QED  BY <2>3, <2>4, BlockLines, Zenon DEF Fits
<1> HIDE DEF A
<1>6. Fits(row)
  BY <1>1, <1>4, <1>5
<1> QED  BY <1>6 DEF Fits

LEMMA ClawToolLines ==
  ASSUME NEW n, NEW open, NEW row \in ClawMayWrite(n, open)
  PROVE  BlockTool(row) /\ BlockFresh(row, n, open)
<1> DEFINE Fits(x) == BlockTool(x) /\ BlockFresh(x, n, open)
           A == {ClawRow("session", "", ""), ClawRow("model_change", "", "words"), ClawRow("message", "user", "words"),
                 ClawRow("message", "user", "plumbing")}
           B == {[ClawRow("message", "assistant", "words") EXCEPT !.stop = s] : s \in ClawStopReasons}
           C == {[ClawRow("message", "assistant", "") EXCEPT !.id = n, !.stop = "toolUse"]}
<1>1. ClawMayWrite(n, open) = A \cup B \cup C \cup ClawResults(open)
  BY Zenon DEF ClawMayWrite
<1>2. ASSUME NEW s, NEW t, NEW u, NEW x, x = ClawRow(s, t, u) PROVE Fits(x)
  <2>1. x.id = 0 /\ ~x.error
    BY <1>2 DEF ClawRow
  <2> QED  BY <2>1, BlockLines, Zenon
<1>3. ASSUME NEW s, NEW x, x = [ClawRow("message", "assistant", "words") EXCEPT !.stop = s] PROVE Fits(x)
  <2>1. x.id = 0 /\ ~x.error
    BY <1>3 DEF ClawRow
  <2> QED  BY <2>1, BlockLines, Zenon
<1>4. ASSUME NEW x, x = [ClawRow("message", "assistant", "") EXCEPT !.id = n, !.stop = "toolUse"] PROVE Fits(x)
  <2>1. x.type = "message" /\ x.role = "assistant" /\ ~x.error /\ x.id = n
    BY <1>4 DEF ClawRow
  <2> QED  BY <2>1, BlockLines, Zenon
<1> HIDE DEF Fits
<1>5. \A x \in A : Fits(x)
  BY <1>2, Zenon
<1>6. \A x \in B : Fits(x)
  BY <1>3, Zenon
<1>7. \A x \in C : Fits(x)
  BY <1>4, Zenon
<1>8. ASSUME NEW x \in ClawResults(open) PROVE Fits(x)
  <2>1. PICK c \in open : \E e \in BOOLEAN : x = ClawResult(c, e)
    BY <1>8 DEF ClawResults
  <2>2. PICK e : x = ClawResult(c, e)
    BY <2>1
  <2>3. x.type = "message" /\ x.role = "toolResult" /\ x.id = c
    BY <2>2 DEF ClawRow, ClawResult
  <2>4. x.id \in open
    BY <2>3
  <2> QED  BY <2>3, <2>4, BlockLines, Zenon DEF Fits
<1> HIDE DEF A, B, C
<1>9. Fits(row)
  BY <1>1, <1>5, <1>6, <1>7, <1>8
<1> QED  BY <1>9 DEF Fits

GrokFresh(r, n, open) == Fresh(IF r.kind = "call" THEN r.id ELSE 0, IF r.kind \in {"done", "failed"} THEN r.id ELSE 0, n, open)

GrokTool(r) == r.kind = "call" => r.id # 0

LEMMA GrokToolLines ==
  ASSUME NEW n, n # 0, NEW open, NEW row \in GrokMayHappen(n, open)
  PROVE  GrokTool(row) /\ GrokFresh(row, n, open)
<1>1. \/ row.kind \in {"ask", "think", "say", "hook", "end"} /\ row.id = 0
      \/ row.kind = "call" /\ row.id = n
      \/ row.kind \in {"retitle", "done", "failed"} /\ row.id \in open
  BY DEF GrokMayHappen
<1>2. CASE row.kind # "call" /\ row.kind \notin {"done", "failed"}
  BY <1>2, Zenon DEF GrokTool, GrokFresh, Fresh
<1>3. CASE row.kind = "call" /\ row.id = n
  <2>1. row.kind \notin {"done", "failed"}
    BY <1>3
  <2> QED  BY <1>3, <2>1, Zenon DEF GrokTool, GrokFresh, Fresh
<1>4. CASE row.kind \in {"done", "failed"} /\ row.id \in open
  <2>1. row.kind # "call"
    BY <1>4
  <2> QED  BY <1>4, <2>1, Zenon DEF GrokTool, GrokFresh, Fresh
<1> QED  BY <1>1, <1>2, <1>3, <1>4

\* dsh, whose rows come again: a row that is not one of before is new.
DshTool(r) == r.error => r.type = "tool/result"
DshFresh(r, n, open) == Fresh(IF r.type = "assistant/message" THEN r.call ELSE 0, IF r.type = "tool/result" THEN r.call ELSE 0, n, open)

LEMMA DshToolLines ==
  ASSUME NEW w, Len(w) \in Nat, NEW open, NEW row \in DshMayWrite(w, open),
         \A i \in 1..Len(w) : \E n \in 1..Len(w) : DshLine(w[i], n)
  PROVE  \/ /\ row.id = Len(w) + 1 /\ ~row.replaces
            /\ DshTool(row) /\ DshFresh(row, Len(w) + 1, open)
         \/ \E i \in 1..Len(w) : row.id = w[i].id /\ DshSame(row, w[i])
<1>1. PICK n \in Nat : n = Len(w) + 1
  OBVIOUS
<1> DEFINE Fits(x) == x.id = n /\ ~x.replaces /\ DshTool(x) /\ DshFresh(x, n, open)
           A == {DshRow("user/message", n, "words"), DshRow("user/message", n, ""),
                 [DshRow("user/message", n, "words") EXCEPT !.injected = TRUE],
                 DshRow("assistant/message", n, "words"),
                 [DshRow("assistant/message", n, "") EXCEPT !.call = n], DshRow("turn/end", n, "")}
<1>2. ASSUME NEW x, x.id = n, ~x.replaces, ~x.error, x.call = 0 PROVE Fits(x)
  BY <1>2, Zenon DEF DshTool, DshFresh, Fresh
<1>3. ASSUME NEW x, x.id = n, ~x.replaces, ~x.error, x.call = n, x.type = "assistant/message" PROVE Fits(x)
  <2>1. "assistant/message" # "tool/result"
    OBVIOUS
  <2> QED  BY <1>3, <2>1, Zenon DEF DshTool, DshFresh, Fresh
<1>4. ASSUME NEW x, x.id = n, ~x.replaces, x.call \in open, x.type = "tool/result" PROVE Fits(x)
  <2>1. "assistant/message" # "tool/result"
    OBVIOUS
  <2> QED  BY <1>4, <2>1, Zenon DEF DshTool, DshFresh, Fresh
<1> HIDE DEF Fits
<1>5. ASSUME NEW s, NEW t, NEW x, x = DshRow(s, n, t) PROVE Fits(x)
  <2>1. x.id = n /\ ~x.replaces /\ ~x.error /\ x.call = 0
    BY <1>5 DEF DshRow
  <2> QED  BY <1>2, <2>1, Zenon
<1>6. ASSUME NEW x, x = [DshRow("user/message", n, "words") EXCEPT !.injected = TRUE] PROVE Fits(x)
  <2>1. x.id = n /\ ~x.replaces /\ ~x.error /\ x.call = 0
    BY <1>6 DEF DshRow
  <2> QED  BY <1>2, <2>1, Zenon
<1>7. ASSUME NEW x, x = [DshRow("assistant/message", n, "") EXCEPT !.call = n] PROVE Fits(x)
  <2>1. x.id = n /\ ~x.replaces /\ ~x.error /\ x.call = n /\ x.type = "assistant/message"
    BY <1>7 DEF DshRow
  <2> QED  BY <1>3, <2>1, Zenon
<1>8. ASSUME NEW x \in A PROVE Fits(x)
  <2>1. \/ \E s, t : x = DshRow(s, n, t)
        \/ x = [DshRow("user/message", n, "words") EXCEPT !.injected = TRUE]
        \/ x = [DshRow("assistant/message", n, "") EXCEPT !.call = n]
    BY <1>8, Zenon
  <2> QED  BY <1>5, <1>6, <1>7, <2>1, Zenon
<1>9. ASSUME NEW x \in DshResults(n, open) PROVE Fits(x)
  <2>1. PICK c \in open : \E e \in BOOLEAN : x = DshResult(n, c, e)
    BY <1>9 DEF DshResults
  <2>2. PICK e : x = DshResult(n, c, e)
    BY <2>1
  <2>3. x.id = n /\ x.call = c /\ x.type = "tool/result"
    BY <2>2 DEF DshRow, DshResult
  <2>4. ~x.replaces
    BY <2>2 DEF DshRow, DshResult
  <2>5. x.call \in open
    BY <2>3
  <2> QED  BY <1>4, <2>3, <2>4, <2>5, Zenon
<1>10. ASSUME NEW x \in DshAgain(w) PROVE \E i \in 1..Len(w) : x.id = w[i].id /\ DshSame(x, w[i])
  <2>1. PICK i \in 1..Len(w) : x = w[i] \/ x = DshReplaced(w[i])
    BY <1>10 DEF DshAgain
  <2>2. DshLine(w[i], w[i].id)
    BY Zenon DEF DshLine
  <2>3. DshSame(w[i], w[i])
    BY Zenon DEF DshSame
  <2>4. DshLine(x, w[i].id) /\ DshSame(x, w[i])
    BY ONLY <2>1, <2>2, <2>3, DshIsReplaced, Zenon
  <2> QED  BY <2>4, Zenon DEF DshLine
<1>11. (row = DshRow("session", 1, "") /\ n = 1) \/ row \in A \cup DshResults(n, open) \cup DshAgain(w)
  <2>1. CASE w = <<>>
    <3>1. PICK s : s = DshRow("session", 1, "")
      OBVIOUS
    <3>2. DshMayWrite(w, open) = {s}
      BY <2>1, <3>1, Zenon DEF DshMayWrite
    <3>3. row = s
      <4>1. row \in DshMayWrite(w, open)
        OBVIOUS
      <4> QED  BY ONLY <3>2, <4>1, Zenon
    <3>4. n = 1
      BY <1>1, <2>1
    <3> QED  BY ONLY <3>1, <3>3, <3>4, Zenon
  <2>2. CASE w # <<>>
    BY <1>1, <2>2, Zenon DEF DshMayWrite
  <2> QED  BY <2>1, <2>2
<1> HIDE DEF A
<1>12. Fits(row) \/ \E i \in 1..Len(w) : row.id = w[i].id /\ DshSame(row, w[i])
  BY <1>5, <1>8, <1>9, <1>10, <1>11, Zenon
<1> QED  BY <1>1, <1>12, Zenon DEF Fits

\* Of n rows, those of O being the first with their id: a call has the number of
\* the row that makes it, a result is of a call before it, and of one call there
\* is one result.
Pairs(n, O, call, result) ==
  /\ \A i \in 1..n : call[i] # 0 => call[i] \in 1..i /\ call[call[i]] = call[i]
  /\ \A i \in 1..n : i \in O /\ call[i] # 0 => call[i] = i
  /\ \A j \in 1..n : result[j] # 0 => result[j] \in 1..j - 1 /\ call[result[j]] = result[j]
  /\ \A i \in 1..n, j \in 1..n : i \in O /\ j \in O /\ result[i] # 0 /\ result[i] = result[j] => i = j

\* One row more that says the same of calls as one before
LEMMA PairsStayCopied ==
  ASSUME NEW n \in Nat, NEW O, NEW call, NEW result, Pairs(n, O, call, result),
         NEW P, NEW calls, NEW results, \A i \in 1..n : calls[i] = call[i] /\ results[i] = result[i] /\ (i \in P <=> i \in O),
         n + 1 \notin P, NEW k \in 1..n, calls[n + 1] = call[k], results[n + 1] = result[k]
  PROVE  Pairs(n + 1, P, calls, results)
<1>1. PICK m \in Nat : m = n + 1 /\ \A i \in 1..m : i = m \/ i \in 1..n
  OBVIOUS
<1>2. ASSUME NEW i \in 1..m, calls[i] # 0 PROVE calls[i] \in 1..i /\ calls[calls[i]] = calls[i]
  <2>1. CASE i \in 1..n
    <3>1. call[i] \in 1..i /\ call[call[i]] = call[i]
      BY <1>2, <2>1 DEF Pairs
    <3> QED  BY <2>1, <3>1
  <2>2. CASE i = m
    <3>1. call[k] \in 1..k /\ call[call[k]] = call[k]
      BY <1>1, <1>2, <2>2 DEF Pairs
    <3> QED  BY <1>1, <2>2, <3>1
  <2> QED  BY <1>1, <2>1, <2>2
<1>3. ASSUME NEW i \in 1..m, i \in P, calls[i] # 0 PROVE calls[i] = i
  BY <1>1, <1>3 DEF Pairs
<1>4. ASSUME NEW j \in 1..m, results[j] # 0 PROVE results[j] \in 1..j - 1 /\ calls[results[j]] = results[j]
  <2>1. CASE j \in 1..n
    <3>1. result[j] \in 1..j - 1 /\ call[result[j]] = result[j]
      BY <1>4, <2>1 DEF Pairs
    <3> QED  BY <2>1, <3>1
  <2>2. CASE j = m
    <3>1. result[k] \in 1..k - 1 /\ call[result[k]] = result[k]
      BY <1>1, <1>4, <2>2 DEF Pairs
    <3> QED  BY <1>1, <2>2, <3>1
  <2> QED  BY <1>1, <2>1, <2>2
<1>5. ASSUME NEW i \in 1..m, NEW j \in 1..m, i \in P, j \in P, results[i] # 0, results[i] = results[j] PROVE i = j
  <2>1. i \in 1..n /\ j \in 1..n
    BY <1>1, <1>5
  <2> QED  BY <1>5, <2>1 DEF Pairs
<1> QED  BY ONLY <1>1, <1>2, <1>3, <1>4, <1>5 DEF Pairs

Unanswered(n, call, result, open) ==
  \A c \in open : c # 0 => (\E i \in 1..n : call[i] = c) /\ ~\E j \in 1..n : result[j] = c

\* One row more that makes a call, or answers one that was not answered, or neither
LEMMA PairsStayFresh ==
  ASSUME NEW n \in Nat, NEW O, NEW call, NEW result, Pairs(n, O, call, result),
         NEW P, NEW calls, NEW results, \A i \in 1..n : calls[i] = call[i] /\ results[i] = result[i] /\ (i \in P <=> i \in O),
         NEW open, Fresh(calls[n + 1], results[n + 1], n + 1, open),
         Unanswered(n, call, result, open)
  PROVE  Pairs(n + 1, P, calls, results)
<1>1. PICK m \in Nat : m = n + 1 /\ \A i \in 1..m : i = m \/ i \in 1..n
  OBVIOUS
<1>2. ASSUME NEW i \in 1..m, calls[i] # 0
      PROVE  calls[i] \in 1..i /\ calls[calls[i]] = calls[i] /\ (i \in P => calls[i] = i)
  <2>1. CASE i \in 1..n
    <3>1. call[i] \in 1..i /\ call[call[i]] = call[i] /\ (i \in O => call[i] = i)
      BY <1>2, <2>1 DEF Pairs
    <3> QED  BY <2>1, <3>1
  <2>2. CASE i = m
    <3>1. calls[m] = m
      BY <1>1, <1>2, <2>2 DEF Fresh
    <3> QED  BY <1>1, <2>2, <3>1
  <2> QED  BY <1>1, <2>1, <2>2
<1>3. ASSUME results[m] # 0
      PROVE  results[m] \in 1..n /\ calls[results[m]] = results[m] /\ ~\E j \in 1..n : result[j] = results[m]
  <2>1. results[m] \in open
    BY <1>1, <1>3 DEF Fresh
  <2>2. PICK i \in 1..n : call[i] = results[m]
    BY <1>3, <2>1 DEF Unanswered
  <2>3. call[i] \in 1..i /\ call[call[i]] = call[i]
    BY <1>3, <2>2 DEF Pairs
  <2> QED  BY <1>3, <2>1, <2>2, <2>3 DEF Unanswered
<1>4. ASSUME NEW j \in 1..m, results[j] # 0 PROVE results[j] \in 1..j - 1 /\ calls[results[j]] = results[j]
  <2>1. CASE j \in 1..n
    <3>1. result[j] \in 1..j - 1 /\ call[result[j]] = result[j]
      BY <1>4, <2>1 DEF Pairs
    <3> QED  BY <2>1, <3>1
  <2>2. CASE j = m
    BY <1>1, <1>3, <1>4, <2>2
  <2> QED  BY <1>1, <2>1, <2>2
<1>5. ASSUME NEW i \in 1..m, NEW j \in 1..m, i \in P, j \in P, results[i] # 0, results[i] = results[j] PROVE i = j
  <2>1. CASE i \in 1..n /\ j \in 1..n
    BY <1>5, <2>1 DEF Pairs
  <2>2. CASE i = m /\ j \in 1..n
    BY <1>3, <1>5, <2>2
  <2>3. CASE j = m /\ i \in 1..n
    BY <1>3, <1>5, <2>3
  <2> QED  BY <1>1, <2>1, <2>2, <2>3
<1> QED  BY ONLY <1>1, <1>2, <1>4, <1>5 DEF Pairs

\* What the rows of a transcript say of calls, whatever its format
ToolRow(f, r) ==
  CASE f \in {"claude", "claude-sub"} -> ClaudeTool(r, f = "claude-sub")
    [] f \in {"codex", "codex-totals"} -> CodexTool(r)
    [] f = "gemini" -> GeminiTool(r)
    [] f \in {"pi", "openclaw"} -> BlockTool(r)
    [] f = "grok" -> GrokTool(r)
    [] f = "dsh" -> DshTool(r)
    [] OTHER -> TRUE

LEMMA NewRowTells ==
  ASSUME format \in Formats, Len(log) \in Nat, format = "dsh" => DshWritten(log), NEW row \in MayWrite
  PROVE  \/ /\ ToolRow(format, row) /\ (format = "dsh" => row.id = Len(log) + 1 /\ ~row.replaces)
            /\ Fresh(CallIn(format, row), ResultIn(format, row), Len(log) + 1, OpenCalls)
         \/ format = "dsh" /\ \E i \in 1..Len(log) : row.id = log[i].id /\ DshSame(row, log[i])
<1>1. PICK n \in Nat : n = Len(log) + 1 /\ n # 0
  OBVIOUS
<1>2. PICK open : open = OpenCalls
  OBVIOUS
<1>3. row \in MayWrite
  OBVIOUS
<1>4. CASE format = "claude"
  <2>1. row \in ClaudeMayWrite(n, open, FALSE)
    BY ONLY <1>1, <1>2, <1>3, <1>4, Zenon DEF MayWrite
  <2>2. ClaudeTool(row, FALSE) /\ ClaudeFresh(row, n, open)
    BY ONLY <2>1, ClaudeToolLines, Zenon
  <2>3. ToolRow(format, row) <=> ClaudeTool(row, format = "claude-sub")
    BY ONLY <1>4, Zenon DEF ToolRow
  <2>4. (format = "claude-sub") = FALSE
    BY ONLY <1>4
  <2>5. ToolRow(format, row)
    BY ONLY <2>2, <2>3, <2>4, Zenon
  <2>6. Fresh(CallIn(format, row), ResultIn(format, row), n, open)
    BY ONLY <1>4, <2>2, Zenon DEF CallIn, ResultIn, ClaudeFresh
  <2> QED  BY ONLY <1>1, <1>2, <1>4, <2>5, <2>6
<1>5. CASE format = "claude-sub"
  <2>1. row \in ClaudeMayWrite(n, open, TRUE)
    BY ONLY <1>1, <1>2, <1>3, <1>5, Zenon DEF MayWrite
  <2>2. ClaudeTool(row, TRUE) /\ ClaudeFresh(row, n, open)
    BY ONLY <2>1, ClaudeToolLines, Zenon
  <2>3. ToolRow(format, row) <=> ClaudeTool(row, format = "claude-sub")
    BY ONLY <1>5, Zenon DEF ToolRow
  <2>4. (format = "claude-sub") = TRUE
    BY ONLY <1>5
  <2>5. ToolRow(format, row)
    BY ONLY <2>2, <2>3, <2>4, Zenon
  <2>6. Fresh(CallIn(format, row), ResultIn(format, row), n, open)
    BY ONLY <1>5, <2>2, Zenon DEF CallIn, ResultIn, ClaudeFresh
  <2> QED  BY ONLY <1>1, <1>2, <1>5, <2>5, <2>6
<1>6. CASE format = "codex"
  <2>1. row \in CodexMayWrite(n, open, Turns, Due, FALSE)
    BY ONLY <1>1, <1>2, <1>3, <1>6, Zenon DEF MayWrite
  <2>2. CodexTool(row) /\ CodexFresh(row, n, open)
    BY ONLY <2>1, CodexToolLines, Zenon
  <2>3. ToolRow(format, row)
    BY ONLY <1>6, <2>2, Zenon DEF ToolRow
  <2>4. Fresh(CallIn(format, row), ResultIn(format, row), n, open)
    BY ONLY <1>6, <2>2, Zenon DEF CallIn, ResultIn, CodexFresh
  <2> QED  BY ONLY <1>1, <1>2, <1>6, <2>3, <2>4
<1>7. CASE format = "codex-totals"
  <2>1. row \in CodexMayWrite(n, open, Turns, Turns > 0, TRUE)
    BY ONLY <1>1, <1>2, <1>3, <1>7, Zenon DEF MayWrite
  <2>2. CodexTool(row) /\ CodexFresh(row, n, open)
    BY ONLY <2>1, CodexToolLines, Zenon
  <2>3. ToolRow(format, row)
    BY ONLY <1>7, <2>2, Zenon DEF ToolRow
  <2>4. Fresh(CallIn(format, row), ResultIn(format, row), n, open)
    BY ONLY <1>7, <2>2, Zenon DEF CallIn, ResultIn, CodexFresh
  <2> QED  BY ONLY <1>1, <1>2, <1>7, <2>3, <2>4
<1>8. CASE format = "gemini"
  <2>1. \E b : row \in GeminiMayWrite(n, open, b)
    BY ONLY <1>1, <1>2, <1>3, <1>8, Zenon DEF MayWrite
  <2>2. 0 \notin open
    <3>1. OpenCalls = {log[i].id : i \in {j \in 1..Len(log) : log[j].id # 0 /\ log[j].type = "gemini"}}
                        \ {log[i].id : i \in {j \in 1..Len(log) : log[j].id # 0 /\ log[j].type = "user"}}
      BY ONLY <1>8, Zenon DEF OpenCalls
    <3> QED  BY ONLY <1>2, <3>1
  <2>3. GeminiTool(row) /\ GeminiFresh(row, n, open)
    BY ONLY <1>1, <2>1, <2>2, GeminiToolLines, Zenon
  <2>4. ToolRow(format, row)
    BY ONLY <1>8, <2>3, Zenon DEF ToolRow
  <2>5. Fresh(CallIn(format, row), ResultIn(format, row), n, open)
    BY ONLY <1>8, <2>3, Zenon DEF CallIn, ResultIn, GeminiFresh
  <2> QED  BY ONLY <1>1, <1>2, <1>8, <2>4, <2>5
<1>9. CASE format = "pi"
  <2>1. row \in PiMayWrite(n, open)
    BY ONLY <1>1, <1>2, <1>3, <1>9, Zenon DEF MayWrite
  <2>2. BlockTool(row) /\ BlockFresh(row, n, open)
    BY ONLY <2>1, PiToolLines, Zenon
  <2>3. ToolRow(format, row)
    BY ONLY <1>9, <2>2, Zenon DEF ToolRow
  <2>4. Fresh(CallIn(format, row), ResultIn(format, row), n, open)
    BY ONLY <1>9, <2>2, Zenon DEF CallIn, ResultIn, BlockFresh
  <2> QED  BY ONLY <1>1, <1>2, <1>9, <2>3, <2>4
<1>10. CASE format = "openclaw"
  <2>1. row \in ClawMayWrite(n, open)
    BY ONLY <1>1, <1>2, <1>3, <1>10, Zenon DEF MayWrite
  <2>2. BlockTool(row) /\ BlockFresh(row, n, open)
    BY ONLY <2>1, ClawToolLines, Zenon
  <2>3. ToolRow(format, row)
    BY ONLY <1>10, <2>2, Zenon DEF ToolRow
  <2>4. Fresh(CallIn(format, row), ResultIn(format, row), n, open)
    BY ONLY <1>10, <2>2, Zenon DEF CallIn, ResultIn, BlockFresh
  <2> QED  BY ONLY <1>1, <1>2, <1>10, <2>3, <2>4
<1>11. CASE format = "grok"
  <2>1. row \in GrokMayHappen(n, open)
    BY ONLY <1>1, <1>2, <1>3, <1>11, Zenon DEF MayWrite
  <2>2. GrokTool(row) /\ GrokFresh(row, n, open)
    BY ONLY <1>1, <2>1, GrokToolLines
  <2>3. ToolRow(format, row)
    BY ONLY <1>11, <2>2, Zenon DEF ToolRow
  <2>4. Fresh(CallIn(format, row), ResultIn(format, row), n, open)
    BY ONLY <1>11, <2>2, Zenon DEF CallIn, ResultIn, GrokFresh
  <2> QED  BY ONLY <1>1, <1>2, <1>11, <2>3, <2>4
<1>12. CASE format = "antigravity"
  <2>1. ToolRow(format, row)
    BY ONLY <1>12, Zenon DEF ToolRow
  <2>2. CallIn(format, row) = 0 /\ ResultIn(format, row) = 0
    BY ONLY <1>12, Zenon DEF CallIn, ResultIn
  <2>3. Fresh(CallIn(format, row), ResultIn(format, row), n, open)
    BY ONLY <2>2, Zenon DEF Fresh
  <2> QED  BY ONLY <1>1, <1>2, <1>12, <2>1, <2>3
<1>13. CASE format = "dsh"
  <2>1. row \in DshMayWrite(log, open)
    BY ONLY <1>2, <1>3, <1>13, Zenon DEF MayWrite
  <2>2. Len(log) \in Nat /\ \A i \in 1..Len(log) : \E k \in 1..Len(log) : DshLine(log[i], k)
    BY <1>13 DEF DshWritten
  <2>3. \/ /\ row.id = Len(log) + 1 /\ ~row.replaces
           /\ DshTool(row) /\ DshFresh(row, Len(log) + 1, open)
        \/ \E i \in 1..Len(log) : row.id = log[i].id /\ DshSame(row, log[i])
    BY ONLY <2>1, <2>2, DshToolLines, Zenon
  <2>4. DshTool(row) => ToolRow(format, row)
    BY ONLY <1>13, Zenon DEF ToolRow
  <2>5. DshFresh(row, Len(log) + 1, open) => Fresh(CallIn(format, row), ResultIn(format, row), Len(log) + 1, open)
    BY ONLY <1>13, Zenon DEF CallIn, ResultIn, DshFresh
  <2> QED  BY ONLY <1>2, <1>13, <2>3, <2>4, <2>5, Zenon
<1> QED  BY ONLY <1>4, <1>5, <1>6, <1>7, <1>8, <1>9, <1>10, <1>11, <1>12, <1>13, format \in Formats, Zenon DEF Formats

\* The first row of each id, and the calls and results of all rows
OwnRows(f, w) == {i \in 1..Len(w) : f = "dsh" => w[i].id = i}
CallsOf(f, w) == [i \in 1..Len(w) |-> CallIn(f, w[i])]
ResultsOf(f, w) == [i \in 1..Len(w) |-> ResultIn(f, w[i])]
Matched(f, w) ==
  /\ \A i \in 1..Len(w) : ToolRow(f, w[i])
  /\ Pairs(Len(w), OwnRows(f, w), CallsOf(f, w), ResultsOf(f, w))
  /\ f = "dsh" => \A i \in 1..Len(w) : w[i].id \in 1..i /\ w[w[i].id].id = w[i].id /\ ~w[w[i].id].replaces

\* Rows that say the same make the same call and have the same result.
LEMMA SameTells ==
  ASSUME NEW r, NEW s, DshSame(r, s)
  PROVE  /\ CallIn("dsh", r) = CallIn("dsh", s) /\ ResultIn("dsh", r) = ResultIn("dsh", s)
         /\ ToolRow("dsh", s) => ToolRow("dsh", r)
<1>1. r.type = s.type /\ r.call = s.call /\ (r.error <=> s.error)
  BY Zenon DEF DshSame
<1>2. /\ CallIn("dsh", r) = IF r.type = "assistant/message" THEN r.call ELSE 0
      /\ CallIn("dsh", s) = IF s.type = "assistant/message" THEN s.call ELSE 0
  BY Zenon DEF CallIn
<1>3. /\ ResultIn("dsh", r) = IF r.type = "tool/result" THEN r.call ELSE 0
      /\ ResultIn("dsh", s) = IF s.type = "tool/result" THEN s.call ELSE 0
  BY Zenon DEF ResultIn
<1>4. (ToolRow("dsh", s) <=> (s.error => s.type = "tool/result")) /\ (ToolRow("dsh", r) <=> (r.error => r.type = "tool/result"))
  BY Zenon DEF ToolRow, DshTool
<1>5. CallIn("dsh", r) = CallIn("dsh", s) /\ ResultIn("dsh", r) = ResultIn("dsh", s)
  BY ONLY <1>1, <1>2, <1>3
<1>6. ToolRow("dsh", s) => ToolRow("dsh", r)
  BY ONLY <1>1, <1>4, Zenon
<1> QED  BY <1>5, <1>6

LEMMA MatchedStays ==
  ASSUME NEW f, NEW w, Len(w) \in Nat, Matched(f, w), NEW row, NEW open,
         \A c \in open : c # 0 => IsOpen(f, w, c),
         \/ /\ ToolRow(f, row) /\ (f = "dsh" => row.id = Len(w) + 1 /\ ~row.replaces)
            /\ Fresh(CallIn(f, row), ResultIn(f, row), Len(w) + 1, open)
         \/ f = "dsh" /\ \E i \in 1..Len(w) : row.id = w[i].id /\ DshSame(row, w[i]),
         NEW v, Len(v) = Len(w) + 1, v[Len(w) + 1] = row, \A i \in 1..Len(w) : v[i] = w[i]
  PROVE  Matched(f, v)
<1>1. PICK n \in Nat : n = Len(w)
  OBVIOUS
<1>2. PICK m \in Nat : m = n + 1 /\ m = Len(v) /\ \A i \in 1..m : i = m \/ i \in 1..n
  BY <1>1
<1>3. v[m] = row /\ \A i \in 1..n : v[i] = w[i] /\ i \in 1..m
  BY <1>1, <1>2
<1>4. PICK O, P : O = OwnRows(f, w) /\ P = OwnRows(f, v)
  OBVIOUS
<1>5. PICK call, calls : call = CallsOf(f, w) /\ calls = CallsOf(f, v)
  OBVIOUS
<1>6. PICK result, results : result = ResultsOf(f, w) /\ results = ResultsOf(f, v)
  OBVIOUS
<1>7. /\ \A i \in 1..n : call[i] = CallIn(f, w[i]) /\ result[i] = ResultIn(f, w[i])
      /\ \A i \in 1..m : calls[i] = CallIn(f, v[i]) /\ results[i] = ResultIn(f, v[i])
  BY <1>1, <1>2, <1>5, <1>6 DEF CallsOf, ResultsOf
<1>8. /\ \A i \in 1..n : i \in O <=> (f = "dsh" => w[i].id = i)
      /\ \A i \in 1..m : i \in P <=> (f = "dsh" => v[i].id = i)
  BY ONLY <1>1, <1>2, <1>4 DEF OwnRows
<1>9. \A i \in 1..n : calls[i] = call[i] /\ results[i] = result[i] /\ (i \in P <=> i \in O)
  BY ONLY <1>3, <1>7, <1>8, Zenon
<1>10. Pairs(n, O, call, result)
  BY ONLY <1>1, <1>4, <1>5, <1>6, Matched(f, w), Zenon DEF Matched
<1>11. /\ \A i \in 1..n : ToolRow(f, w[i])
       /\ f = "dsh" => \A i \in 1..n : w[i].id \in 1..i /\ w[w[i].id].id = w[i].id /\ ~w[w[i].id].replaces
  BY ONLY <1>1, Matched(f, w), Zenon DEF Matched
<1>12. m \in 1..m
  BY <1>2
<1>13. CASE /\ ToolRow(f, row) /\ (f = "dsh" => row.id = Len(w) + 1 /\ ~row.replaces)
            /\ Fresh(CallIn(f, row), ResultIn(f, row), Len(w) + 1, open)
  <2>1. ToolRow(f, row) /\ (f = "dsh" => row.id = m /\ ~row.replaces)
    BY <1>1, <1>2, <1>13
  <2>2. Fresh(calls[n + 1], results[n + 1], n + 1, open)
    BY <1>1, <1>2, <1>3, <1>7, <1>12, <1>13
  <2>3. Unanswered(n, call, result, open)
    <3>1. \A c \in open : c # 0 => IsOpen(f, w, c)
      OBVIOUS
    <3> QED  BY ONLY <1>1, <1>7, <3>1 DEF IsOpen, Unanswered
  <2>4. Pairs(n + 1, P, calls, results)
    BY ONLY n \in Nat, <1>9, <1>10, <2>2, <2>3, PairsStayFresh, Zenon
  <2>5. \A i \in 1..m : ToolRow(f, v[i])
    BY ONLY <1>2, <1>3, <1>11, <2>1, Zenon
  <2>6. f = "dsh" => \A i \in 1..m : v[i].id \in 1..i /\ v[v[i].id].id = v[i].id /\ ~v[v[i].id].replaces
    BY <1>2, <1>3, <1>11, <2>1
  <2> QED  BY ONLY <1>2, <1>4, <1>5, <1>6, <2>4, <2>5, <2>6, Zenon DEF Matched
<1>14. CASE f = "dsh" /\ \E i \in 1..Len(w) : row.id = w[i].id /\ DshSame(row, w[i])
  <2>1. PICK k \in 1..n : row.id = w[k].id /\ DshSame(row, w[k])
    BY <1>1, <1>14
  <2>2. /\ CallIn(f, row) = CallIn(f, w[k]) /\ ResultIn(f, row) = ResultIn(f, w[k])
        /\ ToolRow(f, row)
    BY ONLY <1>11, <1>14, <2>1, SameTells, Zenon
  <2>3. w[k].id \in 1..k
    BY ONLY <1>11, <1>14, <2>1
  <2>4. m \notin P
    BY <1>2, <1>3, <1>8, <1>12, <1>14, <2>1, <2>3
  <2>5. calls[n + 1] = call[k] /\ results[n + 1] = result[k] /\ n + 1 \notin P
    BY <1>2, <1>3, <1>7, <1>12, <2>2, <2>4
  <2>6. Pairs(n + 1, P, calls, results)
    BY ONLY n \in Nat, <1>9, <1>10, <2>1, <2>5, PairsStayCopied, Zenon
  <2>7. \A i \in 1..m : ToolRow(f, v[i])
    BY ONLY <1>2, <1>3, <1>11, <2>2, Zenon
  <2>8. \A i \in 1..m : v[i].id \in 1..i /\ v[v[i].id].id = v[i].id /\ ~v[v[i].id].replaces
    <3>1. ASSUME NEW i \in 1..n
          PROVE  v[i].id \in 1..i /\ v[v[i].id].id = v[i].id /\ ~v[v[i].id].replaces
      <4>1. w[i].id \in 1..i /\ w[w[i].id].id = w[i].id /\ ~w[w[i].id].replaces
        BY <1>11, <1>14
      <4> QED  BY <1>3, <4>1
    <3>2. v[m].id = v[k].id /\ v[k].id \in 1..k
      BY <1>3, <2>1, <2>3
    <3>3. v[v[k].id].id = v[k].id /\ ~v[v[k].id].replaces
      BY <3>1
    <3>4. v[m].id \in 1..m /\ v[v[m].id].id = v[m].id /\ ~v[v[m].id].replaces
      BY <1>2, <3>2, <3>3
    <3> QED  BY <1>2, <3>1, <3>4
  <2> QED  BY ONLY <1>2, <1>4, <1>5, <1>6, <2>6, <2>7, <2>8, Zenon DEF Matched
<1> QED  BY <1>13, <1>14

\* Calls and results are matched in every transcript.
LEMMA MatchedInv == TranscriptsSpec => [](format \in Formats /\ Written /\ Matched(format, log))
<1> DEFINE Inv == Matched(format, log)
<1>1. TranscriptsInit => Inv
  <2> SUFFICES ASSUME TranscriptsInit PROVE Matched(format, log)
    OBVIOUS
  <2>1. log = <<>>
    BY DEF TranscriptsInit
  <2>2. Len(log) = 0 /\ 1..Len(log) = {}
    BY <2>1
  <2>3. \A O, call, result : Pairs(Len(log), O, call, result)
    BY ONLY <2>2 DEF Pairs
  <2> QED  BY ONLY <2>2, <2>3 DEF Matched
<1>2. /\ format \in Formats /\ Written /\ (format = "dsh" => DshWritten(log)) /\ Inv
      /\ [TranscriptsNext]_transcriptVars
      => Inv'
  <2> SUFFICES ASSUME format \in Formats, Written, format = "dsh" => DshWritten(log), Matched(format, log),
                      [TranscriptsNext]_transcriptVars
               PROVE  Matched(format', log')
    BY DEF Matched
  <2>1. CASE Write
    <3>1. PICK row \in MayWrite : log' = Append(log, row)
      BY <2>1 DEF Write
    <3>2. format' = format
      BY <2>1 DEF Write
    <3>3. /\ Len(log') = Len(log) + 1 /\ Len(log) \in Nat
          /\ log'[Len(log) + 1] = row /\ \A i \in 1..Len(log) : log'[i] = log[i]
      BY <3>1, AppendKeepsList DEF Written, IsList
    <3>4. \/ /\ ToolRow(format, row) /\ (format = "dsh" => row.id = Len(log) + 1 /\ ~row.replaces)
             /\ Fresh(CallIn(format, row), ResultIn(format, row), Len(log) + 1, OpenCalls)
          \/ format = "dsh" /\ \E i \in 1..Len(log) : row.id = log[i].id /\ DshSame(row, log[i])
      BY ONLY <3>1, <3>3, format \in Formats, format = "dsh" => DshWritten(log), NewRowTells, Zenon
    <3>5. PICK f, w, v, open : f = format /\ w = log /\ v = log' /\ open = OpenCalls
      OBVIOUS
    <3>6. \A c \in open : c # 0 => IsOpen(f, w, c)
      BY ONLY <3>5, OpenAre, format \in Formats, Zenon
    <3>7. Matched(f, v)
      BY ONLY <3>3, <3>4, <3>5, <3>6, MatchedStays, Matched(format, log), Zenon
    <3> QED  BY <3>2, <3>5, <3>7
  <2>2. CASE UNCHANGED transcriptVars
    BY <2>2 DEF transcriptVars
  <2> QED  BY <2>1, <2>2 DEF TranscriptsNext
<1> QED  BY <1>1, <1>2, WrittenInv, DshWrittenInv, PTL DEF TranscriptsSpec

\* Where a call failed its result says so; in Codex it may only do so in words, of
\* a patch.
CodexWords(r) == r.out = "failed" \/ (r.out \in {"header", "legacy", "rejected"} /\ r.exit > 0)
CodexWrong(w, i) == CodexWords(w[i]) \/ (w[i].out = "rejected" /\ CodexPatches(w, i, w[i].id))
Bad(f, w, i) ==
  CASE f \in {"claude", "claude-sub"} -> w[i].status \in {"error", "interrupted"}
    [] f \in {"codex", "codex-totals"} -> CodexWrong(w, i)
    [] f \in {"pi", "openclaw", "dsh"} -> w[i].error
    [] f = "grok" -> w[i].kind = "failed"
    [] OTHER -> FALSE

\* A patch is called for before it is answered.
LEMMA CodexPatchBefore ==
  ASSUME NEW f \in {"codex", "codex-totals"}, NEW w, Matched(f, w), NEW i \in 1..Len(w), NEW c, c # 0,
         ResultIn(f, w[i]) = c, NEW j \in 1..Len(w), w[j].sub = "apply_patch", w[j].id = c, Len(w) \in Nat
  PROVE  CodexPatches(w, i, c)
<1>1. PICK n \in Nat : n = Len(w)
  OBVIOUS
<1>2. PICK call, result : call = CallsOf(f, w) /\ result = ResultsOf(f, w)
  OBVIOUS
<1>3. PICK O : O = OwnRows(f, w)
  OBVIOUS
<1>4. Pairs(n, O, call, result)
  BY ONLY <1>1, <1>2, <1>3, Matched(f, w), Zenon DEF Matched
<1>5. CallIn(f, w[j]) = c
  <2>1. CallIn(f, w[j]) = IF w[j].sub \in CodexCalls THEN w[j].id ELSE 0
    BY ONLY f \in {"codex", "codex-totals"}, Zenon DEF CallIn
  <2>2. w[j].sub \in CodexCalls
    BY DEF CodexCalls
  <2> QED  BY <2>1, <2>2
<1>6. call[j] = c /\ result[i] = c /\ i \in 1..n /\ j \in 1..n
  BY <1>1, <1>2, <1>5 DEF CallsOf, ResultsOf
<1>7. j \in O
  <2>1. f # "dsh"
    OBVIOUS
  <2> QED  BY <1>3, <2>1 DEF OwnRows
<1>8. call[j] = j /\ result[i] \in 1..i - 1
  BY ONLY n \in Nat, <1>4, <1>6, <1>7, c # 0 DEF Pairs
<1>9. j \in 1..i - 1
  BY <1>6, <1>8
<1> QED  BY <1>9 DEF CodexPatches

LEMMA ErroredIs ==
  ASSUME format \in Formats \ {"gemini", "antigravity"}, Len(log) \in Nat, Matched(format, log), NEW c, c # 0
  PROVE  Errored(c) <=> \E i \in 1..Len(log) : ResultIn(format, log[i]) = c /\ Bad(format, log, i)
<1>1. \A i \in 1..Len(log) : ToolRow(format, log[i])
  BY Zenon DEF Matched
<1>2. CASE format \in {"claude", "claude-sub"}
  <2>1. Errored(c) <=> \E i \in 1..Len(log) : log[i].id = c /\ log[i].status \in {"error", "interrupted"}
    BY ONLY <1>2, Zenon DEF Errored
  <2>2. (\A r : ResultIn(format, r) = (IF r.type = "user" THEN r.id ELSE 0)) /\ \A i : Bad(format, log, i) <=> log[i].status \in {"error", "interrupted"}
    BY ONLY <1>2, Zenon DEF ResultIn, Bad
  <2>3. ASSUME NEW i \in 1..Len(log), log[i].id = c, log[i].status \in {"error", "interrupted"} PROVE log[i].type = "user"
    <3>1. ToolRow(format, log[i]) <=> ClaudeTool(log[i], format = "claude-sub")
      BY ONLY <1>2, Zenon DEF ToolRow
    <3>2. ClaudeTool(log[i], format = "claude-sub")
      BY ONLY <1>1, <2>3, <3>1, Zenon
    <3>3. log[i].status # ""
      BY ONLY <2>3
    <3> QED  BY ONLY <2>3, <3>2, <3>3, c # 0, Zenon DEF ClaudeTool
  <2> QED  BY ONLY <2>1, <2>2, <2>3, c # 0
<1>3. CASE format \in {"codex", "codex-totals"}
  <2>1. Errored(c) <=>
          \/ \E i \in 1..Len(log) : log[i].id = c /\ log[i].sub = "function_call_output" /\ CodexWords(log[i])
          \/ /\ \E i \in 1..Len(log) : log[i].id = c /\ log[i].sub = "function_call_output" /\ log[i].out = "rejected"
             /\ \E j \in 1..Len(log) : log[j].id = c /\ log[j].sub = "apply_patch"
    BY ONLY <1>3, Zenon DEF Errored, CodexWords
  <2>2. \A i : ResultIn(format, log[i]) = IF log[i].sub = "function_call_output" THEN log[i].id ELSE 0
    BY ONLY <1>3, Zenon DEF ResultIn
  <2>3. \A i : Bad(format, log, i) <=> CodexWrong(log, i)
    BY ONLY <1>3, Zenon DEF Bad
  <2>4. \A i : ResultIn(format, log[i]) = c <=> log[i].id = c /\ log[i].sub = "function_call_output"
    BY ONLY <2>2, c # 0
  <2>5. ASSUME NEW i \in 1..Len(log), ResultIn(format, log[i]) = c, CodexWrong(log, i) PROVE Errored(c)
    <3>1. CASE CodexWords(log[i])
      BY ONLY <2>1, <2>4, <2>5, <3>1, Zenon
    <3>2. CASE log[i].out = "rejected" /\ CodexPatches(log, i, c)
      <4>1. PICK j \in 1..(i - 1) : log[j].id = c /\ log[j].sub = "apply_patch"
        BY ONLY <3>2, Zenon DEF CodexPatches
      <4>2. j \in 1..Len(log)
        BY <2>5, <4>1
      <4> QED  BY ONLY <2>1, <2>4, <2>5, <3>2, <4>1, <4>2, Zenon
    <3>3. log[i].id = c
      BY ONLY <2>4, <2>5, Zenon
    <3> QED  BY ONLY <2>5, <3>1, <3>2, <3>3, Zenon DEF CodexWrong
  <2>6. ASSUME NEW i \in 1..Len(log), log[i].id = c, log[i].sub = "function_call_output", CodexWords(log[i])
        PROVE  ResultIn(format, log[i]) = c /\ Bad(format, log, i)
    BY ONLY <2>3, <2>4, <2>6, Zenon DEF CodexWrong
  <2>7. ASSUME NEW i \in 1..Len(log), log[i].id = c, log[i].sub = "function_call_output", log[i].out = "rejected",
               NEW j \in 1..Len(log), log[j].id = c, log[j].sub = "apply_patch"
        PROVE  ResultIn(format, log[i]) = c /\ Bad(format, log, i)
    <3>1. ResultIn(format, log[i]) = c
      BY ONLY <2>4, <2>7, Zenon
    <3>2. CodexPatches(log, i, c)
      BY ONLY <1>3, <2>7, <3>1, c # 0, Len(log) \in Nat, Matched(format, log), CodexPatchBefore
    <3> QED  BY ONLY <2>3, <2>7, <3>1, <3>2, Zenon DEF CodexWrong
  <2> QED  BY ONLY <2>1, <2>3, <2>5, <2>6, <2>7, Zenon
<1>4. CASE format \in {"pi", "openclaw"}
  <2>1. Errored(c) <=> \E i \in 1..Len(log) : log[i].id = c /\ log[i].error
    BY ONLY <1>4, Zenon DEF Errored
  <2>2. (\A r : ResultIn(format, r) = (IF r.role = "toolResult" THEN r.id ELSE 0)) /\ \A i : Bad(format, log, i) <=> log[i].error
    BY ONLY <1>4, Zenon DEF ResultIn, Bad
  <2>3. ASSUME NEW i \in 1..Len(log), log[i].id = c, log[i].error PROVE log[i].role = "toolResult"
    <3>1. BlockTool(log[i])
      BY ONLY <1>1, <1>4, <2>3, Zenon DEF ToolRow
    <3> QED  BY ONLY <2>3, <3>1, c # 0, Zenon DEF BlockTool
  <2>4. ASSUME NEW i \in 1..Len(log), log[i].id = c, log[i].error PROVE ResultIn(format, log[i]) = c /\ Bad(format, log, i)
    BY ONLY <2>2, <2>3, <2>4, Zenon
  <2>5. ASSUME NEW i \in 1..Len(log), ResultIn(format, log[i]) = c, Bad(format, log, i) PROVE log[i].id = c /\ log[i].error
    BY ONLY <2>2, <2>5, c # 0, Zenon
  <2> QED  BY ONLY <2>1, <2>4, <2>5, Zenon
<1>5. CASE format = "dsh"
  <2>1. Errored(c) <=> \E i \in 1..Len(log) : log[i].call = c /\ log[i].error
    BY ONLY <1>5, Zenon DEF Errored
  <2>2. (\A r : ResultIn(format, r) = (IF r.type = "tool/result" THEN r.call ELSE 0)) /\ \A i : Bad(format, log, i) <=> log[i].error
    BY ONLY <1>5, Zenon DEF ResultIn, Bad
  <2>3. ASSUME NEW i \in 1..Len(log), log[i].call = c, log[i].error PROVE log[i].type = "tool/result"
    <3>1. DshTool(log[i])
      BY ONLY <1>1, <1>5, <2>3, Zenon DEF ToolRow
    <3> QED  BY ONLY <2>3, <3>1, Zenon DEF DshTool
  <2>4. ASSUME NEW i \in 1..Len(log), log[i].call = c, log[i].error PROVE ResultIn(format, log[i]) = c /\ Bad(format, log, i)
    BY ONLY <2>2, <2>3, <2>4, Zenon
  <2>5. ASSUME NEW i \in 1..Len(log), ResultIn(format, log[i]) = c, Bad(format, log, i) PROVE log[i].call = c /\ log[i].error
    BY ONLY <2>2, <2>5, c # 0, Zenon
  <2> QED  BY ONLY <2>1, <2>4, <2>5, Zenon
<1>6. CASE format = "grok"
  <2>1. Errored(c) <=> \E i \in 1..Len(log) : log[i].id = c /\ log[i].kind = "failed"
    BY ONLY <1>6, Zenon DEF Errored
  <2>2. (\A r : ResultIn(format, r) = (IF r.kind \in {"done", "failed"} THEN r.id ELSE 0)) /\ \A i : Bad(format, log, i) <=> log[i].kind = "failed"
    BY ONLY <1>6, Zenon DEF ResultIn, Bad
  <2> QED  BY ONLY <2>1, <2>2, c # 0
<1> QED  BY ONLY <1>2, <1>3, <1>4, <1>5, <1>6, format \in Formats \ {"gemini", "antigravity"} DEF Formats

\* The first row with a result tells whether its call failed.
LEMMA FirstTells ==
  ASSUME format \in Formats \ {"gemini", "antigravity"}, Len(log) \in Nat, Matched(format, log),
         format = "dsh" => DshWritten(log), NEW c, c # 0
  PROVE  /\ \A j \in OwnRows(format, log) : ResultIn(format, log[j]) = c => (Bad(format, log, j) <=> Errored(c))
         /\ \A i \in 1..Len(log) : ResultIn(format, log[i]) = c =>
              \E j \in OwnRows(format, log) : ResultIn(format, log[j]) = c
<1>1. PICK f, w : f = format /\ w = log
  OBVIOUS
<1>2. PICK O : O = OwnRows(f, w)
  OBVIOUS
<1>3. O = OwnRows(f, w) /\ \A i : i \in O <=> i \in 1..Len(w) /\ (f = "dsh" => w[i].id = i)
  BY ONLY <1>2 DEF OwnRows
\* The first row of the same id
<1>4. ASSUME NEW i \in 1..Len(w), ResultIn(f, w[i]) = c
      PROVE  \E j \in O : ResultIn(f, w[j]) = c /\ (Bad(f, w, j) <=> Bad(f, w, i))
  <2>1. CASE f # "dsh"
    BY <1>3, <1>4, <2>1
  <2>2. CASE f = "dsh"
    <3>1. PICK j \in 1..Len(w) : j = w[i].id /\ w[j].id = j
      BY <1>1, <2>2 DEF Matched
    <3>2. DshSame(w[j], w[i])
      BY <1>1, <2>2, <3>1 DEF DshWritten
    <3>3. ResultIn(f, w[j]) = ResultIn(f, w[i])
      BY ONLY <2>2, <3>2, SameTells, Zenon
    <3>4. Bad(f, w, j) <=> Bad(f, w, i)
      <4>1. (Bad(f, w, j) <=> w[j].error) /\ (Bad(f, w, i) <=> w[i].error)
        BY ONLY <2>2, Zenon DEF Bad
      <4> QED  BY ONLY <3>2, <4>1, Zenon DEF DshSame
    <3>5. j \in O
      BY <1>3, <3>1
    <3> QED  BY ONLY <1>4, <3>3, <3>4, <3>5, Zenon
  <2> QED  BY <2>1, <2>2
<1>5. \A i \in O, j \in O : ResultIn(f, w[i]) = c /\ ResultIn(f, w[j]) = c => i = j
  <2>1. PICK result : result = ResultsOf(f, w)
    OBVIOUS
  <2>2. result = ResultsOf(f, w) /\ \A i \in 1..Len(w) : result[i] = ResultIn(f, w[i])
    BY ONLY <2>1 DEF ResultsOf
  <2>3. Pairs(Len(w), O, CallsOf(f, w), result)
    BY ONLY <1>1, <1>3, <2>2, Matched(format, log), Zenon DEF Matched
  <2> QED  BY <1>3, <2>2, <2>3 DEF Pairs
<1>6. Errored(c) <=> \E i \in 1..Len(w) : ResultIn(f, w[i]) = c /\ Bad(f, w, i)
  BY ONLY <1>1, ErroredIs, c # 0, format \in Formats \ {"gemini", "antigravity"}, Len(log) \in Nat, Matched(format, log), Zenon
<1>7. \A j \in O : ResultIn(f, w[j]) = c => (Bad(f, w, j) <=> Errored(c))
  <2> SUFFICES ASSUME NEW j \in O, ResultIn(f, w[j]) = c PROVE Bad(f, w, j) <=> Errored(c)
    OBVIOUS
  <2>1. j \in 1..Len(w)
    BY <1>3
  <2>2. ASSUME Bad(f, w, j) PROVE Errored(c)
    BY <1>6, <2>1, <2>2
  <2>3. ASSUME Errored(c) PROVE Bad(f, w, j)
    <3>1. PICK i \in 1..Len(w) : ResultIn(f, w[i]) = c /\ Bad(f, w, i)
      BY <1>6, <2>3
    <3>2. PICK k \in O : ResultIn(f, w[k]) = c /\ (Bad(f, w, k) <=> Bad(f, w, i))
      BY <1>4, <3>1
    <3>3. k = j
      BY <1>5, <3>2
    <3> QED  BY ONLY <3>1, <3>2, <3>3, Zenon
  <2> QED  BY <2>2, <2>3
<1> QED  BY ONLY <1>1, <1>3, <1>4, <1>7, Zenon

\* The rows that are no result of a failed call
Well(f, w) == {i \in 1..Len(w) : ~Bad(f, w, i)}

\* Where a message is of one row and says of calls what its row does, every call is
\* answered once.
LEMMA OwnRowsAnswer ==
  ASSUME format \in Formats \ {"gemini", "antigravity"}, Len(log) \in Nat, Matched(format, log),
         format = "dsh" => DshWritten(log), NEW n, n = Len(log), NEW rows, NEW S, S \subseteq OwnRows(format, log),
         \A i \in OwnRows(format, log) : ResultIn(format, log[i]) # 0 => i \in S,
         Told(Messages, n, rows, S, CallsOf(format, log), ResultsOf(format, log), Well(format, log))
  PROVE  AnsweredOnce
<1>1. PICK f, w : f = format /\ w = log
  OBVIOUS
<1>2. PICK O, good : O = OwnRows(f, w) /\ good = Well(f, w)
  OBVIOUS
<1>3. PICK call, result : call = CallsOf(f, w) /\ result = ResultsOf(f, w)
  OBVIOUS
<1>4. /\ n \in Nat /\ n = Len(w) /\ S \subseteq O /\ O \subseteq 1..n
      /\ \A i \in 1..n : i \in good <=> ~Bad(f, w, i)
      /\ \A i \in 1..n : call[i] = CallIn(f, w[i]) /\ result[i] = ResultIn(f, w[i])
  BY <1>1, <1>2, <1>3 DEF OwnRows, Well, CallsOf, ResultsOf
<1>5. Pairs(n, O, call, result)
  BY ONLY <1>1, <1>2, <1>3, <1>4, Matched(format, log), Zenon DEF Matched
<1>6. Paired(n, S, call, result)
  BY ONLY <1>4, <1>5 DEF Pairs, Paired
<1>7. ASSUME NEW c, c # 0
      PROVE  /\ c \in OpenCalls <=> IsOpen(f, w, c)
             /\ \A j \in O : ResultIn(f, w[j]) = c => (Bad(f, w, j) <=> Errored(c))
             /\ \A i \in 1..Len(w) : ResultIn(f, w[i]) = c => \E j \in O : ResultIn(f, w[j]) = c
  <2>1. format \in Formats
    OBVIOUS
  <2>2. /\ \A j \in OwnRows(format, log) : ResultIn(format, log[j]) = c => (Bad(format, log, j) <=> Errored(c))
        /\ \A i \in 1..Len(log) : ResultIn(format, log[i]) = c =>
             \E j \in OwnRows(format, log) : ResultIn(format, log[j]) = c
    BY ONLY <1>7, format \in Formats \ {"gemini", "antigravity"}, Len(log) \in Nat, Matched(format, log),
            format = "dsh" => DshWritten(log), FirstTells
  <2>3. c \in OpenCalls <=> IsOpen(format, log, c)
    BY ONLY <1>7, <2>1, OpenAre, Zenon
  <2> QED  BY ONLY <1>1, <1>2, <2>2, <2>3, Zenon
<1>8. \A j \in O : ResultIn(f, w[j]) # 0 => j \in S
  BY ONLY <1>1, <1>2, \A i \in OwnRows(format, log) : ResultIn(format, log[i]) # 0 => i \in S
<1>9. ASSUME NEW i \in 1..n, call[i] # 0, call[i] \notin OpenCalls
      PROVE  \E j \in 1..n : j \in S /\ result[j] = call[i]
  <2>1. PICK c : c = call[i] /\ c # 0
    BY <1>9
  <2>2. ~IsOpen(f, w, c)
    BY ONLY <1>7, <1>9, <2>1, Zenon
  <2>3. CallIn(f, w[i]) = c
    BY ONLY <1>4, <1>9, <2>1
  <2>4. PICK k \in 1..Len(w) : ResultIn(f, w[k]) = c
    BY ONLY <1>4, <1>9, <2>2, <2>3 DEF IsOpen
  <2>5. PICK j \in O : ResultIn(f, w[j]) = c
    BY ONLY <1>7, <2>1, <2>4, Zenon
  <2>6. j \in 1..n /\ j \in S
    BY ONLY <1>4, <1>8, <2>1, <2>5
  <2> QED  BY ONLY <1>4, <2>1, <2>5, <2>6
<1>10. ASSUME NEW j \in 1..n, j \in S, result[j] # 0
       PROVE  j \in good <=> ~Errored(result[j])
  <2>1. PICK c : c = result[j] /\ c # 0
    BY <1>10
  <2>2. j \in O /\ ResultIn(f, w[j]) = c
    BY ONLY <1>4, <1>10, <2>1
  <2>3. Bad(f, w, j) <=> Errored(c)
    BY ONLY <1>7, <2>1, <2>2, Zenon
  <2> QED  BY ONLY <1>4, <1>10, <2>1, <2>3, Zenon
<1>11. Concluded(n, S, call, result, good)
  BY ONLY <1>9, <1>10, Zenon DEF Concluded
<1>12. Told(Messages, n, rows, S, call, result, good)
  BY ONLY <1>1, <1>2, <1>3, Zenon,
          Told(Messages, n, rows, S, CallsOf(format, log), ResultsOf(format, log), Well(format, log))
<1> QED  BY ONLY <1>4, <1>6, <1>11, <1>12, RowsAnswered, Zenon

\* A message with at most one call and one answer, which are its row's
OneCall(c, d, called) == c = <<>> \/ (c = <<d>> /\ (d # 0 => called = d))
OneAnswer(s, b, name, status, answered, well) ==
  \/ s = <<>> /\ answered = 0
  \/ s = <<Answer(b, name, status)>> /\ answered = b /\ (b # 0 => name = CalledAs /\ (status = "ok" <=> well))

LEMMA PartsTell ==
  ASSUME NEW i, NEW role, NEW at, NEW t, NEW a, NEW e, NEW c, NEW s, NEW u,
         NEW m, m = MessageWith(i, role, at, t, a, e, c, s, u), NEW call, NEW reply, NEW good,
         NEW d, OneCall(c, d, call[i]),
         NEW b, NEW name, NEW status, OneAnswer(s, b, name, status, reply[i], i \in good)
  PROVE  Tells(m, i, call, reply, good)
<1>1. m.row = i /\ m.calls = c /\ m.results = s
  BY ONLY m = MessageWith(i, role, at, t, a, e, c, s, u), PartsOf
<1>2. \A k \in DOMAIN c : c[k] # 0 => c[k] = call[i]
  <2>1. CASE c = <<>>
    BY ONLY <2>1
  <2>2. CASE c = <<d>> /\ (d # 0 => call[i] = d)
    BY ONLY <2>2
  <2> QED  BY ONLY <2>1, <2>2, OneCall(c, d, call[i]), Zenon DEF OneCall
<1>3. /\ \A k \in DOMAIN s : s[k].call # 0 =>
           /\ k = 1 /\ s[k].call = reply[i] /\ s[k].name = CalledAs
           /\ s[k].status = "ok" <=> i \in good
      /\ reply[i] # 0 => 1 \in DOMAIN s /\ s[1].call = reply[i]
  <2>1. CASE s = <<>> /\ reply[i] = 0
    BY ONLY <2>1
  <2>2. CASE s = <<Answer(b, name, status)>> /\ reply[i] = b /\ (b # 0 => name = CalledAs /\ (status = "ok" <=> i \in good))
    <3>1. PICK x : x = Answer(b, name, status)
      OBVIOUS
    <3>2. x.call = b /\ x.name = name /\ x.status = status
      BY ONLY <3>1 DEF Answer
    <3>3. DOMAIN s = {1} /\ s[1] = x
      BY ONLY <2>2, <3>1
    <3>4. \A k \in DOMAIN s : k = 1 /\ s[k] = x
      BY ONLY <3>3
    <3>5. 1 \in DOMAIN s
      BY ONLY <3>3
    <3>6. reply[i] = b /\ (b # 0 => name = CalledAs /\ (status = "ok" <=> i \in good))
      BY ONLY <2>2
    <3> QED  BY ONLY <3>2, <3>3, <3>4, <3>5, <3>6, Zenon
  <2> QED  BY ONLY <2>1, <2>2, OneAnswer(s, b, name, status, reply[i], i \in good), Zenon DEF OneAnswer
<1> QED  BY ONLY <1>1, <1>2, <1>3, Zenon DEF Tells

\* Claude: the answer is named where the call was in a row before.
LEMMA ClaudeTells ==
  ASSUME CalledAs = "tool", NEW w, NEW i, NEW side, NEW r, r = w[i], ClaudeTool(r, side),
         r.type = "user" /\ r.id # 0 => ClaudeNamed(w, i, r.id, side), ClaudeShown(r, side),
         NEW call, NEW reply, NEW good,
         call[i] = IF r.type = "assistant" THEN r.id ELSE 0, reply[i] = IF r.type = "user" THEN r.id ELSE 0,
         i \in good <=> r.status \notin {"error", "interrupted"}
  PROVE  Tells(ClaudeMessage(w, i, side), i, call, reply, good)
<1>1. PICK no, yes, none, u, m :
        /\ no = FALSE /\ yes = TRUE /\ none = <<>> /\ u = SpeaksFor(r.type = "assistant") /\ m = ClaudeMessage(w, i, side)
  OBVIOUS
<1> DEFINE new(role) == MessageWith(i, role, i, no, no, no, none, none, 0)
<1> SUFFICES Tells(m, i, call, reply, good)
  BY <1>1, Zenon
<1>2. \A role : Message(i, role) = new(role)
  BY <1>1, Zenon DEF Message, MessageWith
<1>3. OneCall(none, 0, call[i])
  BY ONLY <1>1, Zenon DEF OneCall
<1>4. reply[i] = 0 => OneAnswer(none, 0, "", "", reply[i], i \in good)
  BY ONLY <1>1, Zenon DEF OneAnswer
<1>5. CASE r.type = "system"
  <2>1. m = WithEvent(new("system"), yes)
    BY <1>1, <1>2, <1>5, Zenon DEF ClaudeMessage, WithEvent
  <2>2. m = MessageWith(i, "system", i, no, no, yes, none, none, 0)
    BY <2>1, EventSet
  <2>3. reply[i] = 0
    BY <1>5
  <2> QED  BY ONLY <1>3, <1>4, <2>2, <2>3, PartsTell
<1>6. CASE r.type = "attachment"
  <2>1. m = [new("user") EXCEPT !.text = yes, !.aside = yes]
    BY <1>1, <1>2, <1>6, Zenon DEF ClaudeMessage
  <2>2. m = WithAside(WithText(new("user"), yes), yes)
    <3>1. PICK x : x = new("user")
      OBVIOUS
    <3>2. [x EXCEPT !.text = yes, !.aside = yes] = WithAside(WithText(x, yes), yes)
      BY Zenon DEF WithText, WithAside
    <3> QED  BY <2>1, <3>1, <3>2, Zenon
  <2>3. m = MessageWith(i, "user", i, yes, yes, no, none, none, 0)
    BY <2>2, TextSet, AsideSet
  <2>4. reply[i] = 0
    BY <1>6
  <2> QED  BY ONLY <1>3, <1>4, <2>3, <2>4, PartsTell
<1>7. CASE r.type # "system" /\ r.type # "attachment"
  <2>1. PICK x : x = ClaudeParts(w, i, side)
    OBVIOUS
  <2>2. m = WithUsage(x, u)
    BY <1>1, <1>7, <2>1, Zenon DEF ClaudeMessage, SpeaksFor, WithUsage
  <2>3. CASE r.id = 0
    <3>1. PICK t, e : t = (r.text \in {"words", "plumbing"}) /\ e = (r.text = "notice")
      OBVIOUS
    <3>2. x = [new(r.type) EXCEPT !.text = t, !.event = e]
      BY <1>2, <2>1, <2>3, <3>1, Zenon DEF ClaudeParts
    <3>3. x = WithEvent(WithText(new(r.type), t), e)
      <4>1. PICK y : y = new(r.type)
        OBVIOUS
      <4>2. [y EXCEPT !.text = t, !.event = e] = WithEvent(WithText(y, t), e)
        BY Zenon DEF WithText, WithEvent
      <4> QED  BY <3>2, <4>1, <4>2, Zenon
    <3>4. m = MessageWith(i, r.type, i, t, no, e, none, none, u)
      BY <2>2, <3>3, TextSet, EventSet, UsageSet
    <3>5. reply[i] = 0
      BY <2>3
    <3> QED  BY ONLY <1>3, <1>4, <3>4, <3>5, PartsTell
  <2>4. CASE r.id # 0 /\ r.type = "assistant"
    <3>1. PICK c, d : d = r.id /\ c = <<d>>
      OBVIOUS
    <3>2. x = WithCalls(new(r.type), c)
      BY <1>2, <2>1, <2>4, <3>1, Zenon DEF ClaudeParts, WithCalls
    <3>3. m = MessageWith(i, r.type, i, no, no, no, c, none, u)
      BY <2>2, <3>2, CallsSet, UsageSet
    <3>4. call[i] = d /\ reply[i] = 0
      BY <2>4, <3>1
    <3>5. OneCall(c, d, call[i])
      BY ONLY <3>1, <3>4, Zenon DEF OneCall
    <3> QED  BY ONLY <1>4, <3>3, <3>4, <3>5, PartsTell
  <2>5. CASE r.id # 0 /\ r.type # "assistant"
    <3>1. r.type = "user" /\ r.status \in ClaudeEnds
      BY <2>5, Zenon DEF ClaudeTool
    <3>2. ClaudeNamed(w, i, r.id, side)
      BY <2>5, <3>1
    <3>3. PICK b, status, s : b = r.id /\ status = r.status /\ s = <<Answer(b, "tool", status)>>
      OBVIOUS
    <3>4. x = WithResults(new(r.type), s)
      <4>1. x = [Message(i, r.type) EXCEPT !.results = <<Answer(r.id, IF ClaudeNamed(w, i, r.id, side) THEN "tool" ELSE "", r.status)>>]
        BY <2>1, <2>5, Zenon DEF ClaudeParts
      <4>2. s = <<Answer(r.id, IF ClaudeNamed(w, i, r.id, side) THEN "tool" ELSE "", r.status)>>
        BY ONLY <3>2, <3>3, Zenon
      <4> QED  BY ONLY <1>2, <4>1, <4>2, Zenon DEF WithResults
    <3>5. m = MessageWith(i, r.type, i, no, no, no, none, s, u)
      BY <2>2, <3>4, ResultsSet, UsageSet
    <3>6. reply[i] = b
      BY <3>1, <3>3
    <3>7. status = "ok" <=> i \in good
      BY <3>1, <3>3 DEF ClaudeEnds
    <3>8. OneAnswer(s, b, "tool", status, reply[i], i \in good)
      BY ONLY CalledAs = "tool", <3>3, <3>6, <3>7, Zenon DEF OneAnswer
    <3> QED  BY ONLY <1>3, <3>5, <3>8, PartsTell
  <2> QED  BY ONLY <2>3, <2>4, <2>5, Zenon
<1> QED  BY ONLY <1>5, <1>6, <1>7, Zenon

\* A result is of a call in a row before.
LEMMA CallBefore ==
  ASSUME NEW f, NEW w, Matched(f, w), NEW n \in Nat, n = Len(w), NEW i \in 1..n, NEW c, c = ResultIn(f, w[i]), c # 0
  PROVE  \E j \in 1..i - 1 : j = c /\ j \in 1..n /\ CallIn(f, w[j]) = c
<1>1. PICK call, result : call = CallsOf(f, w) /\ result = ResultsOf(f, w)
  OBVIOUS
<1>2. \A j \in 1..n : call[j] = CallIn(f, w[j]) /\ result[j] = ResultIn(f, w[j])
  BY <1>1 DEF CallsOf, ResultsOf
<1>3. Pairs(n, OwnRows(f, w), call, result)
  BY ONLY n = Len(w), <1>1, Matched(f, w), Zenon DEF Matched
<1>4. c \in 1..i - 1 /\ call[c] = c
  BY <1>2, <1>3 DEF Pairs
<1>5. c \in 1..n
  BY <1>4
<1> QED  BY <1>2, <1>4, <1>5

\* What a format's rows say, and the row i of it
LEMMA RowOf ==
  ASSUME NEW f, NEW w, Matched(f, w), NEW n \in Nat, n = Len(w), NEW i \in 1..n
  PROVE  /\ ToolRow(f, w[i])
         /\ CallsOf(f, w)[i] = CallIn(f, w[i]) /\ ResultsOf(f, w)[i] = ResultIn(f, w[i])
         /\ i \in Well(f, w) <=> ~Bad(f, w, i)
<1>1. \A j \in 1..n : ToolRow(f, w[j])
  BY ONLY n = Len(w), Matched(f, w), Zenon DEF Matched
<1> QED  BY <1>1 DEF CallsOf, ResultsOf, Well

LEMMA ClaudeTold ==
  ASSUME CalledAs = "tool", NEW f \in {"claude", "claude-sub"}, NEW w, Matched(f, w), NEW n \in Nat, n = Len(w),
         NEW side, side = (f = "claude-sub")
  PROVE  /\ \E rows : Told(ClaudeMessages(w, side), n, rows, ClaudeShowns(w, n, side), CallsOf(f, w), ResultsOf(f, w), Well(f, w))
         /\ \A i \in 1..n : ResultIn(f, w[i]) # 0 => i \in ClaudeShowns(w, n, side)
<1>1. PICK call, result, good : call = CallsOf(f, w) /\ result = ResultsOf(f, w) /\ good = Well(f, w)
  OBVIOUS
<1>2. PICK S : S = ClaudeShowns(w, n, side)
  OBVIOUS
<1>3. S = ClaudeShowns(w, n, side) /\ \A i \in 1..n : i \in S <=> ClaudeShown(w[i], side)
  BY ONLY <1>2 DEF ClaudeShowns
<1>4. ASSUME NEW i \in 1..n
      PROVE  /\ ClaudeTool(w[i], side)
             /\ call[i] = (IF w[i].type = "assistant" THEN w[i].id ELSE 0)
             /\ result[i] = (IF w[i].type = "user" THEN w[i].id ELSE 0)
             /\ i \in good <=> w[i].status \notin {"error", "interrupted"}
             /\ w[i].type = "user" /\ w[i].id # 0 => ClaudeNamed(w, i, w[i].id, side) /\ ClaudeShown(w[i], side)
  <2>1. /\ ToolRow(f, w[i]) /\ call[i] = CallIn(f, w[i]) /\ result[i] = ResultIn(f, w[i])
        /\ i \in good <=> ~Bad(f, w, i)
    BY ONLY <1>1, <1>4, Matched(f, w), n \in Nat, n = Len(w), RowOf, Zenon
  <2>2. /\ \A r : /\ CallIn(f, r) = (IF r.type = "assistant" THEN r.id ELSE 0)
                  /\ ResultIn(f, r) = (IF r.type = "user" THEN r.id ELSE 0)
                  /\ ToolRow(f, r) <=> ClaudeTool(r, f = "claude-sub")
        /\ \A k : Bad(f, w, k) <=> w[k].status \in {"error", "interrupted"}
    BY ONLY f \in {"claude", "claude-sub"}, Zenon DEF CallIn, ResultIn, Bad, ToolRow
  <2>3. ClaudeTool(w[i], side)
    BY ONLY <2>1, <2>2, side = (f = "claude-sub"), Zenon
  <2>4. ASSUME w[i].type = "user", w[i].id # 0 PROVE ClaudeNamed(w, i, w[i].id, side) /\ ClaudeShown(w[i], side)
    <3>1. PICK c : c = w[i].id
      OBVIOUS
    <3>2. c = ResultIn(f, w[i]) /\ c # 0
      BY ONLY <2>2, <2>4, <3>1, Zenon
    <3>3. PICK j \in 1..i - 1 : j = c /\ j \in 1..n /\ CallIn(f, w[j]) = c
      BY ONLY <1>4, <3>2, Matched(f, w), n \in Nat, n = Len(w), CallBefore
    <3>4. CallIn(f, w[j]) = IF w[j].type = "assistant" THEN w[j].id ELSE 0
      BY ONLY <2>2, Zenon
    <3>5. w[j].type = "assistant" /\ w[j].id = c /\ w[j].id # 0
      BY ONLY <3>2, <3>3, <3>4
    <3>6. ClaudeTool(w[j], side)
      <4>1. ToolRow(f, w[j])
        BY ONLY <3>3, Matched(f, w), n \in Nat, n = Len(w), RowOf, Zenon
      <4> QED  BY ONLY <2>2, <4>1, side = (f = "claude-sub"), Zenon
    <3>7. w[j].side => side
      BY ONLY <3>5, <3>6, Zenon DEF ClaudeTool
    <3>8. ClaudeNamed(w, i, w[i].id, side)
      BY ONLY <3>1, <3>3, <3>5, <3>7, Zenon DEF ClaudeNamed
    <3>9. w[i].side => side
      BY ONLY <2>3, <2>4, Zenon DEF ClaudeTool
    <3>10. ClaudeShown(w[i], side)
      <4>1. "user" # "system" /\ "user" # "attachment" /\ "user" \in {"user", "assistant"}
        OBVIOUS
      <4> QED  BY ONLY <2>4, <3>9, <4>1, Zenon DEF ClaudeShown
    <3> QED  BY <3>8, <3>10
  <2> QED  BY ONLY <2>1, <2>2, <2>3, <2>4, Zenon
<1>5. PICK rows, make : rows = Ascending(S, n) /\ make = [i \in 1..n |-> ClaudeMessage(w, i, side)]
  OBVIOUS
<1>6. PICK x : x = ClaudeMessages(w, side)
  OBVIOUS
<1>7. x = [k \in DOMAIN rows |-> ClaudeMessage(w, rows[k], side)]
  BY <1>3, <1>5, <1>6, Zenon DEF ClaudeMessages, MessagesOf, ClaudeMessage, ClaudeShowns
<1>8. x = [k \in DOMAIN rows |-> make[rows[k]]]
  <2>1. \A k \in DOMAIN rows : rows[k] \in 1..n
    BY <1>5, AscendingLists DEF Kept
  <2> QED  BY <1>5, <1>7, <2>1
<1>9. ASSUME NEW i \in 1..n, i \in S PROVE Tells(make[i], i, call, result, good)
  <2>1. PICK r : r = w[i]
    OBVIOUS
  <2>2. Tells(ClaudeMessage(w, i, side), i, call, result, good)
    BY ONLY CalledAs = "tool", <1>3, <1>4, <1>9, <2>1, ClaudeTells, Zenon
  <2>3. make[i] = ClaudeMessage(w, i, side)
    BY <1>5
  <2> QED  BY ONLY <2>2, <2>3
<1>10. Told(x, n, rows, S, call, result, good)
  BY ONLY n \in Nat, <1>5, <1>8, <1>9, ToldHolds
<1>11. \A i \in 1..n : ResultIn(f, w[i]) # 0 => i \in S
  <2>1. \A i \in 1..n : ResultIn(f, w[i]) # 0 => w[i].type = "user" /\ w[i].id # 0
    <3>1. \A r : ResultIn(f, r) = (IF r.type = "user" THEN r.id ELSE 0)
      BY ONLY f \in {"claude", "claude-sub"}, Zenon DEF ResultIn
    <3> QED  BY ONLY <3>1
  <2> QED  BY ONLY <1>3, <1>4, <2>1, Zenon
<1> QED  BY ONLY <1>1, <1>2, <1>6, <1>10, <1>11, Zenon

LEMMA CodexTells ==
  ASSUME CalledAs = "tool", NEW w, NEW i, NEW r, r = w[i], CodexTool(r), CodexShown(r), NEW u,
         r.sub = "function_call_output" => r.id = 0 \/ CodexNamed(w, i, r.id), NEW call, NEW reply, NEW good,
         call[i] = IF r.sub \in CodexCalls THEN r.id ELSE 0, reply[i] = IF r.sub = "function_call_output" THEN r.id ELSE 0,
         i \in good <=> ~CodexWrong(w, i)
  PROVE  Tells(WithUsage(CodexMessage(w, i), u), i, call, reply, good)
<1>1. PICK no, yes, none, x : no = FALSE /\ yes = TRUE /\ none = <<>> /\ x = CodexMessage(w, i)
  OBVIOUS
<1>11. PICK m : m = WithUsage(x, u)
  OBVIOUS
<1> DEFINE new(role) == MessageWith(i, role, i, no, no, no, none, none, 0)
<1> SUFFICES Tells(m, i, call, reply, good)
  BY <1>1, <1>11, Zenon
<1>2. \A role : Message(i, role) = new(role)
  BY <1>1, Zenon DEF Message, MessageWith
<1>3. OneCall(none, 0, call[i])
  BY ONLY <1>1, Zenon DEF OneCall
<1>4. reply[i] = 0 => OneAnswer(none, 0, "", "", reply[i], i \in good)
  BY ONLY <1>1, Zenon DEF OneAnswer
<1>5. CASE r.type = "event_msg"
  <2>1. x = WithEvent(new("system"), yes)
    BY <1>1, <1>2, <1>5, Zenon DEF CodexMessage, WithEvent
  <2>2. m = MessageWith(i, "system", i, no, no, yes, none, none, u)
    <3>1. x = MessageWith(i, "system", i, no, no, yes, none, none, 0)
      BY <2>1, EventSet
    <3> QED  BY ONLY <1>11, <3>1, UsageSet
  <2>3. r.sub = "turn_aborted"
    BY <1>5, Zenon DEF CodexShown
  <2>4. reply[i] = 0
    BY <2>3
  <2> QED  BY ONLY <1>3, <1>4, <2>2, <2>4, PartsTell
<1>6. CASE r.type # "event_msg" /\ r.sub = "user"
  <2>1. r.sub # "web_search_call" /\ r.sub \notin CodexCalls /\ r.sub # "function_call_output"
    BY <1>6 DEF CodexCalls
  <2>2. x = [new("user") EXCEPT !.text = yes, !.aside = (r.text = "plumbing")]
    BY <1>1, <1>2, <1>6, <2>1, Zenon DEF CodexMessage
  <2>3. PICK p : p = (r.text = "plumbing")
    OBVIOUS
  <2>4. x = WithAside(WithText(new("user"), yes), p)
    <3>1. PICK y : y = new("user")
      OBVIOUS
    <3>2. [y EXCEPT !.text = yes, !.aside = p] = WithAside(WithText(y, yes), p)
      BY Zenon DEF WithText, WithAside
    <3> QED  BY <2>2, <2>3, <3>1, <3>2, Zenon
  <2>5. m = MessageWith(i, "user", i, yes, p, no, none, none, u)
    <3>1. x = MessageWith(i, "user", i, yes, p, no, none, none, 0)
      BY <2>4, TextSet, AsideSet
    <3> QED  BY ONLY <1>11, <3>1, UsageSet
  <2>6. reply[i] = 0
    BY <2>1
  <2> QED  BY ONLY <1>3, <1>4, <2>5, <2>6, PartsTell
<1>7. CASE r.type # "event_msg" /\ r.sub = "web_search_call"
  <2>1. r.sub # "user" /\ r.sub \notin CodexCalls /\ r.sub # "function_call_output"
    BY <1>7 DEF CodexCalls
  <2>2. PICK c, s : c = <<0>> /\ s = <<Answer(0, "web_search", "ok")>>
    OBVIOUS
  <2>3. x = [new("assistant") EXCEPT !.calls = c, !.results = s]
    BY <1>1, <1>2, <1>7, <2>1, <2>2, Zenon DEF CodexMessage
  <2>4. x = WithResults(WithCalls(new("assistant"), c), s)
    <3>1. PICK y : y = new("assistant")
      OBVIOUS
    <3>2. [y EXCEPT !.calls = c, !.results = s] = WithResults(WithCalls(y, c), s)
      BY Zenon DEF WithCalls, WithResults
    <3> QED  BY <2>3, <3>1, <3>2, Zenon
  <2>5. m = MessageWith(i, "assistant", i, no, no, no, c, s, u)
    <3>1. x = MessageWith(i, "assistant", i, no, no, no, c, s, 0)
      BY ONLY <2>4, CallsSet, ResultsSet
    <3> QED  BY ONLY <1>11, <3>1, UsageSet
  <2>6. reply[i] = 0
    BY <2>1
  <2>7. OneCall(c, 0, call[i])
    BY ONLY <2>2, Zenon DEF OneCall
  <2>8. OneAnswer(s, 0, "web_search", "ok", reply[i], i \in good)
    BY ONLY <2>2, <2>6, Zenon DEF OneAnswer
  <2> QED  BY ONLY <2>5, <2>7, <2>8, PartsTell
<1>8. CASE r.type # "event_msg" /\ r.sub \in CodexCalls
  <2>1. r.sub # "user" /\ r.sub # "web_search_call" /\ r.sub # "function_call_output"
    BY <1>8 DEF CodexCalls
  <2>2. PICK c, d : d = r.id /\ c = <<d>>
    OBVIOUS
  <2>3. x = WithCalls(new("assistant"), c)
    BY <1>1, <1>2, <1>8, <2>1, <2>2, Zenon DEF CodexMessage, WithCalls
  <2>4. m = MessageWith(i, "assistant", i, no, no, no, c, none, u)
    <3>1. x = MessageWith(i, "assistant", i, no, no, no, c, none, 0)
      BY ONLY <2>3, CallsSet
    <3> QED  BY ONLY <1>11, <3>1, UsageSet
  <2>5. call[i] = d /\ reply[i] = 0
    BY <1>8, <2>1, <2>2
  <2>6. OneCall(c, d, call[i])
    BY ONLY <2>2, <2>5, Zenon DEF OneCall
  <2> QED  BY ONLY <1>4, <2>4, <2>5, <2>6, PartsTell
<1>9. CASE r.type # "event_msg" /\ r.sub = "function_call_output"
  <2>1. r.sub # "user" /\ r.sub # "web_search_call" /\ r.sub \notin CodexCalls
    BY <1>9 DEF CodexCalls
  <2>2. PICK s, b, name, status :
          /\ b = r.id /\ name = (IF CodexNamed(w, i, r.id) THEN "tool" ELSE "") /\ status = CodexVerdict(w, i)
          /\ s = <<Answer(b, name, status)>>
    OBVIOUS
  <2>3. x = WithResults(new("tool"), s)
    BY <1>1, <1>2, <1>9, <2>1, <2>2, Zenon DEF CodexMessage, WithResults
  <2>4. m = MessageWith(i, "tool", i, no, no, no, none, s, u)
    <3>1. x = MessageWith(i, "tool", i, no, no, no, none, s, 0)
      BY ONLY <2>3, ResultsSet
    <3> QED  BY ONLY <1>11, <3>1, UsageSet
  <2>5. reply[i] = b
    BY <1>9, <2>2
  <2>6. b # 0 => name = CalledAs
    BY <1>9, <2>2
  <2>7. status = "ok" <=> i \in good
    <3>1. status = IF CodexWrong(w, i) THEN "error" ELSE "ok"
      BY <2>2, Zenon DEF CodexVerdict, CodexWrong, CodexWords
    <3> QED  BY ONLY <3>1, i \in good <=> ~CodexWrong(w, i)
  <2>8. OneAnswer(s, b, name, status, reply[i], i \in good)
    BY ONLY <2>2, <2>5, <2>6, <2>7, Zenon DEF OneAnswer
  <2> QED  BY ONLY <1>3, <2>4, <2>8, PartsTell
<1>10. CASE /\ r.type # "event_msg" /\ r.sub # "user" /\ r.sub # "web_search_call" /\ r.sub \notin CodexCalls
            /\ r.sub # "function_call_output"
  <2>1. x = WithText(new("assistant"), yes)
    BY <1>1, <1>2, <1>10, Zenon DEF CodexMessage, WithText
  <2>2. m = MessageWith(i, "assistant", i, yes, no, no, none, none, u)
    <3>1. x = MessageWith(i, "assistant", i, yes, no, no, none, none, 0)
      BY <2>1, TextSet
    <3> QED  BY ONLY <1>11, <3>1, UsageSet
  <2>3. reply[i] = 0
    BY <1>10
  <2> QED  BY ONLY <1>3, <1>4, <2>2, <2>3, PartsTell
<1> QED  BY ONLY <1>5, <1>6, <1>7, <1>8, <1>9, <1>10, Zenon

LEMMA CodexTold ==
  ASSUME CalledAs = "tool", NEW f \in {"codex", "codex-totals"}, NEW w, Matched(f, w), NEW n \in Nat, n = Len(w)
  PROVE  /\ \E rows : Told(CodexMessages(w), n, rows, CodexShowns(w, n), CallsOf(f, w), ResultsOf(f, w), Well(f, w))
         /\ \A i \in 1..n : ResultIn(f, w[i]) # 0 => i \in CodexShowns(w, n)
<1>1. PICK call, result, good : call = CallsOf(f, w) /\ result = ResultsOf(f, w) /\ good = Well(f, w)
  OBVIOUS
<1>2. PICK S : S = CodexShowns(w, n)
  OBVIOUS
<1>3. S = CodexShowns(w, n) /\ \A i \in 1..n : i \in S <=> CodexShown(w[i])
  BY ONLY <1>2 DEF CodexShowns
<1>4. ASSUME NEW i \in 1..n
      PROVE  /\ CodexTool(w[i])
             /\ call[i] = (IF w[i].sub \in CodexCalls THEN w[i].id ELSE 0)
             /\ result[i] = (IF w[i].sub = "function_call_output" THEN w[i].id ELSE 0)
             /\ i \in good <=> ~CodexWrong(w, i)
             /\ w[i].sub = "function_call_output" => w[i].id = 0 \/ CodexNamed(w, i, w[i].id)
             /\ w[i].sub = "function_call_output" => CodexShown(w[i])
  <2>1. /\ ToolRow(f, w[i]) /\ call[i] = CallIn(f, w[i]) /\ result[i] = ResultIn(f, w[i])
        /\ i \in good <=> ~Bad(f, w, i)
    BY ONLY <1>1, <1>4, Matched(f, w), n \in Nat, n = Len(w), RowOf, Zenon
  <2>2. /\ \A r : /\ CallIn(f, r) = (IF r.sub \in CodexCalls THEN r.id ELSE 0)
                  /\ ResultIn(f, r) = (IF r.sub = "function_call_output" THEN r.id ELSE 0)
                  /\ ToolRow(f, r) <=> CodexTool(r)
        /\ \A k : Bad(f, w, k) <=> CodexWrong(w, k)
    BY ONLY f \in {"codex", "codex-totals"}, Zenon DEF CallIn, ResultIn, Bad, ToolRow
  <2>3. CodexTool(w[i])
    BY ONLY <2>1, <2>2, Zenon
  <2>4. ASSUME w[i].sub = "function_call_output", w[i].id # 0 PROVE CodexNamed(w, i, w[i].id)
    <3>1. PICK c : c = w[i].id
      OBVIOUS
    <3>2. c = ResultIn(f, w[i]) /\ c # 0
      BY ONLY <2>2, <2>4, <3>1, Zenon
    <3>3. PICK j \in 1..i - 1 : j = c /\ j \in 1..n /\ CallIn(f, w[j]) = c
      BY ONLY <1>4, <3>2, Matched(f, w), n \in Nat, n = Len(w), CallBefore
    <3>4. CallIn(f, w[j]) = IF w[j].sub \in CodexCalls THEN w[j].id ELSE 0
      BY ONLY <2>2, Zenon
    <3>5. w[j].sub \in CodexCalls /\ w[j].id = c
      BY ONLY <3>2, <3>3, <3>4
    <3> QED  BY ONLY <3>1, <3>3, <3>5, Zenon DEF CodexNamed
  <2>5. ASSUME w[i].sub = "function_call_output" PROVE CodexShown(w[i])
    <3>1. w[i].type = "response_item"
      BY ONLY <2>3, <2>5, Zenon DEF CodexTool
    <3> QED  BY ONLY <2>5, <3>1 DEF CodexShown
  <2> QED  BY ONLY <2>1, <2>2, <2>3, <2>4, <2>5, Zenon
<1>5. PICK rows, make : rows = Ascending(S, n) /\ make = [i \in 1..n |-> CodexUsed(w, i, n)]
  OBVIOUS
<1>6. PICK x : x = CodexMessages(w)
  OBVIOUS
<1>7. x = [k \in DOMAIN rows |-> CodexUsed(w, rows[k], n)]
  BY <1>3, <1>5, <1>6, Zenon DEF CodexMessages, MessagesOf, CodexUsed, WithUsage, CodexShowns
<1>8. x = [k \in DOMAIN rows |-> make[rows[k]]]
  <2>1. \A k \in DOMAIN rows : rows[k] \in 1..n
    BY <1>5, AscendingLists DEF Kept
  <2> QED  BY <1>5, <1>7, <2>1
<1>9. ASSUME NEW i \in 1..n, i \in S PROVE Tells(make[i], i, call, result, good)
  <2>1. PICK r, u : r = w[i] /\ u = CodexUsageOf(w, i, n)
    OBVIOUS
  <2>2. Tells(WithUsage(CodexMessage(w, i), u), i, call, result, good)
    BY ONLY CalledAs = "tool", <1>3, <1>4, <1>9, <2>1, CodexTells, Zenon
  <2>3. make[i] = WithUsage(CodexMessage(w, i), u)
    BY <1>5, <2>1 DEF CodexUsed
  <2> QED  BY ONLY <2>2, <2>3
<1>10. Told(x, n, rows, S, call, result, good)
  <2>1. rows = Ascending(S, n)
    BY <1>5
  <2>2. \A i \in 1..n : i \in S => Tells(make[i], i, call, result, good)
    BY <1>9
  <2> QED  BY ONLY n \in Nat, <1>8, <2>1, <2>2, ToldHolds, Zenon
<1>11. \A i \in 1..n : ResultIn(f, w[i]) # 0 => i \in S
  <2>1. \A i \in 1..n : ResultIn(f, w[i]) # 0 => w[i].sub = "function_call_output"
    <3>1. \A r : ResultIn(f, r) = (IF r.sub = "function_call_output" THEN r.id ELSE 0)
      BY ONLY f \in {"codex", "codex-totals"}, Zenon DEF ResultIn
    <3> QED  BY ONLY <3>1
  <2> QED  BY ONLY <1>3, <1>4, <2>1, Zenon
<1> QED  BY ONLY <1>1, <1>2, <1>6, <1>10, <1>11, Zenon

\* Pi, and OpenClaw: the row of an answer names the tool.
LEMMA PiTells ==
  ASSUME CalledAs = "tool", NEW w, NEW i, NEW r, r = w[i], BlockTool(r), r.type = "message", NEW call, NEW reply, NEW good,
         call[i] = IF r.role = "assistant" THEN r.id ELSE 0, reply[i] = IF r.role = "toolResult" THEN r.id ELSE 0,
         i \in good <=> ~r.error
  PROVE  Tells(PiMessage(w, i), i, call, reply, good)
<1>1. PICK no, yes, none, u : no = FALSE /\ yes = TRUE /\ none = <<>> /\ u = SpeaksFor(r.role = "assistant")
  OBVIOUS
<1>9. PICK x, m : x = PiParts(w, i) /\ m = WithUsage(x, u)
  OBVIOUS
<1>2. x = PiParts(w, i) /\ m = PiMessage(w, i)
  BY <1>1, <1>9, Zenon DEF PiMessage, SpeaksFor, WithUsage
<1> DEFINE new == MessageWith(i, r.role, i, no, no, no, none, none, 0)
<1> SUFFICES Tells(m, i, call, reply, good)
  BY <1>2, Zenon
<1>3. [Message(i, r.role) EXCEPT !.at = PiTime(w, i)] = new
  <2>1. Message(i, r.role) = new
    BY <1>1, Zenon DEF Message, MessageWith
  <2>2. [Message(i, r.role) EXCEPT !.at = PiTime(w, i)] = WithAt(new, i)
    BY <2>1, Zenon DEF PiTime, WithAt
  <2> QED  BY <2>2, AtSet
<1>4. OneCall(none, 0, call[i])
  BY ONLY <1>1, Zenon DEF OneCall
<1>5. reply[i] = 0 => OneAnswer(none, 0, "", "", reply[i], i \in good)
  BY ONLY <1>1, Zenon DEF OneAnswer
<1>6. CASE r.role = "toolResult"
  <2>1. PICK b, status, s : b = r.id /\ status = (IF r.error THEN "error" ELSE "ok") /\ s = <<Answer(b, "tool", status)>>
    OBVIOUS
  <2>2. x = WithResults(new, s)
    BY <1>1, <1>2, <1>3, <1>6, <2>1, Zenon DEF PiParts, WithResults
  <2>3. m = MessageWith(i, r.role, i, no, no, no, none, s, u)
    BY ONLY <1>9, <2>2, ResultsSet, UsageSet
  <2>4. reply[i] = b
    BY <1>6, <2>1
  <2>5. status = "ok" <=> i \in good
    BY <2>1
  <2>6. OneAnswer(s, b, "tool", status, reply[i], i \in good)
    BY ONLY CalledAs = "tool", <2>1, <2>4, <2>5, Zenon DEF OneAnswer
  <2> QED  BY ONLY <1>4, <2>3, <2>6, PartsTell
<1>7. CASE r.role # "toolResult" /\ r.id # 0
  <2>1. PICK c, d : d = r.id /\ c = <<d>>
    OBVIOUS
  <2>2. x = WithCalls(new, c)
    BY <1>1, <1>2, <1>3, <1>7, <2>1, Zenon DEF PiParts, WithCalls
  <2>3. m = MessageWith(i, r.role, i, no, no, no, c, none, u)
    BY ONLY <1>9, <2>2, CallsSet, UsageSet
  <2>4. r.role = "assistant"
    BY <1>7, Zenon DEF BlockTool
  <2>5. call[i] = d /\ reply[i] = 0
    BY <1>7, <2>1, <2>4
  <2>6. OneCall(c, d, call[i])
    BY ONLY <2>1, <2>5, Zenon DEF OneCall
  <2> QED  BY ONLY <1>5, <2>3, <2>5, <2>6, PartsTell
<1>8. CASE r.role # "toolResult" /\ r.id = 0
  <2>1. x = WithText(new, yes)
    BY <1>1, <1>2, <1>3, <1>8, Zenon DEF PiParts, WithText
  <2>2. m = MessageWith(i, r.role, i, yes, no, no, none, none, u)
    BY ONLY <1>9, <2>1, TextSet, UsageSet
  <2>3. reply[i] = 0
    BY <1>8
  <2> QED  BY ONLY <1>4, <1>5, <2>2, <2>3, PartsTell
<1> QED  BY ONLY <1>6, <1>7, <1>8, Zenon

LEMMA ClawTells ==
  ASSUME CalledAs = "tool", NEW w, NEW i, NEW r, r = w[i], BlockTool(r), r.type = "message", NEW call, NEW reply, NEW good,
         call[i] = IF r.role = "assistant" THEN r.id ELSE 0, reply[i] = IF r.role = "toolResult" THEN r.id ELSE 0,
         i \in good <=> ~r.error
  PROVE  Tells(ClawParts(w, i), i, call, reply, good)
<1>1. PICK no, yes, none, u : no = FALSE /\ yes = TRUE /\ none = <<>> /\ u = SpeaksFor(r.role = "assistant")
  OBVIOUS
<1>2. PICK m : m = ClawParts(w, i)
  OBVIOUS
<1> DEFINE new == MessageWith(i, r.role, i, no, no, no, none, none, u)
<1> SUFFICES Tells(m, i, call, reply, good)
  BY <1>2, Zenon
<1>3. [Message(i, r.role) EXCEPT !.usage = IF r.role = "assistant" THEN 1 ELSE 0] = new
  <2>1. Message(i, r.role) = MessageWith(i, r.role, i, no, no, no, none, none, 0)
    BY <1>1, Zenon DEF Message, MessageWith
  <2>2. [Message(i, r.role) EXCEPT !.usage = IF r.role = "assistant" THEN 1 ELSE 0]
          = WithUsage(MessageWith(i, r.role, i, no, no, no, none, none, 0), u)
    BY <1>1, <2>1, Zenon DEF SpeaksFor, WithUsage
  <2> QED  BY <2>2, UsageSet
<1>4. OneCall(none, 0, call[i])
  BY ONLY <1>1, Zenon DEF OneCall
<1>5. reply[i] = 0 => OneAnswer(none, 0, "", "", reply[i], i \in good)
  BY ONLY <1>1, Zenon DEF OneAnswer
<1>6. CASE r.role = "toolResult"
  <2>1. PICK b, status, s : b = r.id /\ status = (IF r.error THEN "error" ELSE "ok") /\ s = <<Answer(b, "tool", status)>>
    OBVIOUS
  <2>2. m = WithResults(new, s)
    BY <1>1, <1>2, <1>3, <1>6, <2>1, Zenon DEF ClawParts, WithResults
  <2>3. m = MessageWith(i, r.role, i, no, no, no, none, s, u)
    BY <2>2, ResultsSet
  <2>4. reply[i] = b
    BY <1>6, <2>1
  <2>5. status = "ok" <=> i \in good
    BY <2>1
  <2>6. OneAnswer(s, b, "tool", status, reply[i], i \in good)
    BY ONLY CalledAs = "tool", <2>1, <2>4, <2>5, Zenon DEF OneAnswer
  <2> QED  BY ONLY <1>4, <2>3, <2>6, PartsTell
<1>7. CASE r.role # "toolResult" /\ r.id # 0
  <2>1. PICK c, d : d = r.id /\ c = <<d>>
    OBVIOUS
  <2>2. m = WithCalls(new, c)
    BY <1>1, <1>2, <1>3, <1>7, <2>1, Zenon DEF ClawParts, WithCalls
  <2>3. m = MessageWith(i, r.role, i, no, no, no, c, none, u)
    BY <2>2, CallsSet
  <2>4. r.role = "assistant"
    BY <1>7, Zenon DEF BlockTool
  <2>5. call[i] = d /\ reply[i] = 0
    BY <1>7, <2>1, <2>4
  <2>6. OneCall(c, d, call[i])
    BY ONLY <2>1, <2>5, Zenon DEF OneCall
  <2> QED  BY ONLY <1>5, <2>3, <2>5, <2>6, PartsTell
<1>8. CASE r.role # "toolResult" /\ r.id = 0
  <2>1. m = WithText(new, yes)
    BY <1>1, <1>2, <1>3, <1>8, Zenon DEF ClawParts, WithText
  <2>2. m = MessageWith(i, r.role, i, yes, no, no, none, none, u)
    BY <2>1, TextSet
  <2>3. reply[i] = 0
    BY <1>8
  <2> QED  BY ONLY <1>4, <1>5, <2>2, <2>3, PartsTell
<1> QED  BY ONLY <1>6, <1>7, <1>8, Zenon

\* What the rows of Pi and OpenClaw say of calls
BlockOf(f, w, i) ==
  /\ BlockTool(w[i])
  /\ CallsOf(f, w)[i] = IF w[i].role = "assistant" THEN w[i].id ELSE 0
  /\ ResultsOf(f, w)[i] = IF w[i].role = "toolResult" THEN w[i].id ELSE 0
  /\ i \in Well(f, w) <=> ~w[i].error

LEMMA BlocksAre ==
  ASSUME NEW f, f \in {"pi", "openclaw"}, NEW w, Matched(f, w), NEW n \in Nat, n = Len(w), NEW i \in 1..n
  PROVE  BlockOf(f, w, i) /\ (ResultIn(f, w[i]) # 0 => i \in BlockShowns(w, n))
<1>1. /\ ToolRow(f, w[i]) /\ CallsOf(f, w)[i] = CallIn(f, w[i]) /\ ResultsOf(f, w)[i] = ResultIn(f, w[i])
      /\ i \in Well(f, w) <=> ~Bad(f, w, i)
  BY ONLY Matched(f, w), n \in Nat, n = Len(w), i \in 1..n, RowOf, Zenon
<1>2. /\ \A r : /\ CallIn(f, r) = (IF r.role = "assistant" THEN r.id ELSE 0)
                /\ ResultIn(f, r) = (IF r.role = "toolResult" THEN r.id ELSE 0)
                /\ ToolRow(f, r) <=> BlockTool(r)
      /\ \A k : Bad(f, w, k) <=> w[k].error
  BY ONLY f \in {"pi", "openclaw"}, Zenon DEF CallIn, ResultIn, Bad, ToolRow
<1>3. BlockOf(f, w, i)
  BY ONLY <1>1, <1>2, Zenon DEF BlockOf
<1>4. ASSUME ResultIn(f, w[i]) # 0 PROVE i \in BlockShowns(w, n)
  <2>1. w[i].role = "toolResult" /\ w[i].id # 0
    BY ONLY <1>2, <1>4
  <2>2. w[i].type = "message"
    BY ONLY <1>1, <1>2, <2>1, Zenon DEF BlockTool
  <2> QED  BY <2>2 DEF BlockShowns
<1> QED  BY <1>3, <1>4

LEMMA PiTold ==
  ASSUME CalledAs = "tool", NEW f, f = "pi", NEW w, Matched(f, w), NEW n \in Nat, n = Len(w)
  PROVE  \E rows : Told(PiMessages(w), n, rows, BlockShowns(w, n), CallsOf(f, w), ResultsOf(f, w), Well(f, w))
<1>1. PICK call, result, good, S : /\ call = CallsOf(f, w) /\ result = ResultsOf(f, w) /\ good = Well(f, w)
                                   /\ S = BlockShowns(w, n)
  OBVIOUS
<1>2. PICK rows, make : rows = Ascending(S, n) /\ make = [i \in 1..n |-> PiMessage(w, i)]
  OBVIOUS
<1>3. PICK x : x = PiMessages(w)
  OBVIOUS
<1>4. x = [k \in DOMAIN rows |-> PiMessage(w, rows[k])]
  BY <1>1, <1>2, <1>3, Zenon DEF PiMessages, MessagesOf, PiMessage, BlockShowns
<1>5. x = [k \in DOMAIN rows |-> make[rows[k]]]
  <2>1. \A k \in DOMAIN rows : rows[k] \in 1..n
    BY <1>2, AscendingLists DEF Kept
  <2> QED  BY <1>2, <1>4, <2>1
<1>6. ASSUME NEW i \in 1..n, i \in S PROVE Tells(make[i], i, call, result, good)
  <2>1. PICK r : r = w[i]
    OBVIOUS
  <2>2. r.type = "message"
    BY ONLY <1>1, <1>6, <2>1 DEF BlockShowns
  <2>3. BlockOf(f, w, i)
    BY ONLY f = "pi", Matched(f, w), n \in Nat, n = Len(w), i \in 1..n, BlocksAre, Zenon
  <2>4. Tells(PiMessage(w, i), i, call, result, good)
    BY ONLY CalledAs = "tool", <1>1, <2>1, <2>2, <2>3, PiTells, Zenon DEF BlockOf
  <2>5. make[i] = PiMessage(w, i)
    BY <1>2
  <2> QED  BY ONLY <2>4, <2>5
<1>7. Told(x, n, rows, S, call, result, good)
  <2>1. rows = Ascending(S, n)
    BY <1>2
  <2>2. \A i \in 1..n : i \in S => Tells(make[i], i, call, result, good)
    BY <1>6
  <2> QED  BY ONLY n \in Nat, <1>5, <2>1, <2>2, ToldHolds, Zenon
<1> QED  BY ONLY <1>1, <1>3, <1>7, Zenon

LEMMA ClawTold ==
  ASSUME CalledAs = "tool", NEW f, f = "openclaw", NEW w, Matched(f, w), NEW n \in Nat, n = Len(w)
  PROVE  \E rows : Told(ClawMessages(w), n, rows, BlockShowns(w, n), CallsOf(f, w), ResultsOf(f, w), Well(f, w))
<1>1. PICK call, result, good, S : /\ call = CallsOf(f, w) /\ result = ResultsOf(f, w) /\ good = Well(f, w)
                                   /\ S = BlockShowns(w, n)
  OBVIOUS
<1>2. PICK rows, make : rows = Ascending(S, n) /\ make = [i \in 1..n |-> ClawParts(w, i)]
  OBVIOUS
<1>3. PICK x : x = ClawMessages(w)
  OBVIOUS
<1>4. x = [k \in DOMAIN rows |-> ClawParts(w, rows[k])]
  BY <1>1, <1>2, <1>3, Zenon DEF ClawMessages, MessagesOf, BlockShowns
<1>5. x = [k \in DOMAIN rows |-> make[rows[k]]]
  <2>1. \A k \in DOMAIN rows : rows[k] \in 1..n
    BY <1>2, AscendingLists DEF Kept
  <2> QED  BY <1>2, <1>4, <2>1
<1>6. ASSUME NEW i \in 1..n, i \in S PROVE Tells(make[i], i, call, result, good)
  <2>1. PICK r : r = w[i]
    OBVIOUS
  <2>2. r.type = "message"
    BY ONLY <1>1, <1>6, <2>1 DEF BlockShowns
  <2>3. BlockOf(f, w, i)
    BY ONLY f = "openclaw", Matched(f, w), n \in Nat, n = Len(w), i \in 1..n, BlocksAre, Zenon
  <2>4. Tells(ClawParts(w, i), i, call, result, good)
    BY ONLY CalledAs = "tool", <1>1, <2>1, <2>2, <2>3, ClawTells, Zenon DEF BlockOf
  <2>5. make[i] = ClawParts(w, i)
    BY <1>2
  <2> QED  BY ONLY <2>4, <2>5
<1>7. Told(x, n, rows, S, call, result, good)
  <2>1. rows = Ascending(S, n)
    BY <1>2
  <2>2. \A i \in 1..n : i \in S => Tells(make[i], i, call, result, good)
    BY <1>6
  <2> QED  BY ONLY n \in Nat, <1>5, <2>1, <2>2, ToldHolds, Zenon
<1> QED  BY ONLY <1>1, <1>3, <1>7, Zenon

\* dsh: the rows that are shown are the first of their ids.
LEMMA DshShownsAre ==
  ASSUME NEW w, Matched("dsh", w), DshWritten(w), NEW n \in Nat, n = Len(w)
  PROVE  /\ DshShowns(w, n) \subseteq OwnRows("dsh", w)
         /\ \A i \in OwnRows("dsh", w) : ResultIn("dsh", w[i]) # 0 => i \in DshShowns(w, n)
<1>1. ASSUME NEW i \in 1..n PROVE w[i].id \in 1..i /\ w[w[i].id].id = w[i].id /\ ~w[w[i].id].replaces
  BY DEF Matched
<1>2. ASSUME NEW i \in 1..n, DshShown(w, i) PROVE w[i].id = i
  <2>1. PICK k : k = w[i].id
    OBVIOUS
  <2>2. k \in 1..i /\ k \in 1..n /\ w[k].id = w[i].id /\ ~w[k].replaces
    BY <1>1, <2>1
  <2>3. DshSame(w[k], w[i])
    BY <2>2 DEF DshWritten
  <2>4. DshHasMessage(w[k]) <=> DshHasMessage(w[i])
    BY ONLY <2>3, Zenon DEF DshHasMessage, DshSame
  <2>5. \A j \in 1..i - 1 : DshHasMessage(w[j]) /\ ~w[j].replaces => w[j].id # w[i].id
    BY ONLY <1>2, Zenon DEF DshShown
  <2>6. DshHasMessage(w[i])
    BY ONLY <1>2, Zenon DEF DshShown
  <2>7. k \notin 1..i - 1
    BY ONLY <2>2, <2>4, <2>5, <2>6, Zenon
  <2> QED  BY ONLY <2>1, <2>2, <2>7, i \in 1..n, n \in Nat
<1>3. ASSUME NEW i \in 1..n, w[i].id = i, ResultIn("dsh", w[i]) # 0 PROVE DshShown(w, i)
  <2>1. w[i].type = "tool/result"
    <3>1. ResultIn("dsh", w[i]) = IF w[i].type = "tool/result" THEN w[i].call ELSE 0
      BY ONLY Zenon DEF ResultIn
    <3> QED  BY ONLY <1>3, <3>1
  <2>2. DshHasMessage(w[i])
    BY <2>1, Zenon DEF DshHasMessage
  <2>3. ~w[i].replaces
    BY <1>1, <1>3
  <2>4. \A j \in 1..i - 1 : w[j].id # w[i].id
    BY <1>1, <1>3
  <2> QED  BY ONLY <2>2, <2>3, <2>4, Zenon DEF DshShown
<1>4. \A i : i \in OwnRows("dsh", w) <=> i \in 1..n /\ w[i].id = i
  BY DEF OwnRows
<1>5. \A i : i \in DshShowns(w, n) <=> i \in 1..n /\ DshShown(w, i)
  BY DEF DshShowns
<1> QED  BY ONLY <1>2, <1>3, <1>4, <1>5, Zenon

LEMMA DshTells ==
  ASSUME CalledAs = "any", NEW w, NEW i, NEW r, r = w[i], NEW call, NEW reply, NEW good,
         call[i] = IF r.type = "assistant/message" THEN r.call ELSE 0, reply[i] = IF r.type = "tool/result" THEN r.call ELSE 0,
         i \in good <=> ~r.error
  PROVE  Tells(DshMessage(w, i), i, call, reply, good)
<1>1. PICK d, status : d = r.call /\ status = (IF r.error THEN "error" ELSE "ok")
  OBVIOUS
<1>2. PICK role, at, t, a, e, c, s, u, m :
        /\ role = DshRole(r) /\ at = DshTimeISO(DshTime(i)) /\ t = DshText(r) /\ a = r.injected /\ e = FALSE
        /\ c = DshCallsOf(r) /\ s = DshResultsOf(r) /\ u = DshUsed(r) /\ m = DshMessage(w, i)
  OBVIOUS
<1>3. m = MessageWith(i, role, at, t, a, e, c, s, u)
  BY <1>2, DshMessageIs, Zenon
<1>4. OneCall(c, d, call[i])
  <2>1. CASE r.type = "assistant/message" /\ d # 0
    <3>1. c = <<d>> /\ call[i] = d
      BY <1>1, <1>2, <2>1 DEF DshCallsOf
    <3> QED  BY ONLY <3>1, Zenon DEF OneCall
  <2>2. CASE ~(r.type = "assistant/message" /\ d # 0)
    <3>1. c = <<>>
      BY <1>1, <1>2, <2>2, Zenon DEF DshCallsOf
    <3> QED  BY ONLY <3>1, Zenon DEF OneCall
  <2> QED  BY ONLY <2>1, <2>2, Zenon
<1>5. OneAnswer(s, d, "any", status, reply[i], i \in good)
  <2>1. CASE r.type = "tool/result"
    <3>1. s = <<Answer(d, "any", status)>>
      BY <1>1, <1>2, <2>1, Zenon DEF DshResultsOf
    <3>2. reply[i] = d
      BY <1>1, <2>1
    <3>3. status = "ok" <=> i \in good
      BY <1>1
    <3> QED  BY ONLY CalledAs = "any", <3>1, <3>2, <3>3, Zenon DEF OneAnswer
  <2>2. CASE r.type # "tool/result"
    <3>1. s = <<>> /\ reply[i] = 0
      BY <1>2, <2>2 DEF DshResultsOf
    <3> QED  BY ONLY <3>1, Zenon DEF OneAnswer
  <2> QED  BY ONLY <2>1, <2>2, Zenon
<1>6. Tells(m, i, call, reply, good)
  BY ONLY <1>3, <1>4, <1>5, PartsTell
<1> QED  BY ONLY <1>2, <1>6, Zenon

LEMMA DshTold ==
  ASSUME CalledAs = "any", NEW w, Matched("dsh", w), NEW n \in Nat, n = Len(w)
  PROVE  \E rows : Told(DshMessages(w), n, rows, DshShowns(w, n), CallsOf("dsh", w), ResultsOf("dsh", w), Well("dsh", w))
<1>1. PICK call, result, good, S : /\ call = CallsOf("dsh", w) /\ result = ResultsOf("dsh", w) /\ good = Well("dsh", w)
                                   /\ S = DshShowns(w, n)
  OBVIOUS
<1>2. PICK rows, make : rows = Ascending(S, n) /\ make = [i \in 1..n |-> DshMessage(w, i)]
  OBVIOUS
<1>3. PICK x : x = DshMessages(w)
  OBVIOUS
<1>4. x = [k \in DOMAIN rows |-> DshMessage(w, rows[k])]
  BY <1>1, <1>2, <1>3, Zenon DEF DshMessages, MessagesOf, DshShowns
<1>5. x = [k \in DOMAIN rows |-> make[rows[k]]]
  <2>1. \A k \in DOMAIN rows : rows[k] \in 1..n
    BY <1>2, AscendingLists DEF Kept
  <2> QED  BY <1>2, <1>4, <2>1
<1>6. ASSUME NEW i \in 1..n, i \in S PROVE Tells(make[i], i, call, result, good)
  <2>1. PICK r : r = w[i]
    OBVIOUS
  <2>2. /\ call[i] = CallIn("dsh", r) /\ result[i] = ResultIn("dsh", r)
        /\ i \in good <=> ~Bad("dsh", w, i)
    BY ONLY <1>1, <2>1, Matched("dsh", w), n \in Nat, n = Len(w), i \in 1..n, RowOf, Zenon
  <2>3. /\ CallIn("dsh", r) = (IF r.type = "assistant/message" THEN r.call ELSE 0)
        /\ ResultIn("dsh", r) = (IF r.type = "tool/result" THEN r.call ELSE 0)
        /\ Bad("dsh", w, i) <=> r.error
    BY ONLY <2>1, Zenon DEF CallIn, ResultIn, Bad
  <2>4. Tells(DshMessage(w, i), i, call, result, good)
    BY ONLY CalledAs = "any", <2>1, <2>2, <2>3, DshTells, Zenon
  <2>5. make[i] = DshMessage(w, i)
    BY <1>2
  <2> QED  BY ONLY <2>4, <2>5
<1>7. Told(x, n, rows, S, call, result, good)
  <2>1. rows = Ascending(S, n)
    BY <1>2
  <2>2. \A i \in 1..n : i \in S => Tells(make[i], i, call, result, good)
    BY <1>6
  <2> QED  BY ONLY n \in Nat, <1>5, <2>1, <2>2, ToldHolds, Zenon
<1> QED  BY ONLY <1>1, <1>3, <1>7, Zenon

\* Where a message is of one row, every call is answered once.
LEMMA RowFormatsAnswer ==
  ASSUME format \in Formats \ {"gemini", "antigravity", "grok"}, Len(log) \in Nat, Matched(format, log),
         format = "dsh" => DshWritten(log)
  PROVE  AnsweredOnce
<1>1. PICK n \in Nat : n = Len(log)
  OBVIOUS
<1>2. PICK call, result, good : call = CallsOf(format, log) /\ result = ResultsOf(format, log) /\ good = Well(format, log)
  OBVIOUS
<1> DEFINE Fits(rows, S) ==
      /\ S \subseteq OwnRows(format, log) /\ \A i \in OwnRows(format, log) : ResultIn(format, log[i]) # 0 => i \in S
      /\ Told(Messages, n, rows, S, call, result, good)
<1>3. ASSUME NEW rows, NEW S, Fits(rows, S) PROVE AnsweredOnce
  <2>1. format \in Formats \ {"gemini", "antigravity"}
    OBVIOUS
  <2>2. /\ S \subseteq OwnRows(format, log) /\ \A i \in OwnRows(format, log) : ResultIn(format, log[i]) # 0 => i \in S
        /\ Told(Messages, n, rows, S, CallsOf(format, log), ResultsOf(format, log), Well(format, log))
    BY ONLY <1>2, <1>3, Zenon
  <2> QED  BY ONLY <1>1, <2>1, <2>2, Len(log) \in Nat, Matched(format, log), format = "dsh" => DshWritten(log),
                   OwnRowsAnswer, Zenon
<1>4. format # "dsh" => \A i : i \in OwnRows(format, log) <=> i \in 1..n
  BY <1>1 DEF OwnRows
<1>5. ASSUME format # "dsh", NEW S, S \subseteq 1..n, \A i \in 1..n : ResultIn(format, log[i]) # 0 => i \in S,
             \E rows : Told(Messages, n, rows, S, call, result, good)
      PROVE  \E rows : Fits(rows, S)
  BY ONLY <1>4, <1>5
<1> HIDE DEF Fits
<1>6. CASE format \in {"claude", "claude-sub"}
  <2>1. PICK side : side = (format = "claude-sub")
    OBVIOUS
  <2>2. PICK f, w, S : f = format /\ w = log /\ S = ClaudeShowns(w, n, side)
    OBVIOUS
  <2>3. Messages = ClaudeMessages(w, side)
    BY ONLY <1>6, <2>1, <2>2, Zenon DEF Messages, sub
  <2>7. CalledAs = "tool"
    BY ONLY <1>6 DEF CalledAs
  <2>4. /\ \E rows : Told(ClaudeMessages(w, side), n, rows, S, CallsOf(f, w), ResultsOf(f, w), Well(f, w))
        /\ \A i \in 1..n : ResultIn(f, w[i]) # 0 => i \in S
    BY ONLY <1>1, <1>6, <2>1, <2>2, Matched(format, log), <2>7, ClaudeTold, Zenon
  <2>5. S \subseteq 1..n
    BY <2>2 DEF ClaudeShowns
  <2>6. \E rows : Fits(rows, S)
    BY ONLY <1>2, <1>5, <1>6, <2>2, <2>3, <2>4, <2>5
  <2> QED  BY <1>3, <2>6
<1>7. CASE format \in {"codex", "codex-totals"}
  <2>1. PICK f, w, S : f = format /\ w = log /\ S = CodexShowns(w, n)
    OBVIOUS
  <2>2. Messages = CodexMessages(w)
    BY ONLY <1>7, <2>1, Zenon DEF Messages
  <2>7. CalledAs = "tool"
    BY ONLY <1>7 DEF CalledAs
  <2>3. /\ \E rows : Told(CodexMessages(w), n, rows, S, CallsOf(f, w), ResultsOf(f, w), Well(f, w))
        /\ \A i \in 1..n : ResultIn(f, w[i]) # 0 => i \in S
    BY ONLY <1>1, <1>7, <2>1, Matched(format, log), <2>7, CodexTold, Zenon
  <2>4. S \subseteq 1..n
    BY <2>1 DEF CodexShowns
  <2>5. \E rows : Fits(rows, S)
    BY ONLY <1>2, <1>5, <1>7, <2>1, <2>2, <2>3, <2>4
  <2> QED  BY <1>3, <2>5
<1>8. CASE format \in {"pi", "openclaw"}
  <2>1. PICK f, w, S : f = format /\ w = log /\ S = BlockShowns(w, n)
    OBVIOUS
  <2>2. \E rows : Told(Messages, n, rows, S, CallsOf(f, w), ResultsOf(f, w), Well(f, w))
    <3>1. CASE format = "pi"
      <4>1. Messages = PiMessages(w)
        BY ONLY <2>1, <3>1, Zenon DEF Messages
      <4>3. CalledAs = "tool"
        BY ONLY <3>1 DEF CalledAs
      <4>2. \E rows : Told(PiMessages(w), n, rows, S, CallsOf(f, w), ResultsOf(f, w), Well(f, w))
        BY ONLY <1>1, <2>1, <3>1, Matched(format, log), <4>3, PiTold, Zenon
      <4> QED  BY ONLY <4>1, <4>2
    <3>2. CASE format = "openclaw"
      <4>1. Messages = ClawMessages(w)
        BY ONLY <2>1, <3>2, Zenon DEF Messages
      <4>3. CalledAs = "tool"
        BY ONLY <3>2 DEF CalledAs
      <4>2. \E rows : Told(ClawMessages(w), n, rows, S, CallsOf(f, w), ResultsOf(f, w), Well(f, w))
        BY ONLY <1>1, <2>1, <3>2, Matched(format, log), <4>3, ClawTold, Zenon
      <4> QED  BY ONLY <4>1, <4>2
    <3> QED  BY <1>8, <3>1, <3>2
  <2>3. \A i \in 1..n : ResultIn(f, w[i]) # 0 => i \in S
    BY ONLY <1>1, <1>8, <2>1, Matched(format, log), BlocksAre, Zenon
  <2>4. S \subseteq 1..n
    BY <2>1 DEF BlockShowns
  <2>5. \E rows : Fits(rows, S)
    BY ONLY <1>2, <1>5, <1>8, <2>1, <2>2, <2>3, <2>4
  <2> QED  BY <1>3, <2>5
<1>9. CASE format = "dsh"
  <2>1. PICK S : S = DshShowns(log, n)
    OBVIOUS
  <2>2. Messages = DshMessages(log)
    BY ONLY <1>9, Zenon DEF Messages
  <2>3. Matched("dsh", log) /\ DshWritten(log)
    BY ONLY <1>9, Matched(format, log), format = "dsh" => DshWritten(log)
  <2>7. CalledAs = "any"
    BY ONLY <1>9, Zenon DEF CalledAs
  <2>4. PICK rows : Told(DshMessages(log), n, rows, S, CallsOf("dsh", log), ResultsOf("dsh", log), Well("dsh", log))
    BY ONLY <1>1, <2>1, <2>3, <2>7, DshTold, Zenon
  <2>5. S \subseteq OwnRows("dsh", log) /\ \A i \in OwnRows("dsh", log) : ResultIn("dsh", log[i]) # 0 => i \in S
    BY ONLY <1>1, <2>1, <2>3, DshShownsAre, Zenon
  <2>6. Fits(rows, S)
    BY ONLY <1>2, <1>9, <2>2, <2>4, <2>5 DEF Fits
  <2> QED  BY <1>3, <2>6
<1> QED  BY <1>6, <1>7, <1>8, <1>9, Zenon DEF Formats

\* Antigravity's messages make no calls.
LEMMA AgyCallsNone ==
  ASSUME NEW r, NEW s
  PROVE  AgyMessage(s, r).calls = <<>>
<1>1. PICK x, at, t, e, u : /\ x = Message(s, AgyRole(r)) /\ at = r.born /\ t = AgyConversation(r) /\ e = ~AgyConversation(r)
                            /\ u = IF AgyRole(r) = "assistant" THEN 1 ELSE 0
  OBVIOUS
<1>2. x.calls = <<>>
  BY ONLY <1>1 DEF Message
<1>3. PICK no, none, role, y : no = FALSE /\ none = <<>> /\ role = AgyRole(r)
           /\ y = [row |-> s, role |-> role, at |-> s, text |-> no, aside |-> no, event |-> no, calls |-> none, results |-> none, usage |-> 0]
  OBVIOUS
<1>4. x = y
  BY ONLY <1>1, <1>3, Zenon DEF Message
<1>5. [y EXCEPT !.at = at, !.text = t, !.event = e, !.usage = u].calls = none
  <2>1. y = [row |-> s, role |-> role, at |-> s, text |-> no, aside |-> no, event |-> no, calls |-> none, results |-> none, usage |-> 0]
    BY ONLY <1>3, Zenon
  <2> QED  BY ONLY <2>1
<1>6. AgyMessage(s, r) = [x EXCEPT !.at = at, !.text = t, !.event = e, !.usage = u]
  BY ONLY <1>1, Zenon DEF AgyMessage
<1> QED  BY ONLY <1>3, <1>4, <1>5, <1>6, Zenon

LEMMA AgyAnswers ==
  ASSUME format = "antigravity"
  PROVE  AnsweredOnce
<1>1. PICK x, steps : x = Messages /\ steps = AgySteps(log)
  OBVIOUS
<1>2. x = AgyMessages(log)
  BY <1>1, Zenon DEF Messages
<1>3. x = [j \in DOMAIN steps |-> AgyMessage(steps[j], log[steps[j]])]
  BY <1>1, <1>2, Zenon DEF AgyMessages, AgyMessage
<1>4. \A m \in DOMAIN x : x[m].calls = <<>>
  <2>1. ASSUME NEW m \in DOMAIN x PROVE x[m].calls = <<>>
    <3>1. x[m] = AgyMessage(steps[m], log[steps[m]])
      BY <1>3
    <3> QED  BY ONLY <3>1, AgyCallsNone
  <2> QED  BY <2>1
<1>5. \A m \in DOMAIN x : DOMAIN x[m].calls = {}
  BY ONLY <1>4
<1>6. \A m \in DOMAIN Messages : \A k \in DOMAIN Messages[m].calls :
        Messages[m].calls[k] # 0 => IsAnswered(m, Messages[m].calls[k])
  BY ONLY <1>1, <1>5
<1> QED  BY ONLY <1>6, EachAnswered, Zenon

\* Gemini, whose calls are answered in place or by a row that comes later
GeminiRowsMatched(w, n) ==
  /\ \A i \in 1..n : GeminiTool(w[i])
  /\ \A i \in 1..n : w[i].type = "gemini" /\ w[i].id # 0 => w[i].id = i
  /\ \A i \in 1..n : w[i].type = "user" /\ w[i].id # 0 =>
       w[i].id \in 1..i - 1 /\ w[w[i].id].type = "gemini" /\ w[w[i].id].id = w[i].id
  /\ \A i \in 1..n, j \in 1..n :
       w[i].type = "user" /\ w[j].type = "user" /\ w[i].id # 0 /\ w[i].id = w[j].id => i = j

LEMMA GeminiMatched ==
  ASSUME NEW w, Matched("gemini", w), NEW n \in Nat, n = Len(w)
  PROVE  GeminiRowsMatched(w, n)
<1>1. PICK f : f = "gemini"
  OBVIOUS
<1>2. PICK call, result, O : call = CallsOf(f, w) /\ result = ResultsOf(f, w) /\ O = OwnRows(f, w)
  OBVIOUS
<1>3. /\ \A i \in 1..n : ToolRow(f, w[i])
      /\ Pairs(n, O, call, result)
  BY ONLY <1>1, <1>2, Matched("gemini", w), n = Len(w), Zenon DEF Matched
<1>4. \A i \in 1..n : i \in O
  BY <1>1, <1>2 DEF OwnRows
<1>5. \A i \in 1..n : call[i] = CallIn(f, w[i]) /\ result[i] = ResultIn(f, w[i])
  BY <1>2 DEF CallsOf, ResultsOf
<1>6. \A r : /\ CallIn(f, r) = (IF r.type = "gemini" THEN r.id ELSE 0)
             /\ ResultIn(f, r) = (IF r.type = "user" THEN r.id ELSE 0)
             /\ ToolRow(f, r) <=> GeminiTool(r)
  BY ONLY <1>1, Zenon DEF CallIn, ResultIn, ToolRow
<1>7. \A i \in 1..n : GeminiTool(w[i])
  BY ONLY <1>3, <1>6, Zenon
<1>8. /\ \A i \in 1..n : call[i] = (IF w[i].type = "gemini" THEN w[i].id ELSE 0)
      /\ \A i \in 1..n : result[i] = (IF w[i].type = "user" THEN w[i].id ELSE 0)
  BY ONLY <1>5, <1>6, Zenon
<1>9. ASSUME NEW i \in 1..n, w[i].type = "gemini", w[i].id # 0 PROVE w[i].id = i
  BY <1>3, <1>4, <1>8, <1>9 DEF Pairs
<1>10. ASSUME NEW i \in 1..n, w[i].type = "user", w[i].id # 0
       PROVE  w[i].id \in 1..i - 1 /\ w[w[i].id].type = "gemini" /\ w[w[i].id].id = w[i].id
  <2>1. PICK c : c = w[i].id /\ c # 0 /\ result[i] = c
    BY <1>8, <1>10
  <2>2. c \in 1..i - 1 /\ call[c] = c
    BY <1>3, <2>1 DEF Pairs
  <2>3. c \in 1..n
    BY <2>2
  <2>4. call[c] = IF w[c].type = "gemini" THEN w[c].id ELSE 0
    BY <1>8, <2>3
  <2>5. w[c].type = "gemini" /\ w[c].id = c
    BY ONLY <2>1, <2>2, <2>4
  <2> QED  BY ONLY <2>1, <2>2, <2>5
<1>11. ASSUME NEW i \in 1..n, NEW j \in 1..n, w[i].type = "user", w[j].type = "user", w[i].id # 0, w[i].id = w[j].id
       PROVE  i = j
  <2>1. result[i] # 0 /\ result[i] = result[j]
    BY ONLY <1>8, <1>11
  <2> QED  BY <1>3, <1>4, <2>1 DEF Pairs
<1> QED  BY ONLY <1>7, <1>9, <1>10, <1>11, Zenon DEF GeminiRowsMatched

\* The call a row's message answers, and how it says it ended
GeminiAnswersIn(w, i) ==
  LET r == w[i] IN
  IF r.id = 0 THEN 0
  ELSE IF r.type = "gemini" THEN IF r.output THEN r.id ELSE 0
  ELSE IF r.type = "user" /\ ~GeminiAnswered(w, i, r.id) THEN r.id ELSE 0
GeminiSaysOf(w, i) ==
  IF w[i].type = "gemini" THEN GeminiVerdict(w[i].status, "ok")
  ELSE GeminiVerdict(GeminiStatusOf(w, i, w[i].id), w[i].status)
GeminiCallsIn(w, n) == [i \in 1..n |-> CallIn("gemini", w[i])]
GeminiAnswersOf(w, n) == [i \in 1..n |-> GeminiAnswersIn(w, i)]
GeminiWell(w, n) == {i \in 1..n : GeminiSaysOf(w, i) = "ok"}

LEMMA GeminiTells ==
  ASSUME CalledAs = "tool", NEW w, NEW i, NEW r, r = w[i], GeminiEntry(r), NEW call, NEW reply, NEW good,
         call[i] = IF r.type = "gemini" THEN r.id ELSE 0, reply[i] = GeminiAnswersIn(w, i),
         i \in good <=> GeminiSaysOf(w, i) = "ok"
  PROVE  Tells(GeminiMessage(w, i), i, call, reply, good)
<1>1. PICK no, yes, none, u : no = FALSE /\ yes = TRUE /\ none = <<>> /\ u = SpeaksFor(r.type = "gemini")
  OBVIOUS
<1>2. PICK x, m : x = GeminiParts(w, i) /\ m = WithUsage(x, u)
  OBVIOUS
<1>3. x = GeminiParts(w, i) /\ m = GeminiMessage(w, i)
  BY <1>1, <1>2, Zenon DEF GeminiMessage, SpeaksFor, WithUsage
<1>4. PICK role : role = (IF r.type = "gemini" THEN "assistant" ELSE "user")
  OBVIOUS
<1> DEFINE new == MessageWith(i, role, i, no, no, no, none, none, 0)
<1> SUFFICES Tells(m, i, call, reply, good)
  BY <1>3, Zenon
<1>5. Message(i, IF r.type = "gemini" THEN "assistant" ELSE "user") = new
  BY <1>1, <1>4, Zenon DEF Message, MessageWith
<1>6. OneCall(none, 0, call[i])
  BY ONLY <1>1, Zenon DEF OneCall
<1>7. reply[i] = 0 => OneAnswer(none, 0, "", "", reply[i], i \in good)
  BY ONLY <1>1, Zenon DEF OneAnswer
<1>8. CASE r.id = 0
  <2>1. x = WithText(new, yes)
    BY <1>1, <1>3, <1>5, <1>8, Zenon DEF GeminiParts, WithText
  <2>2. m = MessageWith(i, role, i, yes, no, no, none, none, u)
    <3>1. x = MessageWith(i, role, i, yes, no, no, none, none, 0)
      BY <2>1, TextSet
    <3> QED  BY ONLY <1>2, <3>1, UsageSet
  <2>3. reply[i] = 0
    BY <1>8, Zenon DEF GeminiAnswersIn
  <2> QED  BY ONLY <1>6, <1>7, <2>2, <2>3, PartsTell
<1>9. CASE r.id # 0 /\ r.type = "gemini"
  <2>1. PICK d, status : d = r.id /\ status = GeminiVerdict(r.status, "ok")
    OBVIOUS
  <2>2. PICK c, s : c = <<d>> /\ s = (IF r.output THEN <<Answer(d, "tool", status)>> ELSE <<>>)
    OBVIOUS
  <2>3. x = [new EXCEPT !.calls = c, !.results = s]
    BY <1>3, <1>5, <1>9, <2>1, <2>2, Zenon DEF GeminiParts
  <2>4. x = WithResults(WithCalls(new, c), s)
    <3>1. PICK y : y = new
      OBVIOUS
    <3>2. [y EXCEPT !.calls = c, !.results = s] = WithResults(WithCalls(y, c), s)
      BY Zenon DEF WithCalls, WithResults
    <3> QED  BY <2>3, <3>1, <3>2, Zenon
  <2>5. m = MessageWith(i, role, i, no, no, no, c, s, u)
    <3>1. x = MessageWith(i, role, i, no, no, no, c, s, 0)
      BY <2>4, CallsSet, ResultsSet
    <3> QED  BY ONLY <1>2, <3>1, UsageSet
  <2>6. call[i] = d
    BY <1>9, <2>1
  <2>7. OneCall(c, d, call[i])
    BY ONLY <2>2, <2>6, Zenon DEF OneCall
  <2>8. GeminiAnswersIn(w, i) = (IF r.output THEN d ELSE 0) /\ GeminiSaysOf(w, i) = status
    BY <1>9, <2>1, Zenon DEF GeminiAnswersIn, GeminiSaysOf
  <2>9. OneAnswer(s, d, "tool", status, reply[i], i \in good)
    <3>1. reply[i] = (IF r.output THEN d ELSE 0)
      BY <2>8
    <3>2. i \in good <=> status = "ok"
      BY <2>8, Zenon
    <3>3. CASE r.output
      <4>1. reply[i] = d /\ s = <<Answer(d, "tool", status)>>
        BY ONLY <2>2, <3>1, <3>3, Zenon
      <4> QED  BY ONLY CalledAs = "tool", <3>2, <4>1, Zenon DEF OneAnswer
    <3>4. CASE ~r.output
      <4>1. reply[i] = 0 /\ s = <<>>
        BY ONLY <2>2, <3>1, <3>4, Zenon
      <4> QED  BY ONLY <4>1, Zenon DEF OneAnswer
    <3> QED  BY ONLY <3>3, <3>4, Zenon
  <2> QED  BY ONLY <2>5, <2>7, <2>9, PartsTell
<1>10. CASE r.id # 0 /\ r.type # "gemini"
  <2>1. r.type = "user"
    BY <1>10 DEF GeminiEntry
  <2>2. PICK d, status : d = r.id /\ status = GeminiVerdict(GeminiStatusOf(w, i, r.id), r.status)
    OBVIOUS
  <2>3. PICK s : s = (IF GeminiAnswered(w, i, r.id) THEN <<>> ELSE <<Answer(d, "tool", status)>>)
    OBVIOUS
  <2>4. x = WithResults(new, s)
    BY <1>3, <1>5, <1>10, <2>2, <2>3, Zenon DEF GeminiParts, WithResults
  <2>5. m = MessageWith(i, role, i, no, no, no, none, s, u)
    <3>1. x = MessageWith(i, role, i, no, no, no, none, s, 0)
      BY <2>4, ResultsSet
    <3> QED  BY ONLY <1>2, <3>1, UsageSet
  <2>6. GeminiAnswersIn(w, i) = (IF GeminiAnswered(w, i, r.id) THEN 0 ELSE d) /\ GeminiSaysOf(w, i) = status
    BY <1>10, <2>1, <2>2, Zenon DEF GeminiAnswersIn, GeminiSaysOf
  <2>7. OneAnswer(s, d, "tool", status, reply[i], i \in good)
    <3>1. reply[i] = (IF GeminiAnswered(w, i, r.id) THEN 0 ELSE d)
      BY <2>6
    <3>2. i \in good <=> status = "ok"
      BY <2>6, Zenon
    <3>3. CASE ~GeminiAnswered(w, i, r.id)
      <4>1. reply[i] = d /\ s = <<Answer(d, "tool", status)>>
        BY ONLY <2>3, <3>1, <3>3, Zenon
      <4> QED  BY ONLY CalledAs = "tool", <3>2, <4>1, Zenon DEF OneAnswer
    <3>4. CASE GeminiAnswered(w, i, r.id)
      <4>1. reply[i] = 0 /\ s = <<>>
        BY ONLY <2>3, <3>1, <3>4, Zenon
      <4> QED  BY ONLY <4>1, Zenon DEF OneAnswer
    <3> QED  BY ONLY <3>3, <3>4, Zenon
  <2> QED  BY ONLY <1>6, <2>5, <2>7, PartsTell
<1> QED  BY ONLY <1>8, <1>9, <1>10, Zenon

LEMMA GeminiTold ==
  ASSUME CalledAs = "tool", NEW w, NEW n \in Nat, n = Len(w)
  PROVE  \E rows : Told(GeminiMessages(w), n, rows, GeminiShowns(w, n), GeminiCallsIn(w, n), GeminiAnswersOf(w, n), GeminiWell(w, n))
<1>1. PICK call, reply, good, S : /\ call = GeminiCallsIn(w, n) /\ reply = GeminiAnswersOf(w, n) /\ good = GeminiWell(w, n)
                                  /\ S = GeminiShowns(w, n)
  OBVIOUS
<1>2. PICK rows, make : rows = Ascending(S, n) /\ make = [i \in 1..n |-> GeminiMessage(w, i)]
  OBVIOUS
<1>3. PICK x : x = GeminiMessages(w)
  OBVIOUS
<1>4. x = [k \in DOMAIN rows |-> GeminiMessage(w, rows[k])]
  BY <1>1, <1>2, <1>3, Zenon DEF GeminiMessages, MessagesOf, GeminiMessage, GeminiShowns
<1>5. x = [k \in DOMAIN rows |-> make[rows[k]]]
  <2>1. \A k \in DOMAIN rows : rows[k] \in 1..n
    BY <1>2, AscendingLists DEF Kept
  <2> QED  BY <1>2, <1>4, <2>1
<1>6. ASSUME NEW i \in 1..n, i \in S PROVE Tells(make[i], i, call, reply, good)
  <2>1. PICK r : r = w[i]
    OBVIOUS
  <2>2. GeminiEntry(r)
    BY ONLY <1>1, <1>6, <2>1 DEF GeminiShowns
  <2>3. call[i] = CallIn("gemini", r) /\ reply[i] = GeminiAnswersIn(w, i) /\ (i \in good <=> GeminiSaysOf(w, i) = "ok")
    BY ONLY <1>1, <2>1, i \in 1..n DEF GeminiCallsIn, GeminiAnswersOf, GeminiWell
  <2>4. CallIn("gemini", r) = IF r.type = "gemini" THEN r.id ELSE 0
    BY ONLY Zenon DEF CallIn
  <2>5. Tells(GeminiMessage(w, i), i, call, reply, good)
    BY ONLY CalledAs = "tool", <2>1, <2>2, <2>3, <2>4, GeminiTells, Zenon
  <2>6. make[i] = GeminiMessage(w, i)
    BY <1>2
  <2> QED  BY ONLY <2>5, <2>6
<1>7. Told(x, n, rows, S, call, reply, good)
  <2>1. rows = Ascending(S, n)
    BY <1>2
  <2>2. \A i \in 1..n : i \in S => Tells(make[i], i, call, reply, good)
    BY <1>6
  <2> QED  BY ONLY n \in Nat, <1>5, <2>1, <2>2, ToldHolds, Zenon
<1> QED  BY ONLY <1>1, <1>3, <1>7, Zenon

\* What earlier rows said of a call: its own row did.
GeminiSaid(w, c) == IF w[c].output \/ w[c].status \in {"", "executing"} THEN "" ELSE w[c].status

LEMMA GeminiOwnRow ==
  ASSUME NEW w, NEW n \in Nat, GeminiRowsMatched(w, n), NEW j \in 1..n, NEW c, c # 0, w[j].type = "user", w[j].id = c
  PROVE  /\ c \in 1..j - 1 /\ c \in 1..n /\ w[c].type = "gemini" /\ w[c].id = c
         /\ GeminiAnswered(w, j, c) <=> w[c].output
         /\ GeminiStatusOf(w, j, c) = GeminiSaid(w, c)
<1>1. c \in 1..j - 1 /\ w[c].type = "gemini" /\ w[c].id = c
  BY DEF GeminiRowsMatched
<1>2. c \in 1..n
  BY <1>1
<1>3. ASSUME NEW k \in 1..j - 1, w[k].type = "gemini", w[k].id = c PROVE k = c
  <2>1. k \in 1..n
    OBVIOUS
  <2> QED  BY <1>3, <2>1 DEF GeminiRowsMatched
<1>4. GeminiAnswered(w, j, c) <=> w[c].output
  BY ONLY <1>1, <1>3, Zenon DEF GeminiAnswered
<1>5. PICK said : said = {k \in 1..(j - 1) : /\ w[k].type = "gemini" /\ w[k].id = c /\ ~w[k].output
                                            /\ w[k].status \notin {"", "executing"}}
  OBVIOUS
<1>6. GeminiStatusOf(w, j, c) = IF said = {} THEN "" ELSE w[Max(said)].status
  BY <1>5, Zenon DEF GeminiStatusOf
<1>7. \A k : k \in said <=> k = c /\ ~w[c].output /\ w[c].status \notin {"", "executing"}
  BY ONLY <1>1, <1>3, <1>5
<1>8. CASE w[c].output \/ w[c].status \in {"", "executing"}
  <2>1. said = {}
    BY ONLY <1>7, <1>8
  <2> QED  BY ONLY <1>1, <1>2, <1>4, <1>6, <1>8, <2>1, Zenon DEF GeminiSaid
<1>9. CASE ~(w[c].output \/ w[c].status \in {"", "executing"})
  <2>1. c \in said /\ said # {}
    BY ONLY <1>7, <1>9
  <2>2. said \in SUBSET (0..n)
    <3>1. \A k \in 1..(j - 1) : k \in 0..n
      OBVIOUS
    <3> QED  BY ONLY <1>5, <3>1
  <2>3. Max(said) = c
    BY ONLY n \in Nat, <1>7, <2>1, <2>2, GreatestOf
  <2> QED  BY ONLY <1>1, <1>2, <1>4, <1>6, <1>9, <2>1, <2>3, Zenon DEF GeminiSaid
<1> QED  BY <1>8, <1>9

\* Which row answers a call: its own, or the one after it
LEMMA GeminiAnswersAre ==
  ASSUME NEW w, NEW n \in Nat, GeminiRowsMatched(w, n), NEW j \in 1..n, NEW c, c # 0
  PROVE  GeminiAnswersIn(w, j) = c <=>
           \/ j = c /\ w[c].type = "gemini" /\ w[c].id = c /\ w[c].output
           \/ w[j].type = "user" /\ w[j].id = c /\ ~w[c].output
<1>1. "user" # "gemini"
  OBVIOUS
<1>2. CASE w[j].id = 0
  <2>1. GeminiAnswersIn(w, j) = 0
    BY <1>2, Zenon DEF GeminiAnswersIn
  <2> QED  BY <1>2, <2>1
<1>3. CASE w[j].id # 0 /\ w[j].type = "gemini"
  <2>1. GeminiAnswersIn(w, j) = IF w[j].output THEN w[j].id ELSE 0
    BY <1>3, Zenon DEF GeminiAnswersIn
  <2>2. w[j].id = j
    BY <1>3 DEF GeminiRowsMatched
  <2> QED  BY <1>1, <1>3, <2>1, <2>2
<1>4. CASE w[j].id # 0 /\ w[j].type = "user"
  <2>1. PICK d : d = w[j].id /\ d # 0
    BY <1>4
  <2>2. GeminiAnswered(w, j, d) <=> w[d].output
    BY <1>4, <2>1, GeminiOwnRow
  <2>3. GeminiAnswersIn(w, j) = IF GeminiAnswered(w, j, d) THEN 0 ELSE d
    BY <1>1, <1>4, <2>1, Zenon DEF GeminiAnswersIn
  <2>4. w[j].type # "gemini"
    BY <1>4
  <2>5. CASE w[d].output
    <3>1. GeminiAnswersIn(w, j) = 0
      BY ONLY <2>2, <2>3, <2>5, Zenon
    <3> QED  BY <2>1, <2>4, <2>5, <3>1
  <2>6. CASE ~w[d].output
    <3>1. GeminiAnswersIn(w, j) = d
      BY ONLY <2>2, <2>3, <2>6, Zenon
    <3>2. w[j].id = d /\ w[j].type = "user"
      BY <1>4, <2>1
    <3> QED  BY <2>4, <2>6, <3>1, <3>2
  <2> QED  BY <2>5, <2>6
<1>5. CASE w[j].id # 0 /\ w[j].type # "gemini" /\ w[j].type # "user"
  <2>1. GeminiAnswersIn(w, j) = 0
    BY <1>5, Zenon DEF GeminiAnswersIn
  <2> QED  BY <1>5, <2>1
<1> QED  BY <1>2, <1>3, <1>4, <1>5

\* That a call failed, and how it ended, as its rows say it
GeminiFailed(w, n, c) ==
  \/ \E i \in 1..n : w[i].id = c /\ w[i].type = "gemini" /\ w[i].status \in {"error", "cancelled"}
  \/ /\ ~\E i \in 1..n : w[i].id = c /\ w[i].type = "gemini" /\ w[i].status = "success"
     /\ \E i \in 1..n : w[i].id = c /\ w[i].type = "user" /\ w[i].status = "error"

LEMMA VerdictIs ==
  ASSUME NEW s, NEW t
  PROVE  /\ s = "success" => GeminiVerdict(s, t) = "ok"
         /\ s \in {"error", "cancelled"} => GeminiVerdict(s, t) # "ok"
         /\ s \in {"", "executing"} => GeminiVerdict(s, t) = t
BY DEF GeminiVerdict

LEMMA GeminiEndIs ==
  ASSUME NEW w, NEW n \in Nat, GeminiRowsMatched(w, n), NEW j \in 1..n, NEW c, c # 0, GeminiAnswersIn(w, j) = c
  PROVE  GeminiSaysOf(w, j) = "ok" <=> ~GeminiFailed(w, n, c)
<1>1. \/ j = c /\ w[c].type = "gemini" /\ w[c].id = c /\ w[c].output
      \/ w[j].type = "user" /\ w[j].id = c /\ ~w[c].output
  BY GeminiAnswersAre
<1>2. c \in 1..n /\ w[c].type = "gemini" /\ w[c].id = c
  BY <1>1 DEF GeminiRowsMatched
<1>3. \A i \in 1..n : w[i].type = "gemini" /\ w[i].id = c => i = c
  BY <1>2 DEF GeminiRowsMatched
<1>4. PICK s : s = w[c].status
  OBVIOUS
<1>5. GeminiFailed(w, n, c) <=>
        \/ s \in {"error", "cancelled"}
        \/ s # "success" /\ \E i \in 1..n : w[i].id = c /\ w[i].type = "user" /\ w[i].status = "error"
  BY <1>2, <1>3, <1>4, Zenon DEF GeminiFailed
<1>6. GeminiTool(w[c])
  BY <1>2 DEF GeminiRowsMatched
<1>7. CASE w[c].output
  <2>1. s \in GeminiEnds3
    BY <1>2, <1>4, <1>6, <1>7, c # 0, Zenon DEF GeminiTool
  <2>2. j = c
    BY <1>1, <1>7
  <2>3. GeminiSaysOf(w, j) = GeminiVerdict(s, "ok")
    BY <1>2, <1>4, <2>2, Zenon DEF GeminiSaysOf
  <2>4. s = "success" \/ (s \in {"error", "cancelled"} /\ s # "success")
    BY <2>1 DEF GeminiEnds3
  <2>5. s = "success" => s \notin {"error", "cancelled"}
    OBVIOUS
  <2> QED  BY ONLY <1>5, <2>3, <2>4, <2>5, VerdictIs, Zenon
<1>8. CASE ~w[c].output
  <2>1. w[j].type = "user" /\ w[j].id = c /\ w[j].type # "gemini"
    BY <1>1, <1>8
  <2>2. PICK t : t = w[j].status
    OBVIOUS
  <2>3. PICK said : said = (IF s \in {"", "executing"} THEN "" ELSE s)
    OBVIOUS
  <2>4. GeminiSaysOf(w, j) = GeminiVerdict(said, t)
    <3>1. GeminiStatusOf(w, j, c) = GeminiSaid(w, c)
      BY ONLY n \in Nat, GeminiRowsMatched(w, n), j \in 1..n, c # 0, <2>1, GeminiOwnRow
    <3>2. GeminiStatusOf(w, j, c) = said
      BY ONLY <1>4, <1>8, <2>3, <3>1, Zenon DEF GeminiSaid
    <3> QED  BY ONLY <2>1, <2>2, <3>2, Zenon DEF GeminiSaysOf
  <2>5. \A i \in 1..n : w[i].id = c /\ w[i].type = "user" => i = j
    BY <2>1 DEF GeminiRowsMatched
  <2>6. (\E i \in 1..n : w[i].id = c /\ w[i].type = "user" /\ w[i].status = "error") <=> t = "error"
    BY ONLY <2>1, <2>2, <2>5, j \in 1..n, Zenon
  <2>7. t \in {"ok", "error"}
    <3>1. GeminiTool(w[j])
      BY DEF GeminiRowsMatched
    <3> QED  BY <2>1, <2>2, <3>1, c # 0, Zenon DEF GeminiTool
  <2>8. s \in GeminiEnds3 \cup {"", "executing"}
    <3>1. \/ s \in GeminiEnds3
          \/ s \in GeminiEnds3 \cup {"", "executing"}
      BY <1>2, <1>4, <1>6, c # 0, Zenon DEF GeminiTool
    <3> QED  BY ONLY <3>1
  <2>9. CASE s = "success"
    <3>1. GeminiSaysOf(w, j) = "ok"
      BY ONLY <2>3, <2>4, <2>9, VerdictIs
    <3>2. ~GeminiFailed(w, n, c)
      BY ONLY <1>5, <2>9
    <3> QED  BY <3>1, <3>2
  <2>10. CASE s \in {"error", "cancelled"}
    <3>1. GeminiSaysOf(w, j) # "ok"
      BY ONLY <2>3, <2>4, <2>10, VerdictIs
    <3>2. GeminiFailed(w, n, c)
      BY ONLY <1>5, <2>10
    <3> QED  BY <3>1, <3>2
  <2>11. CASE s \in {"", "executing"}
    <3>1. GeminiSaysOf(w, j) = t
      BY ONLY <2>3, <2>4, <2>11, VerdictIs
    <3>2. s # "success" /\ s \notin {"error", "cancelled"}
      BY <2>11
    <3>3. GeminiFailed(w, n, c) <=> t = "error"
      BY ONLY <1>5, <2>6, <3>2, Zenon
    <3>4. t = "ok" <=> ~(t = "error")
      BY <2>7
    <3> QED  BY ONLY <3>1, <3>3, <3>4, Zenon
  <2> QED  BY <2>8, <2>9, <2>10, <2>11 DEF GeminiEnds3
<1> QED  BY <1>7, <1>8

LEMMA GeminiPaired ==
  ASSUME NEW w, NEW n \in Nat, GeminiRowsMatched(w, n), NEW S
  PROVE  Paired(n, S, GeminiCallsIn(w, n), GeminiAnswersOf(w, n))
<1>1. PICK call, reply : call = GeminiCallsIn(w, n) /\ reply = GeminiAnswersOf(w, n)
  OBVIOUS
<1>2. \A i \in 1..n : call[i] = CallIn("gemini", w[i]) /\ reply[i] = GeminiAnswersIn(w, i)
  BY <1>1 DEF GeminiCallsIn, GeminiAnswersOf
<1>3. ASSUME NEW i \in 1..n, call[i] # 0 PROVE call[i] = i
  <2>1. CallIn("gemini", w[i]) = IF w[i].type = "gemini" THEN w[i].id ELSE 0
    BY ONLY Zenon DEF CallIn
  <2> QED  BY <1>2, <1>3, <2>1 DEF GeminiRowsMatched
\* The row of an answer
<1>4. ASSUME NEW j \in 1..n, NEW c, c # 0, reply[j] = c
      PROVE  \/ j = c /\ w[c].output
             \/ w[j].type = "user" /\ w[j].id = c /\ ~w[c].output
  <2>1. GeminiAnswersIn(w, j) = c
    BY <1>2, <1>4
  <2> QED  BY ONLY n \in Nat, GeminiRowsMatched(w, n), <1>4, <2>1, GeminiAnswersAre
<1>5. ASSUME NEW i \in 1..n, reply[i] # 0 PROVE reply[i] <= i
  <2>1. PICK c : c = reply[i] /\ c # 0
    BY <1>5
  <2>2. i = c \/ (w[i].type = "user" /\ w[i].id = c)
    BY ONLY <1>4, <1>5, <2>1, Zenon
  <2>3. i = c \/ c \in 1..i - 1
    BY <2>1, <2>2 DEF GeminiRowsMatched
  <2> QED  BY ONLY <1>5, <2>1, <2>3, n \in Nat
<1>6. ASSUME NEW i \in 1..n, NEW j \in 1..n, reply[i] # 0, reply[i] = reply[j] PROVE i = j
  <2>1. PICK c : c = reply[i] /\ c = reply[j] /\ c # 0
    BY <1>6
  <2>2. \/ i = c /\ w[c].output
        \/ w[i].type = "user" /\ w[i].id = c /\ ~w[c].output
    BY ONLY <1>4, <1>6, <2>1, Zenon
  <2>3. \/ j = c /\ w[c].output
        \/ w[j].type = "user" /\ w[j].id = c /\ ~w[c].output
    BY ONLY <1>4, <1>6, <2>1, Zenon
  <2>4. CASE w[c].output
    BY ONLY <2>2, <2>3, <2>4
  <2>5. CASE ~w[c].output
    <3>1. w[i].type = "user" /\ w[i].id = c /\ w[j].type = "user" /\ w[j].id = c
      BY ONLY <2>2, <2>3, <2>5
    <3> QED  BY <2>1, <3>1 DEF GeminiRowsMatched
  <2> QED  BY <2>4, <2>5
<1>7. Paired(n, S, call, reply)
  BY ONLY <1>3, <1>5, <1>6, Zenon DEF Paired
<1> QED  BY ONLY <1>1, <1>7, Zenon

LEMMA GeminiAnswers ==
  ASSUME format = "gemini", Len(log) \in Nat, Matched(format, log)
  PROVE  AnsweredOnce
<1>1. PICK n \in Nat : n = Len(log)
  OBVIOUS
<1>2. PICK w : w = log
  OBVIOUS
<1>3. GeminiRowsMatched(w, n)
  <2>1. Matched("gemini", w)
    BY ONLY <1>2, format = "gemini", Matched(format, log)
  <2> QED  BY ONLY <1>1, <1>2, <2>1, GeminiMatched
<1>4. PICK S, call, reply, good : /\ S = GeminiShowns(w, n) /\ call = GeminiCallsIn(w, n)
                                  /\ reply = GeminiAnswersOf(w, n) /\ good = GeminiWell(w, n)
  OBVIOUS
<1>5. PICK rows : Told(Messages, n, rows, S, call, reply, good)
  <2>1. Messages = GeminiMessages(w)
    BY <1>2, Zenon DEF Messages
  <2>3. CalledAs = "tool"
    BY ONLY format = "gemini" DEF CalledAs
  <2>2. PICK rows : Told(GeminiMessages(w), n, rows, S, call, reply, good)
    BY ONLY <1>1, <1>2, <1>4, <2>3, GeminiTold, Zenon
  <2> QED  BY ONLY <2>1, <2>2
<1>6. Paired(n, S, call, reply)
  BY ONLY <1>1, <1>3, <1>4, GeminiPaired, Zenon
<1>7. /\ \A i \in 1..n : i \in S <=> w[i].type \in {"user", "gemini"}
      /\ \A i \in 1..n : call[i] = CallIn("gemini", w[i]) /\ reply[i] = GeminiAnswersIn(w, i)
      /\ \A i \in 1..n : i \in good <=> GeminiSaysOf(w, i) = "ok"
  BY <1>4 DEF GeminiShowns, GeminiEntry, GeminiCallsIn, GeminiAnswersOf, GeminiWell
<1>8. ASSUME NEW i \in 1..n, call[i] # 0, call[i] \notin OpenCalls
      PROVE  \E j \in 1..n : j \in S /\ reply[j] = call[i]
  <2>1. PICK c : c = call[i] /\ c # 0
    BY <1>8
  <2>2. c \in OpenCalls <=> IsOpen("gemini", w, c)
    <3>1. format \in Formats
      BY DEF Formats
    <3>2. c \in OpenCalls <=> IsOpen(format, log, c)
      BY ONLY <2>1, <3>1, OpenAre, Zenon
    <3> QED  BY ONLY <1>2, <3>2, format = "gemini"
  <2>3. ~IsOpen("gemini", w, c)
    BY ONLY <1>8, <2>1, <2>2
  <2>4. PICK j \in 1..n : ResultIn("gemini", w[j]) = c
    <3>1. CallIn("gemini", w[i]) = c
      BY <1>7, <2>1
    <3> QED  BY ONLY <1>1, <1>2, <1>8, <2>3, <3>1 DEF IsOpen
  <2>5. w[j].type = "user" /\ w[j].id = c
    <3>1. ResultIn("gemini", w[j]) = IF w[j].type = "user" THEN w[j].id ELSE 0
      BY ONLY Zenon DEF ResultIn
    <3> QED  BY ONLY <2>1, <2>4, <3>1
  <2>6. c \in 1..n /\ w[c].type = "gemini" /\ w[c].id = c
    <3>1. c \in 1..j - 1 /\ w[c].type = "gemini" /\ w[c].id = c
      BY ONLY <1>3, <2>1, <2>5, j \in 1..n DEF GeminiRowsMatched
    <3> QED  BY ONLY <1>1, <3>1, j \in 1..n
  <2>7. CASE w[c].output
    <3>1. GeminiAnswersIn(w, c) = c
      BY ONLY <1>1, <1>3, <2>1, <2>6, <2>7, GeminiAnswersAre
    <3> QED  BY ONLY <1>7, <2>1, <2>6, <3>1
  <2>8. CASE ~w[c].output
    <3>1. GeminiAnswersIn(w, j) = c
      BY ONLY <1>1, <1>3, <2>1, <2>4, <2>5, <2>8, GeminiAnswersAre
    <3> QED  BY ONLY <1>7, <2>1, <2>4, <2>5, <3>1
  <2> QED  BY <2>7, <2>8
<1>9. ASSUME NEW j \in 1..n, j \in S, reply[j] # 0 PROVE j \in good <=> ~Errored(reply[j])
  <2>1. PICK c : c = reply[j] /\ c # 0
    BY <1>9
  <2>2. GeminiAnswersIn(w, j) = c
    BY <1>7, <2>1
  <2>3. GeminiSaysOf(w, j) = "ok" <=> ~GeminiFailed(w, n, c)
    BY ONLY <1>1, <1>3, <1>9, <2>1, <2>2, GeminiEndIs, Zenon
  <2>4. Errored(c) <=> GeminiFailed(log, Len(log), c)
    BY ONLY format = "gemini", Zenon DEF Errored, GeminiFailed
  <2>5. Errored(c) <=> GeminiFailed(w, n, c)
    BY ONLY <1>1, <1>2, <2>4, Zenon
  <2> QED  BY ONLY <1>7, <1>9, <2>1, <2>3, <2>5, Zenon
<1>10. Concluded(n, S, call, reply, good)
  BY ONLY <1>8, <1>9, Zenon DEF Concluded
<1> QED  BY ONLY <1>1, <1>5, <1>6, <1>10, RowsAnswered, Zenon

-----------------------------------------------------------------------------
(* The answers to calls, where a message is made of a run of rows *)

\* What the message of the rows from a to b says of calls: those its rows make,
\* by their numbers, and at ends the rows that it has the results of
SpanTells(m, ends, a, b, n, call, reply, good) ==
  /\ \A k \in DOMAIN m.calls : m.calls[k] \in 1..n /\ m.calls[k] \in a..b /\ call[m.calls[k]] = m.calls[k]
  /\ \A k \in DOMAIN m.results :
       /\ ends[k] \in 1..n /\ ends[k] \in a..b /\ m.results[k].call = reply[ends[k]]
       /\ m.results[k].name = "tool" /\ (m.results[k].status = "ok" <=> ends[k] \in good)
  /\ \A k \in DOMAIN m.results, l \in DOMAIN m.results : ends[k] = ends[l] => k = l
  /\ \A j \in 1..n : j \in a..b /\ reply[j] # 0 => \E k \in DOMAIN m.results : ends[k] = j

\* The runs of the messages come one after another, and every result is in one.
Spans(ms, n, from, upto, ends, call, reply, good) ==
  /\ \E L \in Nat : DOMAIN ms = 1..L
  /\ \A k \in DOMAIN ms : from[k] \in Nat /\ upto[k] \in Nat
                          /\ SpanTells(ms[k], ends[k], from[k], upto[k], n, call, reply, good)
  /\ \A k \in DOMAIN ms, l \in DOMAIN ms : k < l => upto[k] < from[l]
  /\ \A j \in 1..n : reply[j] # 0 => \E k \in DOMAIN ms : j \in from[k]..upto[k]

\* A result comes after its call, and only one does; it says how the call ended.
ResultsSettled(n, call, reply, good) ==
  /\ \A j \in 1..n : reply[j] # 0 => reply[j] \in 1..j - 1
  /\ \A i \in 1..n, j \in 1..n : reply[i] # 0 /\ reply[i] = reply[j] => i = j
  /\ \A i \in 1..n : call[i] = i /\ i \notin OpenCalls => \E j \in 1..n : reply[j] = i
  /\ \A j \in 1..n : reply[j] # 0 => (j \in good <=> ~Errored(reply[j]))

LEMMA SpansAnswered ==
  ASSUME CalledAs = "tool", NEW n \in Nat, NEW from, NEW upto, NEW ends, NEW call, NEW reply, NEW good,
         Spans(Messages, n, from, upto, ends, call, reply, good), ResultsSettled(n, call, reply, good)
  PROVE  AnsweredOnce
<1>1. PICK ms : ms = Messages
  OBVIOUS
<1>2. Spans(ms, n, from, upto, ends, call, reply, good)
  BY ONLY <1>1, Spans(Messages, n, from, upto, ends, call, reply, good)
<1>3. PICK L \in Nat : DOMAIN ms = 1..L
  BY ONLY <1>2, Zenon DEF Spans
<1>4. /\ \A k \in 1..L : from[k] \in Nat /\ upto[k] \in Nat
      /\ \A k \in 1..L, l \in 1..L : k < l => upto[k] < from[l]
      /\ \A j \in 1..n : reply[j] # 0 => \E k \in 1..L : j \in from[k]..upto[k]
  BY ONLY <1>2, <1>3, Zenon DEF Spans
<1>5. \A k \in 1..L : SpanTells(ms[k], ends[k], from[k], upto[k], n, call, reply, good)
  BY ONLY <1>2, <1>3, Zenon DEF Spans
\* A row is in one run only.
<1>6. ASSUME NEW k \in 1..L, NEW l \in 1..L, NEW i \in 1..n, NEW j \in 1..n, i \in from[k]..upto[k],
             j \in from[l]..upto[l], i <= j
      PROVE  k <= l
  <2>1. ~(l < k)
    <3> SUFFICES ASSUME l < k PROVE FALSE
      OBVIOUS
    <3>1. upto[l] < from[k] /\ from[k] \in Nat /\ upto[k] \in Nat /\ from[l] \in Nat /\ upto[l] \in Nat
      BY <1>4
    <3> QED  BY ONLY <1>6, <3>1, i \in 1..n, j \in 1..n
  <2> QED  BY <2>1
<1>7. ASSUME NEW c, c # 0, NEW a \in AnswersTo(c)
      PROVE  \E m \in 1..L : \E k \in DOMAIN ms[m].results : \E j \in 1..n :
               /\ a = <<m, k>> /\ j = ends[m][k] /\ j \in from[m]..upto[m] /\ reply[j] = c
               /\ ms[m].results[k].name = "tool" /\ (ms[m].results[k].status = "ok" <=> j \in good)
  <2>1. PICK m \in DOMAIN ms : \E k \in DOMAIN ms[m].results : a = <<m, k>> /\ ms[m].results[k].call = c
    <3>1. \E m \in DOMAIN Messages : \E k \in DOMAIN Messages[m].results :
            a = <<m, k>> /\ Messages[m].results[k].call = c
      BY ONLY <1>7, AnswersAre, Zenon
    <3> QED  BY ONLY <1>1, <3>1
  <2>2. PICK k \in DOMAIN ms[m].results : a = <<m, k>> /\ ms[m].results[k].call = c
    BY <2>1
  <2>3. m \in 1..L
    BY ONLY <2>1, <1>3
  <2>4. SpanTells(ms[m], ends[m], from[m], upto[m], n, call, reply, good)
    BY ONLY <2>3, <1>5
  <2>5. PICK j : j = ends[m][k]
    OBVIOUS
  <2>6. /\ j \in 1..n /\ j \in from[m]..upto[m] /\ reply[j] = c
        /\ ms[m].results[k].name = "tool" /\ (ms[m].results[k].status = "ok" <=> j \in good)
    BY ONLY <2>2, <2>4, <2>5, Zenon DEF SpanTells
  <2> QED  BY ONLY <2>2, <2>3, <2>5, <2>6, Zenon
<1>8. ASSUME NEW c, c # 0, NEW a \in AnswersTo(c), NEW b \in AnswersTo(c)
      PROVE  a = b
  <2>1. PICK l \in 1..L : \E x \in DOMAIN ms[l].results : \E i \in 1..n :
          /\ a = <<l, x>> /\ i = ends[l][x] /\ i \in from[l]..upto[l] /\ reply[i] = c
          /\ ms[l].results[x].name = "tool" /\ (ms[l].results[x].status = "ok" <=> i \in good)
    BY ONLY <1>7, <1>8
  <2>2. PICK x \in DOMAIN ms[l].results, i \in 1..n :
          /\ a = <<l, x>> /\ i = ends[l][x] /\ i \in from[l]..upto[l] /\ reply[i] = c
          /\ ms[l].results[x].name = "tool" /\ (ms[l].results[x].status = "ok" <=> i \in good)
    BY ONLY <2>1
  <2>3. PICK m \in 1..L : \E y \in DOMAIN ms[m].results : \E j \in 1..n :
          /\ b = <<m, y>> /\ j = ends[m][y] /\ j \in from[m]..upto[m] /\ reply[j] = c
          /\ ms[m].results[y].name = "tool" /\ (ms[m].results[y].status = "ok" <=> j \in good)
    BY ONLY <1>7, <1>8
  <2>4. PICK y \in DOMAIN ms[m].results, j \in 1..n :
          /\ b = <<m, y>> /\ j = ends[m][y] /\ j \in from[m]..upto[m] /\ reply[j] = c
          /\ ms[m].results[y].name = "tool" /\ (ms[m].results[y].status = "ok" <=> j \in good)
    BY ONLY <2>3
  <2>5. i = j
    <3>1. i \in 1..n /\ j \in 1..n /\ reply[i] # 0 /\ reply[i] = reply[j]
      BY ONLY <1>8, <2>2, <2>4
    <3> QED  BY ONLY <3>1, ResultsSettled(n, call, reply, good), Zenon DEF ResultsSettled
  <2>6. l <= m /\ m <= l
    BY ONLY <1>6, <2>2, <2>4, <2>5, n \in Nat
  <2>7. l = m
    BY ONLY <2>6, <1>3
  <2>8. SpanTells(ms[l], ends[l], from[l], upto[l], n, call, reply, good)
    BY ONLY <1>5
  <2>9. x \in DOMAIN ms[l].results /\ y \in DOMAIN ms[l].results /\ ends[l][x] = ends[l][y]
    BY ONLY <2>2, <2>4, <2>5, <2>7
  <2>10. x = y
    BY ONLY <2>8, <2>9, Zenon DEF SpanTells
  <2> QED  BY ONLY <2>2, <2>4, <2>7, <2>10
<1>9. ASSUME NEW m \in DOMAIN ms, NEW k \in DOMAIN ms[m].calls, ms[m].calls[k] # 0
      PROVE  IsAnswered(m, ms[m].calls[k])
  <2>1. PICK c : c = ms[m].calls[k] /\ c # 0
    BY <1>9
  <2>2. m \in 1..L
    BY <1>3
  <2>3. SpanTells(ms[m], ends[m], from[m], upto[m], n, call, reply, good)
    BY ONLY <2>2, <1>5
  <2>4. c \in 1..n /\ c \in from[m]..upto[m] /\ call[c] = c
    BY ONLY <1>9, <2>1, <2>3, Zenon DEF SpanTells
  <2>5. Cardinality(AnswersTo(c)) <= 1
    BY ONLY <1>8, <2>1, OneAtMost, Zenon
  <2>6. ASSUME c \notin OpenCalls PROVE AnswersTo(c) # {}
    <3>1. PICK j \in 1..n : reply[j] = c
      BY ONLY <2>4, <2>6, ResultsSettled(n, call, reply, good), Zenon DEF ResultsSettled
    <3>2. PICK l \in 1..L : j \in from[l]..upto[l]
      BY ONLY <3>1, <2>1, <1>4
    <3>3. SpanTells(ms[l], ends[l], from[l], upto[l], n, call, reply, good)
      BY ONLY <1>5
    <3>4. PICK x \in DOMAIN ms[l].results : ends[l][x] = j
      BY ONLY <2>1, <3>1, <3>2, <3>3, Zenon DEF SpanTells
    <3>5. ms[l].results[x].call = c
      BY ONLY <3>1, <3>3, <3>4, Zenon DEF SpanTells
    <3>6. l \in DOMAIN ms
      BY ONLY <3>2, <1>3
    <3>7. <<l, x>> \in AnswersTo(c)
      BY ONLY <1>1, <3>4, <3>5, <3>6, AnswersAre, Zenon
    <3> QED  BY <3>7
  <2>7. ASSUME NEW a \in AnswersTo(c)
        PROVE  a[1] >= m /\ ms[a[1]].results[a[2]].name = "tool" /\ (ms[a[1]].results[a[2]].status = "ok" <=> ~Errored(c))
    <3>0. PICK l \in 1..L : \E x \in DOMAIN ms[l].results : \E j \in 1..n :
            /\ a = <<l, x>> /\ j = ends[l][x] /\ j \in from[l]..upto[l] /\ reply[j] = c
            /\ ms[l].results[x].name = "tool" /\ (ms[l].results[x].status = "ok" <=> j \in good)
      BY ONLY <1>7, <2>1, <2>7
    <3>1. PICK x \in DOMAIN ms[l].results, j \in 1..n :
            /\ a = <<l, x>> /\ j = ends[l][x] /\ j \in from[l]..upto[l] /\ reply[j] = c
            /\ ms[l].results[x].name = "tool" /\ (ms[l].results[x].status = "ok" <=> j \in good)
      BY ONLY <3>0
    <3>2. c \in 1..j - 1
      <4>1. j \in 1..n /\ reply[j] # 0
        BY ONLY <3>1, <2>1
      <4> QED  BY ONLY <3>1, <4>1, ResultsSettled(n, call, reply, good) DEF ResultsSettled
    <3>3. c <= j
      BY ONLY <3>1, <3>2, n \in Nat
    <3>4. m <= l
      BY ONLY <1>6, <2>2, <2>4, <3>1, <3>3, Zenon
    <3>5. l >= m
      BY ONLY <3>1, <3>4, <2>2, <1>3
    <3>6. j \in good <=> ~Errored(c)
      <4>1. j \in 1..n /\ reply[j] # 0 /\ c = reply[j]
        BY ONLY <3>1, <2>1
      <4>2. j \in good <=> ~Errored(reply[j])
        BY ONLY <4>1, ResultsSettled(n, call, reply, good), Zenon DEF ResultsSettled
      <4> QED  BY ONLY <4>1, <4>2, Zenon
    <3>7. a[1] = l /\ a[2] = x
      BY ONLY <3>1
    <3> QED  BY ONLY <3>1, <3>5, <3>6, <3>7, Zenon
  <2>8. IsAnswered(m, c)
    BY ONLY CalledAs = "tool", <1>1, <2>5, <2>6, <2>7, Zenon DEF IsAnswered
  <2> QED  BY ONLY <2>1, <2>8
<1>10. \A m \in DOMAIN Messages : \A k \in DOMAIN Messages[m].calls :
         Messages[m].calls[k] # 0 => IsAnswered(m, Messages[m].calls[k])
  BY ONLY <1>1, <1>9, Zenon
<1> QED  BY ONLY <1>10, EachAnswered, Zenon

LEMMA GrokSettled ==
  ASSUME format = "grok", Len(log) \in Nat, Matched(format, log), NEW n, n = Len(log)
  PROVE  ResultsSettled(n, CallsOf(format, log), ResultsOf(format, log), Well(format, log))
<1>1. PICK f, w : f = format /\ w = log
  OBVIOUS
<1>2. PICK O, good : O = OwnRows(f, w) /\ good = Well(f, w)
  OBVIOUS
<1>3. PICK call, result : call = CallsOf(f, w) /\ result = ResultsOf(f, w)
  OBVIOUS
<1>4. /\ n \in Nat /\ n = Len(w)
      /\ \A i \in 1..n : i \in O
      /\ \A i \in 1..n : i \in good <=> ~Bad(f, w, i)
      /\ \A i \in 1..n : call[i] = CallIn(f, w[i]) /\ result[i] = ResultIn(f, w[i])
  BY <1>1, <1>2, <1>3 DEF OwnRows, Well, CallsOf, ResultsOf
<1>5. Pairs(n, O, call, result)
  BY ONLY <1>1, <1>2, <1>3, <1>4, Matched(format, log), Zenon DEF Matched
<1>6. ASSUME NEW c, c # 0
      PROVE  /\ c \in OpenCalls <=> IsOpen(f, w, c)
             /\ \A j \in O : ResultIn(f, w[j]) = c => (Bad(f, w, j) <=> Errored(c))
  <2>1. format \in Formats /\ format \in Formats \ {"gemini", "antigravity"} /\ format # "dsh"
    BY format = "grok" DEF Formats
  <2>2. \A j \in OwnRows(format, log) : ResultIn(format, log[j]) = c => (Bad(format, log, j) <=> Errored(c))
    BY ONLY <1>6, <2>1, Len(log) \in Nat, Matched(format, log), FirstTells
  <2>3. c \in OpenCalls <=> IsOpen(format, log, c)
    BY ONLY <1>6, <2>1, OpenAre, Zenon
  <2> QED  BY ONLY <1>1, <1>2, <2>2, <2>3, Zenon
<1>7. ASSUME NEW i \in 1..n, call[i] = i, i \notin OpenCalls
      PROVE  \E j \in 1..n : result[j] = i
  <2>1. i # 0
    BY n \in Nat
  <2>2. ~IsOpen(f, w, i)
    BY ONLY <1>6, <1>7, <2>1, Zenon
  <2>3. CallIn(f, w[i]) = i
    BY ONLY <1>4, <1>7
  <2>4. PICK k \in 1..Len(w) : ResultIn(f, w[k]) = i
    BY ONLY <1>4, <1>7, <2>2, <2>3 DEF IsOpen
  <2> QED  BY ONLY <1>4, <2>4
<1>8. ASSUME NEW j \in 1..n, result[j] # 0
       PROVE  j \in good <=> ~Errored(result[j])
  <2>1. PICK c : c = result[j] /\ c # 0
    BY <1>8
  <2>2. j \in O /\ ResultIn(f, w[j]) = c
    BY ONLY <1>4, <1>8, <2>1
  <2>3. Bad(f, w, j) <=> Errored(c)
    BY ONLY <1>6, <2>1, <2>2, Zenon
  <2> QED  BY ONLY <1>4, <1>8, <2>1, <2>3, Zenon
<1>9. /\ \A j \in 1..n : result[j] # 0 => result[j] \in 1..j - 1
      /\ \A i \in 1..n, j \in 1..n : result[i] # 0 /\ result[i] = result[j] => i = j
  BY ONLY <1>4, <1>5 DEF Pairs
<1>10. ResultsSettled(n, call, result, good)
  BY ONLY <1>7, <1>8, <1>9, Zenon DEF ResultsSettled
<1> QED  BY ONLY <1>1, <1>2, <1>3, <1>10, Zenon

\* Where a run of rows ends: before the next that begins one
LEMMA GrokRunIs ==
  ASSUME NEW w, NEW n \in Nat, n = Len(w), NEW i \in 1..n, NEW e, e = GrokRunEnd(w, i)
  PROVE  /\ e \in i..n
         /\ \A j \in 1..n : i < j /\ GrokBegins(w, j) => e < j
         /\ \A j \in 1..n : i <= j /\ (\A k \in 1..n : i < k /\ k <= j => ~GrokBegins(w, k)) => j <= e
<1>1. PICK X : X = {j \in i + 1..n : GrokBegins(w, j)} \cup {n + 1}
  OBVIOUS
<1>2. \A j : j \in X <=> (j \in i + 1..n /\ GrokBegins(w, j)) \/ j = n + 1
  BY <1>1, Zenon
<1>3. X \in SUBSET Nat /\ X # {}
  BY <1>2
<1>4. PICK z : z = Min(X) /\ z \in X /\ \A y \in X : z <= y
  BY <1>3, SmallestOf
<1>5. e = z - 1
  BY ONLY <1>1, <1>4, n = Len(w), e = GrokRunEnd(w, i), Zenon DEF GrokRunEnd
<1>6. z \in i + 1..n + 1
  BY ONLY <1>2, <1>4, n \in Nat, i \in 1..n
<1>7. e \in i..n
  BY ONLY <1>5, <1>6, n \in Nat, i \in 1..n
<1>8. ASSUME NEW j \in 1..n, i < j, GrokBegins(w, j) PROVE e < j
  <2>1. j \in X
    BY ONLY <1>2, <1>8, i \in 1..n, n \in Nat
  <2>2. z <= j
    BY ONLY <1>4, <2>1
  <2> QED  BY ONLY <1>5, <1>6, <1>8, <2>2, i \in 1..n, n \in Nat
<1>9. ASSUME NEW j \in 1..n, i <= j, \A k \in 1..n : i < k /\ k <= j => ~GrokBegins(w, k) PROVE j <= e
  <2>1. (z \in i + 1..n /\ GrokBegins(w, z)) \/ z = n + 1
    BY ONLY <1>2, <1>4
  <2>2. z = n + 1 \/ ~(z <= j)
    BY ONLY <1>9, <2>1, i \in 1..n, n \in Nat
  <2> QED  BY ONLY <1>5, <1>6, <1>9, <2>2, i \in 1..n, n \in Nat
<1> QED  BY ONLY <1>7, <1>8, <1>9

GrokSpeaks(w, i) == GrokRole(w[i]) # ""

\* A row that somebody speaks in is in a run.
LEMMA GrokInRun ==
  ASSUME NEW w, NEW n \in Nat, n = Len(w), NEW j \in 1..n, GrokSpeaks(w, j)
  PROVE  \E i \in 1..n : i <= j /\ GrokBegins(w, i) /\ j <= GrokRunEnd(w, i)
<1>1. PICK T : T = {l \in 1..j : GrokSpeaks(w, l)}
  OBVIOUS
<1>2. PICK l \in T : \A y \in T : l <= y
  <2>1. T \in SUBSET Nat /\ T # {}
    BY <1>1
  <2> QED  BY <2>1, LeastOf
<1>3. l \in 1..j /\ GrokBegins(w, l)
  <2>1. l \in 1..j /\ GrokSpeaks(w, l)
    BY ONLY <1>1, <1>2
  <2>2. \A y \in 1..l - 1 : ~GrokSpeaks(w, y)
    BY ONLY <1>1, <1>2, <2>1, j \in 1..n, n \in Nat
  <2>3. {y \in 1..l - 1 : GrokRole(w[y]) # ""} = {}
    BY ONLY <2>2, Zenon DEF GrokSpeaks
  <2>4. GrokRole(w[l]) # ""
    BY ONLY <2>1, Zenon DEF GrokSpeaks
  <2>5. l \in 1..j
    BY ONLY <2>1
  <2>6. GrokBegins(w, l)
    BY ONLY <2>3, <2>4, Zenon DEF GrokBegins
  <2> QED  BY ONLY <2>5, <2>6
<1>4. PICK B : B = {i \in 1..j : GrokBegins(w, i)}
  OBVIOUS
<1>5. B \in SUBSET (0..n) /\ B # {}
  BY ONLY <1>3, <1>4, j \in 1..n, n \in Nat
<1>6. PICK i \in B : \A y \in B : i >= y
  BY ONLY n \in Nat, <1>5, GreatestOf
<1>7. i \in 1..n /\ i <= j /\ GrokBegins(w, i)
  BY ONLY <1>4, <1>6, j \in 1..n, n \in Nat
<1>8. \A k \in 1..n : i < k /\ k <= j => ~GrokBegins(w, k)
  <2> SUFFICES ASSUME NEW k \in 1..n, i < k, k <= j, GrokBegins(w, k) PROVE FALSE
    OBVIOUS
  <2>1. k \in B
    BY ONLY <1>4, k \in 1..n, k <= j, GrokBegins(w, k), j \in 1..n, n \in Nat
  <2>2. i >= k
    BY ONLY <1>6, <2>1
  <2> QED  BY ONLY <1>7, <2>2, i < k, k \in 1..n, n \in Nat
<1>9. j <= GrokRunEnd(w, i)
  BY ONLY n \in Nat, n = Len(w), j \in 1..n, <1>7, <1>8, GrokRunIs
<1> QED  BY <1>7, <1>9

\* The rows of a kind in a run, and there are some if one is
LEMMA GrokRowIs ==
  ASSUME NEW S, NEW n \in Nat, NEW s, s = Ascending(S, n)
  PROVE  /\ DOMAIN s = 1..Len(s) /\ Len(s) \in Nat
         /\ \A k \in DOMAIN s : s[k] \in S /\ s[k] \in 1..n
         /\ \A k \in DOMAIN s, l \in DOMAIN s : s[k] = s[l] => k = l
         /\ \A j \in 1..n : j \in S => \E k \in DOMAIN s : s[k] = j
         /\ \A j \in 1..n : j \in S => s # <<>>
<1>1. Kept(S, n, s)
  BY AscendingLists
<1>2. DOMAIN s = 1..Len(s) /\ Len(s) \in Nat
  BY <1>1 DEF Kept
<1>3. /\ \A k \in DOMAIN s : s[k] \in S /\ s[k] \in 1..n
      /\ \A k \in DOMAIN s, l \in DOMAIN s : k < l => s[k] < s[l]
      /\ \A j \in 1..n : j \in S => \E k \in DOMAIN s : s[k] = j
  BY ONLY <1>1, <1>2, Zenon DEF Kept
<1>4. ASSUME NEW k \in DOMAIN s, NEW l \in DOMAIN s, s[k] = s[l] PROVE k = l
  BY ONLY <1>2, <1>3, <1>4
<1>5. ASSUME NEW j \in 1..n, j \in S PROVE s # <<>>
  BY ONLY <1>2, <1>3, <1>5
<1> QED  BY ONLY <1>2, <1>3, <1>4, <1>5

LEMMA GrokBlockShown ==
  ASSUME NEW w, NEW n \in Nat, n = Len(w), NEW i \in 1..n, GrokBegins(w, i), NEW j \in 1..n, i <= j,
         j <= GrokRunEnd(w, i), GrokHasBlock(w[j])
  PROVE  GrokIsMessage(w, i)
<1>1. PICK S : S = {x \in i..GrokRunEnd(w, i) : GrokHasBlock(w[x])}
  OBVIOUS
<1>2. PICK s : s = Ascending(S, n)
  OBVIOUS
<1>3. GrokRunEnd(w, i) \in i..n
  BY GrokRunIs
<1>4. j \in S
  BY <1>1, <1>3
<1>5. s # <<>>
  BY ONLY <1>2, <1>4, n \in Nat, j \in 1..n, GrokRowIs
<1>6. GrokRow(w, i, GrokHasBlock) = s
  BY ONLY <1>1, <1>2, n = Len(w), Zenon DEF GrokRow
<1> QED  BY ONLY <1>5, <1>6, GrokBegins(w, i), Zenon DEF GrokIsMessage

\* The calls and the results of a message
GrokCallsOf(w, i) == Ascending({x \in i..GrokRunEnd(w, i) : w[x].kind = "call"}, Len(w))
GrokEndsOf(w, i) == Ascending({x \in i..GrokRunEnd(w, i) : w[x].kind \in {"done", "failed"}}, Len(w))
GrokAnswer(u) == Answer(u.id, "tool", IF u.kind = "failed" THEN "error" ELSE "ok")

LEMMA GrokFlushIs ==
  ASSUME NEW w, NEW i, NEW m, m = GrokFlush(w, i)
  PROVE  /\ m.calls = GrokCallsOf(w, i)
         /\ m.results = [k \in DOMAIN GrokEndsOf(w, i) |-> GrokAnswer(w[GrokEndsOf(w, i)[k]])]
<1>1. PICK calls, ends : calls = GrokCallsOf(w, i) /\ ends = GrokEndsOf(w, i)
  OBVIOUS
<1>2. PICK text : text = (GrokRow(w, i, LAMBDA u : u.kind \in {"ask", "say", "think"}) # <<>>)
  OBVIOUS
<1>3. /\ GrokRow(w, i, LAMBDA u : u.kind = "call") = calls
      /\ GrokRow(w, i, LAMBDA u : u.kind \in {"done", "failed"}) = ends
  BY ONLY <1>1, Zenon DEF GrokRow, GrokCallsOf, GrokEndsOf
<1>4. PICK results : results = [k \in DOMAIN ends |-> Answer(w[ends[k]].id, "tool", IF w[ends[k]].kind = "failed" THEN "error" ELSE "ok")]
  OBVIOUS
<1>5. m = [Message(i, GrokRole(w[i])) EXCEPT !.text = text, !.calls = calls, !.results = results]
  BY ONLY <1>2, <1>3, <1>4, m = GrokFlush(w, i), Zenon DEF GrokFlush
<1>6. m.calls = calls /\ m.results = results
  BY ONLY <1>5 DEF Message
<1>7. results = [k \in DOMAIN ends |-> GrokAnswer(w[ends[k]])]
  BY ONLY <1>4, Zenon DEF GrokAnswer
<1> QED  BY ONLY <1>1, <1>6, <1>7

LEMMA GrokFlushTells ==
  ASSUME NEW f, f = "grok", NEW w, Matched(f, w), NEW n \in Nat, n = Len(w), NEW i \in 1..n,
         NEW m, m = GrokFlush(w, i)
  PROVE  SpanTells(m, GrokEndsOf(w, i), i, GrokRunEnd(w, i), n, CallsOf(f, w), ResultsOf(f, w), Well(f, w))
<1>1. PICK call, result, good, O : /\ call = CallsOf(f, w) /\ result = ResultsOf(f, w) /\ good = Well(f, w)
                                   /\ O = OwnRows(f, w)
  OBVIOUS
<1>2. PICK ends, e, calls : ends = GrokEndsOf(w, i) /\ e = GrokRunEnd(w, i) /\ calls = GrokCallsOf(w, i)
  OBVIOUS
<1>3. e \in i..n
  BY ONLY <1>2, n \in Nat, n = Len(w), i \in 1..n, GrokRunIs
<1>4. /\ \A x \in 1..n : x \in O
      /\ \A x \in 1..n : x \in good <=> ~Bad(f, w, x)
      /\ \A x \in 1..n : call[x] = CallIn(f, w[x]) /\ result[x] = ResultIn(f, w[x])
  BY ONLY <1>1, n = Len(w), f = "grok" DEF OwnRows, Well, CallsOf, ResultsOf
<1>5. Pairs(n, O, call, result)
  BY ONLY <1>1, n = Len(w), Matched(f, w), Zenon DEF Matched
<1>6. \A x \in 1..n : ToolRow(f, w[x])
  BY ONLY n = Len(w), Matched(f, w), Zenon DEF Matched
<1>7. /\ \A r : /\ CallIn(f, r) = (IF r.kind = "call" THEN r.id ELSE 0)
                /\ ResultIn(f, r) = (IF r.kind \in {"done", "failed"} THEN r.id ELSE 0)
                /\ ToolRow(f, r) <=> GrokTool(r)
      /\ \A k : Bad(f, w, k) <=> w[k].kind = "failed"
  BY ONLY f = "grok", Zenon DEF CallIn, ResultIn, Bad, ToolRow
<1>8. PICK C, E : /\ C = {x \in i..e : w[x].kind = "call"} /\ E = {x \in i..e : w[x].kind \in {"done", "failed"}}
                  /\ calls = Ascending(C, n) /\ ends = Ascending(E, n)
  BY ONLY <1>2, n = Len(w), Zenon DEF GrokCallsOf, GrokEndsOf
<1>9. /\ \A x : x \in C <=> x \in i..e /\ w[x].kind = "call"
      /\ \A x : x \in E <=> x \in i..e /\ w[x].kind \in {"done", "failed"}
  BY ONLY <1>8, Zenon
<1>10. /\ m.calls = calls
       /\ m.results = [k \in DOMAIN ends |-> GrokAnswer(w[ends[k]])]
  BY ONLY <1>2, m = GrokFlush(w, i), GrokFlushIs
<1>11. \A k \in DOMAIN calls : calls[k] \in C /\ calls[k] \in 1..n
  <2>1. calls = Ascending(C, n)
    BY <1>8
  <2> QED  BY ONLY n \in Nat, <2>1, GrokRowIs
<1>12. /\ \A k \in DOMAIN ends : ends[k] \in E /\ ends[k] \in 1..n
       /\ \A k \in DOMAIN ends, l \in DOMAIN ends : ends[k] = ends[l] => k = l
       /\ \A j \in 1..n : j \in E => \E k \in DOMAIN ends : ends[k] = j
  <2>1. ends = Ascending(E, n)
    BY <1>8
  <2> QED  BY ONLY n \in Nat, <2>1, GrokRowIs
<1>13. ASSUME NEW k \in DOMAIN m.calls
       PROVE  m.calls[k] \in 1..n /\ m.calls[k] \in i..e /\ call[m.calls[k]] = m.calls[k]
  <2>1. PICK x : x = calls[k] /\ x = m.calls[k] /\ x \in C /\ x \in 1..n
    BY ONLY <1>10, <1>11, <1>13
  <2>2. x \in i..e /\ w[x].kind = "call"
    BY ONLY <1>9, <2>1
  <2>3. w[x].id # 0
    BY ONLY <1>6, <1>7, <2>1, <2>2, Zenon DEF GrokTool
  <2>4. call[x] # 0
    BY ONLY <1>4, <1>7, <2>1, <2>2, <2>3
  <2>5. call[x] = x
    BY ONLY <1>4, <1>5, <2>1, <2>4, Zenon DEF Pairs
  <2> QED  BY ONLY <2>1, <2>2, <2>5
<1>14. ASSUME NEW k \in DOMAIN m.results
       PROVE  /\ ends[k] \in 1..n /\ ends[k] \in i..e /\ m.results[k].call = result[ends[k]]
              /\ m.results[k].name = "tool" /\ (m.results[k].status = "ok" <=> ends[k] \in good)
  <2>1. k \in DOMAIN ends /\ m.results[k] = GrokAnswer(w[ends[k]])
    BY ONLY <1>10, <1>14
  <2>2. PICK x : x = ends[k] /\ x \in E /\ x \in 1..n
    BY ONLY <1>12, <2>1
  <2>3. x \in i..e /\ w[x].kind \in {"done", "failed"}
    BY ONLY <1>9, <2>2
  <2>4. PICK a : a = m.results[k]
    OBVIOUS
  <2>5. a = Answer(w[x].id, "tool", IF w[x].kind = "failed" THEN "error" ELSE "ok")
    BY ONLY <2>1, <2>2, <2>4, Zenon DEF GrokAnswer
  <2>6. a.call = w[x].id /\ a.name = "tool" /\ (a.status = "ok" <=> ~(w[x].kind = "failed"))
    BY ONLY <2>5 DEF Answer
  <2>7. result[x] = w[x].id
    BY ONLY <1>4, <1>7, <2>2, <2>3
  <2>8. x \in good <=> ~(w[x].kind = "failed")
    BY ONLY <1>4, <1>7, <2>2, Zenon
  <2> QED  BY ONLY <2>2, <2>3, <2>4, <2>6, <2>7, <2>8, Zenon
<1>15. DOMAIN m.results = DOMAIN ends
  BY ONLY <1>10
<1>16. ASSUME NEW j \in 1..n, j \in i..e, result[j] # 0 PROVE \E k \in DOMAIN m.results : ends[k] = j
  <2>1. w[j].kind \in {"done", "failed"}
    BY ONLY <1>4, <1>7, <1>16
  <2>2. j \in E
    BY ONLY <1>9, <1>16, <2>1
  <2> QED  BY ONLY <1>12, <1>15, <1>16, <2>2
<1>17. SpanTells(m, ends, i, e, n, call, result, good)
  BY ONLY <1>12, <1>13, <1>14, <1>15, <1>16, Zenon DEF SpanTells
<1> QED  BY ONLY <1>1, <1>2, <1>17, Zenon

LEMMA GrokTold ==
  ASSUME NEW f, f = "grok", NEW w, Matched(f, w), NEW n \in Nat, n = Len(w)
  PROVE  \E from, upto, ends : Spans(GrokMessages(w), n, from, upto, ends, CallsOf(f, w), ResultsOf(f, w), Well(f, w))
<1>1. PICK call, result, good, S : /\ call = CallsOf(f, w) /\ result = ResultsOf(f, w) /\ good = Well(f, w)
                                   /\ S = {i \in 1..n : GrokIsMessage(w, i)}
  OBVIOUS
<1>2. PICK rows : rows = Ascending(S, n)
  OBVIOUS
<1>3. PICK x : x = GrokMessages(w)
  OBVIOUS
<1>4. x = [k \in DOMAIN rows |-> GrokFlush(w, rows[k])]
  BY ONLY <1>1, <1>2, <1>3, n = Len(w), Zenon DEF GrokMessages, MessagesOf
<1>5. \A i : i \in S <=> i \in 1..n /\ GrokIsMessage(w, i)
  BY ONLY <1>1, Zenon
<1>6. PICK L \in Nat : L = Len(rows) /\ DOMAIN rows = 1..L
  BY ONLY <1>2, n \in Nat, GrokRowIs, Zenon
<1>7. /\ \A k \in 1..L : rows[k] \in S /\ rows[k] \in 1..n
      /\ \A k \in 1..L, l \in 1..L : k < l => rows[k] < rows[l]
      /\ \A j \in 1..n : j \in S => \E k \in 1..L : rows[k] = j
  <2>1. Kept(S, n, rows)
    BY ONLY <1>2, n \in Nat, AscendingLists
  <2> QED  BY ONLY <1>6, <2>1, Zenon DEF Kept
<1>8. PICK upto, ends : upto = [k \in 1..L |-> GrokRunEnd(w, rows[k])] /\ ends = [k \in 1..L |-> GrokEndsOf(w, rows[k])]
  OBVIOUS
<1>9. \A k \in 1..L : upto[k] = GrokRunEnd(w, rows[k]) /\ ends[k] = GrokEndsOf(w, rows[k])
  BY ONLY <1>8
<1>10. DOMAIN x = 1..L
  BY ONLY <1>4, <1>6
<1>11. ASSUME NEW k \in 1..L
       PROVE  /\ rows[k] \in Nat /\ upto[k] \in Nat
              /\ SpanTells(x[k], ends[k], rows[k], upto[k], n, call, result, good)
  <2>1. PICK i \in 1..n : i = rows[k]
    BY ONLY <1>7, <1>11
  <2>2. GrokRunEnd(w, i) \in i..n
    BY ONLY n \in Nat, n = Len(w), GrokRunIs
  <2>3. x[k] = GrokFlush(w, i)
    BY ONLY <1>4, <1>6, <1>11, <2>1
  <2>4. SpanTells(x[k], GrokEndsOf(w, i), i, GrokRunEnd(w, i), n, CallsOf(f, w), ResultsOf(f, w), Well(f, w))
    BY ONLY f = "grok", Matched(f, w), n \in Nat, n = Len(w), <2>3, GrokFlushTells
  <2>5. SpanTells(x[k], ends[k], rows[k], upto[k], n, call, result, good)
    BY ONLY <1>1, <1>9, <2>1, <2>4, Zenon
  <2>6. rows[k] \in Nat /\ upto[k] \in Nat
    BY ONLY <1>9, <2>1, <2>2, n \in Nat
  <2> QED  BY ONLY <2>5, <2>6
<1>12. ASSUME NEW k \in 1..L, NEW l \in 1..L, k < l PROVE upto[k] < rows[l]
  <2>1. PICK i \in 1..n, j \in 1..n : i = rows[k] /\ j = rows[l] /\ i < j
    BY ONLY <1>7, <1>12
  <2>2. GrokBegins(w, j)
    <3>1. j \in S
      BY ONLY <1>7, <2>1
    <3> QED  BY ONLY <1>5, <3>1, Zenon DEF GrokIsMessage
  <2>3. GrokRunEnd(w, i) < j
    BY ONLY n \in Nat, n = Len(w), <2>1, <2>2, GrokRunIs
  <2> QED  BY ONLY <1>9, <2>1, <2>3
<1>13. ASSUME NEW j \in 1..n, result[j] # 0 PROVE \E k \in 1..L : j \in rows[k]..upto[k]
  <2>1. w[j].kind \in {"done", "failed"}
    <3>1. result[j] = ResultIn(f, w[j])
      BY ONLY <1>1, n = Len(w) DEF ResultsOf
    <3>2. ResultIn(f, w[j]) = IF w[j].kind \in {"done", "failed"} THEN w[j].id ELSE 0
      BY ONLY f = "grok", Zenon DEF ResultIn
    <3> QED  BY ONLY <1>13, <3>1, <3>2
  <2>2. GrokSpeaks(w, j) /\ GrokHasBlock(w[j])
    BY ONLY <2>1 DEF GrokRole, GrokHasBlock, GrokSpeaks
  <2>3. PICK i \in 1..n : i <= j /\ GrokBegins(w, i) /\ j <= GrokRunEnd(w, i)
    BY ONLY n \in Nat, n = Len(w), j \in 1..n, <2>2, GrokInRun
  <2>4. GrokIsMessage(w, i)
    BY ONLY n \in Nat, n = Len(w), j \in 1..n, <2>2, <2>3, GrokBlockShown
  <2>5. i \in S
    BY ONLY <1>5, <2>4
  <2>6. PICK k \in 1..L : rows[k] = i
    BY ONLY <1>7, <2>5
  <2>7. upto[k] = GrokRunEnd(w, i) /\ upto[k] \in Nat
    BY ONLY <1>9, <1>11, <2>6
  <2>8. j \in rows[k]..upto[k]
    BY ONLY <2>3, <2>6, <2>7, n \in Nat
  <2> QED  BY ONLY <2>8
<1>14. Spans(x, n, rows, upto, ends, call, result, good)
  BY ONLY <1>10, <1>11, <1>12, <1>13 DEF Spans
<1> QED  BY ONLY <1>1, <1>3, <1>14, Zenon

LEMMA GrokAnswers ==
  ASSUME format = "grok", Len(log) \in Nat, Matched(format, log)
  PROVE  AnsweredOnce
<1>1. PICK n \in Nat : n = Len(log)
  OBVIOUS
<1>2. PICK f, w : f = format /\ w = log
  OBVIOUS
<1>3. PICK call, result, good : call = CallsOf(f, w) /\ result = ResultsOf(f, w) /\ good = Well(f, w)
  OBVIOUS
<1>4. PICK from, upto, ends : Spans(GrokMessages(w), n, from, upto, ends, call, result, good)
  BY ONLY <1>1, <1>2, <1>3, format = "grok", Matched(format, log), GrokTold
<1>5. Messages = GrokMessages(w)
  BY ONLY <1>2, format = "grok", Zenon DEF Messages
<1>6. Spans(Messages, n, from, upto, ends, call, result, good)
  BY ONLY <1>4, <1>5
<1>7. ResultsSettled(n, call, result, good)
  BY ONLY <1>1, <1>2, <1>3, format = "grok", Len(log) \in Nat, Matched(format, log), GrokSettled
<1>8. CalledAs = "tool"
  BY ONLY format = "grok" DEF CalledAs
<1> QED  BY ONLY <1>1, <1>6, <1>7, <1>8, SpansAnswered, Zenon

\* Every call is answered at most once, in its own message or a later one, by the
\* name it was called with, and as failed exactly when a row recorded a failure; and
\* one that is no longer open is answered.  A row makes a call of its own number or
\* answers an open one, so of each call there is one result, after it (Matched); a
\* message is one row or one run of rows and shows what they say of calls; and where
\* the answer stands on two rows, Gemini's, one of them is shown with it and knows
\* how it ended, while a row of dsh that comes again says the same.
THEOREM AnswersHold == TranscriptsSpec => []AnsweredOnce
<1>1. (format \in Formats /\ Written /\ Matched(format, log)) /\ (format = "dsh" => DshWritten(log)) => AnsweredOnce
  <2> SUFFICES ASSUME format \in Formats, Written, Matched(format, log), format = "dsh" => DshWritten(log)
               PROVE  AnsweredOnce
    OBVIOUS
  <2>1. Len(log) \in Nat
    BY DEF Written, IsList
  <2>2. CASE format = "gemini"
    BY ONLY <2>1, <2>2, Matched(format, log), GeminiAnswers
  <2>3. CASE format = "antigravity"
    BY ONLY <2>3, AgyAnswers
  <2>4. CASE format = "grok"
    BY ONLY <2>1, <2>4, Matched(format, log), GrokAnswers
  <2>5. CASE format \in Formats \ {"gemini", "antigravity", "grok"}
    BY ONLY <2>1, <2>5, Matched(format, log), format = "dsh" => DshWritten(log), RowFormatsAnswer
  <2> QED  BY <2>2, <2>3, <2>4, <2>5
<1> QED  BY <1>1, MatchedInv, DshWrittenInv, PTL

=============================================================================
