---------------------------- MODULE AnswerCache -----------------------------
(***************************************************************************)
(* The answers to /failures and /digest that are kept for a while          *)
(* (SessionQueryAPI.cachedAnswer).  The key holds the window's beginning   *)
(* as an instant: a question that names one ("2026-09-01") has the same    *)
(* key every time, while one that counts back from now ("7d", or no since  *)
(* at all) has that of the instant it is asked at.  Time is counted in     *)
(* steps of which an answer is kept Ttl; a report takes up to Slow.        *)
(***************************************************************************)
EXTENDS Integers, FiniteSets, Sequences

CONSTANTS
  Callers,
  Fixed, Relative,  \* questions with a fixed window, and those that count back from now
  Ttl,
  Slow,             \* bound: steps a report takes
  MaxSteps,         \* bound: steps of time
  MaxChanges,       \* bound: changes of the sessions
  MaxAsks           \* bound: questions asked

Questions == Fixed \cup Relative

ASSUME AnswerAssumption ==
  /\ Fixed \cap Relative = {} /\ Ttl \in Nat \ {0}
  /\ <<Slow, MaxSteps, MaxChanges, MaxAsks>> \in Nat \X Nat \X Nat \X Nat

VARIABLES
  step,       \* the time
  version,    \* how often the sessions changed
  versionAt,  \* the version each step of time began with
  answers,    \* key -> [at, data]
  call,       \* each caller's: [pc, question, key, since, data]
  asks        \* questions asked so far

answerVars == <<step, version, versionAt, answers, call, asks>>

Idle == [pc |-> "idle", question |-> "none", key |-> <<>>, since |-> 0, data |-> 0]
Computing == {c \in Callers : call[c].pc # "idle"}

\* The key: since as an instant, which now makes a new one of each time
KeyOf(question) == <<question, IF question \in Relative THEN asks + 1 ELSE 0>>

\* An entry that is young enough answers, whatever changed since
\* mutant: the entry is never too old
FreshForever(key) == key \in DOMAIN answers
Fresh(key) == key \in DOMAIN answers /\ step - answers[key].at < Ttl

AskHit(c, question) ==
  /\ asks < MaxAsks /\ call[c] = Idle /\ Fresh(KeyOf(question))
  /\ asks' = asks + 1
  /\ UNCHANGED <<step, version, versionAt, answers, call>>

AskMiss(c, question) ==
  /\ asks < MaxAsks /\ call[c] = Idle /\ ~Fresh(KeyOf(question))
  /\ asks' = asks + 1
  /\ call' = [call EXCEPT ![c] = [pc |-> "compute", question |-> question, key |-> KeyOf(question), since |-> step, data |-> 0]]
  /\ UNCHANGED <<step, version, versionAt, answers>>

\* The report is read outside of the lock
Compute(c) ==
  /\ call[c].pc = "compute"
  /\ call' = [call EXCEPT ![c].pc = "bank", ![c].data = version]
  /\ UNCHANGED <<step, version, versionAt, answers, asks>>

Bank(c) ==
  /\ call[c].pc = "bank"
  /\ answers' = [k \in DOMAIN answers \cup {call[c].key} |->
                   IF k = call[c].key THEN [at |-> step, data |-> call[c].data] ELSE answers[k]]
  /\ call' = [call EXCEPT ![c] = Idle]
  /\ UNCHANGED <<step, version, versionAt, asks>>

Change ==
  /\ version < MaxChanges
  /\ version' = version + 1
  /\ UNCHANGED <<step, versionAt, answers, call, asks>>

Tick ==
  /\ step < MaxSteps
  /\ \A c \in Callers : call[c] # Idle => step - call[c].since < Slow
  /\ step' = step + 1
  /\ versionAt' = Append(versionAt, version)
  /\ UNCHANGED <<version, answers, call, asks>>

AnswerInit ==
  /\ step = 1 /\ version = 0 /\ versionAt = <<0>> /\ asks = 0
  /\ answers = [k \in {} |-> [at |-> 0, data |-> 0]]
  /\ call = [c \in Callers |-> Idle]

AnswerNext ==
  \/ \E c \in Callers, q \in Questions : AskHit(c, q) \/ AskMiss(c, q)
  \/ \E c \in Callers : Compute(c) \/ Bank(c)
  \/ Change \/ Tick

AnswerSpec == AnswerInit /\ [][AnswerNext]_answerVars

-----------------------------------------------------------------------------

AtLeastOne(t) == IF t < 1 THEN 1 ELSE t

\* What an asker may be handed has every change made before the entry's time
\* to live and one computation ago, two computations that overlap included.
ServableIsRecent ==
  \A k \in DOMAIN answers :
    Fresh(k) => answers[k].data >= versionAt[AtLeastOne(step - Ttl + 1 - Slow)]

\* A question that was answered less than Ttl ago is answered from the cache,
\* as the page's own "since=7d" should be when it is opened again.
RepeatIsServed ==
  \A q \in Questions :
    (\E k \in DOMAIN answers : k[1] = q /\ step - answers[k].at < Ttl) => Fresh(KeyOf(q))
=============================================================================
