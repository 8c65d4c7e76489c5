------------------------------ MODULE SearchPool ------------------------------
(***************************************************************************)
(* One search (SessionQueryAPI.search): the dispatcher hands transcripts,  *)
(* newest session first and a session's own before its subagents', over an *)
(* unbuffered channel to a pool of workers, and stops once Limit sessions  *)
(* have matched or the caller is gone; then the page is cut from the hits. *)
(*                                                                         *)
(* Transcripts are numbered in the order they are handed out.  UnitOf says *)
(* which session, the newest being 1, a transcript belongs to.             *)
(***************************************************************************)
EXTENDS Integers, FiniteSets

CONSTANTS
  Jobs,        \* number of transcripts
  UnitOf,      \* the session of each
  Workers,
  Limits,      \* the values of q.Limit that are asked for
  PerSession,  \* q.PerSession
  MaxHits      \* bound: hits in one transcript

Job == 1..Jobs

ASSUME PoolAssumption ==
  /\ Jobs \in Nat /\ MaxHits \in Nat /\ PerSession \in Nat \ {0} /\ Limits \subseteq Nat
  /\ IsFiniteSet(Workers)
  /\ UnitOf \in [Job -> Nat]
  /\ \A j, k \in Job : j <= k => UnitOf[j] <= UnitOf[k]

VARIABLES
  has, limit,      \* what the search would find in each transcript, and q.Limit
  cancelled,       \* the caller hung up (ctx)
  disp, next,      \* the dispatcher's place, and the transcript it hands out next
  scanStopped,
  at, job,         \* each worker's place and its transcript
  hits,            \* hits[k]: what was found in transcript k
  matchedUnit, found, \* sessions flagged as matched, and the counter the dispatcher reads
  stopped          \* what the outcome says of cancellation

vars == <<has, limit, cancelled, disp, next, scanStopped, at, job, hits, matchedUnit, found, stopped>>
queryVars == <<has, limit>>
dispVars == <<disp, next, scanStopped>>
workVars == <<at, job>>
flags == <<matchedUnit, found>>

Least(a, b) == IF a < b THEN a ELSE b
ProbeLimit == PerSession + 1

-----------------------------------------------------------------------------
(* The caller *)

Cancel ==
  /\ ~cancelled /\ disp # "done"
  /\ cancelled' = TRUE
  /\ UNCHANGED <<queryVars, dispVars, workVars, hits, flags, stopped>>

-----------------------------------------------------------------------------
(* The dispatcher *)

CheckCancelled ==
  /\ disp = "loop"
  /\ disp' = IF next > Jobs \/ cancelled THEN "close" ELSE "limit"
  /\ UNCHANGED <<queryVars, cancelled, next, scanStopped, workVars, hits, flags, stopped>>

\* mutant: limit=0, the count-only request, stops at once
CheckAnyLimit ==
  /\ disp = "limit"
  /\ scanStopped' = (found >= limit)
  /\ disp' = IF scanStopped' THEN "close" ELSE "send"
  /\ UNCHANGED <<queryVars, cancelled, next, workVars, hits, flags, stopped>>

CheckLimit ==
  /\ disp = "limit"
  /\ scanStopped' = (limit > 0 /\ found >= limit)
  /\ disp' = IF scanStopped' THEN "close" ELSE "send"
  /\ UNCHANGED <<queryVars, cancelled, next, workVars, hits, flags, stopped>>

\* close(jobs) and wg.Wait: the answer is taken when every worker has ended.
EndDispatch ==
  /\ disp = "close" /\ \A w \in Workers : at[w] = "idle"
  /\ disp' = "done"
  /\ stopped' = cancelled
  /\ UNCHANGED <<queryVars, cancelled, next, scanStopped, workVars, hits, flags>>

-----------------------------------------------------------------------------
(* A worker *)

\* The channel is unbuffered: handing out and taking are one step.
Take(w) ==
  /\ disp = "send" /\ at[w] = "idle"
  /\ job' = [job EXCEPT ![w] = next]
  /\ at' = [at EXCEPT ![w] = "check"]
  /\ next' = next + 1
  /\ disp' = "loop"
  /\ UNCHANGED <<queryVars, cancelled, scanStopped, hits, flags, stopped>>

\* Once the caller is gone what is left in the channel is dropped.
Check(w) ==
  /\ at[w] = "check"
  /\ at' = [at EXCEPT ![w] = IF cancelled THEN "idle" ELSE "search"]
  /\ UNCHANGED <<queryVars, cancelled, dispVars, job, hits, flags, stopped>>

\* A transcript yields at most one hit more than a session may show; a search
\* that notices the cancellation returns what it has so far.
Found(k) == IF cancelled THEN 0..Least(has[k], ProbeLimit) ELSE {Least(has[k], ProbeLimit)}

SearchOne(w) ==
  /\ at[w] = "search"
  /\ \E n \in Found(job[w]) : hits' = [hits EXCEPT ![job[w]] = n]
  /\ at' = [at EXCEPT ![w] = "mark"]
  /\ UNCHANGED <<queryVars, cancelled, dispVars, job, flags, stopped>>

\* mutant: a worker that finds the session flagged tries again
MarkAgain(w) ==
  LET first == hits[job[w]] > 0 /\ UnitOf[job[w]] \notin matchedUnit IN
  /\ at[w] = "mark"
  /\ at' = [at EXCEPT ![w] = IF first THEN "count" ELSE IF hits[job[w]] > 0 THEN "mark" ELSE "idle"]
  /\ matchedUnit' = IF first THEN matchedUnit \cup {UnitOf[job[w]]} ELSE matchedUnit
  /\ UNCHANGED <<queryVars, cancelled, dispVars, job, hits, found, stopped>>

\* matchedUnit[...].CompareAndSwap
Mark(w) ==
  LET first == hits[job[w]] > 0 /\ UnitOf[job[w]] \notin matchedUnit IN
  /\ at[w] = "mark"
  /\ at' = [at EXCEPT ![w] = IF first THEN "count" ELSE "idle"]
  /\ matchedUnit' = IF first THEN matchedUnit \cup {UnitOf[job[w]]} ELSE matchedUnit
  /\ UNCHANGED <<queryVars, cancelled, dispVars, job, hits, found, stopped>>

Count(w) ==
  /\ at[w] = "count"
  /\ found' = found + 1
  /\ at' = [at EXCEPT ![w] = "idle"]
  /\ UNCHANGED <<queryVars, cancelled, dispVars, job, hits, matchedUnit, stopped>>

-----------------------------------------------------------------------------
(* The outcome, read when the workers have ended *)

Units == {UnitOf[k] : k \in Job}
Matched(of) == {u \in Units : \E k \in Job : UnitOf[k] = u /\ of[k] > 0}
Newest(set) == {u \in set : Cardinality({v \in set : v < u}) < limit}

\* mutant: a session is found by its own transcript only
PageOfOwn == Newest({u \in Matched(hits) : \E k \in Job :
               UnitOf[k] = u /\ hits[k] > 0 /\ \A j \in Job : UnitOf[j] = u => k <= j})
Page == Newest(Matched(hits))
\* The hits of a session's transcripts, put together: the i-th hit of transcript k
HitsOf(of, u) == {h \in Job \X (1..(MaxHits + ProbeLimit)) : UnitOf[h[1]] = u /\ h[2] <= of[h[1]]}
Total(of, u) == Cardinality(HitsOf(of, u))
Shown(of, u) == Least(Total(of, u), PerSession)
SessionsCut == Cardinality(Matched(hits)) > Cardinality(Page) \/ scanStopped
\* mutant: the extra hit of each transcript is looked for, not of the session
HitsCutByTranscript == \E u \in Page : \E k \in Job : UnitOf[k] = u /\ hits[k] > PerSession
HitsCut == \E u \in Page : Total(hits, u) > PerSession

-----------------------------------------------------------------------------
Init ==
  /\ has \in [Job -> 0..MaxHits] /\ limit \in Limits
  /\ cancelled = FALSE
  /\ disp = "loop" /\ next = 1 /\ scanStopped = FALSE
  /\ at = [w \in Workers |-> "idle"] /\ job = [w \in Workers |-> 0]
  /\ hits = [k \in Job |-> 0]
  /\ matchedUnit = {} /\ found = 0
  /\ stopped = FALSE

Dispatch == CheckCancelled \/ CheckLimit \/ EndDispatch
Work(w) == Take(w) \/ Check(w) \/ SearchOne(w) \/ Mark(w) \/ Count(w)
Answered == disp = "done" /\ UNCHANGED vars

Next == Cancel \/ Dispatch \/ (\E w \in Workers : Work(w)) \/ Answered

\* Goroutines are scheduled; nothing makes a caller hang up.
Fairness == WF_vars(Dispatch) /\ WF_vars(\E w \in Workers : Take(w))
            /\ \A w \in Workers : WF_vars(Work(w) /\ at[w] # "idle")

Spec == Init /\ [][Next]_vars /\ Fairness

-----------------------------------------------------------------------------
(* Properties *)

Answer == disp = "done" /\ ~stopped

TypeOK ==
  /\ has \in [Job -> 0..MaxHits] /\ limit \in Limits /\ cancelled \in BOOLEAN
  /\ disp \in {"loop", "limit", "send", "close", "done"}
  /\ next \in 1..(Jobs + 1) /\ scanStopped \in BOOLEAN
  /\ at \in [Workers -> {"idle", "check", "search", "mark", "count"}]
  /\ job \in [Workers -> 0..Jobs]
  /\ hits \in [Job -> 0..ProbeLimit]
  /\ matchedUnit \subseteq Units /\ found \in Nat /\ stopped \in BOOLEAN

\* Stopping early never changes which sessions the page has: it holds the Limit
\* newest of all the sessions that match, scanned or not ("every session still
\* unscanned is older than every one that matched", search.go:183-186).
PageExact == Answer => Page = Newest(Matched(has))

\* matched is "exact when the scan ran to the end of the corpus, a lower bound
\* when it stopped at limit - scanStopped says which" (search.go:44-45).
MatchedExact ==
  Answer => /\ Matched(hits) \subseteq Matched(has)
            /\ ~scanStopped => Matched(hits) = Matched(has)
            /\ scanStopped => limit > 0 /\ Cardinality(Matched(hits)) >= limit

\* What an answered search says about sessions is so, however the workers
\* overtook each other: which ones the page has, and how many there are.
AnswerExact == PageExact /\ MatchedExact

\* The stop cuts into one session at most: every other one on the page shows its
\* first PerSession hits of all its transcripts ("a session can be stopped
\* part-way through its agents", search.go:187-188), and hitsCut is right of it.
OnlyLastIsShort ==
  Answer => \A u \in Page :
    \/ Shown(hits, u) = Shown(has, u) /\ (Total(has, u) > PerSession => HitsCut)
    \/ scanStopped /\ next \in Job /\ u = UnitOf[next]

\* Every search ends, whoever hangs up and wherever the scan stops.
SearchEnds == <>(disp = "done")

\* "scanned and truncated.scan describe that run, while the results and the
\* sessions they cover are exact either way" (docs/api.md:103-104).
ResultsExact == Answer => \A u \in Page : Shown(hits, u) = Shown(has, u)
=============================================================================
