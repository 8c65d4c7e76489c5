------------------------------ MODULE Reports -------------------------------
(***************************************************************************)
(* The answers that are added up over many sessions: the list, the         *)
(* projects, the pack, the failures, the digest and the usage report, all  *)
(* of one moment while the CLIs go on working, fail at things and archive  *)
(* sessions.  Times are numbers; 0 is no time at all, and in a filter no   *)
(* bound.  A session's failures are those its rounds hold (RoundSplit), in *)
(* their order.                                                            *)
(***************************************************************************)
EXTENDS Integers, FiniteSetsExt, SequencesExt

CONSTANTS
  Order,      \* the records, sessions and subagents, in source order
  Subagents,  \* those that are a subagent's
  Reporting,  \* those of a source that adds up their usage itself (UsageReporter)
  ProjectOf,  \* the project of each, or NoProject
  NoProject,
  Enough,     \* failuresReport scans until it has Enough * limit (the code's 4)
  Limits,     \* the page sizes that are asked for
  MaxClock    \* bound: moments

Projects == {ProjectOf[s] : s \in ToSet(Order)} \ {NoProject}

ASSUME ReportsAssumption ==
  /\ MaxClock \in Nat /\ Enough \in Nat \ {0} /\ Limits \subseteq Nat
  /\ Subagents \cup Reporting \subseteq ToSet(Order) /\ DOMAIN ProjectOf = ToSet(Order)
  /\ \A i, j \in DOMAIN Order : Order[i] = Order[j] => i = j

VARIABLES
  clock,
  at,        \* when each was last updated (Record.sortAt)
  shelved,   \* those their CLI has archived
  fails,     \* the times of each one's failed results
  spent,     \* the tokens of each one's final
  bills      \* of those of Reporting, the [tokens, at] their source's query answers

reportsVars == <<clock, at, shelved, fails, spent, bills>>

All == DOMAIN at  \* those there are

-----------------------------------------------------------------------------
(* The CLIs *)

Start(s) ==  \* some carry a time that cannot be read until they are worked on
  /\ s \notin All
  /\ \E t \in {0, clock} : at' = at @@ (s :> t)
  /\ fails' = fails @@ (s :> <<>>)
  /\ spent' = spent @@ (s :> 1)
  /\ bills' = IF s \in Reporting THEN bills @@ (s :> [tokens |-> 1, at |-> clock]) ELSE bills
  /\ UNCHANGED <<clock, shelved>>

Touch(s) ==
  /\ s \in All /\ clock < MaxClock
  /\ clock' = clock + 1
  /\ at' = [at EXCEPT ![s] = clock']

Spend(s) == spent' = [spent EXCEPT ![s] = @ + 1]
Bill(s) == bills' = [bills EXCEPT ![s] = [tokens |-> @.tokens + 1, at |-> clock']]

\* The query of a reporting source reads other columns and other rows than the
\* final and the list: every reply's tokens and not the closing one's, without the
\* cache's, at the session's own time and not its newest message's
Work(s) ==
  /\ Touch(s)
  /\ IF s \in Reporting THEN Bill(s) ELSE UNCHANGED bills
  /\ Spend(s) \/ (s \in Reporting /\ UNCHANGED spent)
  /\ UNCHANGED <<shelved, fails>>

Fail(s) ==
  /\ Touch(s)
  /\ fails' = [fails EXCEPT ![s] = Append(@, clock')]
  /\ UNCHANGED <<shelved, spent, bills>>

Shelve(s) ==  \* archived, or brought back
  /\ s \in All
  /\ shelved' = IF s \in shelved THEN shelved \ {s} ELSE shelved \cup {s}
  /\ UNCHANGED <<clock, at, fails, spent, bills>>

ReportsInit ==
  /\ clock = 0 /\ shelved = {}
  /\ at = [s \in {} |-> 0] /\ fails = [s \in {} |-> <<>>] /\ spent = [s \in {} |-> 0]
  /\ bills = [s \in {} |-> [tokens |-> 0, at |-> 0]]

ReportsNext == \E s \in ToSet(Order) : Start(s) \/ Work(s) \/ Fail(s) \/ Shelve(s)
ReportsSpec == ReportsInit /\ [][ReportsNext]_reportsVars

-----------------------------------------------------------------------------
(* What the answers are made of *)

Place(s) == CHOOSE i \in DOMAIN Order : Order[i] = s
NewerThan(s, t) == at[s] > at[t]

\* A stable sort by NewerThan: equal times keep source order
InOrder(S) == SelectSeq(Order, LAMBDA s : s \in S)
NewestFirst(S) ==
  SortSeq(InOrder(S), LAMBDA s, t : NewerThan(s, t) \/ (at[s] = at[t] /\ Place(s) < Place(t)))
OldestFirst(S) ==
  SortSeq(InOrder(S), LAMBDA s, t : NewerThan(t, s) \/ (at[s] = at[t] /\ Place(s) < Place(t)))

Total(f, S) == MapThenSumSet(LAMBDA s : f[s], S)

\* sessionFilter.admits, the filter being [project, since, until, subagents, archived]
Admits(f, s) ==
  /\ s \in Subagents => f.subagents
  /\ s \in shelved => f.archived
  /\ f.project # NoProject => ProjectOf[s] = f.project
  /\ f.since # 0 => at[s] # 0 /\ f.since <= at[s]
  /\ f.until # 0 => at[s] # 0 /\ at[s] <= f.until
SessionsWhere(f) == {s \in All : Admits(f, s)}

\* listSessions: the rows, and how many sessions are archived
ArchivedTotal == Cardinality(shelved \ Subagents)
ListSessions(subagents, archived) ==
  NewestFirst({s \in All : (subagents \/ s \notin Subagents) /\ (archived \/ s \notin shelved)})

\* listProjects: per project how many and which was touched last; and how many
\* sessions have none
\* mutant: archived sessions are counted whatever was asked
CountedShelved(archived) == All \ Subagents
Counted(archived) == {s \in All \ Subagents : s \in shelved => archived}
ListProjects(archived) ==
  [p \in {ProjectOf[s] : s \in Counted(archived)} \ {NoProject} |->
     LET own == {s \in Counted(archived) : ProjectOf[s] = p}
     IN  [sessions |-> Cardinality(own), latest |-> Head(NewestFirst(own))]]
Ungrouped(archived) == Cardinality({s \in Counted(archived) : ProjectOf[s] = NoProject})

\* packEntries and summarizePack: the latest of the selection, oldest first
\* mutant: the limit keeps the oldest
PackOldest(f, limit) ==
  LET entries == OldestFirst(SessionsWhere(f))
  IN  IF Len(entries) > limit THEN SubSeq(entries, 1, limit) ELSE entries
Pack(f, limit) ==
  LET entries == OldestFirst(SessionsWhere(f))
  IN  IF Len(entries) > limit THEN SubSeq(entries, Len(entries) - limit + 1, Len(entries)) ELSE entries

\* The header's range; a session without a time is passed over, but the range
\* only starts at the entry numbered first
PackRange(entries) ==
  LET widen(range, i) ==
        LET t == at[entries[i]]
        IN  IF t = 0 THEN range
            ELSE [from |-> IF i = 1 \/ t < range.from THEN t ELSE range.from,
                  to |-> IF i = 1 \/ t > range.to THEN t ELSE range.to]
  IN  FoldLeft(widen, [from |-> 0, to |-> 0], [i \in DOMAIN entries |-> i])

\* withinWindow and sessionMatches, of the failures and the digest
WithinWindow(t, since, until) ==
  t = 0 \/ ((since # 0 => since <= t) /\ (until # 0 => t < until))
SessionMatches(s, project) ==
  s \notin shelved /\ (project # NoProject => ProjectOf[s] = project)
Candidates(since, until, project) ==
  {s \in All : SessionMatches(s, project) /\ WithinWindow(at[s], since, until)}

\* failuresReport: the newest sessions until there are enough, then the page
Scanned(candidates, limit) ==
  LET held(n) == Total([s \in All |-> Len(fails[s])], ToSet(SubSeq(candidates, 1, n)))
  IN  Cardinality({n \in 0..(Len(candidates) - 1) : held(n) < limit * Enough})

\* mutant: left in the order they are read
SortedAsRead(found) == found
Sorted(found) == SortSeq(found, LAMBDA f, g : f.at > g.at)

\* mutant: marked as cut only where the scan stopped
FailuresReportUnmarked(since, until, project, limit) ==
  LET candidates == NewestFirst(Candidates(since, until, project))
      scanned == SubSeq(candidates, 1, Scanned(candidates, limit))
      failuresOf(s) == [n \in DOMAIN fails[s] |-> [at |-> fails[s][n], session |-> s]]
      found == FlattenSeq([i \in DOMAIN scanned |-> failuresOf(scanned[i])])
  IN  [failures |-> IF limit > 0 THEN SubSeq(Sorted(found), 1, Min({limit, Len(found)})) ELSE Sorted(found),
       total |-> Len(found), scanned |-> ToSet(scanned), truncated |-> limit > 0 /\ Len(found) >= limit * Enough]
FailuresReport(since, until, project, limit) ==
  LET candidates == NewestFirst(Candidates(since, until, project))
      scanned == SubSeq(candidates, 1, Scanned(candidates, limit))
      failuresOf(s) == [n \in DOMAIN fails[s] |-> [at |-> fails[s][n], session |-> s]]
      found == FlattenSeq([i \in DOMAIN scanned |-> failuresOf(scanned[i])])
  IN  [failures |-> IF limit > 0 THEN SubSeq(Sorted(found), 1, Min({limit, Len(found)})) ELSE Sorted(found),
       total |-> Len(found), scanned |-> ToSet(scanned), truncated |-> limit > 0 /\ Len(found) > limit]

\* digestReport: per project, the sessions that are not a subagent's
\* mutant: archived sessions are added up too
DigestedAll(since, until, project) ==
  {s \in All \ Subagents : (project # NoProject => ProjectOf[s] = project) /\ WithinWindow(at[s], since, until)}
Digested(since, until, project) == Candidates(since, until, project) \ Subagents
DigestOf(S) ==
  [sessions |-> Cardinality(S), failures |-> Total([s \in All |-> Len(fails[s])], S), tokens |-> Total(spent, S),
   lastAt |-> Max({0} \cup {at[s] : s \in S})]
Digest(since, until, project) ==
  LET S == Digested(since, until, project)
  IN  [p \in {ProjectOf[s] : s \in S} |-> DigestOf({s \in S : ProjectOf[s] = p})]
DigestTotal(digest, field) == MapThenSumSet(LAMBDA p : digest[p][field], DOMAIN digest)

\* usageSessionsOf: where the source's own query answers, what it says of each of
\* its sessions; else, and for every other source, the finals that have tokens
Own(answers) == IF answers THEN Reporting ELSE {}
Billed(answers) == {s \in All : s \in Own(answers) \/ spent[s] > 0}
\* mutant: a source that reports is asked for its finals, too
BillOfFinals(s, answers) == [tokens |-> spent[s], at |-> at[s]]
BillOf(s, answers) == IF s \in Own(answers) THEN bills[s] ELSE [tokens |-> spent[s], at |-> at[s]]
Tokens(answers, S) == MapThenSumSet(LAMBDA s : BillOf(s, answers).tokens, S)

\* usageReport: every session's bill, by project and by age
UsageByProject(answers) ==
  [p \in {ProjectOf[s] : s \in Billed(answers)} |-> Tokens(answers, {s \in Billed(answers) : ProjectOf[s] = p})]
UsageSince(answers, age) ==
  Tokens(answers, {s \in Billed(answers) : BillOf(s, answers).at # 0 /\ BillOf(s, answers).at > clock - age})

-----------------------------------------------------------------------------
Windows == {w \in (0..clock) \X (0..clock) : w[2] = 0 \/ w[1] <= w[2]}
Filters == {[project |-> p, since |-> w[1], until |-> w[2], subagents |-> b, archived |-> a] :
              p \in Projects \cup {NoProject}, w \in Windows, b \in BOOLEAN, a \in BOOLEAN}

\* The list, the projects and the count of archived sessions tell one number:
\* no session is in two of them or in none.
CountsAgree ==
  /\ Len(ListSessions(FALSE, TRUE)) = Len(ListSessions(FALSE, FALSE)) + ArchivedTotal
  /\ \A archived \in BOOLEAN :
       LET projects == ListProjects(archived)
       IN  Len(ListSessions(FALSE, archived))
             = MapThenSumSet(LAMBDA p : projects[p].sessions, DOMAIN projects) + Ungrouped(archived)

\* A pack is the latest of what the filter selects, in the order it happened.
PackKeepsLatest ==
  \A f \in Filters :
    LET selected == SessionsWhere(f)
    IN  \A limit \in Limits :
          LET entries == Pack(f, limit)
              kept == ToSet(entries)
          IN  /\ kept \subseteq selected
              /\ Len(entries) = Min({limit, Cardinality(selected)})
              /\ \A i \in 2..Len(entries) : ~NewerThan(entries[i - 1], entries[i])
              /\ \A s \in selected \ kept, t \in kept : ~NewerThan(s, t)

\* The header's range goes from the first dated entry to the last.
PackRangeHolds ==
  \A entries \in {Pack(f, limit) : f \in Filters, limit \in Limits} :
    LET dated == {at[entries[i]] : i \in DOMAIN entries} \ {0}
    IN  dated # {} => PackRange(entries) = [from |-> Min(dated), to |-> Max(dated)]

FailuresOf(S) == UNION {{<<fails[s][n], s>> : n \in DOMAIN fails[s]} : s \in S}
Shown(report) == {<<f.at, f.session>> : f \in ToSet(report.failures)}

\* A report of failures that is not marked as cut has every failure of every
\* session the window selects.  One that is cut shows the newest of what it read,
\* and what it did not read are sessions no newer than those it did, once those
\* gave it enough.
FailuresKeepNewest ==
  \A w \in Windows, p \in Projects \cup {NoProject}, limit \in Limits \ {0} :
    LET report == FailuresReport(w[1], w[2], p, limit)
        shown == Shown(report)
        candidates == Candidates(w[1], w[2], p)
    IN  /\ ~report.truncated => shown = FailuresOf(candidates)
        /\ \A f \in FailuresOf(report.scanned) \ shown, g \in shown : f[1] <= g[1]
        /\ \A s \in candidates \ report.scanned :
             /\ report.total >= limit * Enough
             /\ \A t \in report.scanned : ~NewerThan(s, t)

\* A limit leaves out what is older and nothing else, and the answer says so.
LimitsCutTheOldest == PackKeepsLatest /\ FailuresKeepNewest

\* The digest's failures are the ones the failures report has for the same
\* words, without the subagents'; and where nothing is archived and all is dated,
\* its tokens are those of the usage report, once the subagents are taken out of
\* the one and the sessions of sources that answer for themselves out of both.
\* For those "summed from the finals, as /usage does" (docs/api.md:29) is not so.
DigestAgrees ==
  /\ \A w \in Windows, p \in Projects \cup {NoProject} :
       DigestTotal(Digest(w[1], w[2], p), "failures")
         = Cardinality({f \in Shown(FailuresReport(w[1], w[2], p, MaxClock)) : f[2] \notin Subagents})
  /\ shelved = {} /\ (\A s \in All : at[s] # 0) => \A answers \in BOOLEAN :
       LET own == Own(answers)
           ofAgents(S) == Total(spent, (S \cap Subagents) \ own)
           ofFinals(S) == Total(spent, (S \cap own) \ Subagents)
           ofQueries(S) == MapThenSumSet(LAMBDA s : bills[s].tokens, S \cap own)
       IN  /\ LET digest == Digest(0, 0, NoProject)
               IN  \A p \in DOMAIN digest :
                     LET S == {s \in All : ProjectOf[s] = p}
                     IN  digest[p].tokens - ofFinals(S) = UsageByProject(answers)[p] - ofQueries(S) - ofAgents(S)
           /\ \A age \in 0..(clock - 1) :
                LET S == {s \in All : at[s] > clock - age}
                    dated == {s \in All \cap own : bills[s].at > clock - age}
                IN  DigestTotal(Digest(clock - age + 1, 0, NoProject), "tokens") - ofFinals(S)
                      = UsageSince(answers, age) - ofQueries(dated) - ofAgents(S)

\* One set of sessions is behind all these numbers, although each is counted by
\* filters of its own.
NumbersAgree == CountsAgree /\ DigestAgrees

\* The reports agree with one another on what there is, and each on what it left out.
ReportsAgree == NumbersAgree /\ LimitsCutTheOldest

\* The words since, until and project select the same sessions for the
\* failures and the digest as for the search and the packs (admits).
SameSelection ==
  \A w \in Windows, p \in Projects \cup {NoProject} :
    Candidates(w[1], w[2], p)
      = SessionsWhere([project |-> p, since |-> w[1], until |-> w[2], subagents |-> TRUE, archived |-> FALSE])
=============================================================================
