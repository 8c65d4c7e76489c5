-------------------------------- MODULE Lookup --------------------------------
(***************************************************************************)
(* Opening a session of the list by a name (findSession, subagentsOf of     *)
(* internal/app/api.go, MatchRank of internal/source/record.go), over the   *)
(* lists of several sources, where ids repeat, keys hold one another and    *)
(* subagents may name parents that are not there or one another.            *)
(*                                                                         *)
(* A name is a sequence of marks: the characters that separate the parts of *)
(* a key, and all that is between two of them.                              *)
(***************************************************************************)
EXTENDS SequencesExt, Integers

CONSTANTS
  Ids,         \* session ids: sequences of marks without a separator
  SourceModes, \* the modes of the sources that serve, in their order: a CLI's own
               \* before those with a label (resolver.Sources)
  CLIOf,       \* the mode of each: itself, or the one before its label
  MaxRecords   \* bound: sessions listed

ASSUME LookupAssumption ==
  /\ SourceModes \in Seq(Range(SourceModes)) /\ IsInjective(SourceModes) /\ "" \notin Range(SourceModes)
  /\ DOMAIN CLIOf = Range(SourceModes)
  /\ \A k, n \in DOMAIN SourceModes : CLIOf[SourceModes[n]] = SourceModes[k] => k <= n
  /\ <<>> \notin Ids /\ MaxRecords \in Nat

VARIABLE shown  \* what each source lists

lookupVars == <<shown>>

-----------------------------------------------------------------------------
Unnamed == <<>>

\* A record; of a subagent's, the session it ran in and the agent that spawned it
Record(m, id, parent, agent) ==
  [mode |-> m, sid |-> id, key |-> <<CLIOf[m], ":">> \o (IF parent = Unnamed THEN <<>> ELSE parent \o <<"/">>) \o id,
   parent |-> parent, agent |-> agent]
IsSubagent(r) == r.parent # Unnamed

\* MatchRank, the best rank first
Holds(s, part) == \E i \in 0..(Len(s) - Len(part)) : SubSeq(s, i + 1, i + Len(part)) = part
Ranks(r, name) ==
  <<name = r.sid, name = r.key,
    \E sep \in {":", "/"} : IsSuffix(<<sep>> \o name, r.key),
    Holds(r.key, name), Holds(r.sid, name)>>
MatchRank(r, name) == LET ranks == Ranks(r, name) IN Min({n \in 1..5 : ranks[n]} \cup {6})

\* mutant: every mode that begins with the one asked for
SourceMatchesAny(m, wanted) == wanted = "" \/ CLIOf[m] = CLIOf[wanted]
SourceMatchesWanted(m, wanted) == wanted = "" \/ m = wanted \/ (CLIOf[m] = wanted /\ m # wanted)

\* The records of the sources that are wanted, each at its place, and their order
Places(wanted) ==
  {p \in UNION {{k} \X DOMAIN shown[SourceModes[k]] : k \in DOMAIN SourceModes} :
     SourceMatchesWanted(SourceModes[p[1]], wanted)}
At(p) == shown[SourceModes[p[1]]][p[2]]
Precedes(p, q) == p[1] < q[1] \/ (p[1] = q[1] /\ p[2] < q[2])

\* findSession: the best rank, and of equals the first
FindSession(name, wanted) ==
  LET places == Places(wanted)
      best == Min({MatchRank(At(p), name) : p \in places} \cup {6})
      found == {p \in places : MatchRank(At(p), name) = best}
  IN IF name = <<>> \/ best = 6 THEN {}
     ELSE {At(p) : p \in {p \in found : \A q \in found : p = q \/ Precedes(p, q)}}

\* mutant: the agents an agent spawned itself
SpawnedBy(r, id, agents) == r.agent = id

\* descendsFrom: up the agents of the session, as many times as there are agents
DescendsFrom(r, id, agents) ==
  \E hops \in 0..Cardinality(agents) : \E up \in [0..hops -> agents] :
    /\ up[0] = r /\ \A n \in 1..hops : up[n].sid = up[n - 1].agent
    /\ up[hops].agent = id

\* subagentsOf: of agents that share an id the last one listed
SubagentsOf(r) ==
  LET rows == shown[r.mode]
      session == IF IsSubagent(r) THEN r.parent ELSE r.sid
      listed == {n \in DOMAIN rows : IsSubagent(rows[n]) /\ rows[n].parent = session}
      agents == {rows[n] : n \in {n \in listed : \A k \in listed : rows[k].sid = rows[n].sid => k <= n}}
  IN {a \in agents : IsSubagent(r) => DescendsFrom(a, r.sid, agents)}

-----------------------------------------------------------------------------
Ours(m) == {r.sid : r \in Range(shown[m])}
Sessions(m) == {r.sid : r \in {r \in Range(shown[m]) : ~IsSubagent(r)}}

\* A CLI has one more session, or Claude Code one more subagent in one of them.
AddRecord ==
  \E m \in Range(SourceModes), id \in Ids, parent, agent \in Ids \cup {Unnamed} :
    /\ SumFunction([n \in DOMAIN shown |-> Len(shown[n])]) < MaxRecords
    /\ id \notin Ours(m)
    /\ parent # Unnamed => CLIOf[m] = "claude" /\ parent \in Sessions(m)
    /\ agent # Unnamed => parent # Unnamed
    /\ shown' = [shown EXCEPT ![m] = Append(@, Record(m, id, parent, agent))]

LookupInit == shown = [m \in Range(SourceModes) |-> <<>>]
LookupNext == AddRecord
LookupSpec == LookupInit /\ [][LookupNext]_lookupVars

-----------------------------------------------------------------------------
(* Properties *)

\* A row of the list opens itself by the id and the source it shows, whatever else has
\* that id, or holds it in its id or in its key: "an MCP client can hold a sessionId
\* from list_sessions and the mode name" (api.go:269-271).
RowsOpen == \A m \in Range(SourceModes) : \A r \in Range(shown[m]) : FindSession(r.sid, m) = {r}

\* The agents under an agent are those that a chain of spawns joins to it: the least
\* set that has the agents it spawned and, with an agent, those that one spawned,
\* however they name one another or parents that are not listed.  Those under a
\* session are all that ran in it (subagentsOf, descendsFrom).
AgentsExact ==
  \A m \in Range(SourceModes) : \A r \in Range(shown[m]) :
    LET ran == {a \in Range(shown[m]) : a.parent # Unnamed /\ a.parent = IF IsSubagent(r) THEN r.parent ELSE r.sid}
        Closed(S) == \A a \in ran : a.agent \in {r.sid} \cup {b.sid : b \in S} => a \in S
        under == SubagentsOf(r)
    IN IF IsSubagent(r) THEN Closed(under) /\ \A S \in SUBSET ran : Closed(S) => under \subseteq S
                        ELSE under = ran

LookupExact == RowsOpen /\ AgentsExact
=============================================================================
