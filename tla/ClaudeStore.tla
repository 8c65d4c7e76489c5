----------------------------- MODULE ClaudeStore -----------------------------
(***************************************************************************)
(* The transcripts of one Claude project directory, of which some are forks *)
(* of others, and the list that shows every conversation once               *)
(* (ClaudeCodeSource.List of internal/source/source_claude.go).             *)
(*                                                                         *)
(* A fork opens with the messages of the file it left, their uuids kept,    *)
(* and the files go on growing while the list is made: each of its passes   *)
(* stats or reads one file at a time.  Paths are numbers, in their order;   *)
(* a session's id is its path.  Every write changes a file's stat.          *)
(***************************************************************************)
EXTENDS Integers, Sequences, FiniteSetsExt

CONSTANTS
  Paths,      \* the files there may be, 1 the first of them
  MaxWrites   \* bound: messages and forks

ASSUME ClaudeStoreAssumption ==
  /\ Paths \subseteq Nat \ {0} /\ IsFiniteSet(Paths) /\ 1 \in Paths
  /\ MaxWrites \in Nat

VARIABLES
  content,    \* the message uuids of each file, <<>> where there is none
  written,    \* when each file was last written
  writes,     \* messages and forks so far
  pass, group, todo, \* the pass the list is in, its records, and the files it has left
  probed,    \* the stat claudeIdentity took before its read
  identities, \* per file, its last uuid and the stat it was read under (identityMu)
  sig,        \* claudeCopySignature: the stats of the group
  holds,      \* the uuids found in each file of the group
  copyGroup,  \* the copies found last, and their signature (identityMu)
  listed, parentOf, \* the last list: its sessions, and where each file's subagents are
  before      \* the messages there were when that list began

claudeFiles == <<content, written, writes>>
claudeVars == <<claudeFiles, pass, group, todo, probed, identities, sig, holds, copyGroup,
                listed, parentOf, before>>

Unstatted == [at |-> 0, size |-> 0]
ClaudeStat(p) == [at |-> written[p], size |-> Len(content[p])]
Existing == {p \in Paths : content[p] # <<>>}
Held(p) == {content[p][i] : i \in 1..Len(content[p])}
LastOf(p) == content[p][Len(content[p])]

-----------------------------------------------------------------------------
(* Claude Code *)

Wrote(p) ==
  /\ writes < MaxWrites
  /\ writes' = writes + 1
  /\ written' = [written EXCEPT ![p] = writes + 2]
  /\ UNCHANGED <<pass, group, todo, probed, identities, sig, holds, copyGroup, listed, parentOf, before>>

Say(p) ==
  /\ p \in Existing
  /\ content' = [content EXCEPT ![p] = Append(@, writes + 2)]
  /\ Wrote(p)

\* A session is resumed under a new id after one of its messages.
Fork(from, to) ==
  /\ from \in Existing /\ to \notin Existing
  /\ \E n \in 1..Len(content[from]) : content' = [content EXCEPT ![to] = [i \in 1..n |-> content[from][i]]]
  /\ Wrote(to)

-----------------------------------------------------------------------------
(* List: the passes over the group of the transcripts that open alike *)

ClaudeFirst == Min(todo)
ClaudeDone == todo' = todo \ {ClaudeFirst}
ClaudePass(p, files) == pass' = p /\ todo' = files

\* files and records, as the glob finds them
BeginList ==
  /\ pass = "idle"
  /\ group' = Existing /\ ClaudePass("identify", Existing)
  /\ before' = UNION {Held(p) : p \in Existing}
  /\ UNCHANGED <<claudeFiles, probed, identities, sig, holds, copyGroup, listed, parentOf>>

Identifies == pass \in {"identify", "again"} /\ todo # {}

\* claudeIdentity: what was read under this stat is good.
KnownIdentity ==
  /\ Identifies /\ probed = Unstatted /\ identities[ClaudeFirst].stat = ClaudeStat(ClaudeFirst)
  /\ ClaudeDone
  /\ UNCHANGED <<claudeFiles, pass, group, probed, identities, sig, holds, copyGroup, listed, parentOf, before>>

StatIdentity ==
  /\ Identifies /\ probed = Unstatted /\ identities[ClaudeFirst].stat # ClaudeStat(ClaudeFirst)
  /\ probed' = ClaudeStat(ClaudeFirst)
  /\ UNCHANGED <<claudeFiles, pass, group, todo, identities, sig, holds, copyGroup, listed, parentOf, before>>

\* claudeLastMessageUUID; banked under the stat taken before it
ReadIdentity ==
  /\ Identifies /\ probed # Unstatted
  /\ identities' = [identities EXCEPT ![ClaudeFirst] = [stat |-> probed, last |-> LastOf(ClaudeFirst)]]
  /\ probed' = Unstatted
  /\ ClaudeDone
  /\ UNCHANGED <<claudeFiles, pass, group, sig, holds, copyGroup, listed, parentOf, before>>

\* claudeSessionCopies: a group of one has no copies.
EndIdentify ==
  /\ pass = "identify" /\ todo = {}
  /\ IF Cardinality(group) < 2 THEN ClaudePass("resolve", {}) ELSE ClaudePass("sign", group)
  /\ sig' = [p \in Paths |-> Unstatted]
  /\ UNCHANGED <<claudeFiles, group, probed, identities, holds, copyGroup, listed, parentOf, before>>

\* claudeCopySignature, one stat after the other
SignOne ==
  /\ pass = "sign" /\ todo # {}
  /\ sig' = [sig EXCEPT ![ClaudeFirst] = ClaudeStat(ClaudeFirst)]
  /\ ClaudeDone
  /\ UNCHANGED <<claudeFiles, pass, group, probed, identities, holds, copyGroup, listed, parentOf, before>>

\* mutant: the files' names alone are the signature
SameNames(s) == \A p \in Paths : s[p] = Unstatted <=> copyGroup.sig[p] = Unstatted

SameGroup(s) == s = copyGroup.sig

EndSign ==
  /\ pass = "sign" /\ todo = {}
  /\ IF SameGroup(sig) THEN ClaudePass("resolve", {}) ELSE ClaudePass("again", group)
  /\ UNCHANGED <<claudeFiles, group, probed, identities, sig, holds, copyGroup, listed, parentOf, before>>

\* findClaudeSessionCopies: identities once more, then what each file holds
EndAgain ==
  /\ pass = "again" /\ todo = {}
  /\ ClaudePass("scan", group)
  /\ holds' = [p \in Paths |-> {}]
  /\ UNCHANGED <<claudeFiles, group, probed, identities, sig, copyGroup, listed, parentOf, before>>

HoldsOf(p) == {u \in Held(p) : \E q \in group : identities[q].last = u}

ScanOne ==
  /\ pass = "scan" /\ todo # {}
  /\ holds' = [holds EXCEPT ![ClaudeFirst] = HoldsOf(ClaudeFirst)]
  /\ ClaudeDone
  /\ UNCHANGED <<claudeFiles, pass, group, probed, identities, sig, copyGroup, listed, parentOf, before>>

\* claudeCopyTarget: the longest, of those the oldest, of those the first
CopyTarget(files) ==
  CHOOSE p \in files : \A q \in files \ {p} :
    LET a == identities[p].stat
        b == identities[q].stat
    IN \/ a.size > b.size
       \/ a.size = b.size /\ a.at < b.at
       \/ a = b /\ p < q

\* findClaudeSessionCopies: a file is a copy if another holds its last message;
\* one that goes on owns it, and between files that end alike the oldest.
TargetOf(p) ==
  LET last == identities[p].last
      containing == {q \in group \ {p} : last \in holds[q]}
      advanced == {q \in containing : identities[q].last # last}
      owners == {q \in group : identities[q].last = last}
      target == CopyTarget(IF advanced # {} THEN advanced ELSE owners)
  IN IF containing = {} \/ target = p THEN 0 ELSE target

\* mutant: banked under the files' stats after they were read
EndScanLate ==
  /\ pass = "scan" /\ todo = {}
  /\ copyGroup' = [sig |-> [p \in Paths |-> IF p \in group THEN ClaudeStat(p) ELSE Unstatted],
                   of |-> [p \in Paths |-> IF p \in group THEN TargetOf(p) ELSE 0]]
  /\ ClaudePass("resolve", {})
  /\ UNCHANGED <<claudeFiles, group, probed, identities, sig, holds, listed, parentOf, before>>

EndScan ==
  /\ pass = "scan" /\ todo = {}
  /\ copyGroup' = [sig |-> sig, of |-> [p \in Paths |-> IF p \in group THEN TargetOf(p) ELSE 0]]
  /\ ClaudePass("resolve", {})
  /\ UNCHANGED <<claudeFiles, group, probed, identities, sig, holds, listed, parentOf, before>>

\* resolveClaudeCopy: along the copies to one that is none, or of the cycle they
\* come to the first in order
Along(p, of) ==
  {q \in Paths : \A files \in SUBSET Paths :
     p \in files /\ (\A f \in files : of[f] # 0 => of[f] \in files) => q \in files}
Ends(p, of) == {q \in Along(p, of) : \A f \in Along(p, of) : q \in Along(f, of)}
Resolve(p, of) == Min(Ends(p, of))

\* mutant: a subagent stays with the session it ran in
EndListKeepingParents ==
  /\ pass = "resolve"
  /\ LET of == IF Cardinality(group) < 2 THEN [p \in Paths |-> 0] ELSE copyGroup.of
     IN /\ listed' = {p \in group : Resolve(p, of) = p}
        /\ parentOf' = [p \in Paths |-> IF p \in group THEN p ELSE 0]
  /\ ClaudePass("idle", {})
  /\ UNCHANGED <<claudeFiles, group, probed, identities, sig, holds, copyGroup, before>>

\* List: copies are left out, and their subagents go to the session that has
\* their turns.
EndList ==
  /\ pass = "resolve"
  /\ LET of == IF Cardinality(group) < 2 THEN [p \in Paths |-> 0] ELSE copyGroup.of
     IN /\ listed' = {p \in group : Resolve(p, of) = p}
        /\ parentOf' = [p \in Paths |-> IF p \in group THEN Resolve(p, of) ELSE 0]
  /\ ClaudePass("idle", {})
  /\ UNCHANGED <<claudeFiles, group, probed, identities, sig, holds, copyGroup, before>>

-----------------------------------------------------------------------------
ClaudeInit ==
  /\ content = [p \in Paths |-> IF p = 1 THEN <<1>> ELSE <<>>]
  /\ written = [p \in Paths |-> IF p = 1 THEN 1 ELSE 0]
  /\ writes = 0
  /\ pass = "idle" /\ group = {} /\ todo = {} /\ probed = Unstatted
  /\ identities = [p \in Paths |-> [stat |-> Unstatted, last |-> 0]]
  /\ sig = [p \in Paths |-> Unstatted]
  /\ holds = [p \in Paths |-> {}]
  /\ copyGroup = [sig |-> sig, of |-> [p \in Paths |-> 0]]
  /\ listed = {} /\ parentOf = [p \in Paths |-> 0] /\ before = {}

ListStep ==
  \/ BeginList \/ KnownIdentity \/ StatIdentity \/ ReadIdentity \/ EndIdentify
  \/ SignOne \/ EndSign \/ EndAgain \/ ScanOne \/ EndScan \/ EndList

ClaudeNext ==
  \/ \E p \in Paths : Say(p)
  \/ \E p, q \in Paths : Fork(p, q)
  \/ ListStep

ClaudeSpec == ClaudeInit /\ [][ClaudeNext]_claudeVars

-----------------------------------------------------------------------------
(* Properties *)

Listing == pass # "idle"

\* No message is lost by leaving copies out: whatever a transcript held when the
\* list began stands in one of the sessions it lists, whoever wrote meanwhile.
\* (findClaudeSessionCopies over files that change between its passes.)
NothingHidden ==
  ~Listing => before \subseteq UNION {Held(p) : p \in listed}

\* A subagent is under a session that is listed, also where the one it ran in is
\* a copy of a copy.  (resolveClaudeCopy, resolveClaudeSessionID.)
SubagentsReachable ==
  ~Listing => \A p \in group : parentOf[p] \in listed

\* Every message there was and every subagent is reached through a session of the list.
SessionsReachable == NothingHidden /\ SubagentsReachable

\* The copies that are banked are right whenever their signature is that of the
\* files: exactly the files whose messages all stand in another are left out, and
\* of equals all but one - whatever was appended while they were looked for, and
\* whatever identities were banked before.
\* (claudeSessionCopies: the signature is taken before the files are read.)
CopiesExact ==
  LET signed == {p \in Paths : copyGroup.sig[p] # Unstatted}
      holder(p) == {q \in signed \ {p} : Held(p) \subseteq Held(q)}
  IN (signed # {} /\ \A p \in signed : copyGroup.sig[p] = ClaudeStat(p)) =>
       \A p \in signed :
         /\ copyGroup.of[p] # 0 <=>
              \E q \in holder(p) : Held(q) # Held(p) \/ written[q] < written[p]
         /\ copyGroup.of[p] # 0 => copyGroup.of[p] \in holder(p)
=============================================================================
