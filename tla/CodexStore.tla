------------------------------ MODULE CodexStore ------------------------------
(***************************************************************************)
(* The rollout of a Codex session and that of a fork of it, on disk and in  *)
(* CodexSource's four memories (internal/source/source_codex.go): the       *)
(* verdicts on compressed rollouts, where each session was last listed, the *)
(* turns of a parent, and the final results.                                *)
(*                                                                         *)
(* The parent's rollout may be archived, and compressed beside the plain    *)
(* file, at any moment, and its compressed file written again in place; the *)
(* fork opens with the turns the parent had.  The files stand for their     *)
(* turns, of which each has one usage record: of the parent 1, 2, ..., and  *)
(* of the fork the copied ones and some of its own.                         *)
(***************************************************************************)
EXTENDS Integers, FiniteSetsExt

CONSTANTS
  MaxTurns,   \* bound: turns of the parent, and of the fork's own
  MaxPacks    \* bound: versions of the compressed file

ASSUME CodexStoreAssumption == MaxTurns \in Nat \ {0} /\ MaxPacks \in Nat

VARIABLES
  root, form, pack,  \* the parent's rollout: its root, see Forms, the version of its compressed file
  turns,             \* its turns
  copied, own,       \* the fork's turns: those it copied, -1 while there is no fork, and its own
  scan, active,      \* List: the glob it is at, and the paths so far
  left, usable,      \* files: the paths left to check, and those to be listed
  decoding,          \* validateCompressed: the file being decoded, and its version before
  verdicts,          \* fileStatus: per path the version and whether it decodes (mu)
  byID,              \* the parent's path in the last list (mu)
  turnIDs,           \* per path, its turns under a stamp (mu)
  finals,            \* the fork's final results, by stamp
  ask, fstamp, held, \* Final: its place, its stamp, the fork's own turns it read
  parent, pstamp,    \* parentTurns: the path and its stamp
  moved, rollouts    \* whether the parent's path or its compressed file changed since List
                     \* began; the paths of the last list

codexDisk == <<root, form, pack, turns, copied, own>>
codexList == <<scan, active, left, usable, decoding, verdicts, rollouts>>
codexFinal == <<turnIDs, finals, ask, fstamp, held, parent, pstamp>>
codexVars == <<codexDisk, codexList, byID, codexFinal, moved>>

Roots == {"live", "archived"}

\* Plain; being compressed beside the plain file; compressed with the plain file
\* still there; compressed alone; and that being written again
Forms == {"plain", "packing", "packed", "zst", "torn"}

Rollout(r, zst) == [root |-> r, zst |-> zst]
RolloutPaths == [root : Roots, zst : BOOLEAN]
NoPath == [root |-> "", zst |-> FALSE]
NoDecoding == [path |-> NoPath, stat |-> 0]

OnDisk(p) ==
  p.root = root /\ IF p.zst THEN form # "plain" ELSE form \in {"plain", "packing", "packed"}

Whole(p) == OnDisk(p) /\ (p.zst => form \in {"packed", "zst"})

\* A file's size and time: every write of it changes them.
Stat(p) == IF p.zst THEN pack ELSE turns

-----------------------------------------------------------------------------
(* Codex *)

ParentTurn == /\ form = "plain" /\ turns + own < MaxTurns
              /\ turns' = turns + 1
              /\ UNCHANGED <<root, form, pack, copied, own, codexList, byID, codexFinal, moved>>

ForkAway == /\ copied = -1
            /\ copied' = turns
            /\ UNCHANGED <<root, form, pack, turns, own, codexList, byID, codexFinal, moved>>

ForkTurn == /\ copied # -1 /\ turns + own < MaxTurns
            /\ own' = own + 1
            /\ UNCHANGED <<root, form, pack, turns, copied, codexList, byID, codexFinal, moved>>

Archive == /\ root = "live" /\ form \in {"plain", "zst"}
           /\ root' = "archived" /\ moved' = TRUE
           /\ UNCHANGED <<form, pack, turns, copied, own, codexList, byID, codexFinal>>

Compress ==
  /\ \/ form = "plain" /\ form' = "packing" /\ pack' = pack + 1
     \/ form = "packing" /\ form' = "packed" /\ pack' = pack + 1
     \/ form = "packed" /\ form' = "zst" /\ UNCHANGED pack
     \/ form = "zst" /\ form' = "torn" /\ pack' = pack + 1
     \/ form = "torn" /\ form' = "zst" /\ pack' = pack + 1
  /\ pack' <= MaxPacks
  /\ moved' = (moved \/ form \in {"packed", "zst", "torn"})
  /\ UNCHANGED <<root, turns, copied, own, codexList, byID, codexFinal>>

-----------------------------------------------------------------------------
(* List: files, then a record for each of them *)

\* codexRolloutFiles: one glob for the plain files, one for the compressed, of
\* which those count that had no plain file.
Glob(r, zst) ==
  {p \in {Rollout(r, zst)} : OnDisk(p) /\ ~(zst /\ Rollout(r, FALSE) \in active)}

BeginRollouts ==
  /\ scan = "idle"
  /\ scan' = "live" /\ moved' = FALSE
  /\ UNCHANGED <<codexDisk, active, usable, left, decoding, verdicts, rollouts, byID, codexFinal>>

GlobStep(r, zst, at, next) ==
  /\ scan = at
  /\ active' = active \cup Glob(r, zst)
  /\ scan' = next
  /\ left' = IF next = "check" THEN active' ELSE {}
  /\ UNCHANGED <<codexDisk, usable, decoding, verdicts, rollouts, byID, codexFinal, moved>>

GlobAll ==
  \/ GlobStep("live", FALSE, "live", "liveZst")
  \/ GlobStep("live", TRUE, "liveZst", "archived")
  \/ GlobStep("archived", FALSE, "archived", "archivedZst")
  \/ GlobStep("archived", TRUE, "archivedZst", "check")

Checked(p, ok) == left' = left \ {p} /\ usable' = usable \cup {q \in {p} : ok}

\* mutant: a verdict is kept with the path, whatever is written there
Remembered(p) == verdicts[p].stat # 0

\* validateCompressed: the verdict banked under the stat
Known(p) == verdicts[p].stat # 0 /\ verdicts[p].stat = Stat(p)

\* A plain file is not checked; a compressed one has its verdict, or is gone.
CheckFile(p) ==
  /\ p \in left /\ decoding = NoDecoding
  /\ p.zst /\ OnDisk(p) => Known(p)
  /\ Checked(p, ~p.zst \/ (OnDisk(p) /\ verdicts[p].good))
  /\ UNCHANGED <<codexDisk, scan, active, decoding, verdicts, rollouts, byID, codexFinal, moved>>

BeginDecode(p) ==
  /\ p \in left /\ p.zst /\ decoding = NoDecoding /\ OnDisk(p) /\ ~Known(p)
  /\ decoding' = [path |-> p, stat |-> pack]
  /\ UNCHANGED <<codexDisk, scan, active, left, usable, verdicts, rollouts, byID, codexFinal, moved>>

\* It decodes to its end, and was not written meanwhile.
Decodes(p) == Whole(p) /\ Stat(p) = decoding.stat

EndDecode(p) ==
  /\ p \in left /\ decoding.path = p
  /\ verdicts' = [verdicts EXCEPT ![p] = [stat |-> decoding.stat, good |-> Decodes(p)]]
  /\ Checked(p, Decodes(p))
  /\ decoding' = NoDecoding
  /\ UNCHANGED <<codexDisk, scan, active, rollouts, byID, codexFinal, moved>>

\* The verdicts on files that are gone are dropped, a file that is gone by now
\* has no record, and the records' paths are remembered.
EndRollouts ==
  /\ scan = "check" /\ left = {}
  /\ verdicts' = [p \in RolloutPaths |->
                   IF p \in active THEN verdicts[p] ELSE [stat |-> 0, good |-> FALSE]]
  /\ rollouts' = {p \in usable : OnDisk(p)}
  /\ byID' = IF rollouts' = {} THEN NoPath ELSE CHOOSE p \in rollouts' : TRUE
  /\ scan' = "idle" /\ active' = {} /\ usable' = {}
  /\ UNCHANGED <<codexDisk, left, decoding, codexFinal, moved>>

ListRollouts ==
  \/ BeginRollouts \/ GlobAll \/ EndRollouts
  \/ \E p \in RolloutPaths : CheckFile(p) \/ BeginDecode(p) \/ EndDecode(p)

\* ListError, shown by /health
Warned == \E p \in RolloutPaths : verdicts[p].stat # 0 /\ ~verdicts[p].good

-----------------------------------------------------------------------------
(* Final of the fork *)

ForkStamp == copied + own

\* finalCache.load: an answer under the stamp is the answer.
AskFinal ==
  /\ ask = "idle" /\ copied # -1
  /\ fstamp' = ForkStamp
  /\ \A f \in finals : f.stamp # ForkStamp
  /\ ask' = "read"
  /\ UNCHANGED <<codexDisk, codexList, byID, turnIDs, finals, held, parent, pstamp, moved>>

\* readFinal: its own rows first
ReadFork ==
  /\ ask = "read"
  /\ held' = own /\ ask' = "parent"
  /\ UNCHANGED <<codexDisk, codexList, byID, turnIDs, finals, fstamp, parent, pstamp, moved>>

\* pathOf: where the parent was listed, or else the first file of its name, which
\* is remembered.
PathOf ==
  IF byID # NoPath THEN {byID}
  ELSE LET there == {p \in RolloutPaths : Whole(p) /\ (p.zst => form # "packed")}
       IN IF there = {} THEN {NoPath} ELSE there

\* parentTurns: the stamp of the parent's file, which may be gone.
StatParent ==
  /\ ask = "parent"
  /\ \E p \in PathOf :
       /\ parent' = p /\ byID' = p
       /\ IF OnDisk(p) THEN ask' = "turns" /\ pstamp' = Stat(p)
                                     ELSE ask' = "alone" /\ UNCHANGED pstamp
  /\ UNCHANGED <<codexDisk, codexList, turnIDs, finals, fstamp, held, moved>>

\* Of a torn file the rows that decode, and of one that went away none
TurnsRead(p) == IF Whole(p) THEN {turns} ELSE IF OnDisk(p) THEN 0..turns ELSE {0}

\* The fork's usage beside a parent of t turns: the turns that has are left out.
Usage(n, t) == n + copied - Min({t, copied})

\* mutant: the turns of a parent are read once
TurnsOnce(p) == IF turnIDs[p].stamp # 0 THEN {turnIDs[p].turns} ELSE TurnsRead(p)

\* The turns banked under the stamp, or read
ParentTurns(p) == IF turnIDs[p].stamp = pstamp THEN {turnIDs[p].turns} ELSE TurnsRead(p)

\* The answer is kept under the stamp; what the call held is gone.
Banked(u, of) ==
  /\ finals' = finals \cup {[stamp |-> fstamp, usage |-> u, parent |-> of]}
  /\ ask' = "idle" /\ fstamp' = 0 /\ held' = 0 /\ parent' = NoPath /\ pstamp' = 0

EndFinal ==
  /\ ask = "turns"
  /\ \E t \in ParentTurns(parent) :
       /\ turnIDs' = [turnIDs EXCEPT ![parent] = [stamp |-> pstamp, turns |-> t]]
       /\ Banked(Usage(held, t), IF Whole(parent) /\ Stat(parent) = pstamp
                                 THEN "whole" ELSE "written")
  /\ UNCHANGED <<codexDisk, codexList, byID, moved>>

\* Without the parent's file the fork is counted whole.
EndFinalAlone ==
  /\ ask = "alone"
  /\ Banked(Usage(held, 0), "missing")
  /\ UNCHANGED <<codexDisk, codexList, byID, turnIDs, moved>>

FinalOfFork == AskFinal \/ ReadFork \/ StatParent \/ EndFinal \/ EndFinalAlone

-----------------------------------------------------------------------------
CodexInit ==
  /\ root = "live" /\ form = "plain" /\ pack = 0 /\ turns = 1 /\ copied = -1 /\ own = 0
  /\ scan = "idle" /\ active = {} /\ left = {} /\ usable = {}
  /\ decoding = NoDecoding /\ moved = FALSE /\ rollouts = {}
  /\ verdicts = [p \in RolloutPaths |-> [stat |-> 0, good |-> FALSE]]
  /\ byID = NoPath
  /\ turnIDs = [p \in RolloutPaths |-> [stamp |-> 0, turns |-> 0]]
  /\ finals = {} /\ ask = "idle" /\ fstamp = 0 /\ held = 0 /\ parent = NoPath /\ pstamp = 0

CodexNext ==
  \/ ParentTurn \/ ForkAway \/ ForkTurn \/ Archive \/ Compress
  \/ ListRollouts \/ FinalOfFork

CodexSpec == CodexInit /\ [][CodexNext]_codexVars

-----------------------------------------------------------------------------
(* Properties *)

\* A rollout is listed once however far its compression is, and one that is not
\* listed is warned about, whatever its compressed file held at earlier lists:
\* over a list during which the file did not move (codexRolloutFiles,
\* validateCompressed, ListError).
RolloutListedOnce ==
  [][EndRollouts /\ ~moved =>
       Cardinality(rollouts') = 1 \/ (rollouts' = {} /\ form = "torn" /\ Warned)]_codexVars

\* A final result made beside a whole parent that was not written meanwhile counts
\* each of the fork's own turns once and no other, whatever versions of the parent
\* were read before, and is of the fork as it is while the fork has the stamp
\* (readFinal, parentTurns).
TurnsCountedOnce ==
  \A f \in finals :
    f.parent = "whole" => /\ f.usage \in (f.stamp - copied)..own
                          /\ f.stamp = ForkStamp => f.usage = own

\* What finalCache promises: "an answer that depends on a file that is not there
\* is not cached" (finalcache.go:31-32).  A fork's depends on its parent's.
MissingNotKept == \A f \in finals : f.parent # "missing"
=============================================================================
