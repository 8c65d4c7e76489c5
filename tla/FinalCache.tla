------------------------------ MODULE FinalCache ------------------------------
(***************************************************************************)
(* finalCache of internal/source/finalcache.go: final results kept under a  *)
(* stamp of the files each is built from, all dropped when there are too    *)
(* many.  It serves one session of two files, as a running Grok session     *)
(* has: a transcript, and the usage kept beside it once a turn has ended.   *)
(* Files only grow, so a file's size is its content, and its stamp; a size  *)
(* of 0 is a file that is not there.                                        *)
(***************************************************************************)
EXTENDS FiniteSetsExt, Integers

CONSTANTS
  Readers,    \* callers of Final
  MaxSize,    \* bound: writes to the files
  MaxFinals   \* maxCachedFinals, for all sessions

ASSUME FinalAssumption == MaxSize \in Nat /\ MaxFinals \in Nat \ {0}

FinalFiles == {"transcript", "usage"}

VARIABLES
  size,             \* of each file
  others,           \* how many entries are other sessions'
  kept,             \* this session's entries: a stamp and the final (mu)
  at, paths, key, final, \* each caller's place in load, the paths it stamps and its locals
  since, result     \* each file's size at the call in progress, and the last answer

loadFinal == <<at, paths, key, final, since, result>>
finalVars == <<size, others, kept, loadFinal>>

NoSize == [f \in FinalFiles |-> -1]

-----------------------------------------------------------------------------
(* The agent CLI, and other sessions *)

\* The usage follows what is in the transcript.
WriteFile(f) ==
  /\ size["transcript"] + size["usage"] < MaxSize
  /\ f = "usage" => size["transcript"] > size["usage"]
  /\ size' = [size EXCEPT ![f] = @ + 1]
  /\ UNCHANGED <<others, kept, loadFinal>>

\* The map is dropped when it is full, and begun again with one entry.
Full == others + Cardinality(kept) >= MaxFinals

OtherBanks ==
  /\ IF Full THEN others' = 1 /\ kept' = {} ELSE others' = others + 1 /\ UNCHANGED kept
  /\ UNCHANGED <<size, loadFinal>>

-----------------------------------------------------------------------------
(* Final and load *)

\* The usage is a part of the stamp only where it is there (GrokSource.Final).
CallFinal(c) ==
  /\ at[c] = "idle"
  /\ since' = [since EXCEPT ![c] = size]
  /\ paths' = [paths EXCEPT ![c] = {f \in FinalFiles : f = "usage" => size[f] > 0}]
  /\ at' = [at EXCEPT ![c] = "statTranscript"]
  /\ UNCHANGED <<size, others, kept, key, final, result>>

Matches(e, s) == e.stamp = s

Answer(c, v) ==
  /\ result' = [result EXCEPT ![c] = v]
  /\ at' = [at EXCEPT ![c] = "idle"]
  /\ paths' = [paths EXCEPT ![c] = {}] /\ key' = [key EXCEPT ![c] = NoSize]
  /\ final' = [final EXCEPT ![c] = NoSize] /\ since' = [since EXCEPT ![c] = NoSize]

\* finalStamp, one path after the other; without one of them there is no stamp.
StatFile(c, f, place, next) ==
  /\ at[c] = place
  /\ IF f \in paths[c] THEN key' = [key EXCEPT ![c][f] = size[f]] ELSE UNCHANGED key
  /\ at' = [at EXCEPT ![c] = IF f \in paths[c] /\ size[f] = 0 THEN "readUnstamped" ELSE next]
  /\ UNCHANGED <<size, others, kept, paths, final, since, result>>

Hits(c) == {e \in kept : Matches(e, key[c])}

HitFinal(c) ==
  /\ at[c] = "look"
  /\ \E e \in Hits(c) : Answer(c, e.final)
  /\ UNCHANGED <<size, others, kept>>

Miss(c) ==
  /\ at[c] = "look" /\ Hits(c) = {}
  /\ at' = [at EXCEPT ![c] = "read"]
  /\ UNCHANGED <<size, others, kept, paths, key, final, since, result>>

\* readFinal reads the transcript and then the usage, stamped or not.
ReadFile(c, f) ==
  /\ at[c] \in {"read", "readUnstamped"} /\ final[c][f] = -1
  /\ f = "usage" => final[c]["transcript"] # -1
  /\ final' = [final EXCEPT ![c][f] = size[f]]
  /\ UNCHANGED <<size, others, kept, at, paths, key, since, result>>

Read(c) == \A f \in FinalFiles : final[c][f] # -1

ReturnUnstamped(c) ==
  /\ at[c] = "readUnstamped" /\ Read(c)
  /\ Answer(c, final[c])
  /\ UNCHANGED <<size, others, kept>>

\* mutant: the final is kept under the stamp the files have after the read
KeepLate(c) ==
  /\ at[c] = "read" /\ Read(c)
  /\ kept' = (IF Full THEN {} ELSE kept)
               \cup {[stamp |-> [f \in FinalFiles |-> IF f \in paths[c] THEN size[f] ELSE -1],
                      final |-> final[c]]}
  /\ others' = IF Full THEN 0 ELSE others
  /\ Answer(c, final[c])
  /\ UNCHANGED size

\* The answer is kept under the stamp taken before the read.
Keep(c) ==
  /\ at[c] = "read" /\ Read(c)
  /\ kept' = {e \in kept : ~Full /\ e.stamp # key[c]} \cup {[stamp |-> key[c], final |-> final[c]]}
  /\ others' = IF Full THEN 0 ELSE others
  /\ Answer(c, final[c])
  /\ UNCHANGED size

LoadFinal(c) ==
  \/ CallFinal(c)
  \/ StatFile(c, "transcript", "statTranscript", "statUsage")
  \/ StatFile(c, "usage", "statUsage", "look")
  \/ HitFinal(c) \/ Miss(c) \/ \E f \in FinalFiles : ReadFile(c, f)
  \/ ReturnUnstamped(c) \/ Keep(c)

-----------------------------------------------------------------------------
FinalInit ==
  /\ size = [f \in FinalFiles |-> 0] /\ others = 0 /\ kept = {}
  /\ at = [c \in Readers |-> "idle"] /\ paths = [c \in Readers |-> {}]
  /\ key = [c \in Readers |-> NoSize] /\ final = [c \in Readers |-> NoSize]
  /\ since = [c \in Readers |-> NoSize] /\ result = [c \in Readers |-> NoSize]

FinalNext ==
  \/ \E f \in FinalFiles : WriteFile(f)
  \/ OtherBanks
  \/ \E c \in Readers : LoadFinal(c)

FinalSpec == FinalInit /\ [][FinalNext]_finalVars

-----------------------------------------------------------------------------
(* Properties *)

PartOf(answers, f) == [c \in Readers |-> answers[c][f]]

FreshTranscript == INSTANCE FreshRead WITH
  Callers <- Readers, MaxVersion <- MaxSize, Slack <- 0, version <- size["transcript"],
  asked <- PartOf(since, "transcript"), got <- PartOf(result, "transcript")

FreshUsage == INSTANCE FreshRead WITH
  Callers <- Readers, MaxVersion <- MaxSize, Slack <- 0, version <- size["usage"],
  asked <- PartOf(since, "usage"), got <- PartOf(result, "usage")

\* finalCache implements FreshRead for each file a final is built from: what the
\* final has of the transcript, and what it has of the usage, is that file's
\* content at an instant of the call, whatever the session's or other sessions'
\* finals put into the map or threw out of it, and also while the second file is
\* not there yet.  (The two may be of two instants.)
FinalsServeCurrent == FreshTranscript!Spec /\ FreshUsage!Spec
=============================================================================
