----------------------------- MODULE StorageProofs -----------------------------
(***************************************************************************)
(* What is remembered of what the agents store: the cache of final results, *)
(* that of a database's answers, the memories of the Codex source, a page of *)
(* a Hermes session, and the copies among Claude's transcripts.             *)
(***************************************************************************)
EXTENDS FinalCache, SnapshotCache, CodexStore, HermesStore, ClaudeStore, FiniteSetTheorems,
        WellFoundedInduction, TLAPS

-----------------------------------------------------------------------------
(***************************************************************************)
(* finalCache implements FreshRead for any number of callers, and of other *)
(* sessions whose results fill the map.                                    *)
(* The stamp comes before the read and files only grow, so what is kept of *)
(* a file is at least its stamp; and a caller's stamp is at least the size *)
(* at its call, so an equal stamp is enough.  A file that is left out of a *)
(* stamp was empty at the call.                                            *)
(***************************************************************************)

Sizes == [FinalFiles -> Int]
Places == {"idle", "statTranscript", "statUsage", "look", "read", "readUnstamped"}

FinalTypes ==
  /\ size \in [FinalFiles -> Nat]
  /\ at \in [Readers -> Places] /\ paths \in [Readers -> SUBSET FinalFiles]
  /\ key \in [Readers -> Sizes] /\ final \in [Readers -> Sizes]
  /\ since \in [Readers -> Sizes] /\ result \in [Readers -> Sizes]

\* What is kept under a stamp is of a file no older than the stamp.
EntryOK(e) ==
  /\ e.stamp \in Sizes /\ e.final \in Sizes
  /\ \A f \in FinalFiles : 0 <= e.final[f] /\ e.stamp[f] <= e.final[f] /\ e.final[f] <= size[f]

Statted(c, f) == at[c] \notin {"idle", "statTranscript"} /\ (f = "usage" => at[c] # "statUsage")

\* Of file f, what the places in load mean for the locals of caller c
ReaderOK(c, f) ==
  /\ at[c] = "idle" => since[c][f] = -1 /\ key[c][f] = -1 /\ final[c][f] = -1
  /\ at[c] # "idle" => 0 <= since[c][f] /\ since[c][f] <= size[f]
  /\ at[c] # "idle" /\ f \notin paths[c] => since[c][f] = 0
  /\ key[c][f] <= size[f]
  /\ at[c] \in {"look", "read"} /\ f \in paths[c] => since[c][f] <= key[c][f]
  /\ at[c] = "statUsage" /\ f = "transcript" /\ f \in paths[c] => since[c][f] <= key[c][f]
  /\ f \notin paths[c] => key[c][f] = -1
  /\ at[c] \notin {"read", "readUnstamped"} => final[c][f] = -1
  /\ final[c][f] # -1 => /\ since[c][f] <= final[c][f] /\ key[c][f] <= final[c][f]
                         /\ 0 <= final[c][f] /\ final[c][f] <= size[f]

FinalInv ==
  /\ FinalTypes
  /\ \A e \in kept : EntryOK(e)
  /\ \A c \in Readers, f \in FinalFiles : ReaderOK(c, f)

LEMMA InitFinal == FinalInit => FinalInv
<1> SUFFICES ASSUME FinalInit PROVE FinalInv
  OBVIOUS
<1>1. NoSize \in Sizes /\ \A f \in FinalFiles : NoSize[f] = -1
  BY DEF NoSize, Sizes
<1>2. FinalTypes
  BY <1>1 DEF FinalInit, FinalTypes, Places
<1> QED  BY <1>1, <1>2 DEF FinalInit, FinalInv, ReaderOK

\* A file grows, or the map is dropped: nothing that was true of a size is untrue.
LEMMA WriteFinal ==
  ASSUME FinalInv, NEW g \in FinalFiles, WriteFile(g)
  PROVE  FinalInv'
<1>1. /\ size' \in [FinalFiles -> Nat] /\ \A f \in FinalFiles : size[f] <= size'[f] /\ size[f] \in Nat
      /\ kept' = kept /\ UNCHANGED loadFinal
  BY DEF WriteFile, FinalInv, FinalTypes
<1>2. FinalTypes'
  BY <1>1 DEF FinalInv, FinalTypes, loadFinal
<1>3. ASSUME NEW e \in kept' PROVE EntryOK(e)'
  <2>1. EntryOK(e)
    BY <1>1, <1>3 DEF FinalInv
  <2> QED  BY <1>1, <2>1 DEF EntryOK, Sizes
<1>4. ASSUME NEW c \in Readers, NEW f \in FinalFiles PROVE ReaderOK(c, f)'
  <2>1. ReaderOK(c, f) /\ size[f] <= size'[f] /\ size[f] \in Nat /\ size'[f] \in Nat
    BY <1>1 DEF FinalInv
  <2>2. since[c][f] \in Int /\ key[c][f] \in Int /\ final[c][f] \in Int
    BY DEF FinalInv, FinalTypes, Sizes
  <2>3. UNCHANGED <<at, paths, key, final, since>>
    BY <1>1 DEF loadFinal
  <2> QED  BY <2>1, <2>2, <2>3 DEF ReaderOK
<1> QED  BY <1>2, <1>3, <1>4 DEF FinalInv

\* A step of caller c that leaves the files alone, and keeps only sound entries.
LEMMA ReaderStep ==
  ASSUME FinalInv, NEW c \in Readers, FinalTypes', size' = size,
         \A d \in Readers \ {c} : /\ at'[d] = at[d] /\ paths'[d] = paths[d] /\ key'[d] = key[d]
                                  /\ final'[d] = final[d] /\ since'[d] = since[d],
         \A f \in FinalFiles : ReaderOK(c, f)',
         \A e \in kept' : EntryOK(e)
  PROVE  FinalInv'
<1>1. ASSUME NEW d \in Readers, NEW f \in FinalFiles PROVE ReaderOK(d, f)'
  BY <1>1 DEF FinalInv, ReaderOK
<1> QED  BY <1>1 DEF FinalInv, EntryOK

\* A call that ends leaves no locals behind.
LEMMA AnswerStep ==
  ASSUME FinalInv, NEW c \in Readers, NEW v \in Sizes, at[c] # "idle", Answer(c, v), size' = size,
         \A e \in kept' : EntryOK(e)
  PROVE  FinalInv'
<1>1. NoSize \in Sizes /\ \A f \in FinalFiles : NoSize[f] = -1
  BY DEF NoSize, Sizes
<1>2. FinalTypes'
  BY <1>1 DEF FinalInv, FinalTypes, Answer, Places
<1>3. /\ at'[c] = "idle" /\ paths'[c] = {} /\ key'[c] = NoSize /\ final'[c] = NoSize /\ since'[c] = NoSize
  BY DEF FinalInv, FinalTypes, Answer
<1>4. \A f \in FinalFiles : ReaderOK(c, f)'
  BY <1>1, <1>2, <1>3 DEF ReaderOK, FinalTypes
<1>5. \A d \in Readers \ {c} : /\ at'[d] = at[d] /\ paths'[d] = paths[d] /\ key'[d] = key[d]
                               /\ final'[d] = final[d] /\ since'[d] = since[d]
  BY DEF FinalInv, FinalTypes, Answer
<1> QED  BY <1>2, <1>4, <1>5, ReaderStep

\* What a caller may answer with, of each file: nothing older than its call.
LEMMA HitIsRecent ==
  ASSUME FinalInv, NEW c \in Readers, at[c] = "look", NEW e \in Hits(c), NEW f \in FinalFiles
  PROVE  e.final \in Sizes /\ 0 <= e.final[f] /\ since[c][f] <= e.final[f] /\ e.final[f] <= size[f]
<1>1. EntryOK(e) /\ e.stamp = key[c] /\ ReaderOK(c, f)
  BY DEF FinalInv, Hits, Matches
<1>2. since[c][f] \in Int /\ key[c][f] \in Int /\ e.final[f] \in Int
  BY <1>1 DEF FinalInv, FinalTypes, EntryOK, Sizes
<1>3. CASE f \in paths[c]
  BY <1>1, <1>2, <1>3 DEF EntryOK, ReaderOK
<1>4. CASE f \notin paths[c]
  BY <1>1, <1>2, <1>4 DEF EntryOK, ReaderOK
<1> QED  BY <1>3, <1>4

LEMMA ReadIsRecent ==
  ASSUME FinalInv, NEW c \in Readers, Read(c), NEW f \in FinalFiles
  PROVE  /\ final[c] \in Sizes /\ key[c] \in Sizes /\ 0 <= final[c][f] /\ since[c][f] <= final[c][f]
         /\ key[c][f] <= final[c][f] /\ final[c][f] <= size[f]
  BY DEF FinalInv, FinalTypes, ReaderOK, Read

LEMMA FinalLoadStep ==
  ASSUME FinalInv, NEW c \in Readers, LoadFinal(c)
  PROVE  FinalInv'
<1>0. FinalTypes /\ \A f \in FinalFiles : ReaderOK(c, f)
  BY DEF FinalInv
<1>1. CASE CallFinal(c)
  <2>1. FinalTypes'
    BY <1>0, <1>1 DEF CallFinal, FinalTypes, Sizes, Places
  <2>2. /\ at'[c] = "statTranscript" /\ since'[c] = size /\ size' = size /\ key' = key /\ final' = final
        /\ \A f \in FinalFiles : f \notin paths'[c] => size[f] = 0
    BY <1>0, <1>1 DEF CallFinal, FinalTypes
  <2>3. ASSUME NEW f \in FinalFiles PROVE ReaderOK(c, f)'
    <3>1. size[f] \in Nat /\ key[c][f] = -1 /\ final[c][f] = -1
      BY <1>0, <1>1 DEF CallFinal, ReaderOK, FinalTypes
    <3> QED  BY <2>2, <3>1 DEF ReaderOK
  <2>4. \A d \in Readers \ {c} : /\ at'[d] = at[d] /\ paths'[d] = paths[d] /\ key'[d] = key[d]
                                 /\ final'[d] = final[d] /\ since'[d] = since[d]
    BY <1>0, <1>1 DEF CallFinal, FinalTypes
  <2>5. \A e \in kept' : EntryOK(e)
    BY <1>1 DEF CallFinal, FinalInv
  <2> QED  BY <2>1, <2>2, <2>3, <2>4, <2>5, ReaderStep
<1>2. ASSUME NEW g \in FinalFiles, NEW next \in Places,
             \/ g = "transcript" /\ next = "statUsage" /\ StatFile(c, g, "statTranscript", next)
             \/ g = "usage" /\ next = "look" /\ StatFile(c, g, "statUsage", next)
      PROVE  FinalInv'
  <2>0. /\ at' = [at EXCEPT ![c] = IF g \in paths[c] /\ size[g] = 0 THEN "readUnstamped" ELSE next]
        /\ key' = IF g \in paths[c] THEN [key EXCEPT ![c][g] = size[g]] ELSE key
        /\ UNCHANGED <<size, kept, paths, final, since, result>>
    BY <1>2 DEF StatFile
  <2>6. key' \in [Readers -> Sizes]
    BY <1>0, <2>0 DEF FinalTypes, Sizes
  <2>7. at' \in [Readers -> Places]
    BY <1>0, <2>0 DEF FinalTypes, Places
  <2>1. FinalTypes' /\ size' = size /\ kept' = kept /\ UNCHANGED <<paths, final, since>>
    BY <1>0, <2>0, <2>6, <2>7 DEF FinalTypes
  <2>2. /\ key'[c][g] = IF g \in paths[c] THEN size[g] ELSE key[c][g]
        /\ \A f \in FinalFiles \ {g} : key'[c][f] = key[c][f]
        /\ at'[c] = IF g \in paths[c] /\ size[g] = 0 THEN "readUnstamped" ELSE next
    BY <1>0, <1>2 DEF StatFile, FinalTypes, Sizes
  <2>3. \A d \in Readers \ {c} : /\ at'[d] = at[d] /\ paths'[d] = paths[d] /\ key'[d] = key[d]
                                 /\ final'[d] = final[d] /\ since'[d] = since[d]
    BY <1>0, <1>2 DEF StatFile, FinalTypes
  <2>4. ASSUME NEW f \in FinalFiles PROVE ReaderOK(c, f)'
    <3>1. /\ size[f] \in Nat /\ since[c][f] \in Int /\ key[c][f] \in Int /\ final[c][f] = -1
          /\ size[g] \in Nat /\ at[c] \in {"statTranscript", "statUsage"}
      BY <1>0, <1>2 DEF StatFile, ReaderOK, FinalTypes, Sizes
    <3>2. CASE f = g
      BY <1>0, <1>2, <2>1, <2>2, <3>1, <3>2 DEF ReaderOK, StatFile
    <3>3. CASE f # g
      BY <1>0, <1>2, <2>1, <2>2, <3>1, <3>3 DEF ReaderOK, StatFile, FinalFiles
    <3> QED  BY <3>2, <3>3
  <2>5. \A e \in kept' : EntryOK(e)
    BY <2>1 DEF FinalInv
  <2> QED  BY <2>1, <2>3, <2>4, <2>5, ReaderStep
<1>3. CASE HitFinal(c)
  <2>1. PICK e \in Hits(c) : Answer(c, e.final)
    BY <1>3 DEF HitFinal
  <2>2. at[c] = "look" /\ size' = size /\ \A x \in kept' : EntryOK(x)
    BY <1>3 DEF HitFinal, FinalInv
  <2>3. e.final \in Sizes
    BY <2>1 DEF FinalInv, Hits, EntryOK
  <2> QED  BY <2>1, <2>2, <2>3, AnswerStep
<1>4. CASE Miss(c)
  <2>1. FinalTypes' /\ size' = size /\ kept' = kept /\ UNCHANGED <<paths, key, final, since>> /\ at'[c] = "read"
        /\ at[c] = "look" /\ \A d \in Readers \ {c} : at'[d] = at[d]
    BY <1>0, <1>4 DEF Miss, FinalTypes, Places
  <2>2. \A f \in FinalFiles : ReaderOK(c, f)'
    BY <1>0, <2>1 DEF ReaderOK
  <2>3. \A e \in kept' : EntryOK(e)
    BY <2>1 DEF FinalInv
  <2> QED  BY <2>1, <2>2, <2>3, ReaderStep
<1>5. ASSUME NEW g \in FinalFiles, ReadFile(c, g) PROVE FinalInv'
  <2>1. FinalTypes' /\ size' = size /\ kept' = kept /\ UNCHANGED <<at, paths, key, since>>
    BY <1>0, <1>5 DEF ReadFile, FinalTypes, Sizes
  <2>2. /\ final'[c][g] = size[g] /\ \A f \in FinalFiles \ {g} : final'[c][f] = final[c][f]
        /\ \A d \in Readers \ {c} : final'[d] = final[d]
        /\ at[c] \in {"read", "readUnstamped"}
    BY <1>0, <1>5 DEF ReadFile, FinalTypes, Sizes
  <2>3. ASSUME NEW f \in FinalFiles PROVE ReaderOK(c, f)'
    <3>1. size[f] \in Nat /\ since[c][f] \in Int /\ key[c][f] \in Int /\ final[c][f] \in Int
      BY <1>0 DEF FinalTypes, Sizes
    <3>2. CASE f = g
      BY <1>0, <2>1, <2>2, <3>1, <3>2 DEF ReaderOK
    <3>3. CASE f # g
      BY <1>0, <2>1, <2>2, <3>1, <3>3 DEF ReaderOK
    <3> QED  BY <3>2, <3>3
  <2>4. \A e \in kept' : EntryOK(e)
    BY <2>1 DEF FinalInv
  <2> QED  BY <2>1, <2>2, <2>3, <2>4, ReaderStep
<1>6. CASE ReturnUnstamped(c)
  <2>1. Answer(c, final[c]) /\ size' = size /\ final[c] \in Sizes /\ at[c] # "idle"
    BY <1>0, <1>6 DEF ReturnUnstamped, FinalTypes
  <2>2. \A e \in kept' : EntryOK(e)
    BY <1>6 DEF ReturnUnstamped, FinalInv
  <2> QED  BY <2>1, <2>2, AnswerStep
<1>7. CASE Keep(c)
  <2>1. Answer(c, final[c]) /\ size' = size /\ final[c] \in Sizes /\ at[c] # "idle" /\ Read(c)
    BY <1>0, <1>7 DEF Keep, FinalTypes
  <2>2. \A e \in kept' : e \in kept \/ e = [stamp |-> key[c], final |-> final[c]]
    BY <1>7 DEF Keep
  <2>3. EntryOK([stamp |-> key[c], final |-> final[c]])
    BY <2>1, ReadIsRecent DEF EntryOK, FinalFiles
  <2>4. \A e \in kept' : EntryOK(e)
    BY <2>2, <2>3 DEF FinalInv
  <2> QED  BY <2>1, <2>4, AnswerStep
<1> QED  BY <1>1, <1>2, <1>3, <1>4, <1>5, <1>6, <1>7 DEF LoadFinal, FinalFiles, Places

LEMMA FinalStep ==
  ASSUME FinalInv, [FinalNext]_finalVars
  PROVE  FinalInv'
<1>1. CASE UNCHANGED finalVars
  BY <1>1 DEF finalVars, loadFinal, FinalInv, FinalTypes, EntryOK, ReaderOK
<1>2. ASSUME NEW f \in FinalFiles, WriteFile(f) PROVE FinalInv'
  BY <1>2, WriteFinal
<1>3. CASE OtherBanks
  <2>1. kept' \subseteq kept /\ size' = size /\ UNCHANGED loadFinal
    BY <1>3 DEF OtherBanks
  <2> QED  BY <2>1 DEF loadFinal, FinalInv, FinalTypes, EntryOK, ReaderOK
<1>4. ASSUME NEW c \in Readers, LoadFinal(c) PROVE FinalInv'
  BY <1>4, FinalLoadStep
<1> QED  BY <1>1, <1>2, <1>3, <1>4 DEF FinalNext

\* The finals that are kept, and every caller's locals, are no older than they claim.
THEOREM FinalInvariance == FinalSpec => []FinalInv
<1>1. FinalInv /\ [FinalNext]_finalVars => FinalInv'
  BY FinalStep
<1> QED  BY InitFinal, <1>1, PTL DEF FinalSpec

-----------------------------------------------------------------------------
(* The refinement, of either file *)

Since(f) == PartOf(since, f)
Got(f) == PartOf(result, f)

Grows(f) == size[f] < MaxSize /\ size'[f] = size[f] + 1 /\ Since(f)' = Since(f) /\ Got(f)' = Got(f)
Asks(c, f) ==
  /\ Since(f)[c] = -1 /\ Since(f)' = [Since(f) EXCEPT ![c] = size[f]]
  /\ Got(f)' = Got(f) /\ size'[f] = size[f]
Gets(c, f, v) ==
  /\ Since(f)[c] # -1 /\ v \in 0..size[f] /\ Since(f)[c] <= v
  /\ Got(f)' = [Got(f) EXCEPT ![c] = v] /\ Since(f)' = [Since(f) EXCEPT ![c] = -1]
  /\ size'[f] = size[f]
Rests(f) == Since(f)' = Since(f) /\ Got(f)' = Got(f) /\ size'[f] = size[f]

LEMMA GetsFinal ==
  ASSUME FinalInv, NEW c \in Readers, NEW f \in FinalFiles, NEW v \in Sizes, at[c] # "idle", Answer(c, v),
         size' = size, 0 <= v[f], since[c][f] <= v[f], v[f] <= size[f]
  PROVE  Gets(c, f, v[f])
<1>1. since[c][f] \in Int /\ since[c][f] # -1 /\ size[f] \in Nat /\ v[f] \in Int
  BY DEF FinalInv, FinalTypes, ReaderOK, Sizes
<1>2. v[f] \in 0..size[f]
  BY <1>1
<1>3. /\ result' = [result EXCEPT ![c] = v] /\ since' = [since EXCEPT ![c] = NoSize]
      /\ result \in [Readers -> Sizes] /\ since \in [Readers -> Sizes] /\ NoSize[f] = -1
  BY DEF Answer, FinalInv, FinalTypes, NoSize
<1>4. Got(f)' = [Got(f) EXCEPT ![c] = v[f]]
  BY <1>3 DEF Got, PartOf
<1>5. Since(f)' = [Since(f) EXCEPT ![c] = -1]
  BY <1>3 DEF Since, PartOf
<1> QED  BY <1>1, <1>2, <1>4, <1>5 DEF Gets, Since, PartOf

LEMMA LoadGets ==
  ASSUME FinalInv, NEW c \in Readers, LoadFinal(c), NEW f \in FinalFiles
  PROVE  Asks(c, f) \/ Rests(f) \/ \E v \in Nat : Gets(c, f, v)
<1>0. FinalTypes /\ ReaderOK(c, f)
  BY DEF FinalInv
<1>1. CASE CallFinal(c)
  <2>1. /\ since' = [since EXCEPT ![c] = size] /\ result' = result /\ size' = size /\ since[c][f] = -1
    BY <1>0, <1>1 DEF CallFinal, ReaderOK
  <2>2. Since(f)' = [Since(f) EXCEPT ![c] = size[f]]
    BY <1>0, <2>1 DEF Since, PartOf, FinalTypes
  <2> QED  BY <2>1, <2>2 DEF Asks, Since, Got, PartOf
<1>2. ASSUME UNCHANGED <<size, since, result>> PROVE Rests(f)
  BY <1>2 DEF Rests, Since, Got, PartOf
<1>3. ASSUME NEW g \in FinalFiles, NEW place, NEW next, StatFile(c, g, place, next) PROVE Rests(f)
  BY <1>2, <1>3 DEF StatFile
<1>4. CASE HitFinal(c)
  <2>1. PICK e \in Hits(c) : Answer(c, e.final)
    BY <1>4 DEF HitFinal
  <2>2. at[c] = "look" /\ size' = size
    BY <1>4 DEF HitFinal
  <2>3. /\ e.final \in Sizes /\ 0 <= e.final[f] /\ since[c][f] <= e.final[f] /\ e.final[f] <= size[f]
    BY <2>2, HitIsRecent
  <2>4. Gets(c, f, e.final[f]) /\ e.final[f] \in Nat
    BY <2>1, <2>2, <2>3, GetsFinal DEF Sizes
  <2> QED  BY <2>4
<1>5. CASE Miss(c)
  BY <1>2, <1>5 DEF Miss
<1>6. ASSUME NEW g \in FinalFiles, ReadFile(c, g) PROVE Rests(f)
  BY <1>2, <1>6 DEF ReadFile
<1>7. CASE ReturnUnstamped(c) \/ Keep(c)
  <2>1. Answer(c, final[c]) /\ size' = size /\ at[c] # "idle" /\ Read(c)
    BY <1>7 DEF ReturnUnstamped, Keep
  <2>2. /\ final[c] \in Sizes /\ 0 <= final[c][f] /\ since[c][f] <= final[c][f] /\ final[c][f] <= size[f]
    BY <2>1, ReadIsRecent
  <2>3. Gets(c, f, final[c][f]) /\ final[c][f] \in Nat
    BY <2>1, <2>2, GetsFinal DEF Sizes
  <2> QED  BY <2>3
<1> QED  BY <1>1, <1>3, <1>4, <1>5, <1>6, <1>7 DEF LoadFinal, FinalFiles

\* What a step of the cache or of the CLI is for one file
LEMMA FileStep ==
  ASSUME FinalInv, [FinalNext]_finalVars, NEW f \in FinalFiles
  PROVE  Grows(f) \/ Rests(f) \/ \E c \in Readers : Asks(c, f) \/ \E v \in Nat : Gets(c, f, v)
<1>1. CASE UNCHANGED finalVars
  BY <1>1 DEF finalVars, loadFinal, Rests, Since, Got, PartOf
<1>2. ASSUME NEW g \in FinalFiles, WriteFile(g) PROVE Grows(f) \/ Rests(f)
  <2>1. size[f] < MaxSize /\ size \in [FinalFiles -> Nat] /\ MaxSize \in Nat
    BY <1>2, FinalAssumption DEF WriteFile, FinalInv, FinalTypes, FinalFiles
  <2>2. size' = [size EXCEPT ![g] = size[g] + 1] /\ since' = since /\ result' = result
    BY <1>2 DEF WriteFile, loadFinal
  <2> QED  BY <2>1, <2>2 DEF Grows, Rests, Since, Got, PartOf
<1>3. CASE OtherBanks
  BY <1>3 DEF OtherBanks, loadFinal, Rests, Since, Got, PartOf
<1>4. ASSUME NEW c \in Readers, LoadFinal(c)
      PROVE  Asks(c, f) \/ Rests(f) \/ \E v \in Nat : Gets(c, f, v)
  BY <1>4, LoadGets
<1> QED  BY <1>1, <1>2, <1>3, <1>4 DEF FinalNext

LEMMA TranscriptStep ==
  ASSUME FinalInv, [FinalNext]_finalVars
  PROVE  [FreshTranscript!Next]_(FreshTranscript!vars)
<1> DEFINE f == "transcript"
<1> USE DEF FreshTranscript!Next, FreshTranscript!vars, FreshTranscript!None, FreshTranscript!Failed
<1>1. \A c \in Readers : Since(f)[c] \in Int /\ size[f] \in Nat /\ f \in FinalFiles
  BY DEF FinalInv, FinalTypes, Since, PartOf, Sizes, FinalFiles
<1>2. CASE Grows(f)
  BY <1>2 DEF Grows, Since, Got, FreshTranscript!Change
<1>3. CASE Rests(f)
  BY <1>3 DEF Rests, Since, Got
<1>4. ASSUME NEW c \in Readers, Asks(c, f) PROVE FreshTranscript!Ask(c)
  BY <1>4 DEF Asks, Since, Got, FreshTranscript!Ask
<1>5. ASSUME NEW c \in Readers, NEW v \in Nat, Gets(c, f, v) PROVE FreshTranscript!Answer(c)
  <2>1. v \in {u \in 0..size[f] : Since(f)[c] <= u + 0}
    BY <1>1, <1>5 DEF Gets
  <2> QED  BY <1>5, <2>1 DEF Gets, Since, Got, FreshTranscript!Answer
<1> QED  BY <1>1, <1>2, <1>3, <1>4, <1>5, FileStep DEF FinalFiles

LEMMA UsageStep ==
  ASSUME FinalInv, [FinalNext]_finalVars
  PROVE  [FreshUsage!Next]_(FreshUsage!vars)
<1> DEFINE f == "usage"
<1> USE DEF FreshUsage!Next, FreshUsage!vars, FreshUsage!None, FreshUsage!Failed
<1>1. \A c \in Readers : Since(f)[c] \in Int /\ size[f] \in Nat /\ f \in FinalFiles
  BY DEF FinalInv, FinalTypes, Since, PartOf, Sizes, FinalFiles
<1>2. CASE Grows(f)
  BY <1>2 DEF Grows, Since, Got, FreshUsage!Change
<1>3. CASE Rests(f)
  BY <1>3 DEF Rests, Since, Got
<1>4. ASSUME NEW c \in Readers, Asks(c, f) PROVE FreshUsage!Ask(c)
  BY <1>4 DEF Asks, Since, Got, FreshUsage!Ask
<1>5. ASSUME NEW c \in Readers, NEW v \in Nat, Gets(c, f, v) PROVE FreshUsage!Answer(c)
  <2>1. v \in {u \in 0..size[f] : Since(f)[c] <= u + 0}
    BY <1>1, <1>5 DEF Gets
  <2> QED  BY <1>5, <2>1 DEF Gets, Since, Got, FreshUsage!Answer
<1> QED  BY <1>1, <1>2, <1>3, <1>4, <1>5, FileStep DEF FinalFiles

\* load of finalcache.go implements FreshRead for each file that a final is built
\* from: no final is older, in either file, than the call it answers, whatever
\* was kept, dropped, or written in between, for any number of callers.
THEOREM FinalsAreFresh == FinalSpec => FinalsServeCurrent
<1>1. FinalInit => FreshTranscript!Init /\ FreshUsage!Init
  BY DEF FinalInit, PartOf, NoSize, FinalFiles, FreshTranscript!Init, FreshTranscript!None,
         FreshUsage!Init, FreshUsage!None
<1>2. FinalInv /\ [FinalNext]_finalVars => [FreshTranscript!Next]_(FreshTranscript!vars)
  BY TranscriptStep
<1>3. FinalInv /\ [FinalNext]_finalVars => [FreshUsage!Next]_(FreshUsage!vars)
  BY UsageStep
<1> QED  BY <1>1, <1>2, <1>3, FinalInvariance, PTL
         DEF FinalSpec, FinalsServeCurrent, FreshTranscript!Spec, FreshUsage!Spec

-----------------------------------------------------------------------------
(***************************************************************************)
(* dbSnapshotCache implements FreshRead for any number of callers and of   *)
(* stamped files, whichever of them hold commits that show late.           *)
(* The stamp is not taken at one instant, so the invariant speaks of every *)
(* answer that is or may be banked and of every caller that is half way    *)
(* through its stats: if the files it has statted and those it has not yet *)
(* statted all carry the answer's stamp, the answer is new enough for it.  *)
(***************************************************************************)

\* A caller that is still to compare its stamp could match stamp s.
MayMatch(c, s) ==
  /\ pc[c] \in {"stamp", "look"}
  /\ \A i \in Files : IF i <= statted[c] THEN stamp[c][i] = s[i] ELSE mod[i] = s[i]

\* The version of what is written, whether readers see it or not.
Written == IF hidden = TRUE THEN version + 1 ELSE version

\* The answers v read after the files carried stamp s.
Sound ==
  {e \in [Files -> Nat] \X Nat :
     /\ \A i \in Files : e[1][i] <= mod[i]
     /\ e[2] <= version
     /\ e[1] = mod => Written <= e[2] + Slack
     /\ \A c \in Callers : MayMatch(c, e[1]) => asked[c] <= e[2] + Slack}

CallerOK(c) ==
  /\ pc[c] = "idle" => asked[c] = None /\ statted[c] = 0
  /\ pc[c] # "idle" => asked[c] \in Nat /\ asked[c] <= version
  /\ pc[c] = "stamp" => statted[c] < Parts
  /\ pc[c] \in {"look", "read", "bank"} => statted[c] = Parts
  /\ \A i \in Files : i <= statted[c] => stamp[c][i] \in Nat /\ stamp[c][i] <= mod[i]
  /\ pc[c] \in {"read", "bank"} => <<stamp[c], value[c]>> \in Sound /\ asked[c] <= value[c]

SnapshotInv ==
  /\ TypeOK /\ (LateFiles = {} => hidden = FALSE) /\ (hidden = TRUE => version < MaxVersion)
  /\ \A c \in Callers : CallerOK(c)
  /\ entry.value # None => <<entry.stamp, entry.value>> \in Sound

\* Readers see all that is written, or all but one commit that shows late.
LEMMA WrittenBounds ==
  ASSUME SnapshotInv
  PROVE  /\ Slack \in Nat /\ version \in Nat /\ Written \in Nat
         /\ version <= Written /\ Written <= version + Slack
  BY DEF SnapshotInv, TypeOK, Written, Slack

LEMMA InitSnapshot == Init => SnapshotInv
<1> SUFFICES ASSUME Init PROVE SnapshotInv
  OBVIOUS
<1>1. Unstamped \in Stamps /\ Files \subseteq Nat \ {0} /\ 0 \in 0..Parts
  BY SnapshotAssumption DEF Unstamped, Stamps, Files
<1>2. TypeOK
  <2>1. mod \in [Files -> Nat]
    BY DEF Init
  <2>2. entry \in [stamp : Stamps, value : Nat \cup {None}]
    BY <1>1 DEF Init
  <2>3. stamp \in [Callers -> Stamps] /\ statted \in [Callers -> 0..Parts]
    BY <1>1 DEF Init
  <2> QED  BY <2>1, <2>2, <2>3 DEF Init, TypeOK
<1>3. ASSUME NEW c \in Callers  PROVE CallerOK(c)
  <2>1. pc[c] = "idle" /\ asked[c] = None /\ statted[c] = 0
    BY DEF Init
  <2>2. ASSUME NEW i \in Files PROVE ~(i <= statted[c])
    <3>1. i \in Nat /\ i # 0
      BY <1>1
    <3> QED  BY <2>1, <3>1
  <2> QED  BY <2>1, <2>2 DEF CallerOK
<1> QED  BY <1>2, <1>3 DEF Init, SnapshotInv

\* A write to a file cannot make an older stamp match.
LEMMA WriteSound ==
  ASSUME SnapshotInv, NEW i \in Files, Moves(i), UNCHANGED loadVars,
         version' \in Nat, version <= version'
  PROVE  Sound \subseteq Sound'
<1>1. /\ mod \in [Files -> Nat] /\ mod' \in [Files -> Nat] /\ mod'[i] = mod[i] + 1
      /\ \A k \in Files : k # i => mod'[k] = mod[k]
  BY DEF SnapshotInv, TypeOK, Moves
<1> SUFFICES ASSUME NEW e \in Sound PROVE e \in Sound'
  OBVIOUS
<1>2. /\ e \in [Files -> Nat] \X Nat /\ e[1] \in [Files -> Nat] /\ e[2] \in Nat
      /\ \A k \in Files : e[1][k] <= mod[k]
      /\ e[2] <= version
      /\ \A c \in Callers : MayMatch(c, e[1]) => asked[c] <= e[2] + Slack
  BY DEF Sound
<1>3. e[1][i] < mod'[i] /\ e[1] # mod' /\ \A k \in Files : e[1][k] <= mod'[k]
  BY <1>1, <1>2
<1>4. e[2] <= version'
  BY <1>2 DEF SnapshotInv, TypeOK
<1>5. ASSUME NEW c \in Callers, MayMatch(c, e[1])'  PROVE asked'[c] <= e[2] + Slack
  <2>1. MayMatch(c, e[1])
    <3>1. /\ UNCHANGED <<pc, stamp, statted>> /\ statted[c] \in Int /\ Files \subseteq Int
      BY SnapshotAssumption DEF loadVars, SnapshotInv, TypeOK, Files
    <3>2. pc[c] \in {"stamp", "look"}
      BY <1>5, <3>1 DEF MayMatch
    <3>3. \A k \in Files : IF k <= statted[c] THEN stamp[c][k] = e[1][k] ELSE mod'[k] = e[1][k]
      BY <1>5, <3>1 DEF MayMatch
    <3>4. i <= statted[c]
      BY <1>2, <1>3, <3>1, <3>3
    <3>5. \A k \in Files : IF k <= statted[c] THEN stamp[c][k] = e[1][k] ELSE mod[k] = e[1][k]
      BY <1>1, <3>1, <3>3, <3>4
    <3> QED  BY <3>2, <3>5 DEF MayMatch
  <2> QED  BY <1>2, <2>1 DEF loadVars
<1> QED  BY <1>2, <1>3, <1>4, <1>5 DEF Sound, Slack

\* The last write of a late commit changed the files already.
LEMMA AppearSound ==
  ASSUME SnapshotInv, Appear
  PROVE  Sound \subseteq Sound'
<1>1. /\ mod' = mod /\ version' = version + 1 /\ version \in Nat /\ Written' = Written
      /\ UNCHANGED <<pc, stamp, statted, asked>>
  BY DEF Appear, loadVars, SnapshotInv, TypeOK, Written
<1> QED  BY <1>1 DEF Sound, MayMatch, Slack

\* What a writer's step must show, wherever it leaves the files and the content.
LEMMA WriterStep ==
  ASSUME SnapshotInv, UNCHANGED <<entry, loadVars>>, TypeOK', LateFiles = {} => hidden' = FALSE,
         Sound \subseteq Sound', version <= version', hidden' = TRUE => version' < MaxVersion,
         \A k \in Files : mod[k] <= mod'[k]
  PROVE  SnapshotInv'
<1>1. entry'.value # None => <<entry'.stamp, entry'.value>> \in Sound'
  BY DEF SnapshotInv
<1>2. ASSUME NEW c \in Callers  PROVE CallerOK(c)'
  <2>1. CallerOK(c) /\ UNCHANGED <<pc, stamp, statted, value, asked>>
    BY DEF SnapshotInv, loadVars
  <2>2. \A k \in Files : mod[k] \in Nat /\ mod'[k] \in Nat
    BY DEF SnapshotInv, TypeOK
  <2>3. \A k \in Files : k <= statted[c] => stamp[c][k] \in Nat /\ stamp[c][k] <= mod'[k]
    BY <2>1, <2>2 DEF CallerOK
  <2>4. pc[c] # "idle" => asked[c] \in Nat /\ asked[c] <= version'
    BY <2>1 DEF CallerOK, SnapshotInv, TypeOK
  <2> QED  BY <2>1, <2>3, <2>4 DEF CallerOK
<1> QED  BY <1>1, <1>2 DEF SnapshotInv

LEMMA WriteStep ==
  ASSUME SnapshotInv, NEW i \in Files, Touch(i) \/ Commit(i)
  PROVE  SnapshotInv'
<1>1. /\ Moves(i) /\ UNCHANGED loadVars /\ entry' = entry
      /\ hidden' = hidden \/ (hidden' = TRUE /\ LateFiles # {})
      /\ version' = version \/ version' = version + 1
  BY DEF Touch, Commit, CommitNow, CommitLate
<1>2. version' \in Nat /\ version <= version'
  BY <1>1 DEF SnapshotInv, TypeOK
<1>3. TypeOK' /\ (LateFiles = {} => hidden' = FALSE)
  <2>1. mod' \in [Files -> Nat]
    BY <1>1 DEF SnapshotInv, TypeOK, Moves
  <2>2. TypeOK /\ (LateFiles = {} => hidden = FALSE)
    BY DEF SnapshotInv
  <2>3. hidden' \in BOOLEAN /\ (LateFiles = {} => hidden' = FALSE)
    BY <1>1, <2>2 DEF TypeOK
  <2>4. /\ entry' = entry /\ pc' = pc /\ stamp' = stamp /\ statted' = statted
        /\ value' = value /\ asked' = asked /\ got' = got
    BY <1>1 DEF loadVars
  <2> QED  BY <1>2, <2>1, <2>2, <2>3, <2>4 DEF TypeOK
<1>4. Sound \subseteq Sound'
  BY <1>1, <1>2, WriteSound
<1>5. \A k \in Files : mod[k] <= mod'[k]
  BY <1>1 DEF Moves, SnapshotInv, TypeOK
<1>6. hidden' = TRUE => version' < MaxVersion
  BY DEF SnapshotInv, TypeOK, Touch, Commit, CommitNow, CommitLate
<1> QED  BY <1>1, <1>2, <1>3, <1>4, <1>5, <1>6, WriterStep

LEMMA AppearStep ==
  ASSUME SnapshotInv, Appear
  PROVE  SnapshotInv'
<1>1. version <= version' /\ \A k \in Files : mod[k] <= mod'[k]
  BY DEF Appear, SnapshotInv, TypeOK
<1>2. TypeOK' /\ hidden' = FALSE /\ UNCHANGED <<entry, loadVars>>
  <2>1. TypeOK /\ hidden' = FALSE /\ version' = version + 1 /\ UNCHANGED <<mod, entry, loadVars>>
    BY DEF Appear, SnapshotInv
  <2>2. /\ entry' = entry /\ pc' = pc /\ stamp' = stamp /\ statted' = statted
        /\ value' = value /\ asked' = asked /\ got' = got
    BY <2>1 DEF loadVars
  <2>3. version' \in Nat
    BY <2>1 DEF TypeOK
  <2> QED  BY <2>1, <2>2, <2>3 DEF TypeOK
<1> QED  BY <1>1, <1>2, AppearSound, WriterStep

\* A step of one caller leaves an answer sound if that caller, where it may
\* still match, is answered well enough by it.
LEMMA LoadSound ==
  ASSUME SnapshotInv, NEW c \in Callers, UNCHANGED <<mod, version, hidden>>,
         \A b \in Callers : b # c => /\ pc'[b] = pc[b] /\ stamp'[b] = stamp[b]
                                     /\ statted'[b] = statted[b] /\ asked'[b] = asked[b],
         \A e \in Sound : MayMatch(c, e[1])' => asked'[c] <= e[2] + Slack
  PROVE  Sound \subseteq Sound'
<1> SUFFICES ASSUME NEW e \in Sound PROVE e \in Sound'
  OBVIOUS
<1>1. ASSUME NEW b \in Callers, MayMatch(b, e[1])'  PROVE asked'[b] <= e[2] + Slack
  <2>1. CASE b = c
    BY <1>1, <2>1
  <2>2. CASE b # c
    BY <1>1, <2>2 DEF MayMatch, Sound
  <2> QED  BY <2>1, <2>2
<1>2. Written' = Written /\ UNCHANGED <<mod, version>>
  BY DEF Written
<1> QED  BY <1>1, <1>2 DEF Sound, Slack

LEMMA LoadStep ==
  ASSUME SnapshotInv, NEW c \in Callers, Load(c)
  PROVE  SnapshotInv'
<1> DEFINE Others == \A b \in Callers : b # c =>
                       /\ pc'[b] = pc[b] /\ stamp'[b] = stamp[b] /\ statted'[b] = statted[b]
                       /\ asked'[b] = asked[b] /\ value'[b] = value[b]
<1>1. /\ mod' = mod /\ version' = version /\ hidden' = hidden /\ Others
      /\ CallerOK(c) /\ TypeOK
  BY DEF Load, Call, StampNext, ReturnHit, BeginRead, EndRead, FailRead, Bank, Return, Goto,
     dbVars, SnapshotInv, TypeOK
<1>2. mod \in [Files -> Nat] /\ version \in Nat /\ Parts \in Nat \ {0}
  BY SnapshotAssumption DEF SnapshotInv, TypeOK
\* What is left to show of each step: its types, its own caller, the entry,
\* and that the answers others hold are sound for this caller.
<1>3. ASSUME TypeOK', Sound \subseteq Sound' => CallerOK(c)',
             \A e \in Sound : MayMatch(c, e[1])' => asked'[c] <= e[2] + Slack,
             entry' = entry \/ <<entry'.stamp, entry'.value>> \in Sound
      PROVE  SnapshotInv'
  <2>1. Sound \subseteq Sound'
    BY <1>1, <1>3, LoadSound
  <2>2. ASSUME NEW b \in Callers  PROVE CallerOK(b)'
    BY <1>1, <1>3, <2>1 DEF CallerOK, SnapshotInv
  <2>3. entry'.value # None => <<entry'.stamp, entry'.value>> \in Sound'
    BY <1>3, <2>1 DEF SnapshotInv
  <2> QED  BY <1>1, <1>3, <2>2, <2>3 DEF SnapshotInv
<1>4. CASE Call(c)
  <2>1. TypeOK'
    BY <1>1, <1>4 DEF TypeOK, Call, Goto, dbVars
  <2>2. /\ pc[c] = "idle" /\ pc'[c] = "stamp" /\ asked'[c] = version
        /\ statted'[c] = 0 /\ stamp'[c] = stamp[c]
    BY <1>1, <1>4 DEF TypeOK, Call, Goto, CallerOK
  <2>3. ASSUME NEW e \in Sound, MayMatch(c, e[1])'  PROVE asked'[c] <= e[2] + Slack
    <3>1. \A i \in Files : mod[i] = e[1][i]
      BY <1>1, <2>2, <2>3 DEF MayMatch, Files
    <3>2. e[1] \in [Files -> Nat]
      BY DEF Sound
    <3>3. e[1] = mod
      BY <1>2, <3>1, <3>2
    <3>4. Written <= e[2] + Slack
      BY <3>3 DEF Sound
    <3> QED  BY <2>2, <3>4, WrittenBounds DEF Sound
  <2>4. CallerOK(c)'
    BY <1>1, <1>2, <2>2 DEF CallerOK, Files, None
  <2> QED  BY <1>3, <1>4, <2>1, <2>3, <2>4 DEF Call
<1>5. CASE StampNext(c)
  <2> DEFINE i == statted[c] + 1
  <2>1. i \in Files /\ statted[c] \in Nat
    BY <1>1, <1>2, <1>5 DEF StampNext, CallerOK, TypeOK, Files
  <2>2. /\ pc[c] = "stamp" /\ pc'[c] = IF i = Parts THEN "look" ELSE "stamp"
        /\ statted'[c] = i /\ asked'[c] = asked[c]
        /\ \A k \in Files : stamp'[c][k] = IF k = i THEN mod[k] ELSE stamp[c][k]
    BY <1>1, <1>5, <2>1 DEF StampNext, TypeOK, Goto, Stamps
  <2>3. TypeOK'
    <3>1. [stamp[c] EXCEPT ![i] = mod[i]] \in Stamps
      BY <1>1, <1>2, <2>1 DEF TypeOK, Stamps
    <3> QED  BY <1>1, <1>5, <2>1, <3>1 DEF StampNext, TypeOK, Goto, dbVars, Files
  <2>4. ASSUME NEW e \in Sound, MayMatch(c, e[1])'  PROVE asked'[c] <= e[2] + Slack
    <3>1. MayMatch(c, e[1])
      BY <1>1, <2>1, <2>2, <2>4 DEF MayMatch, Files
    <3> QED  BY <2>2, <3>1 DEF Sound
  <2>5. CallerOK(c)'
    <3>1. \A k \in Files : k <= i => k = i \/ k <= statted[c]
      BY <2>1 DEF Files
    <3>2. \A k \in Files : k <= i => stamp'[c][k] \in Nat /\ stamp'[c][k] <= mod[k]
      BY <1>1, <1>2, <2>2, <3>1 DEF CallerOK
    <3>3. statted'[c] <= Parts /\ (i # Parts => i < Parts)
      BY <1>2, <2>1, <2>2 DEF Files
    <3> HIDE DEF i
    <3> QED  BY <1>1, <2>2, <3>2, <3>3 DEF CallerOK
  <2> QED  BY <1>3, <1>5, <2>3, <2>4, <2>5 DEF StampNext
<1>6. CASE BeginRead(c)
  <2>1. TypeOK'
    BY <1>1, <1>6 DEF BeginRead, TypeOK, Goto, dbVars
  <2>2. /\ pc[c] = "look" /\ pc'[c] = "read" /\ value'[c] = version
        /\ stamp'[c] = stamp[c] /\ statted'[c] = statted[c] /\ asked'[c] = asked[c]
    BY <1>1, <1>6 DEF BeginRead, TypeOK, Goto
  <2>4. stamp[c] \in [Files -> Nat] /\ \A k \in Files : stamp[c][k] <= mod[k]
    BY <1>1, <1>2, <2>2 DEF CallerOK, TypeOK, Stamps, Files
  <2>5. \A b \in Callers : MayMatch(b, stamp[c]) => asked[b] <= version + Slack
    <3> SUFFICES ASSUME NEW b \in Callers, MayMatch(b, stamp[c])  PROVE asked[b] <= version + Slack
      OBVIOUS
    <3>1. asked[b] \in Nat /\ asked[b] <= version
      BY DEF SnapshotInv, CallerOK, MayMatch
    <3> QED  BY <3>1, WrittenBounds
  <2>6. <<stamp[c], version>> \in Sound
    BY <1>2, <2>4, <2>5, WrittenBounds DEF Sound
  <2>7. Sound \subseteq Sound' => CallerOK(c)'
    BY <1>1, <1>2, <2>2, <2>6 DEF CallerOK
  <2> QED  BY <1>3, <1>6, <2>1, <2>2, <2>7 DEF BeginRead, MayMatch
<1>7. CASE EndRead(c)
  <2>1. PICK v \in value[c]..version : value' = [value EXCEPT ![c] = v]
    BY <1>7 DEF EndRead
  <2>2. /\ pc[c] = "read" /\ pc'[c] = "bank" /\ value'[c] = v
        /\ stamp'[c] = stamp[c] /\ statted'[c] = statted[c] /\ asked'[c] = asked[c]
    BY <1>1, <1>7, <2>1 DEF EndRead, TypeOK, Goto
  <2>3. /\ <<stamp[c], value[c]>> \in Sound /\ asked[c] <= value[c] /\ asked[c] \in Nat
        /\ value[c] \in Nat
    BY <1>1, <2>2 DEF CallerOK, Sound
  <2>4. v \in Nat /\ v >= value[c] /\ v <= version
    BY <1>2, <2>1, <2>3
  <2>5. TypeOK'
    BY <1>1, <1>7, <2>1, <2>4 DEF EndRead, TypeOK, Goto, dbVars
  <2>6. <<stamp[c], v>> \in Sound
    <3>1. \A b \in Callers : MayMatch(b, stamp[c]) => asked[b] <= v + Slack
      <4> SUFFICES ASSUME NEW b \in Callers, MayMatch(b, stamp[c])  PROVE asked[b] <= v + Slack
        OBVIOUS
      <4>1. asked[b] \in Nat /\ asked[b] <= value[c] + Slack
        BY <2>3 DEF SnapshotInv, CallerOK, MayMatch, Sound
      <4> QED  BY <2>3, <2>4, <4>1, WrittenBounds
    <3>2. stamp[c] = mod => Written <= v + Slack
      <4>1. stamp[c] = mod => Written <= value[c] + Slack
        BY <2>3 DEF Sound
      <4> QED  BY <2>3, <2>4, <4>1, WrittenBounds
    <3>3. stamp[c] \in [Files -> Nat] /\ \A i \in Files : stamp[c][i] <= mod[i]
      BY <2>3 DEF Sound
    <3> QED  BY <2>4, <3>1, <3>2, <3>3 DEF Sound
  <2>7. Sound \subseteq Sound' => CallerOK(c)'
    BY <1>1, <1>2, <2>2, <2>3, <2>4, <2>6 DEF CallerOK
  <2> QED  BY <1>3, <1>7, <2>2, <2>5, <2>7 DEF EndRead, MayMatch
<1>8. ASSUME NEW v \in Nat \cup {Failed}, Return(c, v),
             entry' \in [stamp : Stamps, value : Nat \cup {None}],
             entry' = entry \/ <<entry'.stamp, entry'.value>> \in Sound
      PROVE  SnapshotInv'
  <2>1. pc'[c] = "idle" /\ asked'[c] = None /\ statted'[c] = 0
    BY <1>1, <1>8 DEF Return, TypeOK, Goto
  <2>2. Unstamped \in Stamps
    BY DEF Unstamped, Stamps
  <2>3. TypeOK'
    BY <1>1, <1>8, <2>2, SnapshotAssumption DEF Return, TypeOK, Goto, dbVars
  <2>4. CallerOK(c)'
    BY <1>2, <2>1 DEF CallerOK, Files
  <2> QED  BY <1>3, <1>8, <2>1, <2>3, <2>4 DEF MayMatch
<1>9. CASE ReturnHit(c)
  <2>1. entry.value \in Nat
    BY <1>1, <1>9 DEF ReturnHit, Hit, TypeOK
  <2>2. Return(c, entry.value) /\ entry' = entry
    BY <1>9 DEF ReturnHit
  <2>3. entry' \in [stamp : Stamps, value : Nat \cup {None}]
    BY <1>1, <2>2 DEF TypeOK
  <2> QED  BY <1>8, <2>1, <2>2, <2>3
<1>10. CASE FailRead(c)
  <2>1. Return(c, Failed) /\ entry' = entry
    BY <1>10 DEF FailRead
  <2>2. entry' \in [stamp : Stamps, value : Nat \cup {None}]
    BY <1>1, <2>1 DEF TypeOK
  <2> QED  BY <1>8, <2>1, <2>2
<1>11. CASE Bank(c)
  <2>1. <<stamp[c], value[c]>> \in Sound
    BY <1>1, <1>11 DEF Bank, CallerOK
  <2>2. value[c] \in Nat /\ stamp[c] \in Stamps
    BY <1>1, <2>1 DEF Sound, TypeOK
  <2>3. Return(c, value[c]) /\ entry' = [stamp |-> stamp[c], value |-> value[c]]
    BY <1>11 DEF Bank
  <2> QED  BY <1>8, <2>1, <2>2, <2>3
<1> QED  BY <1>4, <1>5, <1>6, <1>7, <1>9, <1>10, <1>11 DEF Load

LEMMA SnapshotStep ==
  ASSUME SnapshotInv, [Next]_vars
  PROVE  SnapshotInv'
<1>1. CASE UNCHANGED vars
  <2>1. /\ mod' = mod /\ version' = version /\ hidden' = hidden /\ entry' = entry
        /\ UNCHANGED <<pc, stamp, statted, value, asked, got>>
    BY <1>1 DEF vars, dbVars, loadVars
  <2>2. Sound' = Sound
    BY <2>1 DEF Sound, MayMatch, Written, Slack
  <2>3. TypeOK' /\ \A c \in Callers : CallerOK(c)'
    BY <2>1, <2>2 DEF SnapshotInv, TypeOK, CallerOK
  <2> QED  BY <2>1, <2>2, <2>3 DEF SnapshotInv
<1>2. ASSUME NEW i \in Files, Touch(i) \/ Commit(i)  PROVE SnapshotInv'
  BY <1>2, WriteStep
<1>3. CASE Appear
  BY <1>3, AppearStep
<1>4. ASSUME NEW c \in Callers, Load(c)  PROVE SnapshotInv'
  BY <1>4, LoadStep
<1> QED  BY <1>1, <1>2, <1>3, <1>4 DEF Next

\* The cache keeps its types and every answer that is or may be banked is sound.
THEOREM Invariance == Spec => []SnapshotInv
<1>1. SnapshotInv /\ [Next]_vars => SnapshotInv'
  BY SnapshotStep
<1> QED  BY InitSnapshot, <1>1, PTL DEF Spec

\* load of sqlitecache.go never keeps an old answer under the present stamp:
\* an answer whose stamp is that of the files now is the content now, or misses
\* the one commit readers did not see yet when it was read.
THEOREM BankedIsCurrent == Spec => []StampedIsCurrent
<1>1. SnapshotInv => StampedIsCurrent
  <2> SUFFICES ASSUME SnapshotInv, entry.value # None, entry.stamp = mod
               PROVE  version <= entry.value + Slack
    BY DEF StampedIsCurrent
  <2>1. Written <= entry.value + Slack /\ entry.value \in Nat
    BY DEF SnapshotInv, Sound
  <2> QED  BY <2>1, WrittenBounds
<1> QED  BY Invariance, <1>1, PTL

\* Every step of the cache and of the writers is a step of FreshRead or none.
LEMMA FreshStep ==
  ASSUME SnapshotInv, [Next]_vars
  PROVE  [Fresh!Next]_(Fresh!vars)
<1> USE DEF Fresh!Next, Fresh!vars, Fresh!None, Fresh!Failed, None, Failed
<1>1. CASE UNCHANGED vars
  BY <1>1 DEF vars, dbVars, loadVars
<1>2. ASSUME NEW i \in Files, Touch(i)  PROVE UNCHANGED Fresh!vars
  BY <1>2 DEF Touch, loadVars
<1>3. ASSUME NEW i \in Files, Commit(i)  PROVE Fresh!Change \/ UNCHANGED Fresh!vars
  BY <1>3 DEF Commit, CommitNow, CommitLate, Fresh!Change, loadVars
<1>4. CASE Appear
  BY <1>4 DEF Appear, Fresh!Change, loadVars, SnapshotInv
<1>5. ASSUME NEW c \in Callers, Load(c)  PROVE [Fresh!Next]_(Fresh!vars)
  <2>1. CallerOK(c) /\ version \in Nat
    BY DEF SnapshotInv, TypeOK
  <2>2. ASSUME NEW v \in Nat, asked[c] <= v + Slack, v <= version, Return(c, v), pc[c] # "idle",
               version' = version
        PROVE  Fresh!Answer(c)
    <3>1. asked[c] \in Nat /\ asked[c] # -1
      BY <2>1, <2>2 DEF CallerOK
    <3>2. v \in {u \in 0..version : asked[c] <= u + Slack}
      BY <2>1, <2>2, <3>1
    <3> QED  BY <2>2, <3>1, <3>2 DEF Fresh!Answer, Return
  <2>3. CASE Call(c)
    BY <2>1, <2>3 DEF Call, CallerOK, Fresh!Ask, dbVars
  <2>4. CASE StampNext(c) \/ BeginRead(c) \/ EndRead(c)
    BY <2>4 DEF StampNext, BeginRead, EndRead, dbVars
  <2>5. CASE ReturnHit(c)
    <3>1. /\ pc[c] = "look" /\ entry.value # None /\ entry.stamp = stamp[c]
          /\ Return(c, entry.value) /\ version' = version
      BY <2>5 DEF ReturnHit, Hit, dbVars
    <3>2. MayMatch(c, entry.stamp)
      BY <2>1, <3>1 DEF MayMatch, CallerOK, Files
    <3>3. /\ entry.value \in Nat /\ entry.value <= version /\ asked[c] <= entry.value + Slack
      BY <3>1, <3>2 DEF SnapshotInv, Sound
    <3> QED  BY <2>2, <3>1, <3>3
  <2>6. CASE FailRead(c)
    <3>1. asked[c] # -1
      BY <2>1, <2>6 DEF FailRead, CallerOK
    <3> QED  BY <2>6, <3>1 DEF FailRead, Return, dbVars, Fresh!Answer
  <2>7. CASE Bank(c)
    <3>1. /\ pc[c] = "bank" /\ Return(c, value[c]) /\ version' = version
      BY <2>7 DEF Bank, dbVars
    <3>2. value[c] \in Nat /\ value[c] <= version /\ asked[c] <= value[c]
      BY <2>1, <3>1 DEF CallerOK, Sound
    <3>3. asked[c] <= value[c] + Slack
      BY <2>1, <3>1, <3>2, WrittenBounds DEF CallerOK
    <3> QED  BY <2>2, <3>1, <3>2, <3>3
  <2> QED  BY <1>5, <2>3, <2>4, <2>5, <2>6, <2>7 DEF Load
<1> QED  BY <1>1, <1>2, <1>3, <1>4, <1>5 DEF Next

\* load implements FreshRead: "a value read while the file was changing is
\* never served as if it were current" (sqlitecache.go:49-51), for any number
\* of callers, of stamped files and of commits.
THEOREM SnapshotServesCurrent == Spec => ServesCurrent
<1>1. Init => Fresh!Init
  BY DEF Init, Fresh!Init, None, Fresh!None
<1>2. SnapshotInv /\ [Next]_vars => [Fresh!Next]_(Fresh!vars)
  BY FreshStep
<1>3. Spec => []SnapshotInv
  BY Invariance
<1> QED  BY <1>1, <1>2, <1>3, PTL DEF Spec, ServesCurrent, Fresh!Spec
-----------------------------------------------------------------------------
(***************************************************************************)
(* Codex: a final result counts the fork's own turns, and a rollout is      *)
(* listed once.                                                            *)
(* A file that is gone from a path never comes back to it, so a stamp kept  *)
(* of a path is at most the file's, and one that is equal is of the file as *)
(* it is: both the turns kept of a parent and the verdict on a compressed   *)
(* rollout rest on it.                                                     *)
(***************************************************************************)

\* The root of a path is one the rollout has or had.
Met(p) == p.root = "archived" => root = "archived"

CodexTypes ==
  /\ root \in Roots /\ form \in Forms /\ pack \in Nat /\ turns \in Nat \ {0}
  /\ copied \in Nat \cup {-1} /\ own \in Nat
  /\ verdicts \in [RolloutPaths -> [stat : Nat, good : BOOLEAN]]
  /\ active \subseteq RolloutPaths /\ left \subseteq RolloutPaths /\ usable \subseteq RolloutPaths
  /\ decoding \in [path : RolloutPaths \cup {NoPath}, stat : Nat]
  /\ byID \in RolloutPaths \cup {NoPath}
  /\ turnIDs \in [RolloutPaths -> [stamp : Nat, turns : Nat]]
  /\ finals \subseteq [stamp : Nat, usage : Int, parent : {"whole", "written", "missing"}]
  /\ ask \in {"idle", "read", "parent", "turns", "alone"}
  /\ fstamp \in Nat /\ held \in Nat /\ parent \in RolloutPaths \cup {NoPath} /\ pstamp \in Nat
  /\ form # "plain" => pack # 0
  /\ ask = "turns" => parent \in RolloutPaths

\* Turns kept of p under a stamp: a whole file that still has the stamp has them.
BankedTurns(p) ==
  turnIDs[p].stamp # 0 =>
    /\ Met(p) /\ turnIDs[p].stamp <= Stat(p)
    /\ Whole(p) /\ Stat(p) = turnIDs[p].stamp => turnIDs[p].turns = turns

\* The stamp of a call comes before its own rows, and those before the parent's.
ForkInv ==
  /\ copied = -1 => finals = {} /\ ask = "idle" /\ own = 0
  /\ copied <= turns
  /\ ask # "idle" => fstamp - copied <= own
  /\ ask \notin {"idle", "read"} => held <= own /\ fstamp - copied <= held
  /\ ask = "turns" => Met(parent) /\ pstamp # 0 /\ pstamp <= Stat(parent)
  /\ \A p \in RolloutPaths : BankedTurns(p)

\* Where the rollout is to be listed
Rolled == IF form \in {"zst", "torn"} THEN Rollout(root, TRUE) ELSE Rollout(root, FALSE)

ScanPlaces == {"idle", "live", "liveZst", "archived", "archivedZst", "check"}

\* The glob that finds it has been.
Globbed ==
  \/ scan = "check"
  \/ scan = "liveZst" /\ Rolled.root = "live" /\ ~Rolled.zst
  \/ scan = "archived" /\ Rolled.root = "live"
  \/ scan = "archivedZst" /\ ~(Rolled.root = "archived" /\ Rolled.zst)

\* A verdict under the version of today is right.
VerdictOK(p) ==
  verdicts[p].stat # 0 =>
    /\ Met(p) /\ verdicts[p].stat <= pack
    /\ p.root = root /\ verdicts[p].stat = pack => (verdicts[p].good <=> form \in {"packed", "zst"})

\* A path once checked has its verdict, and is to be listed as that says.
CheckedOK(p) ==
  scan = "check" /\ p \in active \ left =>
    IF p.zst THEN /\ verdicts[p].stat = pack /\ (p \in usable <=> verdicts[p].good)
    ELSE p \in usable

\* A list during which the file does not move has its one path, and nothing else.
ScanInv ==
  /\ scan \in ScanPlaces
  /\ scan # "check" => left = {} /\ usable = {} /\ decoding = NoDecoding
  /\ scan \in {"idle", "live"} => active = {}
  /\ decoding # NoDecoding => /\ decoding.path \in left /\ decoding.path.zst /\ Met(decoding.path)
                              /\ decoding.stat # 0 /\ decoding.stat <= pack
  /\ \A p \in RolloutPaths : VerdictOK(p)
  /\ left \subseteq active /\ usable \subseteq active /\ left \cap usable = {}
  /\ ~moved => /\ active = {p \in {Rolled} : Globbed}
               /\ decoding # NoDecoding => decoding.stat = pack
               /\ \A p \in RolloutPaths : CheckedOK(p)

LEMMA MinOfTwo ==
  ASSUME NEW a \in Int, NEW b \in Int
  PROVE  Min({a, b}) = IF a <= b THEN a ELSE b
<1> DEFINE m == IF a <= b THEN a ELSE b
<1>1. m \in {a, b} /\ \A y \in {a, b} : m <= y
  OBVIOUS
<1>2. \A x \in {a, b} : (\A y \in {a, b} : x <= y) => x = m
  OBVIOUS
<1> QED  BY <1>1, <1>2 DEF Min

LEMMA InitCodex == CodexInit => CodexTypes /\ ForkInv /\ ScanInv
<1> SUFFICES ASSUME CodexInit PROVE CodexTypes /\ ForkInv /\ ScanInv
  OBVIOUS
<1>1. CodexTypes
  <2>1. NoDecoding \in [path : RolloutPaths \cup {NoPath}, stat : Nat]
    BY DEF NoDecoding
  <2> QED  BY <2>1 DEF CodexInit, CodexTypes, Roots, Forms
<1>2. ForkInv
  BY DEF CodexInit, ForkInv, BankedTurns
<1>3. ScanInv
  BY DEF CodexInit, ScanInv, ScanPlaces, VerdictOK, CheckedOK, Globbed
<1> QED  BY <1>1, <1>2, <1>3

LEMMA CodexTypesKept == CodexTypes /\ [CodexNext]_codexVars => CodexTypes'
<1> SUFFICES ASSUME CodexTypes, [CodexNext]_codexVars PROVE CodexTypes'
  OBVIOUS
<1> USE DEF CodexTypes, codexDisk, codexList, codexFinal
<1>1. CASE ParentTurn \/ ForkAway \/ ForkTurn
  BY <1>1 DEF ParentTurn, ForkAway, ForkTurn
<1>2. CASE Archive
  BY <1>2 DEF Archive, Roots
<1>3. CASE Compress
  BY <1>3 DEF Compress, Forms
<1>4. CASE BeginRollouts
  BY <1>4 DEF BeginRollouts
<1>5. CASE GlobAll
  <2> SUFFICES ASSUME NEW r \in Roots, NEW z \in BOOLEAN, NEW s, NEW n, GlobStep(r, z, s, n)
               PROVE  CodexTypes'
    BY <1>5 DEF GlobAll, Roots
  <2>1. Glob(r, z) \subseteq RolloutPaths
    BY DEF Glob, Rollout, RolloutPaths
  <2> QED  BY <2>1 DEF GlobStep
<1>6. CASE EndRollouts
  <2>1. byID' \in RolloutPaths \cup {NoPath}
    BY <1>6 DEF EndRollouts
  <2>2. verdicts' \in [RolloutPaths -> [stat : Nat, good : BOOLEAN]]
    BY <1>6 DEF EndRollouts
  <2> QED  BY <1>6, <2>1, <2>2 DEF EndRollouts
<1>7. ASSUME NEW p \in RolloutPaths, CheckFile(p) PROVE CodexTypes'
  BY <1>7 DEF CheckFile, Checked
<1>8. ASSUME NEW p \in RolloutPaths, BeginDecode(p) PROVE CodexTypes'
  BY <1>8 DEF BeginDecode
<1>9. ASSUME NEW p \in RolloutPaths, EndDecode(p) PROVE CodexTypes'
  <2>1. [stat |-> decoding.stat, good |-> Decodes(p)] \in [stat : Nat, good : BOOLEAN]
    BY DEF Decodes, Whole, OnDisk
  <2>2. verdicts' \in [RolloutPaths -> [stat : Nat, good : BOOLEAN]]
    BY <1>9, <2>1 DEF EndDecode
  <2> QED  BY <1>9, <2>2 DEF EndDecode, Checked, NoDecoding
<1>10. CASE AskFinal
  BY <1>10 DEF AskFinal, ForkStamp
<1>11. CASE ReadFork
  BY <1>11 DEF ReadFork
<1>12. CASE StatParent
  <2>1. PathOf \subseteq RolloutPaths \cup {NoPath} /\ ~OnDisk(NoPath)
    BY DEF PathOf, OnDisk, NoPath, Roots
  <2>2. \A p : Stat(p) \in Nat
    BY DEF Stat
  <2> QED  BY <1>12, <2>1, <2>2 DEF StatParent
<1>13. ASSUME NEW u \in Int, NEW of \in {"whole", "written", "missing"}, Banked(u, of)
       PROVE  /\ finals' \subseteq [stamp : Nat, usage : Int, parent : {"whole", "written", "missing"}]
              /\ ask' = "idle" /\ fstamp' \in Nat /\ held' \in Nat
              /\ parent' \in RolloutPaths \cup {NoPath} /\ pstamp' \in Nat
  BY <1>13 DEF Banked
<1>14. ASSUME NEW t \in Nat PROVE Usage(held, t) \in Int
  <2>1. Min({t, copied}) \in Int
    BY MinOfTwo
  <2> QED  BY <2>1 DEF Usage
<1>15. CASE EndFinal
  <2>1. PICK t \in ParentTurns(parent) :
          /\ turnIDs' = [turnIDs EXCEPT ![parent] = [stamp |-> pstamp, turns |-> t]]
          /\ Banked(Usage(held, t), IF Whole(parent) /\ Stat(parent) = pstamp
                                    THEN "whole" ELSE "written")
    BY <1>15 DEF EndFinal
  <2>2. parent \in RolloutPaths
    BY <1>15 DEF EndFinal
  <2>3. t \in Nat
    BY <2>1, <2>2 DEF ParentTurns, TurnsRead
  <2>4. turnIDs' \in [RolloutPaths -> [stamp : Nat, turns : Nat]]
    BY <2>1, <2>2, <2>3
  <2> QED  BY <1>13, <1>14, <1>15, <2>1, <2>3, <2>4 DEF EndFinal
<1>16. CASE EndFinalAlone
  BY <1>13, <1>14, <1>16 DEF EndFinalAlone
<1>17. CASE UNCHANGED codexVars
  BY <1>17 DEF codexVars
<1> QED
  BY <1>1, <1>2, <1>3, <1>4, <1>5, <1>6, <1>7, <1>8, <1>9, <1>10, <1>11, <1>12, <1>15, <1>16, <1>17
     DEF CodexNext, ListRollouts, FinalOfFork

LEMMA ForkKept == CodexTypes /\ ForkInv /\ TurnsCountedOnce /\ [CodexNext]_codexVars
                    => ForkInv' /\ TurnsCountedOnce'
<1> SUFFICES ASSUME CodexTypes, ForkInv, TurnsCountedOnce, [CodexNext]_codexVars
             PROVE  ForkInv' /\ TurnsCountedOnce'
  OBVIOUS
<1>0. CodexTypes'
  BY CodexTypesKept
<1> DEFINE MetStat(p, n) == Met(p) /\ n # 0 /\ n <= Stat(p)
           BankedWell(p) == Whole(p) /\ Stat(p) = turnIDs[p].stamp => turnIDs[p].turns = turns
<1>1. CASE ParentTurn \/ Archive \/ Compress
  <2>1. /\ UNCHANGED <<copied, own, codexFinal>> /\ turns <= turns'
        /\ \A p \in RolloutPaths : (Met(p) => Met(p)') /\ Stat(p) <= Stat(p)'
    BY <1>1 DEF ParentTurn, Archive, Compress, Met, Stat, CodexTypes, codexDisk
  <2>2. ASSUME NEW p \in RolloutPaths, Met(p), Whole(p)', Stat(p)' = Stat(p)
        PROVE  Whole(p) /\ turns' = turns
    <3>1. CASE ParentTurn
      BY <2>2, <3>1 DEF ParentTurn, Whole, OnDisk, Stat, CodexTypes
    <3>2. CASE Archive
      BY <2>2, <3>2 DEF Archive, Whole, OnDisk, Met, CodexTypes, Roots, RolloutPaths
    <3>3. CASE Compress
      BY <2>2, <3>3 DEF Compress, Whole, OnDisk, Stat, CodexTypes
    <3> QED  BY <1>1, <3>1, <3>2, <3>3
  <2>3. ASSUME NEW p \in RolloutPaths PROVE BankedTurns(p)'
    <3> SUFFICES ASSUME turnIDs'[p].stamp # 0 PROVE BankedTurns(p)'
      BY DEF BankedTurns
    <3>1. turnIDs' = turnIDs /\ turnIDs[p].stamp \in Nat
      BY <2>1 DEF CodexTypes, codexFinal
    <3>2. Met(p) /\ turnIDs[p].stamp <= Stat(p) /\ BankedWell(p)
      BY <3>1 DEF ForkInv, BankedTurns
    <3>3. Stat(p) \in Nat /\ Stat(p)' \in Nat
      BY <1>0 DEF Stat, CodexTypes
    <3>4. Met(p)' /\ Stat(p) <= Stat(p)'
      BY <2>1, <3>2
    <3>5. Stat(p)' = turnIDs[p].stamp => Stat(p)' = Stat(p)
      BY <3>2, <3>3, <3>4
    <3> QED  BY <2>2, <3>1, <3>2, <3>3, <3>4, <3>5 DEF BankedTurns
  <2>4. ask' = "turns" => Met(parent)' /\ pstamp' # 0 /\ pstamp' <= Stat(parent)'
    <3> SUFFICES ASSUME ask = "turns"
                 PROVE  Met(parent)' /\ pstamp # 0 /\ pstamp <= Stat(parent)'
      BY <2>1 DEF codexFinal
    <3>1. parent \in RolloutPaths /\ parent' = parent /\ Stat(parent) \in Nat /\ Stat(parent)' \in Nat
      BY <1>0, <2>1 DEF CodexTypes, codexFinal, Stat
    <3> QED  BY <2>1, <3>1 DEF ForkInv, CodexTypes
  <2>5. ForkInv'
    BY <1>0, <2>1, <2>3, <2>4 DEF ForkInv, CodexTypes, codexFinal
  <2>6. TurnsCountedOnce'
    BY <2>1 DEF TurnsCountedOnce, codexFinal, ForkStamp
  <2> QED  BY <2>5, <2>6
<1>2. CASE ForkAway
  BY <1>2 DEF ForkAway, ForkInv, TurnsCountedOnce, BankedTurns, Met, Whole, OnDisk, Stat, CodexTypes,
              codexFinal
<1>3. CASE ForkTurn
  <2>1. /\ UNCHANGED <<root, form, pack, turns, copied, codexFinal>> /\ own' = own + 1 /\ copied # -1
    BY <1>3 DEF ForkTurn
  <2>2. ForkInv'
    BY <2>1 DEF ForkInv, BankedTurns, Met, Whole, OnDisk, Stat, CodexTypes, codexFinal
  <2>3. TurnsCountedOnce'
    BY <2>1 DEF TurnsCountedOnce, ForkStamp, CodexTypes, codexFinal
  <2> QED  BY <2>2, <2>3
<1>4. CASE UNCHANGED <<codexDisk, codexFinal>>
  BY <1>4 DEF codexDisk, codexFinal, ForkInv, TurnsCountedOnce, BankedTurns, Met, Whole, OnDisk, Stat,
              ForkStamp
<1>5. CASE AskFinal \/ ReadFork
  BY <1>5 DEF AskFinal, ReadFork, ForkInv, TurnsCountedOnce, BankedTurns, Met, Whole, OnDisk, Stat,
              ForkStamp, CodexTypes, codexDisk
<1>6. CASE StatParent
  <2>1. UNCHANGED <<codexDisk, turnIDs, finals, fstamp, held>> /\ ask = "parent"
    BY <1>6 DEF StatParent
  <2>2. ask' = "turns" => Met(parent)' /\ pstamp' # 0 /\ pstamp' <= Stat(parent)'
    BY <1>6, <2>1 DEF StatParent, Met, Stat, OnDisk, CodexTypes, codexDisk
  <2>3. ask' \in {"turns", "alone"}
    BY <1>6 DEF StatParent
  <2> QED
    BY <2>1, <2>2, <2>3 DEF ForkInv, TurnsCountedOnce, BankedTurns, Met, Whole, OnDisk, Stat, ForkStamp,
                            codexDisk
<1>7. ASSUME NEW u \in Int, NEW of, Banked(u, of), UNCHANGED codexDisk, ask \in {"turns", "alone"},
             of = "whole" => u = held, \A p \in RolloutPaths : BankedTurns(p)'
      PROVE  ForkInv' /\ TurnsCountedOnce'
  <2>1. ForkInv'
    BY <1>7 DEF Banked, ForkInv, CodexTypes, codexDisk
  <2>2. /\ fstamp - copied <= held /\ held <= own
        /\ UNCHANGED <<copied, own>>
    BY <1>7 DEF ForkInv, codexDisk
  <2>3. finals' = finals \cup {[stamp |-> fstamp, usage |-> u, parent |-> of]}
    BY <1>7 DEF Banked
  <2>4. held \in (fstamp - copied)..own /\ (fstamp = ForkStamp => held = own)
    BY <2>2 DEF CodexTypes, ForkStamp
  <2> QED  BY <1>7, <2>1, <2>2, <2>3, <2>4 DEF TurnsCountedOnce, ForkStamp
<1>8. CASE EndFinal
  <2>1. PICK t \in ParentTurns(parent) :
          /\ turnIDs' = [turnIDs EXCEPT ![parent] = [stamp |-> pstamp, turns |-> t]]
          /\ Banked(Usage(held, t), IF Whole(parent) /\ Stat(parent) = pstamp
                                    THEN "whole" ELSE "written")
    BY <1>8 DEF EndFinal
  <2>2. /\ ask = "turns" /\ parent \in RolloutPaths /\ UNCHANGED codexDisk
        /\ Met(parent) /\ pstamp # 0 /\ pstamp <= Stat(parent)
    BY <1>8 DEF EndFinal, CodexTypes, ForkInv
  <2>3. t \in Nat
    BY <2>1, <2>2 DEF ParentTurns, TurnsRead, CodexTypes
  <2>4. Whole(parent) /\ Stat(parent) = pstamp => t = turns
    BY <2>1, <2>2 DEF ParentTurns, TurnsRead, ForkInv, BankedTurns
  <2>5. Usage(held, t) \in Int /\ (t = turns => Usage(held, t) = held)
    <3>1. Min({t, copied}) = IF t <= copied THEN t ELSE copied
      BY <2>3, MinOfTwo DEF CodexTypes
    <3>2. held \in Nat /\ copied \in Int /\ turns \in Nat /\ copied <= turns
      BY DEF ForkInv, CodexTypes
    <3> QED  BY <2>3, <3>1, <3>2 DEF Usage
  <2>6. ASSUME NEW p \in RolloutPaths PROVE BankedTurns(p)'
    <3>1. CASE p = parent
      <4>1. turnIDs'[p] = [stamp |-> pstamp, turns |-> t]
        BY <2>1, <2>2, <3>1 DEF CodexTypes
      <4> QED
        BY <2>2, <2>4, <3>1, <4>1 DEF BankedTurns, Met, Whole, OnDisk, Stat, codexDisk
    <3>2. CASE p # parent
      <4>1. turnIDs'[p] = turnIDs[p]
        BY <2>1, <2>2, <3>2 DEF CodexTypes
      <4> QED
        BY <2>2, <4>1 DEF ForkInv, BankedTurns, Met, Whole, OnDisk, Stat, codexDisk
    <3> QED  BY <3>1, <3>2
  <2> QED  BY <1>7, <2>1, <2>2, <2>4, <2>5, <2>6
<1>9. CASE EndFinalAlone
  <2>1. Usage(held, 0) \in Int
    <3>1. Min({0, copied}) \in Int
      BY MinOfTwo DEF CodexTypes
    <3> QED  BY <3>1 DEF Usage, CodexTypes
  <2>2. UNCHANGED <<codexDisk, turnIDs>> /\ ask = "alone" /\ Banked(Usage(held, 0), "missing")
    BY <1>9 DEF EndFinalAlone
  <2>3. \A p \in RolloutPaths : BankedTurns(p)'
    BY <2>2 DEF ForkInv, BankedTurns, Met, Whole, OnDisk, Stat, codexDisk
  <2> QED  BY <1>7, <2>1, <2>2, <2>3
<1>10. ListRollouts => UNCHANGED <<codexDisk, codexFinal>>
  BY DEF ListRollouts, BeginRollouts, GlobAll, GlobStep, EndRollouts, CheckFile, BeginDecode, EndDecode
<1>11. UNCHANGED codexVars => UNCHANGED <<codexDisk, codexFinal>>
  BY DEF codexVars
<1> QED
  BY <1>1, <1>2, <1>3, <1>4, <1>5, <1>6, <1>8, <1>9, <1>10, <1>11 DEF CodexNext, FinalOfFork

\* For any number of turns and of versions, a final result of the fork made beside a
\* whole parent counts each of the fork's own turns once and no other: it left out
\* exactly those it copied (readFinal, parentTurns).
THEOREM TurnsOnceInvariance == CodexSpec => []TurnsCountedOnce
<1>1. CodexInit => TurnsCountedOnce
  BY DEF CodexInit, TurnsCountedOnce
<1> QED
  BY <1>1, InitCodex, CodexTypesKept, ForkKept, PTL DEF CodexSpec

LEMMA ScanKept == CodexTypes /\ ScanInv /\ [CodexNext]_codexVars => ScanInv'
<1> SUFFICES ASSUME CodexTypes, ScanInv, [CodexNext]_codexVars PROVE ScanInv'
  OBVIOUS
<1>0. CodexTypes'
  BY CodexTypesKept
<1>1. CASE ParentTurn \/ ForkAway \/ ForkTurn \/ Archive \/ Compress
  <2>1. UNCHANGED codexList
    BY <1>1 DEF ParentTurn, ForkAway, ForkTurn, Archive, Compress
  <2>2. pack <= pack' /\ \A p \in RolloutPaths : (Met(p) => Met(p)')
    BY <1>1 DEF ParentTurn, ForkAway, ForkTurn, Archive, Compress, Met, CodexTypes, codexDisk
  <2>3. ASSUME NEW p \in RolloutPaths PROVE VerdictOK(p)'
    <3>1. verdicts' = verdicts /\ verdicts[p].stat \in Nat
      BY <2>1 DEF codexList, CodexTypes
    <3>2. Met(p) /\ p.root = root' => p.root = root
      BY <1>1 DEF ParentTurn, ForkAway, ForkTurn, Archive, Compress, Met
    <3>3. pack' = pack => (form \in {"packed", "zst"} <=> form' \in {"packed", "zst"})
      BY <1>1 DEF ParentTurn, ForkAway, ForkTurn, Archive, Compress, CodexTypes
    <3>4. pack \in Nat /\ pack' \in Nat
      BY <1>0 DEF CodexTypes
    <3> QED  BY <2>2, <3>1, <3>2, <3>3, <3>4 DEF ScanInv, VerdictOK
  <2>4. ~moved' => UNCHANGED Rolled /\ ~moved
    <3>1. ~moved' => root' = root /\ ~moved /\ (form \in {"zst", "torn"} <=> form' \in {"zst", "torn"})
      BY <1>1 DEF ParentTurn, ForkAway, ForkTurn, Archive, Compress, CodexTypes
    <3> QED  BY <3>1 DEF Rolled
  <2>5. ~moved' => \/ UNCHANGED pack \/ ~Rolled.zst
    BY <1>1 DEF ParentTurn, ForkAway, ForkTurn, Archive, Compress, Rolled, Rollout, CodexTypes
  <2>6. ASSUME decoding' # NoDecoding
        PROVE  /\ decoding'.path \in left' /\ decoding'.path.zst /\ Met(decoding.path)'
               /\ decoding'.stat # 0 /\ decoding'.stat <= pack'
    <3>1. decoding # NoDecoding /\ UNCHANGED <<decoding, left>>
      BY <2>1, <2>6 DEF codexList
    <3>2. decoding.path \in left /\ decoding.path.zst /\ Met(decoding.path) /\ decoding.stat # 0
          /\ decoding.stat <= pack
      BY <3>1 DEF ScanInv
    <3>3. decoding.path \in RolloutPaths /\ decoding.stat \in Nat /\ pack \in Nat /\ pack' \in Nat
      BY <1>0, <3>2 DEF CodexTypes
    <3>4. Met(decoding.path)'
      BY <2>2, <3>1, <3>2, <3>3 DEF Met
    <3> QED  BY <2>2, <3>1, <3>2, <3>3, <3>4
  <2>7. ASSUME ~moved' PROVE /\ active' = {p \in {Rolled'} : Globbed'}
                             /\ decoding' # NoDecoding => decoding'.stat = pack'
                             /\ \A p \in RolloutPaths : CheckedOK(p)'
    <3>1. Rolled' = Rolled /\ Globbed' = Globbed /\ active = {p \in {Rolled} : Globbed}
      BY <2>1, <2>4, <2>7 DEF Globbed, codexList, ScanInv
    <3>2. UNCHANGED pack \/ \A p \in active : ~p.zst
      BY <2>5, <2>7, <3>1
    <3>3. \A p \in RolloutPaths : CheckedOK(p)'
      BY <2>1, <2>4, <2>7, <3>2 DEF codexList, ScanInv, CheckedOK
    <3>4. decoding' # NoDecoding => decoding'.stat = pack'
      BY <2>1, <2>4, <2>7, <3>2 DEF codexList, ScanInv
    <3> QED  BY <2>1, <3>1, <3>3, <3>4 DEF codexList
  <2>8. /\ scan' \in ScanPlaces
        /\ scan' # "check" => left' = {} /\ usable' = {} /\ decoding' = NoDecoding
        /\ scan' \in {"idle", "live"} => active' = {}
        /\ left' \subseteq active' /\ usable' \subseteq active' /\ left' \cap usable' = {}
    BY <2>1 DEF codexList, ScanInv
  <2> QED  BY <2>3, <2>6, <2>7, <2>8 DEF ScanInv
<1>2. CASE UNCHANGED <<codexDisk, codexList, moved>>
  BY <1>2 DEF codexDisk, codexList, ScanInv, VerdictOK, CheckedOK, Rolled, Globbed, Met
<1>3. CASE BeginRollouts
  BY <1>3 DEF BeginRollouts, ScanInv, ScanPlaces, VerdictOK, CheckedOK, Globbed, Met, codexDisk
<1>4. CASE GlobAll
  <2>1. UNCHANGED <<codexDisk, usable, decoding, verdicts, moved>>
    BY <1>4 DEF GlobAll, GlobStep
  <2>2. /\ scan' \in ScanPlaces \ {"idle", "live"} /\ scan # "check"
        /\ left' \subseteq active' /\ (scan' # "check" => left' = {})
    BY <1>4 DEF GlobAll, GlobStep, ScanPlaces
  <2>3. ~moved => active' = {p \in {Rolled} : Globbed'}
    <3> SUFFICES ASSUME ~moved PROVE active' = {p \in {Rolled} : Globbed'}
      OBVIOUS
    <3>0. active = {p \in {Rolled} : Globbed} /\ Rolled' = Rolled
      BY <2>1 DEF ScanInv, Rolled, codexDisk
    <3>1. CASE GlobStep("live", FALSE, "live", "liveZst")
      <4>1. scan = "live" /\ scan' = "liveZst" /\ active' = active \cup Glob("live", FALSE)
        BY <3>1 DEF GlobStep
      <4>2. Rolled \in Glob("live", FALSE) \/ Globbed <=> Globbed'
        BY <3>0, <4>1 DEF Glob, Rollout, OnDisk, Rolled, Globbed, CodexTypes, Forms, Roots
      <4>3. Glob("live", FALSE) \subseteq {Rolled}
        BY <3>0, <4>1 DEF Glob, Rollout, OnDisk, Rolled, Globbed, CodexTypes, Forms, Roots
      <4> QED  BY <3>0, <4>1, <4>2, <4>3
    <3>2. CASE GlobStep("live", TRUE, "liveZst", "archived")
      <4>1. scan = "liveZst" /\ scan' = "archived" /\ active' = active \cup Glob("live", TRUE)
        BY <3>2 DEF GlobStep
      <4>2. Rolled \in Glob("live", TRUE) \/ Globbed <=> Globbed'
        BY <3>0, <4>1 DEF Glob, Rollout, OnDisk, Rolled, Globbed, CodexTypes, Forms, Roots
      <4>3. Glob("live", TRUE) \subseteq {Rolled}
        <5>1. CASE form \in {"zst", "torn"}
          BY <5>1 DEF Glob, Rollout, OnDisk, Rolled
        <5>2. CASE form \notin {"zst", "torn"} /\ root = "live"
          <6>1. Rolled = Rollout("live", FALSE) /\ Globbed
            BY <4>1, <5>2 DEF Rolled, Globbed, Rollout
          <6> QED  BY <3>0, <6>1 DEF Glob
        <5>3. CASE root # "live"
          BY <5>3 DEF Glob, Rollout, OnDisk
        <5> QED  BY <5>1, <5>2, <5>3
      <4> QED  BY <3>0, <4>1, <4>2, <4>3
    <3>3. CASE GlobStep("archived", FALSE, "archived", "archivedZst")
      <4>1. scan = "archived" /\ scan' = "archivedZst" /\ active' = active \cup Glob("archived", FALSE)
        BY <3>3 DEF GlobStep
      <4>2. Rolled \in Glob("archived", FALSE) \/ Globbed <=> Globbed'
        BY <3>0, <4>1 DEF Glob, Rollout, OnDisk, Rolled, Globbed, CodexTypes, Forms, Roots
      <4>3. Glob("archived", FALSE) \subseteq {Rolled}
        BY <3>0, <4>1 DEF Glob, Rollout, OnDisk, Rolled, Globbed, CodexTypes, Forms, Roots
      <4> QED  BY <3>0, <4>1, <4>2, <4>3
    <3>4. CASE GlobStep("archived", TRUE, "archivedZst", "check")
      <4>1. scan = "archivedZst" /\ scan' = "check" /\ active' = active \cup Glob("archived", TRUE)
        BY <3>4 DEF GlobStep
      <4>2. Rolled \in Glob("archived", TRUE) \/ Globbed <=> Globbed'
        BY <3>0, <4>1 DEF Glob, Rollout, OnDisk, Rolled, Globbed, CodexTypes, Forms, Roots
      <4>3. Glob("archived", TRUE) \subseteq {Rolled}
        <5>1. CASE form \in {"zst", "torn"}
          BY <5>1 DEF Glob, Rollout, OnDisk, Rolled
        <5>2. CASE form \notin {"zst", "torn"} /\ root = "archived"
          <6>1. Rolled = Rollout("archived", FALSE) /\ Globbed
            BY <4>1, <5>2 DEF Rolled, Globbed, Rollout
          <6> QED  BY <3>0, <6>1 DEF Glob
        <5>3. CASE root # "archived"
          BY <5>3 DEF Glob, Rollout, OnDisk
        <5> QED  BY <5>1, <5>2, <5>3
      <4> QED  BY <3>0, <4>1, <4>2, <4>3
    <3> QED  BY <1>4, <3>1, <3>2, <3>3, <3>4 DEF GlobAll
  <2>4. \A p \in RolloutPaths : CheckedOK(p)'
    BY <1>4, <2>2 DEF GlobAll, GlobStep, CheckedOK
  <2> QED
    BY <2>1, <2>2, <2>3, <2>4 DEF ScanInv, VerdictOK, Rolled, Met, codexDisk
<1>5. CASE EndRollouts
  <2>1. \A p \in RolloutPaths : verdicts'[p] = verdicts[p] \/ verdicts'[p].stat = 0
    BY <1>5 DEF EndRollouts
  <2>2. \A p \in RolloutPaths : VerdictOK(p)'
    BY <1>5, <2>1 DEF EndRollouts, ScanInv, VerdictOK, Met, codexDisk
  <2> QED
    BY <1>5, <2>2 DEF EndRollouts, ScanInv, ScanPlaces, CheckedOK, Globbed, codexDisk
<1>6. ASSUME NEW p \in RolloutPaths, CheckFile(p) PROVE ScanInv'
  <2>1. /\ UNCHANGED <<codexDisk, scan, active, decoding, verdicts, moved>>
        /\ p \in left /\ decoding = NoDecoding /\ left' = left \ {p}
        /\ usable' = usable \cup {q \in {p} : ~p.zst \/ (OnDisk(p) /\ verdicts[p].good)}
    BY <1>6 DEF CheckFile, Checked
  <2>2. ASSUME ~moved, NEW q \in RolloutPaths PROVE CheckedOK(q)'
    <3>1. CASE q = p
      <4>1. active = {Rolled} /\ p = Rolled
        BY <2>1, <2>2 DEF ScanInv
      <4>2. OnDisk(p)
        BY <4>1 DEF OnDisk, Rolled, Rollout, CodexTypes, Forms
      <4>3. p.zst => verdicts[p].stat = pack
        BY <1>6, <4>2 DEF CheckFile, Known, Stat
      <4> QED  BY <2>1, <3>1, <4>2, <4>3 DEF CheckedOK, ScanInv, codexDisk
    <3>2. CASE q # p
      BY <2>1, <2>2, <3>2 DEF CheckedOK, ScanInv, codexDisk
    <3> QED  BY <3>1, <3>2
  <2> QED
    BY <2>1, <2>2 DEF ScanInv, VerdictOK, Met, Rolled, Globbed, codexDisk
<1>7. ASSUME NEW p \in RolloutPaths, BeginDecode(p) PROVE ScanInv'
  <2>1. /\ UNCHANGED <<codexDisk, scan, active, left, usable, verdicts, moved>>
        /\ p \in left /\ p.zst /\ OnDisk(p) /\ decoding' = [path |-> p, stat |-> pack]
    BY <1>7 DEF BeginDecode
  <2>2. Met(p) /\ pack # 0 /\ pack \in Nat
    BY <2>1 DEF Met, OnDisk, CodexTypes
  <2>3. decoding'.path = p /\ decoding'.stat = pack /\ scan = "check"
    BY <2>1 DEF ScanInv
  <2>4. \A q \in RolloutPaths : VerdictOK(q)'
    BY <2>1 DEF ScanInv, VerdictOK, Met, codexDisk
  <2>5. ~moved' => /\ active' = {q \in {Rolled'} : Globbed'}
                   /\ \A q \in RolloutPaths : CheckedOK(q)'
    BY <2>1 DEF ScanInv, CheckedOK, Rolled, Globbed, codexDisk
  <2>6. Met(decoding.path)'
    BY <2>1, <2>2, <2>3 DEF Met, codexDisk
  <2> QED
    BY <2>1, <2>2, <2>3, <2>4, <2>5, <2>6 DEF ScanInv, codexDisk
<1>8. ASSUME NEW p \in RolloutPaths, EndDecode(p) PROVE ScanInv'
  <2>1. /\ UNCHANGED <<codexDisk, scan, active, moved>>
        /\ p \in left /\ decoding.path = p /\ left' = left \ {p} /\ decoding' = NoDecoding
        /\ usable' = usable \cup {q \in {p} : Decodes(p)}
        /\ verdicts' = [verdicts EXCEPT ![p] = [stat |-> decoding.stat, good |-> Decodes(p)]]
    BY <1>8 DEF EndDecode, Checked
  <2>20. NoDecoding.path \notin RolloutPaths
    BY DEF NoDecoding, NoPath, RolloutPaths, Roots
  <2>2. /\ decoding # NoDecoding /\ p.zst /\ Met(p) /\ decoding.stat # 0 /\ decoding.stat <= pack
        /\ scan = "check" /\ (~moved => decoding.stat = pack)
    BY <2>1, <2>20 DEF ScanInv
  <2>3. verdicts'[p] = [stat |-> decoding.stat, good |-> Decodes(p)]
        /\ \A q \in RolloutPaths \ {p} : verdicts'[q] = verdicts[q]
    BY <2>1 DEF CodexTypes
  <2>4. p.root = root /\ decoding.stat = pack => (Decodes(p) <=> form \in {"packed", "zst"})
    BY <2>2 DEF Decodes, Whole, OnDisk, Stat
  <2>5. \A q \in RolloutPaths : VerdictOK(q)'
    BY <2>1, <2>2, <2>3, <2>4 DEF ScanInv, VerdictOK, Met, codexDisk
  <2>6. ASSUME ~moved, NEW q \in RolloutPaths PROVE CheckedOK(q)'
    <3>1. CASE q = p
      <4>1. p \notin usable
        BY <2>1 DEF ScanInv
      <4> QED  BY <2>1, <2>2, <2>3, <2>6, <3>1, <4>1 DEF CheckedOK, codexDisk
    <3>2. CASE q # p
      BY <2>1, <2>3, <2>6, <3>2 DEF CheckedOK, ScanInv, codexDisk
    <3> QED  BY <3>1, <3>2
  <2> QED
    BY <2>1, <2>2, <2>5, <2>6 DEF ScanInv, Rolled, Globbed, codexDisk
<1>9. FinalOfFork => UNCHANGED <<codexDisk, codexList, moved>>
  BY DEF FinalOfFork, AskFinal, ReadFork, StatParent, EndFinal, EndFinalAlone
<1>10. UNCHANGED codexVars => UNCHANGED <<codexDisk, codexList, moved>>
  BY DEF codexVars
<1> QED
  BY <1>1, <1>2, <1>3, <1>4, <1>5, <1>6, <1>7, <1>8, <1>9, <1>10 DEF CodexNext, ListRollouts

\* At the end of such a list the path is listed, or its verdict is a true warning.
LEMMA EndIsOnce ==
  CodexTypes /\ ScanInv /\ EndRollouts /\ ~moved
    => Cardinality(rollouts') = 1 \/ (rollouts' = {} /\ form = "torn" /\ Warned)
<1> SUFFICES ASSUME CodexTypes, ScanInv, EndRollouts, ~moved
             PROVE  Cardinality(rollouts') = 1 \/ (rollouts' = {} /\ form = "torn" /\ Warned)
  OBVIOUS
<1>1. scan = "check" /\ left = {} /\ rollouts' = {p \in usable : OnDisk(p)}
  BY DEF EndRollouts
<1>2. active = {Rolled} /\ usable \subseteq {Rolled} /\ Rolled \in RolloutPaths
  BY <1>1 DEF ScanInv, Globbed, Rolled, Rollout, RolloutPaths, CodexTypes
<1>3. CheckedOK(Rolled) /\ VerdictOK(Rolled)
  BY <1>2 DEF ScanInv
<1>4. OnDisk(Rolled) /\ Rolled.root = root
  BY DEF OnDisk, Rolled, Rollout, CodexTypes, Forms
<1>5. CASE Rolled \in usable
  <2>1. rollouts' = {Rolled}
    BY <1>1, <1>2, <1>4, <1>5
  <2> QED  BY <2>1, FS_Singleton
<1>6. CASE Rolled \notin usable
  <2>1. rollouts' = {}
    BY <1>1, <1>2, <1>6
  <2>2. Rolled.zst /\ verdicts[Rolled].stat = pack /\ ~verdicts[Rolled].good
    BY <1>1, <1>2, <1>3, <1>6 DEF CheckedOK
  <2>3. form \in {"zst", "torn"} /\ pack # 0
    BY <2>2 DEF Rolled, Rollout, CodexTypes
  <2>4. form = "torn"
    BY <1>3, <1>4, <2>2, <2>3 DEF VerdictOK
  <2> QED  BY <1>2, <2>1, <2>2, <2>3, <2>4 DEF Warned
<1> QED  BY <1>5, <1>6

\* For any number of turns and of versions, a list during which the rollout did not
\* move has it once, or has none and warns of a file that is being written
\* (codexRolloutFiles, validateCompressed, ListError).
THEOREM ListedOnceStep == CodexSpec => RolloutListedOnce
<1>1. CodexTypes /\ ScanInv /\ [CodexNext]_codexVars
        => [EndRollouts /\ ~moved =>
              Cardinality(rollouts') = 1 \/ (rollouts' = {} /\ form = "torn" /\ Warned)]_codexVars
  BY EndIsOnce
<1> QED
  BY <1>1, InitCodex, CodexTypesKept, ScanKept, PTL DEF CodexSpec, RolloutListedOnce
-----------------------------------------------------------------------------
(***************************************************************************)
(* Hermes: a page has every message once, in order.                        *)
(* A row that is written again gets a content the first query did not see   *)
(* and no other row it saw will ever have, so the keys that are fetched      *)
(* differ, whenever each was; and the rows still to be fetched are behind    *)
(* those that are.                                                          *)
(***************************************************************************)

HermesRows == [key : Nat, active : BOOLEAN, compacted : BOOLEAN, only : BOOLEAN]
Chunks == UNION {[C -> [row : Nat, key : Nat]] : C \in SUBSET Nat}

HermesTypes ==
  /\ keys \in Nat
  /\ table \in Seq(HermesRows) /\ \A i \in DOMAIN table : table[i].key <= keys
  /\ first \in Seq(HermesRows) /\ \A i \in DOMAIN first : first[i].key <= keys
  /\ Len(first) <= Len(table)
  /\ page \in Seq(Chunks)

\* A key the first query did not see
Unseen(k) == \A j \in DOMAIN first : first[j].key # k

\* A row keeps its key or has one that nothing else of the first query has.
RowKept(i) ==
  \/ table[i].key = first[i].key
  \/ Unseen(table[i].key) /\ \A j \in DOMAIN first : table[j].key = table[i].key => j = i

\* Of a row that was read, its key then is the first one, or one of its own.
EntryKept(n, i) ==
  LET e == page[n][i] IN
  /\ i \in DOMAIN order \ unread /\ e.row = order[i] /\ e.key <= keys
  /\ \/ e.key = first[e.row].key
     \/ /\ Unseen(e.key) /\ Unseen(table[e.row].key)
        /\ \A j \in DOMAIN first : table[j].key = e.key => j = e.row

\* The chunks are in order, what is fetched is in them, and no key is in them twice.
HermesInv ==
  /\ HermesTypes
  /\ order \in Winners(first) /\ unread \subseteq DOMAIN order
  /\ \A i \in DOMAIN first : RowKept(i)
  /\ \A n \in DOMAIN page : \A i \in DOMAIN page[n] : EntryKept(n, i)
  /\ \A m, n \in DOMAIN page : m < n => \A i \in DOMAIN page[m], j \in DOMAIN page[n] : i < j
  /\ \A m, n \in DOMAIN page : \A i \in DOMAIN page[m], j \in DOMAIN page[n] :
       page[m][i].key = page[n][j].key => i = j
  /\ \A i \in DOMAIN order \ unread : \E n \in DOMAIN page : i \in DOMAIN page[n]
  /\ \A i \in DOMAIN order \ unread, j \in unread : i < j

\* A set of naturals that is not empty has a least.
LEMMA LeastOf == ASSUME NEW T \in SUBSET Nat, T # {}
  PROVE \E x \in T : \A y \in T : x <= y
<1> DEFINE R == {ss \in Nat \X Nat : ss[1] < ss[2]}
<1>1. IsWellFoundedOn(R, Nat)
  BY NatLessThanWellFounded DEF OpToRel
<1>3. \A x, y \in Nat : y < x => <<y, x>> \in R
  OBVIOUS
<1>2. \E x \in T : \A y \in T : ~(<<y, x>> \in R)
  <2> HIDE DEF R
  <2>1. T \subseteq Nat
    OBVIOUS
  <2> QED  BY ONLY <1>1, <2>1, T # {}, WFMin, Zenon
<1> HIDE DEF R
<1>4. PICK x \in T : \A y \in T : ~(<<y, x>> \in R)
  BY <1>2
<1>5. \A y \in T : ~(y < x)
  BY <1>3, <1>4, Zenon
<1>6. \A y \in T : x <= y
  BY <1>5
<1> QED  BY <1>6

\* A chunk is the lowest of the rows still to be fetched.
LEMMA ChunkIsLowest ==
  ASSUME NEW m \in Nat, unread \subseteq 1..m
  PROVE  NextChunk \subseteq unread /\ \A i \in NextChunk, j \in unread \ NextChunk : i < j
<1>1. NextChunk \subseteq unread
  BY DEF NextChunk
<1>2. ASSUME NEW i \in NextChunk, NEW j \in unread \ NextChunk, ~(i < j) PROVE FALSE
  <2> DEFINE Below(x) == {y \in unread : y < x}
  <2>1. i \in unread /\ i \in Nat /\ j \in Nat /\ unread \subseteq Nat
    BY <1>1, <1>2
  <2>2. Below(j) \subseteq Below(i)
    <3>1. j <= i
      BY <1>2, <2>1
    <3>2. \A y \in Nat : y < j => y < i
      BY <2>1, <3>1
    <3> QED  BY <2>1, <3>2
  <2>3. IsFiniteSet(Below(i))
    <3>0. 1 \in Int /\ m \in Int
      OBVIOUS
    <3>1. IsFiniteSet(1..m)
      BY <3>0, FS_Interval, Zenon
    <3> QED  BY <3>1, FS_Subset
  <2>4. Cardinality(Below(j)) <= Cardinality(Below(i)) /\ Cardinality(Below(i)) \in Nat
        /\ Cardinality(Below(j)) \in Nat
    BY <2>2, <2>3, FS_Subset, FS_CardinalityType
  <2>5. Cardinality(Below(i)) < FetchChunk /\ ~(Cardinality(Below(j)) < FetchChunk)
    BY <1>2 DEF NextChunk
  <2> QED  BY <2>4, <2>5, HermesAssumption
<1> QED  BY <1>1, <1>2

LEMMA WinnersAreCopies ==
  ASSUME first \in Seq(HermesRows), order \in Winners(first)
  PROVE  /\ DOMAIN order = FirstRows(first) /\ DOMAIN order \subseteq DOMAIN first
         /\ \A i \in DOMAIN order : order[i] \in Copies(first, i)
         /\ \A i \in DOMAIN order : order[i] \in DOMAIN first /\ first[order[i]].key = first[i].key
         /\ \A i, j \in DOMAIN order : first[i].key = first[j].key => i = j
<1>1. DOMAIN order = FirstRows(first) /\ \A i \in DOMAIN order : order[i] \in Best(first, i)
  BY DEF Winners
<1>2. DOMAIN order \subseteq DOMAIN first
  BY <1>1 DEF FirstRows, ShownRows
<1>3. \A i : Best(first, i) \subseteq Copies(first, i)
  BY DEF Best
<1>4. \A i : Copies(first, i) \subseteq DOMAIN first /\ \A j \in Copies(first, i) : first[j].key = first[i].key
  BY DEF Copies, ShownRows
<1>5. ASSUME NEW i \in DOMAIN order, NEW j \in DOMAIN order, first[i].key = first[j].key PROVE i = j
  <2>1. i \in Copies(first, j) /\ j \in Copies(first, i)
    BY <1>1, <1>5 DEF FirstRows, Copies
  <2>2. i <= j /\ j <= i
    BY <1>1, <2>1 DEF FirstRows
  <2>3. i \in Nat /\ j \in Nat
    BY <1>2
  <2> QED  BY <2>2, <2>3
<1> QED  BY <1>1, <1>2, <1>3, <1>4, <1>5

LEMMA EntriesTyped ==
  ASSUME page \in Seq(Chunks), NEW n \in DOMAIN page, NEW i \in DOMAIN page[n]
  PROVE  page[n][i] \in [row : Nat, key : Nat]
<1>1. page[n] \in Chunks
  OBVIOUS
<1>2. PICK C \in SUBSET Nat : page[n] \in [C -> [row : Nat, key : Nat]]
  BY <1>1 DEF Chunks
<1> QED  BY <1>2

\* t has the keys of the table, but for a new one in row r.
RekeyedAt(r, t) == \A i \in DOMAIN table : t[i].key = table[i].key \/ (i = r /\ t[i].key = keys + 1)

\* What Hermes commits: rows are added, folded, or one of them written again.
LEMMA CommitKept ==
  ASSUME HermesInv, NEW t \in Seq(HermesRows), NEW k \in Nat, keys <= k,
         Commits(t, k), Len(table) <= Len(t), \A i \in DOMAIN t : t[i].key <= k,
         NEW r, RekeyedAt(r, t)
  PROVE  HermesInv'
<1>1. table' = t /\ keys' = k /\ UNCHANGED hermesRead
  BY DEF Commits
<1>2. DOMAIN first \subseteq DOMAIN table /\ DOMAIN first \subseteq DOMAIN t
  BY DEF HermesInv, HermesTypes
<1>0. /\ \A i \in DOMAIN table : table[i] \in HermesRows
      /\ \A i \in DOMAIN first : first[i] \in HermesRows /\ first[i].key <= keys
      /\ \A i \in DOMAIN table : table[i].key <= keys
      /\ keys \in Nat
  BY DEF HermesInv, HermesTypes
<1>3. HermesTypes'
  <2>1. \A i \in DOMAIN first : first[i].key <= k
    BY <1>0 DEF HermesRows
  <2>2. Len(first) <= Len(t)
    BY DEF HermesInv, HermesTypes
  <2>3. UNCHANGED <<first, page>>
    BY <1>1 DEF hermesRead
  <2> QED  BY <1>1, <2>1, <2>2, <2>3 DEF HermesInv, HermesTypes
<1>4. Unseen(keys + 1) /\ (\A x : Unseen(x)' = Unseen(x))
  BY <1>1 DEF HermesInv, HermesTypes, Unseen, hermesRead
<1>5. \A i \in DOMAIN first : table[i].key \in Nat /\ table[i].key # keys + 1
  <2> SUFFICES ASSUME NEW i \in DOMAIN first
               PROVE  table[i].key \in Nat /\ table[i].key # keys + 1
    OBVIOUS
  <2>1. table[i] \in HermesRows /\ table[i].key <= keys
    BY <1>0, <1>2
  <2> QED  BY <1>0, <2>1 DEF HermesRows
<1>6. \A i \in DOMAIN first : \/ t[i].key = table[i].key
                              \/ i = r /\ t[i].key = keys + 1
  BY <1>2 DEF RekeyedAt
<1>7. ASSUME NEW i \in DOMAIN first PROVE RowKept(i)'
  <2>1. RowKept(i)
    BY DEF HermesInv
  <2> SUFFICES t[i].key = first[i].key \/ (Unseen(t[i].key) /\ \A j \in DOMAIN first : t[j].key = t[i].key => j = i)
    BY <1>1, <1>4 DEF RowKept, hermesRead
  <2>2. CASE t[i].key = keys + 1
    BY <1>4, <1>5, <1>6, <2>2
  <2>3. CASE t[i].key = table[i].key
    BY <1>5, <1>6, <2>1, <2>3 DEF RowKept
  <2> QED  BY <1>6, <2>2, <2>3
<1>8. ASSUME NEW n \in DOMAIN page, NEW i \in DOMAIN page[n] PROVE EntryKept(n, i)'
  <2> DEFINE e == page[n][i]
  <2>1. EntryKept(n, i)
    BY DEF HermesInv
  <2>2. i \in DOMAIN order \ unread /\ e.row = order[i] /\ e.key <= keys /\ e.row \in DOMAIN first
    BY <2>1, WinnersAreCopies DEF EntryKept, HermesInv, HermesTypes
  <2>3. e.key \in Nat
    BY EntriesTyped DEF HermesInv, HermesTypes
  <2>4. e.key <= k /\ e.key # keys + 1
    BY <2>2, <2>3 DEF HermesInv, HermesTypes
  <2>5. \/ e.key = first[e.row].key
        \/ /\ Unseen(e.key) /\ Unseen(t[e.row].key)
           /\ \A j \in DOMAIN first : t[j].key = e.key => j = e.row
    BY <1>4, <1>6, <2>1, <2>2, <2>4 DEF EntryKept
  <2> QED  BY <1>1, <1>4, <2>2, <2>4, <2>5 DEF EntryKept, hermesRead
<1>9. UNCHANGED <<order, unread, page, first>>
  BY <1>1 DEF hermesRead
<1>10. /\ order' \in Winners(first') /\ unread' \subseteq DOMAIN order'
       /\ \A m, n \in DOMAIN page' : m < n => \A i \in DOMAIN page'[m], j \in DOMAIN page'[n] : i < j
       /\ \A m, n \in DOMAIN page' : \A i \in DOMAIN page'[m], j \in DOMAIN page'[n] :
            page'[m][i].key = page'[n][j].key => i = j
       /\ \A i \in DOMAIN order' \ unread' : \E n \in DOMAIN page' : i \in DOMAIN page'[n]
       /\ \A i \in DOMAIN order' \ unread', j \in unread' : i < j
  BY <1>9 DEF HermesInv
<1> QED  BY <1>3, <1>7, <1>8, <1>9, <1>10 DEF HermesInv

LEMMA HermesWrites ==
  ASSUME HermesInv, Insert \/ Undo \/ Compression \/ Rewrite \/ LooksHot
  PROVE  HermesInv'
<1>0. /\ keys \in Nat /\ keys + 1 \in Nat /\ keys <= keys + 1 /\ keys <= keys
      /\ table \in Seq(HermesRows) /\ Len(table) \in Nat
      /\ \A i \in DOMAIN table : table[i] \in HermesRows /\ table[i].key <= keys /\ table[i].key \in Nat
  <2>1. /\ keys \in Nat /\ table \in Seq(HermesRows)
        /\ \A i \in DOMAIN table : table[i] \in HermesRows /\ table[i].key <= keys
    BY DEF HermesInv, HermesTypes
  <2> QED  BY <2>1 DEF HermesRows
<1>1. CASE Insert
  <2>1. PICK only \in BOOLEAN : Commits(Append(table, Row(keys + 1, only)), keys + 1)
    BY <1>1 DEF Insert
  <2> DEFINE t == Append(table, Row(keys + 1, only))
  <2>2. Row(keys + 1, only) \in HermesRows /\ Row(keys + 1, only).key = keys + 1
    BY <1>0 DEF Row, HermesRows
  <2>3. /\ t \in Seq(HermesRows) /\ Len(table) <= Len(t)
        /\ \A i \in DOMAIN t : t[i].key <= keys + 1
        /\ \A i \in DOMAIN table : t[i].key = table[i].key
    BY <1>0, <2>2
  <2>4. RekeyedAt(0, t)
    BY <2>3 DEF RekeyedAt
  <2> QED  BY <1>0, <2>1, <2>3, <2>4, CommitKept
<1>2. CASE Undo
  <2>1. PICK i \in DOMAIN table : Commits([table EXCEPT ![i].active = FALSE], keys)
    BY <1>2 DEF Undo
  <2> DEFINE t == [table EXCEPT ![i].active = FALSE]
  <2>2. t \in Seq(HermesRows) /\ Len(table) <= Len(t) /\ DOMAIN t = DOMAIN table
        /\ \A j \in DOMAIN table : t[j].key = table[j].key
    <3>1. [table[i] EXCEPT !.active = FALSE] \in HermesRows
          /\ [table[i] EXCEPT !.active = FALSE].key = table[i].key
      BY <1>0 DEF HermesRows
    <3>2. t = [table EXCEPT ![i] = [table[i] EXCEPT !.active = FALSE]]
      OBVIOUS
    <3> QED  BY <1>0, <3>1, <3>2
  <2>3. \A j \in DOMAIN t : t[j].key <= keys
    BY <1>0, <2>2
  <2>4. RekeyedAt(0, t)
    BY <2>2 DEF RekeyedAt
  <2>5. Commits(t, keys)
    BY <2>1
  <2> HIDE DEF t
  <2> QED  BY <1>0, <2>2, <2>3, <2>4, <2>5, CommitKept
<1>3. CASE Rewrite
  <2>1. PICK i \in DOMAIN table : Commits([table EXCEPT ![i].key = keys + 1], keys + 1)
    BY <1>3 DEF Rewrite
  <2> DEFINE t == [table EXCEPT ![i].key = keys + 1]
  <2>2. /\ t \in Seq(HermesRows) /\ Len(table) <= Len(t) /\ DOMAIN t = DOMAIN table
        /\ \A j \in DOMAIN table : t[j].key = table[j].key \/ (j = i /\ t[j].key = keys + 1)
    <3>1. [table[i] EXCEPT !.key = keys + 1] \in HermesRows
          /\ [table[i] EXCEPT !.key = keys + 1].key = keys + 1
      BY <1>0 DEF HermesRows
    <3>2. t = [table EXCEPT ![i] = [table[i] EXCEPT !.key = keys + 1]]
      OBVIOUS
    <3> QED  BY <1>0, <3>1, <3>2
  <2>3. \A j \in DOMAIN t : t[j].key <= keys + 1
    BY <1>0, <2>2
  <2>4. Commits(t, keys + 1) /\ t \in Seq(HermesRows) /\ Len(table) <= Len(t)
    BY <2>1, <2>2
  <2>5. RekeyedAt(i, t)
    BY <2>2 DEF RekeyedAt
  <2> HIDE DEF t
  <2> QED  BY <1>0, <2>3, <2>4, <2>5, CommitKept
<1>4. CASE Compression
  <2> DEFINE folded == [j \in DOMAIN table |->
                          IF table[j].active THEN [table[j] EXCEPT !.active = FALSE, !.compacted = TRUE]
                                             ELSE table[j]]
  <2>1. PICK i \in DOMAIN table : Commits(Append(folded, Row(table[i].key, table[i].only)), keys)
    BY <1>4 DEF Compression
  <2>2. \A j \in DOMAIN table : folded[j] \in HermesRows /\ folded[j].key = table[j].key
    BY <1>0 DEF HermesRows
  <2>3. folded \in Seq(HermesRows) /\ Len(folded) = Len(table)
    <3>1. PICK m \in Nat : DOMAIN table = 1..m /\ Len(table) = m
      BY <1>0
    <3>2. DOMAIN folded = 1..m /\ \A j \in 1..m : folded[j] \in HermesRows
      BY <2>2, <3>1
    <3>3. folded \in [1..m -> HermesRows]
      BY <3>1, <3>2
    <3> HIDE DEF folded
    <3> QED  BY <3>1, <3>3
  <2>4. Row(table[i].key, table[i].only) \in HermesRows
        /\ Row(table[i].key, table[i].only).key = table[i].key
    BY <1>0 DEF Row, HermesRows
  <2> DEFINE t == Append(folded, Row(table[i].key, table[i].only))
  <2> HIDE DEF folded
  <2>5. /\ t \in Seq(HermesRows) /\ Len(table) <= Len(t)
        /\ \A j \in DOMAIN t : t[j].key <= keys
        /\ \A j \in DOMAIN table : t[j].key = table[j].key
    <3>1. \A j \in DOMAIN folded : folded[j].key = table[j].key /\ j \in DOMAIN table
      BY <1>0, <2>2, <2>3
    <3>2. /\ t \in Seq(HermesRows) /\ DOMAIN t = DOMAIN folded \cup {Len(folded) + 1}
          /\ t[Len(folded) + 1].key = table[i].key /\ \A j \in DOMAIN folded : t[j] = folded[j]
          /\ Len(t) = Len(folded) + 1
      BY <2>3, <2>4
    <3>3. Len(table) <= Len(t)
      BY <1>0, <2>3, <3>2
    <3>4. table[i].key <= keys
      BY <1>0
    <3> HIDE DEF t
    <3>5. DOMAIN folded = DOMAIN table
      BY DEF folded
    <3> HIDE DEF folded
    <3> QED  BY <1>0, <2>3, <3>1, <3>2, <3>3, <3>4, <3>5
  <2>6. Commits(t, keys) /\ RekeyedAt(0, t)
    BY <2>1, <2>5 DEF RekeyedAt
  <2> HIDE DEF t
  <2> QED  BY <1>0, <2>5, <2>6, CommitKept
<1>5. CASE LooksHot
  BY <1>5 DEF LooksHot, hermesRead, HermesInv, HermesTypes, RowKept, EntryKept, Unseen
<1> QED  BY <1>1, <1>2, <1>3, <1>4, <1>5

LEMMA FetchKept ==
  ASSUME HermesInv, FetchRows
  PROVE  HermesInv'
<1> DEFINE N == Len(page) + 1
           C == NextChunk
           E(i) == [row |-> order[i], key |-> table[order[i]].key]
           new == [i \in C |-> E(i)]
<1>1. /\ page' = Append(page, new) /\ unread' = unread \ C
      /\ UNCHANGED <<table, keys, order, first>>
  BY DEF FetchRows, hermesDB
<1>2. C \subseteq unread /\ (\A i \in C, j \in unread \ C : i < j)
  <2>1. PICK m \in Nat : DOMAIN first = 1..m
    BY DEF HermesInv, HermesTypes
  <2> QED  BY <2>1, ChunkIsLowest, WinnersAreCopies DEF HermesInv, HermesTypes
<1>3. /\ DOMAIN order \subseteq DOMAIN first /\ unread \subseteq DOMAIN order
      /\ \A i \in DOMAIN order : order[i] \in DOMAIN first /\ first[order[i]].key = first[i].key
      /\ \A i, j \in DOMAIN order : first[i].key = first[j].key => i = j
      /\ DOMAIN first \subseteq DOMAIN table /\ DOMAIN first \subseteq Nat
  BY WinnersAreCopies DEF HermesInv, HermesTypes
<1>4. \A i \in DOMAIN first : table[i].key \in Nat /\ table[i].key <= keys
  <2>1. \A i \in DOMAIN table : table[i] \in HermesRows /\ table[i].key <= keys
    BY DEF HermesInv, HermesTypes
  <2> QED  BY <1>3, <2>1 DEF HermesRows
<1>5. new \in Chunks
  <2>1. C \subseteq Nat /\ \A i \in C : E(i) \in [row : Nat, key : Nat]
    BY <1>2, <1>3, <1>4
  <2> QED  BY <2>1 DEF Chunks
<1>6. /\ page' \in Seq(Chunks) /\ DOMAIN page' = DOMAIN page \cup {N}
      /\ page'[N] = new /\ (\A n \in DOMAIN page : page'[n] = page[n] /\ n < N) /\ N \in Nat
  <2>1. page \in Seq(Chunks)
    BY DEF HermesInv, HermesTypes
  <2> HIDE DEF new
  <2> QED  BY <1>1, <1>5, <2>1
<1>7. DOMAIN new = C /\ \A i \in C : new[i].row = order[i] /\ new[i].key = table[order[i]].key
  OBVIOUS
<1> HIDE DEF new, N, C
<1>8. HermesTypes'
  BY <1>1, <1>6 DEF HermesInv, HermesTypes
<1>9. ASSUME NEW n \in DOMAIN page', NEW i \in DOMAIN page'[n] PROVE EntryKept(n, i)'
  <2>1. CASE n \in DOMAIN page
    <3>1. EntryKept(n, i) /\ page'[n] = page[n]
      BY <1>6, <1>9, <2>1 DEF HermesInv
    <3> QED  BY <1>1, <3>1 DEF EntryKept, Unseen
  <2>2. CASE n = N
    <3>1. i \in C /\ i \in unread /\ i \in DOMAIN order /\ order[i] \in DOMAIN first
      BY <1>2, <1>3, <1>6, <1>7, <1>9, <2>2
    <3>2. RowKept(order[i])
      BY <3>1 DEF HermesInv
    <3> QED  BY <1>1, <1>4, <1>6, <1>7, <2>2, <3>1, <3>2 DEF EntryKept, RowKept, Unseen
  <2> QED  BY <1>6, <2>1, <2>2
<1>10. ASSUME NEW m \in DOMAIN page, NEW i \in DOMAIN page[m], NEW j \in C
       PROVE  i < j /\ page[m][i].key # new[j].key
  <2>1. EntryKept(m, i)
    BY DEF HermesInv
  <2>2. i \in DOMAIN order \ unread /\ j \in unread /\ j \in DOMAIN order
    BY <1>2, <1>3, <2>1 DEF EntryKept
  <2>3. i < j
    BY <2>2 DEF HermesInv
  <2>4. i # j /\ order[i] # order[j] /\ first[i].key # first[j].key
    BY <1>3, <2>2, <2>3
  <2>5. RowKept(order[j]) /\ order[j] \in DOMAIN first
    BY <1>3, <2>2 DEF HermesInv
  <2>6. page[m][i].row = order[i]
    BY <2>1 DEF EntryKept
  <2>9. new[j].key = table[order[j]].key /\ order[i] \in DOMAIN first
        /\ first[order[i]].key = first[i].key /\ first[order[j]].key = first[j].key
    BY <1>3, <1>7, <2>2
  <2>7. CASE page[m][i].key = first[order[i]].key
    BY <2>3, <2>4, <2>5, <2>7, <2>9 DEF RowKept, Unseen
  <2>8. CASE \A x \in DOMAIN first : table[x].key = page[m][i].key => x = order[i]
    BY <2>3, <2>4, <2>5, <2>8, <2>9
  <2> QED  BY <2>1, <2>3, <2>6, <2>7, <2>8 DEF EntryKept
<1>11. ASSUME NEW i \in C, NEW j \in C, new[i].key = new[j].key PROVE i = j
  <2>1. i \in DOMAIN order /\ j \in DOMAIN order /\ order[i] \in DOMAIN first /\ order[j] \in DOMAIN first
    BY <1>2, <1>3
  <2>2. RowKept(order[i]) /\ RowKept(order[j])
    BY <2>1 DEF HermesInv
  <2>3. table[order[i]].key = table[order[j]].key
    BY <1>7, <1>11
  <2>4. order[i] = order[j] \/ first[order[i]].key = first[order[j]].key
    BY <2>1, <2>2, <2>3 DEF RowKept, Unseen
  <2>5. first[i].key = first[j].key
    BY <1>3, <2>1, <2>4
  <2> QED  BY <1>3, <2>1, <2>5
<1>12. \A m, n \in DOMAIN page' : m < n => \A i \in DOMAIN page'[m], j \in DOMAIN page'[n] : i < j
  <2> SUFFICES ASSUME NEW m \in DOMAIN page', NEW n \in DOMAIN page', m < n,
                      NEW i \in DOMAIN page'[m], NEW j \in DOMAIN page'[n]
               PROVE  i < j
    OBVIOUS
  <2>1. m \in DOMAIN page
    <3>1. n \in Nat /\ n <= N /\ m \in Nat
      BY <1>6 DEF HermesInv, HermesTypes
    <3> QED  BY <1>6, <3>1
  <2>2. CASE n \in DOMAIN page
    BY <1>6, <2>1, <2>2 DEF HermesInv
  <2>3. CASE n = N
    BY <1>6, <1>7, <1>10, <2>1, <2>3
  <2> QED  BY <1>6, <2>2, <2>3
<1>13. \A m, n \in DOMAIN page' : \A i \in DOMAIN page'[m], j \in DOMAIN page'[n] :
         page'[m][i].key = page'[n][j].key => i = j
  <2> SUFFICES ASSUME NEW m \in DOMAIN page', NEW n \in DOMAIN page',
                      NEW i \in DOMAIN page'[m], NEW j \in DOMAIN page'[n],
                      page'[m][i].key = page'[n][j].key
               PROVE  i = j
    OBVIOUS
  <2>1. CASE m \in DOMAIN page /\ n \in DOMAIN page
    BY <1>6, <2>1 DEF HermesInv
  <2>2. CASE m \in DOMAIN page /\ n = N
    BY <1>6, <1>7, <1>10, <2>2
  <2>3. CASE n \in DOMAIN page /\ m = N
    BY <1>6, <1>7, <1>10, <2>3
  <2>4. CASE m = N /\ n = N
    BY <1>6, <1>7, <1>11, <2>4
  <2> QED  BY <1>6, <2>1, <2>2, <2>3, <2>4
<1>14. ASSUME NEW i \in DOMAIN order \ unread' PROVE \E n \in DOMAIN page' : i \in DOMAIN page'[n]
  <2>1. CASE i \in C
    BY <1>6, <1>7, <2>1
  <2>2. CASE i \notin unread
    <3>1. PICK n \in DOMAIN page : i \in DOMAIN page[n]
      BY <2>2 DEF HermesInv
    <3> QED  BY <1>6, <3>1
  <2> QED  BY <1>1, <2>1, <2>2
<1>15. \A i \in DOMAIN order \ unread', j \in unread' : i < j
  BY <1>1, <1>2 DEF HermesInv
<1> QED
  BY <1>1, <1>8, <1>9, <1>12, <1>13, <1>14, <1>15 DEF HermesInv, RowKept, Unseen

LEMMA HermesInvariance == HermesSpec => []HermesInv
<1>1. HermesInit => HermesInv
  <2> SUFFICES ASSUME HermesInit PROVE HermesInv
    OBVIOUS
  <2>1. table = <<Row(1, FALSE)>> /\ keys = 1 /\ order = <<>> /\ unread = {} /\ page = <<>> /\ first = <<>>
    BY DEF HermesInit
  <2>2. Row(1, FALSE) \in HermesRows /\ Row(1, FALSE).key = 1
    BY DEF Row, HermesRows
  <2>3. HermesTypes
    <3>0. PICK row : row = Row(1, FALSE)
      OBVIOUS
    <3>1. table = <<row>> /\ row \in HermesRows /\ row.key = 1
      BY <2>1, <2>2, <3>0
    <3>2. table \in Seq(HermesRows)
      BY <3>1
    <3>6. DOMAIN table = {1} /\ table[1] = row
      BY <3>1
    <3>7. \A i \in DOMAIN table : table[i].key <= keys
      <4> SUFFICES ASSUME NEW i \in DOMAIN table PROVE table[i].key <= keys
        OBVIOUS
      <4>1. table[i] = row /\ row.key = 1 /\ keys = 1
        BY <2>1, <3>1, <3>6
      <4>2. table[i].key = 1 /\ 1 <= 1
        BY <4>1
      <4> QED  BY <4>1, <4>2
    <3>4. <<>> \in Seq(HermesRows)
      OBVIOUS
    <3>5. <<>> \in Seq(Chunks)
      OBVIOUS
    <3>3. Len(first) <= Len(table) /\ keys \in Nat /\ \A i \in DOMAIN first : first[i].key <= keys
      BY <2>1
    <3> QED  BY <2>1, <3>2, <3>3, <3>4, <3>5, <3>7 DEF HermesTypes
  <2>4. order \in Winners(first)
    BY <2>1 DEF Winners, FirstRows, ShownRows
  <2> QED  BY <2>1, <2>3, <2>4 DEF HermesInv
<1>2. HermesInv /\ [HermesNext]_hermesVars => HermesInv'
  <2> SUFFICES ASSUME HermesInv, [HermesNext]_hermesVars PROVE HermesInv'
    OBVIOUS
  <2>1. CASE UNCHANGED <<table, keys, order, unread, page, first>>
    BY <2>1 DEF HermesInv, HermesTypes, RowKept, EntryKept, Unseen
  <2>2. CASE ReadFirst
    <3>1. /\ order' \in Winners(table) /\ unread' = DOMAIN order' /\ page' = <<>> /\ first' = table
          /\ UNCHANGED <<table, keys>>
      BY <2>2 DEF ReadFirst, hermesDB
    <3>2. HermesTypes'
      BY <3>1 DEF HermesInv, HermesTypes
    <3> QED  BY <3>1, <3>2 DEF HermesInv, RowKept
  <2>3. AskPage \/ Refused \/ ReturnPage \/ UNCHANGED hermesVars
          => UNCHANGED <<table, keys, order, unread, page, first>>
    BY DEF AskPage, Refused, ReturnPage, hermesVars, hermesDB, hermesRead
  <2> QED  BY <2>1, <2>2, <2>3, HermesWrites, FetchKept DEF HermesNext
<1> QED  BY <1>1, <1>2, PTL DEF HermesSpec

\* A page that is returned was fetched to its end.
HermesPlace == reading = "done" => unread = {}

\* For any number of rows, contents, refused attempts and any size of the chunks, a
\* page that was read to its end has every message once that the session shows from
\* the first query to the last, in their order, and no other (hermesMessagesFrom,
\* readHermesDB).
THEOREM PageIsExact == HermesSpec => []HermesPageExact
<1>1. HermesInit => HermesPlace
  BY DEF HermesInit, HermesPlace
<1>2. HermesPlace /\ [HermesNext]_hermesVars => HermesPlace'
  BY DEF HermesPlace, HermesNext, Insert, Undo, Compression, Rewrite, Commits, LooksHot, AskPage,
         ReadFirst, Refused, FetchRows, ReturnPage, hermesVars, hermesDB, hermesRead
<1>3. HermesInv /\ HermesPlace => HermesPageExact
  <2> SUFFICES ASSUME HermesInv, unread = {}
               PROVE  /\ \A d, e \in Entries : Entry(d).key = Entry(e).key => d = e
                      /\ Lasting \subseteq {Entry(e).key : e \in Entries}
                      /\ \A e \in Entries : e[2] \in FirstRows(first) /\ Entry(e).row \in Copies(first, e[2])
                      /\ \A d, e \in Entries : d[1] < e[1] => d[2] < e[2]
    BY DEF HermesPlace, HermesPageExact
  <2>1. \A e \in Entries : /\ e = <<e[1], e[2]>> /\ e[1] \in DOMAIN page /\ e[2] \in DOMAIN page[e[1]]
    BY DEF Entries
  <2>2. \A n \in DOMAIN page : \A i \in DOMAIN page[n] : <<n, i>> \in Entries
    BY DEF Entries
  <2>3. \A e \in Entries : EntryKept(e[1], e[2])
    BY <2>1 DEF HermesInv
  <2>4. \A d, e \in Entries : d[1] < e[1] => d[2] < e[2]
    BY <2>1 DEF HermesInv
  <2>5. /\ DOMAIN order = FirstRows(first) /\ DOMAIN order \subseteq DOMAIN first
        /\ \A i \in DOMAIN order : order[i] \in Copies(first, i)
        /\ \A i \in DOMAIN order : order[i] \in DOMAIN first /\ first[order[i]].key = first[i].key
    BY WinnersAreCopies DEF HermesInv, HermesTypes
  <2>6. \A e \in Entries : e[2] \in FirstRows(first) /\ Entry(e).row \in Copies(first, e[2])
    BY <2>3, <2>5 DEF EntryKept, Entry
  <2>7. ASSUME NEW d \in Entries, NEW e \in Entries, Entry(d).key = Entry(e).key PROVE d = e
    <3>1. d[2] = e[2]
      BY <2>1, <2>7 DEF HermesInv, Entry
    <3>2. d[1] \in Nat /\ e[1] \in Nat /\ d[2] \in Nat
      BY <2>1, <2>3, <2>5 DEF HermesInv, HermesTypes, EntryKept
    <3>3. ~(d[1] < e[1]) /\ ~(e[1] < d[1])
      BY <2>4, <3>1, <3>2
    <3> QED  BY <2>1, <3>1, <3>2, <3>3
  <2>8. ASSUME NEW k \in Lasting PROVE \E e \in Entries : Entry(e).key = k
    <3>1. PICK x \in ShownRows(first) : first[x].key = k
      BY <2>8 DEF Lasting
    <3>2. \A i \in DOMAIN first : first[i].key = k => table[i].key = k
      BY <2>8 DEF Lasting
    <3>3. \E i \in FirstRows(first) : first[i].key = k
      <4> DEFINE S == Copies(first, x)
      <4>1. S \subseteq Nat /\ x \in S
        BY <3>1 DEF Copies, ShownRows, HermesInv, HermesTypes
      <4>2. PICK i \in S : \A j \in S : i <= j
        BY <4>1, LeastOf
      <4>3. first[i].key = k /\ i \in ShownRows(first) /\ Copies(first, i) = S
        BY <3>1, <4>2 DEF Copies
      <4> QED  BY <4>2, <4>3 DEF FirstRows
    <3>4. PICK i \in FirstRows(first) : first[i].key = k
      BY <3>3
    <3>5. PICK n \in DOMAIN page : i \in DOMAIN page[n]
      BY <2>5, <3>4 DEF HermesInv
    <3>6. EntryKept(n, i)
      BY <3>5 DEF HermesInv
    <3>7. page[n][i].row = order[i] /\ first[order[i]].key = k /\ order[i] \in DOMAIN first
          /\ table[order[i]].key = k
      BY <2>5, <3>2, <3>4, <3>6 DEF EntryKept
    <3>8. page[n][i].key = k
      BY <3>6, <3>7 DEF EntryKept, Unseen
    <3> QED  BY <2>2, <3>5, <3>8 DEF Entry
  <2> QED  BY <2>4, <2>6, <2>7, <2>8
<1> QED  BY <1>1, <1>2, <1>3, HermesInvariance, PTL DEF HermesSpec

-----------------------------------------------------------------------------
(***************************************************************************)
(* Claude: no conversation is hidden by its copies.                         *)
(* Every stat is taken before the read it stands for, so a file whose stat  *)
(* is still the one that was taken is the file that was read; and two files *)
(* of the group share only what was there before the first stat, so a copy  *)
(* has nothing within its size that its target lacks within its own.        *)
(***************************************************************************)

\* Min of naturals is one of them.
LEMMA MinIsIn ==
  ASSUME NEW S \in SUBSET Nat, S # {}
  PROVE  Min(S) \in S
<1>1. PICK x \in S : \A y \in S : x <= y
  BY LeastOf
<1> QED  BY <1>1 DEF Min

\* A set of files from which no copy leads out
Closed(files, of) == \A f \in files : of[f] # 0 => of[f] \in files

\* The files on the way from p are the least set with p that no copy leads out of.
LEMMA AlongIsLeast ==
  ASSUME NEW of, NEW p \in Paths, NEW S \in SUBSET Paths, p \in S, Closed(S, of)
  PROVE  Along(p, of) \subseteq S
BY DEF Along, Closed

\* p is on its way, and no copy leads off it.
LEMMA AlongHas ==
  ASSUME NEW of \in [Paths -> Paths \cup {0}], NEW p \in Paths
  PROVE  p \in Along(p, of) /\ Closed(Along(p, of), of) /\ Along(p, of) \subseteq Paths
<1>1. p \in Along(p, of) /\ Along(p, of) \subseteq Paths
  BY DEF Along
<1>2. ASSUME NEW f \in Along(p, of), of[f] # 0 PROVE of[f] \in Along(p, of)
  <2>1. f \in Paths /\ of[f] \in Paths
    BY <1>1, <1>2
  <2>2. ASSUME NEW S \in SUBSET Paths, p \in S, \A g \in S : of[g] # 0 => of[g] \in S PROVE of[f] \in S
    <3>1. f \in S
      BY <2>2 DEF Along
    <3> QED  BY <1>2, <2>2, <3>1
  <2> QED  BY <2>1, <2>2 DEF Along
<1> QED  BY <1>1, <1>2 DEF Closed

\* The way goes on from each of its files.
LEMMA AlongOn ==
  ASSUME NEW of \in [Paths -> Paths \cup {0}], NEW p \in Paths, NEW q \in Along(p, of)
  PROVE  q \in Paths /\ Along(q, of) \subseteq Along(p, of)
BY AlongHas, AlongIsLeast

\* Two files on the way from p are on the way from one another, one way or both.
LEMMA AlongIsLine ==
  ASSUME NEW of \in [Paths -> Paths \cup {0}], NEW p \in Paths,
         NEW q \in Along(p, of), NEW r \in Along(p, of)
  PROVE  r \in Along(q, of) \/ q \in Along(r, of)
<1> DEFINE S == Along(q, of) \cup {f \in Along(p, of) : q \in Along(f, of)}
<1>1. q \in Paths /\ Along(q, of) \subseteq Along(p, of) /\ Along(p, of) \subseteq Paths
  BY AlongOn, AlongHas
<1>2. p \in S
  BY AlongHas
<1>3. ASSUME NEW f \in S, of[f] # 0 PROVE of[f] \in S
  <2>1. CASE f \in Along(q, of)
    BY <1>1, <1>3, <2>1, AlongHas DEF Closed
  <2>2. CASE f \in Along(p, of) /\ q \in Along(f, of) /\ f # q
    <3>1. f \in Paths /\ of[f] \in Along(p, of) /\ of[f] \in Paths
      BY <1>1, <1>3, <2>2, AlongHas DEF Closed
    <3>2. q \in Along(of[f], of)
      <4> DEFINE U == {f} \cup Along(of[f], of)
      <4>1. Closed(U, of) /\ U \subseteq Paths
        BY <3>1, AlongHas DEF Closed
      <4>2. Along(f, of) \subseteq U
        BY <3>1, <4>1, AlongIsLeast
      <4> QED  BY <2>2, <4>2
    <3> QED  BY <3>1, <3>2
  <2>3. CASE f = q
    BY <1>1, <1>3, <2>3, AlongHas DEF Closed
  <2> QED  BY <1>3, <2>1, <2>2, <2>3
<1>4. Along(p, of) \subseteq S
  <2>1. Closed(S, of) /\ S \subseteq Paths
    BY <1>1, <1>3 DEF Closed
  <2> HIDE DEF S
  <2> QED  BY <1>2, <2>1, AlongIsLeast
<1> QED  BY <1>4

\* Every way comes to an end, or to a cycle: a file with the fewest ahead of it.
LEMMA EndsAreThere ==
  ASSUME NEW of \in [Paths -> Paths \cup {0}], NEW p \in Paths
  PROVE  Ends(p, of) # {} /\ Ends(p, of) \subseteq Along(p, of) /\ Ends(p, of) \subseteq Nat
<1> DEFINE Way == Along(p, of)
           Ahead(q) == Cardinality(Along(q, of))
<1>1. Way # {} /\ Way \subseteq Paths /\ Paths \subseteq Nat
  BY AlongHas, ClaudeStoreAssumption
<1>2. \A q \in Way : IsFiniteSet(Along(q, of)) /\ Ahead(q) \in Nat
  BY <1>1, AlongHas, ClaudeStoreAssumption, FS_Subset, FS_CardinalityType
<1>3. PICK q \in Way : \A r \in Way : Ahead(q) <= Ahead(r)
  <2> DEFINE T == {Ahead(r) : r \in Way}
  <2>1. T \in SUBSET Nat /\ T # {}
    BY <1>1, <1>2
  <2>2. PICK n \in T : \A m \in T : n <= m
    <3> HIDE DEF T
    <3> QED  BY <2>1, LeastOf
  <2> QED  BY <2>2
<1>4. ASSUME NEW r \in Way PROVE q \in Along(r, of)
  <2>1. CASE r \in Along(q, of)
    <3>1. Along(r, of) \subseteq Along(q, of)
      BY <1>1, <2>1, AlongOn
    <3>2. Ahead(q) <= Ahead(r) /\ Ahead(q) \in Nat /\ Ahead(r) \in Nat /\ IsFiniteSet(Along(q, of))
      BY <1>2, <1>3
    <3>3. Along(r, of) = Along(q, of)
      <4>1. Ahead(r) <= Ahead(q) /\ (Ahead(r) = Ahead(q) => Along(r, of) = Along(q, of))
        BY <3>1, <3>2, FS_Subset
      <4> QED  BY <3>2, <4>1
    <3> QED  BY <1>1, <3>3, AlongHas
  <2> QED  BY <2>1, AlongIsLine
<1>5. q \in Ends(p, of)
  BY <1>4 DEF Ends
<1> QED  BY <1>1, <1>5 DEF Ends

\* resolveClaudeCopy ends on the way, at a file it leaves where it is.
LEMMA ResolveLands ==
  ASSUME NEW of \in [Paths -> Paths \cup {0}], NEW p \in Paths
  PROVE  /\ Resolve(p, of) \in Along(p, of)
         /\ Resolve(Resolve(p, of), of) = Resolve(p, of)
<1> DEFINE q == Resolve(p, of)
<1>1. q \in Ends(p, of) /\ q \in Along(p, of) /\ q \in Paths
  BY EndsAreThere, MinIsIn, AlongHas DEF Resolve
<1>2. Ends(q, of) = Ends(p, of)
  <2>1. Along(q, of) \subseteq Along(p, of) /\ \A f \in Along(p, of) : q \in Along(f, of)
    BY <1>1, AlongOn DEF Ends
  <2>2. \A f \in Along(p, of) : Along(q, of) \subseteq Along(f, of)
    BY <2>1, AlongOn, AlongHas
  <2> HIDE DEF q
  <2>3. \A z \in Ends(p, of) : z \in Ends(q, of)
    BY <1>1, <2>1 DEF Ends
  <2>4. \A z \in Ends(q, of) : z \in Ends(p, of)
    BY <2>1, <2>2 DEF Ends
  <2> QED  BY <2>3, <2>4
<1> QED  BY <1>1, <1>2 DEF Resolve

\* Everything so far was written by then, under an id no later message has.
LastWrite == writes + 1

FileStats == [at : 0..LastWrite, size : 0..LastWrite]

ClaudeTypes ==
  /\ writes \in Nat
  /\ content \in [Paths -> Seq(1..LastWrite)] /\ \A p \in Paths : Len(content[p]) <= LastWrite
  /\ written \in [Paths -> 0..LastWrite]
  /\ pass \in {"idle", "identify", "sign", "again", "scan", "resolve"}
  /\ group \subseteq Existing /\ todo \subseteq group
  /\ probed \in FileStats
  /\ identities \in [Paths -> [stat : FileStats, last : 0..LastWrite]]
  /\ sig \in [Paths -> FileStats]
  /\ holds \in [Paths -> SUBSET Nat]
  /\ copyGroup \in [sig : [Paths -> FileStats], of : [Paths -> Paths \cup {0}]]
  /\ before \subseteq 1..LastWrite /\ listed \subseteq Paths

\* Files that share a message share all before it; no two were written at once.
SharedStarts ==
  /\ \A p, q \in Paths : \A i \in DOMAIN content[p], j \in DOMAIN content[q] :
       content[p][i] = content[q][j] => i = j /\ \A k \in 1..i : content[p][k] = content[q][k]
  /\ \A p, q \in Existing : written[p] = written[q] => p = q

\* What is banked under a file's stat is its last message.
IdentityOK(p) == identities[p].stat = ClaudeStat(p) => identities[p].last = LastOf(p)

\* The first n messages of p open q too, and were in it at its stat.
OpensTo(p, q, stats) ==
  stats[p].size <= stats[q].size /\ stats[q].size <= Len(content[q]) /\ stats[p].size <= Len(content[p])
  /\ \A i \in 1..stats[p].size : content[p][i] = content[q][i]

\* A copy that is banked had everything in the file it is left out for.
BankOK(p) ==
  copyGroup.of[p] # 0 =>
    /\ copyGroup.sig[p] # Unstatted /\ copyGroup.sig[copyGroup.of[p]] # Unstatted
    /\ OpensTo(p, copyGroup.of[p], copyGroup.sig)

\* What two files of the group share was there when the list began.
BeforeOK ==
  /\ \A p, q \in group : p # q =>
       \A i \in DOMAIN content[p], j \in DOMAIN content[q] :
         content[p][i] = content[q][j] => content[p][i] \in before
  /\ \A u \in before : \E p \in group : u \in Held(p)

\* A stat of this list is of a file that had all it had when the list began.
SignOK(p) ==
  sig[p] # Unstatted =>
    /\ p \in group /\ sig[p].size <= Len(content[p])
    /\ \A i \in DOMAIN content[p] : content[p][i] \in before => i <= sig[p].size

AgainOK(p) ==
  /\ \E i \in DOMAIN content[p] : content[p][i] = identities[p].last /\ sig[p].size <= i
  /\ sig[p] = ClaudeStat(p) => identities[p].stat = ClaudeStat(p)

ScanOK(p) ==
  /\ holds[p] \subseteq Held(p)
  /\ sig[p] = ClaudeStat(p) => holds[p] = HoldsOf(p)

SeveralFiles == ~(Cardinality(group) < 2)

PassOK ==
  /\ pass \in {"sign", "again", "scan"} => \A p \in Paths : SignOK(p)
  /\ pass = "sign" => SeveralFiles /\ \A p \in group \ todo : sig[p] # Unstatted
  /\ pass \in {"again", "scan"} => SeveralFiles /\ \A p \in group : sig[p] # Unstatted
  /\ pass = "again" => \A p \in group \ todo : AgainOK(p)
  /\ pass = "scan" => (\A p \in group : AgainOK(p)) /\ \A p \in group \ todo : ScanOK(p)
  /\ pass = "resolve" /\ SeveralFiles => copyGroup.sig = sig /\ (\A p \in Paths : SignOK(p)) /\ \A p \in group : sig[p] # Unstatted
  /\ probed # Unstatted => Identifies /\ (pass = "again" /\ sig[ClaudeFirst] = ClaudeStat(ClaudeFirst) => probed = ClaudeStat(ClaudeFirst))

ClaudeInv ==
  /\ SharedStarts
  /\ \A p \in Existing : IdentityOK(p)
  /\ \A p \in Paths : BankOK(p)
  /\ BeforeOK /\ PassOK
  /\ NothingHidden /\ SubagentsReachable /\ CopiesExact

\* The one that claudeCopyTarget keeps comes before every other.
Beats(p, q) ==
  LET a == identities[p].stat
      b == identities[q].stat
  IN a.size > b.size \/ (a.size = b.size /\ a.at < b.at) \/ (a = b /\ p < q)

\* claudeCopyTarget picks one, as no two of its files are equal in its order.
LEMMA CopyTargetIsBest ==
  ASSUME ClaudeTypes, NEW files \in SUBSET Paths, files # {}
  PROVE  CopyTarget(files) \in files /\ \A q \in files \ {CopyTarget(files)} : Beats(CopyTarget(files), q)
<1> DEFINE Size(p) == identities[p].stat.size
           At(p) == identities[p].stat.at
<1>0. PICK top \in Nat : top = LastWrite
  BY DEF ClaudeTypes, LastWrite
<1>7. \A p \in files : identities[p].stat \in [at : 0..top, size : 0..top]
  BY <1>0 DEF ClaudeTypes, FileStats
<1>1. \A p \in files : p \in Nat /\ Size(p) \in Nat /\ Size(p) <= top /\ At(p) \in Nat
  BY <1>0, <1>7, ClaudeStoreAssumption
<1>8. \A p, q \in files : Size(p) = Size(q) /\ At(p) = At(q) => identities[p].stat = identities[q].stat
  BY <1>7
<1> HIDE DEF Size, At
<1>2. PICK p1 \in files : \A q \in files : Size(q) <= Size(p1)
  <2> DEFINE T == {top - Size(q) : q \in files}
  <2>1. T \in SUBSET Nat /\ T # {}
    <3>1. \A q \in files : top - Size(q) \in Nat
      BY <1>1
    <3> QED  BY <3>1
  <2>2. PICK n \in T : \A m \in T : n <= m
    <3> HIDE DEF T
    <3> QED  BY <2>1, LeastOf
  <2>3. PICK p \in files : n = top - Size(p)
    BY <2>2
  <2>4. \A q \in files : Size(q) <= Size(p)
    <3> SUFFICES ASSUME NEW q \in files PROVE Size(q) <= Size(p)
      OBVIOUS
    <3>1. top - Size(p) <= top - Size(q)
      BY <2>2, <2>3
    <3>2. top \in Nat /\ Size(p) \in Nat /\ Size(q) \in Nat
      BY <1>1
    <3> QED  BY <3>1, <3>2
  <2> QED  BY <2>4
<1>3. PICK p2 \in files : Size(p2) = Size(p1) /\ \A q \in files : Size(q) = Size(p1) => At(p2) <= At(q)
  <2> DEFINE T == {At(q) : q \in {q \in files : Size(q) = Size(p1)}}
  <2>1. T \in SUBSET Nat /\ T # {}
    BY <1>1
  <2>2. PICK n \in T : \A m \in T : n <= m
    <3> HIDE DEF T
    <3> QED  BY <2>1, LeastOf
  <2> QED  BY <2>2
<1> DEFINE T == {q \in files : Size(q) = Size(p2) /\ At(q) = At(p2)}
<1>4. PICK p \in T : \A q \in T : p <= q
  <2>1. T \in SUBSET Nat /\ T # {}
    BY <1>1
  <2> HIDE DEF T
  <2> QED  BY <2>1, LeastOf
<1>5. p \in files /\ \A q \in files \ {p} : Beats(p, q)
  <2> SUFFICES ASSUME NEW q \in files \ {p} PROVE Beats(p, q)
    BY <1>4
  <2>1. Size(q) <= Size(p) /\ (Size(q) = Size(p) => At(p) <= At(q))
    BY <1>2, <1>3, <1>4
  <2>4. /\ p \in files /\ Size(p) = Size(p2) /\ At(p) = At(p2) /\ q \in files /\ q # p
        /\ p \in Nat /\ q \in Nat /\ Size(p) \in Nat /\ At(p) \in Nat /\ Size(q) \in Nat /\ At(q) \in Nat
    BY <1>1, <1>4
  <2>2. Size(q) = Size(p) /\ At(q) = At(p) => p < q /\ identities[p].stat = identities[q].stat
    <3>1. Size(q) = Size(p) /\ At(q) = At(p) => q \in T
      BY <2>4
    <3>2. Size(q) = Size(p) /\ At(q) = At(p) => p <= q
      BY <1>4, <3>1
    <3> QED  BY <1>8, <2>4, <3>2
  <2>3. Size(p) > Size(q) \/ (Size(p) = Size(q) /\ At(p) < At(q)) \/ (Size(p) = Size(q) /\ At(p) = At(q))
    BY <2>1, <2>4
  <2> QED  BY <2>2, <2>3 DEF Beats, Size, At
<1>6. CopyTarget(files) = CHOOSE r \in files : \A q \in files \ {r} : Beats(r, q)
  BY DEF CopyTarget, Beats
<1> QED  BY <1>5, <1>6

\* A file w is written: it goes on with the new message, or opens a new file.
WritesTo(w) ==
  /\ UNCHANGED <<pass, group, todo, probed, identities, sig, holds, copyGroup, listed, parentOf, before>>
  /\ writes' = writes + 1 /\ written' = [written EXCEPT ![w] = writes + 2]
  /\ content' \in [Paths -> Seq(1..writes + 2)]
  /\ \A p \in Paths : p # w => content'[p] = content[p]
  /\ Len(content'[w]) \in 1..(writes + 2) /\ Len(content[w]) <= Len(content'[w])
  /\ \A i \in DOMAIN content[w] : content'[w][i] = content[w][i]
  /\ w \in Existing => \A i \in DOMAIN content'[w] : i \in DOMAIN content[w] \/ content'[w][i] = writes + 2

\* What is known of one file
LEMMA ContentTyped ==
  ASSUME ClaudeTypes, NEW p \in Paths
  PROVE  /\ content[p] \in Seq(1..writes + 1) /\ Len(content[p]) \in Nat /\ Len(content[p]) <= writes + 1
         /\ DOMAIN content[p] = 1..Len(content[p]) /\ writes \in Nat
         /\ \A i \in DOMAIN content[p] : content[p][i] \in 1..(writes + 1)
         /\ written[p] \in 0..(writes + 1)
         /\ p \in Existing <=> Len(content[p]) # 0
         /\ p \in Existing => LastOf(p) = content[p][Len(content[p])] /\ Len(content[p]) \in DOMAIN content[p]
<1>1. content[p] \in Seq(1..writes + 1) /\ Len(content[p]) <= writes + 1 /\ writes \in Nat
      /\ written[p] \in 0..(writes + 1)
  BY DEF ClaudeTypes, LastWrite
<1>2. content[p] = <<>> <=> Len(content[p]) = 0
  BY <1>1
<1> QED  BY <1>1, <1>2 DEF Existing, LastOf

\* A message that is added leaves what there was.
LEMMA SayGrows ==
  ASSUME ClaudeTypes, NEW p \in Paths, Say(p)
  PROVE  WritesTo(p) /\ content'[p] = Append(content[p], writes + 2)
<1> DEFINE c == content[p]
<1>1. /\ c \in Seq(1..writes + 1) /\ Len(c) \in Nat /\ Len(c) <= writes + 1 /\ writes \in Nat
  BY ContentTyped
<1>2. /\ content' = [content EXCEPT ![p] = Append(c, writes + 2)]
      /\ writes' = writes + 1 /\ written' = [written EXCEPT ![p] = writes + 2]
      /\ UNCHANGED <<pass, group, todo, probed, identities, sig, holds, copyGroup, listed, parentOf, before>>
  BY DEF Say, Wrote
<1>3. content \in [Paths -> Seq(1..writes + 1)]
  BY DEF ClaudeTypes, LastWrite
<1>4. content'[p] = Append(c, writes + 2) /\ \A q \in Paths : q # p => content'[q] = content[q]
  BY <1>2, <1>3
<1> HIDE DEF c
<1>5. c \in Seq(1..writes + 2)
  BY <1>1
<1>6. /\ Append(c, writes + 2) \in Seq(1..writes + 2) /\ Len(Append(c, writes + 2)) = Len(c) + 1
      /\ DOMAIN Append(c, writes + 2) = 1..(Len(c) + 1)
      /\ \A i \in DOMAIN c : Append(c, writes + 2)[i] = c[i]
      /\ Append(c, writes + 2)[Len(c) + 1] = writes + 2
  BY <1>1, <1>5
<1>7. \A q \in Paths : content[q] \in Seq(1..writes + 2)
  <2> SUFFICES ASSUME NEW q \in Paths PROVE content[q] \in Seq(1..writes + 2)
    OBVIOUS
  <2>1. content[q] \in Seq(1..writes + 1)
    BY ContentTyped
  <2> QED  BY <1>1, <2>1
<1>8. content' \in [Paths -> Seq(1..writes + 2)]
  BY <1>2, <1>3, <1>6, <1>7
<1>9. DOMAIN c = 1..Len(c)
  BY <1>1
<1> QED  BY <1>1, <1>2, <1>4, <1>6, <1>8, <1>9 DEF WritesTo, c

\* A fork is a new file, and opens with what another holds.
LEMMA ForkGrows ==
  ASSUME ClaudeTypes, NEW p \in Paths, NEW w \in Paths, Fork(p, w)
  PROVE  /\ WritesTo(w) /\ w \notin Existing /\ p \in Existing /\ p # w
         /\ \E n \in 1..Len(content[p]) : content'[w] = [i \in 1..n |-> content[p][i]]
<1>1. /\ p \in Existing /\ w \notin Existing
      /\ writes' = writes + 1 /\ written' = [written EXCEPT ![w] = writes + 2]
      /\ UNCHANGED <<pass, group, todo, probed, identities, sig, holds, copyGroup, listed, parentOf, before>>
  BY DEF Fork, Wrote
<1>2. PICK n \in 1..Len(content[p]) : content' = [content EXCEPT ![w] = [i \in 1..n |-> content[p][i]]]
  BY DEF Fork
<1> DEFINE new == [i \in 1..n |-> content[p][i]]
<1>3. content \in [Paths -> Seq(1..writes + 1)]
  BY DEF ClaudeTypes, LastWrite
<1>4. content'[w] = new /\ \A q \in Paths : q # w => content'[q] = content[q]
  BY <1>2, <1>3
<1>5. /\ writes \in Nat /\ n \in Nat /\ n # 0 /\ n <= writes + 1 /\ Len(content[w]) = 0
      /\ \A i \in 1..n : content[p][i] \in 1..(writes + 1)
  <2>1. Len(content[p]) \in Nat /\ Len(content[p]) <= writes + 1 /\ writes \in Nat
    BY ContentTyped
  <2>2. DOMAIN content[p] = 1..Len(content[p]) /\ \A i \in DOMAIN content[p] : content[p][i] \in 1..(writes + 1)
    BY ContentTyped
  <2>3. Len(content[w]) = 0
    BY <1>1, ContentTyped
  <2> QED  BY <2>1, <2>2, <2>3
<1>6. new \in Seq(1..writes + 2) /\ Len(new) = n /\ DOMAIN new = 1..n
  <2> DEFINE Ids == 1..writes + 2
  <2>1. \A i \in 1..n : content[p][i] \in Ids
    BY <1>5
  <2> HIDE DEF Ids
  <2>2. n \in Nat /\ DOMAIN new = 1..n /\ \A i \in 1..n : new[i] \in Ids
    BY <1>5, <2>1
  <2>3. new \in Seq(Ids) /\ Len(new) = n
    BY <1>5, <2>1
  <2> QED  BY <2>2, <2>3 DEF Ids
<1>7. \A q \in Paths : content[q] \in Seq(1..writes + 2)
  <2> SUFFICES ASSUME NEW q \in Paths PROVE content[q] \in Seq(1..writes + 2)
    OBVIOUS
  <2>1. content[q] \in Seq(1..writes + 1)
    BY ContentTyped
  <2> QED  BY <1>5, <2>1
<1> HIDE DEF new
<1>8. content' \in [Paths -> Seq(1..writes + 2)]
  BY <1>2, <1>3, <1>6, <1>7 DEF new
<1>9. DOMAIN content[w] = {}
  BY <1>5, ContentTyped
<1>10. WritesTo(w)
  BY <1>1, <1>4, <1>5, <1>6, <1>8, <1>9 DEF WritesTo
<1> QED  BY <1>1, <1>4, <1>10 DEF new

\* One file after another was written
LEMMA GrowsFacts ==
  ASSUME ClaudeTypes, NEW w \in Paths, WritesTo(w), NEW p \in Paths
  PROVE  /\ writes \in Nat /\ DOMAIN content[p] = 1..Len(content[p]) /\ DOMAIN content'[p] = 1..Len(content'[p])
         /\ Len(content[p]) \in Nat /\ Len(content'[p]) \in Nat /\ Len(content[p]) <= Len(content'[p])
         /\ DOMAIN content[p] \subseteq DOMAIN content'[p]
         /\ \A i \in DOMAIN content[p] : content'[p][i] = content[p][i] /\ content[p][i] \in 1..(writes + 1)
         /\ p \in Existing => \A i \in DOMAIN content'[p] : i \in DOMAIN content[p] \/ content'[p][i] = writes + 2
         /\ p \in Existing => p \in Existing'
         /\ p # w => content'[p] = content[p] /\ written'[p] = written[p]
         /\ written'[w] = writes + 2 /\ written[p] \in 0..(writes + 1)
<1>1. /\ writes \in Nat /\ DOMAIN content[p] = 1..Len(content[p]) /\ Len(content[p]) \in Nat
      /\ \A i \in DOMAIN content[p] : content[p][i] \in 1..(writes + 1)
      /\ written[p] \in 0..(writes + 1)
      /\ p \in Existing <=> Len(content[p]) # 0
  BY ContentTyped
<1>2. content'[p] \in Seq(1..writes + 2)
  BY DEF WritesTo
<1>3. DOMAIN content'[p] = 1..Len(content'[p]) /\ Len(content'[p]) \in Nat /\ (content'[p] = <<>> => Len(content'[p]) = 0)
  BY <1>2
<1>4. Len(content[p]) <= Len(content'[p]) /\ \A i \in DOMAIN content[p] : content'[p][i] = content[p][i]
  <2>1. CASE p = w
    BY <2>1 DEF WritesTo
  <2>2. CASE p # w
    <3>1. content'[p] = content[p]
      BY <2>2 DEF WritesTo
    <3> QED  BY <1>1, <3>1
  <2> QED  BY <2>1, <2>2
<1>5. DOMAIN content[p] \subseteq DOMAIN content'[p]
  BY <1>1, <1>3, <1>4
<1>6. p \in Existing => p \in Existing'
  BY <1>1, <1>3, <1>4 DEF Existing
<1>7. p \in Existing => \A i \in DOMAIN content'[p] : i \in DOMAIN content[p] \/ content'[p][i] = writes + 2
  BY DEF WritesTo
<1>8. p # w => content'[p] = content[p] /\ written'[p] = written[p]
  BY DEF WritesTo, ClaudeTypes
<1>9. written'[w] = writes + 2
  BY DEF WritesTo, ClaudeTypes
<1> QED  BY <1>1, <1>3, <1>4, <1>5, <1>6, <1>7, <1>8, <1>9

\* The types hold of a file that is written.
LEMMA GrowsTypes ==
  ASSUME ClaudeTypes, NEW w \in Paths, WritesTo(w)
  PROVE  ClaudeTypes' /\ LastWrite' = LastWrite + 1
<1>1. writes \in Nat /\ writes' = writes + 1 /\ writes' \in Nat
  BY DEF ClaudeTypes, WritesTo
<1>2. LastWrite' = writes + 2 /\ LastWrite = writes + 1 /\ LastWrite' = LastWrite + 1
  BY <1>1 DEF LastWrite
<1>3. FileStats \subseteq FileStats' /\ (0..LastWrite) \subseteq (0..LastWrite') /\ (1..LastWrite) \subseteq (1..LastWrite')
  BY <1>1, <1>2 DEF FileStats
<1>4. \A p \in Paths : Len(content'[p]) <= LastWrite'
  <2> SUFFICES ASSUME NEW p \in Paths PROVE Len(content'[p]) <= writes + 2
    BY <1>2
  <2>1. CASE p = w
    BY <1>1, <2>1 DEF WritesTo
  <2>2. CASE p # w
    <3>1. Len(content[p]) <= writes + 1 /\ Len(content[p]) \in Nat
      BY ContentTyped
    <3> QED  BY <1>1, <2>2, <3>1 DEF WritesTo
  <2> QED  BY <2>1, <2>2
<1>5. written' \in [Paths -> 0..LastWrite']
  <2>1. written' = [written EXCEPT ![w] = writes + 2] /\ writes + 2 \in 0..LastWrite'
    BY <1>1, <1>2 DEF WritesTo
  <2>2. written \in [Paths -> 0..LastWrite']
    BY <1>3 DEF ClaudeTypes
  <2> QED  BY <2>1, <2>2
<1>6. group' \subseteq Existing' /\ todo' \subseteq group'
  BY GrowsFacts DEF ClaudeTypes, WritesTo, Existing
<1>7. probed' \in FileStats' /\ sig' \in [Paths -> FileStats']
  BY <1>3 DEF ClaudeTypes, WritesTo
<1>8. identities' \in [Paths -> [stat : FileStats', last : 0..LastWrite']]
  <2>1. identities' = identities /\ identities \in [Paths -> [stat : FileStats, last : 0..LastWrite]]
    BY DEF ClaudeTypes, WritesTo
  <2>2. [stat : FileStats, last : 0..LastWrite] \subseteq [stat : FileStats', last : 0..LastWrite']
    BY <1>3
  <2> QED  BY <2>1, <2>2
<1>9. copyGroup' \in [sig : [Paths -> FileStats'], of : [Paths -> Paths \cup {0}]]
  <2>1. copyGroup' = copyGroup /\ copyGroup \in [sig : [Paths -> FileStats], of : [Paths -> Paths \cup {0}]]
    BY DEF ClaudeTypes, WritesTo
  <2>2. [Paths -> FileStats] \subseteq [Paths -> FileStats']
    BY <1>3
  <2> QED  BY <2>1, <2>2
<1>10. before' \subseteq 1..LastWrite' /\ listed' \subseteq Paths
  BY <1>3 DEF ClaudeTypes, WritesTo
<1>11. content' \in [Paths -> Seq(1..LastWrite')] /\ pass' = pass /\ holds' = holds
  BY <1>2 DEF WritesTo
<1> QED  BY <1>1, <1>2, <1>4, <1>5, <1>6, <1>7, <1>8, <1>9, <1>10, <1>11 DEF ClaudeTypes

\* What a file holds, it goes on holding where it was.
SameStart(p, q, i) == \A k \in 1..i : content[p][k] = content[q][k]

\* A message two files share is at one place in both, after the same messages.
LEMMA SharedSays ==
  ASSUME ClaudeTypes, SharedStarts, NEW a \in Paths, NEW b \in Paths,
         NEW i \in DOMAIN content[a], NEW j \in DOMAIN content[b], content[a][i] = content[b][j]
  PROVE  i = j /\ SameStart(a, b, i)
BY DEF SharedStarts, SameStart

\* Two files are never written at once.
LEMMA WrittenApart ==
  ASSUME ClaudeTypes, SharedStarts, NEW w \in Paths, WritesTo(w)
  PROVE  \A p, q \in Existing' : written'[p] = written'[q] => p = q
<1> SUFFICES ASSUME NEW p \in Existing', NEW q \in Existing', p # q PROVE written'[p] # written'[q]
  OBVIOUS
<1>1. p \in Paths /\ q \in Paths
  BY DEF Existing
<1>2. \A r \in Paths : r # w /\ r \in Existing' => r \in Existing
  BY GrowsFacts DEF Existing
<1>3. /\ written'[w] = writes + 2 /\ writes \in Nat /\ written[p] \in 0..(writes + 1)
      /\ (p # w => written'[p] = written[p])
  BY <1>1, GrowsFacts
<1>4. (q # w => written'[q] = written[q]) /\ written[q] \in 0..(writes + 1)
  BY <1>1, GrowsFacts
<1>5. CASE p = w \/ q = w
  BY <1>3, <1>4, <1>5
<1>6. CASE p # w /\ q # w
  BY <1>1, <1>2, <1>3, <1>4, <1>6 DEF SharedStarts
<1> QED  BY <1>5, <1>6

\* A new message is in no other file.
LEMMA SaySharedKept ==
  ASSUME ClaudeTypes, SharedStarts, NEW w \in Paths, Say(w)
  PROVE  SharedStarts'
<1>1. WritesTo(w) /\ content'[w] = Append(content[w], writes + 2)
  BY SayGrows
<1>2. ASSUME NEW a \in Paths, NEW b \in Paths, NEW i \in DOMAIN content'[a], NEW j \in DOMAIN content'[b],
             content'[a][i] = content'[b][j]
      PROVE  i = j /\ \A k \in 1..i : content'[a][k] = content'[b][k]
  <2>1. \A p \in Paths : \A x \in DOMAIN content'[p] :
          \/ x \in DOMAIN content[p] /\ content'[p][x] = content[p][x] /\ content'[p][x] # writes + 2
          \/ p = w /\ x = Len(content[w]) + 1 /\ content'[p][x] = writes + 2
    <3> SUFFICES ASSUME NEW p \in Paths, NEW x \in DOMAIN content'[p]
                 PROVE  \/ x \in DOMAIN content[p] /\ content'[p][x] = content[p][x] /\ content'[p][x] # writes + 2
                        \/ p = w /\ x = Len(content[w]) + 1 /\ content'[p][x] = writes + 2
      OBVIOUS
    <3>1. /\ writes \in Nat /\ DOMAIN content[p] = 1..Len(content[p]) /\ Len(content[p]) \in Nat
          /\ \A k \in DOMAIN content[p] : content'[p][k] = content[p][k] /\ content[p][k] \in 1..(writes + 1)
          /\ (p # w => content'[p] = content[p])
      BY <1>1, GrowsFacts
    <3>2. CASE p # w
      BY <3>1, <3>2
    <3>3. CASE p = w
      <4>1. content[w] \in Seq(1..writes + 1)
        BY ContentTyped
      <4>2. /\ DOMAIN content'[w] = 1..(Len(content[w]) + 1)
            /\ content'[w][Len(content[w]) + 1] = writes + 2
        BY <1>1, <4>1
      <4>3. x \in DOMAIN content[w] \/ x = Len(content[w]) + 1
        BY <3>1, <3>3, <4>2
      <4> QED  BY <3>1, <3>3, <4>2, <4>3
    <3> QED  BY <3>2, <3>3
  <2>2. CASE content'[a][i] = writes + 2
    BY <1>2, <2>1, <2>2
  <2>3. CASE content'[a][i] # writes + 2
    <3>1. /\ i \in DOMAIN content[a] /\ content'[a][i] = content[a][i]
          /\ j \in DOMAIN content[b] /\ content'[b][j] = content[b][j]
      BY <1>2, <2>1, <2>3
    <3>2. i = j /\ SameStart(a, b, i)
      BY <1>2, <3>1, SharedSays
    <3>3. \A k \in 1..i : k \in DOMAIN content[a] /\ k \in DOMAIN content[b]
      <4>1. DOMAIN content[a] = 1..Len(content[a]) /\ DOMAIN content[b] = 1..Len(content[b])
            /\ Len(content[a]) \in Nat /\ Len(content[b]) \in Nat
        BY ContentTyped
      <4> QED  BY <3>1, <3>2, <4>1
    <3>4. \A k \in 1..i : content'[a][k] = content[a][k] /\ content'[b][k] = content[b][k]
      BY <1>1, <3>3, GrowsFacts
    <3> QED  BY <3>2, <3>4 DEF SameStart
  <2> QED  BY <2>2, <2>3
<1>3. \A p, q \in Existing' : written'[p] = written'[q] => p = q
  BY <1>1, WrittenApart
<1> QED  BY <1>2, <1>3 DEF SharedStarts

\* A fork shares what the file it left shares.
LEMMA ForkSharedKept ==
  ASSUME ClaudeTypes, SharedStarts, NEW p \in Paths, NEW w \in Paths, Fork(p, w)
  PROVE  SharedStarts'
<1>1. WritesTo(w) /\ p # w
  BY ForkGrows
<1>2. PICK n \in 1..Len(content[p]) : content'[w] = [i \in 1..n |-> content[p][i]]
  BY ForkGrows
<1> DEFINE From(a) == IF a = w THEN p ELSE a
<1>3. ASSUME NEW a \in Paths
      PROVE  /\ From(a) \in Paths /\ \A i \in DOMAIN content'[a] : i \in DOMAIN content[From(a)]
             /\ \A i \in DOMAIN content'[a] : content'[a][i] = content[From(a)][i] /\ i \in Nat
             /\ \A i \in DOMAIN content'[a] : 1..i \subseteq DOMAIN content'[a]
  <2>1. CASE a # w
    <3>1. content'[a] = content[a] /\ DOMAIN content[a] = 1..Len(content[a]) /\ Len(content[a]) \in Nat
      BY <1>1, <2>1, GrowsFacts
    <3> QED  BY <2>1, <3>1
  <2>2. CASE a = w
    <3>1. DOMAIN content[p] = 1..Len(content[p]) /\ Len(content[p]) \in Nat
      BY ContentTyped
    <3>2. DOMAIN content'[w] = 1..n /\ n \in Nat /\ n <= Len(content[p])
          /\ \A i \in 1..n : content'[w][i] = content[p][i]
      BY <1>2, <3>1
    <3> QED  BY <2>2, <3>1, <3>2
  <2> QED  BY <2>1, <2>2
<1> HIDE DEF From
<1>4. ASSUME NEW a \in Paths, NEW b \in Paths, NEW i \in DOMAIN content'[a], NEW j \in DOMAIN content'[b],
             content'[a][i] = content'[b][j]
      PROVE  i = j /\ \A k \in 1..i : content'[a][k] = content'[b][k]
  <2>1. i = j /\ SameStart(From(a), From(b), i)
    BY <1>3, <1>4, SharedSays
  <2>2. \A k \in 1..i : content'[a][k] = content[From(a)][k] /\ content'[b][k] = content[From(b)][k]
    BY <1>3, <2>1
  <2> QED  BY <2>1, <2>2 DEF SameStart
<1>5. \A a, b \in Existing' : written'[a] = written'[b] => a = b
  BY <1>1, WrittenApart
<1> QED  BY <1>4, <1>5 DEF SharedStarts

\* No stat that was taken is of the file that is written now.
LEMMA StatKept ==
  ASSUME ClaudeTypes, NEW w \in Paths, WritesTo(w), NEW p \in Paths, NEW s \in FileStats, s = ClaudeStat(p)'
  PROVE  /\ s = ClaudeStat(p) /\ p # w
         /\ content'[p] = content[p] /\ written'[p] = written[p]
<1>1. s.at <= writes + 1 /\ s.at = written'[p]
  BY DEF FileStats, LastWrite, ClaudeStat, ClaudeTypes
<1>2. written'[w] = writes + 2 /\ writes \in Nat /\ (p # w => content'[p] = content[p] /\ written'[p] = written[p])
  BY GrowsFacts
<1>3. p # w
  BY <1>1, <1>2
<1> QED  BY <1>2, <1>3 DEF ClaudeStat

\* No message leaves a file.
LEMMA HeldGrows ==
  ASSUME ClaudeTypes, NEW w \in Paths, WritesTo(w), NEW p \in Paths
  PROVE  Held(p) \subseteq Held(p)'
<1>1. /\ DOMAIN content[p] = 1..Len(content[p]) /\ DOMAIN content'[p] = 1..Len(content'[p])
      /\ DOMAIN content[p] \subseteq DOMAIN content'[p]
      /\ \A i \in DOMAIN content[p] : content'[p][i] = content[p][i]
  BY GrowsFacts
<1> QED  BY <1>1 DEF Held

\* An identity stays right while files are written.
LEMMA GrowsIdentity ==
  ASSUME ClaudeTypes, NEW w \in Paths, WritesTo(w), \A p \in Existing : IdentityOK(p)
  PROVE  \A p \in Existing' : IdentityOK(p)'
<1> SUFFICES ASSUME NEW p \in Existing', identities[p].stat = ClaudeStat(p)'
             PROVE  identities[p].last = LastOf(p)'
  BY DEF IdentityOK, WritesTo
<1>1. p \in Paths /\ identities[p].stat \in FileStats
  BY DEF Existing, ClaudeTypes
<1>2. identities[p].stat = ClaudeStat(p) /\ content'[p] = content[p]
  BY <1>1, StatKept
<1>3. p \in Existing
  BY <1>2 DEF Existing
<1> QED  BY <1>2, <1>3 DEF IdentityOK, LastOf

\* A banked copy keeps what its target has.
LEMMA GrowsBank ==
  ASSUME ClaudeTypes, NEW w \in Paths, WritesTo(w), NEW p \in Paths, BankOK(p)
  PROVE  BankOK(p)'
<1> DEFINE q == copyGroup.of[p]
           stats == copyGroup.sig
<1> SUFFICES ASSUME q # 0 PROVE OpensTo(p, q, stats)'
  BY DEF BankOK, WritesTo
<1>1. q \in Paths /\ OpensTo(p, q, stats) /\ stats[p].size \in Nat /\ stats[q].size \in Nat
  <2>1. OpensTo(p, q, stats)
    BY DEF BankOK
  <2>2. q \in Paths /\ stats \in [Paths -> FileStats]
    BY DEF ClaudeTypes
  <2>3. \A s \in FileStats : s.size \in Nat
    BY DEF FileStats, LastWrite
  <2> QED  BY <2>1, <2>2, <2>3
<1>2. /\ DOMAIN content[p] = 1..Len(content[p]) /\ Len(content[p]) \in Nat
      /\ Len(content[p]) <= Len(content'[p]) /\ Len(content'[p]) \in Nat
      /\ \A i \in DOMAIN content[p] : content'[p][i] = content[p][i]
  BY GrowsFacts
<1>3. /\ DOMAIN content[q] = 1..Len(content[q]) /\ Len(content[q]) \in Nat
      /\ Len(content[q]) <= Len(content'[q]) /\ Len(content'[q]) \in Nat
      /\ \A i \in DOMAIN content[q] : content'[q][i] = content[q][i]
  BY <1>1, GrowsFacts
<1>4. copyGroup' = copyGroup
  BY DEF WritesTo
<1> HIDE DEF q, stats
<1>5. stats[p].size <= stats[q].size /\ stats[q].size <= Len(content[q]) /\ stats[p].size <= Len(content[p])
      /\ \A i \in 1..stats[p].size : content[p][i] = content[q][i]
  BY <1>1 DEF OpensTo
<1>6. \A i \in 1..stats[p].size : i \in DOMAIN content[p] /\ i \in DOMAIN content[q]
  BY <1>1, <1>2, <1>3, <1>5
<1>7. \A i \in 1..stats[p].size : content'[p][i] = content'[q][i]
  BY <1>2, <1>3, <1>5, <1>6
<1>8. stats[q].size <= Len(content'[q]) /\ stats[p].size <= Len(content'[p])
  BY <1>1, <1>2, <1>3, <1>5
<1>9. q' = q /\ stats' = stats
  BY <1>4 DEF q, stats
<1> QED  BY <1>5, <1>7, <1>8, <1>9 DEF OpensTo

\* Nothing new is shared within the group.
LEMMA GrowsBefore ==
  ASSUME ClaudeTypes, NEW w \in Paths, WritesTo(w), BeforeOK
  PROVE  BeforeOK'
<1>1. group' = group /\ before' = before /\ group \subseteq Paths /\ group \subseteq Existing
  BY DEF WritesTo, ClaudeTypes, Existing
<1>2. ASSUME NEW p \in group, NEW q \in group, p # q, NEW i \in DOMAIN content'[p], NEW j \in DOMAIN content'[q],
             content'[p][i] = content'[q][j]
      PROVE  content'[p][i] \in before
  <2>1. /\ \A k \in DOMAIN content[p] : content'[p][k] = content[p][k] /\ content[p][k] \in 1..(writes + 1)
        /\ i \in DOMAIN content[p] \/ content'[p][i] = writes + 2
        /\ p # w => content'[p] = content[p]
        /\ writes \in Nat
    BY <1>1, GrowsFacts
  <2>2. /\ \A k \in DOMAIN content[q] : content'[q][k] = content[q][k] /\ content[q][k] \in 1..(writes + 1)
        /\ j \in DOMAIN content[q] \/ content'[q][j] = writes + 2
        /\ q # w => content'[q] = content[q]
    BY <1>1, GrowsFacts
  <2>3. i \in DOMAIN content[p] /\ j \in DOMAIN content[q]
    <3>1. CASE p # w
      <4>1. i \in DOMAIN content[p] /\ content'[p][i] # writes + 2
        BY <2>1, <3>1
      <4> QED  BY <1>2, <2>2, <4>1
    <3>2. CASE q # w
      <4>1. j \in DOMAIN content[q] /\ content'[q][j] # writes + 2
        BY <2>1, <2>2, <3>2
      <4> QED  BY <1>2, <2>1, <4>1
    <3> QED  BY <1>2, <3>1, <3>2
  <2>4. content[p][i] = content[q][j] /\ content'[p][i] = content[p][i]
    BY <1>2, <2>1, <2>2, <2>3
  <2> QED  BY <1>2, <2>3, <2>4 DEF BeforeOK
<1>3. \A u \in before : \E p \in group : u \in Held(p)'
  BY <1>1, HeldGrows DEF BeforeOK
<1> QED  BY <1>1, <1>2, <1>3 DEF BeforeOK

\* A new message was not there when the list began.
LEMMA GrowsSign ==
  ASSUME ClaudeTypes, NEW w \in Paths, WritesTo(w), NEW p \in Paths, SignOK(p)
  PROVE  SignOK(p)'
<1>1. sig' = sig /\ group' = group /\ before' = before
  BY DEF WritesTo
<1> SUFFICES ASSUME sig[p] # Unstatted
             PROVE  /\ p \in group /\ sig[p].size <= Len(content'[p])
                    /\ \A i \in DOMAIN content'[p] : content'[p][i] \in before => i <= sig[p].size
  BY <1>1 DEF SignOK, Unstatted
<1>2. p \in group /\ p \in Existing /\ sig[p].size \in Nat /\ sig[p].size <= Len(content[p])
      /\ \A i \in DOMAIN content[p] : content[p][i] \in before => i <= sig[p].size
  BY DEF SignOK, ClaudeTypes, FileStats, LastWrite
<1>3. /\ Len(content[p]) \in Nat /\ Len(content'[p]) \in Nat /\ Len(content[p]) <= Len(content'[p])
      /\ \A i \in DOMAIN content[p] : content'[p][i] = content[p][i]
      /\ \A i \in DOMAIN content'[p] : i \in DOMAIN content[p] \/ content'[p][i] = writes + 2
      /\ writes \in Nat
  BY <1>2, GrowsFacts
<1>4. ~(writes + 2 \in before)
  BY <1>3 DEF ClaudeTypes, LastWrite
<1>5. sig[p].size <= Len(content'[p])
  BY <1>2, <1>3
<1>6. \A i \in DOMAIN content'[p] : content'[p][i] \in before => i <= sig[p].size
  BY <1>2, <1>3, <1>4
<1> QED  BY <1>2, <1>5, <1>6

\* A last message that was read stays in the file.
LEMMA GrowsAgain ==
  ASSUME ClaudeTypes, NEW w \in Paths, WritesTo(w), NEW p \in Paths, AgainOK(p)
  PROVE  AgainOK(p)'
<1>1. sig' = sig /\ identities' = identities /\ sig[p] \in FileStats
  BY DEF WritesTo, ClaudeTypes
<1>2. PICK i \in DOMAIN content[p] : content[p][i] = identities[p].last /\ sig[p].size <= i
  BY DEF AgainOK
<1>3. i \in DOMAIN content'[p] /\ content'[p][i] = content[p][i]
  BY GrowsFacts
<1>4. sig[p] = ClaudeStat(p)' => sig[p] = ClaudeStat(p)
  BY <1>1, StatKept
<1> QED  BY <1>1, <1>2, <1>3, <1>4 DEF AgainOK

\* What was found in a file stays in it.
LEMMA GrowsScan ==
  ASSUME ClaudeTypes, NEW w \in Paths, WritesTo(w), NEW p \in Paths, ScanOK(p)
  PROVE  ScanOK(p)'
<1>1. sig' = sig /\ identities' = identities /\ sig[p] \in FileStats /\ holds' = holds /\ group' = group
  BY DEF WritesTo, ClaudeTypes
<1>2. sig[p] = ClaudeStat(p)' => sig[p] = ClaudeStat(p) /\ content'[p] = content[p]
  BY <1>1, StatKept
<1>3. content'[p] = content[p] => HoldsOf(p)' = HoldsOf(p)
  BY <1>1 DEF HoldsOf, Held
<1> QED  BY <1>1, <1>2, <1>3, HeldGrows DEF ScanOK

\* The passes keep what they know while files are written.
LEMMA GrowsPass ==
  ASSUME ClaudeTypes, NEW w \in Paths, WritesTo(w), PassOK
  PROVE  PassOK'
<1>1. /\ pass' = pass /\ group' = group /\ todo' = todo /\ sig' = sig /\ copyGroup' = copyGroup
      /\ probed' = probed /\ group \subseteq Paths /\ todo \subseteq Paths
  BY DEF WritesTo, ClaudeTypes, Existing
<1>2. (\A p \in Paths : SignOK(p)) => \A p \in Paths : SignOK(p)'
  BY GrowsSign
<1>3. \A p \in Paths : (AgainOK(p) => AgainOK(p)') /\ (ScanOK(p) => ScanOK(p)')
  BY GrowsAgain, GrowsScan
<1>4. SeveralFiles' = SeveralFiles /\ Identifies' = Identifies /\ ClaudeFirst' = ClaudeFirst /\ Unstatted' = Unstatted
  BY <1>1 DEF SeveralFiles, Identifies, ClaudeFirst, Unstatted
<1>5. ASSUME probed # Unstatted
      PROVE  Identifies /\ (pass = "again" /\ sig[ClaudeFirst] = ClaudeStat(ClaudeFirst)' => probed = ClaudeStat(ClaudeFirst)')
  <2>1. Identifies /\ (pass = "again" /\ sig[ClaudeFirst] = ClaudeStat(ClaudeFirst) => probed = ClaudeStat(ClaudeFirst))
    BY <1>5 DEF PassOK
  <2>2. ClaudeFirst \in Paths
    <3>1. todo \in SUBSET Nat /\ todo # {}
      BY <1>1, <2>1, ClaudeStoreAssumption DEF Identifies
    <3> QED  BY <1>1, <3>1, MinIsIn DEF ClaudeFirst
  <2>3. PICK f \in Paths : f = ClaudeFirst
    BY <2>2
  <2>4. sig[f] = ClaudeStat(f)' => ClaudeStat(f)' = ClaudeStat(f)
    BY StatKept DEF ClaudeTypes
  <2>5. ClaudeStat(ClaudeFirst)' = ClaudeStat(f)'
    BY <1>4, <2>3 DEF ClaudeStat
  <2> QED  BY <2>1, <2>3, <2>4, <2>5
<1> QED  BY <1>1, <1>2, <1>3, <1>4, <1>5 DEF PassOK

\* A list that is made stays complete.
LEMMA GrowsListed ==
  ASSUME ClaudeTypes, NEW w \in Paths, WritesTo(w), NothingHidden, SubagentsReachable
  PROVE  NothingHidden' /\ SubagentsReachable'
<1>1. pass' = pass /\ group' = group /\ before' = before /\ listed' = listed /\ parentOf' = parentOf
      /\ listed \subseteq Paths
  BY DEF WritesTo, ClaudeTypes
<1>2. \A p \in listed : Held(p) \subseteq Held(p)'
  BY <1>1, HeldGrows
<1>3. SubagentsReachable'
  BY <1>1 DEF SubagentsReachable, Listing
<1>4. ASSUME ~Listing PROVE before \subseteq UNION {Held(p)' : p \in listed}
  BY <1>2, <1>4 DEF NothingHidden
<1>5. NothingHidden'
  BY <1>1, <1>4 DEF NothingHidden, Listing
<1> QED  BY <1>3, <1>5

\* Copies whose files are written are under a signature that is no longer theirs.
LEMMA GrowsCopies ==
  ASSUME ClaudeTypes, NEW w \in Paths, WritesTo(w), CopiesExact
  PROVE  CopiesExact'
<1> DEFINE signed == {p \in Paths : copyGroup.sig[p] # Unstatted}
<1>1. copyGroup' = copyGroup /\ Unstatted' = Unstatted
  BY DEF WritesTo, Unstatted
<1>2. CASE \E p \in signed : copyGroup.sig[p] # ClaudeStat(p)'
  BY <1>1, <1>2 DEF CopiesExact
<1>3. CASE \A p \in signed : copyGroup.sig[p] = ClaudeStat(p)'
  <2>1. \A p \in signed : copyGroup.sig[p] = ClaudeStat(p) /\ content'[p] = content[p] /\ written'[p] = written[p]
    BY <1>3, StatKept DEF ClaudeTypes
  <2>2. \A p \in signed : Held(p)' = Held(p)
    BY <2>1 DEF Held
  <2> QED  BY <1>1, <2>1, <2>2 DEF CopiesExact
<1> QED  BY <1>2, <1>3

\* A pass that is not over has a next file.
LEMMA FirstIsLeft ==
  ASSUME ClaudeTypes, todo # {}
  PROVE  ClaudeFirst \in todo /\ ClaudeFirst \in group /\ ClaudeFirst \in Existing /\ ClaudeFirst \in Paths
<1>1. todo \subseteq group /\ group \subseteq Existing /\ Existing \subseteq Paths
  BY DEF ClaudeTypes, Existing
<1>2. todo \in SUBSET Nat
  BY <1>1, ClaudeStoreAssumption
<1> QED  BY <1>1, <1>2, MinIsIn DEF ClaudeFirst

\* The stat of a file that is there is not that of one that is not.
LEMMA StatTyped ==
  ASSUME ClaudeTypes, NEW p \in Paths
  PROVE  /\ ClaudeStat(p) \in FileStats /\ Unstatted \in FileStats
         /\ p \in Existing => ClaudeStat(p) # Unstatted /\ LastOf(p) \in 0..LastWrite
<1>1. /\ Len(content[p]) \in Nat /\ Len(content[p]) <= writes + 1 /\ writes \in Nat
      /\ written[p] \in 0..(writes + 1)
      /\ p \in Existing <=> Len(content[p]) # 0
  BY ContentTyped
<1>2. p \in Existing => LastOf(p) \in 0..LastWrite
  BY ContentTyped DEF LastWrite
<1>3. ClaudeStat(p) \in FileStats /\ Unstatted \in FileStats
  BY <1>1 DEF ClaudeStat, FileStats, LastWrite, Unstatted
<1>4. p \in Existing => ClaudeStat(p) # Unstatted
  BY <1>1 DEF ClaudeStat, Unstatted
<1> QED  BY <1>2, <1>3, <1>4

\* A file is left out for one of the group.
LEMMA ScanTypes ==
  ASSUME ClaudeTypes, NEW p \in group
  PROVE  TargetOf(p) \in Paths \cup {0}
<1> DEFINE last == identities[p].last
           containing == {q \in group \ {p} : last \in holds[q]}
           advanced == {q \in containing : identities[q].last # last}
           owners == {q \in group : identities[q].last = last}
           files == IF advanced # {} THEN advanced ELSE owners
<1>1. group \subseteq Paths
  BY DEF ClaudeTypes, Existing
<1>2. files \in SUBSET Paths /\ files # {}
  BY <1>1
<1>3. CopyTarget(files) \in Paths
  <2> HIDE DEF files
  <2> QED  BY <1>2, CopyTargetIsBest
<1> QED  BY <1>3 DEF TargetOf

\* The same files, and what the list has kept of them
LEMMA ListTypes ==
  ASSUME ClaudeTypes, ListStep
  PROVE  ClaudeTypes'
<1>0. /\ group \subseteq Existing /\ Existing \subseteq Paths /\ group \subseteq Paths /\ {} \subseteq group
      /\ \A p \in Paths : ClaudeStat(p) \in FileStats
      /\ Unstatted \in FileStats
  <2>1. (\A p \in Paths : ClaudeStat(p) \in FileStats) /\ Unstatted \in FileStats
    BY StatTyped, ClaudeStoreAssumption
  <2> QED  BY <2>1 DEF ClaudeTypes, Existing
<1>1. FileStats' = FileStats /\ LastWrite' = LastWrite /\ Existing' = Existing /\ UNCHANGED claudeFiles
  BY DEF ListStep, BeginList, KnownIdentity, StatIdentity, ReadIdentity, EndIdentify, SignOne, EndSign,
         EndAgain, ScanOne, EndScan, EndList, claudeFiles, FileStats, LastWrite, Existing
<1> DEFINE First == ClaudeFirst
<1>2. CASE BeginList
  <2>1. before' \subseteq 1..LastWrite
    <3>1. \A p \in Paths : Held(p) \subseteq 1..LastWrite
      BY ContentTyped DEF Held, LastWrite
    <3> QED  BY <1>0, <1>2, <3>1 DEF BeginList
  <2> QED  BY <1>0, <1>1, <1>2, <2>1 DEF ClaudeTypes, BeginList, ClaudePass, claudeFiles
<1>3. CASE KnownIdentity
  BY <1>1, <1>3 DEF ClaudeTypes, KnownIdentity, ClaudeDone, claudeFiles
<1>4. CASE StatIdentity
  <2>1. First \in Paths
    BY <1>4, FirstIsLeft DEF StatIdentity, Identifies
  <2> QED  BY <1>0, <1>1, <1>4, <2>1 DEF ClaudeTypes, StatIdentity, claudeFiles
<1>5. CASE ReadIdentity
  <2>1. First \in Paths /\ First \in Existing
    BY <1>5, FirstIsLeft DEF ReadIdentity, Identifies
  <2>2. [stat |-> probed, last |-> LastOf(First)] \in [stat : FileStats, last : 0..LastWrite]
    BY <2>1, StatTyped DEF ClaudeTypes
  <2>3. identities' \in [Paths -> [stat : FileStats, last : 0..LastWrite]]
    BY <1>5, <2>1, <2>2 DEF ClaudeTypes, ReadIdentity
  <2>4. probed' \in FileStats /\ todo' \subseteq todo
    BY <1>0, <1>5 DEF ReadIdentity, ClaudeDone
  <2> QED  BY <1>1, <1>5, <2>3, <2>4 DEF ClaudeTypes, ReadIdentity, claudeFiles
<1>6. CASE EndIdentify
  <2>1. /\ pass' \in {"resolve", "sign"} /\ todo' \subseteq group
        /\ sig' \in [Paths -> FileStats]
    BY <1>0, <1>6 DEF EndIdentify, ClaudePass
  <2> QED  BY <1>1, <1>6, <2>1 DEF ClaudeTypes, EndIdentify, claudeFiles
<1>7. CASE SignOne
  <2>1. First \in Paths
    BY <1>7, FirstIsLeft DEF SignOne
  <2>2. sig' \in [Paths -> FileStats] /\ todo' \subseteq todo
    BY <1>0, <1>7, <2>1 DEF ClaudeTypes, SignOne, ClaudeDone
  <2> QED  BY <1>1, <1>7, <2>2 DEF ClaudeTypes, SignOne, claudeFiles
<1>8. CASE EndSign
  <2>1. pass' \in {"resolve", "again"} /\ todo' \subseteq group
    BY <1>0, <1>8 DEF EndSign, ClaudePass
  <2> QED  BY <1>1, <1>8, <2>1 DEF ClaudeTypes, EndSign, claudeFiles
<1>9. CASE EndAgain
  <2>1. holds' \in [Paths -> SUBSET Nat]
    BY <1>9 DEF EndAgain
  <2> QED  BY <1>1, <1>9, <2>1 DEF ClaudeTypes, EndAgain, ClaudePass, claudeFiles
<1>10. CASE ScanOne
  <2>1. First \in Paths
    BY <1>10, FirstIsLeft DEF ScanOne
  <2>2. HoldsOf(First) \subseteq Nat
    <3>1. writes \in Nat /\ \A i \in 1..Len(content[First]) : content[First][i] \in 1..(writes + 1)
      BY <2>1, ContentTyped
    <3> QED  BY <3>1 DEF HoldsOf, Held
  <2>3. holds' \in [Paths -> SUBSET Nat]
    BY <1>10, <2>1, <2>2 DEF ClaudeTypes, ScanOne
  <2> QED  BY <1>1, <1>10, <2>3 DEF ClaudeTypes, ScanOne, ClaudeDone, claudeFiles
<1>11. CASE EndScan
  <2> DEFINE of == [p \in Paths |-> IF p \in group THEN TargetOf(p) ELSE 0]
  <2>1. of \in [Paths -> Paths \cup {0}]
    BY ScanTypes
  <2>2. copyGroup' = [sig |-> sig, of |-> of] /\ pass' = "resolve" /\ todo' = {}
    BY <1>11 DEF EndScan, ClaudePass
  <2> HIDE DEF of
  <2>3. copyGroup' \in [sig : [Paths -> FileStats], of : [Paths -> Paths \cup {0}]]
    BY <2>1, <2>2 DEF ClaudeTypes
  <2> QED  BY <1>0, <1>1, <1>11, <2>2, <2>3 DEF ClaudeTypes, EndScan, claudeFiles
<1>12. CASE EndList
  <2>1. pass' = "idle" /\ todo' = {} /\ listed' \subseteq Paths
    BY <1>0, <1>12 DEF EndList, ClaudePass
  <2> QED  BY <1>0, <1>1, <1>12, <2>1 DEF ClaudeTypes, EndList, claudeFiles
<1> QED  BY <1>2, <1>3, <1>4, <1>5, <1>6, <1>7, <1>8, <1>9, <1>10, <1>11, <1>12 DEF ListStep

Unwritten == UNCHANGED claudeFiles

\* A list writes no file.
LEMMA SameFiles ==
  ASSUME Unwritten
  PROVE  /\ SharedStarts => SharedStarts'
         /\ Existing' = Existing /\ Unstatted' = Unstatted
         /\ \A p \in Paths : ClaudeStat(p)' = ClaudeStat(p) /\ Held(p)' = Held(p) /\ LastOf(p)' = LastOf(p)
BY DEF Unwritten, claudeFiles, SharedStarts, Existing, ClaudeStat, Held, LastOf, Unstatted

\* Identities that are not touched stay right.
LEMMA SameIdentities ==
  ASSUME Unwritten, UNCHANGED identities, \A p \in Existing : IdentityOK(p)
  PROVE  \A p \in Existing' : IdentityOK(p)'
<1>1. Existing' = Existing /\ Existing \subseteq Paths
  BY SameFiles DEF Existing
<1> QED  BY <1>1, SameFiles DEF IdentityOK

\* So do the copies that are banked,
LEMMA SameBank ==
  ASSUME Unwritten, UNCHANGED copyGroup
  PROVE  /\ \A p \in Paths : BankOK(p) => BankOK(p)'
         /\ CopiesExact => CopiesExact'
<1>1. content' = content /\ written' = written /\ copyGroup' = copyGroup
  BY DEF Unwritten, claudeFiles
<1>2. \A p \in Paths : BankOK(p) => BankOK(p)'
  BY <1>1 DEF BankOK, OpensTo, Unstatted
<1>3. CopiesExact => CopiesExact'
  BY <1>1, SameFiles DEF CopiesExact
<1> QED  BY <1>2, <1>3

\* what there was when the list began,
LEMMA SameBefore ==
  ASSUME Unwritten, UNCHANGED <<group, before>>, BeforeOK
  PROVE  BeforeOK'
BY DEF Unwritten, claudeFiles, BeforeOK, Held

\* the stats of the group,
LEMMA SameSign ==
  ASSUME Unwritten, UNCHANGED <<group, before, sig>>
  PROVE  \A p \in Paths : SignOK(p) => SignOK(p)'
BY DEF Unwritten, claudeFiles, SignOK, Unstatted

\* the last messages,
LEMMA SameAgain ==
  ASSUME Unwritten, UNCHANGED sig, NEW p \in Paths, identities'[p] = identities[p], AgainOK(p)
  PROVE  AgainOK(p)'
<1>1. content' = content /\ sig' = sig /\ ClaudeStat(p)' = ClaudeStat(p)
  BY SameFiles DEF Unwritten, claudeFiles
<1> QED  BY <1>1 DEF AgainOK

\* and what the files were found to hold.
LEMMA SameScan ==
  ASSUME Unwritten, UNCHANGED <<group, sig, identities>>, NEW p \in Paths
  PROVE  /\ HoldsOf(p)' = HoldsOf(p)
         /\ holds'[p] = holds[p] /\ ScanOK(p) => ScanOK(p)'
<1>1. Held(p)' = Held(p) /\ ClaudeStat(p)' = ClaudeStat(p)
  BY SameFiles
<1>2. HoldsOf(p)' = HoldsOf(p)
  BY <1>1 DEF HoldsOf
<1> QED  BY <1>1, <1>2 DEF ScanOK

\* Until a list ends it has nothing to answer for.
LEMMA StillListing ==
  ASSUME pass' # "idle"
  PROVE  NothingHidden' /\ SubagentsReachable'
BY DEF NothingHidden, SubagentsReachable, Listing

\* A file that is there has a last message.
LEMMA LastIsThere ==
  ASSUME ClaudeTypes, NEW p \in Existing
  PROVE  \E i \in DOMAIN content[p] : content[p][i] = LastOf(p) /\ i = Len(content[p])
BY ContentTyped DEF Existing

\* BeginList keeps the invariant.
LEMMA BeginKept == ASSUME ClaudeTypes, ClaudeInv, BeginList PROVE ClaudeInv'
<1>1. /\ Unwritten /\ UNCHANGED <<identities, copyGroup, probed>> /\ pass = "idle" /\ pass' = "identify"
      /\ group' = Existing /\ todo' = Existing /\ before' = UNION {Held(p) : p \in Existing}
  BY DEF BeginList, Unwritten, ClaudePass
<1>2. BeforeOK'
  <2>1. content' = content /\ group' \subseteq Paths
    BY <1>1 DEF Unwritten, claudeFiles, Existing
  <2>2. \A p \in Existing : DOMAIN content[p] = 1..Len(content[p])
    BY ContentTyped DEF Existing
  <2>3. \A p \in Existing : \A i \in DOMAIN content[p] : content[p][i] \in Held(p)
    BY <2>2 DEF Held
  <2>4. \A u \in before' : \E p \in group' : u \in Held(p)'
    BY <1>1, <2>1 DEF Held
  <2> QED  BY <1>1, <2>1, <2>3, <2>4 DEF BeforeOK
<1>3. probed = Unstatted
  BY <1>1 DEF ClaudeInv, PassOK, Identifies
<1>4. PassOK'
  BY <1>1, <1>3 DEF PassOK, Unstatted
<1> QED  BY <1>1, <1>2, <1>4, SameFiles, SameIdentities, SameBank, StillListing DEF ClaudeInv

\* KnownIdentity keeps the invariant: a known identity is that of the file as it is.
LEMMA KnownKept == ASSUME ClaudeTypes, ClaudeInv, KnownIdentity PROVE ClaudeInv'
<1> DEFINE First == ClaudeFirst
<1>1. /\ Unwritten /\ UNCHANGED <<identities, copyGroup, probed, pass, group, sig, before>>
      /\ pass \in {"identify", "again"} /\ todo # {} /\ todo' = todo \ {First} /\ probed = Unstatted
      /\ identities[First].stat = ClaudeStat(First)
  BY DEF KnownIdentity, Unwritten, ClaudeDone, Identifies
<1>2. First \in Existing /\ First \in group /\ First \in Paths
  BY <1>1, FirstIsLeft
<1>3. ASSUME pass = "again" PROVE AgainOK(First)
  <2>1. identities[First].last = LastOf(First)
    BY <1>1, <1>2 DEF ClaudeInv, IdentityOK
  <2>2. sig[First].size <= Len(content[First])
    BY <1>2, <1>3 DEF ClaudeInv, PassOK, SignOK
  <2> QED  BY <1>1, <1>2, <2>1, <2>2, LastIsThere DEF AgainOK
<1>4. PassOK'
  <2>1. \A p \in Paths : SignOK(p) => SignOK(p)'
    BY <1>1, SameSign
  <2>2. \A p \in Paths : AgainOK(p) => AgainOK(p)'
    BY <1>1, SameAgain
  <2>3. SeveralFiles' = SeveralFiles /\ group \subseteq Paths
    BY <1>1 DEF SeveralFiles, ClaudeTypes, Existing
  <2>4. pass = "again" => \A p \in group \ todo' : AgainOK(p)'
    BY <1>1, <1>3, <2>2, <2>3 DEF ClaudeInv, PassOK
  <2>5. probed' = Unstatted'
    BY <1>1 DEF Unstatted
  <2>6. pass = "again" => (\A p \in Paths : SignOK(p)') /\ SeveralFiles' /\ \A p \in group' : sig'[p] # Unstatted'
    BY <1>1, <2>1, <2>3 DEF ClaudeInv, PassOK, Unstatted
  <2> QED  BY <1>1, <2>4, <2>5, <2>6 DEF PassOK
<1>5. pass' # "idle"
  BY <1>1
<1> QED  BY <1>1, <1>4, <1>5, SameFiles, SameIdentities, SameBank, SameBefore, StillListing DEF ClaudeInv

\* StatIdentity keeps the invariant.
LEMMA StatIdentityKept == ASSUME ClaudeTypes, ClaudeInv, StatIdentity PROVE ClaudeInv'
<1>1. /\ Unwritten /\ UNCHANGED <<identities, copyGroup, pass, group, todo, sig, before>>
      /\ pass \in {"identify", "again"} /\ todo # {} /\ probed' = ClaudeStat(ClaudeFirst)
  BY DEF StatIdentity, Unwritten, Identifies
<1>2. ClaudeFirst \in Paths /\ ClaudeFirst' = ClaudeFirst
  BY <1>1, FirstIsLeft DEF ClaudeFirst
<1>3. PassOK'
  <2>1. \A p \in Paths : SignOK(p) => SignOK(p)'
    BY <1>1, SameSign
  <2>2. \A p \in Paths : AgainOK(p) => AgainOK(p)'
    BY <1>1, SameAgain
  <2>3. SeveralFiles' = SeveralFiles /\ group \subseteq Paths
    BY <1>1 DEF SeveralFiles, ClaudeTypes, Existing
  <2>4. pass = "again" => \A p \in group \ todo : AgainOK(p)'
    BY <1>1, <2>2, <2>3 DEF ClaudeInv, PassOK
  <2>5. probed' = ClaudeStat(ClaudeFirst)' /\ Identifies'
    <3>1. PICK f \in Paths : f = ClaudeFirst
      BY <1>2
    <3>2. ClaudeStat(ClaudeFirst)' = ClaudeStat(f)'
      BY <1>2, <3>1 DEF ClaudeStat
    <3> QED  BY <1>1, <3>1, <3>2, SameFiles DEF Identifies
  <2>6. pass = "again" => (\A p \in Paths : SignOK(p)') /\ SeveralFiles' /\ \A p \in group' : sig'[p] # Unstatted'
    BY <1>1, <2>1, <2>3 DEF ClaudeInv, PassOK, Unstatted
  <2> QED  BY <1>1, <2>4, <2>5, <2>6 DEF PassOK
<1>4. pass' # "idle"
  BY <1>1
<1> QED  BY <1>1, <1>3, <1>4, SameFiles, SameIdentities, SameBank, SameBefore, StillListing DEF ClaudeInv

\* ReadIdentity keeps the invariant: its stat is older than what it read.
LEMMA ReadIdentityKept == ASSUME ClaudeTypes, ClaudeInv, ReadIdentity PROVE ClaudeInv'
<1>0. ClaudeFirst \in Existing /\ ClaudeFirst \in group /\ ClaudeFirst \in Paths
  BY FirstIsLeft DEF ReadIdentity, Identifies
<1> PICK First \in Paths : First = ClaudeFirst
  BY <1>0
<1>1. /\ Unwritten /\ UNCHANGED <<copyGroup, pass, group, sig, before>>
      /\ pass \in {"identify", "again"} /\ todo # {} /\ todo' = todo \ {First}
      /\ probed # Unstatted /\ probed' = Unstatted
      /\ identities' = [identities EXCEPT ![First] = [stat |-> probed, last |-> LastOf(First)]]
  BY DEF ReadIdentity, Unwritten, Identifies, ClaudeDone
<1>2. First \in Existing /\ First \in group /\ First \in Paths
  BY <1>0
<1>3. identities'[First] = [stat |-> probed, last |-> LastOf(First)]
      /\ \A p \in Paths \ {First} : identities'[p] = identities[p]
  BY <1>1, <1>2 DEF ClaudeTypes
<1>4. \A p \in Existing' : IdentityOK(p)'
  <2> SUFFICES ASSUME NEW p \in Existing PROVE IdentityOK(p)'
    BY <1>1, SameFiles
  <2>1. p \in Paths
    BY DEF Existing
  <2>2. LastOf(p)' = LastOf(p) /\ ClaudeStat(p)' = ClaudeStat(p)
    BY <1>1, <2>1, SameFiles
  <2>3. CASE p = First
    BY <1>3, <2>2, <2>3 DEF IdentityOK
  <2>4. CASE p # First
    BY <1>3, <2>1, <2>2, <2>4 DEF IdentityOK, ClaudeInv
  <2> QED  BY <2>3, <2>4
<1>5. PassOK'
  <2>1. \A p \in Paths : SignOK(p) => SignOK(p)'
    BY <1>1, SameSign
  <2>2. \A p \in Paths \ {First} : AgainOK(p) => AgainOK(p)'
    BY <1>1, <1>3, SameAgain
  <2>3. SeveralFiles' = SeveralFiles /\ group \subseteq Paths
    BY <1>1 DEF SeveralFiles, ClaudeTypes, Existing
  <2>4. ASSUME pass = "again" PROVE AgainOK(First)'
    <3>1. sig[First].size <= Len(content[First])
      BY <1>2, <2>4 DEF ClaudeInv, PassOK, SignOK
    <3>2. sig[First] = ClaudeStat(First) => probed = ClaudeStat(First)
      BY <1>1, <2>4 DEF ClaudeInv, PassOK
    <3>3. content' = content /\ sig' = sig
      BY <1>1 DEF Unwritten, claudeFiles
    <3>4. PICK i \in DOMAIN content[First] : content[First][i] = LastOf(First) /\ i = Len(content[First])
      BY <1>2, LastIsThere
    <3>5. identities'[First].stat = probed /\ identities'[First].last = LastOf(First)
          /\ ClaudeStat(First)' = ClaudeStat(First)
      BY <1>1, <1>3, SameFiles
    <3>6. sig[First].size <= i
      BY <3>1, <3>4
    <3> QED  BY <3>2, <3>3, <3>4, <3>5, <3>6 DEF AgainOK
  <2>5. pass = "again" => \A p \in group \ todo' : AgainOK(p)'
    BY <1>1, <2>2, <2>3, <2>4 DEF ClaudeInv, PassOK
  <2>6. probed' = Unstatted'
    BY <1>1 DEF Unstatted
  <2>7. pass = "again" => (\A p \in Paths : SignOK(p)') /\ SeveralFiles' /\ \A p \in group' : sig'[p] # Unstatted'
    BY <1>1, <2>1, <2>3 DEF ClaudeInv, PassOK, Unstatted
  <2> QED  BY <1>1, <2>5, <2>6, <2>7 DEF PassOK
<1>6. pass' # "idle"
  BY <1>1
<1> QED  BY <1>1, <1>4, <1>5, <1>6, SameFiles, SameBank, SameBefore, StillListing DEF ClaudeInv

\* EndIdentify keeps the invariant.
LEMMA EndIdentifyKept == ASSUME ClaudeTypes, ClaudeInv, EndIdentify PROVE ClaudeInv'
<1>1. /\ Unwritten /\ UNCHANGED <<identities, copyGroup, probed, group, before>>
      /\ pass = "identify" /\ todo = {}
      /\ sig' = [p \in Paths |-> Unstatted]
      /\ IF Cardinality(group) < 2 THEN pass' = "resolve" ELSE pass' = "sign" /\ todo' = group
  BY DEF EndIdentify, Unwritten, ClaudePass
<1>2. probed = Unstatted
  BY <1>1 DEF ClaudeInv, PassOK, Identifies
<1>3. \A p \in Paths : SignOK(p)'
  BY <1>1 DEF SignOK, Unstatted
<1>4. SeveralFiles' = SeveralFiles
  BY <1>1 DEF SeveralFiles
<1>5. PassOK'
  BY <1>1, <1>2, <1>3, <1>4 DEF PassOK, SeveralFiles, Unstatted
<1>6. pass' # "idle"
  BY <1>1
<1> QED  BY <1>1, <1>5, <1>6, SameFiles, SameIdentities, SameBank, SameBefore, StillListing DEF ClaudeInv

\* SignOne keeps the invariant: whatever there was at the start is within the size.
LEMMA SignKept == ASSUME ClaudeTypes, ClaudeInv, SignOne PROVE ClaudeInv'
<1>0. ClaudeFirst \in Existing /\ ClaudeFirst \in group /\ ClaudeFirst \in Paths
  BY FirstIsLeft DEF SignOne
<1> PICK First \in Paths : First = ClaudeFirst
  BY <1>0
<1>1. /\ Unwritten /\ UNCHANGED <<identities, copyGroup, probed, pass, group, before>>
      /\ pass = "sign" /\ todo # {} /\ todo' = todo \ {First}
      /\ sig' = [sig EXCEPT ![First] = ClaudeStat(First)]
  BY DEF SignOne, Unwritten, ClaudeDone
<1>2. sig'[First] = ClaudeStat(First) /\ \A p \in Paths \ {First} : sig'[p] = sig[p]
  BY <1>1 DEF ClaudeTypes
<1>3. probed = Unstatted
  BY <1>1 DEF ClaudeInv, PassOK, Identifies
<1>4. \A p \in Paths : SignOK(p)'
  <2> SUFFICES ASSUME NEW p \in Paths PROVE SignOK(p)'
    OBVIOUS
  <2>1. content' = content /\ group' = group /\ before' = before /\ Unstatted' = Unstatted
    BY <1>1 DEF Unwritten, claudeFiles, Unstatted
  <2>2. CASE p = First
    <3>1. DOMAIN content[p] = 1..Len(content[p]) /\ Len(content[p]) \in Nat
      BY ContentTyped
    <3>2. sig'[p].size = Len(content[p])
      BY <1>2, <2>2 DEF ClaudeStat
    <3> QED  BY <1>0, <2>1, <2>2, <3>1, <3>2 DEF SignOK
  <2>3. CASE p # First
    <3>1. SignOK(p) /\ sig'[p] = sig[p]
      BY <1>1, <1>2, <2>3 DEF ClaudeInv, PassOK
    <3> QED  BY <2>1, <3>1 DEF SignOK
  <2> QED  BY <2>2, <2>3
<1>5. \A p \in group' \ todo' : sig'[p] # Unstatted
  <2>1. group \subseteq Paths /\ (\A p \in group \ todo : sig[p] # Unstatted) /\ group' = group
    BY <1>1 DEF ClaudeInv, PassOK, ClaudeTypes, Existing
  <2>2. ClaudeStat(First) # Unstatted
    BY <1>0, StatTyped
  <2> QED  BY <1>1, <1>2, <2>1, <2>2
<1>6. SeveralFiles'
  BY <1>1 DEF ClaudeInv, PassOK, SeveralFiles
<1>7. PassOK'
  BY <1>1, <1>3, <1>4, <1>5, <1>6 DEF PassOK, Unstatted
<1>8. pass' # "idle"
  BY <1>1
<1> QED  BY <1>1, <1>7, <1>8, SameFiles, SameIdentities, SameBank, SameBefore, StillListing DEF ClaudeInv

\* EndSign keeps the invariant: a known signature brings its copies with it.
LEMMA EndSignKept == ASSUME ClaudeTypes, ClaudeInv, EndSign PROVE ClaudeInv'
<1>1. /\ Unwritten /\ UNCHANGED <<identities, copyGroup, probed, group, before, sig>>
      /\ pass = "sign" /\ todo = {}
      /\ IF sig = copyGroup.sig THEN pass' = "resolve" ELSE pass' = "again" /\ todo' = group
  BY DEF EndSign, Unwritten, ClaudePass, SameGroup
<1>2. probed = Unstatted
  BY <1>1 DEF ClaudeInv, PassOK, Identifies
<1>3. \A p \in Paths : SignOK(p)'
  BY <1>1, SameSign DEF ClaudeInv, PassOK
<1>4. SeveralFiles' /\ \A p \in group' : sig'[p] # Unstatted'
  BY <1>1 DEF ClaudeInv, PassOK, SeveralFiles, Unstatted
<1>5. PassOK'
  BY <1>1, <1>2, <1>3, <1>4 DEF PassOK, Unstatted
<1>6. pass' # "idle"
  BY <1>1
<1> QED  BY <1>1, <1>5, <1>6, SameFiles, SameIdentities, SameBank, SameBefore, StillListing DEF ClaudeInv

\* EndAgain keeps the invariant.
LEMMA EndAgainKept == ASSUME ClaudeTypes, ClaudeInv, EndAgain PROVE ClaudeInv'
<1>1. /\ Unwritten /\ UNCHANGED <<identities, copyGroup, probed, group, before, sig>>
      /\ pass = "again" /\ todo = {} /\ pass' = "scan" /\ todo' = group
  BY DEF EndAgain, Unwritten, ClaudePass
<1>2. probed = Unstatted
  BY <1>1 DEF ClaudeInv, PassOK, Identifies
<1>3. \A p \in Paths : SignOK(p)'
  BY <1>1, SameSign DEF ClaudeInv, PassOK
<1>4. SeveralFiles' /\ \A p \in group' : sig'[p] # Unstatted'
  BY <1>1 DEF ClaudeInv, PassOK, SeveralFiles, Unstatted
<1>5. \A p \in group' : AgainOK(p)'
  <2>1. group \subseteq Paths /\ (\A p \in group \ todo : AgainOK(p)) /\ group' = group
    BY <1>1 DEF ClaudeInv, PassOK, ClaudeTypes, Existing
  <2> QED  BY <1>1, <2>1, SameAgain
<1>6. PassOK'
  BY <1>1, <1>2, <1>3, <1>4, <1>5 DEF PassOK, Unstatted
<1>7. pass' # "idle"
  BY <1>1
<1> QED  BY <1>1, <1>6, <1>7, SameFiles, SameIdentities, SameBank, SameBefore, StillListing DEF ClaudeInv

\* ScanOne keeps the invariant.
LEMMA ScanKeptOne == ASSUME ClaudeTypes, ClaudeInv, ScanOne PROVE ClaudeInv'
<1>0. ClaudeFirst \in Existing /\ ClaudeFirst \in group /\ ClaudeFirst \in Paths
  BY FirstIsLeft DEF ScanOne
<1> PICK First \in Paths : First = ClaudeFirst
  BY <1>0
<1>1. /\ Unwritten /\ UNCHANGED <<identities, copyGroup, probed, pass, group, before, sig>>
      /\ pass = "scan" /\ todo # {} /\ todo' = todo \ {First}
      /\ holds' = [holds EXCEPT ![First] = HoldsOf(First)]
  BY DEF ScanOne, Unwritten, ClaudeDone
<1>2. probed = Unstatted
  BY <1>1 DEF ClaudeInv, PassOK, Identifies
<1>3. \A p \in Paths : SignOK(p)'
  BY <1>1, SameSign DEF ClaudeInv, PassOK
<1>4. SeveralFiles' /\ \A p \in group' : sig'[p] # Unstatted'
  BY <1>1 DEF ClaudeInv, PassOK, SeveralFiles, Unstatted
<1>5. \A p \in group' : AgainOK(p)'
  <2>1. group \subseteq Paths /\ (\A p \in group : AgainOK(p)) /\ group' = group
    BY <1>1 DEF ClaudeInv, PassOK, ClaudeTypes, Existing
  <2> QED  BY <1>1, <2>1, SameAgain
<1>6. \A p \in group' \ todo' : ScanOK(p)'
  <2> SUFFICES ASSUME NEW p \in group \ todo' PROVE ScanOK(p)'
    BY <1>1
  <2>1. p \in Paths
    BY DEF ClaudeTypes, Existing
  <2>2. CASE p = First
    <3>1. holds'[First] = HoldsOf(First)
      BY <1>1 DEF ClaudeTypes
    <3>2. HoldsOf(p)' = HoldsOf(p) /\ Held(p)' = Held(p)
      BY <1>1, <2>1, SameScan, SameFiles
    <3> QED  BY <2>2, <3>1, <3>2 DEF ScanOK, HoldsOf
  <2>3. CASE p # First
    <3>1. ScanOK(p) /\ holds'[p] = holds[p]
      BY <1>1, <2>1, <2>3 DEF ClaudeInv, PassOK
    <3> QED  BY <1>1, <2>1, <3>1, SameScan
  <2> QED  BY <2>2, <2>3
<1>7. PassOK'
  BY <1>1, <1>2, <1>3, <1>4, <1>5, <1>6 DEF PassOK, Unstatted
<1>8. pass' # "idle"
  BY <1>1
<1> QED  BY <1>1, <1>7, <1>8, SameFiles, SameIdentities, SameBank, SameBefore, StillListing DEF ClaudeInv

\* A message of p that q has too is where it is in p, and after the same messages.
LEMMA SharedIsIn ==
  ASSUME ClaudeTypes, SharedStarts, NEW p \in Paths, NEW q \in Paths, NEW i \in DOMAIN content[p], content[p][i] \in Held(q)
  PROVE  i \in DOMAIN content[q] /\ content[q][i] = content[p][i] /\ SameStart(p, q, i)
<1>1. DOMAIN content[q] = 1..Len(content[q])
  BY ContentTyped
<1>2. PICK j \in DOMAIN content[q] : content[q][j] = content[p][i]
  BY <1>1 DEF Held
<1> QED  BY <1>2, SharedSays

\* A file is left out for one that has its last message.
LEMMA TargetHasLast ==
  ASSUME ClaudeTypes, NEW p \in group, \A q \in group : holds[q] \subseteq Held(q) /\ identities[q].last \in Held(q),
         TargetOf(p) # 0
  PROVE  TargetOf(p) \in group \ {p} /\ identities[p].last \in Held(TargetOf(p))
<1> DEFINE last == identities[p].last
           containing == {q \in group \ {p} : last \in holds[q]}
           advanced == {q \in containing : identities[q].last # last}
           owners == {q \in group : identities[q].last = last}
           files == IF advanced # {} THEN advanced ELSE owners
           target == CopyTarget(files)
<1>1. group \subseteq Paths
  BY DEF ClaudeTypes, Existing
<1>2. files \in SUBSET Paths /\ files # {}
  BY <1>1
<1>3. target \in files
  <2> HIDE DEF files
  <2> QED  BY <1>2, CopyTargetIsBest
<1>4. TargetOf(p) = target /\ target # p
  BY DEF TargetOf
<1>5. \A q \in files : q \in group /\ last \in Held(q)
  OBVIOUS
<1> HIDE DEF files, target
<1> QED  BY <1>3, <1>4, <1>5

\* That one has all the file held under the signature: what they share is older than it.
LEMMA ScanBanks ==
  ASSUME ClaudeTypes, ClaudeInv, pass = "scan", todo = {}, NEW p \in group, TargetOf(p) # 0
  PROVE  TargetOf(p) \in group \ {p} /\ OpensTo(p, TargetOf(p), sig)
<1>1. group \subseteq Paths /\ SharedStarts /\ BeforeOK
      /\ \A q \in group : SignOK(q) /\ AgainOK(q) /\ ScanOK(q) /\ sig[q] # Unstatted
  BY DEF ClaudeTypes, Existing, ClaudeInv, PassOK
<1>2. \A q \in group : holds[q] \subseteq Held(q) /\ identities[q].last \in Held(q)
  <2> SUFFICES ASSUME NEW q \in group PROVE holds[q] \subseteq Held(q) /\ identities[q].last \in Held(q)
    OBVIOUS
  <2>1. DOMAIN content[q] = 1..Len(content[q])
    BY <1>1, ContentTyped
  <2> QED  BY <1>1, <2>1 DEF ScanOK, AgainOK, Held
<1>3. PICK q \in group \ {p} : q = TargetOf(p) /\ identities[p].last \in Held(q)
  BY <1>2, TargetHasLast
<1>4. PICK i \in DOMAIN content[p] : content[p][i] = identities[p].last /\ sig[p].size <= i
  BY <1>1 DEF AgainOK
<1>5. i \in DOMAIN content[q] /\ content[q][i] = content[p][i] /\ SameStart(p, q, i)
  BY <1>1, <1>3, <1>4, SharedIsIn
<1>6. content[q][i] \in before
  BY <1>1, <1>3, <1>4, <1>5 DEF BeforeOK
<1>7. i <= sig[q].size /\ sig[q].size <= Len(content[q]) /\ sig[p].size <= Len(content[p])
  BY <1>1, <1>3, <1>5, <1>6 DEF SignOK
<1>8. sig[p].size \in Nat /\ sig[q].size \in Nat /\ i \in Nat
  <2>1. sig[p] \in FileStats /\ sig[q] \in FileStats
    BY <1>1 DEF ClaudeTypes
  <2>2. \A s \in FileStats : s.size \in Nat
    BY DEF FileStats
  <2>3. DOMAIN content[p] = 1..Len(content[p])
    BY <1>1, ContentTyped
  <2> QED  BY <2>1, <2>2, <2>3
<1>9. \A k \in 1..sig[p].size : content[p][k] = content[q][k]
  BY <1>4, <1>5, <1>8 DEF SameStart
<1>10. sig[p].size <= sig[q].size
  BY <1>4, <1>7, <1>8
<1> QED  BY <1>3, <1>7, <1>9, <1>10 DEF OpensTo

\* Files that open alike, told by their last messages
LEMMA HoldsAll ==
  ASSUME ClaudeTypes, SharedStarts, NEW p \in Existing, NEW q \in Existing
  PROVE  /\ LastOf(p) \in Held(q) <=> Held(p) \subseteq Held(q)
         /\ LastOf(p) \in Held(q) => (LastOf(q) = LastOf(p) <=> Held(q) = Held(p))
         /\ LastOf(q) = LastOf(p) => Len(content[q]) = Len(content[p])
<1>1. p \in Paths /\ q \in Paths
  BY DEF Existing
<1>2. /\ DOMAIN content[p] = 1..Len(content[p]) /\ Len(content[p]) \in Nat /\ Len(content[p]) \in DOMAIN content[p]
      /\ LastOf(p) = content[p][Len(content[p])] /\ LastOf(p) \in Held(p)
  BY <1>1, ContentTyped DEF Held
<1>3. /\ DOMAIN content[q] = 1..Len(content[q]) /\ Len(content[q]) \in Nat /\ Len(content[q]) \in DOMAIN content[q]
      /\ LastOf(q) = content[q][Len(content[q])] /\ LastOf(q) \in Held(q)
  BY <1>1, ContentTyped DEF Held
<1>4. ASSUME LastOf(p) \in Held(q) PROVE Held(p) \subseteq Held(q) /\ Len(content[p]) <= Len(content[q])
  <2>1. Len(content[p]) \in DOMAIN content[q] /\ SameStart(p, q, Len(content[p]))
    BY <1>1, <1>2, <1>4, SharedIsIn
  <2> QED  BY <1>2, <1>3, <2>1 DEF SameStart, Held
<1>5. ASSUME LastOf(q) \in Held(p) PROVE Held(q) \subseteq Held(p) /\ Len(content[q]) <= Len(content[p])
  <2>1. Len(content[q]) \in DOMAIN content[p] /\ SameStart(q, p, Len(content[q]))
    BY <1>1, <1>3, <1>5, SharedIsIn
  <2> QED  BY <1>2, <1>3, <2>1 DEF SameStart, Held
<1>6. ASSUME LastOf(q) = LastOf(p) PROVE Held(q) = Held(p) /\ Len(content[q]) = Len(content[p])
  <2>1. LastOf(p) \in Held(q) /\ LastOf(q) \in Held(p)
    BY <1>2, <1>3, <1>6
  <2>2. Held(p) \subseteq Held(q) /\ Held(q) \subseteq Held(p)
    BY <1>4, <1>5, <2>1
  <2>3. Len(content[p]) <= Len(content[q]) /\ Len(content[q]) <= Len(content[p])
    BY <1>4, <1>5, <2>1
  <2>4. Held(q) = Held(p)
    BY ONLY <2>2, Zenon
  <2>5. Len(content[q]) = Len(content[p])
    BY ONLY <1>2, <1>3, <2>3
  <2> QED  BY <2>4, <2>5
<1>7. Held(q) = Held(p) => LastOf(q) = LastOf(p)
  <2> SUFFICES ASSUME Held(q) = Held(p) PROVE LastOf(q) = LastOf(p)
    OBVIOUS
  <2>1. LastOf(p) \in Held(q) /\ LastOf(q) \in Held(p)
    BY <1>2, <1>3
  <2>2. Len(content[p]) = Len(content[q])
    BY <1>2, <1>3, <1>4, <1>5, <2>1
  <2>3. content[q][Len(content[p])] = content[p][Len(content[p])]
    BY <1>1, <1>2, <2>1, SharedIsIn
  <2> QED  BY <1>2, <1>3, <2>2, <2>3
<1> QED  BY <1>2, <1>4, <1>6, <1>7

\* What findClaudeSessionCopies makes of a group none of whose files has changed
LEMMA TargetIsExact ==
  ASSUME ClaudeTypes, SharedStarts, NEW p \in group,
         \A q \in group : identities[q].last = LastOf(q) /\ identities[q].stat = ClaudeStat(q) /\ holds[q] = HoldsOf(q)
  PROVE  LET holder == {q \in group \ {p} : Held(p) \subseteq Held(q)}
         IN /\ TargetOf(p) # 0 <=> \E q \in holder : Held(q) # Held(p) \/ written[q] < written[p]
            /\ TargetOf(p) # 0 => TargetOf(p) \in holder
<1> DEFINE last == identities[p].last
           containing == {q \in group \ {p} : last \in holds[q]}
           advanced == {q \in containing : identities[q].last # last}
           owners == {q \in group : identities[q].last = last}
           files == IF advanced # {} THEN advanced ELSE owners
           target == CopyTarget(files)
           holder == {q \in group \ {p} : Held(p) \subseteq Held(q)}
<1>1. group \subseteq Existing /\ Existing \subseteq Paths /\ 0 \notin Paths /\ Paths \subseteq Nat
  BY ClaudeStoreAssumption DEF ClaudeTypes, Existing
<1>2. \A q \in group : last \in holds[q] <=> LastOf(p) \in Held(q)
  BY DEF HoldsOf
<1>3. containing = holder
  <2>1. \A q \in group : LastOf(p) \in Held(q) <=> Held(p) \subseteq Held(q)
    BY <1>1, HoldsAll
  <2> QED  BY <1>2, <2>1
<1>4. \A q \in containing : identities[q].last # last <=> Held(q) # Held(p)
  <2>1. \A q \in group : LastOf(p) \in Held(q) => (LastOf(q) = LastOf(p) <=> Held(q) = Held(p))
    BY <1>1, HoldsAll
  <2> QED  BY <1>2, <2>1
<1>5. files \in SUBSET Paths /\ files # {}
  BY <1>1
<1>6. target \in files /\ \A q \in files \ {target} : Beats(target, q)
  <2> HIDE DEF files
  <2> QED  BY <1>5, CopyTargetIsBest
<1>7. TargetOf(p) = IF containing = {} \/ target = p THEN 0 ELSE target
  BY DEF TargetOf
<1>8. target # 0
  BY <1>1, <1>5, <1>6
<1>9. \A q \in owners : Len(content[q]) = Len(content[p]) /\ (q # p => q \in containing)
  <2> SUFFICES ASSUME NEW q \in owners PROVE Len(content[q]) = Len(content[p]) /\ (q # p => q \in containing)
    OBVIOUS
  <2>1. LastOf(q) = LastOf(p)
    OBVIOUS
  <2>2. Len(content[q]) = Len(content[p])
    BY <1>1, <2>1, HoldsAll
  <2>3. LastOf(p) \in Held(q)
    <3>1. DOMAIN content[q] = 1..Len(content[q]) /\ Len(content[q]) \in DOMAIN content[q]
          /\ LastOf(q) = content[q][Len(content[q])]
      BY <1>1, ContentTyped
    <3> QED  BY <2>1, <3>1 DEF Held
  <2> QED  BY <1>2, <2>2, <2>3
<1>10. ASSUME NEW a \in group, NEW b \in group, a # b, Len(content[a]) = Len(content[b]), Beats(a, b)
       PROVE  written[a] < written[b]
  <2>1. written[a] # written[b]
    BY <1>1, <1>10 DEF SharedStarts
  <2>2. identities[a].stat.size = Len(content[a]) /\ identities[a].stat.at = written[a]
        /\ identities[b].stat.size = Len(content[b]) /\ identities[b].stat.at = written[b]
    <3>1. identities[a].stat = ClaudeStat(a) /\ identities[b].stat = ClaudeStat(b)
      OBVIOUS
    <3> QED  BY ONLY <3>1 DEF ClaudeStat
  <2>3. Len(content[a]) \in Nat
    BY <1>1, ContentTyped
  <2> QED  BY <1>10, <2>1, <2>2, <2>3 DEF Beats
<1>11. \A q \in group : written[q] \in Nat
  <2>1. \A q \in Paths : written[q] \in 0..(writes + 1)
    BY ContentTyped
  <2> QED  BY <1>1, <2>1
<1>12. CASE containing = {}
  BY <1>3, <1>7, <1>12
<1>13. CASE containing # {} /\ advanced # {}
  <2>1. target \in advanced /\ target \in holder /\ target # p /\ Held(target) # Held(p)
    BY <1>3, <1>4, <1>6, <1>13
  <2>2. TargetOf(p) = target
    BY <1>7, <1>13, <2>1
  <2> HIDE DEF target, containing, advanced, owners, files, last
  <2> QED  BY <1>8, <2>1, <2>2
<1>14. CASE containing # {} /\ advanced = {}
  <2>1. files = owners /\ \A q \in containing : q \in owners /\ Held(q) = Held(p)
    BY <1>4, <1>14
  <2>2. CASE target = p
    <3>1. \A q \in containing : written[p] < written[q]
      BY <1>6, <1>9, <1>10, <2>1, <2>2
    <3>2. TargetOf(p) = 0
      BY <1>7, <2>2
    <3>3. \A q \in holder : Held(q) = Held(p) /\ ~(written[q] < written[p])
      <4> SUFFICES ASSUME NEW q \in holder PROVE Held(q) = Held(p) /\ ~(written[q] < written[p])
        OBVIOUS
      <4>1. q \in containing
        BY <1>3
      <4>2. Held(q) = Held(p) /\ written[p] < written[q] /\ written[p] \in Nat /\ written[q] \in Nat
        BY <1>11, <2>1, <3>1, <4>1
      <4> QED  BY <4>2
    <3> HIDE DEF target, containing, advanced, owners, files, last
    <3> QED  BY <3>2, <3>3
  <2>3. CASE target # p
    <3>1. target \in owners /\ target \in containing
      BY <1>6, <1>9, <2>1, <2>3
    <3>2. target \in holder /\ p \in files \ {target} /\ target \in group
      BY <1>3, <2>1, <2>3, <3>1
    <3>3. written[target] < written[p]
      BY <1>6, <1>9, <1>10, <3>1, <3>2
    <3>4. TargetOf(p) = target
      BY <1>7, <1>14, <2>3
    <3> HIDE DEF target, containing, advanced, owners, files, last
    <3> QED  BY <1>8, <3>2, <3>3, <3>4
  <2> QED  BY <2>2, <2>3
<1> HIDE DEF containing, advanced, target
<1> QED  BY <1>12, <1>13, <1>14

\* EndScan keeps the invariant.
LEMMA EndScanKept == ASSUME ClaudeTypes, ClaudeInv, EndScan PROVE ClaudeInv'
<1> DEFINE of == [p \in Paths |-> IF p \in group THEN TargetOf(p) ELSE 0]
<1>1. /\ Unwritten /\ UNCHANGED <<identities, probed, group, before, sig>>
      /\ pass = "scan" /\ todo = {} /\ pass' = "resolve"
      /\ copyGroup' = [sig |-> sig, of |-> of]
  BY DEF EndScan, Unwritten, ClaudePass
<1>2. copyGroup'.sig = sig /\ copyGroup'.of = of
  BY <1>1
<1>3. /\ probed = Unstatted /\ group \subseteq Paths /\ group \subseteq Existing /\ SharedStarts
      /\ (\A p \in Paths : SignOK(p)) /\ \A p \in group : sig[p] # Unstatted /\ ScanOK(p) /\ AgainOK(p) /\ IdentityOK(p)
  BY <1>1 DEF ClaudeInv, PassOK, Identifies, ClaudeTypes, Existing
<1>4. \A p \in Paths : SignOK(p)'
  BY <1>1, <1>3, SameSign
<1>5. PassOK'
  BY <1>1, <1>2, <1>3, <1>4 DEF PassOK, Unstatted
<1>6. \A p \in Paths : BankOK(p)'
  <2> SUFFICES ASSUME NEW p \in Paths, of[p] # 0
               PROVE  sig[p] # Unstatted /\ sig[of[p]] # Unstatted /\ OpensTo(p, of[p], sig)
    BY <1>1, <1>2 DEF BankOK, OpensTo, Unwritten, claudeFiles, Unstatted
  <2>1. p \in group /\ of[p] = TargetOf(p)
    OBVIOUS
  <2> QED  BY <1>1, <1>3, <2>1, ScanBanks
<1>7. CopiesExact'
  <2> DEFINE signed == {p \in Paths : sig[p] # Unstatted}
  <2>1. signed = group
    BY <1>3 DEF SignOK
  <2>2. /\ Unstatted' = Unstatted /\ written' = written
        /\ \A p \in Paths : ClaudeStat(p)' = ClaudeStat(p) /\ Held(p)' = Held(p)
    BY <1>1, SameFiles DEF Unwritten, claudeFiles
  <2>3. CASE \E p \in group : sig[p] # ClaudeStat(p)
    BY <1>2, <2>1, <2>2, <2>3 DEF CopiesExact
  <2>4. CASE \A p \in group : sig[p] = ClaudeStat(p)
    <3>1. \A q \in group : identities[q].last = LastOf(q) /\ identities[q].stat = ClaudeStat(q) /\ holds[q] = HoldsOf(q)
      BY <1>3, <2>4 DEF AgainOK, ScanOK, IdentityOK
    <3> DEFINE holder(p) == {q \in group \ {p} : Held(p) \subseteq Held(q)}
    <3>2. \A p \in group : /\ of[p] # 0 <=> \E q \in holder(p) : Held(q) # Held(p) \/ written[q] < written[p]
                           /\ of[p] # 0 => of[p] \in holder(p)
      <4> SUFFICES ASSUME NEW p \in group
                   PROVE  /\ of[p] # 0 <=> \E q \in holder(p) : Held(q) # Held(p) \/ written[q] < written[p]
                          /\ of[p] # 0 => of[p] \in holder(p)
        OBVIOUS
      <4>1. of[p] = TargetOf(p)
        BY <1>3
      <4> HIDE DEF of
      <4> QED  BY <1>3, <3>1, <4>1, TargetIsExact
    <3>3. \A p \in group : holder(p)' = holder(p)
      BY <1>1, <1>3, <2>2
    <3> HIDE DEF of
    <3> QED  BY <1>2, <1>3, <2>1, <2>2, <3>2 DEF CopiesExact
  <2> QED  BY <2>3, <2>4
<1>8. pass' # "idle"
  BY <1>1
<1> QED  BY <1>1, <1>5, <1>6, <1>7, <1>8, SameFiles, SameIdentities, SameBefore, StillListing DEF ClaudeInv

\* The files on the way from p all have its u, if it had it when the list began.
LEMMA WayHas ==
  ASSUME ClaudeTypes, ClaudeInv, pass = "resolve", SeveralFiles, NEW p \in group, NEW u \in before, u \in Held(p),
         NEW q \in Along(p, copyGroup.of)
  PROVE  q \in group /\ u \in Held(q)
<1>1. group \subseteq Paths /\ copyGroup.of \in [Paths -> Paths \cup {0}] /\ copyGroup.sig = sig
      /\ (\A f \in Paths : SignOK(f) /\ BankOK(f)) /\ \A f \in group : sig[f] # Unstatted
  BY DEF ClaudeTypes, Existing, ClaudeInv, PassOK
<1>2. \A f \in Paths : DOMAIN content[f] = 1..Len(content[f])
  BY ContentTyped
<1>3. PICK i \in DOMAIN content[p] : content[p][i] = u
  BY <1>1, <1>2 DEF Held
<1> DEFINE S == {f \in group : i \in DOMAIN content[f] /\ content[f][i] = u}
<1>4. p \in S
  BY <1>3
<1>5. ASSUME NEW f \in S, copyGroup.of[f] # 0 PROVE copyGroup.of[f] \in S
  <2> DEFINE g == copyGroup.of[f]
  <2>1. f \in group /\ g \in Paths
    BY <1>1, <1>5
  <2>2. sig[g] # Unstatted /\ OpensTo(f, g, sig)
    BY <1>1, <1>5, <2>1 DEF BankOK
  <2> HIDE DEF g
  <2>3. g \in group
    BY <1>1, <2>1, <2>2 DEF SignOK
  <2>4. i <= sig[f].size /\ i \in 1..Len(content[f])
    BY <1>1, <1>2, <1>5, <2>1 DEF SignOK
  <2>5. sig[f].size \in Nat /\ sig[g].size \in Nat
    <3>1. sig[f] \in FileStats /\ sig[g] \in FileStats
      BY <1>1, <2>1 DEF ClaudeTypes
    <3>2. \A s \in FileStats : s.size \in Nat
      BY DEF FileStats
    <3> QED  BY <3>1, <3>2
  <2>6. i \in 1..sig[f].size /\ i \in Nat /\ sig[f].size <= sig[g].size /\ sig[g].size <= Len(content[g])
        /\ content[f][i] = content[g][i]
    BY <2>2, <2>4, <2>5 DEF OpensTo
  <2>7. i \in DOMAIN content[g]
    <3>1. Len(content[g]) \in Nat
      BY <2>1, ContentTyped
    <3> QED  BY <1>2, <2>1, <2>5, <2>6, <3>1
  <2> QED  BY <1>5, <2>3, <2>6, <2>7 DEF g
<1>6. q \in S
  <2>1. Closed(S, copyGroup.of) /\ S \subseteq Paths
    BY <1>1, <1>5 DEF Closed
  <2> HIDE DEF S
  <2> QED  BY <1>1, <1>4, <2>1, AlongIsLeast
<1> QED  BY <1>1, <1>2, <1>6 DEF Held

\* No copy leads out of the group.
LEMMA WayStays ==
  ASSUME ClaudeTypes, ClaudeInv, pass = "resolve", SeveralFiles, NEW p \in group, NEW q \in Along(p, copyGroup.of)
  PROVE  q \in group
<1>1. group \subseteq Paths /\ copyGroup.of \in [Paths -> Paths \cup {0}] /\ copyGroup.sig = sig
      /\ (\A f \in Paths : SignOK(f) /\ BankOK(f))
  BY DEF ClaudeTypes, Existing, ClaudeInv, PassOK
<1>2. ASSUME NEW f \in group, copyGroup.of[f] # 0 PROVE copyGroup.of[f] \in group
  <2>1. copyGroup.of[f] \in Paths /\ sig[copyGroup.of[f]] # Unstatted
    BY <1>1, <1>2 DEF BankOK
  <2> QED  BY <1>1, <2>1 DEF SignOK
<1> QED  BY <1>1, <1>2, AlongIsLeast DEF Closed

\* EndList keeps the invariant: every way ends in the list, with all it began with.
LEMMA EndListKept == ASSUME ClaudeTypes, ClaudeInv, EndList PROVE ClaudeInv'
<1> DEFINE of == IF Cardinality(group) < 2 THEN [p \in Paths |-> 0] ELSE copyGroup.of
<1>1. /\ Unwritten /\ UNCHANGED <<identities, copyGroup, probed, group, before, sig>>
      /\ pass = "resolve" /\ pass' = "idle"
      /\ listed' = {p \in group : Resolve(p, of) = p}
      /\ parentOf' = [p \in Paths |-> IF p \in group THEN Resolve(p, of) ELSE 0]
  BY DEF EndList, Unwritten, ClaudePass
<1>2. probed = Unstatted /\ group \subseteq Paths /\ of \in [Paths -> Paths \cup {0}]
  BY <1>1 DEF ClaudeInv, PassOK, Identifies, ClaudeTypes, Existing
<1>3. ASSUME NEW p \in group, NEW q \in Along(p, of)
      PROVE  q \in group /\ \A u \in before : u \in Held(p) => u \in Held(q)
  <2>1. CASE Cardinality(group) < 2
    <3>1. of = [f \in Paths |-> 0]
      BY <2>1
    <3> HIDE DEF of
    <3>2. Closed({p}, of) /\ {p} \subseteq Paths
      BY <1>2, <3>1 DEF Closed
    <3>3. q \in {p}
      BY <1>2, <1>3, <3>2, AlongIsLeast
    <3> QED  BY <3>3
  <2>2. CASE ~(Cardinality(group) < 2)
    <3>1. of = copyGroup.of /\ SeveralFiles
      BY <2>2 DEF SeveralFiles
    <3> HIDE DEF of
    <3> QED  BY <1>1, <1>3, <3>1, WayHas, WayStays
  <2> QED  BY <2>1, <2>2
<1> HIDE DEF of
<1>4. ASSUME NEW p \in group PROVE Resolve(p, of) \in listed' /\ Resolve(p, of) \in Along(p, of)
  BY <1>1, <1>2, <1>3, <1>4, ResolveLands
<1>5. NothingHidden'
  <2> SUFFICES ASSUME NEW u \in before PROVE \E p \in listed' : u \in Held(p)'
    BY <1>1 DEF NothingHidden
  <2>1. PICK p \in group : u \in Held(p)
    BY DEF ClaudeInv, BeforeOK
  <2>2. u \in Held(Resolve(p, of)) /\ Resolve(p, of) \in listed' /\ Resolve(p, of) \in Paths
    BY <1>2, <1>3, <1>4, <2>1
  <2>3. PICK r \in listed' : u \in Held(r) /\ r \in Paths
    BY <2>2
  <2> QED  BY <1>1, <2>3, SameFiles
<1>6. SubagentsReachable'
  <2>1. \A p \in group : parentOf'[p] \in listed'
    BY <1>1, <1>2, <1>4
  <2> QED  BY <1>1, <2>1 DEF SubagentsReachable
<1>7. PassOK'
  BY <1>1, <1>2 DEF PassOK, Unstatted
<1> QED  BY <1>1, <1>5, <1>6, <1>7, SameFiles, SameIdentities, SameBank, SameBefore DEF ClaudeInv

\* A project with one transcript has been listed by nobody.
LEMMA InitClaude == ClaudeInit => ClaudeTypes /\ ClaudeInv
<1> SUFFICES ASSUME ClaudeInit PROVE ClaudeTypes /\ ClaudeInv
  OBVIOUS
<1>1. /\ content = [p \in Paths |-> IF p = 1 THEN <<1>> ELSE <<>>]
      /\ written = [p \in Paths |-> IF p = 1 THEN 1 ELSE 0]
      /\ writes = 0 /\ pass = "idle" /\ group = {} /\ todo = {} /\ probed = Unstatted
      /\ identities = [p \in Paths |-> [stat |-> Unstatted, last |-> 0]]
      /\ sig = [p \in Paths |-> Unstatted] /\ holds = [p \in Paths |-> {}]
      /\ copyGroup = [sig |-> sig, of |-> [p \in Paths |-> 0]]
      /\ listed = {} /\ before = {}
  BY DEF ClaudeInit
<1>2. LastWrite = 1 /\ Unstatted \in FileStats
  BY <1>1 DEF LastWrite, FileStats, Unstatted
<1>3. content \in [Paths -> Seq(1..1)] /\ \A p \in Paths : Len(content[p]) <= 1
  <2>1. <<1>> \in Seq(1..1) /\ <<>> \in Seq(1..1) /\ Len(<<1>>) = 1 /\ Len(<<>>) = 0
    OBVIOUS
  <2>2. \A p \in Paths : content[p] = <<1>> \/ content[p] = <<>>
    BY <1>1
  <2>3. DOMAIN content = Paths /\ content = [p \in Paths |-> content[p]]
    BY <1>1
  <2>4. \A p \in Paths : content[p] \in Seq(1..1) /\ Len(content[p]) <= 1
    <3> SUFFICES ASSUME NEW p \in Paths PROVE content[p] \in Seq(1..1) /\ Len(content[p]) <= 1
      OBVIOUS
    <3>1. CASE content[p] = <<1>>
      BY <2>1, <3>1
    <3>2. CASE content[p] = <<>>
      BY <2>1, <3>2
    <3> QED  BY <2>2, <3>1, <3>2
  <2> QED  BY <2>3, <2>4
<1>4. ClaudeTypes
  <2>1. written \in [Paths -> 0..1]
    BY <1>1
  <2>2. identities \in [Paths -> [stat : FileStats, last : 0..1]]
    BY <1>1, <1>2
  <2>3. sig \in [Paths -> FileStats] /\ holds \in [Paths -> SUBSET Nat]
    BY <1>1, <1>2
  <2>4. copyGroup \in [sig : [Paths -> FileStats], of : [Paths -> Paths \cup {0}]]
    BY <1>1, <1>2, <2>3
  <2> QED  BY <1>1, <1>2, <1>3, <2>1, <2>2, <2>3, <2>4 DEF ClaudeTypes
<1>5. /\ \A p \in Paths : DOMAIN content[p] = IF p = 1 THEN {1} ELSE {}
      /\ 1 \in Paths /\ content[1] = <<1>> /\ \A p \in Existing : p = 1
  BY <1>1, ClaudeStoreAssumption DEF Existing
<1>6. SharedStarts
  BY <1>5 DEF SharedStarts
<1>7. \A p \in Existing : IdentityOK(p)
  BY <1>1, <1>5 DEF IdentityOK, ClaudeStat, Unstatted
<1>8. \A p \in Paths : BankOK(p)
  BY <1>1 DEF BankOK
<1>9. BeforeOK /\ PassOK
  BY <1>1 DEF BeforeOK, PassOK, Unstatted
<1>10. NothingHidden /\ SubagentsReachable
  BY <1>1 DEF NothingHidden, SubagentsReachable
<1>11. CopiesExact
  BY <1>1 DEF CopiesExact
<1> QED  BY <1>4, <1>6, <1>7, <1>8, <1>9, <1>10, <1>11 DEF ClaudeInv

\* Every step keeps the types and the invariant.
LEMMA ClaudeKept == ClaudeTypes /\ ClaudeInv /\ [ClaudeNext]_claudeVars => ClaudeTypes' /\ ClaudeInv'
<1> SUFFICES ASSUME ClaudeTypes, ClaudeInv, [ClaudeNext]_claudeVars PROVE ClaudeTypes' /\ ClaudeInv'
  OBVIOUS
<1>1. ASSUME NEW w \in Paths, WritesTo(w), SharedStarts' PROVE ClaudeTypes' /\ ClaudeInv'
  <2>1. ClaudeTypes'
    BY <1>1, GrowsTypes
  <2>2. (\A p \in Existing : IdentityOK(p))' /\ (\A p \in Paths : BankOK(p))'
    BY <1>1, GrowsIdentity, GrowsBank DEF ClaudeInv
  <2>3. BeforeOK' /\ PassOK' /\ NothingHidden' /\ SubagentsReachable' /\ CopiesExact'
    BY <1>1, GrowsBefore, GrowsPass, GrowsListed, GrowsCopies DEF ClaudeInv
  <2> QED  BY <1>1, <2>1, <2>2, <2>3 DEF ClaudeInv
<1>2. CASE \E p \in Paths : Say(p)
  BY <1>1, <1>2, SayGrows, SaySharedKept DEF ClaudeInv
<1>3. CASE \E p, q \in Paths : Fork(p, q)
  BY <1>1, <1>3, ForkGrows, ForkSharedKept DEF ClaudeInv
<1>4. CASE ListStep
  <2>1. ClaudeTypes'
    BY <1>4, ListTypes
  <2>2. ClaudeInv'
    BY <1>4, BeginKept, KnownKept, StatIdentityKept, ReadIdentityKept, EndIdentifyKept, SignKept, EndSignKept,
       EndAgainKept, ScanKeptOne, EndScanKept, EndListKept DEF ListStep
  <2> QED  BY <2>1, <2>2
<1>5. CASE UNCHANGED claudeVars
  <2>1. UNCHANGED <<content, written, writes, pass, group, todo, probed, identities, sig, holds, copyGroup,
                    listed, parentOf, before>> /\ Unwritten
    BY <1>5 DEF claudeVars, claudeFiles, Unwritten
  <2>2. ClaudeTypes'
    BY <2>1 DEF ClaudeTypes, FileStats, LastWrite, Existing
  <2>3. \A p \in Paths : (SignOK(p) => SignOK(p)') /\ (AgainOK(p) => AgainOK(p)') /\ (ScanOK(p) => ScanOK(p)')
    BY <2>1, SameSign, SameAgain, SameScan
  <2>4. PassOK'
    BY <2>1, <2>3 DEF ClaudeInv, PassOK, SeveralFiles, Identifies, ClaudeFirst, Unstatted, ClaudeStat, ClaudeTypes, Existing
  <2>5. NothingHidden' /\ SubagentsReachable'
    BY <2>1 DEF ClaudeInv, NothingHidden, SubagentsReachable, Listing, Held
  <2> QED  BY <2>1, <2>2, <2>4, <2>5, SameFiles, SameIdentities, SameBank, SameBefore DEF ClaudeInv
<1> QED  BY <1>2, <1>3, <1>4, <1>5 DEF ClaudeNext

\* The invariant holds throughout.
LEMMA ClaudeInvariance == ClaudeSpec => [](ClaudeTypes /\ ClaudeInv)
BY InitClaude, ClaudeKept, PTL DEF ClaudeSpec

\* Whatever stood in a transcript when a list began is in a session that is listed,
\* and every subagent is under one, for any number of files, forks and writes while
\* the list is made.  (findClaudeSessionCopies, resolveClaudeCopy.)
THEOREM SessionsAreReachable == ClaudeSpec => []SessionsReachable
<1>1. ClaudeInv => SessionsReachable
  BY DEF ClaudeInv, SessionsReachable
<1> QED  BY <1>1, ClaudeInvariance, PTL

\* Copies that are banked under the stats the files have are exactly the files whose
\* messages all stand in another, for any number of files and whatever was written
\* while they were looked for.  (claudeSessionCopies.)
THEOREM CopiesAreExact == ClaudeSpec => []CopiesExact
<1>1. ClaudeInv => CopiesExact
  BY DEF ClaudeInv
<1> QED  BY <1>1, ClaudeInvariance, PTL
=============================================================================
