------------------------------ MODULE CountCache ------------------------------
(***************************************************************************)
(* fileRecordCache of internal/source/filecache.go: the list records of a  *)
(* file-backed source, and the message counts that background workers      *)
(* make for them while other programs write the session files.             *)
(*                                                                         *)
(* A session file is a sequence of rows of RowBytes bytes each: half of a  *)
(* row's JSON, the other half, its newline.  So a size that is no multiple *)
(* of RowBytes ends in a torn row, and the file's rows are known from its  *)
(* generation (which rewrite of the path it is) and its size.              *)
(*                                                                         *)
(* Every write moves the pair (mtime, size); mod stands for the mtime and  *)
(* is 0 for a file that never existed and for a missing cache entry.  The  *)
(* field gen is what the bytes are: a stat does not see it, only the       *)
(* readers of the bytes do.                                                *)
(***************************************************************************)
EXTENDS Integers, Sequences, FiniteSets

CONSTANTS
  Paths,      \* session files of the source
  Resumable,  \* paths whose countFile honours an offset (grok and .zst do not)
  Rounds,     \* callers of records(): the list and /usage may overlap
  Workers,    \* goroutine slots for count workers
  Limit,      \* min(maxCountWorkers, GOMAXPROCS)
  Messages,   \* Messages[g]: rows of generation g the counter counts
  MaxMod,     \* bound: writes to one path
  Sizes,      \* bound: the sizes in bytes a file may have
  Rewrites    \* whether writers also replace files, or only append to them

ASSUME CountAssumption ==
  /\ Paths # {} /\ Resumable \subseteq Paths
  /\ IsFiniteSet(Workers) /\ Limit \in Nat \ {0} /\ Limit <= Cardinality(Workers)
  /\ MaxMod \in Nat /\ Sizes \subseteq Nat /\ 0 \in Sizes
  /\ Messages \in [0..MaxMod -> SUBSET Nat]
  /\ Rewrites \in BOOLEAN

VARIABLES
  file,      \* the session files on disk
  counts,    \* banked counts (guarded by countMu, like the next three)
  counting,  \* paths queued or in flight
  queue,     \* paths waiting for a worker
  working,   \* the code's count of running workers
  wpc, job,  \* each worker's place in countWorker, and its scan
  entries,   \* banked records (guarded by mu)
  rpc, round,\* each caller's place in records(), and its round
  shown      \* the counts of the list answered last, Uncounted if none

diskVars   == <<file>>
countVars  == <<counts, counting, queue, working>>
workerVars == <<wpc, job>>
roundVars  == <<entries, rpc, round, shown>>
vars == <<diskVars, countVars, workerVars, roundVars>>

-----------------------------------------------------------------------------
(* The files *)

RowBytes == 3
Uncounted == -1
NoPrint == <<0, 0>>

\* The rows of generation g that a scan of the bytes [from, size) counts: a
\* row starts in the range and its JSON is whole, its newline written or not.
CountedRows(g, from, size) ==
  {row \in Messages[g] : from <= RowBytes * row /\ RowBytes * row + 2 <= size}

ExactCount(g, size) == Cardinality(CountedRows(g, 0, size))

ScanCount(p, from) ==
  IF ~file[p].live THEN 0
  ELSE Cardinality(CountedRows(file[p].gen, IF p \in Resumable THEN from ELSE 0, file[p].size))

\* The fingerprint of the bytes before off: two generations differ there.
TailPrint(p, off) ==
  IF file[p].live /\ 0 < off /\ off <= file[p].size THEN <<file[p].gen, off>> ELSE NoPrint

\* mutant: any offset is taken for a line boundary
NewlineAssumed(p, off) == TRUE

NewlineBefore(p, off) ==
  off = 0 \/ (file[p].live /\ off <= file[p].size /\ off % RowBytes = 0)

SameStat(p, mod, size) == file[p].live /\ file[p].mod = mod /\ file[p].size = size

FileState ==
  {f \in [mod : 0..MaxMod, gen : 0..MaxMod, size : Sizes, live : BOOLEAN] : f.gen <= f.mod}
NeverWritten == [mod |-> 0, gen |-> 0, size |-> 0, live |-> FALSE]

\* The CLI appends whole or torn rows, creates the file, replaces it, or
\* deletes it; a file comes back after a delete only where Rewrites allows it.
Grow(p) ==
  /\ file[p].live /\ file[p].mod < MaxMod
  /\ \E size \in {s \in Sizes : s > file[p].size} :
       file' = [file EXCEPT ![p].size = size, ![p].mod = @ + 1]

WriteNew(p) ==
  /\ file[p].mod = 0 \/ Rewrites
  /\ file[p].mod < MaxMod
  /\ \E size \in Sizes :
       file' = [file EXCEPT ![p] =
                  [mod |-> @.mod + 1, gen |-> @.gen + 1, size |-> size, live |-> TRUE]]

Delete(p) ==
  /\ file[p].live
  /\ file' = [file EXCEPT ![p].live = FALSE]

Write(p) ==
  /\ Grow(p) \/ WriteNew(p) \/ Delete(p)
  /\ UNCHANGED <<countVars, workerVars, roundVars>>

-----------------------------------------------------------------------------
(* The count workers *)

CountEntry == [mod : 0..MaxMod, gen : 0..MaxMod, size : Sizes, n : Nat,
               tail : (0..MaxMod) \X Sizes]
NoCount == [mod |-> 0, gen |-> 0, size |-> 0, n |-> 0, tail |-> NoPrint]

HaveCount(p) == counts[p].mod > 0

AnyPath == CHOOSE p \in Paths : TRUE
Scan == [path : Paths, mod : 0..MaxMod, gen : 0..MaxMod, size : Sizes,
         from : Sizes, base : Nat, n : Nat, tail : (0..MaxMod) \X Sizes]
NoScan == [path |-> AnyPath, mod |-> 0, gen |-> 0, size |-> 0,
           from |-> 0, base |-> 0, n |-> 0, tail |-> NoPrint]

\* Places between a worker's pop of a path and its delete from counting.
InScan == {"stat", "resume", "scan", "restat", "print", "bank", "drop"}

Goto(w, place) == wpc' = [wpc EXCEPT ![w] = place]

TakeRequest(w) ==
  /\ wpc[w] = "take" /\ queue # <<>>
  /\ job' = [job EXCEPT ![w] = [NoScan EXCEPT !.path = Head(queue)]]
  /\ queue' = Tail(queue)
  /\ Goto(w, "stat")
  /\ UNCHANGED <<diskVars, counts, counting, working, roundVars>>

LeaveWhenEmpty(w) ==
  /\ wpc[w] = "take" /\ queue = <<>>
  /\ working' = working - 1
  /\ Goto(w, "off")
  /\ UNCHANGED <<diskVars, counts, counting, queue, job, roundVars>>

StatBefore(w) ==
  LET f == file[job[w].path] IN
  /\ wpc[w] = "stat"
  /\ IF f.live
     THEN /\ job' = [job EXCEPT ![w].mod = f.mod, ![w].gen = f.gen, ![w].size = f.size]
          /\ Goto(w, "resume")
     ELSE /\ Goto(w, "drop")
          /\ UNCHANGED job
  /\ UNCHANGED <<diskVars, countVars, roundVars>>

\* Resume from the previous end only where the size grew, the end is a line
\* boundary and the bytes before it are the ones that were counted.
CanResume(p, prev, size) ==
  /\ prev.mod > 0 /\ size > prev.size
  /\ NewlineBefore(p, prev.size)
  /\ TailPrint(p, prev.size) = prev.tail

ChooseOffset(w) ==
  LET p == job[w].path
      prev == counts[p]
  IN
  /\ wpc[w] = "resume"
  /\ job' = IF CanResume(p, prev, job[w].size)
            THEN [job EXCEPT ![w].from = prev.size, ![w].base = prev.n]
            ELSE job
  /\ Goto(w, "scan")
  /\ UNCHANGED <<diskVars, countVars, roundVars>>

ScanFile(w) ==
  LET p == job[w].path
      base == IF job[w].from > 0 /\ p \in Resumable THEN job[w].base ELSE 0
  IN
  /\ wpc[w] = "scan"
  /\ job' = [job EXCEPT ![w].n = base + ScanCount(p, job[w].from)]
  /\ Goto(w, "restat")
  /\ UNCHANGED <<diskVars, countVars, roundVars>>

StatAfter(w) ==
  /\ wpc[w] = "restat"
  /\ Goto(w, IF SameStat(job[w].path, job[w].mod, job[w].size) THEN "print" ELSE "drop")
  /\ UNCHANGED <<diskVars, countVars, job, roundVars>>

Fingerprint(w) ==
  /\ wpc[w] = "print"
  /\ job' = [job EXCEPT ![w].tail = TailPrint(job[w].path, job[w].size)]
  /\ Goto(w, "bank")
  /\ UNCHANGED <<diskVars, countVars, roundVars>>

BankCount(w) ==
  LET j == job[w] IN
  /\ wpc[w] = "bank"
  /\ counting' = counting \ {j.path}
  /\ counts' = [counts EXCEPT ![j.path] =
                  [mod |-> j.mod, gen |-> j.gen, size |-> j.size, n |-> j.n, tail |-> j.tail]]
  /\ job' = [job EXCEPT ![w] = NoScan]
  /\ Goto(w, "take")
  /\ UNCHANGED <<diskVars, queue, working, roundVars>>

\* mutant: only a banked scan leaves counting
DropScanForgotten(w) ==
  /\ wpc[w] = "drop"
  /\ job' = [job EXCEPT ![w] = NoScan]
  /\ Goto(w, "take")
  /\ UNCHANGED <<diskVars, countVars, roundVars>>

DropScan(w) ==
  /\ wpc[w] = "drop"
  /\ counting' = counting \ {job[w].path}
  /\ job' = [job EXCEPT ![w] = NoScan]
  /\ Goto(w, "take")
  /\ UNCHANGED <<diskVars, counts, queue, working, roundVars>>

Work(w) ==
  \/ TakeRequest(w) \/ LeaveWhenEmpty(w) \/ StatBefore(w) \/ ChooseOffset(w)
  \/ ScanFile(w) \/ StatAfter(w) \/ Fingerprint(w) \/ BankCount(w) \/ DropScan(w)

-----------------------------------------------------------------------------
(* The callers of records() *)

ListEntry == [mod : 0..MaxMod, size : Sizes, built : 0..MaxMod, n : Nat \cup {Uncounted}]
NoEntry == [mod |-> 0, size |-> 0, built |-> 0, n |-> Uncounted]

\* asked is no field of the code: the versions of the files when records() was
\* called, for the property on what it answers.
Round == [asked : [Paths -> 0..MaxMod], seen : SUBSET Paths, todo : SUBSET Paths, path : Paths,
          known : [Paths -> ListEntry], rec : ListEntry, fresh : [Paths -> ListEntry]]
NoRound == [asked |-> [p \in Paths |-> 0], seen |-> {}, todo |-> {}, path |-> AnyPath,
            known |-> [p \in Paths |-> NoEntry], rec |-> NoEntry,
            fresh |-> [p \in Paths |-> NoEntry]]

RoundGoto(r, place) == rpc' = [rpc EXCEPT ![r] = place]

\* The caller globs the files and records() takes the map banked last.
BeginRound(r) ==
  LET found == {p \in Paths : file[p].live} IN
  /\ rpc[r] = "idle"
  /\ round' = [round EXCEPT ![r] = [NoRound EXCEPT !.asked = [p \in Paths |-> file[p].mod],
                                                   !.seen = found, !.todo = found,
                                                   !.known = entries]]
  /\ RoundGoto(r, "stat")
  /\ UNCHANGED <<diskVars, countVars, workerVars, entries, shown>>

\* mutant: the size alone decides
RecordHitBySize(p, hit) == file[p].live /\ hit.mod > 0 /\ file[p].size = hit.size
RecordHit(p, hit) == SameStat(p, hit.mod, hit.size)

StatPath(r, p) ==
  LET f == file[p]
      hit == round[r].known[p]
  IN
  /\ rpc[r] = "stat" /\ p \in round[r].todo
  /\ \/ /\ ~f.live
        /\ round' = [round EXCEPT ![r].todo = @ \ {p}]
        /\ UNCHANGED rpc
     \/ /\ RecordHit(p, hit)
        /\ round' = [round EXCEPT ![r].todo = @ \ {p}, ![r].path = p, ![r].rec = hit]
        /\ RoundGoto(r, "count")
     \/ /\ f.live /\ ~RecordHit(p, hit)
        /\ round' = [round EXCEPT ![r].todo = @ \ {p}, ![r].path = p,
                                  ![r].rec = [NoEntry EXCEPT !.mod = f.mod, !.size = f.size]]
        /\ RoundGoto(r, "build")
  /\ UNCHANGED <<diskVars, countVars, workerVars, entries, shown>>

\* build reads the head and the tail of whatever the path now holds.
BuildRecord(r) ==
  LET f == file[round[r].path] IN
  /\ rpc[r] = "build"
  /\ round' = [round EXCEPT ![r].rec.built = IF f.live THEN f.mod ELSE 0]
  /\ RoundGoto(r, "count")
  /\ UNCHANGED <<diskVars, countVars, workerVars, entries, shown>>

\* queueCount: answer from the banked count, exact or stale, and queue the
\* path unless the count is exact or a scan of it is already under way.
ExactHit(p, rec) == HaveCount(p) /\ counts[p].size = rec.size /\ counts[p].mod = rec.mod

\* mutant: the path is queued though a scan of it is under way
QueueCountAgain(p, rec) ==
  IF ExactHit(p, rec)
  THEN UNCHANGED <<counting, queue>>
  ELSE /\ counting' = counting \cup {p}
       /\ queue' = Append(queue, p)

QueueCount(p, rec) ==
  IF ExactHit(p, rec) \/ p \in counting
  THEN UNCHANGED <<counting, queue>>
  ELSE /\ counting' = counting \cup {p}
       /\ queue' = Append(queue, p)

\* A banked count is attached to the record, else the record keeps its own.
\* mutant: an old count is reported as none
CountIfExact(p, rec) == IF ExactHit(p, rec) THEN counts[p].n ELSE 0
CountToShow(p, rec) == IF HaveCount(p) THEN counts[p].n ELSE rec.n

CountPath(r) ==
  LET p == round[r].path
      rec == round[r].rec
  IN
  /\ rpc[r] = "count"
  /\ QueueCount(p, rec)
  /\ round' = [round EXCEPT ![r].fresh[p] =
                 [rec EXCEPT !.n = CountToShow(p, rec)],
                            ![r].rec = NoEntry, ![r].path = AnyPath]
  /\ RoundGoto(r, "stat")
  /\ UNCHANGED <<diskVars, counts, working, workerVars, entries, shown>>

Publish(r) ==
  /\ rpc[r] = "stat" /\ round[r].todo = {}
  /\ entries' = round[r].fresh
  /\ RoundGoto(r, "keep")
  /\ UNCHANGED <<diskVars, countVars, workerVars, round, shown>>

\* mutant: nothing is dropped
KeepAllCounts(r) ==
  /\ rpc[r] = "keep"
  /\ RoundGoto(r, "start")
  /\ UNCHANGED <<diskVars, countVars, workerVars, entries, round, shown>>

KeepCounts(r) ==
  /\ rpc[r] = "keep"
  /\ counts' = [p \in Paths |-> IF p \in round[r].seen THEN counts[p] ELSE NoCount]
  /\ RoundGoto(r, "start")
  /\ UNCHANGED <<diskVars, counting, queue, working, workerVars, entries, round, shown>>

\* Grow the pool to the queue, no further than Limit.
\* mutant: the last path queued gets no worker
PoolGoalShort == IF Len(queue) <= Limit THEN Len(queue) - 1 ELSE Limit
PoolGoal == IF Len(queue) < Limit THEN Len(queue) ELSE Limit

ToStart == IF working < PoolGoal THEN PoolGoal - working ELSE 0

StartCounting(r) ==
  /\ rpc[r] = "start"
  /\ \E started \in SUBSET {w \in Workers : wpc[w] = "off"} :
       /\ Cardinality(started) = ToStart
       /\ wpc' = [w \in Workers |-> IF w \in started THEN "take" ELSE wpc[w]]
       /\ working' = working + ToStart
  /\ shown' = [p \in Paths |-> round[r].fresh[p].n]
  /\ round' = [round EXCEPT ![r] = NoRound]
  /\ RoundGoto(r, "idle")
  /\ UNCHANGED <<diskVars, counts, counting, queue, job, entries>>

List(r) ==
  \/ BeginRound(r) \/ (\E p \in Paths : StatPath(r, p)) \/ BuildRecord(r)
  \/ CountPath(r) \/ Publish(r) \/ KeepCounts(r) \/ StartCounting(r)

-----------------------------------------------------------------------------
Init ==
  /\ file = [p \in Paths |-> NeverWritten]
  /\ counts = [p \in Paths |-> NoCount]
  /\ counting = {} /\ queue = <<>> /\ working = 0
  /\ wpc = [w \in Workers |-> "off"]
  /\ job = [w \in Workers |-> NoScan]
  /\ entries = [p \in Paths |-> NoEntry]
  /\ rpc = [r \in Rounds |-> "idle"]
  /\ round = [r \in Rounds |-> NoRound]
  /\ shown = [p \in Paths |-> Uncounted]

Next ==
  \/ \E p \in Paths : Write(p)
  \/ \E w \in Workers : Work(w)
  \/ \E r \in Rounds : List(r)

\* Goroutines are scheduled, and the page polls the list for ever; nothing
\* makes a CLI write.
Fairness ==
  /\ \A w \in Workers : WF_vars(Work(w))
  /\ \A r \in Rounds : WF_vars(List(r))

Spec == Init /\ [][Next]_vars
FairSpec == Spec /\ Fairness

-----------------------------------------------------------------------------
(* Properties *)

\* Every variable of the cache has the type its Go field has.
TypeOK ==
  /\ file \in [Paths -> FileState]
  /\ counts \in [Paths -> CountEntry]
  /\ counting \in SUBSET Paths
  /\ queue \in Seq(Paths)
  /\ working \in 0..Limit
  /\ wpc \in [Workers -> {"off", "take"} \cup InScan]
  /\ job \in [Workers -> Scan]
  /\ entries \in [Paths -> ListEntry]
  /\ rpc \in [Rounds -> {"idle", "stat", "build", "count", "keep", "start"}]
  /\ round \in [Rounds -> Round]
  /\ shown \in [Paths -> Nat \cup {Uncounted}]

Queued == {queue[i] : i \in DOMAIN queue}
Scanning == {w \in Workers : wpc[w] \in InScan}

\* A file is queued or scanned at most once at a time: two scans of one file
\* would bank in either order, and the older could overwrite the newer
\* (counting, filecache.go:39).
OneScanPerFile ==
  /\ \A i, k \in DOMAIN queue : queue[i] = queue[k] => i = k
  /\ \A w \in Scanning : job[w].path \notin Queued
  /\ \A v, w \in Scanning : job[v].path = job[w].path => v = w

\* counting says exactly what is queued or in flight: a path left behind in
\* it would never be counted again (filecache.go:111, 164).
CountingIsTracked == counting = Queued \cup {job[w].path : w \in Scanning}

\* counting and the queue tell of the same files, each once.
QueueTracked == OneScanPerFile /\ CountingIsTracked

\* Work that is queued always has someone to do it: a worker that has not yet
\* found the queue empty, or a caller of records() on its way to startCounting.
BacklogHasWorker ==
  queue # <<>> => \/ \E w \in Workers : wpc[w] # "off"
                  \/ \E r \in Rounds : rpc[r] # "idle"

\* The queue's bookkeeping, across callers of records() and workers that come
\* and go: no file is scanned twice at once, and none is given up.
QueueOK == QueueTracked /\ BacklogHasWorker

\* Where writers only append, a banked count is the number of messages of the
\* version it is banked under, however many resumes it was added up from: the
\* number does not drift (filecache.go:112-115, 172-175).
BankedExact ==
  ~Rewrites => \A p \in Paths :
    HaveCount(p) => counts[p].n = ExactCount(counts[p].gen, counts[p].size)

\* The same with writers that also replace files: the fingerprint of the last
\* counted bytes "lets a resume prove the bytes before the offset are still the
\* ones that produced n" (filecache.go:62-63), so no banked count is wrong.
ResumeProven ==
  \A p \in Paths :
    HaveCount(p) => counts[p].n = ExactCount(counts[p].gen, counts[p].size)

\* The list answers with what its files held when it was asked, or later: a
\* cached record is reused only for the bytes it was built from, also where
\* callers overlap and the map of an older round replaces a newer one's
\* (built is 0 for a file that was gone when build opened it).
ListAnswersCurrent ==
  \A r \in Rounds, p \in Paths :
    rpc[r] = "start" /\ round[r].fresh[p].mod > 0
      => round[r].fresh[p].built \in {0} \cup (round[r].asked[p]..MaxMod)

\* With one caller of records(), a session's count never goes backwards from
\* one answer to the next while its file is only appended to.
CountNeverShrinks ==
  [][~Rewrites => \A p \in Paths :
       shown[p] # Uncounted /\ shown'[p] # Uncounted => shown'[p] >= shown[p]]_vars

\* Once the writers rest, every answer of the list ends up carrying the exact
\* count of every session: nothing stays on "counting..." or on an old number;
\* and the counts of deleted sessions do not pin memory (filecache.go:250-251).
CountsConverge ==
  <>[](\A p \in Paths :
         IF file[p].live THEN shown[p] = ExactCount(file[p].gen, file[p].size)
         ELSE shown[p] = Uncounted /\ ~HaveCount(p))
=============================================================================
