-------------------------- MODULE CountCacheProofs --------------------------
(***************************************************************************)
(* What holds of fileRecordCache for every number of files, callers and    *)
(* workers.  The type of the cache and the bookkeeping of its queue are    *)
(* inductive together (the pool's counter stays in 0..Limit because it is  *)
(* the number of running workers); the exactness of the banked counts      *)
(* rests on them and on what a scan knows of the file between its stats.   *)
(* Then what the list answers: records no older than the call, and, with   *)
(* one caller and writers that append, numbers that never go back.         *)
(***************************************************************************)
EXTENDS CountCache, FiniteSetTheorems, TLAPS

\* A scan counts finitely many rows.
LEMMA CountedRowsFinite ==
  ASSUME NEW g \in 0..MaxMod, NEW from \in Nat, NEW size \in Nat
  PROVE  /\ IsFiniteSet(CountedRows(g, from, size))
         /\ Cardinality(CountedRows(g, from, size)) \in Nat
<1>1. CountedRows(g, from, size) \in SUBSET Nat
  BY CountAssumption DEF CountedRows
<1>2. \A row \in CountedRows(g, from, size) : row <= size
  BY <1>1 DEF CountedRows, RowBytes
<1>3. IsFiniteSet(CountedRows(g, from, size))
  BY <1>1, <1>2, FS_BoundedSetOfNaturals
<1> QED  BY <1>3, FS_CardinalityType

\* A scan resumed at a line boundary, added to the count of what lies before
\* it, is the count of the whole file.
LEMMA ResumeAdds ==
  ASSUME NEW g \in 0..MaxMod, NEW from \in Nat, NEW size \in Nat,
         from % RowBytes = 0, from <= size
  PROVE  ExactCount(g, size) = ExactCount(g, from) + Cardinality(CountedRows(g, from, size))
<1> DEFINE Before == CountedRows(g, 0, from)
           After == CountedRows(g, from, size)
<1>1. IsFiniteSet(Before) /\ IsFiniteSet(After)
  BY CountedRowsFinite
<1>2. Messages[g] \subseteq Nat
  BY CountAssumption
<1>3. Before \cap After = {}
  BY <1>2 DEF CountedRows, RowBytes
<1>4. CountedRows(g, 0, size) = Before \cup After
  <2>1. ASSUME NEW row \in Nat, 3 * row < from  PROVE 3 * row + 3 <= from
    <3>1. PICK q \in Nat : from = 3 * q
      <4>1. from = 3 * (from \div 3)  BY DEF RowBytes
      <4>2. from \div 3 \in Nat  OBVIOUS
      <4> QED  BY <4>1, <4>2
    <3> QED  BY <2>1, <3>1
  <2>2. ASSUME NEW row \in CountedRows(g, 0, size)  PROVE row \in Before \cup After
    <3>1. row \in Nat  BY <1>2 DEF CountedRows
    <3>2. CASE 3 * row < from
      BY <2>1, <3>1, <3>2 DEF CountedRows, RowBytes
    <3>3. CASE ~(3 * row < from)
      BY <3>1, <3>3 DEF CountedRows, RowBytes
    <3> QED  BY <3>2, <3>3
  <2>3. Before \cup After \subseteq CountedRows(g, 0, size)
    BY <1>2 DEF CountedRows, RowBytes
  <2> QED  BY <2>2, <2>3
<1>5. Cardinality(Before \cup After) = Cardinality(Before) + Cardinality(After)
                                      - Cardinality(Before \cap After)
  BY <1>1, FS_Union
<1>6. Cardinality(Before) \in Nat /\ Cardinality(After) \in Nat
  BY <1>1, FS_CardinalityType
<1>7. Cardinality(Before \cap After) = 0
  BY <1>3, FS_EmptySet
<1>8. Cardinality(Before \cup After) = Cardinality(Before) + Cardinality(After)
  BY <1>5, <1>6, <1>7
<1> QED  BY <1>4, <1>8 DEF ExactCount

-----------------------------------------------------------------------------
(* The type of the cache, and the number of its workers *)

Running == {w \in Workers : wpc[w] # "off"}

\* The code's counter is the number of workers that have not left.
WorkingCounted == working = Cardinality(Running)

LEMMA RunningFinite == IsFiniteSet(Running)
<1>1. Running \subseteq Workers
  BY DEF Running
<1> QED  BY <1>1, CountAssumption, FS_Subset

LEMMA PathsHaveOne == AnyPath \in Paths
  BY CountAssumption DEF AnyPath

LEMMA NoScanType == NoScan \in Scan
  BY PathsHaveOne, CountAssumption DEF NoScan, Scan, NoPrint

LEMMA NoRoundType == NoRound \in Round /\ NoEntry \in ListEntry
<1>1. NoEntry \in ListEntry
  BY CountAssumption DEF NoEntry, ListEntry
<1> QED  BY <1>1, PathsHaveOne, CountAssumption DEF NoRound, Round

LEMMA InitType == Init => TypeOK /\ WorkingCounted
<1> SUFFICES ASSUME Init PROVE TypeOK /\ WorkingCounted
  OBVIOUS
<1>1. file \in [Paths -> FileState] /\ counts \in [Paths -> CountEntry]
  BY CountAssumption DEF Init, FileState, NeverWritten, CountEntry, NoCount, NoPrint
<1>2. job \in [Workers -> Scan] /\ round \in [Rounds -> Round] /\ entries \in [Paths -> ListEntry]
  BY NoScanType, NoRoundType DEF Init
<1>3. Running = {}
  BY DEF Init, Running
<1> QED  BY <1>1, <1>2, <1>3, FS_EmptySet, CountAssumption DEF Init, TypeOK, InScan, WorkingCounted

LEMMA WriteType ==
  ASSUME TypeOK, NEW p \in Paths, Write(p)
  PROVE  TypeOK'
<1>1. file[p] \in FileState
  BY DEF TypeOK
<1>2. file' \in [Paths -> FileState]
  <2>1. CASE Grow(p)
    <3>1. PICK size \in Sizes :
            file' = [file EXCEPT ![p].size = size, ![p].mod = @ + 1]
      BY <2>1 DEF Grow
    <3>2. file[p].mod + 1 \in 0..MaxMod
      BY <1>1, <2>1, CountAssumption DEF Grow, FileState
    <3>3. [file[p] EXCEPT !.size = size, !.mod = @ + 1] \in FileState
      <4>1. file[p].gen <= file[p].mod + 1
        BY <1>1, CountAssumption DEF FileState
      <4> QED  BY <1>1, <3>2, <4>1 DEF FileState
    <3>4. file' = [file EXCEPT ![p] = [file[p] EXCEPT !.size = size, !.mod = @ + 1]]
      BY <3>1
    <3> QED  BY <3>3, <3>4 DEF TypeOK
  <2>2. CASE WriteNew(p)
    <3>1. PICK size \in Sizes :
            file' = [file EXCEPT ![p] = [mod |-> file[p].mod + 1, gen |-> file[p].gen + 1,
                                         size |-> size, live |-> TRUE]]
      BY <2>2 DEF WriteNew
    <3>2. file[p].mod + 1 \in 0..MaxMod
      BY <1>1, <2>2, CountAssumption DEF WriteNew, FileState
    <3>3. file[p].gen + 1 \in 0..MaxMod /\ file[p].gen + 1 <= file[p].mod + 1
      BY <1>1, <3>2, CountAssumption DEF FileState
    <3> QED  BY <1>1, <3>1, <3>2, <3>3 DEF TypeOK, FileState
  <2>3. CASE Delete(p)
    BY <1>1, <2>3 DEF Delete, TypeOK, FileState
  <2> QED  BY <2>1, <2>2, <2>3 DEF Write
<1> QED  BY <1>2 DEF TypeOK, Write, countVars, workerVars, roundVars

LEMMA WorkType ==
  ASSUME TypeOK, WorkingCounted, NEW w \in Workers, Work(w)
  PROVE  TypeOK'
<1> USE DEF TypeOK, InScan, Goto, diskVars, countVars, workerVars, roundVars
<1>1. CASE TakeRequest(w)
  <2>1. Head(queue) \in Paths /\ Tail(queue) \in Seq(Paths)
    BY <1>1 DEF TakeRequest
  <2>2. job' \in [Workers -> Scan]
    BY <1>1, <2>1, NoScanType DEF TakeRequest, Scan
  <2> QED  BY <1>1, <2>1, <2>2 DEF TakeRequest
<1>2. CASE LeaveWhenEmpty(w)
  <2>1. w \in Running
    BY <1>2 DEF LeaveWhenEmpty, Running
  <2>2. working > 0
    BY <2>1, RunningFinite, FS_EmptySet, FS_CardinalityType DEF WorkingCounted
  <2> QED  BY <1>2, <2>2, CountAssumption DEF LeaveWhenEmpty
<1>3. CASE StatBefore(w)
  <2>1. job[w] \in Scan /\ file[job[w].path] \in FileState
    BY DEF Scan
  <2>2. job' \in [Workers -> Scan]
    <3> DEFINE f == file[job[w].path]
               j == [job[w] EXCEPT !.mod = f.mod, !.gen = f.gen, !.size = f.size]
    <3>1. j \in Scan
      BY <2>1 DEF Scan, FileState
    <3>2. job' = job \/ job' = [job EXCEPT ![w] = j]
      BY <1>3 DEF StatBefore
    <3> QED  BY <3>1, <3>2
  <2> QED  BY <1>3, <2>2 DEF StatBefore
<1>4. CASE ChooseOffset(w)
  <2>1. job[w] \in Scan /\ counts[job[w].path] \in CountEntry
    BY DEF Scan
  <2>2. job' \in [Workers -> Scan]
    BY <1>4, <2>1 DEF ChooseOffset, Scan, CountEntry
  <2> QED  BY <1>4, <2>2 DEF ChooseOffset
<1>5. CASE ScanFile(w)
  <2> DEFINE p == job[w].path
  <2>1. p \in Paths /\ job[w].from \in Nat /\ file[p] \in FileState /\ file[p].size \in Nat
    BY CountAssumption DEF Scan, FileState
  <2>2. ScanCount(p, job[w].from) \in Nat
    BY <2>1, CountedRowsFinite DEF ScanCount, FileState
  <2>3. job[w] \in Scan /\ job[w].base \in Nat
    BY DEF Scan
  <2> DEFINE n == (IF job[w].from > 0 /\ p \in Resumable THEN job[w].base ELSE 0)
                  + ScanCount(p, job[w].from)
  <2>4. n \in Nat /\ job' = [job EXCEPT ![w].n = n]
    BY <1>5, <2>2, <2>3 DEF ScanFile
  <2>5. [job[w] EXCEPT !.n = n] \in Scan
    BY <2>3, <2>4 DEF Scan
  <2> QED  BY <1>5, <2>4, <2>5 DEF ScanFile
<1>6. CASE StatAfter(w)
  BY <1>6 DEF StatAfter
<1>7. CASE Fingerprint(w)
  <2>1. TailPrint(job[w].path, job[w].size) \in (0..MaxMod) \X Sizes
    BY CountAssumption DEF TailPrint, NoPrint, Scan, FileState
  <2>2. job[w] \in Scan
    OBVIOUS
  <2>3. job' \in [Workers -> Scan]
    BY <1>7, <2>1, <2>2 DEF Fingerprint, Scan
  <2> QED  BY <1>7, <2>3 DEF Fingerprint
<1>8. CASE BankCount(w)
  BY <1>8, NoScanType DEF BankCount, Scan, CountEntry
<1>9. CASE DropScan(w)
  BY <1>9, NoScanType DEF DropScan
<1> QED
  BY <1>1, <1>2, <1>3, <1>4, <1>5, <1>6, <1>7, <1>8, <1>9 DEF Work

LEMMA CountToShowType ==
  ASSUME TypeOK, NEW p \in Paths, NEW rec \in ListEntry
  PROVE  CountToShow(p, rec) \in Nat \cup {Uncounted}
BY DEF TypeOK, CountToShow, CountEntry, ListEntry

LEMMA ListType ==
  ASSUME TypeOK, NEW r \in Rounds, List(r)
  PROVE  TypeOK'
<1> USE DEF RoundGoto, diskVars, countVars, workerVars, roundVars
<1>0. /\ round[r] \in Round /\ round[r].path \in Paths /\ round[r].rec \in ListEntry
      /\ round[r].fresh \in [Paths -> ListEntry] /\ round[r].known \in [Paths -> ListEntry]
      /\ round[r].seen \in SUBSET Paths /\ round[r].todo \in SUBSET Paths
  BY DEF TypeOK, Round
<1>1. CASE BeginRound(r)
  <2> DEFINE found == {p \in Paths : file[p].live}
             next == [NoRound EXCEPT !.asked = [p \in Paths |-> file[p].mod],
                                     !.seen = found, !.todo = found, !.known = entries]
  <2>1. next \in Round
    <3>1. [p \in Paths |-> file[p].mod] \in [Paths -> 0..MaxMod]
      BY DEF TypeOK, FileState
    <3> QED  BY <3>1, NoRoundType DEF TypeOK, Round
  <2>2. round' = [round EXCEPT ![r] = next]
    BY <1>1 DEF BeginRound
  <2> QED  BY <1>1, <2>1, <2>2 DEF TypeOK, BeginRound
<1>2. ASSUME NEW p \in Paths, StatPath(r, p)  PROVE TypeOK'
  <2>1. file[p] \in FileState /\ file[p].mod \in 0..MaxMod /\ file[p].size \in Sizes
    BY DEF TypeOK, FileState
  <2> DEFINE left == [round[r] EXCEPT !.todo = @ \ {p}]
             reuse == [round[r] EXCEPT !.todo = @ \ {p}, !.path = p, !.rec = round[r].known[p]]
             new == [NoEntry EXCEPT !.mod = file[p].mod, !.size = file[p].size]
             build == [round[r] EXCEPT !.todo = @ \ {p}, !.path = p, !.rec = new]
  <2>2. new \in ListEntry
    BY <2>1, NoRoundType DEF ListEntry
  <2>3. left \in Round /\ reuse \in Round /\ build \in Round
    BY <1>0, <2>2 DEF Round
  <2>4. round' \in {[round EXCEPT ![r] = left], [round EXCEPT ![r] = reuse],
                    [round EXCEPT ![r] = build]}
    BY <1>2 DEF StatPath
  <2>5. round' \in [Rounds -> Round]
    BY <2>3, <2>4 DEF TypeOK
  <2> QED  BY <1>2, <2>5 DEF TypeOK, StatPath
<1>3. CASE BuildRecord(r)
  <2> DEFINE built == IF file[round[r].path].live THEN file[round[r].path].mod ELSE 0
             rec == [round[r].rec EXCEPT !.built = built]
  <2>1. built \in 0..MaxMod
    BY <1>0, CountAssumption DEF TypeOK, FileState
  <2>2. rec \in ListEntry
    BY <1>0, <2>1 DEF ListEntry
  <2>3. [round[r] EXCEPT !.rec = rec] \in Round
    BY <1>0, <2>2 DEF Round
  <2>4. round' = [round EXCEPT ![r] = [round[r] EXCEPT !.rec = rec]]
    BY <1>3 DEF BuildRecord
  <2> QED  BY <1>3, <2>3, <2>4 DEF TypeOK, BuildRecord
<1>4. CASE CountPath(r)
  <2> DEFINE p == round[r].path
             rec == [round[r].rec EXCEPT !.n = CountToShow(p, round[r].rec)]
             fresh == [round[r].fresh EXCEPT ![p] = rec]
             next == [round[r] EXCEPT !.fresh = fresh, !.rec = NoEntry, !.path = AnyPath]
  <2>1. rec \in ListEntry
    BY <1>0, CountToShowType DEF ListEntry
  <2>2. next \in Round
    BY <1>0, <2>1, NoRoundType, PathsHaveOne DEF Round
  <2>3. round' = [round EXCEPT ![r] = next]
    BY <1>4 DEF CountPath
  <2>4. counting' \in SUBSET Paths /\ queue' \in Seq(Paths)
    <3>1. p \in Paths /\ queue \in Seq(Paths) /\ counting \in SUBSET Paths
      BY <1>0 DEF TypeOK
    <3>2. \/ counting' = counting /\ queue' = queue
          \/ counting' = counting \cup {p} /\ queue' = Append(queue, p)
      BY <1>4 DEF CountPath, QueueCount
    <3> QED  BY <3>1, <3>2
  <2> QED  BY <1>4, <2>2, <2>3, <2>4 DEF TypeOK, CountPath
<1>5. CASE Publish(r)
  BY <1>0, <1>5 DEF TypeOK, Publish
<1>6. CASE KeepCounts(r)
  <2>1. NoCount \in CountEntry
    BY CountAssumption DEF NoCount, CountEntry, NoPrint
  <2> QED  BY <1>6, <2>1 DEF TypeOK, KeepCounts
<1>7. CASE StartCounting(r)
  <2>1. Len(queue) \in Nat
    BY DEF TypeOK
  <2>2. working + ToStart \in 0..Limit
    BY <2>1, CountAssumption DEF ToStart, PoolGoal, TypeOK
  <2>3. wpc' \in [Workers -> {"off", "take"} \cup InScan]
    BY <1>7 DEF StartCounting, TypeOK
  <2>4. shown' \in [Paths -> Nat \cup {Uncounted}]
    BY <1>0, <1>7 DEF StartCounting, ListEntry
  <2> QED  BY <1>7, <2>2, <2>3, <2>4, NoRoundType DEF TypeOK, StartCounting
<1> QED
  BY <1>1, <1>2, <1>3, <1>4, <1>5, <1>6, <1>7 DEF List

\* The counter follows the workers: it moves by the number of those started,
\* and by one when one leaves.
LEMMA WorkingStep ==
  ASSUME TypeOK, WorkingCounted, Next
  PROVE  WorkingCounted'
<1>1. ASSUME NEW w \in Workers, Work(w)  PROVE WorkingCounted'
  <2>1. CASE LeaveWhenEmpty(w)
    <3>1. Running' = Running \ {w} /\ w \in Running
      BY <2>1 DEF LeaveWhenEmpty, Goto, Running, TypeOK
    <3>2. Cardinality(Running') = Cardinality(Running) - 1
      BY <3>1, RunningFinite, FS_RemoveElement
    <3> QED  BY <2>1, <3>2 DEF LeaveWhenEmpty, WorkingCounted
  <2>2. CASE ~LeaveWhenEmpty(w)
    <3>1. working' = working /\ Running' = Running
      BY <1>1, <2>2 DEF Work, TakeRequest, StatBefore, ChooseOffset, ScanFile, StatAfter,
           Fingerprint, BankCount, DropScan, Goto, Running, TypeOK, countVars
    <3> QED  BY <3>1 DEF WorkingCounted
  <2> QED  BY <2>1, <2>2
<1>2. ASSUME NEW r \in Rounds, List(r)  PROVE WorkingCounted'
  <2>1. CASE StartCounting(r)
    <3>1. PICK started \in SUBSET {w \in Workers : wpc[w] = "off"} :
            /\ Cardinality(started) = ToStart
            /\ wpc' = [w \in Workers |-> IF w \in started THEN "take" ELSE wpc[w]]
            /\ working' = working + ToStart
      BY <2>1 DEF StartCounting
    <3>2. Running' = Running \cup started /\ Running \cap started = {}
      BY <3>1 DEF Running
    <3>3. IsFiniteSet(started)
      BY CountAssumption, FS_Subset
    <3>4. Cardinality(Running \cup started) = Cardinality(Running) + Cardinality(started)
                                              - Cardinality(Running \cap started)
      BY <3>3, RunningFinite, FS_Union
    <3>5. Cardinality(Running \cap started) = 0
      BY <3>2, FS_EmptySet
    <3>6. Cardinality(Running) \in Nat /\ Cardinality(started) \in Nat
      BY <3>3, RunningFinite, FS_CardinalityType
    <3>7. Cardinality(Running') = Cardinality(Running) + Cardinality(started)
      BY <3>2, <3>4, <3>5, <3>6
    <3> QED  BY <3>1, <3>7 DEF WorkingCounted
  <2>2. CASE ~StartCounting(r)
    <3>1. working' = working /\ wpc' = wpc
      BY <1>2, <2>2 DEF List, BeginRound, StatPath, BuildRecord, CountPath, Publish,
           KeepCounts, countVars, workerVars
    <3> QED  BY <3>1 DEF WorkingCounted, Running
  <2> QED  BY <2>1, <2>2
<1>3. ASSUME NEW p \in Paths, Write(p)  PROVE WorkingCounted'
  BY <1>3 DEF Write, WorkingCounted, Running, countVars, workerVars
<1> QED  BY <1>1, <1>2, <1>3 DEF Next

\* The cache and its pool keep their types, and no more than Limit workers run.
THEOREM TypeCorrect == Spec => [](TypeOK /\ WorkingCounted)
<1>1. Init => TypeOK /\ WorkingCounted
  BY InitType
<1>2. TypeOK /\ WorkingCounted /\ [Next]_vars => TypeOK' /\ WorkingCounted'
  <2>1. CASE Next
    BY <2>1, WriteType, WorkType, ListType, WorkingStep DEF Next
  <2>2. CASE UNCHANGED vars
    BY <2>2 DEF vars, diskVars, countVars, workerVars, roundVars, TypeOK, WorkingCounted, Running
  <2> QED  BY <2>1, <2>2
<1> QED  BY <1>1, <1>2, PTL DEF Spec

-----------------------------------------------------------------------------
(* The queue *)

LEMMA InitQueue == Init => QueueTracked /\ BacklogHasWorker
BY DEF Init, QueueTracked, OneScanPerFile, CountingIsTracked, Queued, Scanning, InScan,
       BacklogHasWorker

\* What a step that leaves the queue's bookkeeping alone preserves.
LEMMA QueueStutter ==
  ASSUME QueueTracked, counting' = counting, queue' = queue, Scanning' = Scanning,
         \A w \in Scanning : job'[w].path = job[w].path
  PROVE  QueueTracked'
BY DEF QueueTracked, OneScanPerFile, CountingIsTracked, Queued

\* A worker that stays within its scan keeps its path.
LEMMA ScanStutter ==
  ASSUME TypeOK, QueueTracked, NEW w \in Workers, wpc[w] \in InScan,
         NEW place \in InScan, Goto(w, place), counting' = counting, queue' = queue,
         NEW j, j.path = job[w].path,
         job' = job \/ job' = [job EXCEPT ![w] = j]
  PROVE  QueueTracked'
<1>1. Scanning' = Scanning
  BY DEF Goto, TypeOK, Scanning
<1>2. \A v \in Scanning : job'[v].path = job[v].path
  BY DEF TypeOK, Scanning
<1> QED  BY <1>1, <1>2, QueueStutter

\* A worker that ends its scan takes its path out of counting.
LEMMA ScanEnds ==
  ASSUME TypeOK, QueueTracked, NEW w \in Workers, wpc[w] \in InScan, Goto(w, "take"),
         counting' = counting \ {job[w].path}, queue' = queue,
         job' = [job EXCEPT ![w] = NoScan]
  PROVE  QueueTracked'
<1>1. Scanning' = Scanning \ {w} /\ w \in Scanning
  BY DEF Goto, TypeOK, Scanning, InScan
<1>2. \A v \in Scanning \ {w} : job'[v].path = job[v].path
  BY DEF TypeOK, Scanning
<1>3. Queued' = Queued
  BY DEF Queued
<1>4. OneScanPerFile'
  BY <1>1, <1>2, <1>3 DEF QueueTracked, OneScanPerFile
<1>5. CountingIsTracked'
  BY <1>1, <1>2, <1>3 DEF QueueTracked, OneScanPerFile, CountingIsTracked
<1> QED  BY <1>4, <1>5 DEF QueueTracked

LEMMA WorkQueue ==
  ASSUME TypeOK, QueueTracked, NEW w \in Workers, Work(w)
  PROVE  QueueTracked'
<1>1. CASE TakeRequest(w)
  <2>1. queue \in Seq(Paths) /\ queue # <<>> /\ queue' = Tail(queue)
    BY <1>1 DEF TakeRequest, TypeOK
  <2>2. /\ Head(queue) = queue[1] /\ 1 \in DOMAIN queue
        /\ DOMAIN queue' = 1..(Len(queue) - 1)
        /\ \A i \in DOMAIN queue' : i + 1 \in DOMAIN queue /\ queue'[i] = queue[i + 1]
        /\ \A i \in DOMAIN queue : i = 1 \/ i - 1 \in DOMAIN queue'
        /\ DOMAIN queue \subseteq Nat
    BY <2>1
  <2>3. Scanning' = Scanning \cup {w} /\ w \notin Scanning
    BY <1>1 DEF TakeRequest, Goto, TypeOK, Scanning, InScan
  <2>4. /\ job'[w].path = Head(queue)
        /\ \A v \in Scanning : job'[v].path = job[v].path
    BY <1>1, <2>3 DEF TakeRequest, TypeOK, NoScan, Scanning
  <2>5. Queued' = Queued \ {Head(queue)} /\ Head(queue) \in Queued
    <3>1. ASSUME NEW q \in Queued'  PROVE q \in Queued \ {Head(queue)}
      BY <2>2 DEF Queued, QueueTracked, OneScanPerFile
    <3>2. ASSUME NEW q \in Queued, q # Head(queue)  PROVE q \in Queued'
      <4>1. PICK i \in DOMAIN queue : queue[i] = q
        BY DEF Queued
      <4>2. i - 1 \in DOMAIN queue' /\ queue'[i - 1] = q
        BY <2>2, <3>2, <4>1
      <4> QED  BY <4>2 DEF Queued
    <3> QED  BY <2>2, <3>1, <3>2 DEF Queued
  <2>6. \A i, k \in DOMAIN queue' : queue'[i] = queue'[k] => i = k
    BY <2>2 DEF QueueTracked, OneScanPerFile
  <2>7. OneScanPerFile'
    BY <2>3, <2>4, <2>5, <2>6 DEF QueueTracked, OneScanPerFile
  <2>8. CountingIsTracked'
    BY <1>1, <2>3, <2>4, <2>5 DEF QueueTracked, CountingIsTracked, TakeRequest
  <2> QED  BY <2>7, <2>8 DEF QueueTracked
<1>2. CASE LeaveWhenEmpty(w)
  <2>1. Scanning' = Scanning
    BY <1>2 DEF LeaveWhenEmpty, Goto, TypeOK, Scanning, InScan
  <2> QED  BY <1>2, <2>1, QueueStutter DEF LeaveWhenEmpty
<1>3. CASE StatBefore(w)
  <2> DEFINE f == file[job[w].path]
             j == [job[w] EXCEPT !.mod = f.mod, !.gen = f.gen, !.size = f.size]
  <2>1. j.path = job[w].path
    BY DEF TypeOK, Scan
  <2>2. job' = job \/ job' = [job EXCEPT ![w] = j]
    BY <1>3 DEF StatBefore
  <2>3. PICK place \in {"resume", "drop"} : Goto(w, place)
    BY <1>3 DEF StatBefore
  <2> QED  BY <1>3, <2>1, <2>2, <2>3, ScanStutter DEF StatBefore, InScan, countVars
<1>4. CASE ChooseOffset(w)
  <2> DEFINE prev == counts[job[w].path]
             j == [job[w] EXCEPT !.from = prev.size, !.base = prev.n]
  <2>1. j.path = job[w].path
    BY DEF TypeOK, Scan
  <2>2. job' = job \/ job' = [job EXCEPT ![w] = j]
    BY <1>4 DEF ChooseOffset
  <2> QED  BY <1>4, <2>1, <2>2, ScanStutter DEF ChooseOffset, InScan, countVars
<1>5. CASE ScanFile(w)
  <2>1. PICK n : job' = [job EXCEPT ![w].n = n]
    BY <1>5 DEF ScanFile
  <2> DEFINE j == [job[w] EXCEPT !.n = n]
  <2>2. j.path = job[w].path
    BY DEF TypeOK, Scan
  <2> QED  BY <1>5, <2>1, <2>2, ScanStutter DEF ScanFile, InScan, countVars
<1>6. CASE StatAfter(w)
  <2>1. PICK place \in {"print", "drop"} : Goto(w, place)
    BY <1>6 DEF StatAfter
  <2> QED  BY <1>6, <2>1, ScanStutter DEF StatAfter, InScan, countVars
<1>7. CASE Fingerprint(w)
  <2>1. PICK tail : job' = [job EXCEPT ![w].tail = tail]
    BY <1>7 DEF Fingerprint
  <2> DEFINE j == [job[w] EXCEPT !.tail = tail]
  <2>2. j.path = job[w].path
    BY DEF TypeOK, Scan
  <2> QED  BY <1>7, <2>1, <2>2, ScanStutter DEF Fingerprint, InScan, countVars
<1>8. CASE BankCount(w)
  BY <1>8, ScanEnds DEF BankCount, InScan
<1>9. CASE DropScan(w)
  BY <1>9, ScanEnds DEF DropScan, InScan
<1> QED
  BY <1>1, <1>2, <1>3, <1>4, <1>5, <1>6, <1>7, <1>8, <1>9 DEF Work

LEMMA ListQueue ==
  ASSUME TypeOK, QueueTracked, NEW r \in Rounds, List(r)
  PROVE  QueueTracked'
<1>1. CASE CountPath(r)
  <2> DEFINE p == round[r].path
  <2>1. Scanning' = Scanning /\ job' = job
    BY <1>1 DEF CountPath, Scanning, workerVars
  <2>2. CASE counting' = counting /\ queue' = queue
    BY <2>1, <2>2, QueueStutter
  <2>3. CASE p \notin counting /\ counting' = counting \cup {p} /\ queue' = Append(queue, p)
    <3>1. p \in Paths /\ queue \in Seq(Paths)
      BY DEF TypeOK, Round
    <3>2. /\ DOMAIN queue = 1..Len(queue) /\ Len(queue) \in Nat
          /\ DOMAIN queue' = 1..(Len(queue) + 1)
          /\ \A i \in DOMAIN queue : queue'[i] = queue[i]
          /\ queue'[Len(queue) + 1] = p
      BY <2>3, <3>1
    <3>3. Queued' = Queued \cup {p}
      <4>1. ASSUME NEW q \in Queued'  PROVE q \in Queued \cup {p}
        BY <3>2 DEF Queued
      <4>2. ASSUME NEW q \in Queued  PROVE q \in Queued'
        <5>1. PICK i \in DOMAIN queue : queue[i] = q
          BY DEF Queued
        <5>2. i \in DOMAIN queue' /\ queue'[i] = q
          BY <3>2, <5>1
        <5> QED  BY <5>2 DEF Queued
      <4>3. p \in Queued'
        BY <3>2 DEF Queued
      <4> QED  BY <4>1, <4>2, <4>3
    <3>4. p \notin Queued /\ \A w \in Scanning : job[w].path # p
      BY <2>3 DEF QueueTracked, CountingIsTracked
    <3>5. \A i \in DOMAIN queue : queue[i] # p
      BY <3>4 DEF Queued
    <3>6. \A i, k \in DOMAIN queue' : queue'[i] = queue'[k] => i = k
      BY <3>2, <3>5 DEF QueueTracked, OneScanPerFile
    <3>7. OneScanPerFile'
      BY <2>1, <3>3, <3>4, <3>6 DEF QueueTracked, OneScanPerFile
    <3>8. CountingIsTracked'
      BY <2>1, <2>3, <3>3 DEF QueueTracked, CountingIsTracked
    <3> QED  BY <3>7, <3>8 DEF QueueTracked
  <2> QED  BY <1>1, <2>2, <2>3 DEF CountPath, QueueCount
<1>2. CASE StartCounting(r)
  <2>1. Scanning' = Scanning
    BY <1>2 DEF StartCounting, Scanning, InScan
  <2> QED  BY <1>2, <2>1, QueueStutter DEF StartCounting
<1>3. CASE ~CountPath(r) /\ ~StartCounting(r)
  <2>1. counting' = counting /\ queue' = queue /\ wpc' = wpc /\ job' = job
    BY <1>3 DEF List, BeginRound, StatPath, BuildRecord, Publish, KeepCounts,
         countVars, workerVars
  <2> QED  BY <2>1, QueueStutter DEF Scanning
<1> QED  BY <1>1, <1>2, <1>3

\* Someone is left to do the queued work: a worker leaves only an empty queue,
\* and a caller that queued a path starts a worker before it is done.
LEMMA BacklogStep ==
  ASSUME TypeOK, WorkingCounted, BacklogHasWorker, Next
  PROVE  BacklogHasWorker'
<1>1. ASSUME NEW p \in Paths, Write(p)  PROVE BacklogHasWorker'
  BY <1>1 DEF Write, BacklogHasWorker, countVars, workerVars, roundVars
<1>2. ASSUME NEW w \in Workers, Work(w)  PROVE BacklogHasWorker'
  <2>1. CASE LeaveWhenEmpty(w)
    BY <2>1 DEF LeaveWhenEmpty, BacklogHasWorker
  <2>2. CASE ~LeaveWhenEmpty(w)
    <3>1. wpc'[w] # "off"
      BY <1>2, <2>2 DEF Work, TakeRequest, StatBefore, ChooseOffset, ScanFile, StatAfter,
           Fingerprint, BankCount, DropScan, Goto, TypeOK
    <3> QED  BY <3>1 DEF BacklogHasWorker
  <2> QED  BY <2>1, <2>2
<1>3. ASSUME NEW r \in Rounds, List(r)  PROVE BacklogHasWorker'
  <2>1. CASE StartCounting(r)
    <3>1. PICK started \in SUBSET {w \in Workers : wpc[w] = "off"} :
            /\ Cardinality(started) = ToStart
            /\ wpc' = [w \in Workers |-> IF w \in started THEN "take" ELSE wpc[w]]
      BY <2>1 DEF StartCounting
    <3>2. SUFFICES ASSUME queue # <<>>  PROVE \E w \in Workers : wpc'[w] # "off"
      BY <2>1 DEF BacklogHasWorker, StartCounting
    <3>3. PoolGoal > 0
      <4>1. Len(queue) \in Nat /\ Len(queue) > 0
        BY <3>2 DEF TypeOK
      <4> QED  BY <4>1, CountAssumption DEF PoolGoal
    <3>4. CASE working > 0
      <4>1. Running # {}
        BY <3>4, FS_EmptySet DEF WorkingCounted
      <4> QED  BY <3>1, <4>1 DEF Running
    <3>5. CASE working = 0
      <4>1. Cardinality(started) # 0
        BY <3>1, <3>3, <3>5 DEF ToStart
      <4>2. started # {}
        BY <4>1, FS_EmptySet
      <4> QED  BY <3>1, <4>2
    <3> QED  BY <3>4, <3>5, CountAssumption DEF TypeOK
  <2>2. CASE ~StartCounting(r)
    <3>1. rpc'[r] # "idle"
      BY <1>3, <2>2 DEF List, BeginRound, StatPath, BuildRecord, CountPath, Publish,
           KeepCounts, RoundGoto, TypeOK
    <3> QED  BY <3>1 DEF BacklogHasWorker
  <2> QED  BY <2>1, <2>2
<1> QED  BY <1>1, <1>2, <1>3 DEF Next

\* A file is queued or scanned at most once at a time, counting holds exactly
\* those files, and queued work always has someone to do it: whatever the
\* callers, the workers and the writers of the files do, and in any order.
THEOREM QueueSafe == Spec => []QueueOK
<1>1. Init => QueueTracked /\ BacklogHasWorker
  BY InitQueue
<1>2. TypeOK /\ WorkingCounted /\ QueueTracked /\ BacklogHasWorker /\ [Next]_vars
        => QueueTracked' /\ BacklogHasWorker'
  <2> SUFFICES ASSUME TypeOK, WorkingCounted, QueueTracked, BacklogHasWorker, [Next]_vars
               PROVE  QueueTracked' /\ BacklogHasWorker'
    OBVIOUS
  <2>1. CASE UNCHANGED vars
    BY <2>1 DEF vars, countVars, workerVars, roundVars, QueueTracked, OneScanPerFile,
         CountingIsTracked, Queued, Scanning, BacklogHasWorker
  <2>2. ASSUME NEW p \in Paths, Write(p)  PROVE QueueTracked'
    BY <2>2 DEF Write, countVars, workerVars, QueueTracked, OneScanPerFile,
         CountingIsTracked, Queued, Scanning
  <2>3. CASE Next
    BY <2>2, <2>3, WorkQueue, ListQueue, BacklogStep DEF Next
  <2> QED  BY <2>1, <2>3
<1> QED  BY <1>1, <1>2, TypeCorrect, PTL DEF Spec, QueueOK

-----------------------------------------------------------------------------
(* The banked counts, where writers only append *)

\* One generation: a file is created once and then only grows.
OneGeneration ==
  \A p \in Paths : /\ file[p].mod = 0 => ~file[p].live
                   /\ file[p].mod > 0 => file[p].gen = 1

CountsExact ==
  \A p \in Paths : HaveCount(p) => /\ counts[p].gen = 1
                                   /\ counts[p].n = ExactCount(1, counts[p].size)

\* What a scan knows between its stats: the version it looked at is the file's
\* or an older one, the offset it resumes from is a line boundary with an exact
\* count behind it, and its result is exact unless the file has moved.
ScanKnows(w) ==
  LET j == job[w]
      f == file[j.path]
  IN
  /\ wpc[w] \in {"stat", "resume"} => j.from = 0
  /\ wpc[w] \in {"resume", "scan", "restat", "print", "bank"} =>
       /\ j.mod > 0 /\ j.gen = 1 /\ j.mod <= f.mod
       /\ f.mod = j.mod => f.size = j.size
  /\ wpc[w] = "scan" =>
       /\ j.from % RowBytes = 0 /\ j.from <= j.size
       /\ j.from > 0 => j.base = ExactCount(1, j.from)
  /\ wpc[w] = "restat" /\ f.live /\ f.mod = j.mod => j.n = ExactCount(1, j.size)
  /\ wpc[w] \in {"print", "bank"} => j.n = ExactCount(1, j.size)

AppendInv == OneGeneration /\ CountsExact /\ \A w \in Workers : ScanKnows(w)

LEMMA InitAppend == Init => AppendInv
BY DEF Init, AppendInv, OneGeneration, CountsExact, ScanKnows, HaveCount, NeverWritten, NoCount

LEMMA WriteAppend ==
  ASSUME ~Rewrites, TypeOK, AppendInv, NEW p \in Paths, Write(p)
  PROVE  AppendInv'
<1>1. /\ \A q \in Paths : file[q] \in FileState /\ file'[q] \in FileState
      /\ \A q \in Paths : q # p => file'[q] = file[q]
  BY WriteType DEF TypeOK, Write, Grow, WriteNew, Delete
<1>2. \/ file'[p].mod = file[p].mod + 1 /\ (file[p].mod > 0 => file'[p].gen = file[p].gen)
         /\ (file[p].mod = 0 => file'[p].gen = 1)
      \/ file'[p].mod = file[p].mod /\ file'[p].gen = file[p].gen
         /\ file'[p].size = file[p].size /\ ~file'[p].live
  <2>1. CASE Grow(p)
    BY <2>1 DEF Grow, TypeOK, FileState, AppendInv, OneGeneration
  <2>2. CASE WriteNew(p)
    <3>1. file[p].mod = 0 /\ file[p].gen = 0
      BY <2>2, CountAssumption DEF WriteNew, TypeOK, FileState
    <3> QED  BY <2>2, <3>1 DEF WriteNew, TypeOK
  <2>3. CASE Delete(p)
    BY <2>3 DEF Delete, TypeOK, FileState
  <2> QED  BY <2>1, <2>2, <2>3 DEF Write
<1>3. OneGeneration'
  BY <1>1, <1>2, CountAssumption DEF AppendInv, OneGeneration, FileState
<1>4. CountsExact'
  BY DEF AppendInv, CountsExact, Write, countVars, HaveCount
<1>5. ASSUME NEW w \in Workers  PROVE ScanKnows(w)'
  <2>1. job' = job /\ wpc' = wpc /\ ScanKnows(w) /\ job[w] \in Scan
    BY DEF Write, workerVars, AppendInv, TypeOK
  <2>2. CASE job[w].path # p
    BY <1>1, <2>1, <2>2 DEF ScanKnows, Scan
  <2>3. CASE job[w].path = p
    <3>1. file[p].mod \in Nat /\ job[w].mod \in Nat
      BY <1>1, <2>1, CountAssumption DEF FileState, Scan
    <3> QED  BY <1>2, <2>1, <2>3, <3>1 DEF ScanKnows
  <2> QED  BY <2>2, <2>3
<1> QED  BY <1>3, <1>4, <1>5 DEF AppendInv

LEMMA WorkAppend ==
  ASSUME TypeOK, AppendInv, NEW w \in Workers, Work(w)
  PROVE  AppendInv'
<1>1. file' = file /\ OneGeneration'
  BY DEF Work, TakeRequest, LeaveWhenEmpty, StatBefore, ChooseOffset, ScanFile, StatAfter,
     Fingerprint, BankCount, DropScan, diskVars, AppendInv, OneGeneration
<1>2. ASSUME NEW v \in Workers, v # w  PROVE ScanKnows(v)'
  <2>1. job'[v] = job[v] /\ wpc'[v] = wpc[v]
    BY <1>2 DEF Work, TakeRequest, LeaveWhenEmpty, StatBefore, ChooseOffset, ScanFile, StatAfter,
       Fingerprint, BankCount, DropScan, Goto, TypeOK
  <2> QED  BY <1>1, <2>1 DEF ScanKnows, AppendInv
<1>3. ScanKnows(w) /\ job[w] \in Scan /\ job[w].path \in Paths
  BY DEF AppendInv, TypeOK, Scan
<1> DEFINE p == job[w].path
           f == file[p]
<1>4. f \in FileState /\ f.mod \in 0..MaxMod /\ f.size \in Nat /\ f.gen \in 0..MaxMod
  BY <1>3, CountAssumption DEF TypeOK, FileState
<1>5. CASE ~BankCount(w)
  <2>1. counts' = counts
    BY <1>5 DEF Work, TakeRequest, LeaveWhenEmpty, StatBefore, ChooseOffset, ScanFile, StatAfter,
       Fingerprint, DropScan, countVars
  <2>2. CountsExact'
    BY <2>1 DEF AppendInv, CountsExact, HaveCount
  <2>3. ScanKnows(w)'
    <3>1. CASE TakeRequest(w)
      BY <3>1 DEF TakeRequest, Goto, TypeOK, ScanKnows, NoScan
    <3>2. CASE LeaveWhenEmpty(w) \/ DropScan(w)
      BY <3>2 DEF LeaveWhenEmpty, DropScan, Goto, TypeOK, ScanKnows
    <3>3. CASE StatBefore(w)
      <4>1. f.live => f.mod > 0 /\ f.gen = 1
        BY <1>3, <1>4 DEF AppendInv, OneGeneration
      <4>2. CASE f.live
        <5>1. /\ job'[w] = [job[w] EXCEPT !.mod = f.mod, !.gen = f.gen, !.size = f.size]
              /\ wpc'[w] = "resume" /\ wpc[w] = "stat"
          BY <3>3, <4>2 DEF StatBefore, Goto, TypeOK
        <5>2. /\ job'[w].path = p /\ job'[w].mod = f.mod /\ job'[w].gen = f.gen
              /\ job'[w].size = f.size /\ job'[w].from = job[w].from
          BY <1>3, <5>1 DEF Scan
        <5> QED  BY <1>1, <1>3, <1>4, <4>1, <4>2, <5>1, <5>2 DEF ScanKnows
      <4>3. CASE ~f.live
        BY <3>3, <4>3 DEF StatBefore, Goto, TypeOK, ScanKnows
      <4> QED  BY <4>2, <4>3
    <3>4. CASE ChooseOffset(w)
      <4> DEFINE prev == counts[p]
      <4>1. wpc[w] = "resume" /\ wpc'[w] = "scan"
        BY <3>4 DEF ChooseOffset, Goto, TypeOK
      <4>2. prev \in CountEntry /\ prev.size \in Nat /\ job[w].size \in Nat
        BY <1>3, CountAssumption DEF TypeOK, CountEntry, Scan
      <4>3. CASE CanResume(p, prev, job[w].size)
        <5>1. job'[w] = [job[w] EXCEPT !.from = prev.size, !.base = prev.n]
          BY <3>4, <4>3 DEF ChooseOffset, TypeOK
        <5>2. /\ job'[w].from = prev.size /\ job'[w].base = prev.n /\ job'[w].path = p
              /\ job'[w].mod = job[w].mod /\ job'[w].gen = job[w].gen
              /\ job'[w].size = job[w].size
          BY <1>3, <5>1 DEF Scan
        <5>3. prev.n = ExactCount(1, prev.size)
          BY <1>3, <4>3 DEF CanResume, AppendInv, CountsExact, HaveCount
        <5>4. prev.size % RowBytes = 0 /\ prev.size <= job[w].size
          BY <4>2, <4>3 DEF CanResume, NewlineBefore, RowBytes
        <5> QED  BY <1>1, <1>3, <4>1, <5>2, <5>3, <5>4 DEF ScanKnows
      <4>4. CASE ~CanResume(p, prev, job[w].size)
        <5>1. job' = job
          BY <3>4, <4>4 DEF ChooseOffset
        <5>2. job[w].from = 0 /\ job[w].from % RowBytes = 0 /\ job[w].from <= job[w].size
          BY <1>3, <4>1, <4>2 DEF ScanKnows, RowBytes
        <5> QED  BY <1>1, <1>3, <4>1, <5>1, <5>2 DEF ScanKnows
      <4> QED  BY <4>3, <4>4
    <3>5. CASE ScanFile(w)
      <4> DEFINE n == (IF job[w].from > 0 /\ p \in Resumable THEN job[w].base ELSE 0)
                      + ScanCount(p, job[w].from)
      <4>1. wpc[w] = "scan" /\ wpc'[w] = "restat" /\ job'[w] = [job[w] EXCEPT !.n = n]
        BY <3>5 DEF ScanFile, Goto, TypeOK
      <4>2. /\ job'[w].path = p /\ job'[w].mod = job[w].mod /\ job'[w].gen = job[w].gen
            /\ job'[w].size = job[w].size /\ job'[w].n = n
        BY <1>3, <4>1 DEF Scan
      <4>3. job[w].from \in Nat
        BY <1>3, CountAssumption DEF Scan
      <4>4. ASSUME f.live, f.mod = job[w].mod  PROVE n = ExactCount(1, job[w].size)
        <5>1. f.gen = 1 /\ f.size = job[w].size /\ 1 \in 0..MaxMod
          BY <1>3, <1>4, <4>1, <4>4 DEF ScanKnows, AppendInv, OneGeneration
        <5>2. CASE job[w].from > 0 /\ p \in Resumable
          <6>1. n = ExactCount(1, job[w].from)
                    + Cardinality(CountedRows(1, job[w].from, job[w].size))
            BY <1>3, <4>1, <4>4, <5>1, <5>2 DEF ScanKnows, ScanCount
          <6> QED  BY <1>3, <1>4, <4>1, <4>3, <5>1, <6>1, ResumeAdds DEF ScanKnows
        <5>3. CASE ~(job[w].from > 0 /\ p \in Resumable)
          <6>1. ScanCount(p, job[w].from) = ExactCount(1, job[w].size)
            BY <4>3, <4>4, <5>1, <5>3 DEF ScanCount, ExactCount
          <6>2. ExactCount(1, job[w].size) \in Nat
            BY <1>4, <5>1, CountedRowsFinite DEF ExactCount
          <6> QED  BY <5>3, <6>1, <6>2
        <5> QED  BY <5>2, <5>3
      <4> QED  BY <1>1, <1>3, <4>1, <4>2, <4>4 DEF ScanKnows
    <3>6. CASE StatAfter(w)
      <4>1. wpc[w] = "restat" /\ job' = job
        BY <3>6 DEF StatAfter
      <4>2. \/ wpc'[w] = "drop"
            \/ wpc'[w] = "print" /\ f.live /\ f.mod = job[w].mod
        BY <3>6 DEF StatAfter, Goto, TypeOK, SameStat
      <4> QED  BY <1>1, <1>3, <4>1, <4>2 DEF ScanKnows
    <3>7. CASE Fingerprint(w)
      <4>1. PICK tail : job'[w] = [job[w] EXCEPT !.tail = tail]
        BY <3>7 DEF Fingerprint, TypeOK
      <4>2. /\ job'[w].path = p /\ job'[w].mod = job[w].mod /\ job'[w].gen = job[w].gen
            /\ job'[w].size = job[w].size /\ job'[w].n = job[w].n
        BY <1>3, <4>1 DEF Scan
      <4>3. wpc[w] = "print" /\ wpc'[w] = "bank"
        BY <3>7 DEF Fingerprint, Goto, TypeOK
      <4> QED  BY <1>1, <1>3, <4>2, <4>3 DEF ScanKnows
    <3> QED  BY <1>5, <3>1, <3>2, <3>3, <3>4, <3>5, <3>6, <3>7 DEF Work
  <2> QED  BY <1>1, <1>2, <2>2, <2>3 DEF AppendInv
<1>6. CASE BankCount(w)
  <2>1. wpc[w] = "bank" /\ wpc'[w] = "take"
    BY <1>6 DEF BankCount, Goto, TypeOK
  <2>2. ScanKnows(w)'
    BY <2>1 DEF ScanKnows
  <2>3. \A q \in Paths : q # p => counts'[q] = counts[q]
    BY <1>6 DEF BankCount, TypeOK
  <2>4. counts'[p].gen = 1 /\ counts'[p].n = ExactCount(1, counts'[p].size)
    BY <1>3, <1>6, <2>1 DEF BankCount, TypeOK, ScanKnows
  <2>5. CountsExact'
    BY <2>3, <2>4 DEF AppendInv, CountsExact, HaveCount
  <2> QED  BY <1>1, <1>2, <2>2, <2>5 DEF AppendInv
<1> QED  BY <1>5, <1>6

LEMMA ListAppend ==
  ASSUME TypeOK, AppendInv, NEW r \in Rounds, List(r)
  PROVE  AppendInv'
<1>1. file' = file /\ job' = job
  BY DEF List, BeginRound, StatPath, BuildRecord, CountPath, Publish, KeepCounts,
     StartCounting, diskVars, workerVars
<1>2. \A w \in Workers : wpc'[w] = wpc[w] \/ wpc'[w] = "take"
  BY DEF List, BeginRound, StatPath, BuildRecord, CountPath, Publish, KeepCounts,
     StartCounting, workerVars
<1>3. \A p \in Paths : counts'[p] = counts[p] \/ counts'[p] = NoCount
  BY DEF List, BeginRound, StatPath, BuildRecord, CountPath, Publish, KeepCounts,
     StartCounting, countVars
<1>4. CountsExact'
  BY <1>3 DEF AppendInv, CountsExact, HaveCount, NoCount
<1>5. \A w \in Workers : ScanKnows(w)'
  BY <1>1, <1>2 DEF AppendInv, ScanKnows
<1> QED  BY <1>1, <1>4, <1>5 DEF AppendInv, OneGeneration

\* While writers only append, a banked count is the number of messages of the
\* version it is banked under: no sequence of writes, scans, dropped scans,
\* resumes and overlapping lists makes the number drift.
THEOREM CountsNeverDrift == Spec => []BankedExact
<1>1. CASE Rewrites
  BY <1>1, PTL DEF BankedExact
<1>2. CASE ~Rewrites
  <2>1. Init => AppendInv
    BY InitAppend
  <2>2. TypeOK /\ AppendInv /\ [Next]_vars => AppendInv'
    <3> SUFFICES ASSUME TypeOK, AppendInv, [Next]_vars  PROVE AppendInv'
      OBVIOUS
    <3>1. CASE UNCHANGED vars
      BY <3>1 DEF vars, diskVars, countVars, workerVars, AppendInv, OneGeneration,
           CountsExact, ScanKnows, HaveCount
    <3>2. CASE Next
      BY <1>2, <3>2, WriteAppend, WorkAppend, ListAppend DEF Next
    <3> QED  BY <3>1, <3>2
  <2>3. AppendInv => BankedExact
    BY DEF AppendInv, CountsExact, BankedExact
  <2> QED  BY <2>1, <2>2, <2>3, TypeCorrect, PTL DEF Spec
<1> QED  BY <1>1, <1>2
-----------------------------------------------------------------------------
(* The records of the list *)

\* A record was built at its own stamp or later, or when its file was gone.
BuiltLater(e) == e.built = 0 \/ e.mod <= e.built

\* Files only move on; so what a caller saw when it was asked is the least its
\* records may be of, and a record at hand from an earlier round is no older than
\* the stamp it was banked under.
RecordsKnow(r) ==
  /\ \A p \in Paths : /\ round[r].asked[p] <= file[p].mod
                      /\ BuiltLater(round[r].known[p]) /\ BuiltLater(round[r].fresh[p])
                      /\ round[r].fresh[p].mod > 0 => round[r].asked[p] <= round[r].fresh[p].mod
  /\ rpc[r] \in {"build", "count"} => round[r].asked[round[r].path] <= round[r].rec.mod
  /\ rpc[r] = "build" => round[r].rec.mod <= file[round[r].path].mod
  /\ rpc[r] = "count" => BuiltLater(round[r].rec)

RecordInv == (\A p \in Paths : BuiltLater(entries[p])) /\ (\A r \in Rounds : RecordsKnow(r))

LEMMA InitRecords == Init => RecordInv
<1> SUFFICES ASSUME Init PROVE RecordInv
  OBVIOUS
<1> QED  BY DEF Init, RecordInv, RecordsKnow, BuiltLater, NoRound, NoEntry, NeverWritten

LEMMA WriteRecords ==
  ASSUME TypeOK, RecordInv, NEW p \in Paths, Write(p)
  PROVE  RecordInv'
<1>1. \A q \in Paths : /\ file[q].mod <= file'[q].mod
                       /\ file[q].mod \in Nat /\ file'[q].mod \in Nat
  <2>1. \A q \in Paths : file[q].mod \in Nat /\ file'[q].mod \in Nat
    BY WriteType, CountAssumption DEF TypeOK, FileState
  <2>2. \A q \in Paths : q # p => file'[q] = file[q]
    BY DEF Write, Grow, WriteNew, Delete, TypeOK
  <2>3. file[p] \in FileState
    BY DEF TypeOK
  <2>4. file'[p].mod \in {file[p].mod, file[p].mod + 1}
    <3>1. CASE Grow(p)
      BY <2>3, <3>1 DEF Grow, TypeOK, FileState
    <3>2. CASE WriteNew(p)
      BY <2>3, <3>2 DEF WriteNew, TypeOK, FileState
    <3>3. CASE Delete(p)
      BY <2>3, <3>3 DEF Delete, TypeOK, FileState
    <3> QED  BY <3>1, <3>2, <3>3 DEF Write
  <2> QED  BY <2>1, <2>2, <2>4
<1>2. UNCHANGED <<entries, rpc, round>>
  BY DEF Write, roundVars
<1>3. ASSUME NEW r \in Rounds PROVE RecordsKnow(r)'
  <2>1. RecordsKnow(r) /\ round[r] \in Round
    BY DEF RecordInv, TypeOK
  <2>2. /\ round[r].path \in Paths /\ round[r].rec \in ListEntry
        /\ round[r].asked \in [Paths -> 0..MaxMod]
    BY <2>1 DEF Round
  <2>3. round[r].rec.mod \in Nat /\ \A q \in Paths : round[r].asked[q] \in Nat
    BY <2>2, CountAssumption DEF ListEntry
  <2>4. round' = round /\ rpc' = rpc
    BY <1>2
  <2>5. \A q \in Paths : round[r].asked[q] <= file'[q].mod
    BY <1>1, <2>1, <2>3 DEF RecordsKnow
  <2>6. rpc[r] = "build" => round[r].rec.mod <= file'[round[r].path].mod
    BY <1>1, <2>1, <2>2, <2>3 DEF RecordsKnow
  <2> QED  BY <2>1, <2>4, <2>5, <2>6 DEF RecordsKnow, BuiltLater
<1> QED  BY <1>2, <1>3 DEF RecordInv, BuiltLater

\* A step of caller r leaves what the others know alone.
LEMMA OthersKnow ==
  ASSUME TypeOK, RecordInv, NEW r \in Rounds, List(r), NEW q \in Rounds, q # r
  PROVE  RecordsKnow(q)'
<1>1. file' = file /\ round'[q] = round[q] /\ rpc'[q] = rpc[q]
  BY DEF List, BeginRound, StatPath, BuildRecord, CountPath, Publish, KeepCounts,
     StartCounting, diskVars, RoundGoto, TypeOK
<1> QED  BY <1>1 DEF RecordInv, RecordsKnow, BuiltLater

LEMMA ListRecords ==
  ASSUME TypeOK, RecordInv, NEW r \in Rounds, List(r)
  PROVE  RecordInv'
<1> DEFINE b == round[r]
           f == file[b.path]
<1>0. RecordsKnow(r) /\ b \in Round /\ file' = file
  BY DEF RecordInv, TypeOK, List, BeginRound, StatPath, BuildRecord, CountPath, Publish,
     KeepCounts, StartCounting, diskVars
<1>a. \A p \in Paths : file[p].mod \in Nat /\ file[p].mod <= MaxMod
  BY CountAssumption DEF TypeOK, FileState
<1>b. /\ b.path \in Paths /\ b.rec \in ListEntry
      /\ \A p \in Paths : b.asked[p] \in Nat /\ b.known[p] \in ListEntry /\ b.fresh[p] \in ListEntry
  BY <1>0, CountAssumption DEF Round
<1>c. \A e \in ListEntry : e.mod \in Nat /\ e.built \in Nat
  BY CountAssumption DEF ListEntry
<1>d. RecordsKnow(r)' => \A q \in Rounds : RecordsKnow(q)'
  BY OthersKnow
<1>1. CASE BeginRound(r)
  <2> DEFINE next == [NoRound EXCEPT !.asked = [p \in Paths |-> file[p].mod],
                                     !.seen = {p \in Paths : file[p].live},
                                     !.todo = {p \in Paths : file[p].live}, !.known = entries]
  <2>1. round'[r] = next /\ rpc'[r] = "stat" /\ entries' = entries
    BY <1>1 DEF BeginRound, RoundGoto, TypeOK
  <2>2. \A p \in Paths : /\ next.asked[p] = file[p].mod /\ next.known[p] = entries[p]
                         /\ next.fresh[p] = NoEntry
    BY NoRoundType DEF NoRound, Round
  <2>3. RecordsKnow(r)'
    BY <1>0, <1>a, <2>1, <2>2 DEF RecordsKnow, RecordInv, BuiltLater, NoEntry
  <2> QED  BY <1>d, <2>1, <2>3 DEF RecordInv, BuiltLater
<1>2. ASSUME NEW p \in Paths, StatPath(r, p)  PROVE RecordInv'
  <2>1. entries' = entries /\ rpc[r] = "stat"
    BY <1>2 DEF StatPath
  <2>2. CASE ~file[p].live
    <3>1. round'[r] = [b EXCEPT !.todo = @ \ {p}] /\ rpc' = rpc
      BY <1>2, <2>2 DEF StatPath, RecordHit, SameStat, TypeOK
    <3>2. /\ round'[r].asked = b.asked /\ round'[r].known = b.known /\ round'[r].fresh = b.fresh
      BY <1>0, <3>1 DEF Round
    <3>3. RecordsKnow(r)'
      BY <1>0, <2>1, <3>1, <3>2 DEF RecordsKnow, BuiltLater
    <3> QED  BY <1>d, <2>1, <3>3 DEF RecordInv, BuiltLater
  <2>3. CASE file[p].live /\ RecordHit(p, b.known[p])
    <3>1. /\ round'[r] = [b EXCEPT !.todo = @ \ {p}, !.path = p, !.rec = b.known[p]]
          /\ rpc'[r] = "count"
      BY <1>2, <2>3 DEF StatPath, RoundGoto, TypeOK
    <3>2. /\ round'[r].asked = b.asked /\ round'[r].known = b.known /\ round'[r].fresh = b.fresh
          /\ round'[r].path = p /\ round'[r].rec = b.known[p]
      BY <1>0, <3>1 DEF Round
    <3>3. b.known[p].mod = file[p].mod
      BY <2>3 DEF RecordHit, SameStat
    <3>4. RecordsKnow(r)'
      BY <1>0, <3>1, <3>2, <3>3 DEF RecordsKnow, BuiltLater
    <3> QED  BY <1>d, <2>1, <3>4 DEF RecordInv, BuiltLater
  <2>4. CASE file[p].live /\ ~RecordHit(p, b.known[p])
    <3> DEFINE rec == [NoEntry EXCEPT !.mod = file[p].mod, !.size = file[p].size]
    <3>1. /\ round'[r] = [b EXCEPT !.todo = @ \ {p}, !.path = p, !.rec = rec]
          /\ rpc'[r] = "build"
      BY <1>2, <2>4 DEF StatPath, RoundGoto, TypeOK
    <3>2. /\ round'[r].asked = b.asked /\ round'[r].known = b.known /\ round'[r].fresh = b.fresh
          /\ round'[r].path = p /\ round'[r].rec = rec
      BY <1>0, <3>1 DEF Round
    <3>3. round'[r].rec.mod = file[p].mod /\ rpc'[r] = "build"
      BY <3>1, <3>2 DEF NoEntry
    <3> HIDE DEF rec
    <3>4. RecordsKnow(r)'
      BY <1>0, <1>a, <3>2, <3>3 DEF RecordsKnow, BuiltLater
    <3> QED  BY <1>d, <2>1, <3>4 DEF RecordInv, BuiltLater
  <2> QED  BY <2>2, <2>3, <2>4
<1>3. CASE BuildRecord(r)
  <2> DEFINE built == IF f.live THEN f.mod ELSE 0
  <2>1. /\ round'[r] = [b EXCEPT !.rec = [b.rec EXCEPT !.built = built]]
        /\ rpc[r] = "build" /\ rpc'[r] = "count" /\ entries' = entries
    BY <1>3 DEF BuildRecord, RoundGoto, TypeOK
  <2>2. /\ round'[r].asked = b.asked /\ round'[r].known = b.known /\ round'[r].fresh = b.fresh
        /\ round'[r].path = b.path /\ round'[r].rec.mod = b.rec.mod /\ round'[r].rec.built = built
    BY <1>0, <1>b, <2>1 DEF Round, ListEntry
  <2>3. RecordsKnow(r)'
    BY <1>0, <2>1, <2>2 DEF RecordsKnow, BuiltLater
  <2> QED  BY <1>d, <2>1, <2>3 DEF RecordInv, BuiltLater
<1>4. CASE CountPath(r)
  <2> DEFINE e == [b.rec EXCEPT !.n = CountToShow(b.path, b.rec)]
  <2>1. /\ round'[r] = [b EXCEPT !.fresh = [b.fresh EXCEPT ![b.path] = e],
                                 !.rec = NoEntry, !.path = AnyPath]
        /\ rpc[r] = "count" /\ rpc'[r] = "stat" /\ entries' = entries
    BY <1>4 DEF CountPath, RoundGoto, TypeOK
  <2>2. /\ round'[r].asked = b.asked /\ round'[r].known = b.known
        /\ round'[r].fresh = [b.fresh EXCEPT ![b.path] = e]
    BY <1>0, <2>1 DEF Round
  <2>3. e.mod = b.rec.mod /\ e.built = b.rec.built /\ b.fresh \in [Paths -> ListEntry]
    BY <1>0, <1>b DEF Round, ListEntry
  <2>4. \A p \in Paths : round'[r].fresh[p] = IF p = b.path THEN e ELSE b.fresh[p]
    BY <2>2, <2>3
  <2>5. RecordsKnow(r)'
    BY <1>0, <1>b, <2>1, <2>2, <2>3, <2>4 DEF RecordsKnow, BuiltLater
  <2> QED  BY <1>d, <2>1, <2>5 DEF RecordInv, BuiltLater
<1>5. CASE Publish(r)
  <2>1. entries' = b.fresh /\ round' = round /\ rpc'[r] = "keep"
    BY <1>5 DEF Publish, RoundGoto, TypeOK
  <2>2. RecordsKnow(r)'
    BY <1>0, <2>1 DEF RecordsKnow, BuiltLater
  <2> QED  BY <1>0, <1>d, <2>1, <2>2 DEF RecordInv, RecordsKnow, BuiltLater
<1>6. CASE KeepCounts(r)
  <2>1. entries' = entries /\ round' = round /\ rpc'[r] = "start"
    BY <1>6 DEF KeepCounts, RoundGoto, TypeOK
  <2>2. RecordsKnow(r)'
    BY <1>0, <2>1 DEF RecordsKnow, BuiltLater
  <2> QED  BY <1>d, <2>1, <2>2 DEF RecordInv, BuiltLater
<1>7. CASE StartCounting(r)
  <2>1. entries' = entries /\ round'[r] = NoRound /\ rpc'[r] = "idle"
    BY <1>7 DEF StartCounting, RoundGoto, TypeOK
  <2>2. RecordsKnow(r)'
    BY <1>0, <1>a, <2>1 DEF RecordsKnow, BuiltLater, NoRound, NoEntry
  <2> QED  BY <1>d, <2>1, <2>2 DEF RecordInv, BuiltLater
<1> QED  BY <1>1, <1>2, <1>3, <1>4, <1>5, <1>6, <1>7 DEF List

\* The list answers with what its files held when it was asked, or later, for any
\* number of overlapping callers: a banked record is reused only for the bytes it
\* was built from, whichever round banked its map last.
THEOREM ListIsCurrent == Spec => []ListAnswersCurrent
<1>1. TypeOK /\ RecordInv /\ [Next]_vars => RecordInv'
  <2> SUFFICES ASSUME TypeOK, RecordInv, [Next]_vars  PROVE RecordInv'
    OBVIOUS
  <2>1. CASE UNCHANGED vars
    BY <2>1 DEF vars, diskVars, countVars, workerVars, roundVars, RecordInv, RecordsKnow, BuiltLater
  <2>2. ASSUME NEW w \in Workers, Work(w)  PROVE RecordInv'
    <3>1. UNCHANGED <<file, entries, rpc, round>>
      BY <2>2 DEF Work, TakeRequest, LeaveWhenEmpty, StatBefore, ChooseOffset, ScanFile, StatAfter,
         Fingerprint, BankCount, DropScan, diskVars, roundVars
    <3> QED  BY <3>1 DEF RecordInv, RecordsKnow, BuiltLater
  <2>3. CASE Next
    BY <2>2, <2>3, WriteRecords, ListRecords DEF Next
  <2> QED  BY <2>1, <2>3
<1>2. TypeOK /\ RecordInv => ListAnswersCurrent
  <2> SUFFICES ASSUME TypeOK, RecordInv, NEW r \in Rounds, NEW p \in Paths,
                      round[r].fresh[p].mod > 0, round[r].fresh[p].built # 0
               PROVE  round[r].fresh[p].built \in round[r].asked[p]..MaxMod
    BY DEF ListAnswersCurrent
  <2>1. RecordsKnow(r) /\ round[r].fresh[p] \in ListEntry /\ round[r].asked[p] \in Nat
    BY CountAssumption DEF RecordInv, TypeOK, Round
  <2>2. /\ round[r].fresh[p].mod \in Nat /\ round[r].fresh[p].built \in Nat
        /\ round[r].fresh[p].built <= MaxMod
    BY <2>1, CountAssumption DEF ListEntry
  <2> QED  BY <2>1, <2>2, CountAssumption DEF RecordsKnow, BuiltLater
<1> QED  BY InitRecords, <1>1, <1>2, TypeCorrect, PTL DEF Spec

-----------------------------------------------------------------------------
(* The counts of the list, with one caller and writers that only append *)

OneCaller == \A q, r \in Rounds : q = r

\* A version has all the bytes of an older one; so has the version a scan looks at,
\* of the one that was counted last.
SizeInv ==
  /\ \A p \in Paths : /\ file[p].mod = 0 => file[p].size = 0
                      /\ HaveCount(p) => counts[p].size <= file[p].size
  /\ \A w \in Workers : wpc[w] \in {"resume", "scan", "restat", "print", "bank"} =>
       /\ job[w].size <= file[job[w].path].size
       /\ HaveCount(job[w].path) => counts[job[w].path].size <= job[w].size

\* The list has the path, or will have it when the round under way is done.
Listed(p) == file[p].live \/ \E r \in Rounds : p \in round[r].seen

\* A file that came after the round's glob is not counted, or queued, before its end.
SeenInv ==
  /\ \A p \in Paths : HaveCount(p) \/ p \in counting \/ Listed(p) => file[p].mod > 0
  /\ \A r \in Rounds :
       /\ round[r].todo \subseteq round[r].seen
       /\ rpc[r] \in {"build", "count"} => round[r].path \in round[r].seen
       /\ \A p \in Paths : rpc[r] # "idle" /\ p \notin round[r].seen /\ file[p].live
                             => ~HaveCount(p) /\ p \notin counting

\* A number that was shown of a listed path is no more than the banked one.
Covered(p, n) ==
  n # Uncounted =>
    file[p].mod > 0 /\ (Listed(p) => HaveCount(p) /\ n <= counts[p].n)

ShownInv ==
  /\ \A p \in Paths : Covered(p, shown[p]) /\ Covered(p, entries[p].n)
  /\ \A r \in Rounds :
       /\ rpc[r] = "count" => Covered(round[r].path, round[r].rec.n)
       /\ rpc[r] = "build" => round[r].rec.n = Uncounted
       /\ \A p \in Paths :
            /\ Covered(p, round[r].known[p].n) /\ Covered(p, round[r].fresh[p].n)
            /\ shown[p] # Uncounted /\ round[r].fresh[p].n # Uncounted
                 => shown[p] <= round[r].fresh[p].n

LEMMA InitGrow == Init => SizeInv /\ SeenInv /\ ShownInv
<1> SUFFICES ASSUME Init PROVE SizeInv /\ SeenInv /\ ShownInv
  OBVIOUS
<1>1. SizeInv
  BY DEF Init, SizeInv, HaveCount, NoCount, NeverWritten
<1>2. SeenInv
  BY DEF Init, SeenInv, HaveCount, NoCount, NeverWritten, Listed, NoRound
<1>3. ShownInv
  BY DEF Init, ShownInv, Covered, NoRound, NoEntry
<1> QED  BY <1>1, <1>2, <1>3

LEMMA ExactCountGrows ==
  ASSUME NEW from \in Nat, NEW size \in Nat, from <= size, 1 \in 0..MaxMod
  PROVE  ExactCount(1, from) <= ExactCount(1, size)
<1>1. Messages[1] \subseteq Nat
  BY CountAssumption
<1>2. CountedRows(1, 0, from) \subseteq CountedRows(1, 0, size)
  BY <1>1 DEF CountedRows, RowBytes
<1>3. IsFiniteSet(CountedRows(1, 0, size))
  BY CountedRowsFinite
<1> QED  BY <1>2, <1>3, FS_Subset DEF ExactCount

\* What any step does to a file
LEMMA FileMoves ==
  ASSUME ~Rewrites, TypeOK, SizeInv, Next, NEW q \in Paths
  PROVE  /\ file[q].mod \in Nat /\ file[q].size \in Nat
         /\ file'[q].mod \in Nat /\ file'[q].size \in Nat
         /\ file[q].mod <= file'[q].mod /\ file[q].size <= file'[q].size
         /\ file'[q].live => file[q].live \/ file[q].mod = 0
         /\ file'[q].live /\ ~file[q].live => file'[q].mod > 0
         /\ file'[q].mod = 0 => file'[q].size = 0
<1>1. file[q].mod \in Nat /\ file[q].size \in Nat
  <2>1. file[q].mod \in 0..MaxMod /\ file[q].size \in Sizes
    BY DEF TypeOK, FileState
  <2>2. file[q].mod \in Nat
    BY <2>1, CountAssumption
  <2>3. file[q].size \in Nat
    BY <2>1, CountAssumption
  <2> QED  BY <2>2, <2>3
<1>0. file[q].mod = 0 => file[q].size = 0
  BY DEF SizeInv
<1>2. CASE file'[q] = file[q]
  <2>1. /\ file'[q].mod = file[q].mod /\ file'[q].size = file[q].size
        /\ file'[q].live = file[q].live
    BY <1>2
  <2> HIDE <1>2
  <2> QED  BY <1>0, <1>1, <2>1
<1>3. ASSUME NEW p \in Paths, Write(p), file'[q] # file[q]
      PROVE  /\ file'[q].mod = file[q].mod \/ file'[q].mod = file[q].mod + 1
             /\ file'[q].size \in Nat /\ file[q].size <= file'[q].size
             /\ file'[q].live => file'[q].mod > 0 /\ (file[q].live \/ file[q].mod = 0)
             /\ file'[q].mod = file[q].mod => file'[q].size = file[q].size
  <2>1. p = q
    BY <1>3 DEF Write, Grow, WriteNew, Delete, TypeOK
  <2>2. CASE Grow(q)
    <3>1. PICK size \in {s \in Sizes : s > file[q].size} :
            file' = [file EXCEPT ![q].size = size, ![q].mod = @ + 1]
      BY <2>2 DEF Grow
    <3>2. /\ file'[q].mod = file[q].mod + 1 /\ file'[q].size = size
          /\ file'[q].live = file[q].live /\ file[q].live
      BY <2>2, <3>1 DEF Grow, TypeOK, FileState
    <3> QED  BY <1>1, <3>1, <3>2, CountAssumption
  <2>3. CASE WriteNew(q)
    <3>1. PICK size \in Sizes :
            file' = [file EXCEPT ![q] = [mod |-> @.mod + 1, gen |-> @.gen + 1, size |-> size, live |-> TRUE]]
      BY <2>3 DEF WriteNew
    <3>2. file'[q].mod = file[q].mod + 1 /\ file'[q].size = size /\ file[q].mod = 0
      BY <2>3, <3>1 DEF WriteNew, TypeOK, FileState
    <3>3. file[q].size = 0 /\ size \in Nat
      BY <1>0, <3>2, CountAssumption
    <3> QED  BY <1>1, <3>2, <3>3
  <2>4. CASE Delete(q)
    <3>1. file'[q].mod = file[q].mod /\ file'[q].size = file[q].size /\ ~file'[q].live
      BY <2>4 DEF Delete, TypeOK, FileState
    <3> QED  BY <1>1, <3>1
  <2> QED  BY <1>3, <2>1, <2>2, <2>3, <2>4 DEF Write
<1>4. CASE file'[q] # file[q]
  <2>1. PICK p \in Paths : Write(p)
    <3>1. file' # file
      BY <1>4
    <3>2. \A w \in Workers : ~Work(w)
      BY <3>1 DEF Work, TakeRequest, LeaveWhenEmpty, StatBefore, ChooseOffset, ScanFile, StatAfter,
         Fingerprint, BankCount, DropScan, diskVars
    <3>3. \A r \in Rounds : ~List(r)
      BY <3>1 DEF List, BeginRound, StatPath, BuildRecord, CountPath, Publish, KeepCounts,
         StartCounting, diskVars
    <3> QED  BY <3>2, <3>3 DEF Next
  <2>2. file'[q].mod = 0 => file'[q].size = 0
    BY <1>0, <1>1, <1>3, <1>4, <2>1
  <2> QED  BY <1>1, <1>3, <1>4, <2>1, <2>2
<1> QED  BY <1>2, <1>4

\* A worker leaves the files and the rounds alone.
LEMMA FileStays ==
  ASSUME NEW w \in Workers, Work(w)
  PROVE  file' = file /\ UNCHANGED <<entries, rpc, round, shown>>
BY DEF Work, TakeRequest, LeaveWhenEmpty, StatBefore, ChooseOffset, ScanFile, StatAfter,
   Fingerprint, BankCount, DropScan, diskVars, roundVars

\* What banking a scan does to the counts: the path's number grows.
LEMMA BankGrows ==
  ASSUME TypeOK, QueueTracked, AppendInv, SizeInv, NEW w \in Workers, BankCount(w)
  PROVE  LET p == job[w].path IN
         /\ p \in Paths /\ p \in counting /\ w \in Scanning
         /\ counts' = [counts EXCEPT ![p] = counts'[p]]
         /\ counts'[p].mod > 0 /\ counts'[p].size = job[w].size
         /\ job[w].size <= file[p].size
         /\ HaveCount(p) => counts[p].n <= counts'[p].n
<1> DEFINE p == job[w].path
           j == job[w]
           new == [mod |-> j.mod, gen |-> j.gen, size |-> j.size, n |-> j.n, tail |-> j.tail]
<1>1. wpc[w] = "bank" /\ j \in Scan /\ p \in Paths /\ counts' = [counts EXCEPT ![p] = new]
  BY DEF BankCount, TypeOK, Scan
<1>2. w \in Scanning /\ p \in counting
  BY <1>1 DEF QueueTracked, CountingIsTracked, Scanning, InScan
<1>3. counts'[p] = new
  BY <1>1 DEF TypeOK
<1>4. j.mod > 0 /\ j.n = ExactCount(1, j.size) /\ j.mod \in 0..MaxMod /\ j.size \in Nat
  BY <1>1, CountAssumption DEF AppendInv, ScanKnows, Scan
<1>5. j.size <= file[p].size /\ (HaveCount(p) => counts[p].size <= j.size)
  BY <1>1 DEF SizeInv
<1>6. HaveCount(p) => counts[p].n <= j.n
  <2>1. SUFFICES ASSUME HaveCount(p) PROVE counts[p].n <= j.n
    OBVIOUS
  <2>2. counts[p].n = ExactCount(1, counts[p].size) /\ counts[p].size \in Nat
    BY <1>1, <2>1, CountAssumption DEF AppendInv, CountsExact, TypeOK, CountEntry
  <2>3. 1 \in 0..MaxMod
    BY <1>4, CountAssumption
  <2> QED  BY <1>4, <1>5, <2>1, <2>2, <2>3, ExactCountGrows
<1>7. counts'[p].mod = j.mod /\ counts'[p].size = j.size /\ counts'[p].n = j.n
  BY <1>3
<1>8. counts' = [counts EXCEPT ![p] = counts'[p]]
  BY <1>1, <1>3
<1> HIDE DEF new, p
<1>9. job[w].path = p
  BY DEF p
<1> QED  BY <1>1, <1>2, <1>4, <1>5, <1>6, <1>7, <1>8, <1>9

\* Only banking a scan and the end of a round change counts.
LEMMA WhoCounts ==
  ASSUME Next
  PROVE  \/ counts' = counts
         \/ \E w \in Workers : BankCount(w)
         \/ \E r \in Rounds : KeepCounts(r)
BY DEF Next, Write, Work, TakeRequest, LeaveWhenEmpty, StatBefore, ChooseOffset, ScanFile,
   StatAfter, Fingerprint, DropScan, List, BeginRound, StatPath, BuildRecord, CountPath,
   Publish, StartCounting, countVars

\* A path that has another count than before, and has one, was banked.
LEMMA WhoBanks ==
  ASSUME TypeOK, QueueTracked, AppendInv, SizeInv, Next,
         NEW p \in Paths, HaveCount(p)', counts'[p] # counts[p]
  PROVE  \E w \in Workers : BankCount(w) /\ job[w].path = p
<1>1. \A r \in Rounds : ~KeepCounts(r)
  BY DEF KeepCounts, HaveCount, NoCount
<1>2. PICK w \in Workers : BankCount(w)
  BY <1>1, WhoCounts
<1>3. counts \in [Paths -> CountEntry]
  BY DEF TypeOK
<1>4. job[w].path = p
  BY <1>2, <1>3, BankGrows
<1> QED  BY <1>2, <1>4

\* Of a listed path nothing that was counted is lost, and the number grows.
LEMMA CountsGrow ==
  ASSUME OneCaller, ~Rewrites, TypeOK, QueueTracked, AppendInv, SizeInv, SeenInv, Next,
         NEW p \in Paths, HaveCount(p), Listed(p)
  PROVE  HaveCount(p)' /\ counts[p].n <= counts'[p].n
<1>1. counts[p] \in CountEntry /\ counts[p].n \in Nat
  BY DEF TypeOK, CountEntry
<1>2. CASE counts'[p] = counts[p]
  BY <1>1, <1>2 DEF HaveCount
<1>3. ASSUME NEW w \in Workers, BankCount(w), counts'[p] # counts[p]
      PROVE  HaveCount(p)' /\ counts[p].n <= counts'[p].n
  <2>1. job[w].path = p
    BY <1>3, BankGrows DEF TypeOK
  <2> QED  BY <1>3, <2>1, BankGrows DEF HaveCount
<1>4. ASSUME NEW r \in Rounds, KeepCounts(r) PROVE counts'[p] = counts[p]
  <2>1. rpc[r] = "keep" /\ (p \in round[r].seen => counts'[p] = counts[p])
    BY <1>4 DEF KeepCounts
  <2>2. CASE p \notin round[r].seen
    <3>1. file[p].live
      BY <2>2 DEF Listed, OneCaller
    <3> QED  BY <2>1, <2>2, <3>1 DEF SeenInv
  <2> QED  BY <2>1, <2>2
<1> QED  BY <1>2, <1>3, <1>4, WhoCounts

\* What a caller's step does to the set of files its list is made of
LEMMA SeenBy ==
  ASSUME TypeOK, NEW r \in Rounds, List(r)
  PROVE  /\ file' = file /\ \A q \in Rounds : q # r => round'[q] = round[q] /\ rpc'[q] = rpc[q]
         /\ round'[r].seen \in {round[r].seen, {p \in Paths : file[p].live}, {}}
<1> DEFINE b == round[r]
           live == {p \in Paths : file[p].live}
<1>1. file' = file /\ \A q \in Rounds : q # r => round'[q] = round[q] /\ rpc'[q] = rpc[q]
  BY DEF List, BeginRound, StatPath, BuildRecord, CountPath, Publish, KeepCounts,
     StartCounting, diskVars, RoundGoto, TypeOK
<1>2. b \in Round
  BY DEF TypeOK
<1>3. CASE BeginRound(r)
  <2>1. round'[r] = [NoRound EXCEPT !.asked = [p \in Paths |-> file[p].mod], !.seen = live,
                                    !.todo = live, !.known = entries]
    BY <1>3 DEF BeginRound, TypeOK
  <2>2. round'[r].seen = live
    BY <2>1, NoRoundType DEF Round
  <2> QED  BY <1>1, <2>2
<1>4. ASSUME NEW p \in Paths, StatPath(r, p) PROVE round'[r].seen = b.seen
  <2>1. \/ round'[r] = [b EXCEPT !.todo = @ \ {p}]
        \/ \E rec : round'[r] = [b EXCEPT !.todo = @ \ {p}, !.path = p, !.rec = rec]
    BY <1>4 DEF StatPath, TypeOK
  <2> QED  BY <1>2, <2>1 DEF Round
<1>5. CASE BuildRecord(r) \/ CountPath(r)
  <2>1. CASE BuildRecord(r)
    <3>1. PICK rec : round'[r] = [b EXCEPT !.rec = rec]
      BY <2>1 DEF BuildRecord, TypeOK
    <3> QED  BY <1>1, <1>2, <3>1 DEF Round
  <2>2. CASE CountPath(r)
    <3>1. PICK fresh : round'[r] = [b EXCEPT !.fresh = fresh, !.rec = NoEntry, !.path = AnyPath]
      BY <2>2 DEF CountPath, TypeOK
    <3> QED  BY <1>1, <1>2, <3>1 DEF Round
  <2> QED  BY <1>5, <2>1, <2>2
<1>6. CASE Publish(r) \/ KeepCounts(r)
  BY <1>1, <1>6 DEF Publish, KeepCounts
<1>7. CASE StartCounting(r)
  <2>1. round'[r] = NoRound
    BY <1>7 DEF StartCounting, TypeOK
  <2> QED  BY <1>1, <2>1 DEF NoRound
<1> QED  BY <1>1, <1>3, <1>4, <1>5, <1>6, <1>7 DEF List

\* A step lists no path anew but one that was never written.
LEMMA ListedStep ==
  ASSUME ~Rewrites, TypeOK, SizeInv, Next, NEW p \in Paths, Listed(p)', ~Listed(p)
  PROVE  file[p].mod = 0 /\ file'[p].mod > 0
<1>1. CASE file'[p].live
  BY <1>1, FileMoves DEF Listed
<1>2. CASE ~file'[p].live
  <2>1. PICK r \in Rounds : p \in round'[r].seen
    BY <1>2 DEF Listed
  <2>2. p \notin round[r].seen /\ ~file[p].live
    BY DEF Listed
  <2>3. round' # round
    BY <2>1, <2>2
  <2>4. PICK q \in Rounds : List(q)
    BY <2>3, FileStays DEF Next, Write, roundVars
  <2> QED  BY <2>1, <2>2, <2>4, SeenBy
<1> QED  BY <1>1, <1>2

CoveredNext(p, n) ==
  n # Uncounted =>
    file'[p].mod > 0 /\ (Listed(p)' => HaveCount(p)' /\ n <= counts'[p].n)

LEMMA CoveredStep ==
  ASSUME OneCaller, ~Rewrites, TypeOK, QueueTracked, AppendInv, SizeInv, SeenInv, Next, TypeOK'
  PROVE  \A p \in Paths, n \in Nat \cup {Uncounted} : Covered(p, n) => CoveredNext(p, n)
<1> SUFFICES ASSUME NEW p \in Paths, NEW n \in Nat \cup {Uncounted}, Covered(p, n), n # Uncounted
             PROVE  file'[p].mod > 0 /\ (Listed(p)' => HaveCount(p)' /\ n <= counts'[p].n)
  BY DEF CoveredNext
<1>1. n \in Nat /\ file[p].mod > 0 /\ (Listed(p) => HaveCount(p) /\ n <= counts[p].n)
  BY DEF Covered
<1>2. file[p].mod \in Nat /\ file'[p].mod \in Nat /\ file[p].mod <= file'[p].mod
  BY FileMoves
<1>3. Listed(p)' => Listed(p)
  BY <1>1, <1>2, ListedStep
<1>4. counts[p].n \in Nat /\ counts'[p].n \in Nat
  BY DEF TypeOK, CountEntry
<1> QED  BY <1>1, <1>2, <1>3, <1>4, CountsGrow

LEMMA SizeStep ==
  ASSUME ~Rewrites, TypeOK, TypeOK', QueueTracked, AppendInv, SizeInv, Next
  PROVE  SizeInv'
<1> DEFINE InFlight(w) == wpc[w] \in {"resume", "scan", "restat", "print", "bank"}
<1>1. \A p \in Paths : /\ file[p].size \in Nat /\ file'[p].size \in Nat
                       /\ file[p].size <= file'[p].size
                       /\ (file'[p].mod = 0 => file'[p].size = 0)
  BY FileMoves
<1>2. \A p \in Paths : counts[p].size \in Nat /\ counts'[p].size \in Nat
  <2>1. \A p \in Paths : counts[p] \in CountEntry /\ counts'[p] \in CountEntry
    BY DEF TypeOK
  <2> QED  BY <2>1, CountAssumption DEF CountEntry
<1>3. \A w \in Workers : /\ job[w].path \in Paths /\ job[w].size \in Nat
                         /\ job'[w].path \in Paths /\ job'[w].size \in Nat
  <2>1. \A w \in Workers : job[w] \in Scan /\ job'[w] \in Scan
    BY DEF TypeOK
  <2> QED  BY <2>1, CountAssumption DEF Scan
<1>4. ASSUME NEW p \in Paths, HaveCount(p)' PROVE counts'[p].size <= file'[p].size
  <2>1. CASE HaveCount(p) /\ counts'[p] = counts[p]
    BY <1>1, <1>2, <2>1 DEF SizeInv
  <2>2. CASE ~(HaveCount(p) /\ counts'[p] = counts[p])
    <3>1. counts'[p] # counts[p]
      BY <1>4, <2>2 DEF HaveCount
    <3>2. PICK w \in Workers : BankCount(w) /\ job[w].path = p
      BY <1>4, <3>1, WhoBanks
    <3>3. counts'[p].size = job[w].size /\ job[w].size <= file[p].size
      BY <3>2, BankGrows
    <3> QED  BY <1>1, <1>2, <1>3, <3>3
  <2> QED  BY <2>1, <2>2
<1>5. ASSUME NEW w \in Workers, InFlight(w)'
      PROVE  /\ job'[w].size <= file'[job'[w].path].size
             /\ HaveCount(job[w].path)' => counts'[job'[w].path].size <= job'[w].size
  <2>0. PICK p \in Paths : p = job[w].path
    BY <1>3
  <2>1. CASE StatBefore(w)
    <3>1. file[p].live /\ job'[w] = [job[w] EXCEPT !.mod = file[p].mod, !.gen = file[p].gen, !.size = file[p].size]
      BY <1>5, <2>0, <2>1 DEF StatBefore, Goto, TypeOK
    <3>2. job'[w].path = p /\ job'[w].size = file[p].size
      BY <2>0, <3>1 DEF TypeOK, Scan
    <3>3. counts' = counts
      BY <2>1 DEF StatBefore, countVars
    <3>4. p \in Paths /\ file[p].size \in Nat /\ file'[p].size \in Nat /\ file[p].size <= file'[p].size
      BY <1>1, <1>3
    <3>5. HaveCount(p)' => counts'[p].size <= file[p].size
      BY <3>3, <3>4 DEF SizeInv, HaveCount
    <3> QED  BY <3>2, <3>4, <3>5 DEF HaveCount
  <2>2. CASE ~StatBefore(w)
    <3>1. InFlight(w) /\ job'[w].path = job[w].path /\ job'[w].size = job[w].size /\ ~BankCount(w)
      <4>1. CASE Work(w)
        <5>1. job[w] \in Scan
          BY DEF TypeOK
        <5>2. CASE TakeRequest(w) \/ LeaveWhenEmpty(w) \/ BankCount(w) \/ DropScan(w)
          BY <1>5, <5>2 DEF TakeRequest, LeaveWhenEmpty, BankCount, DropScan, Goto, TypeOK
        <5>3. CASE ChooseOffset(w)
          <6>1. /\ wpc[w] = "resume" /\ wpc'[w] = "scan"
                /\ \/ job'[w] = job[w]
                   \/ \E from, base : job'[w] = [job[w] EXCEPT !.from = from, !.base = base]
            BY <5>3 DEF ChooseOffset, Goto, TypeOK
          <6>2. job'[w].path = job[w].path /\ job'[w].size = job[w].size
            BY <5>1, <6>1 DEF Scan
          <6> QED  BY <6>1, <6>2 DEF BankCount
        <5>4. CASE ScanFile(w)
          <6>1. wpc[w] = "scan" /\ \E n : job'[w] = [job[w] EXCEPT !.n = n]
            BY <5>4 DEF ScanFile, TypeOK
          <6> QED  BY <5>1, <6>1 DEF Scan, BankCount
        <5>5. CASE StatAfter(w)
          BY <5>5 DEF StatAfter, BankCount, TypeOK
        <5>6. CASE Fingerprint(w)
          <6>1. wpc[w] = "print" /\ \E tail : job'[w] = [job[w] EXCEPT !.tail = tail]
            BY <5>6 DEF Fingerprint, TypeOK
          <6> QED  BY <5>1, <6>1 DEF Scan, BankCount
        <5> QED  BY <2>2, <4>1, <5>2, <5>3, <5>4, <5>5, <5>6 DEF Work
      <4>2. CASE ~Work(w)
        <5>1. job'[w] = job[w] /\ (wpc'[w] = wpc[w] \/ wpc'[w] = "take")
          <6>1. CASE \E q \in Paths : Write(q)
            BY <6>1 DEF Write, workerVars
          <6>2. ASSUME NEW v \in Workers, v # w, Work(v) PROVE job'[w] = job[w] /\ wpc'[w] = wpc[w]
            BY <6>2 DEF Work, TakeRequest, LeaveWhenEmpty, StatBefore, ChooseOffset, ScanFile,
               StatAfter, Fingerprint, BankCount, DropScan, Goto, TypeOK
          <6>3. ASSUME NEW r \in Rounds, List(r)
                PROVE  job'[w] = job[w] /\ (wpc'[w] = wpc[w] \/ wpc'[w] = "take")
            BY <6>3 DEF List, BeginRound, StatPath, BuildRecord, CountPath, Publish, KeepCounts,
               StartCounting, workerVars
          <6> QED  BY <4>2, <6>1, <6>2, <6>3 DEF Next
        <5>2. ~BankCount(w)
          BY <4>2 DEF Work
        <5> QED  BY <1>5, <5>1, <5>2
      <4> QED  BY <4>1, <4>2
    <3>2. HaveCount(p)' => HaveCount(p) /\ counts'[p] = counts[p]
      <4> SUFFICES ASSUME HaveCount(p)', ~(HaveCount(p) /\ counts'[p] = counts[p]) PROVE FALSE
        OBVIOUS
      <4>1. counts'[p] # counts[p]
        BY DEF HaveCount
      <4>3. PICK v \in Workers : BankCount(v) /\ job[v].path = p
        BY <4>1, WhoBanks
      <4>4. v \in Scanning
        BY <4>3, BankGrows
      <4>5. w \in Scanning
        BY <3>1 DEF Scanning, InScan
      <4>6. v = w
        BY <2>0, <4>3, <4>4, <4>5 DEF QueueTracked, OneScanPerFile
      <4> QED  BY <3>1, <4>3, <4>6
    <3>3. job[w].size <= file[p].size /\ (HaveCount(p) => counts[p].size <= job[w].size)
      BY <2>0, <3>1 DEF SizeInv
    <3>4. p \in Paths /\ job[w].size \in Nat /\ file[p].size \in Nat /\ file'[p].size \in Nat
          /\ file[p].size <= file'[p].size
      BY <1>1, <1>3
    <3> QED  BY <2>0, <3>1, <3>2, <3>3, <3>4 DEF HaveCount
  <2> QED  BY <2>1, <2>2
<1> QED  BY <1>1, <1>4, <1>5 DEF SizeInv

LEMMA SeenStep ==
  ASSUME OneCaller, ~Rewrites, TypeOK, QueueTracked, AppendInv, SizeInv, SeenInv, Next
  PROVE  SeenInv'
<1>1. \A p \in Paths : /\ file[p].mod \in Nat /\ file'[p].mod \in Nat /\ file[p].mod <= file'[p].mod
                       /\ (file'[p].live => file[p].live \/ file[p].mod = 0)
  BY FileMoves
<1>2. \A p \in Paths : Listed(p)' => Listed(p) \/ file'[p].mod > 0
  BY ListedStep
<1>3. \A p \in Paths : HaveCount(p)' => HaveCount(p) \/ p \in counting
  <2> SUFFICES ASSUME NEW p \in Paths, HaveCount(p)', ~HaveCount(p) PROVE p \in counting
    OBVIOUS
  <2>1. counts'[p] # counts[p]
    BY DEF HaveCount
  <2>2. PICK w \in Workers : BankCount(w) /\ job[w].path = p
    BY <2>1, WhoBanks
  <2> QED  BY <2>2, BankGrows
<1>4. ASSUME round' = round, rpc' = rpc, counting' \subseteq counting PROVE SeenInv'
  <2>1. \A p \in Paths : HaveCount(p)' \/ p \in counting' \/ Listed(p)' => file'[p].mod > 0
    BY <1>1, <1>2, <1>3, <1>4 DEF SeenInv
  <2>2. ASSUME NEW r \in Rounds, NEW p \in Paths, rpc[r] # "idle", p \notin round[r].seen, file'[p].live
        PROVE  ~HaveCount(p) /\ p \notin counting
    BY <1>1, <2>2 DEF SeenInv
  <2> QED  BY <1>3, <1>4, <2>1, <2>2 DEF SeenInv
<1>5. CASE \E p \in Paths : Write(p)
  BY <1>4, <1>5 DEF Write, countVars, roundVars
<1>6. ASSUME NEW w \in Workers, Work(w) PROVE SeenInv'
  <2>1. counting' \subseteq counting
    BY <1>6 DEF Work, TakeRequest, LeaveWhenEmpty, StatBefore, ChooseOffset, ScanFile, StatAfter,
       Fingerprint, BankCount, DropScan, countVars
  <2> QED  BY <1>4, <1>6, <2>1, FileStays
<1>7. ASSUME NEW r \in Rounds, List(r) PROVE SeenInv'
  <2> DEFINE b == round[r]
  <2>0. file' = file /\ Rounds = {r} /\ b \in Round /\ round' \in [Rounds -> Round]
    BY <1>7, SeenBy, ListType DEF OneCaller, TypeOK
  <2>1. b.todo \subseteq b.seen /\ (rpc[r] \in {"build", "count"} => b.path \in b.seen)
        /\ b.seen \subseteq Paths
    BY <2>0 DEF SeenInv, Round
  <2>2. ASSUME counting' \subseteq counting \cup b.seen,
               round'[r].todo \subseteq round'[r].seen,
               rpc'[r] \in {"build", "count"} => round'[r].path \in round'[r].seen,
               \/ rpc[r] # "idle" /\ round'[r].seen = b.seen
               \/ round'[r].seen = {p \in Paths : file[p].live}
               \/ rpc'[r] = "idle"
        PROVE  SeenInv'
    <3>1. \A p \in Paths : HaveCount(p)' \/ p \in counting' \/ Listed(p)' => file'[p].mod > 0
      <4>1. \A p \in b.seen : Listed(p)
        BY DEF Listed
      <4> QED  BY <1>1, <1>2, <1>3, <2>0, <2>1, <2>2, <4>1 DEF SeenInv
    <3>2. ASSUME NEW p \in Paths, rpc'[r] # "idle", p \notin round'[r].seen, file'[p].live
          PROVE  ~HaveCount(p)' /\ p \notin counting'
      <4>1. rpc[r] # "idle" /\ p \notin b.seen /\ file[p].live
        BY <2>0, <2>2, <3>2
      <4> QED  BY <1>3, <2>2, <4>1 DEF SeenInv
    <3> QED  BY <2>0, <2>2, <3>1, <3>2 DEF SeenInv
  <2>3. CASE BeginRound(r)
    <3>1. /\ round'[r] = [NoRound EXCEPT !.asked = [p \in Paths |-> file[p].mod],
                                         !.seen = {p \in Paths : file[p].live},
                                         !.todo = {p \in Paths : file[p].live}, !.known = entries]
          /\ rpc'[r] = "stat" /\ counting' = counting
      BY <2>3 DEF BeginRound, RoundGoto, TypeOK, countVars
    <3>2. round'[r].seen = {p \in Paths : file[p].live} /\ round'[r].todo = round'[r].seen
      BY <3>1, NoRoundType DEF Round
    <3> QED  BY <2>2, <3>1, <3>2
  <2>4. ASSUME NEW p \in Paths, StatPath(r, p) PROVE SeenInv'
    <3>1. /\ rpc[r] = "stat" /\ p \in b.todo /\ counting' = counting
          /\ \/ round'[r] = [b EXCEPT !.todo = @ \ {p}] /\ rpc'[r] = "stat"
             \/ \E rec : round'[r] = [b EXCEPT !.todo = @ \ {p}, !.path = p, !.rec = rec]
      BY <2>4 DEF StatPath, RoundGoto, TypeOK, countVars
    <3>2. /\ round'[r].seen = b.seen /\ round'[r].todo \subseteq b.todo
          /\ round'[r].path = p \/ rpc'[r] = "stat"
      <4>1. CASE round'[r] = [b EXCEPT !.todo = @ \ {p}] /\ rpc'[r] = "stat"
        BY <2>0, <4>1 DEF Round
      <4>2. ASSUME NEW rec, round'[r] = [b EXCEPT !.todo = @ \ {p}, !.path = p, !.rec = rec]
            PROVE  round'[r].seen = b.seen /\ round'[r].todo \subseteq b.todo /\ round'[r].path = p
        BY <2>0, <4>2 DEF Round
      <4> QED  BY <3>1, <4>1, <4>2
    <3>3. p \in b.seen /\ round'[r].todo \subseteq round'[r].seen
      BY <2>1, <3>1, <3>2
    <3> QED  BY <2>2, <3>1, <3>2, <3>3
  <2>5. CASE BuildRecord(r)
    <3>1. /\ rpc[r] = "build" /\ counting' = counting
          /\ \E rec : round'[r] = [b EXCEPT !.rec = rec]
      BY <2>5 DEF BuildRecord, TypeOK, countVars
    <3>2. round'[r].seen = b.seen /\ round'[r].todo = b.todo /\ round'[r].path = b.path
      BY <2>0, <3>1 DEF Round
    <3> QED  BY <2>1, <2>2, <3>1, <3>2
  <2>6. CASE CountPath(r)
    <3>1. /\ rpc[r] = "count" /\ rpc'[r] = "stat"
          /\ \E fresh : round'[r] = [b EXCEPT !.fresh = fresh, !.rec = NoEntry, !.path = AnyPath]
          /\ counting' \subseteq counting \cup {b.path}
      BY <2>6 DEF CountPath, QueueCount, RoundGoto, TypeOK
    <3>2. round'[r].seen = b.seen /\ round'[r].todo = b.todo
      BY <2>0, <3>1 DEF Round
    <3> QED  BY <2>1, <2>2, <3>1, <3>2
  <2>7. CASE Publish(r) \/ KeepCounts(r)
    <3>1. rpc[r] # "idle" /\ rpc'[r] \in {"keep", "start"} /\ round' = round /\ counting' = counting
      BY <2>7 DEF Publish, KeepCounts, RoundGoto, TypeOK, countVars
    <3> QED  BY <2>1, <2>2, <3>1
  <2>8. CASE StartCounting(r)
    <3>1. round'[r] = NoRound /\ rpc'[r] = "idle" /\ counting' = counting
      BY <2>8 DEF StartCounting, RoundGoto, TypeOK
    <3>2. NoRound.todo = {}
      BY DEF NoRound
    <3> QED  BY <2>2, <3>1, <3>2
  <2> QED  BY <1>7, <2>3, <2>4, <2>5, <2>6, <2>7, <2>8 DEF List
<1> QED  BY <1>5, <1>6, <1>7 DEF Next

\* The numbers of a caller, and those of the list, after a step
LEMMA ShownStep ==
  ASSUME OneCaller, ~Rewrites, TypeOK, TypeOK', QueueTracked, AppendInv, SizeInv, SeenInv, ShownInv,
         Next
  PROVE  ShownInv' /\ \A p \in Paths :
           shown[p] # Uncounted /\ shown'[p] # Uncounted => shown[p] <= shown'[p]
<1> DEFINE Count == Nat \cup {Uncounted}
<1>1. \A p \in Paths, n \in Count : Covered(p, n) => CoveredNext(p, n)
  BY CoveredStep
<1>2. /\ \A p \in Paths : shown[p] \in Count /\ entries[p].n \in Count
      /\ \A r \in Rounds : /\ round[r] \in Round /\ round[r].rec.n \in Count /\ round[r].path \in Paths
                           /\ \A p \in Paths : round[r].known[p].n \in Count /\ round[r].fresh[p].n \in Count
  <2>1. shown \in [Paths -> Count] /\ entries \in [Paths -> ListEntry] /\ round \in [Rounds -> Round]
    BY DEF TypeOK
  <2>2. \A e \in ListEntry : e.n \in Count
    BY DEF ListEntry
  <2>3. \A r \in Rounds : /\ round[r] \in Round /\ round[r].rec \in ListEntry /\ round[r].path \in Paths
                          /\ round[r].known \in [Paths -> ListEntry]
                          /\ round[r].fresh \in [Paths -> ListEntry]
    BY <2>1 DEF Round
  <2> QED  BY <2>1, <2>2, <2>3
<1>3. ASSUME UNCHANGED roundVars
      PROVE  ShownInv' /\ \A p \in Paths :
               shown[p] # Uncounted /\ shown'[p] # Uncounted => shown[p] <= shown'[p]
  <2>1. entries' = entries /\ rpc' = rpc /\ round' = round /\ shown' = shown
    BY <1>3 DEF roundVars
  <2> QED  BY <1>1, <1>2, <2>1 DEF ShownInv, Covered, CoveredNext
<1>4. ASSUME NEW r \in Rounds, List(r)
      PROVE  ShownInv' /\ \A p \in Paths :
               shown[p] # Uncounted /\ shown'[p] # Uncounted => shown[p] <= shown'[p]
  <2> DEFINE b == round[r]
  <2>0. /\ file' = file /\ Rounds = {r} /\ b \in Round
        /\ \A p \in Paths : /\ CoveredNext(p, shown[p]) /\ CoveredNext(p, entries[p].n)
                            /\ CoveredNext(p, b.known[p].n) /\ CoveredNext(p, b.fresh[p].n)
        /\ CoveredNext(AnyPath, Uncounted) /\ \A p \in Paths : CoveredNext(p, Uncounted)
    BY <1>1, <1>2, <1>4, SeenBy DEF OneCaller, ShownInv, CoveredNext
  <2>1. /\ rpc[r] = "build" => b.rec.n = Uncounted
        /\ \A p \in Paths : shown[p] # Uncounted /\ b.fresh[p].n # Uncounted => shown[p] <= b.fresh[p].n
    BY DEF ShownInv
  <2>2. ASSUME \A p \in Paths :
                 /\ CoveredNext(p, shown'[p]) /\ CoveredNext(p, entries'[p].n)
                 /\ CoveredNext(p, round'[r].known[p].n) /\ CoveredNext(p, round'[r].fresh[p].n)
                 /\ shown'[p] # Uncounted /\ round'[r].fresh[p].n # Uncounted
                      => shown'[p] <= round'[r].fresh[p].n,
               rpc'[r] = "count" =>
                 \A p \in Paths : p = round'[r].path => CoveredNext(p, round'[r].rec.n),
               rpc'[r] = "build" => round'[r].rec.n = Uncounted
        PROVE  ShownInv'
    <3>1. \A p \in Paths : Covered(p, shown[p])' /\ Covered(p, entries[p].n)'
      BY <2>2 DEF Covered, CoveredNext
    <3>2. \A p \in Paths : Covered(p, round[r].known[p].n)' /\ Covered(p, round[r].fresh[p].n)'
      BY <2>2 DEF Covered, CoveredNext
    <3>3. (rpc[r] = "count" => Covered(round[r].path, round[r].rec.n))'
      <4>1. PICK q \in Paths : q = round'[r].path
        BY <2>0 DEF TypeOK, Round
      <4>2. rpc'[r] = "count" => CoveredNext(q, round'[r].rec.n)
        BY <2>2, <4>1
      <4> QED  BY <4>1, <4>2 DEF Covered, CoveredNext, Listed, HaveCount
    <3>4. (rpc[r] = "build" => round[r].rec.n = Uncounted)'
      BY <2>2
    <3>5. \A p \in Paths : (shown[p] # Uncounted /\ round[r].fresh[p].n # Uncounted
                             => shown[p] <= round[r].fresh[p].n)'
      BY <2>2
    <3> HIDE <2>2
    <3> QED  BY <2>0, <3>1, <3>2, <3>3, <3>4, <3>5 DEF ShownInv
  <2>3. ~StartCounting(r) => shown' = shown
    BY <1>4 DEF List, BeginRound, StatPath, BuildRecord, CountPath, Publish, KeepCounts
  <2>4. \A p \in Paths : shown[p] # Uncounted => shown[p] \in Nat
    BY <1>2
  <2>5. CASE BeginRound(r)
    <3>1. /\ round'[r] = [NoRound EXCEPT !.asked = [p \in Paths |-> file[p].mod],
                                         !.seen = {p \in Paths : file[p].live},
                                         !.todo = {p \in Paths : file[p].live}, !.known = entries]
          /\ rpc'[r] = "stat" /\ entries' = entries /\ shown' = shown
      BY <2>5 DEF BeginRound, RoundGoto, TypeOK
    <3>2. round'[r].known = entries /\ \A p \in Paths : round'[r].fresh[p].n = Uncounted
      BY <3>1, NoRoundType DEF Round, NoRound, NoEntry
    <3> QED  BY <2>0, <2>2, <2>4, <3>1, <3>2
  <2>6. ASSUME NEW p \in Paths, StatPath(r, p)
        PROVE  ShownInv'
    <3>1. /\ rpc[r] = "stat" /\ entries' = entries /\ shown' = shown
          /\ \/ round'[r] = [b EXCEPT !.todo = @ \ {p}] /\ rpc'[r] = "stat"
             \/ /\ round'[r] = [b EXCEPT !.todo = @ \ {p}, !.path = p, !.rec = b.known[p]]
                /\ rpc'[r] = "count"
             \/ /\ round'[r] = [b EXCEPT !.todo = @ \ {p}, !.path = p,
                                          !.rec = [NoEntry EXCEPT !.mod = file[p].mod, !.size = file[p].size]]
                /\ rpc'[r] = "build"
      BY <2>6 DEF StatPath, RoundGoto, TypeOK
    <3>2. /\ round'[r].known = b.known /\ round'[r].fresh = b.fresh
          /\ rpc'[r] = "count" => round'[r].path = p /\ round'[r].rec = b.known[p]
          /\ rpc'[r] = "build" => round'[r].rec.n = Uncounted
      BY <2>0, <3>1 DEF Round, NoEntry
    <3> QED  BY <2>0, <2>1, <2>2, <3>1, <3>2
  <2>7. CASE BuildRecord(r)
    <3>1. /\ rpc[r] = "build" /\ rpc'[r] = "count" /\ entries' = entries /\ shown' = shown
          /\ \E built : round'[r] = [b EXCEPT !.rec = [b.rec EXCEPT !.built = built]]
      BY <2>7 DEF BuildRecord, RoundGoto, TypeOK
    <3>2. /\ round'[r].known = b.known /\ round'[r].fresh = b.fresh /\ round'[r].path = b.path
          /\ round'[r].rec.n = b.rec.n
      BY <2>0, <3>1 DEF Round, ListEntry
    <3> QED  BY <1>2, <2>0, <2>1, <2>2, <3>1, <3>2
  <2>8. CASE CountPath(r)
    <3>0. PICK q \in Paths : q = b.path
      BY <1>2
    <3> DEFINE n == CountToShow(q, b.rec)
    <3>1. /\ round'[r] = [b EXCEPT !.fresh = [b.fresh EXCEPT ![q] = [b.rec EXCEPT !.n = n]],
                                   !.rec = NoEntry, !.path = AnyPath]
          /\ rpc[r] = "count" /\ rpc'[r] = "stat" /\ entries' = entries /\ shown' = shown
          /\ counts' = counts
      BY <2>8, <3>0 DEF CountPath, RoundGoto, TypeOK
    <3>2. b.fresh \in [Paths -> ListEntry] /\ b.rec \in ListEntry
      BY <2>0 DEF Round
    <3>3. /\ round'[r].known = b.known
          /\ \A p \in Paths : round'[r].fresh[p].n = IF p = q THEN n ELSE b.fresh[p].n
      <4>1. round'[r].known = b.known /\ round'[r].fresh = [b.fresh EXCEPT ![q] = [b.rec EXCEPT !.n = n]]
        BY <2>0, <3>1 DEF Round
      <4>2. [b.rec EXCEPT !.n = n].n = n
        BY <3>2 DEF ListEntry
      <4> HIDE DEF n
      <4> QED  BY <3>2, <4>1, <4>2
    <3>4. Listed(q) /\ file[q].mod > 0 /\ Covered(q, b.rec.n) /\ Covered(q, shown[q])
      BY <3>0, <3>1 DEF SeenInv, Listed, ShownInv
    <3>5. CASE HaveCount(q)
      <4>1. n = counts[q].n /\ counts[q].n \in Nat
        BY <3>5 DEF CountToShow, TypeOK, CountEntry
      <4>2. CoveredNext(q, n)
        BY <2>0, <3>1, <3>4, <3>5, <4>1 DEF CoveredNext, HaveCount
      <4>3. shown[q] # Uncounted => shown[q] <= n
        BY <3>4, <4>1 DEF Covered
      <4> HIDE DEF n
      <4>8. \A p \in Paths :
              /\ CoveredNext(p, round'[r].known[p].n) /\ CoveredNext(p, round'[r].fresh[p].n)
              /\ shown[p] # Uncounted /\ round'[r].fresh[p].n # Uncounted
                   => shown[p] <= round'[r].fresh[p].n
        BY <2>0, <2>1, <3>3, <4>2, <4>3
      <4>9. /\ \A p \in Paths : CoveredNext(p, shown'[p]) /\ CoveredNext(p, entries'[p].n)
            /\ rpc'[r] \notin {"count", "build"} /\ shown' = shown
        BY <2>0, <3>1
      <4> QED  BY <2>2, <2>4, <4>8, <4>9
    <3>6. CASE ~HaveCount(q)
      <4>1. n = Uncounted
        BY <3>4, <3>6 DEF CountToShow, Covered
      <4> HIDE DEF n
      <4>8. \A p \in Paths :
              /\ CoveredNext(p, round'[r].known[p].n) /\ CoveredNext(p, round'[r].fresh[p].n)
              /\ shown[p] # Uncounted /\ round'[r].fresh[p].n # Uncounted
                   => shown[p] <= round'[r].fresh[p].n
        BY <2>0, <2>1, <3>3, <4>1
      <4>9. /\ \A p \in Paths : CoveredNext(p, shown'[p]) /\ CoveredNext(p, entries'[p].n)
            /\ rpc'[r] \notin {"count", "build"} /\ shown' = shown
        BY <2>0, <3>1
      <4> QED  BY <2>2, <2>4, <4>8, <4>9
    <3> QED  BY <3>5, <3>6
  <2>9. CASE Publish(r)
    <3>1. entries' = b.fresh /\ round' = round /\ rpc'[r] = "keep" /\ shown' = shown
      BY <2>9 DEF Publish, RoundGoto, TypeOK
    <3>2. \A p \in Paths :
            /\ CoveredNext(p, shown'[p]) /\ CoveredNext(p, entries'[p].n)
            /\ CoveredNext(p, round'[r].known[p].n) /\ CoveredNext(p, round'[r].fresh[p].n)
            /\ shown'[p] # Uncounted /\ round'[r].fresh[p].n # Uncounted
                 => shown'[p] <= round'[r].fresh[p].n
      BY <2>0, <2>1, <3>1
    <3>3. rpc'[r] \notin {"count", "build"}
      BY <3>1
    <3> QED  BY <2>2, <2>4, <3>1, <3>2, <3>3
  <2>10. CASE KeepCounts(r)
    <3>1. entries' = entries /\ round' = round /\ rpc'[r] = "start" /\ shown' = shown
      BY <2>10 DEF KeepCounts, RoundGoto, TypeOK
    <3>2. \A p \in Paths :
            /\ CoveredNext(p, shown'[p]) /\ CoveredNext(p, entries'[p].n)
            /\ CoveredNext(p, round'[r].known[p].n) /\ CoveredNext(p, round'[r].fresh[p].n)
            /\ shown'[p] # Uncounted /\ round'[r].fresh[p].n # Uncounted
                 => shown'[p] <= round'[r].fresh[p].n
      BY <2>0, <2>1, <3>1
    <3>3. rpc'[r] \notin {"count", "build"}
      BY <3>1
    <3> QED  BY <2>2, <2>4, <3>1, <3>2, <3>3
  <2>11. CASE StartCounting(r)
    <3>1. /\ entries' = entries /\ round'[r] = NoRound /\ rpc'[r] = "idle"
          /\ \A p \in Paths : shown'[p] = b.fresh[p].n
      BY <2>11 DEF StartCounting, RoundGoto, TypeOK
    <3>2. \A p \in Paths : NoRound.known[p].n = Uncounted /\ NoRound.fresh[p].n = Uncounted
      BY DEF NoRound, NoEntry
    <3> QED  BY <2>0, <2>1, <2>2, <3>1, <3>2
  <2> QED
    BY <1>4, <2>3, <2>4, <2>5, <2>6, <2>7, <2>8, <2>9, <2>10, <2>11 DEF List
<1>5. CASE \E p \in Paths : Write(p)
  BY <1>3, <1>5 DEF Write
<1>6. ASSUME NEW w \in Workers, Work(w) PROVE UNCHANGED roundVars
  BY <1>6, FileStays DEF roundVars
<1> QED  BY <1>3, <1>4, <1>5, <1>6 DEF Next

\* With one caller, and writers that only append, a session's count never goes
\* backwards from one answer of the list to the next, however many workers count
\* it, and whatever scans are dropped and counts of deleted files forgotten.
THEOREM ShownNeverShrinks ==
  ASSUME OneCaller
  PROVE  Spec => CountNeverShrinks
<1>1. CASE Rewrites
  BY <1>1, PTL DEF CountNeverShrinks
<1>2. CASE ~Rewrites
  <2> DEFINE Inv == AppendInv /\ SizeInv /\ SeenInv /\ ShownInv
  <2>1. Init => Inv
    BY InitAppend, InitGrow
  <2>2. TypeOK /\ TypeOK' /\ QueueTracked /\ Inv /\ [Next]_vars
          => /\ Inv'
             /\ [\A p \in Paths :
                   shown[p] # Uncounted /\ shown'[p] # Uncounted => shown[p] <= shown'[p]]_vars
    <3> SUFFICES ASSUME TypeOK, TypeOK', QueueTracked, Inv, [Next]_vars
                 PROVE  /\ Inv'
                        /\ [\A p \in Paths :
                              shown[p] # Uncounted /\ shown'[p] # Uncounted => shown[p] <= shown'[p]]_vars
      OBVIOUS
    <3>1. CASE UNCHANGED vars
      <4>1. AppendInv' /\ SizeInv'
        BY <3>1 DEF vars, diskVars, countVars, workerVars, AppendInv, OneGeneration,
           CountsExact, ScanKnows, HaveCount, SizeInv
      <4>2. SeenInv' /\ ShownInv'
        BY <3>1 DEF vars, diskVars, countVars, roundVars, SeenInv, ShownInv, Listed, Covered, HaveCount
      <4> QED  BY <3>1, <4>1, <4>2
    <3>2. CASE Next
      <4>1. AppendInv'
        BY <1>2, <3>2, WriteAppend, WorkAppend, ListAppend DEF Next
      <4> QED  BY <1>2, <3>2, <4>1, SizeStep, SeenStep, ShownStep
    <3> QED  BY <3>1, <3>2
  <2>3. TypeOK /\ (\A p \in Paths : shown[p] # Uncounted /\ shown'[p] # Uncounted => shown[p] <= shown'[p])
          => \A p \in Paths : shown[p] # Uncounted /\ shown'[p] # Uncounted => shown'[p] >= shown[p]
    OBVIOUS
  <2> QED
    BY <2>1, <2>2, <2>3, TypeCorrect, QueueSafe, PTL DEF Spec, CountNeverShrinks, QueueOK
<1> QED  BY <1>1, <1>2
=============================================================================
