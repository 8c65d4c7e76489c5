--------------------------- MODULE OtelExportProofs ---------------------------
(***************************************************************************)
(* The cursor of the OTLP exporter, for any sessions, sizes of pages and   *)
(* posts, and any failures and restarts.                                   *)
(* Sending is known by positions: of the rounds to send, every span is     *)
(* still pending or with the collector.  A round that is not sent is one   *)
(* the cursor remembers, and of those the collector has every span; so     *)
(* what is marked is with the collector whole.  That it is the whole       *)
(* session needs the version: while the one listed is the present one, no  *)
(* row was written, and the pages join up.                                 *)
(***************************************************************************)
EXTENDS OtelExport, FiniteSetTheorems, TLAPS

Marks == [updated : Nat, rounds : [RoundNumbers -> Seq(Nat)]]
OtelPlaces == {"between", "record", "page", "build", "send"}
Reading == pc \in {"page", "build", "send"}

OtelTypes ==
  /\ rows \in [Sessions -> 0..MaxRows] /\ starts \in [Sessions -> SUBSET Nat]
  /\ updated \in [Sessions -> Nat] /\ listed \in [Sessions -> Nat]
  /\ collector \in [Sessions -> SUBSET (Nat \X Nat)]
  /\ cursor \in [Sessions -> Marks] /\ disk \in [Sessions -> Marks]
  /\ cur \in Sessions /\ list \in Seq(Nat) /\ pending \subseteq Nat
  /\ pc \in OtelPlaces

\* What was written before it was read or marked
Behind ==
  /\ \A s \in Sessions : starts[s] \subseteq 1..rows[s]
  /\ \A s \in Sessions : listed[s] <= updated[s]
  /\ \A s \in Sessions : cursor[s].updated <= updated[s] /\ disk[s].updated <= updated[s]
  /\ Len(list) <= rows[cur] /\ \A i \in 1..Len(list) : list[i] \in 1..rows[cur]

\* Of the rounds to send, what is not pending was sent.
SentSoFar ==
  pc = "send" =>
    /\ pending \subseteq 1..Len(list)
    /\ \A p \in RoundsToSend(cur, list) : p \in pending \/ Span(cur, list, p) \in collector[cur]

\* While the version listed is the present one, what was read is the session's end.
PagesJoin ==
  Reading /\ listed[cur] = updated[cur] =>
    /\ \A i \in 1..Len(list) : list[i] = rows[cur] - Len(list) + i
    /\ pc # "page" => Len(list) = rows[cur]

OtelInv == OtelTypes /\ Behind /\ SentSoFar /\ RememberedIsSent

-----------------------------------------------------------------------------
(* Rounds and fingerprints *)

LEMMA DownSet ==
  ASSUME NEW n \in Nat, NEW D \in SUBSET (1..n),
         \A p \in D, q \in 1..n : q <= p => q \in D
  PROVE  D = 1..Cardinality(D) /\ Cardinality(D) \in 0..n
<1>1. IsFiniteSet(1..n) /\ Cardinality(1..n) = n
  BY FS_Interval
<1>2. IsFiniteSet(D) /\ Cardinality(D) <= n /\ Cardinality(D) \in Nat
  BY <1>1, FS_Subset, FS_CardinalityType
<1>3. ASSUME NEW x \in D PROVE x <= Cardinality(D)
  <2>1. 1..x \in SUBSET D
    OBVIOUS
  <2>2. Cardinality(1..x) = x
    BY FS_Interval
  <2>3. Cardinality(1..x) <= Cardinality(D)
    BY <1>2, <2>1, FS_Subset
  <2>4. x \in Nat /\ Cardinality(1..x) = x
    BY <2>2
  <2> QED
    BY <1>2, <2>3, <2>4
<1>4. PICK c \in 0..n : c = Cardinality(D)
  BY <1>2
<1>5. D \in SUBSET (1..c)
  BY <1>3, <1>4
<1>6. IsFiniteSet(1..c) /\ Cardinality(1..c) = c
  BY FS_Interval
<1>7. D = 1..c
  BY <1>4, <1>5, <1>6, FS_Subset, Zenon
<1> QED
  BY <1>4, <1>7

LEMMA RoundRises ==
  ASSUME NEW s, NEW read \in Seq(Nat), NEW p \in 1..Len(read)
  PROVE  /\ RoundAt(s, read, p) \in 0..p
         /\ \A q \in 1..Len(read) : q <= p => RoundAt(s, read, q) <= RoundAt(s, read, p)
<1> DEFINE B(q) == {r \in 1..q : read[r] \in starts[s]}
<1>1. ASSUME NEW q \in 1..Len(read)
      PROVE IsFiniteSet(B(q)) /\ Cardinality(B(q)) \in 0..q
  <2>1. IsFiniteSet(1..q) /\ Cardinality(1..q) = q
    BY FS_Interval
  <2>2. B(q) \in SUBSET (1..q)
    OBVIOUS
  <2>3. IsFiniteSet(B(q)) /\ Cardinality(B(q)) <= q
    BY <2>1, <2>2, FS_Subset
  <2> QED
    BY <2>3, FS_CardinalityType
<1>2. ASSUME NEW q \in 1..Len(read), q <= p
      PROVE Cardinality(B(q)) <= Cardinality(B(p))
  <2>1. B(q) \in SUBSET B(p)
    BY <1>2
  <2> QED
    BY <1>1, <2>1, FS_Subset
<1> QED
  BY <1>1, <1>2 DEF RoundAt

\* In a rising numbering the places of one number are an interval.
LEMMA Bands ==
  ASSUME NEW n \in Nat, NEW R \in [1..n -> Nat], NEW k \in Nat,
         \A p, q \in 1..n : q <= p => R[q] <= R[p]
  PROVE  \E l, e \in Nat :
           /\ Cardinality({p \in 1..n : R[p] < k}) = l
           /\ Cardinality({p \in 1..n : R[p] = k}) = e
           /\ {p \in 1..n : R[p] = k} = (l + 1)..(l + e)
           /\ l + e <= n
<1> DEFINE L == {p \in 1..n : R[p] < k}
           E == {p \in 1..n : R[p] = k}
           U == L \cup E
<1>1. L = 1..Cardinality(L) /\ Cardinality(L) \in 0..n
  <2>1. \A p \in L, q \in 1..n : q <= p => q \in L
    OBVIOUS
  <2>2. L \in SUBSET (1..n)
    OBVIOUS
  <2> HIDE DEF L
  <2> QED
    BY <2>1, <2>2, DownSet
<1>2. U = 1..Cardinality(U) /\ Cardinality(U) \in 0..n
  <2>1. \A p \in U, q \in 1..n : q <= p => q \in U
    OBVIOUS
  <2>2. U \in SUBSET (1..n)
    OBVIOUS
  <2> HIDE DEF U
  <2> QED
    BY <2>1, <2>2, DownSet
<1>3. L \cap E = {}
  OBVIOUS
<1>4. IsFiniteSet(L) /\ IsFiniteSet(E)
  <2>1. IsFiniteSet(1..n)
    BY FS_Interval
  <2> QED
    BY <2>1, FS_Subset
<1> HIDE DEF L, E
<1>5. Cardinality(U) = Cardinality(L) + Cardinality(E) /\ Cardinality(E) \in Nat
  <2>1. Cardinality(L \cap E) = 0
    BY <1>3, FS_EmptySet
  <2>2. Cardinality(L \cup E) = Cardinality(L) + Cardinality(E) - Cardinality(L \cap E)
    BY <1>4, FS_Union
  <2> QED
    BY <1>4, <2>1, <2>2, FS_CardinalityType
<1>6. PICK l \in Nat : l = Cardinality(L)
  BY <1>1
<1>7. PICK e \in Nat : e = Cardinality(E)
  BY <1>5
<1>8. L = 1..l /\ L \cup E = 1..(l + e) /\ l + e <= n
  <2>1. Cardinality(U) = l + e
    BY <1>5, <1>6, <1>7
  <2>2. L = 1..l
    BY <1>1, <1>6, Zenon
  <2>3. U = 1..(l + e)
    BY <1>2, <2>1, Zenon
  <2>4. l + e \in 0..n
    BY <1>2, <2>1, Zenon
  <2> QED
    BY <2>2, <2>3, <2>4
<1>9. E = (l + 1)..(l + e)
  <2>1. \A x : x \in E <=> x \in 1..(l + e) /\ x \notin 1..l
    BY <1>3, <1>8, Zenon
  <2>2. \A x : x \in (l + 1)..(l + e) <=> x \in 1..(l + e) /\ x \notin 1..l
    OBVIOUS
  <2> QED
    BY <2>1, <2>2, Zenon
<1> QED
  BY <1>6, <1>7, <1>8, <1>9 DEF L, E

InRound(s, read, k, row) == \E p \in 1..Len(read) : RoundAt(s, read, p) = k /\ read[p] = row
Names(fingerprint, row) == \E i \in DOMAIN fingerprint : fingerprint[i] = row

\* A fingerprint names the rows of its round, and no other.
LEMMA FingerprintRows ==
  ASSUME NEW s, NEW read \in Seq(Nat), NEW k \in Nat
  PROVE  /\ Fingerprint(s, read, k) \in Seq(Nat)
         /\ \A i \in DOMAIN Fingerprint(s, read, k) : InRound(s, read, k, Fingerprint(s, read, k)[i])
         /\ \A p \in 1..Len(read) :
              RoundAt(s, read, p) = k => Names(Fingerprint(s, read, k), read[p])
<1>1. PICK n \in Nat : n = Len(read)
  OBVIOUS
<1>2. PICK R \in [1..n -> Nat] : \A p \in 1..n : R[p] = RoundAt(s, read, p)
  <2>1. [p \in 1..n |-> RoundAt(s, read, p)] \in [1..n -> Nat]
    BY <1>1, RoundRises
  <2> QED
    BY <2>1
<1>3. \A p, q \in 1..n : q <= p => R[q] <= R[p]
  BY <1>1, <1>2, RoundRises
<1>4. PICK l, e \in Nat :
        /\ Cardinality({p \in 1..n : R[p] < k}) = l
        /\ Cardinality({p \in 1..n : R[p] = k}) = e
        /\ {p \in 1..n : R[p] = k} = (l + 1)..(l + e)
        /\ l + e <= n
  BY <1>3, Bands
<1>5. /\ {p \in 1..n : R[p] < k} = {p \in 1..Len(read) : RoundAt(s, read, p) < k}
      /\ {p \in 1..n : R[p] = k} = {p \in 1..Len(read) : RoundAt(s, read, p) = k}
  BY <1>1, <1>2
<1>6. Fingerprint(s, read, k) = [i \in 1..e |-> read[l + i]]
  BY <1>4, <1>5 DEF Fingerprint
<1>6r. \A p : p \in 1..n /\ R[p] = k <=> p \in (l + 1)..(l + e)
  BY <1>4, Zenon
<1>7. ASSUME NEW i \in 1..e PROVE l + i \in 1..n /\ R[l + i] = k
  <2>1. l + i \in (l + 1)..(l + e)
    OBVIOUS
  <2> QED
    BY <1>6r, <2>1, Zenon
<1>8. \A p \in 1..n : R[p] = k => p - l \in 1..e /\ l + (p - l) = p
  BY <1>6r
<1>9. Fingerprint(s, read, k) \in Seq(Nat) /\ DOMAIN Fingerprint(s, read, k) = 1..e
  BY <1>1, <1>6, <1>7
<1>10. ASSUME NEW i \in 1..e
       PROVE  InRound(s, read, k, Fingerprint(s, read, k)[i])
  <2>1. Fingerprint(s, read, k)[i] = read[l + i]
    BY <1>6
  <2> QED
    BY <1>1, <1>2, <1>7, <2>1 DEF InRound
<1>11. ASSUME NEW p \in 1..Len(read), RoundAt(s, read, p) = k
       PROVE  Names(Fingerprint(s, read, k), read[p])
  <2>1. p - l \in 1..e /\ l + (p - l) = p
    BY <1>1, <1>2, <1>8, <1>11
  <2>2. Fingerprint(s, read, k)[p - l] = read[p]
    BY <1>6, <2>1
  <2> QED
    BY <1>9, <2>1, <2>2 DEF Names
<1> QED
  BY <1>9, <1>10, <1>11

-----------------------------------------------------------------------------
(* What a step leaves alone *)

\* Rows that were written after they were read begin no round among them.
LEMMA SameReading ==
  ASSUME OtelTypes, list' = list, cur' = cur, cursor'[cur] = cursor[cur],
         \A i \in 1..Len(list) : list[i] \in starts'[cur] <=> list[i] \in starts[cur]
  PROVE  /\ RoundsToSend(cur, list)' = RoundsToSend(cur, list)
         /\ \A p \in 1..Len(list) : Span(cur, list, p)' = Span(cur, list, p)
<1>1. list \in Seq(Nat) /\ Len(list) \in Nat
  BY DEF OtelTypes
<1>2. \A p \in 1..Len(list) : RoundAt(cur, list, p)' = RoundAt(cur, list, p)
  <2>1. ASSUME NEW p \in 1..Len(list)
        PROVE  {q \in 1..p : list[q] \in starts'[cur]} = {q \in 1..p : list[q] \in starts[cur]}
    BY <1>1
  <2> QED
    BY <2>1 DEF RoundAt
<1>3. ASSUME NEW k \in Nat PROVE Fingerprint(cur, list, k)' = Fingerprint(cur, list, k)
  <2>1. {p \in 1..Len(list) : RoundAt(cur, list, p) < k}' = {p \in 1..Len(list) : RoundAt(cur, list, p) < k}
    BY <1>2
  <2>2. {p \in 1..Len(list) : RoundAt(cur, list, p) = k}' = {p \in 1..Len(list) : RoundAt(cur, list, p) = k}
    BY <1>2
  <2> QED
    BY <2>1, <2>2 DEF Fingerprint
<1>4. Changed(cur, list)' = Changed(cur, list)
  BY <1>3, OtelAssumption DEF Changed, RoundNumbers
<1>5. Built(cur, list)' = Built(cur, list)
  BY <1>2 DEF Built
<1>6. RoundsToSend(cur, list)' = RoundsToSend(cur, list)
  BY <1>2, <1>4, <1>5 DEF RoundsToSend, Built
<1>7. \A p \in 1..Len(list) : Span(cur, list, p)' = Span(cur, list, p)
  BY <1>2 DEF Span
<1> QED
  BY <1>6, <1>7

LEMMA SameSession ==
  ASSUME NEW t \in Sessions, OtelTypes, rows'[t] = rows[t], starts'[t] = starts[t]
  PROVE  TrueSpans(t)' = TrueSpans(t)
<1>1. WholeSession(t)' = WholeSession(t)
  BY DEF WholeSession
<1> QED
  BY <1>1 DEF TrueSpans, Built, Span, RoundAt

LEMMA SpanType ==
  ASSUME OtelTypes, NEW p \in 1..Len(list) PROVE Span(cur, list, p) \in Nat \X Nat
BY RoundRises DEF Span, OtelTypes

LEMMA OtelInitInv == Init => OtelInv /\ PagesJoin /\ KnownIsWhole
<1> SUFFICES ASSUME Init PROVE OtelInv /\ PagesJoin /\ KnownIsWhole
  OBVIOUS
<1> USE OtelAssumption
<1>1. Unknown \in Marks /\ Unknown.updated = 0 /\ \A k \in RoundNumbers : Unknown.rounds[k] = <<>>
  BY DEF Unknown, Marks
<1>2. OtelTypes
  BY <1>1 DEF Init, OtelTypes, OtelPlaces
<1>3. Behind
  BY <1>1 DEF Init, Behind
<1>4. SentSoFar /\ PagesJoin
  BY DEF Init, SentSoFar, PagesJoin, Reading
<1>5. RememberedIsSent
  BY <1>1 DEF Init, RememberedIsSent
<1>6. KnownIsWhole
  BY DEF Init, KnownIsWhole
<1> QED
  BY <1>2, <1>3, <1>4, <1>5, <1>6 DEF OtelInv

-----------------------------------------------------------------------------
(* Types *)

\* The bound on the rows of all the sessions bounds those of each.
LEMMA RoomForRow ==
  ASSUME OtelTypes, NEW s \in Sessions,
         Cardinality({e \in Sessions \X (1..MaxRows) : e[2] <= rows[e[1]]}) < MaxRows
  PROVE  rows[s] + 1 \in 0..MaxRows
<1> USE OtelAssumption
<1> DEFINE W == {e \in Sessions \X (1..MaxRows) : e[2] <= rows[e[1]]}
           Own == {s} \X (1..MaxRows)
<1>1. SUFFICES ASSUME rows[s] = MaxRows PROVE FALSE
  BY DEF OtelTypes
<1>2. Own \in SUBSET W
  BY <1>1
<1>3. IsFiniteSet(1..MaxRows) /\ Cardinality(1..MaxRows) = MaxRows
  BY FS_Interval
<1>4. IsFiniteSet(Sessions \X (1..MaxRows))
  BY <1>3, FS_Product, Zenon
<1>5. IsFiniteSet(W)
  BY <1>4, FS_Subset
<1>6. IsFiniteSet({s}) /\ Cardinality({s}) = 1
  BY FS_Singleton
<1>7. Cardinality(Own) = 1 * MaxRows
  <2>1. Cardinality(Own) = Cardinality({s}) * Cardinality(1..MaxRows)
    BY <1>3, <1>6, FS_Product, Zenon
  <2> QED
    BY <2>1, <1>3, <1>6
<1>8. Cardinality(Own) <= Cardinality(W)
  BY <1>2, <1>5, FS_Subset, Zenon
<1>9. Cardinality(W) \in Nat
  BY <1>5, FS_CardinalityType
<1> QED
  BY <1>7, <1>8, <1>9

LEMMA MarkTypes ==
  ASSUME OtelTypes, Mark(cur, list) PROVE cursor' \in [Sessions -> Marks]
<1>1. ASSUME NEW k \in RoundNumbers PROVE Fingerprint(cur, list, k) \in Seq(Nat)
  <2>1. k \in Nat /\ list \in Seq(Nat)
    BY OtelAssumption DEF OtelTypes, RoundNumbers
  <2> QED
    BY <2>1, FingerprintRows
<1> DEFINE m == [updated |-> listed[cur],
                 rounds |-> [k \in RoundNumbers |-> IF k \in Changed(cur, list) THEN Fingerprint(cur, list, k)
                                                    ELSE cursor[cur].rounds[k]]]
<1>2. m \in Marks
  BY <1>1 DEF Marks, OtelTypes
<1> QED
  BY <1>2 DEF Mark, OtelTypes

LEMMA ReceiveTypes ==
  ASSUME OtelTypes, pending \subseteq 1..Len(list), Receive
  PROVE  collector' \in [Sessions -> SUBSET (Nat \X Nat)]
<1>1. \A p \in Batch : Span(cur, list, p) \in Nat \X Nat
  BY SpanType DEF Batch
<1> QED
  BY <1>1 DEF Receive, OtelTypes

LEMMA BeforeRead ==
  ASSUME NEW a \in Seq(Nat), NEW b \in Seq(Nat)
  PROVE  /\ a \o b \in Seq(Nat) /\ Len(a \o b) = Len(a) + Len(b)
         /\ \A i \in 1..(Len(a) + Len(b)) : (a \o b)[i] = IF i <= Len(a) THEN a[i] ELSE b[i - Len(a)]
OBVIOUS

\* A page goes before what was read, and holds rows the session has.
LEMMA PageRead ==
  ASSUME OtelTypes, Behind, ReadPage
  PROVE  /\ list' \in Seq(Nat) /\ Len(list') <= rows[cur]
         /\ \A i \in 1..Len(list') : list'[i] \in 1..rows[cur]
         /\ pc' # "page" => pc' = "build" /\ Len(list') = rows[cur]
         /\ \A i \in 1..Len(list') :
              IF i <= Len(list') - Len(list) THEN list'[i] = rows[cur] - Len(list') + i
              ELSE i - (Len(list') - Len(list)) \in 1..Len(list) /\ list'[i] = list[i - (Len(list') - Len(list))]
<1> USE OtelAssumption
<1>1. PICK n \in Nat : n = Len(list) /\ n <= rows[cur]
  BY DEF OtelTypes, Behind
<1>2. PICK left \in 0..MaxRows : left = rows[cur] - n
  BY <1>1 DEF OtelTypes
<1>3. PICK size \in 0..left : size = (IF left < PageRows THEN left ELSE PageRows)
  BY <1>2
<1>4. PICK batch \in Seq(Nat) : batch = [i \in 1..size |-> left - size + i]
  <2>1. [i \in 1..size |-> left - size + i] \in Seq(Nat)
    BY <1>2, <1>3
  <2> QED
    BY <2>1
<1>5. Len(batch) = size /\ \A i \in 1..size : batch[i] = left - size + i
  BY <1>4
<1>6. list' = batch \o list /\ pc' = IF size < PageRows THEN "build" ELSE "page"
  BY <1>1, <1>2, <1>3, <1>4 DEF ReadPage
<1>7. list \in Seq(Nat) /\ rows[cur] \in Nat
  BY DEF OtelTypes
<1>8. list' \in Seq(Nat) /\ Len(list') = size + n
  BY <1>1, <1>5, <1>6, <1>7, BeforeRead
<1>9. \A i \in 1..(size + n) : list'[i] = IF i <= size THEN batch[i] ELSE list[i - size]
  BY <1>1, <1>5, <1>6, <1>7, BeforeRead
<1>10. \A i \in 1..n : list[i] \in 1..rows[cur]
  BY <1>1 DEF Behind
<1>11. rows[cur] = left + n
  BY <1>1, <1>2, <1>7
<1>12. ASSUME NEW i \in 1..Len(list') PROVE list'[i] \in 1..rows[cur]
  <2>1. CASE i <= size
    BY <1>5, <1>8, <1>9, <1>11, <2>1
  <2>2. CASE ~(i <= size)
    <3>1. i - size \in 1..n /\ list'[i] = list[i - size]
      BY <1>8, <1>9, <2>2
    <3> QED
      BY <1>10, <3>1
  <2> QED
    BY <2>1, <2>2
<1>13. pc' # "page" => pc' = "build" /\ Len(list') = rows[cur]
  BY <1>3, <1>6, <1>8, <1>11
<1> QED
  BY <1>1, <1>5, <1>8, <1>9, <1>11, <1>12, <1>13

LEMMA OtelStepTypes ==
  ASSUME OtelTypes, Behind, SentSoFar, [Next]_vars
  PROVE  OtelTypes'
<1> USE OtelAssumption
<1>1. ASSUME NEW s \in Sessions, NEW start \in BOOLEAN, AppendRow(s, start) PROVE OtelTypes'
  <2>1. rows[s] + 1 \in 0..MaxRows
    BY <1>1, RoomForRow DEF AppendRow
  <2>2. rows' \in [Sessions -> 0..MaxRows]
    BY <1>1, <2>1 DEF AppendRow, OtelTypes
  <2>3. starts' \in [Sessions -> SUBSET Nat]
    BY <1>1, <2>1 DEF AppendRow, OtelTypes
  <2>4. updated' \in [Sessions -> Nat]
    <3>1. updated' = [updated EXCEPT ![s] = @ + 1] \/ updated' = updated
      BY <1>1 DEF AppendRow
    <3>2. updated \in [Sessions -> Nat]
      BY DEF OtelTypes
    <3> QED
      BY <3>1, <3>2
  <2> QED
    BY <1>1, <2>2, <2>3, <2>4 DEF AppendRow, OtelTypes, passVars
<1>2. ASSUME NEW s \in Sessions, Settle(s) PROVE OtelTypes'
  BY <1>2 DEF Settle, OtelTypes, passVars
<1>3. CASE BeginPass
  BY <1>3 DEF BeginPass, OtelTypes, OtelPlaces, writerVars
<1>4. CASE EndPass
  BY <1>4 DEF EndPass, OtelTypes, OtelPlaces, writerVars
<1>5. ASSUME NEW s \in Sessions, Skip(s) \/ BeginRead(s) PROVE OtelTypes'
  <2>1. list' = <<>> /\ <<>> \in Seq(Nat)
    BY <1>5 DEF Skip, BeginRead, Done
  <2>2. pc' \in OtelPlaces /\ cur' \in Sessions
    BY <1>5 DEF Skip, BeginRead, Done, OtelPlaces, OtelTypes
  <2> QED
    BY <1>5, <2>1, <2>2 DEF Skip, BeginRead, OtelTypes, writerVars, passVars, bounds
<1>6. CASE ReadPage
  <2>1. list' \in Seq(Nat) /\ pc' \in OtelPlaces
    BY <1>6, PageRead DEF OtelPlaces
  <2> QED
    BY <1>6, <2>1 DEF ReadPage, OtelTypes, writerVars, passVars
<1>7. CASE BuildNothing
  BY <1>7 DEF BuildNothing, Done, OtelTypes, OtelPlaces, writerVars
<1>8. CASE NothingChanged
  <2>1. cursor' \in [Sessions -> Marks]
    BY <1>8, MarkTypes DEF NothingChanged
  <2> QED
    BY <1>8, <2>1 DEF NothingChanged, Done, OtelTypes, OtelPlaces, writerVars
<1>9. CASE BuildRounds
  <2>1. RoundsToSend(cur, list) \subseteq Nat
    BY DEF RoundsToSend, Built, OtelTypes
  <2> QED
    BY <1>9, <2>1 DEF BuildRounds, OtelTypes, OtelPlaces, writerVars, passVars
<1>10. CASE SendBatch
  <2>1. collector' \in [Sessions -> SUBSET (Nat \X Nat)]
    BY <1>10, ReceiveTypes DEF SendBatch, SentSoFar
  <2>2. cursor' \in [Sessions -> Marks]
    BY <1>10, MarkTypes DEF SendBatch, OtelTypes
  <2>3. pending' \subseteq Nat
    BY <1>10 DEF SendBatch, OtelTypes
  <2>4. list' \in Seq(Nat) /\ pc' \in OtelPlaces
    <3>1. /\ list' = list \/ list' = <<>>
          /\ pc' = pc \/ pc' = "record"
      BY <1>10 DEF SendBatch, Done
    <3>2. <<>> \in Seq(Nat)
      OBVIOUS
    <3> QED
      BY <3>1, <3>2 DEF OtelTypes, OtelPlaces
  <2> QED
    BY <1>10, <2>1, <2>2, <2>3, <2>4 DEF SendBatch, OtelTypes, writerVars
<1>11. CASE SendFails
  <2>1. collector' \in [Sessions -> SUBSET (Nat \X Nat)]
    BY <1>11, ReceiveTypes DEF SendFails, SentSoFar, OtelTypes
  <2> QED
    BY <1>11, <2>1 DEF SendFails, Done, OtelTypes, OtelPlaces, writerVars
<1>12. CASE Crash
  BY <1>12 DEF Crash, OtelTypes, OtelPlaces, writerVars
<1>13. CASE UNCHANGED vars
  BY <1>13 DEF vars, writerVars, passVars, OtelTypes
<1> QED
  BY <1>1, <1>2, <1>3, <1>4, <1>5, <1>6, <1>7, <1>8, <1>9, <1>10, <1>11, <1>12, <1>13
  DEF Next, Write, Export

-----------------------------------------------------------------------------
(* Versions and what was read *)

LEMMA MarkVersions ==
  ASSUME OtelTypes, Mark(cur, list) \/ UNCHANGED cursor
  PROVE  \A s \in Sessions : cursor'[s].updated = cursor[s].updated \/ (s = cur /\ cursor'[s].updated = listed[s])
BY DEF OtelTypes, Mark, Marks

LEMMA OtelStepBehind ==
  ASSUME OtelTypes, Behind, [Next]_vars PROVE Behind'
<1> DEFINE Versions == \A s \in Sessions : cursor[s].updated <= updated[s] /\ disk[s].updated <= updated[s]
           ReadOnly == Len(list) <= rows[cur] /\ \A i \in 1..Len(list) : list[i] \in 1..rows[cur]
           Written == \A s \in Sessions : starts[s] \subseteq 1..rows[s]
           Listed == \A s \in Sessions : listed[s] <= updated[s]
<1>0. /\ \A s \in Sessions : /\ cursor[s].updated \in Nat /\ disk[s].updated \in Nat
                             /\ updated[s] \in Nat /\ listed[s] \in Nat /\ rows[s] \in Nat
      /\ cur \in Sessions /\ list \in Seq(Nat)
  BY OtelAssumption DEF OtelTypes, Marks
<1>e. <<>> \in Seq(Nat) /\ Len(<<>>) = 0
  OBVIOUS
<1>1. ASSUME NEW s \in Sessions, NEW start \in BOOLEAN, AppendRow(s, start) PROVE Behind'
  <2>1. rows' = [rows EXCEPT ![s] = @ + 1] /\ starts' \in {starts, [starts EXCEPT ![s] = @ \cup {rows[s] + 1}]}
    BY <1>1 DEF AppendRow
  <2>2. updated' = [updated EXCEPT ![s] = @ + 1] \/ updated' = updated
    BY <1>1 DEF AppendRow
  <2>3. UNCHANGED <<cursor, disk, listed, list, cur>>
    BY <1>1 DEF AppendRow, passVars
  <2>4. \A t \in Sessions : rows[t] <= rows'[t] /\ updated[t] <= updated'[t]
                            /\ rows'[t] \in Nat /\ updated'[t] \in Nat
    <3>1. \A t \in Sessions : rows[t] <= rows'[t] /\ rows'[t] \in Nat
      BY <1>0, <2>1 DEF OtelTypes
    <3>2. \A t \in Sessions : updated[t] <= updated'[t] /\ updated'[t] \in Nat
      <4>1. updated \in [Sessions -> Nat]
        BY DEF OtelTypes
      <4> QED
        BY <2>2, <4>1
    <3> QED
      BY <3>1, <3>2
  <2>5. \A t \in Sessions : starts'[t] \subseteq 1..rows'[t]
    <3>1. \A t \in Sessions : starts[t] \subseteq 1..rows[t]
      BY DEF Behind
    <3>2. \A t \in Sessions : starts'[t] = starts[t] \/ (t = s /\ starts'[t] = starts[t] \cup {rows[t] + 1})
      BY <2>1 DEF OtelTypes
    <3>3. rows'[s] = rows[s] + 1
      BY <2>1 DEF OtelTypes
    <3>4. \A x : x \in 1..rows[s] => x \in 1..(rows[s] + 1)
      BY <1>0
    <3>5. starts'[s] \subseteq 1..rows'[s]
      BY <1>0, <3>1, <3>2, <3>3, <3>4
    <3>6. \A t \in Sessions : t # s => rows'[t] = rows[t]
      BY <2>1 DEF OtelTypes
    <3> QED
      BY <3>1, <3>2, <3>5, <3>6
  <2>6. ASSUME NEW t \in Sessions
        PROVE  cursor'[t].updated <= updated'[t] /\ disk'[t].updated <= updated'[t] /\ listed'[t] <= updated'[t]
    <3>1. cursor[t].updated <= updated[t] /\ disk[t].updated <= updated[t] /\ listed[t] <= updated[t]
      BY DEF Behind
    <3> QED
      BY <1>0, <2>3, <2>4, <3>1
  <2>7. Len(list') <= rows'[cur'] /\ \A i \in 1..Len(list') : list'[i] \in 1..rows'[cur']
    <3>1. Len(list) <= rows[cur] /\ \A i \in 1..Len(list) : list[i] \in 1..rows[cur]
      BY DEF Behind
    <3>2. rows[cur] <= rows'[cur] /\ rows'[cur] \in Nat /\ rows[cur] \in Nat /\ Len(list) \in Nat
      BY <1>0, <2>4
    <3> QED
      BY <2>3, <3>1, <3>2
  <2> QED
    BY <2>5, <2>6, <2>7 DEF Behind
<1>2. ASSUME UNCHANGED <<rows, starts, updated>>, list' = <<>>, cur' \in Sessions, listed' = listed \/ listed' = updated,
             disk' = disk \/ disk' = cursor, cursor' = cursor \/ cursor' = disk \/ Mark(cur, list)
      PROVE  Behind'
  <2>1. \A s \in Sessions : /\ cursor'[s].updated \in {cursor[s].updated, disk[s].updated, listed[s]}
                            /\ disk'[s].updated \in {cursor[s].updated, disk[s].updated}
                            /\ listed'[s] \in {listed[s], updated[s]}
    BY <1>2, MarkVersions
  <2>2. ASSUME NEW s \in Sessions
        PROVE  cursor'[s].updated <= updated'[s] /\ disk'[s].updated <= updated'[s] /\ listed'[s] <= updated'[s]
    <3>1. cursor[s].updated <= updated[s] /\ disk[s].updated <= updated[s] /\ listed[s] <= updated[s]
      BY DEF Behind
    <3>2. updated[s] <= updated[s] /\ updated'[s] = updated[s]
      BY <1>0, <1>2
    <3> QED
      BY <2>1, <3>1, <3>2
  <2>3. Len(list') <= rows'[cur'] /\ \A i \in 1..Len(list') : list'[i] \in 1..rows'[cur']
    BY <1>0, <1>e, <1>2
  <2> QED
    BY <1>2, <2>2, <2>3 DEF Behind
<1>3. ASSUME UNCHANGED <<rows, starts, updated, list, cur>>, listed' = listed \/ listed' = updated,
             disk' = disk \/ disk' = cursor, UNCHANGED cursor
      PROVE  Behind'
  BY <1>0, <1>3 DEF Behind
<1>4. ASSUME NEW s \in Sessions, Settle(s) PROVE Behind'
  BY <1>3, <1>4 DEF Settle, passVars
<1>5. CASE BeginPass \/ EndPass \/ BuildRounds
  BY <1>3, <1>5 DEF BeginPass, EndPass, BuildRounds, passVars, writerVars
<1>6. ASSUME NEW s \in Sessions, Skip(s) \/ BeginRead(s) PROVE Behind'
  BY <1>0, <1>2, <1>6 DEF Skip, BeginRead, Done, passVars, writerVars
<1>7. CASE ReadPage
  <2>1. Len(list') <= rows[cur] /\ \A i \in 1..Len(list') : list'[i] \in 1..rows[cur]
    BY <1>7, PageRead
  <2>2. UNCHANGED <<rows, starts, updated, listed, cursor, disk, cur>>
    BY <1>7 DEF ReadPage, passVars, writerVars
  <2> QED
    BY <2>1, <2>2 DEF Behind
<1>8. CASE BuildNothing \/ NothingChanged \/ SendFails
  BY <1>0, <1>2, <1>8 DEF BuildNothing, NothingChanged, SendFails, Done, writerVars
<1>9. CASE SendBatch
  <2>1. CASE pending' = {}
    BY <1>0, <1>2, <1>9, <2>1 DEF SendBatch, Done, writerVars
  <2>2. CASE pending' # {}
    BY <1>3, <1>9, <2>2 DEF SendBatch, writerVars
  <2> QED
    BY <2>1, <2>2
<1>10. CASE Crash
  BY <1>0, <1>2, <1>10 DEF Crash, writerVars
<1>11. CASE UNCHANGED vars
  BY <1>3, <1>11 DEF vars, writerVars, passVars
<1> QED
  BY <1>1, <1>4, <1>5, <1>6, <1>7, <1>8, <1>9, <1>10, <1>11 DEF Next, Write, Export

LEMMA OtelStepSent ==
  ASSUME OtelTypes, Behind, SentSoFar, [Next]_vars PROVE SentSoFar'
<1>1. ASSUME pc' # "send" PROVE SentSoFar'
  BY <1>1 DEF SentSoFar
<1>2. ASSUME UNCHANGED <<pc, cur, list, cursor, collector, pending>>,
             \A i \in 1..Len(list) : list[i] \in starts'[cur] <=> list[i] \in starts[cur]
      PROVE  SentSoFar'
  <2>1. /\ RoundsToSend(cur, list)' = RoundsToSend(cur, list)
        /\ \A p \in 1..Len(list) : Span(cur, list, p)' = Span(cur, list, p)
    BY <1>2, SameReading
  <2>2. RoundsToSend(cur, list) \subseteq 1..Len(list)
    BY DEF RoundsToSend, Built
  <2> QED
    BY <1>2, <2>1, <2>2 DEF SentSoFar
<1>3. ASSUME NEW s \in Sessions, NEW start \in BOOLEAN, AppendRow(s, start) PROVE SentSoFar'
  <2>1. UNCHANGED <<pc, cur, list, cursor, collector, pending>>
    BY <1>3 DEF AppendRow
  <2>2. \A i \in 1..Len(list) : list[i] \in 1..rows[cur]
    BY DEF Behind
  <2>3. starts'[cur] = starts[cur] \/ starts'[cur] = starts[cur] \cup {rows[cur] + 1}
    BY <1>3 DEF AppendRow, OtelTypes
  <2>4. \A i \in 1..Len(list) : list[i] # rows[cur] + 1
    BY <2>2, OtelAssumption DEF OtelTypes
  <2> QED
    BY <1>2, <2>1, <2>3, <2>4
<1>4. ASSUME NEW s \in Sessions, Settle(s) PROVE SentSoFar'
  BY <1>2, <1>4 DEF Settle
<1>5. CASE BeginPass \/ EndPass \/ BuildNothing \/ NothingChanged \/ SendFails \/ Crash
  BY <1>1, <1>5 DEF BeginPass, EndPass, BuildNothing, NothingChanged, SendFails, Crash, Done
<1>6. ASSUME NEW s \in Sessions, Skip(s) \/ BeginRead(s) PROVE SentSoFar'
  BY <1>1, <1>6 DEF Skip, BeginRead, Done
<1>7. CASE ReadPage
  BY <1>1, <1>7, PageRead
<1>8. CASE BuildRounds
  <2>1. UNCHANGED <<cur, list, cursor, starts>> /\ pending' = RoundsToSend(cur, list)
    BY <1>8 DEF BuildRounds, writerVars
  <2>2. RoundsToSend(cur, list)' = RoundsToSend(cur, list)
    BY <2>1, SameReading
  <2>3. RoundsToSend(cur, list) \subseteq 1..Len(list)
    BY DEF RoundsToSend, Built
  <2> QED
    BY <2>1, <2>2, <2>3 DEF SentSoFar
<1>9. CASE SendBatch
  <2>1. CASE pending' = {}
    BY <1>1, <1>9, <2>1 DEF SendBatch, Done
  <2>2. CASE pending' # {}
    <3>1. UNCHANGED <<cur, list, cursor, starts, pc>> /\ pc = "send"
      BY <1>9, <2>2 DEF SendBatch, writerVars
    <3>2. RoundsToSend(cur, list)' = RoundsToSend(cur, list)
          /\ \A p \in 1..Len(list) : Span(cur, list, p)' = Span(cur, list, p)
      BY <3>1, SameReading
    <3>3. RoundsToSend(cur, list) \subseteq 1..Len(list)
      BY DEF RoundsToSend, Built
    <3>4. collector'[cur] = collector[cur] \cup {Span(cur, list, p) : p \in Batch}
      BY <1>9 DEF SendBatch, Receive, OtelTypes
    <3>5. pending' = pending \ Batch
      BY <1>9 DEF SendBatch
    <3> QED
      BY <3>1, <3>2, <3>3, <3>4, <3>5 DEF SentSoFar
  <2> QED
    BY <2>1, <2>2
<1>10. CASE UNCHANGED vars
  BY <1>2, <1>10 DEF vars, writerVars
<1> QED
  BY <1>3, <1>4, <1>5, <1>6, <1>7, <1>8, <1>9, <1>10 DEF Next, Write, Export

-----------------------------------------------------------------------------
(* What is marked is with the collector *)

CollectorGrows == \A s \in Sessions : collector[s] \subseteq collector'[s]
RoundsAreSent == \A p \in RoundsToSend(cur, list) : Span(cur, list, p) \in collector'[cur]

LEMMA MarkedRounds ==
  ASSUME OtelTypes, Mark(cur, list)
  PROVE  /\ \A s \in Sessions : s # cur => cursor'[s] = cursor[s]
         /\ cursor'[cur].updated = listed[cur]
         /\ \A k \in RoundNumbers :
              cursor'[cur].rounds[k] = IF k \in Changed(cur, list) THEN Fingerprint(cur, list, k)
                                       ELSE cursor[cur].rounds[k]
BY DEF OtelTypes, Mark

LEMMA MarkIsSent ==
  ASSUME OtelTypes, RememberedIsSent, Mark(cur, list), UNCHANGED disk, CollectorGrows, RoundsAreSent
  PROVE  RememberedIsSent'
<1> SUFFICES ASSUME NEW s \in Sessions, NEW c \in {cursor'[s], disk'[s]}, NEW k \in RoundNumbers,
                    NEW i \in DOMAIN c.rounds[k]
             PROVE  <<k, c.rounds[k][i]>> \in collector'[s]
  BY DEF RememberedIsSent
<1>1. CASE c \in {cursor[s], disk[s]}
  BY <1>1 DEF RememberedIsSent, CollectorGrows
<1>2. CASE s = cur /\ c = cursor'[cur] /\ k \in Changed(cur, list)
  <2>1. c.rounds[k] = Fingerprint(cur, list, k)
    BY <1>2, MarkedRounds
  <2>2. k \in Nat /\ k > 0 /\ list \in Seq(Nat)
    BY OtelAssumption DEF RoundNumbers, OtelTypes
  <2>3. PICK p \in 1..Len(list) : RoundAt(cur, list, p) = k /\ Fingerprint(cur, list, k)[i] = list[p]
    <3>1. InRound(cur, list, k, Fingerprint(cur, list, k)[i])
      BY <2>1, <2>2, FingerprintRows
    <3> QED
      BY <3>1 DEF InRound
  <2>4. p \in RoundsToSend(cur, list) /\ Span(cur, list, p) = <<k, list[p]>>
    BY <1>2, <2>2, <2>3 DEF RoundsToSend, Built, Span
  <2> QED
    BY <1>2, <2>1, <2>3, <2>4 DEF RoundsAreSent
<1>3. CASE s = cur /\ c = cursor'[cur] /\ k \notin Changed(cur, list)
  <2>1. c.rounds[k] = cursor[cur].rounds[k]
    BY <1>3, MarkedRounds
  <2> QED
    BY <1>3, <2>1 DEF RememberedIsSent, CollectorGrows, OtelTypes
<1> QED
  BY <1>1, <1>2, <1>3, MarkedRounds

\* What is marked at its present version was read whole, and each of its rounds
\* was sent or is remembered.
LEMMA MarkIsWhole ==
  ASSUME OtelTypes, Behind, RememberedIsSent, PagesJoin, KnownIsWhole, pc \in {"build", "send"},
         Mark(cur, list), UNCHANGED <<rows, starts, updated, disk>>, CollectorGrows, RoundsAreSent
  PROVE  KnownIsWhole'
<1> SUFFICES ASSUME NEW s \in Sessions, NEW c \in {cursor'[s], disk'[s]},
                    updated'[s] > 0, c.updated = updated'[s]
             PROVE  TrueSpans(s)' \subseteq collector'[s]
  BY DEF KnownIsWhole
<1>1. TrueSpans(s)' = TrueSpans(s)
  BY SameSession
<1>2. CASE c \in {cursor[s], disk[s]}
  BY <1>1, <1>2 DEF KnownIsWhole, CollectorGrows
<1>3. CASE s = cur /\ c = cursor'[cur]
  <2>1. listed[cur] = updated[cur]
    BY <1>3, MarkedRounds
  <2>2. list \in Seq(Nat) /\ Len(list) = rows[cur] /\ \A i \in 1..rows[cur] : list[i] = i
    BY <2>1, OtelAssumption DEF PagesJoin, Reading, OtelTypes
  <2>3. list = WholeSession(cur)
    BY <2>2 DEF WholeSession
  <2>4. SUFFICES ASSUME NEW p \in Built(cur, list) PROVE Span(cur, list, p) \in collector'[cur]
    BY <1>1, <1>3, <2>3 DEF TrueSpans
  <2>5. PICK k \in Nat : k = RoundAt(cur, list, p)
    BY <2>2, RoundRises DEF Built
  <2>6. k \in RoundNumbers /\ p \in 1..Len(list)
    <3>1. p \in 1..Len(list) /\ k > 0
      BY <2>5 DEF Built
    <3>2. k \in 0..p
      BY <2>2, <2>5, <3>1, RoundRises
    <3>3. rows[cur] \in 0..MaxRows
      BY DEF OtelTypes
    <3> QED
      BY <2>2, <3>1, <3>2, <3>3, OtelAssumption DEF RoundNumbers
  <2>7. CASE k \in Changed(cur, list)
    BY <2>5, <2>7 DEF RoundsToSend, RoundsAreSent
  <2>8. CASE k \notin Changed(cur, list)
    <3>1. PICK i \in DOMAIN Fingerprint(cur, list, k) : Fingerprint(cur, list, k)[i] = list[p]
      <4>1. list \in Seq(Nat)
        BY <2>2
      <4>2. Names(Fingerprint(cur, list, k), list[p])
        BY <2>5, <2>6, <4>1, FingerprintRows
      <4> QED
        BY <4>2 DEF Names
    <3>2. Fingerprint(cur, list, k) = cursor[cur].rounds[k]
      <4>1. Fingerprint(cur, list, k) # <<>>
        BY <3>1
      <4> QED
        BY <2>6, <2>8, <4>1 DEF Changed
    <3>3. <<k, list[p]>> \in collector[cur]
      BY <1>3, <2>6, <3>1, <3>2 DEF RememberedIsSent
    <3> QED
      BY <1>3, <2>5, <3>3 DEF Span, CollectorGrows
  <2> QED
    BY <2>7, <2>8
<1> QED
  BY <1>2, <1>3, MarkedRounds

\* A batch is taken by the collector, in full or not at all.
LEMMA ReceiveGrows ==
  ASSUME OtelTypes, Receive \/ UNCHANGED collector
  PROVE  CollectorGrows
BY DEF OtelTypes, Receive, CollectorGrows

LEMMA LastBatch ==
  ASSUME OtelTypes, SentSoFar, SendBatch, pending' = {}
  PROVE  RoundsAreSent
<1>1. collector'[cur] = collector[cur] \cup {Span(cur, list, p) : p \in Batch}
  BY DEF SendBatch, Receive, OtelTypes
<1>2. pending \subseteq Batch
  BY DEF SendBatch
<1> QED
  BY <1>1, <1>2 DEF SendBatch, SentSoFar, RoundsAreSent

-----------------------------------------------------------------------------
(* Every step *)

LEMMA OtelStepRemembered ==
  ASSUME OtelInv, [Next]_vars PROVE RememberedIsSent'
<1> USE DEF OtelInv
<1>1. ASSUME CollectorGrows, cursor' = cursor \/ cursor' = disk, disk' = disk \/ disk' = cursor
      PROVE  RememberedIsSent'
  BY <1>1 DEF RememberedIsSent, CollectorGrows
<1>2. UNCHANGED collector => CollectorGrows
  BY DEF CollectorGrows
<1>3. ASSUME \E s \in Sessions, start \in BOOLEAN : AppendRow(s, start) PROVE RememberedIsSent'
  BY <1>1, <1>2, <1>3 DEF AppendRow
<1>4. ASSUME \E s \in Sessions : Settle(s) \/ Skip(s) \/ BeginRead(s) PROVE RememberedIsSent'
  BY <1>1, <1>2, <1>4 DEF Settle, Skip, BeginRead
<1>5. CASE BeginPass \/ EndPass \/ ReadPage \/ BuildNothing \/ BuildRounds \/ Crash
  BY <1>1, <1>2, <1>5 DEF BeginPass, EndPass, ReadPage, BuildNothing, BuildRounds, Crash
<1>6. CASE SendFails
  BY <1>1, <1>6, ReceiveGrows DEF SendFails
<1>7. CASE NothingChanged
  BY <1>2, <1>7, MarkIsSent DEF NothingChanged, RoundsAreSent
<1>8. CASE SendBatch
  <2>1. CollectorGrows /\ UNCHANGED disk
    BY <1>8, ReceiveGrows DEF SendBatch
  <2>2. CASE pending' = {}
    BY <1>8, <2>1, <2>2, LastBatch, MarkIsSent DEF SendBatch
  <2>3. CASE pending' # {}
    BY <1>1, <1>8, <2>1, <2>3 DEF SendBatch
  <2> QED
    BY <2>2, <2>3
<1>9. CASE UNCHANGED vars
  BY <1>1, <1>2, <1>9 DEF vars
<1> QED
  BY <1>3, <1>4, <1>5, <1>6, <1>7, <1>8, <1>9 DEF Next, Write, Export

LEMMA OtelStepInv == OtelInv /\ [Next]_vars => OtelInv'
BY OtelStepTypes, OtelStepBehind, OtelStepSent, OtelStepRemembered DEF OtelInv

LEMMA OtelStepPages ==
  ASSUME SameInstant = FALSE, OtelInv, PagesJoin, [Next]_vars PROVE PagesJoin'
<1> USE DEF OtelInv
<1>0. /\ cur \in Sessions /\ \A s \in Sessions : updated[s] \in Nat /\ listed[s] \in Nat /\ listed[s] <= updated[s]
      /\ rows[cur] \in Nat /\ list \in Seq(Nat) /\ Len(list) \in Nat
  BY OtelAssumption DEF OtelTypes, Behind
<1>1. ASSUME pc' \in {"between", "record"} PROVE PagesJoin'
  BY <1>1 DEF PagesJoin, Reading
<1>2. ASSUME UNCHANGED <<listed, cur, list>>, rows'[cur] = rows[cur], updated'[cur] = updated[cur],
             pc' = pc \/ (pc = "build" /\ pc' = "send")
      PROVE  PagesJoin'
  BY <1>2 DEF PagesJoin, Reading
<1>3. ASSUME NEW s \in Sessions, NEW start \in BOOLEAN, AppendRow(s, start) PROVE PagesJoin'
  <2>1. rows' = [rows EXCEPT ![s] = @ + 1] /\ updated' = [updated EXCEPT ![s] = @ + 1]
    BY <1>3 DEF AppendRow
  <2>2. UNCHANGED <<listed, cur, list, pc>>
    BY <1>3 DEF AppendRow, passVars
  <2>3. CASE s = cur
    <3>1. updated'[cur] = updated[cur] + 1
      BY <2>1, <2>3 DEF OtelTypes
    <3>2. listed'[cur'] # updated'[cur']
      BY <1>0, <2>2, <3>1
    <3> QED
      BY <3>2 DEF PagesJoin
  <2>4. CASE s # cur
    BY <1>2, <2>1, <2>2, <2>4 DEF OtelTypes
  <2> QED
    BY <2>3, <2>4
<1>4. ASSUME NEW s \in Sessions, Settle(s) PROVE PagesJoin'
  BY <1>2, <1>4 DEF Settle, passVars
<1>5. CASE BeginPass \/ EndPass \/ BuildNothing \/ NothingChanged \/ SendFails \/ Crash
  BY <1>1, <1>5 DEF BeginPass, EndPass, BuildNothing, NothingChanged, SendFails, Crash, Done
<1>6. ASSUME NEW s \in Sessions, Skip(s) PROVE PagesJoin'
  BY <1>1, <1>6 DEF Skip, Done
<1>7. ASSUME NEW s \in Sessions, BeginRead(s) PROVE PagesJoin'
  <2>1. pc' = "page" /\ list' = <<>> /\ Len(<<>>) = 0
    BY <1>7 DEF BeginRead
  <2> QED
    BY <2>1 DEF PagesJoin
<1>8. CASE ReadPage
  <2>1. UNCHANGED <<rows, updated, listed, cur>> /\ pc = "page"
    BY <1>8 DEF ReadPage, writerVars, passVars
  <2>2. SUFFICES ASSUME listed[cur] = updated[cur]
                 PROVE  /\ \A i \in 1..Len(list') : list'[i] = rows[cur] - Len(list') + i
                        /\ pc' # "page" => Len(list') = rows[cur]
    BY <2>1 DEF PagesJoin
  <2>3. pc' # "page" => Len(list') = rows[cur]
    BY <1>8, PageRead
  <2>4. \A j \in 1..Len(list) : list[j] = rows[cur] - Len(list) + j
    BY <2>1, <2>2 DEF PagesJoin, Reading
  <2>5. ASSUME NEW i \in 1..Len(list') PROVE list'[i] = rows[cur] - Len(list') + i
    <3>1. Len(list') \in Nat
      BY <1>8, PageRead
    <3>2. IF i <= Len(list') - Len(list) THEN list'[i] = rows[cur] - Len(list') + i
          ELSE i - (Len(list') - Len(list)) \in 1..Len(list) /\ list'[i] = list[i - (Len(list') - Len(list))]
      BY <1>8, PageRead
    <3> QED
      BY <1>0, <2>4, <3>1, <3>2
  <2> QED
    BY <2>3, <2>5
<1>9. CASE BuildRounds
  BY <1>2, <1>9 DEF BuildRounds, writerVars, passVars
<1>10. CASE SendBatch
  <2>1. CASE pending' = {}
    BY <1>1, <1>10, <2>1 DEF SendBatch, Done
  <2>2. CASE pending' # {}
    BY <1>2, <1>10, <2>2 DEF SendBatch, writerVars
  <2> QED
    BY <2>1, <2>2
<1>11. CASE UNCHANGED vars
  BY <1>2, <1>11 DEF vars, writerVars, passVars
<1> QED
  BY <1>3, <1>4, <1>5, <1>6, <1>7, <1>8, <1>9, <1>10, <1>11 DEF Next, Write, Export

LEMMA OtelStepWhole ==
  ASSUME SameInstant = FALSE, OtelInv, PagesJoin, KnownIsWhole, [Next]_vars PROVE KnownIsWhole'
<1> USE DEF OtelInv
<1>1. ASSUME CollectorGrows, cursor' = cursor \/ cursor' = disk, disk' = disk \/ disk' = cursor,
             UNCHANGED <<rows, starts, updated>>
      PROVE  KnownIsWhole'
  <2>1. \A s \in Sessions : TrueSpans(s)' = TrueSpans(s)
    BY <1>1, SameSession
  <2> QED
    BY <1>1, <2>1 DEF KnownIsWhole, CollectorGrows
<1>2. UNCHANGED collector => CollectorGrows
  BY DEF CollectorGrows
<1>3. ASSUME NEW s \in Sessions, NEW start \in BOOLEAN, AppendRow(s, start) PROVE KnownIsWhole'
  <2>1. rows' = [rows EXCEPT ![s] = @ + 1] /\ starts' \in {starts, [starts EXCEPT ![s] = @ \cup {rows[s] + 1}]}
        /\ updated' = [updated EXCEPT ![s] = @ + 1]
    BY <1>3 DEF AppendRow
  <2>2. UNCHANGED <<cursor, disk, collector>>
    BY <1>3 DEF AppendRow
  <2>3. \A t \in Sessions : t # s => TrueSpans(t)' = TrueSpans(t) /\ updated'[t] = updated[t]
    <3>1. \A t \in Sessions : t # s => rows'[t] = rows[t] /\ starts'[t] = starts[t] /\ updated'[t] = updated[t]
      BY <2>1 DEF OtelTypes
    <3> QED
      BY <3>1, SameSession
  <2>4. updated'[s] # cursor'[s].updated /\ updated'[s] # disk'[s].updated
    <3>1. updated'[s] = updated[s] + 1 /\ updated[s] \in Nat
      BY <2>1 DEF OtelTypes
    <3>2. cursor[s].updated \in Nat /\ disk[s].updated \in Nat
      BY DEF OtelTypes, Marks
    <3>3. cursor[s].updated <= updated[s] /\ disk[s].updated <= updated[s]
      BY DEF Behind
    <3> QED
      BY <2>2, <3>1, <3>2, <3>3
  <2> QED
    BY <2>2, <2>3, <2>4 DEF KnownIsWhole
<1>4. ASSUME NEW s \in Sessions, Settle(s) \/ Skip(s) \/ BeginRead(s) PROVE KnownIsWhole'
  BY <1>1, <1>2, <1>4 DEF Settle, Skip, BeginRead, writerVars
<1>5. CASE BeginPass \/ EndPass \/ ReadPage \/ BuildNothing \/ BuildRounds \/ Crash
  BY <1>1, <1>2, <1>5 DEF BeginPass, EndPass, ReadPage, BuildNothing, BuildRounds, Crash, writerVars
<1>6. CASE SendFails
  BY <1>1, <1>6, ReceiveGrows DEF SendFails, writerVars
<1>7. CASE NothingChanged
  BY <1>2, <1>7, MarkIsWhole DEF NothingChanged, RoundsAreSent, writerVars
<1>8. CASE SendBatch
  <2>1. CollectorGrows /\ UNCHANGED <<rows, starts, updated, disk>> /\ pc = "send"
    BY <1>8, ReceiveGrows DEF SendBatch, writerVars
  <2>2. CASE pending' = {}
    <3>1. RoundsAreSent /\ Mark(cur, list)
      BY <1>8, <2>2, LastBatch DEF SendBatch
    <3> QED
      BY <2>1, <3>1, MarkIsWhole
  <2>3. CASE pending' # {}
    BY <1>1, <1>8, <2>1, <2>3 DEF SendBatch
  <2> QED
    BY <2>2, <2>3
<1>9. CASE UNCHANGED vars
  BY <1>1, <1>2, <1>9 DEF vars, writerVars
<1> QED
  BY <1>3, <1>4, <1>5, <1>6, <1>7, <1>8, <1>9 DEF Next, Write, Export

-----------------------------------------------------------------------------
\* mark comes after the last batch and saveState after the pass, so whatever
\* fails or crashes between them, a round the cursor remembers, in memory or on
\* disk, was taken by the collector whole.
THEOREM RememberedInvariance == Spec => []RememberedIsSent
<1>1. Init => OtelInv
  BY OtelInitInv
<1>2. OtelInv /\ [Next]_vars => OtelInv'
  BY OtelStepInv
<1>3. OtelInv => RememberedIsSent
  BY DEF OtelInv
<1> QED
  BY <1>1, <1>2, <1>3, PTL DEF Spec

\* known skips a session on its UpdatedAt alone.  Where a row moves UpdatedAt,
\* what is skipped is with the collector in full; two rows of one second are
\* the case that the code's comment leaves out.
THEOREM CursorIsTrue ==
  ASSUME SameInstant = FALSE
  PROVE  Spec => []CursorTrue
<1>1. Init => OtelInv /\ PagesJoin /\ KnownIsWhole
  BY OtelInitInv
<1>2. OtelInv /\ PagesJoin /\ KnownIsWhole /\ [Next]_vars => (OtelInv /\ PagesJoin /\ KnownIsWhole)'
  BY OtelStepInv, OtelStepPages, OtelStepWhole
<1>3. OtelInv /\ KnownIsWhole => CursorTrue
  BY DEF OtelInv, CursorTrue
<1> QED
  BY <1>1, <1>2, <1>3, PTL DEF Spec

=============================================================================
