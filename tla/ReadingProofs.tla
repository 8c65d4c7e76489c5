---------------------------- MODULE ReadingProofs ----------------------------
(***************************************************************************)
(* What is kept for the next asker, for any number of them: the answers of *)
(* reports, and the lists of a labelled source.  Which row a name opens,   *)
(* and which agents are under it.  What an MCP client has read when it has *)
(* followed its cursor to the end, and what a search that stops early has  *)
(* found.                                                                  *)
(***************************************************************************)
EXTENDS AnswerCache, LabeledSource, Lookup, McpPages, SearchPool, Rounds, FiniteSetTheorems,
  NaturalsInduction, WellFoundedInduction, TLAPS

-----------------------------------------------------------------------------
(***************************************************************************)
(* How old an answer of cachedAnswer can be, for any number of callers and *)
(* questions.  Computations overlap and are banked in any order, so what   *)
(* an entry holds can get older; the invariant bounds it by the entry's    *)
(* own time.                                                               *)
(***************************************************************************)

Keys == {<<>>} \cup (Questions \X Nat)
Askings == [pc : {"idle", "compute", "bank"}, question : Questions \cup {"none"},
          key : Keys, since : Nat, data : Nat]

\* The versions the steps began with, oldest first.
HistoryInv ==
  /\ step \in Nat \ {0} /\ version \in Nat /\ asks \in Nat
  /\ versionAt \in Seq(Nat) /\ Len(versionAt) = step
  /\ \A i \in 1..step : versionAt[i] <= version
  /\ \A i, j \in 1..step : i <= j => versionAt[i] <= versionAt[j]

\* A computation is at most Slow steps old, and has what was there when it began.
CallInv ==
  /\ call \in [Callers -> Askings]
  /\ \A c \in Callers : call[c].pc # "idle" =>
       /\ call[c].since \in 1..step /\ step - call[c].since <= Slow
       /\ call[c].pc = "bank" => versionAt[call[c].since] <= call[c].data

\* So has an entry, counted from the step it was banked in.
EntryInv ==
  \A k \in DOMAIN answers :
    /\ answers[k].at \in 1..step /\ answers[k].data \in Nat
    /\ versionAt[AtLeastOne(answers[k].at - Slow)] <= answers[k].data

AgeInv == HistoryInv /\ CallInv /\ EntryInv

LEMMA SlowIsNat == Slow \in Nat /\ Ttl \in Nat \ {0}
<1> QED  BY AnswerAssumption

LEMMA AnswerInitAge == AnswerInit => AgeInv
<1> SUFFICES ASSUME AnswerInit PROVE AgeInv
  OBVIOUS
<1>1. HistoryInv
  BY DEF AnswerInit, HistoryInv
<1>2. Idle \in Askings /\ Idle.pc = "idle"
  BY DEF Idle, Askings, Keys
<1>3. CallInv
  BY <1>2 DEF AnswerInit, CallInv
<1>4. EntryInv
  BY DEF AnswerInit, EntryInv
<1> QED  BY <1>1, <1>3, <1>4 DEF AgeInv

\* A caller that moves leaves the history and the other callers alone.
LEMMA CallMoves ==
  ASSUME AgeInv, NEW c \in Callers, NEW new \in Askings,
         call' = [call EXCEPT ![c] = new], UNCHANGED <<step, version, versionAt>>,
         new.pc # "idle" => new.since \in 1..step /\ step - new.since <= Slow,
         new.pc = "bank" => versionAt[new.since] <= new.data
  PROVE  CallInv'
<1>1. call' \in [Callers -> Askings]
  BY DEF AgeInv, CallInv
<1>2. \A d \in Callers : call'[d] = IF d = c THEN new ELSE call[d]
  BY DEF AgeInv, CallInv
<1> QED  BY <1>1, <1>2 DEF AgeInv, CallInv

LEMMA AnswerStepAge == AgeInv /\ [AnswerNext]_answerVars => AgeInv'
<1> SUFFICES ASSUME AgeInv, [AnswerNext]_answerVars  PROVE AgeInv'
  OBVIOUS
<1> USE SlowIsNat
<1>1. ASSUME NEW c \in Callers, NEW q \in Questions, AskHit(c, q)  PROVE AgeInv'
  BY <1>1 DEF AskHit, AgeInv, HistoryInv, CallInv, EntryInv
<1>2. ASSUME NEW c \in Callers, NEW q \in Questions, AskMiss(c, q)  PROVE AgeInv'
  <2> DEFINE new == [pc |-> "compute", question |-> q, key |-> KeyOf(q), since |-> step, data |-> 0]
  <2>1. new \in Askings /\ step - step <= Slow /\ step \in 1..step
    BY DEF Askings, Keys, KeyOf, AgeInv, HistoryInv
  <2>2. CallInv'
    <3> HIDE DEF new
    <3>1. new.pc = "compute" /\ new.since = step
      BY DEF new
    <3>2. call' = [call EXCEPT ![c] = new] /\ UNCHANGED <<step, version, versionAt>>
      BY <1>2 DEF AskMiss, new
    <3> QED  BY <2>1, <3>1, <3>2, CallMoves
  <2>3. HistoryInv' /\ EntryInv'
    BY <1>2 DEF AskMiss, AgeInv, HistoryInv, EntryInv
  <2> QED  BY <2>2, <2>3 DEF AgeInv
<1>3. ASSUME NEW c \in Callers, Compute(c)  PROVE AgeInv'
  <2> DEFINE new == [call[c] EXCEPT !.pc = "bank", !.data = version]
  <2>1. call[c] \in Askings /\ call[c].since \in 1..step /\ step - call[c].since <= Slow
    BY <1>3 DEF Compute, AgeInv, CallInv
  <2>2. new = [pc |-> "bank", question |-> call[c].question, key |-> call[c].key,
               since |-> call[c].since, data |-> version]
    <3> DEFINE begun == [call[c] EXCEPT !.pc = "bank"]
    <3>1. begun = [pc |-> "bank", question |-> call[c].question, key |-> call[c].key,
                   since |-> call[c].since, data |-> call[c].data]
      BY <2>1 DEF Askings
    <3>2. new = [begun EXCEPT !.data = version]
      BY <2>1, Zenon DEF Askings
    <3> HIDE DEF begun, new
    <3> QED  BY <3>1, <3>2
  <2>3. new \in Askings
    BY <2>1, <2>2 DEF Askings, AgeInv, HistoryInv
  <2>4. new.since \in 1..step /\ step - new.since <= Slow /\ versionAt[new.since] <= new.data
    BY <2>1, <2>2 DEF AgeInv, HistoryInv
  <2>5. call' = [call EXCEPT ![c] = new] /\ UNCHANGED <<step, version, versionAt>>
    BY <1>3 DEF Compute
  <2>6. CallInv'
    <3> HIDE DEF new
    <3> QED  BY <2>3, <2>4, <2>5, CallMoves
  <2>7. HistoryInv' /\ EntryInv'
    BY <1>3 DEF Compute, AgeInv, HistoryInv, EntryInv
  <2> QED  BY <2>6, <2>7 DEF AgeInv
<1>4. ASSUME NEW c \in Callers, Bank(c)  PROVE AgeInv'
  <2>1. call' = [call EXCEPT ![c] = Idle] /\ UNCHANGED <<step, version, versionAt, asks>>
    BY <1>4 DEF Bank
  <2>2. Idle \in Askings /\ Idle.pc = "idle"
    BY DEF Idle, Askings, Keys
  <2>3. CallInv'
    BY <2>1, <2>2, CallMoves
  <2>4. HistoryInv'
    BY <2>1 DEF AgeInv, HistoryInv
  <2>5. /\ call[c].since \in 1..step /\ step - call[c].since <= Slow
        /\ call[c].data \in Nat /\ versionAt[call[c].since] <= call[c].data
    BY <1>4 DEF Bank, AgeInv, CallInv, Askings
  <2>6. versionAt[AtLeastOne(step - Slow)] <= call[c].data
    <3>1. AtLeastOne(step - Slow) \in 1..step /\ AtLeastOne(step - Slow) <= call[c].since
      BY <2>5 DEF AtLeastOne, AgeInv, HistoryInv
    <3>2. versionAt[AtLeastOne(step - Slow)] <= versionAt[call[c].since]
      BY <2>5, <3>1 DEF AgeInv, HistoryInv
    <3>3. versionAt[AtLeastOne(step - Slow)] \in Nat /\ versionAt[call[c].since] \in Nat
      BY <2>5, <3>1 DEF AgeInv, HistoryInv
    <3> QED  BY <2>5, <3>2, <3>3
  <2>7. \A k \in DOMAIN answers' :
          IF k = call[c].key THEN answers'[k] = [at |-> step, data |-> call[c].data]
          ELSE k \in DOMAIN answers /\ answers'[k] = answers[k]
    BY <1>4 DEF Bank
  <2>8. EntryInv'
    <3> SUFFICES ASSUME NEW k \in DOMAIN answers'
        PROVE  /\ answers'[k].at \in 1..step /\ answers'[k].data \in Nat
               /\ versionAt[AtLeastOne(answers'[k].at - Slow)] <= answers'[k].data
      BY <2>1 DEF EntryInv, AtLeastOne
    <3>1. CASE k = call[c].key
      <4>1. answers'[k].at = step /\ answers'[k].data = call[c].data
        BY <2>7, <3>1
      <4> QED  BY <2>5, <2>6, <4>1 DEF AgeInv, HistoryInv
    <3>2. CASE k # call[c].key
      BY <2>7, <3>2 DEF AgeInv, EntryInv
    <3> QED  BY <3>1, <3>2
  <2> QED  BY <2>3, <2>4, <2>8 DEF AgeInv
<1>5. ASSUME Change  PROVE AgeInv'
  <2>1. version' = version + 1 /\ UNCHANGED <<step, versionAt, answers, call, asks>>
    BY <1>5 DEF Change
  <2>2. HistoryInv'
    <3>1. \A i \in 1..step : versionAt[i] \in Nat
      BY DEF AgeInv, HistoryInv
    <3> QED  BY <2>1, <3>1 DEF AgeInv, HistoryInv
  <2> QED  BY <2>1, <2>2 DEF AgeInv, CallInv, EntryInv
<1>6. ASSUME Tick  PROVE AgeInv'
  <2>1. /\ step' = step + 1 /\ versionAt' = Append(versionAt, version)
        /\ UNCHANGED <<version, answers, call, asks>>
        /\ \A c \in Callers : call[c] # Idle => step - call[c].since < Slow
    BY <1>6 DEF Tick
  <2>2. /\ versionAt' \in Seq(Nat) /\ Len(versionAt') = step + 1
        /\ versionAt'[step + 1] = version
        /\ \A i \in 1..step : versionAt'[i] = versionAt[i] /\ versionAt[i] \in Nat
    BY <2>1 DEF AgeInv, HistoryInv
  <2>3. HistoryInv'
    <3>1. \A i \in 1..(step + 1) : versionAt'[i] <= version
      BY <2>2 DEF AgeInv, HistoryInv
    <3>2. \A i, j \in 1..(step + 1) : i <= j => versionAt'[i] <= versionAt'[j]
      <4> TAKE i, j \in 1..(step + 1)
      <4>1. CASE j = step + 1
        BY <2>2, <3>1, <4>1
      <4>2. CASE j # step + 1
        <5>1. i <= j => i \in 1..step /\ j \in 1..step
          BY <4>2 DEF AgeInv, HistoryInv
        <5> QED  BY <2>2, <5>1 DEF AgeInv, HistoryInv
      <4> QED  BY <4>1, <4>2
    <3> QED  BY <2>1, <2>2, <3>1, <3>2 DEF AgeInv, HistoryInv
  <2>4. CallInv'
    <3>1. ASSUME NEW c \in Callers, call[c].pc # "idle"
          PROVE  /\ call[c].since \in 1..(step + 1) /\ (step + 1) - call[c].since <= Slow
                 /\ call[c].pc = "bank" => versionAt'[call[c].since] <= call[c].data
      <4>1. call[c] # Idle
        BY <3>1 DEF Idle
      <4>2. call[c].since \in 1..step
        BY <3>1 DEF AgeInv, CallInv
      <4>3. step - call[c].since < Slow
        BY <2>1, <4>1
      <4>4. versionAt'[call[c].since] = versionAt[call[c].since]
        BY <2>2, <4>2
      <4> QED  BY <3>1, <4>2, <4>3, <4>4 DEF AgeInv, HistoryInv, CallInv
    <3> QED  BY <2>1, <3>1 DEF AgeInv, CallInv
  <2>5. EntryInv'
    <3> SUFFICES ASSUME NEW k \in DOMAIN answers
        PROVE  /\ answers[k].at \in 1..(step + 1) /\ answers[k].data \in Nat
               /\ versionAt'[AtLeastOne(answers[k].at - Slow)] <= answers[k].data
      BY <2>1 DEF EntryInv, AtLeastOne
    <3>1. answers[k].at \in 1..step /\ answers[k].data \in Nat
      BY DEF AgeInv, EntryInv
    <3>2. AtLeastOne(answers[k].at - Slow) \in 1..step
      BY <3>1 DEF AtLeastOne, AgeInv, HistoryInv
    <3>3. versionAt[AtLeastOne(answers[k].at - Slow)] <= answers[k].data
      BY DEF AgeInv, EntryInv
    <3> QED  BY <2>2, <3>1, <3>2, <3>3 DEF AgeInv, HistoryInv
  <2> QED  BY <2>3, <2>4, <2>5 DEF AgeInv
<1>7. CASE UNCHANGED answerVars
  BY <1>7 DEF answerVars, AgeInv, HistoryInv, CallInv, EntryInv
<1> QED  BY <1>1, <1>2, <1>3, <1>4, <1>5, <1>6, <1>7 DEF AnswerNext

THEOREM AgeInvariance == AnswerSpec => []AgeInv
<1> QED  BY AnswerInitAge, AnswerStepAge, PTL DEF AnswerSpec

\* What /failures and /digest hand out from the cache has every change made up
\* to one time to live and one computation ago (api.go:51-68), however many
\* computations of one key overlap and in whatever order they are banked.
THEOREM AnswersAreRecent == AnswerSpec => []ServableIsRecent
<1>1. AgeInv => ServableIsRecent
  <2> SUFFICES ASSUME AgeInv, NEW k \in DOMAIN answers, Fresh(k)
      PROVE  answers[k].data >= versionAt[AtLeastOne(step - Ttl + 1 - Slow)]
    BY DEF ServableIsRecent
  <2> DEFINE i == AtLeastOne(step - Ttl + 1 - Slow)
             j == AtLeastOne(answers[k].at - Slow)
  <2>1. answers[k].at \in 1..step /\ answers[k].data \in Nat /\ versionAt[j] <= answers[k].data
    BY DEF AgeInv, EntryInv
  <2>2. step - answers[k].at < Ttl /\ step \in Nat
    BY DEF Fresh, AgeInv, HistoryInv
  <2>3. i \in 1..step /\ j \in 1..step /\ i <= j
    BY <2>1, <2>2, SlowIsNat DEF AtLeastOne
  <2>4. versionAt[i] <= versionAt[j] /\ versionAt[i] \in Nat /\ versionAt[j] \in Nat
    BY <2>3 DEF AgeInv, HistoryInv
  <2> QED  BY <2>1, <2>4
<1> QED  BY AgeInvariance, <1>1, PTL

-----------------------------------------------------------------------------
(***************************************************************************)
(* Labels, of both kinds of source.  What a row bears and what is yet to   *)
(* be put on it are together at most the hand-outs of its list, and so is  *)
(* what an asker read of it with what is yet to be put on: an asker that   *)
(* writes over another's label loses one, and never adds one.              *)
(***************************************************************************)

Labels == [1..Rows -> Nat]
LabelPlaces == {"idle", "stamped", "read", "label", "write", "reading"}
Asked == [pc : LabelPlaces, stamp : Nat, list : Nat, row : Nat, was : Nat]

Labelling(a) == ask[a].pc \in {"label", "write"}
Ahead(l, r) == {a \in Askers : Labelling(a) /\ ask[a].list = l /\ ask[a].row <= r}
Yet(l, r) == Cardinality(Ahead(l, r))
Borne(a, r) == ask[a].pc = "reading" \/ (Labelling(a) /\ r < ask[a].row)

LabelTypes ==
  /\ shares \in BOOLEAN /\ writes \in Nat
  /\ lists \in Seq(Labels) /\ handed \in Seq(Nat) /\ Len(handed) = Made
  /\ kept \in [list : Nat, stamp : Nat]
  /\ ask \in [Askers -> Asked]

Placed ==
  /\ kept.list \in 0..Made
  /\ \A a \in Askers :
       /\ ask[a].pc \in {"read", "label", "write", "reading"} => ask[a].list \in 1..Made
       /\ Labelling(a) => ask[a].row \in 1..Rows

RowsCounted == \A l \in 1..Made, r \in 1..Rows : lists[l][r] + Yet(l, r) <= handed[l]

ReadCounted ==
  \A a \in Askers, l \in 1..Made, r \in 1..Rows :
    ask[a].pc = "write" /\ ask[a].list = l /\ ask[a].row = r => ask[a].was + Yet(l, r) <= handed[l]

PutOn == \A a \in Askers : \A r \in 1..Rows : Borne(a, r) => lists[ask[a].list][r] >= 1

MadeForTheCall ==
  ~shares =>
    /\ \A l \in 1..Made : handed[l] <= 1
    /\ kept.list # 0 => handed[kept.list] = 0
    /\ \A a \in Askers : ask[a].pc = "read" => handed[ask[a].list] = 0

LabelInv == LabelTypes /\ Placed /\ RowsCounted /\ ReadCounted /\ PutOn /\ MadeForTheCall

\* How many have yet to write a row is a number.
LEMMA YetType == ASSUME NEW l, NEW r PROVE IsFiniteSet(Ahead(l, r)) /\ Yet(l, r) \in Nat
<1>1. Ahead(l, r) \subseteq Askers
  BY DEF Ahead
<1>2. IsFiniteSet(Ahead(l, r))
  BY <1>1, FS_Subset, LabelAssumption
<1> QED  BY <1>2, FS_CardinalityType DEF Yet

\* They are the same while none of them moves into or out of their number.
LEMMA YetStays ==
  ASSUME NEW l, NEW r,
         \A b \in Askers : b \in Ahead(l, r)' <=> b \in Ahead(l, r)
  PROVE  Yet(l, r)' = Yet(l, r)
<1>1. Ahead(l, r)' = Ahead(l, r)
  BY DEF Ahead
<1> QED  BY <1>1 DEF Yet

\* One more of them is one more.
LEMMA YetGrows ==
  ASSUME NEW l, NEW r, NEW a \in Askers, a \notin Ahead(l, r),
         \A b \in Askers : b \in Ahead(l, r)' <=> b \in Ahead(l, r) \/ b = a
  PROVE  Yet(l, r)' = Yet(l, r) + 1
<1>1. Ahead(l, r)' = Ahead(l, r) \cup {a}
  BY DEF Ahead
<1>2. IsFiniteSet(Ahead(l, r))
  BY YetType
<1>3. Cardinality(Ahead(l, r) \cup {a}) = Cardinality(Ahead(l, r)) + 1
  BY <1>2, FS_AddElement
<1> QED  BY <1>1, <1>3 DEF Yet

\* One that has written is one less.
LEMMA YetFalls ==
  ASSUME NEW l, NEW r, NEW a \in Askers, a \in Ahead(l, r),
         \A b \in Askers : b \in Ahead(l, r)' <=> b \in Ahead(l, r) /\ b # a
  PROVE  Yet(l, r)' = Yet(l, r) - 1
<1>1. Ahead(l, r)' = Ahead(l, r) \ {a}
  BY DEF Ahead
<1>2. IsFiniteSet(Ahead(l, r))
  BY YetType
<1>3. Cardinality(Ahead(l, r) \ {a}) = Cardinality(Ahead(l, r)) - 1
  BY <1>2, FS_RemoveElement
<1> QED  BY <1>1, <1>3 DEF Yet

\* The numbers that are counted.
LEMMA RowType ==
  ASSUME LabelTypes, NEW l \in 1..Made
  PROVE  lists[l] \in Labels /\ handed[l] \in Nat /\ \A r \in 1..Rows : lists[l][r] \in Nat
<1>1. lists[l] \in Labels /\ handed[l] \in Nat
  BY DEF LabelTypes, Made
<1>2. ASSUME NEW f \in Labels PROVE \A r \in 1..Rows : f[r] \in Nat
  BY DEF Labels
<1> QED  BY <1>1, <1>2

LEMMA RowSet ==
  ASSUME NEW f \in Labels, NEW k \in 1..Rows, NEW n \in Nat
  PROVE  /\ [f EXCEPT ![k] = n] \in Labels
         /\ \A r \in 1..Rows : [f EXCEPT ![k] = n][r] = IF r = k THEN n ELSE f[r]
BY DEF Labels

\* A list that is made leaves the others in their places.
LEMMA ListMade ==
  ASSUME LabelTypes, NEW new \in Labels, NEW n \in Nat,
         lists' = Append(lists, new), handed' = Append(handed, n)
  PROVE  /\ lists' \in Seq(Labels) /\ handed' \in Seq(Nat) /\ Len(handed)' = Made' /\ Made' = Made + 1 /\ Made \in Nat
         /\ lists'[Made + 1] = new /\ handed'[Made + 1] = n
         /\ \A l \in 1..Made : lists'[l] = lists[l] /\ handed'[l] = handed[l]
BY DEF LabelTypes, Made

\* An asker that is handed a list begins with its first row.
LEMMA AskSets ==
  ASSUME ask \in [Askers -> Asked], NEW a \in Askers, NEW held \in Nat
  PROVE  \E one \in Asked : Label(a, held) = [ask EXCEPT ![a] = one] /\ one.pc = "label" /\ one.row = 1 /\ one.list = held
<1>1. [ask[a] EXCEPT !.pc = "label", !.row = 1, !.list = held] \in Asked
  BY DEF Asked, LabelPlaces
<1> QED  BY <1>1 DEF Label, Asked

LEMMA LabelInitInv == LabelInit => LabelInv
<1> SUFFICES ASSUME LabelInit PROVE LabelInv
  OBVIOUS
<1>1. Made = 0 /\ 1..Made = {}
  BY DEF LabelInit, Made
<1>2. LabelTypes /\ Placed
  BY <1>1, LabelAssumption DEF LabelInit, LabelTypes, Placed, Labelling, Asked, Unasked, LabelPlaces, Made
<1>3. RowsCounted /\ ReadCounted /\ PutOn /\ MadeForTheCall
  BY <1>1, LabelAssumption DEF LabelInit, RowsCounted, ReadCounted, PutOn, Borne, Labelling, MadeForTheCall, Unasked
<1> QED  BY <1>2, <1>3 DEF LabelInv

\* An asker that neither begins nor ends a label changes nobody's count.
LEMMA AskerMoves ==
  ASSUME LabelInv, UNCHANGED <<shares, lists, handed, kept>>, writes' \in Nat,
         NEW a \in Askers, NEW one \in Asked, ask' = [ask EXCEPT ![a] = one],
         ~Labelling(a), one.pc \in {"idle", "stamped"}
  PROVE  LabelInv'
<1> USE DEF LabelInv
<1>1. \A b \in Askers : ask'[b] = IF b = a THEN one ELSE ask[b]
  BY DEF LabelTypes
<1>2. Made' = Made
  BY DEF Made
<1>3. LabelTypes'
  BY <1>2 DEF LabelTypes
<1>4. Placed'
  BY <1>1, <1>2 DEF Placed, Labelling
<1>5. ASSUME NEW l, NEW r PROVE Yet(l, r)' = Yet(l, r)
  BY <1>1, YetStays DEF Ahead, Labelling
<1>6. RowsCounted'
  BY <1>2, <1>5 DEF RowsCounted
<1>7. ReadCounted'
  <2> SUFFICES ASSUME NEW b \in Askers, NEW l \in 1..Made, NEW r \in 1..Rows,
                      ask'[b].pc = "write", ask'[b].list = l, ask'[b].row = r
               PROVE  ask'[b].was + Yet(l, r)' <= handed[l]
    BY <1>2 DEF ReadCounted
  <2>1. ask'[b] = ask[b]
    BY <1>1
  <2> QED  BY <1>5, <2>1 DEF ReadCounted
<1>8. PutOn'
  BY <1>1 DEF PutOn, Borne, Labelling
<1>9. MadeForTheCall'
  BY <1>1, <1>2 DEF MadeForTheCall
<1> QED  BY <1>3, <1>4, <1>6, <1>7, <1>8, <1>9

\* Handing out what is kept promises one more label to each of its rows.
LEMMA HandsKept ==
  ASSUME LabelInv, NEW a \in Askers, ask[a].pc \in {"stamped", "read"}, shares,
         NEW held \in 1..Made, HandOutKept(a, held), UNCHANGED <<shares, writes>>,
         kept' \in [list : Nat, stamp : Nat], kept'.list \in 0..Made
  PROVE  LabelInv'
<1> USE LabelAssumption DEF LabelInv
<1>1. PICK one \in Asked : /\ ask' = [ask EXCEPT ![a] = one]
                           /\ one.pc = "label" /\ one.row = 1 /\ one.list = held
  <2>1. held \in Nat /\ ask \in [Askers -> Asked] /\ ask' = Label(a, held)
    BY DEF HandOutKept, LabelTypes, Made
  <2>2. \E one \in Asked : Label(a, held) = [ask EXCEPT ![a] = one] /\ one.pc = "label" /\ one.row = 1 /\ one.list = held
    BY <2>1, AskSets
  <2> QED  BY <2>1, <2>2
<1>2. \A b \in Askers : ask'[b] = IF b = a THEN one ELSE ask[b]
  BY <1>1 DEF LabelTypes
<1>3. lists' = lists /\ Made' = Made /\ Made \in Nat /\ handed \in Seq(Nat) /\ Len(handed) = Made
  BY DEF HandOutKept, Made, LabelTypes
<1>4. handed' = [handed EXCEPT ![held] = @ + 1] /\ handed[held] \in Nat
  BY <1>3 DEF HandOutKept
<1>5. \A l \in 1..Made : handed'[l] = IF l = held THEN handed[l] + 1 ELSE handed[l]
  BY <1>3, <1>4
<1>6. LabelTypes'
  BY <1>1, <1>3, <1>4 DEF LabelTypes, Made
<1>7. Placed'
  BY <1>1, <1>2, <1>3 DEF Placed, Labelling
<1>8. ASSUME NEW l \in 1..Made, NEW r \in 1..Rows
      PROVE  Yet(l, r)' = IF l = held THEN Yet(l, r) + 1 ELSE Yet(l, r)
  <2>1. CASE l = held
    <3>1. a \notin Ahead(l, r)
      BY DEF Ahead, Labelling
    <3>2. \A b \in Askers : b \in Ahead(l, r)' <=> b \in Ahead(l, r) \/ b = a
      BY <1>1, <1>2, <2>1 DEF Ahead, Labelling
    <3> QED  BY <2>1, <3>1, <3>2, YetGrows
  <2>2. CASE l # held
    <3>1. \A b \in Askers : b \in Ahead(l, r)' <=> b \in Ahead(l, r)
      BY <1>1, <1>2, <2>2 DEF Ahead, Labelling
    <3> QED  BY <2>2, <3>1, YetStays
  <2> QED  BY <2>1, <2>2
<1>9. RowsCounted'
  <2> SUFFICES ASSUME NEW l \in 1..Made, NEW r \in 1..Rows PROVE lists'[l][r] + Yet(l, r)' <= handed'[l]
    BY <1>3 DEF RowsCounted
  <2>1. Yet(l, r) \in Nat /\ lists[l][r] \in Nat /\ handed[l] \in Nat
    BY YetType, RowType
  <2>2. lists[l][r] + Yet(l, r) <= handed[l]
    BY DEF RowsCounted
  <2>3. lists'[l][r] = lists[l][r] /\ handed'[l] = IF l = held THEN handed[l] + 1 ELSE handed[l]
    BY <1>3, <1>5
  <2>4. Yet(l, r)' = IF l = held THEN Yet(l, r) + 1 ELSE Yet(l, r)
    BY <1>8
  <2> QED  BY ONLY <2>1, <2>2, <2>3, <2>4
<1>10. ReadCounted'
  <2> SUFFICES ASSUME NEW b \in Askers, NEW l \in 1..Made, NEW r \in 1..Rows,
                      ask'[b].pc = "write", ask'[b].list = l, ask'[b].row = r
               PROVE  ask'[b].was + Yet(l, r)' <= handed'[l]
    BY <1>3 DEF ReadCounted
  <2>1. ask'[b] = ask[b] /\ ask[b].was \in Nat
    BY <1>1, <1>2 DEF LabelTypes, Asked
  <2>2. ask[b].was + Yet(l, r) <= handed[l]
    BY <2>1 DEF ReadCounted
  <2>3. Yet(l, r) \in Nat /\ handed[l] \in Nat
    BY <1>3, YetType
  <2> QED  BY <1>5, <1>8, <2>1, <2>2, <2>3
<1>11. PutOn'
  BY <1>1, <1>2, <1>3 DEF PutOn, Borne, Labelling
<1>12. MadeForTheCall'
  BY DEF MadeForTheCall
<1> QED  BY <1>6, <1>7, <1>9, <1>10, <1>11, <1>12

\* A list that is made bears nothing yet: n hand-outs, at most the asker's own label ahead.
LEMMA MakesList ==
  ASSUME LabelInv, NEW a \in Askers, ask[a].pc \in {"stamped", "read"}, UNCHANGED <<shares, writes>>,
         kept' \in [list : Nat, stamp : Nat], kept'.list \in 0..Made,
         kept'.list # 0 /\ ~shares => handed[kept'.list] = 0,
         NEW new \in Labels, \A r \in 1..Rows : new[r] = 0, NEW n \in {0, 1},
         lists' = Append(lists, new), handed' = Append(handed, n),
         NEW one \in Asked, ask' = [ask EXCEPT ![a] = one], one.list = Made + 1,
         \/ n = 0 /\ one.pc = "read"
         \/ n = 1 /\ one.pc = "label" /\ one.row = 1
  PROVE  LabelInv'
<1> USE LabelAssumption DEF LabelInv
<1>1. /\ lists' \in Seq(Labels) /\ handed' \in Seq(Nat) /\ Len(handed)' = Made' /\ Made' = Made + 1 /\ Made \in Nat
      /\ lists'[Made + 1] = new /\ handed'[Made + 1] = n
      /\ \A l \in 1..Made : lists'[l] = lists[l] /\ handed'[l] = handed[l]
  BY ListMade
<1>2. \A b \in Askers : ask'[b] = IF b = a THEN one ELSE ask[b]
  BY DEF LabelTypes
<1>3. LabelTypes'
  BY <1>1 DEF LabelTypes
<1>4. Placed'
  BY <1>1, <1>2 DEF Placed, Labelling
<1>5. ASSUME NEW l \in 1..Made, NEW r PROVE Yet(l, r)' = Yet(l, r)
  <2>1. \A b \in Askers : b \in Ahead(l, r)' <=> b \in Ahead(l, r)
    BY <1>1, <1>2 DEF Ahead, Labelling
  <2> QED  BY <2>1, YetStays
<1>6. PICK top \in Nat : top = Made + 1
  BY <1>1
<1>7. ASSUME NEW r \in 1..Rows PROVE Yet(top, r)' <= n /\ Yet(top, r)' \in Nat
  <2>1. \A b \in Askers : ~(Labelling(b) /\ ask[b].list = top)
    BY <1>1, <1>6 DEF Placed, Labelling
  <2>2. CASE n = 0
    <3>1. Ahead(top, r)' = {}
      BY <1>2, <2>1, <2>2 DEF Ahead, Labelling
    <3>2. Yet(top, r)' = 0
      BY <3>1, FS_EmptySet DEF Yet
    <3> QED  BY <2>2, <3>2
  <2>3. CASE n = 1
    <3>1. Ahead(top, r)' = {a}
      BY <1>2, <1>6, <2>1, <2>3 DEF Ahead, Labelling
    <3>2. Yet(top, r)' = 1
      BY <3>1, FS_Singleton DEF Yet
    <3> QED  BY <2>3, <3>2
  <2> QED  BY <2>2, <2>3
<1>8. RowsCounted' /\ ReadCounted'
  <2>1. ASSUME NEW l \in 1..top, NEW r \in 1..Rows PROVE lists'[l][r] + Yet(l, r)' <= handed'[l]
    <3>1. CASE l = top
      <4>1. lists'[l][r] = 0 /\ handed'[l] = n
        BY <1>1, <1>6, <3>1
      <4>2. Yet(l, r)' <= n /\ Yet(l, r)' \in Nat
        BY <1>7, <3>1
      <4> QED  BY ONLY <4>1, <4>2, n \in {0, 1}
    <3>2. CASE l \in 1..Made
      <4>1. lists'[l] = lists[l] /\ handed'[l] = handed[l]
        BY <1>1, <3>2
      <4>2. Yet(l, r)' = Yet(l, r)
        BY <1>5, <3>2
      <4>3. lists[l][r] + Yet(l, r) <= handed[l]
        BY <3>2 DEF RowsCounted
      <4> QED  BY <4>1, <4>2, <4>3
    <3>3. l = top \/ l \in 1..Made
      BY <1>1, <1>6
    <3> QED  BY <3>1, <3>2, <3>3
  <2>2. ASSUME NEW b \in Askers, NEW l \in 1..top, NEW r \in 1..Rows,
               ask'[b].pc = "write", ask'[b].list = l, ask'[b].row = r
        PROVE  ask'[b].was + Yet(l, r)' <= handed'[l]
    <3>1. ask'[b] = ask[b]
      BY <1>2, <2>2
    <3>2. l \in 1..Made
      BY <2>2, <3>1 DEF Placed, Labelling
    <3> QED  BY <1>1, <1>5, <2>2, <3>1, <3>2 DEF ReadCounted
  <2>3. Made' = top
    BY <1>1, <1>6
  <2> QED  BY <2>1, <2>2, <2>3 DEF RowsCounted, ReadCounted
<1>9. PutOn'
  <2> SUFFICES ASSUME NEW b \in Askers, NEW r \in 1..Rows, Borne(b, r)'
               PROVE  lists'[ask'[b].list][r] >= 1
    BY DEF PutOn
  <2>1. b # a
    BY <1>2 DEF Borne, Labelling
  <2>2. Borne(b, r) /\ ask'[b] = ask[b] /\ ask[b].list \in 1..Made
    BY <1>2, <2>1 DEF Borne, Labelling, Placed
  <2> QED  BY <1>1, <2>2 DEF PutOn
<1>10. MadeForTheCall'
  <2> SUFFICES ASSUME ~shares PROVE MadeForTheCall'
    BY DEF MadeForTheCall
  <2>1. \A l \in 1..(Made + 1) : handed'[l] <= 1
    BY <1>1 DEF MadeForTheCall
  <2>2. kept'.list # 0 => handed'[kept'.list] = 0
    BY <1>1
  <2>3. \A b \in Askers : ask'[b].pc = "read" => handed'[ask'[b].list] = 0
    BY <1>1, <1>2 DEF MadeForTheCall, Placed
  <2> QED  BY <1>1, <2>1, <2>2, <2>3 DEF MadeForTheCall
<1> QED  BY <1>3, <1>4, <1>7, <1>8, <1>9, <1>10

\* Handing out: what is kept, or in a source that makes its rows a copy of what
\* has never been handed out.
LEMMA HandsOut ==
  ASSUME LabelInv, NEW a \in Askers, ask[a].pc \in {"stamped", "read"}, UNCHANGED <<shares, writes>>,
         NEW held \in 1..Made, HandOut(a, held), ~shares => handed[held] = 0,
         kept' \in [list : Nat, stamp : Nat], kept'.list = held
  PROVE  LabelInv'
<1> USE LabelAssumption DEF LabelInv
<1>1. CASE shares
  BY <1>1, HandsKept DEF HandOut
<1>2. CASE ~shares
  <2>1. HandOutCopy(a, held)
    BY <1>2 DEF HandOut
  <2>2. PICK one \in Asked : ask' = [ask EXCEPT ![a] = one] /\ one.list = Made + 1 /\ one.pc = "label" /\ one.row = 1
    <3>1. Made + 1 \in Nat /\ ask \in [Askers -> Asked] /\ ask' = Label(a, Made + 1)
      BY <2>1 DEF HandOutCopy, LabelTypes, Made
    <3>2. PICK top \in Nat : top = Made + 1
      BY <3>1
    <3>3. \E one \in Asked : Label(a, top) = [ask EXCEPT ![a] = one] /\ one.pc = "label" /\ one.row = 1 /\ one.list = top
      <4>1. ask \in [Askers -> Asked]
        BY <3>1
      <4>2. top \in Nat
        BY <3>2
      <4> QED  BY <4>1, <4>2, AskSets
    <3> QED  BY <3>1, <3>2, <3>3, Zenon
  <2>3. lists[held] \in Labels /\ lists' = Append(lists, lists[held]) /\ handed' = Append(handed, 1)
    BY <2>1 DEF HandOutCopy, LabelTypes, Made
  <2>4. \A r \in 1..Rows : lists[held][r] = 0
    <3> SUFFICES ASSUME NEW r \in 1..Rows PROVE lists[held][r] = 0
      OBVIOUS
    <3>1. lists[held][r] + Yet(held, r) <= 0 /\ lists[held][r] \in Nat /\ Yet(held, r) \in Nat
      BY <1>2, <2>3, YetType DEF RowsCounted, Labels
    <3> QED  BY <3>1
  <2>5. held \in 0..Made
    OBVIOUS
  <2> QED  BY <1>2, <2>2, <2>3, <2>4, <2>5, MakesList
<1> QED  BY <1>1, <1>2

LEMMA LabelStepInv == LabelInv /\ [LabelNext]_labelVars => LabelInv'
<1> SUFFICES ASSUME LabelInv, [LabelNext]_labelVars PROVE LabelInv'
  OBVIOUS
<1> USE LabelAssumption DEF LabelInv
<1>1. ASSUME WriteStore \/ UNCHANGED labelVars PROVE LabelInv'
  <2>1. UNCHANGED <<shares, lists, handed, kept, ask>> /\ writes' \in Nat
    BY <1>1 DEF WriteStore, labelVars, LabelTypes
  <2>2. Made' = Made /\ LabelTypes'
    BY <2>1 DEF LabelTypes, Made
  <2>3. Placed' /\ PutOn' /\ MadeForTheCall'
    BY <2>1, <2>2 DEF Placed, PutOn, MadeForTheCall, Borne, Labelling
  <2>4. RowsCounted' /\ ReadCounted'
    BY <2>1, <2>2 DEF RowsCounted, ReadCounted, Yet, Ahead, Labelling
  <2> QED  BY <2>2, <2>3, <2>4
<1>2. ASSUME NEW a \in Askers, Stamp(a) \/ Finish(a) PROVE LabelInv'
  <2>1. /\ UNCHANGED <<shares, lists, handed, kept, writes>> /\ ~Labelling(a) /\ writes \in Nat
        /\ \/ ask' = [ask EXCEPT ![a] = Unasked]
           \/ ask' = [ask EXCEPT ![a] = [Unasked EXCEPT !.pc = "stamped", !.stamp = writes]]
    BY <1>2 DEF Stamp, Finish, Labelling, LabelTypes
  <2>2. PICK one \in Asked : ask' = [ask EXCEPT ![a] = one] /\ one.pc \in {"idle", "stamped"}
    <3>1. Unasked \in Asked /\ [Unasked EXCEPT !.pc = "stamped", !.stamp = writes] \in Asked
      BY <2>1 DEF Unasked, Asked, LabelPlaces
    <3> QED  BY <2>1, <3>1 DEF Unasked
  <2> QED  BY <2>1, <2>2, AskerMoves
<1>3. ASSUME NEW a \in Askers, ListKept(a) PROVE LabelInv'
  <2>1. kept.list \in 1..Made /\ UNCHANGED <<shares, writes, kept>> /\ HandOut(a, kept.list) /\ ask[a].pc = "stamped"
    BY <1>3 DEF ListKept, Unmoved, Placed, LabelTypes, Made
  <2>2. ~shares => handed[kept.list] = 0
    BY <2>1 DEF MadeForTheCall
  <2>3. kept' \in [list : Nat, stamp : Nat] /\ kept'.list = kept.list
    BY <2>1 DEF LabelTypes
  <2> HIDE DEF LabelInv
  <2> QED  BY <2>1, <2>2, <2>3, HandsOut
<1>4. ASSUME NEW a \in Askers, ReadList(a) PROVE LabelInv'
  <2>1. PICK one \in Asked : ask' = [ask EXCEPT ![a] = one] /\ one.list = Made + 1 /\ one.pc = "read"
    <3>1. ask' = [ask EXCEPT ![a].pc = "read", ![a].list = Made + 1] /\ ask \in [Askers -> Asked] /\ Made + 1 \in Nat
      BY <1>4 DEF ReadList, LabelTypes, Made
    <3>2. [ask[a] EXCEPT !.pc = "read", !.list = Made + 1] \in Asked
      BY <3>1 DEF Asked, LabelPlaces
    <3> QED  BY <3>1, <3>2 DEF Asked
  <2>2. Unlabelled \in Labels /\ \A r \in 1..Rows : Unlabelled[r] = 0
    BY DEF Unlabelled, Labels
  <2>3. /\ lists' = Append(lists, Unlabelled) /\ handed' = Append(handed, 0) /\ UNCHANGED <<shares, writes, kept>>
        /\ ask[a].pc = "stamped"
    BY <1>4 DEF ReadList
  <2>4. kept' \in [list : Nat, stamp : Nat] /\ kept'.list \in 0..Made /\ (kept'.list # 0 /\ ~shares => handed[kept'.list] = 0)
    BY <2>3 DEF LabelTypes, Placed, MadeForTheCall
  <2> QED  BY <2>1, <2>2, <2>3, <2>4, MakesList
<1>5. ASSUME NEW a \in Askers, KeepList(a) PROVE LabelInv'
  <2>1. ask[a].list \in 1..Made /\ UNCHANGED <<shares, writes>> /\ HandOut(a, ask[a].list) /\ ask[a].pc = "read"
    BY <1>5 DEF KeepList, Placed
  <2>2. ~shares => handed[ask[a].list] = 0
    BY <2>1 DEF MadeForTheCall
  <2>3. kept' \in [list : Nat, stamp : Nat] /\ kept'.list = ask[a].list
    BY <1>5 DEF KeepList, LabelTypes, Asked
  <2> HIDE DEF LabelInv
  <2> QED  BY <2>1, <2>2, <2>3, HandsOut
<1>6. ASSUME NEW a \in Askers, LoadRow(a) PROVE LabelInv'
  <2> DEFINE one == [ask[a] EXCEPT !.pc = "write", !.was = lists[ask[a].list][ask[a].row]]
  <2>1. PICK l \in 1..Made, k \in 1..Rows : l = ask[a].list /\ k = ask[a].row
    BY <1>6 DEF LoadRow, Placed, Labelling
  <2>13. Labelling(a) /\ ask[a] \in Asked /\ lists[l][k] \in Nat
    BY <1>6, <2>1, RowType DEF LoadRow, Labelling, LabelTypes
  <2>2. one \in Asked /\ one.pc = "write" /\ one.was = lists[l][k] /\ one.list = l /\ one.row = k
    BY <2>1, <2>13 DEF Asked, LabelPlaces
  <2>3. ask' = [ask EXCEPT ![a] = one] /\ UNCHANGED <<shares, writes, lists, handed, kept>>
    BY <1>6 DEF LoadRow
  <2> HIDE DEF one
  <2>4. Made' = Made /\ \A b \in Askers : ask'[b] = IF b = a THEN one ELSE ask[b]
    BY <2>3 DEF Made, LabelTypes
  <2>5. LabelTypes'
    BY <2>2, <2>3, <2>4 DEF LabelTypes
  <2>6. Placed'
    BY <2>1, <2>2, <2>3, <2>4, <2>13 DEF Placed, Labelling
  <2>7. \A b \in Askers : /\ Labelling(b)' <=> Labelling(b)
                          /\ ask'[b].list = ask[b].list /\ ask'[b].row = ask[b].row
    BY <2>1, <2>2, <2>4, <2>13 DEF Labelling
  <2>8. ASSUME NEW m, NEW r PROVE Yet(m, r)' = Yet(m, r)
    BY <2>7, YetStays DEF Ahead
  <2>9. RowsCounted'
    BY <2>3, <2>4, <2>8 DEF RowsCounted
  <2>10. ReadCounted'
    <3> SUFFICES ASSUME NEW b \in Askers, NEW m \in 1..Made, NEW r \in 1..Rows,
                        ask'[b].pc = "write", ask'[b].list = m, ask'[b].row = r
                 PROVE  ask'[b].was + Yet(m, r)' <= handed'[m]
      BY <2>4 DEF ReadCounted
    <3>1. CASE b = a
      BY <2>1, <2>2, <2>3, <2>4, <2>8, <3>1 DEF RowsCounted
    <3>2. CASE b # a
      BY <2>3, <2>4, <2>8, <3>2 DEF ReadCounted
    <3> QED  BY <3>1, <3>2
  <2>11. PutOn'
    <3>1. \A b \in Askers : ask'[b].pc = "reading" <=> ask[b].pc = "reading"
      BY <1>6, <2>2, <2>4 DEF LoadRow
    <3> QED  BY <2>3, <2>7, <3>1 DEF PutOn, Borne
  <2>12. MadeForTheCall'
    BY <2>2, <2>3, <2>4 DEF MadeForTheCall
  <2> QED  BY <2>5, <2>6, <2>9, <2>10, <2>11, <2>12
<1>7. ASSUME NEW a \in Askers, StoreRow(a) PROVE LabelInv'
  <2>1. PICK l \in 1..Made, k \in 1..Rows, w \in Nat : l = ask[a].list /\ k = ask[a].row /\ w = ask[a].was
    BY <1>7 DEF StoreRow, Placed, Labelling, LabelTypes, Asked
  <2>19. Labelling(a) /\ ask[a] \in Asked /\ ask[a].pc = "write"
    BY <1>7 DEF StoreRow, Labelling, LabelTypes
  <2> DEFINE one == IF k = Rows THEN [ask[a] EXCEPT !.pc = "reading"] ELSE [ask[a] EXCEPT !.pc = "label", !.row = k + 1]
  <2>2. one \in Asked /\ one.list = l
    <3>1. [ask[a] EXCEPT !.pc = "reading"] \in Asked /\ [ask[a] EXCEPT !.pc = "label", !.row = k + 1] \in Asked
      <4>1. k + 1 \in Nat /\ ask[a] \in Asked
        BY <2>1, <2>19
      <4> QED  BY ONLY <4>1 DEF Asked, LabelPlaces
    <3> QED  BY <2>1, <2>19, <3>1 DEF Asked
  <2>3. \/ k = Rows /\ one.pc = "reading"
        \/ k < Rows /\ one.pc = "label" /\ one.row = k + 1
    BY <2>1, <2>19 DEF Asked
  <2>4. /\ ask' = [ask EXCEPT ![a] = one] /\ UNCHANGED <<shares, writes, handed, kept>>
        /\ lists' = [lists EXCEPT ![l][k] = w + 1]
    BY <1>7, <2>1 DEF StoreRow
  <2> HIDE DEF one
  <2>5. \A b \in Askers : ask'[b] = IF b = a THEN one ELSE ask[b]
    BY <2>4 DEF LabelTypes
  <2>6. lists \in Seq(Labels) /\ Made \in Nat /\ lists[l] \in Labels /\ handed \in Seq(Nat) /\ Len(handed) = Made
    BY <2>1, RowType DEF LabelTypes, Made
  <2>20. PICK row \in Labels : row = [lists[l] EXCEPT ![k] = w + 1]
    <3>1. w + 1 \in Nat /\ lists[l] \in Labels /\ k \in 1..Rows
      BY <2>1, <2>6
    <3> QED  BY ONLY <3>1, RowSet
  <2>21. \A r \in 1..Rows : row[r] = IF r = k THEN w + 1 ELSE lists[l][r]
    BY <2>1, <2>6, <2>20, RowSet
  <2>7. lists' = [lists EXCEPT ![l] = row]
    BY <2>4, <2>20
  <2>8. lists' \in Seq(Labels) /\ Made' = Made
    BY <2>1, <2>6, <2>7 DEF Made
  <2>9. \A m \in 1..Made, r \in 1..Rows : lists'[m][r] = IF m = l /\ r = k THEN w + 1 ELSE lists[m][r]
    BY <2>1, <2>6, <2>7, <2>21 DEF Made
  <2>10. LabelTypes'
    BY <2>2, <2>4, <2>8 DEF LabelTypes
  <2>11. Placed'
    BY <2>1, <2>2, <2>3, <2>4, <2>5, <2>8 DEF Placed, Labelling
  <2>12. a \in Ahead(l, k)
    BY <2>1, <2>19 DEF Ahead
  <2>13. ASSUME NEW m \in 1..Made, NEW r \in 1..Rows
         PROVE  Yet(m, r)' = IF m = l /\ r = k THEN Yet(m, r) - 1 ELSE Yet(m, r)
    <3>1. CASE m = l /\ r = k
      <4>1. \A b \in Askers : b \in Ahead(m, r)' <=> b \in Ahead(m, r) /\ b # a
        BY <2>1, <2>3, <2>5, <2>19, <3>1 DEF Ahead, Labelling
      <4>2. a \in Ahead(m, r)
        BY <2>12, <3>1
      <4>3. Yet(m, r)' = Yet(m, r) - 1
        BY <4>1, <4>2, YetFalls
      <4> QED  BY <3>1, <4>3
    <3>2. CASE ~(m = l /\ r = k)
      <4>1. \A b \in Askers : b \in Ahead(m, r)' <=> b \in Ahead(m, r)
        BY <2>1, <2>2, <2>3, <2>5, <2>19, <3>2 DEF Ahead, Labelling
      <4>2. Yet(m, r)' = Yet(m, r)
        BY <4>1, YetStays
      <4> QED  BY <3>2, <4>2
    <3> QED  BY <3>1, <3>2
  <2>14. w + Yet(l, k) <= handed[l] /\ Yet(l, k) \in Nat /\ handed[l] \in Nat
    <3>1. Yet(l, k) \in Nat /\ handed[l] \in Nat
      BY YetType, RowType
    <3> QED  BY <2>1, <2>19, <3>1 DEF ReadCounted
  <2>15. RowsCounted'
    <3> SUFFICES ASSUME NEW m \in 1..Made, NEW r \in 1..Rows PROVE lists'[m][r] + Yet(m, r)' <= handed[m]
      BY <2>4, <2>8 DEF RowsCounted
    <3>1. CASE m = l /\ r = k
      BY <2>1, <2>9, <2>13, <2>14, <3>1
    <3>2. CASE ~(m = l /\ r = k)
      BY <2>9, <2>13, <3>2 DEF RowsCounted
    <3> QED  BY <3>1, <3>2
  <2>16. ReadCounted'
    <3> SUFFICES ASSUME NEW b \in Askers, NEW m \in 1..Made, NEW r \in 1..Rows,
                        ask'[b].pc = "write", ask'[b].list = m, ask'[b].row = r
                 PROVE  ask'[b].was + Yet(m, r)' <= handed[m]
      BY <2>4, <2>8 DEF ReadCounted
    <3>1. b # a /\ ask'[b] = ask[b] /\ ask[b].was \in Nat
      BY <2>3, <2>5 DEF LabelTypes, Asked
    <3>2. ask[b].was + Yet(m, r) <= handed[m] /\ Yet(m, r) \in Nat /\ handed[m] \in Nat
      BY <2>6, <3>1, YetType DEF ReadCounted
    <3>3. Yet(m, r)' <= Yet(m, r) /\ Yet(m, r)' \in Int
      BY <2>13, <3>2
    <3> QED  BY <3>1, <3>2, <3>3
  <2>17. PutOn'
    <3> SUFFICES ASSUME NEW b \in Askers, NEW r \in 1..Rows, Borne(b, r)'
                 PROVE  lists'[ask'[b].list][r] >= 1
      BY DEF PutOn
    <3>2. Borne(b, r) \/ (b = a /\ r = k)
      BY <2>1, <2>3, <2>5, <2>19 DEF Borne, Labelling
    <3>1. ask'[b].list = ask[b].list /\ ask[b].list \in 1..Made
      BY <2>1, <2>2, <2>5, <2>19, <3>2 DEF Placed, Labelling, Borne
    <3> QED  BY <2>1, <2>9, <3>1, <3>2 DEF PutOn
  <2>18. MadeForTheCall'
    BY <2>3, <2>4, <2>5, <2>8 DEF MadeForTheCall
  <2> QED  BY <2>10, <2>11, <2>15, <2>16, <2>17, <2>18
<1> QED
  BY <1>1, <1>2, <1>3, <1>4, <1>5, <1>6, <1>7 DEF LabelNext

\* Whatever a labelled instance wraps, a row that List hands to an asker bears a
\* label and no more of them than its list was handed out, one where the source
\* makes its rows: for any number of askers, lists, rows, hand-outs and writes of
\* the store, and any order of the unguarded reads and writes of a shared row.
THEOREM LabelsAreCounted == LabelSpec => []LabelsPerHandOut
<1>1. LabelInit => LabelInv
  BY LabelInitInv
<1>2. LabelInv /\ [LabelNext]_labelVars => LabelInv'
  BY LabelStepInv
<1>3. LabelInv => LabelsPerHandOut
  <2> SUFFICES ASSUME LabelInv, NEW a \in Askers, ask[a].pc = "reading", NEW r \in 1..Rows
               PROVE  /\ lists[ask[a].list][r] \in 1..handed[ask[a].list]
                      /\ ~shares => lists[ask[a].list][r] = 1
    BY DEF LabelsPerHandOut
  <2> DEFINE l == ask[a].list
  <2>4. l \in 1..Made
    BY DEF LabelInv, Placed
  <2>1. lists[l][r] \in Nat /\ handed[l] \in Nat /\ Yet(l, r) \in Nat
    BY <2>4, YetType, RowType DEF LabelInv
  <2>2. lists[l][r] >= 1 /\ lists[l][r] + Yet(l, r) <= handed[l]
    BY <2>4 DEF LabelInv, PutOn, Borne, RowsCounted
  <2>3. ~shares => handed[l] <= 1
    BY <2>4 DEF LabelInv, MadeForTheCall
  <2> QED  BY <2>1, <2>2, <2>3
<1> QED
  BY <1>1, <1>2, <1>3, PTL DEF LabelSpec

-----------------------------------------------------------------------------
(***************************************************************************)
(* Opening a row by its name.  A row and its id have the best rank there   *)
(* is, so only rows of that id compete, one to a source; the row's own     *)
(* source is asked before its labelled ones.  And the agents under an      *)
(* agent: a shortest chain of spawns meets no agent twice, so it has fewer *)
(* hops than there are agents, and descendsFrom walks it to its end.       *)
(***************************************************************************)

Smallest(S, n) == n \in S /\ \A x \in S : n <= x

\* Min chooses; of ranks it chooses the least.
LEMMA MinOfRanks ==
  ASSUME NEW S \in SUBSET (1..6), 6 \in S
  PROVE  Smallest(S, Min(S)) /\ Min(S) \in 1..6
<1>1. \E n \in S : \A x \in S : n <= x
  <2>1. CASE 1 \in S
    BY <2>1
  <2>2. CASE 1 \notin S /\ 2 \in S
    BY <2>2
  <2>3. CASE 1 \notin S /\ 2 \notin S /\ 3 \in S
    BY <2>3
  <2>4. CASE 1 \notin S /\ 2 \notin S /\ 3 \notin S /\ 4 \in S
    BY <2>4
  <2>5. CASE 1 \notin S /\ 2 \notin S /\ 3 \notin S /\ 4 \notin S /\ 5 \in S
    BY <2>5
  <2>6. CASE 1 \notin S /\ 2 \notin S /\ 3 \notin S /\ 4 \notin S /\ 5 \notin S
    BY <2>6
  <2> QED  BY <2>1, <2>2, <2>3, <2>4, <2>5, <2>6
<1>2. Min(S) \in S /\ \A x \in S : Min(S) <= x
  BY <1>1 DEF Min
<1> QED  BY <1>2 DEF Smallest

\* The best rank is that of a session whose id is the name.
LEMMA RankIs ==
  ASSUME NEW r, NEW name
  PROVE  MatchRank(r, name) \in 1..6 /\ (MatchRank(r, name) = 1 <=> name = r.sid)
<1> DEFINE ranks == Ranks(r, name)
           S == {n \in 1..5 : ranks[n]} \cup {6}
<1>1. ranks[1] = (name = r.sid)
  BY DEF Ranks
<1>2. MatchRank(r, name) = Min(S)
  BY DEF MatchRank
<1>3. 1 \in S <=> name = r.sid
  <2>1. 1 \in S <=> ranks[1]
    <3> HIDE DEF ranks
    <3> QED  OBVIOUS
  <2> QED  BY <1>1, <2>1
<1>4. S \in SUBSET (1..6) /\ 6 \in S
  OBVIOUS
<1> HIDE DEF S
<1>5. Smallest(S, Min(S)) /\ Min(S) \in 1..6
  BY <1>4, MinOfRanks
<1>6. Min(S) = 1 <=> 1 \in S
  BY <1>5 DEF Smallest
<1> QED  BY <1>2, <1>3, <1>5, <1>6

-----------------------------------------------------------------------------
Modes == Range(SourceModes)

\* What a source lists is its own, each under an id of its own.
ListsInv ==
  /\ DOMAIN shown = Modes
  /\ \A m \in Modes :
       /\ shown[m] \in Seq(Range(shown[m])) /\ DOMAIN shown[m] = 1..Len(shown[m]) /\ Len(shown[m]) \in Nat
       /\ \A n \in DOMAIN shown[m] :
            /\ shown[m][n].mode = m /\ shown[m][n].sid \in Ids
       /\ \A k, n \in DOMAIN shown[m] : shown[m][k].sid = shown[m][n].sid => k = n

\* A set of numbers has a least one.
LEMMA LeastOf == ASSUME NEW T \in SUBSET Nat, T # {}
  PROVE \E x \in T : \A y \in T : x <= y
<1> DEFINE R == {ss \in Nat \X Nat : ss[1] < ss[2]}
<1>1. IsWellFoundedOn(R, Nat)
  BY NatLessThanWellFounded DEF OpToRel
<1>3. \A x, y \in Nat : y < x => <<y, x>> \in R
  OBVIOUS
<1>2. \E x \in T : \A y \in T : ~(<<y, x>> \in R)
  <2> HIDE DEF R
  <2>1. T \subseteq Nat
    OBVIOUS
  <2> QED  BY ONLY <1>1, <2>1, T # {}, WFMin, Zenon
<1> HIDE DEF R
<1>4. PICK x \in T : \A y \in T : ~(<<y, x>> \in R)
  BY <1>2
<1>5. \A y \in T : ~(y < x)
  BY <1>3, <1>4, Zenon
<1>6. \A y \in T : x <= y
  BY <1>5
<1> QED  BY <1>6

\* A chain of spawns, from an agent up to one that the agent of this id spawned
Chain(up, hops, a, id, agents) ==
  /\ up \in [0..hops -> agents] /\ up[0] = a
  /\ \A n \in 1..hops : up[n].sid = up[n - 1].agent
  /\ up[hops].agent = id

\* The shortest chain meets no agent twice, so there are more agents than hops.
LEMMA ShortChain ==
  ASSUME NEW agents, IsFiniteSet(agents), NEW a, NEW id, NEW h \in Nat, NEW f, Chain(f, h, a, id, agents)
  PROVE  \E k \in Nat : \E g : Chain(g, k, a, id, agents) /\ k + 1 <= Cardinality(agents)
<1> DEFINE T == {k \in Nat : \E g : Chain(g, k, a, id, agents)}
<1>1. T \in SUBSET Nat /\ T # {}
  OBVIOUS
<1>2. PICK k \in T : \A x \in T : k <= x
  BY <1>1, LeastOf
<1>3. PICK g : Chain(g, k, a, id, agents)
  BY <1>2
<1>4. k \in Nat
  OBVIOUS
<1>5. ASSUME NEW i \in 0..k, NEW j \in 0..k, i < j, g[i] = g[j] PROVE FALSE
  <2>1. PICK d \in Nat : d = j - i /\ d > 0 /\ d <= k
    BY <1>4, <1>5
  <2>2. PICK e \in Nat : e = k - d /\ e < k /\ i <= e
    BY <1>4, <1>5, <2>1
  <2> DEFINE s == [n \in 0..e |-> IF n <= i THEN g[n] ELSE g[n + d]]
  <2>3. g \in [0..k -> agents] /\ g[0] = a /\ (\A n \in 1..k : g[n].sid = g[n - 1].agent) /\ g[k].agent = id
    BY <1>3 DEF Chain
  <2>4. \A n \in 0..e : n \in 0..k /\ n + d \in 0..k
    BY <1>4, <2>1, <2>2
  <2>5. s \in [0..e -> agents]
    BY <2>3, <2>4
  <2>6. s[0] = a
    BY <1>5, <2>2, <2>3
  <2>7. ASSUME NEW n \in 1..e PROVE s[n].sid = s[n - 1].agent
    <3>0. n \in 0..e /\ n - 1 \in 0..e
      BY <2>2
    <3>1. CASE n <= i
      <4>1. s[n] = g[n] /\ s[n - 1] = g[n - 1] /\ n \in 1..k
        BY <1>4, <1>5, <2>2, <3>0, <3>1
      <4> QED  BY <2>3, <4>1
    <3>2. CASE n = i + 1
      <4>1. n + d = j + 1 /\ n + d \in 1..k /\ (n + d) - 1 = j /\ n - 1 = i
        BY <1>4, <1>5, <2>1, <2>2, <3>2
      <4>2. s[n] = g[n + d] /\ s[n - 1] = g[i]
        BY <1>5, <2>2, <3>0, <3>2
      <4>3. g[n + d].sid = g[j].agent
        BY <2>3, <4>1
      <4> QED  BY <1>5, <4>2, <4>3
    <3>3. CASE n > i + 1
      <4>1. n + d \in 1..k /\ (n + d) - 1 = (n - 1) + d
        BY <1>4, <1>5, <2>1, <2>2, <3>3
      <4>2. s[n] = g[n + d] /\ s[n - 1] = g[(n - 1) + d]
        BY <1>5, <2>2, <3>0, <3>3
      <4>3. g[n + d].sid = g[(n - 1) + d].agent
        BY <2>3, <4>1
      <4> QED  BY <4>2, <4>3
    <3> QED  BY <1>5, <3>1, <3>2, <3>3
  <2>8. s[e].agent = id
    <3>1. e \in 0..e /\ e + d = k
      BY <1>4, <2>1, <2>2
    <3>2. CASE e <= i
      <4>1. e = i /\ j = k
        BY <1>4, <1>5, <2>1, <2>2, <3>2
      <4> QED  BY <1>5, <2>3, <3>1, <4>1
    <3>3. CASE ~(e <= i)
      BY <2>3, <3>1, <3>3
    <3> QED  BY <3>2, <3>3
  <2> HIDE DEF s
  <2>9. Chain(s, e, a, id, agents)
    BY <2>5, <2>6, <2>7, <2>8 DEF Chain
  <2>10. e \in T
    BY <2>9
  <2> QED  BY <1>2, <1>4, <2>2, <2>10
<1>6. g \in Injection(0..k, agents)
  <2>1. g \in [0..k -> agents]
    BY <1>3 DEF Chain
  <2>2. ASSUME NEW i \in 0..k, NEW j \in 0..k, g[i] = g[j] PROVE i = j
    BY <1>5, <2>2
  <2> QED  BY <2>1, <2>2 DEF Injection, IsInjective
<1>7. Cardinality(0..k) <= Cardinality(agents)
  BY <1>6, FS_Injection
<1>8. Cardinality(0..k) = k + 1
  <2>1. 0 \in Int /\ k \in Int
    BY <1>4
  <2>2. Cardinality(0..k) = IF 0 > k THEN 0 ELSE k - 0 + 1
    BY <2>1, FS_Interval, Zenon
  <2> QED  BY <1>4, <2>2
<1> QED  BY <1>3, <1>4, <1>7, <1>8

\* descendsFrom looks for such a chain, of as many hops as there are agents.
LEMMA DescendsIs ==
  ASSUME NEW a, NEW id, NEW agents
  PROVE  DescendsFrom(a, id, agents) <=> \E h \in 0..Cardinality(agents) : \E f : Chain(f, h, a, id, agents)
BY DEF DescendsFrom, Chain

\* Those found by going up are the least set that has the agents it spawned and, with an
\* agent, those that one spawned.
LEMMA UnderIsLeast ==
  ASSUME NEW agents, IsFiniteSet(agents), NEW id
  PROVE  LET under == {a \in agents : DescendsFrom(a, id, agents)}
             Closed(S) == \A a \in agents : a.agent \in {id} \cup {b.sid : b \in S} => a \in S
         IN Closed(under) /\ \A S \in SUBSET agents : Closed(S) => under \subseteq S
<1> DEFINE under == {a \in agents : DescendsFrom(a, id, agents)}
           Closed(S) == \A a \in agents : a.agent \in {id} \cup {b.sid : b \in S} => a \in S
           C == Cardinality(agents)
<1>0. C \in Nat
  BY FS_CardinalityType
<1>1. ASSUME NEW a \in agents, a.agent = id PROVE a \in under
  <2>1. Chain([n \in 0..0 |-> a], 0, a, id, agents)
    BY <1>1 DEF Chain
  <2>2. 0 \in 0..C
    BY <1>0
  <2> QED  BY <2>1, <2>2, DescendsIs
<1>2. ASSUME NEW a \in agents, NEW b \in under, a.agent = b.sid PROVE a \in under
  <2>1. PICK h \in 0..C : \E f : Chain(f, h, b, id, agents)
    BY DescendsIs
  <2>2. h \in Nat
    BY <1>0
  <2>3. PICK k \in Nat : \E g : Chain(g, k, b, id, agents) /\ k + 1 <= C
    BY <2>1, <2>2, ShortChain
  <2>g. PICK g : Chain(g, k, b, id, agents)
    BY <2>3
  <2>4. g \in [0..k -> agents] /\ g[0] = b /\ (\A n \in 1..k : g[n].sid = g[n - 1].agent) /\ g[k].agent = id
    BY <2>g DEF Chain
  <2>5. PICK m \in Nat : m = k + 1
    OBVIOUS
  <2> DEFINE q == [n \in 0..m |-> IF n = 0 THEN a ELSE g[n - 1]]
  <2>6. q \in [0..m -> agents]
    <3>1. \A n \in 0..m : n # 0 => n - 1 \in 0..k
      BY <2>5
    <3> QED  BY <2>4, <3>1
  <2>7. q[0] = a /\ q[m].agent = id
    <3>1. m \in 0..m /\ 0 \in 0..m /\ m # 0 /\ m - 1 = k
      BY <2>5
    <3> QED  BY <2>4, <3>1
  <2>8. ASSUME NEW n \in 1..m PROVE q[n].sid = q[n - 1].agent
    <3>1. n \in 0..m /\ n - 1 \in 0..m /\ n # 0 /\ q[n] = g[n - 1]
      BY <2>5
    <3>2. CASE n = 1
      <4>1. q[n - 1] = a /\ q[n] = g[0]
        BY <3>1, <3>2
      <4> QED  BY <1>2, <2>4, <4>1
    <3>3. CASE n # 1
      <4>1. n - 1 \in 1..k /\ n - 1 # 0 /\ (n - 1) - 1 = n - 2
        BY <2>5, <3>3
      <4>2. q[n - 1] = g[n - 2] /\ g[n - 1].sid = g[n - 2].agent
        BY <2>4, <3>1, <4>1
      <4> QED  BY <3>1, <4>2
    <3> QED  BY <3>2, <3>3
  <2> HIDE DEF q
  <2>9. Chain(q, m, a, id, agents)
    BY <2>6, <2>7, <2>8 DEF Chain
  <2>10. m \in 0..C
    BY <1>0, <2>3, <2>5
  <2>11. DescendsFrom(a, id, agents)
    BY <2>9, <2>10, DescendsIs
  <2> QED  BY <2>11
<1>3. Closed(under)
  BY <1>1, <1>2
<1>4. ASSUME NEW S \in SUBSET agents, Closed(S), NEW a \in under, a \notin S PROVE FALSE
  <2>1. PICK h \in 0..C : \E f : Chain(f, h, a, id, agents)
    BY DescendsIs
  <2>2. h \in Nat
    BY <1>0
  <2>f. PICK f : Chain(f, h, a, id, agents)
    BY <2>1
  <2>3. f \in [0..h -> agents] /\ f[0] = a /\ (\A n \in 1..h : f[n].sid = f[n - 1].agent) /\ f[h].agent = id
    BY <2>f DEF Chain
  <2> DEFINE T == {n \in 0..h : f[h - n] \notin S}
  <2>4. T \in SUBSET Nat /\ h \in T
    BY <1>4, <2>2, <2>3
  <2>5. PICK x \in T : \A y \in T : x <= y
    BY <2>4, LeastOf
  <2>6. x \in 0..h /\ f[h - x] \notin S /\ h - x \in 0..h /\ f[h - x] \in agents
    BY <2>2, <2>3
  <2>7. CASE x = 0
    BY <1>4, <2>2, <2>3, <2>6, <2>7
  <2>8. CASE x # 0
    <3>1. x - 1 \in 0..h /\ x - 1 \notin T
      BY <2>2, <2>5, <2>6, <2>8
    <3>2. f[h - (x - 1)] \in S
      BY <3>1
    <3>3. h - (x - 1) \in 1..h /\ (h - (x - 1)) - 1 = h - x
      BY <2>2, <2>6, <2>8
    <3>4. f[h - (x - 1)].sid = f[h - x].agent
      BY <2>3, <3>3
    <3> QED  BY <1>4, <2>6, <3>2, <3>4
  <2> QED  BY <2>7, <2>8
<1> QED  BY <1>3, <1>4

LEMMA ListsStart == ASSUME LookupInit PROVE ListsInv
<1>1. shown = [m \in Modes |-> <<>>]
  BY DEF LookupInit, Modes
<1>2. DOMAIN shown = Modes /\ \A m \in Modes : shown[m] = <<>>
  BY <1>1
<1>3. Len(<<>>) = 0 /\ DOMAIN <<>> = {} /\ \A S : <<>> \in Seq(S)
  OBVIOUS
<1>4. ASSUME NEW m \in Modes
      PROVE  /\ shown[m] \in Seq(Range(shown[m])) /\ DOMAIN shown[m] = 1..Len(shown[m]) /\ Len(shown[m]) \in Nat
             /\ DOMAIN shown[m] = {}
  <2>1. PICK e : e = <<>>
    OBVIOUS
  <2>2. shown[m] = e /\ Len(e) = 0 /\ DOMAIN e = 1..0 /\ 1..0 = {} /\ e \in Seq(Range(e))
    BY <1>2, <1>3, <2>1
  <2> QED  BY <2>2
<1> QED  BY <1>2, <1>4 DEF ListsInv

\* A session more has an id that its source does not list yet.
LEMMA ListsStep == ASSUME ListsInv, AddRecord PROVE ListsInv'
<1>1. PICK m \in Modes, id \in Ids, parent \in Ids \cup {Unnamed}, agent \in Ids \cup {Unnamed} :
        id \notin Ours(m) /\ shown' = [shown EXCEPT ![m] = Append(@, Record(m, id, parent, agent))]
  BY DEF AddRecord, Modes
<1>2. PICK rec : rec = Record(m, id, parent, agent)
  OBVIOUS
<1>3. rec.mode = m /\ rec.sid = id
  BY <1>2 DEF Record
<1>4. PICK listing : listing = shown[m]
  OBVIOUS
<1>5. PICK L \in Nat : L = Len(listing)
  BY <1>4 DEF ListsInv
<1>6. listing \in Seq(Range(listing)) /\ DOMAIN listing = 1..L
  BY <1>4, <1>5 DEF ListsInv
<1>7. /\ DOMAIN shown' = Modes /\ shown'[m] = Append(listing, rec)
      /\ \A k \in Modes \ {m} : shown'[k] = shown[k]
  BY <1>1, <1>2, <1>4 DEF ListsInv
<1>8. PICK more : more = Append(listing, rec)
  OBVIOUS
<1>9. Len(more) = L + 1 /\ DOMAIN more = 1..(L + 1) /\ more[L + 1] = rec /\ \A n \in 1..L : more[n] = listing[n]
  BY <1>5, <1>6, <1>8
<1>10. more \in Seq(Range(more))
  <2>1. \A n \in 1..Len(more) : more[n] \in Range(more)
    BY <1>9 DEF Range
  <2>2. more = [n \in 1..Len(more) |-> more[n]]
    <3>1. more \in Seq(Range(listing) \cup {rec})
      BY <1>6, <1>8
    <3> QED  BY <3>1
  <2>3. Len(more) \in Nat
    BY <1>9
  <2> QED  BY <2>1, <2>2, <2>3
<1>11. \A n \in 1..L : listing[n].mode = m /\ listing[n].sid \in Ids /\ listing[n].sid # id
  <2>1. \A n \in 1..L : listing[n] \in Range(shown[m])
    BY <1>4, <1>6 DEF Range
  <2> QED  BY <1>1, <1>4, <1>6, <2>1 DEF ListsInv, Ours
<1>12. \A k, n \in 1..L : listing[k].sid = listing[n].sid => k = n
  BY <1>4, <1>6 DEF ListsInv
<1>13. \A n \in 1..(L + 1) : n \in 1..L \/ n = L + 1
  OBVIOUS
<1>14. \A n \in 1..(L + 1) : more[n].mode = m /\ more[n].sid \in Ids
  BY <1>3, <1>9, <1>11, <1>13
<1>15. \A k, n \in 1..(L + 1) : more[k].sid = more[n].sid => k = n
  BY <1>3, <1>9, <1>11, <1>12, <1>13
<1>16. ASSUME NEW k \in Modes
       PROVE  /\ shown'[k] \in Seq(Range(shown'[k])) /\ DOMAIN shown'[k] = 1..Len(shown'[k]) /\ Len(shown'[k]) \in Nat
              /\ \A n \in DOMAIN shown'[k] : shown'[k][n].mode = k /\ shown'[k][n].sid \in Ids
              /\ \A i, n \in DOMAIN shown'[k] : shown'[k][i].sid = shown'[k][n].sid => i = n
  <2>1. CASE k = m
    <3>1. shown'[k] = more
      BY <1>7, <1>8, <2>1
    <3>2. DOMAIN more = 1..Len(more) /\ Len(more) \in Nat
      BY <1>9
    <3>3. \A n \in DOMAIN more : more[n].mode = k /\ more[n].sid \in Ids
      BY <1>9, <1>14, <2>1
    <3>4. \A i, n \in DOMAIN more : more[i].sid = more[n].sid => i = n
      BY <1>9, <1>15
    <3> QED  BY ONLY <1>10, <3>1, <3>2, <3>3, <3>4
  <2>2. CASE k # m
    BY <1>7, <2>2 DEF ListsInv
  <2> QED  BY <2>1, <2>2
<1> QED  BY <1>7, <1>16 DEF ListsInv, Modes

-----------------------------------------------------------------------------
\* Of all that are looked at, a row is the first that has its id.
LEMMA RowOpens == ASSUME ListsInv, NEW m \in Modes, NEW r \in Range(shown[m]) PROVE FindSession(r.sid, m) = {r}
<1>1. PICK k \in DOMAIN SourceModes : SourceModes[k] = m
  BY DEF Modes, Range
<1>2. PICK n \in DOMAIN shown[m] : shown[m][n] = r
  BY DEF Range
<1>3. r.sid \in Ids /\ r.sid # <<>>
  <2>1. r.sid \in Ids
    BY <1>2 DEF ListsInv
  <2> QED  BY <2>1, LookupAssumption
<1>4. DOMAIN SourceModes = 1..Len(SourceModes) /\ Len(SourceModes) \in Nat /\ k \in Nat
  <2>1. SourceModes \in Seq(Range(SourceModes))
    BY LookupAssumption
  <2> QED  BY <1>1, <2>1
<1>5. \A i, j \in DOMAIN SourceModes : SourceModes[i] = SourceModes[j] => i = j
  BY LookupAssumption DEF IsInjective
<1> DEFINE places == Places(m)
           p == <<k, n>>
           rank(q) == MatchRank(At(q), r.sid)
           S == {rank(q) : q \in places} \cup {6}
<1>6. p \in places /\ At(p) = r
  <2>1. p \in {k} \X DOMAIN shown[SourceModes[k]]
    BY <1>1
  <2>2. p \in UNION {{i} \X DOMAIN shown[SourceModes[i]] : i \in DOMAIN SourceModes}
    BY <2>1
  <2>3. SourceMatchesWanted(SourceModes[p[1]], m)
    BY <1>1 DEF SourceMatchesWanted
  <2> QED  BY <1>1, <1>2, <2>2, <2>3 DEF Places, At
<1>7. \A q \in places : rank(q) \in 1..6 /\ (rank(q) = 1 <=> r.sid = At(q).sid)
  BY RankIs
<1>8. Min(S) = 1
  <2>1. S \in SUBSET (1..6) /\ 6 \in S
    BY <1>7
  <2>2. 1 \in S
    BY <1>6, <1>7
  <2> HIDE DEF S
  <2>3. Smallest(S, Min(S)) /\ Min(S) \in 1..6
    BY <2>1, MinOfRanks
  <2> QED  BY <2>2, <2>3 DEF Smallest
<1> DEFINE matching == {q \in places : rank(q) = Min(S)}
<1>9. p \in matching /\ \A q \in matching : q \in places /\ At(q).sid = r.sid
  BY <1>6, <1>7, <1>8
<1>10. ASSUME NEW q \in matching, q # p PROVE Precedes(p, q) /\ ~Precedes(q, p)
  <2>0. q \in places /\ At(q).sid = r.sid
    BY <1>9
  <2>1. q \in UNION {{i} \X DOMAIN shown[SourceModes[i]] : i \in DOMAIN SourceModes}
        /\ SourceMatchesWanted(SourceModes[q[1]], m)
    BY <2>0 DEF Places
  <2>i. PICK i \in DOMAIN SourceModes : q \in {i} \X DOMAIN shown[SourceModes[i]]
    BY <2>1
  <2>2. PICK j \in DOMAIN shown[SourceModes[i]] : q = <<i, j>>
    BY <2>i
  <2>3. shown[SourceModes[i]][j].sid = r.sid
    BY <2>0, <2>2 DEF At
  <2>4. i # k
    <3> SUFFICES ASSUME i = k PROVE FALSE
      OBVIOUS
    <3>1. shown[m][j].sid = shown[m][n].sid /\ j \in DOMAIN shown[m]
      BY <1>1, <1>2, <2>2, <2>3
    <3>2. j = n
      BY <1>2, <3>1 DEF ListsInv
    <3> QED  BY <1>10, <2>2, <3>2
  <2>5. SourceModes[i] # m
    BY <1>1, <1>5, <2>4
  <2>6. CLIOf[SourceModes[i]] = m
    <3>1. m # ""
      BY LookupAssumption DEF Modes
    <3> QED  BY <2>1, <2>2, <2>5, <3>1 DEF SourceMatchesWanted
  <2>7. k <= i
    BY <1>1, <2>6, LookupAssumption
  <2>8. i \in Nat /\ k < i
    BY <1>4, <2>4, <2>7
  <2>9. q[1] = i /\ p[1] = k
    BY <2>2
  <2> HIDE DEF p
  <2> QED  BY <1>4, <2>8, <2>9 DEF Precedes
<1>11. {q \in matching : \A x \in matching : q = x \/ Precedes(q, x)} = {p}
  <2> HIDE DEF matching, p
  <2> QED  BY <1>9, <1>10
<1>12. FindSession(r.sid, m) = {At(q) : q \in {q \in matching : \A x \in matching : q = x \/ Precedes(q, x)}}
  BY <1>3, <1>8 DEF FindSession
<1> QED  BY <1>6, <1>11, <1>12

-----------------------------------------------------------------------------
\* What the map of subagentsOf holds: ids differ, so the last of an id is the only one.
LEMMA AgentsFound ==
  ASSUME ListsInv, NEW m \in Modes, NEW r \in Range(shown[m])
  PROVE  LET ran == {a \in Range(shown[m]) : a.parent # Unnamed /\ a.parent = IF IsSubagent(r) THEN r.parent ELSE r.sid}
         IN IsFiniteSet(ran) /\ SubagentsOf(r) = {a \in ran : IsSubagent(r) => DescendsFrom(a, r.sid, ran)}
<1> DEFINE listing == shown[m]
           session == IF IsSubagent(r) THEN r.parent ELSE r.sid
           ran == {a \in Range(listing) : a.parent # Unnamed /\ a.parent = session}
           listed == {n \in DOMAIN listing : IsSubagent(listing[n]) /\ listing[n].parent = session}
           agents == {listing[n] : n \in {n \in listed : \A k \in listed : listing[k].sid = listing[n].sid => k <= n}}
<1>1. r.mode = m
  <2>1. PICK n \in DOMAIN shown[m] : shown[m][n] = r
    BY DEF Range
  <2> QED  BY <2>1 DEF ListsInv
<1>2. DOMAIN listing = 1..Len(listing) /\ Len(listing) \in Nat /\ \A i, n \in DOMAIN listing : listing[i].sid = listing[n].sid => i = n
  BY DEF ListsInv
<1>3. IsFiniteSet(Range(listing))
  <2>1. IsFiniteSet(1..Len(listing))
    <3>1. 1 \in Int /\ Len(listing) \in Int
      BY <1>2
    <3> HIDE DEF listing
    <3> QED  BY <3>1, FS_Interval, Zenon
  <2>2. listing \in Surjection(1..Len(listing), Range(listing))
    <3>1. listing \in [1..Len(listing) -> Range(listing)]
      <4>1. listing \in Seq(Range(listing))
        BY DEF ListsInv
      <4> HIDE DEF listing
      <4> QED  BY <4>1
    <3>2. \A x \in Range(listing) : \E i \in 1..Len(listing) : listing[i] = x
      BY <1>2 DEF Range
    <3> QED  BY <3>1, <3>2 DEF Surjection
  <2> HIDE DEF listing
  <2> QED  BY <2>1, <2>2, FS_Surjection
<1>4. IsFiniteSet(ran)
  <2>1. ran \subseteq Range(listing)
    OBVIOUS
  <2> HIDE DEF ran, listing
  <2> QED  BY <1>3, <2>1, FS_Subset
<1>5. {n \in listed : \A k \in listed : listing[k].sid = listing[n].sid => k <= n} = listed
  <2>1. \A k, n \in listed : listing[k].sid = listing[n].sid => k = n
    BY <1>2
  <2>2. \A n \in listed : n <= n
    BY <1>2
  <2> HIDE DEF listed, listing
  <2> QED  BY <2>1, <2>2
<1>6. agents = ran
  <2>1. agents = {listing[n] : n \in listed}
    BY <1>5
  <2>2. {listing[n] : n \in listed} = ran
    BY DEF IsSubagent, Range
  <2> QED  BY <2>1, <2>2
<1>7. SubagentsOf(r) = {a \in agents : IsSubagent(r) => DescendsFrom(a, r.sid, agents)}
  BY <1>1 DEF SubagentsOf
<1> QED  BY <1>4, <1>6, <1>7

\* What is under a row, as the property asks for it
LEMMA AgentsAre ==
  ASSUME ListsInv, NEW m \in Modes, NEW r \in Range(shown[m])
  PROVE  LET ran == {a \in Range(shown[m]) : a.parent # Unnamed /\ a.parent = IF IsSubagent(r) THEN r.parent ELSE r.sid}
             Closed(S) == \A a \in ran : a.agent \in {r.sid} \cup {b.sid : b \in S} => a \in S
             under == SubagentsOf(r)
         IN IF IsSubagent(r) THEN Closed(under) /\ \A S \in SUBSET ran : Closed(S) => under \subseteq S
                             ELSE under = ran
<1> DEFINE ran == {a \in Range(shown[m]) : a.parent # Unnamed /\ a.parent = IF IsSubagent(r) THEN r.parent ELSE r.sid}
<1>1. IsFiniteSet(ran) /\ SubagentsOf(r) = {a \in ran : IsSubagent(r) => DescendsFrom(a, r.sid, ran)}
  BY AgentsFound
<1> HIDE DEF ran
<1>2. CASE IsSubagent(r)
  <2>1. SubagentsOf(r) = {a \in ran : DescendsFrom(a, r.sid, ran)}
    BY <1>1, <1>2
  <2>2. PICK id : id = r.sid
    OBVIOUS
  <2>3. PICK agents : agents = ran
    OBVIOUS
  <2>4. LET under == {a \in agents : DescendsFrom(a, id, agents)}
            Closed(S) == \A a \in agents : a.agent \in {id} \cup {b.sid : b \in S} => a \in S
        IN Closed(under) /\ \A S \in SUBSET agents : Closed(S) => under \subseteq S
    BY <1>1, <2>3, UnderIsLeast
  <2>5. LET under == SubagentsOf(r)
            Closed(S) == \A a \in ran : a.agent \in {r.sid} \cup {b.sid : b \in S} => a \in S
        IN Closed(under) /\ \A S \in SUBSET ran : Closed(S) => under \subseteq S
    BY <2>1, <2>2, <2>3, <2>4
  <2> QED  BY <1>2, <2>5 DEF ran
<1>3. CASE ~IsSubagent(r)
  BY <1>1, <1>3 DEF ran
<1> QED  BY <1>2, <1>3

\* A row opens itself by its id and its source (findSession, api.go:272-306), however
\* many sources repeat the id or hold it in a key; and the agents under an agent are
\* all that a chain of spawns joins to it and no others (subagentsOf, descendsFrom,
\* api.go:541-610), however they name one another: as many hops as there are agents
\* are enough.  For any number of sources, sessions and agents, a CLI's own source
\* being asked before its labelled ones.
THEOREM NamesOpen == LookupSpec => []LookupExact
<1>1. LookupInit => ListsInv
  BY ListsStart
<1>2. ListsInv /\ [LookupNext]_lookupVars => ListsInv'
  <2>1. CASE LookupNext
    BY <2>1, ListsStep DEF LookupNext
  <2>2. CASE UNCHANGED lookupVars
    BY <2>2 DEF lookupVars, ListsInv
  <2> QED  BY <2>1, <2>2
<1>3. ListsInv => RowsOpen
  BY RowOpens DEF RowsOpen, Modes
<1>4. ListsInv => AgentsExact
  BY AgentsAre DEF AgentsExact, Modes
<1>5. ListsInv => LookupExact
  BY <1>3, <1>4 DEF LookupExact
<1> QED  BY <1>1, <1>2, <1>5, PTL DEF LookupSpec

-----------------------------------------------------------------------------
(***************************************************************************)
(* The pages of an MCP client, for sessions, lists, limits and walks of any *)
(* length.  The places of the role's messages are ranked, so that a message *)
(* that is written is either the role's last or none of them; a page is a  *)
(* slice from the cursor on, or up to it counted from the end; a session   *)
(* that is written moves the others down by one place at most.             *)
(***************************************************************************)

\* Min and Max choose; of two numbers they choose the one meant.
LEMMA MinOfTwo ==
  ASSUME NEW a \in Int, NEW b \in Int
  PROVE  Min({a, b}) = IF a <= b THEN a ELSE b
<1> DEFINE m == IF a <= b THEN a ELSE b
<1>1. m \in {a, b} /\ \A y \in {a, b} : m <= y
  OBVIOUS
<1>2. \A x \in {a, b} : (\A y \in {a, b} : x <= y) => x = m
  OBVIOUS
<1> QED  BY <1>1, <1>2 DEF Min

LEMMA MaxOfTwo ==
  ASSUME NEW a \in Int, NEW b \in Int
  PROVE  Max({a, b}) = IF a >= b THEN a ELSE b
<1> DEFINE m == IF a >= b THEN a ELSE b
<1>1. m \in {a, b} /\ \A y \in {a, b} : m >= y
  OBVIOUS
<1>2. \A x \in {a, b} : (\A y \in {a, b} : x >= y) => x = m
  OBVIOUS
<1> QED  BY <1>1, <1>2 DEF Max

LEMMA Joined ==
  ASSUME NEW S, NEW s \in Seq(S), NEW t \in Seq(S)
  PROVE  /\ s \o t \in Seq(S) /\ Len(s \o t) = Len(s) + Len(t)
         /\ \A i \in 1..Len(s) : (s \o t)[i] = s[i]
         /\ \A i \in 1..Len(t) : (s \o t)[Len(s) + i] = t[i]
         /\ \A i \in (Len(s) + 1)..(Len(s) + Len(t)) : (s \o t)[i] = t[i - Len(s)]
OBVIOUS

\* SubSeq, with its places counted from one
LEMMA Slice ==
  ASSUME NEW S, NEW s \in Seq(S), NEW a \in Nat \ {0}, NEW b \in Nat, b <= Len(s), a <= b + 1
  PROVE  /\ SubSeq(s, a, b) \in Seq(S) /\ Len(SubSeq(s, a, b)) = b - a + 1
         /\ \A i \in 1..(b - a + 1) : SubSeq(s, a, b)[i] = s[a + i - 1]
OBVIOUS

\* The first n of a sequence, or all of it
LEMMA EarliestCore ==
  ASSUME NEW S, NEW s \in Seq(S), NEW n \in Nat
  PROVE  LET l == IF n <= Len(s) THEN n ELSE Len(s)
         IN /\ Earliest(s, n) \in Seq(S) /\ Len(Earliest(s, n)) = l /\ l \in Nat
            /\ \A i \in 1..l : Earliest(s, n)[i] = s[i]
<1> DEFINE l == IF n <= Len(s) THEN n ELSE Len(s)
<1>1. Len(s) \in Nat
  OBVIOUS
<1>2. l \in Nat /\ l <= Len(s) /\ Min({n, Len(s)}) = l
  BY <1>1, MinOfTwo
<1> HIDE DEF l
<1>3. Earliest(s, n) = SubSeq(s, 1, l)
  BY <1>2 DEF Earliest
<1>4. SubSeq(s, 1, l) \in Seq(S) /\ Len(SubSeq(s, 1, l)) = l /\ \A i \in 1..l : SubSeq(s, 1, l)[i] = s[i]
  BY <1>1, <1>2
<1> QED  BY <1>2, <1>3, <1>4 DEF l

LEMMA EarliestIs ==
  ASSUME NEW S, NEW s \in Seq(S), NEW n \in Nat, NEW l \in Nat, l <= n, l <= Len(s), l = n \/ l = Len(s)
  PROVE  /\ Earliest(s, n) \in Seq(S) /\ Len(Earliest(s, n)) = l
         /\ \A i \in 1..l : Earliest(s, n)[i] = s[i]
<1>1. Len(s) \in Nat
  OBVIOUS
<1>2. l = IF n <= Len(s) THEN n ELSE Len(s)
  BY <1>1
<1> QED  BY <1>2, EarliestCore

\* The last n of a sequence, or all of it
LEMMA LatestCore ==
  ASSUME NEW S, NEW s \in Seq(S), NEW n \in Nat
  PROVE  LET l == IF n <= Len(s) THEN n ELSE Len(s)
         IN /\ Latest(s, n) \in Seq(S) /\ Len(Latest(s, n)) = l /\ l \in Nat
            /\ \A i \in 1..l : Latest(s, n)[i] = s[Len(s) - l + i]
<1>n. PICK N \in Nat : N = Len(s)
  OBVIOUS
<1>a. PICK l \in Nat : l = IF n <= N THEN n ELSE N
  OBVIOUS
<1>b. l <= N /\ N - l + 1 \in Nat \ {0}
  BY <1>a
<1>c. PICK a \in Nat \ {0} : a = N - l + 1
  BY <1>b
<1>1. l <= N /\ a <= N + 1 /\ N - a + 1 = l /\ \A i \in 1..l : a + i - 1 = N - l + i
  BY <1>b, <1>c
<1>2. Max({1, N - n + 1}) = a
  <2>1. Max({1, N - n + 1}) = IF 1 >= N - n + 1 THEN 1 ELSE N - n + 1
    BY MaxOfTwo
  <2>2. (IF 1 >= N - n + 1 THEN 1 ELSE N - n + 1) = a
    <3>1. CASE n <= N
      BY <1>a, <1>c, <3>1
    <3>2. CASE ~(n <= N)
      BY <1>a, <1>c, <3>2
    <3> QED  BY <3>1, <3>2
  <2> QED  BY <2>1, <2>2
<1>3. Latest(s, n) = SubSeq(s, a, N)
  BY <1>n, <1>2 DEF Latest
<1>4. SubSeq(s, a, N) \in Seq(S) /\ Len(SubSeq(s, a, N)) = N - a + 1
      /\ \A i \in 1..(N - a + 1) : SubSeq(s, a, N)[i] = s[a + i - 1]
  BY <1>n, <1>1, Slice
<1>5. l = IF n <= Len(s) THEN n ELSE Len(s)
  BY <1>n, <1>a
<1>6. \A i \in 1..l : SubSeq(s, a, N)[i] = s[Len(s) - l + i]
  BY <1>n, <1>1, <1>4
<1> QED  BY <1>1, <1>3, <1>4, <1>5, <1>6

LEMMA LatestIs ==
  ASSUME NEW S, NEW s \in Seq(S), NEW n \in Nat, NEW l \in Nat, l <= n, l <= Len(s), l = n \/ l = Len(s)
  PROVE  /\ Latest(s, n) \in Seq(S) /\ Len(Latest(s, n)) = l
         /\ \A i \in 1..l : Latest(s, n)[i] = s[Len(s) - l + i]
<1>1. Len(s) \in Nat
  OBVIOUS
<1>2. l = IF n <= Len(s) THEN n ELSE Len(s)
  BY <1>1
<1> QED  BY <1>2, LatestCore

-----------------------------------------------------------------------------
Roles == {"user", "assistant"}
Messages == [role : Roles, at : Nat]

\* Every place has its number among them.
Ranked(places) == \A n \in 1..Cardinality(places) : \E i \in places : Cardinality({j \in places : j <= i}) = n

Matches(m) == asked.role = "" \/ m.role = asked.role

\* What Nth chooses is there.
LEMMA NthIsOne ==
  ASSUME NEW places, Ranked(places), NEW n \in 1..Cardinality(places)
  PROVE  Nth(places, n) \in places
BY DEF Ranked, Nth

LEMMA MatchingFinite ==
  ASSUME NEW S, NEW ms \in Seq(S)
  PROVE  /\ Matching(ms) \subseteq 1..Len(ms) /\ IsFiniteSet(Matching(ms)) /\ Cardinality(Matching(ms)) \in Nat
         /\ DOMAIN OfRole(ms) = 1..Cardinality(Matching(ms))
<1>1. Matching(ms) \subseteq 1..Len(ms)
  <2>1. DOMAIN ms = 1..Len(ms)
    OBVIOUS
  <2> QED  BY <2>1 DEF Matching
<1>2. IsFiniteSet(1..Len(ms))
  <2>1. 1 \in Int /\ Len(ms) \in Int
    OBVIOUS
  <2> QED  BY <2>1, FS_Interval, Zenon
<1>3. IsFiniteSet(Matching(ms))
  BY <1>1, <1>2, FS_Subset
<1> QED  BY <1>1, <1>3, FS_CardinalityType DEF OfRole

\* A place behind all the others is the last of them, and moves none.
LEMMA RankedGrows ==
  ASSUME NEW L \in Nat, NEW places \in SUBSET (1..L), IsFiniteSet(places), Ranked(places)
  PROVE  LET more == places \cup {L + 1}
         IN /\ Cardinality(more) = Cardinality(places) + 1 /\ Ranked(more)
            /\ \A n \in 1..Cardinality(places) : Nth(more, n) = Nth(places, n)
            /\ Nth(more, Cardinality(places) + 1) = L + 1
<1> DEFINE more == places \cup {L + 1}
           k == Cardinality(places)
           Upto(p, i) == {j \in p : j <= i}
<1>1. L + 1 \notin places /\ k \in Nat
  BY FS_CardinalityType
<1>2. Cardinality(more) = k + 1 /\ IsFiniteSet(more)
  BY <1>1, FS_AddElement
<1>3. \A i \in places : Upto(more, i) = Upto(places, i)
  OBVIOUS
<1>4. Upto(more, L + 1) = more
  <2>1. \A j \in more : j <= L + 1
    OBVIOUS
  <2> QED  BY <2>1
<1>5. \A i \in places : Cardinality(Upto(places, i)) <= k
  <2> SUFFICES ASSUME NEW i \in places PROVE Cardinality(Upto(places, i)) <= k
    OBVIOUS
  <2>1. Upto(places, i) \subseteq places
    OBVIOUS
  <2> HIDE DEF Upto
  <2> QED  BY <2>1, FS_Subset
<1>6. \A n \in 1..k : {i \in more : Cardinality(Upto(more, i)) = n} = {i \in places : Cardinality(Upto(places, i)) = n}
  <2>1. \A n \in 1..k : n # k + 1
    <3> HIDE DEF k
    <3> QED  BY <1>1
  <2>2. \A n \in 1..k : Cardinality(Upto(more, L + 1)) # n
    BY <1>2, <1>4, <2>1
  <2> HIDE DEF Upto, k
  <2> QED  BY <1>3, <2>2
<1>7. {i \in more : Cardinality(Upto(more, i)) = k + 1} = {L + 1}
  <2>1. \A i \in places : Cardinality(Upto(more, i)) # k + 1
    <3> SUFFICES ASSUME NEW i \in places PROVE Cardinality(Upto(more, i)) # k + 1
      OBVIOUS
    <3>1. Cardinality(Upto(more, i)) <= k
      BY <1>3, <1>5
    <3> HIDE DEF k, Upto
    <3> QED  BY <1>1, <3>1
  <2>2. Cardinality(Upto(more, L + 1)) = k + 1
    BY <1>2, <1>4
  <2> HIDE DEF Upto, k
  <2> QED  BY <2>1, <2>2
<1>8. \A n \in 1..k : Nth(more, n) = Nth(places, n)
  BY <1>6 DEF Nth
<1>9. Nth(more, k + 1) = L + 1
  BY <1>7 DEF Nth
<1>10. Ranked(more)
  <2> SUFFICES ASSUME NEW n \in 1..(k + 1) PROVE \E i \in more : Cardinality(Upto(more, i)) = n
    BY <1>2 DEF Ranked
  <2>1. CASE n = k + 1
    BY <1>7, <2>1
  <2>2. CASE n # k + 1
    <3>1. n \in 1..k
      <4> HIDE DEF k
      <4> QED  BY <1>1, <2>2
    <3>2. PICK i \in places : Cardinality(Upto(places, i)) = n
      BY <3>1 DEF Ranked
    <3> QED  BY <1>3, <3>2
  <2> QED  BY <2>1, <2>2
<1> QED  BY <1>2, <1>8, <1>9, <1>10

\* A message that is written is the role's last, or not the role's.
LEMMA OfRoleGrows ==
  ASSUME NEW ms \in Seq(Messages), NEW m \in Messages, Ranked(Matching(ms)), OfRole(ms) \in Seq(Messages)
  PROVE  LET more == Append(ms, m)
         IN /\ Ranked(Matching(more))
            /\ OfRole(more) = IF Matches(m) THEN Append(OfRole(ms), m) ELSE OfRole(ms)
<1> DEFINE more == Append(ms, m)
           L == Len(ms)
           K == Matching(ms)
           k == Cardinality(K)
<1>1. L \in Nat /\ K \subseteq 1..L /\ IsFiniteSet(K) /\ k \in Nat /\ DOMAIN OfRole(ms) = 1..k
  BY MatchingFinite
<1>2. /\ DOMAIN more = 1..(L + 1) /\ DOMAIN ms = 1..L /\ more[L + 1] = m
      /\ \A i \in 1..L : more[i] = ms[i]
  OBVIOUS
<1> HIDE DEF more
<1>3. Matching(more) = IF Matches(m) THEN K \cup {L + 1} ELSE K
  <2>1. Matching(more) = {i \in 1..(L + 1) : Matches(more[i])}
    BY <1>2 DEF Matching, Matches
  <2>2. K = {i \in 1..L : Matches(ms[i])}
    BY <1>2 DEF Matching, Matches
  <2>3. 1..(L + 1) = (1..L) \cup {L + 1}
    BY <1>1
  <2> HIDE DEF L, K
  <2>4. \A i \in 1..L : Matches(more[i]) <=> Matches(ms[i])
    BY <1>2
  <2>5. Matches(more[L + 1]) <=> Matches(m)
    BY <1>2
  <2> QED  BY ONLY <2>1, <2>2, <2>3, <2>4, <2>5
<1>4. \A n \in 1..k : Nth(K, n) \in 1..L
  BY <1>1, NthIsOne
<1>5. CASE Matches(m)
  <2>1. /\ Cardinality(Matching(more)) = k + 1 /\ Ranked(Matching(more))
        /\ \A n \in 1..k : Nth(Matching(more), n) = Nth(K, n)
        /\ Nth(Matching(more), k + 1) = L + 1
    <3>1. Ranked(K)
      OBVIOUS
    <3>2. Matching(more) = K \cup {L + 1} /\ K \in SUBSET (1..L)
      BY <1>1, <1>3, <1>5
    <3>3. L \in Nat /\ IsFiniteSet(K)
      BY <1>1
    <3> HIDE DEF L, K
    <3>4. LET new == K \cup {L + 1}
          IN /\ Cardinality(new) = Cardinality(K) + 1 /\ Ranked(new)
             /\ \A n \in 1..Cardinality(K) : Nth(new, n) = Nth(K, n)
             /\ Nth(new, Cardinality(K) + 1) = L + 1
      BY <3>1, <3>2, <3>3, RankedGrows
    <3> QED  BY <3>2, <3>4
  <2> HIDE DEF L, K, k
  <2>2. /\ DOMAIN OfRole(more) = 1..(k + 1) /\ OfRole(more) = [n \in 1..(k + 1) |-> more[Nth(Matching(more), n)]]
        /\ \A n \in 1..k : OfRole(more)[n] = more[Nth(K, n)]
        /\ OfRole(more)[k + 1] = more[L + 1]
    BY <1>1, <2>1 DEF OfRole
  <2>3. \A n \in 1..k : OfRole(ms)[n] = ms[Nth(K, n)]
    BY DEF OfRole, K, k
  <2>4. \A n \in 1..k : OfRole(more)[n] = OfRole(ms)[n]
    BY <1>2, <1>4, <2>2, <2>3
  <2>5. /\ Len(OfRole(ms)) = k /\ DOMAIN Append(OfRole(ms), m) = 1..(k + 1)
        /\ \A n \in 1..k : Append(OfRole(ms), m)[n] = OfRole(ms)[n]
        /\ Append(OfRole(ms), m)[k + 1] = m
        /\ Append(OfRole(ms), m) \in Seq(Messages)
    <3> DEFINE R == OfRole(ms)
    <3>1. R \in Seq(Messages) /\ DOMAIN R = 1..k
      BY <1>1
    <3> HIDE DEF R
    <3>2. Len(R) = k
      BY <1>1, <3>1
    <3> QED  BY <1>1, <3>1, <3>2 DEF R
  <2>6. OfRole(more) = Append(OfRole(ms), m)
    <3> DEFINE A == Append(OfRole(ms), m)
               B == OfRole(more)
    <3>1. DOMAIN A = 1..(k + 1) /\ DOMAIN B = 1..(k + 1) /\ A = [n \in 1..(k + 1) |-> A[n]]
      <4>1. A \in Seq(Messages) /\ DOMAIN A = 1..(k + 1)
        BY <2>5
      <4> HIDE DEF A
      <4>2. A = [n \in DOMAIN A |-> A[n]]
        BY <4>1
      <4> QED  BY <2>2, <4>1, <4>2
    <3>2. B = [n \in 1..(k + 1) |-> B[n]]
      BY <2>2
    <3>3. \A n \in 1..(k + 1) : A[n] = B[n]
      <4>1. \A n \in 1..(k + 1) : n \in 1..k \/ n = k + 1
        BY <1>1
      <4> QED  BY <1>2, <2>2, <2>4, <2>5, <4>1
    <3> HIDE DEF A, B
    <3>4. A = B
      BY <3>1, <3>2, <3>3
    <3> QED  BY <3>4 DEF A, B
  <2> QED  BY <1>5, <2>1, <2>6 DEF more
<1>6. CASE ~Matches(m)
  <2>1. Matching(more) = K
    BY <1>3, <1>6
  <2>2. OfRole(more) = [n \in 1..k |-> more[Nth(K, n)]] /\ OfRole(ms) = [n \in 1..k |-> ms[Nth(K, n)]]
    BY <2>1 DEF OfRole
  <2> HIDE DEF L, K, k
  <2>3. \A n \in 1..k : more[Nth(K, n)] = ms[Nth(K, n)]
    BY <1>2, <1>4
  <2>4. OfRole(more) = OfRole(ms)
    BY <2>2, <2>3
  <2>5. Ranked(Matching(more))
    BY <2>1 DEF K
  <2> QED  BY <1>6, <2>4, <2>5 DEF more
<1> QED  BY <1>5, <1>6

\* What the sink has of the role is in order, each at its place in the session.
RoleOK(ms) ==
  /\ Ranked(Matching(ms))
  /\ OfRole(ms) \in Seq([role : Roles, at : 1..Len(ms)])
  /\ \A m, n \in DOMAIN OfRole(ms) : m < n => OfRole(ms)[m].at < OfRole(ms)[n].at

StartsWith(s, t) == Len(s) <= Len(t) /\ \A i \in 1..Len(s) : s[i] = t[i]

McpTypes ==
  /\ messages \in Seq(Messages) /\ before.messages \in Seq(Messages)
  /\ list \in Seq(Listed) /\ IsInjective(list) /\ before.list \in Seq(Listed)
  /\ listMoves \in Nat /\ before.listMoves \in Nat
  /\ walk \in {"none", "walking", "done", "refused"}
  /\ asked \in [what : {"earliest", "latest", "list"}, limit : Nat, role : {"", "user"}]
  /\ cursor \in Nat

\* Since the walk began the session has only gone on.
WalkBegan ==
  /\ RoleOK(messages)
  /\ walk # "none" =>
       /\ Len(before.messages) <= Len(messages)
       /\ RoleOK(before.messages) /\ StartsWith(OfRole(before.messages), OfRole(messages))

MessagesWalked ==
  asked.what # "list" /\ walk # "none" =>
    /\ walked \in Seq(Messages) /\ pages \in Seq(Seq(Messages))
    /\ cursor = Len(walked) /\ cursor <= Len(OfRole(messages))

\* From the beginning: what is walked is the first of them, and all there were at the end.
EarliestInv ==
  asked.what = "earliest" /\ walk # "none" =>
    /\ StartsWith(walked, OfRole(messages))
    /\ WalkOver("earliest") => Len(OfRole(before.messages)) <= cursor

\* The places a walk from the end is past
Behind == (Len(OfRole(messages)) - cursor + 1)..Len(OfRole(messages))

\* From the end: it has passed none of those there were, and each page is in order.
LatestInv ==
  asked.what = "latest" /\ walk # "none" =>
    /\ \A i \in DOMAIN OfRole(before.messages) :
         i \in Behind \/ WalkOver("latest") => OfRole(messages)[i] \in Range(walked)
    /\ \A p \in DOMAIN pages : \A m, n \in DOMAIN pages[p] : m < n => pages[p][m].at < pages[p][n].at
    /\ messages = before.messages =>
         /\ IsInjective(walked)
         /\ \A j \in DOMAIN walked : \E i \in Behind : walked[j] = OfRole(messages)[i]

\* Over the list: a session that only moves down is walked, or still ahead.
ListInv ==
  asked.what = "list" /\ walk # "none" =>
    /\ walked \in Seq(Listed) /\ cursor = Len(walked)
    /\ left = {} =>
         \A s \in Range(before.list) \ written :
           s \in Range(walked) \/ (walk # "done" /\ \E n \in DOMAIN list : list[n] = s /\ cursor < n)
    /\ before.listMoves <= listMoves
    /\ listMoves = before.listMoves =>
         StartsWith(walked, list) /\ (walk = "done" => Len(walked) = Len(list))

McpInv == McpTypes /\ WalkBegan /\ MessagesWalked /\ EarliestInv /\ LatestInv /\ ListInv

\* What the role's messages are depends on the messages and the question alone.
LEMMA SameRole ==
  ASSUME UNCHANGED asked
  PROVE  /\ UNCHANGED messages => OfRole(messages)' = OfRole(messages) /\ (RoleOK(messages) => RoleOK(messages)')
         /\ UNCHANGED before => /\ OfRole(before.messages)' = OfRole(before.messages)
                                /\ RoleOK(before.messages) => RoleOK(before.messages)'
<1>1. UNCHANGED messages => Matching(messages)' = Matching(messages)
  BY DEF Matching
<1>2. UNCHANGED before => Matching(before.messages)' = Matching(before.messages)
  BY DEF Matching
<1> QED  BY <1>1, <1>2 DEF OfRole, RoleOK

\* The same, where the messages are given another name
LEMMA RoleThen ==
  ASSUME NEW ms, messages' = ms, UNCHANGED asked
  PROVE  OfRole(messages)' = OfRole(ms) /\ (RoleOK(ms) => RoleOK(messages)')
<1>1. Matching(messages)' = Matching(ms)
  BY DEF Matching
<1> QED  BY <1>1 DEF OfRole, RoleOK

\* The role's messages as a sequence, for the leaves that only count them
LEMMA RoleTyped ==
  ASSUME NEW ms \in Seq(Messages), RoleOK(ms)
  PROVE  /\ OfRole(ms) \in Seq(Messages) /\ Len(OfRole(ms)) \in Nat
         /\ DOMAIN OfRole(ms) = 1..Len(OfRole(ms))
         /\ \A n \in DOMAIN OfRole(ms) : OfRole(ms)[n].at \in 1..Len(ms) /\ OfRole(ms)[n] \in Messages
<1> DEFINE R == OfRole(ms)
           M == [role : Roles, at : 1..Len(ms)]
<1>1. Len(ms) \in Nat /\ R \in Seq(M)
  BY DEF RoleOK
<1>2. M \subseteq Messages /\ \A x \in M : x.at \in 1..Len(ms)
  BY <1>1 DEF Messages
<1> HIDE DEF R, M
<1>3. Len(R) \in Nat /\ DOMAIN R = 1..Len(R) /\ \A n \in DOMAIN R : R[n] \in M
  BY <1>1
<1>4. R \in Seq(Messages)
  BY <1>1, <1>2, <1>3
<1> QED  BY <1>2, <1>3, <1>4 DEF R

\* A message more leaves the role's where they were.
LEMMA RoleGrows ==
  ASSUME NEW ms \in Seq(Messages), RoleOK(ms), NEW m \in Messages, m.at = Len(ms) + 1
  PROVE  /\ RoleOK(Append(ms, m)) /\ StartsWith(OfRole(ms), OfRole(Append(ms, m)))
         /\ Append(ms, m) \in Seq(Messages) /\ Len(Append(ms, m)) = Len(ms) + 1
<1> DEFINE R == OfRole(ms)
           S == OfRole(Append(ms, m))
           L == Len(ms)
           M(n) == [role : Roles, at : 1..n]
<1>1. R \in Seq(Messages) /\ Len(R) \in Nat /\ DOMAIN R = 1..Len(R) /\ L \in Nat
      /\ \A n \in DOMAIN R : R[n].at \in 1..L /\ R[n] \in Messages
  BY RoleTyped
<1>2. Ranked(Matching(Append(ms, m))) /\ S = IF Matches(m) THEN Append(R, m) ELSE R
  BY <1>1, OfRoleGrows DEF RoleOK
<1>3. Append(ms, m) \in Seq(Messages) /\ Len(Append(ms, m)) = L + 1
  OBVIOUS
<1>4. \A i, j \in DOMAIN R : i < j => R[i].at < R[j].at
  BY DEF RoleOK
<1>5. \A x \in Messages : x.at \in 1..(L + 1) => x \in M(L + 1)
  BY DEF Messages
<1>6. \A n \in DOMAIN R : R[n] \in M(L + 1)
  BY <1>1, <1>5
<1>7. m \in M(L + 1)
  BY <1>1, <1>5
<1> HIDE DEF R, S, L
<1>8. /\ S \in Seq(M(L + 1)) /\ StartsWith(R, S)
      /\ \A i, j \in DOMAIN S : i < j => S[i].at < S[j].at
  <2> HIDE DEF M
  <2>1. R \in Seq(M(L + 1))
    BY <1>1, <1>6
  <2>2. CASE Matches(m)
    <3>1. S = Append(R, m) /\ S \in Seq(M(L + 1)) /\ Len(S) = Len(R) + 1 /\ DOMAIN S = 1..(Len(R) + 1)
          /\ (\A i \in 1..Len(R) : S[i] = R[i]) /\ S[Len(R) + 1] = m
      BY <1>2, <1>7, <2>1, <2>2
    <3>2. ASSUME NEW i \in DOMAIN S, NEW j \in DOMAIN S, i < j PROVE S[i].at < S[j].at
      <4>1. i \in 1..Len(R) /\ (j \in 1..Len(R) \/ j = Len(R) + 1)
        BY <1>1, <3>1, <3>2
      <4>2. CASE j \in 1..Len(R)
        BY <1>1, <1>4, <3>1, <3>2, <4>1, <4>2
      <4>3. CASE j = Len(R) + 1
        <5>1. S[i].at \in 1..L /\ S[j].at = L + 1
          BY <1>1, <3>1, <4>1, <4>3 DEF L
        <5> QED  BY <1>1, <5>1
      <4> QED  BY <4>1, <4>2, <4>3
    <3>3. Len(R) <= Len(S)
      BY <1>1, <3>1
    <3> QED  BY <3>1, <3>2, <3>3 DEF StartsWith
  <2>3. CASE ~Matches(m)
    BY <1>1, <1>2, <1>4, <2>1, <2>3 DEF StartsWith
  <2> QED  BY <2>2, <2>3
<1> QED  BY <1>2, <1>3, <1>8 DEF RoleOK, R, S, L

\* A message more is behind the walk of a page from either end, or ahead of it.
LEMMA WriteMessageKept == ASSUME McpInv, WriteMessage PROVE McpInv'
<1>1. PICK role \in Roles : messages' = Append(messages, [role |-> role, at |-> Len(messages) + 1])
  BY DEF WriteMessage, Roles
<1> DEFINE m == [role |-> role, at |-> Len(messages) + 1]
           R == OfRole(messages)
           B == OfRole(before.messages)
<1>2. /\ asked.what # "list"
      /\ UNCHANGED <<list, listMoves, left, written, walk, asked, cursor, pages, walked, before>>
  BY DEF WriteMessage
<1>3. messages \in Seq(Messages) /\ m \in Messages /\ m.at = Len(messages) + 1
  <2>1. messages \in Seq(Messages)
    BY DEF McpInv, McpTypes
  <2>2. Len(messages) \in Nat
    BY <2>1
  <2> QED  BY <2>1, <2>2 DEF Messages, Roles
<1>4. /\ RoleOK(Append(messages, m)) /\ StartsWith(R, OfRole(Append(messages, m)))
      /\ Append(messages, m) \in Seq(Messages) /\ Len(Append(messages, m)) = Len(messages) + 1
  <2> HIDE DEF m
  <2> QED  BY <1>3, RoleGrows DEF McpInv, WalkBegan
<1>5. messages' = Append(messages, m)
  BY <1>1
<1>6. OfRole(messages)' = OfRole(Append(messages, m)) /\ RoleOK(messages)'
  <2> HIDE DEF m
  <2>1. PICK ms : ms = Append(messages, m)
    OBVIOUS
  <2> QED  BY <1>2, <1>4, <1>5, <2>1, RoleThen
<1> DEFINE S == OfRole(messages)'
<1> HIDE DEF m
<1>7. B' = B /\ (RoleOK(before.messages) => RoleOK(before.messages)')
  BY <1>2, SameRole
<1>8. messages' \in Seq(Messages) /\ Len(messages') = Len(messages) + 1 /\ RoleOK(messages)' /\ StartsWith(R, S)
  BY <1>4, <1>5, <1>6
<1>9. Len(R) \in Nat /\ DOMAIN R = 1..Len(R) /\ Len(S) \in Nat /\ DOMAIN S = 1..Len(S) /\ Len(messages) \in Nat
  <2>1. Len(R) \in Nat /\ DOMAIN R = 1..Len(R)
    BY <1>3, RoleTyped DEF McpInv, WalkBegan
  <2>2. (Len(S) \in Nat /\ DOMAIN S = 1..Len(S))
    <3>1. OfRole(Append(messages, m)) = S
      BY <1>6
    <3> HIDE DEF S
    <3> QED  BY <1>4, <3>1, RoleTyped
  <2> QED  BY <1>3, <2>1, <2>2
<1>10. McpTypes'
  BY <1>2, <1>8 DEF McpInv, McpTypes
<1>11. walk # "none" => /\ Len(B) <= Len(R) /\ Len(B) \in Nat /\ DOMAIN B = 1..Len(B)
                        /\ \A i \in 1..Len(B) : B[i] = R[i]
                        /\ Len(before.messages) <= Len(messages) /\ Len(before.messages) \in Nat
  <2> SUFFICES ASSUME walk # "none"
               PROVE  /\ Len(B) <= Len(R) /\ Len(B) \in Nat /\ DOMAIN B = 1..Len(B)
                      /\ \A i \in 1..Len(B) : B[i] = R[i]
                      /\ Len(before.messages) <= Len(messages) /\ Len(before.messages) \in Nat
    OBVIOUS
  <2>1. StartsWith(B, R) /\ RoleOK(before.messages) /\ before.messages \in Seq(Messages)
        /\ Len(before.messages) <= Len(messages)
    BY DEF McpInv, McpTypes, WalkBegan
  <2>2. Len(B) \in Nat /\ DOMAIN B = 1..Len(B)
    BY <2>1, RoleTyped
  <2> QED  BY <2>1, <2>2 DEF StartsWith
<1>12. Len(R) <= Len(S) /\ \A i \in 1..Len(R) : S[i] = R[i]
  BY <1>8 DEF StartsWith
<1> HIDE DEF S, R, B
<1>13. WalkBegan'
  <2>1. walk # "none" => Len(B) <= Len(S) /\ \A i \in 1..Len(B) : B[i] = S[i]
    BY <1>9, <1>11, <1>12
  <2>2. walk # "none" => Len(before.messages) <= Len(messages')
    BY <1>8, <1>9, <1>11
  <2> QED  BY <1>2, <1>7, <1>8, <2>1, <2>2 DEF McpInv, WalkBegan, StartsWith, S, B
<1>14. MessagesWalked'
  <2>1. walk # "none" => cursor <= Len(R) /\ cursor \in Nat
    BY <1>2 DEF McpInv, MessagesWalked, McpTypes, R
  <2>2. walk # "none" => cursor <= Len(S)
    BY <1>9, <1>12, <2>1
  <2> QED  BY <1>2, <2>2 DEF McpInv, MessagesWalked, S
<1>15. EarliestInv'
  <2>1. asked.what = "earliest" /\ walk # "none" => Len(walked) \in Nat /\ Len(walked) <= Len(R)
                                                   /\ \A i \in 1..Len(walked) : walked[i] = R[i]
    BY DEF McpInv, EarliestInv, StartsWith, MessagesWalked, R
  <2>2. asked.what = "earliest" /\ walk # "none" => Len(walked) <= Len(S) /\ \A i \in 1..Len(walked) : walked[i] = S[i]
    BY <1>9, <1>12, <2>1
  <2> QED  BY <1>2, <1>7, <2>2 DEF McpInv, EarliestInv, StartsWith, WalkOver, S, B
<1>16. LatestInv'
  <2> SUFFICES ASSUME asked.what = "latest", walk # "none" PROVE LatestInv'
    BY <1>2 DEF LatestInv
  <2>1. messages' # before.messages
    <3>1. Len(messages') # Len(before.messages)
      BY <1>8, <1>9, <1>11
    <3> QED  BY <3>1
  <2>2. ASSUME NEW i \in DOMAIN B, i \in Behind' \/ WalkOver("latest") PROVE S[i] \in Range(walked)
    <3>1. i \in 1..Len(B) /\ i \in 1..Len(R) /\ S[i] = R[i]
      BY <1>9, <1>11, <1>12
    <3>2. i \in Behind' => i \in Behind
      <4>1. cursor \in Nat /\ cursor' = cursor
        BY <1>2 DEF McpInv, McpTypes
      <4>2. Behind' = (Len(S) - cursor + 1)..Len(S) /\ Behind = (Len(R) - cursor + 1)..Len(R)
        BY <4>1 DEF Behind, S, R
      <4> QED  BY <1>9, <1>12, <3>1, <4>1, <4>2
    <3> QED  BY <2>2, <3>1, <3>2 DEF McpInv, LatestInv, R, B
  <2>3. WalkOver("latest")' = WalkOver("latest")
    BY <1>2 DEF WalkOver
  <2> QED  BY <1>2, <1>7, <2>1, <2>2, <2>3 DEF McpInv, LatestInv, S, B
<1>17. ListInv'
  BY <1>2 DEF ListInv
<1> QED  BY <1>10, <1>13, <1>14, <1>15, <1>16, <1>17 DEF McpInv

\* A page of the role's messages from place c on, one more being read than it shows
LEMMA PageFromStart ==
  ASSUME McpInv, asked.what = "earliest", walk # "none"
  PROVE  LET R == OfRole(messages)
             fetched == Fetch(Reach)
             page == PageMessages(fetched)
         IN /\ page \in Seq(Messages) /\ cursor + Len(page) <= Len(R)
            /\ \A i \in 1..Len(page) : page[i] = R[cursor + i]
            /\ asked.limit > 0 /\ ~(Len(page) = asked.limit /\ Len(fetched) > cursor + Len(page))
                 => cursor + Len(page) = Len(R)
<1> DEFINE R == OfRole(messages)
           fetched == Fetch(Reach)
           page == PageMessages(fetched)
<1>1. R \in Seq(Messages) /\ Len(R) \in Nat /\ cursor \in Nat /\ asked.limit \in Nat /\ cursor <= Len(R)
  <2>1. messages \in Seq(Messages) /\ RoleOK(messages) /\ cursor \in Nat /\ asked.limit \in Nat
    BY DEF McpInv, McpTypes, WalkBegan
  <2>2. R \in Seq(Messages) /\ Len(R) \in Nat
    BY <2>1, RoleTyped
  <2> QED  BY <2>1, <2>2 DEF McpInv, MessagesWalked
<1> PICK N \in Nat : N = Len(R)
  BY <1>1
<1> PICK c \in Nat : c = cursor
  BY <1>1
<1> PICK l \in Nat : l = asked.limit
  BY <1>1
<1>2. fetched = Earliest(R, c + l + 1)
  BY DEF Fetch, Reach
<1> HIDE DEF R
<1>3. PICK F \in Nat : F = IF c + l + 1 <= N THEN c + l + 1 ELSE N
  OBVIOUS
<1>4. fetched \in Seq(Messages) /\ Len(fetched) = F /\ \A i \in 1..F : fetched[i] = R[i]
  <2>1. c + l + 1 \in Nat
    OBVIOUS
  <2>2. F <= c + l + 1 /\ F <= Len(R) /\ (F = c + l + 1 \/ F = Len(R))
    BY <1>3
  <2> HIDE DEF fetched
  <2>n. PICK n \in Nat : n = c + l + 1
    BY <2>1
  <2>r. PICK r \in Seq(Messages) : r = R
    BY <1>1
  <2>3. F <= n /\ F <= Len(r) /\ (F = n \/ F = Len(r))
    BY <2>2, <2>n, <2>r
  <2>4. Earliest(r, n) \in Seq(Messages) /\ Len(Earliest(r, n)) = F /\ \A i \in 1..F : Earliest(r, n)[i] = r[i]
    BY ONLY <2>3, F \in Nat, n \in Nat, r \in Seq(Messages), EarliestIs
  <2> QED  BY <1>2, <2>4, <2>n, <2>r
<1>5. page = Earliest(SubSeq(fetched, c + 1, F), l)
  BY <1>4 DEF PageMessages
<1> HIDE DEF fetched, page
<1>6. c <= N /\ c <= F /\ c + 1 \in Nat \ {0} /\ F <= N
  BY <1>1, <1>3
<1> DEFINE rest == SubSeq(fetched, c + 1, F)
<1>7. rest \in Seq(Messages) /\ Len(rest) = F - c /\ F - c \in Nat /\ \A i \in 1..(F - c) : rest[i] = fetched[c + i]
  <2>1. SubSeq(fetched, c + 1, F) \in Seq(Messages) /\ Len(SubSeq(fetched, c + 1, F)) = F - (c + 1) + 1
        /\ \A i \in 1..(F - (c + 1) + 1) : SubSeq(fetched, c + 1, F)[i] = fetched[(c + 1) + i - 1]
    BY <1>4, <1>6, Slice
  <2>2. F - (c + 1) + 1 = F - c /\ \A i \in 1..(F - c) : (c + 1) + i - 1 = c + i
    OBVIOUS
  <2>3. F - c \in Nat
    BY <1>6
  <2> QED  BY <2>1, <2>2, <2>3
<1> HIDE DEF rest
<1>8. PICK k \in Nat : k = IF l <= F - c THEN l ELSE F - c
  BY <1>7
<1>9. page \in Seq(Messages) /\ Len(page) = k /\ \A i \in 1..k : page[i] = rest[i]
  <2>1. k <= l /\ k <= Len(rest) /\ (k = l \/ k = Len(rest))
    BY <1>7, <1>8
  <2>2. Earliest(rest, l) \in Seq(Messages) /\ Len(Earliest(rest, l)) = k /\ \A i \in 1..k : Earliest(rest, l)[i] = rest[i]
    <3>r. PICK r \in Seq(Messages) : r = rest
      BY <1>7
    <3>1. k <= l /\ k <= Len(r) /\ (k = l \/ k = Len(r))
      BY <2>1, <3>r
    <3>2. Earliest(r, l) \in Seq(Messages) /\ Len(Earliest(r, l)) = k /\ \A i \in 1..k : Earliest(r, l)[i] = r[i]
      BY ONLY <3>1, k \in Nat, l \in Nat, r \in Seq(Messages), EarliestIs
    <3> QED  BY <3>2, <3>r
  <2> QED  BY <1>5, <2>2 DEF rest
<1>10. k <= F - c /\ c + k <= N /\ \A i \in 1..k : i \in 1..(F - c) /\ c + i \in 1..F
  BY <1>6, <1>8
<1>11. \A i \in 1..k : page[i] = R[c + i]
  BY <1>4, <1>7, <1>9, <1>10
<1>12. l > 0 /\ ~(k = l /\ F > c + k) => c + k = N
  BY <1>3, <1>6, <1>8
<1> QED  BY <1>4, <1>9, <1>10, <1>11, <1>12 DEF R, page, fetched

\* The same of a list of messages
LEMMA LatestOfMessages ==
  ASSUME NEW s \in Seq(Messages), NEW n \in Nat, NEW l \in Nat, l <= n, l <= Len(s), l = n \/ l = Len(s)
  PROVE  /\ Latest(s, n) \in Seq(Messages) /\ Len(Latest(s, n)) = l
         /\ \A i \in 1..l : Latest(s, n)[i] = s[Len(s) - l + i]
BY LatestIs

\* A page of the role's messages up to place N - c
LEMMA PageFromEnd ==
  ASSUME McpInv, asked.what = "latest", walk # "none"
  PROVE  LET R == OfRole(messages)
             fetched == Fetch(Reach)
             page == PageMessages(fetched)
         IN /\ page \in Seq(Messages) /\ cursor + Len(page) <= Len(R)
            /\ \A i \in 1..Len(page) : page[i] = R[Len(R) - cursor - Len(page) + i]
            /\ asked.limit > 0 /\ ~(Len(page) = asked.limit /\ Len(fetched) > cursor + Len(page))
                 => cursor + Len(page) = Len(R)
<1> DEFINE R == OfRole(messages)
           fetched == Fetch(Reach)
           page == PageMessages(fetched)
<1>1. R \in Seq(Messages) /\ Len(R) \in Nat /\ cursor \in Nat /\ asked.limit \in Nat /\ cursor <= Len(R)
  <2>1. messages \in Seq(Messages) /\ RoleOK(messages) /\ cursor \in Nat /\ asked.limit \in Nat
    BY DEF McpInv, McpTypes, WalkBegan
  <2>2. R \in Seq(Messages) /\ Len(R) \in Nat
    BY <2>1, RoleTyped
  <2> QED  BY <2>1, <2>2 DEF McpInv, MessagesWalked
<1> PICK N \in Nat : N = Len(R)
  BY <1>1
<1> PICK c \in Nat : c = cursor
  BY <1>1
<1> PICK l \in Nat : l = asked.limit
  BY <1>1
<1>2. fetched = Latest(R, c + l + 1)
  BY DEF Fetch, Reach
<1> HIDE DEF R
<1>3. PICK F \in Nat : F = IF c + l + 1 <= N THEN c + l + 1 ELSE N
  OBVIOUS
<1>4. fetched \in Seq(Messages) /\ Len(fetched) = F /\ \A i \in 1..F : fetched[i] = R[N - F + i]
  <2>1. c + l + 1 \in Nat
    OBVIOUS
  <2>2. F <= c + l + 1 /\ F <= Len(R) /\ (F = c + l + 1 \/ F = Len(R))
    BY <1>3
  <2> HIDE DEF fetched
  <2>n. PICK n \in Nat : n = c + l + 1
    BY <2>1
  <2>r. PICK r \in Seq(Messages) : r = R
    BY <1>1
  <2>3. F <= n
    BY <2>2, <2>n
  <2>5. F <= Len(r)
    BY <2>2, <2>r
  <2>6. F = n \/ F = Len(r)
    BY <2>2, <2>n, <2>r
  <2>4. Latest(r, n) \in Seq(Messages) /\ Len(Latest(r, n)) = F /\ \A i \in 1..F : Latest(r, n)[i] = r[Len(r) - F + i]
    BY ONLY <2>3, <2>5, <2>6, F \in Nat, n \in Nat, r \in Seq(Messages), LatestOfMessages
  <2> QED  BY <1>2, <2>4, <2>n, <2>r
<1>6. c <= N /\ c <= F /\ F <= N
  BY <1>1, <1>3
<1>7. PICK e \in Nat : e = F - c
  BY <1>6
<1>5. page = Latest(Earliest(fetched, e), l)
  <2>1. Max({0, F - c}) = e
    <3>1. Max({0, F - c}) = IF 0 >= F - c THEN 0 ELSE F - c
      BY MaxOfTwo
    <3> QED  BY <1>7, <3>1
  <2> QED  BY <1>4, <2>1 DEF PageMessages
<1> HIDE DEF fetched, page
<1> DEFINE rest == Earliest(fetched, e)
<1>8. rest \in Seq(Messages) /\ Len(rest) = e /\ \A i \in 1..e : rest[i] = fetched[i]
  <2>1. e <= Len(fetched)
    BY <1>4, <1>7
  <2>3. PICK f \in Seq(Messages) : f = fetched
    BY <1>4
  <2>4. e <= e /\ e <= Len(f) /\ (e = e \/ e = Len(f))
    BY <2>1, <2>3
  <2>2. Earliest(f, e) \in Seq(Messages) /\ Len(Earliest(f, e)) = e /\ \A i \in 1..e : Earliest(f, e)[i] = f[i]
    BY ONLY <2>4, e \in Nat, f \in Seq(Messages), EarliestIs
  <2> QED  BY <2>2, <2>3
<1> HIDE DEF rest
<1>9. PICK k \in Nat : k = IF l <= e THEN l ELSE e
  OBVIOUS
<1>10. page \in Seq(Messages) /\ Len(page) = k /\ \A i \in 1..k : page[i] = rest[e - k + i]
  <2>1. k <= l /\ k <= Len(rest) /\ (k = l \/ k = Len(rest))
    BY <1>8, <1>9
  <2>2. Latest(rest, l) \in Seq(Messages) /\ Len(Latest(rest, l)) = k /\ \A i \in 1..k : Latest(rest, l)[i] = rest[Len(rest) - k + i]
    <3>r. PICK r \in Seq(Messages) : r = rest
      BY <1>8
    <3>1. k <= l /\ k <= Len(r) /\ (k = l \/ k = Len(r))
      BY <2>1, <3>r
    <3>2. Latest(r, l) \in Seq(Messages) /\ Len(Latest(r, l)) = k /\ \A i \in 1..k : Latest(r, l)[i] = r[Len(r) - k + i]
      BY ONLY <3>1, k \in Nat, l \in Nat, r \in Seq(Messages), LatestIs
    <3> QED  BY <3>2, <3>r
  <2> QED  BY <1>5, <1>8, <2>2 DEF rest
<1>11. k <= e /\ c + k <= N /\ \A i \in 1..k : e - k + i \in 1..e /\ e - k + i \in 1..F /\ N - F + (e - k + i) = N - c - k + i
  <2>1. k <= e
    BY <1>9
  <2>2. e <= F /\ c + k <= N
    BY <1>6, <1>7, <2>1
  <2> QED  BY <1>6, <1>7, <2>1, <2>2
<1>12. \A i \in 1..k : page[i] = R[N - c - k + i]
  <2> SUFFICES ASSUME NEW i \in 1..k PROVE page[i] = R[N - c - k + i]
    OBVIOUS
  <2> DEFINE j == e - k + i
  <2>1. page[i] = rest[j] /\ j \in 1..e /\ j \in 1..F /\ N - F + j = N - c - k + i
    BY <1>10, <1>11
  <2> HIDE DEF j
  <2>2. rest[j] = fetched[j] /\ fetched[j] = R[N - F + j]
    BY <1>4, <1>8, <2>1
  <2> QED  BY <2>1, <2>2
<1>13. l > 0 /\ ~(k = l /\ F > c + k) => c + k = N
  BY <1>3, <1>6, <1>7, <1>9
<1> QED  BY <1>4, <1>10, <1>11, <1>12, <1>13 DEF R, page, fetched

\* What a walk begins with is what the role has then.
LEMMA BeganAt ==
  ASSUME NEW ms, before'.messages = ms, UNCHANGED asked
  PROVE  OfRole(before.messages)' = OfRole(ms) /\ (RoleOK(ms) => RoleOK(before.messages)')
<1>1. Matching(before.messages)' = Matching(ms)
  BY DEF Matching
<1> QED  BY <1>1 DEF OfRole, RoleOK

LEMMA StartWalkKept == ASSUME McpInv, StartWalk PROVE McpInv'
<1> DEFINE R == OfRole(messages)
<1>1. /\ before'.messages = messages /\ before'.list = list /\ before'.listMoves = listMoves
      /\ cursor' = 0 /\ pages' = <<>> /\ walked' = <<>> /\ walk' = "walking" /\ left' = {} /\ written' = {}
      /\ UNCHANGED <<messages, list, listMoves, asked>>
  BY DEF StartWalk
<1>2. messages \in Seq(Messages) /\ RoleOK(messages) /\ list \in Seq(Listed) /\ listMoves \in Nat
  BY DEF McpInv, McpTypes, WalkBegan
<1>3. Len(messages) \in Nat /\ Len(R) \in Nat /\ DOMAIN R = 1..Len(R)
  BY <1>2, RoleTyped
<1>4. OfRole(before.messages)' = R /\ RoleOK(before.messages)' /\ OfRole(messages)' = R /\ RoleOK(messages)'
  <2>1. PICK ms : ms = messages
    OBVIOUS
  <2> QED  BY <1>1, <1>2, <2>1, BeganAt, RoleThen
<1> HIDE DEF R
<1>5. McpTypes'
  BY <1>1 DEF McpInv, McpTypes
<1>6. WalkBegan'
  BY <1>1, <1>3, <1>4 DEF WalkBegan, StartsWith
<1>7. MessagesWalked'
  BY <1>1, <1>3, <1>4 DEF MessagesWalked
<1>8. EarliestInv'
  BY <1>1, <1>3, <1>4 DEF EarliestInv, StartsWith, WalkOver
<1>9. LatestInv'
  <2>1. Behind' = (Len(R) - 0 + 1)..Len(R)
    BY <1>1, <1>4 DEF Behind
  <2>2. \A i \in 1..Len(R) : i \notin Behind'
    BY <1>3, <2>1
  <2>3. ~WalkOver("latest")' /\ DOMAIN pages' = {} /\ DOMAIN walked' = {} /\ IsInjective(walked')
    BY <1>1 DEF WalkOver, IsInjective
  <2> QED  BY <1>3, <1>4, <2>2, <2>3 DEF LatestInv
<1>10. ListInv'
  <2>1. walked' \in Seq(Listed) /\ Len(walked') = 0 /\ cursor' = 0 /\ StartsWith(walked', list')
    BY <1>1, <1>2 DEF StartsWith
  <2>2. \A s \in Range(before'.list) : \E n \in DOMAIN list' : list'[n] = s /\ cursor' < n
    <3>1. DOMAIN list = 1..Len(list) /\ Len(list) \in Nat
      BY <1>2
    <3> QED  BY <1>1, <3>1 DEF Range
  <2> QED  BY <1>1, <1>2, <2>1, <2>2 DEF ListInv
<1> QED  BY <1>5, <1>6, <1>7, <1>8, <1>9, <1>10 DEF McpInv

LEMMA RefuseDeepKept == ASSUME McpInv, RefuseDeep PROVE McpInv'
<1>1. /\ walk = "walking" /\ walk' = "refused" /\ asked.what # "list"
      /\ UNCHANGED <<messages, list, listMoves, left, written, asked, cursor, pages, walked, before>>
  BY DEF RefuseDeep
<1>2. /\ OfRole(messages)' = OfRole(messages) /\ OfRole(before.messages)' = OfRole(before.messages)
      /\ (RoleOK(messages) => RoleOK(messages)') /\ (RoleOK(before.messages) => RoleOK(before.messages)')
  BY <1>1, SameRole
<1>3. Behind' = Behind
  BY <1>1, <1>2 DEF Behind
<1>4. \A what : ~WalkOver(what) /\ ~WalkOver(what)'
  BY <1>1 DEF WalkOver
<1>5. McpTypes'
  BY <1>1 DEF McpInv, McpTypes
<1>6. WalkBegan'
  BY <1>1, <1>2 DEF McpInv, WalkBegan
<1>7. MessagesWalked'
  BY <1>1, <1>2 DEF McpInv, MessagesWalked
<1>8. EarliestInv'
  BY <1>1, <1>2, <1>4 DEF McpInv, EarliestInv
<1>9. LatestInv'
  BY <1>1, <1>2, <1>3, <1>4 DEF McpInv, LatestInv
<1>10. ListInv'
  BY <1>1 DEF ListInv
<1> QED  BY <1>5, <1>6, <1>7, <1>8, <1>9, <1>10 DEF McpInv

-----------------------------------------------------------------------------
\* What a page of messages leaves as it was
LEMMA PagedKeeps ==
  ASSUME McpInv, GetMessages
  PROVE  LET page == PageMessages(Fetch(Reach))
         IN page \in Seq(Messages) => McpTypes' /\ WalkBegan'
<1> DEFINE page == PageMessages(Fetch(Reach))
<1>1. /\ cursor' = cursor + Len(page) /\ walk' \in {"walking", "done"} /\ walk = "walking"
      /\ UNCHANGED <<messages, list, listMoves, left, written, asked, before>>
  BY DEF GetMessages, Paged
<1>2. /\ OfRole(messages)' = OfRole(messages) /\ OfRole(before.messages)' = OfRole(before.messages)
      /\ (RoleOK(messages) => RoleOK(messages)') /\ (RoleOK(before.messages) => RoleOK(before.messages)')
  BY <1>1, SameRole
<1> SUFFICES ASSUME page \in Seq(Messages) PROVE McpTypes' /\ WalkBegan'
  OBVIOUS
<1> HIDE DEF page
<1>3. Len(page) \in Nat
  OBVIOUS
<1>4. cursor' \in Nat
  <2>1. cursor \in Nat
    BY DEF McpInv, McpTypes
  <2> QED  BY ONLY <1>1, <1>3, <2>1
<1>5. McpTypes'
  BY <1>1, <1>4 DEF McpInv, McpTypes
<1>6. WalkBegan'
  BY <1>1, <1>2 DEF McpInv, WalkBegan
<1> QED  BY <1>5, <1>6

\* A page from the beginning goes on where the last ended.
LEMMA GetEarliestKept == ASSUME McpInv, GetMessages, asked.what = "earliest" PROVE McpInv'
<1> DEFINE R == OfRole(messages)
           B == OfRole(before.messages)
           fetched == Fetch(Reach)
           page == PageMessages(fetched)
<1>1. /\ walked' = walked \o page /\ pages' = Append(pages, page) /\ cursor' = cursor + Len(page)
      /\ walk = "walking" /\ (walk' = "walking" \/ walk' = "done")
      /\ walk' = "done" => ~(asked.limit > 0 /\ Len(page) = asked.limit /\ Len(fetched) > cursor + Len(page))
      /\ UNCHANGED <<messages, list, listMoves, left, written, asked, before>>
  BY DEF GetMessages, Paged
<1>2. R' = R /\ B' = B
  BY <1>1, SameRole
<1>3. /\ page \in Seq(Messages) /\ cursor + Len(page) <= Len(R)
      /\ \A i \in 1..Len(page) : page[i] = R[cursor + i]
      /\ asked.limit > 0 /\ ~(Len(page) = asked.limit /\ Len(fetched) > cursor + Len(page))
           => cursor + Len(page) = Len(R)
  BY <1>1, PageFromStart
<1>4. McpTypes' /\ WalkBegan'
  BY <1>3, PagedKeeps
<1>5. /\ walked \in Seq(Messages) /\ pages \in Seq(Seq(Messages)) /\ cursor = Len(walked)
      /\ StartsWith(walked, R)
  BY <1>1 DEF McpInv, MessagesWalked, EarliestInv
<1>6. Len(R) \in Nat /\ Len(B) \in Nat /\ Len(B) <= Len(R)
  <2>1. messages \in Seq(Messages) /\ before.messages \in Seq(Messages) /\ RoleOK(messages)
        /\ RoleOK(before.messages) /\ StartsWith(B, R)
    BY <1>1 DEF McpInv, McpTypes, WalkBegan
  <2> QED  BY <2>1, RoleTyped DEF StartsWith
<1> HIDE DEF R, B, fetched, page
<1>7. /\ walked' \in Seq(Messages) /\ Len(walked') = Len(walked) + Len(page)
      /\ \A i \in 1..Len(walked) : walked'[i] = walked[i]
      /\ \A i \in (Len(walked) + 1)..(Len(walked) + Len(page)) : walked'[i] = page[i - Len(walked)]
  BY <1>1, <1>3, <1>5, Joined
<1>8. Len(walked) \in Nat /\ Len(page) \in Nat
  BY <1>3, <1>5
<1>9. MessagesWalked'
  <2>1. pages' \in Seq(Seq(Messages))
    BY <1>1, <1>3, <1>5
  <2> QED  BY <1>1, <1>2, <1>3, <1>5, <1>7, <2>1 DEF MessagesWalked, R
<1>10. \A i \in 1..Len(walked') : walked'[i] = R[i]
  <2> SUFFICES ASSUME NEW i \in 1..Len(walked') PROVE walked'[i] = R[i]
    OBVIOUS
  <2>1. CASE i <= Len(walked)
    BY <1>5, <1>7, <1>8, <2>1 DEF StartsWith
  <2>2. CASE i > Len(walked)
    <3>1. i \in (Len(walked) + 1)..(Len(walked) + Len(page)) /\ i - Len(walked) \in 1..Len(page)
          /\ cursor + (i - Len(walked)) = i
      BY <1>5, <1>7, <1>8, <2>2
    <3> QED  BY <1>3, <1>7, <3>1
  <2> QED  BY <1>7, <1>8, <2>1, <2>2
<1>11. EarliestInv'
  <2>1. StartsWith(walked', R)
    BY <1>3, <1>5, <1>7, <1>10 DEF StartsWith
  <2>2. WalkOver("earliest")' => Len(B) <= cursor'
    BY <1>1, <1>3, <1>6 DEF WalkOver
  <2> QED  BY <1>2, <2>1, <2>2 DEF EarliestInv, R, B
<1>12. LatestInv' /\ ListInv'
  BY <1>1 DEF LatestInv, ListInv
<1> QED  BY <1>4, <1>9, <1>11, <1>12 DEF McpInv

\* A page from the end has the places just below those behind it.
LEMMA GetLatestKept == ASSUME McpInv, GetMessages, asked.what = "latest" PROVE McpInv'
<1> DEFINE R == OfRole(messages)
           B == OfRole(before.messages)
           fetched == Fetch(Reach)
           page == PageMessages(fetched)
<1>1. /\ walked' = walked \o page /\ pages' = Append(pages, page) /\ cursor' = cursor + Len(page)
      /\ walk = "walking" /\ (walk' = "walking" \/ walk' = "done")
      /\ walk' = "done" => ~(asked.limit > 0 /\ Len(page) = asked.limit /\ Len(fetched) > cursor + Len(page))
      /\ UNCHANGED <<messages, list, listMoves, left, written, asked, before>>
  BY DEF GetMessages, Paged
<1>2. R' = R /\ B' = B
  BY <1>1, SameRole
<1>3. /\ page \in Seq(Messages) /\ cursor + Len(page) <= Len(R)
      /\ \A i \in 1..Len(page) : page[i] = R[Len(R) - cursor - Len(page) + i]
      /\ asked.limit > 0 /\ ~(Len(page) = asked.limit /\ Len(fetched) > cursor + Len(page))
           => cursor + Len(page) = Len(R)
  BY <1>1, PageFromEnd
<1>4. McpTypes' /\ WalkBegan'
  BY <1>3, PagedKeeps
<1>5. /\ walked \in Seq(Messages) /\ pages \in Seq(Seq(Messages)) /\ cursor = Len(walked)
  BY <1>1 DEF McpInv, MessagesWalked
<1>6. /\ \A i \in DOMAIN B : i \in Behind => R[i] \in Range(walked)
      /\ \A p \in DOMAIN pages : \A m, n \in DOMAIN pages[p] : m < n => pages[p][m].at < pages[p][n].at
      /\ messages = before.messages =>
           IsInjective(walked) /\ \A j \in DOMAIN walked : \E i \in Behind : walked[j] = R[i]
  BY <1>1 DEF McpInv, LatestInv
<1>7. /\ Len(R) \in Nat /\ DOMAIN R = 1..Len(R)
      /\ Len(B) \in Nat /\ Len(B) <= Len(R) /\ DOMAIN B = 1..Len(B)
      /\ \A n \in 1..Len(R) : R[n].at \in Nat
  <2>1. messages \in Seq(Messages) /\ before.messages \in Seq(Messages) /\ RoleOK(messages)
        /\ RoleOK(before.messages) /\ StartsWith(B, R)
    BY <1>1 DEF McpInv, McpTypes, WalkBegan
  <2>2. Len(R) \in Nat /\ DOMAIN R = 1..Len(R) /\ \A n \in DOMAIN R : R[n] \in Messages
    BY <2>1, RoleTyped
  <2>3. Len(B) \in Nat /\ DOMAIN B = 1..Len(B)
    BY <2>1, RoleTyped
  <2>4. \A x \in Messages : x.at \in Nat
    BY DEF Messages
  <2> QED  BY <2>1, <2>2, <2>3, <2>4 DEF StartsWith
<1>8. \A m, n \in 1..Len(R) : m < n => R[m].at < R[n].at
  <2>1. RoleOK(messages)
    BY DEF McpInv, WalkBegan
  <2> QED  BY <1>7, <2>1 DEF RoleOK
<1>n. PICK N \in Nat : N = Len(R)
  BY <1>7
<1>c. PICK c \in Nat : c = cursor
  BY <1>5
<1>k. PICK k \in Nat : k = Len(page)
  BY <1>3
<1>9. Behind = (N - c + 1)..N /\ Behind' = (N - c - k + 1)..N
  <2>1. cursor' = c + k
    BY <1>1, <1>c, <1>k
  <2>2. Behind' = (Len(R') - (c + k) + 1)..Len(R')
    BY <2>1 DEF Behind
  <2>3. Behind = (N - c + 1)..N
    BY <1>n, <1>c DEF Behind
  <2>4. N - (c + k) + 1 = N - c - k + 1
    OBVIOUS
  <2> HIDE DEF R
  <2> QED  BY <1>2, <1>n, <2>2, <2>3, <2>4
<1> HIDE DEF R, B, fetched, page
<1>10. c + k <= N
  BY <1>3, <1>n, <1>c, <1>k
<1>11. /\ walked' \in Seq(Messages) /\ Len(walked') = c + k /\ DOMAIN walked' = 1..(c + k) /\ DOMAIN walked = 1..c
       /\ \A i \in 1..c : walked'[i] = walked[i]
       /\ \A i \in 1..k : walked'[c + i] = page[i]
       /\ \A i \in (c + 1)..(c + k) : walked'[i] = page[i - c]
  <2>1. PICK w \in Seq(Messages) : w = walked
    BY <1>5
  <2>2. PICK p \in Seq(Messages) : p = page
    BY <1>3
  <2>3. Len(w) = c /\ Len(p) = k /\ walked' = w \o p
    BY <1>1, <1>5, <1>c, <1>k, <2>1, <2>2
  <2>4. /\ w \o p \in Seq(Messages) /\ Len(w \o p) = Len(w) + Len(p)
        /\ \A i \in 1..Len(w) : (w \o p)[i] = w[i]
        /\ \A i \in 1..Len(p) : (w \o p)[Len(w) + i] = p[i]
        /\ \A i \in (Len(w) + 1)..(Len(w) + Len(p)) : (w \o p)[i] = p[i - Len(w)]
    BY ONLY w \in Seq(Messages), p \in Seq(Messages), Joined
  <2>5. DOMAIN w = 1..c /\ DOMAIN (w \o p) = 1..(c + k)
    BY <2>3, <2>4
  <2> QED  BY <2>1, <2>2, <2>3, <2>4, <2>5
<1>12. \A i \in 1..k : page[i] = R[N - c - k + i] /\ N - c - k + i \in 1..(N - c)
  <2>1. \A i \in 1..k : N - c - k + i \in 1..(N - c)
    BY <1>10
  <2> QED  BY <1>3, <1>n, <1>c, <1>k, <2>1
<1>13. MessagesWalked'
  <2>1. pages' \in Seq(Seq(Messages))
    BY <1>1, <1>3, <1>5
  <2>2. cursor' = c + k /\ Len(walked') = c + k /\ cursor' <= Len(R)
    BY <1>1, <1>10, <1>11, <1>c, <1>k, <1>n
  <2> QED  BY <1>1, <1>2, <1>11, <2>1, <2>2 DEF MessagesWalked, R
<1>14. ASSUME NEW i \in DOMAIN B, i \in Behind' \/ WalkOver("latest")' PROVE R[i] \in Range(walked')
  <2>1. i \in 1..N
    BY <1>7, <1>n
  <2>2. i \in Behind'
    <3>1. WalkOver("latest")' => c + k = N
      BY <1>1, <1>3, <1>c, <1>k, <1>n DEF WalkOver
    <3> QED  BY <1>9, <1>14, <2>1, <3>1
  <2>3. CASE i \in Behind
    <3>1. PICK j \in 1..c : walked[j] = R[i]
      BY <1>6, <1>11, <2>3 DEF Range
    <3>2. j \in 1..(c + k)
      OBVIOUS
    <3> QED  BY <1>11, <3>1, <3>2 DEF Range
  <2>4. CASE i \notin Behind
    <3>1. PICK j \in 1..k : i = N - c - k + j
      <4>1. i - (N - c - k) \in 1..k /\ i = N - c - k + (i - (N - c - k))
        BY <1>9, <1>10, <2>1, <2>2, <2>4
      <4> QED  BY <4>1
    <3>2. c + j \in 1..(c + k) /\ walked'[c + j] = R[i]
      BY <1>11, <1>12, <3>1
    <3> QED  BY <1>11, <3>2 DEF Range
  <2> QED  BY <2>3, <2>4
<1>15. ASSUME NEW m \in 1..k, NEW n \in 1..k, m < n PROVE page[m].at < page[n].at
  <2>1. N - c - k + m \in 1..N /\ N - c - k + n \in 1..N /\ N - c - k + m < N - c - k + n
    BY <1>10, <1>15
  <2> QED  BY <1>8, <1>12, <1>n, <2>1
<1>16. \A p \in DOMAIN pages' : \A m, n \in DOMAIN pages'[p] : m < n => pages'[p][m].at < pages'[p][n].at
  <2>1. /\ DOMAIN pages' = DOMAIN pages \cup {Len(pages) + 1} /\ pages'[Len(pages) + 1] = page
        /\ \A p \in DOMAIN pages : pages'[p] = pages[p]
    BY <1>1, <1>3, <1>5
  <2>2. DOMAIN page = 1..k
    BY <1>3, <1>k
  <2>3. ASSUME NEW p \in DOMAIN pages', NEW m \in DOMAIN pages'[p], NEW n \in DOMAIN pages'[p], m < n
        PROVE  pages'[p][m].at < pages'[p][n].at
    <3>1. CASE p \in DOMAIN pages
      BY <1>6, <2>1, <2>3, <3>1
    <3>2. CASE p = Len(pages) + 1
      BY <1>15, <2>1, <2>2, <2>3, <3>2
    <3> QED  BY <2>1, <3>1, <3>2
  <2> QED  BY <2>3
<1>17. ASSUME messages = before.messages
       PROVE  IsInjective(walked') /\ \A j \in DOMAIN walked' : \E i \in Behind' : walked'[j] = R[i]
  <2>1. IsInjective(walked) /\ \A j \in 1..c : \E i \in (N - c + 1)..N : walked[j] = R[i]
    BY <1>6, <1>9, <1>11, <1>17
  <2>2. \A j \in 1..c : \E i \in (N - c + 1)..N : walked'[j] = R[i]
    BY <1>11, <2>1
  <2>3. \A j \in (c + 1)..(c + k) : \E i \in 1..(N - c) : i = N - c - k + (j - c) /\ walked'[j] = R[i]
    <3> SUFFICES ASSUME NEW j \in (c + 1)..(c + k)
                 PROVE  \E i \in 1..(N - c) : i = N - c - k + (j - c) /\ walked'[j] = R[i]
      OBVIOUS
    <3>1. PICK h \in 1..k : h = j - c
      OBVIOUS
    <3>2. walked'[j] = R[N - c - k + h] /\ N - c - k + h \in 1..(N - c)
      BY <1>11, <1>12, <3>1
    <3> QED  BY <3>1, <3>2
  <2>4. ASSUME NEW m \in 1..N, NEW n \in 1..N, R[m] = R[n] PROVE m = n
    <3>1. R[m].at \in Nat /\ R[n].at \in Nat /\ R[m].at = R[n].at
      BY <1>7, <1>n, <2>4
    <3>2. ~(m < n) /\ ~(n < m)
      BY <1>8, <1>n, <3>1
    <3> QED  BY <3>2
  <2>5. ASSUME NEW a \in 1..(c + k), NEW b \in 1..(c + k), walked'[a] = walked'[b] PROVE a = b
    <3>1. CASE a <= c /\ b <= c
      <4>1. a \in 1..c /\ b \in 1..c /\ walked[a] = walked[b]
        BY <1>11, <2>5, <3>1
      <4> QED  BY <1>11, <2>1, <4>1 DEF IsInjective
    <3>2. CASE a > c /\ b > c
      <4>1. PICK m \in 1..(N - c) : m = N - c - k + (a - c) /\ walked'[a] = R[m]
        BY <2>3, <3>2
      <4>2. PICK n \in 1..(N - c) : n = N - c - k + (b - c) /\ walked'[b] = R[n]
        BY <2>3, <3>2
      <4>3. m = n
        <5>1. m \in 1..N /\ n \in 1..N
          BY <1>10
        <5>2. R[m] = R[n]
          BY ONLY <2>5, <4>1, <4>2
        <5> QED  BY <2>4, <5>1, <5>2
      <4> QED  BY <4>1, <4>2, <4>3
    <3>3. CASE a <= c /\ b > c
      <4>1. PICK m \in (N - c + 1)..N : walked'[a] = R[m]
        BY <2>2, <3>3
      <4>2. PICK n \in 1..(N - c) : walked'[b] = R[n]
        BY <2>3, <3>3
      <4>3. m \in 1..N /\ n \in 1..N /\ m # n
        BY <1>10
      <4> QED  BY <2>4, <2>5, <4>1, <4>2, <4>3
    <3>4. CASE a > c /\ b <= c
      <4>1. PICK m \in 1..(N - c) : walked'[a] = R[m]
        BY <2>3, <3>4
      <4>2. PICK n \in (N - c + 1)..N : walked'[b] = R[n]
        BY <2>2, <3>4
      <4>3. m \in 1..N /\ n \in 1..N /\ m # n
        BY <1>10
      <4> QED  BY <2>4, <2>5, <4>1, <4>2, <4>3
    <3> QED  BY <3>1, <3>2, <3>3, <3>4
  <2>6. IsInjective(walked')
    BY <1>11, <2>5 DEF IsInjective
  <2>7. ASSUME NEW j \in 1..(c + k) PROVE \E i \in Behind' : walked'[j] = R[i]
    <3>1. CASE j <= c
      <4>1. PICK i \in (N - c + 1)..N : walked'[j] = R[i]
        BY <2>2, <3>1
      <4>2. i \in Behind'
        BY <1>9
      <4> QED  BY <4>1, <4>2
    <3>2. CASE j > c
      <4>1. PICK i \in 1..(N - c) : i = N - c - k + (j - c) /\ walked'[j] = R[i]
        BY <2>3, <3>2
      <4>2. i \in Behind'
        BY <1>9, <3>2, <4>1
      <4> QED  BY <4>1, <4>2
    <3> QED  BY <3>1, <3>2
  <2> QED  BY <1>11, <2>6, <2>7
<1>18. LatestInv'
  BY <1>1, <1>2, <1>14, <1>16, <1>17 DEF LatestInv, R, B
<1>19. EarliestInv' /\ ListInv'
  BY <1>1 DEF EarliestInv, ListInv
<1> QED  BY <1>4, <1>13, <1>18, <1>19 DEF McpInv

\* A page of the list has what follows the cursor.
LEMMA PageOfList ==
  ASSUME McpInv, asked.what = "list", walk # "none"
  PROVE  LET offset == Min({cursor, Len(list)})
             page == Earliest(SubSeq(list, offset + 1, Len(list)), asked.limit)
         IN /\ page \in Seq(Listed) /\ offset \in Nat /\ offset + Len(page) <= Len(list)
            /\ offset = IF cursor <= Len(list) THEN cursor ELSE Len(list)
            /\ \A i \in 1..Len(page) : page[i] = list[offset + i]
<1>1. list \in Seq(Listed) /\ cursor \in Nat /\ asked.limit \in Nat
  BY DEF McpInv, McpTypes
<1>n. PICK N \in Nat : N = Len(list)
  BY <1>1
<1>c. PICK c \in Nat : c = cursor
  BY <1>1
<1>l. PICK l \in Nat : l = asked.limit
  BY <1>1
<1>s. PICK s \in Seq(Listed) : s = list
  BY <1>1
<1>o. PICK o \in Nat : o = IF c <= N THEN c ELSE N
  OBVIOUS
<1>2. Min({c, N}) = o
  BY <1>o, MinOfTwo
<1>3. o <= N /\ o + 1 \in Nat \ {0} /\ o + 1 <= N + 1 /\ N - (o + 1) + 1 = N - o /\ N - o \in Nat
  BY <1>o
<1>4. PICK rest \in Seq(Listed) : rest = SubSeq(s, o + 1, N) /\ Len(rest) = N - o /\ \A i \in 1..(N - o) : rest[i] = s[o + i]
  <2>1. Len(s) = N
    BY <1>n, <1>s
  <2>2. PICK a \in Nat \ {0} : a = o + 1
    BY <1>3
  <2>3. SubSeq(s, a, N) \in Seq(Listed) /\ Len(SubSeq(s, a, N)) = N - a + 1
        /\ \A i \in 1..(N - a + 1) : SubSeq(s, a, N)[i] = s[a + i - 1]
    BY <1>3, <2>1, <2>2, Slice
  <2>4. N - a + 1 = N - o /\ \A i \in 1..(N - o) : a + i - 1 = o + i
    BY <2>2
  <2>5. PICK t \in Seq(Listed) : t = SubSeq(s, a, N)
    BY <2>3
  <2>6. Len(t) = N - o /\ \A i \in 1..(N - o) : t[i] = s[o + i]
    BY <2>3, <2>4, <2>5
  <2>7. t = SubSeq(s, o + 1, N)
    BY <2>2, <2>5
  <2> QED  BY <2>6, <2>7
<1>k. PICK k \in Nat : k = IF l <= N - o THEN l ELSE N - o
  BY <1>3
<1>5. Earliest(rest, l) \in Seq(Listed) /\ Len(Earliest(rest, l)) = k /\ \A i \in 1..k : Earliest(rest, l)[i] = rest[i]
  <2>1. k <= l /\ k <= Len(rest) /\ (k = l \/ k = Len(rest))
    BY <1>4, <1>k
  <2> QED  BY ONLY <2>1, k \in Nat, l \in Nat, rest \in Seq(Listed), EarliestIs
<1>6. k <= N - o /\ o + k <= N /\ \A i \in 1..k : i \in 1..(N - o)
  BY <1>3, <1>k
<1>7. \A i \in 1..k : Earliest(rest, l)[i] = s[o + i]
  BY <1>4, <1>5, <1>6
<1>8. /\ Min({cursor, Len(list)}) = o
      /\ Earliest(SubSeq(list, o + 1, Len(list)), asked.limit) = Earliest(rest, l)
  BY <1>2, <1>4, <1>c, <1>l, <1>n, <1>s
<1>9. o = IF cursor <= Len(list) THEN cursor ELSE Len(list)
  BY <1>o, <1>c, <1>n
<1>10. Earliest(rest, l) \in Seq(Listed) /\ o + Len(Earliest(rest, l)) <= Len(list)
       /\ \A i \in 1..Len(Earliest(rest, l)) : Earliest(rest, l)[i] = list[o + i]
  BY <1>5, <1>6, <1>7, <1>n, <1>s
<1> QED  BY <1>8, <1>9, <1>10

\* A page of the list passes no session without showing it.
LEMMA ListPageKept == ASSUME McpInv, ListPage PROVE McpInv'
<1>0. asked.what = "list" /\ walk = "walking"
  BY DEF ListPage
<1> DEFINE offset == Min({cursor, Len(list)})
           page == Earliest(SubSeq(list, offset + 1, Len(list)), asked.limit)
<1>1. /\ walked' = walked \o page /\ cursor' = cursor + Len(page)
      /\ walk' = IF offset + Len(page) < Len(list) THEN "walking" ELSE "done"
      /\ UNCHANGED <<messages, list, listMoves, left, written, asked, before>>
  BY DEF ListPage, Paged
<1>2. /\ page \in Seq(Listed) /\ offset \in Nat /\ offset + Len(page) <= Len(list)
      /\ offset = IF cursor <= Len(list) THEN cursor ELSE Len(list)
      /\ \A i \in 1..Len(page) : page[i] = list[offset + i]
  BY <1>0, PageOfList
<1> HIDE DEF offset, page
<1>3. list \in Seq(Listed) /\ before.list \in Seq(Listed) /\ walked \in Seq(Listed) /\ cursor = Len(walked) /\ cursor \in Nat
  BY <1>0 DEF McpInv, McpTypes, ListInv
<1>n. PICK N \in Nat : N = Len(list) /\ DOMAIN list = 1..N
  BY <1>3
<1>c. PICK c \in Nat : c = cursor
  BY <1>3
<1>k. PICK k \in Nat : k = Len(page)
  BY <1>2
<1>o. PICK o \in Nat : o = offset
  BY <1>2
<1>4. o + k <= N /\ (o = IF c <= N THEN c ELSE N) /\ \A i \in 1..k : page[i] = list[o + i]
  BY <1>2, <1>n, <1>c, <1>k, <1>o
<1>5. /\ walked' \in Seq(Listed) /\ Len(walked') = c + k /\ DOMAIN walked' = 1..(c + k) /\ DOMAIN walked = 1..c
      /\ \A i \in 1..c : walked'[i] = walked[i]
      /\ \A i \in (c + 1)..(c + k) : walked'[i] = page[i - c]
  <2>1. PICK w \in Seq(Listed) : w = walked
    BY <1>3
  <2>2. PICK p \in Seq(Listed) : p = page
    BY <1>2
  <2>3. Len(w) = c /\ Len(p) = k /\ walked' = w \o p
    BY <1>1, <1>3, <1>c, <1>k, <2>1, <2>2
  <2>4. /\ w \o p \in Seq(Listed) /\ Len(w \o p) = Len(w) + Len(p)
        /\ \A i \in 1..Len(w) : (w \o p)[i] = w[i]
        /\ \A i \in (Len(w) + 1)..(Len(w) + Len(p)) : (w \o p)[i] = p[i - Len(w)]
    BY ONLY w \in Seq(Listed), p \in Seq(Listed), Joined
  <2>5. DOMAIN w = 1..c /\ DOMAIN (w \o p) = 1..(c + k)
    BY <2>3, <2>4
  <2> QED  BY <2>1, <2>2, <2>3, <2>4, <2>5
<1>6. cursor' = c + k /\ (walk' = "done" => o + k = N) /\ (walk' = "walking" \/ walk' = "done") /\ (o + k < N => walk' # "done")
  BY <1>1, <1>4, <1>n, <1>c, <1>k, <1>o
<1>7. McpTypes'
  <2>1. cursor' \in Nat /\ walk' \in {"none", "walking", "done", "refused"}
    BY <1>6
  <2> QED  BY <1>1, <2>1 DEF McpInv, McpTypes
<1>8. WalkBegan'
  <2>1. /\ OfRole(messages)' = OfRole(messages) /\ OfRole(before.messages)' = OfRole(before.messages)
        /\ (RoleOK(messages) => RoleOK(messages)') /\ (RoleOK(before.messages) => RoleOK(before.messages)')
    BY <1>1, SameRole
  <2> QED  BY <1>0, <1>1, <2>1 DEF McpInv, WalkBegan
<1>9. ASSUME left = {}, NEW s \in Range(before.list) \ written
      PROVE  s \in Range(walked') \/ (walk' # "done" /\ \E n \in DOMAIN list : list[n] = s /\ c + k < n)
  <2>1. s \in Range(walked) \/ \E n \in 1..N : list[n] = s /\ c < n
    BY <1>0, <1>9, <1>c, <1>n DEF McpInv, ListInv
  <2>2. CASE s \in Range(walked)
    <3>1. PICK j \in 1..c : walked[j] = s
      BY <1>5, <2>2 DEF Range
    <3>2. j \in 1..(c + k) /\ walked'[j] = s
      BY <1>5, <3>1
    <3> QED  BY <1>5, <3>2 DEF Range
  <2>3. ASSUME NEW n \in 1..N, list[n] = s, c < n
        PROVE  s \in Range(walked') \/ (walk' # "done" /\ \E m \in DOMAIN list : list[m] = s /\ c + k < m)
    <3>1. o = c
      BY <1>4, <2>3
    <3>2. CASE n <= c + k
      <4>1. PICK h \in 1..k : h = n - c
        BY <2>3, <3>2
      <4>2. n \in (c + 1)..(c + k) /\ page[h] = list[o + h] /\ o + h = n
        BY <1>4, <2>3, <3>1, <3>2, <4>1
      <4>3. n \in 1..(c + k) /\ walked'[n] = s
        BY <1>5, <2>3, <4>1, <4>2
      <4> QED  BY <1>5, <4>3 DEF Range
    <3>3. CASE ~(n <= c + k)
      <4>1. c + k < n /\ o + k < N
        BY <2>3, <3>1, <3>3
      <4>2. walk' # "done"
        BY <1>6, <4>1
      <4> QED  BY <1>n, <2>3, <4>1, <4>2
    <3> QED  BY <3>2, <3>3
  <2> QED  BY <2>1, <2>2, <2>3
<1>10. ASSUME listMoves = before.listMoves
       PROVE  StartsWith(walked', list) /\ (walk' = "done" => c + k = N)
  <2>1. c <= N /\ \A i \in 1..c : walked[i] = list[i]
    BY <1>0, <1>3, <1>10, <1>c, <1>n DEF McpInv, ListInv, StartsWith
  <2>2. o = c
    BY <1>4, <2>1
  <2>3. \A i \in 1..(c + k) : walked'[i] = list[i]
    <3> SUFFICES ASSUME NEW i \in 1..(c + k) PROVE walked'[i] = list[i]
      OBVIOUS
    <3>1. CASE i <= c
      BY <1>5, <2>1, <3>1
    <3>2. CASE i > c
      <4>1. PICK h \in 1..k : h = i - c
        BY <3>2
      <4>2. i \in (c + 1)..(c + k) /\ o + h = i
        BY <2>2, <3>2, <4>1
      <4> QED  BY <1>4, <1>5, <4>1, <4>2
    <3> QED  BY <3>1, <3>2
  <2>4. c + k <= N /\ (walk' = "done" => c + k = N)
    BY <1>4, <1>6, <2>2
  <2> QED  BY <1>5, <1>n, <2>3, <2>4 DEF StartsWith
<1>11. ListInv'
  <2>1. before.listMoves <= listMoves
    BY <1>0 DEF McpInv, ListInv
  <2>2. walked' \in Seq(Listed) /\ cursor' = Len(walked')
    BY <1>5, <1>6
  <2>3. left' = {} =>
          \A s \in Range(before'.list) \ written' :
            s \in Range(walked') \/ (walk' # "done" /\ \E n \in DOMAIN list' : list'[n] = s /\ cursor' < n)
    BY <1>1, <1>6, <1>9
  <2>4. listMoves' = before'.listMoves =>
          StartsWith(walked', list') /\ (walk' = "done" => Len(walked') = Len(list'))
    BY <1>1, <1>5, <1>10, <1>n
  <2>5. before'.listMoves <= listMoves'
    BY <1>1, <2>1
  <2> QED  BY ONLY <2>2, <2>3, <2>4, <2>5 DEF ListInv, StartsWith
<1>12. MessagesWalked' /\ EarliestInv' /\ LatestInv'
  BY <1>0, <1>1 DEF MessagesWalked, EarliestInv, LatestInv
<1> QED  BY <1>7, <1>8, <1>11, <1>12 DEF McpInv

\* A session that is taken out leaves the others where they were, or one place higher.
LEMMA RemovedAt ==
  ASSUME NEW S, NEW s \in Seq(S), IsInjective(s), NEW k \in 1..Len(s)
  PROVE  LET w == RemoveAt(s, k)
         IN /\ w \in Seq(S) /\ IsInjective(w) /\ s[k] \notin Range(w)
            /\ \A n \in 1..Len(s) : n # k => \E m \in 1..Len(w) : w[m] = s[n] /\ n <= m + 1
<1>n. PICK N \in Nat : N = Len(s) /\ DOMAIN s = 1..N
  OBVIOUS
<1>1. k \in 1..N /\ k - 1 \in Nat /\ N - k \in Nat /\ k + 1 \in Nat \ {0}
  BY <1>n
<1>p. PICK p \in Seq(S) : p = SubSeq(s, 1, k - 1) /\ Len(p) = k - 1 /\ \A i \in 1..(k - 1) : p[i] = s[i]
  <2>1. PICK b \in Nat : b = k - 1
    BY <1>1
  <2>2. b <= Len(s) /\ 1 <= b + 1
    BY <1>1, <1>n, <2>1
  <2>3. SubSeq(s, 1, b) \in Seq(S) /\ Len(SubSeq(s, 1, b)) = b - 1 + 1 /\ \A i \in 1..(b - 1 + 1) : SubSeq(s, 1, b)[i] = s[1 + i - 1]
    BY <2>2, Slice
  <2>4. PICK t \in Seq(S) : t = SubSeq(s, 1, b)
    BY <2>3
  <2>5. Len(t) = k - 1 /\ \A i \in 1..(k - 1) : t[i] = s[i]
    BY <2>1, <2>3, <2>4
  <2>6. t = SubSeq(s, 1, k - 1)
    BY <2>1, <2>4
  <2> QED  BY <2>5, <2>6
<1>q. PICK q \in Seq(S) : q = SubSeq(s, k + 1, N) /\ Len(q) = N - k /\ \A i \in 1..(N - k) : q[i] = s[k + i]
  <2>1. PICK a \in Nat \ {0} : a = k + 1
    BY <1>1
  <2>2. N <= Len(s) /\ a <= N + 1
    BY <1>1, <1>n, <2>1
  <2>3. SubSeq(s, a, N) \in Seq(S) /\ Len(SubSeq(s, a, N)) = N - a + 1 /\ \A i \in 1..(N - a + 1) : SubSeq(s, a, N)[i] = s[a + i - 1]
    BY <2>2, Slice
  <2>4. PICK t \in Seq(S) : t = SubSeq(s, a, N)
    BY <2>3
  <2>5. N - a + 1 = N - k /\ \A i \in 1..(N - k) : a + i - 1 = k + i
    BY <2>1
  <2>6. Len(t) = N - k /\ \A i \in 1..(N - k) : t[i] = s[k + i]
    BY <2>3, <2>4, <2>5
  <2>7. t = SubSeq(s, k + 1, N)
    BY <2>1, <2>4
  <2> QED  BY <2>6, <2>7
<1>w. PICK w \in Seq(S) : w = RemoveAt(s, k) /\ w = p \o q
  <2>1. RemoveAt(s, k) = SubSeq(s, 1, k - 1) \o SubSeq(s, k + 1, N)
    BY ONLY <1>n DEF RemoveAt
  <2>2. RemoveAt(s, k) = p \o q
    BY ONLY <1>p, <1>q, <2>1
  <2>3. p \o q \in Seq(S)
    BY ONLY p \in Seq(S), q \in Seq(S), Joined
  <2> QED  BY ONLY <2>2, <2>3
<1>2. /\ Len(p \o q) = Len(p) + Len(q)
      /\ \A i \in 1..Len(p) : (p \o q)[i] = p[i]
      /\ \A i \in (Len(p) + 1)..(Len(p) + Len(q)) : (p \o q)[i] = q[i - Len(p)]
  BY ONLY p \in Seq(S), q \in Seq(S), Joined
<1>3. Len(p) + Len(q) = N - 1
  BY <1>1, <1>p, <1>q
<1>4. Len(w) = N - 1 /\ DOMAIN w = 1..(N - 1) /\ \A i \in 1..(k - 1) : w[i] = s[i]
  BY <1>2, <1>3, <1>p, <1>w
<1>5. \A i \in k..(N - 1) : w[i] = s[i + 1]
  <2> SUFFICES ASSUME NEW i \in k..(N - 1) PROVE w[i] = s[i + 1]
    OBVIOUS
  <2>1. PICK h \in 1..(N - k) : h = i - (k - 1) /\ k + h = i + 1
    BY <1>1
  <2>2. Len(p) = k - 1 /\ Len(q) = N - k
    BY <1>p, <1>q
  <2>3. i - Len(p) = h /\ i \in (Len(p) + 1)..(Len(p) + Len(q))
    BY ONLY <1>1, <2>1, <2>2, i \in k..(N - 1), N \in Nat
  <2> QED  BY <1>2, <1>q, <1>w, <2>1, <2>3
<1>6. \A i \in 1..(N - 1) : \E n \in 1..N : n # k /\ w[i] = s[n] /\ (n = IF i < k THEN i ELSE i + 1)
  <2> SUFFICES ASSUME NEW i \in 1..(N - 1)
               PROVE  \E n \in 1..N : n # k /\ w[i] = s[n] /\ (n = IF i < k THEN i ELSE i + 1)
    OBVIOUS
  <2>1. CASE i < k
    <3>1. i \in 1..N /\ i # k /\ i \in 1..(k - 1)
      BY <1>1, <2>1
    <3> QED  BY <1>4, <2>1, <3>1
  <2>2. CASE ~(i < k)
    <3>1. i + 1 \in 1..N /\ i + 1 # k /\ i \in k..(N - 1)
      BY <1>1, <2>2
    <3> QED  BY <1>5, <2>2, <3>1
  <2> QED  BY <2>1, <2>2
<1>7. \A m, n \in 1..N : s[m] = s[n] => m = n
  BY <1>n DEF IsInjective
<1>8. IsInjective(w)
  <2> SUFFICES ASSUME NEW i \in 1..(N - 1), NEW j \in 1..(N - 1), w[i] = w[j] PROVE i = j
    BY <1>4 DEF IsInjective
  <2>1. PICK m \in 1..N : w[i] = s[m] /\ (m = IF i < k THEN i ELSE i + 1)
    BY <1>6
  <2>2. PICK n \in 1..N : w[j] = s[n] /\ (n = IF j < k THEN j ELSE j + 1)
    BY <1>6
  <2>3. m = n
    BY <1>7, <2>1, <2>2
  <2> QED  BY <2>1, <2>2, <2>3
<1>9. s[k] \notin Range(w)
  <2> SUFFICES ASSUME NEW i \in 1..(N - 1), w[i] = s[k] PROVE FALSE
    BY <1>4 DEF Range
  <2> QED  BY <1>1, <1>6, <1>7
<1>10. ASSUME NEW n \in 1..N, n # k PROVE \E m \in 1..(N - 1) : w[m] = s[n] /\ n <= m + 1
  <2>1. CASE n < k
    <3>1. n \in 1..(N - 1) /\ n \in 1..(k - 1) /\ n <= n + 1
      BY <1>1, <2>1
    <3> QED  BY <1>4, <3>1
  <2>2. CASE ~(n < k)
    <3>1. PICK m \in 1..(N - 1) : m = n - 1 /\ m \in k..(N - 1) /\ m + 1 = n
      BY <1>1, <1>10, <2>2
    <3>2. w[m] = s[m + 1]
      BY ONLY <1>5, <3>1
    <3>3. w[m] = s[n] /\ n <= m + 1
      BY ONLY <3>1, <3>2, N \in Nat
    <3> QED  BY <3>3
  <2> QED  BY <2>1, <2>2
<1> QED  BY <1>4, <1>8, <1>9, <1>10, <1>n, <1>w

\* Taking a session out, if it is there
LEMMA WithoutIt ==
  ASSUME list \in Seq(Listed), IsInjective(list), NEW s \in Listed
  PROVE  /\ Without(s) \in Seq(Listed) /\ IsInjective(Without(s)) /\ s \notin Range(Without(s))
         /\ \A n \in DOMAIN list : list[n] # s =>
              \E m \in DOMAIN Without(s) : Without(s)[m] = list[n] /\ n <= m + 1
<1>1. CASE s \in Range(list)
  <2>1. PICK k \in 1..Len(list) : k = CHOOSE n \in DOMAIN list : list[n] = s
    BY <1>1 DEF Range
  <2>2. list[k] = s /\ Without(s) = RemoveAt(list, k)
    BY <1>1, <2>1 DEF Range, Without
  <2>3. PICK l \in Seq(Listed) : l = list
    OBVIOUS
  <2>4. k \in 1..Len(l) /\ IsInjective(l) /\ l[k] = s /\ Without(s) = RemoveAt(l, k)
    BY <2>2, <2>3
  <2>5. LET w == RemoveAt(l, k)
        IN /\ w \in Seq(Listed) /\ IsInjective(w) /\ l[k] \notin Range(w)
           /\ \A n \in 1..Len(l) : n # k => \E m \in 1..Len(w) : w[m] = l[n] /\ n <= m + 1
    BY <2>4, RemovedAt
  <2>6. PICK w \in Seq(Listed) : w = RemoveAt(l, k)
    BY <2>5
  <2>7. \A n \in DOMAIN l : l[n] # s => \E m \in DOMAIN w : w[m] = l[n] /\ n <= m + 1
    BY <2>4, <2>5, <2>6
  <2> QED  BY <2>3, <2>4, <2>5, <2>6, <2>7
<1>2. CASE s \notin Range(list)
  <2>1. Without(s) = list
    BY <1>2 DEF Without
  <2>2. \A n \in DOMAIN list : n <= n + 1
    OBVIOUS
  <2> QED  BY <1>2, <2>1, <2>2
<1> QED  BY <1>1, <1>2

\* What is walked of the messages does not depend on the list.
LEMMA ListAlone ==
  ASSUME McpInv, asked.what = "list", UNCHANGED <<messages, walk, asked, cursor, pages, walked, before>>
  PROVE  WalkBegan' /\ MessagesWalked' /\ EarliestInv' /\ LatestInv'
<1>1. /\ OfRole(messages)' = OfRole(messages) /\ OfRole(before.messages)' = OfRole(before.messages)
      /\ (RoleOK(messages) => RoleOK(messages)') /\ (RoleOK(before.messages) => RoleOK(before.messages)')
  BY SameRole
<1>2. WalkBegan'
  BY <1>1 DEF McpInv, WalkBegan
<1> QED  BY <1>2 DEF MessagesWalked, EarliestInv, LatestInv

\* A session that is written goes to the front: what is ahead of the cursor stays ahead.
LEMMA WriteSessionKept == ASSUME McpInv, NEW s \in Listed, WriteSession(s) PROVE McpInv'
<1>1. /\ asked.what = "list" /\ listMoves' = listMoves + 1 /\ list' = <<s>> \o Without(s)
      /\ left' = left /\ written' = written \cup {s}
      /\ UNCHANGED <<messages, walk, asked, cursor, pages, walked, before>>
  BY DEF WriteSession, Becomes
<1>2. list \in Seq(Listed) /\ IsInjective(list) /\ listMoves \in Nat /\ cursor \in Nat /\ before.listMoves \in Nat
      /\ before.list \in Seq(Listed)
  BY DEF McpInv, McpTypes
<1>3. /\ Without(s) \in Seq(Listed) /\ IsInjective(Without(s)) /\ s \notin Range(Without(s))
      /\ \A n \in DOMAIN list : list[n] # s =>
           \E m \in DOMAIN Without(s) : Without(s)[m] = list[n] /\ n <= m + 1
  BY <1>2, WithoutIt
<1>w. PICK w \in Seq(Listed) : w = Without(s)
  BY <1>3
<1>n. PICK M \in Nat : M = Len(w) /\ DOMAIN w = 1..M
  OBVIOUS
<1>4. /\ list' \in Seq(Listed) /\ Len(list') = M + 1 /\ DOMAIN list' = 1..(M + 1) /\ list'[1] = s
      /\ \A m \in 1..M : list'[m + 1] = w[m]
      /\ \A m \in 2..(M + 1) : list'[m] = w[m - 1]
  BY <1>1, <1>w, <1>n
<1>5. IsInjective(list')
  <2> SUFFICES ASSUME NEW a \in 1..(M + 1), NEW b \in 1..(M + 1), list'[a] = list'[b] PROVE a = b
    BY <1>4 DEF IsInjective
  <2>1. \A m \in 1..M : w[m] # s
    BY <1>3, <1>w, <1>n DEF Range
  <2>2. \A m, n \in 1..M : w[m] = w[n] => m = n
    BY <1>3, <1>w, <1>n DEF IsInjective
  <2>3. a = 1 \/ a \in 2..(M + 1)
    OBVIOUS
  <2>4. b = 1 \/ b \in 2..(M + 1)
    OBVIOUS
  <2>5. \A m \in 2..(M + 1) : m - 1 \in 1..M
    OBVIOUS
  <2>6. CASE a = 1 /\ b \in 2..(M + 1)
    BY <1>4, <2>1, <2>5, <2>6
  <2>7. CASE b = 1 /\ a \in 2..(M + 1)
    BY <1>4, <2>1, <2>5, <2>7
  <2>8. CASE a \in 2..(M + 1) /\ b \in 2..(M + 1)
    <3>1. a - 1 = b - 1
      BY <1>4, <2>2, <2>5, <2>8
    <3> QED  BY <3>1
  <2> QED  BY <2>3, <2>4, <2>6, <2>7, <2>8
<1>6. McpTypes'
  <2>1. listMoves' \in Nat
    BY <1>1, <1>2
  <2> QED  BY <1>1, <1>4, <1>5, <2>1 DEF McpInv, McpTypes
<1>7. ASSUME NEW t, t # s, NEW n \in DOMAIN list, list[n] = t, cursor < n
      PROVE  \E m \in DOMAIN list' : list'[m] = t /\ cursor < m
  <2>1. PICK m \in 1..M : w[m] = t /\ n <= m + 1
    BY <1>3, <1>7, <1>w, <1>n
  <2>2. m + 1 \in 1..(M + 1) /\ list'[m + 1] = t
    BY <1>4, <2>1
  <2>3. cursor < m + 1
    BY <1>2, <1>7, <2>1
  <2> QED  BY <1>4, <2>2, <2>3
<1>8. ListInv'
  <2> SUFFICES ASSUME walk # "none" PROVE ListInv'
    BY <1>1 DEF ListInv
  <2>1. walked' \in Seq(Listed) /\ cursor' = Len(walked')
    BY <1>1 DEF McpInv, ListInv
  <2>2. ASSUME left = {}, NEW t \in Range(before.list) \ written'
        PROVE  t \in Range(walked) \/ (walk # "done" /\ \E n \in DOMAIN list' : list'[n] = t /\ cursor < n)
    <3>1. t \in Range(walked) \/ (walk # "done" /\ \E n \in DOMAIN list : list[n] = t /\ cursor < n)
      BY <1>1, <2>2 DEF McpInv, ListInv
    <3>2. t # s
      BY <1>1, <2>2
    <3> QED  BY <1>7, <3>1, <3>2
  <2>3. before.listMoves <= listMoves' /\ listMoves' # before.listMoves
    <3>1. before.listMoves <= listMoves
      BY <1>1 DEF McpInv, ListInv
    <3> QED  BY <1>1, <1>2, <3>1
  <2>4. left' = {} =>
          \A t \in Range(before'.list) \ written' :
            t \in Range(walked') \/ (walk' # "done" /\ \E n \in DOMAIN list' : list'[n] = t /\ cursor' < n)
    BY <1>1, <2>2
  <2> QED  BY <1>1, <2>1, <2>3, <2>4 DEF ListInv
<1>9. WalkBegan' /\ MessagesWalked' /\ EarliestInv' /\ LatestInv'
  BY <1>1, ListAlone
<1> QED  BY <1>6, <1>8, <1>9 DEF McpInv

LEMMA DropSessionKept == ASSUME McpInv, NEW s \in Listed, DropSession(s) PROVE McpInv'
<1>1. /\ asked.what = "list" /\ listMoves' = listMoves + 1 /\ list' = Without(s)
      /\ left' = left \cup {s} /\ written' = written
      /\ UNCHANGED <<messages, walk, asked, cursor, pages, walked, before>>
  BY DEF DropSession, Becomes
<1>2. list \in Seq(Listed) /\ IsInjective(list) /\ listMoves \in Nat /\ before.listMoves \in Nat
  BY DEF McpInv, McpTypes
<1>3. list' \in Seq(Listed) /\ IsInjective(list')
  BY <1>1, <1>2, WithoutIt
<1>4. McpTypes'
  <2>1. listMoves' \in Nat
    BY <1>1, <1>2
  <2> QED  BY <1>1, <1>3, <2>1 DEF McpInv, McpTypes
<1>5. ListInv'
  <2> SUFFICES ASSUME walk # "none" PROVE ListInv'
    BY <1>1 DEF ListInv
  <2>1. walked' \in Seq(Listed) /\ cursor' = Len(walked') /\ left' # {}
    BY <1>1 DEF McpInv, ListInv
  <2>2. before.listMoves <= listMoves
    BY <1>1 DEF McpInv, ListInv
  <2>3. before.listMoves <= listMoves' /\ listMoves' # before.listMoves
    BY <1>1, <1>2, <2>2
  <2> QED  BY <1>1, <2>1, <2>3 DEF ListInv
<1>6. WalkBegan' /\ MessagesWalked' /\ EarliestInv' /\ LatestInv'
  BY <1>1, ListAlone
<1> QED  BY <1>4, <1>5, <1>6 DEF McpInv

-----------------------------------------------------------------------------
LEMMA McpStart == ASSUME McpInit PROVE McpInv
<1>1. /\ messages = <<>> /\ listMoves = 0 /\ left = {} /\ written = {} /\ walk = "none"
      /\ cursor = 0 /\ pages = <<>> /\ walked = <<>> /\ before.messages = <<>> /\ before.list = <<>> /\ before.listMoves = 0
  BY DEF McpInit
<1>2. list \in Seq(Listed) /\ IsInjective(list)
  <2>1. Cardinality(Listed) \in Nat
    BY McpAssumption, FS_CardinalityType
  <2>2. PICK n \in Nat : n = Cardinality(Listed)
    BY <2>1
  <2>3. list \in UNION {[1..m -> Listed] : m \in 0..n} /\ IsInjective(list)
    BY <2>2 DEF McpInit, BoundedSeq, SeqOf
  <2>4. PICK m \in 0..n : list \in [1..m -> Listed]
    BY <2>3
  <2>5. list \in Seq(Listed)
    BY <2>4
  <2> QED  BY <2>3, <2>5
<1>3. asked \in [what : {"earliest", "latest", "list"}, limit : Nat, role : {"", "user"}]
  BY McpAssumption DEF McpInit
<1>4. McpTypes
  <2>1. messages \in Seq(Messages) /\ before.messages \in Seq(Messages) /\ before.list \in Seq(Listed)
    BY <1>1
  <2>2. listMoves \in Nat /\ before.listMoves \in Nat /\ cursor \in Nat /\ walk \in {"none", "walking", "done", "refused"}
    BY <1>1
  <2> QED  BY ONLY <1>2, <1>3, <2>1, <2>2 DEF McpTypes
<1>5. Matching(messages) = {} /\ Cardinality({}) = 0
  BY <1>1, FS_EmptySet DEF Matching
<1>6. RoleOK(messages)
  <2>1. OfRole(messages) = [n \in 1..0 |-> messages[Nth(Matching(messages), n)]]
    BY <1>5 DEF OfRole
  <2>2. DOMAIN OfRole(messages) = {} /\ OfRole(messages) = <<>>
    BY <2>1
  <2>3. Ranked(Matching(messages))
    BY <1>5 DEF Ranked
  <2> QED  BY <2>2, <2>3 DEF RoleOK
<1>7. WalkBegan
  BY <1>1, <1>6 DEF WalkBegan
<1> QED  BY <1>1, <1>4, <1>7 DEF McpInv, MessagesWalked, EarliestInv, LatestInv, ListInv

LEMMA McpStutter == ASSUME McpInv, UNCHANGED mcpVars PROVE McpInv'
<1>1. UNCHANGED <<messages, list, listMoves, left, written, walk, asked, cursor, pages, walked, before>>
  BY DEF mcpVars
<1>2. /\ OfRole(messages)' = OfRole(messages) /\ OfRole(before.messages)' = OfRole(before.messages)
      /\ (RoleOK(messages) => RoleOK(messages)') /\ (RoleOK(before.messages) => RoleOK(before.messages)')
  BY <1>1, SameRole
<1>3. Behind' = Behind
  BY <1>1, <1>2 DEF Behind
<1>4. McpTypes'
  BY <1>1 DEF McpInv, McpTypes
<1>5. WalkBegan' /\ MessagesWalked'
  BY <1>1, <1>2 DEF McpInv, WalkBegan, MessagesWalked
<1>6. EarliestInv'
  BY <1>1, <1>2 DEF McpInv, EarliestInv, WalkOver
<1>7. LatestInv'
  BY <1>1, <1>2, <1>3 DEF McpInv, LatestInv, WalkOver
<1>8. ListInv'
  BY <1>1 DEF McpInv, ListInv
<1> QED  BY <1>4, <1>5, <1>6, <1>7, <1>8 DEF McpInv

LEMMA McpStep == ASSUME McpInv, [McpNext]_mcpVars PROVE McpInv'
<1>1. CASE GetMessages
  <2>1. asked.what \in {"earliest", "latest"}
    <3>1. asked.what # "list" /\ asked.what \in {"earliest", "latest", "list"}
      BY <1>1 DEF GetMessages, McpInv, McpTypes
    <3> QED  BY <3>1
  <2> QED  BY <1>1, <2>1, GetEarliestKept, GetLatestKept
<1>2. CASE WriteMessage \/ StartWalk \/ RefuseDeep \/ ListPage
  BY <1>2, WriteMessageKept, StartWalkKept, RefuseDeepKept, ListPageKept
<1>3. CASE \E s \in Listed : WriteSession(s) \/ DropSession(s)
  BY <1>3, WriteSessionKept, DropSessionKept
<1> QED  BY <1>1, <1>2, <1>3, McpStutter DEF McpNext

\* IsPrefix compares slices; place by place is enough.
LEMMA PrefixOf ==
  ASSUME NEW S, NEW s \in Seq(S), NEW t \in Seq(S), Len(s) <= Len(t), \A i \in 1..Len(s) : s[i] = t[i]
  PROVE  IsPrefix(s, t)
<1>n. PICK n \in Nat : n = Len(s)
  OBVIOUS
<1>1. SubSeq(s, 1, n) = [i \in 1..n |-> s[i]]
  BY <1>n
<1>2. SubSeq(t, 1, n) = [i \in 1..n |-> t[i]]
  BY <1>n
<1>3. SubSeq(s, 1, n) = SubSeq(t, 1, n)
  BY <1>1, <1>2, <1>n
<1> QED  BY <1>3, <1>n DEF IsPrefix

\* A walk that is over has what the property asks for.
LEMMA McpGoal == ASSUME McpInv PROVE WalksReachAll
<1> DEFINE R == OfRole(messages)
           B == OfRole(before.messages)
<1>1. ASSUME asked.what # "list", walk = "done"
      PROVE  /\ R \in Seq(Messages) /\ Len(R) \in Nat /\ DOMAIN R = 1..Len(R) /\ B \in Seq(Messages)
             /\ DOMAIN B = 1..Len(B) /\ StartsWith(B, R)
             /\ walked \in Seq(Messages) /\ cursor = Len(walked) /\ cursor <= Len(R) /\ Len(B) \in Nat
  <2>1. messages \in Seq(Messages) /\ before.messages \in Seq(Messages) /\ RoleOK(messages)
        /\ RoleOK(before.messages) /\ StartsWith(B, R)
    BY <1>1 DEF McpInv, McpTypes, WalkBegan
  <2>2. R \in Seq(Messages) /\ Len(R) \in Nat /\ DOMAIN R = 1..Len(R)
    BY <2>1, RoleTyped
  <2>3. B \in Seq(Messages) /\ Len(B) \in Nat /\ DOMAIN B = 1..Len(B)
    BY <2>1, RoleTyped
  <2> QED  BY <1>1, <2>1, <2>2, <2>3 DEF McpInv, MessagesWalked
<1>2. EarliestWalk
  <2> SUFFICES ASSUME WalkOver("earliest") PROVE IsPrefix(walked, R) /\ IsPrefix(B, walked)
    BY DEF EarliestWalk
  <2>1. asked.what = "earliest" /\ walk = "done"
    BY DEF WalkOver
  <2>2. StartsWith(walked, R) /\ Len(B) <= cursor
    BY <2>1 DEF McpInv, EarliestInv
  <2>3. walked \in Seq(Messages) /\ cursor = Len(walked) /\ B \in Seq(Messages) /\ R \in Seq(Messages) /\ StartsWith(B, R)
    BY <1>1, <2>1
  <2> HIDE DEF R, B
  <2>4. PICK r \in Seq(Messages), b \in Seq(Messages), w \in Seq(Messages) : r = R /\ b = B /\ w = walked
    BY <2>3
  <2>5. Len(w) <= Len(r) /\ (\A i \in 1..Len(w) : w[i] = r[i]) /\ Len(b) <= Len(w) /\ \A i \in 1..Len(b) : b[i] = r[i]
    BY <2>2, <2>3, <2>4 DEF StartsWith
  <2>6. \A i \in 1..Len(b) : b[i] = w[i]
    BY <2>5
  <2>7. IsPrefix(w, r) /\ IsPrefix(b, w)
    BY <2>5, <2>6, PrefixOf
  <2> QED  BY <2>4, <2>7
<1>3. LatestWalk
  <2> SUFFICES ASSUME WalkOver("latest")
               PROVE  /\ Range(B) \subseteq Range(walked)
                      /\ \A p \in DOMAIN pages : \A m, n \in DOMAIN pages[p] :
                           pages[p][m].at < pages[p][n].at <=> m < n
                      /\ messages = before.messages => IsInjective(walked)
    BY DEF LatestWalk
  <2>1. asked.what = "latest" /\ walk = "done"
    BY DEF WalkOver
  <2>2. /\ \A i \in DOMAIN B : R[i] \in Range(walked)
        /\ \A p \in DOMAIN pages : \A m, n \in DOMAIN pages[p] : m < n => pages[p][m].at < pages[p][n].at
        /\ messages = before.messages => IsInjective(walked)
    BY <2>1 DEF McpInv, LatestInv
  <2>3. Range(B) \subseteq Range(walked)
    <3>1. \A i \in DOMAIN B : B[i] = R[i]
      BY <1>1, <2>1 DEF StartsWith
    <3> HIDE DEF B, R
    <3> QED  BY <2>2, <3>1 DEF Range
  <2>4. \A p \in DOMAIN pages : pages[p] \in Seq(Messages)
    BY <2>1 DEF McpInv, MessagesWalked
  <2>5. ASSUME NEW p \in DOMAIN pages, NEW m \in DOMAIN pages[p], NEW n \in DOMAIN pages[p]
        PROVE  pages[p][m].at < pages[p][n].at <=> m < n
    <3>1. PICK g \in Seq(Messages) : g = pages[p]
      BY <2>4
    <3>2. m \in Nat /\ n \in Nat /\ g[m].at \in Nat /\ g[n].at \in Nat
      <4>1. m \in Nat /\ n \in Nat /\ g[m] \in Messages /\ g[n] \in Messages
        BY <3>1
      <4>2. \A x \in Messages : x.at \in Nat
        BY DEF Messages
      <4> QED  BY ONLY <4>1, <4>2
    <3>3. (m < n => g[m].at < g[n].at) /\ (n < m => g[n].at < g[m].at)
      BY <2>2, <3>1
    <3>4. g[m].at < g[n].at <=> m < n
      BY <3>2, <3>3
    <3> QED  BY <3>1, <3>4
  <2> QED  BY <2>2, <2>3, <2>5
<1>4. ListWalk
  <2> SUFFICES ASSUME WalkOver("list")
               PROVE  /\ left = {} => Range(before.list) \ written \subseteq Range(walked)
                      /\ listMoves = before.listMoves => walked = list
    BY DEF ListWalk
  <2>1. asked.what = "list" /\ walk = "done"
    BY DEF WalkOver
  <2>2. left = {} => Range(before.list) \ written \subseteq Range(walked)
    BY <2>1 DEF McpInv, ListInv
  <2>3. ASSUME listMoves = before.listMoves PROVE walked = list
    <3>1. walked \in Seq(Listed) /\ Len(walked) = Len(list) /\ \A i \in 1..Len(walked) : walked[i] = list[i]
      BY <2>1, <2>3 DEF McpInv, ListInv, StartsWith
    <3>2. list \in Seq(Listed)
      BY DEF McpInv, McpTypes
    <3> QED  BY <3>1, <3>2
  <2> QED  BY <2>2, <2>3
<1> QED  BY <1>2, <1>3, <1>4 DEF WalksReachAll

\* A client that follows nextCursor to the end (get_messages and list_sessions,
\* mcp.go:203-223 and 407-486) has read every message of the role that was there
\* when it began, in order from the beginning or page by page from the end, and
\* every session that was neither written nor dropped meanwhile: for every limit,
\* every length and any writes between two pages.
THEOREM WalksReach == McpSpec => []WalksReachAll
<1>1. McpInit => McpInv
  BY McpStart
<1>2. McpInv /\ [McpNext]_mcpVars => McpInv'
  BY McpStep
<1>3. McpInv => WalksReachAll
  BY McpGoal
<1> QED  BY <1>1, <1>2, <1>3, PTL DEF McpSpec

-----------------------------------------------------------------------------
(***************************************************************************)
(* Stopping the search early never changes which sessions the page has,    *)
(* and cuts into one of them at most, for every number of transcripts and  *)
(* workers and every way the hits are spread.                              *)
(***************************************************************************)

Busy(w) == at[w] # "idle"
Unread(w) == at[w] \in {"check", "search"}
Counting == {w \in Workers : at[w] = "count"}

\* A worker's transcript was handed out, to it alone, and is written once.
OwnJob ==
  /\ \A w \in Workers : Busy(w) => job[w] \in Job /\ job[w] < next
  /\ \A w, v \in Workers : Busy(w) /\ Busy(v) /\ job[w] = job[v] => w = v
  /\ \A w \in Workers : Unread(w) => hits[job[w]] = 0
  /\ \A k \in Job : k >= next => hits[k] = 0

\* Hits are real; sessions flagged have hits; the counter never runs ahead of them.
Real == \A k \in Job : hits[k] > 0 => has[k] > 0
Flagged == \A u \in matchedUnit : \E k \in Job : UnitOf[k] = u /\ hits[k] > 0
Counted == found + Cardinality(Counting) <= Cardinality(matchedUnit)

\* While the caller is there, nothing that was handed out is lost: it is found up to the
\* hit that tells there are more, or a worker has yet to read it.
NothingLost ==
  ~cancelled => \A k \in Job : k < next =>
    hits[k] = Least(has[k], ProbeLimit) \/ \E w \in Workers : Unread(w) /\ job[w] = k

\* Why the dispatcher is where it is.
Reasons ==
  /\ disp \in {"limit", "send"} => next \in Job
  /\ scanStopped => disp \in {"close", "done"} /\ limit > 0 /\ found >= limit /\ next \in Job
  /\ disp \in {"close", "done"} => cancelled \/ scanStopped \/ next > Jobs
  /\ disp = "done" => stopped = cancelled /\ \A w \in Workers : ~Busy(w)

Inv == TypeOK /\ OwnJob /\ Real /\ Flagged /\ Counted /\ NothingLost /\ Reasons

-----------------------------------------------------------------------------
LEMMA UnitsFinite == IsFiniteSet(Units) /\ Units \subseteq Nat
<1>1. Units \subseteq Nat
  BY PoolAssumption DEF Units
<1>2. CASE Jobs = 0
  <2>1. Units = {}
    BY <1>2 DEF Units, Job
  <2> QED  BY <2>1, FS_EmptySet
<1>3. CASE Jobs # 0
  <2>1. Jobs \in Job /\ UnitOf[Jobs] \in Nat
    BY <1>3, PoolAssumption DEF Job
  <2>2. \A u \in Units : u <= UnitOf[Jobs]
    BY <2>1, PoolAssumption DEF Units, Job
  <2> QED  BY <1>1, <2>1, <2>2, FS_BoundedSetOfNaturals
<1> QED  BY <1>2, <1>3, <1>1

LEMMA CountingFinite == IsFiniteSet(Counting)
  BY PoolAssumption, FS_Subset DEF Counting

-----------------------------------------------------------------------------
LEMMA InitInv == Init => Inv
<1> SUFFICES ASSUME Init PROVE Inv
  OBVIOUS
<1>1. TypeOK
  <2>1. 0 \in 0..ProbeLimit /\ 0 \in 0..Jobs /\ 1 \in 1..(Jobs + 1)
    BY PoolAssumption DEF ProbeLimit
  <2> QED  BY <2>1 DEF Init, TypeOK
<1>2. Counting = {}
  BY DEF Init, Counting
<1>3. Counted
  BY <1>2, FS_EmptySet DEF Init, Counted
<1>4. OwnJob /\ Real /\ Flagged /\ NothingLost /\ Reasons
  BY PoolAssumption DEF Init, OwnJob, Real, Flagged, NothingLost, Reasons, Busy, Unread, Job
<1> QED  BY <1>1, <1>3, <1>4 DEF Inv

LEMMA CancelInv == Inv /\ Cancel => Inv'
<1> SUFFICES ASSUME Inv, Cancel PROVE Inv'
  OBVIOUS
<1> USE DEF Inv, Cancel, queryVars, dispVars, workVars, flags
<1>1. TypeOK'  BY DEF TypeOK
<1>2. OwnJob' /\ Real' /\ Flagged'  BY DEF OwnJob, Real, Flagged, Busy, Unread
<1>3. Counted'  BY DEF Counted, Counting
<1>4. NothingLost'  BY DEF NothingLost
<1>5. Reasons'  BY DEF Reasons, Busy, TypeOK
<1> QED  BY <1>1, <1>2, <1>3, <1>4, <1>5

LEMMA DispatchInv == Inv /\ Dispatch => Inv'
<1> SUFFICES ASSUME Inv, Dispatch PROVE Inv'
  OBVIOUS
<1> USE DEF Inv, queryVars, dispVars, workVars, flags
<1>0. UNCHANGED <<queryVars, cancelled, next, workVars, hits, flags>>
  BY DEF Dispatch, CheckCancelled, CheckLimit, EndDispatch
<1>1. TypeOK'
  BY <1>0 DEF TypeOK, Dispatch, CheckCancelled, CheckLimit, EndDispatch
<1>2. OwnJob' /\ Real' /\ Flagged'
  BY <1>0 DEF OwnJob, Real, Flagged, Busy, Unread
<1>3. Counted'
  BY <1>0 DEF Counted, Counting
<1>4. NothingLost'
  BY <1>0 DEF NothingLost, Unread
<1>5. Reasons'
  <2>1. CASE CheckCancelled
    BY <1>0, <2>1, PoolAssumption DEF Reasons, CheckCancelled, TypeOK, Busy, Job
  <2>2. CASE CheckLimit
    BY <1>0, <2>2 DEF Reasons, CheckLimit, TypeOK, Busy
  <2>3. CASE EndDispatch
    BY <1>0, <2>3 DEF Reasons, EndDispatch, TypeOK, Busy
  <2> QED  BY <2>1, <2>2, <2>3 DEF Dispatch
<1> QED  BY <1>1, <1>2, <1>3, <1>4, <1>5

LEMMA TakeInv == ASSUME NEW w \in Workers, Inv, Take(w) PROVE Inv'
<1> USE DEF Inv, Take, queryVars, flags
<1>0. next \in Job /\ next \in 1..Jobs
  BY DEF Reasons, Job
<1>1. TypeOK'
  BY <1>0, PoolAssumption DEF TypeOK, Job
<1>2. OwnJob'
  BY <1>0 DEF OwnJob, TypeOK, Busy, Unread, Job
<1>3. Real' /\ Flagged'
  BY DEF Real, Flagged
<1>4. Counted'
  <2>1. Counting' = Counting
    BY DEF Counting, TypeOK
  <2> QED  BY <2>1 DEF Counted
<1>5. NothingLost'
  BY <1>0 DEF NothingLost, TypeOK, Unread, Job
<1>6. Reasons'
  BY <1>0 DEF Reasons, TypeOK
<1> QED  BY <1>1, <1>2, <1>3, <1>4, <1>5, <1>6

LEMMA CheckInv == ASSUME NEW w \in Workers, Inv, Check(w) PROVE Inv'
<1> USE DEF Inv, Check, queryVars, dispVars, flags
<1>1. TypeOK'
  BY DEF TypeOK
<1>2. OwnJob'
  BY DEF OwnJob, TypeOK, Busy, Unread
<1>3. Real' /\ Flagged'
  BY DEF Real, Flagged
<1>4. Counted'
  <2>1. Counting' = Counting
    BY DEF Counting, TypeOK
  <2> QED  BY <2>1 DEF Counted
<1>5. NothingLost'
  BY DEF NothingLost, TypeOK, Unread
<1>6. Reasons'
  BY DEF Reasons, TypeOK, Busy
<1> QED  BY <1>1, <1>2, <1>3, <1>4, <1>5, <1>6

LEMMA SearchInv == ASSUME NEW w \in Workers, Inv, SearchOne(w) PROVE Inv'
<1> USE DEF Inv, SearchOne, queryVars, dispVars, flags
<1>0. job[w] \in Job /\ job[w] < next /\ hits[job[w]] = 0
  BY DEF OwnJob, Busy, Unread
<1>1. PICK n \in Found(job[w]) : hits' = [hits EXCEPT ![job[w]] = n]
  OBVIOUS
<1>2. /\ n \in 0..ProbeLimit /\ (n > 0 => has[job[w]] > 0)
      /\ ~cancelled => n = Least(has[job[w]], ProbeLimit)
  BY <1>0, PoolAssumption DEF Found, Least, ProbeLimit, TypeOK
<1>3. TypeOK'
  BY <1>0, <1>1, <1>2 DEF TypeOK
<1>4. OwnJob'
  BY <1>0, <1>1, <1>2 DEF OwnJob, TypeOK, Busy, Unread
<1>5. Real'
  BY <1>0, <1>1, <1>2 DEF Real, TypeOK
<1>6. Flagged'
  BY <1>0, <1>1, <1>2 DEF Flagged, TypeOK
<1>7. Counted'
  <2>1. Counting' = Counting
    BY DEF Counting, TypeOK
  <2> QED  BY <2>1 DEF Counted
<1>8. NothingLost'
  BY <1>0, <1>1, <1>2 DEF NothingLost, TypeOK, Unread
<1>9. Reasons'
  BY DEF Reasons, TypeOK, Busy
<1> QED  BY <1>3, <1>4, <1>5, <1>6, <1>7, <1>8, <1>9

LEMMA MarkInv == ASSUME NEW w \in Workers, Inv, Mark(w) PROVE Inv'
<1> DEFINE first == hits[job[w]] > 0 /\ UnitOf[job[w]] \notin matchedUnit
<1> USE DEF Inv, queryVars, dispVars
<1>0. /\ at[w] = "mark" /\ at' = [at EXCEPT ![w] = IF first THEN "count" ELSE "idle"]
      /\ matchedUnit' = IF first THEN matchedUnit \cup {UnitOf[job[w]]} ELSE matchedUnit
      /\ UNCHANGED <<queryVars, cancelled, dispVars, job, hits, found, stopped>>
  BY DEF Mark
<1>1. job[w] \in Job /\ UnitOf[job[w]] \in Units
  BY <1>0 DEF OwnJob, Busy, Units
<1>2. TypeOK'
  BY <1>0, <1>1 DEF TypeOK
<1>3. OwnJob'
  BY <1>0 DEF OwnJob, TypeOK, Busy, Unread
<1>4. Real' /\ Flagged'
  BY <1>0, <1>1 DEF Real, Flagged, TypeOK
<1>5. Counted'
  <2>1. IsFiniteSet(matchedUnit) /\ IsFiniteSet(Counting) /\ w \notin Counting
    BY <1>0, UnitsFinite, CountingFinite, FS_Subset DEF TypeOK, Counting
  <2>2. Cardinality(matchedUnit) \in Nat /\ Cardinality(Counting) \in Nat
    BY <2>1, FS_CardinalityType
  <2>3. CASE first
    <3>1. Counting' = Counting \cup {w}
      BY <1>0, <2>3 DEF Counting, TypeOK
    <3>2. Cardinality(Counting') = Cardinality(Counting) + 1
      BY <2>1, <3>1, FS_AddElement
    <3>3. Cardinality(matchedUnit') = Cardinality(matchedUnit) + 1
      BY <1>0, <2>1, <2>3, FS_AddElement
    <3> QED  BY <1>0, <2>2, <3>2, <3>3 DEF Counted, TypeOK
  <2>4. CASE ~first
    <3>1. Counting' = Counting /\ matchedUnit' = matchedUnit
      BY <1>0, <2>4 DEF Counting, TypeOK
    <3> QED  BY <1>0, <3>1 DEF Counted
  <2> QED  BY <2>3, <2>4
<1>6. NothingLost'
  BY <1>0 DEF NothingLost, TypeOK, Unread
<1>7. Reasons'
  BY <1>0 DEF Reasons, TypeOK, Busy
<1> QED  BY <1>2, <1>3, <1>4, <1>5, <1>6, <1>7

LEMMA CountInv == ASSUME NEW w \in Workers, Inv, Count(w) PROVE Inv'
<1> USE DEF Inv, Count, queryVars, dispVars
<1>1. TypeOK'
  BY DEF TypeOK
<1>2. OwnJob'
  BY DEF OwnJob, TypeOK, Busy, Unread
<1>3. Real' /\ Flagged'
  BY DEF Real, Flagged
<1>4. Counted'
  <2>1. Counting' = Counting \ {w} /\ w \in Counting
    BY DEF Counting, TypeOK
  <2>2. Cardinality(Counting') = Cardinality(Counting) - 1 /\ Cardinality(Counting) \in Nat
    BY <2>1, CountingFinite, FS_RemoveElement, FS_CardinalityType
  <2>3. Cardinality(matchedUnit) \in Nat
    BY UnitsFinite, FS_Subset, FS_CardinalityType DEF TypeOK
  <2> QED  BY <2>2, <2>3 DEF Counted, TypeOK
<1>5. NothingLost'
  BY DEF NothingLost, TypeOK, Unread
<1>6. Reasons'
  BY PoolAssumption DEF Reasons, TypeOK, Busy
<1> QED  BY <1>1, <1>2, <1>3, <1>4, <1>5, <1>6

LEMMA Invariance == Spec => []Inv
<1>1. Inv /\ [Next]_vars => Inv'
  <2> SUFFICES ASSUME Inv, [Next]_vars PROVE Inv'
    OBVIOUS
  <2>1. CASE Cancel  BY <2>1, CancelInv
  <2>2. CASE Dispatch  BY <2>2, DispatchInv
  <2>3. ASSUME NEW w \in Workers, Work(w) PROVE Inv'
    BY <2>3, TakeInv, CheckInv, SearchInv, MarkInv, CountInv DEF Work
  <2>4. CASE UNCHANGED vars
    <3> USE <2>4 DEF vars
    <3>1. TypeOK' /\ OwnJob' /\ Real' /\ Flagged'
      BY DEF Inv, TypeOK, OwnJob, Real, Flagged, Busy, Unread
    <3>2. Counted' /\ NothingLost' /\ Reasons'
      BY DEF Inv, Counted, Counting, NothingLost, Unread, Reasons, Busy
    <3> QED  BY <3>1, <3>2 DEF Inv
  <2> QED  BY <2>1, <2>2, <2>3, <2>4 DEF Next, Answered
<1> QED  BY InitInv, <1>1, PTL DEF Spec

-----------------------------------------------------------------------------
(* The page *)

\* What the scan found is part of what there is; when it was cut short it had
\* found enough, and what it did not find is older than everything it found.
LEMMA CutIsBelow ==
  ASSUME Inv, Answer
  PROVE  /\ Matched(hits) \subseteq Matched(has)
         /\ ~scanStopped => Matched(hits) = Matched(has)
         /\ scanStopped => limit > 0 /\ Cardinality(Matched(hits)) >= limit
         /\ \A u \in Matched(has) \ Matched(hits), v \in Matched(hits) : v < u
<1> USE DEF Inv
<1>1. ~cancelled /\ (scanStopped \/ next > Jobs) /\ \A w \in Workers : at[w] = "idle"
  BY DEF Answer, Reasons, Busy
<1>2. \A k \in Job : k < next /\ has[k] > 0 => hits[k] > 0
  BY <1>1, PoolAssumption DEF NothingLost, Unread, Least, ProbeLimit, TypeOK
<1>3. Matched(hits) \subseteq Matched(has)
  BY DEF Matched, Real
<1>4. ~scanStopped => Matched(has) \subseteq Matched(hits)
  <2> SUFFICES ASSUME ~scanStopped PROVE \A k \in Job : has[k] > 0 => hits[k] > 0
    BY DEF Matched
  <2>1. \A k \in Job : k < next
    BY <1>1, PoolAssumption DEF Job, TypeOK
  <2> QED  BY <1>2, <2>1
<1>5. ASSUME scanStopped PROVE limit > 0 /\ Cardinality(Matched(hits)) >= limit
  <2>1. matchedUnit \subseteq Matched(hits)
    BY DEF Flagged, Matched, TypeOK
  <2>2. IsFiniteSet(Matched(hits))
    BY UnitsFinite, FS_Subset DEF Matched
  <2>3. /\ Cardinality(matchedUnit) <= Cardinality(Matched(hits))
        /\ Cardinality(matchedUnit) \in Nat /\ Cardinality(Matched(hits)) \in Nat
    BY <2>1, <2>2, FS_Subset, FS_CardinalityType
  <2>4. Cardinality(Counting) \in Nat
    BY CountingFinite, FS_CardinalityType
  <2>5. limit > 0 /\ found >= limit /\ limit \in Nat /\ found \in Nat
    BY <1>5, PoolAssumption DEF Reasons, TypeOK
  <2> QED  BY <2>3, <2>4, <2>5 DEF Counted
<1>6. ASSUME NEW u \in Matched(has) \ Matched(hits), NEW v \in Matched(hits)
      PROVE  v < u
  <2>1. PICK k \in Job : UnitOf[k] = u /\ has[k] > 0
    BY DEF Matched
  <2>2. PICK j \in Job : UnitOf[j] = v /\ hits[j] > 0
    BY DEF Matched
  <2>3. ~(hits[k] > 0)
    BY <1>6, <2>1 DEF Matched
  <2>4. ~(k < next)
    BY <1>2, <2>1, <2>3
  <2>5. j < next
    BY <2>2 DEF OwnJob, TypeOK, Job
  <2>6. j <= k
    BY <2>4, <2>5 DEF Job, TypeOK
  <2>7. v <= u /\ v \in Nat /\ u \in Nat
    BY <2>1, <2>2, <2>6, PoolAssumption
  <2> QED  BY <1>6, <2>7
<1> QED  BY <1>3, <1>4, <1>5, <1>6

LEMMA PageLemma == Inv => PageExact
<1> SUFFICES ASSUME Inv, Answer PROVE Page = Newest(Matched(has))
  BY DEF PageExact
<1> DEFINE H == Matched(hits)
           F == Matched(has)
<1>1. H \subseteq F /\ F \subseteq Units /\ IsFiniteSet(F) /\ F \subseteq Nat
  BY CutIsBelow, UnitsFinite, FS_Subset DEF Matched
<1>2. \A u \in F \ H, v \in H : v < u
  BY CutIsBelow
<1>3. CASE ~scanStopped
  BY <1>3, CutIsBelow DEF Page
<1>4. CASE scanStopped
  <2>1. limit \in Nat /\ limit > 0 /\ Cardinality(H) >= limit
    BY <1>4, CutIsBelow, PoolAssumption DEF Inv, TypeOK
  <2>2. ASSUME NEW u \in H PROVE {v \in F : v < u} = {v \in H : v < u}
    <3>1. ASSUME NEW v \in F, v < u PROVE v \in H
      BY <1>1, <1>2, <2>2, <3>1
    <3> QED  BY <1>1, <3>1
  <2>3. ASSUME NEW u \in F \ H PROVE ~(Cardinality({v \in F : v < u}) < limit)
    <3>1. H \subseteq {v \in F : v < u}
      BY <1>1, <1>2, <2>3
    <3>2. IsFiniteSet({v \in F : v < u})
      BY <1>1, FS_Subset
    <3>3. /\ Cardinality(H) <= Cardinality({v \in F : v < u})
          /\ Cardinality(H) \in Nat /\ Cardinality({v \in F : v < u}) \in Nat
      BY <3>1, <3>2, FS_Subset, FS_CardinalityType
    <3> QED  BY <2>1, <3>3
  <2>4. Newest(H) = Newest(F)
    <3>1. ASSUME NEW u \in Newest(H) PROVE u \in Newest(F)
      BY <1>1, <2>2, <3>1 DEF Newest
    <3>2. ASSUME NEW u \in Newest(F) PROVE u \in Newest(H)
      <4>1. u \in F /\ Cardinality({v \in F : v < u}) < limit
        BY <3>2 DEF Newest
      <4>2. u \in H
        BY <2>3, <4>1
      <4> QED  BY <2>2, <4>1, <4>2 DEF Newest
    <3> QED  BY <3>1, <3>2
  <2> QED  BY <2>4 DEF Page
<1> QED  BY <1>3, <1>4

-----------------------------------------------------------------------------
(* What a session shows *)

\* The hits of a session are finitely many, and those of a transcript are among them.
LEMMA HitsFinite ==
  ASSUME NEW of \in [Job -> 0..(MaxHits + ProbeLimit)], NEW u
  PROVE  /\ IsFiniteSet(HitsOf(of, u)) /\ Total(of, u) \in Nat
         /\ \A k \in Job : UnitOf[k] = u => of[k] <= Total(of, u)
<1>0. MaxHits + ProbeLimit \in Nat /\ Jobs \in Nat
  BY PoolAssumption DEF ProbeLimit
<1>1. IsFiniteSet(Job \X (1..(MaxHits + ProbeLimit)))
  <2>1. IsFiniteSet(Job) /\ IsFiniteSet(1..(MaxHits + ProbeLimit))
    BY <1>0, FS_Interval DEF Job
  <2> QED  BY <2>1, FS_Product
<1>2. IsFiniteSet(HitsOf(of, u))
  BY <1>1, FS_Subset DEF HitsOf
<1>3. Total(of, u) \in Nat
  BY <1>2, FS_CardinalityType DEF Total
<1>4. ASSUME NEW k \in Job, UnitOf[k] = u
      PROVE  of[k] <= Total(of, u)
  <2> DEFINE own == {k} \X (1..of[k])
  <2>1. of[k] \in 0..(MaxHits + ProbeLimit) /\ of[k] \in Nat
    BY <1>0
  <2>2. own \subseteq HitsOf(of, u)
    BY <1>0, <1>4, <2>1 DEF HitsOf
  <2>3. Cardinality(own) = of[k]
    <3>1. IsFiniteSet({k}) /\ Cardinality({k}) = 1
      BY FS_Singleton
    <3>2. IsFiniteSet(1..of[k]) /\ Cardinality(1..of[k]) = of[k]
      BY <2>1, FS_Interval
    <3>3. Cardinality(own) = Cardinality({k}) * Cardinality(1..of[k])
      BY <3>1, <3>2, FS_Product, Zenon
    <3> QED  BY <2>1, <3>1, <3>2, <3>3
  <2>4. Cardinality(own) <= Cardinality(HitsOf(of, u))
    BY <1>2, <2>2, FS_Subset
  <2> QED  BY <2>3, <2>4 DEF Total
<1> QED  BY <1>2, <1>3, <1>4

\* A session all of whose transcripts were read to the hit that tells of more shows what
\* it has, and has more than it shows only if that hit was seen.
LEMMA ReadShowsAll ==
  ASSUME Inv, NEW u,
         \A k \in Job : UnitOf[k] = u => hits[k] = Least(has[k], ProbeLimit)
  PROVE  /\ Shown(hits, u) = Shown(has, u)
         /\ Total(has, u) > PerSession => Total(hits, u) > PerSession
<1>0. /\ PerSession \in Nat \ {0} /\ MaxHits \in Nat /\ ProbeLimit = PerSession + 1
      /\ has \in [Job -> 0..(MaxHits + ProbeLimit)] /\ hits \in [Job -> 0..(MaxHits + ProbeLimit)]
  BY PoolAssumption DEF Inv, TypeOK, ProbeLimit
<1>1. Total(has, u) \in Nat /\ Total(hits, u) \in Nat
  BY <1>0, HitsFinite
<1>2. CASE \A k \in Job : UnitOf[k] = u => has[k] <= ProbeLimit
  <2>1. \A k \in Job : UnitOf[k] = u => hits[k] = has[k]
    BY <1>0, <1>2 DEF Least
  <2>2. HitsOf(hits, u) = HitsOf(has, u)
    BY <2>1 DEF HitsOf
  <2> QED  BY <2>2 DEF Shown, Total
<1>3. CASE \E k \in Job : UnitOf[k] = u /\ ~(has[k] <= ProbeLimit)
  <2>1. PICK k \in Job : UnitOf[k] = u /\ ~(has[k] <= ProbeLimit)
    BY <1>3
  <2>2. hits[k] = ProbeLimit /\ has[k] >= ProbeLimit
    BY <1>0, <2>1 DEF Least
  <2>3. hits[k] <= Total(hits, u) /\ has[k] <= Total(has, u)
    BY <1>0, <2>1, HitsFinite
  <2>4. Total(hits, u) > PerSession /\ Total(has, u) > PerSession
    BY <1>0, <1>1, <2>2, <2>3
  <2> QED  BY <1>0, <1>1, <2>4 DEF Shown, Least
<1> QED  BY <1>2, <1>3

\* The transcripts of a session on the page were all read, unless the scan stopped at one
\* of them.
LEMMA OnlyLastLemma == Inv => OnlyLastIsShort
<1> SUFFICES ASSUME Inv, Answer, NEW u \in Page,
                    ~(scanStopped /\ next \in Job /\ u = UnitOf[next])
             PROVE  Shown(hits, u) = Shown(has, u) /\ (Total(has, u) > PerSession => HitsCut)
  BY DEF OnlyLastIsShort
<1>1. ~cancelled /\ (scanStopped \/ next > Jobs) /\ \A w \in Workers : at[w] = "idle"
  BY DEF Inv, Answer, Reasons, Busy
<1>2. \A k \in Job : k < next => hits[k] = Least(has[k], ProbeLimit)
  BY <1>1 DEF Inv, NothingLost, Unread
<1>3. PICK j \in Job : UnitOf[j] = u /\ hits[j] > 0
  BY DEF Page, Newest, Matched
<1>4. j < next /\ next \in Nat
  BY <1>3, PoolAssumption DEF Inv, OwnJob, TypeOK, Job
<1>5. ASSUME NEW k \in Job, UnitOf[k] = u
      PROVE  k < next
  <2>1. CASE next > Jobs
    BY <1>4, <2>1, PoolAssumption DEF Job
  <2>2. CASE scanStopped
    <3>1. next \in Job /\ u # UnitOf[next] /\ UnitOf[next] \in Nat /\ u \in Nat
      BY <1>5, <2>2, PoolAssumption DEF Inv, Reasons
    <3>2. u <= UnitOf[next]
      BY <1>3, <1>4, <3>1, PoolAssumption DEF Job
    <3>3. next <= k => UnitOf[next] <= u
      BY <1>5, <3>1, PoolAssumption
    <3> QED  BY <1>4, <3>1, <3>2, <3>3 DEF Job
  <2> QED  BY <1>1, <2>1, <2>2
<1>6. \A k \in Job : UnitOf[k] = u => hits[k] = Least(has[k], ProbeLimit)
  BY <1>2, <1>5
<1> QED  BY <1>6, ReadShowsAll DEF HitsCut

\* search: when an answer is given, its page has the limit newest sessions of all
\* that match, although the scan may have stopped long before the oldest; and the
\* number of matched sessions is exact unless scanStopped says it is a lower bound,
\* and then it is at least the limit that was asked for.
THEOREM AnswerIsExact == Spec => []AnswerExact
<1>1. Inv => MatchedExact
  BY CutIsBelow DEF MatchedExact
<1>2. Inv => AnswerExact
  BY <1>1, PageLemma DEF AnswerExact
<1> QED  BY Invariance, <1>2, PTL

\* search: every session on the page of an answered search shows the first PerSession of
\* all the hits it has, and hitsCut tells when it has more, but for the one session the
\* scan stopped in.
THEOREM OnlyOneIsShort == Spec => []OnlyLastIsShort
<1> QED  BY Invariance, OnlyLastLemma, PTL

-----------------------------------------------------------------------------
(***************************************************************************)
(* Going on row by row: what holds at no row, and of each row if it holds  *)
(* of the row before, holds of all of them; and a function that is given   *)
(* by its value for nothing and by a step has exactly those values.        *)
(***************************************************************************)

\* What holds of the first place and of the next one holds of all up to n.
LEMMA UpTo ==
  ASSUME NEW n \in Nat, NEW Good, 0 \in Good, \A i \in 1..n : i - 1 \in Good => i \in Good
  PROVE  \A i \in 0..n : i \in Good
<1> SUFFICES ASSUME NEW j \in 0..n, j \notin Good PROVE FALSE
  OBVIOUS
<1> DEFINE T == {i \in 0..n : i \notin Good}
<1>1. T \in SUBSET Nat /\ T # {}
  OBVIOUS
<1>2. PICK x \in T : \A y \in T : x <= y
  BY <1>1, LeastOf
<1>3. x \in 1..n /\ x - 1 \in 0..n
  BY <1>2
<1>4. x - 1 \in Good
  BY <1>2, <1>3
<1> QED  BY <1>2, <1>3, <1>4

\* The first k values of the function that base and step define.
MadeBy(X, base, turn, k, f) == f \in [0..k -> X] /\ f[0] = base /\ \A i \in 1..k : f[i] = turn[<<f[i - 1], i>>]

LEMMA MakeMore ==
  ASSUME NEW n \in Nat, NEW X, NEW base \in X, NEW turn \in [X \X (1..n) -> X], NEW k \in 1..n,
         NEW f, MadeBy(X, base, turn, k - 1, f)
  PROVE  \E g : MadeBy(X, base, turn, k, g)
<1>1. f \in [0..(k - 1) -> X] /\ f[0] = base /\ \A i \in 1..(k - 1) : f[i] = turn[<<f[i - 1], i>>]
  BY DEF MadeBy
<1>2. f[k - 1] \in X
  BY <1>1
<1>3. <<f[k - 1], k>> \in X \X (1..n)
  BY <1>2
<1>4. PICK v \in X : v = turn[<<f[k - 1], k>>]
  BY <1>3
<1> DEFINE g == [i \in 0..k |-> IF i = k THEN v ELSE f[i]]
<1>5. \A i \in 0..(k - 1) : g[i] = f[i]
  OBVIOUS
<1>6. g \in [0..k -> X]
  BY <1>1
<1>7. g[0] = base
  BY <1>1
<1>8. g[k] = v
  OBVIOUS
<1>9. ASSUME NEW i \in 1..k PROVE g[i] = turn[<<g[i - 1], i>>]
  <2>1. i - 1 \in 0..(k - 1)
    OBVIOUS
  <2>2. g[i - 1] = f[i - 1]
    BY <2>1, <1>5
  <2> HIDE DEF g
  <2>3. CASE i = k
    BY <2>2, <2>3, <1>4, <1>8
  <2>4. CASE i # k
    <3>1. i \in 1..(k - 1) /\ i \in 0..(k - 1)
      BY <2>4
    <3> QED  BY <3>1, <2>2, <1>1, <1>5
  <2> QED  BY <2>3, <2>4
<1> HIDE DEF g
<1>10. MadeBy(X, base, turn, k, g)
  BY <1>6, <1>7, <1>9 DEF MadeBy
<1> QED  BY <1>10

LEMMA Iterates ==
  ASSUME NEW n \in Nat, NEW X, NEW base \in X, NEW turn \in [X \X (1..n) -> X]
  PROVE  \E f : MadeBy(X, base, turn, n, f)
<1> DEFINE Good == {k \in 0..n : \E f : MadeBy(X, base, turn, k, f)}
<1>1. 0 \in Good
  <2> DEFINE f == [i \in 0..0 |-> base]
  <2>1. f \in [0..0 -> X] /\ f[0] = base
    OBVIOUS
  <2>2. 1..0 = {}
    OBVIOUS
  <2> HIDE DEF f
  <2>3. MadeBy(X, base, turn, 0, f)
    BY <2>1, <2>2 DEF MadeBy
  <2> QED  BY <2>3
<1>2. ASSUME NEW k \in 1..n, k - 1 \in Good PROVE k \in Good
  BY <1>2, MakeMore
<1>3. n \in Good
  <2> HIDE DEF Good
  <2>1. \A i \in 0..n : i \in Good
    BY <1>1, <1>2, UpTo
  <2> QED  BY <2>1
<1> QED  BY <1>3
LEMMA LastReplaced ==
  ASSUME NEW X, NEW s \in Seq(X), NEW x \in X
  PROVE  /\ [s EXCEPT ![Len(s)] = x] \in Seq(X)
         /\ Len([s EXCEPT ![Len(s)] = x]) = Len(s)
<1>1. PICK n \in Nat : n = Len(s)
  OBVIOUS
<1>2. s \in [1..n -> X]
  BY <1>1
<1>3. [s EXCEPT ![n] = x] \in [1..n -> X]
  BY <1>2
<1>4. \A t \in [1..n -> X] : t \in Seq(X) /\ Len(t) = n
  OBVIOUS
<1> QED  BY <1>1, <1>3, <1>4

FileNames == Files \cup {NoFile}
BlockTypes == {"none", "toolCall", "toolResult", "event"}
ToolNames == Tools \cup {NoTool}
Speakers == {"user", "assistant", "system"}
KindsOfWords == {"plain", "glued", "apart", "plumbing", "none"}
Blocks ==
  [type : BlockTypes, id : Nat, name : ToolNames, files : SUBSET Files, file : FileNames, failed : BOOLEAN]
SessionRows == [at : Nat, role : Speakers, aside : BOOLEAN, words : KindsOfWords, block : Blocks]
RoundRecords ==
  [index : Nat, startAt : Nat, endAt : Nat, lastAt : Nat, messages : Nat, toolCalls : Nat, failures : Nat,
   failed : Seq(Nat), files : SUBSET Files, changed : SUBSET Files,
   pending : SUBSET [id : Nat, files : SUBSET Files],
   interrupted : BOOLEAN, replied : BOOLEAN, humanLast : BOOLEAN]

\* What is waited for
Awaiting == [id : Nat, files : SUBSET Files]

LEMMA WritesTyped == ASSUME NEW b \in Blocks PROVE ServerWrites(b) \in SUBSET Files
BY DEF Blocks, ServerWrites

LEMMA AwaitedTyped == ASSUME NEW P \in SUBSET Awaiting PROVE Awaited(P) \in SUBSET Files
BY DEF Awaiting, Awaited

LEMMA NoteWriteTyped ==
  ASSUME NEW r \in RoundRecords, NEW b \in Blocks
  PROVE  NoteWrite(r, b) \in RoundRecords
<1>1. PICK w \in SUBSET Files : w = ServerWrites(b)
  BY WritesTyped
<1>2. r.changed \cup w \in SUBSET Files
  BY DEF RoundRecords
<1>3. {p \in r.pending : p.id # b.id} \cup {[id |-> b.id, files |-> w]} \in SUBSET Awaiting
  BY DEF RoundRecords, Blocks, Awaiting
<1>4. ASSUME NEW c \in SUBSET Files PROVE [r EXCEPT !.changed = c] \in RoundRecords
  BY DEF RoundRecords
<1>5. ASSUME NEW c \in SUBSET Awaiting PROVE [r EXCEPT !.pending = c] \in RoundRecords
  BY DEF RoundRecords, Awaiting
<1>6. CASE b.id = NoId /\ w # {}
  BY <1>1, <1>2, <1>4, <1>6, Zenon DEF NoteWrite
<1>7. CASE b.id # NoId /\ w # {}
  BY <1>1, <1>3, <1>5, <1>7, Zenon DEF NoteWrite
<1>8. CASE w = {}
  BY <1>1, <1>8, Zenon DEF NoteWrite
<1> QED  BY <1>6, <1>7, <1>8

LEMMA ReadCallTyped ==
  ASSUME NEW r \in RoundRecords, NEW b \in Blocks
  PROVE  ReadCall(r, b) \in RoundRecords
<1>2. PICK n \in Nat : n = r.toolCalls + 1
  BY DEF RoundRecords
<1>3. PICK f \in SUBSET Files : f = r.files \cup b.files
  BY DEF RoundRecords, Blocks
<1>4. [r EXCEPT !.toolCalls = n, !.files = f] \in RoundRecords
  BY DEF RoundRecords
<1>5. PICK named \in RoundRecords : named = [r EXCEPT !.toolCalls = @ + 1, !.files = @ \cup b.files]
  BY <1>2, <1>3, <1>4, Zenon
<1>6. NoteWrite(named, b) \in RoundRecords
  BY NoteWriteTyped
<1> QED  BY <1>5, <1>6, Zenon DEF ReadCall

LEMMA ReadResultTyped ==
  ASSUME NEW r \in RoundRecords, NEW b \in Blocks, NEW when \in Nat
  PROVE  ReadResult(r, b, when) \in RoundRecords
<1>1. ASSUME NEW s \in RoundRecords PROVE SettleWrite(s, b) \in RoundRecords
  <2> DEFINE due == {p \in s.pending : p.id = b.id}
  <2>1. PICK p \in SUBSET Awaiting : p = s.pending \ due
    BY DEF RoundRecords, Awaiting
  <2>5. PICK a \in SUBSET Files : a = Awaited(due)
    <3>1. due \in SUBSET Awaiting
      BY DEF RoundRecords, Awaiting
    <3> QED  BY <3>1, AwaitedTyped
  <2>2. s.changed \cup a \in SUBSET Files /\ s.changed \in SUBSET Files
    BY DEF RoundRecords
  <2>3. PICK c \in SUBSET Files : c = IF b.failed THEN s.changed ELSE s.changed \cup a
    BY <2>2
  <2>4. [s EXCEPT !.pending = p, !.changed = c] \in RoundRecords
    BY DEF RoundRecords, Awaiting
  <2> QED  BY <2>1, <2>3, <2>4, <2>5, Zenon DEF SettleWrite
<1>2. PICK n \in Nat : n = r.failures + 1
  BY DEF RoundRecords
<1>6. PICK old \in Seq(Nat) : old = r.failed
  BY DEF RoundRecords
<1>9. Append(old, when) \in Seq(Nat)
  BY ONLY <1>6, when \in Nat
<1>3. PICK f \in Seq(Nat) : f = Append(r.failed, when)
  BY <1>6, <1>9, Zenon
<1>4. [r EXCEPT !.failures = n, !.failed = f] \in RoundRecords
  BY DEF RoundRecords
<1>5. [r EXCEPT !.failures = @ + 1, !.failed = Append(@, when)] \in RoundRecords
  BY <1>2, <1>3, <1>4, Zenon
<1>7. PICK s \in RoundRecords : s = IF b.failed THEN [r EXCEPT !.failures = @ + 1, !.failed = Append(@, when)] ELSE r
  BY <1>5
<1>8. SettleWrite(s, b) \in RoundRecords
  BY <1>1
<1> QED  BY <1>7, <1>8, Zenon DEF ReadResult

LEMMA ReadBlockTyped ==
  ASSUME NEW r \in RoundRecords, NEW b \in Blocks, NEW when \in Nat
  PROVE  ReadBlock(r, b, when) \in RoundRecords
<1>1. ReadCall(r, b) \in RoundRecords
  BY ReadCallTyped
<1>2. ReadResult(r, b, when) \in RoundRecords
  BY ReadResultTyped
<1>3. [r EXCEPT !.interrupted = TRUE] \in RoundRecords
  BY DEF RoundRecords
<1> QED  BY <1>1, <1>2, <1>3 DEF ReadBlock

LEMMA LaterTyped == ASSUME NEW old \in Nat, NEW when \in Nat PROVE Later(old, when) \in Nat
BY DEF Later

LEMMA ReadRowTyped ==
  ASSUME NEW r \in RoundRecords, NEW m \in SessionRows, NEW starting \in BOOLEAN
  PROVE  ReadRow(r, m, starting) \in RoundRecords
<1>0. m.block \in Blocks /\ m.at \in Nat
  BY DEF SessionRows
<1>1. PICK s \in RoundRecords : s = ReadBlock(r, m.block, m.at)
  BY <1>0, ReadBlockTyped
<1>2. s.messages \in Nat /\ s.lastAt \in Nat /\ s.endAt \in Nat /\ s.replied \in BOOLEAN
  BY DEF RoundRecords
<1>3. PICK n \in Nat : n = s.messages + 1
  BY <1>2
<1>4. PICK l \in Nat : l = Later(s.lastAt, m.at)
  BY <1>0, <1>2, LaterTyped
<1>5. PICK e \in Nat : e = IF starting \/ IsWork(m) THEN Later(s.endAt, m.at) ELSE s.endAt
  BY <1>0, <1>2, LaterTyped
<1>6. PICK y \in BOOLEAN : y = (s.replied \/ (m.role = "assistant" /\ m.words # "none"))
  OBVIOUS
<1>7. [s EXCEPT !.messages = n, !.lastAt = l, !.humanLast = starting, !.endAt = e, !.replied = y] \in RoundRecords
  BY DEF RoundRecords
<1>8. ReadRow(r, m, starting) = [s EXCEPT !.messages = n, !.lastAt = l, !.humanLast = starting, !.endAt = e, !.replied = y]
  BY <1>1, <1>3, <1>4, <1>5, <1>6, Zenon DEF ReadRow
<1> QED  BY <1>7, <1>8

LEMMA NewRoundTyped ==
  ASSUME NEW index \in Nat, NEW when \in Nat
  PROVE  NewRound(index, when) \in RoundRecords
BY DEF NewRound, RoundRecords, NoTime

LEMMA NextRowTyped ==
  ASSUME NEW rounds \in Seq(RoundRecords), NEW m \in SessionRows
  PROVE  NextRow(rounds, m) \in Seq(RoundRecords)
<1>0. m.at \in Nat /\ Len(rounds) + 1 \in Nat
  BY DEF SessionRows
<1>1. PICK r \in RoundRecords : r = NewRound(Len(rounds) + 1, m.at)
  BY <1>0, NewRoundTyped
<1>2. PICK s \in RoundRecords : s = ReadRow(r, m, TRUE)
  BY ReadRowTyped
<1>3. CASE IsRoundStart(m)
  <2>1. NextRow(rounds, m) = Append(rounds, s)
    BY <1>1, <1>2, <1>3, Zenon DEF NextRow
  <2> QED  BY <2>1
<1>4. CASE ~IsRoundStart(m) /\ rounds = <<>>
  BY <1>4 DEF NextRow
<1>5. CASE ~IsRoundStart(m) /\ rounds # <<>>
  <2>1. PICK l \in RoundRecords : l = rounds[Len(rounds)]
    BY <1>5
  <2>2. PICK t \in RoundRecords : t = ReadRow(l, m, FALSE)
    BY ReadRowTyped
  <2>3. NextRow(rounds, m) = [rounds EXCEPT ![Len(rounds)] = t]
    BY <1>5, <2>1, <2>2, Zenon DEF NextRow
  <2>4. [rounds EXCEPT ![Len(rounds)] = t] \in Seq(RoundRecords)
    BY LastReplaced
  <2> QED  BY <2>3, <2>4
<1> QED  BY <1>3, <1>4, <1>5

LEMMA OneAppended ==
  ASSUME NEW X, NEW s \in Seq(X), NEW x \in X
  PROVE  /\ Append(s, x) \in Seq(X)
         /\ Len(s) \in Nat /\ Len(Append(s, x)) = Len(s) + 1 /\ Append(s, x)[Len(s) + 1] = x
         /\ \A n \in 1..Len(s) : Append(s, x)[n] = s[n]
OBVIOUS

\* splitRounds reads row after row.
LEMMA ReadSteps ==
  ASSUME NEW read \in Seq(SessionRows)
  PROVE  /\ ReadUpTo(read) \in [0..Len(read) -> Seq(RoundRecords)]
         /\ ReadUpTo(read)[0] = <<>>
         /\ \A n \in 1..Len(read) : ReadUpTo(read)[n] = NextRow(ReadUpTo(read)[n - 1], read[n])
<1> DEFINE X == Seq(RoundRecords)
           turn == [p \in X \X (1..Len(read)) |-> NextRow(p[1], read[p[2]])]
           Def(f) == [n \in 0..Len(read) |-> IF n = 0 THEN <<>> ELSE NextRow(f[n - 1], read[n])]
<1>1. Len(read) \in Nat /\ <<>> \in X
  OBVIOUS
<1>2. turn \in [X \X (1..Len(read)) -> X]
  <2> SUFFICES ASSUME NEW x \in X, NEW i \in 1..Len(read) PROVE NextRow(x, read[i]) \in X
    BY Zenon
  <2>1. PICK m \in SessionRows : m = read[i]
    OBVIOUS
  <2> QED  BY <2>1, NextRowTyped
<1>3. \A x \in X, i \in 1..Len(read) : turn[<<x, i>>] = NextRow(x, read[i])
  OBVIOUS
<1>4. PICK f : MadeBy(X, <<>>, turn, Len(read), f)
  <2> HIDE DEF turn, X
  <2> QED  BY <1>1, <1>2, Iterates
<1>5. f \in [0..Len(read) -> X] /\ f[0] = <<>> /\ \A i \in 1..Len(read) : f[i] = NextRow(f[i - 1], read[i])
  <2>1. f \in [0..Len(read) -> X] /\ f[0] = <<>> /\ \A i \in 1..Len(read) : f[i] = turn[<<f[i - 1], i>>]
    <3> HIDE DEF turn, X
    <3> QED  BY <1>4 DEF MadeBy
  <2>2. ASSUME NEW i \in 1..Len(read) PROVE f[i] = NextRow(f[i - 1], read[i])
    <3> HIDE DEF turn, X
    <3>1. i - 1 \in 0..Len(read)
      OBVIOUS
    <3>2. f[i - 1] \in X
      BY <2>1, <3>1
    <3> QED  BY <1>3, <2>1, <3>2, Zenon
  <2> QED  BY <2>1, <2>2
<1>6. f = Def(f)
  <2> HIDE DEF turn, X
  <2>1. ASSUME NEW n \in 0..Len(read) PROVE f[n] = IF n = 0 THEN <<>> ELSE NextRow(f[n - 1], read[n])
    <3>1. CASE n = 0
      BY <1>5, <3>1
    <3>2. CASE n # 0
      <4>1. n \in 1..Len(read)
        BY <3>2
      <4> QED  BY <1>5, <3>2, <4>1, Zenon
    <3> QED  BY <3>1, <3>2
  <2>2. DOMAIN f = 0..Len(read) /\ f = [n \in DOMAIN f |-> f[n]]
    BY <1>5
  <2> QED  BY <2>1, <2>2, Zenon
<1>7. ReadUpTo(read) = Def(ReadUpTo(read))
  <2> HIDE DEF turn, X
  <2> QED  BY <1>6, Zenon DEF ReadUpTo
<1> HIDE DEF turn
<1>8. PICK g : g = ReadUpTo(read)
  OBVIOUS
<1>9. g = [n \in 0..Len(read) |-> IF n = 0 THEN <<>> ELSE NextRow(g[n - 1], read[n])]
  BY <1>7, <1>8
<1>10. g[0] = <<>> /\ \A n \in 1..Len(read) : g[n] = NextRow(g[n - 1], read[n])
  <2>1. ASSUME NEW n \in 0..Len(read) PROVE g[n] = IF n = 0 THEN <<>> ELSE NextRow(g[n - 1], read[n])
    BY <1>9, Zenon
  <2>2. 0 \in 0..Len(read) /\ \A n \in 1..Len(read) : n \in 0..Len(read) /\ n # 0
    BY <1>1
  <2> QED  BY <2>1, <2>2, Zenon
<1>11. \A n \in 0..Len(read) : g[n] \in X
  <2> DEFINE Good == {n \in 0..Len(read) : g[n] \in X}
  <2>1. 0 \in Good
    <3>1. 0 \in 0..Len(read)
      BY <1>1
    <3> HIDE DEF X
    <3> QED  BY <1>1, <1>10, <3>1
  <2>2. ASSUME NEW n \in 1..Len(read), n - 1 \in Good PROVE n \in Good
    <3>1. PICK x \in X : x = g[n - 1]
      BY <2>2
    <3>2. PICK m \in SessionRows : m = read[n]
      OBVIOUS
    <3>3. NextRow(x, m) \in X
      BY NextRowTyped
    <3>4. g[n] = NextRow(x, m)
      BY <1>10, <3>1, <3>2, Zenon
    <3> QED  BY <3>3, <3>4
  <2> HIDE DEF Good
  <2>3. \A n \in 0..Len(read) : n \in Good
    BY <1>1, <2>1, <2>2, UpTo
  <2> QED  BY <2>3 DEF Good
<1>12. g \in [0..Len(read) -> X]
  <2>1. DOMAIN g = 0..Len(read) /\ g = [n \in DOMAIN g |-> g[n]]
    BY <1>9, Zenon
  <2> HIDE DEF X
  <2> QED  BY <1>11, <2>1
<1> QED  BY <1>8, <1>10, <1>12

\* What has been read of some rows stays when one more is written.
LEMMA ReadMore ==
  ASSUME NEW read \in Seq(SessionRows), NEW m \in SessionRows
  PROVE  /\ \A n \in 0..Len(read) : ReadUpTo(Append(read, m))[n] = ReadUpTo(read)[n]
         /\ ReadUpTo(Append(read, m))[Len(read) + 1] = NextRow(ReadUpTo(read)[Len(read)], m)
<1>1. PICK more \in Seq(SessionRows) : more = Append(read, m)
  BY OneAppended
<1>2. /\ Len(more) = Len(read) + 1 /\ Len(read) \in Nat /\ more[Len(read) + 1] = m
      /\ \A n \in 1..Len(read) : more[n] = read[n]
  BY <1>1, OneAppended
<1>3. PICK f : f = ReadUpTo(read)
  OBVIOUS
<1>4. PICK g : g = ReadUpTo(more)
  OBVIOUS
<1>5. f[0] = <<>> /\ \A n \in 1..Len(read) : f[n] = NextRow(f[n - 1], read[n])
  BY <1>3, ReadSteps
<1>6. g[0] = <<>> /\ \A n \in 1..Len(more) : g[n] = NextRow(g[n - 1], more[n])
  BY <1>4, ReadSteps
<1> DEFINE Good == {n \in 0..Len(read) : g[n] = f[n]}
<1>7. 0 \in Good
  BY <1>2, <1>5, <1>6
<1>8. ASSUME NEW n \in 1..Len(read), n - 1 \in Good PROVE n \in Good
  <2>1. n \in 1..Len(more) /\ n \in 0..Len(read)
    BY <1>2
  <2>2. g[n - 1] = f[n - 1]
    BY <1>8
  <2>3. g[n] = NextRow(g[n - 1], more[n])
    BY <1>6, <2>1
  <2>4. f[n] = NextRow(f[n - 1], read[n])
    BY <1>5
  <2>5. more[n] = read[n]
    BY <1>2
  <2>6. g[n] = f[n]
    BY <2>2, <2>3, <2>4, <2>5, Zenon
  <2> QED  BY <2>1, <2>6
<1> HIDE DEF Good
<1>9. \A n \in 0..Len(read) : n \in Good
  BY <1>2, <1>7, <1>8, UpTo
<1>10. \A n \in 0..Len(read) : g[n] = f[n]
  BY <1>9 DEF Good
<1>11. Len(read) + 1 \in 1..Len(more) /\ (Len(read) + 1) - 1 = Len(read) /\ Len(read) \in 0..Len(read)
  BY <1>2
<1>12. g[Len(read) + 1] = NextRow(f[Len(read)], m)
  BY <1>2, <1>6, <1>10, <1>11, Zenon
<1> QED  BY <1>1, <1>3, <1>4, <1>10, <1>12

-----------------------------------------------------------------------------
(***************************************************************************)
(* The session: its rows and calls are what the operators expect, no time  *)
(* goes back, and a row changes no round but the last.                     *)
(***************************************************************************)

\* The latest time of some rows.
LEMMA LatestTime ==
  ASSUME NEW read \in Seq(SessionRows)
  PROVE  \E t \in {1} \cup {read[i].at : i \in DOMAIN read} : t \in Nat /\ t >= 1 /\ \A i \in 1..Len(read) : read[i].at <= t
<1> DEFINE T(n) == {1} \cup {read[i].at : i \in 1..n}
           Good == {n \in 0..Len(read) : \E t \in T(n) : t \in Nat /\ t >= 1 /\ \A i \in 1..n : read[i].at <= t}
<1>1. Len(read) \in Nat /\ DOMAIN read = 1..Len(read)
  OBVIOUS
<1>2. 0 \in Good
  BY <1>1
<1>3. ASSUME NEW n \in 1..Len(read), n - 1 \in Good PROVE n \in Good
  <2>1. PICK t \in T(n - 1) : t \in Nat /\ t >= 1 /\ \A i \in 1..(n - 1) : read[i].at <= t
    BY <1>3
  <2>2. PICK m \in SessionRows : m = read[n]
    OBVIOUS
  <2>3. PICK a \in Nat : a = read[n].at
    BY <2>2 DEF SessionRows
  <2>4. a \in T(n) /\ t \in T(n)
    BY <2>1, <2>3
  <2>5. \A i \in 1..n : i = n \/ i \in 1..(n - 1)
    OBVIOUS
  <2>6. CASE a <= t
    <3>1. \A i \in 1..n : read[i].at <= t
      BY <2>1, <2>3, <2>5, <2>6
    <3> QED  BY <2>1, <2>4, <3>1
  <2>7. CASE t < a
    <3>1. \A i \in 1..(n - 1) : read[i].at \in Nat
      <4> SUFFICES ASSUME NEW i \in 1..(n - 1) PROVE read[i].at \in Nat
        OBVIOUS
      <4>1. PICK w \in SessionRows : w = read[i]
        OBVIOUS
      <4> QED  BY <4>1 DEF SessionRows
    <3>2. \A i \in 1..n : read[i].at <= a
      BY <2>1, <2>3, <2>5, <2>7, <3>1
    <3>3. a >= 1
      BY ONLY <2>1, <2>3, <2>7
    <3>4. \E s \in T(n) : s \in Nat /\ s >= 1 /\ \A i \in 1..n : read[i].at <= s
      BY ONLY <2>3, <2>4, <3>2, <3>3
    <3> QED  BY <3>4
  <2>8. a <= t \/ t < a
    BY ONLY <2>1, <2>3
  <2> HIDE DEF Good
  <2> QED  BY ONLY <2>6, <2>7, <2>8
<1> HIDE DEF Good
<1>4. Len(read) \in Good
  <2>1. \A n \in 0..Len(read) : n \in Good
    BY <1>1, <1>2, <1>3, UpTo
  <2> QED  BY <1>1, <2>1
<1> QED  BY <1>1, <1>4 DEF Good

LEMMA TimesTyped ==
  ASSUME NEW read \in Seq(SessionRows), NEW i \in 1..Len(read)
  PROVE  read[i] \in SessionRows /\ read[i].at \in Nat /\ read[i].block \in Blocks
<1>1. PICK m \in SessionRows : m = read[i]
  OBVIOUS
<1> QED  BY <1>1 DEF SessionRows

LEMMA NowIs ==
  ASSUME rows \in Seq(SessionRows)
  PROVE  Now \in Nat /\ Now >= 1 /\ \A i \in 1..Len(rows) : rows[i].at <= Now
<1>1. CASE rows = <<>>
  BY <1>1 DEF Now
<1>2. CASE rows # <<>>
  <2> DEFINE S == {1} \cup {rows[i].at : i \in DOMAIN rows}
  <2>1. PICK t \in S : t \in Nat /\ t >= 1 /\ \A i \in 1..Len(rows) : rows[i].at <= t
    BY LatestTime
  <2>2. \A x \in S : x \in Int
    BY TimesTyped
  <2>3. \A x \in S : t >= x
    BY <2>1, TimesTyped
  <2>4. Max(S) \in S /\ \A y \in S : Max(S) >= y
    BY <2>3 DEF Max
  <2> HIDE DEF S
  <2>5. Max(S) = t
    <3>1. Max(S) \in Int /\ t \in Int /\ Max(S) >= t /\ t >= Max(S)
      BY <2>1, <2>2, <2>3, <2>4
    <3> QED  BY <3>1
  <2>6. Now = t
    BY <1>2, <2>5 DEF Now, S
  <2> QED  BY <2>1, <2>6
<1> QED  BY <1>1, <1>2

-----------------------------------------------------------------------------
SessionTypes == ids \in BOOLEAN /\ rows \in Seq(SessionRows) /\ open \subseteq Blocks

\* Time never goes back, an ask has one, and so has a call or a result.
Timely(read) ==
  /\ \A i, j \in 1..Len(read) : i < j /\ read[i].at # NoTime /\ read[j].at # NoTime => read[i].at <= read[j].at
  /\ \A i \in 1..Len(read) : read[i].at = NoTime => ~IsRoundStart(read[i]) /\ read[i].block = NoBlock
TimesGrow == Timely(rows)

LEMMA NoBlockTyped == NoBlock \in Blocks /\ NoBlock.type = "none"
BY DEF NoBlock, Blocks, FileNames, NoId, BlockTypes, ToolNames

LEMMA WriteIs ==
  ASSUME SessionTypes, TimesGrow, NEW when \in Nat, NEW role \in Speakers, NEW aside \in BOOLEAN, NEW words \in KindsOfWords,
         NEW block \in Blocks, Write(when, role, aside, words, block), when = NoTime \/ when >= Now,
         when = NoTime => role # "user" /\ block = NoBlock
  PROVE  rows' \in Seq(SessionRows) /\ TimesGrow'
<1>1. PICK m : m = [at |-> when, role |-> role, aside |-> aside, words |-> words, block |-> block]
  OBVIOUS
<1>2. m \in SessionRows /\ m.at = when /\ m.role = role /\ m.block = block
  BY <1>1 DEF SessionRows
<1>3. rows' = Append(rows, m) /\ rows \in Seq(SessionRows)
  BY <1>1 DEF Write, SessionTypes
<1>4. /\ rows' \in Seq(SessionRows) /\ Len(rows) \in Nat /\ Len(rows') = Len(rows) + 1 /\ rows'[Len(rows) + 1] = m
      /\ \A i \in 1..Len(rows) : rows'[i] = rows[i]
  BY <1>2, <1>3, OneAppended
<1>5. \A i \in 1..Len(rows') : i = Len(rows) + 1 \/ i \in 1..Len(rows)
  BY <1>4
<1>6. Now \in Nat /\ \A i \in 1..Len(rows) : rows[i].at <= Now /\ rows[i].at \in Nat
  BY <1>3, NowIs, TimesTyped
<1>7. ASSUME NEW i \in 1..Len(rows'), NEW j \in 1..Len(rows'), i < j, rows'[i].at # NoTime, rows'[j].at # NoTime
      PROVE  rows'[i].at <= rows'[j].at
  <2>1. i \in 1..Len(rows) /\ rows'[i] = rows[i] /\ rows[i].at <= Now /\ rows[i].at \in Nat
    BY <1>4, <1>5, <1>6, <1>7
  <2>2. CASE j = Len(rows) + 1
    <3>1. rows'[j].at = when
      BY <1>2, <1>4, <2>2
    <3> QED  BY <1>6, <1>7, <2>1, <3>1
  <2>3. CASE j \in 1..Len(rows)
    <3>1. rows'[j] = rows[j]
      BY <1>4, <2>3
    <3> QED  BY <1>7, <2>1, <2>3, <3>1 DEF TimesGrow, Timely
  <2> QED  BY <1>5, <2>2, <2>3
<1>8. ASSUME NEW i \in 1..Len(rows'), rows'[i].at = NoTime
      PROVE  ~IsRoundStart(rows'[i]) /\ rows'[i].block = NoBlock
  <2>1. CASE i = Len(rows) + 1
    BY <1>2, <1>4, <1>8, <2>1 DEF IsRoundStart, HasWordsOf
  <2>2. CASE i \in 1..Len(rows)
    BY <1>4, <1>8, <2>2 DEF TimesGrow, Timely
  <2> QED  BY <1>5, <2>1, <2>2
<1> QED  BY <1>4, <1>7, <1>8 DEF TimesGrow, Timely

\* What the steps write.
LEMMA StepWrites ==
  ASSUME SessionTypes, RoundsNext
  PROVE  /\ open' \subseteq Blocks
         /\ \E when \in Nat, role \in Speakers, aside \in BOOLEAN, words \in KindsOfWords, block \in Blocks :
              /\ Write(when, role, aside, words, block) /\ (when = NoTime \/ when >= Now)
              /\ when = NoTime => role # "user" /\ block = NoBlock
<1> DEFINE Fine(when, role, aside, words, block) ==
             /\ when \in Nat /\ role \in Speakers /\ aside \in BOOLEAN /\ words \in KindsOfWords /\ block \in Blocks
             /\ Write(when, role, aside, words, block) /\ (when = NoTime \/ when >= Now)
             /\ when = NoTime => role # "user" /\ block = NoBlock
<1> SUFFICES open' \subseteq Blocks /\ \E when, role, aside, words, block : Fine(when, role, aside, words, block)
  OBVIOUS
<1>1. Now \in Nat /\ Now + 1 \in Nat /\ Now >= 1 /\ Now + 1 >= Now /\ Now # NoTime /\ Now + 1 # NoTime
  BY NowIs DEF SessionTypes, NoTime
<1>2. NoBlock \in Blocks
  BY NoBlockTyped
<1>3. open \subseteq Blocks /\ Len(rows) \in Nat /\ NoTime \in Nat
  BY DEF SessionTypes, NoTime
<1> HIDE DEF Fine
<1>11. ASSUME NEW when \in Nat, NEW role \in Speakers, NEW aside \in BOOLEAN, NEW words \in KindsOfWords, NEW block \in Blocks,
              Write(when, role, aside, words, block), when >= Now
       PROVE  Fine(when, role, aside, words, block)
  <2>1. when # NoTime
    BY <1>1, <1>11 DEF NoTime
  <2> QED  BY <1>11, <2>1, Zenon DEF Fine
<1>12. /\ "user" \in Speakers /\ "assistant" \in Speakers /\ "system" \in Speakers
       /\ "plain" \in KindsOfWords /\ "none" \in KindsOfWords
       /\ TRUE \in BOOLEAN /\ FALSE \in BOOLEAN
  BY DEF Speakers, KindsOfWords
<1>4. CASE Ask
  <2>1. PICK when \in {Now, Now + 1} : Write(when, "user", FALSE, "plain", NoBlock)
    BY <1>4, Zenon DEF Ask
  <2>2. when \in Nat /\ when >= Now
    BY <1>1, <2>1
  <2>3. Fine(when, "user", FALSE, "plain", NoBlock)
    BY <1>2, <1>11, <1>12, <2>1, <2>2
  <2>4. open' = open
    BY <1>4, Zenon DEF Ask
  <2> QED  BY <1>3, <2>3, <2>4
<1>5. CASE Queued
  <2>1. Write(Now + 1, "user", TRUE, "plain", NoBlock) /\ open' = open
    BY <1>5, Zenon DEF Queued
  <2>2. Fine(Now + 1, "user", TRUE, "plain", NoBlock)
    BY <1>1, <1>2, <1>11, <1>12, <2>1
  <2> QED  BY <1>3, <2>1, <2>2
<1>6. CASE Injected
  <2>1. PICK words \in {"plumbing", "glued", "apart"} : Write(Now + 1, "user", FALSE, words, NoBlock)
    BY <1>6, Zenon DEF Injected
  <2>3. words \in KindsOfWords
    BY DEF KindsOfWords
  <2>2. Fine(Now + 1, "user", FALSE, words, NoBlock)
    BY <1>1, <1>2, <1>11, <1>12, <2>1, <2>3
  <2>4. open' = open
    BY <1>6, Zenon DEF Injected
  <2> QED  BY <1>3, <2>2, <2>4
<1>7. CASE Say
  <2>1. PICK when \in {NoTime, Now + 1} : Write(when, "assistant", FALSE, "plain", NoBlock)
    BY <1>7 DEF Say
  <2>2. open' = open
    BY <1>7 DEF Say
  <2>4. when \in Nat /\ (when = NoTime \/ when >= Now)
    BY <1>1, <1>3, <2>1
  <2>5. "assistant" # "user"
    OBVIOUS
  <2>3. Fine(when, "assistant", FALSE, "plain", NoBlock)
    BY <1>2, <1>12, <2>1, <2>4, <2>5, Zenon DEF Fine
  <2> QED  BY <1>3, <2>2, <2>3
<1>8. CASE CallTool
  <2>1. PICK tool \in Calls :
          LET id == IF ids THEN Len(rows) + 1 ELSE NoId
              opened == [type |-> "toolCall", id |-> id, name |-> tool.name, files |-> tool.files,
                         file |-> tool.file, failed |-> FALSE]
          IN  Write(Now + 1, "assistant", FALSE, "none", opened) /\ open' = open \cup {opened}
    BY <1>8 DEF CallTool
  <2>2. PICK id \in Nat : id = IF ids THEN Len(rows) + 1 ELSE NoId
    BY <1>3 DEF NoId
  <2>6. tool.name \in ToolNames /\ tool.files \in SUBSET Files /\ tool.file \in FileNames
    BY RoundsAssumption DEF ToolNames, FileNames
  <2>3. PICK opened \in Blocks :
          opened = [type |-> "toolCall", id |-> id, name |-> tool.name, files |-> tool.files,
                    file |-> tool.file, failed |-> FALSE]
    BY <2>6 DEF Blocks, BlockTypes
  <2>4. Write(Now + 1, "assistant", FALSE, "none", opened) /\ open' = open \cup {opened}
    BY <2>1, <2>2, <2>3
  <2>5. Fine(Now + 1, "assistant", FALSE, "none", opened)
    BY <1>1, <1>11, <1>12, <2>4
  <2> QED  BY <1>3, <2>4, <2>5
<1>9. CASE Return
  <2>1. PICK opened \in open, failed \in BOOLEAN :
          /\ Write(Now + 1, "user", FALSE, "none",
               [NoBlock EXCEPT !.type = "toolResult", !.id = opened.id, !.name = opened.name, !.failed = failed])
          /\ open' = open \ {opened}
    BY <1>9 DEF Return
  <2>2. PICK block \in Blocks :
          block = [NoBlock EXCEPT !.type = "toolResult", !.id = opened.id, !.name = opened.name, !.failed = failed]
    <3>1. opened.id \in Nat /\ opened.name \in ToolNames
      BY <1>3 DEF Blocks
    <3> QED  BY <1>2, <3>1 DEF Blocks, BlockTypes
  <2>4. Write(Now + 1, "user", FALSE, "none", block) /\ open' = open \ {opened}
    BY <2>1, <2>2
  <2>3. Fine(Now + 1, "user", FALSE, "none", block)
    BY <1>1, <1>11, <1>12, <2>4
  <2> QED  BY <1>3, <2>1, <2>3
<1>10. CASE Interrupt
  <2>1. PICK block \in Blocks : block = [NoBlock EXCEPT !.type = "event"]
    BY <1>2 DEF Blocks, BlockTypes
  <2>3. Write(Now + 1, "system", FALSE, "none", block) /\ open' = open
    BY <1>10, <2>1 DEF Interrupt
  <2>2. Fine(Now + 1, "system", FALSE, "none", block)
    BY <1>1, <1>11, <1>12, <2>3
  <2> QED  BY <1>3, <2>2, <2>3
<1> QED  BY <1>4, <1>5, <1>6, <1>7, <1>8, <1>9, <1>10 DEF RoundsNext

LEMMA StepKeepsTypes ==
  ASSUME SessionTypes, TimesGrow, [RoundsNext]_roundsVars
  PROVE  SessionTypes' /\ TimesGrow'
<1>1. CASE RoundsNext
  <2>1. PICK when \in Nat, role \in Speakers, aside \in BOOLEAN, words \in KindsOfWords, block \in Blocks :
              /\ Write(when, role, aside, words, block) /\ (when = NoTime \/ when >= Now)
              /\ when = NoTime => role # "user" /\ block = NoBlock
    BY <1>1, StepWrites
  <2>2. rows' \in Seq(SessionRows) /\ TimesGrow'
    BY <2>1, WriteIs
  <2>3. open' \subseteq Blocks
    BY <1>1, StepWrites
  <2>4. ids' = ids
    BY <2>1 DEF Write
  <2> QED  BY <2>2, <2>3, <2>4 DEF SessionTypes
<1>2. CASE UNCHANGED roundsVars
  BY <1>2 DEF roundsVars, SessionTypes, TimesGrow, Timely
<1> QED  BY <1>1, <1>2

THEOREM SessionTyped == RoundsSpec => [](SessionTypes /\ TimesGrow)
<1>1. RoundsInit => SessionTypes /\ TimesGrow
  BY DEF RoundsInit, SessionTypes, TimesGrow, Timely
<1>2. SessionTypes /\ TimesGrow /\ [RoundsNext]_roundsVars => (SessionTypes /\ TimesGrow)'
  BY StepKeepsTypes
<1> QED  BY <1>1, <1>2, PTL DEF RoundsSpec

-----------------------------------------------------------------------------
\* The rounds are read from one row more.
LEMMA OneRowMore ==
  ASSUME SessionTypes, TimesGrow, RoundsNext
  PROVE  \E m \in SessionRows : rows' = Append(rows, m)
<1>1. PICK when \in Nat, role \in Speakers, aside \in BOOLEAN, words \in KindsOfWords, block \in Blocks :
        Write(when, role, aside, words, block)
  BY StepWrites
<1>2. PICK m \in SessionRows : m = [at |-> when, role |-> role, aside |-> aside, words |-> words, block |-> block]
  BY DEF SessionRows
<1> QED  BY <1>1, <1>2 DEF Write

\* A row changes no round but the last.
LEMMA OnlyLastChanges ==
  ASSUME NEW rounds \in Seq(RoundRecords), NEW m \in SessionRows
  PROVE  /\ NextRow(rounds, m) \in Seq(RoundRecords)
         /\ Len(NextRow(rounds, m)) = Len(rounds) + (IF IsRoundStart(m) THEN 1 ELSE 0)
         /\ \A k \in 1..Len(rounds) : k < Len(rounds) \/ IsRoundStart(m) => NextRow(rounds, m)[k] = rounds[k]
<1>0. NextRow(rounds, m) \in Seq(RoundRecords)
  BY NextRowTyped
<1>1. CASE IsRoundStart(m)
  <2>1. PICK r : r = ReadRow(NewRound(Len(rounds) + 1, m.at), m, TRUE)
    OBVIOUS
  <2>2. NextRow(rounds, m) = Append(rounds, r)
    BY <1>1, <2>1 DEF NextRow
  <2> QED  BY <1>0, <1>1, <2>2
<1>2. CASE ~IsRoundStart(m) /\ rounds = <<>>
  BY <1>0, <1>2 DEF NextRow
<1>3. CASE ~IsRoundStart(m) /\ rounds # <<>>
  <2>1. PICK r : r = ReadRow(rounds[Len(rounds)], m, FALSE)
    OBVIOUS
  <2>2. NextRow(rounds, m) = [rounds EXCEPT ![Len(rounds)] = r]
    BY <1>3, <2>1, Zenon DEF NextRow
  <2> QED  BY <1>0, <1>3, <2>2
<1> QED  BY <1>1, <1>2, <1>3

LEMMA SplitIs ==
  ASSUME NEW read \in Seq(SessionRows)
  PROVE  /\ ReadUpTo(read)[Len(read)] \in Seq(RoundRecords)
         /\ DOMAIN SplitRounds(read) = 1..Len(ReadUpTo(read)[Len(read)])
         /\ Len(SplitRounds(read)) = Len(ReadUpTo(read)[Len(read)])
         /\ \A k \in 1..Len(ReadUpTo(read)[Len(read)]) :
              SplitRounds(read)[k] = [ReadUpTo(read)[Len(read)][k] EXCEPT
                                        !.interrupted = @ \/ ReadUpTo(read)[Len(read)][k].humanLast]
<1>1. Len(read) \in Nat /\ Len(read) \in 0..Len(read)
  OBVIOUS
<1>2. PICK raw \in Seq(RoundRecords) : raw = ReadUpTo(read)[Len(read)]
  BY <1>1, ReadSteps
<1>3. SplitRounds(read) = [k \in DOMAIN raw |-> [raw[k] EXCEPT !.interrupted = @ \/ raw[k].humanLast]]
  BY <1>2, Zenon DEF SplitRounds
<1>4. DOMAIN raw = 1..Len(raw) /\ Len(raw) \in Nat
  OBVIOUS
<1>5. DOMAIN SplitRounds(read) = 1..Len(raw)
  BY <1>3, <1>4, Zenon
<1>6. Len(SplitRounds(read)) = Len(raw)
  BY <1>4, <1>5
<1>7. \A k \in 1..Len(raw) : SplitRounds(read)[k] = [raw[k] EXCEPT !.interrupted = @ \/ raw[k].humanLast]
  BY <1>3, <1>4, Zenon
<1> QED  BY <1>2, <1>5, <1>6, <1>7

\* A row of a session changes only the round it ends in, or begins a new one.
THEOREM ClosedRoundsHold == RoundsSpec => ClosedRoundsStay
<1>1. ASSUME SessionTypes, TimesGrow, [RoundsNext]_roundsVars
      PROVE  [\A k \in 1..(Len(Rounds) - 1) : Rounds'[k] = Rounds[k]]_roundsVars
  <2>1. CASE UNCHANGED roundsVars
    BY <2>1
  <2>2. CASE RoundsNext
    <3>1. PICK m \in SessionRows : rows' = Append(rows, m)
      BY <1>1, <2>2, OneRowMore
    <3>2. PICK old \in Seq(SessionRows) : old = rows
      BY <1>1 DEF SessionTypes
    <3>3. PICK new \in Seq(SessionRows) : new = Append(old, m)
      BY OneAppended
    <3>4. Len(new) = Len(old) + 1
      BY <3>3, OneAppended
    <3>5. PICK raw \in Seq(RoundRecords) : raw = ReadUpTo(old)[Len(old)]
      BY SplitIs
    <3>6. ReadUpTo(new)[Len(new)] = NextRow(raw, m)
      BY <3>3, <3>4, <3>5, ReadMore
    <3>7. PICK now \in Seq(RoundRecords) : now = NextRow(raw, m)
      BY OnlyLastChanges
    <3>13. Len(raw) \in Nat /\ Len(now) \in Nat /\ Len(now) >= Len(raw)
      <4>1. Len(now) = Len(raw) + (IF IsRoundStart(m) THEN 1 ELSE 0)
        BY <3>7, OnlyLastChanges
      <4> QED  BY <4>1
    <3>8. \A k \in 1..(Len(raw) - 1) : now[k] = raw[k] /\ k \in 1..Len(raw) /\ k \in 1..Len(now)
      <4> SUFFICES ASSUME NEW k \in 1..(Len(raw) - 1) PROVE now[k] = raw[k] /\ k \in 1..Len(raw) /\ k \in 1..Len(now)
        OBVIOUS
      <4>1. k \in 1..Len(raw) /\ k < Len(raw) /\ k \in 1..Len(now)
        BY <3>13
      <4> QED  BY <3>7, <4>1, OnlyLastChanges
    <3>9. /\ Len(SplitRounds(old)) = Len(raw)
          /\ \A k \in 1..Len(raw) : SplitRounds(old)[k] = [raw[k] EXCEPT !.interrupted = @ \/ raw[k].humanLast]
      BY <3>5, SplitIs
    <3>10. \A k \in 1..Len(now) : SplitRounds(new)[k] = [now[k] EXCEPT !.interrupted = @ \/ now[k].humanLast]
      BY <3>6, <3>7, SplitIs
    <3>11. \A k \in 1..(Len(raw) - 1) : SplitRounds(new)[k] = SplitRounds(old)[k]
      <4> SUFFICES ASSUME NEW k \in 1..(Len(raw) - 1) PROVE SplitRounds(new)[k] = SplitRounds(old)[k]
        OBVIOUS
      <4>1. SplitRounds(old)[k] = [raw[k] EXCEPT !.interrupted = @ \/ raw[k].humanLast]
        BY <3>8, <3>9, Zenon
      <4>2. SplitRounds(new)[k] = [now[k] EXCEPT !.interrupted = @ \/ now[k].humanLast]
        BY <3>8, <3>10, Zenon
      <4>3. now[k] = raw[k]
        BY <3>8
      <4> QED  BY <4>1, <4>2, <4>3, Zenon
    <3>12. Rounds = SplitRounds(old) /\ Rounds' = SplitRounds(new)
      BY <3>1, <3>2, <3>3 DEF Rounds
    <3> QED  BY <3>9, <3>11, <3>12
  <2> QED  BY <1>1, <2>1, <2>2
<1> QED  BY <1>1, SessionTyped, PTL DEF RoundsSpec, ClosedRoundsStay

-----------------------------------------------------------------------------
(***************************************************************************)
(* The ways to name rounds. A round begins with an ask and ends with a row *)
(* of its own, later than the round before it ended; so the round that     *)
(* holds an instant, those that go on after one, and those that begin in   *)
(* the latest rows are found by their times.                               *)
(***************************************************************************)

\* The rounds after each row are one more for each ask.
LEMMA NextOf ==
  ASSUME NEW read \in Seq(SessionRows), NEW n \in 1..Len(read)
  PROVE  /\ n - 1 \in 0..Len(read) /\ n \in 0..Len(read) /\ Len(read) \in Nat
         /\ ReadUpTo(read)[n - 1] \in Seq(RoundRecords) /\ ReadUpTo(read)[n] \in Seq(RoundRecords)
         /\ ReadUpTo(read)[n] = NextRow(ReadUpTo(read)[n - 1], read[n])
         /\ Len(ReadUpTo(read)[n]) = Len(ReadUpTo(read)[n - 1]) + (IF IsRoundStart(read[n]) THEN 1 ELSE 0)
<1>1. n - 1 \in 0..Len(read) /\ n \in 0..Len(read)
  OBVIOUS
<1>2. PICK old \in Seq(RoundRecords) : old = ReadUpTo(read)[n - 1]
  BY <1>1, ReadSteps
<1>3. PICK m \in SessionRows : m = read[n]
  OBVIOUS
<1>4. ReadUpTo(read)[n] = NextRow(old, m)
  BY <1>2, <1>3, ReadSteps
<1>5. /\ NextRow(old, m) \in Seq(RoundRecords)
      /\ Len(NextRow(old, m)) = Len(old) + (IF IsRoundStart(m) THEN 1 ELSE 0)
  BY OnlyLastChanges
<1>6. Len(read) \in Nat
  OBVIOUS
<1> QED  BY <1>1, <1>2, <1>3, <1>4, <1>5, <1>6, Zenon

AsksTo(read, n) == {a \in 1..n : IsRoundStart(read[a])}

LEMMA RoundsAreAsks ==
  ASSUME NEW read \in Seq(SessionRows)
  PROVE  \A n \in 0..Len(read) : IsFiniteSet(AsksTo(read, n)) /\ Cardinality(AsksTo(read, n)) = Len(ReadUpTo(read)[n])
<1> DEFINE Good == {n \in 0..Len(read) : IsFiniteSet(AsksTo(read, n)) /\ Cardinality(AsksTo(read, n)) = Len(ReadUpTo(read)[n])}
<1>0. Len(read) \in Nat /\ 0 \in 0..Len(read)
  OBVIOUS
<1>1. 0 \in Good
  <2>1. AsksTo(read, 0) = {}
    BY DEF AsksTo
  <2>2. Len(ReadUpTo(read)[0]) = 0
    BY ReadSteps
  <2> QED  BY <1>0, <2>1, <2>2, FS_EmptySet
<1>2. ASSUME NEW n \in 1..Len(read), n - 1 \in Good PROVE n \in Good
  <2>1. /\ n \in 0..Len(read)
        /\ Len(ReadUpTo(read)[n]) = Len(ReadUpTo(read)[n - 1]) + (IF IsRoundStart(read[n]) THEN 1 ELSE 0)
    BY NextOf
  <2>2. PICK S : S = AsksTo(read, n - 1)
    OBVIOUS
  <2>3. IsFiniteSet(S) /\ Cardinality(S) = Len(ReadUpTo(read)[n - 1])
    BY <1>2, <2>2
  <2>4. n \notin S
    BY <2>2 DEF AsksTo
  <2>5. IsFiniteSet(S \cup {n}) /\ Cardinality(S \cup {n}) = Cardinality(S) + 1
    BY <2>3, <2>4, FS_AddElement
  <2>6. CASE IsRoundStart(read[n])
    <3>1. AsksTo(read, n) = S \cup {n}
      BY <2>2, <2>6 DEF AsksTo
    <3> QED  BY <2>1, <2>3, <2>5, <2>6, <3>1
  <2>7. CASE ~IsRoundStart(read[n])
    <3>1. AsksTo(read, n) = S
      BY <2>2, <2>7 DEF AsksTo
    <3>2. Len(ReadUpTo(read)[n - 1]) \in Nat
      BY NextOf
    <3> QED  BY <2>1, <2>3, <2>7, <3>1, <3>2
  <2> QED  BY <2>6, <2>7
<1> HIDE DEF Good
<1>3. \A n \in 0..Len(read) : n \in Good
  BY <1>0, <1>1, <1>2, UpTo
<1> QED  BY <1>3 DEF Good

\* There are never fewer rounds.
LEMMA RoundsGrow ==
  ASSUME NEW read \in Seq(SessionRows), NEW i \in 0..Len(read)
  PROVE  \A j \in i..Len(read) : Len(ReadUpTo(read)[i]) <= Len(ReadUpTo(read)[j])
<1> DEFINE Good == {n \in 0..(Len(read) - i) : Len(ReadUpTo(read)[i]) <= Len(ReadUpTo(read)[i + n])}
<1>0. Len(read) \in Nat /\ Len(read) - i \in Nat
  OBVIOUS
<1>1. 0 \in Good
  <2>1. Len(ReadUpTo(read)[i]) \in Nat
    BY ReadSteps
  <2> QED  BY <1>0, <2>1
<1>2. ASSUME NEW n \in 1..(Len(read) - i), n - 1 \in Good PROVE n \in Good
  <2>1. PICK k \in 1..Len(read) : k = i + n
    OBVIOUS
  <2>2. i + (n - 1) = k - 1 /\ n \in 0..(Len(read) - i)
    BY <2>1
  <2>3. Len(ReadUpTo(read)[i]) <= Len(ReadUpTo(read)[k - 1])
    BY <1>2, <2>2
  <2>4. /\ ReadUpTo(read)[k - 1] \in Seq(RoundRecords)
        /\ Len(ReadUpTo(read)[k]) = Len(ReadUpTo(read)[k - 1]) + (IF IsRoundStart(read[k]) THEN 1 ELSE 0)
    BY NextOf
  <2>5. PICK x \in Nat : x = Len(ReadUpTo(read)[k - 1])
    BY <2>4
  <2>8. PICK first \in Seq(RoundRecords) : first = ReadUpTo(read)[i]
    BY ReadSteps
  <2>6. PICK y \in Nat : y = Len(ReadUpTo(read)[i])
    BY <2>8
  <2>9. PICK z : z = Len(ReadUpTo(read)[k])
    OBVIOUS
  <2>10. y <= x /\ z = x + (IF IsRoundStart(read[k]) THEN 1 ELSE 0)
    BY <2>3, <2>4, <2>5, <2>6, <2>9
  <2>7. y <= Len(ReadUpTo(read)[k])
    BY <2>9, <2>10
  <2> QED  BY <2>1, <2>2, <2>6, <2>7
<1> HIDE DEF Good
<1>3. \A n \in 0..(Len(read) - i) : n \in Good
  BY <1>0, <1>1, <1>2, UpTo
<1> SUFFICES ASSUME NEW j \in i..Len(read) PROVE Len(ReadUpTo(read)[i]) <= Len(ReadUpTo(read)[j])
  OBVIOUS
<1>4. j - i \in 0..(Len(read) - i) /\ i + (j - i) = j
  BY <1>0
<1> QED  BY <1>3, <1>4 DEF Good

\* What a block leaves alone.
LEMMA BlockLeaves ==
  ASSUME NEW r \in RoundRecords, NEW b \in Blocks, NEW when \in Nat
  PROVE  LET s == ReadBlock(r, b, when)
         IN  /\ s.index = r.index /\ s.startAt = r.startAt /\ s.endAt = r.endAt /\ s.lastAt = r.lastAt
             /\ s.messages = r.messages /\ s.humanLast = r.humanLast /\ s.replied = r.replied
<1> DEFINE Same(s, t) == /\ s.index = t.index /\ s.startAt = t.startAt /\ s.endAt = t.endAt /\ s.lastAt = t.lastAt
                         /\ s.messages = t.messages /\ s.humanLast = t.humanLast /\ s.replied = t.replied
<1>1. ASSUME NEW t \in RoundRecords PROVE Same(NoteWrite(t, b), t)
  BY DEF NoteWrite, RoundRecords
<1>2. ASSUME NEW t \in RoundRecords PROVE Same(SettleWrite(t, b), t)
  BY DEF SettleWrite, RoundRecords
<1>3. Same(ReadCall(r, b), r)
  <2>1. PICK n \in Nat : n = r.toolCalls + 1
    BY DEF RoundRecords
  <2>2. PICK f \in SUBSET Files : f = r.files \cup b.files
    BY DEF RoundRecords, Blocks
  <2>3. PICK t : t = [r EXCEPT !.toolCalls = n, !.files = f]
    OBVIOUS
  <2>4. t \in RoundRecords /\ Same(t, r)
    BY <2>3 DEF RoundRecords
  <2>5. ReadCall(r, b) = NoteWrite(t, b)
    BY <2>1, <2>2, <2>3, Zenon DEF ReadCall
  <2> QED  BY <1>1, <2>4, <2>5
<1>4. Same(ReadResult(r, b, when), r)
  <2>1. PICK n \in Nat : n = r.failures + 1
    BY DEF RoundRecords
  <2>2. PICK old \in Seq(Nat) : old = r.failed
    BY DEF RoundRecords
  <2>3. PICK f \in Seq(Nat) : f = Append(old, when)
    BY OneAppended
  <2>4. PICK t : t = IF b.failed THEN [r EXCEPT !.failures = n, !.failed = f] ELSE r
    OBVIOUS
  <2>5. t \in RoundRecords /\ Same(t, r)
    BY <2>4 DEF RoundRecords
  <2>6. ReadResult(r, b, when) = SettleWrite(t, b)
    BY <2>1, <2>2, <2>3, <2>4, Zenon DEF ReadResult
  <2> QED  BY <1>2, <2>5, <2>6
<1>5. Same([r EXCEPT !.interrupted = TRUE], r)
  BY DEF RoundRecords
<1> HIDE DEF Same
<1>6. Same(r, r)
  BY DEF Same
<1>7. Same(ReadBlock(r, b, when), r)
  BY <1>3, <1>4, <1>5, <1>6 DEF ReadBlock
<1> QED  BY <1>7 DEF Same

\* What a row makes of a round's times.
LEMMA RowTimes ==
  ASSUME NEW r \in RoundRecords, NEW m \in SessionRows, NEW starting \in BOOLEAN
  PROVE  LET s == ReadRow(r, m, starting)
         IN  /\ s \in RoundRecords
             /\ s.index = r.index /\ s.startAt = r.startAt /\ s.lastAt = Later(r.lastAt, m.at)
             /\ s.endAt = IF starting \/ IsWork(m) THEN Later(r.endAt, m.at) ELSE r.endAt
             /\ s.messages = r.messages + 1 /\ s.humanLast = starting
<1>1. m.block \in Blocks /\ m.at \in Nat
  BY DEF SessionRows
<1>2. PICK t \in RoundRecords : t = ReadBlock(r, m.block, m.at)
  BY <1>1, ReadBlockTyped
<1>3. /\ t.index = r.index /\ t.startAt = r.startAt /\ t.endAt = r.endAt /\ t.lastAt = r.lastAt
      /\ t.messages = r.messages /\ t.humanLast = r.humanLast /\ t.replied = r.replied
  BY <1>1, <1>2, BlockLeaves
<1>4. PICK l : l = Later(t.lastAt, m.at)
  OBVIOUS
<1>5. PICK e : e = IF starting \/ IsWork(m) THEN Later(t.endAt, m.at) ELSE t.endAt
  OBVIOUS
<1>6. PICK y : y = (t.replied \/ (m.role = "assistant" /\ m.words # "none"))
  OBVIOUS
<1>7. ReadRow(r, m, starting) = [t EXCEPT !.messages = @ + 1, !.lastAt = l, !.humanLast = starting, !.endAt = e, !.replied = y]
  BY <1>2, <1>4, <1>5, <1>6, Zenon DEF ReadRow
<1>8. PICK s : s = [t EXCEPT !.messages = @ + 1, !.lastAt = l, !.humanLast = starting, !.endAt = e, !.replied = y]
  OBVIOUS
<1>9. s.index = t.index /\ s.startAt = t.startAt /\ s.lastAt = l /\ s.endAt = e /\ s.messages = t.messages + 1 /\ s.humanLast = starting
  BY <1>8 DEF RoundRecords
<1>10. s \in RoundRecords
  BY <1>7, <1>8, ReadRowTyped
<1> QED  BY <1>3, <1>4, <1>5, <1>7, <1>8, <1>9, <1>10, Zenon

\* The span of round k after n rows: it begins with a row of the round and ends
\* with one, and has all of them.
SpanOf(read, n, k, r) ==
  /\ r.lastAt # NoTime /\ r.startAt # NoTime
  /\ \E j \in 1..n : Len(ReadUpTo(read)[j]) = k /\ read[j].at = r.lastAt
  /\ \E j \in 1..n : Len(ReadUpTo(read)[j]) = k /\ read[j].at = r.startAt
  /\ \A i \in 1..n : Len(ReadUpTo(read)[i]) = k /\ read[i].at # NoTime => r.startAt <= read[i].at /\ read[i].at <= r.lastAt

LEMMA SpanStays ==
  ASSUME NEW read, NEW n \in Nat, NEW k, NEW r, SpanOf(read, n - 1, k, r),
         Len(ReadUpTo(read)[n]) # k \/ read[n].at = NoTime
  PROVE  SpanOf(read, n, k, r)
<1>1. \A i \in 1..n : i = n \/ i \in 1..(n - 1)
  OBVIOUS
<1>2. \A i \in 1..(n - 1) : i \in 1..n
  OBVIOUS
<1> QED  BY <1>1, <1>2, Zenon DEF SpanOf

LEMMA SpansOfRounds ==
  ASSUME NEW read \in Seq(SessionRows), Timely(read)
  PROVE  \A n \in 0..Len(read) : \A k \in 1..Len(ReadUpTo(read)[n]) : SpanOf(read, n, k, ReadUpTo(read)[n][k])
<1> DEFINE Good == {n \in 0..Len(read) : \A k \in 1..Len(ReadUpTo(read)[n]) : SpanOf(read, n, k, ReadUpTo(read)[n][k])}
<1>0. Len(read) \in Nat /\ 0 \in 0..Len(read)
  OBVIOUS
<1>1. 0 \in Good
  <2>1. Len(ReadUpTo(read)[0]) = 0
    BY ReadSteps
  <2> QED  BY <1>0, <2>1
<1>2. ASSUME NEW n \in 1..Len(read), n - 1 \in Good PROVE n \in Good
  <2>1. PICK raw \in Seq(RoundRecords) : raw = ReadUpTo(read)[n - 1]
    BY NextOf
  <2>2. PICK now \in Seq(RoundRecords) : now = ReadUpTo(read)[n]
    BY NextOf
  <2>3. PICK m \in SessionRows : m = read[n]
    OBVIOUS
  <2>4. now = NextRow(raw, m) /\ Len(now) = Len(raw) + (IF IsRoundStart(m) THEN 1 ELSE 0)
    BY <2>1, <2>2, <2>3, NextOf
  <2>5. \A k \in 1..Len(raw) : SpanOf(read, n - 1, k, raw[k])
    BY <1>2, <2>1
  <2>6. \A k \in 1..Len(raw) : k < Len(raw) \/ IsRoundStart(m) => now[k] = raw[k]
    BY <2>4, OnlyLastChanges
  <2>7. Len(raw) \in Nat /\ Len(now) \in Nat /\ n \in Nat /\ m.at \in Nat
    BY <2>3 DEF SessionRows
  <2>8. ASSUME NEW k \in 1..Len(raw), k < Len(raw) \/ IsRoundStart(m) PROVE SpanOf(read, n, k, now[k])
    <3>1. now[k] = raw[k] /\ Len(ReadUpTo(read)[n]) # k /\ SpanOf(read, n - 1, k, raw[k])
      BY <2>2, <2>4, <2>5, <2>6, <2>7, <2>8
    <3> QED  BY <2>7, <3>1, SpanStays
  <2>9. CASE IsRoundStart(m)
    <3>1. PICK z \in RoundRecords : z = NewRound(Len(raw) + 1, m.at)
      BY <2>7, NewRoundTyped
    <3>2. PICK r \in RoundRecords : r = ReadRow(z, m, TRUE)
      BY ReadRowTyped
    <3>3. r.startAt = z.startAt /\ r.lastAt = Later(z.lastAt, m.at)
      BY <3>2, RowTimes
    <3>4. m.at # NoTime
      BY <2>3, <2>9 DEF Timely
    <3>5. r.startAt = m.at /\ r.lastAt = m.at
      BY <3>1, <3>3, <3>4 DEF NewRound, Later
    <3>6. now = Append(raw, r)
      BY <2>4, <2>9, <3>1, <3>2 DEF NextRow
    <3>7. now[Len(raw) + 1] = r
      BY <3>6
    <3>8. ASSUME NEW i \in 1..(n - 1) PROVE Len(ReadUpTo(read)[i]) # Len(raw) + 1
      <4>1. i \in 0..Len(read) /\ n - 1 \in i..Len(read)
        OBVIOUS
      <4>2. Len(ReadUpTo(read)[i]) <= Len(raw)
        BY <2>1, <4>1, RoundsGrow
      <4>3. Len(ReadUpTo(read)[i]) \in Nat
        BY <4>1, ReadSteps
      <4> QED  BY <2>7, <4>2, <4>3
    <3>9. \A i \in 1..n : i = n \/ i \in 1..(n - 1)
      BY <2>7
    <3>10. n \in 1..n /\ m.at <= m.at /\ Len(ReadUpTo(read)[n]) = Len(raw) + 1
      BY <2>2, <2>4, <2>7, <2>9
    <3>11. SpanOf(read, n, Len(raw) + 1, r)
      BY <2>3, <3>4, <3>5, <3>8, <3>9, <3>10, Zenon DEF SpanOf
    <3>12. \A k \in 1..Len(now) : SpanOf(read, n, k, now[k])
      <4>1. \A k \in 1..Len(now) : k = Len(raw) + 1 \/ k \in 1..Len(raw)
        BY <2>4, <2>7, <2>9
      <4> QED  BY <2>8, <2>9, <3>7, <3>11, <4>1, Zenon
    <3> QED  BY <1>0, <2>2, <3>12
  <2>10. CASE ~IsRoundStart(m) /\ raw = <<>>
    <3>1. Len(now) = 0
      BY <2>4, <2>10
    <3> QED  BY <2>2, <3>1
  <2>11. CASE ~IsRoundStart(m) /\ raw # <<>>
    <3>1. Len(raw) \in 1..Len(raw) /\ Len(now) = Len(raw)
      BY <2>4, <2>7, <2>11
    <3>2. PICK z \in RoundRecords : z = raw[Len(raw)]
      BY <3>1
    <3>3. PICK r \in RoundRecords : r = ReadRow(z, m, FALSE)
      BY ReadRowTyped
    <3>4. r.startAt = z.startAt /\ r.lastAt = Later(z.lastAt, m.at)
      BY <3>3, RowTimes
    <3>5. now = [raw EXCEPT ![Len(raw)] = r]
      BY <2>4, <2>11, <3>2, <3>3, Zenon DEF NextRow
    <3>6. now[Len(raw)] = r
      BY <3>1, <3>5
    <3>7. SpanOf(read, n - 1, Len(raw), z)
      BY <2>5, <3>1, <3>2
    <3>8. SpanOf(read, n, Len(raw), r)
      <4>1. CASE m.at = NoTime
        <5>1. r.lastAt = z.lastAt
          BY <3>4, <4>1 DEF Later
        <5>2. SpanOf(read, n - 1, Len(raw), r)
          BY <3>4, <3>7, <5>1, Zenon DEF SpanOf
        <5> QED  BY <2>3, <2>7, <4>1, <5>2, SpanStays
      <4>2. CASE m.at # NoTime
        <5>1. r.lastAt = m.at
          BY <3>4, <4>2 DEF Later
        <5>2. PICK j \in 1..(n - 1) : Len(ReadUpTo(read)[j]) = Len(raw) /\ read[j].at = z.startAt /\ z.startAt # NoTime
          BY <3>7, Zenon DEF SpanOf
        <5>3. ASSUME NEW i \in 1..(n - 1), read[i].at # NoTime PROVE read[i].at <= m.at
          <6>1. i \in 1..Len(read) /\ i < n
            OBVIOUS
          <6> QED  BY <2>3, <4>2, <5>3, <6>1 DEF Timely
        <5>4. \A i \in 1..n : i = n \/ i \in 1..(n - 1)
          BY <2>7
        <5>5. n \in 1..n /\ m.at <= m.at /\ Len(ReadUpTo(read)[n]) = Len(raw) /\ j \in 1..n /\ z.startAt <= m.at
          BY <2>2, <2>7, <3>1, <5>2, <5>3
        <5>6. \A i \in 1..(n - 1) : Len(ReadUpTo(read)[i]) = Len(raw) /\ read[i].at # NoTime => z.startAt <= read[i].at
          BY <3>7, Zenon DEF SpanOf
        <5> QED  BY <2>3, <3>4, <4>2, <5>1, <5>2, <5>3, <5>4, <5>5, <5>6, Zenon DEF SpanOf
      <4> QED  BY <4>1, <4>2
    <3>9. \A k \in 1..Len(now) : SpanOf(read, n, k, now[k])
      <4>1. \A k \in 1..Len(now) : k = Len(raw) \/ (k \in 1..Len(raw) /\ k < Len(raw))
        BY <2>7, <3>1
      <4> QED  BY <2>8, <3>6, <3>8, <4>1, Zenon
    <3> QED  BY <1>0, <2>2, <3>9
  <2> QED  BY <2>9, <2>10, <2>11
<1> HIDE DEF Good
<1>3. \A n \in 0..Len(read) : n \in Good
  BY <1>0, <1>1, <1>2, UpTo
<1> QED  BY <1>3 DEF Good

LEMMA MinIs ==
  ASSUME NEW S \in SUBSET Nat, S # {}
  PROVE  Min(S) \in S /\ \A x \in S : Min(S) <= x
<1>1. PICK x \in S : \A y \in S : x <= y
  BY LeastOf
<1> QED  BY <1>1 DEF Min

\* The rows that have a round, and which.
LEMMA RoundOfIs ==
  ASSUME rows \in Seq(SessionRows), NEW i \in DOMAIN rows
  PROVE  /\ i \in 1..Len(rows) /\ RoundOf(i) = Len(ReadUpTo(rows)[i]) /\ RoundOf(i) \in Nat
         /\ i \in Grouped <=> RoundOf(i) # 0
<1>1. i \in 1..Len(rows) /\ i \in 0..Len(rows) /\ Len(rows) \in Nat /\ DOMAIN rows = 1..Len(rows)
  OBVIOUS
<1>2. {a \in Asks : a <= i} = AsksTo(rows, i)
  BY <1>1 DEF Asks, AsksTo
<1>3. IsFiniteSet(AsksTo(rows, i)) /\ Cardinality(AsksTo(rows, i)) = Len(ReadUpTo(rows)[i])
  BY <1>1, RoundsAreAsks
<1>4. RoundOf(i) = Len(ReadUpTo(rows)[i]) /\ RoundOf(i) \in Nat
  BY <1>2, <1>3, FS_CardinalityType DEF RoundOf
<1>5. Cardinality(AsksTo(rows, i)) = 0 <=> AsksTo(rows, i) = {}
  BY <1>3, FS_EmptySet
<1>6. i \in Grouped <=> AsksTo(rows, i) # {}
  <2>1. i \in Grouped <=> \E a \in Asks : a <= i
    BY DEF Grouped
  <2> QED  BY <1>2, <2>1
<1> QED  BY <1>1, <1>3, <1>4, <1>5, <1>6

\* A round as splitRounds returns it.
LEMMA RoundIs ==
  ASSUME rows \in Seq(SessionRows)
  PROVE  /\ DOMAIN Rounds = 1..Len(ReadUpTo(rows)[Len(rows)]) /\ Len(Rounds) = Len(ReadUpTo(rows)[Len(rows)])
         /\ Len(Rounds) \in Nat
         /\ \A k \in DOMAIN Rounds :
              LET raw == ReadUpTo(rows)[Len(rows)][k]
              IN  /\ raw \in RoundRecords /\ Rounds[k] = [raw EXCEPT !.interrupted = @ \/ raw.humanLast]
                  /\ Rounds[k] \in RoundRecords
                  /\ Rounds[k].startAt = raw.startAt /\ Rounds[k].lastAt = raw.lastAt /\ Rounds[k].endAt = raw.endAt
                  /\ Rounds[k].messages = raw.messages /\ Rounds[k].failures = raw.failures
                  /\ Rounds[k].changed = raw.changed /\ Rounds[k].pending = raw.pending
<1>1. PICK raw \in Seq(RoundRecords) : raw = ReadUpTo(rows)[Len(rows)]
  BY SplitIs
<1>2. DOMAIN Rounds = 1..Len(raw) /\ Len(Rounds) = Len(raw) /\ Len(raw) \in Nat
  BY <1>1, SplitIs DEF Rounds
<1>3. ASSUME NEW k \in DOMAIN Rounds
      PROVE  /\ raw[k] \in RoundRecords /\ Rounds[k] = [raw[k] EXCEPT !.interrupted = @ \/ raw[k].humanLast]
             /\ Rounds[k] \in RoundRecords
             /\ Rounds[k].startAt = raw[k].startAt /\ Rounds[k].lastAt = raw[k].lastAt /\ Rounds[k].endAt = raw[k].endAt
             /\ Rounds[k].messages = raw[k].messages /\ Rounds[k].failures = raw[k].failures
             /\ Rounds[k].changed = raw[k].changed /\ Rounds[k].pending = raw[k].pending
  <2>1. PICK r \in RoundRecords : r = raw[k]
    BY <1>2
  <2>2. k \in 1..Len(ReadUpTo(rows)[Len(rows)])
    BY <1>1, <1>2
  <2>3. Rounds[k] = [r EXCEPT !.interrupted = @ \/ r.humanLast]
    BY <1>1, <2>1, <2>2, SplitIs DEF Rounds
  <2>4. PICK b \in BOOLEAN : b = (r.interrupted \/ r.humanLast)
    OBVIOUS
  <2>5. Rounds[k] = [r EXCEPT !.interrupted = b]
    BY <2>3, <2>4, Zenon
  <2>6. PICK s : s = [r EXCEPT !.interrupted = b]
    OBVIOUS
  <2>7. /\ s \in RoundRecords
        /\ s.startAt = r.startAt /\ s.lastAt = r.lastAt /\ s.endAt = r.endAt
        /\ s.messages = r.messages /\ s.failures = r.failures
        /\ s.changed = r.changed /\ s.pending = r.pending
    BY <2>6 DEF RoundRecords
  <2> QED  BY <2>1, <2>3, <2>5, <2>6, <2>7, Zenon
<1> QED  BY <1>1, <1>2, <1>3, Zenon

\* Each round's span, in the session.
LEMMA SpansHold ==
  ASSUME SessionTypes, TimesGrow, NEW k \in DOMAIN Rounds
  PROVE  /\ k \in Nat /\ Rounds[k].startAt \in Nat /\ Rounds[k].lastAt \in Nat
         /\ Rounds[k].startAt # NoTime /\ Rounds[k].lastAt # NoTime /\ SpanEnd(Rounds[k]) = Rounds[k].lastAt
         /\ \E j \in Grouped : RoundOf(j) = k /\ rows[j].at = Rounds[k].lastAt
         /\ \A i \in Grouped : RoundOf(i) = k /\ rows[i].at # NoTime =>
              Rounds[k].startAt <= rows[i].at /\ rows[i].at <= Rounds[k].lastAt
<1>1. rows \in Seq(SessionRows) /\ Timely(rows)
  BY DEF SessionTypes, TimesGrow
<1>2. PICK n \in 0..Len(rows) : n = Len(rows)
  BY <1>1
<1>3. PICK r : r = Rounds[k]
  OBVIOUS
<1>4. PICK raw : raw = ReadUpTo(rows)[n][k]
  OBVIOUS
<1>5. r \in RoundRecords /\ raw \in RoundRecords /\ r.startAt = raw.startAt /\ r.lastAt = raw.lastAt
  BY <1>1, <1>2, <1>3, <1>4, RoundIs
<1>6. k \in 1..Len(ReadUpTo(rows)[n]) /\ DOMAIN rows = 1..n /\ k \in Nat /\ k # 0
  BY <1>1, <1>2, RoundIs
<1>7. SpanOf(rows, n, k, raw)
  BY <1>1, <1>4, <1>6, SpansOfRounds
<1>8. r.startAt \in Nat /\ r.lastAt \in Nat
  BY <1>5 DEF RoundRecords
<1>9. r.startAt # NoTime /\ r.lastAt # NoTime
  BY <1>5, <1>7 DEF SpanOf
<1>10. \A i \in 1..n : RoundOf(i) = Len(ReadUpTo(rows)[i]) /\ (i \in Grouped <=> RoundOf(i) # 0)
  BY <1>1, <1>6, RoundOfIs
<1>11. \E j \in Grouped : RoundOf(j) = k /\ rows[j].at = r.lastAt
  <2>1. PICK j \in 1..n : Len(ReadUpTo(rows)[j]) = k /\ rows[j].at = raw.lastAt
    BY <1>7 DEF SpanOf
  <2> QED  BY <1>5, <1>6, <1>10, <2>1
<1>12. ASSUME NEW i \in Grouped, RoundOf(i) = k, rows[i].at # NoTime
       PROVE  r.startAt <= rows[i].at /\ rows[i].at <= r.lastAt
  <2>1. i \in 1..n
    BY <1>6 DEF Grouped
  <2>2. Len(ReadUpTo(rows)[i]) = k
    BY <1>10, <1>12, <2>1
  <2> QED  BY <1>5, <1>7, <1>12, <2>1, <2>2 DEF SpanOf
<1> QED  BY <1>3, <1>6, <1>8, <1>9, <1>11, <1>12 DEF SpanEnd

LEMMA GroupedIs ==
  ASSUME SessionTypes, NEW i \in Grouped
  PROVE  i \in 1..Len(rows) /\ rows[i].at \in Nat /\ RoundOf(i) \in DOMAIN Rounds
<1>1. rows \in Seq(SessionRows)
  BY DEF SessionTypes
<1>2. i \in DOMAIN rows
  BY DEF Grouped
<1>3. i \in 1..Len(rows) /\ RoundOf(i) = Len(ReadUpTo(rows)[i]) /\ RoundOf(i) \in Nat /\ RoundOf(i) # 0
  BY <1>1, <1>2, RoundOfIs
<1>4. i \in 0..Len(rows) /\ Len(rows) \in i..Len(rows)
  BY <1>1, <1>3
<1>5. Len(ReadUpTo(rows)[i]) <= Len(ReadUpTo(rows)[Len(rows)])
  BY <1>1, <1>4, RoundsGrow
<1>6. DOMAIN Rounds = 1..Len(ReadUpTo(rows)[Len(rows)]) /\ Len(ReadUpTo(rows)[Len(rows)]) \in Nat
  BY <1>1, RoundIs
<1>7. RoundOf(i) \in DOMAIN Rounds
  BY <1>3, <1>5, <1>6
<1> QED  BY <1>1, <1>3, <1>7, TimesTyped

LEMMA HitsResolve == ASSUME SessionTypes, TimesGrow PROVE HitResolves
<1> SUFFICES ASSUME NEW i \in Grouped, rows[i].at # NoTime
             PROVE  \E j \in Grouped : rows[j].at = rows[i].at /\ RoundOf(j) = RoundAt(Rounds, rows[i].at)
  BY DEF HitResolves
<1>1. i \in 1..Len(rows) /\ rows[i].at \in Nat /\ RoundOf(i) \in DOMAIN Rounds
  BY GroupedIs
<1>2. PICK when \in Nat : when = rows[i].at
  BY <1>1
<1> DEFINE Holding == {k \in DOMAIN Rounds : /\ Rounds[k].startAt # NoTime
                                             /\ Rounds[k].startAt <= when /\ when <= SpanEnd(Rounds[k])}
<1>3. RoundOf(i) \in Holding
  BY <1>1, <1>2, SpansHold
<1>4. Holding \subseteq Nat
  BY SpansHold
<1>5. PICK k \in Holding : k = Min(Holding) /\ \A l \in Holding : k <= l
  <2> HIDE DEF Holding
  <2> QED  BY <1>3, <1>4, MinIs
<1>6. RoundAt(Rounds, when) = k
  BY <1>3, <1>5 DEF RoundAt
<1>7. k \in DOMAIN Rounds /\ Rounds[k].startAt <= when /\ when <= Rounds[k].lastAt /\ k <= RoundOf(i)
  BY <1>3, <1>5, SpansHold
<1>8. CASE k = RoundOf(i)
  BY <1>2, <1>6, <1>8
<1>9. CASE k # RoundOf(i)
  <2>1. PICK j \in Grouped : RoundOf(j) = k /\ rows[j].at = Rounds[k].lastAt /\ Rounds[k].lastAt # NoTime
    BY <1>7, SpansHold
  <2>2. j \in 1..Len(rows) /\ rows[j].at \in Nat
    BY GroupedIs
  <2>3. j < i
    <3>1. CASE i <= j
      <4>1. i \in 0..Len(rows) /\ j \in i..Len(rows)
        BY <1>1, <2>2, <3>1
      <4>2. rows \in Seq(SessionRows) /\ i \in DOMAIN rows /\ j \in DOMAIN rows
        BY <1>1, <2>2 DEF SessionTypes
      <4>3. RoundOf(i) <= RoundOf(j) /\ RoundOf(i) \in Nat /\ RoundOf(j) \in Nat
        BY <4>1, <4>2, RoundsGrow, RoundOfIs
      <4> QED  BY <1>7, <1>9, <2>1, <4>3
    <3> QED  BY <1>1, <2>2, <3>1
  <2>4. rows[j].at <= when
    BY <1>1, <1>2, <2>1, <2>2, <2>3 DEF TimesGrow, Timely
  <2>5. rows[j].at = when
    BY <1>7, <2>1, <2>2, <2>4
  <2> QED  BY <1>2, <1>6, <2>1, <2>5
<1> QED  BY <1>8, <1>9

LEMMA SinceTells == ASSUME SessionTypes, TimesGrow PROVE SinceIsTheDelta
<1> SUFFICES ASSUME NEW cut \in 1..(Now + 1)
             PROVE  RoundsSince(Rounds, cut) = {RoundOf(i) : i \in {j \in Grouped : cut <= rows[j].at}}
  BY DEF SinceIsTheDelta
<1>0. cut \in Nat /\ cut >= 1
  BY NowIs DEF SessionTypes
<1>1. ASSUME NEW k \in RoundsSince(Rounds, cut)
      PROVE  k \in {RoundOf(i) : i \in {j \in Grouped : cut <= rows[j].at}}
  <2>1. k \in DOMAIN Rounds /\ (SpanEnd(Rounds[k]) = NoTime \/ cut <= SpanEnd(Rounds[k]))
    BY DEF RoundsSince
  <2>2. PICK j \in Grouped : RoundOf(j) = k /\ rows[j].at = Rounds[k].lastAt
    BY <2>1, SpansHold
  <2>3. cut <= rows[j].at
    BY <2>1, <2>2, SpansHold
  <2> QED  BY <2>2, <2>3
<1>2. ASSUME NEW i \in Grouped, cut <= rows[i].at PROVE RoundOf(i) \in RoundsSince(Rounds, cut)
  <2>1. i \in 1..Len(rows) /\ rows[i].at \in Nat /\ RoundOf(i) \in DOMAIN Rounds
    BY GroupedIs
  <2>2. rows[i].at # NoTime
    BY <1>0, <1>2 DEF NoTime
  <2>3. SpanEnd(Rounds[RoundOf(i)]) \in Nat /\ rows[i].at <= SpanEnd(Rounds[RoundOf(i)])
    BY <2>1, <2>2, SpansHold
  <2>4. cut <= SpanEnd(Rounds[RoundOf(i)])
    BY <1>0, <1>2, <2>1, <2>3
  <2> QED  BY <2>1, <2>4 DEF RoundsSince
<1> QED  BY <1>1, <1>2

\* A round told as the round so many later.
Shifted(r, d) == [r EXCEPT !.index = @ + d]

LEMMA ShiftedTyped ==
  ASSUME NEW r \in RoundRecords, NEW d \in Nat
  PROVE  Shifted(r, d) \in RoundRecords
<1>1. PICK i \in Nat : i = r.index + d
  BY DEF RoundRecords
<1>2. [r EXCEPT !.index = i] \in RoundRecords
  BY DEF RoundRecords
<1> QED  BY <1>1, <1>2 DEF Shifted

LEMMA NoteShifted ==
  ASSUME NEW r \in RoundRecords, NEW d \in Nat, NEW b \in Blocks
  PROVE  NoteWrite(Shifted(r, d), b) = Shifted(NoteWrite(r, b), d)
<1>4. PICK w : w = ServerWrites(b)
  OBVIOUS
<1>1. ASSUME NEW c PROVE Shifted([r EXCEPT !.changed = c], d) = [Shifted(r, d) EXCEPT !.changed = c]
  BY DEF Shifted, RoundRecords
<1>2. ASSUME NEW c PROVE Shifted([r EXCEPT !.pending = c], d) = [Shifted(r, d) EXCEPT !.pending = c]
  BY DEF Shifted, RoundRecords
<1>3. Shifted(r, d).changed = r.changed /\ Shifted(r, d).pending = r.pending
  BY DEF Shifted, RoundRecords
<1> QED  BY <1>1, <1>2, <1>3, <1>4, Zenon DEF NoteWrite

LEMMA SettleShifted ==
  ASSUME NEW r \in RoundRecords, NEW d \in Nat, NEW b \in Blocks
  PROVE  SettleWrite(Shifted(r, d), b) = Shifted(SettleWrite(r, b), d)
<1>3. Shifted(r, d).changed = r.changed /\ Shifted(r, d).pending = r.pending
  BY DEF Shifted, RoundRecords
<1>4. PICK due : due = {p \in r.pending : p.id = b.id}
  OBVIOUS
<1>5. PICK p : p = r.pending \ due
  OBVIOUS
<1>6. PICK c : c = IF b.failed THEN r.changed ELSE r.changed \cup Awaited(due)
  OBVIOUS
<1>7. SettleWrite(r, b) = [r EXCEPT !.pending = p, !.changed = c]
  BY <1>4, <1>5, <1>6, Zenon DEF SettleWrite
<1>8. SettleWrite(Shifted(r, d), b) = [Shifted(r, d) EXCEPT !.pending = p, !.changed = c]
  BY <1>3, <1>4, <1>5, <1>6, Zenon DEF SettleWrite
<1>9. Shifted([r EXCEPT !.pending = p, !.changed = c], d) = [Shifted(r, d) EXCEPT !.pending = p, !.changed = c]
  BY DEF Shifted, RoundRecords
<1> QED  BY <1>7, <1>8, <1>9

LEMMA BlockShifted ==
  ASSUME NEW r \in RoundRecords, NEW d \in Nat, NEW b \in Blocks, NEW when \in Nat
  PROVE  ReadBlock(Shifted(r, d), b, when) = Shifted(ReadBlock(r, b, when), d)
<1>1. ReadCall(Shifted(r, d), b) = Shifted(ReadCall(r, b), d)
  <2>1. PICK n \in Nat : n = r.toolCalls + 1
    BY DEF RoundRecords
  <2>2. PICK f \in SUBSET Files : f = r.files \cup b.files
    BY DEF RoundRecords, Blocks
  <2>3. PICK t : t = [r EXCEPT !.toolCalls = n, !.files = f]
    OBVIOUS
  <2>4. t \in RoundRecords
    BY <2>3 DEF RoundRecords
  <2>5. Shifted(r, d).toolCalls = r.toolCalls /\ Shifted(r, d).files = r.files
    BY DEF Shifted, RoundRecords
  <2>6. [Shifted(r, d) EXCEPT !.toolCalls = n, !.files = f] = Shifted(t, d)
    BY <2>3 DEF Shifted, RoundRecords
  <2>7. ReadCall(r, b) = NoteWrite(t, b)
    BY <2>1, <2>2, <2>3, Zenon DEF ReadCall
  <2>8. ReadCall(Shifted(r, d), b) = NoteWrite(Shifted(t, d), b)
    BY <2>1, <2>2, <2>5, <2>6, Zenon DEF ReadCall
  <2> QED  BY <2>4, <2>7, <2>8, NoteShifted
<1>2. ReadResult(Shifted(r, d), b, when) = Shifted(ReadResult(r, b, when), d)
  <2>1. PICK n \in Nat : n = r.failures + 1
    BY DEF RoundRecords
  <2>2. PICK old \in Seq(Nat) : old = r.failed
    BY DEF RoundRecords
  <2>3. PICK f \in Seq(Nat) : f = Append(old, when)
    BY OneAppended
  <2>4. PICK t : t = IF b.failed THEN [r EXCEPT !.failures = n, !.failed = f] ELSE r
    OBVIOUS
  <2>5. t \in RoundRecords
    BY <2>4 DEF RoundRecords
  <2>6. ReadResult(r, b, when) = SettleWrite(t, b)
    BY <2>1, <2>2, <2>3, <2>4, Zenon DEF ReadResult
  <2>7. Shifted(r, d).failures = r.failures /\ Shifted(r, d).failed = r.failed
    BY DEF Shifted, RoundRecords
  <2>8. [Shifted(r, d) EXCEPT !.failures = n, !.failed = f] = Shifted([r EXCEPT !.failures = n, !.failed = f], d)
    BY DEF Shifted, RoundRecords
  <2>9. Shifted(t, d) = IF b.failed THEN [Shifted(r, d) EXCEPT !.failures = n, !.failed = f] ELSE Shifted(r, d)
    BY <2>4, <2>8, Zenon
  <2>10. ReadResult(Shifted(r, d), b, when) = SettleWrite(Shifted(t, d), b)
    BY <2>1, <2>2, <2>3, <2>7, <2>9, Zenon DEF ReadResult
  <2> QED  BY <2>5, <2>6, <2>10, SettleShifted
<1>3. [Shifted(r, d) EXCEPT !.interrupted = TRUE] = Shifted([r EXCEPT !.interrupted = TRUE], d)
  BY DEF Shifted, RoundRecords
<1> QED  BY <1>1, <1>2, <1>3, Zenon DEF ReadBlock

LEMMA RowShifted ==
  ASSUME NEW r \in RoundRecords, NEW d \in Nat, NEW m \in SessionRows, NEW starting \in BOOLEAN
  PROVE  ReadRow(Shifted(r, d), m, starting) = Shifted(ReadRow(r, m, starting), d)
<1>1. m.block \in Blocks /\ m.at \in Nat
  BY DEF SessionRows
<1>2. PICK t \in RoundRecords : t = ReadBlock(r, m.block, m.at)
  BY <1>1, ReadBlockTyped
<1>3. PICK u \in RoundRecords : u = Shifted(t, d)
  BY ShiftedTyped
<1>4. ReadBlock(Shifted(r, d), m.block, m.at) = u
  BY <1>1, <1>2, <1>3, BlockShifted
<1>5. u.messages = t.messages /\ u.lastAt = t.lastAt /\ u.endAt = t.endAt /\ u.replied = t.replied
  BY <1>3 DEF Shifted, RoundRecords
<1>6. PICK l : l = Later(t.lastAt, m.at)
  OBVIOUS
<1>7. PICK e : e = IF starting \/ IsWork(m) THEN Later(t.endAt, m.at) ELSE t.endAt
  OBVIOUS
<1>8. PICK y : y = (t.replied \/ (m.role = "assistant" /\ m.words # "none"))
  OBVIOUS
<1>9. PICK n : n = t.messages + 1
  OBVIOUS
<1>10. ReadRow(r, m, starting) = [t EXCEPT !.messages = n, !.lastAt = l, !.humanLast = starting, !.endAt = e, !.replied = y]
  BY <1>2, <1>6, <1>7, <1>8, <1>9, Zenon DEF ReadRow
<1>11. ReadRow(Shifted(r, d), m, starting) = [u EXCEPT !.messages = n, !.lastAt = l, !.humanLast = starting, !.endAt = e, !.replied = y]
  BY <1>4, <1>5, <1>6, <1>7, <1>8, <1>9, Zenon DEF ReadRow
<1>12. Shifted([t EXCEPT !.messages = n, !.lastAt = l, !.humanLast = starting, !.endAt = e, !.replied = y], d)
       = [u EXCEPT !.messages = n, !.lastAt = l, !.humanLast = starting, !.endAt = e, !.replied = y]
  BY <1>3 DEF Shifted, RoundRecords
<1> QED  BY <1>10, <1>11, <1>12, Zenon

\* Rows told to somebody who has read nothing, and to somebody who has read to
\* the row before: the same rounds, but for those the second has besides.
SameRounds(few, many, d) ==
  /\ Len(many) = Len(few) + d
  /\ \A k \in 1..Len(few) : many[k + d] = Shifted(few[k], d)

LEMMA RowToBoth ==
  ASSUME NEW few \in Seq(RoundRecords), NEW many \in Seq(RoundRecords), NEW d \in Nat, NEW m \in SessionRows,
         SameRounds(few, many, d)
  PROVE  SameRounds(NextRow(few, m), NextRow(many, m), d)
<1>0. Len(many) = Len(few) + d /\ Len(few) \in Nat /\ Len(many) \in Nat /\ m.at \in Nat
  BY DEF SameRounds, SessionRows
<1>1. \A k \in 1..Len(few) : many[k + d] = Shifted(few[k], d)
  BY DEF SameRounds
<1>2. PICK f \in Seq(RoundRecords) : f = NextRow(few, m)
  BY NextRowTyped
<1>3. PICK g \in Seq(RoundRecords) : g = NextRow(many, m)
  BY NextRowTyped
<1>4. /\ Len(f) = Len(few) + (IF IsRoundStart(m) THEN 1 ELSE 0)
      /\ Len(g) = Len(many) + (IF IsRoundStart(m) THEN 1 ELSE 0)
      /\ \A k \in 1..Len(few) : k < Len(few) \/ IsRoundStart(m) => f[k] = few[k]
      /\ \A k \in 1..Len(many) : k < Len(many) \/ IsRoundStart(m) => g[k] = many[k]
  BY <1>2, <1>3, OnlyLastChanges
<1>5. Len(g) = Len(f) + d
  BY <1>0, <1>4
<1>6. ASSUME NEW k \in 1..Len(few), k < Len(few) \/ IsRoundStart(m) PROVE g[k + d] = Shifted(f[k], d)
  <2>1. k + d \in 1..Len(many) /\ (k + d < Len(many) \/ IsRoundStart(m))
    BY <1>0, <1>6
  <2>2. g[k + d] = many[k + d] /\ f[k] = few[k] /\ many[k + d] = Shifted(few[k], d)
    BY <1>1, <1>4, <1>6, <2>1
  <2> QED  BY <2>2
<1>7. CASE IsRoundStart(m)
  <2>1. PICK z \in RoundRecords : z = NewRound(Len(few) + 1, m.at)
    BY <1>0, NewRoundTyped
  <2>2. PICK w \in RoundRecords : w = NewRound(Len(many) + 1, m.at)
    BY <1>0, NewRoundTyped
  <2>3. w = Shifted(z, d)
    <3>1. PICK i \in Nat : i = Len(few) + 1
      BY <1>0
    <3>2. Len(many) + 1 = i + d
      BY <1>0, <3>1
    <3>4. PICK j : j = i + d
      OBVIOUS
    <3>5. w = NewRound(j, m.at) /\ z = NewRound(i, m.at)
      BY <2>1, <2>2, <3>1, <3>2, <3>4
    <3>6. /\ w.index = j /\ w.startAt = z.startAt /\ w.endAt = z.endAt /\ w.lastAt = z.lastAt /\ w.messages = z.messages
          /\ w.toolCalls = z.toolCalls /\ w.failures = z.failures /\ w.failed = z.failed /\ w.files = z.files
          /\ w.changed = z.changed /\ w.pending = z.pending /\ w.interrupted = z.interrupted
          /\ w.replied = z.replied /\ w.humanLast = z.humanLast /\ z.index = i
      BY <3>5 DEF NewRound
    <3>7. w = [z EXCEPT !.index = j]
      BY <3>6 DEF RoundRecords
    <3> QED  BY <3>4, <3>6, <3>7 DEF Shifted
  <2>4. PICK r \in RoundRecords : r = ReadRow(z, m, TRUE)
    BY ReadRowTyped
  <2>5. ReadRow(w, m, TRUE) = Shifted(r, d)
    BY <2>3, <2>4, RowShifted
  <2>6. f = Append(few, r) /\ g = Append(many, Shifted(r, d))
    BY <1>2, <1>3, <1>7, <2>1, <2>2, <2>4, <2>5, Zenon DEF NextRow
  <2>7. f[Len(few) + 1] = r /\ g[Len(many) + 1] = Shifted(r, d)
    BY <2>6
  <2>8. \A k \in 1..Len(f) : g[k + d] = Shifted(f[k], d)
    <3> SUFFICES ASSUME NEW k \in 1..Len(f) PROVE g[k + d] = Shifted(f[k], d)
      OBVIOUS
    <3>1. CASE k \in 1..Len(few)
      BY <1>6, <1>7, <3>1
    <3>2. CASE k = Len(few) + 1
      <4>1. k + d = Len(many) + 1
        BY <1>0, <3>2
      <4> QED  BY <2>7, <3>2, <4>1
    <3> QED  BY <1>0, <1>4, <1>7, <3>1, <3>2
  <2> QED  BY <1>2, <1>3, <1>5, <2>8 DEF SameRounds
<1>8. CASE ~IsRoundStart(m) /\ few = <<>>
  <2>1. Len(f) = 0
    BY <1>4, <1>8
  <2> QED  BY <1>2, <1>3, <1>5, <2>1 DEF SameRounds
<1>9. CASE ~IsRoundStart(m) /\ few # <<>>
  <2>1. Len(few) \in 1..Len(few) /\ Len(many) \in 1..Len(many) /\ many # <<>> /\ Len(f) = Len(few)
    BY <1>0, <1>4, <1>9
  <2>2. PICK z \in RoundRecords : z = few[Len(few)]
    BY <2>1
  <2>3. PICK r \in RoundRecords : r = ReadRow(z, m, FALSE)
    BY ReadRowTyped
  <2>4. many[Len(many)] = Shifted(z, d)
    BY <1>0, <1>1, <2>1, <2>2
  <2>5. ReadRow(many[Len(many)], m, FALSE) = Shifted(r, d)
    BY <2>3, <2>4, RowShifted
  <2>6. f = [few EXCEPT ![Len(few)] = r] /\ g = [many EXCEPT ![Len(many)] = Shifted(r, d)]
    BY <1>2, <1>3, <1>9, <2>1, <2>2, <2>3, <2>5, Zenon DEF NextRow
  <2>7. f[Len(few)] = r /\ g[Len(many)] = Shifted(r, d)
    BY <2>1, <2>6
  <2>8. \A k \in 1..Len(f) : g[k + d] = Shifted(f[k], d)
    <3> SUFFICES ASSUME NEW k \in 1..Len(f) PROVE g[k + d] = Shifted(f[k], d)
      OBVIOUS
    <3>1. CASE k < Len(few)
      BY <1>6, <2>1, <3>1
    <3>2. CASE k = Len(few)
      BY <1>0, <2>7, <3>2
    <3> QED  BY <1>0, <2>1, <3>1, <3>2
  <2> QED  BY <1>2, <1>3, <1>5, <2>8 DEF SameRounds
<1> QED  BY <1>7, <1>8, <1>9

LEMMA TailTyped ==
  ASSUME NEW X, NEW s \in Seq(X), NEW n \in 1..Len(s)
  PROVE  SubSeq(s, n, Len(s)) \in Seq(X)
OBVIOUS

\* The latest rows, read alone.
LEMMA TailReads ==
  ASSUME NEW read \in Seq(SessionRows), NEW n \in 1..Len(read), NEW tail \in Seq(SessionRows),
         tail = SubSeq(read, n, Len(read))
  PROVE  \E d \in Nat : SameRounds(ReadUpTo(tail)[Len(tail)], ReadUpTo(read)[Len(read)], d)
<1>1. /\ Len(tail) = Len(read) - n + 1 /\ Len(tail) \in Nat /\ Len(read) \in Nat
      /\ \A i \in 1..Len(tail) : tail[i] = read[n - 1 + i]
  OBVIOUS
<1>0. PICK first \in Seq(RoundRecords) : first = ReadUpTo(read)[n - 1]
  BY NextOf
<1>2. PICK d \in Nat : d = Len(ReadUpTo(read)[n - 1])
  BY <1>0
<1> DEFINE Good == {i \in 0..Len(tail) : SameRounds(ReadUpTo(tail)[i], ReadUpTo(read)[n - 1 + i], d)}
<1>3. 0 \in Good
  <2>1. ReadUpTo(tail)[0] = <<>>
    BY ReadSteps
  <2>2. n - 1 + 0 = n - 1
    OBVIOUS
  <2>3. SameRounds(<<>>, ReadUpTo(read)[n - 1], d)
    BY <1>2 DEF SameRounds
  <2> QED  BY <1>1, <2>1, <2>2, <2>3
<1>4. ASSUME NEW i \in 1..Len(tail), i - 1 \in Good PROVE i \in Good
  <2>1. PICK j \in 1..Len(read) : j = n - 1 + i
    BY <1>1
  <2>2. j - 1 = n - 1 + (i - 1) /\ i \in 0..Len(tail)
    BY <2>1
  <2>3. PICK few \in Seq(RoundRecords) : few = ReadUpTo(tail)[i - 1]
    BY NextOf
  <2>4. PICK many \in Seq(RoundRecords) : many = ReadUpTo(read)[j - 1]
    BY NextOf
  <2>5. PICK m \in SessionRows : m = tail[i]
    OBVIOUS
  <2>6. SameRounds(few, many, d)
    BY <1>4, <2>2, <2>3, <2>4
  <2>7. SameRounds(NextRow(few, m), NextRow(many, m), d)
    BY <2>6, RowToBoth
  <2>8. ReadUpTo(tail)[i] = NextRow(few, m)
    BY <2>3, <2>5, NextOf
  <2>9. read[j] = m
    BY <1>1, <2>1, <2>5
  <2>10. ReadUpTo(read)[j] = NextRow(many, m)
    BY <2>4, <2>9, NextOf
  <2> QED  BY <2>1, <2>2, <2>7, <2>8, <2>10
<1> HIDE DEF Good
<1>5. \A i \in 0..Len(tail) : i \in Good
  BY <1>1, <1>3, <1>4, UpTo
<1>6. Len(tail) \in 0..Len(tail) /\ n - 1 + Len(tail) = Len(read)
  BY <1>1
<1> QED  BY <1>5, <1>6 DEF Good

LEMMA TailsKeepRounds == ASSUME SessionTypes PROVE TailKeepsRounds
<1> SUFFICES ASSUME NEW n \in DOMAIN rows
             PROVE  LET tail == SplitRounds(SubSeq(rows, n, Len(rows)))
                        skipped == Len(Rounds) - Len(tail)
                    IN  \A k \in DOMAIN tail : [tail[k] EXCEPT !.index = @ + skipped] = Rounds[k + skipped]
  BY DEF TailKeepsRounds
<1>1. rows \in Seq(SessionRows)
  BY DEF SessionTypes
<1>2. n \in 1..Len(rows)
  BY <1>1
<1>0. PICK old \in Seq(SessionRows) : old = rows
  BY <1>1
<1>3. PICK t \in Seq(SessionRows) : t = SubSeq(rows, n, Len(rows))
  <2>1. SubSeq(old, n, Len(old)) \in Seq(SessionRows)
    BY ONLY <1>0, <1>2, TailTyped
  <2> QED  BY <1>0, <2>1
<1>4. PICK few \in Seq(RoundRecords) : few = ReadUpTo(t)[Len(t)]
  BY SplitIs
<1>5. PICK many \in Seq(RoundRecords) : many = ReadUpTo(rows)[Len(rows)]
  BY <1>1, SplitIs
<1>6. PICK d \in Nat : SameRounds(few, many, d)
  BY <1>1, <1>2, <1>3, <1>4, <1>5, TailReads
<1>7. PICK tail : tail = SplitRounds(t)
  OBVIOUS
<1>8. DOMAIN tail = 1..Len(few) /\ Len(tail) = Len(few)
  BY <1>4, <1>7, SplitIs
<1>9. DOMAIN Rounds = 1..Len(many) /\ Len(Rounds) = Len(many)
  BY <1>1, <1>5, SplitIs DEF Rounds
<1>10. Len(Rounds) - Len(tail) = d
  BY <1>6, <1>8, <1>9 DEF SameRounds
<1>11. ASSUME NEW k \in DOMAIN tail PROVE [tail[k] EXCEPT !.index = @ + d] = Rounds[k + d]
  <2>1. k \in 1..Len(few) /\ k + d \in 1..Len(many)
    BY <1>6, <1>8, <1>11 DEF SameRounds
  <2>2. PICK r \in RoundRecords : r = few[k]
    BY <2>1
  <2>3. PICK s \in RoundRecords : s = Shifted(r, d)
    BY ShiftedTyped
  <2>4. many[k + d] = s
    BY <1>6, <2>1, <2>2, <2>3 DEF SameRounds
  <2>5. tail[k] = [r EXCEPT !.interrupted = @ \/ r.humanLast]
    BY <1>4, <1>7, <2>1, <2>2, SplitIs
  <2>6. Rounds[k + d] = [s EXCEPT !.interrupted = @ \/ s.humanLast]
    BY <1>1, <1>5, <2>1, <2>4, SplitIs DEF Rounds
  <2>7. s.interrupted = r.interrupted /\ s.humanLast = r.humanLast
    BY <2>3 DEF Shifted, RoundRecords
  <2>8. PICK b \in BOOLEAN : b = (r.interrupted \/ r.humanLast)
    OBVIOUS
  <2>9. tail[k] = [r EXCEPT !.interrupted = b] /\ Rounds[k + d] = [s EXCEPT !.interrupted = b]
    BY <2>5, <2>6, <2>7, <2>8, Zenon
  <2>10. [[r EXCEPT !.interrupted = b] EXCEPT !.index = @ + d] = [s EXCEPT !.interrupted = b]
    BY <2>3 DEF Shifted, RoundRecords
  <2> QED  BY <2>9, <2>10
<1> QED  BY <1>3, <1>7, <1>10, <1>11

\* The three ways to name rounds - by an instant, by a beginning, by the latest rows -
\* find the rounds that the whole session has.
THEOREM SelectionsFind == RoundsSpec => []SelectionsNameRounds
<1>1. SessionTypes /\ TimesGrow => SelectionsNameRounds
  BY HitsResolve, SinceTells, TailsKeepRounds DEF SelectionsNameRounds, TimesNameRounds
<1> QED  BY <1>1, SessionTyped, PTL

-----------------------------------------------------------------------------
(***************************************************************************)
(* The page. Its rounds are the server's, row for row, with one in front   *)
(* for what comes before the first ask.                                    *)
(***************************************************************************)

Pages == [no : Nat, ask : Nat, items : Seq(Nat)]
Steps == [kind : {"tool", "event", "note"}, call : Blocks, result : Blocks]

LEMMA PageTyped ==
  ASSUME NEW k \in Nat, NEW i \in Nat
  PROVE  [no |-> k, ask |-> i, items |-> <<>>] \in Pages
<1>1. <<>> \in Seq(Nat)
  OBVIOUS
<1> QED  BY <1>1 DEF Pages

LEMMA OneIsSeq == ASSUME NEW X, NEW x \in X PROVE <<x>> \in Seq(X) /\ <<x>> # <<>> /\ Len(<<x>>) = 1 /\ <<x>>[1] = x
OBVIOUS

LEMMA GroupTyped ==
  ASSUME NEW read \in Seq(SessionRows), NEW x \in Seq(Pages) \ {<<>>}, NEW i \in 1..Len(read)
  PROVE  Group(x, read, i) \in Seq(Pages) \ {<<>>}
<1>1. Len(x) \in Nat /\ Len(x) \in 1..Len(x) /\ i \in Nat
  OBVIOUS
<1>2. PICK p \in Pages : p = [no |-> Len(x), ask |-> i, items |-> <<>>]
  BY <1>1, PageTyped
<1>3. Append(x, p) \in Seq(Pages) /\ Append(x, p) # <<>>
  OBVIOUS
<1>4. PICK l \in Pages : l = x[Len(x)]
  BY <1>1
<1>5. PICK its \in Seq(Nat) : its = l.items
  BY DEF Pages
<1>6. PICK more \in Seq(Nat) : more = Append(its, i)
  BY <1>1, OneAppended
<1>7. PICK q \in Pages : q = [l EXCEPT !.items = more]
  BY DEF Pages
<1>8. [x EXCEPT ![Len(x)] = q] \in Seq(Pages) /\ Len([x EXCEPT ![Len(x)] = q]) = Len(x)
  BY LastReplaced
<1>9. [x EXCEPT ![Len(x)].items = Append(@, i)] = [x EXCEPT ![Len(x)] = q]
  BY <1>4, <1>5, <1>6, <1>7, Zenon
<1>10. [x EXCEPT ![Len(x)] = q] # <<>>
  BY <1>1, <1>8
<1> QED  BY <1>2, <1>3, <1>8, <1>9, <1>10 DEF Group

LEMMA NoBlockSteps ==
  ASSUME NEW b \in Blocks
  PROVE  ToolStep(b, NoBlock) \in Steps /\ ToolStep(NoBlock, b) \in Steps /\ OtherStep("event") \in Steps /\ OtherStep("note") \in Steps
BY NoBlockTyped DEF ToolStep, OtherStep, Steps

LEMMA AnsweredTyped ==
  ASSUME NEW x \in Seq(Steps), NEW b \in Blocks, NEW c
  PROVE  [x EXCEPT ![c].result = b] \in Seq(Steps) /\ Len([x EXCEPT ![c].result = b]) = Len(x)
<1>1. PICK n \in Nat : n = Len(x)
  OBVIOUS
<1>2. x \in [1..n -> Steps]
  BY <1>1
<1>3. \A s \in Steps : [s EXCEPT !.result = b] \in Steps
  BY DEF Steps
<1>4. [x EXCEPT ![c].result = b] \in [1..n -> Steps]
  BY <1>2, <1>3
<1>5. \A t \in [1..n -> Steps] : t \in Seq(Steps) /\ Len(t) = n
  OBVIOUS
<1> QED  BY <1>1, <1>4, <1>5

LEMMA ReadStepTyped ==
  ASSUME NEW x \in Seq(Steps), NEW m \in SessionRows
  PROVE  ReadStep(x, m) \in Seq(Steps)
<1>1. PICK b \in Blocks : b = m.block
  BY DEF SessionRows
<1>2. /\ Append(x, ToolStep(b, NoBlock)) \in Seq(Steps) /\ Append(x, ToolStep(NoBlock, b)) \in Seq(Steps)
      /\ Append(x, OtherStep("event")) \in Seq(Steps) /\ Append(x, OtherStep("note")) \in Seq(Steps)
  BY NoBlockSteps, OneAppended
<1>3. [x EXCEPT ![Max(Claimed(x, b))].result = b] \in Seq(Steps)
  BY AnsweredTyped
<1> QED  BY <1>1, <1>2, <1>3, Zenon DEF ReadStep

LEMMA MergeTyped ==
  ASSUME NEW acc \in [out : Seq(Seq(Steps)), run : Seq(Steps)], NEW s \in Steps
  PROVE  Merge(acc, s) \in [out : Seq(Seq(Steps)), run : Seq(Steps)] /\ Flushed(acc) \in Seq(Seq(Steps))
<1>1. PICK o \in Seq(Seq(Steps)) : o = acc.out
  OBVIOUS
<1>2. PICK r \in Seq(Steps) : r = acc.run
  OBVIOUS
<1>3. PICK more \in Seq(Steps) : more = Append(r, s)
  BY OneAppended
<1>4. PICK one \in Seq(Steps) : one = <<s>>
  BY OneIsSeq
<1>5. PICK f \in Seq(Seq(Steps)) : f = Flushed(acc)
  <2>1. Append(o, r) \in Seq(Seq(Steps))
    BY OneAppended
  <2> QED  BY <1>1, <1>2, <2>1 DEF Flushed
<1>6. PICK g \in Seq(Seq(Steps)) : g = Append(f, one)
  BY OneAppended
<1>7. [acc EXCEPT !.run = more] \in [out : Seq(Seq(Steps)), run : Seq(Steps)]
  OBVIOUS
<1>8. [out |-> g, run |-> <<>>] \in [out : Seq(Seq(Steps)), run : Seq(Steps)]
  OBVIOUS
<1>9. Merge(acc, s) = IF Mergeable(s) THEN [acc EXCEPT !.run = more] ELSE [out |-> g, run |-> <<>>]
  BY <1>2, <1>3, <1>4, <1>5, <1>6, Zenon DEF Merge
<1> QED  BY <1>5, <1>7, <1>8, <1>9

\* buildRounds groups row after row.
LEMMA BuiltSteps ==
  ASSUME NEW read \in Seq(SessionRows)
  PROVE  /\ BuiltUpTo(read) \in [0..Len(read) -> Seq(Pages) \ {<<>>}]
         /\ BuiltUpTo(read)[0] = <<[no |-> 0, ask |-> 0, items |-> <<>>]>>
         /\ \A n \in 1..Len(read) : BuiltUpTo(read)[n] = Group(BuiltUpTo(read)[n - 1], read, n)
<1> DEFINE X == Seq(Pages) \ {<<>>}
           turn == [p \in X \X (1..Len(read)) |-> Group(p[1], read, p[2])]
           Def(f) == [n \in 0..Len(read) |-> IF n = 0 THEN <<[no |-> 0, ask |-> 0, items |-> <<>>]>> ELSE Group(f[n - 1], read, n)]
<1>1. Len(read) \in Nat /\ <<[no |-> 0, ask |-> 0, items |-> <<>>]>> \in X
  BY PageTyped, OneIsSeq
<1>2. \A x \in X, i \in 1..Len(read) : Group(x, read, i) \in X
  BY GroupTyped
<1>3. turn \in [X \X (1..Len(read)) -> X]
  BY <1>2, Zenon
<1>4. \A x \in X, i \in 1..Len(read) : turn[<<x, i>>] = Group(x, read, i)
  OBVIOUS
<1> HIDE DEF turn, X
<1>5. PICK f : f \in [0..Len(read) -> X] /\ f[0] = <<[no |-> 0, ask |-> 0, items |-> <<>>]>> /\ \A i \in 1..Len(read) : f[i] = turn[<<f[i - 1], i>>]
  <2>1. PICK start \in X : start = <<[no |-> 0, ask |-> 0, items |-> <<>>]>>
    BY <1>1
  <2>2. \E f : MadeBy(X, start, turn, Len(read), f)
    BY ONLY <1>1, <1>3, Iterates
  <2> QED  BY <2>1, <2>2 DEF MadeBy
<1>6. \A i \in 1..Len(read) : i - 1 \in 0..Len(read) /\ i \in 0..Len(read) /\ i # 0
  BY <1>1
<1>7. \A i \in 1..Len(read) : f[i] = Group(f[i - 1], read, i)
  BY <1>4, <1>5, <1>6
<1>8. f = Def(f)
  <2>1. ASSUME NEW n \in 0..Len(read) PROVE f[n] = IF n = 0 THEN <<[no |-> 0, ask |-> 0, items |-> <<>>]>> ELSE Group(f[n - 1], read, n)
    <3>1. CASE n = 0
      BY <1>5, <3>1, Zenon
    <3>2. CASE n # 0
      <4>1. n \in 1..Len(read)
        BY <1>1, <3>2
      <4> QED  BY <1>7, <3>2, <4>1, Zenon
    <3> QED  BY <3>1, <3>2, Zenon
  <2>2. DOMAIN f = 0..Len(read) /\ f = [n \in DOMAIN f |-> f[n]]
    BY <1>5
  <2> QED  BY <2>1, <2>2, Zenon
<1>9. BuiltUpTo(read) = Def(BuiltUpTo(read))
  BY <1>8, Zenon DEF BuiltUpTo
<1>10. PICK g : g = BuiltUpTo(read)
  OBVIOUS
<1>11. g = [n \in 0..Len(read) |-> IF n = 0 THEN <<[no |-> 0, ask |-> 0, items |-> <<>>]>> ELSE Group(g[n - 1], read, n)]
  BY <1>9, <1>10
<1>12. g[0] = <<[no |-> 0, ask |-> 0, items |-> <<>>]>> /\ \A n \in 1..Len(read) : g[n] = Group(g[n - 1], read, n)
  <2>1. ASSUME NEW n \in 0..Len(read) PROVE g[n] = IF n = 0 THEN <<[no |-> 0, ask |-> 0, items |-> <<>>]>> ELSE Group(g[n - 1], read, n)
    BY <1>11, Zenon
  <2>2. 0 \in 0..Len(read)
    BY <1>1
  <2> QED  BY <1>6, <2>1, <2>2, Zenon
<1> DEFINE Good == {n \in 0..Len(read) : g[n] \in X}
<1>13. 0 \in Good
  <2>1. 0 \in 0..Len(read)
    BY <1>1
  <2> QED  BY <1>1, <1>12, <2>1
<1>14. ASSUME NEW n \in 1..Len(read), n - 1 \in Good PROVE n \in Good
  <2>1. PICK x \in X : x = g[n - 1]
    BY <1>14
  <2>2. Group(x, read, n) \in X
    BY <1>2, Zenon
  <2>3. g[n] = Group(x, read, n)
    BY <1>12, <2>1, Zenon
  <2> QED  BY <1>6, <2>2, <2>3
<1> HIDE DEF Good
<1>15. \A n \in 0..Len(read) : n \in Good
  BY <1>1, <1>13, <1>14, UpTo
<1>16. g \in [0..Len(read) -> X]
  <2>1. DOMAIN g = 0..Len(read) /\ g = [n \in DOMAIN g |-> g[n]]
    BY <1>11, Zenon
  <2>2. \A n \in 0..Len(read) : g[n] \in X
    BY <1>15 DEF Good
  <2> QED  BY <2>1, <2>2
<1> QED  BY <1>10, <1>12, <1>16 DEF X

\* analyseRound reads item after item.
LEMMA AnalysedSteps ==
  ASSUME NEW items \in Seq(SessionRows)
  PROVE  /\ AnalysedUpTo(items) \in [0..Len(items) -> Seq(Steps)]
         /\ AnalysedUpTo(items)[0] = <<>>
         /\ \A n \in 1..Len(items) : AnalysedUpTo(items)[n] = (IF IsReply(items, n) /\ items[n].block = NoBlock THEN AnalysedUpTo(items)[n - 1] ELSE ReadStep(AnalysedUpTo(items)[n - 1], items[n]))
<1> DEFINE X == Seq(Steps)
           turn == [p \in X \X (1..Len(items)) |-> (IF IsReply(items, p[2]) /\ items[p[2]].block = NoBlock THEN p[1] ELSE ReadStep(p[1], items[p[2]]))]
           Def(f) == [n \in 0..Len(items) |-> IF n = 0 THEN <<>> ELSE IF IsReply(items, n) /\ items[n].block = NoBlock THEN f[n - 1] ELSE ReadStep(f[n - 1], items[n])]
<1>1. Len(items) \in Nat /\ <<>> \in X
  OBVIOUS
<1>2. \A x \in X, i \in 1..Len(items) : (IF IsReply(items, i) /\ items[i].block = NoBlock THEN x ELSE ReadStep(x, items[i])) \in X
  <2> SUFFICES ASSUME NEW x \in X, NEW i \in 1..Len(items) PROVE (IF IsReply(items, i) /\ items[i].block = NoBlock THEN x ELSE ReadStep(x, items[i])) \in X
    BY Zenon
  <2>1. PICK m \in SessionRows : m = items[i]
    OBVIOUS
  <2> QED  BY <2>1, ReadStepTyped
<1>3. turn \in [X \X (1..Len(items)) -> X]
  BY <1>2, Zenon
<1>4. \A x \in X, i \in 1..Len(items) : turn[<<x, i>>] = (IF IsReply(items, i) /\ items[i].block = NoBlock THEN x ELSE ReadStep(x, items[i]))
  OBVIOUS
<1> HIDE DEF turn, X
<1>5. PICK f : f \in [0..Len(items) -> X] /\ f[0] = <<>> /\ \A i \in 1..Len(items) : f[i] = turn[<<f[i - 1], i>>]
  <2>1. PICK start \in X : start = <<>>
    BY <1>1
  <2>2. \E f : MadeBy(X, start, turn, Len(items), f)
    BY ONLY <1>1, <1>3, Iterates
  <2> QED  BY <2>1, <2>2 DEF MadeBy
<1>6. \A i \in 1..Len(items) : i - 1 \in 0..Len(items) /\ i \in 0..Len(items) /\ i # 0
  BY <1>1
<1>7. \A i \in 1..Len(items) : f[i] = (IF IsReply(items, i) /\ items[i].block = NoBlock THEN f[i - 1] ELSE ReadStep(f[i - 1], items[i]))
  BY <1>4, <1>5, <1>6
<1>8. f = Def(f)
  <2>1. ASSUME NEW n \in 0..Len(items) PROVE f[n] = IF n = 0 THEN <<>> ELSE IF IsReply(items, n) /\ items[n].block = NoBlock THEN f[n - 1] ELSE ReadStep(f[n - 1], items[n])
    <3>1. CASE n = 0
      BY <1>5, <3>1, Zenon
    <3>2. CASE n # 0
      <4>1. n \in 1..Len(items)
        BY <1>1, <3>2
      <4> QED  BY <1>7, <3>2, <4>1, Zenon
    <3> QED  BY <3>1, <3>2, Zenon
  <2>2. DOMAIN f = 0..Len(items) /\ f = [n \in DOMAIN f |-> f[n]]
    BY <1>5
  <2> QED  BY <2>1, <2>2, Zenon
<1>9. AnalysedUpTo(items) = Def(AnalysedUpTo(items))
  BY <1>8, Zenon DEF AnalysedUpTo
<1>10. PICK g : g = AnalysedUpTo(items)
  OBVIOUS
<1>11. g = [n \in 0..Len(items) |-> IF n = 0 THEN <<>> ELSE IF IsReply(items, n) /\ items[n].block = NoBlock THEN g[n - 1] ELSE ReadStep(g[n - 1], items[n])]
  BY <1>9, <1>10
<1>12. g[0] = <<>> /\ \A n \in 1..Len(items) : g[n] = (IF IsReply(items, n) /\ items[n].block = NoBlock THEN g[n - 1] ELSE ReadStep(g[n - 1], items[n]))
  <2>1. ASSUME NEW n \in 0..Len(items) PROVE g[n] = IF n = 0 THEN <<>> ELSE IF IsReply(items, n) /\ items[n].block = NoBlock THEN g[n - 1] ELSE ReadStep(g[n - 1], items[n])
    BY <1>11, Zenon
  <2>2. 0 \in 0..Len(items)
    BY <1>1
  <2> QED  BY <1>6, <2>1, <2>2, Zenon
<1> DEFINE Good == {n \in 0..Len(items) : g[n] \in X}
<1>13. 0 \in Good
  <2>1. 0 \in 0..Len(items)
    BY <1>1
  <2> QED  BY <1>1, <1>12, <2>1
<1>14. ASSUME NEW n \in 1..Len(items), n - 1 \in Good PROVE n \in Good
  <2>1. PICK x \in X : x = g[n - 1]
    BY <1>14
  <2>2. (IF IsReply(items, n) /\ items[n].block = NoBlock THEN x ELSE ReadStep(x, items[n])) \in X
    BY <1>2, Zenon
  <2>3. g[n] = (IF IsReply(items, n) /\ items[n].block = NoBlock THEN x ELSE ReadStep(x, items[n]))
    BY <1>12, <2>1, Zenon
  <2> QED  BY <1>6, <2>2, <2>3
<1> HIDE DEF Good
<1>15. \A n \in 0..Len(items) : n \in Good
  BY <1>1, <1>13, <1>14, UpTo
<1>16. g \in [0..Len(items) -> X]
  <2>1. DOMAIN g = 0..Len(items) /\ g = [n \in DOMAIN g |-> g[n]]
    BY <1>11, Zenon
  <2>2. \A n \in 0..Len(items) : g[n] \in X
    BY <1>15 DEF Good
  <2> QED  BY <2>1, <2>2
<1> QED  BY <1>10, <1>12, <1>16 DEF X

\* mergeSteps folds step after step.
LEMMA MergedSteps ==
  ASSUME NEW steps \in Seq(Steps)
  PROVE  /\ MergedUpTo(steps) \in [0..Len(steps) -> [out : Seq(Seq(Steps)), run : Seq(Steps)]]
         /\ MergedUpTo(steps)[0] = [out |-> <<>>, run |-> <<>>]
         /\ \A n \in 1..Len(steps) : MergedUpTo(steps)[n] = Merge(MergedUpTo(steps)[n - 1], steps[n])
<1> DEFINE X == [out : Seq(Seq(Steps)), run : Seq(Steps)]
           turn == [p \in X \X (1..Len(steps)) |-> Merge(p[1], steps[p[2]])]
           Def(f) == [n \in 0..Len(steps) |-> IF n = 0 THEN [out |-> <<>>, run |-> <<>>] ELSE Merge(f[n - 1], steps[n])]
<1>1. Len(steps) \in Nat /\ [out |-> <<>>, run |-> <<>>] \in X
  OBVIOUS
<1>2. \A x \in X, i \in 1..Len(steps) : Merge(x, steps[i]) \in X
  <2> SUFFICES ASSUME NEW x \in X, NEW i \in 1..Len(steps) PROVE Merge(x, steps[i]) \in X
    BY Zenon
  <2>1. PICK m \in Steps : m = steps[i]
    OBVIOUS
  <2> QED  BY <2>1, MergeTyped
<1>3. turn \in [X \X (1..Len(steps)) -> X]
  BY <1>2, Zenon
<1>4. \A x \in X, i \in 1..Len(steps) : turn[<<x, i>>] = Merge(x, steps[i])
  OBVIOUS
<1> HIDE DEF turn, X
<1>5. PICK f : f \in [0..Len(steps) -> X] /\ f[0] = [out |-> <<>>, run |-> <<>>] /\ \A i \in 1..Len(steps) : f[i] = turn[<<f[i - 1], i>>]
  <2>1. PICK start \in X : start = [out |-> <<>>, run |-> <<>>]
    BY <1>1
  <2>2. \E f : MadeBy(X, start, turn, Len(steps), f)
    BY ONLY <1>1, <1>3, Iterates
  <2> QED  BY <2>1, <2>2 DEF MadeBy
<1>6. \A i \in 1..Len(steps) : i - 1 \in 0..Len(steps) /\ i \in 0..Len(steps) /\ i # 0
  BY <1>1
<1>7. \A i \in 1..Len(steps) : f[i] = Merge(f[i - 1], steps[i])
  BY <1>4, <1>5, <1>6
<1>8. f = Def(f)
  <2>1. ASSUME NEW n \in 0..Len(steps) PROVE f[n] = IF n = 0 THEN [out |-> <<>>, run |-> <<>>] ELSE Merge(f[n - 1], steps[n])
    <3>1. CASE n = 0
      BY <1>5, <3>1, Zenon
    <3>2. CASE n # 0
      <4>1. n \in 1..Len(steps)
        BY <1>1, <3>2
      <4> QED  BY <1>7, <3>2, <4>1, Zenon
    <3> QED  BY <3>1, <3>2, Zenon
  <2>2. DOMAIN f = 0..Len(steps) /\ f = [n \in DOMAIN f |-> f[n]]
    BY <1>5
  <2> QED  BY <2>1, <2>2, Zenon
<1>9. MergedUpTo(steps) = Def(MergedUpTo(steps))
  BY <1>8, Zenon DEF MergedUpTo
<1>10. PICK g : g = MergedUpTo(steps)
  OBVIOUS
<1>11. g = [n \in 0..Len(steps) |-> IF n = 0 THEN [out |-> <<>>, run |-> <<>>] ELSE Merge(g[n - 1], steps[n])]
  BY <1>9, <1>10
<1>12. g[0] = [out |-> <<>>, run |-> <<>>] /\ \A n \in 1..Len(steps) : g[n] = Merge(g[n - 1], steps[n])
  <2>1. ASSUME NEW n \in 0..Len(steps) PROVE g[n] = IF n = 0 THEN [out |-> <<>>, run |-> <<>>] ELSE Merge(g[n - 1], steps[n])
    BY <1>11, Zenon
  <2>2. 0 \in 0..Len(steps)
    BY <1>1
  <2> QED  BY <1>6, <2>1, <2>2, Zenon
<1> DEFINE Good == {n \in 0..Len(steps) : g[n] \in X}
<1>13. 0 \in Good
  <2>1. 0 \in 0..Len(steps)
    BY <1>1
  <2> QED  BY <1>1, <1>12, <2>1
<1>14. ASSUME NEW n \in 1..Len(steps), n - 1 \in Good PROVE n \in Good
  <2>1. PICK x \in X : x = g[n - 1]
    BY <1>14
  <2>2. Merge(x, steps[n]) \in X
    BY <1>2, Zenon
  <2>3. g[n] = Merge(x, steps[n])
    BY <1>12, <2>1, Zenon
  <2> QED  BY <1>6, <2>2, <2>3
<1> HIDE DEF Good
<1>15. \A n \in 0..Len(steps) : n \in Good
  BY <1>1, <1>13, <1>14, UpTo
<1>16. g \in [0..Len(steps) -> X]
  <2>1. DOMAIN g = 0..Len(steps) /\ g = [n \in DOMAIN g |-> g[n]]
    BY <1>11, Zenon
  <2>2. \A n \in 0..Len(steps) : g[n] \in X
    BY <1>15 DEF Good
  <2> QED  BY <2>1, <2>2
<1> QED  BY <1>10, <1>12, <1>16 DEF X

\* summarizeRound looks for the end of the work item after item.
LEMMA WorkedSteps ==
  ASSUME NEW items \in Seq(SessionRows), NEW begun \in Nat
  PROVE  /\ WorkedUpTo(items, begun) \in [0..Len(items) -> Nat]
         /\ WorkedUpTo(items, begun)[0] = begun
         /\ \A n \in 1..Len(items) : WorkedUpTo(items, begun)[n] = (IF IsWork(items[n]) THEN Later(WorkedUpTo(items, begun)[n - 1], items[n].at) ELSE WorkedUpTo(items, begun)[n - 1])
<1> DEFINE X == Nat
           turn == [p \in X \X (1..Len(items)) |-> (IF IsWork(items[p[2]]) THEN Later(p[1], items[p[2]].at) ELSE p[1])]
           Def(f) == [n \in 0..Len(items) |-> IF n = 0 THEN begun ELSE IF IsWork(items[n]) THEN Later(f[n - 1], items[n].at) ELSE f[n - 1]]
<1>1. Len(items) \in Nat /\ begun \in X
  OBVIOUS
<1>2. \A x \in X, i \in 1..Len(items) : (IF IsWork(items[i]) THEN Later(x, items[i].at) ELSE x) \in X
  <2> SUFFICES ASSUME NEW x \in X, NEW i \in 1..Len(items) PROVE (IF IsWork(items[i]) THEN Later(x, items[i].at) ELSE x) \in X
    BY Zenon
  <2>1. PICK m \in SessionRows : m = items[i]
    OBVIOUS
  <2> QED  BY <2>1, LaterTyped DEF SessionRows
<1>3. turn \in [X \X (1..Len(items)) -> X]
  BY <1>2, Zenon
<1>4. \A x \in X, i \in 1..Len(items) : turn[<<x, i>>] = (IF IsWork(items[i]) THEN Later(x, items[i].at) ELSE x)
  OBVIOUS
<1> HIDE DEF turn, X
<1>5. PICK f : f \in [0..Len(items) -> X] /\ f[0] = begun /\ \A i \in 1..Len(items) : f[i] = turn[<<f[i - 1], i>>]
  <2>1. PICK start \in X : start = begun
    BY <1>1
  <2>2. \E f : MadeBy(X, start, turn, Len(items), f)
    BY ONLY <1>1, <1>3, Iterates
  <2> QED  BY <2>1, <2>2 DEF MadeBy
<1>6. \A i \in 1..Len(items) : i - 1 \in 0..Len(items) /\ i \in 0..Len(items) /\ i # 0
  BY <1>1
<1>7. \A i \in 1..Len(items) : f[i] = (IF IsWork(items[i]) THEN Later(f[i - 1], items[i].at) ELSE f[i - 1])
  BY <1>4, <1>5, <1>6
<1>8. f = Def(f)
  <2>1. ASSUME NEW n \in 0..Len(items) PROVE f[n] = IF n = 0 THEN begun ELSE IF IsWork(items[n]) THEN Later(f[n - 1], items[n].at) ELSE f[n - 1]
    <3>1. CASE n = 0
      BY <1>5, <3>1, Zenon
    <3>2. CASE n # 0
      <4>1. n \in 1..Len(items)
        BY <1>1, <3>2
      <4> QED  BY <1>7, <3>2, <4>1, Zenon
    <3> QED  BY <3>1, <3>2, Zenon
  <2>2. DOMAIN f = 0..Len(items) /\ f = [n \in DOMAIN f |-> f[n]]
    BY <1>5
  <2> QED  BY <2>1, <2>2, Zenon
<1>9. WorkedUpTo(items, begun) = Def(WorkedUpTo(items, begun))
  BY <1>8, Zenon DEF WorkedUpTo
<1>10. PICK g : g = WorkedUpTo(items, begun)
  OBVIOUS
<1>11. g = [n \in 0..Len(items) |-> IF n = 0 THEN begun ELSE IF IsWork(items[n]) THEN Later(g[n - 1], items[n].at) ELSE g[n - 1]]
  BY <1>9, <1>10
<1>12. g[0] = begun /\ \A n \in 1..Len(items) : g[n] = (IF IsWork(items[n]) THEN Later(g[n - 1], items[n].at) ELSE g[n - 1])
  <2>1. ASSUME NEW n \in 0..Len(items) PROVE g[n] = IF n = 0 THEN begun ELSE IF IsWork(items[n]) THEN Later(g[n - 1], items[n].at) ELSE g[n - 1]
    BY <1>11, Zenon
  <2>2. 0 \in 0..Len(items)
    BY <1>1
  <2> QED  BY <1>6, <2>1, <2>2, Zenon
<1> DEFINE Good == {n \in 0..Len(items) : g[n] \in X}
<1>13. 0 \in Good
  <2>1. 0 \in 0..Len(items)
    BY <1>1
  <2> QED  BY <1>1, <1>12, <2>1
<1>14. ASSUME NEW n \in 1..Len(items), n - 1 \in Good PROVE n \in Good
  <2>1. PICK x \in X : x = g[n - 1]
    BY <1>14
  <2>2. (IF IsWork(items[n]) THEN Later(x, items[n].at) ELSE x) \in X
    BY <1>2, Zenon
  <2>3. g[n] = (IF IsWork(items[n]) THEN Later(x, items[n].at) ELSE x)
    BY <1>12, <2>1, Zenon
  <2> QED  BY <1>6, <2>2, <2>3
<1> HIDE DEF Good
<1>15. \A n \in 0..Len(items) : n \in Good
  BY <1>1, <1>13, <1>14, UpTo
<1>16. g \in [0..Len(items) -> X]
  <2>1. DOMAIN g = 0..Len(items) /\ g = [n \in DOMAIN g |-> g[n]]
    BY <1>11, Zenon
  <2>2. \A n \in 0..Len(items) : g[n] \in X
    BY <1>15 DEF Good
  <2> QED  BY <2>1, <2>2
<1> QED  BY <1>10, <1>12, <1>16 DEF X

\* A page of buildRounds beside round k of splitRounds: the rows from its ask on.
PageFits(read, n, k, page, round) ==
  /\ page \in Pages /\ page.no = k /\ page.ask \in 1..n /\ IsRoundStart(read[page.ask])
  /\ page.ask + Len(page.items) <= n
  /\ \A i \in 1..Len(page.items) : page.items[i] = page.ask + i
  /\ \A j \in page.ask..(page.ask + Len(page.items)) : Len(ReadUpTo(read)[j]) = k
  /\ round = ReadUpTo(read)[page.ask + Len(page.items)][k]
  /\ round.messages = Len(page.items) + 1

Fit(read, n, built, raw) ==
  /\ Len(built) = Len(raw) + 1 /\ built[1].ask = 0
  /\ \A k \in 1..Len(raw) : PageFits(read, n, k, built[k + 1], raw[k])
  /\ Len(raw) > 0 => built[Len(raw) + 1].ask + Len(built[Len(raw) + 1].items) = n

LEMMA PageStays ==
  ASSUME NEW read, NEW n \in Nat \ {0}, NEW k, NEW page, NEW round, PageFits(read, n - 1, k, page, round)
  PROVE  PageFits(read, n, k, page, round)
<1>1. page \in Pages /\ page.ask \in 1..(n - 1) /\ page.ask + Len(page.items) <= n - 1
  BY DEF PageFits
<1>2. page.ask \in Nat /\ Len(page.items) \in Nat
  BY <1>1 DEF Pages
<1>3. page.ask \in 1..n /\ page.ask + Len(page.items) <= n
  BY <1>1, <1>2
<1> QED  BY <1>3, Zenon DEF PageFits

\* Server and page see the same asks.
SameAsks(read) == \A i \in 1..Len(read) : IsAsk(read[i]) <=> IsRoundStart(read[i])

LEMMA PagesFit ==
  ASSUME NEW read \in Seq(SessionRows), SameAsks(read)
  PROVE  \A n \in 0..Len(read) : Fit(read, n, BuiltUpTo(read)[n], ReadUpTo(read)[n])
<1> DEFINE Good == {n \in 0..Len(read) : Fit(read, n, BuiltUpTo(read)[n], ReadUpTo(read)[n])}
<1>0. Len(read) \in Nat /\ 0 \in 0..Len(read)
  OBVIOUS
<1>1. 0 \in Good
  <2>1. PICK raw : raw = ReadUpTo(read)[0]
    OBVIOUS
  <2>2. PICK built : built = BuiltUpTo(read)[0]
    OBVIOUS
  <2>3. raw = <<>> /\ built = <<[no |-> 0, ask |-> 0, items |-> <<>>]>>
    BY <2>1, <2>2, ReadSteps, BuiltSteps
  <2>4. Len(raw) = 0 /\ Len(built) = 1 /\ built[1].ask = 0
    BY <2>3
  <2>5. Fit(read, 0, built, raw)
    BY <2>4 DEF Fit
  <2> QED  BY <1>0, <2>1, <2>2, <2>5
<1>2. ASSUME NEW n \in 1..Len(read), n - 1 \in Good PROVE n \in Good
  <2>1. PICK raw \in Seq(RoundRecords) : raw = ReadUpTo(read)[n - 1]
    BY NextOf
  <2>2. PICK now \in Seq(RoundRecords) : now = ReadUpTo(read)[n]
    BY NextOf
  <2>3. PICK m \in SessionRows : m = read[n]
    OBVIOUS
  <2>15. IsAsk(m) <=> IsRoundStart(m)
    BY <2>3, Zenon DEF SameAsks
  <2>4. now = NextRow(raw, m) /\ Len(now) = Len(raw) + (IF IsRoundStart(m) THEN 1 ELSE 0)
    BY <2>1, <2>2, <2>3, NextOf
  <2>5. n - 1 \in 0..Len(read) /\ n \in 0..Len(read) /\ n \in Nat \ {0} /\ Len(raw) \in Nat /\ m.at \in Nat
    BY <2>3 DEF SessionRows
  <2>6. PICK old \in Seq(Pages) : old = BuiltUpTo(read)[n - 1]
    BY <2>5, BuiltSteps
  <2>7. PICK new : new = BuiltUpTo(read)[n]
    OBVIOUS
  <2>8. new = Group(old, read, n)
    BY <2>5, <2>6, <2>7, BuiltSteps
  <2>9. Fit(read, n - 1, old, raw)
    BY <1>2, <2>1, <2>6
  <2>10. /\ Len(old) = Len(raw) + 1 /\ old[1].ask = 0
         /\ \A k \in 1..Len(raw) : PageFits(read, n - 1, k, old[k + 1], raw[k])
         /\ Len(raw) > 0 => old[Len(raw) + 1].ask + Len(old[Len(raw) + 1].items) = n - 1
    BY <2>9 DEF Fit
  <2>11. \A k \in 1..Len(raw) : k < Len(raw) \/ IsRoundStart(m) => now[k] = raw[k]
    BY <2>4, OnlyLastChanges
  <2>12. \A k \in 1..Len(raw) : PageFits(read, n, k, old[k + 1], raw[k])
    BY <2>5, <2>10, PageStays
  <2>13. CASE IsRoundStart(m)
    <3>1. PICK z \in RoundRecords : z = NewRound(Len(raw) + 1, m.at)
      BY <2>5, NewRoundTyped
    <3>2. PICK r \in RoundRecords : r = ReadRow(z, m, TRUE)
      BY ReadRowTyped
    <3>3. r.messages = 1
      <4>1. r.messages = z.messages + 1
        BY <3>2, RowTimes
      <4>2. z.messages = 0
        BY <3>1 DEF NewRound
      <4> QED  BY <4>1, <4>2
    <3>4. now = Append(raw, r)
      BY <2>4, <2>13, <3>1, <3>2 DEF NextRow
    <3>5. now[Len(raw) + 1] = r /\ Len(now) = Len(raw) + 1
      BY <3>4
    <3>6. PICK p \in Pages : p = [no |-> Len(old), ask |-> n, items |-> <<>>]
      <4>1. Len(old) \in Nat /\ n \in Nat
        BY <2>5, <2>10
      <4> QED  BY ONLY <4>1, PageTyped
    <3>7. new = Append(old, p)
      BY <2>3, <2>8, <2>13, <2>15, <3>6 DEF Group
    <3>8. /\ Len(new) = Len(old) + 1 /\ new[Len(old) + 1] = p
          /\ \A k \in 1..Len(old) : new[k] = old[k]
      BY <3>7
    <3>9. PageFits(read, n, Len(raw) + 1, p, r)
      <4>1. p.no = Len(raw) + 1 /\ p.ask = n /\ p.items = <<>> /\ Len(p.items) = 0
        BY <2>10, <3>6
      <4>2. p.ask \in 1..n /\ p.ask + Len(p.items) <= n /\ p.ask + Len(p.items) = n
        BY <2>5, <4>1
      <4>3. \A j \in p.ask..(p.ask + Len(p.items)) : Len(ReadUpTo(read)[j]) = Len(raw) + 1
        BY <2>2, <2>5, <3>5, <4>1
      <4>4. r = ReadUpTo(read)[p.ask + Len(p.items)][Len(raw) + 1]
        BY <2>2, <3>5, <4>2
      <4>5. \A i \in 1..Len(p.items) : p.items[i] = p.ask + i
        BY <4>1
      <4>6. r.messages = Len(p.items) + 1
        BY <3>3, <4>1
      <4>7. IsRoundStart(read[p.ask])
        BY <2>3, <2>13, <4>1
      <4> QED  BY <4>1, <4>2, <4>3, <4>4, <4>5, <4>6, <4>7, Zenon DEF PageFits
    <3>10. ASSUME NEW k \in 1..Len(now) PROVE PageFits(read, n, k, new[k + 1], now[k])
      <4>1. CASE k \in 1..Len(raw)
        <5>1. k + 1 \in 1..Len(old)
          BY <2>10, <4>1
        <5>2. new[k + 1] = old[k + 1] /\ now[k] = raw[k]
          BY <2>11, <2>13, <3>8, <4>1, <5>1
        <5> QED  BY <2>12, <4>1, <5>2, Zenon
      <4>2. CASE k = Len(raw) + 1
        <5>1. new[k + 1] = p /\ now[k] = r
          BY <2>10, <3>5, <3>8, <4>2
        <5> QED  BY <3>9, <4>2, <5>1, Zenon
      <4> QED  BY <2>5, <3>5, <4>1, <4>2
    <3>11. Len(new) = Len(now) + 1 /\ new[1].ask = 0
      BY <2>5, <2>10, <3>5, <3>8
    <3>12. new[Len(now) + 1].ask + Len(new[Len(now) + 1].items) = n
      <4>1. new[Len(now) + 1] = p
        BY <2>10, <3>5, <3>8
      <4>2. p.ask = n /\ Len(p.items) = 0
        BY <3>6
      <4> QED  BY <2>5, <4>1, <4>2
    <3>13. Fit(read, n, new, now)
      BY <3>10, <3>11, <3>12, Zenon DEF Fit
    <3> QED  BY <2>2, <2>5, <2>7, <3>13
  <2>14. CASE ~IsRoundStart(m)
    <3>1. PICK l \in Pages : l = old[Len(old)]
      <4>1. Len(old) \in 1..Len(old)
        BY <2>5, <2>10
      <4> QED  BY <4>1
    <3>2. PICK its \in Seq(Nat) : its = l.items
      BY DEF Pages
    <3>3. PICK more \in Seq(Nat) : more = Append(its, n)
      BY <2>5, OneAppended
    <3>4. PICK p \in Pages : p = [l EXCEPT !.items = more]
      BY DEF Pages
    <3>5. p.no = l.no /\ p.ask = l.ask /\ p.items = more
      BY <3>4 DEF Pages
    <3>6. new = [old EXCEPT ![Len(old)] = p]
      BY <2>3, <2>8, <2>14, <2>15, <3>1, <3>2, <3>3, <3>4, Zenon DEF Group
    <3>7. /\ Len(new) = Len(old) /\ new[Len(old)] = p
          /\ \A k \in 1..Len(old) : k # Len(old) => new[k] = old[k]
      BY <2>5, <2>10, <3>6
    <3>8. CASE raw = <<>>
      <4>1. Len(raw) = 0 /\ Len(now) = 0 /\ Len(old) = 1
        BY <2>4, <2>10, <2>14, <3>8
      <4>2. Len(new) = Len(now) + 1 /\ new[1].ask = 0
        BY <2>10, <3>1, <3>5, <3>7, <4>1
      <4>3. Fit(read, n, new, now)
        BY <4>1, <4>2 DEF Fit
      <4> QED  BY <2>2, <2>5, <2>7, <4>3
    <3>9. CASE raw # <<>>
      <4>1. Len(raw) > 0 /\ Len(now) = Len(raw) /\ Len(raw) \in 1..Len(raw)
        BY <2>4, <2>5, <2>14, <3>9
      <4>2. PICK z \in RoundRecords : z = raw[Len(raw)]
        BY <4>1
      <4>3. PICK r \in RoundRecords : r = ReadRow(z, m, FALSE)
        BY ReadRowTyped
      <4>4. r.messages = z.messages + 1
        BY <4>3, RowTimes
      <4>5. now = [raw EXCEPT ![Len(raw)] = r]
        BY <2>4, <2>14, <3>9, <4>2, <4>3, Zenon DEF NextRow
      <4>6. now[Len(raw)] = r
        BY <4>1, <4>5
      <4>7. PageFits(read, n - 1, Len(raw), l, z)
        BY <2>10, <3>1, <4>1, <4>2
      <4>8. /\ l.no = Len(raw) /\ l.ask \in 1..(n - 1) /\ IsRoundStart(read[l.ask])
            /\ \A i \in 1..Len(its) : its[i] = l.ask + i
            /\ \A j \in l.ask..(l.ask + Len(its)) : Len(ReadUpTo(read)[j]) = Len(raw)
            /\ z.messages = Len(its) + 1
        BY <3>2, <4>7, Zenon DEF PageFits
      <4>9. l.ask + Len(its) = n - 1
        BY <2>10, <3>1, <3>2, <4>1
      <4>10. /\ Len(its) \in Nat /\ Len(more) = Len(its) + 1 /\ more[Len(its) + 1] = n
             /\ \A i \in 1..Len(its) : more[i] = its[i]
        BY <2>5, <3>3, OneAppended
      <4>11. l.ask + Len(more) = n /\ l.ask \in 1..n
        <5>1. PICK a \in 1..(n - 1) : a = l.ask
          BY <4>8
        <5>2. PICK c \in Nat : c = Len(its)
          BY <4>10
        <5>3. a + c = n - 1 /\ Len(more) = c + 1
          BY <4>9, <4>10, <5>1, <5>2
        <5>4. a + (c + 1) = n /\ a \in 1..n
          <6>1. n \in Nat /\ a \in Nat /\ a >= 1 /\ a <= n - 1 /\ a + c = n - 1
            BY <2>5, <5>1, <5>3
          <6> QED  BY ONLY <5>2, <6>1
        <5> QED  BY <5>1, <5>3, <5>4
      <4>12. \A i \in 1..Len(more) : more[i] = l.ask + i
        <5> SUFFICES ASSUME NEW i \in 1..Len(more) PROVE more[i] = l.ask + i
          OBVIOUS
        <5>1. CASE i \in 1..Len(its)
          BY <4>8, <4>10, <5>1
        <5>2. CASE i = Len(its) + 1
          BY <4>9, <4>10, <4>11, <5>2
        <5> QED  BY <4>10, <5>1, <5>2
      <4>13. \A j \in l.ask..(l.ask + Len(more)) : Len(ReadUpTo(read)[j]) = Len(raw)
        <5> SUFFICES ASSUME NEW j \in l.ask..(l.ask + Len(more)) PROVE Len(ReadUpTo(read)[j]) = Len(raw)
          OBVIOUS
        <5>1. CASE j = n
          BY <2>2, <4>1, <5>1
        <5>2. CASE j # n
          <6>1. j \in l.ask..(l.ask + Len(its))
            BY <2>5, <4>8, <4>9, <4>11, <5>2
          <6> QED  BY <4>8, <6>1
        <5> QED  BY <5>1, <5>2
      <4>14. r = ReadUpTo(read)[l.ask + Len(more)][Len(raw)]
        BY <2>2, <4>6, <4>11
      <4>15. r.messages = Len(more) + 1
        BY <4>4, <4>8, <4>10
      <4>16. l.ask + Len(more) <= n
        BY <2>5, <4>11
      <4>17. PageFits(read, n, Len(raw), p, r)
        BY <3>5, <4>8, <4>11, <4>12, <4>13, <4>14, <4>15, <4>16, Zenon DEF PageFits
      <4>18. ASSUME NEW k \in 1..Len(now) PROVE PageFits(read, n, k, new[k + 1], now[k])
        <5>1. CASE k < Len(raw)
          <6>1. k + 1 \in 1..Len(old) /\ k + 1 # Len(old) /\ k \in 1..Len(raw)
            BY <2>5, <2>10, <4>1, <5>1
          <6>2. new[k + 1] = old[k + 1] /\ now[k] = raw[k]
            BY <2>11, <3>7, <5>1, <6>1
          <6> QED  BY <2>12, <6>1, <6>2, Zenon
        <5>2. CASE k = Len(raw)
          <6>1. new[k + 1] = p /\ now[k] = r
            BY <2>10, <3>7, <4>6, <5>2
          <6> QED  BY <4>17, <5>2, <6>1, Zenon
        <5> QED  BY <2>5, <4>1, <5>1, <5>2
      <4>19. Len(new) = Len(now) + 1 /\ new[1].ask = 0
        <5>1. 1 \in 1..Len(old) /\ 1 # Len(old)
          BY <2>5, <2>10, <4>1
        <5>2. new[1] = old[1]
          BY <3>7, <5>1
        <5>3. Len(new) = Len(now) + 1
          BY <2>10, <3>7, <4>1
        <5> QED  BY <2>10, <5>2, <5>3
      <4>20. new[Len(now) + 1].ask + Len(new[Len(now) + 1].items) = n
        BY <2>10, <3>5, <3>7, <4>1, <4>11
      <4>21. Fit(read, n, new, now)
        BY <4>18, <4>19, <4>20, Zenon DEF Fit
      <4> QED  BY <2>2, <2>5, <2>7, <4>21
    <3> QED  BY <3>8, <3>9
  <2> QED  BY <2>13, <2>14
<1> HIDE DEF Good
<1>3. \A n \in 0..Len(read) : n \in Good
  BY <1>0, <1>1, <1>2, UpTo
<1> QED  BY <1>3 DEF Good

-----------------------------------------------------------------------------
(***************************************************************************)
(* What blocks say: which ids a source's calls have, and what a block adds *)
(* to a round.                                                             *)
(***************************************************************************)

\* What the blocks of a session's rows are.
BlockWell(b, i) ==
  /\ b.type = "toolCall" => ~b.failed /\ b.id = IF ids THEN i ELSE NoId
  /\ b.type = "toolResult" /\ ids => b.id # NoId
  /\ b.type \notin {"toolCall", "toolResult", "event"} => b = NoBlock

CallsWell ==
  /\ \A i \in 1..Len(rows) : BlockWell(rows[i].block, i)
  /\ \A i \in 1..Len(rows) : rows[i].words # "none" => rows[i].block = NoBlock
  /\ ids => \A opened \in open : opened.id # NoId

LEMMA IdsStay == ASSUME RoundsNext PROVE ids' = ids
BY DEF RoundsNext, Ask, Queued, Injected, Say, CallTool, Return, Interrupt, Write

LEMMA WritesWell ==
  ASSUME SessionTypes, RoundsNext, CallsWell
  PROVE  /\ ids => \A opened \in open' : opened.id # NoId
         /\ \E when, role, aside, words, block :
              /\ Write(when, role, aside, words, block) /\ BlockWell(block, Len(rows) + 1)
              /\ words # "none" => block = NoBlock
<1> DEFINE Fine(when, role, aside, words, block) ==
             /\ Write(when, role, aside, words, block) /\ BlockWell(block, Len(rows) + 1)
             /\ words # "none" => block = NoBlock
<1> SUFFICES /\ ids => \A opened \in open' : opened.id # NoId
             /\ \E when, role, aside, words, block : Fine(when, role, aside, words, block)
  OBVIOUS
<1>1. ids => \A opened \in open : opened.id # NoId
  BY DEF CallsWell
<1>2. NoBlock.type = "none" /\ BlockWell(NoBlock, Len(rows) + 1)
  BY NoBlockTyped DEF BlockWell
<1>3. Len(rows) \in Nat
  BY DEF SessionTypes
<1>4. CASE Ask
  <2>1. PICK when : Write(when, "user", FALSE, "plain", NoBlock)
    BY <1>4, Zenon DEF Ask
  <2>2. open' = open
    BY <1>4, Zenon DEF Ask
  <2> QED  BY <1>1, <1>2, <2>1, <2>2, Zenon
<1>5. CASE Queued
  BY <1>1, <1>2, <1>5, Zenon DEF Queued
<1>6. CASE Injected
  <2>1. PICK words \in {"plumbing", "glued", "apart"} : Write(Now + 1, "user", FALSE, words, NoBlock)
    BY <1>6, Zenon DEF Injected
  <2>2. open' = open
    BY <1>6, Zenon DEF Injected
  <2> QED  BY <1>1, <1>2, <2>1, <2>2, Zenon
<1>7. CASE Say
  <2>1. PICK when : Write(when, "assistant", FALSE, "plain", NoBlock)
    BY <1>7, Zenon DEF Say
  <2>2. open' = open
    BY <1>7, Zenon DEF Say
  <2> QED  BY <1>1, <1>2, <2>1, <2>2, Zenon
<1>8. CASE CallTool
  <2>1. PICK tool \in Calls :
          LET id == IF ids THEN Len(rows) + 1 ELSE NoId
              opened == [type |-> "toolCall", id |-> id, name |-> tool.name, files |-> tool.files,
                         file |-> tool.file, failed |-> FALSE]
          IN  Write(Now + 1, "assistant", FALSE, "none", opened) /\ open' = open \cup {opened}
    BY <1>8 DEF CallTool
  <2>2. PICK id \in Nat : id = IF ids THEN Len(rows) + 1 ELSE NoId
    BY <1>3 DEF NoId
  <2>3. PICK opened : opened = [type |-> "toolCall", id |-> id, name |-> tool.name, files |-> tool.files,
                                file |-> tool.file, failed |-> FALSE]
    OBVIOUS
  <2>4. Write(Now + 1, "assistant", FALSE, "none", opened) /\ open' = open \cup {opened}
    BY <2>1, <2>2, <2>3
  <2>5. opened.type = "toolCall" /\ opened.id = id /\ opened.failed = FALSE
    BY <2>3
  <2>7. BlockWell(opened, Len(rows) + 1)
    BY <2>2, <2>5 DEF BlockWell
  <2>8. ids => opened.id # NoId
    BY <1>3, <2>2, <2>5 DEF NoId
  <2> QED  BY <1>1, <2>4, <2>7, <2>8
<1>9. CASE Return
  <2>1. PICK opened \in open, failed \in BOOLEAN :
          /\ Write(Now + 1, "user", FALSE, "none",
               [NoBlock EXCEPT !.type = "toolResult", !.id = opened.id, !.name = opened.name, !.failed = failed])
          /\ open' = open \ {opened}
    BY <1>9 DEF Return
  <2>2. PICK block :
          block = [NoBlock EXCEPT !.type = "toolResult", !.id = opened.id, !.name = opened.name, !.failed = failed]
    OBVIOUS
  <2>3. block.type = "toolResult" /\ block.id = opened.id
    BY <2>2 DEF NoBlock
  <2>4. BlockWell(block, Len(rows) + 1)
    BY <1>1, <2>3 DEF BlockWell
  <2>5. Write(Now + 1, "user", FALSE, "none", block)
    BY <2>1, <2>2
  <2> QED  BY <1>1, <2>1, <2>4, <2>5
<1>10. CASE Interrupt
  <2>1. PICK block : block = [NoBlock EXCEPT !.type = "event"]
    OBVIOUS
  <2>2. block.type = "event"
    BY <2>1 DEF NoBlock
  <2>3. Write(Now + 1, "system", FALSE, "none", block) /\ open' = open
    BY <1>10, <2>1 DEF Interrupt
  <2>4. BlockWell(block, Len(rows) + 1)
    BY <2>2 DEF BlockWell
  <2> QED  BY <1>1, <2>3, <2>4
<1> QED  BY <1>4, <1>5, <1>6, <1>7, <1>8, <1>9, <1>10 DEF RoundsNext

LEMMA StepKeepsCalls ==
  ASSUME SessionTypes, CallsWell, [RoundsNext]_roundsVars
  PROVE  CallsWell'
<1>1. CASE RoundsNext
  <2>1. PICK when, role, aside, words, block :
          /\ Write(when, role, aside, words, block) /\ BlockWell(block, Len(rows) + 1)
          /\ words # "none" => block = NoBlock
    BY <1>1, WritesWell
  <2>2. ids' = ids /\ (ids => \A opened \in open' : opened.id # NoId)
    BY <1>1, WritesWell, IdsStay
  <2>3. PICK m : m = [at |-> when, role |-> role, aside |-> aside, words |-> words, block |-> block]
    OBVIOUS
  <2>4. m.block = block /\ m.words = words /\ rows' = Append(rows, m) /\ rows \in Seq(SessionRows)
    BY <2>1, <2>3 DEF Write, SessionTypes
  <2>5. /\ Len(rows) \in Nat /\ Len(rows') = Len(rows) + 1 /\ rows'[Len(rows) + 1] = m
        /\ \A i \in 1..Len(rows) : rows'[i] = rows[i]
    BY <2>4
  <2>6. ASSUME NEW i \in 1..Len(rows') PROVE BlockWell(rows'[i].block, i)
    <3>1. CASE i \in 1..Len(rows)
      <4>1. BlockWell(rows[i].block, i) /\ rows'[i] = rows[i]
        BY <2>5, <3>1 DEF CallsWell
      <4> QED  BY <4>1
    <3>2. CASE i = Len(rows) + 1
      <4>1. rows'[i].block = block
        BY <2>4, <2>5, <3>2
      <4> QED  BY <2>1, <3>2, <4>1
    <3> QED  BY <2>5, <3>1, <3>2
  <2>7. ASSUME NEW i \in 1..Len(rows'), rows'[i].words # "none" PROVE rows'[i].block = NoBlock
    <3>1. CASE i \in 1..Len(rows)
      BY <2>5, <2>7, <3>1 DEF CallsWell
    <3>2. CASE i = Len(rows) + 1
      BY <2>1, <2>4, <2>5, <2>7, <3>2
    <3> QED  BY <2>5, <3>1, <3>2
  <2> QED  BY <2>2, <2>6, <2>7 DEF CallsWell, BlockWell
<1>2. CASE UNCHANGED roundsVars
  BY <1>2 DEF roundsVars, CallsWell, BlockWell
<1> QED  BY <1>1, <1>2

THEOREM CallsWritten == RoundsSpec => []CallsWell
<1>1. RoundsInit => CallsWell
  BY DEF RoundsInit, CallsWell
<1>2. SessionTypes /\ TimesGrow /\ CallsWell /\ [RoundsNext]_roundsVars => CallsWell'
  BY StepKeepsCalls
<1> QED  BY <1>1, <1>2, SessionTyped, PTL DEF RoundsSpec

-----------------------------------------------------------------------------
\* What a row makes of a round's failures and files.
LEMMA RowFiles ==
  ASSUME NEW r \in RoundRecords, NEW m \in SessionRows, NEW starting \in BOOLEAN
  PROVE  LET s == ReadRow(r, m, starting)
             t == ReadBlock(r, m.block, m.at)
         IN  s.failures = t.failures /\ s.changed = t.changed /\ s.pending = t.pending
<1>1. m.block \in Blocks /\ m.at \in Nat
  BY DEF SessionRows
<1>2. PICK t \in RoundRecords : t = ReadBlock(r, m.block, m.at)
  BY <1>1, ReadBlockTyped
<1>4. PICK l : l = Later(t.lastAt, m.at)
  OBVIOUS
<1>5. PICK e : e = IF starting \/ IsWork(m) THEN Later(t.endAt, m.at) ELSE t.endAt
  OBVIOUS
<1>6. PICK y : y = (t.replied \/ (m.role = "assistant" /\ m.words # "none"))
  OBVIOUS
<1>7. ReadRow(r, m, starting) = [t EXCEPT !.messages = @ + 1, !.lastAt = l, !.humanLast = starting, !.endAt = e, !.replied = y]
  BY <1>2, <1>4, <1>5, <1>6, Zenon DEF ReadRow
<1>8. PICK s : s = [t EXCEPT !.messages = @ + 1, !.lastAt = l, !.humanLast = starting, !.endAt = e, !.replied = y]
  OBVIOUS
<1>9. s.failures = t.failures /\ s.changed = t.changed /\ s.pending = t.pending
  BY <1>8 DEF RoundRecords
<1> QED  BY <1>2, <1>7, <1>8, <1>9, Zenon

LEMMA OtherFiles ==
  ASSUME NEW r \in RoundRecords, NEW b \in Blocks, NEW when, b.type \notin {"toolCall", "toolResult"}
  PROVE  /\ ReadBlock(r, b, when).failures = r.failures /\ ReadBlock(r, b, when).changed = r.changed
         /\ ReadBlock(r, b, when).pending = r.pending
<1>1. PICK s : s = [r EXCEPT !.interrupted = TRUE]
  OBVIOUS
<1>2. s.failures = r.failures /\ s.changed = r.changed /\ s.pending = r.pending
  BY <1>1 DEF RoundRecords
<1>3. ReadBlock(r, b, when) = s \/ ReadBlock(r, b, when) = r
  BY <1>1 DEF ReadBlock
<1> QED  BY <1>2, <1>3

\* A round s that has read call b, which writes the files w, after being r.
CallNoted(s, r, b, w) ==
  /\ s.failures = r.failures
  /\ s.changed = IF b.id = NoId THEN r.changed \cup w ELSE r.changed
  /\ s.pending = IF w # {} /\ b.id # NoId
                 THEN {p \in r.pending : p.id # b.id} \cup {[id |-> b.id, files |-> w]}
                 ELSE r.pending

LEMMA CallFiles ==
  ASSUME NEW r \in RoundRecords, NEW b \in Blocks, NEW when, b.type = "toolCall", NEW w, w = ServerWrites(b)
  PROVE  CallNoted(ReadBlock(r, b, when), r, b, w)
<1>1. PICK n \in Nat : n = r.toolCalls + 1
  BY DEF RoundRecords
<1>2. PICK f \in SUBSET Files : f = r.files \cup b.files
  BY DEF RoundRecords, Blocks
<1>3. PICK t : t = [r EXCEPT !.toolCalls = n, !.files = f]
  OBVIOUS
<1>4. t \in RoundRecords /\ t.failures = r.failures /\ t.changed = r.changed /\ t.pending = r.pending
  BY <1>3 DEF RoundRecords
<1>5. ReadBlock(r, b, when) = NoteWrite(t, b)
  <2>1. ReadBlock(r, b, when) = ReadCall(r, b)
    BY DEF ReadBlock
  <2>2. ReadCall(r, b) = NoteWrite(t, b)
    BY <1>1, <1>2, <1>3, Zenon DEF ReadCall
  <2> QED  BY <2>1, <2>2
<1>6. CASE w = {}
  <2>1. NoteWrite(t, b) = t
    BY <1>6, Zenon DEF NoteWrite
  <2>2. r.changed \cup w = r.changed
    BY <1>6
  <2> QED  BY <1>4, <1>5, <1>6, <2>1, <2>2, Zenon DEF CallNoted
<1>7. CASE w # {} /\ b.id = NoId
  <2>1. PICK s : s = NoteWrite(t, b)
    OBVIOUS
  <2>2. PICK c : c = r.changed \cup w
    OBVIOUS
  <2>3. s = [t EXCEPT !.changed = c]
    BY <1>4, <1>7, <2>1, <2>2, Zenon DEF NoteWrite
  <2>4. s.failures = t.failures /\ s.changed = c /\ s.pending = t.pending
    BY <1>4, <2>3 DEF RoundRecords
  <2> QED  BY <1>4, <1>5, <1>7, <2>1, <2>2, <2>4, Zenon DEF CallNoted
<1>8. CASE w # {} /\ b.id # NoId
  <2>1. PICK s : s = NoteWrite(t, b)
    OBVIOUS
  <2>2. PICK c : c = {p \in r.pending : p.id # b.id} \cup {[id |-> b.id, files |-> w]}
    OBVIOUS
  <2>3. s = [t EXCEPT !.pending = c]
    BY <1>4, <1>8, <2>1, <2>2, Zenon DEF NoteWrite
  <2>4. s.failures = t.failures /\ s.changed = t.changed /\ s.pending = c
    BY <1>4, <2>3 DEF RoundRecords
  <2> QED  BY <1>4, <1>5, <1>8, <2>1, <2>2, <2>4, Zenon DEF CallNoted
<1> QED  BY <1>6, <1>7, <1>8

LEMMA ResultFiles ==
  ASSUME NEW r \in RoundRecords, NEW b \in Blocks, NEW when \in Nat, b.type = "toolResult"
  PROVE  LET s == ReadBlock(r, b, when)
             due == {p \in r.pending : p.id = b.id}
         IN  /\ s.failures = IF b.failed THEN r.failures + 1 ELSE r.failures
             /\ s.changed = IF b.failed THEN r.changed ELSE r.changed \cup Awaited(due)
             /\ s.pending = r.pending \ due
<1>1. PICK n \in Nat : n = r.failures + 1
  BY DEF RoundRecords
<1>2. PICK old \in Seq(Nat) : old = r.failed
  BY DEF RoundRecords
<1>3. PICK f \in Seq(Nat) : f = Append(old, when)
  BY OneAppended
<1>4. PICK t : t = IF b.failed THEN [r EXCEPT !.failures = n, !.failed = f] ELSE r
  OBVIOUS
<1>5. /\ t \in RoundRecords /\ t.changed = r.changed /\ t.pending = r.pending
      /\ t.failures = IF b.failed THEN n ELSE r.failures
  BY <1>4 DEF RoundRecords
<1>6. ReadBlock(r, b, when) = SettleWrite(t, b)
  <2>1. ReadBlock(r, b, when) = ReadResult(r, b, when)
    BY DEF ReadBlock
  <2>2. ReadResult(r, b, when) = SettleWrite(t, b)
    BY <1>1, <1>2, <1>3, <1>4, Zenon DEF ReadResult
  <2> QED  BY <2>1, <2>2
<1>7. PICK due : due = {p \in r.pending : p.id = b.id}
  OBVIOUS
<1>8. PICK p : p = r.pending \ due
  OBVIOUS
<1>9. PICK c : c = IF b.failed THEN r.changed ELSE r.changed \cup Awaited(due)
  OBVIOUS
<1>10. PICK s : s = [t EXCEPT !.pending = p, !.changed = c]
  OBVIOUS
<1>11. SettleWrite(t, b) = s
  BY <1>5, <1>7, <1>8, <1>9, <1>10, Zenon DEF SettleWrite
<1>12. s.failures = t.failures /\ s.pending = p /\ s.changed = c
  BY <1>5, <1>10 DEF RoundRecords
<1> QED  BY <1>1, <1>5, <1>6, <1>7, <1>8, <1>9, <1>11, <1>12, Zenon

-----------------------------------------------------------------------------
(***************************************************************************)
(* The steps of a page's round, beside the server's account of it while    *)
(* both read the same rows: a write that waits for its result on the page  *)
(* is pending on the server, one that went well is changed, and as many    *)
(* failed.                                                                 *)
(***************************************************************************)

\* The steps of a round while its items are read: a call that is a step's has its
\* place's id, and no other step has it.
StepsWell(steps, i) ==
  /\ steps \in Seq(Steps)
  /\ \A s \in DOMAIN steps : steps[s].call # NoBlock =>
       steps[s].kind = "tool" /\ (IF ids THEN steps[s].call.id \in 1..i ELSE steps[s].call.id = NoId)
  /\ ids => \A s, t \in DOMAIN steps :
       steps[s].call # NoBlock /\ steps[t].call # NoBlock /\ steps[s].call.id = steps[t].call.id => s = t

FailedOf(steps) == {s \in DOMAIN steps : IsFailedStep(steps[s])}
Waits(turn) == ServerWrites(turn.call) # {} /\ turn.result = NoBlock
WaitsFor(turn, f) == turn.result = NoBlock /\ f \in ServerWrites(turn.call)
Awaits(turn, p) == Waits(turn) /\ p = [id |-> turn.call.id, files |-> ServerWrites(turn.call)]
WentTo(turn, f) == turn.result # NoBlock /\ ~turn.result.failed /\ f \in ServerWrites(turn.call)

\* The steps beside the server's round: as many failures; with ids the writes that
\* wait and those that went well, without them no write the server has not.
Tells(steps, r) ==
  /\ IsFiniteSet(FailedOf(steps)) /\ r.failures = Cardinality(FailedOf(steps))
  /\ ids => /\ \A p : p \in r.pending <=> \E s \in DOMAIN steps : Awaits(steps[s], p)
            /\ \A f : f \in r.changed <=> \E s \in DOMAIN steps : WentTo(steps[s], f)
  /\ ~ids => \A s \in DOMAIN steps : ServerWrites(steps[s].call) \subseteq r.changed

LEMMA NoBlockWrites == ServerWrites(NoBlock) = {} /\ PageWrites(NoBlock) = {}
BY DEF NoBlock, ServerWrites, PageWrites

LEMMA DomainMore ==
  ASSUME NEW X, NEW s \in Seq(X), NEW x \in X
  PROVE  DOMAIN Append(s, x) = DOMAIN s \cup {Len(s) + 1} /\ Len(s) + 1 \notin DOMAIN s
OBVIOUS

LEMMA FailedAppend ==
  ASSUME NEW steps \in Seq(Steps), NEW turn \in Steps, IsFiniteSet(FailedOf(steps))
  PROVE  /\ IsFiniteSet(FailedOf(Append(steps, turn)))
         /\ Cardinality(FailedOf(steps)) \in Nat
         /\ Cardinality(FailedOf(Append(steps, turn)))
              = Cardinality(FailedOf(steps)) + (IF IsFailedStep(turn) THEN 1 ELSE 0)
<1>1. PICK more : more = Append(steps, turn)
  OBVIOUS
<1>2. PICK n \in Nat : n = Len(steps)
  OBVIOUS
<1>3. DOMAIN more = DOMAIN steps \cup {n + 1} /\ n + 1 \notin DOMAIN steps /\ DOMAIN steps = 1..n
  BY <1>1, <1>2, DomainMore
<1>4. more[n + 1] = turn /\ \A s \in DOMAIN steps : more[s] = steps[s]
  BY <1>1, <1>2, <1>3, OneAppended
<1>5. PICK F : F = FailedOf(steps)
  OBVIOUS
<1>6. n + 1 \notin F
  BY <1>3, <1>5 DEF FailedOf
<1>7. Cardinality(F) \in Nat /\ IsFiniteSet(F)
  BY <1>5, FS_CardinalityType
<1>8. IsFiniteSet(F \cup {n + 1}) /\ Cardinality(F \cup {n + 1}) = Cardinality(F) + 1
  BY <1>6, <1>7, FS_AddElement
<1>9. CASE IsFailedStep(turn)
  <2>1. FailedOf(more) = F \cup {n + 1}
    BY <1>3, <1>4, <1>5, <1>9 DEF FailedOf
  <2> QED  BY <1>1, <1>5, <1>7, <1>8, <1>9, <2>1
<1>10. CASE ~IsFailedStep(turn)
  <2>1. FailedOf(more) = F
    BY <1>3, <1>4, <1>5, <1>10 DEF FailedOf
  <2> QED  BY <1>1, <1>5, <1>7, <1>10, <2>1
<1> QED  BY <1>9, <1>10

\* The result at one place.
WithAnswer(steps, c, b) == [steps EXCEPT ![c].result = b]

LEMMA AnsweredIs ==
  ASSUME NEW steps \in Seq(Steps), NEW c \in DOMAIN steps, NEW b \in Blocks, NEW more,
         more = WithAnswer(steps, c, b)
  PROVE  /\ more \in Seq(Steps) /\ DOMAIN more = DOMAIN steps
         /\ more[c].kind = steps[c].kind /\ more[c].call = steps[c].call /\ more[c].result = b
         /\ \A s \in DOMAIN steps : s # c => more[s] = steps[s]
<1>1. PICK n \in Nat : n = Len(steps)
  OBVIOUS
<1>2. DOMAIN steps = 1..n /\ steps \in [1..n -> Steps]
  BY <1>1
<1>3. PICK t \in Steps : t = steps[c]
  BY <1>2
<1>4. PICK u \in Steps : u = [t EXCEPT !.result = b]
  BY DEF Steps
<1>5. u.kind = t.kind /\ u.call = t.call /\ u.result = b
  BY <1>4 DEF Steps
<1>6. more = [steps EXCEPT ![c] = u]
  BY <1>3, <1>4, Zenon DEF WithAnswer
<1>7. more[c] = u /\ DOMAIN more = DOMAIN steps /\ \A s \in DOMAIN steps : s # c => more[s] = steps[s]
  BY <1>2, <1>6
<1> QED  BY <1>3, <1>5, <1>7, AnsweredTyped DEF WithAnswer

LEMMA FailedAnswered ==
  ASSUME NEW steps \in Seq(Steps), NEW c \in DOMAIN steps, NEW b \in Blocks, NEW more,
         more = WithAnswer(steps, c, b), steps[c].kind = "tool", steps[c].result = NoBlock,
         IsFiniteSet(FailedOf(steps))
  PROVE  /\ IsFiniteSet(FailedOf(more))
         /\ Cardinality(FailedOf(steps)) \in Nat
         /\ Cardinality(FailedOf(more)) = IF b.failed THEN Cardinality(FailedOf(steps)) + 1 ELSE Cardinality(FailedOf(steps))
<1>1. /\ DOMAIN more = DOMAIN steps /\ more[c].kind = "tool" /\ more[c].result = b
      /\ \A s \in DOMAIN steps : s # c => more[s] = steps[s]
  BY AnsweredIs
<1>2. ~NoBlock.failed
  BY DEF NoBlock
<1>3. PICK F : F = FailedOf(steps)
  OBVIOUS
<1>4. c \notin F
  BY <1>2, <1>3 DEF FailedOf, IsFailedStep
<1>5. Cardinality(F) \in Nat /\ IsFiniteSet(F)
  BY <1>3, FS_CardinalityType
<1>6. IsFiniteSet(F \cup {c}) /\ Cardinality(F \cup {c}) = Cardinality(F) + 1
  BY <1>4, <1>5, FS_AddElement
<1>7. CASE b.failed
  <2>1. FailedOf(more) = F \cup {c}
    BY <1>1, <1>3, <1>7 DEF FailedOf, IsFailedStep
  <2> QED  BY <1>3, <1>5, <1>6, <1>7, <2>1
<1>8. CASE ~b.failed
  <2>1. IsFailedStep(more[c]) = FALSE
    BY <1>1, <1>8 DEF IsFailedStep
  <2>2. FailedOf(more) = F
    BY <1>1, <1>3, <1>4, <2>1 DEF FailedOf
  <2> QED  BY <1>3, <1>5, <1>8, <2>2
<1> QED  BY <1>7, <1>8

\* A step that is no call's and did not fail tells nothing.
LEMMA StepTellsNothing ==
  ASSUME NEW steps, NEW i \in Nat, StepsWell(steps, i), NEW r, Tells(steps, r), NEW turn \in Steps,
         turn.call = NoBlock, NEW t,
         t.failures = IF IsFailedStep(turn) THEN r.failures + 1 ELSE r.failures,
         t.pending = r.pending, t.changed = r.changed
  PROVE  StepsWell(Append(steps, turn), i + 1) /\ Tells(Append(steps, turn), t)
<1>1. steps \in Seq(Steps) /\ IsFiniteSet(FailedOf(steps)) /\ r.failures = Cardinality(FailedOf(steps))
  BY DEF StepsWell, Tells
<1>2. PICK more : more = Append(steps, turn)
  OBVIOUS
<1>3. PICK n \in Nat : n = Len(steps)
  BY <1>1
<1>4. more \in Seq(Steps) /\ DOMAIN more = DOMAIN steps \cup {n + 1} /\ n + 1 \notin DOMAIN steps
  BY <1>1, <1>2, <1>3, DomainMore, OneAppended
<1>5. more[n + 1] = turn /\ \A s \in DOMAIN steps : more[s] = steps[s]
  BY <1>1, <1>2, <1>3, OneAppended
<1>6. ServerWrites(turn.call) = {}
  BY NoBlockWrites, Zenon
<1>7. StepsWell(more, i + 1)
  <2>1. \A s \in DOMAIN more : more[s].call # NoBlock =>
       more[s].kind = "tool" /\ (IF ids THEN more[s].call.id \in 1..(i + 1) ELSE more[s].call.id = NoId)
    <3>1. \A x \in 1..i : x \in 1..(i + 1)
      OBVIOUS
    <3> QED  BY <1>4, <1>5, <3>1 DEF StepsWell
  <2>3. ids => \A s, u \in DOMAIN more :
       more[s].call # NoBlock /\ more[u].call # NoBlock /\ more[s].call.id = more[u].call.id => s = u
    BY <1>4, <1>5 DEF StepsWell
  <2> QED  BY <1>4, <2>1, <2>3 DEF StepsWell
<1>8. IsFiniteSet(FailedOf(more)) /\ t.failures = Cardinality(FailedOf(more))
  BY <1>1, <1>2, FailedAppend
<1>9. (\A p : ~Awaits(turn, p)) /\ (\A f : ~WentTo(turn, f))
  BY <1>6 DEF Awaits, Waits, WentTo
<1>10. ids => /\ \A p : p \in t.pending <=>
                   \E s \in DOMAIN more : Awaits(more[s], p)
              /\ \A f : f \in t.changed <=> \E s \in DOMAIN more : WentTo(more[s], f)
  BY <1>4, <1>5, <1>9 DEF Tells
<1>11. ~ids => \A s \in DOMAIN more : ServerWrites(more[s].call) \subseteq t.changed
  BY <1>4, <1>5, <1>6 DEF Tells
<1> QED  BY <1>2, <1>7, <1>8, <1>10, <1>11 DEF Tells

\* A call.
LEMMA CallTells ==
  ASSUME NEW steps, NEW i \in Nat, StepsWell(steps, i), NEW r \in RoundRecords, Tells(steps, r),
         NEW b \in Blocks, BlockWell(b, i + 1), b.type = "toolCall", NEW when, NEW t,
         t.failures = ReadBlock(r, b, when).failures, t.pending = ReadBlock(r, b, when).pending,
         t.changed = ReadBlock(r, b, when).changed
  PROVE  /\ StepsWell(Append(steps, ToolStep(b, NoBlock)), i + 1)
         /\ Tells(Append(steps, ToolStep(b, NoBlock)), t)
<1>1. steps \in Seq(Steps) /\ IsFiniteSet(FailedOf(steps)) /\ r.failures = Cardinality(FailedOf(steps))
  BY DEF StepsWell, Tells
<1>2. PICK turn \in Steps : turn = ToolStep(b, NoBlock)
  BY NoBlockSteps
<1>3. turn.kind = "tool" /\ turn.call = b /\ turn.result = NoBlock
  BY <1>2 DEF ToolStep
<1>4. PICK more : more = Append(steps, turn)
  OBVIOUS
<1>5. PICK n \in Nat : n = Len(steps)
  BY <1>1
<1>6. more \in Seq(Steps) /\ DOMAIN more = DOMAIN steps \cup {n + 1} /\ n + 1 \notin DOMAIN steps
  BY <1>1, <1>4, <1>5, DomainMore, OneAppended
<1>7. more[n + 1] = turn /\ \A s \in DOMAIN steps : more[s] = steps[s]
  BY <1>1, <1>4, <1>5, OneAppended
<1>8. b.id = IF ids THEN i + 1 ELSE NoId
  BY DEF BlockWell
<1>9. b # NoBlock
  BY NoBlockTyped
<1>10. StepsWell(more, i + 1)
  <2>1. \A s \in DOMAIN more : more[s].call # NoBlock =>
       more[s].kind = "tool" /\ (IF ids THEN more[s].call.id \in 1..(i + 1) ELSE more[s].call.id = NoId)
    <3>1. \A x \in 1..i : x \in 1..(i + 1)
      OBVIOUS
    <3>2. i + 1 \in 1..(i + 1)
      OBVIOUS
    <3> QED  BY <1>3, <1>6, <1>7, <1>8, <3>1, <3>2 DEF StepsWell
  <2>3. ASSUME ids, NEW s \in DOMAIN more, NEW u \in DOMAIN more,
               more[s].call # NoBlock, more[u].call # NoBlock, more[s].call.id = more[u].call.id
        PROVE  s = u
    <3>1. i + 1 \notin 1..i
      OBVIOUS
    <3>2. \A v \in DOMAIN steps : steps[v].call # NoBlock => steps[v].call.id # i + 1
      BY <2>3, <3>1 DEF StepsWell
    <3> QED  BY <1>3, <1>6, <1>7, <1>8, <2>3, <3>2 DEF StepsWell
  <2> QED  BY <1>6, <2>1, <2>3 DEF StepsWell
<1>17. PICK w : w = ServerWrites(b)
  OBVIOUS
<1>11. /\ t.failures = r.failures
       /\ t.changed = IF b.id = NoId THEN r.changed \cup w ELSE r.changed
       /\ t.pending = IF w # {} /\ b.id # NoId
                      THEN {p \in r.pending : p.id # b.id} \cup {[id |-> b.id, files |-> w]} ELSE r.pending
  <2>1. PICK s : s = ReadBlock(r, b, when)
    OBVIOUS
  <2>4. CallNoted(s, r, b, w)
    BY ONLY <1>17, <2>1, r \in RoundRecords, b \in Blocks, b.type = "toolCall", CallFiles, Zenon
  <2>2. /\ s.failures = r.failures
        /\ s.changed = IF b.id = NoId THEN r.changed \cup w ELSE r.changed
        /\ s.pending = IF w # {} /\ b.id # NoId
                       THEN {p \in r.pending : p.id # b.id} \cup {[id |-> b.id, files |-> w]} ELSE r.pending
    BY ONLY <2>4, Zenon DEF CallNoted
  <2>3. t.failures = s.failures /\ t.pending = s.pending /\ t.changed = s.changed
    BY <2>1
  <2> QED  BY ONLY <2>2, <2>3, Zenon
<1>12. ~IsFailedStep(turn)
  BY <1>3 DEF IsFailedStep, NoBlock
<1>13. IsFiniteSet(FailedOf(more)) /\ t.failures = Cardinality(FailedOf(more))
  BY <1>1, <1>4, <1>11, <1>12, FailedAppend
<1>14. (\A f : ~WentTo(turn, f)) /\ (\A p : Awaits(turn, p) <=> w # {} /\ p = [id |-> b.id, files |-> w])
  BY <1>3, <1>17 DEF Awaits, Waits, WentTo
<1>15. ASSUME ids
       PROVE /\ \A p : p \in t.pending <=>
                  \E s \in DOMAIN more : Awaits(more[s], p)
             /\ \A f : f \in t.changed <=> \E s \in DOMAIN more : WentTo(more[s], f)
  <2>1. b.id = i + 1 /\ b.id # NoId
    BY <1>8, <1>15 DEF NoId
  <2>2. /\ \A p : p \in r.pending <=>
             \E s \in DOMAIN steps : Awaits(steps[s], p)
        /\ \A f : f \in r.changed <=> \E s \in DOMAIN steps : WentTo(steps[s], f)
    BY <1>15 DEF Tells
  <2>3. \A f : f \in t.changed <=> \E s \in DOMAIN more : WentTo(more[s], f)
    BY <1>6, <1>7, <1>11, <1>14, <2>1, <2>2
  <2>4. \A p \in r.pending : p.id # b.id
    <3> SUFFICES ASSUME NEW p \in r.pending PROVE p.id # b.id
      OBVIOUS
    <3>1. PICK s \in DOMAIN steps : Awaits(steps[s], p)
      BY <2>2
    <3>2. steps[s].call # NoBlock
      BY <3>1, NoBlockWrites DEF Awaits, Waits
    <3>4. steps[s].call.id \in 1..i
      BY <1>15, <3>2 DEF StepsWell
    <3>3. p.id = steps[s].call.id
      BY <3>1 DEF Awaits
    <3> QED  BY <2>1, <3>3, <3>4
  <2>6. PICK q : q = [id |-> b.id, files |-> w]
    OBVIOUS
  <2>5. t.pending = IF w # {} THEN r.pending \cup {q} ELSE r.pending
    BY <1>11, <2>1, <2>4, <2>6
  <2>7. \A p : p \in t.pending <=> \E s \in DOMAIN more : Awaits(more[s], p)
    <3>1. \A p : p \in t.pending <=> p \in r.pending \/ Awaits(turn, p)
      BY <1>14, <2>5, <2>6
    <3> QED  BY <1>6, <1>7, <2>2, <3>1
  <2> QED  BY <2>3, <2>7
<1>16. ASSUME ~ids, NEW s \in DOMAIN more PROVE ServerWrites(more[s].call) \subseteq t.changed
  <2>1. t.changed = r.changed \cup w
    BY <1>8, <1>11, <1>16
  <2>2. CASE s = n + 1
    BY <1>3, <1>7, <1>17, <2>1, <2>2
  <2>3. CASE s \in DOMAIN steps
    BY <1>7, <1>16, <2>1, <2>3 DEF Tells
  <2> QED  BY <1>6, <2>2, <2>3
<1> QED  BY <1>2, <1>4, <1>10, <1>13, <1>15, <1>16 DEF Tells

LEMMA MaxOfOne == ASSUME NEW c \in Int PROVE Max({c}) = c
BY DEF Max

\* A result answers one step or none.
LEMMA ClaimsOne ==
  ASSUME NEW steps, NEW i \in Nat, StepsWell(steps, i), NEW b \in Blocks, b.type = "toolResult", BlockWell(b, i + 1)
  PROVE  \/ Claimed(steps, b) = {} /\ (ids => \A s \in DOMAIN steps :
              steps[s].call # NoBlock /\ steps[s].result = NoBlock => steps[s].call.id # b.id)
         \/ \E c \in DOMAIN steps :
              /\ Claimed(steps, b) = {c} /\ Max(Claimed(steps, b)) = c
              /\ steps[c].call # NoBlock /\ steps[c].result = NoBlock /\ (ids => steps[c].call.id = b.id)
<1>1. steps \in Seq(Steps)
  BY DEF StepsWell
<1>2. DOMAIN steps \in SUBSET Nat
  BY <1>1
<1> DEFINE Waiting == {s \in DOMAIN steps : steps[s].call # NoBlock /\ steps[s].result = NoBlock}
           Named == {s \in Waiting : steps[s].call.name = b.name}
<1>3. Claimed(steps, b) = IF b.id # NoId THEN {s \in Waiting : steps[s].call.id = b.id}
                          ELSE IF Named # {} THEN {Min(Named)} ELSE {s \in Waiting : s = Min(Waiting)}
  BY Zenon DEF Claimed
<1>4. Waiting \in SUBSET Nat /\ Named \in SUBSET Nat /\ Named \subseteq Waiting
  BY <1>2
<1>5. \A c \in Waiting : c \in DOMAIN steps /\ c \in Int /\ steps[c].call # NoBlock /\ steps[c].result = NoBlock
  BY <1>4
<1>6. CASE b.id # NoId /\ ids
  <2>1. \A c, s \in Waiting : steps[c].call.id = steps[s].call.id => c = s
    BY <1>5, <1>6 DEF StepsWell
  <2>2. CASE \E c \in Waiting : steps[c].call.id = b.id
    <3>1. PICK c \in Waiting : steps[c].call.id = b.id
      BY <2>2
    <3>2. Claimed(steps, b) = {c}
      <4> HIDE DEF Waiting, Named
      <4> QED  BY <1>3, <1>6, <2>1, <3>1
    <3> QED  BY <1>5, <3>1, <3>2, MaxOfOne
  <2>3. CASE ~\E c \in Waiting : steps[c].call.id = b.id
    BY <1>3, <1>6, <2>3
  <2> QED  BY <2>2, <2>3
<1>7. CASE b.id # NoId /\ ~ids
  <2>1. \A s \in Waiting : steps[s].call.id = NoId
    BY <1>5, <1>7 DEF StepsWell
  <2>2. Claimed(steps, b) = {}
    <3> HIDE DEF Waiting, Named
    <3> QED  BY <1>3, <1>7, <2>1
  <2> QED  BY <1>7, <2>2
<1>8. CASE b.id = NoId
  <2>1. ~ids
    BY <1>8 DEF BlockWell
  <2>2. CASE Named # {}
    <3>1. Min(Named) \in Named
      <4> HIDE DEF Waiting, Named
      <4> QED  BY <1>4, <2>2, MinIs
    <3>2. Claimed(steps, b) = {Min(Named)}
      BY <1>3, <1>8, <2>2
    <3>3. PICK c \in Waiting : c = Min(Named)
      BY <1>4, <3>1
    <3>4. Claimed(steps, b) = {c} /\ Max(Claimed(steps, b)) = c
      BY <1>5, <3>2, <3>3, MaxOfOne
    <3> QED  BY <1>5, <2>1, <3>4
  <2>3. CASE Named = {} /\ Waiting # {}
    <3>1. Min(Waiting) \in Waiting
      <4> HIDE DEF Waiting, Named
      <4> QED  BY <1>4, <2>3, MinIs
    <3>2. Claimed(steps, b) = {s \in Waiting : s = Min(Waiting)}
      BY <1>3, <1>8, <2>3
    <3>3. PICK c \in Waiting : c = Min(Waiting)
      BY <3>1
    <3>4. Claimed(steps, b) = {c}
      <4> HIDE DEF Waiting, Named
      <4> QED  BY <3>2, <3>3
    <3>5. Max(Claimed(steps, b)) = c
      BY <1>5, <3>4, MaxOfOne
    <3> QED  BY <1>5, <2>1, <3>4, <3>5
  <2>4. CASE Waiting = {}
    <3>1. Claimed(steps, b) = {}
      BY <1>3, <1>4, <1>8, <2>4
    <3> QED  BY <2>1, <3>1
  <2> QED  BY <2>2, <2>3, <2>4
<1> QED  BY <1>6, <1>7, <1>8

\* What the server has pending for a result, with ids.
LEMMA DueIs ==
  ASSUME NEW steps, NEW i \in Nat, StepsWell(steps, i), NEW r, Tells(steps, r), NEW b, ids
  PROVE  \A p : p \in {q \in r.pending : q.id = b.id} <=>
           \E s \in DOMAIN steps : Awaits(steps[s], p) /\ steps[s].call.id = b.id
<1>1. \A p : p \in r.pending <=> \E s \in DOMAIN steps : Awaits(steps[s], p)
  BY DEF Tells
<1>2. \A p, s : Awaits(steps[s], p) => p.id = steps[s].call.id
  BY DEF Awaits
<1> QED  BY <1>1, <1>2

\* A result that answers a step.
LEMMA AnswerTells ==
  ASSUME NEW steps, NEW i \in Nat, StepsWell(steps, i), NEW r \in RoundRecords, Tells(steps, r),
         NEW b \in Blocks, b.type = "toolResult", NEW when \in Nat, NEW t,
         t.failures = ReadBlock(r, b, when).failures, t.pending = ReadBlock(r, b, when).pending,
         t.changed = ReadBlock(r, b, when).changed,
         NEW c \in DOMAIN steps, steps[c].call # NoBlock, steps[c].result = NoBlock, ids => steps[c].call.id = b.id,
         NEW more, more = WithAnswer(steps, c, b)
  PROVE  StepsWell(more, i + 1) /\ Tells(more, t)
<1>1. steps \in Seq(Steps) /\ IsFiniteSet(FailedOf(steps)) /\ r.failures = Cardinality(FailedOf(steps))
  BY DEF StepsWell, Tells
<1>2. /\ more \in Seq(Steps) /\ DOMAIN more = DOMAIN steps
      /\ more[c].kind = steps[c].kind /\ more[c].call = steps[c].call /\ more[c].result = b
      /\ \A s \in DOMAIN steps : s # c => more[s] = steps[s]
  BY <1>1, AnsweredIs
<1>3. b # NoBlock
  BY NoBlockTyped
<1>4. \A s \in DOMAIN steps : more[s].call = steps[s].call /\ more[s].kind = steps[s].kind
  BY <1>2
<1>5. StepsWell(more, i + 1)
  <2>1. \A x \in 1..i : x \in 1..(i + 1)
    OBVIOUS
  <2>2. \A s \in DOMAIN more : more[s].call # NoBlock =>
       more[s].kind = "tool" /\ (IF ids THEN more[s].call.id \in 1..(i + 1) ELSE more[s].call.id = NoId)
    BY <1>2, <1>4, <2>1 DEF StepsWell
  <2>4. ids => \A s, u \in DOMAIN more :
       more[s].call # NoBlock /\ more[u].call # NoBlock /\ more[s].call.id = more[u].call.id => s = u
    BY <1>2, <1>4 DEF StepsWell
  <2> QED  BY <1>2, <2>2, <2>4 DEF StepsWell
<1>6. steps[c].kind = "tool"
  BY DEF StepsWell
<1>7. PICK due : due = {q \in r.pending : q.id = b.id}
  OBVIOUS
<1>8. /\ t.failures = IF b.failed THEN r.failures + 1 ELSE r.failures
      /\ t.changed = IF b.failed THEN r.changed ELSE r.changed \cup Awaited(due)
      /\ t.pending = r.pending \ due
  BY <1>7, ResultFiles
<1>9. IsFiniteSet(FailedOf(more)) /\ t.failures = Cardinality(FailedOf(more))
  <2>1. /\ IsFiniteSet(FailedOf(more)) /\ Cardinality(FailedOf(steps)) \in Nat
        /\ Cardinality(FailedOf(more)) = IF b.failed THEN Cardinality(FailedOf(steps)) + 1 ELSE Cardinality(FailedOf(steps))
    BY <1>1, <1>6, FailedAnswered
  <2> QED  BY <1>1, <1>8, <2>1
<1>10. ASSUME ids
       PROVE /\ \A p : p \in t.pending <=> \E s \in DOMAIN more : Awaits(more[s], p)
             /\ \A f : f \in t.changed <=> \E s \in DOMAIN more : WentTo(more[s], f)
  <2>1. /\ \A p : p \in r.pending <=> \E s \in DOMAIN steps : Awaits(steps[s], p)
        /\ \A f : f \in r.changed <=> \E s \in DOMAIN steps : WentTo(steps[s], f)
    BY <1>10 DEF Tells
  <2>2. \A p : p \in due <=> \E s \in DOMAIN steps : Awaits(steps[s], p) /\ steps[s].call.id = b.id
    BY <1>7, <1>10, DueIs
  <2>3. ASSUME NEW s \in DOMAIN steps, NEW p, Awaits(steps[s], p), steps[s].call.id = b.id PROVE s = c
    <3>1. steps[s].call # NoBlock
      BY <2>3, NoBlockWrites DEF Awaits, Waits
    <3> QED  BY <1>10, <2>3, <3>1 DEF StepsWell
  <2>4. steps[c].call.id = b.id
    BY <1>10
  <2>11. PICK w : w = ServerWrites(steps[c].call)
    OBVIOUS
  <2>5. /\ \A p : ~Awaits(more[c], p)
        /\ \A f : ~WentTo(steps[c], f) /\ (WentTo(more[c], f) <=> ~b.failed /\ f \in w)
    BY <1>2, <1>3, <2>11 DEF Awaits, Waits, WentTo
  <2>12. \A p : Awaits(steps[c], p) <=> w # {} /\ p = [id |-> steps[c].call.id, files |-> w]
    BY <2>11 DEF Awaits, Waits
  <2>6. \A p : p \in due <=> Awaits(steps[c], p)
    BY <2>2, <2>3, <2>4
  <2>7. \A p : p \in t.pending <=> \E s \in DOMAIN more : Awaits(more[s], p)
    <3>1. \A p : p \in t.pending <=> (\E s \in DOMAIN steps : Awaits(steps[s], p)) /\ p \notin due
      BY <1>8, <2>1
    <3>4. \A p : \A s \in DOMAIN steps : s # c /\ Awaits(steps[s], p) => p \notin due
      <4> SUFFICES ASSUME NEW s \in DOMAIN steps, NEW p, s # c, Awaits(steps[s], p), p \in due PROVE FALSE
        OBVIOUS
      <4>1. p.id = b.id
        BY <1>7
      <4>2. p.id = steps[s].call.id
        BY DEF Awaits
      <4> QED  BY <2>3, <4>1, <4>2
    <3> QED  BY <1>2, <2>5, <2>6, <3>1, <3>4
  <2>8. \A f : f \in Awaited(due) <=> f \in w
    <3>1. CASE w = {}
      <4>1. due = {}
        BY <2>6, <2>12, <3>1
      <4> QED  BY <3>1, <4>1 DEF Awaited
    <3>2. CASE w # {}
      <4>1. PICK q : q = [id |-> steps[c].call.id, files |-> w]
        OBVIOUS
      <4>2. q.files = w
        BY <4>1
      <4>3. due = {q}
        BY <2>6, <2>12, <3>2, <4>1
      <4> QED  BY <4>2, <4>3 DEF Awaited
    <3> QED  BY <3>1, <3>2
  <2>9. \A f : f \in t.changed <=> f \in r.changed \/ WentTo(more[c], f)
    BY <1>8, <2>5, <2>8
  <2>10. \A f : f \in t.changed <=> \E s \in DOMAIN more : WentTo(more[s], f)
    BY <1>2, <2>1, <2>5, <2>9
  <2> QED  BY <2>7, <2>10
<1>11. ASSUME ~ids, NEW s \in DOMAIN more PROVE ServerWrites(more[s].call) \subseteq t.changed
  <2>1. ServerWrites(steps[s].call) \subseteq r.changed
    BY <1>2, <1>11 DEF Tells
  <2> QED  BY <1>2, <1>4, <1>8, <2>1
<1> QED  BY <1>5, <1>9, <1>10, <1>11 DEF Tells

\* A result that answers none.
LEMMA LateTells ==
  ASSUME NEW steps, NEW i \in Nat, StepsWell(steps, i), NEW r \in RoundRecords, Tells(steps, r),
         NEW b \in Blocks, b.type = "toolResult", NEW when \in Nat, NEW t,
         t.failures = ReadBlock(r, b, when).failures, t.pending = ReadBlock(r, b, when).pending,
         t.changed = ReadBlock(r, b, when).changed,
         ids => \A s \in DOMAIN steps : steps[s].call # NoBlock /\ steps[s].result = NoBlock => steps[s].call.id # b.id
  PROVE  StepsWell(Append(steps, ToolStep(NoBlock, b)), i + 1) /\ Tells(Append(steps, ToolStep(NoBlock, b)), t)
<1>1. PICK turn \in Steps : turn = ToolStep(NoBlock, b)
  BY NoBlockSteps
<1>2. turn.kind = "tool" /\ turn.call = NoBlock /\ turn.result = b
  BY <1>1 DEF ToolStep
<1>3. PICK due : due = {q \in r.pending : q.id = b.id}
  OBVIOUS
<1>4. /\ t.failures = IF b.failed THEN r.failures + 1 ELSE r.failures
      /\ t.changed = IF b.failed THEN r.changed ELSE r.changed \cup Awaited(due)
      /\ t.pending = r.pending \ due
  BY <1>3, ResultFiles
<1>5. IsFailedStep(turn) <=> b.failed
  BY <1>2 DEF IsFailedStep
<1>6. CASE ids
  <2>1. due = {}
    <3> SUFFICES ASSUME NEW p \in due PROVE FALSE
      OBVIOUS
    <3>1. PICK s \in DOMAIN steps : Awaits(steps[s], p) /\ steps[s].call.id = b.id
      BY <1>3, <1>6, DueIs
    <3>2. steps[s].call # NoBlock /\ steps[s].result = NoBlock
      BY <3>1, NoBlockWrites DEF Awaits, Waits
    <3> QED  BY <1>6, <3>1, <3>2
  <2>5. Awaited(due) = {}
    BY ONLY <2>1 DEF Awaited
  <2>2. t.changed = r.changed /\ t.pending = r.pending
    BY ONLY <1>4, <2>1, <2>5
  <2>3. t.failures = IF IsFailedStep(turn) THEN r.failures + 1 ELSE r.failures
    BY <1>4, <1>5
  <2>4. StepsWell(Append(steps, turn), i + 1) /\ Tells(Append(steps, turn), t)
    BY ONLY <1>1, <1>2, <2>2, <2>3, i \in Nat, StepsWell(steps, i), Tells(steps, r), StepTellsNothing
  <2> QED  BY <1>1, <2>4
<1>7. CASE ~ids
  <2>1. PICK u : u = [failures |-> t.failures, changed |-> r.changed, pending |-> r.pending]
    OBVIOUS
  <2>2. u.failures = t.failures /\ u.changed = r.changed /\ u.pending = r.pending
    BY <2>1
  <2>3. u.failures = IF IsFailedStep(turn) THEN r.failures + 1 ELSE r.failures
    BY <1>4, <1>5, <2>2
  <2>4. StepsWell(Append(steps, turn), i + 1) /\ Tells(Append(steps, turn), u)
    BY ONLY <1>1, <1>2, <2>2, <2>3, i \in Nat, StepsWell(steps, i), Tells(steps, r), StepTellsNothing
  <2>5. r.changed \subseteq t.changed
    BY <1>4
  <2> QED  BY <1>1, <1>7, <2>2, <2>4, <2>5 DEF Tells
<1> QED  BY <1>6, <1>7

LEMMA TellsWiden ==
  ASSUME NEW steps, NEW i \in Nat, StepsWell(steps, i)
  PROVE  StepsWell(steps, i + 1)
<1>1. \A x \in 1..i : x \in 1..(i + 1)
  OBVIOUS
<1> QED  BY <1>1 DEF StepsWell

\* One item read on the page, and its row on the server.
LEMMA ItemTells ==
  ASSUME NEW steps, NEW i \in Nat, StepsWell(steps, i), NEW r \in RoundRecords, Tells(steps, r),
         NEW m \in SessionRows, BlockWell(m.block, i + 1), NEW t, t = ReadRow(r, m, FALSE),
         NEW reply \in BOOLEAN
  PROVE  LET more == IF reply /\ m.block = NoBlock THEN steps ELSE ReadStep(steps, m)
         IN  StepsWell(more, i + 1) /\ Tells(more, t)
<1>1. PICK b \in Blocks : b = m.block
  BY DEF SessionRows
<1>2. PICK when \in Nat : when = m.at
  BY DEF SessionRows
<1>3. /\ t.failures = ReadBlock(r, b, when).failures /\ t.changed = ReadBlock(r, b, when).changed
      /\ t.pending = ReadBlock(r, b, when).pending
  BY <1>1, <1>2, RowFiles
<1>4. BlockWell(b, i + 1)
  BY <1>1
<1>5. PICK more : more = IF reply /\ m.block = NoBlock THEN steps ELSE ReadStep(steps, m)
  OBVIOUS
<1>6. CASE b.type = "toolCall"
  <2>1. b # NoBlock
    BY <1>6, NoBlockTyped
  <2>2. more = Append(steps, ToolStep(b, NoBlock))
    BY <1>1, <1>5, <1>6, <2>1 DEF ReadStep
  <2>3. StepsWell(more, i + 1) /\ Tells(more, t)
    BY <1>3, <1>4, <1>6, <2>2, CallTells
  <2> QED  BY <1>5, <2>3
<1>7. CASE b.type = "toolResult"
  <2>1. b # NoBlock
    BY <1>7, NoBlockTyped
  <2>2. more = IF Claimed(steps, b) = {} THEN Append(steps, ToolStep(NoBlock, b))
               ELSE WithAnswer(steps, Max(Claimed(steps, b)), b)
    BY <1>1, <1>5, <1>7, <2>1 DEF ReadStep, WithAnswer
  <2>3. \/ Claimed(steps, b) = {} /\ (ids => \A s \in DOMAIN steps :
              steps[s].call # NoBlock /\ steps[s].result = NoBlock => steps[s].call.id # b.id)
        \/ \E c \in DOMAIN steps :
              /\ Claimed(steps, b) = {c} /\ Max(Claimed(steps, b)) = c
              /\ steps[c].call # NoBlock /\ steps[c].result = NoBlock /\ (ids => steps[c].call.id = b.id)
    BY <1>4, <1>7, ClaimsOne
  <2>4. CASE Claimed(steps, b) = {} /\ (ids => \A s \in DOMAIN steps :
              steps[s].call # NoBlock /\ steps[s].result = NoBlock => steps[s].call.id # b.id)
    <3>1. more = Append(steps, ToolStep(NoBlock, b))
      BY <2>2, <2>4
    <3>2. StepsWell(more, i + 1) /\ Tells(more, t)
      BY <1>3, <1>7, <2>4, <3>1, LateTells
    <3> QED  BY <1>5, <3>2
  <2>5. CASE \E c \in DOMAIN steps :
              /\ Claimed(steps, b) = {c} /\ Max(Claimed(steps, b)) = c
              /\ steps[c].call # NoBlock /\ steps[c].result = NoBlock /\ (ids => steps[c].call.id = b.id)
    <3>1. PICK c \in DOMAIN steps :
              /\ Claimed(steps, b) = {c} /\ Max(Claimed(steps, b)) = c
              /\ steps[c].call # NoBlock /\ steps[c].result = NoBlock /\ (ids => steps[c].call.id = b.id)
      BY <2>5
    <3>2. more = WithAnswer(steps, c, b)
      BY <2>2, <3>1
    <3>3. StepsWell(more, i + 1) /\ Tells(more, t)
      BY <1>3, <1>7, <3>1, <3>2, AnswerTells
    <3> QED  BY <1>5, <3>3
  <2> QED  BY <2>3, <2>4, <2>5
<1>8. CASE b.type \notin {"toolCall", "toolResult"}
  <2>1. t.failures = r.failures /\ t.pending = r.pending /\ t.changed = r.changed
    BY <1>3, <1>8, OtherFiles
  <2>2. CASE reply /\ m.block = NoBlock
    <3>1. more = steps
      BY <1>5, <2>2
    <3>2. StepsWell(more, i + 1)
      BY <3>1, TellsWiden
    <3>3. Tells(more, t)
      BY <2>1, <3>1 DEF Tells
    <3> QED  BY <1>5, <3>2, <3>3
  <2>3. CASE ~(reply /\ m.block = NoBlock)
    <3>1. PICK turn \in Steps : (turn = OtherStep("event") \/ turn = OtherStep("note")) /\ more = Append(steps, turn)
      BY <1>1, <1>5, <1>8, <2>3, NoBlockSteps DEF ReadStep
    <3>2. turn.call = NoBlock /\ turn.kind # "tool"
      BY <3>1 DEF OtherStep
    <3>3. ~IsFailedStep(turn)
      BY <3>2 DEF IsFailedStep
    <3>4. StepsWell(more, i + 1) /\ Tells(more, t)
      BY <2>1, <3>1, <3>2, <3>3, StepTellsNothing
    <3> QED  BY <1>5, <3>4
  <2> QED  BY <2>2, <2>3
<1> QED  BY <1>6, <1>7, <1>8

LEMMA OneAppendedAt ==
  ASSUME NEW X, NEW s \in Seq(X), NEW x
  PROVE  Append(s, x)[Len(s) + 1] = x
OBVIOUS

\* The round that begins with an ask.
LEMMA AskBegins ==
  ASSUME NEW read \in Seq(SessionRows), NEW a \in 1..Len(read), IsRoundStart(read[a]), NEW k, k = Len(ReadUpTo(read)[a])
  PROVE  /\ k \in Nat \ {0}
         /\ ReadUpTo(read)[a][k] = ReadRow(NewRound(k, read[a].at), read[a], TRUE)
<1>1. PICK old \in Seq(RoundRecords) : old = ReadUpTo(read)[a - 1]
  BY NextOf
<1>2. PICK now \in Seq(RoundRecords) : now = ReadUpTo(read)[a]
  BY NextOf
<1>3. PICK m \in SessionRows : m = read[a]
  OBVIOUS
<1>4. now = NextRow(old, m) /\ Len(now) = Len(old) + 1
  BY <1>1, <1>2, <1>3, NextOf
<1>5. PICK r : r = ReadRow(NewRound(Len(old) + 1, m.at), m, TRUE)
  OBVIOUS
<1>6. now = Append(old, r)
  BY <1>3, <1>4, <1>5 DEF NextRow
<1>7. now[Len(old) + 1] = r
  BY <1>6, OneAppendedAt
<1>8. Len(old) \in Nat
  OBVIOUS
<1>9. k = Len(old) + 1
  BY <1>2, <1>4
<1>10. k \in Nat \ {0}
  BY <1>8, <1>9
<1> QED  BY <1>2, <1>3, <1>5, <1>7, <1>9, <1>10

\* The round that goes on with a row.
LEMMA RowGoesOn ==
  ASSUME NEW read \in Seq(SessionRows), NEW j \in 1..Len(read), NEW k \in Nat \ {0},
         k = Len(ReadUpTo(read)[j]), k = Len(ReadUpTo(read)[j - 1])
  PROVE  /\ ReadUpTo(read)[j - 1][k] \in RoundRecords
         /\ ReadUpTo(read)[j][k] = ReadRow(ReadUpTo(read)[j - 1][k], read[j], FALSE)
<1>1. PICK old \in Seq(RoundRecords) : old = ReadUpTo(read)[j - 1]
  BY NextOf
<1>2. PICK now \in Seq(RoundRecords) : now = ReadUpTo(read)[j]
  BY NextOf
<1>3. PICK m \in SessionRows : m = read[j]
  OBVIOUS
<1>4. now = NextRow(old, m) /\ Len(now) = Len(old) + (IF IsRoundStart(m) THEN 1 ELSE 0)
  BY <1>1, <1>2, <1>3, NextOf
<1>10. Len(now) = k /\ Len(old) = k
  BY <1>1, <1>2
<1>5. Len(now) = k /\ Len(old) = k /\ old # <<>> /\ k \in 1..Len(old)
  BY <1>10
<1>6. ~IsRoundStart(m)
  <2>1. k = k + (IF IsRoundStart(m) THEN 1 ELSE 0)
    BY <1>4, <1>5
  <2>2. k # k + 1
    OBVIOUS
  <2> QED  BY <2>1, <2>2, Zenon
<1>7. PICK r : r = ReadRow(old[k], m, FALSE)
  OBVIOUS
<1>8. now = [old EXCEPT ![Len(old)] = r]
  BY <1>4, <1>5, <1>6, <1>7, Zenon DEF NextRow
<1>9. now[k] = r
  BY <1>5, <1>8
<1> QED  BY <1>1, <1>2, <1>3, <1>5, <1>7, <1>9

\* A round of the page, read to its end.
LEMMA RoundTells ==
  ASSUME SessionTypes, TimesGrow, CallsWell, NEW k, NEW page, NEW round,
         PageFits(rows, Len(rows), k, page, round), NEW items, items = ItemsOf(rows, page)
  PROVE  /\ items \in Seq(SessionRows) /\ Len(items) = Len(page.items)
         /\ StepsWell(StepsOf(items), page.ask + Len(items)) /\ Tells(StepsOf(items), round)
         /\ WorkedUpTo(items, rows[page.ask].at)[Len(items)] = WorkEnd(round)
<1>1. PICK read \in Seq(SessionRows) : read = rows
  BY DEF SessionTypes
<1>2. page \in Pages
  BY DEF PageFits
<1>3. PICK a \in 1..Len(read) : a = page.ask
  BY <1>1 DEF PageFits
<1>4. PICK L \in Nat : L = Len(page.items)
  <2>1. PICK its \in Seq(Nat) : its = page.items
    BY <1>2 DEF Pages
  <2> QED  BY <2>1
<1>5. /\ IsRoundStart(read[a]) /\ a + L <= Len(read) /\ a \in Nat /\ Len(read) \in Nat
      /\ \A i \in 1..L : page.items[i] = a + i
      /\ \A j \in a..(a + L) : Len(ReadUpTo(read)[j]) = k
      /\ round = ReadUpTo(read)[a + L][k]
  BY <1>1, <1>3, <1>4 DEF PageFits
<1>6. items = [n \in 1..L |-> read[page.items[n]]]
  BY <1>1, <1>4 DEF ItemsOf
<1>7. \A n \in 1..L : items[n] = read[a + n] /\ a + n \in 1..Len(read) /\ read[a + n] \in SessionRows
  <2> SUFFICES ASSUME NEW n \in 1..L PROVE items[n] = read[a + n] /\ a + n \in 1..Len(read) /\ read[a + n] \in SessionRows
    OBVIOUS
  <2>1. a + n \in 1..Len(read)
    BY <1>5
  <2>2. items[n] = read[page.items[n]] /\ page.items[n] = a + n
    BY <1>5, <1>6
  <2> QED  BY <2>1, <2>2
<1>8. items \in Seq(SessionRows) /\ Len(items) = L
  <2>1. items \in [1..L -> SessionRows]
    <3>1. items = [n \in 1..L |-> items[n]]
      BY <1>6
    <3>2. \A n \in 1..L : items[n] \in SessionRows
      BY <1>7
    <3> QED  BY <3>1, <3>2
  <2> QED  BY <2>1
<1>9. PICK begun \in Nat : begun = read[a].at
  BY TimesTyped
<1>10. begun # NoTime /\ IsRoundStart(read[a])
  BY <1>1, <1>5, <1>9 DEF TimesGrow, Timely
<1>11. k \in Nat \ {0} /\ ReadUpTo(read)[a][k] = ReadRow(NewRound(k, begun), read[a], TRUE)
  <2>1. a \in a..(a + L)
    BY <1>5
  <2>2. k = Len(ReadUpTo(read)[a])
    BY <1>5, <2>1
  <2> QED  BY <1>5, <1>9, <2>2, AskBegins
<1> DEFINE R(n) == ReadUpTo(read)[a + n][k]
           S(n) == AnalysedUpTo(items)[n]
           W(n) == WorkedUpTo(items, begun)[n]
           Good == {n \in 0..L : /\ StepsWell(S(n), a + n) /\ Tells(S(n), R(n))
                                 /\ W(n) = R(n).endAt /\ R(n).endAt # NoTime /\ R(n) \in RoundRecords}
<1>12. 0 \in Good
  <2>1. PICK z \in RoundRecords : z = NewRound(k, begun)
    BY <1>11, NewRoundTyped
  <2>2. PICK m \in SessionRows : m = read[a]
    OBVIOUS
  <2>3. PICK r \in RoundRecords : r = ReadRow(z, m, TRUE)
    BY ReadRowTyped
  <2>4. m.block = NoBlock /\ m.at = begun
    <3>1. m.words # "none"
      BY <1>5, <2>2 DEF IsRoundStart, HasWordsOf
    <3> QED  BY <1>1, <1>9, <2>2, <3>1 DEF CallsWell
  <2>5. r.endAt = begun
    <3>1. r.endAt = Later(z.endAt, m.at)
      BY <2>3, RowTimes
    <3> QED  BY <1>10, <2>4, <3>1 DEF Later
  <2>6. r.failures = 0 /\ r.changed = {} /\ r.pending = {}
    <3>1. PICK t : t = ReadBlock(z, m.block, m.at)
      OBVIOUS
    <3>2. r.failures = t.failures /\ r.changed = t.changed /\ r.pending = t.pending
      BY <2>3, <3>1, RowFiles
    <3>3. t.failures = z.failures /\ t.changed = z.changed /\ t.pending = z.pending
      BY <2>4, <3>1, NoBlockTyped, OtherFiles
    <3>4. z.failures = 0 /\ z.changed = {} /\ z.pending = {}
      BY <2>1 DEF NewRound
    <3> QED  BY <3>2, <3>3, <3>4
  <2>12. a + 0 = a
    BY <1>5
  <2>7. R(0) = r
    BY <1>11, <2>1, <2>2, <2>3, <2>12
  <2>8. S(0) = <<>> /\ W(0) = begun
    BY <1>8, AnalysedSteps, WorkedSteps
  <2>9. StepsWell(<<>>, a)
    BY DEF StepsWell
  <2>10. Tells(<<>>, r)
    <3>1. FailedOf(<<>>) = {}
      BY DEF FailedOf
    <3>2. IsFiniteSet(FailedOf(<<>>)) /\ Cardinality(FailedOf(<<>>)) = 0
      BY <3>1, FS_EmptySet
    <3> QED  BY <2>6, <3>2 DEF Tells
  <2>11. 0 \in 0..L /\ a + 0 = a
    OBVIOUS
  <2> HIDE DEF R, S, W
  <2> QED  BY <1>10, <2>5, <2>7, <2>8, <2>9, <2>10, <2>11
<1>13. ASSUME NEW n \in 1..L, n - 1 \in Good PROVE n \in Good
  <2>1. PICK j \in 1..Len(read) : j = a + n
    BY <1>7
  <2>2. j - 1 = a + (n - 1) /\ n \in 0..L /\ n - 1 \in 0..L
    BY <2>1
  <2>3. /\ StepsWell(S(n - 1), j - 1) /\ Tells(S(n - 1), R(n - 1))
        /\ W(n - 1) = R(n - 1).endAt /\ R(n - 1).endAt # NoTime /\ R(n - 1) \in RoundRecords
    BY <1>13, <2>2
  <2>4. Len(ReadUpTo(read)[j]) = k /\ Len(ReadUpTo(read)[j - 1]) = k
    <3>1. j \in a..(a + L) /\ j - 1 \in a..(a + L)
      BY <2>1, <2>2
    <3> QED  BY <1>5, <3>1
  <2>5. PICK r \in RoundRecords : r = R(n - 1)
    BY <2>3
  <2>6. PICK m \in SessionRows : m = read[j]
    OBVIOUS
  <2>7. PICK t : t = ReadRow(r, m, FALSE)
    OBVIOUS
  <2>8. R(n) = t
    <3>1. ReadUpTo(read)[j][k] = ReadRow(ReadUpTo(read)[j - 1][k], read[j], FALSE)
      BY <1>11, <2>4, RowGoesOn
    <3> QED  BY <2>1, <2>2, <2>5, <2>6, <2>7, <3>1
  <2>9. items[n] = m
    BY <1>7, <2>1, <2>6
  <2>10. t \in RoundRecords /\ t.endAt = IF IsWork(m) THEN Later(r.endAt, m.at) ELSE r.endAt
    BY <2>7, RowTimes
  <2>11. W(n) = t.endAt
    <3>1. W(n) = IF IsWork(items[n]) THEN Later(W(n - 1), items[n].at) ELSE W(n - 1)
      BY <1>8, WorkedSteps
    <3> HIDE DEF W, R, S
    <3> QED  BY <2>3, <2>5, <2>9, <2>10, <3>1
  <2>12. t.endAt # NoTime
    BY <2>3, <2>5, <2>10 DEF Later
  <2>13. PICK reply \in BOOLEAN : reply = IsReply(items, n)
    BY DEF IsReply
  <2>14. S(n) = IF reply /\ m.block = NoBlock THEN S(n - 1) ELSE ReadStep(S(n - 1), m)
    <3>1. S(n) = IF IsReply(items, n) /\ items[n].block = NoBlock THEN S(n - 1) ELSE ReadStep(S(n - 1), items[n])
      BY <1>8, AnalysedSteps
    <3> HIDE DEF S
    <3> QED  BY <2>9, <2>13, <3>1
  <2>15. j - 1 \in Nat /\ (j - 1) + 1 = j /\ BlockWell(m.block, j)
    BY <1>1, <2>6 DEF CallsWell
  <2>16. StepsWell(S(n), j) /\ Tells(S(n), t)
    <3>1. PICK steps : steps = S(n - 1)
      OBVIOUS
    <3>2. PICK i \in Nat : i = j - 1 /\ i + 1 = j
      BY <2>15
    <3>3. StepsWell(steps, i) /\ Tells(steps, r) /\ BlockWell(m.block, i + 1)
      BY <2>3, <2>5, <2>15, <3>1, <3>2
    <3> HIDE DEF S
    <3>4. PICK more : more = IF reply /\ m.block = NoBlock THEN steps ELSE ReadStep(steps, m)
      OBVIOUS
    <3>5. StepsWell(more, i + 1) /\ Tells(more, t)
      BY <2>7, <3>3, <3>4, ItemTells
    <3>6. S(n) = more
      BY <2>14, <3>1, <3>4
    <3> QED  BY <3>2, <3>5, <3>6
  <2> HIDE DEF R, S, W
  <2> QED  BY <2>1, <2>2, <2>8, <2>10, <2>11, <2>12, <2>16
<1> HIDE DEF Good
<1>14. \A n \in 0..L : n \in Good
  BY <1>12, <1>13, UpTo
<1>15. L \in Good
  BY <1>14
<1>16. StepsOf(items) = S(L) /\ R(L) = round
  BY <1>5, <1>8 DEF StepsOf
<1>17. W(L) = WorkEnd(round)
  <2> HIDE DEF S, R, W
  <2> QED  BY <1>15, <1>16 DEF Good, WorkEnd
<1>18. StepsWell(StepsOf(items), a + L) /\ Tells(StepsOf(items), round)
  <2> HIDE DEF S, R, W
  <2> QED  BY <1>15, <1>16 DEF Good
<1> QED  BY <1>1, <1>3, <1>4, <1>8, <1>9, <1>17, <1>18

-----------------------------------------------------------------------------
(***************************************************************************)
(* What the page folds up: a run of steps hides neither a failure nor a    *)
(* write.                                                                  *)
(***************************************************************************)

ShownSteps == Seq(Seq(Steps))
FailedPlaces(drawn) == {p \in FlatToolSteps(drawn) : IsFailedStep(drawn[p[1]][p[2]])}
Changes(turn) == IF turn.call = NoBlock \/ turn.result.failed THEN {} ELSE PageWrites(turn.call)
WroteFiles(drawn) == UNION {Changes(drawn[p[1]][p[2]]) : p \in FlatToolSteps(drawn)}
Wrote(turn, f) == turn.kind = "tool" /\ f \in Changes(turn)
Quiet(drawn) ==
  \A n \in DOMAIN drawn : Len(drawn[n]) > 1 => \A s \in DOMAIN drawn[n] : ~IsFailedStep(drawn[n][s])

\* The places of what is shown, one by one.
LEMMA PlacesAre ==
  ASSUME NEW drawn
  PROVE  /\ \A p : p \in FailedPlaces(drawn) <=>
              \E n \in DOMAIN drawn : \E s \in DOMAIN drawn[n] : p = <<n, s>> /\ IsFailedStep(drawn[n][s])
         /\ \A f : f \in WroteFiles(drawn) <=>
              \E n \in DOMAIN drawn : \E s \in DOMAIN drawn[n] : Wrote(drawn[n][s], f)
<1>1. \A p : p \in FlatToolSteps(drawn) <=>
        \E n \in DOMAIN drawn : \E s \in DOMAIN drawn[n] : p = <<n, s>> /\ drawn[n][s].kind = "tool"
  BY DEF FlatToolSteps
<1>2. \A p : p \in FailedPlaces(drawn) <=>
        \E n \in DOMAIN drawn : \E s \in DOMAIN drawn[n] : p = <<n, s>> /\ IsFailedStep(drawn[n][s])
  BY <1>1 DEF FailedPlaces, IsFailedStep
<1>3. \A f : f \in WroteFiles(drawn) <=>
        \E n \in DOMAIN drawn : \E s \in DOMAIN drawn[n] : Wrote(drawn[n][s], f)
  <2>1. ASSUME NEW f \in WroteFiles(drawn)
        PROVE  \E n \in DOMAIN drawn : \E s \in DOMAIN drawn[n] : Wrote(drawn[n][s], f)
    <3>1. PICK p \in FlatToolSteps(drawn) : f \in Changes(drawn[p[1]][p[2]])
      BY DEF WroteFiles
    <3>2. PICK n \in DOMAIN drawn : \E s \in DOMAIN drawn[n] : p = <<n, s>> /\ drawn[n][s].kind = "tool"
      BY <1>1
    <3>3. PICK s \in DOMAIN drawn[n] : p = <<n, s>> /\ drawn[n][s].kind = "tool"
      BY <3>2
    <3>4. p[1] = n /\ p[2] = s
      BY <3>3
    <3> QED  BY <3>1, <3>3, <3>4 DEF Wrote
  <2>2. ASSUME NEW n \in DOMAIN drawn, NEW s \in DOMAIN drawn[n], NEW f, Wrote(drawn[n][s], f)
        PROVE  f \in WroteFiles(drawn)
    <3>1. PICK p : p = <<n, s>>
      OBVIOUS
    <3>2. p[1] = n /\ p[2] = s
      BY <3>1
    <3>3. p \in FlatToolSteps(drawn)
      BY <1>1, <2>2, <3>1 DEF Wrote
    <3>4. f \in Changes(drawn[p[1]][p[2]])
      BY <2>2, <3>2 DEF Wrote
    <3> QED  BY <3>3, <3>4, Zenon DEF WroteFiles
  <2> QED  BY <2>1, <2>2
<1> QED  BY <1>2, <1>3

LEMMA WroteAre ==
  ASSUME NEW drawn
  PROVE  \A f : f \in WroteFiles(drawn) <=>
           \E n \in DOMAIN drawn : \E s \in DOMAIN drawn[n] : Wrote(drawn[n][s], f)
BY PlacesAre

\* One more entry shown.
Added(out, run, more) ==
  /\ more \in ShownSteps
  /\ \A p : p \in FailedPlaces(more) <=>
       p \in FailedPlaces(out) \/ \E s \in DOMAIN run : p = <<Len(out) + 1, s>> /\ IsFailedStep(run[s])
  /\ \A f : f \in WroteFiles(more) <=>
       f \in WroteFiles(out) \/ \E s \in DOMAIN run : Wrote(run[s], f)
  /\ Quiet(out) /\ (Len(run) > 1 => \A s \in DOMAIN run : ~IsFailedStep(run[s])) => Quiet(more)

LEMMA EntryAdded ==
  ASSUME NEW out \in ShownSteps, NEW run \in Seq(Steps), NEW more, more = Append(out, run)
  PROVE  Added(out, run, more)
<1>1. PICK n \in Nat : n = Len(out)
  BY DEF ShownSteps
<1>2. more \in ShownSteps /\ DOMAIN more = DOMAIN out \cup {n + 1} /\ n + 1 \notin DOMAIN out
  BY <1>1, DomainMore, OneAppended DEF ShownSteps
<1>3. more[n + 1] = run /\ \A m \in DOMAIN out : more[m] = out[m]
  BY <1>1, OneAppended DEF ShownSteps
<1>4. \A p : p \in FailedPlaces(more) <=>
        p \in FailedPlaces(out) \/ \E s \in DOMAIN run : p = <<n + 1, s>> /\ IsFailedStep(run[s])
  <2> DEFINE F(m, entry, p) == \E s \in DOMAIN entry : p = <<m, s>> /\ IsFailedStep(entry[s])
  <2>1. \A p : p \in FailedPlaces(more) <=> \E m \in DOMAIN more : F(m, more[m], p)
    BY PlacesAre, Zenon
  <2>2. \A p : p \in FailedPlaces(out) <=> \E m \in DOMAIN out : F(m, out[m], p)
    BY PlacesAre, Zenon
  <2> SUFFICES \A p : p \in FailedPlaces(more) <=> p \in FailedPlaces(out) \/ F(n + 1, run, p)
    OBVIOUS
  <2> HIDE DEF F
  <2> QED  BY <1>2, <1>3, <2>1, <2>2
<1>5. \A f : f \in WroteFiles(more) <=>
        f \in WroteFiles(out) \/ \E s \in DOMAIN run : Wrote(run[s], f)
  <2> DEFINE F(entry, f) == \E s \in DOMAIN entry : Wrote(entry[s], f)
  <2>1. \A f : f \in WroteFiles(more) <=> \E m \in DOMAIN more : F(more[m], f)
    BY ONLY WroteAre, Zenon
  <2>2. \A f : f \in WroteFiles(out) <=> \E m \in DOMAIN out : F(out[m], f)
    BY ONLY WroteAre, Zenon
  <2> SUFFICES \A f : f \in WroteFiles(more) <=> f \in WroteFiles(out) \/ F(run, f)
    OBVIOUS
  <2> HIDE DEF F
  <2> QED  BY <1>2, <1>3, <2>1, <2>2
<1>6. Quiet(out) /\ (Len(run) > 1 => \A s \in DOMAIN run : ~IsFailedStep(run[s])) => Quiet(more)
  BY <1>2, <1>3 DEF Quiet
<1> QED  BY <1>1, <1>2, <1>4, <1>5, <1>6 DEF Added

\* What a run that is folded up does not hide: it has no failure and no write.
LEMMA RunsAreQuiet ==
  ASSUME NEW s, Mergeable(s)
  PROVE  ~IsFailedStep(s) /\ \A f : ~Wrote(s, f)
<1>1. ~IsFailedStep(s)
  BY DEF Mergeable, IsFailedStep
<1>2. toolKind[s.call.name] # "write"
  BY DEF Mergeable
<1>3. Changes(s) = {}
  BY <1>2 DEF Changes, PageWrites
<1> QED  BY <1>1, <1>3 DEF Wrote

LEMMA FlushedTells ==
  ASSUME NEW acc \in [out : ShownSteps, run : Seq(Steps)], \A s \in DOMAIN acc.run : Mergeable(acc.run[s]), Quiet(acc.out)
  PROVE  /\ FailedPlaces(Flushed(acc)) = FailedPlaces(acc.out)
         /\ WroteFiles(Flushed(acc)) = WroteFiles(acc.out)
         /\ Quiet(Flushed(acc)) /\ Flushed(acc) \in ShownSteps
<1>1. PICK out \in ShownSteps : out = acc.out
  OBVIOUS
<1>2. PICK run \in Seq(Steps) : run = acc.run
  OBVIOUS
<1>3. CASE run = <<>>
  BY <1>1, <1>2, <1>3 DEF Flushed
<1>4. CASE run # <<>>
  <2>1. PICK more : more = Append(out, run)
    OBVIOUS
  <2>2. Flushed(acc) = more
    BY <1>1, <1>2, <1>4, <2>1 DEF Flushed
  <2>3. \A s \in DOMAIN run : ~IsFailedStep(run[s]) /\ \A f : ~Wrote(run[s], f)
    BY <1>2, RunsAreQuiet
  <2>8. Added(out, run, more)
    BY <2>1, EntryAdded
  <2>4. \A p : p \in FailedPlaces(more) <=> p \in FailedPlaces(out)
    BY <2>3, <2>8 DEF Added
  <2>5. \A f : f \in WroteFiles(more) <=> f \in WroteFiles(out)
    BY <2>3, <2>8 DEF Added
  <2>6. Quiet(more) /\ more \in ShownSteps
    BY <1>1, <2>3, <2>8 DEF Added
  <2>7. FailedPlaces(more) = FailedPlaces(out) /\ WroteFiles(more) = WroteFiles(out)
    BY <2>4, <2>5
  <2> QED  BY <1>1, <2>2, <2>6, <2>7
<1> QED  BY <1>3, <1>4

FailedUpTo(steps, n) == {s \in 1..n : IsFailedStep(steps[s])}

\* What is folded up after n of the steps, beside those steps.
FoldTells(steps, n, acc) ==
  /\ acc \in [out : ShownSteps, run : Seq(Steps)] /\ Quiet(acc.out)
  /\ \A s \in DOMAIN acc.run : Mergeable(acc.run[s])
  /\ IsFiniteSet(FailedPlaces(acc.out)) /\ IsFiniteSet(FailedUpTo(steps, n))
  /\ Cardinality(FailedPlaces(acc.out)) = Cardinality(FailedUpTo(steps, n))
  /\ \A f : f \in WroteFiles(acc.out) <=> \E s \in 1..n : Wrote(steps[s], f)

LEMMA StepFolds ==
  ASSUME NEW steps \in Seq(Steps), NEW n \in 1..Len(steps), NEW acc, FoldTells(steps, n - 1, acc)
  PROVE  FoldTells(steps, n, Merge(acc, steps[n]))
<1>1. PICK turn \in Steps : turn = steps[n]
  OBVIOUS
<1>2. PICK out \in ShownSteps : out = acc.out
  BY DEF FoldTells
<1>3. PICK run \in Seq(Steps) : run = acc.run
  BY DEF FoldTells
<1>4. PICK F : F = FailedUpTo(steps, n - 1)
  OBVIOUS
<1>5. PICK P : P = FailedPlaces(out)
  OBVIOUS
<1>6. IsFiniteSet(F) /\ IsFiniteSet(P) /\ Cardinality(P) = Cardinality(F) /\ Cardinality(F) \in Nat
  BY <1>2, <1>4, <1>5, FS_CardinalityType DEF FoldTells
<1>7. n \notin F /\ FailedUpTo(steps, n) = IF IsFailedStep(turn) THEN F \cup {n} ELSE F
  BY <1>1, <1>4 DEF FailedUpTo
<1>8. 1..n = 1..(n - 1) \cup {n}
  OBVIOUS
<1>9. CASE Mergeable(turn)
  <2>1. PICK more : more = Append(run, turn)
    OBVIOUS
  <2>2. PICK new : new = [acc EXCEPT !.run = more]
    OBVIOUS
  <2>3. Merge(acc, steps[n]) = new
    BY <1>1, <1>3, <1>9, <2>1, <2>2, Zenon DEF Merge
  <2>4. more \in Seq(Steps) /\ \A s \in DOMAIN more : Mergeable(more[s])
    <3>1. \A s \in DOMAIN run : Mergeable(run[s])
      BY <1>3 DEF FoldTells
    <3>2. more \in Seq(Steps) /\ DOMAIN more = DOMAIN run \cup {Len(run) + 1}
      BY <2>1, DomainMore, OneAppended
    <3>3. more[Len(run) + 1] = turn /\ \A s \in DOMAIN run : more[s] = run[s]
      BY <2>1, OneAppended
    <3> QED  BY <1>9, <3>1, <3>2, <3>3
  <2>5. new \in [out : ShownSteps, run : Seq(Steps)] /\ new.out = out /\ new.run = more
    BY <1>2, <2>2, <2>4 DEF FoldTells
  <2>6. ~IsFailedStep(turn) /\ \A f : ~Wrote(turn, f)
    BY <1>9, RunsAreQuiet
  <2>7. FailedUpTo(steps, n) = F
    BY <1>7, <2>6
  <2>8. \A f : f \in WroteFiles(out) <=> \E s \in 1..n : Wrote(steps[s], f)
    BY <1>1, <1>2, <1>8, <2>6 DEF FoldTells
  <2>9. Quiet(out)
    BY <1>2 DEF FoldTells
  <2>10. FoldTells(steps, n, new)
    BY <1>5, <1>6, <2>4, <2>5, <2>7, <2>8, <2>9, Zenon DEF FoldTells
  <2> QED  BY <2>3, <2>10
<1>10. CASE ~Mergeable(turn)
  <2>1. PICK base \in ShownSteps : base = Flushed(acc) /\ FailedPlaces(base) = P /\ WroteFiles(base) = WroteFiles(out) /\ Quiet(base)
    BY <1>2, <1>5, FlushedTells DEF FoldTells
  <2>2. PICK one \in Seq(Steps) : one = <<turn>> /\ Len(one) = 1 /\ one[1] = turn
    BY OneIsSeq
  <2>3. PICK more : more = Append(base, one)
    OBVIOUS
  <2>4. PICK new : new = [out |-> more, run |-> <<>>]
    OBVIOUS
  <2>5. Merge(acc, steps[n]) = new
    BY <1>1, <1>10, <2>1, <2>2, <2>3, <2>4, Zenon DEF Merge
  <2>6. DOMAIN one = {1}
    BY <2>2
  <2>7. PICK c : c = <<Len(base) + 1, 1>>
    OBVIOUS
  <2>16. Added(base, one, more)
    BY <2>3, EntryAdded
  <2>8. /\ more \in ShownSteps /\ Quiet(more)
        /\ \A p : p \in FailedPlaces(more) <=> p \in P \/ \E s \in DOMAIN one : p = <<Len(base) + 1, s>> /\ IsFailedStep(one[s])
        /\ \A f : f \in WroteFiles(more) <=> f \in WroteFiles(out) \/ \E s \in DOMAIN one : Wrote(one[s], f)
    BY <2>1, <2>2, <2>16 DEF Added
  <2>9. FailedPlaces(more) = IF IsFailedStep(turn) THEN P \cup {c} ELSE P
    BY <2>2, <2>6, <2>7, <2>8
  <2>10. c \notin P
    <3>1. \A p \in FailedPlaces(base) : \E m \in DOMAIN base : \E s \in DOMAIN base[m] : p = <<m, s>>
      BY PlacesAre
    <3>2. Len(base) + 1 \notin DOMAIN base
      BY DEF ShownSteps
    <3> QED  BY <2>1, <2>7, <3>1, <3>2
  <2>11. new \in [out : ShownSteps, run : Seq(Steps)] /\ new.out = more /\ new.run = <<>>
    BY <2>4, <2>8
  <2>12. \A f : f \in WroteFiles(more) <=> \E s \in 1..n : Wrote(steps[s], f)
    <3>1. \A f : f \in WroteFiles(out) <=> \E s \in 1..(n - 1) : Wrote(steps[s], f)
      BY <1>2 DEF FoldTells
    <3>2. \A f : f \in WroteFiles(more) <=> f \in WroteFiles(out) \/ Wrote(turn, f)
      BY <2>2, <2>6, <2>8
    <3> QED  BY <1>1, <1>8, <3>1, <3>2
  <2>13. /\ IsFiniteSet(FailedPlaces(more)) /\ IsFiniteSet(FailedUpTo(steps, n))
         /\ Cardinality(FailedPlaces(more)) = Cardinality(FailedUpTo(steps, n))
    <3>1. IsFiniteSet(P \cup {c}) /\ Cardinality(P \cup {c}) = Cardinality(P) + 1
      BY <1>6, <2>10, FS_AddElement
    <3>2. IsFiniteSet(F \cup {n}) /\ Cardinality(F \cup {n}) = Cardinality(F) + 1
      BY <1>6, <1>7, FS_AddElement
    <3>3. CASE IsFailedStep(turn)
      BY <1>6, <1>7, <2>9, <3>1, <3>2, <3>3
    <3>4. CASE ~IsFailedStep(turn)
      BY <1>6, <1>7, <2>9, <3>4
    <3> QED  BY <3>3, <3>4
  <2>14. \A s \in DOMAIN <<>> : Mergeable(<<>>[s])
    OBVIOUS
  <2>15. FoldTells(steps, n, new)
    BY <2>8, <2>11, <2>12, <2>13, <2>14, Zenon DEF FoldTells
  <2> QED  BY <2>5, <2>15
<1> QED  BY <1>9, <1>10

\* What a round of the page shows, beside its steps: as many failures, the same
\* writes, and no failure within a run.
LEMMA ShownTells ==
  ASSUME NEW steps \in Seq(Steps), NEW drawn, drawn = MergeSteps(steps)
  PROVE  /\ drawn \in ShownSteps /\ Quiet(drawn)
         /\ Cardinality(FailedPlaces(drawn)) = Cardinality(FailedOf(steps))
         /\ \A f : f \in WroteFiles(drawn) <=> \E s \in DOMAIN steps : Wrote(steps[s], f)
<1> DEFINE A(n) == MergedUpTo(steps)[n]
           Good == {n \in 0..Len(steps) : FoldTells(steps, n, A(n))}
<1>1. PICK L \in Nat : L = Len(steps) /\ DOMAIN steps = 1..L
  OBVIOUS
<1>2. 0 \in Good
  <2>1. PICK acc : acc = A(0)
    OBVIOUS
  <2>2. acc = [out |-> <<>>, run |-> <<>>] /\ acc \in [out : ShownSteps, run : Seq(Steps)]
    BY <2>1, MergedSteps DEF ShownSteps
  <2>3. acc.out = <<>> /\ acc.run = <<>>
    BY <2>2
  <2>4. FailedPlaces(<<>>) = {} /\ WroteFiles(<<>>) = {}
    <3>1. DOMAIN <<>> = {}
      OBVIOUS
    <3> QED  BY <3>1, PlacesAre
  <2>5. FailedUpTo(steps, 0) = {} /\ 1..0 = {}
    BY DEF FailedUpTo
  <2>6. IsFiniteSet({})
    BY FS_EmptySet
  <2>8. Quiet(<<>>) /\ \A s \in DOMAIN <<>> : Mergeable(<<>>[s])
    BY DEF Quiet
  <2>9. acc \in [out : ShownSteps, run : Seq(Steps)] /\ Quiet(acc.out) /\ \A s \in DOMAIN acc.run : Mergeable(acc.run[s])
    BY <2>2, <2>3, <2>8
  <2>10. /\ IsFiniteSet(FailedPlaces(acc.out)) /\ IsFiniteSet(FailedUpTo(steps, 0))
         /\ Cardinality(FailedPlaces(acc.out)) = Cardinality(FailedUpTo(steps, 0))
    BY <2>3, <2>4, <2>5, <2>6
  <2>11. \A f : f \in WroteFiles(acc.out) <=> \E s \in 1..0 : Wrote(steps[s], f)
    BY <2>3, <2>4, <2>5
  <2>7. FoldTells(steps, 0, acc)
    BY <2>9, <2>10, <2>11, Zenon DEF FoldTells
  <2> QED  BY <2>1, <2>7
<1>3. ASSUME NEW n \in 1..Len(steps), n - 1 \in Good PROVE n \in Good
  <2>1. PICK acc : acc = A(n - 1) /\ FoldTells(steps, n - 1, acc)
    BY <1>3
  <2>2. A(n) = Merge(acc, steps[n])
    BY <2>1, MergedSteps
  <2>3. FoldTells(steps, n, A(n))
    BY <2>1, <2>2, StepFolds
  <2>4. n \in 0..Len(steps)
    OBVIOUS
  <2> HIDE DEF A
  <2> QED  BY <2>3, <2>4
<1> HIDE DEF Good
<1>4. \A n \in 0..Len(steps) : n \in Good
  BY <1>1, <1>2, <1>3, UpTo
<1>5. PICK acc : acc = A(L) /\ FoldTells(steps, L, acc)
  BY <1>1, <1>4 DEF Good
<1>6. drawn = Flushed(acc)
  BY <1>1, <1>5 DEF MergeSteps
<1>7. FailedPlaces(drawn) = FailedPlaces(acc.out) /\ WroteFiles(drawn) = WroteFiles(acc.out) /\ Quiet(drawn) /\ drawn \in ShownSteps
  BY <1>5, <1>6, FlushedTells DEF FoldTells
<1>8. FailedUpTo(steps, L) = FailedOf(steps)
  BY <1>1 DEF FailedUpTo, FailedOf
<1> QED  BY <1>1, <1>5, <1>7, <1>8 DEF FoldTells

-----------------------------------------------------------------------------
(***************************************************************************)
(* The page and the server side by side, and what explains a changed file. *)
(***************************************************************************)

LEMMA MaxIs ==
  ASSUME NEW S \in SUBSET Int, NEW x \in S, \A y \in S : y <= x
  PROVE  Max(S) = x
<1>1. x \in S /\ \A y \in S : x >= y
  OBVIOUS
<1>2. Max(S) \in S /\ \A y \in S : Max(S) >= y
  BY <1>1, Zenon DEF Max
<1>3. Max(S) >= x /\ x >= Max(S) /\ Max(S) \in Int
  BY <1>1, <1>2
<1> QED  BY <1>3

\* The rows of a round are those from its ask to the next one.
LEMMA RowsOfRound ==
  ASSUME rows \in Seq(SessionRows), NEW a \in Asks, NEW i \in DOMAIN rows, RoundOf(i) = RoundOf(a)
  PROVE  i \in RowsOf(a)
<1>1. a \in 1..Len(rows) /\ i \in 1..Len(rows) /\ Len(rows) \in Nat /\ IsRoundStart(rows[a]) /\ DOMAIN rows = 1..Len(rows)
  BY DEF Asks
<1>2. a \in Grouped
  BY <1>1 DEF Grouped
<1>3. i \in Grouped
  BY <1>1, <1>2, RoundOfIs
<1> DEFINE R(n) == Len(ReadUpTo(rows)[n])
<1>4. R(i) = R(a)
  BY <1>1, RoundOfIs
<1>5. ASSUME NEW b \in Asks PROVE R(b) = R(b - 1) + 1 /\ R(b - 1) \in Nat /\ R(b) \in Nat /\ b \in 1..Len(rows)
  <2>1. b \in 1..Len(rows) /\ IsRoundStart(rows[b])
    BY DEF Asks
  <2>2. PICK old \in Seq(RoundRecords) : old = ReadUpTo(rows)[b - 1]
    BY <2>1, NextOf
  <2>3. Len(old) \in Nat
    OBVIOUS
  <2>4. R(b) = R(b - 1) + 1
    BY <2>1, NextOf
  <2> QED  BY <2>1, <2>2, <2>3, <2>4
<1>6. ASSUME NEW x \in 0..Len(rows), NEW y \in x..Len(rows) PROVE R(x) <= R(y)
  BY <1>6, RoundsGrow
<1>7. a <= i
  <2> SUFFICES ASSUME ~(a <= i) PROVE FALSE
    OBVIOUS
  <2>1. i \in 0..Len(rows) /\ a - 1 \in i..Len(rows)
    BY <1>1
  <2>2. R(i) <= R(a - 1) /\ R(a) = R(a - 1) + 1 /\ R(a - 1) \in Nat
    BY <1>5, <1>6, <2>1
  <2> HIDE DEF R
  <2> QED  BY <1>4, <2>2
<1>8. ASSUME NEW b \in Asks, b <= i PROVE b <= a
  <2> SUFFICES ASSUME ~(b <= a) PROVE FALSE
    BY <1>1, <1>5
  <2>1. b \in 1..Len(rows) /\ a \in 0..Len(rows) /\ b \in 0..Len(rows) /\ b - 1 \in a..Len(rows) /\ i \in b..Len(rows)
    BY <1>1, <1>5, <1>8
  <2>2. R(a) <= R(b - 1) /\ R(b) = R(b - 1) + 1 /\ R(b) <= R(i) /\ R(b - 1) \in Nat /\ R(a) \in Nat
    BY <1>5, <1>6, <2>1
  <2> HIDE DEF R
  <2> QED  BY <1>4, <2>2
<1>9. AskOf(i) = a
  <2>1. PICK S : S = {b \in Asks : b <= i}
    OBVIOUS
  <2>3. \A b \in Asks : b \in Int
    BY <1>5
  <2> HIDE DEF R
  <2>2. S \in SUBSET Int /\ a \in S /\ \A b \in S : b <= a
    BY <1>7, <1>8, <2>1, <2>3
  <2> QED  BY <2>1, <2>2, MaxIs DEF AskOf
<1> QED  BY <1>3, <1>9 DEF RowsOf

\* The calls of the steps are blocks of the items read.
CallsFrom(steps, items, n) ==
  \A s \in DOMAIN steps : steps[s].call # NoBlock =>
    \E m \in 1..n : items[m].block = steps[s].call /\ items[m].block.type = "toolCall"

LEMMA CallsStay ==
  ASSUME NEW steps \in Seq(Steps), NEW items \in Seq(SessionRows), NEW n \in 1..Len(items),
         CallsFrom(steps, items, n - 1), NEW reply \in BOOLEAN, NEW more,
         more = IF reply /\ items[n].block = NoBlock THEN steps ELSE ReadStep(steps, items[n])
  PROVE  more \in Seq(Steps) /\ CallsFrom(more, items, n)
<1>1. PICK m \in SessionRows : m = items[n]
  OBVIOUS
<1>2. PICK b \in Blocks : b = m.block
  BY <1>1 DEF SessionRows
<1>3. 1..n = 1..(n - 1) \cup {n}
  OBVIOUS
<1>4. CallsFrom(steps, items, n)
  BY <1>3 DEF CallsFrom
<1>5. more \in Seq(Steps)
  BY <1>1, ReadStepTyped
<1>6. ASSUME NEW turn \in Steps, turn.call = NoBlock \/ (turn.call = b /\ b.type = "toolCall"), more = Append(steps, turn)
      PROVE  CallsFrom(more, items, n)
  <2>1. DOMAIN more = DOMAIN steps \cup {Len(steps) + 1} /\ more[Len(steps) + 1] = turn
        /\ \A s \in DOMAIN steps : more[s] = steps[s]
    <3>1. DOMAIN more = DOMAIN steps \cup {Len(steps) + 1}
      BY ONLY <1>6, steps \in Seq(Steps), DomainMore
    <3>2. more[Len(steps) + 1] = turn /\ \A s \in 1..Len(steps) : more[s] = steps[s]
      BY ONLY <1>6, steps \in Seq(Steps)
    <3>3. DOMAIN steps = 1..Len(steps)
      BY ONLY steps \in Seq(Steps)
    <3> QED  BY ONLY <3>1, <3>2, <3>3
  <2>2. turn.call # NoBlock => \E l \in 1..n : items[l].block = turn.call /\ items[l].block.type = "toolCall"
    BY <1>1, <1>2, <1>3, <1>6
  <2> QED  BY <1>4, <2>1, <2>2 DEF CallsFrom
<1>7. ASSUME NEW c, more = WithAnswer(steps, c, b)
      PROVE  CallsFrom(more, items, n)
  <2>1. CASE c \in DOMAIN steps
    <3>1. DOMAIN more = DOMAIN steps /\ more[c].call = steps[c].call /\ \A s \in DOMAIN steps : s # c => more[s] = steps[s]
      BY <1>7, <2>1, AnsweredIs
    <3>2. \A s \in DOMAIN more : more[s].call = steps[s].call
      BY <3>1
    <3> QED  BY <1>4, <3>1, <3>2 DEF CallsFrom
  <2>2. CASE c \notin DOMAIN steps
    <3>1. more = steps
      BY <1>7, <2>2 DEF WithAnswer
    <3> QED  BY <1>4, <3>1
  <2> QED  BY <2>1, <2>2
<1>8. CASE reply /\ m.block = NoBlock
  BY <1>1, <1>4, <1>5, <1>8
<1>9. CASE ~(reply /\ m.block = NoBlock)
  <2>1. more = ReadStep(steps, m)
    BY <1>1, <1>9
  <2>2. CASE b.type = "toolCall"
    <3>1. PICK turn \in Steps : turn = ToolStep(b, NoBlock)
      BY NoBlockSteps
    <3>2. more = Append(steps, turn)
      BY <1>2, <2>1, <2>2, <3>1 DEF ReadStep
    <3>3. turn.call = b
      BY <3>1 DEF ToolStep
    <3> QED  BY <1>5, <1>6, <2>2, <3>2, <3>3
  <2>3. CASE b.type = "toolResult" /\ Claimed(steps, b) = {}
    <3>1. PICK turn \in Steps : turn = ToolStep(NoBlock, b)
      BY NoBlockSteps
    <3>2. more = Append(steps, turn)
      BY <1>2, <2>1, <2>3, <3>1 DEF ReadStep
    <3>3. turn.call = NoBlock
      BY <3>1 DEF ToolStep
    <3> QED  BY <1>5, <1>6, <3>2, <3>3
  <2>4. CASE b.type = "toolResult" /\ Claimed(steps, b) # {}
    <3>1. PICK c : c = Max(Claimed(steps, b))
      OBVIOUS
    <3>2. more = WithAnswer(steps, c, b)
      BY <1>2, <2>1, <2>4, <3>1 DEF ReadStep, WithAnswer
    <3> QED  BY <1>5, <1>7, <3>2
  <2>5. CASE b.type \notin {"toolCall", "toolResult"}
    <3>1. PICK turn \in Steps : (turn = OtherStep("event") \/ turn = OtherStep("note")) /\ more = Append(steps, turn)
      BY <1>2, <2>1, <2>5, NoBlockSteps DEF ReadStep
    <3>2. turn.call = NoBlock
      BY <3>1 DEF OtherStep
    <3> QED  BY <1>5, <1>6, <3>1, <3>2
  <2> QED  BY <2>2, <2>3, <2>4, <2>5
<1> QED  BY <1>8, <1>9

LEMMA CallsComeFrom ==
  ASSUME NEW items \in Seq(SessionRows)
  PROVE  CallsFrom(StepsOf(items), items, Len(items))
<1> DEFINE S(n) == AnalysedUpTo(items)[n]
           Good == {n \in 0..Len(items) : S(n) \in Seq(Steps) /\ CallsFrom(S(n), items, n)}
<1>1. PICK L \in Nat : L = Len(items)
  OBVIOUS
<1>2. 0 \in Good
  <2>1. S(0) = <<>>
    BY AnalysedSteps
  <2>2. <<>> \in Seq(Steps) /\ DOMAIN <<>> = {}
    OBVIOUS
  <2>3. CallsFrom(<<>>, items, 0)
    BY <2>2 DEF CallsFrom
  <2>4. S(0) \in Seq(Steps) /\ CallsFrom(S(0), items, 0)
    BY ONLY <2>1, <2>2, <2>3, Zenon
  <2>5. 0 \in 0..Len(items)
    BY <1>1
  <2> HIDE DEF S
  <2> QED  BY ONLY <2>4, <2>5
<1>3. ASSUME NEW n \in 1..L, n - 1 \in Good PROVE n \in Good
  <2>1. PICK steps \in Seq(Steps) : steps = S(n - 1) /\ CallsFrom(steps, items, n - 1)
    BY <1>3
  <2>2. PICK reply \in BOOLEAN : reply = IsReply(items, n)
    BY DEF IsReply
  <2>3. S(n) = IF reply /\ items[n].block = NoBlock THEN steps ELSE ReadStep(steps, items[n])
    <3>1. S(n) = IF IsReply(items, n) /\ items[n].block = NoBlock THEN S(n - 1) ELSE ReadStep(S(n - 1), items[n])
      BY <1>1, AnalysedSteps
    <3> HIDE DEF S
    <3> QED  BY <2>1, <2>2, <3>1
  <2>4. n \in 1..Len(items) /\ n \in 0..Len(items)
    BY <1>1
  <2>5. PICK more : more = S(n)
    OBVIOUS
  <2>6. more \in Seq(Steps) /\ CallsFrom(more, items, n)
    <3> HIDE DEF S
    <3> QED  BY <2>1, <2>3, <2>4, <2>5, CallsStay
  <2> HIDE DEF S
  <2> QED  BY <2>4, <2>5, <2>6
<1> HIDE DEF Good
<1>4. \A n \in 0..L : n \in Good
  BY <1>2, <1>3, UpTo
<1>5. L \in Good
  BY <1>4
<1> QED  BY <1>1, <1>5 DEF Good, StepsOf

\* And so rows of the round.
LEMMA CallsOfRound ==
  ASSUME SessionTypes, NEW k, NEW page, NEW round, PageFits(rows, Len(rows), k, page, round),
         NEW items, items = ItemsOf(rows, page), items \in Seq(SessionRows), Len(items) = Len(page.items),
         NEW s \in DOMAIN StepsOf(items), StepsOf(items)[s].call # NoBlock
  PROVE  \E i \in RowsOf(page.ask) : rows[i].block = StepsOf(items)[s].call /\ rows[i].block.type = "toolCall"
<1>1. rows \in Seq(SessionRows) /\ DOMAIN rows = 1..Len(rows) /\ Len(rows) \in Nat
  BY DEF SessionTypes
<1>2. PICK a \in 1..Len(rows) : a = page.ask
  BY DEF PageFits
<1>3. PICK L \in Nat : L = Len(items)
  OBVIOUS
<1>4. /\ IsRoundStart(rows[a]) /\ a + L <= Len(rows)
      /\ \A i \in 1..L : page.items[i] = a + i
      /\ \A j \in a..(a + L) : Len(ReadUpTo(rows)[j]) = k
  BY <1>2, <1>3 DEF PageFits
<1>5. PICK n \in 1..L : items[n].block = StepsOf(items)[s].call /\ items[n].block.type = "toolCall"
  <2>1. CallsFrom(StepsOf(items), items, L)
    BY <1>3, CallsComeFrom
  <2> QED  BY <2>1 DEF CallsFrom
<1>6. items[n] = rows[a + n]
  <2>1. items = [m \in 1..Len(page.items) |-> rows[page.items[m]]]
    BY DEF ItemsOf
  <2>2. items[n] = rows[page.items[n]]
    BY <1>3, <2>1
  <2> QED  BY <1>4, <2>2
<1>7. PICK i \in 1..Len(rows) : i = a + n /\ i \in a..(a + L) /\ a \in a..(a + L)
  BY <1>4
<1>8. a \in Asks
  BY <1>1, <1>4 DEF Asks
<1>9. RoundOf(i) = RoundOf(a)
  <2>1. Len(ReadUpTo(rows)[i]) = Len(ReadUpTo(rows)[a])
    BY <1>4, <1>7
  <2> QED  BY <1>1, <2>1, RoundOfIs
<1>10. i \in RowsOf(a)
  BY <1>1, <1>7, <1>8, <1>9, RowsOfRound
<1> QED  BY <1>2, <1>5, <1>6, <1>7, <1>10

\* One round of the page beside the server's.
LEMMA RoundsAgree ==
  ASSUME SessionTypes, TimesGrow, CallsWell, NEW k \in DOMAIN Rounds, NEW page, NEW round,
         PageFits(rows, Len(rows), k, page, round),
         Rounds[k].messages = round.messages, Rounds[k].failures = round.failures,
         Rounds[k].changed = round.changed, Rounds[k].pending = round.pending,
         WorkEnd(Rounds[k]) = WorkEnd(round)
  PROVE  RoundAgrees(page, k)
<1>1. PICK items : items = ItemsOf(rows, page)
  OBVIOUS
<1>2. PICK begun : begun = rows[page.ask].at
  OBVIOUS
<1>3. PICK i : i = page.ask + Len(items)
  OBVIOUS
<1>4. PICK steps : steps = StepsOf(items)
  OBVIOUS
<1>5. PICK drawn : drawn = MergeSteps(steps)
  OBVIOUS
<1>6. /\ StepsWell(steps, i) /\ Tells(steps, round)
      /\ WorkedUpTo(items, begun)[Len(items)] = WorkEnd(round)
  BY <1>1, <1>2, <1>3, <1>4, RoundTells
<1>7. steps \in Seq(Steps)
  BY <1>6 DEF StepsWell
<1>8. /\ Quiet(drawn) /\ Cardinality(FailedPlaces(drawn)) = Cardinality(FailedOf(steps))
      /\ \A f : f \in WroteFiles(drawn) <=> \E s \in DOMAIN steps : Wrote(steps[s], f)
  BY <1>5, <1>7, ShownTells
<1>9. page.ask # 0 /\ page.no = k /\ round.messages = Len(page.items) + 1
  BY DEF PageFits
<1>10. PICK summary : summary = SummaryOf(rows, page)
  OBVIOUS
<1>11. /\ summary.failures = Cardinality(FailedPlaces(drawn))
       /\ summary.changed = WroteFiles(drawn)
       /\ summary.lastAt = WorkedUpTo(items, begun)[Len(items)]
  <2>1. summary = [failures |-> Cardinality(FailedPlaces(drawn)), changed |-> WroteFiles(drawn),
                   lastAt |-> WorkedUpTo(items, begun)[Len(items)]]
    BY <1>1, <1>2, <1>4, <1>5, <1>9, <1>10, Zenon DEF SummaryOf, FailedPlaces, WroteFiles, Changes
  <2> QED  BY <2>1
<1>12. \A f : f \in summary.changed <=> \E s \in DOMAIN steps : Wrote(steps[s], f)
  BY <1>8, <1>11
<1>18. items \in Seq(SessionRows) /\ Len(items) = Len(page.items)
  BY <1>1, RoundTells
<1>13. ASSUME NEW f, ~Contested(page.ask, f), NEW s \in DOMAIN steps
       PROVE  Wrote(steps[s], f) <=> ~steps[s].result.failed /\ f \in ServerWrites(steps[s].call)
  <2>1. PICK turn \in Steps : turn = steps[s]
    BY <1>7
  <2>2. CASE turn.call = NoBlock
    <3>1. Changes(turn) = {} /\ ServerWrites(turn.call) = {}
      BY <2>2, NoBlockWrites, Zenon DEF Changes
    <3> QED  BY <2>1, <3>1 DEF Wrote
  <2>3. CASE turn.call # NoBlock
    <3>1. PICK j \in RowsOf(page.ask) : rows[j].block = turn.call /\ rows[j].block.type = "toolCall"
      BY <1>1, <1>4, <1>18, <2>1, <2>3, CallsOfRound
    <3>2. f \in ServerWrites(turn.call) <=> f \in PageWrites(turn.call)
      BY <1>13, <3>1, Zenon DEF Contested
    <3>3. turn.kind = "tool"
      BY <1>6, <2>1, <2>3 DEF StepsWell
    <3>4. f \in Changes(turn) <=> ~turn.result.failed /\ f \in PageWrites(turn.call)
      BY <2>3 DEF Changes
    <3> QED  BY <2>1, <3>2, <3>3, <3>4 DEF Wrote
  <2> QED  BY <2>2, <2>3
<1>14. ~NoBlock.failed
  BY DEF NoBlock
<1>15. ASSUME ids, NEW f, ~Contested(page.ask, f)
       PROVE  f \in summary.changed <=> f \in round.changed \cup Awaited(round.pending)
  <2>1. /\ \A p : p \in round.pending <=>
             \E s \in DOMAIN steps : Awaits(steps[s], p)
        /\ f \in round.changed <=> \E s \in DOMAIN steps : WentTo(steps[s], f)
    BY <1>6, <1>15 DEF Tells
  <2>2. f \in Awaited(round.pending) <=> \E s \in DOMAIN steps : WaitsFor(steps[s], f)
    <3>1. ASSUME NEW p \in round.pending, f \in p.files PROVE \E s \in DOMAIN steps : WaitsFor(steps[s], f)
      <4>1. PICK s \in DOMAIN steps : Awaits(steps[s], p)
        BY <2>1
      <4>2. p.files = ServerWrites(steps[s].call) /\ steps[s].result = NoBlock
        BY <4>1 DEF Awaits, Waits
      <4> QED  BY <3>1, <4>2 DEF WaitsFor
    <3>2. ASSUME NEW s \in DOMAIN steps, WaitsFor(steps[s], f)
          PROVE  \E p \in round.pending : f \in p.files
      <4>1. PICK p : p = [id |-> steps[s].call.id, files |-> ServerWrites(steps[s].call)]
        OBVIOUS
      <4>2. Awaits(steps[s], p)
        BY <3>2, <4>1 DEF Awaits, Waits, WaitsFor
      <4>3. p \in round.pending
        BY <2>1, <4>2
      <4>4. f \in p.files
        BY <3>2, <4>1 DEF WaitsFor
      <4> QED  BY <4>3, <4>4
    <3> QED  BY <3>1, <3>2 DEF Awaited
  <2>3. \A s \in DOMAIN steps : Wrote(steps[s], f) <=> WaitsFor(steps[s], f) \/ WentTo(steps[s], f)
    BY <1>13, <1>14, <1>15 DEF WaitsFor, WentTo
  <2> QED  BY <1>12, <2>1, <2>2, <2>3
<1>16. ASSUME ~ids, NEW f, ~Contested(page.ask, f), f \in summary.changed
       PROVE  f \in round.changed
  <2>1. PICK s \in DOMAIN steps : Wrote(steps[s], f)
    BY <1>12, <1>16
  <2>2. f \in ServerWrites(steps[s].call)
    BY <1>13, <1>16, <2>1
  <2> QED  BY <1>6, <1>16, <2>2 DEF Tells
<1>17. summary.failures = round.failures /\ summary.lastAt = WorkEnd(round)
  BY <1>6, <1>8, <1>11 DEF Tells
<1>19. \A f \in Files : ~Contested(page.ask, f) =>
         IF ids THEN f \in summary.changed <=> f \in Rounds[k].changed \cup Awaited(Rounds[k].pending)
         ELSE f \in summary.changed => f \in Rounds[k].changed
  <2> SUFFICES ASSUME NEW f \in Files, ~Contested(page.ask, f)
               PROVE  IF ids THEN f \in summary.changed <=> f \in round.changed \cup Awaited(round.pending)
                      ELSE f \in summary.changed => f \in round.changed
    OBVIOUS
  <2> QED  BY <1>15, <1>16
<1>20. \A n \in DOMAIN drawn : Len(drawn[n]) > 1 => \A s \in DOMAIN drawn[n] : ~IsFailedStep(drawn[n][s])
  BY <1>8 DEF Quiet
<1> QED  BY <1>1, <1>4, <1>5, <1>9, <1>10, <1>17, <1>19, <1>20, Zenon DEF RoundAgrees

LEMMA PagesAgreeWithServer == ASSUME SessionTypes, TimesGrow, CallsWell PROVE PageAgrees
<1> SUFFICES ASSUME \A i \in DOMAIN rows : IsAsk(rows[i]) <=> IsRoundStart(rows[i])
             PROVE  LET ahead == Len(PageRounds) - Len(Rounds)
                    IN  /\ ahead \in {0, 1} /\ (ahead = 1 => PageRounds[1].ask = 0)
                        /\ \A k \in DOMAIN Rounds : RoundAgrees(PageRounds[k + ahead], k)
  BY Zenon DEF PageAgrees
<1>1. rows \in Seq(SessionRows)
  BY DEF SessionTypes
<1>12. SameAsks(rows)
  <2>1. DOMAIN rows = 1..Len(rows)
    BY <1>1
  <2> QED  BY <2>1 DEF SameAsks
<1>2. PICK L \in Nat : L = Len(rows) /\ L \in 0..Len(rows)
  BY <1>1
<1>3. PICK raw : raw = ReadUpTo(rows)[L]
  OBVIOUS
<1>4. PICK built \in Seq(Pages) : built = BuiltUpTo(rows)[L]
  BY <1>1, <1>2, BuiltSteps
<1>5. Fit(rows, L, built, raw)
  BY <1>1, <1>2, <1>3, <1>4, <1>12, PagesFit
<1>6. PICK n \in Nat : n = Len(Rounds) /\ DOMAIN Rounds = 1..n /\ n = Len(raw)
  BY <1>1, <1>2, <1>3, RoundIs
<1>7. ASSUME NEW k \in DOMAIN Rounds PROVE RoundAgrees(built[k + 1], k)
  <2>1. PICK round : round = raw[k]
    OBVIOUS
  <2>2. PageFits(rows, Len(rows), k, built[k + 1], round)
    BY <1>2, <1>5, <1>6, <2>1 DEF Fit
  <2>3. /\ Rounds[k].messages = round.messages /\ Rounds[k].failures = round.failures
        /\ Rounds[k].changed = round.changed /\ Rounds[k].pending = round.pending
        /\ Rounds[k].endAt = round.endAt /\ Rounds[k].startAt = round.startAt
    BY <1>1, <1>2, <1>3, <2>1, RoundIs
  <2>4. WorkEnd(Rounds[k]) = WorkEnd(round)
    BY <2>3, Zenon DEF WorkEnd
  <2> QED  BY <2>2, <2>3, <2>4, RoundsAgree
<1>8. PageRounds = IF built[1].items = <<>> THEN Tail(built) ELSE built
  BY <1>2, <1>4, Zenon DEF PageRounds, BuildRounds
<1>9. Len(built) = n + 1 /\ built[1].ask = 0
  BY <1>5, <1>6 DEF Fit
<1>10. PICK prior \in {0, 1} :
         /\ prior = Len(PageRounds) - Len(Rounds)
         /\ prior = 1 => PageRounds[1].ask = 0
         /\ \A k \in 1..n : PageRounds[k + prior] = built[k + 1]
  <2>1. CASE built[1].items = <<>>
    <3>1. PageRounds = Tail(built)
      BY <1>8, <2>1
    <3>2. Len(PageRounds) = n /\ \A k \in 1..n : PageRounds[k] = built[k + 1]
      BY <1>9, <3>1
    <3>3. \A k \in 1..n : k + 0 = k
      OBVIOUS
    <3>4. 0 = Len(PageRounds) - Len(Rounds) /\ \A k \in 1..n : PageRounds[k + 0] = built[k + 1]
      BY <1>6, <3>2, <3>3
    <3> QED  BY <3>4
  <2>2. CASE built[1].items # <<>>
    <3>1. PageRounds = built
      BY <1>8, <2>2
    <3>2. 1 = Len(PageRounds) - Len(Rounds)
      BY <1>6, <1>9, <3>1
    <3> QED  BY <1>9, <3>1, <3>2
  <2> QED  BY <2>1, <2>2
<1>11. \A k \in DOMAIN Rounds : RoundAgrees(PageRounds[k + prior], k)
  BY <1>6, <1>7, <1>10
<1> QED  BY <1>10, <1>11

\* Row i is a write's call of round k; row j is the answer of one that went well.
WriteAt(i, k, id, files) ==
  /\ i \in DOMAIN rows /\ Len(ReadUpTo(rows)[i]) = k
  /\ rows[i].block.type = "toolCall" /\ rows[i].block.id = id /\ ServerWrites(rows[i].block) = files
AnswerAt(j, k, id) ==
  /\ j \in DOMAIN rows /\ Len(ReadUpTo(rows)[j]) = k
  /\ rows[j].block.type = "toolResult" /\ rows[j].block.id = id /\ ~rows[j].block.failed

\* What a round has listed, it has rows for.
Explained(k, round) ==
  /\ \A p \in round.pending : \E i : WriteAt(i, k, p.id, p.files)
  /\ \A f \in round.changed : \E i, j, id, files : WriteAt(i, k, id, files) /\ AnswerAt(j, k, id) /\ f \in files

LEMMA RowExplains ==
  ASSUME SessionTypes, CallsWell, ids, NEW n \in DOMAIN rows, NEW k, k = Len(ReadUpTo(rows)[n]),
         NEW r \in RoundRecords, Explained(k, r), NEW starting \in BOOLEAN
  PROVE  Explained(k, ReadRow(r, rows[n], starting))
<1>1. PICK m \in SessionRows : m = rows[n]
  BY DEF SessionTypes
<1>2. PICK b \in Blocks : b = m.block
  BY DEF SessionRows
<1>3. PICK when \in Nat : when = m.at
  BY DEF SessionRows
<1>4. PICK s : s = ReadRow(r, m, starting)
  OBVIOUS
<1>5. PICK t : t = ReadBlock(r, b, when)
  OBVIOUS
<1>6. s.changed = t.changed /\ s.pending = t.pending
  BY <1>2, <1>3, <1>4, <1>5, RowFiles
<1>7. BlockWell(b, n)
  BY <1>1, <1>2 DEF CallsWell, SessionTypes
<1>8. CASE b.type = "toolCall"
  <2>1. b.id # NoId
    BY <1>7, <1>8 DEF BlockWell, NoId, SessionTypes
  <2>7. PICK w : w = ServerWrites(b)
    OBVIOUS
  <2>2. PICK q : q = [id |-> b.id, files |-> w]
    OBVIOUS
  <2>3. q.id = b.id /\ q.files = w
    BY <2>2
  <2>4. t.changed = r.changed /\ \A p \in t.pending : p \in r.pending \/ p = q
    <3>1. /\ t.changed = IF b.id = NoId THEN r.changed \cup w ELSE r.changed
          /\ t.pending = IF w # {} /\ b.id # NoId
                         THEN {p \in r.pending : p.id # b.id} \cup {[id |-> b.id, files |-> w]} ELSE r.pending
      <4>1. CallNoted(t, r, b, w)
        BY ONLY <1>5, <1>8, <2>7, r \in RoundRecords, b \in Blocks, CallFiles, Zenon
      <4> QED  BY ONLY <4>1, Zenon DEF CallNoted
    <3>2. t.changed = r.changed
      BY ONLY <3>1, <2>1, Zenon
    <3>3. t.pending = r.pending \/ t.pending = {p \in r.pending : p.id # b.id} \cup {q}
      BY ONLY <3>1, <2>2, Zenon
    <3> QED  BY ONLY <3>2, <3>3
  <2>5. WriteAt(n, k, q.id, q.files)
    BY <1>1, <1>2, <1>8, <2>3, <2>7 DEF WriteAt
  <2>6. \A p \in t.pending : \E i : WriteAt(i, k, p.id, p.files)
    BY <2>4, <2>5, Zenon DEF Explained
  <2> QED  BY <1>1, <1>4, <1>6, <2>4, <2>6, Zenon DEF Explained
<1>9. CASE b.type = "toolResult"
  <2>1. PICK due : due = {p \in r.pending : p.id = b.id}
    OBVIOUS
  <2>2. /\ t.changed = IF b.failed THEN r.changed ELSE r.changed \cup Awaited(due)
        /\ t.pending = r.pending \ due
    BY <1>5, <1>9, <2>1, ResultFiles
  <2>3. ASSUME NEW f \in t.changed
        PROVE  \E i, j, id, files : WriteAt(i, k, id, files) /\ AnswerAt(j, k, id) /\ f \in files
    <3>1. CASE f \in r.changed
      BY <3>1, Zenon DEF Explained
    <3>2. CASE f \notin r.changed
      <4>1. ~b.failed /\ f \in Awaited(due)
        BY <2>2, <2>3, <3>2
      <4>2. PICK p \in r.pending : p.id = b.id /\ f \in p.files
        BY <2>1, <4>1 DEF Awaited
      <4>3. PICK i : WriteAt(i, k, p.id, p.files)
        BY <4>2, Zenon DEF Explained
      <4>4. AnswerAt(n, k, p.id)
        BY <1>1, <1>2, <1>9, <4>1, <4>2 DEF AnswerAt
      <4> QED  BY <4>2, <4>3, <4>4
    <3> QED  BY <3>1, <3>2
  <2>5. \A p \in t.pending : p \in r.pending
    BY <2>2
  <2>4. \A p \in t.pending : \E i : WriteAt(i, k, p.id, p.files)
    BY <2>5, Zenon DEF Explained
  <2> QED  BY <1>1, <1>4, <1>6, <2>3, <2>4, Zenon DEF Explained
<1>10. CASE b.type \notin {"toolCall", "toolResult"}
  <2>1. t.changed = r.changed /\ t.pending = r.pending
    BY <1>5, <1>10, OtherFiles
  <2> QED  BY <1>1, <1>4, <1>6, <2>1, Zenon DEF Explained
<1> QED  BY <1>8, <1>9, <1>10

LEMMA AllExplained ==
  ASSUME SessionTypes, CallsWell, ids
  PROVE  \A n \in 0..Len(rows) : \A k \in 1..Len(ReadUpTo(rows)[n]) : Explained(k, ReadUpTo(rows)[n][k])
<1> DEFINE Good == {n \in 0..Len(rows) : \A k \in 1..Len(ReadUpTo(rows)[n]) : Explained(k, ReadUpTo(rows)[n][k])}
<1>0. rows \in Seq(SessionRows) /\ Len(rows) \in Nat /\ DOMAIN rows = 1..Len(rows) /\ 0 \in 0..Len(rows)
  BY DEF SessionTypes
<1>1. 0 \in Good
  <2>1. PICK none : none = ReadUpTo(rows)[0]
    OBVIOUS
  <2>2. none = <<>>
    BY <1>0, <2>1, ReadSteps
  <2>3. 1..Len(none) = {}
    BY <2>2
  <2> QED  BY <1>0, <2>1, <2>3
<1>2. ASSUME NEW n \in 1..Len(rows), n - 1 \in Good PROVE n \in Good
  <2>1. PICK old \in Seq(RoundRecords) : old = ReadUpTo(rows)[n - 1]
    BY <1>0, NextOf
  <2>2. PICK now \in Seq(RoundRecords) : now = ReadUpTo(rows)[n]
    BY <1>0, NextOf
  <2>3. PICK m \in SessionRows : m = rows[n]
    BY <1>0
  <2>4. now = NextRow(old, m) /\ Len(now) = Len(old) + (IF IsRoundStart(m) THEN 1 ELSE 0) /\ n \in 0..Len(rows)
    BY <1>0, <2>1, <2>2, <2>3, NextOf
  <2>5. \A k \in 1..Len(old) : Explained(k, old[k])
    BY <1>2, <2>1
  <2>6. \A k \in 1..Len(old) : k < Len(old) \/ IsRoundStart(m) => now[k] = old[k]
    BY <2>4, OnlyLastChanges
  <2>7. ASSUME NEW k \in 1..Len(now) PROVE Explained(k, now[k])
    <3>1. CASE k < Len(old) \/ (k = Len(old) /\ IsRoundStart(m))
      <4>1. k \in 1..Len(old)
        BY <3>1
      <4>2. now[k] = old[k]
        BY <2>6, <3>1, <4>1
      <4> QED  BY <2>5, <4>1, <4>2
    <3>2. CASE k = Len(old) /\ ~IsRoundStart(m)
      <4>1. old # <<>> /\ k \in 1..Len(old) /\ k = Len(now)
        BY <2>4, <3>2
      <4>2. PICK r \in RoundRecords : r = old[k]
        BY <4>1
      <4>3. PICK s : s = ReadRow(r, m, FALSE)
        OBVIOUS
      <4>4. now = [old EXCEPT ![Len(old)] = s]
        BY <2>4, <3>2, <4>1, <4>2, <4>3, Zenon DEF NextRow
      <4>5. now[k] = s
        BY <3>2, <4>1, <4>4
      <4>6. Explained(k, s)
        BY <1>0, <2>2, <2>3, <2>5, <4>1, <4>2, <4>3, RowExplains
      <4> QED  BY <4>5, <4>6
    <3>3. CASE k = Len(old) + 1
      <4>1. IsRoundStart(m) /\ k = Len(now) /\ k \in Nat
        BY <2>4, <3>3
      <4>2. PICK r \in RoundRecords : r = NewRound(k, m.at)
        <5>1. m.at \in Nat
          BY DEF SessionRows
        <5> QED  BY <4>1, <5>1, NewRoundTyped
      <4>3. PICK s : s = ReadRow(r, m, TRUE)
        OBVIOUS
      <4>4. now = Append(old, s)
        BY <2>4, <3>3, <4>1, <4>2, <4>3 DEF NextRow
      <4>5. now[k] = s
        BY <3>3, <4>4, OneAppendedAt
      <4>6. Explained(k, r)
        <5>1. r.pending = {} /\ r.changed = {}
          BY <4>2 DEF NewRound
        <5> QED  BY <5>1 DEF Explained
      <4>7. Explained(k, s)
        BY <1>0, <2>2, <2>3, <4>1, <4>3, <4>6, RowExplains
      <4> QED  BY <4>5, <4>7
    <3> QED  BY <2>4, <3>1, <3>2, <3>3
  <2> QED  BY <2>2, <2>4, <2>7
<1> HIDE DEF Good
<1>3. \A n \in 0..Len(rows) : n \in Good
  BY <1>0, <1>1, <1>2, UpTo
<1> QED  BY <1>3 DEF Good

LEMMA ChangedAreAnswered == ASSUME SessionTypes, CallsWell PROVE ChangedDidNotFail
<1> SUFFICES ASSUME ids, NEW a \in Asks, NEW file \in Rounds[RoundOf(a)].changed
             PROVE  \E i, j \in RowsOf(a) :
                      /\ rows[i].block.type = "toolCall" /\ file \in ServerWrites(rows[i].block)
                      /\ rows[j].block.type = "toolResult" /\ rows[j].block.id = rows[i].block.id /\ ~rows[j].block.failed
  BY DEF ChangedDidNotFail
<1>1. rows \in Seq(SessionRows) /\ a \in DOMAIN rows /\ a \in 1..Len(rows) /\ Len(rows) \in Nat
  BY DEF SessionTypes, Asks
<1>2. PICK k : k = RoundOf(a)
  OBVIOUS
<1>3. a \in Grouped
  BY <1>1 DEF Grouped, Asks
<1>4. k = Len(ReadUpTo(rows)[a]) /\ k \in Nat \ {0}
  BY <1>1, <1>2, <1>3, RoundOfIs
<1>5. PICK raw \in Seq(RoundRecords) : raw = ReadUpTo(rows)[Len(rows)]
  BY <1>1, SplitIs
<1>6. k <= Len(raw)
  <2>1. a \in 0..Len(rows) /\ Len(rows) \in a..Len(rows)
    BY <1>1
  <2> QED  BY <1>1, <1>4, <1>5, <2>1, RoundsGrow
<1>7. k \in 1..Len(raw) /\ k \in DOMAIN Rounds
  BY <1>1, <1>4, <1>5, <1>6, RoundIs
<1>8. Rounds[k].changed = raw[k].changed
  BY <1>1, <1>5, <1>7, RoundIs
<1>9. Explained(k, raw[k])
  <2>1. Len(rows) \in 0..Len(rows)
    BY <1>1
  <2> QED  BY <1>5, <1>7, <2>1, AllExplained
<1>10. file \in raw[k].changed
  BY <1>2, <1>8
<1>11. PICK i, j, id, files : WriteAt(i, k, id, files) /\ AnswerAt(j, k, id) /\ file \in files
  BY <1>9, <1>10, Zenon DEF Explained
<1>12. i \in DOMAIN rows /\ j \in DOMAIN rows /\ RoundOf(i) = RoundOf(a) /\ RoundOf(j) = RoundOf(a)
  BY <1>1, <1>2, <1>11, RoundOfIs DEF WriteAt, AnswerAt
<1>13. i \in RowsOf(a) /\ j \in RowsOf(a)
  BY <1>1, <1>12, RowsOfRound
<1> QED  BY <1>11, <1>13 DEF WriteAt, AnswerAt

\* The page's rounds are the server's, and a file listed as changed was.
THEOREM RoundsAlike == RoundsSpec => []RoundsReadAlike
<1>1. SessionTypes /\ TimesGrow /\ CallsWell => RoundsReadAlike
  BY PagesAgreeWithServer, ChangedAreAnswered DEF RoundsReadAlike
<1> QED  BY <1>1, SessionTyped, CallsWritten, PTL

=============================================================================
