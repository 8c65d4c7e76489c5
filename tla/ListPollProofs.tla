---------------------------- MODULE ListPollProofs ----------------------------
(***************************************************************************)
(* recordsOf serves no list that is older than its time to live, for any   *)
(* number of requests, usage reports, changes and outages.                 *)
(* A list expires only while it is young, and only the holder of the scan's *)
(* lock makes it young again: so nothing expires between the beginning of a *)
(* scan under the lock and its banking, and a list that was read in between *)
(* is of after the last expiry.                                            *)
(***************************************************************************)
EXTENDS ListPoll, TLAPS

Scanning == {"scan", "verdict", "bank"}
Places == {"idle", "records", "tag", "unchanged", "body"} \cup Scanning
Lists == [v : Int, away : SUBSET Sessions]

PollTypes ==
  /\ version \in Nat /\ expiredAt \in Nat /\ floor \in Nat /\ away \subseteq Sessions
  /\ fresh \in BOOLEAN /\ cached \in Lists
  /\ pc \in [Requests \cup Reports -> Places] /\ rows \in [Requests \cup Reports -> Lists]

\* A list there is, of at least that version
AtLeast(list, v) == list # NoRows => v <= list.v

\* The one request that scans holds the lock, and the list is old as long as it does.
LockInv ==
  /\ \A r \in Requests : pc[r] \in Scanning => lock = r
  /\ lock # None => fresh = FALSE
  /\ \A r \in Reports : pc[r] \in {"idle", "scan", "verdict"}

AgeInv ==
  /\ expiredAt <= version
  /\ fresh => AtLeast(cached, expiredAt)
  /\ \A r \in Requests : pc[r] \in {"verdict", "bank"} => AtLeast(rows[r], expiredAt)

FloorInv ==
  /\ pc[Poll] # "idle" => floor <= expiredAt
  /\ pc[Poll] \in {"tag", "unchanged", "body"} => AtLeast(rows[Poll], floor)

PollInv == PollTypes /\ LockInv /\ AgeInv /\ FloorInv

\* A usage report is no request, and a lock is held by somebody.
LEMMA Apart == Requests \cap Reports = {} /\ None \notin Requests /\ Poll \in Requests
  BY PollAssumption DEF Requests, Poll, None

LEMMA InitPoll == Init => PollInv
<1> SUFFICES ASSUME Init PROVE PollInv
  OBVIOUS
<1>1. NoRows \in Lists /\ Poll \in Requests
  BY DEF NoRows, Lists, Requests
<1>2. PollTypes
  BY <1>1 DEF Init, PollTypes, Places
<1> QED  BY <1>1, <1>2 DEF Init, PollInv, LockInv, AgeInv, FloorInv, Scanning

\* The CLI and the clock
LEMMA WorldStep ==
  ASSUME PollInv, Change \/ (\E s \in Sessions : Move(s)) \/ Outage \/ Recovery
  PROVE  PollInv'
<1>1. /\ version \in Nat /\ version' \in Nat /\ version <= version' /\ away' \subseteq Sessions
      /\ UNCHANGED <<verdict, cacheVars, reqVars, tag, client, history>>
  BY DEF PollInv, PollTypes, Change, Move, Outage, Recovery
<1> QED  BY <1>1 DEF PollInv, PollTypes, LockInv, AgeInv, FloorInv, AtLeast,
                   cacheVars, reqVars, history

LEMMA ExpireStep == ASSUME PollInv, Expire PROVE PollInv'
<1>1. /\ fresh = TRUE /\ fresh' = FALSE /\ expiredAt' = version /\ expiredAt <= version
      /\ UNCHANGED <<version, away, cached, lock, pc, rows, floor>>
  BY DEF Expire, PollInv, AgeInv, reqVars, srcVars
<1>2. lock = None /\ \A r \in Requests : pc[r] \notin Scanning
  BY <1>1, Apart DEF PollInv, LockInv
<1>3. PollTypes' /\ LockInv'
  BY <1>1, <1>2 DEF PollInv, PollTypes, LockInv
<1>4. AgeInv'
  BY <1>1, <1>2 DEF PollInv, PollTypes, AgeInv, Scanning
<1>5. FloorInv'
  BY <1>1 DEF PollInv, PollTypes, AgeInv, FloorInv, AtLeast
<1> QED  BY <1>3, <1>4, <1>5 DEF PollInv

LEMMA AskStep == ASSUME PollInv, NEW r \in Requests, Ask(r) PROVE PollInv'
<1>1. /\ pc[r] = "idle" /\ pc' = [pc EXCEPT ![r] = "records"]
      /\ floor' = IF r = Poll THEN expiredAt ELSE floor
      /\ UNCHANGED <<version, away, cached, fresh, lock, rows, expiredAt>>
  BY DEF Ask, Goto, srcVars, cacheVars
<1>2. PollTypes'
  BY <1>1 DEF PollInv, PollTypes, Places
<1> QED  BY <1>1, <1>2, Apart
         DEF PollInv, PollTypes, LockInv, AgeInv, FloorInv, AtLeast, Scanning

\* A request goes on with a list of after the last expiry, or is done.
LEMMA ReturnStep ==
  ASSUME PollInv, NEW r \in Requests, NEW list \in Lists, Return(r, list), pc[r] # "idle",
         AtLeast(list, expiredAt)
  PROVE  /\ pc' \in [Requests \cup Reports -> Places] /\ rows' \in [Requests \cup Reports -> Lists]
         /\ \A q \in Requests \cup Reports : q # r => pc'[q] = pc[q] /\ rows'[q] = rows[q]
         /\ pc'[r] \in {"idle", "tag"}
         /\ r = Poll => rows'[r] = list
         /\ r # Poll => pc'[r] = "idle"
<1>1. NoRows \in Lists
  BY DEF NoRows, Lists
<1>2. CASE r = Poll
  BY <1>2 DEF Return, Goto, PollInv, PollTypes, Places
<1>3. CASE r # Poll
  BY <1>1, <1>3 DEF Return, Finish, Goto, PollInv, PollTypes, Places
<1> QED  BY <1>2, <1>3

LEMMA LockedStep == ASSUME PollInv, NEW r \in Requests, Locked(r) PROVE PollInv'
<1>1. /\ pc[r] = "records" /\ lock = None
      /\ UNCHANGED <<version, away, cached, fresh, expiredAt, floor>>
  BY DEF Locked, srcVars, history
<1>2. \A q \in Requests : pc[q] \notin Scanning
  BY <1>1, Apart DEF PollInv, LockInv
<1>3. CASE fresh
  <2>1. Return(r, cached) /\ lock' = lock /\ AtLeast(cached, expiredAt) /\ cached \in Lists
    BY <1>3 DEF Locked, PollInv, PollTypes, AgeInv
  <2>2. /\ pc' \in [Requests \cup Reports -> Places] /\ rows' \in [Requests \cup Reports -> Lists]
        /\ \A q \in Requests \cup Reports : q # r => pc'[q] = pc[q] /\ rows'[q] = rows[q]
        /\ pc'[r] \in {"idle", "tag"}
        /\ r = Poll => rows'[r] = cached
        /\ r # Poll => pc'[r] = "idle"
    BY <1>1, <2>1, ReturnStep
  <2>3. PollTypes' /\ LockInv' /\ AgeInv'
    BY <1>1, <1>2, <2>1, <2>2, Apart
    DEF PollInv, PollTypes, LockInv, AgeInv, AtLeast, Scanning
  <2>4. FloorInv'
    BY <1>1, <2>1, <2>2 DEF PollInv, PollTypes, FloorInv, AtLeast, Lists, Requests
  <2> QED  BY <2>3, <2>4 DEF PollInv
<1>4. CASE ~fresh
  <2>1. lock' = r /\ pc' = [pc EXCEPT ![r] = "scan"] /\ rows' = rows
    BY <1>4 DEF Locked, Goto
  <2>2. PollTypes'
    BY <1>1, <2>1 DEF PollInv, PollTypes, Places, Scanning
  <2> QED  BY <1>1, <1>2, <1>4, <2>1, <2>2, Apart
           DEF PollInv, PollTypes, LockInv, AgeInv, FloorInv, AtLeast, Scanning
<1> QED  BY <1>3, <1>4

\* A scan reads the sessions as they are, which is after every expiry.
LEMMA ScanStep == ASSUME PollInv, NEW r \in Requests \cup Reports, Scan(r) PROVE PollInv'
<1>1. /\ pc[r] = "scan" /\ pc' = [pc EXCEPT ![r] = "verdict"]
      /\ rows' = [rows EXCEPT ![r] = IF readable THEN Current ELSE NoRows]
      /\ UNCHANGED <<version, away, cached, fresh, lock, expiredAt, floor>>
  BY DEF Scan, Goto, srcVars, cacheVars, history
<1>2. Current \in Lists /\ NoRows \in Lists /\ Current.v = version
  BY DEF Current, NoRows, Lists, PollInv, PollTypes
<1>3. PollTypes'
  BY <1>1, <1>2 DEF PollInv, PollTypes, Places, Scanning
<1>4. rows'[r] = Current \/ rows'[r] = NoRows
  BY <1>1 DEF PollInv, PollTypes
<1>5. AtLeast(rows'[r], expiredAt)
  BY <1>2, <1>4 DEF AtLeast, PollInv, AgeInv
<1> QED  BY <1>1, <1>3, <1>5 DEF PollInv, PollTypes, LockInv, AgeInv, FloorInv, AtLeast, Scanning

LEMMA VerdictStep == ASSUME PollInv, NEW r \in Requests \cup Reports, SetListError(r) PROVE PollInv'
<1>1. /\ pc[r] = "verdict" /\ UNCHANGED <<version, away, cached, fresh, lock, expiredAt, floor>>
  BY DEF SetListError, srcVars, cacheVars, history
<1>2. CASE r \in Reports
  <2>1. pc' = [pc EXCEPT ![r] = "idle"] /\ rows' = [rows EXCEPT ![r] = NoRows] /\ r \notin Requests
    BY <1>2, Apart DEF SetListError, Finish, Goto
  <2>2. NoRows \in Lists
    BY DEF NoRows, Lists
  <2>3. PollTypes'
    BY <1>1, <2>1, <2>2 DEF PollInv, PollTypes, Places
  <2> QED  BY <1>1, <2>1, <2>3 DEF PollInv, PollTypes, LockInv, AgeInv, FloorInv, AtLeast, Scanning
<1>3. CASE r \notin Reports
  <2>1. pc' = [pc EXCEPT ![r] = "bank"] /\ rows' = rows
    BY <1>3 DEF SetListError, Goto
  <2>2. PollTypes'
    BY <1>1, <2>1 DEF PollInv, PollTypes, Places, Scanning
  <2> QED  BY <1>1, <1>3, <2>1, <2>2 DEF PollInv, PollTypes, LockInv, AgeInv, FloorInv, AtLeast, Scanning
<1> QED  BY <1>2, <1>3

LEMMA BankStep == ASSUME PollInv, NEW r \in Requests, Bank(r) PROVE PollInv'
<1>1. /\ pc[r] = "bank" /\ cached' = rows[r] /\ fresh' = TRUE /\ lock' = None
      /\ UNCHANGED <<version, away, expiredAt, floor>>
  BY DEF Bank, srcVars, history
<1>2. AtLeast(rows[r], expiredAt) /\ rows[r] \in Lists /\ lock = r
  BY <1>1 DEF PollInv, PollTypes, AgeInv, LockInv, Scanning
<1>3. /\ pc' \in [Requests \cup Reports -> Places] /\ rows' \in [Requests \cup Reports -> Lists]
      /\ \A q \in Requests \cup Reports : q # r => pc'[q] = pc[q] /\ rows'[q] = rows[q]
      /\ pc'[r] \in {"idle", "tag"}
      /\ r = Poll => rows'[r] = rows[r]
      /\ r # Poll => pc'[r] = "idle"
  <2>1. Return(r, rows[r])
    BY DEF Bank
  <2> QED  BY <1>1, <1>2, <2>1, ReturnStep
<1>4. \A q \in Requests : pc'[q] \notin Scanning
  BY <1>2, <1>3 DEF PollInv, LockInv, Scanning
<1>5. PollTypes' /\ LockInv' /\ AgeInv'
  BY <1>1, <1>2, <1>3, <1>4, Apart
  DEF PollInv, PollTypes, LockInv, AgeInv, AtLeast, Scanning
<1>6. FloorInv'
  BY <1>1, <1>2, <1>3 DEF PollInv, PollTypes, FloorInv, AtLeast, Lists, Requests
<1> QED  BY <1>5, <1>6 DEF PollInv

LEMMA ReportStep == ASSUME PollInv, NEW r \in Reports, Report(r) PROVE PollInv'
<1>1. /\ pc' = [pc EXCEPT ![r] = "scan"] /\ r \notin Requests
      /\ UNCHANGED <<version, away, cached, fresh, lock, rows, expiredAt, floor>>
  BY Apart DEF Report, Goto, srcVars, cacheVars, history
<1>2. PollTypes'
  BY <1>1 DEF PollInv, PollTypes, Places, Scanning
<1>3. LockInv'
  BY <1>1 DEF PollInv, PollTypes, LockInv
<1>4. AgeInv' /\ FloorInv'
  BY <1>1, Apart DEF PollInv, PollTypes, AgeInv, FloorInv, AtLeast
<1> QED  BY <1>2, <1>3, <1>4 DEF PollInv

LEMMA HandleStep == ASSUME PollInv, Handle PROVE PollInv'
<1>1. /\ pc[Poll] \in {"tag", "unchanged", "body"} /\ Poll \in Requests
      /\ UNCHANGED <<version, away, cached, fresh, lock, expiredAt, floor>>
  BY DEF Handle, Compare, NotModified, Answer, srcVars, cacheVars, history, Requests
<1>2. CASE Compare
  <2>1. rows' = rows /\ \E p \in {"unchanged", "body"} : pc' = [pc EXCEPT ![Poll] = p]
    BY <1>2 DEF Compare, Goto
  <2>2. PollTypes'
    BY <1>1, <2>1 DEF PollInv, PollTypes, Places
  <2> QED  BY <1>1, <2>1, <2>2, Apart
           DEF PollInv, PollTypes, LockInv, AgeInv, FloorInv, AtLeast, Scanning
<1>3. CASE NotModified \/ Answer
  <2>1. pc' = [pc EXCEPT ![Poll] = "idle"] /\ rows' = [rows EXCEPT ![Poll] = NoRows] /\ NoRows \in Lists
    BY <1>3 DEF NotModified, Answer, Finish, Goto, NoRows, Lists
  <2>2. PollTypes'
    BY <1>1, <2>1 DEF PollInv, PollTypes, Places
  <2> QED  BY <1>1, <2>1, <2>2, Apart
           DEF PollInv, PollTypes, LockInv, AgeInv, FloorInv, AtLeast, Scanning
<1> QED  BY <1>2, <1>3 DEF Handle

LEMMA PollStep == ASSUME PollInv, [Next]_vars PROVE PollInv'
<1>1. CASE UNCHANGED vars
  BY <1>1 DEF vars, srcVars, cacheVars, reqVars, history,
              PollInv, PollTypes, LockInv, AgeInv, FloorInv, AtLeast
<1>2. CASE Change \/ (\E s \in Sessions : Move(s)) \/ Outage \/ Recovery
  BY <1>2, WorldStep
<1>3. CASE Expire
  BY <1>3, ExpireStep
<1>4. ASSUME NEW r \in Requests, RecordsOf(r) PROVE PollInv'
  BY <1>4, AskStep, LockedStep, ScanStep, VerdictStep, BankStep DEF RecordsOf
<1>5. ASSUME NEW r \in Reports, UsageReport(r) PROVE PollInv'
  BY <1>5, ReportStep, ScanStep, VerdictStep DEF UsageReport
<1>6. CASE Handle
  BY <1>6, HandleStep
<1> QED  BY <1>1, <1>2, <1>3, <1>4, <1>5, <1>6 DEF Next

\* recordsOf of api.go: "now one scans and the rest wait for its result", and no
\* request is answered with a list that had expired before it was made, for any
\* number of requests and of usage reports that list the source past the cache.
THEOREM ListsWithinTTL == Spec => []WithinTTL
<1>1. Init /\ [][Next]_vars => []PollInv
  <2>1. PollInv /\ [Next]_vars => PollInv'
    BY PollStep
  <2> QED  BY InitPoll, <2>1, PTL
<1>2. PollInv => WithinTTL
  BY DEF PollInv, FloorInv, AtLeast, WithinTTL, PollTypes, Lists, Requests
<1> QED  BY <1>1, <1>2, PTL DEF Spec
=============================================================================
