---------------------------- MODULE SnapshotCache ----------------------------
(***************************************************************************)
(* dbSnapshotCache of internal/source/sqlitecache.go for one database: the *)
(* answer is kept under a stamp of the database and the files SQLite keeps *)
(* beside it, taken file by file before the read.                          *)
(*                                                                         *)
(* The database is its content's version, which the writer moves, and one  *)
(* modification number per file; a file that appears or vanishes has moved *)
(* as well (its stamp is -1 then).                                         *)
(***************************************************************************)
EXTENDS Integers

CONSTANTS
  Callers,        \* callers of load
  Parts,          \* how many files the stamp covers: database, -wal, -shm, -journal
  MaxVersion,     \* bound: commits
  MaxMod,         \* bound: writes to one file
  LateFiles       \* the files a commit to which is readable only after its
                  \* last write: a WAL commit frame is written and synced before
                  \* the index in shared memory shows it to readers

ASSUME SnapshotAssumption ==
  /\ Parts \in Nat \ {0} /\ MaxVersion \in Nat /\ MaxMod \in Nat
  /\ LateFiles \subseteq 1..Parts

VARIABLES
  mod,      \* modification number of each file
  version,  \* version of the content a reader sees
  hidden,   \* a commit is written and not yet visible
  entry,    \* the banked answer (guarded by mu)
  pc, stamp, statted, value, \* each caller's place in load and its locals
  asked, got \* the version at the call, and the last answer

dbVars == <<mod, version, hidden>>
loadVars == <<pc, stamp, statted, value, asked, got>>
vars == <<dbVars, entry, loadVars>>

None == -1
Failed == -2
Files == 1..Parts
Unstamped == [i \in Files |-> None]
Stamps == [Files -> Nat \cup {None}]

-----------------------------------------------------------------------------
(* The writer: the agent CLI *)

Moves(i) == /\ mod[i] < MaxMod
            /\ mod' = [mod EXCEPT ![i] = @ + 1]

\* A write that changes no content yet: an uncommitted frame, a checkpoint.
Touch(i) ==
  /\ Moves(i)
  /\ UNCHANGED <<version, hidden, entry, loadVars>>

CommitNow(i) ==
  /\ i \notin LateFiles
  /\ ~hidden /\ version < MaxVersion
  /\ Moves(i)
  /\ version' = version + 1
  /\ UNCHANGED <<hidden, entry, loadVars>>

CommitLate(i) ==
  /\ i \in LateFiles
  /\ ~hidden /\ version < MaxVersion
  /\ Moves(i)
  /\ hidden' = TRUE
  /\ UNCHANGED <<version, entry, loadVars>>

Commit(i) == CommitNow(i) \/ CommitLate(i)

Appear ==
  /\ hidden
  /\ hidden' = FALSE
  /\ version' = version + 1
  /\ UNCHANGED <<mod, entry, loadVars>>

-----------------------------------------------------------------------------
(* load *)

Goto(c, place) == pc' = [pc EXCEPT ![c] = place]

\* A call has nothing left of the one before it.
Return(c, v) ==
  /\ got' = [got EXCEPT ![c] = v]
  /\ asked' = [asked EXCEPT ![c] = None]
  /\ stamp' = [stamp EXCEPT ![c] = Unstamped]
  /\ statted' = [statted EXCEPT ![c] = 0]
  /\ value' = [value EXCEPT ![c] = None]
  /\ Goto(c, "idle")

Call(c) ==
  /\ pc[c] = "idle"
  /\ asked' = [asked EXCEPT ![c] = version]
  /\ Goto(c, "stamp")
  /\ UNCHANGED <<dbVars, entry, stamp, statted, value, got>>

StampNext(c) ==
  LET i == statted[c] + 1 IN
  /\ pc[c] = "stamp"
  /\ stamp' = [stamp EXCEPT ![c][i] = mod[i]]
  /\ statted' = [statted EXCEPT ![c] = i]
  /\ Goto(c, IF i = Parts THEN "look" ELSE "stamp")
  /\ UNCHANGED <<dbVars, entry, value, asked, got>>

Hit(s) == entry.value # None /\ entry.stamp = s

ReturnHit(c) ==
  /\ pc[c] = "look" /\ Hit(stamp[c])
  /\ Return(c, entry.value)
  /\ UNCHANGED <<dbVars, entry>>

BeginRead(c) ==
  /\ pc[c] = "look" /\ ~Hit(stamp[c])
  /\ value' = [value EXCEPT ![c] = version]
  /\ Goto(c, "read")
  /\ UNCHANGED <<dbVars, entry, stamp, statted, asked, got>>

\* The read sees the content at one instant of its duration.
EndRead(c) ==
  /\ pc[c] = "read"
  /\ \E v \in value[c]..version : value' = [value EXCEPT ![c] = v]
  /\ Goto(c, "bank")
  /\ UNCHANGED <<dbVars, entry, stamp, statted, asked, got>>

FailRead(c) ==
  /\ pc[c] = "read"
  /\ Return(c, Failed)
  /\ UNCHANGED <<dbVars, entry>>

\* mutant: the answer is banked under the stamp of after the read
BankLate(c) ==
  /\ pc[c] = "bank"
  /\ entry' = [stamp |-> mod, value |-> value[c]]
  /\ Return(c, value[c])
  /\ UNCHANGED dbVars

Bank(c) ==
  /\ pc[c] = "bank"
  /\ entry' = [stamp |-> stamp[c], value |-> value[c]]
  /\ Return(c, value[c])
  /\ UNCHANGED dbVars

Load(c) ==
  \/ Call(c) \/ StampNext(c) \/ ReturnHit(c) \/ BeginRead(c)
  \/ EndRead(c) \/ FailRead(c) \/ Bank(c)

-----------------------------------------------------------------------------
Init ==
  /\ mod = [i \in Files |-> 0] /\ version = 0 /\ hidden = FALSE
  /\ entry = [stamp |-> Unstamped, value |-> None]
  /\ pc = [c \in Callers |-> "idle"]
  /\ stamp = [c \in Callers |-> Unstamped]
  /\ statted = [c \in Callers |-> 0]
  /\ value = [c \in Callers |-> None]
  /\ asked = [c \in Callers |-> None]
  /\ got = [c \in Callers |-> None]

Next ==
  \/ \E i \in Files : Touch(i) \/ Commit(i)
  \/ Appear
  \/ \E c \in Callers : Load(c)

Spec == Init /\ [][Next]_vars

-----------------------------------------------------------------------------
(* Properties *)

TypeOK ==
  /\ mod \in [Files -> Nat] /\ version \in Nat /\ hidden \in BOOLEAN
  /\ entry \in [stamp : Stamps, value : Nat \cup {None}]
  /\ pc \in [Callers -> {"idle", "stamp", "look", "read", "bank"}]
  /\ stamp \in [Callers -> Stamps]
  /\ statted \in [Callers -> 0..Parts]
  /\ value \in [Callers -> Nat \cup {None}]
  /\ asked \in [Callers -> Nat \cup {None}]
  /\ got \in [Callers -> Nat \cup {None, Failed}]

\* Only the commit whose last write readers do not see yet can be missed, and
\* only where there are such commits.
Slack == IF LateFiles = {} THEN 0 ELSE 1

\* "A value read while the file was changing is never served as if it were
\* current" (sqlitecache.go:49-51): a caller gets the content of some instant
\* between its call and its return, whatever was banked by whom in between, or
\* one that misses the commit then being written.
Fresh == INSTANCE FreshRead WITH
  Callers <- Callers, MaxVersion <- MaxVersion, Slack <- Slack,
  version <- version, asked <- asked, got <- got
ServesCurrent == Fresh!Spec

\* The same of the banked answer: where its stamp is the files' present one it
\* is the present content, or misses that one commit and never more.
StampedIsCurrent ==
  entry.value # None /\ entry.stamp = mod => version <= entry.value + Slack

\* What the comment at sqlitecache.go:49-51 says of every commit.
StampedExactly == entry.value # None /\ entry.stamp = mod => entry.value = version
=============================================================================
