------------------------------ MODULE FreshRead ------------------------------
(***************************************************************************)
(* What a cache over files that other programs write promises its callers: *)
(* the answer is the content at some instant between the call and the      *)
(* return, at most Slack changes older, or the error of a read made in     *)
(* that time.  SnapshotCache and FinalCache implement it.                  *)
(***************************************************************************)
EXTENDS Integers

CONSTANTS
  Callers,    \* who asks
  MaxVersion, \* bound: changes of the content
  Slack       \* how many of the latest changes an answer may miss

VARIABLES
  version, \* how often the content changed
  asked,   \* the version each call in progress was made at, or None
  got      \* each caller's last answer: a version, Failed, or None

vars == <<version, asked, got>>

None == -1
Failed == -2

Init ==
  /\ version = 0
  /\ asked = [c \in Callers |-> None]
  /\ got = [c \in Callers |-> None]

Change ==
  /\ version < MaxVersion
  /\ version' = version + 1
  /\ UNCHANGED <<asked, got>>

Ask(c) ==
  /\ asked[c] = None
  /\ asked' = [asked EXCEPT ![c] = version]
  /\ UNCHANGED <<version, got>>

Answer(c) ==
  /\ asked[c] # None
  /\ \E v \in {v \in 0..version : asked[c] <= v + Slack} \cup {Failed} :
       got' = [got EXCEPT ![c] = v]
  /\ asked' = [asked EXCEPT ![c] = None]
  /\ UNCHANGED version

Next == Change \/ \E c \in Callers : Ask(c) \/ Answer(c)

Spec == Init /\ [][Next]_vars
=============================================================================
