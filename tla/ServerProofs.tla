----------------------------- MODULE ServerProofs -----------------------------
(***************************************************************************)
(* The server as a process: the cap of limitListener for any number of     *)
(* connections, permits and queue slots; the verdict of -d for any timing  *)
(* of the child within the delays it is given; the sources of a resolver   *)
(* for any modes, labels and number of changes on disk; and the readers of *)
(* a transcript, for any transcript of any format: its pages, its counts,  *)
(* what is quoted of it and its final result.                              *)
(***************************************************************************)
EXTENDS LimitListener, DaemonStart, SourceResolver, Transcripts, FiniteSetTheorems,
        NaturalsInduction, WellFoundedInduction, TLAPS

-----------------------------------------------------------------------------
(* Connections.  The permits taken are counted by sem alone; the invariant *)
(* says whose they are: the connections in the places of Holding.          *)

HoldingPlaces == {"direct", "admitted", "serving"}
Holding == {c \in Conns : place[c] \in HoldingPlaces}

PermitInv ==
  /\ place \in [Conns -> Places]
  /\ IsFiniteSet(Holding)
  /\ sem = Cardinality(Holding)
  /\ sem <= MaxConnections

\* Before the first accept no permit is out.
LEMMA InitPermits == Init => PermitInv
<1> SUFFICES ASSUME Init PROVE PermitInv
  OBVIOUS
<1>1. place \in [Conns -> Places] /\ Holding = {}
  BY DEF Init, Places, Holding, HoldingPlaces
<1>2. IsFiniteSet(Holding) /\ Cardinality(Holding) = 0
  BY <1>1, FS_EmptySet
<1> QED  BY <1>1, <1>2, LimitAssumption DEF Init, PermitInv

\* Moving a connection among the places that hold no permit, or among those
\* that do, takes and returns none.
LEMMA KeepPermits ==
  ASSUME PermitInv, NEW c \in Conns, NEW p \in Places, Move(c, p), sem' = sem,
         place[c] \in HoldingPlaces <=> p \in HoldingPlaces
  PROVE  PermitInv'
<1>1. place' \in [Conns -> Places] /\ Holding' = Holding
  BY DEF PermitInv, Move, Holding
<1> QED  BY <1>1 DEF PermitInv

\* A connection that gets a permit is a new holder.
LEMMA GivePermit ==
  ASSUME PermitInv, NEW c \in Conns, NEW p \in HoldingPlaces, Move(c, p), TakePermit,
         place[c] \notin HoldingPlaces
  PROVE  PermitInv'
<1>1. place' \in [Conns -> Places] /\ Holding' = Holding \cup {c} /\ c \notin Holding
  BY DEF PermitInv, Move, Holding, HoldingPlaces, Places
<1>2. IsFiniteSet(Holding') /\ Cardinality(Holding') = Cardinality(Holding) + 1
  BY <1>1, FS_AddElement DEF PermitInv
<1>3. sem \in Nat
  BY FS_CardinalityType DEF PermitInv
<1> QED  BY <1>1, <1>2, <1>3, LimitAssumption DEF PermitInv, TakePermit

\* The first Close of a served connection ends its holding.
LEMMA ReturnPermit ==
  ASSUME PermitInv, NEW c \in Conns, place[c] = "serving", Move(c, "closing"), sem' = sem - 1
  PROVE  PermitInv'
<1>1. place' \in [Conns -> Places] /\ Holding' = Holding \ {c} /\ c \in Holding
  BY DEF PermitInv, Move, Holding, HoldingPlaces, Places
<1>2. IsFiniteSet(Holding') /\ Cardinality(Holding') = Cardinality(Holding) - 1
  BY <1>1, FS_RemoveElement DEF PermitInv
<1>3. sem \in Nat
  BY FS_CardinalityType DEF PermitInv
<1> QED  BY <1>1, <1>2, <1>3, LimitAssumption DEF PermitInv

\* Every step of the accept loop, the queue, the handlers and Run keeps the permits
\* with their holders.
LEMMA PermitStep == PermitInv /\ [Next]_vars => PermitInv'
<1> SUFFICES ASSUME PermitInv, [Next]_vars  PROVE PermitInv'
  OBVIOUS
<1> USE DEF HoldingPlaces, Places
<1>1. CASE UNCHANGED <<place, sem>>
  BY <1>1 DEF PermitInv, Holding
<1>2. ASSUME NEW c \in Conns, Arrive(c) \/ AcceptInner(c) \/ Enqueue(c) \/ Refuse(c)
      PROVE  PermitInv'
  BY <1>2, KeepPermits DEF Arrive, AcceptInner, Enqueue, Refuse, Reject
<1>3. ASSUME NEW c \in Conns, TimeOut(c) \/ RejectLate(c) \/ HandOver(c) \/ StateClosed(c)
      PROVE  PermitInv'
  BY <1>3, KeepPermits DEF TimeOut, RejectLate, Reject, HandOver, StateClosed
<1>4. ASSUME NEW c \in Conns, AdmitStraight(c) \/ GetPermit(c)  PROVE PermitInv'
  BY <1>4, GivePermit DEF AdmitStraight, GetPermit
<1>5. ASSUME NEW c \in Conns, Close(c)  PROVE PermitInv'
  <2>1. CASE place[c] = "serving"
    BY <1>5, <2>1, ReturnPermit DEF Close, ReleaseOnce
  <2>2. CASE place[c] = "closing"
    BY <1>5, <2>2, KeepPermits DEF Close, ReleaseOnce
  <2> QED  BY <1>5, <2>1, <2>2 DEF Close
<1>6. ASSUME NEW c \in Conns, LeaveQueue(c)  PROVE UNCHANGED <<place, sem>>
  BY <1>6 DEF LeaveQueue
<1>7. AcceptFails \/ AcceptReturnsError \/ Retry \/ Signal \/ ShutdownReturns \/ Exit
      => UNCHANGED <<place, sem>>
  BY DEF AcceptFails, AcceptReturnsError, Retry, Signal, ShutdownReturns, Exit
<1>8. CASE UNCHANGED vars
  BY <1>1, <1>8 DEF vars
<1> QED  BY <1>1, <1>2, <1>3, <1>4, <1>5, <1>6, <1>7, <1>8
         DEF Next, AcceptLoop, Admit, Serve, Handle

\* Every permit of limitListener is out for a connection that is being handed over or
\* handled, and no more are out than there are.
THEOREM PermitInvariance == Spec => []PermitInv
<1> QED  BY InitPermits, PermitStep, PTL DEF Spec

\* Permits are taken by the connections being handed over or handled, and by
\* nobody else: acceptLoop, admit and releaseConn.Close lose none.
LEMMA PermitsBalance == PermitInv => NoPermitLost
<1>1. Holding = At("direct") \cup At("admitted") \cup At("serving")
  BY DEF Holding, HoldingPlaces, At
<1> QED  BY <1>1 DEF PermitInv, NoPermitLost

\* Those being handled are among them.
LEMMA HandledHold == PermitInv => HandledWithinCap
<1> SUFFICES ASSUME PermitInv PROVE HandledWithinCap
  OBVIOUS
<1>1. At("serving") \subseteq Holding
  BY DEF At, Holding, HoldingPlaces
<1>2. IsFiniteSet(At("serving")) /\ Cardinality(At("serving")) <= Cardinality(Holding)
  BY <1>1, FS_Subset DEF PermitInv
<1>3. Cardinality(At("serving")) \in Nat /\ Cardinality(Holding) \in Nat
  BY <1>2, FS_CardinalityType DEF PermitInv
<1> QED  BY <1>2, <1>3, LimitAssumption DEF PermitInv, HandledWithinCap

\* limitListener "caps how many connections are being handled at once"
\* (http.go:1057), and a permit that is out is out for a connection being handed
\* over or handled, so that the cap does not shrink.
THEOREM CapIsKept == Spec => []CapKept
<1>1. PermitInv => CapKept
  BY PermitsBalance, HandledHold DEF CapKept
<1> QED  BY PermitInvariance, <1>1, PTL

-----------------------------------------------------------------------------
(* The start in the background *)

\* The verdict rests on times: a child listens or gives up in less than the moment it
\* is given, and at least one probe comes between its end of trying and the timeout.
InTime == MaxBind < SettleDelay /\ MaxBind + 1 < ProbeTimeout

\* What the parent can end with saying
Verdicts == {"saidExited", "saidNeverListened", "saidStarted"}

DaemonType ==
  /\ now \in Nat /\ born \in Nat /\ retry \in Nat /\ settle \in Nat /\ exits \in BOOLEAN
  /\ parent \in {"idle", "watching", "settling"} \cup Verdicts
  /\ child \in {"none", "starting", "listening", "dead", "stopped"}
  /\ probed \in {"no", "answered", "timeout"}

\* Who has a child, and where its time stands
ChildInv ==
  /\ parent = "idle" <=> child = "none"
  /\ exits => child \in {"dead", "stopped"}
  /\ parent # "idle" => born <= now
  /\ child = "starting" => now <= born + MaxBind
  /\ child = "dead" /\ parent \in {"watching", "settling"} => now <= born + MaxBind
  /\ parent = "settling" => now <= settle /\ born + SettleDelay <= settle

\* A child that listens is probed at most one interval after it began to try.
ProbeInv ==
  /\ parent = "idle" => probed = "no"
  /\ parent # "idle" /\ probed = "no" => now <= retry /\ retry <= now + 1
  /\ Bound /\ probed = "no" => retry <= born + MaxBind + 1
  /\ probed = "timeout" => ~Bound /\ born + ProbeTimeout <= now
  /\ parent = "saidNeverListened" => probed = "timeout"

DaemonInv == DaemonType /\ ChildInv /\ ProbeInv /\ DaemonVerdict

\* Before startDaemon runs there is no child and nothing is said.
LEMMA DaemonInitInv == DaemonInit => DaemonInv
<1> SUFFICES ASSUME DaemonInit PROVE DaemonInv
  OBVIOUS
<1> USE DEF DaemonInit
<1>1. DaemonType
  BY DEF DaemonType, Verdicts
<1>2. ChildInv
  BY DEF ChildInv
<1>3. ProbeInv
  BY DEF ProbeInv, Bound
<1>4. DaemonVerdict
  BY DEF DaemonVerdict
<1> QED  BY <1>1, <1>2, <1>3, <1>4 DEF DaemonInv

\* Every step of the parent, of its child, of another program on the port and of time
\* keeps the invariant, if the times are such.
LEMMA DaemonStep ==
  ASSUME InTime, DaemonInv, [DaemonNext]_daemonVars
  PROVE  DaemonInv'
<1>0. DaemonType /\ ChildInv /\ ProbeInv /\ DaemonVerdict
  BY DEF DaemonInv
<1> USE <1>0, DaemonAssumption DEF DaemonInv, DaemonType, ChildInv, ProbeInv, DaemonVerdict, Bound, Verdicts, InTime
<1>1. CASE Bind
  BY <1>1 DEF Bind
<1>2. CASE Die
  BY <1>2 DEF Die
<1>3. CASE OtherProgram
  BY <1>3 DEF OtherProgram
<1>4. CASE StartChild
  BY <1>4 DEF StartChild
<1>5. CASE WaitReturns
  BY <1>5 DEF WaitReturns
<1>6. CASE Probe
  BY <1>6 DEF Probe, ProbeDue
<1>7. CASE SeesExit \/ SeesExitLate
  BY <1>7 DEF SeesExit, SeesExitLate
<1>8. CASE SeesTimeout
  BY <1>8 DEF SeesTimeout
<1>9. CASE SeesPort
  BY <1>9 DEF SeesPort
<1>10. CASE Settled
  BY <1>10 DEF Settled
<1>11. CASE Pass
  BY <1>11 DEF Pass, Ready, ProbeDue
<1>12. CASE UNCHANGED daemonVars
  BY <1>12 DEF daemonVars
<1> QED
  BY <1>1, <1>2, <1>3, <1>4, <1>5, <1>6, <1>7, <1>8, <1>9, <1>10, <1>11, <1>12 DEF DaemonNext

\* What startDaemon says of its child is so when it says it: "started" of a child that
\* listens, "exited" of one that has, "never listened" of one that does not.
THEOREM VerdictIsTrue ==
  ASSUME InTime
  PROVE  DaemonSpec => []DaemonVerdict
<1>1. DaemonInv /\ [DaemonNext]_daemonVars => DaemonInv'
  BY DaemonStep
<1>2. DaemonInv => DaemonVerdict
  BY DEF DaemonInv
<1> QED  BY DaemonInitInv, <1>1, <1>2, PTL DEF DaemonSpec

-----------------------------------------------------------------------------
(* The sources *)

KnownModes == Range(Modes)
AllSources == [mode : STRING, reads : SUBSET Stores, id : Int]

\* An instance of a mode of KnownModes: it reads the mode's own store, or OpenClaw's databases.
InstanceOf(src, m) ==
  /\ src \in AllSources /\ src.mode = m /\ src.id > 0
  /\ src.reads = {m} \/ (m = "openclaw" /\ src.reads \subseteq Databases)

ResolverType ==
  /\ named \in KnownModes \cup {"auto"} /\ made \in Nat /\ next \in Nat
  /\ disk \subseteq Stores /\ steady \subseteq Stores
  /\ DOMAIN live = KnownModes
  /\ enabled \in Seq(AllSources) /\ answer \in Seq(AllSources)

\* What is remembered: of each mode an instance of it, or nothing yet; of a named
\* mode its own from the start.
RememberInv ==
  /\ \A m \in KnownModes : live[m] = Nobody \/ InstanceOf(live[m], m)
  /\ named # "auto" => live[named] # Nobody /\ next = 0
  /\ fallback = Nobody \/ InstanceOf(fallback, "openclaw")

\* The part of a call that is done: the modes looked at so far are enabled from what is
\* remembered of them, each at most once, and by what is on disk if that has not moved.
LookedAt == {Modes[k] : k \in {k \in DOMAIN Modes : k < next}}
Enabled == {enabled[i].mode : i \in DOMAIN enabled}
EnabledInv ==
  next > 0 =>
    /\ \A i \in DOMAIN enabled :
         enabled[i].mode \in LookedAt /\ enabled[i] = live[enabled[i].mode] /\ enabled[i] # Nobody
    /\ \A i, j \in DOMAIN enabled : enabled[i].mode = enabled[j].mode => i = j
    /\ \A m \in (LookedAt \cap steady) \ {"openclaw"} : m \in Enabled <=> m \in disk

\* Whatever was served is still remembered.
Remembered(src) ==
  /\ src # Nobody
  /\ \/ src.mode \in KnownModes /\ src = live[src.mode]
     \/ src \in Range(Extras) \/ src = fallback
ServedInv == \A src \in served : Remembered(src)

AnswerInv ==
  /\ \A i, j \in DOMAIN answer : answer[i].mode = answer[j].mode => i = j
  /\ FollowsDisk

ResolverInv == ResolverType /\ RememberInv /\ EnabledInv /\ ServedInv /\ AnswerInv

\* What the assumption says of the modes and labels, as the proofs use it.
LEMMA ModesAre ==
  /\ Modes \in Seq(STRING) /\ Labels \in Seq(STRING)
  /\ "openclaw" \in KnownModes /\ KnownModes \subseteq STRING /\ KnownModes \subseteq Stores
  /\ KnownModes \cap Databases = {} /\ KnownModes \cap Range(Labels) = {} /\ "auto" \notin KnownModes
  /\ \A i, j \in DOMAIN Modes : Modes[i] = Modes[j] => i = j
  /\ \A i, j \in DOMAIN Labels : Labels[i] = Labels[j] => i = j
BY ResolverAssumption DEF KnownModes, IsInjective, Stores, Range

\* The labelled instances: one for each label, of its label.
LEMMA ExtrasAre ==
  /\ Extras \in Seq(AllSources) /\ DOMAIN Extras = DOMAIN Labels
  /\ \A n \in DOMAIN Labels : Extras[n].mode = Labels[n] /\ Extras[n] # Nobody
<1>1. DOMAIN Labels = 1..Len(Labels) /\ Len(Labels) \in Nat
  BY ModesAre
<1>2. \A n \in DOMAIN Labels : [mode |-> Labels[n], reads |-> {}, id |-> -n] \in AllSources
  BY ModesAre, <1>1 DEF AllSources
<1>3. \A n \in DOMAIN Labels : [mode |-> Labels[n], reads |-> {}, id |-> -n] # Nobody
  BY <1>1 DEF Nobody
<1> QED  BY <1>1, <1>2, <1>3 DEF Extras

\* A source made now is an instance of its mode.
LEMMA MadeNow ==
  ASSUME ResolverType, NEW m \in KnownModes
  PROVE  /\ InstanceOf(AtSource(m), m)
         /\ m # "openclaw" => (Exists(AtSource(m)) <=> m \in disk)
BY ModesAre DEF ResolverType, AtSource, ReadsOf, InstanceOf, AllSources, Stores, KnownModes, Exists

\* An instance is not the mark of nothing remembered.
LEMMA SomebodyIs ==
  ASSUME NEW src, NEW m, InstanceOf(src, m)
  PROVE  src # Nobody
BY DEF InstanceOf, Nobody

\* Whether an instance is there is what the disk says of its mode, OpenClaw's apart.
LEMMA ExistsIs ==
  ASSUME NEW src, NEW m \in KnownModes \ {"openclaw"}, InstanceOf(src, m)
  PROVE  Exists(src) <=> m \in disk
BY ModesAre DEF InstanceOf, Exists

\* NewResolver remembers at most the named source.
LEMMA ResolverInitInv == ResolverInit => ResolverInv
<1> SUFFICES ASSUME ResolverInit PROVE ResolverInv
  OBVIOUS
<1>1. ResolverType
  BY ModesAre DEF ResolverInit, ResolverType, KnownModes
<1>2. RememberInv
  <2>1. ASSUME NEW m \in KnownModes, m = named  PROVE InstanceOf(live[m], m)
    BY <2>1, ModesAre DEF ResolverInit, KnownModes, InstanceOf, AllSources, Stores
  <2>2. ASSUME NEW m \in KnownModes, m # named  PROVE live[m] = Nobody
    BY <2>2 DEF ResolverInit, KnownModes
  <2> QED  BY <2>1, <2>2, SomebodyIs DEF ResolverInit, RememberInv, KnownModes
<1>3. EnabledInv /\ ServedInv /\ AnswerInv
  BY DEF ResolverInit, EnabledInv, ServedInv, AnswerInv, FollowsDisk, Answered
<1> QED  BY <1>1, <1>2, <1>3 DEF ResolverInv

\* A store that moves is no longer one of those a call can be held to.
LEMMA StoreMovesInv ==
  ASSUME ResolverInv, NEW s \in Stores, StoreMoves(s)
  PROVE  ResolverInv'
<1>1. /\ UNCHANGED <<named, live, fallback, made, next, enabled, answer, served>>
      /\ steady' = steady \ {s} /\ disk' \subseteq Stores
      /\ \A m \in steady' : m \in disk' <=> m \in disk
  BY DEF StoreMoves, ResolverInv, ResolverType
<1>2. ResolverType' /\ RememberInv' /\ ServedInv'
  BY <1>1 DEF ResolverInv, ResolverType, RememberInv, ServedInv, Remembered
<1>3. EnabledInv'
  BY <1>1 DEF ResolverInv, EnabledInv, LookedAt, Enabled
<1>4. AnswerInv'
  BY <1>1 DEF ResolverInv, AnswerInv, FollowsDisk, Answered, Served
<1> QED  BY <1>2, <1>3, <1>4 DEF ResolverInv

\* Parts of the statements on lists of sources, named: no mode twice; modes of
\* KnownModes only; one list and the labelled instances together.
ModesOnce(q) == \A i, j \in DOMAIN q : q[i].mode = q[j].mode => i = j
OfKnown(q) == \A i \in DOMAIN q : q[i].mode \in KnownModes
Joins(both, found) == Range(both) = Range(found) \cup Range(Extras)

\* What is returned is remembered, once, and is what the disk says.
LEMMA ReturnInv ==
  ASSUME ResolverInv, NEW sources \in Seq(AllSources), Return(sources),
         UNCHANGED <<disk, named, live>>, ResolverType', RememberInv', EnabledInv',
         fallback' = fallback \/ fallback = Nobody,
         \A i \in DOMAIN sources : Remembered(sources[i])',
         ModesOnce(sources),
         FollowsDisk'
  PROVE  ResolverInv'
<1>1. answer' = sources /\ served' = served \cup Range(sources)
  BY DEF Return
<1>2. \A src \in served : Remembered(src)'
  BY DEF ResolverInv, ServedInv, Remembered
<1>3. ServedInv'
  BY <1>1, <1>2 DEF ServedInv, Range
<1> QED  BY <1>1, <1>3 DEF AnswerInv, ResolverInv, ModesOnce

\* Looking at one mode: it is enabled if it is there, from then on as it is remembered.
LEMMA LookInv ==
  ASSUME ResolverInv, LookNext
  PROVE  ResolverInv'
<1> DEFINE m == Modes[next]
           src == IF live[m] = Nobody THEN AtSource(m) ELSE live[m]
<1>1. /\ m \in KnownModes /\ next \in Nat \ {0} /\ next' = next + 1
      /\ UNCHANGED <<disk, named, fallback, steady, answer, served>>
  BY ModesAre DEF LookNext, KnownModes, Range
<1>2. ResolverType /\ RememberInv /\ EnabledInv /\ ServedInv /\ AnswerInv
  BY DEF ResolverInv
<1>3. InstanceOf(src, m) /\ src # Nobody /\ named = "auto"
  BY <1>1, <1>2, MadeNow, SomebodyIs DEF RememberInv
<1>4. m # "openclaw" => (Exists(src) <=> m \in disk)
  BY <1>1, <1>2, <1>3, ExistsIs
<1>5. LookedAt' = LookedAt \cup {m} /\ m \notin LookedAt /\ LookedAt \subseteq KnownModes
  BY <1>1, ModesAre DEF LookedAt, LookNext, KnownModes, Range
<1>6. AnswerInv'
  BY <1>1, <1>2 DEF AnswerInv, FollowsDisk, Answered
<1>7. CASE Exists(src)
  <2>1. /\ enabled' = Append(enabled, src) /\ made' \in Nat
        /\ live' = [live EXCEPT ![m] = src] /\ (live[m] = Nobody \/ live[m] = src)
    BY <1>2, <1>7 DEF LookNext, LookAt, ResolverType
  <2>2. ResolverType'
    BY <1>1, <1>2, <1>3, <2>1 DEF ResolverType, InstanceOf
  <2>3. RememberInv'
    BY <1>1, <1>2, <1>3, <2>1 DEF ResolverType, RememberInv, InstanceOf
  <2>4. ServedInv'
    BY <1>1, <1>2, <2>1 DEF ResolverType, ServedInv, Remembered
  <2>5. EnabledInv'
    <3>1. /\ DOMAIN enabled = 1..Len(enabled) /\ Len(enabled) \in Nat
          /\ DOMAIN enabled' = 1..(Len(enabled) + 1)
          /\ enabled'[Len(enabled) + 1] = src
          /\ \A i \in DOMAIN enabled : enabled'[i] = enabled[i]
      BY <1>2, <1>3, <2>1 DEF ResolverType, InstanceOf
    <3>2. \A i \in DOMAIN enabled : enabled[i].mode \in LookedAt
      BY <1>1, <1>2 DEF EnabledInv
    <3>3. src.mode = m /\ live'[m] = src
      BY <1>1, <1>2, <1>3, <2>1 DEF InstanceOf, ResolverType
    <3>4. \A i \in DOMAIN enabled' :
            enabled'[i].mode \in LookedAt' /\ enabled'[i] = live'[enabled'[i].mode] /\ enabled'[i] # Nobody
      BY <1>1, <1>2, <1>3, <1>5, <2>1, <3>1, <3>2, <3>3 DEF EnabledInv, ResolverType
    <3>5. \A i, j \in DOMAIN enabled' : enabled'[i].mode = enabled'[j].mode => i = j
      BY <1>1, <1>2, <1>5, <3>1, <3>2, <3>3 DEF EnabledInv
    <3>6. Enabled' = Enabled \cup {m}
      BY <3>1, <3>3 DEF Enabled
    <3>7. \A n \in (LookedAt' \cap steady') \ {"openclaw"} : n \in Enabled' <=> n \in disk'
      BY <1>1, <1>2, <1>4, <1>5, <1>7, <3>6 DEF EnabledInv
    <3> QED  BY <3>4, <3>5, <3>7 DEF EnabledInv
  <2> QED  BY <1>6, <2>2, <2>3, <2>4, <2>5 DEF ResolverInv
<1>8. CASE ~Exists(src)
  <2>1. UNCHANGED <<enabled, live, made>>
    BY <1>8 DEF LookNext, LookAt
  <2>2. ResolverType' /\ RememberInv' /\ ServedInv'
    BY <1>1, <1>2, <1>3, <2>1 DEF ResolverType, RememberInv, ServedInv, Remembered
  <2>3. m \notin Enabled /\ Enabled' = Enabled
    BY <1>1, <1>2, <1>5, <2>1 DEF EnabledInv, Enabled
  <2>4. EnabledInv'
    BY <1>1, <1>2, <1>4, <1>5, <1>8, <2>1, <2>3 DEF EnabledInv
  <2> QED  BY <1>6, <2>2, <2>4 DEF ResolverInv
<1> QED  BY <1>7, <1>8

\* What a call found and the labelled instances, put together: each mode once.
LEMMA WithExtras ==
  ASSUME NEW found \in Seq(AllSources), OfKnown(found), ModesOnce(found)
  PROVE  /\ found \o Extras \in Seq(AllSources) /\ ModesOnce(found \o Extras)
         /\ Joins(found \o Extras, found)
<1> DEFINE both == found \o Extras
<1>1. /\ both \in Seq(AllSources) /\ Len(both) = Len(found) + Len(Extras)
      /\ Len(found) \in Nat /\ Len(Extras) \in Nat
      /\ DOMAIN found = 1..Len(found) /\ DOMAIN Extras = 1..Len(Extras) /\ DOMAIN both = 1..Len(both)
      /\ \A i \in 1..Len(both) : both[i] = IF i <= Len(found) THEN found[i] ELSE Extras[i - Len(found)]
  BY ExtrasAre
<1> HIDE DEF both
<1>2. \A n \in DOMAIN Extras : Extras[n].mode \in Range(Labels) /\ Extras[n].mode \notin KnownModes
  BY ExtrasAre, ModesAre DEF Range
<1>3. \A i, j \in DOMAIN Extras : Extras[i].mode = Extras[j].mode => i = j
  BY ExtrasAre, ModesAre
<1>4. ModesOnce(both)
  <2> SUFFICES ASSUME NEW i \in DOMAIN both, NEW j \in DOMAIN both, both[i].mode = both[j].mode
               PROVE  i = j
    BY DEF ModesOnce
  <2>1. CASE i <= Len(found) /\ j <= Len(found)
    BY <1>1, <2>1 DEF ModesOnce
  <2>2. CASE i > Len(found) /\ j > Len(found)
    <3>1. i - Len(found) \in DOMAIN Extras /\ j - Len(found) \in DOMAIN Extras
      BY <1>1, <2>2
    <3>2. both[i] = Extras[i - Len(found)] /\ both[j] = Extras[j - Len(found)]
      BY <1>1, <2>2
    <3>3. i - Len(found) = j - Len(found)
      BY <1>3, <3>1, <3>2
    <3> QED  BY <1>1, <3>3
  <2>3. CASE i <= Len(found) /\ j > Len(found)
    <3>1. i \in DOMAIN found /\ both[i] = found[i] /\ j - Len(found) \in DOMAIN Extras /\ both[j] = Extras[j - Len(found)]
      BY <1>1, <2>3
    <3> QED  BY <1>2, <3>1 DEF OfKnown
  <2>4. CASE i > Len(found) /\ j <= Len(found)
    <3>1. j \in DOMAIN found /\ both[j] = found[j] /\ i - Len(found) \in DOMAIN Extras /\ both[i] = Extras[i - Len(found)]
      BY <1>1, <2>4
    <3> QED  BY <1>2, <3>1 DEF OfKnown
  <2> QED  BY <1>1, <2>1, <2>2, <2>3, <2>4
<1>5. \A i \in DOMAIN both : \/ \E k \in DOMAIN found : both[i] = found[k]
                           \/ \E n \in DOMAIN Extras : both[i] = Extras[n]
  <2> SUFFICES ASSUME NEW i \in DOMAIN both
               PROVE  \/ \E k \in DOMAIN found : both[i] = found[k]
                      \/ \E n \in DOMAIN Extras : both[i] = Extras[n]
    OBVIOUS
  <2>1. CASE i <= Len(found)
    BY <1>1, <2>1
  <2>2. CASE i > Len(found)
    <3>1. i - Len(found) \in DOMAIN Extras /\ both[i] = Extras[i - Len(found)]
      BY <1>1, <2>2
    <3> QED  BY <3>1
  <2> QED  BY <1>1, <2>1, <2>2
<1>6. \A k \in DOMAIN found : k \in DOMAIN both /\ both[k] = found[k]
  BY <1>1
<1>7. \A n \in DOMAIN Extras : n + Len(found) \in DOMAIN both /\ both[n + Len(found)] = Extras[n]
  BY <1>1
<1>8. Range(both) = Range(found) \cup Range(Extras)
  BY <1>1, <1>5, <1>6, <1>7 DEF Range
<1> QED  BY <1>1, <1>4, <1>8 DEF both, Joins

\* A call begins: it starts at the first mode, or returns the named source at once.
LEMMA BeginInv ==
  ASSUME ResolverInv, BeginSources
  PROVE  ResolverInv'
<1>1. ResolverType /\ RememberInv /\ ServedInv /\ AnswerInv
  BY DEF ResolverInv
<1>2. next = 0 /\ steady' = Stores /\ UNCHANGED <<disk, moves, named, live, fallback, made>>
  BY DEF BeginSources
<1>3. CASE named = "auto"
  <2>1. next' = 1 /\ enabled' = <<>> /\ UNCHANGED <<answer, served>>
    BY <1>3 DEF BeginSources
  <2>2. ResolverType' /\ RememberInv' /\ ServedInv'
    BY <1>1, <1>2, <1>3, <2>1 DEF ResolverType, RememberInv, ServedInv, Remembered
  <2>3. LookedAt' = {} /\ DOMAIN enabled' = {}
    BY <2>1, ModesAre DEF LookedAt
  <2>4. EnabledInv' /\ AnswerInv'
    BY <1>1, <2>1, <2>3 DEF EnabledInv, AnswerInv, FollowsDisk, Answered
  <2> QED  BY <2>2, <2>4 DEF ResolverInv
<1>4. CASE named # "auto"
  <2> DEFINE one == <<live[named]>>
  <2>1. Return(one \o Extras) /\ UNCHANGED <<next, enabled>>
    BY <1>4 DEF BeginSources
  <2>2. named \in KnownModes /\ InstanceOf(live[named], named) /\ live[named] # Nobody
    BY <1>1, <1>4 DEF RememberInv, ResolverType
  <2>3. /\ one \in Seq(AllSources) /\ DOMAIN one = {1} /\ one[1] = live[named]
        /\ live[named].mode = named
    BY <2>2 DEF InstanceOf
  <2> HIDE DEF one
  <2>5. PICK all : all = one \o Extras
    OBVIOUS
  <2>4. /\ all \in Seq(AllSources)
        /\ ModesOnce(all) /\ Joins(all, one)
    <3>1. OfKnown(one) /\ ModesOnce(one)
      BY <2>2, <2>3 DEF OfKnown, ModesOnce
    <3> QED  BY <2>3, <2>5, <3>1, WithExtras
  <2>6. Return(all) /\ all \in Seq(AllSources) /\ UNCHANGED <<next, enabled>>
    BY <2>1, <2>4, <2>5
  <2>7. \A i \in DOMAIN all : Remembered(all[i])'
    BY <1>2, <2>2, <2>3, <2>4, ExtrasAre DEF Remembered, Joins, Range
  <2>8. ResolverType' /\ RememberInv' /\ EnabledInv' /\ FollowsDisk'
    BY <1>1, <1>2, <1>4, <2>6 DEF ResolverType, RememberInv, EnabledInv, FollowsDisk, Return, InstanceOf
  <2> QED  BY <1>2, <2>4, <2>5, <2>6, <2>7, <2>8, ReturnInv
<1> QED  BY <1>3, <1>4

\* A call ends: what it found and the labelled instances, or the fallback.
LEMMA EndInv ==
  ASSUME ResolverInv, EndSources
  PROVE  ResolverInv'
<1>1. ResolverType /\ RememberInv /\ EnabledInv /\ ServedInv /\ AnswerInv
  BY DEF ResolverInv
<1>2. next > 0 /\ next' = 0 /\ LookedAt = KnownModes /\ UNCHANGED <<disk, moves, named, live, enabled, steady>>
  <2>1. next > Len(Modes) /\ next \in Nat /\ Len(Modes) \in Nat /\ DOMAIN Modes = 1..Len(Modes)
    BY <1>1, ModesAre DEF EndSources, ResolverType
  <2>2. LookedAt = KnownModes
    BY <2>1 DEF LookedAt, KnownModes, Range
  <2> QED  BY <2>1, <2>2 DEF EndSources
<1>3. /\ \A i \in DOMAIN enabled :
           enabled[i].mode \in KnownModes /\ enabled[i] = live[enabled[i].mode] /\ enabled[i] # Nobody
      /\ \A i, j \in DOMAIN enabled : enabled[i].mode = enabled[j].mode => i = j
      /\ \A m \in (KnownModes \cap steady) \ {"openclaw"} : m \in Enabled <=> m \in disk
  BY <1>1, <1>2 DEF EnabledInv
<1>4. PICK found : found = enabled \o Extras
  OBVIOUS
<1>0. enabled \in Seq(AllSources)
  BY <1>1 DEF ResolverType
<1>5. found \in Seq(AllSources) /\ ModesOnce(found) /\ Range(found) = Range(enabled) \cup Range(Extras)
  <2>1. OfKnown(enabled) /\ ModesOnce(enabled)
    BY <1>3 DEF OfKnown, ModesOnce
  <2> QED  BY <1>0, <1>4, <2>1, WithExtras DEF Joins
<1>6. CASE found # <<>>
  <2>1. Return(found) /\ UNCHANGED <<fallback, made>>
    BY <1>4, <1>6 DEF EndSources
  <2>2. ResolverType' /\ RememberInv' /\ EnabledInv'
    BY <1>1, <1>2, <1>5, <2>1 DEF ResolverType, RememberInv, EnabledInv, Return
  <2>3. \A i \in DOMAIN found : Remembered(found[i])'
    BY <1>2, <1>3, <1>5, ExtrasAre DEF Remembered, Range
  <2>4. FollowsDisk'
    <3>1. answer' = found
      BY <2>1 DEF Return
    <3>2. \A m \in KnownModes : m \in Served' <=> m \in Enabled
      <4>1. Enabled = {src.mode : src \in Range(enabled)}
        BY DEF Enabled, Range
      <4>2. \A src \in Range(Extras) : src.mode \notin KnownModes
        BY ExtrasAre, ModesAre DEF Range
      <4> QED  BY <1>5, <3>1, <4>1, <4>2 DEF Served
    <3>3. Range(Extras) \subseteq Range(answer')
      BY <1>5, <3>1 DEF Range
    <3> QED  BY <1>2, <1>3, <3>2, <3>3 DEF FollowsDisk, KnownModes
  <2> QED  BY <1>2, <1>5, <2>1, <2>2, <2>3, <2>4, ReturnInv
<1>7. CASE found = <<>>
  <2>1. PICK src : src = IF fallback = Nobody THEN AtSource("openclaw") ELSE fallback
    OBVIOUS
  <2>2. /\ Return(<<src>>) /\ fallback' = src
        /\ made' = IF fallback = Nobody THEN made + 1 ELSE made
    BY <1>4, <1>7, <2>1 DEF EndSources
  <2>3. InstanceOf(src, "openclaw") /\ src # Nobody /\ src.mode = "openclaw"
    BY <1>1, <2>1, ModesAre, MadeNow, SomebodyIs DEF RememberInv, InstanceOf
  <2>4. Enabled = {} /\ DOMAIN Extras = {}
    <3>1. Range(found) = {}
      BY <1>7 DEF Range
    <3> QED  BY <1>5, <3>1 DEF Enabled, Range
  <2>5. PICK one : one = <<src>> /\ one \in Seq(AllSources)
    <3>1. <<src>> \in Seq(AllSources)
      BY <2>3 DEF InstanceOf
    <3> QED  BY <3>1
  <2>6. DOMAIN one = {1} /\ one[1] = src /\ ModesOnce(one)
    BY <2>5 DEF ModesOnce
  <2>7. ResolverType'
    BY <1>1, <1>2, <2>2, <2>5 DEF ResolverType, Return
  <2>8. RememberInv' /\ EnabledInv'
    BY <1>1, <1>2, <2>2, <2>3 DEF RememberInv, EnabledInv, InstanceOf
  <2>9. \A i \in DOMAIN one : Remembered(one[i])'
    BY <2>2, <2>3, <2>6 DEF Remembered
  <2>10. FollowsDisk'
    <3>1. answer' = one /\ Served' = {"openclaw"}
      BY <2>2, <2>3, <2>5, <2>6 DEF Return, Served, Range
    <3>2. Range(Extras) = {}
      BY <2>4 DEF Range
    <3> QED  BY <1>2, <1>3, <2>4, <3>1, <3>2 DEF FollowsDisk, KnownModes
  <2>11. fallback' = fallback \/ fallback = Nobody
    BY <2>1, <2>2
  <2> QED  BY <1>2, <2>2, <2>5, <2>6, <2>7, <2>8, <2>9, <2>10, <2>11, ReturnInv
<1> QED  BY <1>6, <1>7

\* Remembered sources of one mode are one, but for the fallback.
LEMMA ServedOnce ==
  ASSUME ResolverInv
  PROVE  SourcesFollow
<1>1. ASSUME NEW a \in served, NEW b \in served, a.mode = b.mode, fallback \notin {a, b}
      PROVE  a = b
  <2>1. Remembered(a) /\ Remembered(b)
    BY DEF ResolverInv, ServedInv
  <2>2. \A src \in Range(Extras) : src.mode \in Range(Labels) /\ src.mode \notin KnownModes
    BY ExtrasAre, ModesAre DEF Range
  <2>3. CASE a.mode \in KnownModes
    BY <1>1, <2>1, <2>2, <2>3 DEF Remembered
  <2>4. CASE a.mode \notin KnownModes
    <3>1. a \in Range(Extras) /\ b \in Range(Extras)
      BY <1>1, <2>1, <2>4 DEF Remembered
    <3> QED  BY <1>1, <3>1, ExtrasAre, ModesAre DEF Range
  <2> QED  BY <2>3, <2>4
<1> QED  BY <1>1 DEF ResolverInv, AnswerInv, SourcesFollow, OneInstance

\* The resolver's answers name each source once and follow the disk, and two sources of
\* one mode that were ever served are one and the same instance, but for the fallback.
THEOREM SourcesAreOnce == ResolverSpec => []SourcesFollow
<1>1. ResolverInv /\ [ResolverNext]_resolverVars => ResolverInv'
  <2> SUFFICES ASSUME ResolverInv, [ResolverNext]_resolverVars PROVE ResolverInv'
    OBVIOUS
  <2>1. CASE UNCHANGED resolverVars
    BY <2>1 DEF resolverVars, ResolverInv, ResolverType, RememberInv, EnabledInv, ServedInv, AnswerInv,
         Remembered, LookedAt, Enabled, FollowsDisk, Answered, Served
  <2>2. CASE ResolverNext
    BY <2>2, StoreMovesInv, BeginInv, LookInv, EndInv DEF ResolverNext
  <2> QED  BY <2>1, <2>2
<1>2. ResolverInv => SourcesFollow
  BY ServedOnce
<1> QED  BY ResolverInitInv, <1>1, <1>2, PTL DEF ResolverSpec

-----------------------------------------------------------------------------
(* Numbers *)

\* A set of numbers has a least one.
LEMMA LeastOf == ASSUME NEW T \in SUBSET Nat, T # {}
  PROVE \E x \in T : \A y \in T : x <= y
<1> DEFINE R == {ss \in Nat \X Nat : ss[1] < ss[2]}
<1>1. IsWellFoundedOn(R, Nat)
  BY NatLessThanWellFounded DEF OpToRel
<1>3. \A x, y \in Nat : y < x => <<y, x>> \in R
  OBVIOUS
<1>2. \E x \in T : \A y \in T : ~(<<y, x>> \in R)
  <2> HIDE DEF R
  <2>1. T \subseteq Nat
    OBVIOUS
  <2> QED  BY ONLY <1>1, <2>1, T # {}, WFMin, Zenon
<1> HIDE DEF R
<1>4. PICK x \in T : \A y \in T : ~(<<y, x>> \in R)
  BY <1>2
<1>5. \A y \in T : ~(y < x)
  BY <1>3, <1>4, Zenon
<1>6. \A y \in T : x <= y
  BY <1>5
<1> QED  BY <1>6

\* What holds of the first place and of the next one holds of all up to n.
LEMMA UpTo ==
  ASSUME NEW n \in Nat, NEW Good, 0 \in Good, \A i \in 1..n : i - 1 \in Good => i \in Good
  PROVE  \A i \in 0..n : i \in Good
<1> SUFFICES ASSUME NEW j \in 0..n, j \notin Good PROVE FALSE
  OBVIOUS
<1> DEFINE T == {i \in 0..n : i \notin Good}
<1>1. T \in SUBSET Nat /\ T # {}
  OBVIOUS
<1>2. PICK x \in T : \A y \in T : x <= y
  BY <1>1, LeastOf
<1>3. x \in 1..n /\ x - 1 \in 0..n
  BY <1>2
<1>4. x - 1 \in Good
  BY <1>2, <1>3
<1> QED  BY <1>2, <1>3, <1>4

\* The first k values of the function that base and step define.
Made(X, base, step, k, f) == f \in [0..k -> X] /\ f[0] = base /\ \A i \in 1..k : f[i] = step[<<f[i - 1], i>>]

LEMMA MakeMore ==
  ASSUME NEW n \in Nat, NEW X, NEW base \in X, NEW step \in [X \X (1..n) -> X], NEW k \in 1..n,
         NEW f, Made(X, base, step, k - 1, f)
  PROVE  \E g : Made(X, base, step, k, g)
<1>1. f \in [0..(k - 1) -> X] /\ f[0] = base /\ \A i \in 1..(k - 1) : f[i] = step[<<f[i - 1], i>>]
  BY DEF Made
<1>2. f[k - 1] \in X
  BY <1>1
<1>3. <<f[k - 1], k>> \in X \X (1..n)
  BY <1>2
<1>4. PICK v \in X : v = step[<<f[k - 1], k>>]
  BY <1>3
<1> DEFINE g == [i \in 0..k |-> IF i = k THEN v ELSE f[i]]
<1>5. \A i \in 0..(k - 1) : g[i] = f[i]
  OBVIOUS
<1>6. g \in [0..k -> X]
  BY <1>1
<1>7. g[0] = base
  BY <1>1
<1>8. g[k] = v
  OBVIOUS
<1>9. ASSUME NEW i \in 1..k PROVE g[i] = step[<<g[i - 1], i>>]
  <2>1. i - 1 \in 0..(k - 1)
    OBVIOUS
  <2>2. g[i - 1] = f[i - 1]
    BY <2>1, <1>5
  <2> HIDE DEF g
  <2>3. CASE i = k
    BY <2>2, <2>3, <1>4, <1>8
  <2>4. CASE i # k
    <3>1. i \in 1..(k - 1) /\ i \in 0..(k - 1)
      BY <2>4
    <3> QED  BY <3>1, <2>2, <1>1, <1>5
  <2> QED  BY <2>3, <2>4
<1> HIDE DEF g
<1>10. Made(X, base, step, k, g)
  BY <1>6, <1>7, <1>9 DEF Made
<1> QED  BY <1>10

LEMMA Iterates ==
  ASSUME NEW n \in Nat, NEW X, NEW base \in X, NEW step \in [X \X (1..n) -> X]
  PROVE  \E f : Made(X, base, step, n, f)
<1> DEFINE Good == {k \in 0..n : \E f : Made(X, base, step, k, f)}
<1>1. 0 \in Good
  <2> DEFINE f == [i \in 0..0 |-> base]
  <2>1. f \in [0..0 -> X] /\ f[0] = base
    OBVIOUS
  <2>2. 1..0 = {}
    OBVIOUS
  <2> HIDE DEF f
  <2>3. Made(X, base, step, 0, f)
    BY <2>1, <2>2 DEF Made
  <2> QED  BY <2>3
<1>2. ASSUME NEW k \in 1..n, k - 1 \in Good PROVE k \in Good
  BY <1>2, MakeMore
<1>3. n \in Good
  <2> HIDE DEF Good
  <2>1. \A i \in 0..n : i \in Good
    BY <1>1, <1>2, UpTo
  <2> QED  BY <2>1
<1> QED  BY <1>3

-----------------------------------------------------------------------------
(* The rows a scan comes by *)

\* The scan keeps the members of S up to i, in their order.
Kept(S, i, s) ==
  /\ s \in Seq(Nat)
  /\ \A k \in 1..Len(s) : s[k] \in S /\ s[k] \in 1..i
  /\ \A k \in 1..Len(s), l \in 1..Len(s) : k < l => s[k] < s[l]
  /\ \A j \in 1..i : j \in S => \E k \in 1..Len(s) : s[k] = j

LEMMA MetSteps ==
  ASSUME NEW S, NEW n \in Nat
  PROVE  /\ MetUpTo(S, n) \in [0..n -> Seq(Nat)]
         /\ MetUpTo(S, n)[0] = <<>>
         /\ \A i \in 1..n : MetUpTo(S, n)[i] = IF i \in S THEN Append(MetUpTo(S, n)[i - 1], i) ELSE MetUpTo(S, n)[i - 1]
<1> DEFINE X == Seq(Nat)
           Next1(x, i) == IF i \in S THEN Append(x, i) ELSE x
           step == [p \in X \X (1..n) |-> Next1(p[1], p[2])]
           Def(f) == [i \in 0..n |-> IF i = 0 THEN <<>> ELSE IF i \in S THEN Append(f[i - 1], i) ELSE f[i - 1]]
<1>1. <<>> \in X
  OBVIOUS
<1>2. \A x \in X, i \in 1..n : Next1(x, i) \in X
  OBVIOUS
<1>3. step \in [X \X (1..n) -> X]
  <2> HIDE DEF Next1, X
  <2> QED  BY <1>2, Zenon
<1>4. \A x \in X, i \in 1..n : step[<<x, i>>] = Next1(x, i)
  <2> HIDE DEF Next1, X
  <2> QED  OBVIOUS
<1> HIDE DEF step, X
<1>5. PICK f : f \in [0..n -> X] /\ f[0] = <<>> /\ \A i \in 1..n : f[i] = step[<<f[i - 1], i>>]
  <2>1. \E f : Made(X, <<>>, step, n, f)
    BY ONLY n \in Nat, <1>1, <1>3, Iterates
  <2> QED  BY <2>1 DEF Made
<1>6. \A i \in 1..n : i - 1 \in 0..n /\ i \in 0..n /\ i # 0
  OBVIOUS
<1>7. \A i \in 1..n : f[i] = Next1(f[i - 1], i)
  <2> HIDE DEF Next1
  <2> QED  BY <1>4, <1>5, <1>6
<1>8. f = Def(f)
  <2>1. ASSUME NEW i \in 0..n PROVE f[i] = IF i = 0 THEN <<>> ELSE IF i \in S THEN Append(f[i - 1], i) ELSE f[i - 1]
    <3>1. CASE i = 0
      BY <1>5, <3>1, Zenon
    <3>2. CASE i # 0
      <4>1. i \in 1..n
        BY <3>2
      <4> QED  BY <1>7, <3>2, <4>1, Zenon
    <3> QED  BY <3>1, <3>2, Zenon
  <2>2. DOMAIN f = 0..n /\ f = [i \in DOMAIN f |-> f[i]]
    BY <1>5
  <2> QED  BY <2>1, <2>2, Zenon
<1>9. MetUpTo(S, n) = Def(MetUpTo(S, n))
  BY <1>8, Zenon DEF MetUpTo
<1>10. PICK g : g = MetUpTo(S, n)
  OBVIOUS
<1>11. g = [i \in 0..n |-> IF i = 0 THEN <<>> ELSE IF i \in S THEN Append(g[i - 1], i) ELSE g[i - 1]]
  BY <1>9, <1>10
<1>12. g[0] = <<>> /\ \A i \in 1..n : g[i] = Next1(g[i - 1], i)
  <2>1. ASSUME NEW i \in 0..n PROVE g[i] = IF i = 0 THEN <<>> ELSE IF i \in S THEN Append(g[i - 1], i) ELSE g[i - 1]
    BY <1>11, Zenon
  <2>2. 0 \in 0..n
    OBVIOUS
  <2> QED  BY <1>6, <2>1, <2>2, Zenon
<1> DEFINE Good == {i \in 0..n : g[i] \in X}
<1>13. 0 \in Good
  <2>1. 0 \in 0..n
    OBVIOUS
  <2> QED  BY <1>1, <1>12, <2>1
<1>14. ASSUME NEW i \in 1..n, i - 1 \in Good PROVE i \in Good
  <2> HIDE DEF Next1
  <2> QED  BY <1>2, <1>6, <1>12, <1>14
<1>15. \A i \in 0..n : g[i] \in X
  <2>1. \A i \in 0..n : i \in Good
    <3> HIDE DEF Good
    <3> QED  BY <1>13, <1>14, UpTo
  <2> QED  BY <2>1
<1>16. g \in [0..n -> X]
  BY <1>11, <1>15
<1> QED  BY <1>10, <1>12, <1>16 DEF X

LEMMA MetKept ==
  ASSUME NEW S, NEW i \in Nat, NEW s, Kept(S, i, s)
  PROVE  Kept(S, i + 1, IF i + 1 \in S THEN Append(s, i + 1) ELSE s)
<1>1. CASE i + 1 \notin S
  BY <1>1 DEF Kept
<1>2. CASE i + 1 \in S
  <2> DEFINE t == Append(s, i + 1)
  <2>1. s \in Seq(Nat) /\ Len(s) \in Nat
    BY DEF Kept
  <2>2. /\ t \in Seq(Nat) /\ Len(t) = Len(s) + 1 /\ t[Len(s) + 1] = i + 1
        /\ \A k \in 1..Len(s) : t[k] = s[k]
    BY <2>1
  <2> HIDE DEF t
  <2>3. ASSUME NEW k \in 1..Len(t) PROVE t[k] \in S /\ t[k] \in 1..(i + 1)
    <3>1. CASE k = Len(s) + 1
      BY <1>2, <2>2, <3>1
    <3>2. CASE k # Len(s) + 1
      <4>1. k \in 1..Len(s)
        BY <2>1, <2>2, <3>2
      <4>2. s[k] \in S /\ s[k] \in 1..i
        BY <4>1 DEF Kept
      <4> QED  BY <2>2, <4>1, <4>2
    <3> QED  BY <3>1, <3>2
  <2>4. ASSUME NEW k \in 1..Len(t), NEW l \in 1..Len(t), k < l PROVE t[k] < t[l]
    <3>1. k \in 1..Len(s) /\ s[k] \in 1..i
      BY <2>1, <2>2, <2>4 DEF Kept
    <3>2. CASE l = Len(s) + 1
      BY <2>2, <3>1, <3>2
    <3>3. CASE l # Len(s) + 1
      <4>1. l \in 1..Len(s)
        BY <2>1, <2>2, <3>3
      <4>2. s[k] < s[l]
        BY <2>4, <3>1, <4>1 DEF Kept
      <4> QED  BY <2>2, <3>1, <4>1, <4>2
    <3> QED  BY <3>2, <3>3
  <2>5. ASSUME NEW j \in 1..(i + 1), j \in S PROVE \E k \in 1..Len(t) : t[k] = j
    <3>1. CASE j = i + 1
      BY <2>1, <2>2, <3>1
    <3>2. CASE j # i + 1
      <4>1. j \in 1..i
        BY <3>2
      <4>2. PICK k \in 1..Len(s) : s[k] = j
        BY <2>5, <4>1 DEF Kept
      <4> QED  BY <2>1, <2>2, <4>2
    <3> QED  BY <3>1, <3>2
  <2>6. Kept(S, i + 1, t)
    BY <2>2, <2>3, <2>4, <2>5 DEF Kept
  <2> QED  BY <1>2, <2>6 DEF t
<1> QED  BY <1>1, <1>2

\* Ascending lists the members of S up to n, each once and in order.
LEMMA AscendingLists ==
  ASSUME NEW S, NEW n \in Nat
  PROVE  Kept(S, n, Ascending(S, n))
<1>1. PICK g : g = MetUpTo(S, n)
  OBVIOUS
<1>2. /\ g \in [0..n -> Seq(Nat)] /\ g[0] = <<>>
      /\ \A i \in 1..n : g[i] = IF i \in S THEN Append(g[i - 1], i) ELSE g[i - 1]
  BY <1>1, MetSteps
<1> DEFINE Good == {i \in 0..n : Kept(S, i, g[i])}
<1>3. 0 \in Good
  <2>1. Kept(S, 0, <<>>)
    BY DEF Kept
  <2> QED  BY <1>2, <2>1
<1>4. ASSUME NEW i \in 1..n, i - 1 \in Good PROVE i \in Good
  <2>1. i - 1 \in Nat /\ (i - 1) + 1 = i /\ Kept(S, i - 1, g[i - 1])
    BY <1>4
  <2>2. PICK j \in Nat : j = i - 1
    BY <2>1
  <2>3. Kept(S, j + 1, IF j + 1 \in S THEN Append(g[j], j + 1) ELSE g[j])
    BY <2>1, <2>2, MetKept
  <2>4. Kept(S, i, IF i \in S THEN Append(g[i - 1], i) ELSE g[i - 1])
    BY <2>1, <2>2, <2>3
  <2> QED  BY <1>2, <2>4
<1>5. \A i \in 0..n : i \in Good
  <2> HIDE DEF Good
  <2> QED  BY <1>3, <1>4, UpTo
<1>6. Kept(S, n, g[n])
  BY <1>5
<1> QED  BY <1>1, <1>6 DEF Ascending

-----------------------------------------------------------------------------
(* The sink of one page *)

\* A sink that keeps messages of M
Sinks(M) ==
  [items : Seq(M), start : Nat, skipped : Nat, open : BOOLEAN, end : {0} \cup {m.row : m \in M}]

\* A query for at least one message
Asks(q) == q.limit \in Nat \ {0} /\ q.offset \in Nat /\ q.fromEnd \in BOOLEAN

LEMMA CapacityTyped == ASSUME NEW q, Asks(q) PROVE Capacity(q) \in Nat \ {0} /\ q.limit <= Capacity(q)
BY DEF Asks, Capacity

LEMMA RingTurns ==
  ASSUME NEW c \in Nat \ {0}, NEW s \in 0..(c - 1)
  PROVE  (s + 1 = c => (s + 1) % c = 0) /\ (s + 1 # c => (s + 1) % c = s + 1)
OBVIOUS

LEMMA RestIsNat == ASSUME NEW c \in Nat \ {0}, NEW s \in Nat PROVE (s + 1) % c \in Nat
OBVIOUS

LEMMA OneAppended ==
  ASSUME NEW X, NEW s \in Seq(X), NEW x \in X
  PROVE  /\ Append(s, x) \in Seq(X)
         /\ Len(s) \in Nat /\ Len(Append(s, x)) = Len(s) + 1 /\ Append(s, x)[Len(s) + 1] = x
         /\ \A n \in 1..Len(s) : Append(s, x)[n] = s[n]
OBVIOUS

LEMMA OneReplaced ==
  ASSUME NEW X, NEW s \in Seq(X), NEW x \in X, NEW i
  PROVE  [s EXCEPT ![i] = x] \in Seq(X) /\ Len([s EXCEPT ![i] = x]) = Len(s)
<1>1. PICK n \in Nat : n = Len(s)
  OBVIOUS
<1>2. s \in [1..n -> X]
  BY <1>1
<1>3. [s EXCEPT ![i] = x] \in [1..n -> X]
  BY <1>2
<1>4. \A t \in [1..n -> X] : t \in Seq(X) /\ Len(t) = n
  OBVIOUS
<1> QED  BY <1>1, <1>3, <1>4

LEMMA AddTyped ==
  ASSUME NEW M, NEW q, Asks(q), NEW s \in Sinks(M), NEW m \in M
  PROVE  Add(q, s, m) \in Sinks(M)
<1>1. /\ s.items \in Seq(M) /\ s.start \in Nat /\ s.skipped \in Nat /\ s.open \in BOOLEAN
      /\ s.end \in {0} \cup {n.row : n \in M} /\ m.row \in {0} \cup {n.row : n \in M}
  BY DEF Sinks
<1>2. q.limit # 0
  BY DEF Asks
<1>3. ASSUME s.open, Passes(q, m), q.fromEnd PROVE Add(q, s, m) \in Sinks(M)
  <2>1. Add(q, s, m) = AddNewest(q, s, m)
    BY <1>2, <1>3, Zenon DEF Add
  <2>2. PICK c \in Nat \ {0} : c = Capacity(q)
    BY CapacityTyped
  <2>3. CASE Len(s.items) < c
    <3>1. PICK t \in Seq(M) : t = Append(s.items, m)
      BY <1>1, OneAppended
    <3>2. [s EXCEPT !.items = t] \in Sinks(M)
      BY <3>1 DEF Sinks
    <3> QED  BY <2>1, <2>2, <2>3, <3>1, <3>2 DEF AddNewest
  <2>4. CASE ~(Len(s.items) < c)
    <3>1. PICK t \in Seq(M) : t = [s.items EXCEPT ![s.start + 1] = m]
      BY <1>1, OneReplaced
    <3>2. PICK r \in Nat : r = (s.start + 1) % c
      BY <1>1, RestIsNat
    <3>3. [s EXCEPT !.items = t, !.start = r] \in Sinks(M)
      BY <3>1, <3>2 DEF Sinks
    <3>4. [s EXCEPT !.items[s.start + 1] = m, !.start = (@ + 1) % c] = [s EXCEPT !.items = t, !.start = r]
      BY <3>1, <3>2 DEF Sinks
    <3> QED  BY <2>1, <2>2, <2>4, <3>3, <3>4 DEF AddNewest
  <2> QED  BY <2>3, <2>4
<1>4. ASSUME s.open, Passes(q, m), ~q.fromEnd PROVE Add(q, s, m) \in Sinks(M)
  <2>1. Add(q, s, m) = [AddOldest(q, s, m) EXCEPT !.end = m.row]
    BY <1>2, <1>4, Zenon DEF Add
  <2>2. AddOldest(q, s, m) \in Sinks(M)
    <3>1. PICK t \in Seq(M) : t = Append(s.items, m)
      BY <1>1, OneAppended
    <3>2. [s EXCEPT !.items = t, !.open = TRUE] \in Sinks(M) /\ [s EXCEPT !.items = t, !.open = FALSE] \in Sinks(M)
      BY <3>1 DEF Sinks
    <3>3. [s EXCEPT !.skipped = @ + 1] \in Sinks(M)
      <4>1. PICK k \in Nat : k = s.skipped + 1
        BY <1>1
      <4>2. [s EXCEPT !.skipped = k] \in Sinks(M)
        BY <4>1 DEF Sinks
      <4> QED  BY <4>1, <4>2, Zenon
    <3>4. (Len(s.items) + 1 < q.limit) = TRUE \/ (Len(s.items) + 1 < q.limit) = FALSE
      OBVIOUS
    <3>5. [s EXCEPT !.items = t, !.open = Len(s.items) + 1 < q.limit] \in Sinks(M)
      BY <3>2, <3>4, Zenon
    <3> QED  BY <3>1, <3>3, <3>5, Zenon DEF AddOldest
  <2>3. PICK a \in Sinks(M) : a = AddOldest(q, s, m)
    BY <2>2
  <2>4. [a EXCEPT !.end = m.row] \in Sinks(M)
    BY <1>1 DEF Sinks
  <2> QED  BY <2>1, <2>3, <2>4
<1>5. ASSUME ~s.open \/ ~Passes(q, m) PROVE Add(q, s, m) \in Sinks(M)
  BY <1>2, <1>5, Zenon DEF Add
<1>6. s.open \/ ~s.open
  OBVIOUS
<1> QED  BY <1>3, <1>4, <1>5

LEMMA SinkSteps ==
  ASSUME NEW M, NEW ms \in Seq(M), NEW q, Asks(q)
  PROVE  /\ SinkUpTo(q, ms) \in [0..Len(ms) -> Sinks(M)]
         /\ SinkUpTo(q, ms)[0] = NewSink
         /\ \A i \in 1..Len(ms) : SinkUpTo(q, ms)[i] = Add(q, SinkUpTo(q, ms)[i - 1], ms[i])
<1> DEFINE X == Sinks(M)
           step == [p \in X \X (1..Len(ms)) |-> Add(q, p[1], ms[p[2]])]
           Def(f) == [i \in 0..Len(ms) |-> IF i = 0 THEN NewSink ELSE Add(q, f[i - 1], ms[i])]
<1>0. Len(ms) \in Nat /\ \A i \in 1..Len(ms) : ms[i] \in M
  OBVIOUS
<1>1. NewSink \in X
  BY DEF NewSink, Sinks
<1>2. \A x \in X, i \in 1..Len(ms) : Add(q, x, ms[i]) \in X
  BY <1>0, AddTyped
<1>3. step \in [X \X (1..Len(ms)) -> X]
  <2> HIDE DEF X
  <2> QED  BY <1>2, Zenon
<1>4. \A x \in X, i \in 1..Len(ms) : step[<<x, i>>] = Add(q, x, ms[i])
  <2> HIDE DEF X
  <2> QED  OBVIOUS
<1> HIDE DEF step, X
<1>5. PICK f : f \in [0..Len(ms) -> X] /\ f[0] = NewSink /\ \A i \in 1..Len(ms) : f[i] = step[<<f[i - 1], i>>]
  <2>1. \E f : Made(X, NewSink, step, Len(ms), f)
    BY ONLY <1>0, <1>1, <1>3, Iterates
  <2> QED  BY <2>1 DEF Made
<1>6. \A i \in 1..Len(ms) : i - 1 \in 0..Len(ms) /\ i \in 0..Len(ms) /\ i # 0
  BY <1>0
<1>7. \A i \in 1..Len(ms) : f[i] = Add(q, f[i - 1], ms[i])
  BY <1>4, <1>5, <1>6
<1>8. f = Def(f)
  <2>1. ASSUME NEW i \in 0..Len(ms) PROVE f[i] = IF i = 0 THEN NewSink ELSE Add(q, f[i - 1], ms[i])
    <3>1. CASE i = 0
      BY <1>5, <3>1, Zenon
    <3>2. CASE i # 0
      <4>1. i \in 1..Len(ms)
        BY <1>0, <3>2
      <4> QED  BY <1>7, <3>2, <4>1, Zenon
    <3> QED  BY <3>1, <3>2, Zenon
  <2>2. DOMAIN f = 0..Len(ms) /\ f = [i \in DOMAIN f |-> f[i]]
    BY <1>5
  <2> QED  BY <2>1, <2>2, Zenon
<1>9. SinkUpTo(q, ms) = Def(SinkUpTo(q, ms))
  BY <1>8, Zenon DEF SinkUpTo
<1>10. PICK g : g = SinkUpTo(q, ms)
  OBVIOUS
<1>11. g = [i \in 0..Len(ms) |-> IF i = 0 THEN NewSink ELSE Add(q, g[i - 1], ms[i])]
  BY <1>9, <1>10
<1>12. g[0] = NewSink /\ \A i \in 1..Len(ms) : g[i] = Add(q, g[i - 1], ms[i])
  <2>1. ASSUME NEW i \in 0..Len(ms) PROVE g[i] = IF i = 0 THEN NewSink ELSE Add(q, g[i - 1], ms[i])
    BY <1>11, Zenon
  <2>2. 0 \in 0..Len(ms)
    BY <1>0
  <2> QED  BY <1>6, <2>1, <2>2, Zenon
<1> DEFINE Good == {i \in 0..Len(ms) : g[i] \in X}
<1>13. 0 \in Good
  <2>1. 0 \in 0..Len(ms)
    BY <1>0
  <2> QED  BY <1>1, <1>12, <2>1
<1>14. ASSUME NEW i \in 1..Len(ms), i - 1 \in Good PROVE i \in Good
  BY <1>2, <1>6, <1>12, <1>14
<1>15. \A i \in 0..Len(ms) : g[i] \in X
  <2>1. \A i \in 0..Len(ms) : i \in Good
    <3> HIDE DEF Good
    <3> QED  BY <1>0, <1>13, <1>14, UpTo
  <2> QED  BY <2>1
<1>16. g \in [0..Len(ms) -> X]
  BY <1>11, <1>15
<1> QED  BY <1>10, <1>12, <1>16 DEF X

-----------------------------------------------------------------------------
(* What the sink holds after the messages at the places g came by *)

\* Where the j-th oldest of n items is in a ring that begins after start
Turned(start, j, n) == IF start + j <= n THEN start + j ELSE start + j - n

\* Counted from the newest, the last of them, as many as fit, in a ring
HoldsNewest(ms, g, s, c) ==
  /\ s.open = TRUE
  /\ Len(s.items) = IF Len(g) < c THEN Len(g) ELSE c
  /\ s.start \in 0..(c - 1)
  /\ Len(g) < c => s.start = 0
  /\ \A j \in 1..Len(s.items) : s.items[Turned(s.start, j, Len(s.items))] = ms[g[Len(g) - Len(s.items) + j]]

LEMMA NewestFills ==
  ASSUME NEW M, NEW ms \in Seq(M), NEW g \in Seq(1..Len(ms)), NEW i \in 1..Len(ms), NEW s \in Sinks(M),
         NEW c \in Nat \ {0}, HoldsNewest(ms, g, s, c), Len(s.items) < c
  PROVE  HoldsNewest(ms, Append(g, i), [s EXCEPT !.items = Append(@, ms[i])], c)
<1>1. PICK items \in Seq(M) : items = s.items
  BY DEF Sinks
<1>2. PICK m \in M : m = ms[i]
  OBVIOUS
<1>3. PICK n \in Nat : n = Len(items)
  OBVIOUS
<1>4. Len(g) = n /\ s.start = 0 /\ n < c /\ s.open = TRUE /\ \A j \in 1..n : items[j] = ms[g[j]]
  <2>1. Len(g) = n /\ s.start = 0 /\ n < c /\ s.open = TRUE
    BY <1>1, <1>3 DEF HoldsNewest
  <2>2. ASSUME NEW j \in 1..n PROVE items[j] = ms[g[j]]
    <3>1. items[Turned(s.start, j, n)] = ms[g[Len(g) - n + j]]
      BY <1>1, <1>3 DEF HoldsNewest
    <3> QED  BY <2>1, <3>1 DEF Turned
  <2> QED  BY <2>1, <2>2
<1>5. PICK more \in Seq(M) : more = Append(items, m)
  BY OneAppended
<1>6. Len(more) = n + 1 /\ more[n + 1] = m /\ \A j \in 1..n : more[j] = items[j]
  BY <1>3, <1>5, OneAppended
<1>7. PICK h \in Seq(1..Len(ms)) : h = Append(g, i)
  BY OneAppended
<1>8. Len(h) = n + 1 /\ h[n + 1] = i /\ \A j \in 1..n : h[j] = g[j]
  BY <1>4, <1>7, OneAppended
<1>9. \A j \in 1..(n + 1) : more[j] = ms[h[j]]
  <2> TAKE j \in 1..(n + 1)
  <2>1. CASE j = n + 1
    BY <1>2, <1>6, <1>8, <2>1
  <2>2. CASE j # n + 1
    <3>1. j \in 1..n
      BY <2>2
    <3> QED  BY <1>4, <1>6, <1>8, <3>1
  <2> QED  BY <2>1, <2>2
<1>10. PICK t \in Sinks(M) : t = [s EXCEPT !.items = more]
  BY <1>5 DEF Sinks
<1>11. t.items = more /\ t.start = 0 /\ t.open = TRUE
  BY <1>4, <1>10 DEF Sinks
<1>12. HoldsNewest(ms, h, t, c)
  <2>1. \A j \in 1..(n + 1) : Turned(0, j, n + 1) = j /\ (n + 1) - (n + 1) + j = j
    BY <1>3 DEF Turned
  <2>2. Len(more) = IF Len(h) < c THEN Len(h) ELSE c
    BY <1>3, <1>4, <1>6, <1>8
  <2>3. 0 \in 0..(c - 1)
    OBVIOUS
  <2>4. \A j \in 1..Len(t.items) : t.items[Turned(t.start, j, Len(t.items))] = ms[h[Len(h) - Len(t.items) + j]]
    BY <1>6, <1>8, <1>9, <1>11, <2>1
  <2> QED  BY <1>11, <2>2, <2>3, <2>4 DEF HoldsNewest
<1>13. t = [s EXCEPT !.items = Append(@, ms[i])]
  BY <1>1, <1>2, <1>5, <1>10, Zenon
<1> QED  BY <1>7, <1>12, <1>13

LEMMA NewestTurns ==
  ASSUME NEW M, NEW ms \in Seq(M), NEW g \in Seq(1..Len(ms)), NEW i \in 1..Len(ms), NEW s \in Sinks(M),
         NEW c \in Nat \ {0}, HoldsNewest(ms, g, s, c), ~(Len(s.items) < c)
  PROVE  HoldsNewest(ms, Append(g, i), [s EXCEPT !.items[s.start + 1] = ms[i], !.start = (@ + 1) % c], c)
<1>1. PICK items \in Seq(M) : items = s.items
  BY DEF Sinks
<1>2. PICK m \in M : m = ms[i]
  OBVIOUS
<1>3. PICK p \in Nat : p = Len(g)
  OBVIOUS
<1>4. Len(items) = c /\ p >= c /\ s.start \in 0..(c - 1) /\ s.open = TRUE
  BY <1>1, <1>3 DEF HoldsNewest
<1>5. PICK a \in 0..(c - 1) : a = s.start
  BY <1>4
<1>6. \A j \in 1..c : items[Turned(a, j, c)] = ms[g[p - c + j]]
  BY <1>1, <1>3, <1>4, <1>5 DEF HoldsNewest
<1>7. PICK more \in Seq(M) : more = [items EXCEPT ![a + 1] = m]
  BY OneReplaced
<1>8. Len(more) = c /\ more[a + 1] = m /\ \A j \in 1..c : j # a + 1 => more[j] = items[j]
  <2>1. Len(more) = c
    BY <1>4, <1>7, OneReplaced
  <2>2. a + 1 \in 1..Len(items)
    BY <1>4
  <2> QED  BY <1>4, <1>7, <2>1, <2>2
<1>9. PICK h \in Seq(1..Len(ms)) : h = Append(g, i)
  BY OneAppended
<1>10. Len(h) = p + 1 /\ h[p + 1] = i /\ \A j \in 1..p : h[j] = g[j]
  BY <1>3, <1>9, OneAppended
<1>11. PICK b \in Nat : b \in 0..(c - 1) /\ b = (a + 1) % c /\ b = IF a + 1 = c THEN 0 ELSE a + 1
  <2>1. (a + 1 = c => (a + 1) % c = 0) /\ (a + 1 # c => (a + 1) % c = a + 1)
    BY RingTurns
  <2>2. CASE a + 1 = c
    BY <2>1, <2>2
  <2>3. CASE a + 1 # c
    BY <2>1, <2>3
  <2> QED  BY <2>2, <2>3
<1>12. \A j \in 1..c : more[Turned(b, j, c)] = ms[h[(p + 1) - c + j]]
  <2> TAKE j \in 1..c
  <2>1. CASE j = c
    <3>1. Turned(b, j, c) = a + 1
      BY <1>11, <2>1 DEF Turned
    <3>2. (p + 1) - c + j = p + 1
      BY <2>1
    <3> QED  BY <1>2, <1>8, <1>10, <3>1, <3>2
  <2>2. CASE j # c
    <3>1. j + 1 \in 1..c
      BY <2>2
    <3>2. PICK k : k = Turned(b, j, c)
      OBVIOUS
    <3>3. k = Turned(a, j + 1, c) /\ k \in 1..c /\ k # a + 1
      <4>1. CASE a + 1 = c
        BY <1>11, <2>2, <3>2, <4>1 DEF Turned
      <4>2. CASE a + 1 # c
        BY <1>11, <2>2, <3>2, <4>2 DEF Turned
      <4> QED  BY <4>1, <4>2
    <3>4. items[k] = ms[g[p - c + (j + 1)]]
      BY <1>6, <3>1, <3>3
    <3>5. PICK l \in Nat : l = p - c + (j + 1) /\ l = (p + 1) - c + j /\ l \in 1..p
      BY <1>4, <2>2
    <3> QED  BY <1>8, <1>10, <3>2, <3>3, <3>4, <3>5
  <2> QED  BY <2>1, <2>2
<1>13. PICK t \in Sinks(M) : t = [s EXCEPT !.items = more, !.start = b]
  BY <1>7, <1>11 DEF Sinks
<1>14. t.items = more /\ t.start = b /\ t.open = TRUE
  BY <1>4, <1>13 DEF Sinks
<1>15. HoldsNewest(ms, h, t, c)
  <2>1. Len(more) = IF Len(h) < c THEN Len(h) ELSE c
    BY <1>4, <1>8, <1>10
  <2>2. ~(Len(h) < c)
    BY <1>4, <1>10
  <2>3. \A j \in 1..Len(t.items) : t.items[Turned(t.start, j, Len(t.items))] = ms[h[Len(h) - Len(t.items) + j]]
    BY <1>8, <1>10, <1>12, <1>14
  <2> QED  BY <1>11, <1>14, <2>1, <2>2, <2>3 DEF HoldsNewest
<1>16. t = [s EXCEPT !.items[s.start + 1] = ms[i], !.start = (@ + 1) % c]
  BY <1>1, <1>2, <1>5, <1>7, <1>11, <1>13 DEF Sinks
<1> QED  BY <1>9, <1>15, <1>16

\* The messages before the page, of those that pass
Before(q) == IF q.at = 0 THEN q.offset ELSE 0

\* Counted from the oldest, the first of them after those the page skips; a full
\* page has closed the sink at its last message.
HoldsOldest(q, ms, g, s) ==
  /\ s.start = 0
  /\ \A j \in 1..Len(s.items) : s.items[j] = ms[g[Before(q) + j]]
  /\ s.open => /\ s.skipped = IF Len(g) < Before(q) THEN Len(g) ELSE Before(q)
               /\ Len(s.items) = Len(g) - s.skipped
               /\ Len(s.items) < q.limit
  /\ ~s.open => /\ Len(s.items) = q.limit
                /\ Len(g) >= Before(q) + q.limit
                /\ s.end = ms[g[Before(q) + q.limit]].row

LEMMA OldestAdded ==
  ASSUME NEW M, NEW ms \in Seq(M), NEW g \in Seq(1..Len(ms)), NEW i \in 1..Len(ms), NEW s \in Sinks(M),
         NEW q, Asks(q), HoldsOldest(q, ms, g, s), s.open
  PROVE  HoldsOldest(q, ms, Append(g, i), [AddOldest(q, s, ms[i]) EXCEPT !.end = ms[i].row])
<1>1. PICK items \in Seq(M) : items = s.items
  BY DEF Sinks
<1>2. PICK m \in M : m = ms[i]
  OBVIOUS
<1>3. PICK n \in Nat : n = Len(items)
  OBVIOUS
<1>4. PICK p \in Nat : p = Len(g)
  OBVIOUS
<1>5. PICK b \in Nat : b = Before(q)
  BY DEF Asks, Before
<1>6. PICK l \in Nat \ {0} : l = q.limit
  BY DEF Asks
<1>7. PICK k \in Nat : k = s.skipped
  BY DEF Sinks
<1>8. PICK h \in Seq(1..Len(ms)) : h = Append(g, i)
  BY OneAppended
<1>9. Len(h) = p + 1 /\ h[p + 1] = i /\ \A j \in 1..p : h[j] = g[j]
  BY <1>4, <1>8, OneAppended
<1>10. /\ s.start = 0 /\ s.open = TRUE
       /\ k = IF p < b THEN p ELSE b
       /\ n = p - k /\ n < l
       /\ \A j \in 1..n : items[j] = ms[g[b + j]]
  <2>1. s.open = TRUE
    BY DEF Sinks
  <2> QED  BY <1>1, <1>3, <1>4, <1>5, <1>6, <1>7, <2>1 DEF HoldsOldest
<1>11. m.row \in {0} \cup {x.row : x \in M}
  OBVIOUS
<1>12. CASE q.at = 0 /\ k < q.offset
  <2>1. p < b /\ k = p /\ n = 0
    BY <1>5, <1>10, <1>12 DEF Before
  <2>10. PICK k2 \in Nat : k2 = k + 1
    OBVIOUS
  <2>2. PICK t \in Sinks(M) : t = [s EXCEPT !.skipped = k2, !.end = m.row]
    BY <1>11 DEF Sinks
  <2>3. t.items = items /\ t.start = 0 /\ t.open = TRUE /\ t.skipped = k2
    BY <1>1, <1>10, <2>2 DEF Sinks
  <2>4. HoldsOldest(q, ms, h, t)
    <3>1. t.skipped = IF Len(h) < b THEN Len(h) ELSE b
      BY <1>9, <2>1, <2>10, <2>3
    <3>2. Len(items) = 0 /\ Len(items) = Len(h) - t.skipped /\ Len(items) < l
      BY <1>3, <1>9, <2>1, <2>10, <2>3
    <3>3. \A j \in 1..Len(items) : items[j] = ms[h[b + j]]
      BY <3>2
    <3> QED  BY <1>5, <1>6, <2>3, <3>1, <3>2, <3>3 DEF HoldsOldest
  <2>5. [AddOldest(q, s, ms[i]) EXCEPT !.end = ms[i].row] = t
    <3>1. AddOldest(q, s, ms[i]) = [s EXCEPT !.skipped = k2]
      BY <1>7, <1>12, <2>10, Zenon DEF AddOldest
    <3>2. PICK u : u = [s EXCEPT !.skipped = k2]
      OBVIOUS
    <3>3. [u EXCEPT !.end = m.row] = t
      BY <2>2, <3>2 DEF Sinks
    <3> QED  BY <1>2, <3>1, <3>2, <3>3, Zenon
  <2> QED  BY <1>8, <2>4, <2>5
<1>13. CASE ~(q.at = 0 /\ k < q.offset)
  <2>1. p >= b /\ k = b /\ n = p - b
    <3>1. k >= b
      BY <1>5, <1>13 DEF Asks, Before
    <3> QED  BY <1>10, <3>1
  <2>2. PICK more \in Seq(M) : more = Append(items, m)
    BY OneAppended
  <2>3. Len(more) = n + 1 /\ more[n + 1] = m /\ \A j \in 1..n : more[j] = items[j]
    BY <1>3, <2>2, OneAppended
  <2>4. \A j \in 1..(n + 1) : more[j] = ms[h[b + j]]
    <3> TAKE j \in 1..(n + 1)
    <3>1. CASE j = n + 1
      <4>1. b + j = p + 1
        BY <2>1, <3>1
      <4> QED  BY <1>2, <1>9, <2>3, <3>1, <4>1
    <3>2. CASE j # n + 1
      <4>1. j \in 1..n /\ b + j \in 1..p
        BY <2>1, <3>2
      <4> QED  BY <1>9, <1>10, <2>3, <4>1
    <3> QED  BY <3>1, <3>2
  <2>5. PICK o \in {TRUE, FALSE} : o = (n + 1 < l)
    <3>1. (n + 1 < l) = TRUE \/ (n + 1 < l) = FALSE
      OBVIOUS
    <3> QED  BY <3>1, Zenon
  <2>6. PICK t \in Sinks(M) : t = [s EXCEPT !.items = more, !.open = o, !.end = m.row]
    BY <1>11 DEF Sinks
  <2>7. t.items = more /\ t.start = 0 /\ t.open = o /\ t.skipped = k /\ t.end = m.row
    BY <1>7, <1>10, <2>6 DEF Sinks
  <2>8. HoldsOldest(q, ms, h, t)
    <3>1. \A j \in 1..Len(t.items) : t.items[j] = ms[h[b + j]]
      BY <2>3, <2>4, <2>7
    <3>2. CASE o
      <4>1. n + 1 < l
        BY <2>5, <3>2
      <4>2. t.skipped = IF Len(h) < b THEN Len(h) ELSE b
        BY <1>9, <2>1, <2>7
      <4>3. Len(t.items) = Len(h) - t.skipped /\ Len(t.items) < l
        BY <1>9, <2>1, <2>3, <2>7, <4>1
      <4> QED  BY <1>5, <1>6, <2>7, <3>1, <3>2, <4>2, <4>3 DEF HoldsOldest
    <3>3. CASE ~o
      <4>1. n + 1 = l
        <5>1. ~(n + 1 < l)
          BY <2>5, <3>3, Zenon
        <5> QED  BY <1>10, <5>1
      <4>2. Len(t.items) = l /\ Len(h) >= b + l /\ b + l = p + 1
        BY <1>9, <2>1, <2>3, <2>7, <4>1
      <4>3. ms[h[b + l]].row = m.row
        BY <1>2, <1>9, <4>2
      <4> QED  BY <1>5, <1>6, <2>7, <3>1, <3>3, <4>2, <4>3 DEF HoldsOldest
    <3> QED  BY <3>2, <3>3
  <2>9. [AddOldest(q, s, ms[i]) EXCEPT !.end = ms[i].row] = t
    <3>1. AddOldest(q, s, ms[i]) = [s EXCEPT !.items = more, !.open = o]
      BY <1>1, <1>2, <1>3, <1>6, <1>7, <1>13, <2>2, <2>5, Zenon DEF AddOldest
    <3>2. PICK u : u = [s EXCEPT !.items = more, !.open = o]
      OBVIOUS
    <3>3. [u EXCEPT !.end = m.row] = t
      BY <2>6, <3>2 DEF Sinks
    <3> QED  BY <1>2, <3>1, <3>2, <3>3, Zenon
  <2> QED  BY <1>8, <2>8, <2>9
<1> QED  BY <1>12, <1>13

LEMMA OldestClosed ==
  ASSUME NEW M, NEW ms \in Seq(M), NEW g \in Seq(1..Len(ms)), NEW i \in 1..Len(ms), NEW s \in Sinks(M),
         NEW q, Asks(q), HoldsOldest(q, ms, g, s), ~s.open
  PROVE  HoldsOldest(q, ms, Append(g, i), s)
<1>1. PICK b \in Nat : b = Before(q)
  BY DEF Asks, Before
<1>2. PICK l \in Nat \ {0} : l = q.limit
  BY DEF Asks
<1>3. PICK p \in Nat : p = Len(g)
  OBVIOUS
<1>4. PICK h \in Seq(1..Len(ms)) : h = Append(g, i)
  BY OneAppended
<1>5. Len(h) = p + 1 /\ \A j \in 1..p : h[j] = g[j]
  BY <1>3, <1>4, OneAppended
<1>6. /\ s.start = 0 /\ Len(s.items) = l /\ p >= b + l /\ s.end = ms[g[b + l]].row
      /\ \A j \in 1..l : s.items[j] = ms[g[b + j]]
  BY <1>1, <1>2, <1>3 DEF HoldsOldest
<1>7. \A j \in 1..l : b + j \in 1..p
  BY <1>6
<1>8. \A j \in 1..l : s.items[j] = ms[h[b + j]]
  BY <1>5, <1>6, <1>7
<1>9. s.end = ms[h[b + l]].row
  <2>1. l \in 1..l
    OBVIOUS
  <2> QED  BY <1>5, <1>6, <1>7, <2>1
<1>10. Len(h) >= b + l
  BY <1>5, <1>6
<1> QED  BY <1>1, <1>2, <1>4, <1>6, <1>8, <1>9, <1>10 DEF HoldsOldest

\* What passes of the messages, by their places
Passing(q, ms) == {i \in DOMAIN ms : Passes(q, ms[i])}

Holds(q, ms, g, s) ==
  /\ q.fromEnd => HoldsNewest(ms, g, s, Capacity(q))
  /\ ~q.fromEnd => HoldsOldest(q, ms, g, s)

LEMMA NothingHeld ==
  ASSUME NEW M, NEW ms \in Seq(M), NEW q, Asks(q)
  PROVE  Holds(q, ms, <<>>, NewSink)
<1>1. PICK c \in Nat \ {0} : c = Capacity(q)
  BY CapacityTyped
<1>2. PICK b \in Nat : b = Before(q)
  BY DEF Asks, Before
<1>3. PICK l \in Nat \ {0} : l = q.limit
  BY DEF Asks
<1>4. HoldsNewest(ms, <<>>, NewSink, c)
  BY DEF HoldsNewest, NewSink
<1>5. HoldsOldest(q, ms, <<>>, NewSink)
  BY <1>2, <1>3 DEF HoldsOldest, NewSink
<1> QED  BY <1>1, <1>4, <1>5 DEF Holds

LEMMA AddHolds ==
  ASSUME NEW M, NEW ms \in Seq(M), NEW q, Asks(q), NEW g \in Seq(1..Len(ms)), NEW i \in 1..Len(ms),
         NEW s \in Sinks(M), Holds(q, ms, g, s)
  PROVE  Holds(q, ms, IF i \in Passing(q, ms) THEN Append(g, i) ELSE g, Add(q, s, ms[i]))
<1>0. q.limit # 0 /\ s.open \in BOOLEAN /\ i \in DOMAIN ms
  BY DEF Asks, Sinks
<1>1. i \in Passing(q, ms) <=> Passes(q, ms[i])
  BY <1>0, Zenon DEF Passing
<1>2. CASE ~Passes(q, ms[i])
  <2>1. CASE s.open
    <3>1. Add(q, s, ms[i]) = s
      BY <1>0, <1>2, <2>1, Zenon DEF Add
    <3> QED  BY <1>1, <1>2, <3>1, Zenon
  <2>2. CASE ~s.open
    <3>1. Add(q, s, ms[i]) = s
      BY <2>2, Zenon DEF Add
    <3> QED  BY <1>1, <1>2, <3>1, Zenon
  <2> QED  BY <2>1, <2>2
<1>3. CASE Passes(q, ms[i]) /\ q.fromEnd
  <2>1. PICK c \in Nat \ {0} : c = Capacity(q)
    BY CapacityTyped
  <2>2. HoldsNewest(ms, g, s, c) /\ s.open
    BY <1>3, <2>1 DEF Holds, HoldsNewest
  <2>3. Add(q, s, ms[i]) = AddNewest(q, s, ms[i])
    BY <1>0, <1>3, <2>2, Zenon DEF Add
  <2>4. HoldsNewest(ms, Append(g, i), AddNewest(q, s, ms[i]), c)
    <3>1. CASE Len(s.items) < c
      <4>1. AddNewest(q, s, ms[i]) = [s EXCEPT !.items = Append(@, ms[i])]
        BY <2>1, <3>1, Zenon DEF AddNewest
      <4>2. HoldsNewest(ms, Append(g, i), [s EXCEPT !.items = Append(@, ms[i])], c)
        BY <2>2, <3>1, NewestFills
      <4> QED  BY <4>1, <4>2, Zenon
    <3>2. CASE ~(Len(s.items) < c)
      <4>1. AddNewest(q, s, ms[i]) = [s EXCEPT !.items[s.start + 1] = ms[i], !.start = (@ + 1) % c]
        BY <2>1, <3>2, Zenon DEF AddNewest
      <4>2. HoldsNewest(ms, Append(g, i), [s EXCEPT !.items[s.start + 1] = ms[i], !.start = (@ + 1) % c], c)
        BY <2>2, <3>2, NewestTurns
      <4> QED  BY <4>1, <4>2, Zenon
    <3> QED  BY <3>1, <3>2
  <2> QED  BY <1>1, <1>3, <2>1, <2>3, <2>4, Zenon DEF Holds
<1>4. CASE Passes(q, ms[i]) /\ ~q.fromEnd
  <2>1. HoldsOldest(q, ms, g, s)
    BY <1>4 DEF Holds
  <2>2. CASE s.open
    <3>1. Add(q, s, ms[i]) = [AddOldest(q, s, ms[i]) EXCEPT !.end = ms[i].row]
      BY <1>0, <1>4, <2>2, Zenon DEF Add
    <3>2. HoldsOldest(q, ms, Append(g, i), [AddOldest(q, s, ms[i]) EXCEPT !.end = ms[i].row])
      BY <2>1, <2>2, OldestAdded
    <3> QED  BY <1>1, <1>4, <3>1, <3>2, Zenon DEF Holds
  <2>3. CASE ~s.open
    <3>1. Add(q, s, ms[i]) = s
      BY <2>3, Zenon DEF Add
    <3>2. HoldsOldest(q, ms, Append(g, i), s)
      BY <2>1, <2>3, OldestClosed
    <3> QED  BY <1>1, <1>4, <3>1, <3>2, Zenon DEF Holds
  <2> QED  BY <2>2, <2>3
<1> QED  BY <1>2, <1>3, <1>4

\* After the scan the sink holds what it should of all that passes.
LEMMA ScanHolds ==
  ASSUME NEW M, NEW ms \in Seq(M), NEW q, Asks(q)
  PROVE  /\ Scan(q, ms) \in Sinks(M)
         /\ Ascending(Passing(q, ms), Len(ms)) \in Seq(1..Len(ms))
         /\ Holds(q, ms, Ascending(Passing(q, ms), Len(ms)), Scan(q, ms))
<1>1. PICK n \in Nat : n = Len(ms)
  OBVIOUS
<1>2. PICK S : S = Passing(q, ms)
  OBVIOUS
<1>3. PICK g : g = MetUpTo(S, n)
  OBVIOUS
<1>4. g[0] = <<>> /\ \A i \in 1..n : g[i] = IF i \in S THEN Append(g[i - 1], i) ELSE g[i - 1]
  BY <1>3, MetSteps
<1>5. PICK f : f = SinkUpTo(q, ms)
  OBVIOUS
<1>6. f \in [0..n -> Sinks(M)] /\ f[0] = NewSink /\ \A i \in 1..n : f[i] = Add(q, f[i - 1], ms[i])
  BY <1>1, <1>5, SinkSteps
<1> DEFINE Good == {i \in 0..n : g[i] \in Seq(1..n) /\ Holds(q, ms, g[i], f[i])}
<1>7. 0 \in Good
  <2>1. <<>> \in Seq(1..n) /\ 0 \in 0..n
    OBVIOUS
  <2> QED  BY <1>4, <1>6, <2>1, NothingHeld
<1>8. ASSUME NEW i \in 1..n, i - 1 \in Good PROVE i \in Good
  <2>1. i - 1 \in 0..n /\ i \in 0..n
    OBVIOUS
  <2>2. PICK p \in Seq(1..n) : p = g[i - 1] /\ Holds(q, ms, p, f[i - 1])
    BY <1>8
  <2>3. PICK s \in Sinks(M) : s = f[i - 1]
    BY <1>6, <2>1
  <2>4. Holds(q, ms, IF i \in Passing(q, ms) THEN Append(p, i) ELSE p, Add(q, s, ms[i]))
    BY <1>1, <2>2, <2>3, AddHolds
  <2>5. Holds(q, ms, g[i], f[i])
    BY <1>2, <1>4, <1>6, <2>2, <2>3, <2>4, Zenon
  <2>6. g[i] \in Seq(1..n)
    <3>1. Append(p, i) \in Seq(1..n)
      BY OneAppended
    <3> QED  BY <1>4, <2>2, <3>1, Zenon
  <2> QED  BY <2>1, <2>5, <2>6
<1>9. n \in Good
  <2> HIDE DEF Good
  <2>1. \A i \in 0..n : i \in Good
    BY <1>7, <1>8, UpTo
  <2> QED  BY <2>1
<1>10. g[n] = Ascending(S, n) /\ f[n] = Scan(q, ms) /\ f[n] \in Sinks(M)
  BY <1>1, <1>3, <1>5, <1>6 DEF Ascending, Scan
<1> QED  BY <1>1, <1>2, <1>9, <1>10

-----------------------------------------------------------------------------
(* The page is the part of what passes that it was asked for *)

LEMMA PartIs ==
  ASSUME NEW X, NEW s \in Seq(X), NEW a \in Nat \ {0}, NEW b \in Int, b <= Len(s)
  PROVE  SubSeq(s, a, b) = [j \in 1..(b - a + 1) |-> s[a - 1 + j]]
OBVIOUS

\* t is the part of s from a to b; w is u and then v.
IsPart(s, a, b, t) == Len(t) = b - a + 1 /\ \A j \in 1..(b - a + 1) : t[j] = s[a - 1 + j]
IsJoined(u, v, w) ==
  /\ Len(w) = Len(u) + Len(v)
  /\ \A j \in 1..Len(u) : w[j] = u[j]
  /\ \A j \in 1..Len(v) : w[Len(u) + j] = v[j]

LEMMA PartHas ==
  ASSUME NEW X, NEW s \in Seq(X), NEW a \in Nat \ {0}, NEW b \in Nat, b <= Len(s), a <= b + 1
  PROVE  SubSeq(s, a, b) \in Seq(X) /\ IsPart(s, a, b, SubSeq(s, a, b))
BY DEF IsPart

LEMMA JoinedHas ==
  ASSUME NEW X, NEW u \in Seq(X), NEW v \in Seq(X)
  PROVE  u \o v \in Seq(X) /\ IsJoined(u, v, u \o v)
BY DEF IsJoined

LEMMA MaxOfTwo == ASSUME NEW a \in Int, NEW b \in Int PROVE Max({a, b}) = IF a >= b THEN a ELSE b
<1>1. CASE a >= b
  BY <1>1 DEF Max
<1>2. CASE ~(a >= b)
  BY <1>2 DEF Max
<1> QED  BY <1>1, <1>2

LEMMA MinOfTwo == ASSUME NEW a \in Int, NEW b \in Int PROVE Min({a, b}) = IF a <= b THEN a ELSE b
<1>1. CASE a <= b
  BY <1>1 DEF Min
<1>2. CASE ~(a <= b)
  BY <1>2 DEF Min
<1> QED  BY <1>1, <1>2

\* Where, in what passes, the page begins and ends
From(q, n) ==
  IF ~q.fromEnd THEN Before(q)
  ELSE IF n - Before(q) - q.limit > 0 THEN n - Before(q) - q.limit ELSE 0
To(q, n) ==
  IF q.fromEnd THEN n - Before(q)
  ELSE IF n <= Before(q) + q.limit THEN n ELSE Before(q) + q.limit

Section(q, ms, g) == [j \in 1..(To(q, Len(g)) - From(q, Len(g))) |-> ms[g[From(q, Len(g)) + j]]]

LEMMA WindowIs ==
  ASSUME NEW M, NEW ms \in Seq(M), NEW q, Asks(q)
  PROVE  Window(q, ms) = Section(q, ms, Ascending(Passing(q, ms), Len(ms)))
<1>1. PICK g \in Seq(1..Len(ms)) : g = Ascending(Passing(q, ms), Len(ms))
  BY ScanHolds
<1>2. PICK n \in Nat : n = Len(g)
  OBVIOUS
<1>3. PICK all \in Seq(M) : all = [k \in DOMAIN g |-> ms[g[k]]]
  <2>1. \A k \in 1..n : g[k] \in 1..Len(ms) /\ ms[g[k]] \in M
    BY <1>2
  <2>2. [k \in 1..n |-> ms[g[k]]] \in Seq(M)
    BY <2>1
  <2>3. DOMAIN g = 1..n
    BY <1>2
  <2> QED  BY <2>2, <2>3, Zenon
<1>4. Len(all) = n /\ \A k \in 1..n : all[k] = ms[g[k]]
  <2>1. DOMAIN g = 1..n
    BY <1>2
  <2> QED  BY <1>2, <1>3, <2>1
<1>5. PICK b \in Nat : b = Before(q)
  BY DEF Asks, Before
<1>6. PICK l \in Nat \ {0} : l = q.limit
  BY DEF Asks
<1>7. Window(q, ms) = IF q.fromEnd THEN SubSeq(all, Max({1, Len(all) - b - l + 1}), Len(all) - b)
                      ELSE SubSeq(all, b + 1, Min({Len(all), b + l}))
  BY <1>1, <1>3, <1>5, <1>6, Zenon DEF Window, Passing, Before
<1>8. CASE q.fromEnd
  <2>1. PICK c \in Nat : c = From(q, n) /\ Max({1, n - b - l + 1}) = c + 1
    <3>1. Max({1, n - b - l + 1}) = IF 1 >= n - b - l + 1 THEN 1 ELSE n - b - l + 1
      BY MaxOfTwo
    <3>2. From(q, n) = IF n - b - l > 0 THEN n - b - l ELSE 0
      BY <1>5, <1>6, <1>8 DEF From
    <3>3. CASE n - b - l > 0
      BY <3>1, <3>2, <3>3
    <3>4. CASE ~(n - b - l > 0)
      BY <3>1, <3>2, <3>4
    <3> QED  BY <3>3, <3>4
  <2>4. PICK a \in Nat \ {0} : a = c + 1
    OBVIOUS
  <2>2. SubSeq(all, a, n - b) = [j \in 1..((n - b) - a + 1) |-> all[a - 1 + j]]
    <3>1. n - b \in Int /\ n - b <= Len(all)
      BY <1>4
    <3> QED  BY <3>1, PartIs
  <2>3. To(q, n) = n - b
    BY <1>5, <1>8 DEF To
  <2>5. [j \in 1..((n - b) - a + 1) |-> all[a - 1 + j]] = [j \in 1..((n - b) - c) |-> ms[g[c + j]]]
    <3>1. (n - b) - a + 1 = (n - b) - c
      BY <2>4
    <3>2. \A j \in 1..((n - b) - c) : all[a - 1 + j] = ms[g[c + j]]
      BY <1>4, <2>4
    <3> QED  BY <3>1, <3>2
  <2>6. Section(q, ms, g) = [j \in 1..((n - b) - c) |-> ms[g[c + j]]]
    BY <1>2, <2>1, <2>3, Zenon DEF Section
  <2> QED  BY <1>1, <1>4, <1>7, <1>8, <2>1, <2>2, <2>4, <2>5, <2>6, Zenon
<1>9. CASE ~q.fromEnd
  <2>1. PICK e \in Nat : e = Min({n, b + l}) /\ e = To(q, n) /\ e <= n
    <3>1. Min({n, b + l}) = IF n <= b + l THEN n ELSE b + l
      BY MinOfTwo
    <3>2. To(q, n) = IF n <= b + l THEN n ELSE b + l
      BY <1>5, <1>6, <1>9 DEF To
    <3>3. CASE n <= b + l
      BY <3>1, <3>2, <3>3
    <3>4. CASE ~(n <= b + l)
      BY <3>1, <3>2, <3>4
    <3> QED  BY <3>3, <3>4
  <2>2. SubSeq(all, b + 1, e) = [j \in 1..(e - (b + 1) + 1) |-> all[(b + 1) - 1 + j]]
    <3>1. b + 1 \in Nat \ {0} /\ e \in Int /\ e <= Len(all)
      BY <1>4, <2>1
    <3> QED  BY <3>1, PartIs
  <2>3. From(q, n) = b
    BY <1>5, <1>9 DEF From
  <2>5. [j \in 1..(e - (b + 1) + 1) |-> all[(b + 1) - 1 + j]] = [j \in 1..(e - b) |-> ms[g[b + j]]]
    <3>1. e - (b + 1) + 1 = e - b
      BY <2>1
    <3>2. \A j \in 1..(e - b) : all[(b + 1) - 1 + j] = ms[g[b + j]]
      BY <1>4, <2>1
    <3> QED  BY <3>1, <3>2
  <2>6. Section(q, ms, g) = [j \in 1..(e - b) |-> ms[g[b + j]]]
    BY <1>2, <2>1, <2>3, Zenon DEF Section
  <2> QED  BY <1>1, <1>4, <1>7, <1>9, <2>1, <2>2, <2>5, <2>6, Zenon
<1> QED  BY <1>8, <1>9

\* The ring, put in order
Ordered(s) == SubSeq(s.items, s.start + 1, Len(s.items)) \o SubSeq(s.items, 1, s.start)

LEMMA OrderedIs ==
  ASSUME NEW M, NEW s \in Sinks(M), s.start <= Len(s.items)
  PROVE  /\ Ordered(s) \in Seq(M) /\ Len(Ordered(s)) = Len(s.items)
         /\ \A j \in 1..Len(s.items) : Ordered(s)[j] = s.items[Turned(s.start, j, Len(s.items))]
<1>1. PICK items \in Seq(M) : items = s.items
  BY DEF Sinks
<1>2. PICK a \in Nat : a = s.start
  BY DEF Sinks
<1>3. PICK n \in Nat : n = Len(items) /\ a <= n
  BY <1>1, <1>2
<1>4. PICK u \in Seq(M) : u = SubSeq(items, a + 1, n) /\ Len(u) = n - a /\ \A j \in 1..(n - a) : u[j] = items[a + j]
  <2>1. PICK c \in Nat \ {0} : c = a + 1 /\ c <= n + 1
    BY <1>3
  <2>2. n <= Len(items)
    BY <1>3
  <2>3. PICK u \in Seq(M) : u = SubSeq(items, c, n) /\ IsPart(items, c, n, u)
    BY <2>1, <2>2, PartHas, Zenon
  <2>4. n - c + 1 = n - a /\ c - 1 = a
    BY <2>1
  <2> QED  BY <2>1, <2>3, <2>4 DEF IsPart
<1>5. PICK v \in Seq(M) : v = SubSeq(items, 1, a) /\ Len(v) = a /\ \A j \in 1..a : v[j] = items[j]
  <2>1. a - 1 + 1 = a /\ 1 \in Nat \ {0} /\ 1 <= a + 1 /\ \A j \in 1..a : 1 - 1 + j = j
    OBVIOUS
  <2>2. a <= Len(items)
    BY <1>3
  <2>3. PICK v \in Seq(M) : v = SubSeq(items, 1, a) /\ IsPart(items, 1, a, v)
    BY <2>1, <2>2, PartHas, Zenon
  <2> QED  BY <2>1, <2>3 DEF IsPart
<1>6. PICK w \in Seq(M) : w = u \o v /\ Len(w) = n /\ (\A j \in 1..(n - a) : w[j] = u[j]) /\ \A j \in 1..a : w[n - a + j] = v[j]
  <2>1. PICK w \in Seq(M) : w = u \o v /\ IsJoined(u, v, w)
    BY JoinedHas, Zenon
  <2>2. PICK nu \in Nat : nu = n - a
    <3>1. a <= n
      BY <1>3
    <3>2. n - a \in Nat
      BY <3>1
    <3> QED  BY <3>2, Zenon
  <2>3. Len(u) = nu /\ nu + a = n /\ Len(v) = a
    BY <1>4, <1>5, <2>2
  <2>4. Len(w) = n
    BY <2>1, <2>3 DEF IsJoined
  <2>5. (\A j \in 1..nu : w[j] = u[j]) /\ \A j \in 1..a : w[nu + j] = v[j]
    BY <2>1, <2>3, Zenon DEF IsJoined
  <2> QED  BY <2>1, <2>2, <2>4, <2>5
<1>7. ASSUME NEW j \in 1..n PROVE w[j] = items[Turned(a, j, n)]
  <2>1. CASE a + j <= n
    <3>1. j \in 1..(n - a)
      BY <1>3, <2>1
    <3> QED  BY <1>4, <1>6, <2>1, <3>1 DEF Turned
  <2>2. CASE ~(a + j <= n)
    <3>1. PICK k \in Int : k = a + j - n
      OBVIOUS
    <3>2. k \in 1..a /\ j = n - a + k
      BY <1>3, <2>2, <3>1
    <3> QED  BY <1>5, <1>6, <2>2, <3>1, <3>2 DEF Turned
  <2> QED  BY <2>1, <2>2
<1>8. Ordered(s) = w
  BY <1>1, <1>2, <1>3, <1>4, <1>5, <1>6 DEF Ordered
<1> QED  BY <1>1, <1>2, <1>3, <1>6, <1>7, <1>8

\* The page of a sink that holds what it should
LEMMA SinkPageIs ==
  ASSUME NEW M, NEW ms \in Seq(M), NEW q, Asks(q), NEW g \in Seq(1..Len(ms)), NEW s \in Sinks(M),
         Holds(q, ms, g, s)
  PROVE  SinkPage(q, s) = Section(q, ms, g)
<1>1. PICK b \in Nat : b = Before(q)
  BY DEF Asks, Before
<1>2. PICK l \in Nat \ {0} : l = q.limit
  BY DEF Asks
<1>3. PICK p \in Nat : p = Len(g)
  OBVIOUS
<1>4. CASE q.fromEnd
  <2>1. PICK c \in Nat \ {0} : c = Capacity(q) /\ c = l + b
    <3>1. Capacity(q) = l + b
      BY <1>1, <1>2, <1>4 DEF Capacity, Before
    <3> QED  BY <3>1
  <2>2. HoldsNewest(ms, g, s, c)
    BY <1>4, <2>1 DEF Holds
  <2>3. PICK n \in Nat : n = Len(s.items) /\ n = IF p < c THEN p ELSE c
    BY <1>3, <2>2 DEF HoldsNewest, Sinks
  <2>4. s.start <= n
    BY <1>3, <2>2, <2>3 DEF HoldsNewest
  <2>5. PICK o \in Seq(M) : o = Ordered(s) /\ Len(o) = n /\ \A j \in 1..n : o[j] = ms[g[p - n + j]]
    <3>1. Ordered(s) \in Seq(M) /\ Len(Ordered(s)) = n /\ \A j \in 1..n : Ordered(s)[j] = s.items[Turned(s.start, j, n)]
      BY <2>3, <2>4, OrderedIs
    <3>2. \A j \in 1..n : s.items[Turned(s.start, j, n)] = ms[g[p - n + j]]
      BY <1>3, <2>2, <2>3 DEF HoldsNewest
    <3>3. \A j \in 1..n : Ordered(s)[j] = ms[g[p - n + j]]
      BY ONLY <3>1, <3>2
    <3> QED  BY ONLY <3>1, <3>3, Zenon
  <2>6. To(q, p) = p - b /\ From(q, p) = IF p - b - l > 0 THEN p - b - l ELSE 0
    BY <1>1, <1>2, <1>4 DEF To, From
  <2>7. PICK f \in Nat : f = From(q, p) /\ (p - b - l > 0 => f = p - b - l) /\ (~(p - b - l > 0) => f = 0)
    <3>1. CASE p - b - l > 0
      BY <2>6, <3>1
    <3>2. CASE ~(p - b - l > 0)
      BY <2>6, <3>2
    <3> QED  BY <3>1, <3>2
  <2>8. Section(q, ms, g) = [j \in 1..((p - b) - f) |-> ms[g[f + j]]]
    BY <1>3, <2>6, <2>7, Zenon DEF Section
  <2>9. CASE b > 0
    <3>1. q.at = 0 /\ q.offset = b
      BY <1>1, <2>9 DEF Before
    <3>2. SinkPage(q, s) = SubSeq(o, Max({1, (n - b) - l + 1}), n - b)
      BY <1>2, <1>4, <2>5, <2>9, <3>1, Zenon DEF SinkPage, Ordered
    <3>3. Max({1, (n - b) - l + 1}) = 1
      <4>1. (n - b) - l + 1 <= 1 /\ (n - b) - l + 1 \in Int
        BY <2>1, <2>3
      <4> QED  BY <4>1, MaxOfTwo
    <3>4. SubSeq(o, 1, n - b) = [j \in 1..((n - b) - 1 + 1) |-> o[1 - 1 + j]]
      <4>1. n - b \in Int /\ n - b <= Len(o)
        BY <2>5
      <4> QED  BY <4>1, PartIs
    <3>5. (n - b) - 1 + 1 = (p - b) - f /\ n - p + f = 0
      BY <2>1, <2>3, <2>7
    <3>6. ASSUME NEW j \in 1..((p - b) - f) PROVE o[1 - 1 + j] = ms[g[f + j]]
      <4>1. j \in 1..n /\ p - n + j = f + j /\ 1 - 1 + j = j
        <5>1. CASE p - b - l > 0
          <6>1. n = c /\ f = p - b - l
            BY <2>1, <2>3, <2>7, <5>1
          <6> QED  BY <2>1, <5>1, <6>1
        <5>2. CASE ~(p - b - l > 0)
          <6>1. n = p /\ f = 0
            BY <2>1, <2>3, <2>7, <5>2
          <6> QED  BY <6>1
        <5> QED  BY <5>1, <5>2
      <4> QED  BY <2>5, <4>1
    <3>7. [j \in 1..((n - b) - 1 + 1) |-> o[1 - 1 + j]] = [j \in 1..((p - b) - f) |-> ms[g[f + j]]]
      BY <3>5, <3>6
    <3> QED  BY <2>8, <3>2, <3>3, <3>4, <3>7, Zenon
  <2>10. CASE ~(b > 0)
    <3>1. b = 0
      BY <2>10
    <3>2. ~(q.at = 0 /\ q.offset > 0)
      BY <1>1, <3>1 DEF Before
    <3>3. SinkPage(q, s) = o
      BY <2>5, <3>2, Zenon DEF SinkPage, Ordered
    <3>4. (p - b) - f = n /\ p - n = f
      BY <2>1, <2>3, <2>7, <3>1
    <3>5. o = [j \in 1..n |-> ms[g[f + j]]]
      <4>1. o = [j \in 1..n |-> o[j]]
        BY <2>5
      <4>2. \A j \in 1..n : o[j] = ms[g[f + j]]
        BY <2>5, <3>4
      <4> QED  BY <4>1, <4>2
    <3> QED  BY <2>8, <3>3, <3>4, <3>5
  <2> QED  BY <2>9, <2>10
<1>5. CASE ~q.fromEnd
  <2>1. HoldsOldest(q, ms, g, s)
    BY <1>5 DEF Holds
  <2>2. PICK n \in Nat : n = Len(s.items)
    <3>1. s.items \in Seq(M)
      BY DEF Sinks
    <3> QED  BY <3>1
  <2>3. s.start = 0 /\ \A j \in 1..n : s.items[j] = ms[g[b + j]]
    BY <1>1, <2>1, <2>2 DEF HoldsOldest
  <2>4. n = To(q, p) - b \/ (n = 0 /\ To(q, p) - b <= 0)
    <3>1. To(q, p) = IF p <= b + l THEN p ELSE b + l
      BY <1>1, <1>2, <1>5 DEF To
    <3>2. CASE s.open
      <4>1. s.skipped = (IF p < b THEN p ELSE b) /\ n = p - s.skipped /\ n < l
        BY <1>1, <1>2, <1>3, <2>1, <2>2, <3>2 DEF HoldsOldest
      <4>2. CASE p < b
        BY <3>1, <4>1, <4>2
      <4>3. CASE ~(p < b)
        BY <3>1, <4>1, <4>3
      <4> QED  BY <4>2, <4>3
    <3>3. CASE ~s.open
      <4>1. n = l /\ p >= b + l
        BY <1>1, <1>2, <1>3, <2>1, <2>2, <3>3 DEF HoldsOldest
      <4>2. To(q, p) = b + l
        BY <3>1, <4>1
      <4> QED  BY <4>1, <4>2
    <3> QED  BY <3>2, <3>3
  <2>5. PICK t \in Int : t = To(q, p)
    BY <1>1, <1>2, <1>5 DEF To
  <2>6. Section(q, ms, g) = [j \in 1..(t - b) |-> ms[g[b + j]]]
    <3>1. From(q, p) = b
      BY <1>1, <1>5 DEF From
    <3> QED  BY <1>3, <2>5, <3>1, Zenon DEF Section
  <2>7. PICK o \in Seq(M) : o = Ordered(s) /\ Len(o) = n /\ \A j \in 1..n : o[j] = s.items[j]
    <3>1. s.start <= Len(s.items)
      BY <2>2, <2>3
    <3>2. Ordered(s) \in Seq(M) /\ Len(Ordered(s)) = n /\ \A j \in 1..n : Ordered(s)[j] = s.items[Turned(0, j, n)]
      BY <2>2, <2>3, <3>1, OrderedIs
    <3>3. \A j \in 1..n : Turned(0, j, n) = j
      BY DEF Turned
    <3> QED  BY <3>2, <3>3
  <2>8. SinkPage(q, s) = o
    BY <1>5, <2>7, Zenon DEF SinkPage, Ordered
  <2>9. 1..(t - b) = 1..n
    BY <2>4, <2>5
  <2>10. o = [j \in 1..n |-> ms[g[b + j]]]
    <3>1. o = [j \in 1..n |-> o[j]]
      BY <2>7
    <3>2. \A j \in 1..n : o[j] = ms[g[b + j]]
      BY <2>3, <2>7
    <3> QED  BY <3>1, <3>2
  <2> QED  BY <2>6, <2>8, <2>9, <2>10
<1> QED  BY <1>4, <1>5

\* One page, scanned in a ring or up to where it is full, is the part of the
\* whole transcript it was asked for.
LEMMA PageIsWindow ==
  ASSUME NEW M, NEW ms \in Seq(M), NEW q, Asks(q)
  PROVE  PageOf(q, ms) = Window(q, ms)
<1>1. PICK g \in Seq(1..Len(ms)) : g = Ascending(Passing(q, ms), Len(ms))
  BY ScanHolds
<1>2. PICK s \in Sinks(M) : s = Scan(q, ms) /\ Holds(q, ms, g, s)
  BY <1>1, ScanHolds
<1>3. SinkPage(q, s) = Section(q, ms, g)
  BY <1>2, SinkPageIs
<1> QED  BY <1>1, <1>2, <1>3, WindowIs DEF PageOf

-----------------------------------------------------------------------------
(* The messages of a transcript, and Codex, whose scan ends with the page *)

\* Any list is a sequence of its own members.
LEMMA OwnMembers ==
  ASSUME NEW n \in Nat, NEW f, f = [k \in 1..n |-> f[k]]
  PROVE  f \in Seq({f[k] : k \in 1..n}) /\ Len(f) = n /\ DOMAIN f = 1..n
<1>1. f \in [1..n -> {f[k] : k \in 1..n}]
  BY Zenon
<1> DEFINE M == {f[k] : k \in 1..n}
<1>2. f \in [1..n -> M]
  BY <1>1
<1> HIDE DEF M
<1>3. f \in Seq(M) /\ Len(f) = n /\ DOMAIN f = 1..n
  BY <1>2
<1> QED  BY <1>3 DEF M

LEMMA AscendingIsSeq ==
  ASSUME NEW S, NEW n \in Nat
  PROVE  /\ Ascending(S, n) \in Seq(Nat) /\ Len(Ascending(S, n)) \in Nat
         /\ DOMAIN Ascending(S, n) = 1..Len(Ascending(S, n))
<1>1. Ascending(S, n) \in Seq(Nat)
  BY AscendingLists DEF Kept
<1> QED  BY <1>1

\* A message by its parts
MessageWith(row, role, at, text, aside, event, calls, results, usage) ==
  [row |-> row, role |-> role, at |-> at, text |-> text, aside |-> aside, event |-> event,
   calls |-> calls, results |-> results, usage |-> usage]

\* One part of it set
WithAt(m, v) == [m EXCEPT !.at = v]
WithText(m, v) == [m EXCEPT !.text = v]
WithAside(m, v) == [m EXCEPT !.aside = v]
WithEvent(m, v) == [m EXCEPT !.event = v]
WithCalls(m, v) == [m EXCEPT !.calls = v]
WithResults(m, v) == [m EXCEPT !.results = v]
WithUsage(m, v) == [m EXCEPT !.usage = v]

LEMMA PartsOf ==
  ASSUME NEW i, NEW role, NEW at, NEW t, NEW a, NEW e, NEW c, NEW r, NEW u
  PROVE  /\ MessageWith(i, role, at, t, a, e, c, r, u).row = i
         /\ MessageWith(i, role, at, t, a, e, c, r, u).role = role
         /\ MessageWith(i, role, at, t, a, e, c, r, u).at = at
         /\ MessageWith(i, role, at, t, a, e, c, r, u).text = t
         /\ MessageWith(i, role, at, t, a, e, c, r, u).aside = a
         /\ MessageWith(i, role, at, t, a, e, c, r, u).event = e
         /\ MessageWith(i, role, at, t, a, e, c, r, u).calls = c
         /\ MessageWith(i, role, at, t, a, e, c, r, u).results = r
         /\ MessageWith(i, role, at, t, a, e, c, r, u).usage = u
  BY DEF MessageWith
LEMMA AtSet ==
  ASSUME NEW i, NEW role, NEW at, NEW t, NEW a, NEW e, NEW c, NEW r, NEW u, NEW v
  PROVE  WithAt(MessageWith(i, role, at, t, a, e, c, r, u), v) = MessageWith(i, role, v, t, a, e, c, r, u)
  BY DEF MessageWith, WithAt
LEMMA TextSet ==
  ASSUME NEW i, NEW role, NEW at, NEW t, NEW a, NEW e, NEW c, NEW r, NEW u, NEW v
  PROVE  WithText(MessageWith(i, role, at, t, a, e, c, r, u), v) = MessageWith(i, role, at, v, a, e, c, r, u)
  BY DEF MessageWith, WithText
LEMMA AsideSet ==
  ASSUME NEW i, NEW role, NEW at, NEW t, NEW a, NEW e, NEW c, NEW r, NEW u, NEW v
  PROVE  WithAside(MessageWith(i, role, at, t, a, e, c, r, u), v) = MessageWith(i, role, at, t, v, e, c, r, u)
  BY DEF MessageWith, WithAside
LEMMA EventSet ==
  ASSUME NEW i, NEW role, NEW at, NEW t, NEW a, NEW e, NEW c, NEW r, NEW u, NEW v
  PROVE  WithEvent(MessageWith(i, role, at, t, a, e, c, r, u), v) = MessageWith(i, role, at, t, a, v, c, r, u)
  BY DEF MessageWith, WithEvent
LEMMA CallsSet ==
  ASSUME NEW i, NEW role, NEW at, NEW t, NEW a, NEW e, NEW c, NEW r, NEW u, NEW v
  PROVE  WithCalls(MessageWith(i, role, at, t, a, e, c, r, u), v) = MessageWith(i, role, at, t, a, e, v, r, u)
  BY DEF MessageWith, WithCalls
LEMMA ResultsSet ==
  ASSUME NEW i, NEW role, NEW at, NEW t, NEW a, NEW e, NEW c, NEW r, NEW u, NEW v
  PROVE  WithResults(MessageWith(i, role, at, t, a, e, c, r, u), v) = MessageWith(i, role, at, t, a, e, c, v, u)
  BY DEF MessageWith, WithResults
LEMMA UsageSet ==
  ASSUME NEW i, NEW role, NEW at, NEW t, NEW a, NEW e, NEW c, NEW r, NEW u, NEW v
  PROVE  WithUsage(MessageWith(i, role, at, t, a, e, c, r, u), v) = MessageWith(i, role, at, t, a, e, c, r, v)
  BY DEF MessageWith, WithUsage

\* A message of the user's own words
Prompts(m) == m.role = "user" /\ m.text /\ ~m.aside

\* The message of row i, at its time, with its usage: a reply or not, a prompt or not
Says(m, i, at, u, reply, prompt) ==
  /\ m.row = i /\ m.at = at /\ m.usage = u
  /\ m.role = "assistant" <=> reply
  /\ Prompts(m) <=> prompt

\* The usage a message has if it is a reply
SpeaksFor(yes) == IF yes THEN 1 ELSE 0

LEMMA PartsSay ==
  ASSUME NEW m, NEW i, NEW role, NEW at, NEW t, NEW a, NEW e, NEW c, NEW r, NEW u,
         m = MessageWith(i, role, at, t, a, e, c, r, u)
  PROVE  Says(m, i, at, u, role = "assistant", role = "user" /\ t /\ ~a)
<1>1. m.row = i /\ m.at = at /\ m.usage = u /\ m.role = role /\ m.text = t /\ m.aside = a
  BY PartsOf
<1> QED  BY ONLY <1>1, Zenon DEF Says, Prompts

LEMMA SaysAlike ==
  ASSUME NEW m, NEW i, NEW at, NEW u, NEW reply, NEW prompt, NEW reply2, NEW prompt2,
         Says(m, i, at, u, reply, prompt), reply <=> reply2, prompt <=> prompt2
  PROVE  Says(m, i, at, u, reply2, prompt2)
BY Zenon DEF Says

\* A message of Codex, before its usage is known
CodexBare(m, i) ==
  \E role, text, aside, event, calls, results : m = MessageWith(i, role, i, text, aside, event, calls, results, 0)

\* and what it is: the agent's, or a prompt of the user's
CodexReplies(r) == r.type # "event_msg" /\ r.sub \notin {"user", "function_call_output"}
CodexPrompts(r) == r.type # "event_msg" /\ r.sub = "user" /\ r.text # "plumbing"

CodexMade(m, i, row) ==
  \E role, text, aside, event, calls, results :
    /\ m = MessageWith(i, role, i, text, aside, event, calls, results, 0)
    /\ role = "assistant" <=> CodexReplies(row)
    /\ role = "user" /\ text /\ ~aside <=> CodexPrompts(row)

LEMMA MadeIs ==
  ASSUME NEW i, NEW row, NEW role, NEW t, NEW a, NEW e, NEW c, NEW r,
         role = "assistant" <=> CodexReplies(row), role = "user" /\ t /\ ~a <=> CodexPrompts(row)
  PROVE  CodexMade(MessageWith(i, role, i, t, a, e, c, r, 0), i, row)
BY Zenon DEF CodexMade

LEMMA CodexMessageMade ==
  ASSUME NEW written, NEW i
  PROVE  CodexMade(CodexMessage(written, i), i, written[i])
<1>1. PICK r : r = written[i]
  OBVIOUS
<1>9. PICK no, yes, none : no = FALSE /\ yes = TRUE /\ none = <<>>
  OBVIOUS
<1> SUFFICES CodexMade(CodexMessage(written, i), i, r)
  BY <1>1
<1> DEFINE new(role) == MessageWith(i, role, i, no, no, no, none, none, 0)
<1>2. \A role : Message(i, role) = new(role)
  BY <1>9, Zenon DEF Message, MessageWith
<1>3. CASE r.type = "event_msg"
  <2>1. CodexMessage(written, i) = WithEvent(new("system"), yes)
    BY <1>1, <1>2, <1>9, <1>3, Zenon DEF CodexMessage, WithEvent
  <2>2. CodexMessage(written, i) = MessageWith(i, "system", i, no, no, yes, none, none, 0)
    BY <2>1, EventSet
  <2>3. ~("system" = "assistant") /\ ~CodexReplies(r) /\ ~("system" = "user") /\ ~CodexPrompts(r)
    BY ONLY <1>3 DEF CodexReplies, CodexPrompts, CodexCalls
  <2> QED  BY ONLY <2>2, <2>3, MadeIs, Zenon
<1>4. CASE r.type # "event_msg" /\ r.sub = "user"
  <2>1. r.sub # "web_search_call" /\ r.sub \notin CodexCalls /\ r.sub # "function_call_output"
    BY <1>4 DEF CodexCalls
  <2>2. CodexMessage(written, i) = [new("user") EXCEPT !.text = yes, !.aside = (r.text = "plumbing")]
    BY <1>1, <1>2, <1>9, <1>4, <2>1, Zenon DEF CodexMessage
  <2>3. PICK p : p = (r.text = "plumbing")
    OBVIOUS
  <2>4. CodexMessage(written, i) = WithAside(WithText(new("user"), yes), p)
    <3>1. PICK m : m = new("user")
      OBVIOUS
    <3>2. [m EXCEPT !.text = yes, !.aside = p] = WithAside(WithText(m, yes), p)
      BY Zenon DEF WithText, WithAside
    <3> QED  BY <2>2, <2>3, <3>1, <3>2, Zenon
  <2>5. CodexMessage(written, i) = MessageWith(i, "user", i, yes, p, no, none, none, 0)
    BY <2>4, TextSet, AsideSet
  <2>6. ~("user" = "assistant") /\ ~CodexReplies(r) /\ (CodexPrompts(r) <=> ~(r.text = "plumbing"))
    BY ONLY <1>4 DEF CodexReplies, CodexPrompts
  <2> QED  BY ONLY <1>9, <2>3, <2>5, <2>6, MadeIs, Zenon
<1>5. CASE r.type # "event_msg" /\ r.sub = "web_search_call"
  <2>1. r.sub # "user" /\ r.sub \notin CodexCalls /\ r.sub # "function_call_output"
    BY <1>5 DEF CodexCalls
  <2>2. PICK c : c = <<0>>
    OBVIOUS
  <2>3. PICK a : a = <<Answer(0, "web_search", "ok")>>
    OBVIOUS
  <2>4. CodexMessage(written, i) = [new("assistant") EXCEPT !.calls = c, !.results = a]
    BY <1>1, <1>2, <1>9, <1>5, <2>1, <2>2, <2>3, Zenon DEF CodexMessage
  <2>5. CodexMessage(written, i) = WithResults(WithCalls(new("assistant"), c), a)
    <3>1. PICK m : m = new("assistant")
      OBVIOUS
    <3>2. [m EXCEPT !.calls = c, !.results = a] = WithResults(WithCalls(m, c), a)
      BY Zenon DEF WithCalls, WithResults
    <3> QED  BY <2>4, <3>1, <3>2, Zenon
  <2>6. CodexMessage(written, i) = MessageWith(i, "assistant", i, no, no, no, c, a, 0)
    BY <2>5, CallsSet, ResultsSet
  <2>7. CodexReplies(r) /\ ~("assistant" = "user") /\ ~CodexPrompts(r)
    BY ONLY <1>5 DEF CodexReplies, CodexPrompts, CodexCalls
  <2> QED  BY ONLY <2>6, <2>7, MadeIs, Zenon
<1>6. CASE r.type # "event_msg" /\ r.sub \in CodexCalls
  <2>1. r.sub # "user" /\ r.sub # "web_search_call" /\ r.sub # "function_call_output"
    BY <1>6 DEF CodexCalls
  <2>2. PICK c : c = <<r.id>>
    OBVIOUS
  <2>3. CodexMessage(written, i) = WithCalls(new("assistant"), c)
    BY <1>1, <1>2, <1>9, <1>6, <2>1, <2>2, Zenon DEF CodexMessage, WithCalls
  <2>4. CodexMessage(written, i) = MessageWith(i, "assistant", i, no, no, no, c, none, 0)
    BY <2>3, CallsSet
  <2>5. CodexReplies(r) /\ ~("assistant" = "user") /\ ~CodexPrompts(r)
    BY ONLY <1>6 DEF CodexReplies, CodexPrompts, CodexCalls
  <2> QED  BY ONLY <2>4, <2>5, MadeIs, Zenon
<1>7. CASE /\ r.type # "event_msg" /\ r.sub = "function_call_output"
  <2>1. r.sub # "user" /\ r.sub # "web_search_call" /\ r.sub \notin CodexCalls
    BY <1>7 DEF CodexCalls
  <2>2. PICK a : a = <<Answer(r.id, IF CodexNamed(written, i, r.id) THEN "tool" ELSE "", CodexVerdict(written, i))>>
    OBVIOUS
  <2>3. CodexMessage(written, i) = WithResults(new("tool"), a)
    BY <1>1, <1>2, <1>9, <1>7, <2>1, <2>2, Zenon DEF CodexMessage, WithResults
  <2>4. CodexMessage(written, i) = MessageWith(i, "tool", i, no, no, no, none, a, 0)
    BY <2>3, ResultsSet
  <2>5. ~("tool" = "assistant") /\ ~CodexReplies(r) /\ ~("tool" = "user") /\ ~CodexPrompts(r)
    BY ONLY <1>7 DEF CodexReplies, CodexPrompts, CodexCalls
  <2> QED  BY ONLY <2>4, <2>5, MadeIs, Zenon
<1>8. CASE /\ r.type # "event_msg" /\ r.sub # "user" /\ r.sub # "web_search_call" /\ r.sub \notin CodexCalls
           /\ r.sub # "function_call_output"
  <2>1. CodexMessage(written, i) = WithText(new("assistant"), yes)
    BY <1>1, <1>2, <1>9, <1>8, Zenon DEF CodexMessage, WithText
  <2>2. CodexMessage(written, i) = MessageWith(i, "assistant", i, yes, no, no, none, none, 0)
    BY <2>1, TextSet
  <2>3. CodexReplies(r) /\ ~("assistant" = "user") /\ ~CodexPrompts(r)
    BY ONLY <1>8 DEF CodexReplies, CodexPrompts, CodexCalls
  <2> QED  BY ONLY <2>2, <2>3, MadeIs, Zenon
<1> QED  BY <1>3, <1>4, <1>5, <1>6, <1>7, <1>8

LEMMA CodexMessageIs ==
  ASSUME NEW written, NEW i
  PROVE  CodexBare(CodexMessage(written, i), i)
<1>1. PICK m : m = CodexMessage(written, i)
  OBVIOUS
<1>2. CodexMade(m, i, written[i])
  BY <1>1, CodexMessageMade
<1> QED  BY <1>1, <1>2, Zenon DEF CodexBare, CodexMade

\* What folding a usage into it leaves alone
LEMMA UsageAlone ==
  ASSUME NEW m, NEW i, CodexBare(m, i), NEW u, NEW v
  PROVE  /\ m.row = i /\ WithUsage(m, u).row = i
         /\ WithUsage(m, u).role = m.role /\ WithUsage(m, u).at = m.at
         /\ WithUsage(m, u).usage = u
         /\ WithUsage(WithUsage(m, u), v) = WithUsage(m, v)
<1>1. PICK role, text, aside, event, calls, results : m = MessageWith(i, role, i, text, aside, event, calls, results, 0)
  BY DEF CodexBare
<1>2. \A x : WithUsage(m, x) = MessageWith(i, role, i, text, aside, event, calls, results, x)
  BY <1>1, UsageSet
<1>3. WithUsage(WithUsage(m, u), v) = MessageWith(i, role, i, text, aside, event, calls, results, v)
  BY <1>2, UsageSet
<1>4. PICK w : w = WithUsage(m, u)
  OBVIOUS
<1>5. w.row = i /\ w.role = role /\ w.at = i /\ w.usage = u
  <2>1. w = MessageWith(i, role, i, text, aside, event, calls, results, u)
    BY <1>2, <1>4
  <2> QED  BY ONLY <2>1, PartsOf
<1>6. m.row = i /\ m.role = role /\ m.at = i
  BY ONLY <1>1, PartsOf
<1> QED  BY ONLY <1>2, <1>3, <1>4, <1>5, <1>6, Zenon

\* A page of Codex and the part of the whole transcript it was asked for are the
\* messages of the same rows; only how far usage was read for them can differ, and
\* only where a page from the oldest is full.
CodexUsed(w, i, stop) == WithUsage(CodexMessage(w, i), CodexUsageOf(w, i, stop))

PagedAlike(q, w, d, r, stop) ==
  /\ \A j \in 1..d : r[j] \in 1..Len(w)
  /\ CodexPage(q, w) = [j \in 1..d |-> CodexUsed(w, r[j], stop)]
  /\ Window(q, CodexMessages(w)) = [j \in 1..d |-> CodexUsed(w, r[j], Len(w))]
  /\ stop = Len(w) \/ (~q.fromEnd /\ d = q.limit /\ stop = r[d])

LEMMA SectionLies ==
  ASSUME NEW q, Asks(q), NEW n \in Nat
  PROVE  /\ From(q, n) \in Nat /\ To(q, n) \in Int
         /\ \A j \in 1..(To(q, n) - From(q, n)) : From(q, n) + j \in 1..n
<1>1. PICK b \in Nat : b = Before(q)
  BY DEF Asks, Before
<1>2. PICK l \in Nat \ {0} : l = q.limit
  BY DEF Asks
<1>3. CASE q.fromEnd
  <2>1. To(q, n) = n - b /\ From(q, n) = IF n - b - l > 0 THEN n - b - l ELSE 0
    BY <1>1, <1>2, <1>3 DEF To, From
  <2>2. CASE n - b - l > 0
    BY <2>1, <2>2
  <2>3. CASE ~(n - b - l > 0)
    BY <2>1, <2>3
  <2> QED  BY <2>2, <2>3
<1>4. CASE ~q.fromEnd
  <2>1. From(q, n) = b /\ To(q, n) = IF n <= b + l THEN n ELSE b + l
    BY <1>1, <1>2, <1>4 DEF To, From
  <2>2. CASE n <= b + l
    BY <2>1, <2>2
  <2>3. CASE ~(n <= b + l)
    BY <2>1, <2>3
  <2> QED  BY <2>2, <2>3
<1> QED  BY <1>3, <1>4

CodexRows(w) == Ascending({i \in 1..Len(w) : CodexShown(w[i])}, Len(w))
CodexBareMessages(w) == MessagesOf(w, LAMBDA i : CodexShown(w[i]), LAMBDA i : CodexMessage(w, i))

CodexLaid(w, rows) ==
  /\ rows \in Seq(1..Len(w)) /\ Len(rows) \in Nat /\ DOMAIN rows = 1..Len(rows)
  /\ CodexMessages(w) = [k \in 1..Len(rows) |-> CodexUsed(w, rows[k], Len(w))]
  /\ CodexBareMessages(w) = [k \in 1..Len(rows) |-> CodexMessage(w, rows[k])]

LEMMA CodexLists ==
  ASSUME NEW w, Len(w) \in Nat, NEW rows, rows = CodexRows(w)
  PROVE  CodexLaid(w, rows)
<1>1. rows \in Seq(Nat) /\ Len(rows) \in Nat /\ DOMAIN rows = 1..Len(rows)
  BY AscendingIsSeq DEF CodexRows
<1>2. \A k \in 1..Len(rows) : rows[k] \in 1..Len(w)
  <2>1. Kept({i \in 1..Len(w) : CodexShown(w[i])}, Len(w), rows)
    BY AscendingLists DEF CodexRows
  <2> QED  BY <2>1 DEF Kept
<1>3. rows \in Seq(1..Len(w))
  BY <1>1, <1>2
<1>4. CodexMessages(w) = [k \in 1..Len(rows) |-> CodexUsed(w, rows[k], Len(w))]
  BY <1>1, Zenon DEF CodexMessages, CodexRows, MessagesOf, CodexUsed, WithUsage
<1>5. CodexBareMessages(w) = [k \in 1..Len(rows) |-> CodexMessage(w, rows[k])]
  BY <1>1, Zenon DEF CodexBareMessages, CodexRows, MessagesOf
<1> QED  BY <1>1, <1>3, <1>4, <1>5 DEF CodexLaid

LEMMA CodexPagesOf ==
  ASSUME NEW w, Len(w) \in Nat, NEW q, Asks(q)
  PROVE  \E d \in Nat : \E r, stop : PagedAlike(q, w, d, r, stop)
<1>1. PICK n \in Nat : n = Len(w)
  OBVIOUS
<1>2. PICK rows : rows = CodexRows(w)
  OBVIOUS
<1>31. CodexLaid(w, rows)
  BY <1>2, CodexLists
<1>3. PICK L \in Nat : L = Len(rows)
  BY <1>31 DEF CodexLaid
<1>4. rows \in Seq(1..n) /\ \A k \in 1..L : rows[k] \in 1..n
  BY <1>1, <1>3, <1>31 DEF CodexLaid
<1>5. PICK bare : bare = [k \in 1..L |-> CodexMessage(w, rows[k])]
  OBVIOUS
<1>6. PICK full : full = [k \in 1..L |-> CodexUsed(w, rows[k], n)]
  OBVIOUS
<1>7. CodexMessages(w) = full
  <2>1. CodexMessages(w) = [k \in 1..Len(rows) |-> CodexUsed(w, rows[k], Len(w))]
    BY <1>31 DEF CodexLaid
  <2> QED  BY <1>1, <1>3, <1>6, <2>1
<1>8. CodexBareMessages(w) = bare
  <2>1. CodexBareMessages(w) = [k \in 1..Len(rows) |-> CodexMessage(w, rows[k])]
    BY <1>31 DEF CodexLaid
  <2> QED  BY <1>3, <1>5, <2>1
<1>9. PICK B : bare \in Seq(B) /\ Len(bare) = L /\ DOMAIN bare = 1..L
  <2>1. bare = [k \in 1..L |-> bare[k]]
    BY <1>5
  <2> QED  BY <2>1, OwnMembers
<1>10. PICK F : full \in Seq(F) /\ Len(full) = L /\ DOMAIN full = 1..L
  <2>1. full = [k \in 1..L |-> full[k]]
    BY <1>6
  <2> QED  BY <2>1, OwnMembers
<1>11. \A k \in 1..L : bare[k].row = rows[k] /\ full[k].role = bare[k].role /\ full[k].at = bare[k].at
  <2> SUFFICES ASSUME NEW k \in 1..L
               PROVE  bare[k].row = rows[k] /\ full[k].role = bare[k].role /\ full[k].at = bare[k].at
    OBVIOUS
  <2>1. PICK m : m = CodexMessage(w, rows[k])
    OBVIOUS
  <2>2. PICK u : u = CodexUsageOf(w, rows[k], n)
    OBVIOUS
  <2>3. CodexBare(m, rows[k])
    BY <2>1, CodexMessageIs
  <2>4. m.row = rows[k] /\ WithUsage(m, u).role = m.role /\ WithUsage(m, u).at = m.at
    BY <2>3, UsageAlone
  <2>5. bare[k] = m /\ full[k] = WithUsage(m, u)
    BY <1>5, <1>6, <2>1, <2>2, Zenon DEF CodexUsed
  <2> QED  BY <2>4, <2>5
<1>12. Passing(q, bare) = Passing(q, full)
  <2>1. \A k \in 1..L : Passes(q, full[k]) = Passes(q, bare[k])
    BY <1>11, Zenon DEF Passes
  <2> QED  BY <1>9, <1>10, <2>1, Zenon DEF Passing
<1>13. PICK g \in Seq(1..L) : g = Ascending(Passing(q, bare), L)
  BY <1>9, ScanHolds
<1>14. PICK s \in Sinks(B) : s = Scan(q, bare) /\ Holds(q, bare, g, s)
  BY <1>9, <1>13, ScanHolds
<1>15. SinkPage(q, s) = Section(q, bare, g)
  BY <1>9, <1>13, <1>14, SinkPageIs
<1>16. Window(q, full) = Section(q, full, g)
  BY <1>10, <1>12, <1>13, WindowIs
<1>17. PICK p \in Nat : p = Len(g) /\ \A k \in 1..p : g[k] \in 1..L
  BY <1>13
<1>18. PICK f \in Nat : f = From(q, p)
  BY SectionLies
<1>19. PICK t \in Int : t = To(q, p) /\ \A j \in 1..(t - f) : f + j \in 1..p
  BY <1>18, SectionLies
<1>20. PICK d \in Nat : d = (IF t - f > 0 THEN t - f ELSE 0) /\ 1..(t - f) = 1..d
  <2>1. CASE t - f > 0
    BY <2>1
  <2>2. CASE ~(t - f > 0)
    BY <2>2
  <2> QED  BY <2>1, <2>2
<1>21. \A j \in 1..d : g[f + j] \in 1..L
  BY <1>17, <1>19, <1>20
<1>22. PICK r : r = [j \in 1..d |-> rows[g[f + j]]]
  OBVIOUS
<1>23. PICK page : page = SinkPage(q, s) /\ page = [j \in 1..d |-> bare[g[f + j]]]
  BY <1>15, <1>17, <1>18, <1>19, <1>20, Zenon DEF Section
<1>24. Len(page) = d
  BY <1>23
<1>25. \A j \in 1..d : page[j] = CodexMessage(w, r[j]) /\ page[j].row = r[j] /\ r[j] \in 1..n
  <2> SUFFICES ASSUME NEW j \in 1..d
               PROVE  page[j] = CodexMessage(w, r[j]) /\ page[j].row = r[j] /\ r[j] \in 1..n
    OBVIOUS
  <2>1. PICK k \in 1..L : k = g[f + j]
    BY <1>21
  <2>2. page[j] = bare[k] /\ r[j] = rows[k]
    BY <1>22, <1>23, <2>1
  <2> QED  BY <1>4, <1>5, <1>11, <2>2
<1>26. PICK stop : stop = IF s.open THEN n ELSE s.end
  OBVIOUS
<1>27. CodexPage(q, w) = [j \in 1..d |-> CodexUsed(w, r[j], stop)]
  <2>1. CodexPage(q, w) = [j \in 1..Len(page) |-> [page[j] EXCEPT !.usage = CodexUsageOf(w, page[j].row, stop)]]
    BY <1>1, <1>8, <1>14, <1>23, <1>26, Zenon DEF CodexPage, CodexBareMessages
  <2> QED  BY <1>24, <1>25, <2>1, Zenon DEF CodexUsed, WithUsage
<1>28. Window(q, full) = [j \in 1..d |-> CodexUsed(w, r[j], n)]
  <2>1. Window(q, full) = [j \in 1..d |-> full[g[f + j]]]
    BY <1>16, <1>17, <1>18, <1>19, <1>20, Zenon DEF Section
  <2>2. \A j \in 1..d : full[g[f + j]] = CodexUsed(w, r[j], n)
    BY <1>6, <1>21, <1>22, Zenon
  <2> QED  BY <2>1, <2>2, Zenon
<1>29. stop = n \/ (~q.fromEnd /\ d = q.limit /\ stop = r[d])
  <2>1. CASE s.open
    BY <1>26, <2>1
  <2>2. CASE ~s.open
    <3>1. ~q.fromEnd
      BY <1>14, <2>2 DEF Holds, HoldsNewest
    <3>2. HoldsOldest(q, bare, g, s)
      BY <1>14, <3>1 DEF Holds
    <3>3. PICK b \in Nat : b = Before(q)
      BY DEF Asks, Before
    <3>4. PICK l \in Nat \ {0} : l = q.limit
      BY DEF Asks
    <3>5. p >= b + l /\ s.end = bare[g[b + l]].row
      BY <1>17, <2>2, <3>2, <3>3, <3>4 DEF HoldsOldest
    <3>6. f = b /\ t = b + l
      <4>1. f = b /\ t = IF p <= b + l THEN p ELSE b + l
        BY <1>18, <1>19, <3>1, <3>3, <3>4 DEF From, To
      <4> QED  BY <3>5, <4>1
    <3>7. d = l /\ l \in 1..d
      BY <1>20, <3>6
    <3>8. page[l] = bare[g[b + l]]
      BY <1>23, <3>6, <3>7
    <3>9. s.end = r[l]
      BY <1>25, <3>5, <3>7, <3>8
    <3> QED  BY <1>26, <2>2, <3>1, <3>4, <3>7, <3>9
  <2> QED  BY <2>1, <2>2
<1>30. PagedAlike(q, w, d, r, stop)
  BY <1>1, <1>7, <1>25, <1>27, <1>28, <1>29, Zenon DEF PagedAlike
<1> QED  BY <1>30

-----------------------------------------------------------------------------
(* Every reader lists its messages, and every page is the part asked for *)

IsList(x) == Len(x) \in Nat /\ x \in Seq({x[k] : k \in 1..Len(x)})

\* What the rows of a transcript are: Claude's user rows are the main thread's but
\* in a subagent's file, Codex asks in response items and keeps either usage
\* records or running totals, and a user's row of Pi or OpenClaw makes no call.
RowFits(f, r) ==
  /\ f = "claude" => ~(r.type = "user" /\ r.side)
  /\ f \in {"codex", "codex-totals"} => (r.sub = "user" => r.type = "response_item")
  /\ f = "codex" => r.sub # "token_count"
  /\ f = "codex-totals" => r.type # "token_usage_record"
  /\ f \in {"pi", "openclaw"} => (r.role = "user" => r.id = 0)
  /\ f = "openclaw" => (r.role = "assistant" => r.type = "message" /\ r.stop \in {"", "stop", "error", "toolUse"})

Written == IsList(log) /\ \A i \in 1..Len(log) : RowFits(format, log[i])

LEMMA ListOf ==
  ASSUME NEW n \in Nat, NEW x, x = [k \in 1..n |-> x[k]]
  PROVE  IsList(x)
<1>1. x \in Seq({x[k] : k \in 1..n}) /\ Len(x) = n
  BY OwnMembers
<1> QED  BY <1>1 DEF IsList

LEMMA MessagesAreList ==
  ASSUME NEW rows, Len(rows) \in Nat, DOMAIN rows = 1..Len(rows), NEW x, x = [k \in DOMAIN rows |-> x[k]]
  PROVE  IsList(x)
BY ListOf

\* A transcript's messages as every source makes them
LEMMA ReadersList ==
  ASSUME NEW w, Len(w) \in Nat, NEW side
  PROVE  /\ IsList(ClaudeMessages(w, side)) /\ IsList(CodexMessages(w)) /\ IsList(GeminiMessages(w))
         /\ IsList(PiMessages(w)) /\ IsList(GrokMessages(w)) /\ IsList(DshMessages(w)) /\ IsList(ClawMessages(w))
<1> DEFINE Rows(S) == Ascending(S, Len(w))
           Listed(S, x) == x = [k \in DOMAIN Rows(S) |-> x[k]]
<1>1. \A S, x : Listed(S, x) => IsList(x)
  <2> SUFFICES ASSUME NEW S, NEW x, Listed(S, x) PROVE IsList(x)
    OBVIOUS
  <2>1. Len(Rows(S)) \in Nat /\ DOMAIN Rows(S) = 1..Len(Rows(S))
    BY AscendingIsSeq
  <2> QED  BY <2>1, MessagesAreList
<1>2. Listed({i \in 1..Len(w) : ClaudeShown(w[i], side)}, ClaudeMessages(w, side))
  BY Zenon DEF ClaudeMessages, MessagesOf
<1>3. Listed({i \in 1..Len(w) : CodexShown(w[i])}, CodexMessages(w))
  BY Zenon DEF CodexMessages, MessagesOf
<1>4. Listed({i \in 1..Len(w) : GeminiEntry(w[i])}, GeminiMessages(w))
  BY Zenon DEF GeminiMessages, MessagesOf
<1>5. Listed({i \in 1..Len(w) : w[i].type = "message"}, PiMessages(w))
  BY Zenon DEF PiMessages, MessagesOf
<1>6. Listed({i \in 1..Len(w) : GrokIsMessage(w, i)}, GrokMessages(w))
  BY Zenon DEF GrokMessages, MessagesOf
<1>7. Listed({i \in 1..Len(w) : DshShown(w, i)}, DshMessages(w))
  BY Zenon DEF DshMessages, MessagesOf
<1>8. Listed({i \in 1..Len(w) : w[i].type = "message"}, ClawMessages(w))
  BY Zenon DEF ClawMessages, MessagesOf
<1> HIDE DEF Listed
<1> QED  BY <1>1, <1>2, <1>3, <1>4, <1>5, <1>6, <1>7, <1>8, Zenon

LEMMA StepsAreList ==
  ASSUME NEW w, Len(w) \in Nat
  PROVE  IsList(AgyMessages(w))
<1> DEFINE indexes == {w[i].index : i \in 1..Len(w)}
<1>1. IsFiniteSet(1..Len(w))
  BY FS_Interval
<1>2. IsFiniteSet(indexes)
  <2> DEFINE f == [i \in 1..Len(w) |-> w[i].index]
  <2>1. indexes = {f[i] : i \in 1..Len(w)}
    BY Zenon
  <2>2. f \in Surjection(1..Len(w), indexes)
    BY <2>1, Zenon DEF Surjection
  <2> QED  BY <1>1, <2>2, FS_Surjection
<1>3. PICK n \in Nat : n = Cardinality(indexes)
  BY <1>2, FS_CardinalityType
<1>4. DOMAIN AgySteps(w) = 1..n
  BY <1>3, Zenon DEF AgySteps
<1>5. AgyMessages(w) = [k \in 1..n |-> AgyMessages(w)[k]]
  BY <1>4, Zenon DEF AgyMessages
<1> QED  BY <1>5, ListOf

LEMMA MessagesList ==
  ASSUME format \in Formats, Len(log) \in Nat
  PROVE  IsList(Messages)
<1>1. CASE format \in {"claude", "claude-sub"}
  <2>1. Messages = ClaudeMessages(log, sub)
    BY <1>1 DEF Messages
  <2> QED  BY <2>1, ReadersList
<1>2. CASE format \in {"codex", "codex-totals"}
  <2>1. Messages = CodexMessages(log)
    BY <1>2 DEF Messages
  <2> QED  BY <2>1, ReadersList
<1>3. CASE format = "gemini"
  <2>1. Messages = GeminiMessages(log)
    BY <1>3 DEF Messages
  <2> QED  BY <2>1, ReadersList
<1>4. CASE format = "pi"
  <2>1. Messages = PiMessages(log)
    BY <1>4 DEF Messages
  <2> QED  BY <2>1, ReadersList
<1>5. CASE format = "grok"
  <2>1. Messages = GrokMessages(log)
    BY <1>5 DEF Messages
  <2> QED  BY <2>1, ReadersList
<1>6. CASE format = "antigravity"
  <2>1. Messages = AgyMessages(log)
    BY <1>6 DEF Messages
  <2> QED  BY <2>1, StepsAreList
<1>7. CASE format = "dsh"
  <2>1. Messages = DshMessages(log)
    BY <1>7 DEF Messages
  <2> QED  BY <2>1, ReadersList
<1>8. CASE format = "openclaw"
  <2>1. Messages = ClawMessages(log)
    BY <1>8 DEF Messages
  <2> QED  BY <2>1, ReadersList
<1> QED  BY <1>1, <1>2, <1>3, <1>4, <1>5, <1>6, <1>7, <1>8 DEF Formats

\* What every query asks for
LEMMA QueriesAsk ==
  ASSUME NEW q \in Queries
  PROVE  Asks(q)
<1>1. Limit \in Nat
  BY TranscriptsAssumption
<1>2. q.limit \in 1..Limit /\ q.offset \in 0..Limit /\ q.fromEnd \in BOOLEAN
  BY DEF Queries
<1> QED  BY <1>1, <1>2 DEF Asks

\* What one page is to the part of the whole that it was asked for
PageAgrees(q, page, window) ==
  /\ Len(page) = Len(window)
  /\ \A n \in DOMAIN page :
       \/ page[n] = window[n]
       \/ /\ format = "codex" /\ ~q.fromEnd /\ Len(page) = q.limit
          /\ \A i \in page[n].row + 1..page[q.limit].row : ~CodexSpeaks(log[i])
          /\ [page[n] EXCEPT !.usage = window[n].usage] = window[n]

LEMMA SameAgrees == ASSUME NEW q, NEW page PROVE PageAgrees(q, page, page)
BY Zenon DEF PageAgrees

\* The usage read for a row up to stop is all there is, if a message of the
\* agent's lies between the row and stop.
LEMMA UsageIsRead ==
  ASSUME NEW w, Len(w) \in Nat, NEW i \in 1..Len(w), NEW stop \in 1..Len(w),
         NEW k \in (i + 1)..stop, CodexSpeaks(w[k])
  PROVE  CodexUsageOf(w, i, stop) = CodexUsageOf(w, i, Len(w))
<1> DEFINE Read(s) == {j \in (i + 1)..s : /\ w[j].type = "token_usage_record"
                                          /\ \A h \in (i + 1)..j : ~CodexSpeaks(w[h])}
<1>1. Read(stop) = Read(Len(w))
  <2>1. ASSUME NEW j \in (i + 1)..Len(w), \A h \in (i + 1)..j : ~CodexSpeaks(w[h]) PROVE j \in (i + 1)..stop
    <3>1. ~(k <= j)
      BY <2>1
    <3> QED  BY <3>1
  <2>2. (i + 1)..stop \subseteq (i + 1)..Len(w)
    OBVIOUS
  <2> QED  BY <2>1, <2>2, Zenon
<1> QED  BY <1>1, Zenon DEF CodexUsageOf

LEMMA NoUsageToRead ==
  ASSUME NEW w, Len(w) \in Nat, \A j \in 1..Len(w) : w[j].type # "token_usage_record",
         NEW i \in 1..Len(w), NEW stop \in 1..Len(w)
  PROVE  CodexUsageOf(w, i, stop) = CodexUsageOf(w, i, Len(w))
<1> DEFINE Read(s) == {j \in (i + 1)..s : /\ w[j].type = "token_usage_record"
                                          /\ \A h \in (i + 1)..j : ~CodexSpeaks(w[h])}
<1>1. (i + 1)..stop \subseteq 1..Len(w) /\ (i + 1)..Len(w) \subseteq 1..Len(w)
  OBVIOUS
<1>2. Read(stop) = Read(Len(w))
  BY <1>1, Zenon
<1> QED  BY <1>2, Zenon DEF CodexUsageOf

LEMMA CodexPagesAgree ==
  ASSUME Written, format \in {"codex", "codex-totals"}, NEW q, Asks(q)
  PROVE  PageAgrees(q, CodexPage(q, log), Window(q, CodexMessages(log)))
<1>1. PICK w : w = log /\ Len(w) \in Nat
  BY DEF Written, IsList
<1>2. PICK d \in Nat : \E r, stop : PagedAlike(q, w, d, r, stop)
  BY <1>1, CodexPagesOf
<1>3. PICK r, stop : PagedAlike(q, w, d, r, stop)
  BY <1>2
<1>4. PICK page : page = CodexPage(q, w) /\ page = [j \in 1..d |-> CodexUsed(w, r[j], stop)]
  BY <1>3 DEF PagedAlike
<1>5. PICK window : window = Window(q, CodexMessages(w)) /\ window = [j \in 1..d |-> CodexUsed(w, r[j], Len(w))]
  BY <1>3 DEF PagedAlike
<1>6. Len(page) = d /\ Len(window) = d /\ DOMAIN page = 1..d
  BY <1>4, <1>5
<1>7. CASE stop = Len(w)
  <2>1. page = window
    BY <1>4, <1>5, <1>7
  <2> QED  BY <1>1, <1>4, <1>5, <2>1, SameAgrees
<1>8. CASE stop # Len(w)
  <2>1. ~q.fromEnd /\ d = q.limit /\ stop = r[d] /\ \A j \in 1..d : r[j] \in 1..Len(w)
    BY <1>3, <1>8 DEF PagedAlike
  <2>2. d \in 1..d /\ stop \in 1..Len(w)
    BY <2>1 DEF Asks
  <2>3. ASSUME NEW j \in 1..d
        PROVE  \/ page[j] = window[j]
               \/ /\ format = "codex"
                  /\ \A i \in page[j].row + 1..page[q.limit].row : ~CodexSpeaks(w[i])
                  /\ WithUsage(page[j], window[j].usage) = window[j]
    <3>1. PICK i \in 1..Len(w) : i = r[j]
      BY <2>1
    <3>2. PICK m : m = CodexMessage(w, i) /\ CodexBare(m, i)
      BY CodexMessageIs
    <3>3. PICK u : u = CodexUsageOf(w, i, stop)
      OBVIOUS
    <3>4. PICK v : v = CodexUsageOf(w, i, Len(w))
      OBVIOUS
    <3>5. page[j] = WithUsage(m, u) /\ window[j] = WithUsage(m, v)
      BY <1>4, <1>5, <3>1, <3>2, <3>3, <3>4, Zenon DEF CodexUsed
    <3>6. page[j].row = i
      BY <3>2, <3>5, UsageAlone
    <3>7. page[q.limit].row = stop
      <4>1. PICK n : n = CodexMessage(w, stop) /\ CodexBare(n, stop)
        BY CodexMessageIs
      <4>2. PICK x : x = CodexUsageOf(w, stop, stop)
        OBVIOUS
      <4>3. page[d] = WithUsage(n, x)
        BY <1>4, <2>1, <2>2, <4>1, <4>2, Zenon DEF CodexUsed
      <4> QED  BY <2>1, <4>1, <4>3, UsageAlone
    <3>8. CASE u = v
      BY <3>5, <3>8
    <3>9. CASE u # v
      <4>1. \A k \in (i + 1)..stop : ~CodexSpeaks(w[k])
        BY <1>1, <2>2, <3>3, <3>4, <3>9, UsageIsRead
      <4>2. format = "codex"
        <5>1. format = "codex-totals" => u = v
          BY <1>1, <2>2, <3>3, <3>4, NoUsageToRead DEF Written, RowFits
        <5> QED  BY <3>9, <5>1
      <4>3. window[j].usage = v /\ WithUsage(page[j], v) = window[j]
        BY <3>2, <3>5, UsageAlone
      <4> QED  BY <3>6, <3>7, <4>1, <4>2, <4>3
    <3> QED  BY <3>8, <3>9
  <2> QED  BY <1>1, <1>4, <1>5, <1>6, <2>1, <2>3, Zenon DEF PageAgrees, WithUsage
<1> QED  BY <1>7, <1>8

-----------------------------------------------------------------------------
(* Transcripts *)

LEMMA AppendKeepsList ==
  ASSUME NEW w, IsList(w), NEW row
  PROVE  /\ IsList(Append(w, row)) /\ Len(Append(w, row)) = Len(w) + 1
         /\ Append(w, row)[Len(w) + 1] = row /\ \A i \in 1..Len(w) : Append(w, row)[i] = w[i]
<1>1. PICK n \in Nat : n = Len(w)
  BY DEF IsList
<1>2. PICK M : M = {w[k] : k \in 1..n} \cup {row}
  OBVIOUS
<1>3. w \in Seq(M)
  <2>1. w \in Seq({w[k] : k \in 1..n})
    BY <1>1 DEF IsList
  <2>2. \A k \in 1..n : w[k] \in M
    BY <1>2
  <2> QED  BY <1>1, <2>1, <2>2
<1>4. PICK x \in Seq(M) : x = Append(w, row)
  <2>1. row \in M
    BY <1>2
  <2> QED  BY <1>3, <2>1, OneAppended
<1>5. Len(x) = n + 1 /\ x[n + 1] = row /\ \A i \in 1..n : x[i] = w[i]
  BY <1>1, <1>3, <1>4
<1>6. x = [k \in 1..(n + 1) |-> x[k]]
  <2>1. DOMAIN x = 1..(n + 1)
    BY <1>5
  <2> QED  BY <2>1
<1>7. IsList(x)
  BY <1>6, ListOf
<1> QED  BY <1>1, <1>4, <1>5, <1>7

\* A turn has the next number, its usage is due when it is recorded, and either is
\* written in records or in running totals.
CodexFits(r, turns, due, totals) ==
  /\ r.type = "turn_context" => r.id = turns + 1
  /\ r.type = "token_usage_record" => due /\ ~totals
  /\ r.sub = "token_count" => totals
  /\ r.sub = "user" => r.type = "response_item"

LEMMA CodexLinesAre ==
  ASSUME NEW n, NEW open, NEW turns, NEW due, NEW totals, NEW row \in CodexMayWrite(n, open, turns, due, totals)
  PROVE  CodexFits(row, turns, due, totals)
<1> DEFINE Fits(x) == CodexFits(x, turns, due, totals)
           A == {CodexRow("session_meta", "", ""), [CodexRow("turn_context", "", "") EXCEPT !.id = turns + 1],
                 CodexRow("event_msg", "turn_aborted", "")}
           B == {CodexRow("response_item", "user", t) : t \in {"words", "plumbing"}}
           C == {CodexRow("response_item", s, "words") : s \in {"developer", "assistant", "reasoning"}}
           D == {CodexRow("response_item", "reasoning", ""), CodexRow("response_item", "web_search_call", "")}
           E == {[CodexRow("response_item", s, "") EXCEPT !.id = n] : s \in CodexCalls}
           F == CodexOutputs(open)
           G == IF due /\ ~totals THEN {CodexRow("token_usage_record", "", "")} ELSE {}
           H == IF due /\ totals THEN {[CodexRow("event_msg", "token_count", "") EXCEPT !.id = turns]} ELSE {}
<1>1. CodexMayWrite(n, open, turns, due, totals) = A \cup B \cup C \cup D \cup E \cup F \cup G \cup H
  BY Zenon DEF CodexMayWrite
<1>2. \A x \in A : Fits(x)
  <2>1. PICK v : v = turns + 1
    OBVIOUS
  <2>2. v = turns + 1 => Fits([CodexRow("turn_context", "", "") EXCEPT !.id = v])
    BY DEF CodexRow, CodexFits
  <2>3. Fits(CodexRow("session_meta", "", ""))
        /\ Fits(CodexRow("event_msg", "turn_aborted", ""))
    BY DEF CodexRow, CodexFits
  <2> HIDE DEF Fits
  <2> QED  BY <2>1, <2>2, <2>3, Zenon
<1>3. \A x \in B \cup C \cup D : Fits(x)
  <2>1. \A s, t : s # "token_count" => Fits(CodexRow("response_item", s, t))
    BY DEF CodexRow, CodexFits
  <2>2. /\ "user" # "token_count" /\ "reasoning" # "token_count" /\ "web_search_call" # "token_count"
        /\ "developer" # "token_count" /\ "assistant" # "token_count"
    OBVIOUS
  <2> HIDE DEF Fits
  <2> QED  BY <2>1, <2>2, Zenon
<1>4. \A x \in E : Fits(x)
  <2>1. \A s \in CodexCalls : Fits([CodexRow("response_item", s, "") EXCEPT !.id = n])
    BY DEF CodexRow, CodexFits, CodexCalls
  <2> HIDE DEF Fits
  <2> QED  BY <2>1, Zenon
<1>5. \A x \in F : Fits(x)
  <2>1. \A c, o, e : Fits(CodexOutput(c, o, e))
    BY DEF CodexRow, CodexOutput, CodexFits
  <2> HIDE DEF Fits
  <2> QED  BY <2>1 DEF CodexOutputs
<1>6. \A x \in G \cup H : Fits(x)
  <2>1. totals => Fits([CodexRow("event_msg", "token_count", "") EXCEPT !.id = turns])
    BY DEF CodexRow, CodexFits
  <2>2. due /\ ~totals => Fits(CodexRow("token_usage_record", "", ""))
    BY DEF CodexRow, CodexFits
  <2> HIDE DEF Fits
  <2> QED  BY <2>1, <2>2, Zenon
<1> HIDE DEF Fits, A, B, C, D, E, F, G, H
<1>7. Fits(row)
  BY <1>1, <1>2, <1>3, <1>4, <1>5, <1>6
<1> QED  BY <1>7 DEF Fits

LEMMA ClaudeLinesAre ==
  ASSUME NEW n, NEW open, NEW side, ~side, NEW row \in ClaudeMayWrite(n, open, side)
  PROVE  ~(row.type = "user" /\ row.side)
<1> DEFINE Fits(x) == ~(x.type = "user" /\ x.side)
           A == {ClaudeRow("user", "", t) : t \in {"words", "plumbing", "notice"}}
           B == {ClaudeRow("assistant", "", "words"), [ClaudeRow("assistant", "", "") EXCEPT !.id = n]}
           D == {[ClaudeRow("assistant", "", "words") EXCEPT !.side = TRUE]}
<1>1. ClaudeMayWrite(n, open, side) = {[r EXCEPT !.side = side] : r \in A \cup B \cup ClaudeResults(open) \cup ClaudeNotes} \cup D
  BY Zenon DEF ClaudeMayWrite
<1>2. \A s, u, t : Fits([ClaudeRow(s, u, t) EXCEPT !.side = side])
  BY DEF ClaudeRow
<1>3. \A r \in A \cup B : Fits([r EXCEPT !.side = side])
  <2>1. Fits([[ClaudeRow("assistant", "", "") EXCEPT !.id = n] EXCEPT !.side = side])
    BY DEF ClaudeRow
  <2> HIDE DEF Fits
  <2> QED  BY <1>2, <2>1, Zenon
<1>4. \A r \in ClaudeResults(open) : Fits([r EXCEPT !.side = side])
  <2>1. \A c, s : Fits([ClaudeResult(c, s) EXCEPT !.side = side])
    BY DEF ClaudeRow, ClaudeResult
  <2> HIDE DEF Fits
  <2> QED  BY <2>1 DEF ClaudeResults
<1>5. \A r \in ClaudeNotes : Fits([r EXCEPT !.side = side])
  <2> HIDE DEF Fits
  <2> QED  BY <1>2, Zenon DEF ClaudeNotes
<1>6. \A x \in D : Fits(x)
  <2>1. \A b : Fits([ClaudeRow("assistant", "", "words") EXCEPT !.side = b])
    BY DEF ClaudeRow
  <2> HIDE DEF Fits
  <2> QED  BY <2>1, Zenon
<1> HIDE DEF Fits, A, B, D
<1>7. Fits(row)
  BY <1>1, <1>3, <1>4, <1>5, <1>6
<1> QED  BY <1>7 DEF Fits

LEMMA PiLinesAre ==
  ASSUME NEW n, NEW open, NEW row \in PiMayWrite(n, open)
  PROVE  row.role = "user" => row.id = 0
<1> DEFINE Fits(x) == x.role = "user" => x.id = 0
           A == {PiRow("session", "", ""), PiRow("model_change", "", "words"),
                 PiRow("message", "assistant", "words"), PiRow("message", "user", "words"),
                 PiRow("message", "user", "plumbing"), PiRow("message", "bashExecution", "words"),
                 [PiRow("message", "assistant", "") EXCEPT !.id = n]}
<1>1. PiMayWrite(n, open) = A \cup PiResults(open)
  BY Zenon DEF PiMayWrite
<1>2. \A x \in A : Fits(x)
  <2>1. \A s, t, u : Fits(PiRow(s, t, u))
    BY DEF PiRow
  <2>2. Fits([PiRow("message", "assistant", "") EXCEPT !.id = n])
    BY DEF PiRow
  <2>3. ASSUME NEW x \in A PROVE \/ x = [PiRow("message", "assistant", "") EXCEPT !.id = n]
                                \/ \E s, t, u : x = PiRow(s, t, u)
    BY Zenon
  <2> HIDE DEF Fits, A
  <2>4. ASSUME NEW x, \E s, t, u : x = PiRow(s, t, u) PROVE Fits(x)
    BY <2>1, <2>4, Zenon
  <2>5. ASSUME NEW x, x = [PiRow("message", "assistant", "") EXCEPT !.id = n] PROVE Fits(x)
    BY <2>2, <2>5, Zenon
  <2> QED  BY <2>3, <2>4, <2>5, Zenon
<1>3. \A x \in PiResults(open) : Fits(x)
  <2>1. \A c, e : Fits(PiResult(c, e))
    BY DEF PiRow, PiResult
  <2> HIDE DEF Fits
  <2> QED  BY <2>1 DEF PiResults
<1> HIDE DEF Fits, A
<1>4. Fits(row)
  BY <1>1, <1>2, <1>3
<1> QED  BY <1>4 DEF Fits

LEMMA ClawLinesAre ==
  ASSUME NEW n, NEW open, NEW row \in ClawMayWrite(n, open)
  PROVE  /\ row.role = "user" => row.id = 0
         /\ row.role = "assistant" => row.type = "message" /\ row.stop \in {"", "stop", "error", "toolUse"}
<1> DEFINE Fits(x) == /\ x.role = "user" => x.id = 0
                      /\ x.role = "assistant" => x.type = "message" /\ x.stop \in {"", "stop", "error", "toolUse"}
           A == {ClawRow("session", "", ""), ClawRow("model_change", "", "words"), ClawRow("message", "user", "words"),
                 ClawRow("message", "user", "plumbing")}
           B == {[ClawRow("message", "assistant", "words") EXCEPT !.stop = s] : s \in ClawStopReasons}
           C == {[ClawRow("message", "assistant", "") EXCEPT !.id = n, !.stop = "toolUse"]}
<1>1. ClawMayWrite(n, open) = A \cup B \cup C \cup ClawResults(open)
  BY Zenon DEF ClawMayWrite
<1>2. \A x \in A : Fits(x)
  <2>1. \A s, t, u : t # "assistant" => Fits(ClawRow(s, t, u))
    BY DEF ClawRow
  <2>2. "user" # "assistant" /\ "" # "assistant"
    OBVIOUS
  <2> HIDE DEF Fits
  <2> QED  BY <2>1, <2>2, Zenon
<1>3. \A x \in B : Fits(x)
  <2>1. \A s \in ClawStopReasons : Fits([ClawRow("message", "assistant", "words") EXCEPT !.stop = s])
    BY DEF ClawRow, ClawStopReasons
  <2> HIDE DEF Fits
  <2> QED  BY <2>1, Zenon
<1>4. \A x \in C : Fits(x)
  BY DEF ClawRow
<1>5. \A x \in ClawResults(open) : Fits(x)
  <2>1. \A c, e : Fits(ClawResult(c, e))
    BY DEF ClawRow, ClawResult
  <2> HIDE DEF Fits
  <2> QED  BY <2>1 DEF ClawResults
<1> HIDE DEF Fits, A, B, C
<1>6. Fits(row)
  BY <1>1, <1>2, <1>3, <1>4, <1>5
<1> QED  BY <1>6 DEF Fits

LEMMA RowsFit ==
  ASSUME NEW row \in MayWrite
  PROVE  RowFits(format, row)
<1>1. CASE format = "claude"
  <2>1. MayWrite = ClaudeMayWrite(Len(log) + 1, OpenCalls, FALSE)
    BY <1>1 DEF MayWrite
  <2> QED  BY <1>1, <2>1, ClaudeLinesAre DEF RowFits
<1>2. CASE format = "codex"
  <2>1. MayWrite = CodexMayWrite(Len(log) + 1, OpenCalls, Turns, Due, FALSE)
    BY <1>2 DEF MayWrite
  <2>2. CodexFits(row, Turns, Due, FALSE)
    BY <2>1, CodexLinesAre
  <2> QED  BY <1>2, <2>2 DEF RowFits, CodexFits
<1>3. CASE format = "codex-totals"
  <2>1. MayWrite = CodexMayWrite(Len(log) + 1, OpenCalls, Turns, Turns > 0, TRUE)
    BY <1>3 DEF MayWrite
  <2>2. CodexFits(row, Turns, Turns > 0, TRUE)
    BY <2>1, CodexLinesAre
  <2> QED  BY <1>3, <2>2 DEF RowFits, CodexFits
<1>4. CASE format = "pi"
  <2>1. MayWrite = PiMayWrite(Len(log) + 1, OpenCalls)
    BY <1>4 DEF MayWrite
  <2> QED  BY <1>4, <2>1, PiLinesAre DEF RowFits
<1>5. CASE format = "openclaw"
  <2>1. MayWrite = ClawMayWrite(Len(log) + 1, OpenCalls)
    BY <1>5 DEF MayWrite
  <2> QED  BY <1>5, <2>1, ClawLinesAre DEF RowFits
<1>6. CASE format \notin {"claude", "codex", "codex-totals", "pi", "openclaw"}
  BY <1>6 DEF RowFits
<1> QED  BY <1>1, <1>2, <1>3, <1>4, <1>5, <1>6

LEMMA WrittenInv == TranscriptsSpec => [](format \in Formats /\ Written)
<1>1. TranscriptsInit => format \in Formats /\ Written
  <2> SUFFICES ASSUME TranscriptsInit PROVE format \in Formats /\ Written
    OBVIOUS
  <2>1. format \in Formats /\ log = <<>>
    BY DEF TranscriptsInit
  <2>2. IsList(log) /\ 1..Len(log) = {}
    BY <2>1 DEF IsList
  <2> QED  BY <2>1, <2>2 DEF Written
<1>2. (format \in Formats /\ Written) /\ [TranscriptsNext]_transcriptVars => (format \in Formats /\ Written)'
  <2> SUFFICES ASSUME format \in Formats, Written, [TranscriptsNext]_transcriptVars
               PROVE  (format \in Formats)' /\ Written'
    OBVIOUS
  <2>1. CASE Write
    <3>1. PICK row \in MayWrite : log' = Append(log, row)
      BY <2>1 DEF Write
    <3>2. format' = format
      BY <2>1 DEF Write
    <3>3. /\ IsList(log') /\ Len(log') = Len(log) + 1 /\ Len(log) \in Nat
          /\ log'[Len(log) + 1] = row /\ \A i \in 1..Len(log) : log'[i] = log[i]
      BY <3>1, AppendKeepsList DEF Written, IsList
    <3>4. ASSUME NEW i \in 1..Len(log') PROVE RowFits(format, log'[i])
      <4>1. RowFits(format, row)
        BY RowsFit
      <4>2. CASE i = Len(log) + 1
        BY <3>3, <4>1, <4>2
      <4>3. CASE i # Len(log) + 1
        <5>1. i \in 1..Len(log)
          BY <3>3, <4>3
        <5>2. RowFits(format, log[i])
          BY <5>1 DEF Written
        <5> QED  BY <3>3, <5>1, <5>2
      <4> QED  BY <4>2, <4>3
    <3> QED  BY <3>2, <3>3, <3>4 DEF Written, IsList
  <2>2. CASE UNCHANGED transcriptVars
    BY <2>2 DEF transcriptVars, Written, IsList
  <2> QED  BY <2>1, <2>2 DEF TranscriptsNext
<1> QED  BY <1>1, <1>2, PTL DEF TranscriptsSpec

\* Every page of every transcript is the part of the whole it was asked for:
\* messageSink's ring and its early end lose and repeat nothing, and of Codex,
\* where the scan ends with the page, at most a usage is read too early.
THEOREM PagesHold == TranscriptsSpec => []PagesAgree
<1>1. format \in Formats /\ Written => PagesAgree
  <2> SUFFICES ASSUME format \in Formats, Written, NEW messages \in {Messages}, NEW q \in Queries
               PROVE  PageAgrees(q, Page(q, messages), Window(q, messages))
    BY DEF PagesAgree, PageAgrees, WithUsage
  <2>0. messages = Messages
    OBVIOUS
  <2>1. Asks(q)
    BY QueriesAsk
  <2>2. CASE format \in {"codex", "codex-totals"}
    <3>1. Messages = CodexMessages(log) /\ Page(q, messages) = CodexPage(q, log)
      BY <2>2 DEF Messages, Page
    <3> QED  BY <2>0, <2>1, <2>2, <3>1, CodexPagesAgree
  <2>3. CASE format \notin {"codex", "codex-totals"}
    <3>1. Page(q, messages) = PageOf(q, messages)
      BY <2>3 DEF Page
    <3>2. IsList(Messages)
      BY MessagesList DEF Written, IsList
    <3>3. PICK ms, M : ms = Messages /\ ms \in Seq(M)
      BY <3>2 DEF IsList
    <3>4. PageOf(q, ms) = Window(q, ms)
      BY <2>1, <3>3, PageIsWindow
    <3> QED  BY <2>0, <3>1, <3>3, <3>4, SameAgrees
  <2> QED  BY <2>2, <2>3
<1> QED  BY <1>1, WrittenInv, PTL

-----------------------------------------------------------------------------
(* How many rows are counted and how many messages are shown *)

\* The rows of P up to n
Up(P, n) == {i \in 1..n : i \in P}

LEMMA UpFinite ==
  ASSUME NEW n \in Nat, NEW P
  PROVE  IsFiniteSet(Up(P, n)) /\ Cardinality(Up(P, n)) \in Nat
<1>1. IsFiniteSet(1..n)
  BY FS_Interval
<1>2. Up(P, n) \in SUBSET (1..n)
  BY DEF Up
<1>3. IsFiniteSet(Up(P, n))
  BY <1>1, <1>2, FS_Subset
<1> QED  BY <1>3, FS_CardinalityType

\* The places that hold a row of P
RowPlaces(rows, P) == {k \in 1..Len(rows) : rows[k] \in P}

\* As many places of a scan hold a row of P as there are such rows among the
\* scanned.
LEMMA RowPlacesCount ==
  ASSUME NEW S, NEW n \in Nat, NEW P, NEW rows, Kept(S, n, rows)
  PROVE  Cardinality(RowPlaces(rows, P)) = Cardinality(Up(S \cap P, n))
<1>1. PICK L \in Nat : L = Len(rows)
  BY DEF Kept
<1>2. \A k \in 1..L : rows[k] \in S /\ rows[k] \in 1..n
  BY <1>1 DEF Kept
<1>3. \A k \in 1..L, l \in 1..L : k < l => rows[k] < rows[l]
  BY <1>1 DEF Kept
<1>4. \A j \in 1..n : j \in S => \E k \in 1..L : rows[k] = j
  BY <1>1 DEF Kept
<1> DEFINE A == {k \in 1..L : rows[k] \in P}
           B == {i \in 1..n : i \in S /\ i \in P}
           f == [k \in A |-> rows[k]]
<1>5. IsFiniteSet(A)
  <2>1. IsFiniteSet(1..L)
    BY FS_Interval
  <2>2. A \in SUBSET (1..L)
    OBVIOUS
  <2> QED  BY <2>1, <2>2, FS_Subset
<1>6. \A k \in A : f[k] = rows[k] /\ rows[k] \in B /\ k \in 1..L
  BY <1>2
<1>7. \A k, l \in A : f[k] = f[l] => k = l
  <2>1. \A k \in 1..L, l \in 1..L : rows[k] = rows[l] => k = l
    <3> SUFFICES ASSUME NEW k \in 1..L, NEW l \in 1..L, rows[k] = rows[l] PROVE k = l
      OBVIOUS
    <3>1. rows[k] \in 1..n
      BY <1>2
    <3> QED  BY <1>3, <3>1
  <2> QED  BY <1>6, <2>1
<1>8. \A j \in B : \E k \in A : f[k] = j
  BY <1>4
<1>9. f \in [A -> B]
  BY <1>6
<1>10. f \in Bijection(A, B)
  <2> HIDE DEF f, A, B
  <2>1. f \in Injection(A, B)
    BY <1>7, <1>9, Zenon DEF Injection, IsInjective
  <2>2. f \in Surjection(A, B)
    BY <1>8, <1>9, Zenon DEF Surjection
  <2> QED  BY <2>1, <2>2, Zenon DEF Bijection
<1>11. ExistsBijection(A, B)
  BY <1>10 DEF ExistsBijection
<1>12. Cardinality(B) = Cardinality(A)
  <2> HIDE DEF A, B
  <2> QED  BY <1>5, <1>11, FS_Bijection
<1>13. A = RowPlaces(rows, P)
  BY <1>1, Zenon DEF RowPlaces
<1>14. B = Up(S \cap P, n)
  BY DEF Up
<1> QED  BY <1>12, <1>13, <1>14

\* A scan lists as many rows as there are.
LEMMA AscendingCounts ==
  ASSUME NEW n \in Nat, NEW S, S \subseteq 1..n
  PROVE  Len(Ascending(S, n)) = Cardinality(S)
<1>1. PICK rows : rows = Ascending(S, n) /\ Kept(S, n, rows)
  BY AscendingLists
<1>2. PICK L \in Nat : L = Len(rows)
  BY <1>1 DEF Kept
<1>3. Cardinality(RowPlaces(rows, S)) = Cardinality(Up(S \cap S, n))
  BY <1>1, RowPlacesCount
<1>4. RowPlaces(rows, S) = 1..L
  BY <1>1, <1>2 DEF Kept, RowPlaces
<1>5. Up(S \cap S, n) = S
  BY DEF Up
<1>6. Cardinality(1..L) = L
  <2>1. Cardinality(1..L) = IF 1 > L THEN 0 ELSE L - 1 + 1
    BY FS_Interval
  <2>2. CASE L = 0
    BY <2>1, <2>2
  <2>3. CASE L # 0
    BY <2>1, <2>3
  <2> QED  BY <2>2, <2>3
<1> QED  BY <1>1, <1>2, <1>3, <1>4, <1>5, <1>6

\* A count up to a line boundary and the count from it on are the whole count.
LEMMA CountSplits ==
  ASSUME NEW n \in Nat, NEW m \in 0..n, NEW P
  PROVE  Cardinality(Up(P, m)) + Cardinality({i \in m + 1..n : i \in P}) = Cardinality(Up(P, n))
<1> DEFINE A == Up(P, m)
           B == {i \in m + 1..n : i \in P}
           C == Up(P, n)
<1>1. A \cup B = C /\ A \cap B = {} /\ B \in SUBSET C
  BY DEF Up
<1>2. IsFiniteSet(A) /\ IsFiniteSet(C) /\ Cardinality(A) \in Nat
  BY UpFinite
<1> HIDE DEF A, B, C
<1>3. IsFiniteSet(B)
  BY <1>1, <1>2, FS_Subset
<1>4. Cardinality(B) \in Nat
  BY <1>3, FS_CardinalityType
<1>5. Cardinality(A \cup B) = Cardinality(A) + Cardinality(B) - Cardinality(A \cap B)
  BY <1>2, <1>3, FS_Union
<1>6. Cardinality({}) = 0
  BY FS_EmptySet
<1>7. Cardinality(A) + Cardinality(B) = Cardinality(C)
  <2>1. Cardinality(A \cup B) = Cardinality(C) /\ Cardinality(A \cap B) = 0
    BY <1>1, <1>6, Zenon
  <2> QED  BY <1>2, <1>4, <1>5, <2>1
<1> QED  BY <1>7 DEF A, B, C

\* As many messages are made of a list of rows as it has.
LEMMA MessagesCount ==
  ASSUME NEW n \in Nat, NEW S, S \subseteq 1..n, NEW x, x = [k \in DOMAIN Ascending(S, n) |-> x[k]]
  PROVE  Len(x) = Cardinality(S)
<1>1. PICK L \in Nat : L = Len(Ascending(S, n)) /\ DOMAIN Ascending(S, n) = 1..L
  BY AscendingIsSeq
<1>2. x = [k \in 1..L |-> x[k]]
  BY <1>1
<1>3. Len(x) = L
  BY <1>2
<1>4. L = Cardinality(S)
  BY <1>1, AscendingCounts
<1> QED  BY <1>3, <1>4

\* How many rows P is true of, over all formats that have a message a row
LEMMA ReadersCount ==
  ASSUME NEW w, Len(w) \in Nat, NEW side
  PROVE  /\ Len(ClaudeMessages(w, side)) = Cardinality({i \in 1..Len(w) : ClaudeShown(w[i], side)})
         /\ Len(CodexMessages(w)) = Cardinality({i \in 1..Len(w) : CodexShown(w[i])})
         /\ Len(GeminiMessages(w)) = Cardinality({i \in 1..Len(w) : GeminiEntry(w[i])})
         /\ Len(PiMessages(w)) = Cardinality({i \in 1..Len(w) : w[i].type = "message"})
         /\ Len(ClawMessages(w)) = Cardinality({i \in 1..Len(w) : w[i].type = "message"})
<1> DEFINE Listed(S, x) == S \subseteq 1..Len(w) /\ x = [k \in DOMAIN Ascending(S, Len(w)) |-> x[k]]
<1>1. \A S, x : Listed(S, x) => Len(x) = Cardinality(S)
  BY MessagesCount
<1>2. Listed({i \in 1..Len(w) : ClaudeShown(w[i], side)}, ClaudeMessages(w, side))
  BY Zenon DEF ClaudeMessages, MessagesOf
<1>3. Listed({i \in 1..Len(w) : CodexShown(w[i])}, CodexMessages(w))
  BY Zenon DEF CodexMessages, MessagesOf
<1>4. Listed({i \in 1..Len(w) : GeminiEntry(w[i])}, GeminiMessages(w))
  BY Zenon DEF GeminiMessages, MessagesOf
<1>5. Listed({i \in 1..Len(w) : w[i].type = "message"}, PiMessages(w))
  BY Zenon DEF PiMessages, MessagesOf
<1>6. Listed({i \in 1..Len(w) : w[i].type = "message"}, ClawMessages(w))
  BY Zenon DEF ClawMessages, MessagesOf
<1> HIDE DEF Listed
<1> QED  BY <1>1, <1>2, <1>3, <1>4, <1>5, <1>6, Zenon

\* The beginning of a transcript is what was there when it was counted.
LEMMA BeginningIs ==
  ASSUME NEW w, IsList(w), NEW m \in 0..Len(w)
  PROVE  Len(SubSeq(w, 1, m)) = m /\ \A i \in 1..m : SubSeq(w, 1, m)[i] = w[i]
<1>1. PICK M : w \in Seq(M)
  BY DEF IsList
<1> QED  BY <1>1

\* The list's number, the final result's and the messages shown are one number,
\* and a count that was kept up to a line boundary goes on from it.
CountedAs(count, final, messages) == count = final /\ count = messages
GoesOn(before, after, count) == before + after = count

\* The count has what is drawn, and the stop hooks with blank errors on top.
LEMMA ClaudeKinds ==
  ASSUME NEW r, NEW side
  PROVE  /\ ClaudeCounts(r, side) <=> ClaudeShown(r, side) \/ ClaudeBlankHook(r, side)
         /\ ~(ClaudeShown(r, side) /\ ClaudeBlankHook(r, side))
         /\ r.type = "assistant" => (ClaudeCounts(r, side) <=> ClaudeShown(r, side))
BY DEF ClaudeCounts, ClaudeShown, ClaudeBlankHook, ClaudeEvent, ClaudeHookFailed

ClaudeBlanks(w, side) == {i \in 1..Len(w) : ClaudeBlankHook(w[i], side)}

LEMMA ClaudeCountsAgree ==
  ASSUME NEW w, IsList(w), NEW side
  PROVE  /\ CountedAs(ClaudeCount(w, 0, side), ClaudeFinal(w, side).count,
                     Len(ClaudeMessages(w, side)) + Cardinality(ClaudeBlanks(w, side)))
         /\ \A m \in 0..Len(w) : GoesOn(ClaudeCount(SubSeq(w, 1, m), 0, side), ClaudeCount(w, m, side), ClaudeCount(w, 0, side))
<1>1. PICK n \in Nat : n = Len(w)
  BY DEF IsList
<1>2. PICK S, B : S = {i \in 1..n : ClaudeShown(w[i], side)} /\ B = {i \in 1..n : ClaudeBlankHook(w[i], side)}
  OBVIOUS
<1>3. PICK P : P = {i \in 1..n : ClaudeCounts(w[i], side)}
  OBVIOUS
<1>4. ClaudeCount(w, 0, side) = Cardinality(P)
  BY <1>1, <1>3, 0 + 1 = 1, Zenon DEF ClaudeCount
<1>5. ClaudeFinal(w, side).count = Cardinality(P)
  BY <1>1, <1>3 DEF ClaudeFinal
<1>6. Len(ClaudeMessages(w, side)) + Cardinality(ClaudeBlanks(w, side)) = Cardinality(P)
  <2>1. S \cup B = P /\ S \cap B = {}
    BY <1>2, <1>3, ClaudeKinds
  <2>2. Len(ClaudeMessages(w, side)) = Cardinality(S)
    BY <1>1, <1>2, ReadersCount
  <2>3. ClaudeBlanks(w, side) = B
    BY <1>1, <1>2 DEF ClaudeBlanks
  <2>4. IsFiniteSet(S) /\ IsFiniteSet(B)
    <3>1. IsFiniteSet(1..n)
      BY FS_Interval
    <3> QED  BY <1>2, <3>1, FS_Subset
  <2>5. Cardinality(S) \in Nat /\ Cardinality(B) \in Nat
    BY <2>4, FS_CardinalityType
  <2>6. Cardinality(S \cup B) = Cardinality(S) + Cardinality(B) - Cardinality(S \cap B)
    BY <2>4, FS_Union
  <2>7. Cardinality(S \cap B) = 0
    BY <2>1, FS_EmptySet
  <2>8. PICK s \in Nat, b \in Nat : s = Cardinality(S) /\ b = Cardinality(B)
    BY ONLY <2>5
  <2>9. PICK u : u = Cardinality(S \cup B)
    OBVIOUS
  <2>10. PICK z : z = Cardinality(S \cap B)
    OBVIOUS
  <2>11. z = 0
    BY ONLY <2>7, <2>10, Zenon
  <2>12. u = s + b - z
    BY ONLY <2>6, <2>8, <2>9, <2>10, Zenon
  <2>13. s + b = u
    BY ONLY <2>8, <2>11, <2>12, SMT
  <2>14. u = Cardinality(P)
    BY ONLY <2>1, <2>9, Zenon
  <2>15. Len(ClaudeMessages(w, side)) = s
    BY ONLY <2>2, <2>8, Zenon
  <2>16. Cardinality(ClaudeBlanks(w, side)) = b
    BY ONLY <2>3, <2>8, Zenon
  <2> QED  BY ONLY <2>13, <2>14, <2>15, <2>16, Zenon
<1>7. ASSUME NEW m \in 0..n
      PROVE  GoesOn(ClaudeCount(SubSeq(w, 1, m), 0, side), ClaudeCount(w, m, side), ClaudeCount(w, 0, side))
  <2>1. PICK v : v = SubSeq(w, 1, m) /\ Len(v) = m /\ \A i \in 1..m : v[i] = w[i]
    BY <1>1, BeginningIs
  <2>2. ClaudeCount(v, 0, side) = Cardinality(Up(P, m))
    <3>1. {i \in 1..m : ClaudeCounts(v[i], side)} = Up(P, m)
      BY <1>3, <2>1 DEF Up
    <3> QED  BY <2>1, <3>1, 0 + 1 = 1, Zenon DEF ClaudeCount
  <2>3. ClaudeCount(w, m, side) = Cardinality({i \in m + 1..n : i \in P})
    <3>1. {i \in m + 1..n : ClaudeCounts(w[i], side)} = {i \in m + 1..n : i \in P}
      BY <1>3
    <3> QED  BY <1>1, <3>1, Zenon DEF ClaudeCount
  <2>4. Up(P, n) = P
    BY <1>3 DEF Up
  <2> QED  BY <1>4, <2>1, <2>2, <2>3, <2>4, CountSplits DEF GoesOn
<1> QED  BY <1>1, <1>4, <1>5, <1>6, <1>7 DEF CountedAs

LEMMA CodexCountsAgree ==
  ASSUME NEW w, IsList(w)
  PROVE  /\ CountedAs(CodexCount(w, 0), CodexFinal(w, {}).count, Len(CodexMessages(w)))
         /\ \A m \in 0..Len(w) : GoesOn(CodexCount(SubSeq(w, 1, m), 0), CodexCount(w, m), CodexCount(w, 0))
<1>1. PICK n \in Nat : n = Len(w)
  BY DEF IsList
<1>2. \A r : CodexShown(r) <=> CodexCounts(r)
  BY DEF CodexShown, CodexCounts
<1>3. PICK P : P = {i \in 1..n : CodexCounts(w[i])}
  OBVIOUS
<1>4. CodexCount(w, 0) = Cardinality(P)
  BY <1>1, <1>3, 0 + 1 = 1, Zenon DEF CodexCount
<1>5. CodexFinal(w, {}).count = Cardinality(P)
  BY <1>1, <1>3 DEF CodexFinal
<1>6. Len(CodexMessages(w)) = Cardinality(P)
  <2>1. {i \in 1..Len(w) : CodexShown(w[i])} = P
    BY <1>1, <1>2, <1>3
  <2>2. Len(CodexMessages(w)) = Cardinality({i \in 1..Len(w) : CodexShown(w[i])})
    BY <1>1, ReadersCount
  <2> QED  BY <2>1, <2>2
<1>7. ASSUME NEW m \in 0..n
      PROVE  GoesOn(CodexCount(SubSeq(w, 1, m), 0), CodexCount(w, m), CodexCount(w, 0))
  <2>1. PICK v : v = SubSeq(w, 1, m) /\ Len(v) = m /\ \A i \in 1..m : v[i] = w[i]
    BY <1>1, BeginningIs
  <2>2. CodexCount(v, 0) = Cardinality(Up(P, m))
    <3>1. {i \in 1..m : CodexCounts(v[i])} = Up(P, m)
      BY <1>3, <2>1 DEF Up
    <3> QED  BY <2>1, <3>1, 0 + 1 = 1, Zenon DEF CodexCount
  <2>3. CodexCount(w, m) = Cardinality({i \in m + 1..n : i \in P})
    <3>1. {i \in m + 1..n : CodexCounts(w[i])} = {i \in m + 1..n : i \in P}
      BY <1>3
    <3> QED  BY <1>1, <3>1, Zenon DEF CodexCount
  <2>4. Up(P, n) = P
    BY <1>3 DEF Up
  <2> QED  BY <1>4, <2>1, <2>2, <2>3, <2>4, CountSplits DEF GoesOn
<1> QED  BY <1>1, <1>4, <1>5, <1>6, <1>7 DEF CountedAs

LEMMA PiCountsAgree ==
  ASSUME NEW w, IsList(w)
  PROVE  /\ CountedAs(PiCount(w, 0), PiFinal(w).count, Len(PiMessages(w)))
         /\ \A m \in 0..Len(w) : GoesOn(PiCount(SubSeq(w, 1, m), 0), PiCount(w, m), PiCount(w, 0))
<1>1. PICK n \in Nat : n = Len(w)
  BY DEF IsList
<1>3. PICK P : P = {i \in 1..n : w[i].type = "message"}
  OBVIOUS
<1>4. PiCount(w, 0) = Cardinality(P)
  BY <1>1, <1>3, 0 + 1 = 1, Zenon DEF PiCount
<1>5. PiFinal(w).count = Cardinality(P)
  BY <1>1, <1>3 DEF PiFinal
<1>6. Len(PiMessages(w)) = Cardinality(P)
  BY <1>1, <1>3, ReadersCount
<1>7. ASSUME NEW m \in 0..n
      PROVE  GoesOn(PiCount(SubSeq(w, 1, m), 0), PiCount(w, m), PiCount(w, 0))
  <2>1. PICK v : v = SubSeq(w, 1, m) /\ Len(v) = m /\ \A i \in 1..m : v[i] = w[i]
    BY <1>1, BeginningIs
  <2>2. PiCount(v, 0) = Cardinality(Up(P, m))
    <3>1. {i \in 1..m : v[i].type = "message"} = Up(P, m)
      BY <1>3, <2>1 DEF Up
    <3> QED  BY <2>1, <3>1, 0 + 1 = 1, Zenon DEF PiCount
  <2>3. PiCount(w, m) = Cardinality({i \in m + 1..n : i \in P})
    <3>1. {i \in m + 1..n : w[i].type = "message"} = {i \in m + 1..n : i \in P}
      BY <1>3
    <3> QED  BY <1>1, <3>1, Zenon DEF PiCount
  <2>4. Up(P, n) = P
    BY <1>3 DEF Up
  <2> QED  BY <1>4, <2>1, <2>2, <2>3, <2>4, CountSplits DEF GoesOn
<1> QED  BY <1>1, <1>4, <1>5, <1>6, <1>7 DEF CountedAs

LEMMA GeminiCountsAgree ==
  ASSUME NEW w, IsList(w)
  PROVE  /\ CountedAs(GeminiCount(w, 0, Len(w)), GeminiFinal(w).count, Len(GeminiMessages(w)))
         /\ \A m \in 0..Len(w) : GoesOn(GeminiCount(SubSeq(w, 1, m), 0, Len(SubSeq(w, 1, m))), GeminiCount(w, m, Len(w)), GeminiCount(w, 0, Len(w)))
<1>1. PICK n \in Nat : n = Len(w)
  BY DEF IsList
<1>3. PICK P : P = {i \in 1..n : GeminiEntry(w[i])}
  OBVIOUS
<1>4. GeminiCount(w, 0, Len(w)) = Cardinality(P)
  BY <1>1, <1>3, 0 + 1 = 1, Zenon DEF GeminiCount
<1>5. GeminiFinal(w).count = Cardinality(P)
  BY <1>1, <1>3 DEF GeminiFinal
<1>6. Len(GeminiMessages(w)) = Cardinality(P)
  BY <1>1, <1>3, ReadersCount
<1>7. ASSUME NEW m \in 0..n
      PROVE  GoesOn(GeminiCount(SubSeq(w, 1, m), 0, Len(SubSeq(w, 1, m))), GeminiCount(w, m, Len(w)), GeminiCount(w, 0, Len(w)))
  <2>1. PICK v : v = SubSeq(w, 1, m) /\ Len(v) = m /\ \A i \in 1..m : v[i] = w[i]
    BY <1>1, BeginningIs
  <2>2. GeminiCount(v, 0, Len(v)) = Cardinality(Up(P, m))
    <3>1. {i \in 1..m : GeminiEntry(v[i])} = Up(P, m)
      BY <1>3, <2>1 DEF Up
    <3> QED  BY <2>1, <3>1, 0 + 1 = 1, Zenon DEF GeminiCount
  <2>3. GeminiCount(w, m, Len(w)) = Cardinality({i \in m + 1..n : i \in P})
    <3>1. {i \in m + 1..n : GeminiEntry(w[i])} = {i \in m + 1..n : i \in P}
      BY <1>3
    <3> QED  BY <1>1, <3>1, Zenon DEF GeminiCount
  <2>4. Up(P, n) = P
    BY <1>3 DEF Up
  <2> QED  BY <1>4, <2>1, <2>2, <2>3, <2>4, CountSplits DEF GoesOn
<1> QED  BY <1>1, <1>4, <1>5, <1>6, <1>7 DEF CountedAs

LEMMA ClawCountsAgree ==
  ASSUME NEW w, IsList(w), NEW tail
  PROVE  CountedAs(ClawCount(w), ClawFinal(w, tail).count, Len(ClawMessages(w)))
<1>1. Len(ClawMessages(w)) = ClawCount(w)
  BY ReadersCount DEF ClawCount, IsList
<1>2. ClawFinal(w, tail).count = ClawCount(w)
  BY DEF ClawFinal
<1> QED  BY <1>1, <1>2 DEF CountedAs

LEMMA GrokCountsAgree ==
  ASSUME NEW w
  PROVE  CountedAs(GrokCount(w), GrokFinal(w).count, Len(GrokMessages(w)))
<1>1. GrokFinal(w).count = Len(GrokMessages(w))
  BY DEF GrokFinal
<1> QED  BY <1>1 DEF CountedAs, GrokCount

\* The greatest and the least of some rows
LEMMA GreatestOf ==
  ASSUME NEW n \in Nat, NEW T \in SUBSET (0..n), T # {}
  PROVE  Max(T) \in T /\ \A y \in T : Max(T) >= y
<1> DEFINE D == {d \in Nat : n - d \in T}
<1>1. PICK x \in T : TRUE
  OBVIOUS
<1>2. x \in 0..n /\ n - x \in Nat /\ n - (n - x) = x
  BY <1>1
<1>3. D \in SUBSET Nat /\ D # {}
  BY <1>1, <1>2
<1>4. PICK d \in D : \A e \in D : d <= e
  BY <1>3, LeastOf
<1>5. n - d \in T /\ d \in Nat
  BY <1>4
<1>6. \A y \in T : n - d >= y
  <2> SUFFICES ASSUME NEW y \in T PROVE n - d >= y
    OBVIOUS
  <2>1. y \in 0..n /\ n - y \in Nat /\ n - (n - y) = y
    OBVIOUS
  <2>2. n - y \in D
    BY <2>1
  <2>3. d <= n - y
    BY <1>4, <2>2
  <2> QED  BY <1>5, <2>1, <2>3
<1>7. \E g \in T : \A y \in T : g >= y
  BY <1>5, <1>6
<1> QED  BY <1>7, Zenon DEF Max

LEMMA SmallestOf ==
  ASSUME NEW T \in SUBSET Nat, T # {}
  PROVE  Min(T) \in T /\ \A y \in T : Min(T) <= y
<1>1. \E g \in T : \A y \in T : g <= y
  BY LeastOf
<1> QED  BY <1>1, Zenon DEF Min

\* A message of dsh by its parts
DshText(r) == r.type # "tool/result" /\ r.text # ""
DshUsed(r) == IF r.type = "assistant/message" THEN 1 ELSE 0
DshCallsOf(r) == IF r.type = "assistant/message" /\ r.call # 0 THEN <<r.call>> ELSE <<>>
DshResultsOf(r) ==
  IF r.type = "tool/result" THEN <<Answer(r.call, "any", IF r.error THEN "error" ELSE "ok")>> ELSE <<>>

LEMMA DshMessageIs ==
  ASSUME NEW w, NEW i, NEW r, r = w[i]
  PROVE  DshMessage(w, i) = MessageWith(i, DshRole(r), DshTimeISO(DshTime(i)), DshText(r), r.injected, FALSE,
                                        DshCallsOf(r), DshResultsOf(r), DshUsed(r))
<1>1. PICK no, none : no = FALSE /\ none = <<>>
  OBVIOUS
<1>2. PICK role : role = DshRole(r)
  OBVIOUS
<1>3. PICK t, a, u, c, s : t = DshText(r) /\ a = r.injected /\ u = DshUsed(r) /\ c = DshCallsOf(r) /\ s = DshResultsOf(r)
  OBVIOUS
<1>4. PICK at : at = DshTimeISO(DshTime(i))
  OBVIOUS
<1>5. PICK m : m = WithAt(MessageWith(i, role, i, no, no, no, none, none, 0), at)
  OBVIOUS
<1>6. m = MessageWith(i, role, at, no, no, no, none, none, 0)
  BY <1>5, AtSet
<1>7. DshMessage(w, i) = [m EXCEPT !.text = t, !.aside = a, !.usage = u, !.calls = c, !.results = s]
  <2>1. m = [Message(i, role) EXCEPT !.at = at]
    BY <1>1, <1>5, Zenon DEF Message, MessageWith, WithAt
  <2> QED  BY <1>2, <1>3, <1>4, <2>1, Zenon DEF DshMessage, DshText, DshUsed, DshCallsOf, DshResultsOf
<1>8. DshMessage(w, i) = WithResults(WithCalls(WithUsage(WithAside(WithText(m, t), a), u), c), s)
  BY <1>7, Zenon DEF WithText, WithAside, WithUsage, WithCalls, WithResults
<1>9. DshMessage(w, i) = MessageWith(i, role, at, t, a, no, c, s, u)
  BY ONLY <1>6, <1>8, TextSet, AsideSet, UsageSet, CallsSet, ResultsSet
<1> QED  BY <1>1, <1>2, <1>3, <1>4, <1>9, Zenon

LEMMA RoleOf ==
  ASSUME NEW m, NEW i, NEW role, NEW at, NEW t, NEW a, NEW e, NEW c, NEW r, NEW u,
         m = MessageWith(i, role, at, t, a, e, c, r, u)
  PROVE  m.row = i /\ m.role = role /\ m.at = at
BY PartsOf

LEMMA DshRoleOf ==
  ASSUME NEW w, NEW i
  PROVE  DshMessage(w, i).role = DshRole(w[i])
<1>1. PICK r : r = w[i]
  OBVIOUS
<1>2. PICK role, at, t, a, e, c, s, u, m :
        /\ role = DshRole(r) /\ at = DshTimeISO(DshTime(i)) /\ t = DshText(r) /\ a = r.injected /\ e = FALSE
        /\ c = DshCallsOf(r) /\ s = DshResultsOf(r) /\ u = DshUsed(r) /\ m = DshMessage(w, i)
  OBVIOUS
<1>3. m = MessageWith(i, role, at, t, a, e, c, s, u)
  BY <1>1, <1>2, DshMessageIs, Zenon
<1>4. m.role = role
  BY ONLY <1>3, RoleOf
<1> QED  BY <1>1, <1>2, <1>4

LEMMA DshCountsAgree ==
  ASSUME NEW w, Len(w) \in Nat
  PROVE  CountedAs(DshCount(w), DshFinal(w).count,
           Cardinality({k \in DOMAIN DshMessages(w) : DshMessages(w)[k].role \in {"user", "assistant"}}))
<1>1. PICK n \in Nat : n = Len(w)
  OBVIOUS
<1>2. PICK S : S = {i \in 1..n : DshShown(w, i)}
  OBVIOUS
<1>3. PICK rows : rows = Ascending(S, n) /\ Kept(S, n, rows)
  BY AscendingLists
<1>4. PICK L \in Nat : L = Len(rows) /\ DOMAIN rows = 1..L
  BY <1>3 DEF Kept
<1>5. PICK all : all = DshMessages(w) /\ all = [k \in 1..L |-> DshMessage(w, rows[k])]
  <2>1. DshMessages(w) = [k \in DOMAIN rows |-> DshMessage(w, rows[k])]
    BY <1>1, <1>2, <1>3, Zenon DEF DshMessages, MessagesOf
  <2> QED  BY <1>4, <2>1
<1>6. \A k \in 1..L : all[k].role = DshRole(w[rows[k]])
  <2> SUFFICES ASSUME NEW k \in 1..L PROVE all[k].role = DshRole(w[rows[k]])
    OBVIOUS
  <2>1. PICK i : i = rows[k]
    OBVIOUS
  <2>2. all[k] = DshMessage(w, i)
    BY <1>5, <2>1
  <2> QED  BY <2>1, <2>2, DshRoleOf
<1>7. PICK P : P = {i \in 1..n : DshRole(w[i]) # "tool"}
  OBVIOUS
<1>8. {k \in DOMAIN all : all[k].role # "tool"} = RowPlaces(rows, P)
  <2>1. DOMAIN all = 1..L
    BY <1>5
  <2>2. \A k \in 1..L : rows[k] \in 1..n
    BY <1>3, <1>4 DEF Kept
  <2> QED  BY <1>4, <1>6, <1>7, <2>1, <2>2 DEF RowPlaces
<1>9. {k \in DOMAIN all : all[k].role \in {"user", "assistant"}} = RowPlaces(rows, P)
  <2>1. \A r : DshRole(r) \in {"user", "assistant"} <=> DshRole(r) # "tool"
    BY DEF DshRole
  <2>2. DOMAIN all = 1..L
    BY <1>5
  <2>3. \A k \in 1..L : all[k].role \in {"user", "assistant"} <=> all[k].role # "tool"
    BY <1>6, <2>1
  <2> QED  BY <1>8, <2>2, <2>3
<1>10. DshCount(w) = Cardinality(Up(S \cap P, n))
  <2>1. {i \in 1..n : DshShown(w, i) /\ DshRole(w[i]) # "tool"} = Up(S \cap P, n)
    BY <1>2, <1>7 DEF Up
  <2> QED  BY <1>1, <2>1, Zenon DEF DshCount
<1>11. Cardinality(RowPlaces(rows, P)) = Cardinality(Up(S \cap P, n))
  BY <1>3, RowPlacesCount
<1>12. DshFinal(w).count = Cardinality({k \in DOMAIN all : all[k].role # "tool"})
  BY <1>5 DEF DshFinal
<1> QED  BY <1>5, <1>8, <1>9, <1>10, <1>11, <1>12 DEF CountedAs

-----------------------------------------------------------------------------
(* Antigravity's steps, and a session of Gemini in two files *)

AgyRows ==
  [type : {"USER_INPUT", "PLANNER_RESPONSE", "RUN_COMMAND"}, text : {"words", ""}, index : Nat, born : Nat,
   done : BOOLEAN]

\* The lines of a transcript of Antigravity are of so many steps, and every line
\* of a step says what kind of step it is; what the user asks is written once.
AgyStepsOf(w, k) == \A n \in Int : (\E i \in 1..Len(w) : w[i].index = n) <=> n \in 1..k
AgyWritten(w) ==
  /\ \A i \in 1..Len(w) : w[i] \in AgyRows
  /\ \E k \in Nat : AgyStepsOf(w, k)
  /\ \A i \in 1..Len(w), j \in 1..Len(w) : w[i].index = w[j].index => w[i].type = w[j].type
  /\ \A i \in 1..Len(w), j \in 1..Len(w) : i < j /\ w[j].type = "USER_INPUT" => w[i].index < w[j].index

LEMMA AgyIndexed == ASSUME NEW r \in AgyRows PROVE r.index \in Int
<1>1. r.index \in Nat
  BY DEF AgyRows
<1> QED  BY <1>1

LEMMA AgyIndexes ==
  ASSUME NEW w, Len(w) \in Nat, AgyWritten(w)
  PROVE  \E k \in Nat : /\ {w[i].index : i \in 1..Len(w)} = 1..k /\ AgyStepsOf(w, k)
                        /\ Cardinality({w[i].index : i \in 1..Len(w)}) = k
<1>1. PICK k \in Nat : AgyStepsOf(w, k)
  BY DEF AgyWritten
<1>2. {w[i].index : i \in 1..Len(w)} = 1..k
  <2>1. \A i \in 1..Len(w) : w[i].index \in 1..k
    <3> SUFFICES ASSUME NEW i \in 1..Len(w) PROVE w[i].index \in 1..k
      OBVIOUS
    <3>1. w[i] \in AgyRows
      BY DEF AgyWritten
    <3>2. w[i].index \in Int
      BY <3>1, AgyIndexed
    <3> QED  BY <1>1, <3>2 DEF AgyStepsOf
  <2>2. \A n \in 1..k : \E i \in 1..Len(w) : w[i].index = n
    BY <1>1 DEF AgyStepsOf
  <2> QED  BY <2>1, <2>2
<1>3. Cardinality(1..k) = k
  <2>1. Cardinality(1..k) = IF 1 > k THEN 0 ELSE k - 1 + 1
    BY FS_Interval
  <2>2. CASE k = 0
    BY <2>1, <2>2
  <2>3. CASE k # 0
    BY <2>1, <2>3
  <2> QED  BY <2>2, <2>3
<1> QED  BY <1>1, <1>2, <1>3

LEMMA AgyLineIs ==
  ASSUME NEW w, Len(w) \in Nat, NEW n, NEW i \in 1..Len(w), w[i].index = n
  PROVE  /\ AgyLine(w, n) \in 1..Len(w) /\ w[AgyLine(w, n)].index = n
         /\ \A j \in 1..Len(w) : w[j].index = n => j <= AgyLine(w, n)
<1> DEFINE T == {j \in 1..Len(w) : w[j].index = n}
<1>1. T \in SUBSET (0..Len(w)) /\ T # {}
  OBVIOUS
<1>2. Max(T) \in T /\ \A y \in T : Max(T) >= y
  <2> HIDE DEF T
  <2> QED  BY <1>1, GreatestOf
<1>3. PICK g \in T : g = Max(T) /\ \A y \in T : g >= y
  BY <1>2
<1>4. AgyLine(w, n) = g
  BY <1>3 DEF AgyLine
<1> QED  BY <1>3, <1>4

\* A step's message by its parts
AgyMessage(s, r) ==
  [Message(s, AgyRole(r)) EXCEPT !.at = r.born, !.text = AgyConversation(r), !.event = ~AgyConversation(r),
     !.usage = IF AgyRole(r) = "assistant" THEN 1 ELSE 0]

LEMMA AgyMessageIs ==
  ASSUME NEW r, NEW s
  PROVE  \E no, none : /\ no = FALSE
                       /\ AgyMessage(s, r) = MessageWith(s, AgyRole(r), r.born, AgyConversation(r), no,
                            ~AgyConversation(r), none, none, SpeaksFor(AgyRole(r) = "assistant"))
<1>1. PICK no, none, role, at, t, e, u :
        /\ no = FALSE /\ none = <<>> /\ role = AgyRole(r) /\ at = r.born /\ t = AgyConversation(r)
        /\ e = ~AgyConversation(r) /\ u = SpeaksFor(AgyRole(r) = "assistant")
  OBVIOUS
<1>2. PICK m : m = Message(s, role)
  OBVIOUS
<1>3. m = MessageWith(s, role, s, no, no, no, none, none, 0)
  BY <1>1, <1>2, Zenon DEF Message, MessageWith
<1>4. PICK x : x = [m EXCEPT !.at = at, !.text = t, !.event = e, !.usage = u]
  OBVIOUS
<1>5. x = WithUsage(WithEvent(WithText(WithAt(m, at), t), e), u)
  BY <1>4, Zenon DEF WithAt, WithText, WithEvent, WithUsage
<1>6. x = MessageWith(s, role, at, t, no, e, none, none, u)
  BY ONLY <1>3, <1>5, AtSet, TextSet, EventSet, UsageSet
<1>7. x = AgyMessage(s, r)
  BY <1>1, <1>2, <1>4, Zenon DEF AgyMessage, SpeaksFor
<1> QED  BY <1>1, <1>6, <1>7, Zenon

LEMMA AgyRoleOf ==
  ASSUME NEW r, NEW s
  PROVE  AgyMessage(s, r).role = AgyRole(r)
<1>1. PICK x, t, e, u : x = AgyMessage(s, r) /\ t = AgyConversation(r) /\ e = ~t /\ u = SpeaksFor(AgyRole(r) = "assistant")
  OBVIOUS
<1>2. PICK no, none : x = MessageWith(s, AgyRole(r), r.born, t, no, e, none, none, u)
  BY <1>1, AgyMessageIs, Zenon
<1>3. x.role = AgyRole(r)
  BY ONLY <1>2, RoleOf
<1> QED  BY <1>1, <1>3

LEMMA AgyCountsAgree ==
  ASSUME NEW w, Len(w) \in Nat, AgyWritten(w)
  PROVE  CountedAs(AgyCount(w), AgyFinal(w).count,
           Cardinality({k \in DOMAIN AgyMessages(w) : AgyMessages(w)[k].role \in {"user", "assistant"}}))
<1>1. PICK k \in Nat : /\ {w[i].index : i \in 1..Len(w)} = 1..k /\ AgyStepsOf(w, k)
                       /\ Cardinality({w[i].index : i \in 1..Len(w)}) = k
  BY AgyIndexes
<1>2. PICK steps : steps = AgySteps(w) /\ steps = [n \in 1..k |-> AgyLine(w, n)]
  BY <1>1, Zenon DEF AgySteps
<1>3. DOMAIN steps = 1..k /\ \A n \in 1..k : steps[n] = AgyLine(w, n)
  BY <1>2
<1>4. \A n \in 1..k : \E i \in 1..Len(w) : w[i].index = n
  BY <1>1 DEF AgyStepsOf
<1>5. \A n \in 1..k : steps[n] \in 1..Len(w) /\ w[steps[n]].index = n
  <2> SUFFICES ASSUME NEW n \in 1..k PROVE steps[n] \in 1..Len(w) /\ w[steps[n]].index = n
    OBVIOUS
  <2>1. PICK i \in 1..Len(w) : w[i].index = n
    BY <1>4
  <2> QED  BY <1>3, <2>1, AgyLineIs
<1>6. \A i \in 1..Len(w), n \in 1..k : w[i].index = n => (AgyConversation(w[i]) <=> AgyConversation(w[steps[n]]))
  <2> SUFFICES ASSUME NEW i \in 1..Len(w), NEW n \in 1..k, w[i].index = n
               PROVE  AgyConversation(w[i]) <=> AgyConversation(w[steps[n]])
    OBVIOUS
  <2>1. w[i].type = w[steps[n]].type
    BY <1>5 DEF AgyWritten
  <2> QED  BY <2>1 DEF AgyConversation, AgyRole
<1>7. PICK C : C = {n \in 1..k : AgyConversation(w[steps[n]])}
  OBVIOUS
<1>8. {w[i].index : i \in {j \in 1..Len(w) : AgyConversation(w[j])}} = C
  <2>1. ASSUME NEW i \in 1..Len(w), AgyConversation(w[i]) PROVE w[i].index \in C
    <3>1. w[i].index \in 1..k
      BY <1>1 DEF AgyWritten, AgyStepsOf
    <3> QED  BY <1>6, <1>7, <2>1, <3>1
  <2>2. ASSUME NEW n \in C PROVE \E i \in 1..Len(w) : AgyConversation(w[i]) /\ w[i].index = n
    BY <1>5, <1>7
  <2> QED  BY <2>1, <2>2
<1>9. AgyCount(w) = Cardinality(C)
  BY <1>8, Zenon DEF AgyCount
<1>10. AgyFinal(w).count = Cardinality(C)
  <2>1. {n \in DOMAIN steps : AgyConversation(w[steps[n]])} = C
    BY <1>3, <1>7
  <2> QED  BY <1>2, <2>1 DEF AgyFinal
<1>11. PICK all : all = AgyMessages(w) /\ DOMAIN all = 1..k /\ \A n \in 1..k : all[n].role = AgyRole(w[steps[n]])
  <2>1. PICK all : all = AgyMessages(w)
    OBVIOUS
  <2>2. all = [n \in DOMAIN steps |-> AgyMessage(steps[n], w[steps[n]])]
    BY <1>2, <2>1, Zenon DEF AgyMessages, AgyMessage
  <2>3. DOMAIN all = 1..k
    BY <1>3, <2>2, Zenon
  <2>4. \A n \in 1..k : all[n].role = AgyRole(w[steps[n]])
    BY <1>3, <2>2, AgyRoleOf, Zenon
  <2> QED  BY <2>1, <2>3, <2>4
<1>12. {n \in DOMAIN all : all[n].role \in {"user", "assistant"}} = C
  BY <1>7, <1>11 DEF AgyConversation
<1> QED  BY <1>9, <1>10, <1>11, <1>12 DEF CountedAs

\* The counts of a session's files, added up as they are met
GeminiSums(w, counted) ==
  LET sum[n \in 0..Len(w)] ==
        IF n = 0 THEN 0 ELSE sum[n - 1] + (IF n \in counted THEN GeminiFileCount(w, n) ELSE 0)
  IN sum

LEMMA GeminiSumSteps ==
  ASSUME NEW w, NEW n \in Nat, n = Len(w), NEW counted
  PROVE  /\ GeminiSums(w, counted) \in [0..n -> Nat]
         /\ GeminiSums(w, counted)[0] = 0
         /\ \A i \in 1..n : GeminiSums(w, counted)[i] =
              GeminiSums(w, counted)[i - 1] + (IF i \in counted THEN GeminiFileCount(w, i) ELSE 0)
<1> DEFINE File(i) == IF i \in counted THEN GeminiFileCount(w, i) ELSE 0
           Next1(x, i) == x + File(i)
           step == [p \in Nat \X (1..n) |-> Next1(p[1], p[2])]
           Def(f) == [i \in 0..n |-> IF i = 0 THEN 0 ELSE f[i - 1] + (IF i \in counted THEN GeminiFileCount(w, i) ELSE 0)]
<1>1. 0 \in Nat
  OBVIOUS
<1>20. \A i \in 1..n : File(i) \in Nat
  <2> SUFFICES ASSUME NEW i \in 1..n PROVE GeminiFileCount(w, i) \in Nat
    OBVIOUS
  <2>1. PICK b : b = Max({e \in GeminiEnds(w) : e < i} \cup {0})
    OBVIOUS
  <2>2. b \in 0..n
    <3>1. {e \in GeminiEnds(w) : e < i} \cup {0} \in SUBSET (0..n)
      BY DEF GeminiEnds
    <3>2. {e \in GeminiEnds(w) : e < i} \cup {0} # {}
      OBVIOUS
    <3>3. PICK T \in SUBSET (0..n) : T # {} /\ T = {e \in GeminiEnds(w) : e < i} \cup {0}
      BY <3>1, <3>2
    <3>4. Max(T) \in T
      BY <3>3, GreatestOf
    <3> QED  BY <2>1, <3>3, <3>4
  <2>3. {j \in b + 1..i : GeminiEntry(w[j])} \in SUBSET (1..n)
    BY <2>2
  <2>4. PICK T \in SUBSET (1..n) : T = {j \in b + 1..i : GeminiEntry(w[j])}
    BY <2>3
  <2>5. IsFiniteSet(T)
    <3>1. IsFiniteSet(1..n)
      BY FS_Interval
    <3> QED  BY <3>1, FS_Subset
  <2>6. Cardinality(T) \in Nat
    BY <2>5, FS_CardinalityType
  <2>7. GeminiFileCount(w, i) = Cardinality(T)
    BY <2>1, <2>4, Zenon DEF GeminiFileCount, GeminiCount
  <2> QED  BY <2>6, <2>7
<1>2. \A x \in Nat, i \in 1..n : Next1(x, i) \in Nat
  <2> HIDE DEF File
  <2> QED  BY <1>20
<1>3. step \in [Nat \X (1..n) -> Nat]
  <2> HIDE DEF Next1
  <2> QED  BY <1>2, Zenon
<1>4. \A x \in Nat, i \in 1..n : step[<<x, i>>] = Next1(x, i)
  <2> HIDE DEF Next1
  <2> QED  OBVIOUS
<1> HIDE DEF step
<1>5. PICK f : f \in [0..n -> Nat] /\ f[0] = 0 /\ \A i \in 1..n : f[i] = step[<<f[i - 1], i>>]
  <2>1. \E f : Made(Nat, 0, step, n, f)
    BY ONLY n \in Nat, <1>1, <1>3, Iterates
  <2> QED  BY <2>1 DEF Made
<1>6. \A i \in 1..n : i - 1 \in 0..n /\ i \in 0..n /\ i # 0
  OBVIOUS
<1>7. \A i \in 1..n : f[i] = Next1(f[i - 1], i)
  <2> HIDE DEF Next1
  <2> QED  BY <1>4, <1>5, <1>6
<1>8. f = Def(f)
  <2>1. ASSUME NEW i \in 0..n
        PROVE  f[i] = IF i = 0 THEN 0 ELSE f[i - 1] + (IF i \in counted THEN GeminiFileCount(w, i) ELSE 0)
    <3>1. CASE i = 0
      BY <1>5, <3>1, Zenon
    <3>2. CASE i # 0
      <4>1. i \in 1..n
        BY <3>2
      <4> QED  BY <1>7, <3>2, <4>1, Zenon
    <3> QED  BY <3>1, <3>2, Zenon
  <2>2. DOMAIN f = 0..n /\ f = [i \in DOMAIN f |-> f[i]]
    BY <1>5
  <2> QED  BY <2>1, <2>2, Zenon
<1>9. GeminiSums(w, counted) = Def(GeminiSums(w, counted))
  BY <1>8, Zenon DEF GeminiSums
<1>10. PICK g : g = GeminiSums(w, counted)
  OBVIOUS
<1>11. g = Def(g)
  BY <1>9, <1>10
<1>12. g[0] = 0 /\ \A i \in 1..n : g[i] = Next1(g[i - 1], i)
  <2>1. ASSUME NEW i \in 0..n
        PROVE  g[i] = IF i = 0 THEN 0 ELSE g[i - 1] + (IF i \in counted THEN GeminiFileCount(w, i) ELSE 0)
    BY <1>11, Zenon
  <2>2. 0 \in 0..n
    OBVIOUS
  <2> QED  BY <1>6, <2>1, <2>2, Zenon
<1> DEFINE Good == {i \in 0..n : g[i] \in Nat}
<1>13. 0 \in Good
  <2>1. 0 \in 0..n
    OBVIOUS
  <2> QED  BY <1>1, <1>12, <2>1
<1>14. ASSUME NEW i \in 1..n, i - 1 \in Good PROVE i \in Good
  <2> HIDE DEF Next1
  <2> QED  BY <1>2, <1>6, <1>12, <1>14
<1>15. \A i \in 0..n : g[i] \in Nat
  <2>1. \A i \in 0..n : i \in Good
    <3> HIDE DEF Good
    <3> QED  BY <1>13, <1>14, UpTo
  <2> QED  BY <2>1
<1>16. g \in [0..n -> Nat]
  BY <1>11, <1>15, Zenon
<1> QED  BY <1>10, <1>12, <1>16, Zenon

\* The files' counts add up to the count of all rows: no row is of two files or of
\* none.
LEMMA GeminiFilesAddUp ==
  ASSUME NEW w, Len(w) \in Nat
  PROVE  GeminiListCount(w, GeminiEnds(w)) = GeminiFinal(w).count
<1>1. PICK n \in Nat : n = Len(w)
  OBVIOUS
<1>2. PICK P : P = {i \in 1..n : GeminiEntry(w[i])}
  OBVIOUS
<1>3. PICK Ends \in SUBSET (0..n) : /\ Ends = GeminiEnds(w) /\ n \in Ends
                                    /\ n > 0 => 0 \notin Ends
  <2>1. PICK Ends : Ends = GeminiEnds(w)
    OBVIOUS
  <2>2. Ends \in SUBSET (0..n) /\ n \in Ends /\ (n > 0 => 0 \notin Ends)
    BY <1>1, <2>1 DEF GeminiEnds
  <2> QED  BY <2>1, <2>2
<1>4. PICK g \in [0..n -> Nat] :
        /\ g = GeminiSums(w, Ends) /\ g[0] = 0
        /\ \A i \in 1..n : g[i] = g[i - 1] + (IF i \in Ends THEN GeminiFileCount(w, i) ELSE 0)
  BY <1>1, GeminiSumSteps
\* b is where the last file ended that ended at i or before.
<1> DEFINE InLast(b, i) == b \in 0..i /\ (b = 0 \/ b \in Ends) /\ \A e \in Ends : e <= i => e <= b
           Good == {i \in 0..n : \E b \in 0..i : InLast(b, i) /\ g[i] = Cardinality(Up(P, b))}
<1>5. 0 \in Good
  <2>1. Up(P, 0) = {}
    BY DEF Up
  <2>2. Cardinality(Up(P, 0)) = 0
    BY <2>1, FS_EmptySet
  <2> QED  BY <1>4, <2>2
<1>6. ASSUME NEW i \in 1..n, i - 1 \in Good PROVE i \in Good
  <2>1. PICK b \in 0..(i - 1) : InLast(b, i - 1) /\ g[i - 1] = Cardinality(Up(P, b))
    BY <1>6
  <2>2. CASE i \notin Ends
    <3>1. g[i] = g[i - 1]
      BY <1>4, <2>2
    <3>2. InLast(b, i)
      <4>1. \A e \in Ends : e <= i => e <= i - 1
        BY <2>2
      <4> QED  BY <2>1, <4>1
    <3> QED  BY <2>1, <3>1, <3>2
  <2>3. CASE i \in Ends
    <3>1. Max({e \in Ends : e < i} \cup {0}) = b
      <4>1. PICK T \in SUBSET (0..n) : T = {e \in Ends : e < i} \cup {0} /\ T # {}
        OBVIOUS
      <4>2. PICK x \in T : x = Max(T) /\ \A y \in T : x >= y
        <5>1. Max(T) \in T /\ \A y \in T : Max(T) >= y
          BY ONLY <4>1, n \in Nat, GreatestOf
        <5> QED  BY <5>1
      <4>3. b \in T /\ \A y \in T : y <= b
        BY <2>1, <4>1
      <4> QED  BY <4>1, <4>2, <4>3
    <3>2. {j \in b + 1..i : GeminiEntry(w[j])} = {j \in b + 1..i : j \in P}
      BY <1>2
    <3>3. GeminiFileCount(w, i) = Cardinality({j \in b + 1..i : j \in P})
      BY <1>3, <3>1, <3>2, Zenon DEF GeminiFileCount, GeminiCount
    <3>4. Cardinality(Up(P, b)) + Cardinality({j \in b + 1..i : j \in P}) = Cardinality(Up(P, i))
      BY <2>1, CountSplits
    <3>5. g[i] = Cardinality(Up(P, i))
      BY <1>4, <2>1, <2>3, <3>3, <3>4
    <3>6. InLast(i, i)
      BY <2>3
    <3> QED  BY <3>5, <3>6
  <2> QED  BY <2>2, <2>3
<1>7. n \in Good
  <2> HIDE DEF Good
  <2>1. \A i \in 0..n : i \in Good
    BY <1>5, <1>6, UpTo
  <2> QED  BY <2>1
<1>8. g[n] = Cardinality(Up(P, n))
  <2>1. PICK b \in 0..n : InLast(b, n) /\ g[n] = Cardinality(Up(P, b))
    BY <1>7
  <2>2. b = n
    BY <1>3, <2>1
  <2> QED  BY <2>1, <2>2
<1>9. GeminiListCount(w, GeminiEnds(w)) = g[n]
  <2>1. Min(GeminiEnds(w)) \in GeminiEnds(w)
    <3>1. PICK T \in SUBSET Nat : T # {} /\ T = GeminiEnds(w)
      BY <1>3
    <3> QED  BY <3>1, SmallestOf
  <2>2. GeminiListCount(w, Ends) = IF Min(GeminiEnds(w)) \notin Ends THEN -1 ELSE GeminiSums(w, Ends)[Len(w)]
    BY Zenon DEF GeminiListCount, GeminiSums
  <2>3. GeminiListCount(w, Ends) = GeminiSums(w, Ends)[Len(w)]
    BY <1>3, <2>1, <2>2, Zenon
  <2> QED  BY <1>1, <1>3, <1>4, <2>3
<1>10. GeminiFinal(w).count = Cardinality(Up(P, n))
  <2>1. {i \in 1..n : GeminiEntry(w[i])} = Up(P, n)
    BY <1>2 DEF Up
  <2> QED  BY <1>1, <2>1 DEF GeminiFinal
<1> QED  BY <1>8, <1>9, <1>10

LEMMA AgyLinesAre ==
  ASSUME NEW w, NEW k \in Nat, NEW row \in AgyMayWrite(w, k), \A i \in 1..Len(w) : w[i] \in AgyRows, Len(w) \in Nat
  PROVE  /\ row \in AgyRows
         /\ \/ row.index = k + 1
            \/ row.type # "USER_INPUT" /\ \E i \in 1..Len(w) : row.index = w[i].index /\ row.type = w[i].type
<1>1. PICK following \in Nat : following = k + 1
  OBVIOUS
<1>2. PICK n \in Nat : n = Len(w) + 1
  OBVIOUS
<1> DEFINE Kinds == {"USER_INPUT", "PLANNER_RESPONSE", "RUN_COMMAND"}
<1>3. \A t \in Kinds, d \in BOOLEAN : AgyStep(t, following, n, d) \in AgyRows /\ AgyStep(t, following, n, d).index = following
  BY DEF AgyRow, AgyRows, AgyStep
<1>4. \A r \in AgyRows, x \in AgyTexts :
        AgyCorrected(r, x) \in AgyRows /\ AgyCorrected(r, x).index = r.index /\ AgyCorrected(r, x).type = r.type
  <2> SUFFICES ASSUME NEW r \in AgyRows, NEW x \in AgyTexts
               PROVE  AgyCorrected(r, x) \in AgyRows /\ AgyCorrected(r, x).index = r.index /\ AgyCorrected(r, x).type = r.type
    OBVIOUS
  <2> QED  BY DEF AgyRows, AgyCorrected, AgyTexts
<1>5. \/ \E t \in Kinds, d \in BOOLEAN : row = AgyStep(t, following, n, d)
      \/ \E i \in 1..Len(w), x \in AgyTexts : row = AgyCorrected(w[i], x) /\ w[i].type # "USER_INPUT"
  <2>1. row \in AgyBegun(following, n) \/ row \in AgyCorrections(w)
    BY <1>1, <1>2, Zenon DEF AgyMayWrite
  <2>2. row \in AgyBegun(following, n) => \E t \in Kinds, d \in BOOLEAN : row = AgyStep(t, following, n, d)
    BY DEF AgyBegun
  <2>3. row \in AgyCorrections(w) => \E i \in 1..Len(w), x \in AgyTexts : row = AgyCorrected(w[i], x) /\ w[i].type # "USER_INPUT"
    BY DEF AgyCorrections
  <2> QED  BY <2>1, <2>2, <2>3
<1>6. CASE \E t \in Kinds, d \in BOOLEAN : row = AgyStep(t, following, n, d)
  BY <1>1, <1>3, <1>6
<1>7. CASE \E i \in 1..Len(w), x \in AgyTexts : row = AgyCorrected(w[i], x) /\ w[i].type # "USER_INPUT"
  <2>1. PICK i \in 1..Len(w), x \in AgyTexts : row = AgyCorrected(w[i], x) /\ w[i].type # "USER_INPUT"
    BY <1>7
  <2> QED  BY <1>4, <2>1
<1> QED  BY <1>5, <1>6, <1>7

\* Another line of a step keeps what kind of step it is; a new step has the next
\* index.
LEMMA AgyStaysWritten ==
  ASSUME NEW w, Len(w) \in Nat, AgyWritten(w), NEW k \in Nat, AgyStepsOf(w, k), NEW row \in AgyMayWrite(w, k),
         NEW v, Len(v) = Len(w) + 1, v[Len(w) + 1] = row, \A i \in 1..Len(w) : v[i] = w[i]
  PROVE  AgyWritten(v)
<1>1. PICK n \in Nat : n = Len(w)
  OBVIOUS
<1>2. /\ \A i \in 1..n : w[i] \in AgyRows /\ w[i].index \in 1..k
      /\ \A i \in 1..n, j \in 1..n : w[i].index = w[j].index => w[i].type = w[j].type
  <2>1. ASSUME NEW i \in 1..n PROVE w[i].index \in 1..k
    <3>1. w[i] \in AgyRows
      BY <1>1 DEF AgyWritten
    <3>2. w[i].index \in Int
      BY <3>1, AgyIndexed
    <3> QED  BY <1>1, <3>2 DEF AgyStepsOf
  <2> QED  BY <1>1, <2>1 DEF AgyWritten
<1>3. /\ row \in AgyRows /\ row.index \in Nat
      /\ \/ row.index = k + 1
         \/ row.type # "USER_INPUT" /\ \E i \in 1..n : row.index = w[i].index /\ row.type = w[i].type
  <2>1. \A i \in 1..Len(w) : w[i] \in AgyRows
    BY <1>1, <1>2
  <2>2. /\ row \in AgyRows
        /\ \/ row.index = k + 1
           \/ row.type # "USER_INPUT" /\ \E i \in 1..Len(w) : row.index = w[i].index /\ row.type = w[i].type
    BY ONLY <2>1, Len(w) \in Nat, k \in Nat, row \in AgyMayWrite(w, k), AgyLinesAre, Zenon
  <2>3. row.index \in Nat
    BY <2>2 DEF AgyRows
  <2> QED  BY <1>1, <2>2, <2>3, Zenon
<1>4. \A i \in 1..n + 1 : i = n + 1 \/ i \in 1..n
  OBVIOUS
<1>5. Len(v) = n + 1 /\ v[n + 1] = row /\ n + 1 \in 1..n + 1 /\ \A i \in 1..n : v[i] = w[i] /\ i \in 1..n + 1
  BY <1>1
<1>6. \A i \in 1..n + 1 : v[i] \in AgyRows
  BY <1>2, <1>3, <1>4, <1>5
<1>7. \E m \in Nat : AgyStepsOf(v, m)
  <2>1. CASE row.index = k + 1
    <3>1. \A x \in Int : x \in 1..k + 1 <=> x \in 1..k \/ x = k + 1
      OBVIOUS
    <3>2. \A x \in Int : (\E i \in 1..n + 1 : v[i].index = x) <=> (\E i \in 1..n : w[i].index = x) \/ x = k + 1
      BY <1>4, <1>5, <2>1
    <3>3. AgyStepsOf(v, k + 1)
      BY <1>1, <1>5, <3>1, <3>2 DEF AgyStepsOf
    <3> QED  BY <3>3
  <2>2. CASE row.index # k + 1
    <3>1. PICK i \in 1..n : row.index = w[i].index
      BY <1>3, <2>2
    <3>2. \A x \in Int : (\E j \in 1..n + 1 : v[j].index = x) <=> (\E j \in 1..n : w[j].index = x)
      BY <1>4, <1>5, <3>1
    <3>3. AgyStepsOf(v, k)
      BY <1>1, <1>5, <3>2 DEF AgyStepsOf
    <3> QED  BY <3>3
  <2> QED  BY <2>1, <2>2
<1>8. \A i \in 1..n, j \in 1..n : v[i].index = v[j].index => v[i].type = v[j].type
  BY <1>2, <1>5
<1>9. \A i \in 1..n : row.index = v[i].index => row.type = v[i].type
  <2> SUFFICES ASSUME NEW i \in 1..n, row.index = w[i].index PROVE row.type = w[i].type
    BY <1>5
  <2>1. row.index # k + 1
    BY <1>2
  <2>2. PICK j \in 1..n : row.index = w[j].index /\ row.type = w[j].type
    BY <1>3, <2>1
  <2> QED  BY <1>2, <2>2
<1>10. \A i \in 1..n + 1, j \in 1..n + 1 : v[i].index = v[j].index => v[i].type = v[j].type
  BY <1>4, <1>5, <1>8, <1>9
<1>11. \A i \in 1..n + 1, j \in 1..n + 1 : i < j /\ v[j].type = "USER_INPUT" => v[i].index < v[j].index
  <2>1. ASSUME NEW i \in 1..n, row.type = "USER_INPUT" PROVE w[i].index < row.index
    BY <1>2, <1>3, <2>1
  <2>2. \A i \in 1..n, j \in 1..n : i < j /\ w[j].type = "USER_INPUT" => w[i].index < w[j].index
    BY <1>1 DEF AgyWritten
  <2> SUFFICES ASSUME NEW i \in 1..n + 1, NEW j \in 1..n + 1, i < j, v[j].type = "USER_INPUT"
               PROVE  v[i].index < v[j].index
    OBVIOUS
  <2>3. i \in 1..n
    OBVIOUS
  <2>4. CASE j \in 1..n
    BY <1>5, <2>2, <2>3, <2>4
  <2>5. CASE j = n + 1
    BY <1>5, <2>1, <2>3, <2>5
  <2> QED  BY <1>4, <2>4, <2>5
<1> QED  BY <1>5, <1>6, <1>7, <1>10, <1>11 DEF AgyWritten

LEMMA AgyWrittenInv == TranscriptsSpec => [](format = "antigravity" => AgyWritten(log))
<1> DEFINE Inv == format = "antigravity" => AgyWritten(log)
<1>1. TranscriptsInit => Inv
  <2> SUFFICES ASSUME TranscriptsInit PROVE AgyWritten(log)
    OBVIOUS
  <2>1. Len(log) = 0 /\ 1..0 = {}
    BY DEF TranscriptsInit
  <2>2. AgyStepsOf(log, 0)
    BY <2>1 DEF AgyStepsOf
  <2> QED  BY <2>1, <2>2 DEF AgyWritten
<1>2. (format \in Formats /\ Written) /\ Inv /\ [TranscriptsNext]_transcriptVars => Inv'
  <2> SUFFICES ASSUME Written, Inv, [TranscriptsNext]_transcriptVars, format' = "antigravity"
               PROVE  AgyWritten(log')
    OBVIOUS
  <2>1. CASE Write
    <3>1. PICK row \in MayWrite : log' = Append(log, row)
      BY <2>1 DEF Write
    <3>2. format = "antigravity" /\ AgyWritten(log)
      BY <2>1 DEF Write
    <3>3. /\ Len(log') = Len(log) + 1 /\ Len(log) \in Nat
          /\ log'[Len(log) + 1] = row /\ \A i \in 1..Len(log) : log'[i] = log[i]
      BY <3>1, AppendKeepsList DEF Written, IsList
    <3>4. PICK k \in Nat : /\ {log[i].index : i \in 1..Len(log)} = 1..k /\ AgyStepsOf(log, k)
                           /\ Cardinality({log[i].index : i \in 1..Len(log)}) = k
      BY <3>2, <3>3, AgyIndexes
    <3>5. row \in AgyMayWrite(log, k)
      <4>1. MayWrite = AgyMayWrite(log, Cardinality({log[i].index : i \in 1..Len(log)}))
        BY <3>2 DEF MayWrite
      <4> QED  BY <3>1, <3>4, <4>1
    <3> QED  BY <3>2, <3>3, <3>4, <3>5, AgyStaysWritten
  <2>2. CASE UNCHANGED transcriptVars
    BY <2>2 DEF transcriptVars
  <2> QED  BY <2>1, <2>2 DEF TranscriptsNext
<1> QED  BY <1>1, <1>2, WrittenInv, PTL DEF TranscriptsSpec

\* The number a list shows, the number of the final result and the messages a
\* reader is shown are one number in every format, whether a file is counted whole
\* or from where an older count ended, and over both files of a session.
THEOREM CountsHold == TranscriptsSpec => []CountsAgree
<1>1. format \in Formats /\ Written /\ (format = "antigravity" => AgyWritten(log)) => CountsAgree
  <2> SUFFICES ASSUME format \in Formats, Written, format = "antigravity" => AgyWritten(log)
               PROVE  CountsAgree
    OBVIOUS
  <2>1. IsList(log) /\ Len(log) \in Nat
    BY DEF Written, IsList
  <2> DEFINE Said == {n \in DOMAIN Messages : Messages[n].role \in {"user", "assistant"}}
             Blank == {i \in 1..Len(log) : ClaudeBlankHook(log[i], sub)}
             Shown == CASE format \in {"antigravity", "dsh"} -> Cardinality(Said)
                        [] format \in {"claude", "claude-sub"} -> Len(Messages) + Cardinality(Blank)
                        [] OTHER -> Len(Messages)
             Resumes == \A n \in 0..Len(log) : GoesOn(Count(SubSeq(log, 1, n)), CountFrom(n), Count(log))
             AddsUp == GeminiListCount(log, GeminiEnds(log)) = Final.count
  <2>2. CASE format \in {"claude", "claude-sub"}
    <3>1. /\ Count(log) = ClaudeCount(log, 0, sub) /\ Final = ClaudeFinal(log, sub)
          /\ Messages = ClaudeMessages(log, sub)
          /\ \A n : Count(SubSeq(log, 1, n)) = ClaudeCount(SubSeq(log, 1, n), 0, sub)
                    /\ CountFrom(n) = ClaudeCount(log, n, sub)
      BY <2>2 DEF Count, CountFrom, Final, Messages
    <3>2. CountedAs(Count(log), Final.count, Shown) /\ Resumes
      BY <2>1, <2>2, <3>1, ClaudeCountsAgree DEF ClaudeBlanks
    <3> QED  BY <2>2, <3>2 DEF CountsAgree, CountedAs, GoesOn
  <2>3. CASE format \in {"codex", "codex-totals"}
    <3>1. /\ Count(log) = CodexCount(log, 0) /\ Final = CodexFinal(log, {})
          /\ Messages = CodexMessages(log)
          /\ \A n : Count(SubSeq(log, 1, n)) = CodexCount(SubSeq(log, 1, n), 0) /\ CountFrom(n) = CodexCount(log, n)
      BY <2>3 DEF Count, CountFrom, Final, Messages
    <3>2. CountedAs(Count(log), Final.count, Shown) /\ Resumes
      BY <2>1, <2>3, <3>1, CodexCountsAgree
    <3> QED  BY <2>3, <3>2 DEF CountsAgree, CountedAs, GoesOn
  <2>4. CASE format = "gemini"
    <3>1. /\ Count(log) = GeminiCount(log, 0, Len(log)) /\ Final = GeminiFinal(log)
          /\ Messages = GeminiMessages(log)
          /\ \A n : Count(SubSeq(log, 1, n)) = GeminiCount(SubSeq(log, 1, n), 0, Len(SubSeq(log, 1, n)))
                    /\ CountFrom(n) = GeminiCount(log, n, Len(log))
      BY <2>4 DEF Count, CountFrom, Final, Messages
    <3>2. CountedAs(Count(log), Final.count, Shown) /\ Resumes
      BY <2>1, <2>4, <3>1, GeminiCountsAgree
    <3>3. AddsUp
      BY <2>1, <3>1, GeminiFilesAddUp
    <3> QED  BY <2>4, <3>2, <3>3 DEF CountsAgree, CountedAs, GoesOn
  <2>5. CASE format = "pi"
    <3>1. /\ Count(log) = PiCount(log, 0) /\ Final = PiFinal(log) /\ Messages = PiMessages(log)
          /\ \A n : Count(SubSeq(log, 1, n)) = PiCount(SubSeq(log, 1, n), 0) /\ CountFrom(n) = PiCount(log, n)
      BY <2>5 DEF Count, CountFrom, Final, Messages
    <3>2. CountedAs(Count(log), Final.count, Shown) /\ Resumes
      BY <2>1, <2>5, <3>1, PiCountsAgree
    <3> QED  BY <2>5, <3>2 DEF CountsAgree, CountedAs, GoesOn
  <2>6. CASE format = "grok"
    <3>1. Count(log) = GrokCount(log) /\ Final = GrokFinal(log) /\ Messages = GrokMessages(log)
      BY <2>6 DEF Count, Final, Messages
    <3>2. CountedAs(Count(log), Final.count, Shown)
      BY <2>6, <3>1, GrokCountsAgree
    <3> QED  BY <2>6, <3>2 DEF CountsAgree, CountedAs, Resumable
  <2>7. CASE format = "antigravity"
    <3>1. Count(log) = AgyCount(log) /\ Final = AgyFinal(log) /\ Messages = AgyMessages(log)
      BY <2>7 DEF Count, Final, Messages
    <3>2. CountedAs(Count(log), Final.count, Shown)
      BY <2>1, <2>7, <3>1, AgyCountsAgree
    <3> QED  BY <2>7, <3>2 DEF CountsAgree, CountedAs, Resumable
  <2>8. CASE format = "dsh"
    <3>1. Count(log) = DshCount(log) /\ Final = DshFinal(log) /\ Messages = DshMessages(log)
      BY <2>8 DEF Count, Final, Messages
    <3>2. CountedAs(Count(log), Final.count, Shown)
      BY <2>1, <2>8, <3>1, DshCountsAgree
    <3> QED  BY <2>8, <3>2 DEF CountsAgree, CountedAs, Resumable
  <2>9. CASE format = "openclaw"
    <3>1. Count(log) = ClawCount(log) /\ Final = ClawFinal(log, LastReplies) /\ Messages = ClawMessages(log)
      BY <2>9 DEF Count, Final, Messages
    <3>2. CountedAs(Count(log), Final.count, Shown)
      BY <2>1, <2>9, <3>1, ClawCountsAgree
    <3> QED  BY <2>9, <3>2 DEF CountsAgree, CountedAs, Resumable
  <2> QED  BY <2>2, <2>3, <2>4, <2>5, <2>6, <2>7, <2>8, <2>9 DEF Formats
<1> QED  BY <1>1, WrittenInv, AgyWrittenInv, PTL

-----------------------------------------------------------------------------
(* The page at a time, and the first and the last of some rows *)

\* Asking for one message, of any role, from the time t on
AsksFrom(q, t) == Asks(q) /\ q.limit = 1 /\ ~q.fromEnd /\ q.role = "" /\ q.at = t

LEMMA OneFrom ==
  ASSUME NEW t
  PROVE  AsksFrom(Query(1, 0, FALSE, "", t), t)
<1>1. PICK no : no = FALSE
  OBVIOUS
<1>2. PICK q : q = Query(1, 0, no, "", t)
  OBVIOUS
<1>3. q.limit = 1 /\ q.offset = 0 /\ q.fromEnd = no /\ q.role = "" /\ q.at = t
  BY <1>2 DEF Query
<1>4. 1 \in Nat \ {0} /\ 0 \in Nat
  OBVIOUS
<1>5. q.fromEnd \in BOOLEAN /\ ~q.fromEnd
  BY <1>1, <1>3, Zenon
<1> QED  BY ONLY <1>1, <1>2, <1>3, <1>4, <1>5, Zenon DEF AsksFrom, Asks

\* The page of one message from the time of message j on is that message.
LEMMA LandsOn ==
  ASSUME NEW M, NEW ms \in Seq(M), NEW j \in 1..Len(ms), NEW t \in Nat \ {0},
         \A k \in 1..Len(ms) : ms[k].at \in Nat \ {0} /\ (k < j => ms[k].at < t),
         ms[j].at = t, NEW q, AsksFrom(q, t)
  PROVE  Len(Window(q, ms)) = 1 /\ Window(q, ms)[1] = ms[j]
<1>2. Asks(q)
  BY DEF AsksFrom
<1>3. PICK g \in Seq(1..Len(ms)) : g = Ascending(Passing(q, ms), Len(ms))
  BY <1>2, ScanHolds
<1>4. Kept(Passing(q, ms), Len(ms), g)
  BY <1>3, AscendingLists
<1>5. PICK n \in Nat : n = Len(g)
  OBVIOUS
<1>6. \A k \in 1..Len(ms) : k \in Passing(q, ms) <=> ms[k].at >= t
  <2> SUFFICES ASSUME NEW k \in 1..Len(ms) PROVE k \in Passing(q, ms) <=> ms[k].at >= t
    OBVIOUS
  <2>1. k \in Passing(q, ms) <=> Passes(q, ms[k])
    BY DEF Passing
  <2>2. PICK a \in Nat \ {0} : a = ms[k].at
    OBVIOUS
  <2>3. q.role \in {"", ms[k].role}
    BY Zenon DEF AsksFrom
  <2>4. Passes(q, ms[k]) <=> a >= t
    BY <2>2, <2>3 DEF Passes, AsksFrom
  <2> QED  BY <2>1, <2>2, <2>4
<1>7. PICK k \in 1..n : g[k] = j
  <2>1. j \in Passing(q, ms)
    BY <1>6
  <2> QED  BY <1>4, <1>5, <2>1 DEF Kept
<1>8. g[1] = j
  <2>1. g[1] \in Passing(q, ms) /\ g[1] \in 1..Len(ms)
    BY <1>4, <1>5, <1>7 DEF Kept
  <2>2. ~(g[1] < j)
    BY <1>6, <2>1
  <2>3. k # 1 => g[1] < g[k]
    BY <1>4, <1>5, <1>7 DEF Kept
  <2> QED  BY <1>7, <2>1, <2>2, <2>3
<1>9. From(q, n) = 0 /\ To(q, n) = 1
  <2>1. Before(q) = 0
    BY DEF Before, AsksFrom
  <2>2. To(q, n) = IF n <= 0 + 1 THEN n ELSE 0 + 1
    BY <2>1 DEF To, AsksFrom
  <2>3. From(q, n) = 0
    BY <2>1 DEF From, AsksFrom
  <2> QED  BY <1>7, <2>2, <2>3
<1>10. Window(q, ms) = [h \in 1..(1 - 0) |-> ms[g[0 + h]]]
  <2>1. Window(q, ms) = Section(q, ms, g)
    BY <1>2, <1>3, WindowIs
  <2> QED  BY <1>5, <1>9, <2>1, Zenon DEF Section
<1>11. PICK f : f = Window(q, ms) /\ f = [h \in 1..1 |-> ms[g[h]]]
  <2>1. [h \in 1..(1 - 0) |-> ms[g[0 + h]]] = [h \in 1..1 |-> ms[g[h]]]
    OBVIOUS
  <2> QED  BY <1>10, <2>1
<1> QED  BY <1>8, <1>11

\* The first place that holds a row of P holds the first such row, and the last
\* place the last.
LEMMA FirstPlace ==
  ASSUME NEW n \in Nat, NEW S, NEW rows, Kept(S, n, rows), NEW P, NEW i \in 1..n, i \in S, i \in P,
         \A h \in 1..n : h \in S /\ h \in P => i <= h
  PROVE  RowPlaces(rows, P) # {} /\ rows[Min(RowPlaces(rows, P))] = i
<1>0. PICK L \in Nat : L = Len(rows)
  BY DEF Kept
<1>1. PICK T : T = RowPlaces(rows, P) /\ T \in SUBSET Nat /\ T \in SUBSET (1..L)
  <2>1. PICK T : T = RowPlaces(rows, P)
    OBVIOUS
  <2>2. T \in SUBSET (1..L)
    BY <1>0, <2>1 DEF RowPlaces
  <2> QED  BY <2>1, <2>2
<1>2. PICK k \in 1..Len(rows) : rows[k] = i
  BY DEF Kept
<1>3. k \in T
  BY <1>1, <1>2 DEF RowPlaces
<1>4. PICK m \in T : m = Min(T) /\ \A y \in T : m <= y
  <2>1. T \in SUBSET Nat /\ T # {}
    BY <1>1, <1>3
  <2>2. Min(T) \in T /\ \A y \in T : Min(T) <= y
    BY ONLY <2>1, SmallestOf
  <2> QED  BY <2>2
<1>5. m \in 1..Len(rows) /\ rows[m] \in P /\ rows[m] \in S /\ rows[m] \in 1..n /\ Len(rows) \in Nat
  BY <1>1 DEF RowPlaces, Kept
<1>6. i <= rows[m]
  BY <1>5
<1>7. m # k => rows[m] < rows[k]
  <2>1. m <= k
    BY <1>3, <1>4
  <2> QED  BY <1>2, <1>5, <2>1 DEF Kept
<1>8. rows[m] = i
  BY <1>2, <1>5, <1>6, <1>7
<1> QED  BY <1>1, <1>3, <1>4, <1>8

LEMMA LastPlace ==
  ASSUME NEW n \in Nat, NEW S, NEW rows, Kept(S, n, rows), NEW P, NEW i \in 1..n, i \in S, i \in P,
         \A h \in 1..n : h \in S /\ h \in P => h <= i
  PROVE  RowPlaces(rows, P) # {} /\ rows[Max(RowPlaces(rows, P))] = i
<1>0. PICK L \in Nat : L = Len(rows)
  BY DEF Kept
<1>1. PICK T : T = RowPlaces(rows, P) /\ T \in SUBSET (0..L) /\ T \in SUBSET (1..L)
  <2>1. PICK T : T = RowPlaces(rows, P)
    OBVIOUS
  <2>2. T \in SUBSET (1..L)
    BY <1>0, <2>1 DEF RowPlaces
  <2> QED  BY <2>1, <2>2
<1>2. PICK k \in 1..L : rows[k] = i
  BY <1>0 DEF Kept
<1>3. k \in T
  BY <1>0, <1>1, <1>2 DEF RowPlaces
<1>4. PICK m \in T : m = Max(T) /\ \A y \in T : m >= y
  <2>1. T \in SUBSET (0..L) /\ T # {}
    BY <1>1, <1>3
  <2>2. Max(T) \in T /\ \A y \in T : Max(T) >= y
    BY ONLY <2>1, <1>0, GreatestOf
  <2> QED  BY <2>2
<1>5. m \in 1..L /\ rows[m] \in P /\ rows[m] \in S /\ rows[m] \in 1..n
  BY <1>0, <1>1 DEF RowPlaces, Kept
<1>6. rows[m] <= i
  BY <1>5
<1>7. m # k => rows[k] < rows[m]
  <2>1. k <= m
    BY <1>3, <1>4
  <2> QED  BY <1>0, <1>2, <1>5, <2>1 DEF Kept
<1>8. rows[m] = i
  BY <1>2, <1>5, <1>6, <1>7
<1> QED  BY <1>1, <1>3, <1>4, <1>8

-----------------------------------------------------------------------------
(* What the messages of each format say of their rows *)

ClaudeMessage(w, i, side) ==
  CASE w[i].type = "system" -> [Message(i, "system") EXCEPT !.event = TRUE]
    [] w[i].type = "attachment" -> [Message(i, "user") EXCEPT !.text = TRUE, !.aside = TRUE]
    [] OTHER -> [ClaudeParts(w, i, side) EXCEPT !.usage = IF w[i].type = "assistant" THEN 1 ELSE 0]

ClaudePrompts(r) == r.type = "user" /\ r.id = 0 /\ r.text \in {"words", "plumbing"}

LEMMA ClaudeSays ==
  ASSUME NEW w, NEW i, NEW side
  PROVE  Says(ClaudeMessage(w, i, side), i, i, SpeaksFor(w[i].type = "assistant"),
              w[i].type = "assistant", ClaudePrompts(w[i]))
<1>1. PICK r : r = w[i]
  OBVIOUS
<1>2. PICK no, yes, none, u, m :
        /\ no = FALSE /\ yes = TRUE /\ none = <<>> /\ u = SpeaksFor(r.type = "assistant") /\ m = ClaudeMessage(w, i, side)
  OBVIOUS
<1> DEFINE new(role) == MessageWith(i, role, i, no, no, no, none, none, 0)
<1> SUFFICES Says(m, i, i, u, r.type = "assistant", ClaudePrompts(r))
  BY <1>1, <1>2, Zenon
<1>3. \A role : Message(i, role) = new(role)
  BY <1>2, Zenon DEF Message, MessageWith
<1>4. CASE r.type = "system"
  <2>1. m = WithEvent(new("system"), yes)
    BY <1>1, <1>2, <1>3, <1>4, Zenon DEF ClaudeMessage, WithEvent
  <2>2. m = MessageWith(i, "system", i, no, no, yes, none, none, 0)
    BY <2>1, EventSet
  <2>3. u = 0
    BY <1>2, <1>4 DEF SpeaksFor
  <2>4. Says(m, i, i, 0, "system" = "assistant", "system" = "user" /\ no /\ ~no)
    BY ONLY <2>2, PartsSay
  <2>5. ~("system" = "assistant") /\ ~("system" = "user") /\ ~(r.type = "assistant") /\ ~ClaudePrompts(r)
    BY <1>4 DEF ClaudePrompts
  <2> QED  BY ONLY <2>3, <2>4, <2>5, SaysAlike, Zenon
<1>5. CASE r.type = "attachment"
  <2>1. m = [new("user") EXCEPT !.text = yes, !.aside = yes]
    BY <1>1, <1>2, <1>3, <1>5, Zenon DEF ClaudeMessage
  <2>2. m = WithAside(WithText(new("user"), yes), yes)
    <3>1. PICK x : x = new("user")
      OBVIOUS
    <3>2. [x EXCEPT !.text = yes, !.aside = yes] = WithAside(WithText(x, yes), yes)
      BY Zenon DEF WithText, WithAside
    <3> QED  BY <2>1, <3>1, <3>2, Zenon
  <2>3. m = MessageWith(i, "user", i, yes, yes, no, none, none, 0)
    BY <2>2, TextSet, AsideSet
  <2>4. u = 0
    BY <1>2, <1>5 DEF SpeaksFor
  <2>5. Says(m, i, i, 0, "user" = "assistant", "user" = "user" /\ yes /\ ~yes)
    BY ONLY <2>3, PartsSay
  <2>6. ~("user" = "assistant") /\ ~(r.type = "assistant") /\ ~ClaudePrompts(r)
    BY <1>5 DEF ClaudePrompts
  <2> QED  BY ONLY <2>4, <2>5, <2>6, SaysAlike, Zenon
<1>6. CASE r.type # "system" /\ r.type # "attachment"
  <2>1. PICK x : x = ClaudeParts(w, i, side)
    OBVIOUS
  <2>2. m = WithUsage(x, u)
    BY <1>1, <1>2, <1>6, <2>1, Zenon DEF ClaudeMessage, SpeaksFor, WithUsage
  <2>3. CASE r.id = 0
    <3>1. PICK t, e : t = (r.text \in {"words", "plumbing"}) /\ e = (r.text = "notice")
      OBVIOUS
    <3>2. x = [new(r.type) EXCEPT !.text = t, !.event = e]
      BY <1>1, <1>3, <2>1, <2>3, <3>1, Zenon DEF ClaudeParts
    <3>3. x = WithEvent(WithText(new(r.type), t), e)
      <4>1. PICK y : y = new(r.type)
        OBVIOUS
      <4>2. [y EXCEPT !.text = t, !.event = e] = WithEvent(WithText(y, t), e)
        BY Zenon DEF WithText, WithEvent
      <4> QED  BY <3>2, <4>1, <4>2, Zenon
    <3>4. m = MessageWith(i, r.type, i, t, no, e, none, none, u)
      BY <2>2, <3>3, TextSet, EventSet, UsageSet
    <3>5. Says(m, i, i, u, r.type = "assistant", r.type = "user" /\ t /\ ~no)
      BY ONLY <3>4, PartsSay
    <3>6. r.type = "user" /\ t /\ ~no <=> ClaudePrompts(r)
      <4>1. ~no /\ (t <=> r.text \in {"words", "plumbing"})
        BY ONLY <1>2, <3>1, Zenon
      <4>2. ClaudePrompts(r) <=> r.type = "user" /\ r.text \in {"words", "plumbing"}
        BY ONLY <2>3 DEF ClaudePrompts
      <4> QED  BY ONLY <4>1, <4>2, Zenon
    <3> QED  BY ONLY <3>5, <3>6, SaysAlike, Zenon
  <2>4. CASE r.id # 0 /\ r.type = "assistant"
    <3>1. PICK c : c = <<r.id>>
      OBVIOUS
    <3>2. x = WithCalls(new(r.type), c)
      BY <1>1, <1>3, <2>1, <2>4, <3>1, Zenon DEF ClaudeParts, WithCalls
    <3>3. m = MessageWith(i, r.type, i, no, no, no, c, none, u)
      BY <2>2, <3>2, CallsSet, UsageSet
    <3>4. Says(m, i, i, u, r.type = "assistant", r.type = "user" /\ no /\ ~no)
      BY ONLY <3>3, PartsSay
    <3>5. r.type = "user" /\ no /\ ~no <=> ClaudePrompts(r)
      <4>1. ~ClaudePrompts(r)
        BY ONLY <2>4 DEF ClaudePrompts
      <4> QED  BY ONLY <4>1, Zenon
    <3> QED  BY ONLY <3>4, <3>5, SaysAlike, Zenon
  <2>5. CASE r.id # 0 /\ r.type # "assistant"
    <3>1. PICK s : s = <<Answer(r.id, IF ClaudeNamed(w, i, r.id, side) THEN "tool" ELSE "", r.status)>>
      OBVIOUS
    <3>2. x = WithResults(new(r.type), s)
      BY <1>1, <1>3, <2>1, <2>5, <3>1, Zenon DEF ClaudeParts, WithResults
    <3>3. m = MessageWith(i, r.type, i, no, no, no, none, s, u)
      BY <2>2, <3>2, ResultsSet, UsageSet
    <3>4. Says(m, i, i, u, r.type = "assistant", r.type = "user" /\ no /\ ~no)
      BY ONLY <3>3, PartsSay
    <3>5. r.type = "user" /\ no /\ ~no <=> ClaudePrompts(r)
      <4>1. ~ClaudePrompts(r)
        BY ONLY <2>5 DEF ClaudePrompts
      <4> QED  BY ONLY <4>1, Zenon
    <3> QED  BY ONLY <3>4, <3>5, SaysAlike, Zenon
  <2> QED  BY ONLY <2>3, <2>4, <2>5, Zenon
<1> QED  BY ONLY <1>4, <1>5, <1>6, Zenon

LEMMA CodexSays ==
  ASSUME NEW w, NEW i, NEW stop
  PROVE  Says(CodexUsed(w, i, stop), i, i, CodexUsageOf(w, i, stop), CodexReplies(w[i]), CodexPrompts(w[i]))
<1>1. PICK m, u, r, x : m = CodexMessage(w, i) /\ u = CodexUsageOf(w, i, stop) /\ r = w[i] /\ x = WithUsage(m, u)
  OBVIOUS
<1>2. CodexMade(m, i, r)
  BY <1>1, CodexMessageMade
<1>3. PICK role, t, a, e, c, s :
        /\ m = MessageWith(i, role, i, t, a, e, c, s, 0)
        /\ role = "assistant" <=> CodexReplies(r)
        /\ role = "user" /\ t /\ ~a <=> CodexPrompts(r)
  BY <1>2, Zenon DEF CodexMade
<1>4. x = MessageWith(i, role, i, t, a, e, c, s, u)
  BY <1>1, <1>3, UsageSet
<1>5. Says(x, i, i, u, role = "assistant", role = "user" /\ t /\ ~a)
  BY ONLY <1>4, PartsSay
<1>6. Says(x, i, i, u, CodexReplies(r), CodexPrompts(r))
  BY ONLY <1>3, <1>5, SaysAlike, Zenon
<1> QED  BY ONLY <1>1, <1>6, Zenon DEF CodexUsed

GeminiMessage(w, i) == [GeminiParts(w, i) EXCEPT !.usage = IF w[i].type = "gemini" THEN 1 ELSE 0]

LEMMA GeminiSays ==
  ASSUME NEW w, NEW i
  PROVE  Says(GeminiMessage(w, i), i, i, SpeaksFor(w[i].type = "gemini"), w[i].type = "gemini",
              w[i].type # "gemini" /\ w[i].id = 0)
<1>1. PICK r : r = w[i]
  OBVIOUS
<1>2. PICK no, yes, none, u, role, x, m :
        /\ no = FALSE /\ yes = TRUE /\ none = <<>> /\ u = SpeaksFor(r.type = "gemini")
        /\ role = (IF r.type = "gemini" THEN "assistant" ELSE "user") /\ x = GeminiParts(w, i) /\ m = GeminiMessage(w, i)
  OBVIOUS
<1> SUFFICES Says(m, i, i, u, r.type = "gemini", r.type # "gemini" /\ r.id = 0)
  BY <1>1, <1>2, Zenon
<1> DEFINE new == MessageWith(i, role, i, no, no, no, none, none, 0)
<1>3. Message(i, role) = new
  BY <1>2, Zenon DEF Message, MessageWith
<1>4. m = WithUsage(x, u)
  BY <1>1, <1>2, Zenon DEF GeminiMessage, SpeaksFor, WithUsage
<1>5. /\ role = "assistant" <=> r.type = "gemini"
      /\ role = "user" <=> r.type # "gemini"
  BY <1>2
<1>6. CASE r.id = 0
  <2>1. x = WithText(new, yes)
    BY <1>1, <1>2, <1>3, <1>6, Zenon DEF GeminiParts, WithText
  <2>2. m = MessageWith(i, role, i, yes, no, no, none, none, u)
    BY <1>4, <2>1, TextSet, UsageSet
  <2>3. Says(m, i, i, u, role = "assistant", role = "user" /\ yes /\ ~no)
    BY ONLY <2>2, PartsSay
  <2>4. role = "user" /\ yes /\ ~no <=> r.type # "gemini" /\ r.id = 0
    BY ONLY <1>2, <1>5, <1>6, Zenon
  <2> QED  BY ONLY <1>5, <2>3, <2>4, SaysAlike, Zenon
<1>7. CASE r.id # 0 /\ r.type = "gemini"
  <2>1. PICK c, s : c = <<r.id>> /\ s = IF r.output THEN <<Answer(r.id, "tool", GeminiVerdict(r.status, "ok"))>> ELSE <<>>
    OBVIOUS
  <2>2. x = [new EXCEPT !.calls = c, !.results = s]
    BY <1>1, <1>2, <1>3, <1>7, <2>1, Zenon DEF GeminiParts
  <2>3. x = WithResults(WithCalls(new, c), s)
    <3>1. PICK y : y = new
      OBVIOUS
    <3>2. [y EXCEPT !.calls = c, !.results = s] = WithResults(WithCalls(y, c), s)
      BY Zenon DEF WithCalls, WithResults
    <3> QED  BY <2>2, <3>1, <3>2, Zenon
  <2>4. m = MessageWith(i, role, i, no, no, no, c, s, u)
    BY <1>4, <2>3, CallsSet, ResultsSet, UsageSet
  <2>5. Says(m, i, i, u, role = "assistant", role = "user" /\ no /\ ~no)
    BY ONLY <2>4, PartsSay
  <2>6. role = "user" /\ no /\ ~no <=> r.type # "gemini" /\ r.id = 0
    BY ONLY <1>7, Zenon
  <2> QED  BY ONLY <1>5, <2>5, <2>6, SaysAlike, Zenon
<1>8. CASE r.id # 0 /\ r.type # "gemini"
  <2>1. PICK s : s = IF GeminiAnswered(w, i, r.id) THEN <<>>
                     ELSE <<Answer(r.id, "tool", GeminiVerdict(GeminiStatusOf(w, i, r.id), r.status))>>
    OBVIOUS
  <2>2. x = WithResults(new, s)
    BY <1>1, <1>2, <1>3, <1>8, <2>1, Zenon DEF GeminiParts, WithResults
  <2>4. m = MessageWith(i, role, i, no, no, no, none, s, u)
    BY <1>4, <2>2, ResultsSet, UsageSet
  <2>5. Says(m, i, i, u, role = "assistant", role = "user" /\ no /\ ~no)
    BY ONLY <2>4, PartsSay
  <2>6. role = "user" /\ no /\ ~no <=> r.type # "gemini" /\ r.id = 0
    BY ONLY <1>8, Zenon
  <2> QED  BY ONLY <1>5, <2>5, <2>6, SaysAlike, Zenon
<1> QED  BY ONLY <1>6, <1>7, <1>8, Zenon

\* Pi and OpenClaw store their messages alike.
PiMessage(w, i) == [PiParts(w, i) EXCEPT !.usage = IF w[i].role = "assistant" THEN 1 ELSE 0]
BlockPrompts(r) == r.role = "user" /\ r.id = 0

LEMMA PiSays ==
  ASSUME NEW w, NEW i
  PROVE  Says(PiMessage(w, i), i, i, SpeaksFor(w[i].role = "assistant"), w[i].role = "assistant", BlockPrompts(w[i]))
<1>1. PICK r : r = w[i]
  OBVIOUS
<1>2. PICK no, yes, none, u, x, m :
        /\ no = FALSE /\ yes = TRUE /\ none = <<>> /\ u = SpeaksFor(r.role = "assistant")
        /\ x = PiParts(w, i) /\ m = PiMessage(w, i)
  OBVIOUS
<1> SUFFICES Says(m, i, i, u, r.role = "assistant", BlockPrompts(r))
  BY <1>1, <1>2, Zenon
<1> DEFINE new == MessageWith(i, r.role, i, no, no, no, none, none, 0)
<1>3. [Message(i, r.role) EXCEPT !.at = PiTime(w, i)] = new
  <2>1. Message(i, r.role) = new
    BY <1>2, Zenon DEF Message, MessageWith
  <2>2. [Message(i, r.role) EXCEPT !.at = PiTime(w, i)] = WithAt(new, i)
    BY <2>1, Zenon DEF PiTime, WithAt
  <2> QED  BY <2>2, AtSet
<1>4. m = WithUsage(x, u)
  BY <1>1, <1>2, Zenon DEF PiMessage, SpeaksFor, WithUsage
<1>5. CASE r.role = "toolResult"
  <2>1. PICK s : s = <<Answer(r.id, "tool", IF r.error THEN "error" ELSE "ok")>>
    OBVIOUS
  <2>2. x = WithResults(new, s)
    BY <1>1, <1>2, <1>3, <1>5, <2>1, Zenon DEF PiParts, WithResults
  <2>3. m = MessageWith(i, r.role, i, no, no, no, none, s, u)
    BY <1>4, <2>2, ResultsSet, UsageSet
  <2>4. Says(m, i, i, u, r.role = "assistant", r.role = "user" /\ no /\ ~no)
    BY ONLY <2>3, PartsSay
  <2>5. ~BlockPrompts(r)
    BY ONLY <1>5 DEF BlockPrompts
  <2> QED  BY ONLY <2>4, <2>5, SaysAlike, Zenon
<1>6. CASE r.role # "toolResult" /\ r.id # 0
  <2>1. PICK c : c = <<r.id>>
    OBVIOUS
  <2>2. x = WithCalls(new, c)
    BY <1>1, <1>2, <1>3, <1>6, <2>1, Zenon DEF PiParts, WithCalls
  <2>3. m = MessageWith(i, r.role, i, no, no, no, c, none, u)
    BY <1>4, <2>2, CallsSet, UsageSet
  <2>4. Says(m, i, i, u, r.role = "assistant", r.role = "user" /\ no /\ ~no)
    BY ONLY <2>3, PartsSay
  <2>5. ~BlockPrompts(r)
    BY ONLY <1>6 DEF BlockPrompts
  <2> QED  BY ONLY <2>4, <2>5, SaysAlike, Zenon
<1>7. CASE r.role # "toolResult" /\ r.id = 0
  <2>1. x = WithText(new, yes)
    BY <1>1, <1>2, <1>3, <1>7, Zenon DEF PiParts, WithText
  <2>2. m = MessageWith(i, r.role, i, yes, no, no, none, none, u)
    BY <1>4, <2>1, TextSet, UsageSet
  <2>3. Says(m, i, i, u, r.role = "assistant", r.role = "user" /\ yes /\ ~no)
    BY ONLY <2>2, PartsSay
  <2>4. r.role = "user" /\ yes /\ ~no <=> BlockPrompts(r)
    BY ONLY <1>2, <1>7, Zenon DEF BlockPrompts
  <2> QED  BY ONLY <2>3, <2>4, SaysAlike, Zenon
<1> QED  BY ONLY <1>5, <1>6, <1>7, Zenon

LEMMA ClawSays ==
  ASSUME NEW w, NEW i
  PROVE  Says(ClawParts(w, i), i, i, SpeaksFor(w[i].role = "assistant"), w[i].role = "assistant", BlockPrompts(w[i]))
<1>1. PICK r : r = w[i]
  OBVIOUS
<1>2. PICK no, yes, none, u, m :
        /\ no = FALSE /\ yes = TRUE /\ none = <<>> /\ u = SpeaksFor(r.role = "assistant") /\ m = ClawParts(w, i)
  OBVIOUS
<1> SUFFICES Says(m, i, i, u, r.role = "assistant", BlockPrompts(r))
  BY <1>1, <1>2, Zenon
<1> DEFINE new == MessageWith(i, r.role, i, no, no, no, none, none, u)
<1>3. [Message(i, r.role) EXCEPT !.usage = IF r.role = "assistant" THEN 1 ELSE 0] = new
  <2>1. Message(i, r.role) = MessageWith(i, r.role, i, no, no, no, none, none, 0)
    BY <1>2, Zenon DEF Message, MessageWith
  <2>2. [Message(i, r.role) EXCEPT !.usage = IF r.role = "assistant" THEN 1 ELSE 0]
          = WithUsage(MessageWith(i, r.role, i, no, no, no, none, none, 0), u)
    BY <1>2, <2>1, Zenon DEF SpeaksFor, WithUsage
  <2> QED  BY <2>2, UsageSet
<1>5. CASE r.role = "toolResult"
  <2>1. PICK s : s = <<Answer(r.id, "tool", IF r.error THEN "error" ELSE "ok")>>
    OBVIOUS
  <2>2. m = WithResults(new, s)
    BY <1>1, <1>2, <1>3, <1>5, <2>1, Zenon DEF ClawParts, WithResults
  <2>3. m = MessageWith(i, r.role, i, no, no, no, none, s, u)
    BY <2>2, ResultsSet
  <2>4. Says(m, i, i, u, r.role = "assistant", r.role = "user" /\ no /\ ~no)
    BY ONLY <2>3, PartsSay
  <2>5. ~BlockPrompts(r)
    BY ONLY <1>5 DEF BlockPrompts
  <2> QED  BY ONLY <2>4, <2>5, SaysAlike, Zenon
<1>6. CASE r.role # "toolResult" /\ r.id # 0
  <2>1. PICK c : c = <<r.id>>
    OBVIOUS
  <2>2. m = WithCalls(new, c)
    BY <1>1, <1>2, <1>3, <1>6, <2>1, Zenon DEF ClawParts, WithCalls
  <2>3. m = MessageWith(i, r.role, i, no, no, no, c, none, u)
    BY <2>2, CallsSet
  <2>4. Says(m, i, i, u, r.role = "assistant", r.role = "user" /\ no /\ ~no)
    BY ONLY <2>3, PartsSay
  <2>5. ~BlockPrompts(r)
    BY ONLY <1>6 DEF BlockPrompts
  <2> QED  BY ONLY <2>4, <2>5, SaysAlike, Zenon
<1>7. CASE r.role # "toolResult" /\ r.id = 0
  <2>1. m = WithText(new, yes)
    BY <1>1, <1>2, <1>3, <1>7, Zenon DEF ClawParts, WithText
  <2>2. m = MessageWith(i, r.role, i, yes, no, no, none, none, u)
    BY <2>1, TextSet
  <2>3. Says(m, i, i, u, r.role = "assistant", r.role = "user" /\ yes /\ ~no)
    BY ONLY <2>2, PartsSay
  <2>4. r.role = "user" /\ yes /\ ~no <=> BlockPrompts(r)
    BY ONLY <1>2, <1>7, Zenon DEF BlockPrompts
  <2> QED  BY ONLY <2>3, <2>4, SaysAlike, Zenon
<1> QED  BY ONLY <1>5, <1>6, <1>7, Zenon

DshPrompts(r) == r.type = "user/message" /\ r.text # "" /\ ~r.injected

LEMMA DshSays ==
  ASSUME NEW w, NEW i
  PROVE  Says(DshMessage(w, i), i, DshTimeISO(DshTime(i)), DshUsed(w[i]), DshRole(w[i]) = "assistant", DshPrompts(w[i]))
<1>1. PICK r : r = w[i]
  OBVIOUS
<1>2. PICK role, at, t, a, e, c, s, u, m :
        /\ role = DshRole(r) /\ at = DshTimeISO(DshTime(i)) /\ t = DshText(r) /\ a = r.injected /\ e = FALSE
        /\ c = DshCallsOf(r) /\ s = DshResultsOf(r) /\ u = DshUsed(r) /\ m = DshMessage(w, i)
  OBVIOUS
<1>3. m = MessageWith(i, role, at, t, a, e, c, s, u)
  BY <1>1, <1>2, DshMessageIs, Zenon
<1>4. Says(m, i, at, u, role = "assistant", role = "user" /\ t /\ ~a)
  BY ONLY <1>3, PartsSay
<1>5. DshRole(r) = "user" <=> r.type = "user/message"
  BY DEF DshRole
<1>6. r.type = "user/message" => (DshText(r) <=> r.text # "")
  BY DEF DshText
<1>7. role = "user" /\ t /\ ~a <=> DshPrompts(r)
  BY ONLY <1>2, <1>5, <1>6, Zenon DEF DshPrompts
<1>8. Says(m, i, at, u, role = "assistant", DshPrompts(r))
  BY ONLY <1>4, <1>7, SaysAlike, Zenon
<1> QED  BY ONLY <1>1, <1>2, <1>8, Zenon

LEMMA AgySays ==
  ASSUME NEW r, NEW s
  PROVE  Says(AgyMessage(s, r), s, r.born, SpeaksFor(AgyRole(r) = "assistant"), AgyRole(r) = "assistant",
              r.type = "USER_INPUT")
<1>1. PICK x, role, t, e, u : x = AgyMessage(s, r) /\ role = AgyRole(r) /\ t = AgyConversation(r) /\ e = ~AgyConversation(r)
                              /\ u = SpeaksFor(AgyRole(r) = "assistant")
  OBVIOUS
<1>2. PICK no, none : no = FALSE /\ x = MessageWith(s, role, r.born, t, no, e, none, none, u)
  BY <1>1, AgyMessageIs, Zenon
<1>3. Says(x, s, r.born, u, role = "assistant", role = "user" /\ t /\ ~no)
  BY ONLY <1>2, PartsSay
<1>4. AgyRole(r) = "user" <=> r.type = "USER_INPUT"
  BY DEF AgyRole
<1>5. AgyRole(r) = "user" => AgyConversation(r)
  BY DEF AgyConversation
<1>6. role = "user" /\ t /\ ~no <=> r.type = "USER_INPUT"
  BY ONLY <1>1, <1>2, <1>4, <1>5, Zenon
<1>7. Says(x, s, r.born, u, role = "assistant", r.type = "USER_INPUT")
  BY ONLY <1>3, <1>6, SaysAlike, Zenon
<1> QED  BY ONLY <1>1, <1>7, Zenon

-----------------------------------------------------------------------------
(* The rows of dsh that come again, and the turns of Codex *)

\* Rows of one id say the same: a row that comes again, or that a compaction
\* replaces, is of the kind and the text it was.
DshFields == {"id", "type", "text", "call", "error", "replaces", "injected"}
DshLine(r, n) == r = [k \in DshFields |-> r[k]] /\ r.id = n
DshSame(r, s) ==
  /\ r.type = s.type /\ r.text = s.text /\ r.call = s.call
  /\ (r.injected <=> s.injected) /\ (r.error <=> s.error)
DshWritten(w) ==
  /\ \A i \in 1..Len(w) : \E n \in 1..Len(w) : DshLine(w[i], n)
  /\ \A i \in 1..Len(w), j \in 1..Len(w) : w[i].id = w[j].id => DshSame(w[i], w[j])

LEMMA DshIsReplaced ==
  ASSUME NEW r, NEW n, DshLine(r, n)
  PROVE  DshLine(DshReplaced(r), n) /\ DshSame(DshReplaced(r), r)
<1>1. PICK yes : yes = TRUE
  OBVIOUS
<1>2. PICK x : x = DshReplaced(r) /\ x = [r EXCEPT !.replaces = yes]
  BY <1>1, Zenon DEF DshReplaced
<1>3. DOMAIN r = DshFields
  BY DEF DshLine
<1>4. x = [k \in DshFields |-> IF k = "replaces" THEN yes ELSE r[k]]
  BY <1>2, <1>3
<1>5. x = [k \in DshFields |-> x[k]]
  BY <1>4
<1>6. x.id = r.id /\ x.type = r.type /\ x.text = r.text /\ x.injected = r.injected
      /\ x.call = r.call /\ x.error = r.error
  BY <1>4 DEF DshFields
<1> QED  BY ONLY <1>2, <1>5, <1>6, DshLine(r, n), Zenon DEF DshLine, DshSame

LEMMA DshLinesAre ==
  ASSUME NEW w, Len(w) \in Nat, NEW open, NEW row \in DshMayWrite(w, open),
         \A i \in 1..Len(w) : \E n \in 1..Len(w) : DshLine(w[i], n)
  PROVE  DshLine(row, Len(w) + 1) \/ \E i \in 1..Len(w) : DshLine(row, w[i].id) /\ DshSame(row, w[i])
<1>1. PICK n \in Nat : n = Len(w) + 1
  OBVIOUS
<1> DEFINE Fits(x) == DshLine(x, n)
           A == {DshRow("user/message", n, "words"), DshRow("user/message", n, ""),
                 [DshRow("user/message", n, "words") EXCEPT !.injected = TRUE],
                 DshRow("assistant/message", n, "words"),
                 [DshRow("assistant/message", n, "") EXCEPT !.call = n], DshRow("turn/end", n, "")}
<1>2. \A s, t : Fits(DshRow(s, n, t))
  <2> SUFFICES ASSUME NEW s, NEW t, NEW x, x = DshRow(s, n, t) PROVE DshLine(x, n)
    OBVIOUS
  <2>1. x.id = n /\ DOMAIN x = DshFields
    BY DEF DshRow, DshFields
  <2>2. x = [k \in DOMAIN x |-> x[k]]
    BY DEF DshRow
  <2> QED  BY <2>1, <2>2 DEF DshLine
<1>3. \A x \in A : Fits(x)
  <2>1. \A b : Fits([DshRow("user/message", n, "words") EXCEPT !.injected = b])
    BY DEF DshRow, DshLine, DshFields
  <2>2. Fits([DshRow("assistant/message", n, "") EXCEPT !.call = n])
    BY DEF DshRow, DshLine, DshFields
  <2>3. ASSUME NEW x \in A
        PROVE  \/ \E s, t : x = DshRow(s, n, t)
               \/ x = [DshRow("user/message", n, "words") EXCEPT !.injected = TRUE]
               \/ x = [DshRow("assistant/message", n, "") EXCEPT !.call = n]
    BY Zenon
  <2> HIDE DEF Fits, A
  <2>4. ASSUME NEW x, \E s, t : x = DshRow(s, n, t) PROVE Fits(x)
    BY <1>2, <2>4, Zenon
  <2>5. ASSUME NEW x, x = [DshRow("user/message", n, "words") EXCEPT !.injected = TRUE] PROVE Fits(x)
    BY <2>1, <2>5, Zenon
  <2>6. ASSUME NEW x, x = [DshRow("assistant/message", n, "") EXCEPT !.call = n] PROVE Fits(x)
    BY <2>2, <2>6, Zenon
  <2> QED  BY <2>3, <2>4, <2>5, <2>6, Zenon
<1>4. \A x \in DshResults(n, open) : Fits(x)
  <2>1. \A c, e : Fits(DshResult(n, c, e))
    BY DEF DshRow, DshResult, DshLine, DshFields
  <2> HIDE DEF Fits
  <2> QED  BY <2>1 DEF DshResults
<1>5. \A x \in DshAgain(w) : \E i \in 1..Len(w) : DshLine(x, w[i].id) /\ DshSame(x, w[i])
  <2> SUFFICES ASSUME NEW x \in DshAgain(w) PROVE \E i \in 1..Len(w) : DshLine(x, w[i].id) /\ DshSame(x, w[i])
    OBVIOUS
  <2>1. PICK i \in 1..Len(w) : x = w[i] \/ x = DshReplaced(w[i])
    BY DEF DshAgain
  <2>2. DshLine(w[i], w[i].id)
    BY Zenon DEF DshLine
  <2>3. DshSame(w[i], w[i])
    BY Zenon DEF DshSame
  <2>4. DshLine(x, w[i].id) /\ DshSame(x, w[i])
    BY ONLY <2>1, <2>2, <2>3, DshIsReplaced, Zenon
  <2> QED  BY <2>4
<1>6. (row = DshRow("session", 1, "") /\ n = 1) \/ row \in A \cup DshResults(n, open) \cup DshAgain(w)
  <2>1. CASE w = <<>>
    <3>1. PICK s : s = DshRow("session", 1, "")
      OBVIOUS
    <3>2. DshMayWrite(w, open) = {s}
      BY <2>1, <3>1, Zenon DEF DshMayWrite
    <3>3. row = s
      <4>1. row \in DshMayWrite(w, open)
        OBVIOUS
      <4> QED  BY ONLY <3>2, <4>1, Zenon
    <3>4. n = 1
      BY <1>1, <2>1
    <3> QED  BY ONLY <3>1, <3>3, <3>4, Zenon
  <2>2. CASE w # <<>>
    BY <1>1, <2>2, Zenon DEF DshMayWrite
  <2> QED  BY <2>1, <2>2
<1> HIDE DEF Fits, A
<1>7. Fits(row) \/ \E i \in 1..Len(w) : DshLine(row, w[i].id) /\ DshSame(row, w[i])
  BY <1>2, <1>3, <1>4, <1>5, <1>6, Zenon
<1> QED  BY <1>1, <1>7 DEF Fits

LEMMA DshStaysWritten ==
  ASSUME NEW w, Len(w) \in Nat, DshWritten(w), NEW open, NEW row \in DshMayWrite(w, open),
         NEW v, Len(v) = Len(w) + 1, v[Len(w) + 1] = row, \A i \in 1..Len(w) : v[i] = w[i]
  PROVE  DshWritten(v)
<1>1. PICK n \in Nat : n = Len(w)
  OBVIOUS
<1>2. /\ \A i \in 1..n : \E m \in 1..n : DshLine(w[i], m)
      /\ \A i \in 1..n, j \in 1..n : w[i].id = w[j].id => DshSame(w[i], w[j])
  BY <1>1 DEF DshWritten
<1>3. DshLine(row, n + 1) \/ \E i \in 1..n : DshLine(row, w[i].id) /\ DshSame(row, w[i])
  <2>1. \A i \in 1..Len(w) : \E m \in 1..Len(w) : DshLine(w[i], m)
    BY DEF DshWritten
  <2>2. Len(w) \in Nat /\ row \in DshMayWrite(w, open)
    OBVIOUS
  <2>3. DshLine(row, Len(w) + 1) \/ \E i \in 1..Len(w) : DshLine(row, w[i].id) /\ DshSame(row, w[i])
    BY ONLY <2>1, <2>2, DshLinesAre, Zenon
  <2> QED  BY ONLY <1>1, <2>3, Zenon
<1>4. \A i \in 1..n : w[i].id \in 1..n
  BY <1>2 DEF DshLine
<1>5. Len(v) = n + 1 /\ v[n + 1] = row /\ n + 1 \in 1..n + 1
      /\ \A i \in 1..n : v[i] = w[i] /\ i \in 1..n + 1
  BY <1>1
<1>6. \A i \in 1..n + 1 : i = n + 1 \/ i \in 1..n
  OBVIOUS
<1>7. \A i \in 1..n + 1 : \E m \in 1..n + 1 : DshLine(v[i], m)
  <2>1. \E m \in 1..n + 1 : DshLine(row, m)
    BY <1>3, <1>4, <1>5
  <2> QED  BY <1>2, <1>5, <1>6, <2>1
<1>8. \A i \in 1..n : row.id = w[i].id => DshSame(row, w[i])
  <2> SUFFICES ASSUME NEW i \in 1..n, row.id = w[i].id PROVE DshSame(row, w[i])
    OBVIOUS
  <2>1. row.id # n + 1
    BY <1>4
  <2>2. PICK j \in 1..n : DshLine(row, w[j].id) /\ DshSame(row, w[j])
    BY <1>3, <2>1 DEF DshLine
  <2>3. DshSame(w[j], w[i])
    BY <1>2, <2>2 DEF DshLine
  <2> QED  BY <2>2, <2>3, Zenon DEF DshSame
<1>9. \A r, s : DshSame(r, s) => DshSame(s, r)
  BY Zenon DEF DshSame
<1>10. \A r : DshSame(r, r)
  BY Zenon DEF DshSame
<1>11. \A i \in 1..n + 1, j \in 1..n + 1 : v[i].id = v[j].id => DshSame(v[i], v[j])
  <2> SUFFICES ASSUME NEW i \in 1..n + 1, NEW j \in 1..n + 1, v[i].id = v[j].id PROVE DshSame(v[i], v[j])
    OBVIOUS
  <2>1. CASE i \in 1..n /\ j \in 1..n
    BY <1>2, <1>5, <2>1
  <2>2. CASE i = n + 1 /\ j \in 1..n
    BY <1>5, <1>8, <2>2
  <2>3. CASE i \in 1..n /\ j = n + 1
    BY <1>5, <1>8, <1>9, <2>3
  <2>4. CASE i = n + 1 /\ j = n + 1
    BY <1>10, <2>4
  <2> QED  BY <1>6, <2>1, <2>2, <2>3, <2>4
<1> QED  BY <1>5, <1>7, <1>11 DEF DshWritten

LEMMA DshWrittenInv == TranscriptsSpec => [](format = "dsh" => DshWritten(log))
<1> DEFINE Inv == format = "dsh" => DshWritten(log)
<1>1. TranscriptsInit => Inv
  BY DEF TranscriptsInit, DshWritten
<1>2. (format \in Formats /\ Written) /\ Inv /\ [TranscriptsNext]_transcriptVars => Inv'
  <2> SUFFICES ASSUME Written, Inv, [TranscriptsNext]_transcriptVars, format' = "dsh"
               PROVE  DshWritten(log')
    OBVIOUS
  <2>1. CASE Write
    <3>1. PICK row \in MayWrite : log' = Append(log, row)
      BY <2>1 DEF Write
    <3>2. format = "dsh" /\ DshWritten(log)
      BY <2>1 DEF Write
    <3>3. /\ Len(log') = Len(log) + 1 /\ Len(log) \in Nat
          /\ log'[Len(log) + 1] = row /\ \A i \in 1..Len(log) : log'[i] = log[i]
      BY <3>1, AppendKeepsList DEF Written, IsList
    <3>4. row \in DshMayWrite(log, OpenCalls)
      BY <3>1, <3>2 DEF MayWrite
    <3> QED  BY <3>2, <3>3, <3>4, DshStaysWritten
  <2>2. CASE UNCHANGED transcriptVars
    BY <2>2 DEF transcriptVars
  <2> QED  BY <2>1, <2>2 DEF TranscriptsNext
<1> QED  BY <1>1, <1>2, WrittenInv, PTL DEF TranscriptsSpec

-----------------------------------------------------------------------------
(* What a transcript's messages are, of which rows they are made *)

\* The messages ms are of the rows of S up to n, one each and in order: of the
\* rows of R they are replies, of those of Q prompts, with the times at and the
\* usage u.
Shape(ms, n, rows, S, R, Q, at, u) ==
  /\ Kept(S, n, rows) /\ Len(rows) \in Nat
  /\ ms \in Seq({ms[k] : k \in 1..Len(rows)}) /\ Len(ms) = Len(rows) /\ DOMAIN ms = 1..Len(rows)
  /\ \A k \in 1..Len(rows) : /\ rows[k] \in 1..n
                             /\ Says(ms[k], rows[k], at[rows[k]], u[rows[k]], rows[k] \in R, rows[k] \in Q)

LEMMA ShapeHolds ==
  ASSUME NEW n \in Nat, NEW S, NEW R, NEW Q, NEW at, NEW u, NEW rows, rows = Ascending(S, n), NEW make,
         NEW x, x = [k \in DOMAIN rows |-> make[rows[k]]],
         \A i \in 1..n : Says(make[i], i, at[i], u[i], i \in R, i \in Q)
  PROVE  Shape(x, n, rows, S, R, Q, at, u)
<1>1. Kept(S, n, rows)
  BY AscendingLists
<1>2. PICK L \in Nat : L = Len(rows) /\ DOMAIN rows = 1..L
  BY <1>1 DEF Kept
<1>3. \A k \in 1..L : rows[k] \in 1..n
  BY <1>1, <1>2 DEF Kept
<1>4. \A k \in 1..L : x[k] = make[rows[k]]
  BY <1>2
<1>5. x = [k \in 1..L |-> x[k]]
  BY <1>2
<1>6. x \in Seq({x[k] : k \in 1..L}) /\ Len(x) = L /\ DOMAIN x = 1..L
  BY <1>5, OwnMembers
<1>7. \A k \in 1..L : Says(x[k], rows[k], at[rows[k]], u[rows[k]], rows[k] \in R, rows[k] \in Q)
  BY <1>3, <1>4
<1> QED  BY ONLY <1>1, <1>2, <1>3, <1>6, <1>7, Zenon DEF Shape

\* Rows that are their own time, and that have a usage where they are replies
Self(n) == [i \in 1..n |-> i]
EachUsed(R, n) == [i \in 1..n |-> SpeaksFor(i \in R)]

\* Of a row's own reply and prompt
LEMMA SaysOfSets ==
  ASSUME NEW n, NEW i \in 1..n, NEW R, NEW Q, NEW m, NEW reply, NEW prompt,
         Says(m, i, i, SpeaksFor(reply), reply, prompt), i \in R <=> reply, i \in Q <=> prompt
  PROVE  Says(m, i, Self(n)[i], EachUsed(R, n)[i], i \in R, i \in Q)
<1>1. Self(n)[i] = i /\ EachUsed(R, n)[i] = SpeaksFor(i \in R)
  BY Zenon DEF Self, EachUsed
<1>2. SpeaksFor(i \in R) = SpeaksFor(reply)
  <2>1. CASE reply
    BY ONLY <2>1, i \in R <=> reply, Zenon DEF SpeaksFor
  <2>2. CASE ~reply
    BY ONLY <2>2, i \in R <=> reply, Zenon DEF SpeaksFor
  <2> QED  BY <2>1, <2>2
<1>3. Says(m, i, i, SpeaksFor(reply), i \in R, i \in Q)
  BY ONLY Says(m, i, i, SpeaksFor(reply), reply, prompt), i \in R <=> reply, i \in Q <=> prompt, SaysAlike, Zenon
<1> QED  BY ONLY <1>1, <1>2, <1>3, Zenon

\* The rows a format shows, its replies and its prompts
ClaudeShowns(w, n, side) == {i \in 1..n : ClaudeShown(w[i], side)}
ClaudeReplied(w, n) == {i \in 1..n : w[i].type = "assistant"}
ClaudeAsked(w, n) == {i \in 1..n : ClaudePrompts(w[i])}
CodexShowns(w, n) == {i \in 1..n : CodexShown(w[i])}
CodexReplied(w, n) == {i \in 1..n : CodexReplies(w[i])}
CodexAsked(w, n) == {i \in 1..n : CodexPrompts(w[i])}
GeminiShowns(w, n) == {i \in 1..n : GeminiEntry(w[i])}
GeminiReplied(w, n) == {i \in 1..n : w[i].type = "gemini"}
GeminiAsked(w, n) == {i \in 1..n : w[i].type # "gemini" /\ w[i].id = 0}
BlockShowns(w, n) == {i \in 1..n : w[i].type = "message"}
BlockReplied(w, n) == {i \in 1..n : w[i].role = "assistant"}
BlockAsked(w, n) == {i \in 1..n : BlockPrompts(w[i])}
DshShowns(w, n) == {i \in 1..n : DshShown(w, i)}
DshReplied(w, n) == {i \in 1..n : DshRole(w[i]) = "assistant"}
DshAsked(w, n) == {i \in 1..n : DshPrompts(w[i])}

LEMMA ClaudeShape ==
  ASSUME NEW w, NEW n \in Nat, n = Len(w), NEW side
  PROVE  \E rows : Shape(ClaudeMessages(w, side), n, rows, ClaudeShowns(w, n, side), ClaudeReplied(w, n),
                         ClaudeAsked(w, n), Self(n), EachUsed(ClaudeReplied(w, n), n))
<1>1. PICK S, R, Q : S = ClaudeShowns(w, n, side) /\ R = ClaudeReplied(w, n) /\ Q = ClaudeAsked(w, n)
  OBVIOUS
<1>2. PICK rows : rows = Ascending(S, n)
  OBVIOUS
<1>3. PICK make : make = [i \in 1..n |-> ClaudeMessage(w, i, side)]
  OBVIOUS
<1>4. PICK x : x = ClaudeMessages(w, side)
  OBVIOUS
<1>5. x = [k \in DOMAIN rows |-> ClaudeMessage(w, rows[k], side)]
  BY <1>1, <1>2, <1>4, Zenon DEF ClaudeMessages, MessagesOf, ClaudeMessage, ClaudeShowns
<1>6. x = [k \in DOMAIN rows |-> make[rows[k]]]
  <2>1. \A k \in DOMAIN rows : rows[k] \in 1..n
    BY <1>2, AscendingLists DEF Kept
  <2> QED  BY <1>3, <1>5, <2>1
<1>7. ASSUME NEW i \in 1..n PROVE Says(make[i], i, Self(n)[i], EachUsed(R, n)[i], i \in R, i \in Q)
  <2>1. PICK m : m = ClaudeMessage(w, i, side) /\ make[i] = m
    BY <1>3
  <2>2. Says(m, i, i, SpeaksFor(w[i].type = "assistant"), w[i].type = "assistant", ClaudePrompts(w[i]))
    BY <2>1, ClaudeSays
  <2>3. (i \in R <=> w[i].type = "assistant") /\ (i \in Q <=> ClaudePrompts(w[i]))
    BY <1>1 DEF ClaudeReplied, ClaudeAsked
  <2>4. PICK reply, prompt : reply = (w[i].type = "assistant") /\ prompt = ClaudePrompts(w[i])
    OBVIOUS
  <2>5. Says(m, i, i, SpeaksFor(reply), reply, prompt) /\ (i \in R <=> reply) /\ (i \in Q <=> prompt)
    BY ONLY <2>2, <2>3, <2>4, Zenon
  <2>6. Says(m, i, Self(n)[i], EachUsed(R, n)[i], i \in R, i \in Q)
    BY ONLY i \in 1..n, <2>5, SaysOfSets
  <2> QED  BY <2>1, <2>6
<1>8. Shape(x, n, rows, S, R, Q, Self(n), EachUsed(R, n))
  BY ONLY n \in Nat, <1>2, <1>6, <1>7, ShapeHolds
<1> QED  BY ONLY <1>1, <1>4, <1>8, Zenon

LEMMA GeminiShape ==
  ASSUME NEW w, NEW n \in Nat, n = Len(w)
  PROVE  \E rows : Shape(GeminiMessages(w), n, rows, GeminiShowns(w, n), GeminiReplied(w, n),
                         GeminiAsked(w, n), Self(n), EachUsed(GeminiReplied(w, n), n))
<1>1. PICK S, R, Q : S = GeminiShowns(w, n) /\ R = GeminiReplied(w, n) /\ Q = GeminiAsked(w, n)
  OBVIOUS
<1>2. PICK rows : rows = Ascending(S, n)
  OBVIOUS
<1>3. PICK make : make = [i \in 1..n |-> GeminiMessage(w, i)]
  OBVIOUS
<1>4. PICK x : x = GeminiMessages(w)
  OBVIOUS
<1>5. x = [k \in DOMAIN rows |-> GeminiMessage(w, rows[k])]
  BY <1>1, <1>2, <1>4, Zenon DEF GeminiMessages, MessagesOf, GeminiMessage, GeminiShowns
<1>6. x = [k \in DOMAIN rows |-> make[rows[k]]]
  <2>1. \A k \in DOMAIN rows : rows[k] \in 1..n
    BY <1>2, AscendingLists DEF Kept
  <2> QED  BY <1>3, <1>5, <2>1
<1>7. ASSUME NEW i \in 1..n PROVE Says(make[i], i, Self(n)[i], EachUsed(R, n)[i], i \in R, i \in Q)
  <2>1. PICK m : m = GeminiMessage(w, i) /\ make[i] = m
    BY <1>3
  <2>2. Says(m, i, i, SpeaksFor(w[i].type = "gemini"), w[i].type = "gemini", (w[i].type # "gemini" /\ w[i].id = 0))
    BY <2>1, GeminiSays
  <2>3. (i \in R <=> w[i].type = "gemini") /\ (i \in Q <=> (w[i].type # "gemini" /\ w[i].id = 0))
    BY <1>1 DEF GeminiReplied, GeminiAsked
  <2>4. PICK reply, prompt : reply = (w[i].type = "gemini") /\ prompt = (w[i].type # "gemini" /\ w[i].id = 0)
    OBVIOUS
  <2>5. Says(m, i, i, SpeaksFor(reply), reply, prompt) /\ (i \in R <=> reply) /\ (i \in Q <=> prompt)
    BY ONLY <2>2, <2>3, <2>4, Zenon
  <2>6. Says(m, i, Self(n)[i], EachUsed(R, n)[i], i \in R, i \in Q)
    BY ONLY i \in 1..n, <2>5, SaysOfSets
  <2> QED  BY <2>1, <2>6
<1>8. Shape(x, n, rows, S, R, Q, Self(n), EachUsed(R, n))
  BY ONLY n \in Nat, <1>2, <1>6, <1>7, ShapeHolds
<1> QED  BY ONLY <1>1, <1>4, <1>8, Zenon

LEMMA PiShape ==
  ASSUME NEW w, NEW n \in Nat, n = Len(w)
  PROVE  \E rows : Shape(PiMessages(w), n, rows, BlockShowns(w, n), BlockReplied(w, n),
                         BlockAsked(w, n), Self(n), EachUsed(BlockReplied(w, n), n))
<1>1. PICK S, R, Q : S = BlockShowns(w, n) /\ R = BlockReplied(w, n) /\ Q = BlockAsked(w, n)
  OBVIOUS
<1>2. PICK rows : rows = Ascending(S, n)
  OBVIOUS
<1>3. PICK make : make = [i \in 1..n |-> PiMessage(w, i)]
  OBVIOUS
<1>4. PICK x : x = PiMessages(w)
  OBVIOUS
<1>5. x = [k \in DOMAIN rows |-> PiMessage(w, rows[k])]
  BY <1>1, <1>2, <1>4, Zenon DEF PiMessages, MessagesOf, PiMessage, BlockShowns
<1>6. x = [k \in DOMAIN rows |-> make[rows[k]]]
  <2>1. \A k \in DOMAIN rows : rows[k] \in 1..n
    BY <1>2, AscendingLists DEF Kept
  <2> QED  BY <1>3, <1>5, <2>1
<1>7. ASSUME NEW i \in 1..n PROVE Says(make[i], i, Self(n)[i], EachUsed(R, n)[i], i \in R, i \in Q)
  <2>1. PICK m : m = PiMessage(w, i) /\ make[i] = m
    BY <1>3
  <2>2. Says(m, i, i, SpeaksFor(w[i].role = "assistant"), w[i].role = "assistant", BlockPrompts(w[i]))
    BY <2>1, PiSays
  <2>3. (i \in R <=> w[i].role = "assistant") /\ (i \in Q <=> BlockPrompts(w[i]))
    BY <1>1 DEF BlockReplied, BlockAsked
  <2>4. PICK reply, prompt : reply = (w[i].role = "assistant") /\ prompt = BlockPrompts(w[i])
    OBVIOUS
  <2>5. Says(m, i, i, SpeaksFor(reply), reply, prompt) /\ (i \in R <=> reply) /\ (i \in Q <=> prompt)
    BY ONLY <2>2, <2>3, <2>4, Zenon
  <2>6. Says(m, i, Self(n)[i], EachUsed(R, n)[i], i \in R, i \in Q)
    BY ONLY i \in 1..n, <2>5, SaysOfSets
  <2> QED  BY <2>1, <2>6
<1>8. Shape(x, n, rows, S, R, Q, Self(n), EachUsed(R, n))
  BY ONLY n \in Nat, <1>2, <1>6, <1>7, ShapeHolds
<1> QED  BY ONLY <1>1, <1>4, <1>8, Zenon

LEMMA ClawShape ==
  ASSUME NEW w, NEW n \in Nat, n = Len(w)
  PROVE  \E rows : Shape(ClawMessages(w), n, rows, BlockShowns(w, n), BlockReplied(w, n),
                         BlockAsked(w, n), Self(n), EachUsed(BlockReplied(w, n), n))
<1>1. PICK S, R, Q : S = BlockShowns(w, n) /\ R = BlockReplied(w, n) /\ Q = BlockAsked(w, n)
  OBVIOUS
<1>2. PICK rows : rows = Ascending(S, n)
  OBVIOUS
<1>3. PICK make : make = [i \in 1..n |-> ClawParts(w, i)]
  OBVIOUS
<1>4. PICK x : x = ClawMessages(w)
  OBVIOUS
<1>5. x = [k \in DOMAIN rows |-> ClawParts(w, rows[k])]
  BY <1>1, <1>2, <1>4, Zenon DEF ClawMessages, MessagesOf, BlockShowns
<1>6. x = [k \in DOMAIN rows |-> make[rows[k]]]
  <2>1. \A k \in DOMAIN rows : rows[k] \in 1..n
    BY <1>2, AscendingLists DEF Kept
  <2> QED  BY <1>3, <1>5, <2>1
<1>7. ASSUME NEW i \in 1..n PROVE Says(make[i], i, Self(n)[i], EachUsed(R, n)[i], i \in R, i \in Q)
  <2>1. PICK m : m = ClawParts(w, i) /\ make[i] = m
    BY <1>3
  <2>2. Says(m, i, i, SpeaksFor(w[i].role = "assistant"), w[i].role = "assistant", BlockPrompts(w[i]))
    BY <2>1, ClawSays
  <2>3. (i \in R <=> w[i].role = "assistant") /\ (i \in Q <=> BlockPrompts(w[i]))
    BY <1>1 DEF BlockReplied, BlockAsked
  <2>4. PICK reply, prompt : reply = (w[i].role = "assistant") /\ prompt = BlockPrompts(w[i])
    OBVIOUS
  <2>5. Says(m, i, i, SpeaksFor(reply), reply, prompt) /\ (i \in R <=> reply) /\ (i \in Q <=> prompt)
    BY ONLY <2>2, <2>3, <2>4, Zenon
  <2>6. Says(m, i, Self(n)[i], EachUsed(R, n)[i], i \in R, i \in Q)
    BY ONLY i \in 1..n, <2>5, SaysOfSets
  <2> QED  BY <2>1, <2>6
<1>8. Shape(x, n, rows, S, R, Q, Self(n), EachUsed(R, n))
  BY ONLY n \in Nat, <1>2, <1>6, <1>7, ShapeHolds
<1> QED  BY ONLY <1>1, <1>4, <1>8, Zenon

\* The usage of Codex's messages, and the times and the usage of dsh's
CodexUsages(w, n) == [i \in 1..n |-> CodexUsageOf(w, i, n)]
DshTimes(n) == [i \in 1..n |-> DshTimeISO(DshTime(i))]
DshUsages(w, n) == [i \in 1..n |-> DshUsed(w[i])]

LEMMA CodexShape ==
  ASSUME NEW w, NEW n \in Nat, n = Len(w)
  PROVE  \E rows : Shape(CodexMessages(w), n, rows, CodexShowns(w, n), CodexReplied(w, n),
                         CodexAsked(w, n), Self(n), CodexUsages(w, n))
<1>1. PICK S, R, Q : S = CodexShowns(w, n) /\ R = CodexReplied(w, n) /\ Q = CodexAsked(w, n)
  OBVIOUS
<1>2. PICK rows : rows = Ascending(S, n)
  OBVIOUS
<1>3. PICK make : make = [i \in 1..n |-> CodexUsed(w, i, n)]
  OBVIOUS
<1>4. PICK x : x = CodexMessages(w)
  OBVIOUS
<1>5. x = [k \in DOMAIN rows |-> CodexUsed(w, rows[k], n)]
  BY <1>1, <1>2, <1>4, Zenon DEF CodexMessages, MessagesOf, CodexUsed, WithUsage, CodexShowns
<1>6. x = [k \in DOMAIN rows |-> make[rows[k]]]
  <2>1. \A k \in DOMAIN rows : rows[k] \in 1..n
    BY <1>2, AscendingLists DEF Kept
  <2> QED  BY <1>3, <1>5, <2>1
<1>7. ASSUME NEW i \in 1..n PROVE Says(make[i], i, Self(n)[i], CodexUsages(w, n)[i], i \in R, i \in Q)
  <2>1. PICK m : m = CodexUsed(w, i, n) /\ make[i] = m
    BY <1>3
  <2>2. PICK reply, prompt : reply = (CodexReplies(w[i])) /\ prompt = CodexPrompts(w[i])
    OBVIOUS
  <2>3. Says(m, i, i, CodexUsageOf(w, i, n), reply, prompt)
    BY ONLY <2>1, <2>2, CodexSays, Zenon
  <2>4. (i \in R <=> reply) /\ (i \in Q <=> prompt)
    BY <1>1, <2>2 DEF CodexReplied, CodexAsked
  <2>5. Self(n)[i] = i /\ CodexUsages(w, n)[i] = CodexUsageOf(w, i, n)
    BY ONLY i \in 1..n, Zenon DEF Self, CodexUsages
  <2>6. Says(m, i, i, CodexUsageOf(w, i, n), i \in R, i \in Q)
    BY ONLY <2>3, <2>4, Zenon DEF Says
  <2> QED  BY ONLY <2>1, <2>5, <2>6, Zenon
<1>8. Shape(x, n, rows, S, R, Q, Self(n), CodexUsages(w, n))
  BY ONLY n \in Nat, <1>2, <1>6, <1>7, ShapeHolds
<1> QED  BY ONLY <1>1, <1>4, <1>8, Zenon

LEMMA DshShape ==
  ASSUME NEW w, NEW n \in Nat, n = Len(w)
  PROVE  \E rows : Shape(DshMessages(w), n, rows, DshShowns(w, n), DshReplied(w, n),
                         DshAsked(w, n), DshTimes(n), DshUsages(w, n))
<1>1. PICK S, R, Q : S = DshShowns(w, n) /\ R = DshReplied(w, n) /\ Q = DshAsked(w, n)
  OBVIOUS
<1>2. PICK rows : rows = Ascending(S, n)
  OBVIOUS
<1>3. PICK make : make = [i \in 1..n |-> DshMessage(w, i)]
  OBVIOUS
<1>4. PICK x : x = DshMessages(w)
  OBVIOUS
<1>5. x = [k \in DOMAIN rows |-> DshMessage(w, rows[k])]
  BY <1>1, <1>2, <1>4, Zenon DEF DshMessages, MessagesOf, DshShowns
<1>6. x = [k \in DOMAIN rows |-> make[rows[k]]]
  <2>1. \A k \in DOMAIN rows : rows[k] \in 1..n
    BY <1>2, AscendingLists DEF Kept
  <2> QED  BY <1>3, <1>5, <2>1
<1>7. ASSUME NEW i \in 1..n PROVE Says(make[i], i, DshTimes(n)[i], DshUsages(w, n)[i], i \in R, i \in Q)
  <2>1. PICK m : m = DshMessage(w, i) /\ make[i] = m
    BY <1>3
  <2>2. PICK reply, prompt : reply = (DshRole(w[i]) = "assistant") /\ prompt = DshPrompts(w[i])
    OBVIOUS
  <2>3. Says(m, i, DshTimeISO(DshTime(i)), DshUsed(w[i]), reply, prompt)
    BY ONLY <2>1, <2>2, DshSays, Zenon
  <2>4. (i \in R <=> reply) /\ (i \in Q <=> prompt)
    BY <1>1, <2>2 DEF DshReplied, DshAsked
  <2>5. DshTimes(n)[i] = DshTimeISO(DshTime(i)) /\ DshUsages(w, n)[i] = DshUsed(w[i])
    BY ONLY i \in 1..n, Zenon DEF DshTimes, DshUsages
  <2>6. Says(m, i, DshTimeISO(DshTime(i)), DshUsed(w[i]), i \in R, i \in Q)
    BY ONLY <2>3, <2>4, Zenon DEF Says
  <2> QED  BY ONLY <2>1, <2>5, <2>6, Zenon
<1>8. Shape(x, n, rows, S, R, Q, DshTimes(n), DshUsages(w, n))
  BY ONLY n \in Nat, <1>2, <1>6, <1>7, ShapeHolds
<1> QED  BY ONLY <1>1, <1>4, <1>8, Zenon

-----------------------------------------------------------------------------
(* What is quoted of a transcript is shown *)

LEMMA ShapeLands ==
  ASSUME NEW n \in Nat, NEW ms, NEW rows, NEW S, NEW R, NEW Q, NEW u, Shape(ms, n, rows, S, R, Q, Self(n), u),
         NEW k \in DOMAIN ms, NEW q, AsksFrom(q, ms[k].row)
  PROVE  ms[k].row \in S \cap 1..n /\ Len(Window(q, ms)) = 1 /\ Window(q, ms)[1].row = ms[k].row
<1>1. PICK L \in Nat : L = Len(rows)
  BY DEF Shape
<1>2. ms \in Seq({ms[l] : l \in 1..L}) /\ Len(ms) = L /\ k \in 1..L
  BY <1>1 DEF Shape
<1>3. \A l \in 1..L : rows[l] \in 1..n /\ rows[l] \in S /\ (\A h \in 1..L : l < h => rows[l] < rows[h])
  BY <1>1 DEF Shape, Kept
<1>4. \A l \in 1..L : ms[l].row = rows[l] /\ ms[l].at = rows[l]
  <2> SUFFICES ASSUME NEW l \in 1..L PROVE ms[l].row = rows[l] /\ ms[l].at = rows[l]
    OBVIOUS
  <2>1. Says(ms[l], rows[l], Self(n)[rows[l]], u[rows[l]], rows[l] \in R, rows[l] \in Q)
    BY <1>1, Zenon DEF Shape
  <2>2. Self(n)[rows[l]] = rows[l]
    BY <1>3 DEF Self
  <2> QED  BY ONLY <2>1, <2>2, Zenon DEF Says
<1>5. PICK t \in Nat \ {0} : t = ms[k].row /\ t = rows[k] /\ t = ms[k].at
  BY <1>2, <1>3, <1>4
<1>6. \A l \in 1..L : ms[l].at \in Nat \ {0} /\ (l < k => ms[l].at < t)
  <2> SUFFICES ASSUME NEW l \in 1..L PROVE ms[l].at \in Nat \ {0} /\ (l < k => ms[l].at < t)
    OBVIOUS
  <2>1. PICK a \in 1..n : a = rows[l] /\ a = ms[l].at
    BY <1>3, <1>4
  <2>2. l < k => a < t
    BY <1>2, <1>3, <1>5, <2>1
  <2> QED  BY <2>1, <2>2
<1>7. Len(Window(q, ms)) = 1 /\ Window(q, ms)[1] = ms[k]
  <2>1. AsksFrom(q, t)
    BY <1>5
  <2>2. PICK M : ms \in Seq(M)
    BY <1>2
  <2>3. k \in 1..Len(ms) /\ \A l \in 1..Len(ms) : ms[l].at \in Nat \ {0} /\ (l < k => ms[l].at < t)
    BY <1>2, <1>6
  <2>4. PICK j \in 1..Len(ms) : j = k /\ ms[j].at = t
    BY <1>5, <2>3
  <2>5. \A l \in 1..Len(ms) : ms[l].at \in Nat \ {0} /\ (l < j => ms[l].at < t)
    BY <2>3, <2>4
  <2> QED  BY ONLY t \in Nat \ {0}, j \in 1..Len(ms), <2>1, <2>2, <2>4, <2>5, LandsOn
<1> QED  BY <1>2, <1>3, <1>5, <1>7

Landed(page, i) == page # <<>> /\ page[1].row = i

LEMMA OneLands ==
  ASSUME NEW x, NEW i, Len(x) = 1, x[1].row = i
  PROVE  Landed(x, i)
<1>1. x # <<>>
  OBVIOUS
<1> QED  BY <1>1 DEF Landed

\* A page from the time of a row that has a message begins with its message.
LEMMA PageLands ==
  ASSUME NEW n \in Nat, NEW ms, NEW rows, NEW S, NEW R, NEW Q, NEW u, Shape(ms, n, rows, S, R, Q, Self(n), u),
         NEW i, \E k \in DOMAIN ms : ms[k].row = i, NEW q, AsksFrom(q, i)
  PROVE  i \in S /\ Landed(PageOf(q, ms), i)
<1>1. PICK k \in DOMAIN ms : ms[k].row = i
  OBVIOUS
<1>2. i \in S /\ Len(Window(q, ms)) = 1 /\ Window(q, ms)[1].row = i
  BY <1>1, ShapeLands
<1>3. PICK x : x = Window(q, ms)
  OBVIOUS
<1>4. PageOf(q, ms) = x
  <2>1. PICK M : ms \in Seq(M)
    BY DEF Shape
  <2>2. Asks(q)
    BY DEF AsksFrom
  <2> QED  BY ONLY <1>3, <2>1, <2>2, PageIsWindow
<1>5. Landed(x, i)
  BY <1>2, <1>3, OneLands
<1> QED  BY <1>2, <1>4, <1>5

LEMMA CodexUsedRow ==
  ASSUME NEW w, NEW i, NEW stop
  PROVE  CodexUsed(w, i, stop).row = i
<1>1. PICK m, u, b, c : m = CodexUsed(w, i, stop) /\ u = CodexUsageOf(w, i, stop) /\ b = CodexReplies(w[i]) /\ c = CodexPrompts(w[i])
  OBVIOUS
<1>2. Says(m, i, i, u, b, c)
  BY ONLY <1>1, CodexSays, Zenon
<1>3. m.row = i
  BY ONLY <1>2, Zenon DEF Says
<1> QED  BY <1>1, <1>3

LEMMA CodexPageLands ==
  ASSUME NEW w, NEW n \in Nat, n = Len(w), NEW i, \E k \in DOMAIN CodexMessages(w) : CodexMessages(w)[k].row = i,
         NEW q, AsksFrom(q, i)
  PROVE  Landed(CodexPage(q, w), i)
<1>1. PICK ms : ms = CodexMessages(w)
  OBVIOUS
<1>2. PICK S, R, Q, u, rows : Shape(ms, n, rows, S, R, Q, Self(n), u)
  BY <1>1, CodexShape
<1>3. PICK k \in DOMAIN ms : ms[k].row = i
  BY <1>1
<1>4. Len(Window(q, ms)) = 1 /\ Window(q, ms)[1].row = i
  BY <1>2, <1>3, ShapeLands
<1>5. Asks(q)
  BY DEF AsksFrom
<1>6. PICK d \in Nat : \E r, stop : PagedAlike(q, w, d, r, stop)
  BY <1>5, CodexPagesOf
<1>7. PICK r, stop : PagedAlike(q, w, d, r, stop)
  BY <1>6
<1>8. PICK x, y : /\ x = CodexPage(q, w) /\ x = [j \in 1..d |-> CodexUsed(w, r[j], stop)]
                  /\ y = Window(q, ms) /\ y = [j \in 1..d |-> CodexUsed(w, r[j], Len(w))]
  BY <1>1, <1>7 DEF PagedAlike
<1>9. d = 1
  <2>1. Len(y) = d
    BY <1>8
  <2> QED  BY <1>4, <1>8, <2>1
<1>10. x[1] = CodexUsed(w, r[1], stop) /\ y[1] = CodexUsed(w, r[1], Len(w)) /\ Len(x) = 1
  BY <1>8, <1>9
<1>11. x[1].row = r[1] /\ y[1].row = r[1]
  <2>1. CodexUsed(w, r[1], stop).row = r[1] /\ CodexUsed(w, r[1], Len(w)).row = r[1]
    BY ONLY CodexUsedRow, Zenon
  <2> QED  BY ONLY <1>10, <2>1, Zenon
<1>12. x[1].row = i
  BY <1>4, <1>8, <1>11
<1> QED  BY <1>8, <1>10, <1>12, OneLands

\* The row of a message is one that is shown, and a row that is shown has a message.
LEMMA ShapeHas ==
  ASSUME NEW n \in Nat, NEW ms, NEW rows, NEW S, NEW R, NEW Q, NEW at, NEW u, Shape(ms, n, rows, S, R, Q, at, u),
         NEW i \in 1..n, i \in S
  PROVE  \E k \in DOMAIN ms : ms[k].row = i
<1>1. PICK L \in Nat : L = Len(rows)
  BY DEF Shape
<1>2. PICK k \in 1..L : rows[k] = i
  BY <1>1 DEF Shape, Kept
<1>3. k \in DOMAIN ms
  BY <1>1 DEF Shape
<1>4. Says(ms[k], rows[k], at[rows[k]], u[rows[k]], rows[k] \in R, rows[k] \in Q)
  BY <1>1, Zenon DEF Shape
<1>5. ms[k].row = rows[k]
  BY ONLY <1>4, Zenon DEF Says
<1> QED  BY <1>2, <1>3, <1>5

\* A hit that has a time is quoted at that of its message; Claude's hits are all in
\* one.
Timed(i) == format = "gemini" => ~log[i].patched
Quoted(i) ==
  IF \E k \in DOMAIN Messages : Messages[k].row = i
  THEN Timed(i) => Landed(Landing(i), i) ELSE format \notin {"claude", "claude-sub"}

LEMMA QuotedInShape ==
  ASSUME NEW n \in Nat, NEW rows, NEW S, NEW R, NEW Q, NEW u, Shape(Messages, n, rows, S, R, Q, Self(n), u),
         format \notin {"codex", "codex-totals"}, NEW i, HitTime(i) = i,
         (i \in 1..n /\ i \in S) \/ format \notin {"claude", "claude-sub"}
  PROVE  Quoted(i)
<1>1. PICK ms, q : ms = Messages /\ q = Query(1, 0, FALSE, "", i)
  OBVIOUS
<1>2. AsksFrom(q, i)
  BY <1>1, OneFrom
<1>3. Landing(i) = PageOf(q, ms)
  <2>1. Landing(i) = Page(q, ms)
    BY <1>1, Zenon DEF Landing
  <2> QED  BY <2>1 DEF Page
<1>4. CASE \E k \in DOMAIN ms : ms[k].row = i
  <2>1. Landed(PageOf(q, ms), i)
    BY <1>1, <1>2, <1>4, PageLands
  <2> QED  BY ONLY <1>1, <1>3, <1>4, <2>1, Zenon DEF Quoted
<1>5. CASE ~\E k \in DOMAIN ms : ms[k].row = i
  <2>1. ~(i \in 1..n /\ i \in S)
    <3>1. Shape(ms, n, rows, S, R, Q, Self(n), u)
      BY <1>1
    <3>2. ASSUME i \in 1..n, i \in S PROVE FALSE
      <4>1. \E k \in DOMAIN ms : ms[k].row = i
        BY ONLY n \in Nat, <3>1, <3>2, ShapeHas
      <4> QED  BY <1>5, <4>1
    <3> QED  BY <3>2
  <2>2. format \notin {"claude", "claude-sub"}
    BY <2>1
  <2> QED  BY ONLY <1>1, <1>5, <2>2, Zenon DEF Quoted
<1> QED  BY <1>4, <1>5

LEMMA HitsAreQuoted ==
  ASSUME format \in Formats, Len(log) \in Nat, format \notin {"dsh", "grok", "antigravity"}, NEW i \in Hits
  PROVE  Quoted(i)
<1>1. PICK n \in Nat : n = Len(log)
  OBVIOUS
<1>2. CASE format \in {"claude", "claude-sub"}
  <2>1. PICK side : side = sub
    OBVIOUS
  <2>2. Messages = ClaudeMessages(log, side) /\ Hits = ClaudeHits(log, side) /\ HitTime(i) = i
    BY <1>2, <2>1 DEF Messages, Hits, HitTime
  <2>3. i \in 1..n /\ ClaudeShown(log[i], side)
    BY <1>1, <2>2 DEF ClaudeHits, ClaudeShown
  <2>4. i \in ClaudeShowns(log, n, side)
    BY <2>3 DEF ClaudeShowns
  <2>5. PICK S, R, Q, u, rows : S = ClaudeShowns(log, n, side) /\ Shape(Messages, n, rows, S, R, Q, Self(n), u)
    BY <1>1, <2>2, ClaudeShape
  <2>6. format \notin {"codex", "codex-totals"}
    BY <1>2
  <2>7. i \in 1..n /\ i \in S
    BY <2>3, <2>4, <2>5
  <2> QED  BY ONLY n \in Nat, <2>2, <2>5, <2>6, <2>7, QuotedInShape
<1>3. CASE format \in {"codex", "codex-totals"}
  <2>1. PICK ms, q : ms = Messages /\ q = Query(1, 0, FALSE, "", i)
    OBVIOUS
  <2>2. ms = CodexMessages(log) /\ HitTime(i) = i
    BY <1>3, <2>1 DEF Messages, HitTime
  <2>3. AsksFrom(q, i)
    BY <2>1, OneFrom
  <2>4. Landing(i) = CodexPage(q, log)
    <3>1. Landing(i) = Page(q, ms)
      BY <2>1, <2>2, Zenon DEF Landing
    <3> QED  BY <1>3, <3>1 DEF Page
  <2>5. CASE \E k \in DOMAIN ms : ms[k].row = i
    <3>1. Landed(CodexPage(q, log), i)
      BY <1>1, <2>2, <2>3, <2>5, CodexPageLands
    <3> QED  BY ONLY <2>1, <2>4, <2>5, <3>1, Zenon DEF Quoted
  <2>6. CASE ~\E k \in DOMAIN ms : ms[k].row = i
    <3>1. format \notin {"claude", "claude-sub"}
      BY <1>3
    <3> QED  BY ONLY <2>1, <2>6, <3>1, Zenon DEF Quoted
  <2> QED  BY <2>5, <2>6
<1>9. CASE format = "gemini" /\ log[i].patched
  <2>1. ~Timed(i)
    BY <1>9 DEF Timed
  <2>2. format \notin {"claude", "claude-sub"}
    BY <1>9
  <2> QED  BY ONLY <2>1, <2>2, Zenon DEF Quoted
<1>4. CASE format = "gemini" /\ ~log[i].patched
  <2>1. Messages = GeminiMessages(log) /\ HitTime(i) = i
    BY <1>4 DEF Messages, HitTime, GeminiHitTime
  <2>2. PICK S, R, Q, u, rows : Shape(Messages, n, rows, S, R, Q, Self(n), u)
    BY <1>1, <2>1, GeminiShape
  <2>3. format \notin {"codex", "codex-totals"} /\ format \notin {"claude", "claude-sub"}
    BY <1>4
  <2> QED  BY ONLY n \in Nat, <2>1, <2>2, <2>3, QuotedInShape
<1>5. CASE format = "pi"
  <2>1. Messages = PiMessages(log) /\ HitTime(i) = i
    BY <1>5 DEF Messages, HitTime, PiHitTime, PiTime
  <2>2. PICK S, R, Q, u, rows : Shape(Messages, n, rows, S, R, Q, Self(n), u)
    BY <1>1, <2>1, PiShape
  <2>3. format \notin {"codex", "codex-totals"} /\ format \notin {"claude", "claude-sub"}
    BY <1>5
  <2> QED  BY ONLY n \in Nat, <2>1, <2>2, <2>3, QuotedInShape
<1>6. CASE format = "openclaw"
  <2>1. Messages = ClawMessages(log) /\ HitTime(i) = i
    BY <1>6 DEF Messages, HitTime
  <2>2. PICK S, R, Q, u, rows : Shape(Messages, n, rows, S, R, Q, Self(n), u)
    BY <1>1, <2>1, ClawShape
  <2>3. format \notin {"codex", "codex-totals"} /\ format \notin {"claude", "claude-sub"}
    BY <1>6
  <2> QED  BY ONLY n \in Nat, <2>1, <2>2, <2>3, QuotedInShape
<1> QED  BY <1>2, <1>3, <1>4, <1>5, <1>6, <1>9 DEF Formats

LEMMA HitsLandAll ==
  ASSUME format \in Formats, Len(log) \in Nat
  PROVE  HitsLand
<1>1. CASE format \notin {"dsh", "grok", "antigravity"}
  <2>1. \A i \in Hits : Quoted(i)
    BY <1>1, HitsAreQuoted
  <2> QED  BY <2>1, Zenon DEF HitsLand, Quoted, Landed, Timed, Drawn, Lands
<1>2. CASE ~(format \notin {"dsh", "grok", "antigravity"})
  BY <1>2, Zenon DEF HitsLand
<1> QED  BY <1>1, <1>2

\* The first of the prompts shown is the least row that is one.
Named(ms, W) == {k \in DOMAIN ms : Prompts(ms[k]) /\ ms[k].row \in W}
IsTitle(title, ms, W) == Named(ms, W) # {} /\ title = ms[Min(Named(ms, W))].row

LEMMA ShapeTitles ==
  ASSUME NEW n \in Nat, NEW ms, NEW rows, NEW S, NEW R, NEW Q, NEW at, NEW u, Shape(ms, n, rows, S, R, Q, at, u),
         NEW W, NEW i \in 1..n, i \in S, i \in Q, i \in W, \A h \in 1..n : h \in S /\ h \in Q /\ h \in W => i <= h
  PROVE  IsTitle(i, ms, W)
<1>1. PICK L \in Nat : L = Len(rows)
  BY DEF Shape
<1>2. Kept(S, n, rows) /\ DOMAIN ms = 1..L
  BY <1>1 DEF Shape
<1>3. \A k \in 1..L : rows[k] \in 1..n /\ ms[k].row = rows[k] /\ (Prompts(ms[k]) <=> rows[k] \in Q)
  <2> SUFFICES ASSUME NEW k \in 1..L PROVE rows[k] \in 1..n /\ ms[k].row = rows[k] /\ (Prompts(ms[k]) <=> rows[k] \in Q)
    OBVIOUS
  <2>1. rows[k] \in 1..n /\ Says(ms[k], rows[k], at[rows[k]], u[rows[k]], rows[k] \in R, rows[k] \in Q)
    BY <1>1, Zenon DEF Shape
  <2> QED  BY ONLY <2>1, Zenon DEF Says
<1>4. PICK P : P = Q \cap W
  OBVIOUS
<1>5. Named(ms, W) = RowPlaces(rows, P)
  BY <1>1, <1>2, <1>3, <1>4 DEF Named, RowPlaces
<1>6. i \in P /\ \A h \in 1..n : h \in S /\ h \in P => i <= h
  BY <1>4
<1>7. RowPlaces(rows, P) # {} /\ rows[Min(RowPlaces(rows, P))] = i
  BY ONLY n \in Nat, i \in 1..n, i \in S, <1>2, <1>6, FirstPlace
<1>8. PICK k : k = Min(RowPlaces(rows, P)) /\ k \in 1..L
  <2>1. PICK T : T = RowPlaces(rows, P) /\ T \in SUBSET (1..L)
    BY <1>1 DEF RowPlaces
  <2>2. T \in SUBSET Nat /\ T # {}
    BY <1>7, <2>1
  <2>3. Min(T) \in T
    BY ONLY <2>2, SmallestOf
  <2> QED  BY <2>1, <2>3
<1>9. ms[k].row = i
  BY <1>3, <1>7, <1>8
<1> QED  BY ONLY <1>5, <1>7, <1>8, <1>9, Zenon DEF IsTitle

\* The least of some rows, 0 without any
LEMMA FirstOf ==
  ASSUME NEW n \in Nat, NEW real \in SUBSET (1..n), NEW title, title = (IF real = {} THEN 0 ELSE Min(real)), title # 0
  PROVE  title \in real /\ title \in 1..n /\ \A y \in real : title <= y
<1>1. real # {} /\ real \in SUBSET Nat
  OBVIOUS
<1>2. Min(real) \in real /\ \A y \in real : Min(real) <= y
  BY ONLY <1>1, SmallestOf
<1> QED  BY <1>1, <1>2

\* Rows with words, and those a title may come from
Worded(w, n) == {i \in 1..n : w[i].text = "words"}
GeminiWorded(w, n) == {i \in 1..n : w[i].text = "words" /\ ~w[i].patched}
MayTitle == IF format = "gemini" THEN GeminiWorded(log, Len(log)) ELSE Worded(log, Len(log))

\* The rows a title is looked for in hold every prompt shown, as far as the head
\* of the file goes.
LEMMA TitleHolds ==
  ASSUME NEW n \in Nat, NEW ms, NEW rows, NEW S, NEW R, NEW Q, NEW at, NEW u, Shape(ms, n, rows, S, R, Q, at, u),
         NEW W, NEW head \in Int, NEW real \in SUBSET (1..n), NEW title,
         title = (IF real = {} THEN 0 ELSE Min(real)), title # 0, title <= head,
         title \in S, title \in Q, title \in W,
         \A h \in 1..n : h \in S /\ h \in Q /\ h \in W /\ h <= head => h \in real
  PROVE  IsTitle(title, ms, W)
<1>1. title \in real /\ title \in 1..n /\ \A y \in real : title <= y
  BY ONLY n \in Nat, real \in SUBSET (1..n), title = (IF real = {} THEN 0 ELSE Min(real)), title # 0, FirstOf
<1>2. \A h \in 1..n : h \in S /\ h \in Q /\ h \in W => title <= h
  <2> SUFFICES ASSUME NEW h \in 1..n, h \in S, h \in Q, h \in W PROVE title <= h
    OBVIOUS
  <2>1. CASE h <= head
    BY <1>1, <2>1
  <2>2. CASE ~(h <= head)
    BY <1>1, <2>2
  <2> QED  BY <2>1, <2>2
<1>3. Shape(ms, n, rows, S, R, Q, at, u)
  OBVIOUS
<1> QED  BY ONLY n \in Nat, title \in S, title \in Q, title \in W, <1>1, <1>2, <1>3, ShapeTitles

LEMMA ClaudeTitleHolds ==
  ASSUME NEW w, NEW n \in Nat, n = Len(w), NEW side, NEW head \in Nat,
         side \/ \A i \in 1..n : ~(w[i].type = "user" /\ w[i].side),
         ClaudeTitle(w, head) # 0
  PROVE  IsTitle(ClaudeTitle(w, head), ClaudeMessages(w, side), Worded(w, n))
<1>1. PICK real \in SUBSET (1..n) :
        real = {i \in 1..Len(w) : i <= head /\ (w[i].type = "user" /\ w[i].id = 0) /\ w[i].text = "words"}
  OBVIOUS
<1>2. PICK title : title = ClaudeTitle(w, head) /\ title = IF real = {} THEN 0 ELSE Min(real)
  BY <1>1, Zenon DEF ClaudeTitle, FirstTitle
<1>3. PICK S, R, Q, u, W, rows : /\ S = ClaudeShowns(w, n, side) /\ Q = ClaudeAsked(w, n) /\ W = Worded(w, n)
                                 /\ Shape(ClaudeMessages(w, side), n, rows, S, R, Q, Self(n), u)
  BY ClaudeShape
<1>4. title # 0
  BY <1>2
<1>5. title \in real /\ title \in 1..n
  BY ONLY n \in Nat, real \in SUBSET (1..n), <1>2, <1>4, FirstOf
<1>6. title <= head /\ w[title].type = "user" /\ w[title].id = 0 /\ w[title].text = "words"
  BY <1>1, <1>5
<1>7. title \in S
  BY <1>3, <1>5, <1>6 DEF ClaudeShowns, ClaudeShown
<1>8. title \in Q /\ title \in W
  BY <1>3, <1>5, <1>6 DEF ClaudeAsked, ClaudePrompts, Worded
<1>9. \A h \in 1..n : h \in S /\ h \in Q /\ h \in W /\ h <= head => h \in real
  BY <1>1, <1>3 DEF ClaudeAsked, ClaudePrompts, Worded
<1>10. head \in Int
  OBVIOUS
<1>11. IsTitle(title, ClaudeMessages(w, side), W)
  BY ONLY n \in Nat, real \in SUBSET (1..n), <1>2, <1>3, <1>4, <1>6, <1>7, <1>8, <1>9, <1>10, TitleHolds
<1> QED  BY <1>2, <1>3, <1>11

LEMMA CodexTitleHolds ==
  ASSUME NEW w, NEW n \in Nat, n = Len(w), NEW head \in Nat,
         \A i \in 1..n : w[i].sub = "user" => w[i].type = "response_item",
         CodexTitle(w, head) # 0
  PROVE  IsTitle(CodexTitle(w, head), CodexMessages(w), Worded(w, n))
<1>1. PICK real \in SUBSET (1..n) :
        real = {i \in 1..Len(w) : i <= head /\ w[i].sub = "user" /\ w[i].text = "words"}
  OBVIOUS
<1>2. PICK title : title = CodexTitle(w, head) /\ title = IF real = {} THEN 0 ELSE Min(real)
  BY <1>1, Zenon DEF CodexTitle, FirstTitle
<1>3. PICK S, R, Q, u, W, rows : /\ S = CodexShowns(w, n) /\ Q = CodexAsked(w, n) /\ W = Worded(w, n)
                                 /\ Shape(CodexMessages(w), n, rows, S, R, Q, Self(n), u)
  BY CodexShape
<1>4. title # 0
  BY <1>2
<1>5. title \in real /\ title \in 1..n
  BY ONLY n \in Nat, real \in SUBSET (1..n), <1>2, <1>4, FirstOf
<1>6. title <= head /\ w[title].type = "response_item" /\ w[title].sub = "user" /\ w[title].text = "words"
  BY <1>1, <1>5
<1>7. title \in S
  BY <1>3, <1>5, <1>6 DEF CodexShowns, CodexShown
<1>8. title \in Q /\ title \in W
  BY <1>3, <1>5, <1>6 DEF CodexAsked, CodexPrompts, Worded
<1>9. \A h \in 1..n : h \in S /\ h \in Q /\ h \in W /\ h <= head => h \in real
  BY <1>1, <1>3 DEF CodexAsked, CodexPrompts, Worded
<1>10. head \in Int
  OBVIOUS
<1>11. IsTitle(title, CodexMessages(w), W)
  BY ONLY n \in Nat, real \in SUBSET (1..n), <1>2, <1>3, <1>4, <1>6, <1>7, <1>8, <1>9, <1>10, TitleHolds
<1> QED  BY <1>2, <1>3, <1>11

LEMMA GeminiTitleHolds ==
  ASSUME NEW w, NEW n \in Nat, n = Len(w), NEW head \in Nat,
         GeminiTitle(w, head) # 0
  PROVE  IsTitle(GeminiTitle(w, head), GeminiMessages(w), GeminiWorded(w, n))
<1>1. PICK real \in SUBSET (1..n) :
        real = {i \in 1..Len(w) : i <= head /\ (w[i].type = "user" /\ w[i].id = 0 /\ ~w[i].patched) /\ w[i].text = "words"}
  OBVIOUS
<1>2. PICK title : title = GeminiTitle(w, head) /\ title = IF real = {} THEN 0 ELSE Min(real)
  BY <1>1, Zenon DEF GeminiTitle, FirstTitle
<1>3. PICK S, R, Q, u, W, rows : /\ S = GeminiShowns(w, n) /\ Q = GeminiAsked(w, n) /\ W = GeminiWorded(w, n)
                                 /\ Shape(GeminiMessages(w), n, rows, S, R, Q, Self(n), u)
  BY GeminiShape
<1>4. title # 0
  BY <1>2
<1>5. title \in real /\ title \in 1..n
  BY ONLY n \in Nat, real \in SUBSET (1..n), <1>2, <1>4, FirstOf
<1>6. title <= head /\ w[title].type = "user" /\ w[title].id = 0 /\ w[title].text = "words" /\ ~w[title].patched
  BY <1>1, <1>5
<1>7. title \in S
  BY <1>3, <1>5, <1>6 DEF GeminiShowns, GeminiEntry
<1>8. title \in Q /\ title \in W
  BY <1>3, <1>5, <1>6 DEF GeminiAsked, GeminiWorded
<1>9. \A h \in 1..n : h \in S /\ h \in Q /\ h \in W /\ h <= head => h \in real
  BY <1>1, <1>3 DEF GeminiShowns, GeminiEntry, GeminiAsked, GeminiWorded
<1>10. head \in Int
  OBVIOUS
<1>11. IsTitle(title, GeminiMessages(w), W)
  BY ONLY n \in Nat, real \in SUBSET (1..n), <1>2, <1>3, <1>4, <1>6, <1>7, <1>8, <1>9, <1>10, TitleHolds
<1> QED  BY <1>2, <1>3, <1>11

LEMMA PiTitleHolds ==
  ASSUME NEW w, NEW n \in Nat, n = Len(w), NEW head \in Nat,
         \A i \in 1..n : w[i].role = "user" => w[i].id = 0,
         PiTitle(w, head) # 0
  PROVE  IsTitle(PiTitle(w, head), PiMessages(w), Worded(w, n))
<1>1. PICK real \in SUBSET (1..n) :
        real = {i \in 1..Len(w) : i <= head /\ (w[i].type = "message" /\ w[i].role = "user") /\ w[i].text = "words"}
  OBVIOUS
<1>2. PICK title : title = PiTitle(w, head) /\ title = IF real = {} THEN 0 ELSE Min(real)
  BY <1>1, Zenon DEF PiTitle, FirstTitle
<1>3. PICK S, R, Q, u, W, rows : /\ S = BlockShowns(w, n) /\ Q = BlockAsked(w, n) /\ W = Worded(w, n)
                                 /\ Shape(PiMessages(w), n, rows, S, R, Q, Self(n), u)
  BY PiShape
<1>4. title # 0
  BY <1>2
<1>5. title \in real /\ title \in 1..n
  BY ONLY n \in Nat, real \in SUBSET (1..n), <1>2, <1>4, FirstOf
<1>6. title <= head /\ w[title].type = "message" /\ w[title].role = "user" /\ w[title].id = 0 /\ w[title].text = "words"
  BY <1>1, <1>5
<1>7. title \in S
  BY <1>3, <1>5, <1>6 DEF BlockShowns
<1>8. title \in Q /\ title \in W
  BY <1>3, <1>5, <1>6 DEF BlockAsked, BlockPrompts, Worded
<1>9. \A h \in 1..n : h \in S /\ h \in Q /\ h \in W /\ h <= head => h \in real
  BY <1>1, <1>3 DEF BlockShowns, BlockAsked, BlockPrompts, Worded
<1>10. head \in Int
  OBVIOUS
<1>11. IsTitle(title, PiMessages(w), W)
  BY ONLY n \in Nat, real \in SUBSET (1..n), <1>2, <1>3, <1>4, <1>6, <1>7, <1>8, <1>9, <1>10, TitleHolds
<1> QED  BY <1>2, <1>3, <1>11

LEMMA DshTitleHolds ==
  ASSUME NEW w, NEW n \in Nat, n = Len(w),
         DshWritten(w),
         DshTitle(w) # 0
  PROVE  IsTitle(DshTitle(w), DshMessages(w), Worded(w, n))
<1>1. PICK real \in SUBSET (1..n) :
        real = {i \in 1..Len(w) : i <= Len(w) /\ (w[i].type = "user/message" /\ ~w[i].injected /\ ~w[i].replaces) /\ w[i].text = "words"}
  OBVIOUS
<1>2. PICK title : title = DshTitle(w) /\ title = IF real = {} THEN 0 ELSE Min(real)
  BY <1>1, Zenon DEF DshTitle, FirstTitle
<1>3. PICK S, R, Q, u, W, rows : /\ S = DshShowns(w, n) /\ Q = DshAsked(w, n) /\ W = Worded(w, n)
                                 /\ Shape(DshMessages(w), n, rows, S, R, Q, DshTimes(n), u)
  BY DshShape
<1>4. title # 0
  BY <1>2
<1>5. title \in real /\ title \in 1..n /\ \A y \in real : title <= y
  BY ONLY n \in Nat, real \in SUBSET (1..n), <1>2, <1>4, FirstOf
<1>6. /\ title <= n /\ w[title].type = "user/message" /\ w[title].text = "words"
      /\ ~w[title].injected /\ ~w[title].replaces
  BY <1>1, <1>5
<1>7. title \in S
  <2>1. DshHasMessage(w[title])
    BY <1>6 DEF DshHasMessage
  <2>2. ASSUME NEW j \in 1..(title - 1), DshHasMessage(w[j]), ~w[j].replaces, w[j].id = w[title].id PROVE FALSE
    <3>1. j \in 1..n /\ j < title
      BY <1>5
    <3>2. DshSame(w[j], w[title])
      BY <1>5, <2>2, <3>1 DEF DshWritten
    <3>3. w[j].type = "user/message" /\ w[j].text = "words" /\ ~w[j].injected
      BY ONLY <1>6, <3>2, Zenon DEF DshSame
    <3>4. j \in real
      BY <1>1, <2>2, <3>1, <3>3
    <3> QED  BY <1>5, <3>1, <3>4
  <2>3. DshShown(w, title)
    BY <1>6, <2>1, <2>2 DEF DshShown
  <2> QED  BY <1>3, <1>5, <2>3 DEF DshShowns
<1>8. title \in Q /\ title \in W
  BY <1>3, <1>5, <1>6 DEF DshAsked, DshPrompts, Worded
<1>9. \A h \in 1..n : h \in S /\ h \in Q /\ h \in W /\ h <= n => h \in real
  BY <1>1, <1>3 DEF DshShowns, DshShown, DshAsked, DshPrompts, Worded
<1>10. n \in Int
  OBVIOUS
<1>11. IsTitle(title, DshMessages(w), W)
  BY ONLY n \in Nat, real \in SUBSET (1..n), <1>2, <1>3, <1>4, <1>6, <1>7, <1>8, <1>9, <1>10, TitleHolds
<1> QED  BY <1>2, <1>3, <1>11

LEMMA ClawTitleHolds ==
  ASSUME NEW w, NEW n \in Nat, n = Len(w),
         \A i \in 1..n : w[i].role = "user" => w[i].id = 0,
         ClawTitle(w) # 0
  PROVE  IsTitle(ClawTitle(w), ClawMessages(w), Worded(w, n))
<1>1. PICK asks \in SUBSET (1..n) : asks = {i \in 1..Len(w) : w[i].type = "message" /\ w[i].role = "user"}
  OBVIOUS
<1>2. PICK title : title = ClawTitle(w) /\ title # 0
  OBVIOUS
<1>3. asks # {} /\ title = Min(asks) /\ w[title].text = "words"
  BY ONLY <1>1, <1>2, Zenon DEF ClawTitle
<1>4. title = (IF asks = {} THEN 0 ELSE Min(asks))
  BY <1>3
<1>5. title \in asks /\ title \in 1..n /\ \A y \in asks : title <= y
  BY ONLY n \in Nat, asks \in SUBSET (1..n), <1>2, <1>4, FirstOf
<1>6. PICK S, R, Q, u, W, rows : /\ S = BlockShowns(w, n) /\ Q = BlockAsked(w, n) /\ W = Worded(w, n)
                                 /\ Shape(ClawMessages(w), n, rows, S, R, Q, Self(n), u)
  BY ClawShape
<1>7. title <= n /\ w[title].type = "message" /\ w[title].role = "user" /\ w[title].id = 0
  BY <1>1, <1>5
<1>8. title \in S /\ title \in Q /\ title \in W
  BY <1>3, <1>5, <1>6, <1>7 DEF BlockShowns, BlockAsked, BlockPrompts, Worded
<1>9. \A h \in 1..n : h \in S /\ h \in Q /\ h \in W /\ h <= n => h \in asks
  BY <1>1, <1>6 DEF BlockShowns, BlockAsked, BlockPrompts, Worded
<1>10. n \in Int
  OBVIOUS
<1>11. IsTitle(title, ClawMessages(w), W)
  BY ONLY n \in Nat, asks \in SUBSET (1..n), <1>2, <1>4, <1>6, <1>7, <1>8, <1>9, <1>10, TitleHolds
<1> QED  BY <1>2, <1>6, <1>11

\* Antigravity's messages are of its steps, each of the last line of its index.
AgyReplies(r) == AgyRole(r) = "assistant"
AgyShape(w, n, all, steps, k) ==
  /\ steps = AgySteps(w) /\ DOMAIN steps = 1..k /\ DOMAIN all = 1..k /\ Len(all) = k
  /\ \A i \in 1..n : w[i].index \in 1..k
  /\ \A j \in 1..k : /\ steps[j] \in 1..n /\ w[steps[j]].index = j
                     /\ \A i \in 1..n : w[i].index = j => i <= steps[j]
                     /\ Says(all[j], steps[j], w[steps[j]].born, SpeaksFor(AgyReplies(w[steps[j]])),
                             AgyReplies(w[steps[j]]), w[steps[j]].type = "USER_INPUT")

LEMMA AgyShapeHolds ==
  ASSUME NEW w, NEW n \in Nat, n = Len(w), AgyWritten(w)
  PROVE  \E k \in Nat : \E steps : AgyShape(w, n, AgyMessages(w), steps, k)
<1>1. PICK k \in Nat : {w[i].index : i \in 1..Len(w)} = 1..k /\ Cardinality({w[i].index : i \in 1..Len(w)}) = k
  BY AgyIndexes
<1>2. PICK steps : steps = AgySteps(w) /\ steps = [j \in 1..k |-> AgyLine(w, j)]
  BY <1>1, Zenon DEF AgySteps
<1>3. DOMAIN steps = 1..k /\ \A j \in 1..k : steps[j] = AgyLine(w, j)
  BY <1>2
<1>4. \A i \in 1..n : w[i].index \in 1..k
  BY <1>1
<1>5. ASSUME NEW j \in 1..k
      PROVE  steps[j] \in 1..n /\ w[steps[j]].index = j /\ \A i \in 1..n : w[i].index = j => i <= steps[j]
  <2>1. PICK i \in 1..Len(w) : w[i].index = j
    <3>1. j \in {w[i].index : i \in 1..Len(w)}
      BY <1>1
    <3> QED  BY <3>1
  <2> QED  BY <1>3, <2>1, AgyLineIs
<1>6. PICK all : all = AgyMessages(w)
  OBVIOUS
<1>7. all = [j \in 1..k |-> AgyMessage(steps[j], w[steps[j]])]
  <2>1. all = [j \in DOMAIN steps |-> AgyMessage(steps[j], w[steps[j]])]
    BY <1>2, <1>6, Zenon DEF AgyMessages, AgyMessage
  <2> QED  BY <1>3, <2>1, Zenon
<1>8. DOMAIN all = 1..k /\ Len(all) = k
  <2>1. all = [j \in 1..k |-> all[j]]
    BY <1>7
  <2> QED  BY <2>1, OwnMembers
<1>9. ASSUME NEW j \in 1..k
      PROVE  Says(all[j], steps[j], w[steps[j]].born, SpeaksFor(AgyReplies(w[steps[j]])), AgyReplies(w[steps[j]]),
                  w[steps[j]].type = "USER_INPUT")
  <2>1. all[j] = AgyMessage(steps[j], w[steps[j]])
    BY <1>7
  <2> QED  BY ONLY <2>1, AgySays, Zenon DEF AgyReplies
<1>10. AgyShape(w, n, all, steps, k)
  BY ONLY <1>2, <1>3, <1>4, <1>5, <1>8, <1>9, Zenon DEF AgyShape
<1> QED  BY <1>6, <1>10

LEMMA AgyTitleHolds ==
  ASSUME NEW w, NEW n \in Nat, n = Len(w), AgyWritten(w), AgyTitle(w) # 0
  PROVE  IsTitle(AgyTitle(w), AgyMessages(w), Worded(w, n))
<1>1. PICK real \in SUBSET (1..n) : real = {i \in 1..Len(w) : i <= Len(w) /\ w[i].type = "USER_INPUT" /\ w[i].text = "words"}
  OBVIOUS
<1>2. PICK title : title = AgyTitle(w) /\ title = IF real = {} THEN 0 ELSE Min(real)
  BY <1>1, Zenon DEF AgyTitle, FirstTitle
<1>3. PICK ms, W : ms = AgyMessages(w) /\ W = Worded(w, n)
  OBVIOUS
<1>4. PICK k, steps : k \in Nat /\ AgyShape(w, n, ms, steps, k)
  BY <1>3, AgyShapeHolds
<1>5. title # 0
  BY <1>2
<1>6. title \in real /\ title \in 1..n /\ \A y \in real : title <= y
  BY ONLY n \in Nat, real \in SUBSET (1..n), <1>2, <1>5, FirstOf
<1>7. w[title].type = "USER_INPUT" /\ title \in W
  BY <1>1, <1>3, <1>6 DEF Worded
<1>8. PICK t \in 1..k : t = w[title].index
  BY <1>4, <1>6 DEF AgyShape
<1>9. \A i \in 1..n, j \in 1..n : w[i].index = w[j].index => w[i].type = w[j].type
  BY DEF AgyWritten
<1>10. \A i \in 1..n, j \in 1..n : i < j /\ w[j].type = "USER_INPUT" => w[i].index < w[j].index
  BY DEF AgyWritten
<1>11. \A j \in 1..k : steps[j] \in 1..n /\ w[steps[j]].index = j /\ (w[title].index = j => title <= steps[j])
  BY <1>4, <1>6 DEF AgyShape
<1>12. \A j \in 1..k : ms[j].row = steps[j] /\ (Prompts(ms[j]) <=> w[steps[j]].type = "USER_INPUT")
  <2> SUFFICES ASSUME NEW j \in 1..k PROVE ms[j].row = steps[j] /\ (Prompts(ms[j]) <=> w[steps[j]].type = "USER_INPUT")
    OBVIOUS
  <2>1. Says(ms[j], steps[j], w[steps[j]].born, SpeaksFor(AgyReplies(w[steps[j]])), AgyReplies(w[steps[j]]),
             w[steps[j]].type = "USER_INPUT")
    BY <1>4, Zenon DEF AgyShape
  <2> QED  BY ONLY <2>1, Zenon DEF Says
<1>13. steps[t] = title
  <2>1. PICK s \in 1..n : s = steps[t] /\ w[s].index = t /\ title <= s
    BY <1>8, <1>11
  <2>2. w[s].type = "USER_INPUT"
    BY <1>6, <1>7, <1>8, <1>9, <2>1
  <2>3. ~(title < s)
    <3>1. title < s => w[title].index < w[s].index
      BY <1>6, <1>10, <2>2
    <3> QED  BY <1>8, <2>1, <3>1
  <2> QED  BY <1>6, <2>1, <2>3
<1>14. PICK T : T = Named(ms, W) /\ T \in SUBSET (1..k)
  <2>1. DOMAIN ms = 1..k
    BY <1>4 DEF AgyShape
  <2> QED  BY <2>1 DEF Named
<1>15. t \in T
  <2>1. t \in DOMAIN ms
    BY <1>4 DEF AgyShape
  <2>2. Prompts(ms[t]) /\ ms[t].row \in W
    BY <1>7, <1>12, <1>13
  <2> QED  BY <1>14, <2>1, <2>2 DEF Named
<1>16. \A j \in T : t <= j
  <2> SUFFICES ASSUME NEW j \in T PROVE t <= j
    OBVIOUS
  <2>1. j \in 1..k /\ Prompts(ms[j]) /\ ms[j].row \in W
    BY <1>14 DEF Named
  <2>2. PICK s \in 1..n : s = steps[j] /\ w[s].index = j
    BY <1>11, <2>1
  <2>3. w[s].type = "USER_INPUT" /\ w[s].text = "words"
    BY <1>3, <1>12, <2>1, <2>2 DEF Worded
  <2>4. s \in real
    BY <1>1, <2>3
  <2>5. title <= s
    BY <1>6, <2>4
  <2>6. CASE title = s
    BY <1>8, <2>2, <2>6
  <2>7. CASE title < s
    <3>1. w[title].index < w[s].index
      BY <1>6, <1>10, <2>3, <2>7
    <3> QED  BY <1>8, <2>1, <2>2, <3>1
  <2> QED  BY <1>6, <2>5, <2>6, <2>7
<1>17. T # {} /\ Min(T) = t
  <2>1. T \in SUBSET Nat /\ T # {}
    BY <1>14, <1>15
  <2>2. Min(T) \in T /\ \A y \in T : Min(T) <= y
    BY ONLY <2>1, SmallestOf
  <2>3. PICK m \in 1..k : m = Min(T)
    BY <1>14, <2>2
  <2> QED  BY <1>15, <1>16, <2>1, <2>2, <2>3
<1>18. ms[t].row = title
  BY <1>12, <1>13
<1>19. IsTitle(title, ms, W)
  BY ONLY <1>14, <1>17, <1>18, Zenon DEF IsTitle
<1> QED  BY <1>2, <1>3, <1>19

LEMMA TitleHeld ==
  ASSUME format \in Formats, Written, MaxRows \in Nat, format = "antigravity" => AgyWritten(log),
         format = "dsh" => DshWritten(log), Title # 0
  PROVE  format # "grok" /\ IsTitle(Title, Messages, MayTitle)
<1>1. PICK n \in Nat : n = Len(log)
  BY DEF Written, IsList
<1>2. \A i \in 1..n : RowFits(format, log[i])
  BY <1>1 DEF Written
<1>3. PICK title : title = Title /\ title # 0
  OBVIOUS
<1>4. CASE format \in {"claude", "claude-sub"}
  <2>1. PICK side : side = sub
    OBVIOUS
  <2>2. side \/ \A i \in 1..n : ~(log[i].type = "user" /\ log[i].side)
    <3>1. format = "claude" => \A i \in 1..n : ~(log[i].type = "user" /\ log[i].side)
      BY <1>2 DEF RowFits
    <3>2. format = "claude-sub" => side
      BY <2>1 DEF sub
    <3> QED  BY <1>4, <3>1, <3>2
  <2>3. title = ClaudeTitle(log, MaxRows) /\ Messages = ClaudeMessages(log, side)
    BY <1>3, <1>4, <2>1 DEF Title, Messages
  <2>4. IsTitle(title, Messages, Worded(log, n))
    BY ONLY MaxRows \in Nat, n \in Nat, <1>1, <1>3, <2>2, <2>3, ClaudeTitleHolds
  <2> QED  BY <1>1, <1>3, <1>4, <2>4 DEF MayTitle
<1>5. CASE format \in {"codex", "codex-totals"}
  <2>1. \A i \in 1..n : log[i].sub = "user" => log[i].type = "response_item"
    BY <1>2, <1>5 DEF RowFits
  <2>2. title = CodexTitle(log, MaxRows) /\ Messages = CodexMessages(log)
    BY <1>3, <1>5 DEF Title, Messages
  <2>3. IsTitle(title, Messages, Worded(log, n))
    BY ONLY MaxRows \in Nat, n \in Nat, <1>1, <1>3, <2>1, <2>2, CodexTitleHolds
  <2> QED  BY <1>1, <1>3, <1>5, <2>3 DEF MayTitle
<1>6. CASE format = "gemini"
  <2>1. title = GeminiTitle(log, MaxRows) /\ Messages = GeminiMessages(log)
    BY <1>3, <1>6 DEF Title, Messages
  <2>2. IsTitle(title, Messages, GeminiWorded(log, n))
    BY ONLY MaxRows \in Nat, n \in Nat, <1>1, <1>3, <2>1, GeminiTitleHolds
  <2> QED  BY <1>1, <1>3, <1>6, <2>2 DEF MayTitle
<1>7. CASE format = "pi"
  <2>1. \A i \in 1..n : log[i].role = "user" => log[i].id = 0
    BY <1>2, <1>7 DEF RowFits
  <2>2. title = PiTitle(log, MaxRows) /\ Messages = PiMessages(log)
    BY <1>3, <1>7 DEF Title, Messages
  <2>3. IsTitle(title, Messages, Worded(log, n))
    BY ONLY MaxRows \in Nat, n \in Nat, <1>1, <1>3, <2>1, <2>2, PiTitleHolds
  <2> QED  BY <1>1, <1>3, <1>7, <2>3 DEF MayTitle
<1>8. CASE format = "openclaw"
  <2>1. \A i \in 1..n : log[i].role = "user" => log[i].id = 0
    BY <1>2, <1>8 DEF RowFits
  <2>2. title = ClawTitle(log) /\ Messages = ClawMessages(log)
    BY <1>3, <1>8 DEF Title, Messages
  <2>3. IsTitle(title, Messages, Worded(log, n))
    BY ONLY n \in Nat, <1>1, <1>3, <2>1, <2>2, ClawTitleHolds
  <2> QED  BY <1>1, <1>3, <1>8, <2>3 DEF MayTitle
<1>9. CASE format = "dsh"
  <2>1. title = DshTitle(log) /\ Messages = DshMessages(log) /\ DshWritten(log)
    BY <1>3, <1>9 DEF Title, Messages
  <2>2. IsTitle(title, Messages, Worded(log, n))
    BY ONLY n \in Nat, <1>1, <1>3, <2>1, DshTitleHolds
  <2> QED  BY <1>1, <1>3, <1>9, <2>2 DEF MayTitle
<1>10. CASE format = "antigravity"
  <2>1. title = AgyTitle(log) /\ Messages = AgyMessages(log) /\ AgyWritten(log)
    BY <1>3, <1>10 DEF Title, Messages
  <2>2. IsTitle(title, Messages, Worded(log, n))
    BY ONLY n \in Nat, <1>1, <1>3, <2>1, AgyTitleHolds
  <2> QED  BY <1>1, <1>3, <1>10, <2>2 DEF MayTitle
<1>11. CASE format = "grok"
  <2>1. title = 0
    BY <1>3, <1>11 DEF Title
  <2> QED  BY <1>3, <2>1
<1> QED  BY <1>4, <1>5, <1>6, <1>7, <1>8, <1>9, <1>10, <1>11 DEF Formats

\* The rows that messages are made of are in the transcript.
LEMMA RowsLieIn ==
  ASSUME format \in Formats \ {"grok"}, Len(log) \in Nat, format = "antigravity" => AgyWritten(log),
         NEW k \in DOMAIN Messages
  PROVE  Messages[k].row \in 1..Len(log)
<1>1. PICK n \in Nat : n = Len(log)
  OBVIOUS
<1>2. PICK ms : ms = Messages
  OBVIOUS
<1>3. ASSUME NEW rows, NEW S, NEW R, NEW Q, NEW at, NEW u, Shape(ms, n, rows, S, R, Q, at, u)
      PROVE  ms[k].row \in 1..n
  <2>1. k \in 1..Len(rows)
    BY <1>2, <1>3 DEF Shape
  <2>2. rows[k] \in 1..n /\ Says(ms[k], rows[k], at[rows[k]], u[rows[k]], rows[k] \in R, rows[k] \in Q)
    BY <1>3, <2>1, Zenon DEF Shape
  <2> QED  BY ONLY <2>2, Zenon DEF Says
<1>4. CASE format \in {"claude", "claude-sub"}
  <2>1. ms = ClaudeMessages(log, sub)
    BY <1>2, <1>4 DEF Messages
  <2>2. PICK S, R, Q, u, rows : Shape(ms, n, rows, S, R, Q, Self(n), u)
    BY <1>1, <2>1, ClaudeShape
  <2> QED  BY <1>1, <1>2, <1>3, <2>2
<1>5. CASE format \in {"codex", "codex-totals"}
  <2>1. ms = CodexMessages(log)
    BY <1>2, <1>5 DEF Messages
  <2>2. PICK S, R, Q, u, rows : Shape(ms, n, rows, S, R, Q, Self(n), u)
    BY <1>1, <2>1, CodexShape
  <2> QED  BY <1>1, <1>2, <1>3, <2>2
<1>6. CASE format = "gemini"
  <2>1. ms = GeminiMessages(log)
    BY <1>2, <1>6 DEF Messages
  <2>2. PICK S, R, Q, u, rows : Shape(ms, n, rows, S, R, Q, Self(n), u)
    BY <1>1, <2>1, GeminiShape
  <2> QED  BY <1>1, <1>2, <1>3, <2>2
<1>7. CASE format = "pi"
  <2>1. ms = PiMessages(log)
    BY <1>2, <1>7 DEF Messages
  <2>2. PICK S, R, Q, u, rows : Shape(ms, n, rows, S, R, Q, Self(n), u)
    BY <1>1, <2>1, PiShape
  <2> QED  BY <1>1, <1>2, <1>3, <2>2
<1>8. CASE format = "openclaw"
  <2>1. ms = ClawMessages(log)
    BY <1>2, <1>8 DEF Messages
  <2>2. PICK S, R, Q, u, rows : Shape(ms, n, rows, S, R, Q, Self(n), u)
    BY <1>1, <2>1, ClawShape
  <2> QED  BY <1>1, <1>2, <1>3, <2>2
<1>9. CASE format = "dsh"
  <2>1. ms = DshMessages(log)
    BY <1>2, <1>9 DEF Messages
  <2>2. PICK S, R, Q, u, rows : Shape(ms, n, rows, S, R, Q, DshTimes(n), u)
    BY <1>1, <2>1, DshShape
  <2> QED  BY <1>1, <1>2, <1>3, <2>2
<1>10. CASE format = "antigravity"
  <2>1. ms = AgyMessages(log) /\ AgyWritten(log)
    BY <1>2, <1>10 DEF Messages
  <2>2. PICK m, steps : m \in Nat /\ AgyShape(log, n, ms, steps, m)
    BY <1>1, <2>1, AgyShapeHolds
  <2>3. k \in 1..m
    BY <1>2, <2>2 DEF AgyShape
  <2>4. steps[k] \in 1..n /\ Says(ms[k], steps[k], log[steps[k]].born, SpeaksFor(AgyReplies(log[steps[k]])),
                                  AgyReplies(log[steps[k]]), log[steps[k]].type = "USER_INPUT")
    BY <2>2, <2>3, Zenon DEF AgyShape
  <2>5. ms[k].row \in 1..n
    BY ONLY <2>4, Zenon DEF Says
  <2> QED  BY <1>1, <1>2, <2>5
<1> QED  BY <1>4, <1>5, <1>6, <1>7, <1>8, <1>9, <1>10 DEF Formats

LEMMA TitleIsAPrompt ==
  ASSUME format \in Formats, Written, MaxRows \in Nat, format = "antigravity" => AgyWritten(log),
         format = "dsh" => DshWritten(log)
  PROVE  TitleIsPrompt
<1> DEFINE prompts == {n \in DOMAIN Messages :
                         /\ Messages[n].role = "user" /\ Messages[n].text /\ ~Messages[n].aside
                         /\ format # "grok" /\ log[Messages[n].row].text = "words"
                         /\ format = "gemini" => ~log[Messages[n].row].patched}
<1>1. ASSUME Title # 0 PROVE prompts # {} /\ Title = Messages[Min(prompts)].row
  <2>1. format # "grok" /\ IsTitle(Title, Messages, MayTitle)
    BY <1>1, TitleHeld
  <2>2. Len(log) \in Nat
    BY DEF Written, IsList
  <2>3. \A n \in DOMAIN Messages : Messages[n].row \in 1..Len(log)
    BY <2>1, <2>2, RowsLieIn
  <2>4. ASSUME NEW n \in DOMAIN Messages
        PROVE  Messages[n].row \in MayTitle <=> /\ log[Messages[n].row].text = "words"
                                                /\ format = "gemini" => ~log[Messages[n].row].patched
    <3>1. PICK x : x = Messages[n].row
      OBVIOUS
    <3>2. x \in 1..Len(log)
      BY ONLY <2>3, <2>4, <3>1, Zenon
    <3>3. x \in MayTitle <=> log[x].text = "words" /\ (format = "gemini" => ~log[x].patched)
      <4>1. CASE format = "gemini"
        <5>1. MayTitle = GeminiWorded(log, Len(log))
          BY ONLY <4>1 DEF MayTitle
        <5> QED  BY ONLY <3>2, <4>1, <5>1, Zenon DEF GeminiWorded
      <4>2. CASE format # "gemini"
        <5>1. MayTitle = Worded(log, Len(log))
          BY ONLY <4>2 DEF MayTitle
        <5> QED  BY ONLY <3>2, <4>2, <5>1, Zenon DEF Worded
      <4> QED  BY <4>1, <4>2
    <3> QED  BY ONLY <3>1, <3>3, Zenon
  <2>5. prompts = Named(Messages, MayTitle)
    <3>1. ASSUME NEW n \in DOMAIN Messages
          PROVE  n \in prompts <=> Prompts(Messages[n]) /\ Messages[n].row \in MayTitle
      BY ONLY <2>1, <2>4, <3>1, Zenon DEF Prompts
    <3> QED  BY ONLY <3>1, Zenon DEF Named, Prompts
  <2> QED  BY ONLY <2>1, <2>5, Zenon DEF IsTitle
<1> QED  BY <1>1, Zenon DEF TitleIsPrompt

\* What a search or a list quotes of a session is a message its reader is shown, at
\* the time it is shown with: a hit that has a time opens its own message, and the
\* title is the first prompt that stands on a row of its own.
THEOREM QuotedHold == TranscriptsSpec => []QuotedIsShown
<1>1. MaxRows \in Nat
  BY TranscriptsAssumption
<1>2. (format \in Formats /\ Written) /\ (format = "antigravity" => AgyWritten(log)) /\ (format = "dsh" => DshWritten(log))
        => QuotedIsShown
  <2> SUFFICES ASSUME format \in Formats, Written, format = "antigravity" => AgyWritten(log),
                      format = "dsh" => DshWritten(log)
               PROVE  QuotedIsShown
    OBVIOUS
  <2>1. Len(log) \in Nat
    BY DEF Written, IsList
  <2>2. HitsLand
    BY <2>1, HitsLandAll
  <2>3. TitleIsPrompt
    BY <1>1, TitleIsAPrompt
  <2> QED  BY <2>2, <2>3 DEF QuotedIsShown
<1> QED  BY <1>2, WrittenInv, AgyWrittenInv, DshWrittenInv, PTL

-----------------------------------------------------------------------------
(* The usage of the messages, added up as they are shown *)

UsageSums(ms) ==
  LET sum[n \in 0..Len(ms)] == IF n = 0 THEN 0 ELSE sum[n - 1] + ms[n].usage
  IN sum

LEMMA UsageSumSteps ==
  ASSUME NEW ms, NEW n \in Nat, n = Len(ms), \A i \in 1..n : ms[i].usage \in Nat
  PROVE  /\ UsageSums(ms) \in [0..n -> Nat]
         /\ UsageSums(ms)[0] = 0
         /\ \A i \in 1..n : UsageSums(ms)[i] = UsageSums(ms)[i - 1] + ms[i].usage
<1> DEFINE Next1(x, i) == x + ms[i].usage
           step == [p \in Nat \X (1..n) |-> Next1(p[1], p[2])]
           Def(f) == [i \in 0..n |-> IF i = 0 THEN 0 ELSE f[i - 1] + ms[i].usage]
<1>1. 0 \in Nat
  OBVIOUS
<1>2. \A x \in Nat, i \in 1..n : Next1(x, i) \in Nat
  OBVIOUS
<1>3. step \in [Nat \X (1..n) -> Nat]
  <2> HIDE DEF Next1
  <2> QED  BY <1>2, Zenon
<1>4. \A x \in Nat, i \in 1..n : step[<<x, i>>] = Next1(x, i)
  <2> HIDE DEF Next1
  <2> QED  OBVIOUS
<1> HIDE DEF step
<1>5. PICK f : f \in [0..n -> Nat] /\ f[0] = 0 /\ \A i \in 1..n : f[i] = step[<<f[i - 1], i>>]
  <2>1. \E f : Made(Nat, 0, step, n, f)
    BY ONLY n \in Nat, <1>1, <1>3, Iterates
  <2> QED  BY <2>1 DEF Made
<1>6. \A i \in 1..n : i - 1 \in 0..n /\ i \in 0..n /\ i # 0
  OBVIOUS
<1>7. \A i \in 1..n : f[i] = Next1(f[i - 1], i)
  <2> HIDE DEF Next1
  <2> QED  BY <1>4, <1>5, <1>6
<1>8. f = Def(f)
  <2>1. ASSUME NEW i \in 0..n
        PROVE  f[i] = IF i = 0 THEN 0 ELSE f[i - 1] + ms[i].usage
    <3>1. CASE i = 0
      BY <1>5, <3>1, Zenon
    <3>2. CASE i # 0
      <4>1. i \in 1..n
        BY <3>2
      <4> QED  BY <1>7, <3>2, <4>1, Zenon
    <3> QED  BY <3>1, <3>2, Zenon
  <2>2. DOMAIN f = 0..n /\ f = [i \in DOMAIN f |-> f[i]]
    BY <1>5
  <2> QED  BY <2>1, <2>2, Zenon
<1>9. UsageSums(ms) = Def(UsageSums(ms))
  BY <1>8, Zenon DEF UsageSums
<1>10. PICK g : g = UsageSums(ms)
  OBVIOUS
<1>11. g = Def(g)
  BY <1>9, <1>10
<1>12. g[0] = 0 /\ \A i \in 1..n : g[i] = Next1(g[i - 1], i)
  <2>1. ASSUME NEW i \in 0..n
        PROVE  g[i] = IF i = 0 THEN 0 ELSE g[i - 1] + ms[i].usage
    BY <1>11, Zenon
  <2>2. 0 \in 0..n
    OBVIOUS
  <2> QED  BY <1>6, <2>1, <2>2, Zenon
<1> DEFINE Good == {i \in 0..n : g[i] \in Nat}
<1>13. 0 \in Good
  <2>1. 0 \in 0..n
    OBVIOUS
  <2> QED  BY <1>1, <1>12, <2>1
<1>14. ASSUME NEW i \in 1..n, i - 1 \in Good PROVE i \in Good
  <2> HIDE DEF Next1
  <2> QED  BY <1>2, <1>6, <1>12, <1>14
<1>15. \A i \in 0..n : g[i] \in Nat
  <2>1. \A i \in 0..n : i \in Good
    <3> HIDE DEF Good
    <3> QED  BY <1>13, <1>14, UpTo
  <2> QED  BY <2>1
<1>16. g \in [0..n -> Nat]
  BY <1>11, <1>15, Zenon
<1> QED  BY <1>10, <1>12, <1>16, Zenon

\* What messages carry that share nothing adds up to all they carry together.
PartsUpTo(parts, k) == {x \in UNION {parts[j] : j \in DOMAIN parts} : \E j \in 1..k : x \in parts[j]}

LEMMA SumOfParts ==
  ASSUME NEW ms, NEW n \in Nat, n = Len(ms), NEW parts, DOMAIN parts = 1..n,
         \A k \in 1..n : IsFiniteSet(parts[k]) /\ ms[k].usage = Cardinality(parts[k]),
         \A j \in 1..n, k \in 1..n : j < k => parts[j] \cap parts[k] = {}
  PROVE  /\ IsFiniteSet(PartsUpTo(parts, n))
         /\ UsageSums(ms)[n] = Cardinality(PartsUpTo(parts, n))
<1>1. \A k \in 1..n : ms[k].usage \in Nat
  BY FS_CardinalityType
<1>2. PICK g : /\ g = UsageSums(ms) /\ g[0] = 0
               /\ \A i \in 1..n : g[i] = g[i - 1] + ms[i].usage
  BY <1>1, UsageSumSteps
<1> DEFINE Good == {i \in 0..n : IsFiniteSet(PartsUpTo(parts, i)) /\ g[i] = Cardinality(PartsUpTo(parts, i))}
<1>3. 0 \in Good
  <2>1. PartsUpTo(parts, 0) = {}
    BY DEF PartsUpTo
  <2>2. IsFiniteSet({}) /\ Cardinality({}) = 0
    BY FS_EmptySet
  <2>3. 0 \in 0..n
    OBVIOUS
  <2> QED  BY <1>2, <2>1, <2>2, <2>3
<1>4. ASSUME NEW i \in 1..n, i - 1 \in Good PROVE i \in Good
  <2>1. PICK A, B : A = PartsUpTo(parts, i - 1) /\ B = parts[i]
    OBVIOUS
  <2>2. IsFiniteSet(A) /\ IsFiniteSet(B) /\ g[i - 1] = Cardinality(A) /\ ms[i].usage = Cardinality(B)
    BY <1>4, <2>1
  <2>3. PartsUpTo(parts, i) = A \cup B
    <3>1. \A j \in Int : j \in 1..i <=> j \in 1..(i - 1) \/ j = i
      OBVIOUS
    <3>2. i \in DOMAIN parts
      OBVIOUS
    <3>3. \A x : (\E j \in 1..i : x \in parts[j]) <=> (\E j \in 1..(i - 1) : x \in parts[j]) \/ x \in parts[i]
      BY <3>1
    <3>4. \A x : x \in parts[i] => x \in UNION {parts[j] : j \in DOMAIN parts}
      BY <3>2
    <3> QED  BY ONLY <2>1, <3>3, <3>4 DEF PartsUpTo
  <2>4. A \cap B = {}
    <3>1. \A j \in 1..(i - 1) : j \in 1..n /\ j < i
      OBVIOUS
    <3>2. \A j \in 1..(i - 1) : parts[j] \cap parts[i] = {}
      BY <3>1
    <3>3. \A x \in A : \E j \in 1..(i - 1) : x \in parts[j]
      BY <2>1 DEF PartsUpTo
    <3> QED  BY ONLY <2>1, <3>2, <3>3
  <2>5. IsFiniteSet(A \cup B) /\ Cardinality(A \cup B) = Cardinality(A) + Cardinality(B) - Cardinality(A \cap B)
    BY ONLY <2>2, FS_Union
  <2>6. Cardinality(A) \in Nat /\ Cardinality(B) \in Nat /\ Cardinality(A \cap B) = 0
    BY <2>2, <2>4, FS_CardinalityType, FS_EmptySet
  <2>7. g[i] = Cardinality(A \cup B)
    BY <1>2, <2>2, <2>5, <2>6
  <2>8. i \in 0..n
    OBVIOUS
  <2> QED  BY <2>3, <2>5, <2>7, <2>8
<1>5. \A i \in 0..n : i \in Good
  <2> HIDE DEF Good
  <2> QED  BY <1>3, <1>4, UpTo
<1>6. n \in Good
  BY <1>5
<1> QED  BY <1>2, <1>6

-----------------------------------------------------------------------------
(* The last reply, and the usage of the replies *)

LEMMA UsageIsSum == UsageShown = UsageSums(Messages)[Len(Messages)]
BY Zenon DEF UsageShown, UsageSums

\* The messages that reply
Replying(ms) == {k \in DOMAIN ms : ms[k].role = "assistant"}

LEMMA ShapeReplies ==
  ASSUME NEW ms, NEW n \in Nat, NEW rows, NEW S, NEW R, NEW Q, NEW at, NEW u, Shape(ms, n, rows, S, R, Q, at, u)
  PROVE  /\ Replying(ms) = RowPlaces(rows, R)
         /\ \A k \in DOMAIN ms : ms[k].row = rows[k] /\ rows[k] \in 1..n /\ rows[k] \in S
<1>1. DOMAIN ms = 1..Len(rows)
  BY DEF Shape
<1>2. \A k \in 1..Len(rows) : (ms[k].role = "assistant" <=> rows[k] \in R) /\ ms[k].row = rows[k] /\ rows[k] \in 1..n
  BY Zenon DEF Shape, Says
<1>3. \A k \in 1..Len(rows) : rows[k] \in S
  BY DEF Shape, Kept
<1> QED  BY ONLY <1>1, <1>2, <1>3, Zenon DEF Replying, RowPlaces

\* The row of the last message with a row of P is the last row of P, if all of them
\* are shown.
LastRow(ms, places) == IF places = {} THEN 0 ELSE ms[Max(places)].row

LEMMA ShapeLast ==
  ASSUME NEW ms, NEW n \in Nat, NEW rows, NEW S, NEW R, NEW Q, NEW at, NEW u, Shape(ms, n, rows, S, R, Q, at, u),
         NEW P \in SUBSET (1..n), P \subseteq S
  PROVE  LastRow(ms, RowPlaces(rows, P)) = Max(P \cup {0})
<1>1. Kept(S, n, rows)
  BY DEF Shape
<1>2. CASE P = {}
  <2>1. RowPlaces(rows, P) = {}
    BY <1>2 DEF RowPlaces
  <2>2. P \cup {0} = {0} /\ {0} \in SUBSET (0..n) /\ {0} # {}
    BY <1>2
  <2>3. Max({0}) \in {0}
    BY ONLY n \in Nat, <2>2, GreatestOf
  <2> QED  BY <2>1, <2>2, <2>3 DEF LastRow
<1>3. CASE P # {}
  <2>1. PICK T : T = P \cup {0} /\ T \in SUBSET (0..n) /\ T # {}
    <3>1. P \cup {0} \in SUBSET (0..n)
      OBVIOUS
    <3> QED  BY <3>1
  <2>2. PICK i : i = Max(T) /\ i \in T /\ \A y \in T : i >= y
    BY ONLY n \in Nat, <2>1, GreatestOf
  <2>3. i \in P
    <3>1. PICK p \in P : p \in 1..n
      BY <1>3
    <3> QED  BY <2>1, <2>2, <3>1
  <2>4. i \in 1..n /\ i \in S
    BY <2>3
  <2>5. \A h \in 1..n : h \in S /\ h \in P => h <= i
    <3> SUFFICES ASSUME NEW h \in 1..n, h \in P PROVE h <= i
      OBVIOUS
    <3>1. i >= h
      BY <2>1, <2>2
    <3> QED  BY <2>4, <3>1
  <2>6. RowPlaces(rows, P) # {} /\ rows[Max(RowPlaces(rows, P))] = i
    BY ONLY n \in Nat, <1>1, <2>3, <2>4, <2>5, LastPlace
  <2>7. PICK t : t = RowPlaces(rows, P) /\ t \in SUBSET (0..Len(rows)) /\ t # {} /\ t \subseteq 1..Len(rows) /\ Len(rows) \in Nat
    <3>1. RowPlaces(rows, P) \subseteq 1..Len(rows) /\ Len(rows) \in Nat
      BY DEF RowPlaces, Shape
    <3>2. RowPlaces(rows, P) \in SUBSET (0..Len(rows))
      BY <3>1
    <3> QED  BY <2>6, <3>1, <3>2
  <2>8. Max(t) \in t
    BY ONLY <2>7, GreatestOf
  <2>9. DOMAIN ms = 1..Len(rows)
    BY DEF Shape
  <2>10. ms[Max(t)].row = rows[Max(t)]
    <3>1. \A k \in DOMAIN ms : ms[k].row = rows[k]
      BY ONLY n \in Nat, Shape(ms, n, rows, S, R, Q, at, u), ShapeReplies
    <3>2. Max(t) \in DOMAIN ms
      BY <2>7, <2>8, <2>9
    <3> QED  BY <3>1, <3>2
  <2> QED  BY <2>1, <2>2, <2>6, <2>7, <2>10 DEF LastRow
<1> QED  BY <1>2, <1>3

\* As much usage as there are replies
LEMMA RepliesUsage ==
  ASSUME NEW ms, NEW L \in Nat, L = Len(ms), NEW T \in SUBSET (1..L), \A k \in 1..L : ms[k].usage = SpeaksFor(k \in T)
  PROVE  UsageSums(ms)[L] = Cardinality(T)
<1>2. PICK parts : parts = [k \in 1..L |-> {j \in T : j = k}]
  OBVIOUS
<1>3. DOMAIN parts = 1..L
  BY <1>2
<1>4. \A k \in 1..L : parts[k] = {j \in T : j = k}
  BY <1>2
<1>5. ASSUME NEW k \in 1..L PROVE IsFiniteSet(parts[k]) /\ ms[k].usage = Cardinality(parts[k])
  <2>1. ms[k].usage = SpeaksFor(k \in T)
    OBVIOUS
  <2>2. CASE k \in T
    <3>1. parts[k] = {k}
      BY <1>4, <2>2
    <3>2. IsFiniteSet({k}) /\ Cardinality({k}) = 1
      BY FS_Singleton
    <3>3. SpeaksFor(k \in T) = 1
      BY <2>2, Zenon DEF SpeaksFor
    <3> QED  BY <2>1, <3>1, <3>2, <3>3
  <2>3. CASE ~(k \in T)
    <3>1. parts[k] = {}
      BY <1>4, <2>3
    <3>2. IsFiniteSet({}) /\ Cardinality({}) = 0
      BY FS_EmptySet
    <3>3. SpeaksFor(k \in T) = 0
      BY <2>3, Zenon DEF SpeaksFor
    <3> QED  BY <2>1, <3>1, <3>2, <3>3
  <2> QED  BY <2>2, <2>3
<1>6. \A j \in 1..L, k \in 1..L : j < k => parts[j] \cap parts[k] = {}
  BY <1>4
<1>7. UsageSums(ms)[L] = Cardinality(PartsUpTo(parts, L))
  BY ONLY L \in Nat, L = Len(ms), <1>3, <1>5, <1>6, SumOfParts
<1>8. PartsUpTo(parts, L) = T
  <2>1. \A j \in T : j \in 1..L /\ j \in parts[j]
    BY <1>4
  <2>2. \A k \in 1..L : \A x \in parts[k] : x \in T
    BY <1>4
  <2>3. \A x : x \in PartsUpTo(parts, L) => x \in T
    BY <2>2 DEF PartsUpTo
  <2>4. \A x \in T : x \in PartsUpTo(parts, L)
    BY <1>3, <2>1 DEF PartsUpTo
  <2> QED  BY ONLY <2>3, <2>4
<1> QED  BY <1>7, <1>8

LEMMA ShapeUsage ==
  ASSUME NEW ms, NEW n \in Nat, NEW rows, NEW S, NEW R, NEW Q, NEW at, NEW u, Shape(ms, n, rows, S, R, Q, at, u),
         \A i \in 1..n : u[i] = SpeaksFor(i \in R)
  PROVE  UsageSums(ms)[Len(ms)] = Cardinality(RowPlaces(rows, R))
<1>1. PICK L \in Nat : L = Len(rows) /\ L = Len(ms)
  BY DEF Shape
<1>2. PICK T : T = RowPlaces(rows, R) /\ T \in SUBSET (1..L)
  <2>1. RowPlaces(rows, R) \in SUBSET (1..L)
    BY <1>1 DEF RowPlaces
  <2> QED  BY <2>1
<1>3. ASSUME NEW k \in 1..L PROVE ms[k].usage = SpeaksFor(k \in T)
  <2>1. rows[k] \in 1..n /\ ms[k].usage = u[rows[k]]
    BY <1>1, Zenon DEF Shape, Says
  <2>2. k \in T <=> rows[k] \in R
    BY <1>1, <1>2 DEF RowPlaces
  <2>3. ms[k].usage = SpeaksFor(rows[k] \in R)
    BY <2>1
  <2> QED  BY ONLY <2>2, <2>3, Zenon DEF SpeaksFor
<1> QED  BY ONLY <1>1, <1>2, <1>3, RepliesUsage

\* The final result of a source that adds up what the messages carry
LEMMA ShapeFinal ==
  ASSUME NEW ms, NEW n \in Nat, NEW rows, NEW S, NEW R, NEW Q, NEW at, NEW u, Shape(ms, n, rows, S, R, Q, at, u),
         \A i \in 1..n : u[i] = SpeaksFor(i \in R), NEW P, P = Up(S \cap R, n)
  PROVE  /\ LastRow(ms, Replying(ms)) = Max(P \cup {0})
         /\ UsageSums(ms)[Len(ms)] = Cardinality(P)
<1>1. Kept(S, n, rows)
  BY DEF Shape
<1>2. \A k \in 1..Len(rows) : rows[k] \in S /\ rows[k] \in 1..n
  BY Zenon DEF Shape, Kept
<1>3. RowPlaces(rows, R) = RowPlaces(rows, P)
  BY <1>2 DEF RowPlaces, Up
<1>4. Replying(ms) = RowPlaces(rows, P)
  <2>1. Replying(ms) = RowPlaces(rows, R)
    BY ONLY n \in Nat, Shape(ms, n, rows, S, R, Q, at, u), ShapeReplies
  <2> QED  BY <1>3, <2>1
<1>5. P \in SUBSET (1..n) /\ P \subseteq S
  BY DEF Up
<1>6. LastRow(ms, RowPlaces(rows, P)) = Max(P \cup {0})
  BY ONLY n \in Nat, Shape(ms, n, rows, S, R, Q, at, u), <1>5, ShapeLast
<1>7. UsageSums(ms)[Len(ms)] = Cardinality(RowPlaces(rows, R))
  BY ShapeUsage
<1>8. Cardinality(RowPlaces(rows, R)) = Cardinality(Up(S \cap R, n))
  BY ONLY n \in Nat, <1>1, RowPlacesCount
<1>9. Up(S \cap R, n) = P
  OBVIOUS
<1> QED  BY ONLY <1>4, <1>6, <1>7, <1>8, <1>9, Zenon

\* The finals of Claude, Gemini and Pi

LEMMA ClaudeFinalAgrees ==
  ASSUME NEW w, NEW n \in Nat, n = Len(w), NEW side
  PROVE  /\ ClaudeFinal(w, side).last = LastRow(ClaudeMessages(w, side), Replying(ClaudeMessages(w, side)))
         /\ ClaudeFinal(w, side).usage = UsageSums(ClaudeMessages(w, side))[Len(ClaudeMessages(w, side))]
<1>1. PICK ms : ms = ClaudeMessages(w, side)
  OBVIOUS
<1>2. PICK S, R : S = ClaudeShowns(w, n, side) /\ R = ClaudeReplied(w, n)
  OBVIOUS
<1>3. PICK rows, Q, at, u : Shape(ms, n, rows, S, R, Q, at, u) /\ u = EachUsed(R, n)
  BY <1>1, <1>2, ClaudeShape
<1>4. \A i \in 1..n : u[i] = SpeaksFor(i \in R)
  BY ONLY <1>3, Zenon DEF EachUsed
<1>5. PICK P : P = Up(S \cap R, n)
  OBVIOUS
<1>8. Shape(ms, n, rows, S, R, Q, at, u)
  BY <1>3
<1>6. LastRow(ms, Replying(ms)) = Max(P \cup {0}) /\ UsageSums(ms)[Len(ms)] = Cardinality(P)
  BY ONLY n \in Nat, <1>8, <1>4, <1>5, ShapeFinal
<1>7. ClaudeFinal(w, side).last = Max(P \cup {0}) /\ ClaudeFinal(w, side).usage = Cardinality(P)
  <2>1. \A r : r.type = "assistant" => (ClaudeCounts(r, side) <=> ClaudeShown(r, side))
    BY ClaudeKinds
  <2>2. {i \in {j \in 1..Len(w) : ClaudeCounts(w[j], side)} : w[i].type = "assistant"} = P
    BY <1>2, <1>5, <2>1 DEF Up, ClaudeShowns, ClaudeReplied
  <2> QED  BY <2>2 DEF ClaudeFinal
<1> QED  BY ONLY <1>1, <1>6, <1>7, Zenon

LEMMA GeminiFinalAgrees ==
  ASSUME NEW w, NEW n \in Nat, n = Len(w)
  PROVE  /\ GeminiFinal(w).last = LastRow(GeminiMessages(w), Replying(GeminiMessages(w)))
         /\ GeminiFinal(w).usage = UsageSums(GeminiMessages(w))[Len(GeminiMessages(w))]
<1>1. PICK ms : ms = GeminiMessages(w)
  OBVIOUS
<1>2. PICK S, R : S = GeminiShowns(w, n) /\ R = GeminiReplied(w, n)
  OBVIOUS
<1>3. PICK rows, Q, at, u : Shape(ms, n, rows, S, R, Q, at, u) /\ u = EachUsed(R, n)
  BY <1>1, <1>2, GeminiShape
<1>4. \A i \in 1..n : u[i] = SpeaksFor(i \in R)
  BY ONLY <1>3, Zenon DEF EachUsed
<1>5. PICK P : P = Up(S \cap R, n)
  OBVIOUS
<1>8. Shape(ms, n, rows, S, R, Q, at, u)
  BY <1>3
<1>6. LastRow(ms, Replying(ms)) = Max(P \cup {0}) /\ UsageSums(ms)[Len(ms)] = Cardinality(P)
  BY ONLY n \in Nat, <1>8, <1>4, <1>5, ShapeFinal
<1>7. GeminiFinal(w).last = Max(P \cup {0}) /\ GeminiFinal(w).usage = Cardinality(P)
  <2>1. {i \in 1..Len(w) : w[i].type = "gemini"} = P
    BY <1>2, <1>5 DEF Up, GeminiShowns, GeminiReplied, GeminiEntry
  <2> QED  BY <2>1 DEF GeminiFinal
<1> QED  BY ONLY <1>1, <1>6, <1>7, Zenon

LEMMA PiFinalAgrees ==
  ASSUME NEW w, NEW n \in Nat, n = Len(w)
  PROVE  /\ PiFinal(w).last = LastRow(PiMessages(w), Replying(PiMessages(w)))
         /\ PiFinal(w).usage = UsageSums(PiMessages(w))[Len(PiMessages(w))]
<1>1. PICK ms : ms = PiMessages(w)
  OBVIOUS
<1>2. PICK S, R : S = BlockShowns(w, n) /\ R = BlockReplied(w, n)
  OBVIOUS
<1>3. PICK rows, Q, at, u : Shape(ms, n, rows, S, R, Q, at, u) /\ u = EachUsed(R, n)
  BY <1>1, <1>2, PiShape
<1>4. \A i \in 1..n : u[i] = SpeaksFor(i \in R)
  BY ONLY <1>3, Zenon DEF EachUsed
<1>5. PICK P : P = Up(S \cap R, n)
  OBVIOUS
<1>8. Shape(ms, n, rows, S, R, Q, at, u)
  BY <1>3
<1>6. LastRow(ms, Replying(ms)) = Max(P \cup {0}) /\ UsageSums(ms)[Len(ms)] = Cardinality(P)
  BY ONLY n \in Nat, <1>8, <1>4, <1>5, ShapeFinal
<1>7. PiFinal(w).last = Max(P \cup {0}) /\ PiFinal(w).usage = Cardinality(P)
  <2>1. {i \in {j \in 1..Len(w) : w[j].type = "message"} : w[i].role = "assistant"} = P
    BY <1>2, <1>5 DEF Up, BlockShowns, BlockReplied
  <2> QED  BY <2>1 DEF PiFinal
<1> QED  BY ONLY <1>1, <1>6, <1>7, Zenon

\* The finals of dsh, Grok and Antigravity, which look through the messages
LEMMA DshFinalAgrees ==
  ASSUME NEW w, NEW n \in Nat, n = Len(w)
  PROVE  /\ DshFinal(w).last = LastRow(DshMessages(w), Replying(DshMessages(w)))
         /\ DshFinal(w).usage = UsageSums(DshMessages(w))[Len(DshMessages(w))]
<1>1. PICK ms : ms = DshMessages(w)
  OBVIOUS
<1>2. PICK R : R = DshReplied(w, n)
  OBVIOUS
<1>3. PICK rows, S, Q, at, u : Shape(ms, n, rows, S, R, Q, at, u) /\ u = DshUsages(w, n)
  BY <1>1, <1>2, DshShape
<1>4. Shape(ms, n, rows, S, R, Q, at, u)
  BY <1>3
<1>5. ASSUME NEW i \in 1..n PROVE u[i] = SpeaksFor(i \in R)
  <2>1. u[i] = DshUsed(w[i])
    BY <1>3 DEF DshUsages
  <2>2. i \in R <=> w[i].type = "assistant/message"
    BY <1>2 DEF DshReplied, DshRole
  <2> QED  BY ONLY <2>1, <2>2, Zenon DEF DshUsed, SpeaksFor
<1>6. UsageSums(ms)[Len(ms)] = Cardinality(RowPlaces(rows, R))
  BY ONLY n \in Nat, <1>4, <1>5, ShapeUsage
<1>7. Replying(ms) = RowPlaces(rows, R)
  BY ONLY n \in Nat, <1>4, ShapeReplies
<1>8. DshFinal(w).last = LastRow(ms, Replying(ms)) /\ DshFinal(w).usage = Cardinality(Replying(ms))
  BY <1>1 DEF DshFinal, LastRow, Replying
<1> QED  BY ONLY <1>1, <1>6, <1>7, <1>8

LEMMA GrokFinalAgrees ==
  ASSUME NEW w
  PROVE  GrokFinal(w).last = LastRow(GrokMessages(w), Replying(GrokMessages(w)))
BY DEF GrokFinal, LastRow, Replying

LEMMA AgyFinalAgrees ==
  ASSUME NEW w, NEW n \in Nat, n = Len(w), AgyWritten(w)
  PROVE  /\ AgyFinal(w).last = LastRow(AgyMessages(w), Replying(AgyMessages(w)))
         /\ AgyFinal(w).usage <= UsageSums(AgyMessages(w))[Len(AgyMessages(w))]
<1>1. PICK ms : ms = AgyMessages(w)
  OBVIOUS
<1>2. PICK L, steps : L \in Nat /\ AgyShape(w, n, ms, steps, L)
  BY <1>1, AgyShapeHolds
<1>3. steps = AgySteps(w) /\ DOMAIN steps = 1..L /\ DOMAIN ms = 1..L /\ Len(ms) = L
  BY <1>2 DEF AgyShape
<1>4. \A k \in 1..L : /\ ms[k].row = steps[k] /\ ms[k].usage = SpeaksFor(AgyReplies(w[steps[k]]))
                      /\ ms[k].role = "assistant" <=> AgyReplies(w[steps[k]])
  BY <1>2, Zenon DEF AgyShape, Says
<1>5. PICK T \in SUBSET (1..L) : T = {k \in DOMAIN steps : AgyRole(w[steps[k]]) = "assistant"}
  <2>1. {k \in DOMAIN steps : AgyRole(w[steps[k]]) = "assistant"} \in SUBSET (1..L)
    BY <1>3
  <2> QED  BY <2>1
<1>6. Replying(ms) = T
  BY <1>3, <1>4, <1>5 DEF Replying, AgyReplies
<1>7. \A k \in 1..L : ms[k].usage = SpeaksFor(k \in T)
  <2> SUFFICES ASSUME NEW k \in 1..L PROVE ms[k].usage = SpeaksFor(k \in T)
    OBVIOUS
  <2>1. ms[k].usage = SpeaksFor(AgyReplies(w[steps[k]]))
    BY <1>4
  <2>2. k \in T <=> AgyReplies(w[steps[k]])
    BY <1>3, <1>5 DEF AgyReplies
  <2> QED  BY ONLY <2>1, <2>2, Zenon DEF SpeaksFor
<1>8. UsageSums(ms)[L] = Cardinality(T)
  BY <1>2, <1>3, <1>7, RepliesUsage
<1>9. AgyFinal(w).last = (IF T = {} THEN 0 ELSE steps[Max(T)]) /\ AgyFinal(w).usage = Cardinality({k \in T : w[steps[k]].done})
  BY <1>3, <1>5 DEF AgyFinal
<1>10. AgyFinal(w).last = LastRow(ms, T)
  <2>1. CASE T = {}
    BY <1>9, <2>1 DEF LastRow
  <2>2. CASE T # {}
    <3>1. T \in SUBSET (0..L) /\ T # {}
      BY <1>2, <2>2
    <3>4. L \in Nat
      BY <1>2
    <3>2. Max(T) \in T
      BY ONLY <3>1, <3>4, GreatestOf
    <3>3. ms[Max(T)].row = steps[Max(T)]
      BY <1>4, <3>2
    <3> QED  BY <1>9, <2>2, <3>3 DEF LastRow
  <2> QED  BY <2>1, <2>2
<1>11. AgyFinal(w).usage <= Cardinality(T)
  <2>1. PICK D : D = {k \in T : w[steps[k]].done}
    OBVIOUS
  <2>2. D \in SUBSET T
    BY <2>1
  <2>3. IsFiniteSet(1..L)
    BY <1>2, FS_Interval
  <2>4. IsFiniteSet(T)
    BY <2>3, FS_Subset
  <2>5. Cardinality(D) <= Cardinality(T)
    BY <2>2, <2>4, FS_Subset
  <2> QED  BY <1>9, <2>1, <2>5
<1> QED  BY ONLY <1>1, <1>3, <1>6, <1>8, <1>10, <1>11

\* OpenClaw's final looks through the newest replies, and its usage is added up in
\* the database.
ClawSpoken(w, ms, tail) ==
  {k \in DOMAIN ms : /\ ms[k].role = "assistant"
                     /\ w[ms[k].row].stop \in {"stop", "error"}
                     /\ Cardinality({j \in DOMAIN ms : j > k /\ ms[j].role = "assistant"}) < tail}
ClawFits(r) == r.role = "assistant" => r.type = "message" /\ r.stop \in {"", "stop", "error", "toolUse"}

\* The rows of P after row i
After(P, i) == {j \in P : j > i}

LEMMA LaterPlaces ==
  ASSUME NEW n \in Nat, NEW S, NEW rows, Kept(S, n, rows), NEW R \in SUBSET (1..n), R \subseteq S,
         NEW k \in 1..Len(rows)
  PROVE  Cardinality({j \in 1..Len(rows) : j > k /\ rows[j] \in R}) = Cardinality(After(R, rows[k]))
<1>1. PICK L \in Nat : L = Len(rows)
  BY DEF Kept
<1>2. \A i \in 1..L, j \in 1..L : i < j => rows[i] < rows[j]
  BY <1>1 DEF Kept
<1>3. \A j \in 1..L : rows[j] \in 1..n
  BY <1>1 DEF Kept
<1>4. \A j \in 1..L : j > k <=> rows[j] > rows[k]
  <2> SUFFICES ASSUME NEW j \in 1..L PROVE j > k <=> rows[j] > rows[k]
    OBVIOUS
  <2>1. k \in 1..L /\ rows[j] \in 1..n /\ rows[k] \in 1..n
    BY <1>1, <1>3
  <2>2. k < j => rows[k] < rows[j]
    BY <1>2, <2>1
  <2>3. j < k => rows[j] < rows[k]
    BY <1>2, <2>1
  <2> QED  BY <2>1, <2>2, <2>3
<1>5. PICK P : P = After(R, rows[k])
  OBVIOUS
<1>6. {j \in 1..Len(rows) : j > k /\ rows[j] \in R} = RowPlaces(rows, P)
  BY <1>1, <1>4, <1>5 DEF RowPlaces, After
<1>7. Cardinality(RowPlaces(rows, P)) = Cardinality(Up(S \cap P, n))
  BY RowPlacesCount
<1>8. Up(S \cap P, n) = P
  BY <1>5 DEF Up, After
<1> QED  BY <1>5, <1>6, <1>7, <1>8

LEMMA ClawFinalAgrees ==
  ASSUME NEW w, NEW n \in Nat, n = Len(w), \A i \in 1..n : ClawFits(w[i]), NEW tail \in Nat
  PROVE  /\ ClawFinal(w, tail).last = LastRow(ClawMessages(w), ClawSpoken(w, ClawMessages(w), tail))
         /\ ClawUsage(w) = UsageSums(ClawMessages(w))[Len(ClawMessages(w))]
<1>1. PICK ms : ms = ClawMessages(w)
  OBVIOUS
<1>2. PICK S, R : S = BlockShowns(w, n) /\ R = BlockReplied(w, n)
  OBVIOUS
<1>3. PICK rows, Q, at, u : Shape(ms, n, rows, S, R, Q, at, u) /\ u = EachUsed(R, n)
  BY <1>1, <1>2, ClawShape
<1>8. Shape(ms, n, rows, S, R, Q, at, u)
  BY <1>3
<1>4. \A i \in 1..n : u[i] = SpeaksFor(i \in R)
  BY ONLY <1>3, Zenon DEF EachUsed
<1>5. PICK A : A = Up(S \cap R, n)
  OBVIOUS
<1>6. UsageSums(ms)[Len(ms)] = Cardinality(A)
  BY ONLY n \in Nat, <1>8, <1>4, <1>5, ShapeFinal
<1>7. ClawUsage(w) = Cardinality(A)
  <2>1. {i \in 1..Len(w) : w[i].type = "message" /\ w[i].role = "assistant"} = A
    BY <1>2, <1>5 DEF Up, BlockShowns, BlockReplied
  <2> QED  BY <2>1 DEF ClawUsage
<1>9. R \in SUBSET (1..n) /\ R \subseteq S
  BY <1>2 DEF BlockReplied, BlockShowns, ClawFits
<1>10. \A i \in R : ClawStops(w[i]) <=> w[i].stop \in {"stop", "error"}
  BY <1>2 DEF BlockReplied, ClawFits, ClawStops
<1>11. PICK P : P = {i \in R : w[i].stop \in {"stop", "error"} /\ Cardinality(After(R, i)) < tail}
  OBVIOUS
<1>12. ClawFinal(w, tail).last = Max(P \cup {0})
  <2>1. {i \in 1..Len(w) : w[i].role = "assistant"} = R
    BY <1>2 DEF BlockReplied
  <2>2. ClawFinal(w, tail).last =
          Max({i \in {j \in R : Cardinality({h \in R : h > j}) < tail} : ClawStops(w[i])} \cup {0})
    BY <2>1, Zenon DEF ClawFinal
  <2>3. {i \in {j \in R : Cardinality({h \in R : h > j}) < tail} : ClawStops(w[i])} = P
    BY <1>10, <1>11, Zenon DEF After
  <2> QED  BY <2>2, <2>3
<1>13. Kept(S, n, rows) /\ DOMAIN ms = 1..Len(rows)
  BY <1>8 DEF Shape
<1>14. Replying(ms) = RowPlaces(rows, R) /\ \A k \in DOMAIN ms : ms[k].row = rows[k] /\ rows[k] \in 1..n
  BY ONLY n \in Nat, <1>8, ShapeReplies
<1>15. ClawSpoken(w, ms, tail) = RowPlaces(rows, P)
  <2>1. \A j \in 1..Len(rows) : ms[j].role = "assistant" <=> rows[j] \in R
    BY <1>13, <1>14 DEF Replying, RowPlaces
  <2>2. ASSUME NEW k \in 1..Len(rows)
        PROVE  Cardinality({j \in DOMAIN ms : j > k /\ ms[j].role = "assistant"}) = Cardinality(After(R, rows[k]))
    <3>1. {j \in DOMAIN ms : j > k /\ ms[j].role = "assistant"} = {j \in 1..Len(rows) : j > k /\ rows[j] \in R}
      BY <1>13, <2>1
    <3>2. Cardinality({j \in 1..Len(rows) : j > k /\ rows[j] \in R}) = Cardinality(After(R, rows[k]))
      BY <1>9, <1>13, LaterPlaces
    <3> QED  BY <3>1, <3>2
  <2>3. \A k \in 1..Len(rows) : ms[k].row = rows[k]
    BY <1>13, <1>14
  <2>4. ClawSpoken(w, ms, tail) =
          {k \in 1..Len(rows) : rows[k] \in R /\ w[rows[k]].stop \in {"stop", "error"} /\ Cardinality(After(R, rows[k])) < tail}
    BY ONLY <1>13, <2>1, <2>2, <2>3, Zenon DEF ClawSpoken
  <2>5. {k \in 1..Len(rows) : rows[k] \in R /\ w[rows[k]].stop \in {"stop", "error"} /\ Cardinality(After(R, rows[k])) < tail}
          = RowPlaces(rows, P)
    BY ONLY <1>11, Zenon DEF RowPlaces
  <2> QED  BY <2>4, <2>5
<1>16. P \in SUBSET (1..n) /\ P \subseteq S
  BY <1>9, <1>11
<1>17. LastRow(ms, RowPlaces(rows, P)) = Max(P \cup {0})
  BY ONLY n \in Nat, <1>8, <1>16, ShapeLast
<1> QED  BY ONLY <1>1, <1>6, <1>7, <1>12, <1>15, <1>17, Zenon

-----------------------------------------------------------------------------
(* Codex: the last answer, and the records of usage *)

CodexSpoken(w, ms) == {k \in DOMAIN ms : ms[k].role = "assistant" /\ w[ms[k].row].sub = "assistant"}

LEMMA CodexLastAgrees ==
  ASSUME NEW w, NEW n \in Nat, n = Len(w)
  PROVE  CodexFinal(w, {}).last = LastRow(CodexMessages(w), CodexSpoken(w, CodexMessages(w)))
<1>1. PICK ms : ms = CodexMessages(w)
  OBVIOUS
<1>2. PICK S, R : S = CodexShowns(w, n) /\ R = CodexReplied(w, n)
  OBVIOUS
<1>3. PICK rows, Q, at, u : Shape(ms, n, rows, S, R, Q, at, u)
  BY <1>1, <1>2, CodexShape
<1>4. PICK P : P = {i \in 1..n : CodexCounts(w[i]) /\ w[i].sub = "assistant"}
  OBVIOUS
<1>5. CodexFinal(w, {}).last = Max(P \cup {0})
  <2>1. {i \in {j \in 1..Len(w) : CodexCounts(w[j])} : w[i].sub = "assistant"} = P
    BY <1>4
  <2> QED  BY <2>1 DEF CodexFinal
<1>6. \A i \in 1..n : i \in P <=> i \in S /\ i \in R /\ w[i].sub = "assistant"
  <2>1. \A r : r.sub = "assistant" => (CodexCounts(r) <=> CodexShown(r) /\ CodexReplies(r))
    BY DEF CodexCounts, CodexShown, CodexReplies
  <2> QED  BY <1>2, <1>4, <2>1 DEF CodexShowns, CodexReplied
<1>7. P \in SUBSET (1..n) /\ P \subseteq S
  BY <1>4, <1>6
<1>8. LastRow(ms, RowPlaces(rows, P)) = Max(P \cup {0})
  BY ONLY n \in Nat, <1>3, <1>7, ShapeLast
<1>9. Replying(ms) = RowPlaces(rows, R) /\ \A k \in DOMAIN ms : ms[k].row = rows[k] /\ rows[k] \in 1..n /\ rows[k] \in S
  BY ONLY n \in Nat, <1>3, ShapeReplies
<1>10. DOMAIN ms = 1..Len(rows)
  BY <1>3 DEF Shape
<1>11. CodexSpoken(w, ms) = RowPlaces(rows, P)
  <2>1. \A k \in 1..Len(rows) : ms[k].role = "assistant" <=> rows[k] \in R
    BY <1>9, <1>10 DEF Replying, RowPlaces
  <2>2. \A k \in 1..Len(rows) : ms[k].role = "assistant" /\ w[ms[k].row].sub = "assistant" <=> rows[k] \in P
    BY <1>6, <1>9, <1>10, <2>1
  <2> QED  BY ONLY <1>10, <2>2, Zenon DEF CodexSpoken, RowPlaces
<1> QED  BY ONLY <1>1, <1>5, <1>8, <1>11, Zenon

\* A turn's number is the number of turns up to it, and before a record of usage
\* there is a turn that has none yet.
TurnsOf(w) == {i \in 1..Len(w) : w[i].type = "turn_context"}
RecordsOf(w) == {i \in 1..Len(w) : w[i].type = "token_usage_record"}
CodexTurned(w) ==
  /\ \A i \in TurnsOf(w) : w[i].id = Cardinality(Up(TurnsOf(w), i))
  /\ \A i \in RecordsOf(w) : \E t \in TurnsOf(w) : t < i /\ \A j \in RecordsOf(w) : ~(t < j /\ j < i)

LEMMA TurnsCount ==
  ASSUME NEW w, Len(w) \in Nat, CodexTurned(w), NEW i \in TurnsOf(w)
  PROVE  /\ w[i].id \in Nat /\ w[i].id > 0
         /\ \A j \in TurnsOf(w) : j > i => w[j].id > w[i].id
<1>1. PICK T : T = TurnsOf(w) /\ T \subseteq 1..Len(w) /\ i \in T
  BY DEF TurnsOf
<1>2. ASSUME NEW j \in T PROVE w[j].id = Cardinality(Up(T, j)) /\ j \in Nat /\ IsFiniteSet(Up(T, j)) /\ Cardinality(Up(T, j)) \in Nat
  <2>1. j \in Nat
    BY <1>1
  <2>2. w[j].id = Cardinality(Up(T, j))
    BY <1>1 DEF CodexTurned
  <2> QED  BY <2>1, <2>2, UpFinite
<1>3. ASSUME NEW j \in T, NEW A, A \subseteq Up(T, j), j \notin A PROVE Cardinality(A) < Cardinality(Up(T, j))
  <2>1. PICK B : B = Up(T, j) /\ IsFiniteSet(B) /\ Cardinality(B) \in Nat
    BY <1>2
  <2>2. j \in B
    BY <1>1, <2>1 DEF Up
  <2>3. A \in SUBSET B /\ A # B
    BY <1>3, <2>1, <2>2
  <2>4. IsFiniteSet(A) /\ Cardinality(A) <= Cardinality(B) /\ (Cardinality(A) = Cardinality(B) => A = B)
    BY ONLY <2>1, <2>3, FS_Subset
  <2>5. Cardinality(A) \in Nat
    BY <2>4, FS_CardinalityType
  <2> QED  BY <2>1, <2>3, <2>4, <2>5
<1>4. w[i].id > 0
  <2>1. Cardinality({}) = 0
    BY FS_EmptySet
  <2>2. Cardinality({}) < Cardinality(Up(T, i))
    <3>1. {} \subseteq Up(T, i) /\ i \notin {}
      OBVIOUS
    <3> QED  BY <1>1, <1>3, <3>1
  <2> QED  BY <1>1, <1>2, <2>1, <2>2
<1>5. ASSUME NEW j \in T, j > i PROVE w[j].id > w[i].id
  <2>1. Up(T, i) \subseteq Up(T, j) /\ j \notin Up(T, i)
    BY <1>1, <1>5 DEF Up
  <2>2. Cardinality(Up(T, i)) < Cardinality(Up(T, j))
    BY <1>3, <2>1
  <2> QED  BY <1>1, <1>2, <2>2
<1> QED  BY <1>1, <1>2, <1>4, <1>5

\* The turn a row is in, if there is one before it
LEMMA TurnOfRow ==
  ASSUME NEW w, Len(w) \in Nat, NEW i \in 1..Len(w), NEW t \in TurnsOf(w), t <= i
  PROVE  \E s \in TurnsOf(w) : s >= t /\ s <= i /\ CodexTurn(w, i) = w[s].id
<1>1. PICK T : T = {j \in 1..i : w[j].type = "turn_context"}
  OBVIOUS
<1>2. T \in SUBSET (0..i) /\ t \in T /\ i \in Nat
  BY <1>1 DEF TurnsOf
<1>3. PICK s : s = Max(T) /\ s \in T /\ \A y \in T : s >= y
  <2>1. T # {}
    BY <1>2
  <2> QED  BY ONLY <1>2, <2>1, GreatestOf
<1>4. CodexTurn(w, i) = w[s].id
  <2>1. T # {}
    BY <1>2
  <2> QED  BY <1>1, <1>3, <2>1 DEF CodexTurn
<1>5. s \in TurnsOf(w) /\ s >= t /\ s <= i
  <2>1. s \in 1..i /\ w[s].type = "turn_context"
    BY <1>1, <1>3
  <2>2. s \in 1..Len(w)
    BY <2>1
  <2> QED  BY <1>2, <1>3, <2>1, <2>2 DEF TurnsOf
<1> QED  BY <1>4, <1>5

\* No two records are of one turn.
LEMMA RecordsDiffer ==
  ASSUME NEW w, Len(w) \in Nat, CodexTurned(w), NEW a \in RecordsOf(w)
  PROVE  /\ CodexTurn(w, a) # 0
         /\ \A b \in RecordsOf(w) : a < b => CodexTurn(w, a) # CodexTurn(w, b)
<1>1. \A r \in RecordsOf(w) : r \in 1..Len(w) /\ r \notin TurnsOf(w)
  BY DEF RecordsOf, TurnsOf
<1>2. ASSUME NEW r \in RecordsOf(w)
      PROVE  \E t \in TurnsOf(w) : t < r /\ \A j \in RecordsOf(w) : ~(t < j /\ j < r)
  BY DEF CodexTurned
<1>3. PICK t \in TurnsOf(w) : t < a
  BY <1>2
<1>4. \A s \in TurnsOf(w) : s \in Nat
  BY DEF TurnsOf
<1>5. PICK s \in TurnsOf(w) : s <= a /\ CodexTurn(w, a) = w[s].id
  <2>1. t <= a /\ a \in 1..Len(w)
    BY <1>1, <1>3, <1>4
  <2> QED  BY <2>1, TurnOfRow
<1>6. CodexTurn(w, a) # 0
  BY <1>5, TurnsCount
<1>7. ASSUME NEW b \in RecordsOf(w), a < b PROVE CodexTurn(w, a) # CodexTurn(w, b)
  <2>1. PICK v \in TurnsOf(w) : v < b /\ ~(v < a /\ a < b)
    BY <1>2
  <2>2. v > a
    BY <1>1, <1>4, <1>7, <2>1
  <2>3. PICK z \in TurnsOf(w) : z >= v /\ CodexTurn(w, b) = w[z].id
    <3>1. v <= b /\ b \in 1..Len(w)
      BY <1>1, <1>4, <2>1
    <3> QED  BY <3>1, TurnOfRow
  <2>4. z > s
    BY <1>1, <1>4, <1>5, <2>2, <2>3
  <2>5. w[z].id > w[s].id /\ w[s].id \in Nat /\ w[z].id \in Nat
    BY <2>4, TurnsCount
  <2> QED  BY <1>5, <2>3, <2>5
<1> QED  BY <1>6, <1>7

\* So the usage of every record is counted, once.
LEMMA CodexUsageIs ==
  ASSUME NEW w, Len(w) \in Nat, CodexTurned(w), \A i \in 1..Len(w) : w[i].sub # "token_count"
  PROVE  CodexUsage(w, {}) = Cardinality(RecordsOf(w))
<1>1. PICK A : A = RecordsOf(w) /\ A = {i \in 1..Len(w) : w[i].type = "token_usage_record"}
  BY DEF RecordsOf
<1>2. PICK B : B = {CodexUsageKey(w, i) : i \in A}
  OBVIOUS
<1>3. {<<"turn", t>> : t \in {}} = {}
  OBVIOUS
<1>4. {i \in 1..Len(w) : w[i].sub = "token_count"} = {}
  OBVIOUS
<1>5. B \ {<<"turn", t>> : t \in {}} = B
  BY <1>3
<1>6. CodexUsage(w, {}) = Cardinality(B)
  BY ONLY <1>1, <1>2, <1>4, <1>5, Zenon DEF CodexUsage
<1>7. \A i \in A : CodexUsageKey(w, i) = <<"turn", CodexTurn(w, i)>>
  BY <1>1, RecordsDiffer, Zenon DEF CodexUsageKey
<1>8. \A i, j \in A : CodexTurn(w, i) = CodexTurn(w, j) => i = j
  <2> SUFFICES ASSUME NEW i \in A, NEW j \in A, CodexTurn(w, i) = CodexTurn(w, j) PROVE i = j
    OBVIOUS
  <2>1. i \in 1..Len(w) /\ j \in 1..Len(w)
    BY <1>1
  <2>2. ~(i < j)
    BY <1>1, RecordsDiffer
  <2>3. ~(j < i)
    BY <1>1, RecordsDiffer
  <2> QED  BY <2>1, <2>2, <2>3
<1>9. PICK f : f = [i \in A |-> CodexUsageKey(w, i)]
  OBVIOUS
<1>10. f \in [A -> B] /\ \A k \in B : \E i \in A : f[i] = k
  BY <1>2, <1>9
<1>11. \A i, j \in A : f[i] = f[j] => i = j
  <2>1. \A x, y : <<"turn", x>> = <<"turn", y>> => x = y
    OBVIOUS
  <2>2. \A i \in A : f[i] = <<"turn", CodexTurn(w, i)>>
    BY <1>7, <1>9
  <2> QED  BY ONLY <1>8, <2>1, <2>2, Zenon
<1>12. f \in Bijection(A, B)
  <2>1. f \in Injection(A, B)
    BY <1>10, <1>11, Zenon DEF Injection, IsInjective
  <2>2. f \in Surjection(A, B)
    BY <1>10, Zenon DEF Surjection
  <2> QED  BY <2>1, <2>2, Zenon DEF Bijection
<1>13. IsFiniteSet(A)
  <2>1. IsFiniteSet(1..Len(w))
    BY FS_Interval
  <2>2. A \in SUBSET (1..Len(w))
    BY <1>1
  <2> QED  BY <2>1, <2>2, FS_Subset
<1>14. ExistsBijection(A, B)
  BY <1>12 DEF ExistsBijection
<1>15. Cardinality(B) = Cardinality(A)
  BY ONLY <1>13, <1>14, FS_Bijection
<1> QED  BY <1>1, <1>6, <1>15

CodexDue(w) == \E i \in 1..Len(w) : w[i].type = "turn_context" /\ \A j \in i + 1..Len(w) : w[j].type # "token_usage_record"

LEMMA CodexStaysTurned ==
  ASSUME NEW w, NEW n \in Nat, n = Len(w), CodexTurned(w), NEW x, NEW row, Len(x) = n + 1, x[n + 1] = row,
         \A i \in 1..n : x[i] = w[i],
         row.type = "turn_context" => row.id = Cardinality(TurnsOf(w)) + 1,
         row.type = "token_usage_record" => CodexDue(w)
  PROVE  CodexTurned(x)
<1>1. \A i \in 1..(n + 1) : i \in 1..n \/ i = n + 1
  OBVIOUS
<1>2. \A i \in 1..n : i \in 1..(n + 1) /\ i # n + 1 /\ i < n + 1
  OBVIOUS
<1>3. n + 1 \in 1..(n + 1) /\ n + 1 \notin 1..n
  OBVIOUS
<1>4. PICK T, V : T = TurnsOf(w) /\ V = TurnsOf(x)
  OBVIOUS
<1>5. /\ T \subseteq 1..n /\ \A i \in 1..n : i \in V <=> i \in T
      /\ n + 1 \in V <=> row.type = "turn_context"
      /\ V \subseteq 1..(n + 1)
  BY <1>2, <1>3, <1>4 DEF TurnsOf
<1>6. PICK A, B : A = RecordsOf(w) /\ B = RecordsOf(x)
  OBVIOUS
<1>7. /\ A \subseteq 1..n /\ \A i \in 1..n : i \in B <=> i \in A
      /\ n + 1 \in B <=> row.type = "token_usage_record"
      /\ B \subseteq 1..(n + 1)
  BY <1>2, <1>3, <1>6 DEF RecordsOf
<1>8. ASSUME NEW i \in V PROVE x[i].id = Cardinality(Up(V, i))
  <2>1. CASE i \in 1..n
    <3>1. i \in T /\ x[i] = w[i] /\ w[i].id = Cardinality(Up(T, i))
      BY <1>4, <1>5, <2>1 DEF CodexTurned
    <3>2. Up(V, i) = Up(T, i)
      <4>1. \A j \in 1..i : j \in 1..n
        BY <2>1
      <4> QED  BY <1>5, <4>1 DEF Up
    <3> QED  BY <3>1, <3>2
  <2>2. CASE i = n + 1
    <3>1. x[i].id = Cardinality(T) + 1
      BY <1>4, <1>5, <2>2
    <3>2. Up(V, n + 1) = T \cup {n + 1}
      BY <1>1, <1>2, <1>3, <1>5, <2>2 DEF Up
    <3>3. IsFiniteSet(T)
      <4>1. IsFiniteSet(1..n)
        BY FS_Interval
      <4>2. T \in SUBSET (1..n)
        BY <1>5
      <4> QED  BY <4>1, <4>2, FS_Subset
    <3>4. n + 1 \notin T
      BY <1>3, <1>5
    <3>5. Cardinality(T \cup {n + 1}) = Cardinality(T) + 1
      BY ONLY <3>3, <3>4, FS_AddElement
    <3> QED  BY <2>2, <3>1, <3>2, <3>5
  <2> QED  BY <1>1, <1>5, <2>1, <2>2
<1>9. ASSUME NEW i \in B PROVE \E t \in V : t < i /\ \A j \in B : ~(t < j /\ j < i)
  <2>1. CASE i \in 1..n
    <3>1. PICK t \in T : t < i /\ \A j \in A : ~(t < j /\ j < i)
      BY <1>4, <1>6, <1>7, <2>1 DEF CodexTurned
    <3>2. t \in V
      BY <1>5
    <3>3. \A j \in B : j < i => j \in A
      <4> SUFFICES ASSUME NEW j \in B, j < i PROVE j \in A
        OBVIOUS
      <4>1. j # n + 1
        BY <1>2, <2>1
      <4> QED  BY <1>1, <1>7, <4>1
    <3> QED  BY <3>1, <3>2, <3>3
  <2>2. CASE i = n + 1
    <3>1. PICK t \in 1..n : w[t].type = "turn_context" /\ \A j \in t + 1..n : w[j].type # "token_usage_record"
      BY <1>7, <2>2 DEF CodexDue
    <3>2. t \in V /\ t < i
      BY <1>2, <1>4, <1>5, <2>2, <3>1 DEF TurnsOf
    <3>3. ASSUME NEW j \in B, t < j, j < i PROVE FALSE
      <4>1. j \in 1..n
        BY <1>1, <1>7, <2>2, <3>3
      <4>2. j \in A /\ j \in t + 1..n
        BY <1>7, <3>3, <4>1
      <4>3. w[j].type = "token_usage_record"
        BY <1>6, <4>2 DEF RecordsOf
      <4> QED  BY <3>1, <4>2, <4>3
    <3> QED  BY <3>2, <3>3
  <2> QED  BY <1>1, <1>7, <2>1, <2>2
<1> QED  BY <1>4, <1>6, <1>8, <1>9 DEF CodexTurned

LEMMA CodexTurnedInv == TranscriptsSpec => [](format = "codex" => CodexTurned(log))
<1>1. TranscriptsInit => (format = "codex" => CodexTurned(log))
  <2> SUFFICES ASSUME TranscriptsInit PROVE CodexTurned(log)
    OBVIOUS
  <2>1. 1..Len(log) = {}
    BY DEF TranscriptsInit
  <2> QED  BY <2>1 DEF CodexTurned, TurnsOf, RecordsOf
<1>2. Written /\ (format = "codex" => CodexTurned(log)) /\ [TranscriptsNext]_transcriptVars
        => (format = "codex" => CodexTurned(log))'
  <2> SUFFICES ASSUME Written, format = "codex" => CodexTurned(log), [TranscriptsNext]_transcriptVars,
                      format' = "codex"
               PROVE  CodexTurned(log')
    BY DEF CodexTurned, TurnsOf, RecordsOf, Up
  <2>1. CASE Write
    <3>1. format = "codex" /\ CodexTurned(log)
      BY <2>1 DEF Write
    <3>2. PICK row \in MayWrite : log' = Append(log, row)
      BY <2>1 DEF Write
    <3>3. /\ Len(log') = Len(log) + 1 /\ Len(log) \in Nat
          /\ log'[Len(log) + 1] = row /\ \A i \in 1..Len(log) : log'[i] = log[i]
      BY <3>2, AppendKeepsList DEF Written, IsList
    <3>4. MayWrite = CodexMayWrite(Len(log) + 1, OpenCalls, Turns, Due, FALSE)
      BY <3>1 DEF MayWrite
    <3>5. CodexFits(row, Turns, Due, FALSE)
      BY <3>4, CodexLinesAre
    <3>6. row.type = "turn_context" => row.id = Cardinality(TurnsOf(log)) + 1
      <4>1. Turns = Cardinality(TurnsOf(log))
        BY Zenon DEF Turns, TurnsOf
      <4> QED  BY <3>5, <4>1 DEF CodexFits
    <3>7. row.type = "token_usage_record" => CodexDue(log)
      <4>1. Due => CodexDue(log)
        BY Zenon DEF Due, CodexDue
      <4> QED  BY <3>5, <4>1 DEF CodexFits
    <3> QED  BY <3>1, <3>3, <3>6, <3>7, CodexStaysTurned
  <2>2. CASE UNCHANGED transcriptVars
    BY <2>2 DEF transcriptVars
  <2> QED  BY <2>1, <2>2 DEF TranscriptsNext
<1> QED  BY <1>1, <1>2, WrittenInv, PTL DEF TranscriptsSpec

\* A record's usage is shown with the message that spoke last before it; the
\* records before any message are shown with none.
Heard(w) == {j \in RecordsOf(w) : \E i \in 1..j : CodexSpeaks(w[i])}
OwnedBy(w, i) ==
  {j \in i + 1..Len(w) : /\ CodexSpeaks(w[i]) /\ w[j].type = "token_usage_record"
                         /\ \A k \in i + 1..j : ~CodexSpeaks(w[k])}

LEMMA OwnedCounts ==
  ASSUME NEW w, Len(w) \in Nat, NEW i \in 1..Len(w)
  PROVE  IsFiniteSet(OwnedBy(w, i)) /\ CodexUsageOf(w, i, Len(w)) = Cardinality(OwnedBy(w, i))
<1>1. IsFiniteSet(OwnedBy(w, i))
  <2>1. IsFiniteSet(i + 1..Len(w))
    BY FS_Interval
  <2>2. OwnedBy(w, i) \in SUBSET (i + 1..Len(w))
    BY DEF OwnedBy
  <2> QED  BY <2>1, <2>2, FS_Subset
<1>2. CASE CodexSpeaks(w[i])
  <2>1. OwnedBy(w, i) = {j \in i + 1..Len(w) : /\ w[j].type = "token_usage_record"
                                               /\ \A k \in i + 1..j : ~CodexSpeaks(w[k])}
    BY <1>2, Zenon DEF OwnedBy
  <2> QED  BY <1>1, <1>2, <2>1, Zenon DEF CodexUsageOf
<1>3. CASE ~CodexSpeaks(w[i])
  <2>1. OwnedBy(w, i) = {}
    BY <1>3 DEF OwnedBy
  <2>2. CodexUsageOf(w, i, Len(w)) = 0
    BY <1>3, Zenon DEF CodexUsageOf
  <2>3. Cardinality({}) = 0
    BY FS_EmptySet
  <2> QED  BY <1>1, <2>1, <2>2, <2>3
<1> QED  BY <1>2, <1>3

LEMMA CodexUsageShown ==
  ASSUME NEW w, NEW n \in Nat, n = Len(w)
  PROVE  UsageSums(CodexMessages(w))[Len(CodexMessages(w))] = Cardinality(Heard(w))
<1>1. PICK ms : ms = CodexMessages(w)
  OBVIOUS
<1>2. PICK S : S = CodexShowns(w, n)
  OBVIOUS
<1>3. PICK rows, R, Q, at, u : Shape(ms, n, rows, S, R, Q, at, u) /\ u = CodexUsages(w, n)
  BY <1>1, <1>2, CodexShape
<1>4. PICK L \in Nat : L = Len(rows) /\ L = Len(ms)
  BY <1>3 DEF Shape
<1>5. Kept(S, n, rows)
  BY <1>3 DEF Shape
<1>6. \A k \in 1..L : rows[k] \in 1..n /\ ms[k].usage = u[rows[k]]
  BY <1>3, <1>4, Zenon DEF Shape, Says
<1>7. \A i \in 1..L, j \in 1..L : i < j => rows[i] < rows[j]
  BY <1>4, <1>5 DEF Kept
<1>8. \A i \in 1..n : CodexSpeaks(w[i]) => \E k \in 1..L : rows[k] = i
  <2>1. \A i \in 1..n : CodexSpeaks(w[i]) => i \in S
    BY <1>2 DEF CodexShowns, CodexSpeaks
  <2> QED  BY <1>4, <1>5, <2>1 DEF Kept
<1>9. PICK parts : parts = [k \in 1..L |-> OwnedBy(w, rows[k])]
  OBVIOUS
<1>10. DOMAIN parts = 1..L /\ \A k \in 1..L : parts[k] = OwnedBy(w, rows[k])
  BY <1>9
<1>11. ASSUME NEW k \in 1..L PROVE IsFiniteSet(parts[k]) /\ ms[k].usage = Cardinality(parts[k])
  <2>1. PICK i \in 1..n : i = rows[k]
    BY <1>6
  <2>2. u[i] = CodexUsageOf(w, i, n)
    BY <1>3 DEF CodexUsages
  <2>3. IsFiniteSet(OwnedBy(w, i)) /\ CodexUsageOf(w, i, n) = Cardinality(OwnedBy(w, i))
    BY OwnedCounts
  <2> QED  BY <1>6, <1>10, <2>1, <2>2, <2>3
<1>12. ASSUME NEW j \in 1..L, NEW k \in 1..L, j < k PROVE parts[j] \cap parts[k] = {}
  <2> SUFFICES ASSUME NEW x \in parts[j], x \in parts[k] PROVE FALSE
    OBVIOUS
  <2>1. rows[j] \in 1..n /\ rows[k] \in 1..n /\ rows[j] < rows[k]
    BY <1>6, <1>7, <1>12
  <2>2. x \in rows[j] + 1..n /\ \A h \in rows[j] + 1..x : ~CodexSpeaks(w[h])
    BY <1>10 DEF OwnedBy
  <2>3. x \in rows[k] + 1..n /\ CodexSpeaks(w[rows[k]])
    BY <1>10 DEF OwnedBy
  <2>4. rows[k] \in rows[j] + 1..x
    BY <2>1, <2>2, <2>3
  <2> QED  BY <2>2, <2>3, <2>4
<1>13. UsageSums(ms)[L] = Cardinality(PartsUpTo(parts, L))
  BY ONLY L \in Nat, <1>4, <1>10, <1>11, <1>12, SumOfParts
<1>14. PartsUpTo(parts, L) = Heard(w)
  <2>1. ASSUME NEW k \in 1..L, NEW x \in parts[k] PROVE x \in Heard(w)
    <3>1. PICK i \in 1..n : i = rows[k]
      BY <1>6
    <3>2. x \in i + 1..n /\ CodexSpeaks(w[i]) /\ w[x].type = "token_usage_record"
      BY <1>10, <3>1 DEF OwnedBy
    <3>3. i \in 1..x /\ x \in 1..n
      BY <3>2
    <3> QED  BY <3>2, <3>3 DEF Heard, RecordsOf
  <2>2. ASSUME NEW x \in Heard(w) PROVE \E k \in 1..L : x \in parts[k]
    <3>1. x \in 1..n /\ w[x].type = "token_usage_record"
      BY DEF Heard, RecordsOf
    <3>2. PICK T : T = {i \in 1..x : CodexSpeaks(w[i])}
      OBVIOUS
    <3>3. T \in SUBSET (0..x) /\ T # {} /\ x \in Nat
      BY <3>1, <3>2 DEF Heard
    <3>4. PICK i : i = Max(T) /\ i \in T /\ \A y \in T : i >= y
      BY ONLY <3>3, GreatestOf
    <3>5. i \in 1..x /\ CodexSpeaks(w[i])
      BY <3>2, <3>4
    <3>6. i # x
      BY <3>1, <3>5 DEF CodexSpeaks
    <3>7. i \in 1..n /\ x \in i + 1..n
      BY <3>1, <3>5, <3>6
    <3>8. \A h \in i + 1..x : ~CodexSpeaks(w[h])
      <4> SUFFICES ASSUME NEW h \in i + 1..x, CodexSpeaks(w[h]) PROVE FALSE
        OBVIOUS
      <4>1. h \in 1..x /\ h > i
        BY <3>7
      <4>2. i >= h
        BY <3>2, <3>4, <4>1
      <4> QED  BY <3>7, <4>1, <4>2
    <3>9. x \in OwnedBy(w, i)
      BY <3>1, <3>5, <3>7, <3>8 DEF OwnedBy
    <3>10. PICK k \in 1..L : rows[k] = i
      BY <1>8, <3>5, <3>7
    <3> QED  BY <1>10, <3>9, <3>10
  <2>3. \A x : x \in PartsUpTo(parts, L) => x \in Heard(w)
    BY <2>1 DEF PartsUpTo
  <2>4. \A x \in Heard(w) : x \in PartsUpTo(parts, L)
    BY <1>10, <2>2 DEF PartsUpTo
  <2> QED  BY ONLY <2>3, <2>4
<1> QED  BY <1>1, <1>4, <1>13, <1>14

\* All the usage that is counted is shown, but that of records before any message.
LEMMA CodexUsageAgrees ==
  ASSUME NEW w, NEW n \in Nat, n = Len(w), CodexTurned(w), \A i \in 1..n : w[i].sub # "token_count"
  PROVE  \/ CodexFinal(w, {}).usage = UsageSums(CodexMessages(w))[Len(CodexMessages(w))]
         \/ /\ CodexFinal(w, {}).usage > UsageSums(CodexMessages(w))[Len(CodexMessages(w))]
            /\ \E i \in 1..n : w[i].type = "token_usage_record" /\ \A j \in 1..i : ~CodexSpeaks(w[j])
<1>1. PICK A, B : A = RecordsOf(w) /\ B = Heard(w)
  OBVIOUS
<1>2. CodexFinal(w, {}).usage = Cardinality(A)
  <2>1. CodexFinal(w, {}).usage = CodexUsage(w, {})
    BY DEF CodexFinal
  <2> QED  BY <1>1, <2>1, CodexUsageIs
<1>3. UsageSums(CodexMessages(w))[Len(CodexMessages(w))] = Cardinality(B)
  BY <1>1, CodexUsageShown
<1>4. CASE A = B
  BY <1>2, <1>3, <1>4
<1>5. CASE A # B
  <2>1. A \in SUBSET (1..n) /\ B \in SUBSET A
    BY <1>1 DEF RecordsOf, Heard
  <2>2. IsFiniteSet(A)
    <3>1. IsFiniteSet(1..n)
      BY FS_Interval
    <3> QED  BY <2>1, <3>1, FS_Subset
  <2>3. IsFiniteSet(B) /\ Cardinality(B) <= Cardinality(A) /\ (Cardinality(A) = Cardinality(B) => A = B)
    BY ONLY <2>1, <2>2, FS_Subset
  <2>4. Cardinality(A) \in Nat /\ Cardinality(B) \in Nat
    BY <2>2, <2>3, FS_CardinalityType
  <2>5. Cardinality(A) > Cardinality(B)
    BY <1>5, <2>3, <2>4
  <2>6. PICK i \in A : i \notin B
    BY <1>5, <2>1
  <2>7. i \in 1..n /\ w[i].type = "token_usage_record" /\ \A j \in 1..i : ~CodexSpeaks(w[j])
    BY <1>1, <2>6 DEF RecordsOf, Heard
  <2> QED  BY <1>2, <1>3, <2>5, <2>7
<1> QED  BY <1>4, <1>5

-----------------------------------------------------------------------------
(* The final result, of every format *)

\* The messages the final result may be
Spoken ==
  {n \in DOMAIN Messages :
     /\ Messages[n].role = "assistant"
     /\ CASE format \in {"codex", "codex-totals"} -> log[Messages[n].row].sub = "assistant"
          [] format = "openclaw" ->
               /\ log[Messages[n].row].stop \in {"stop", "error"}
               /\ Cardinality({k \in DOMAIN Messages : k > n /\ Messages[k].role = "assistant"}) < LastReplies
          [] OTHER -> TRUE}

UsageAgrees ==
  CASE format = "codex" ->
         \/ Final.usage = UsageShown
         \/ Final.usage > UsageShown
            /\ \E i \in 1..Len(log) : /\ log[i].type = "token_usage_record"
                                      /\ \A j \in 1..i : ~CodexSpeaks(log[j])
    [] format = "antigravity" -> Final.usage <= UsageShown
    [] format = "openclaw" -> ClawUsage(log) = UsageShown
    [] format \in {"grok", "codex-totals"} -> TRUE
    [] OTHER -> Final.usage = UsageShown

LEMMA FinalParts ==
  ASSUME Final.last = LastRow(Messages, Spoken), UsageAgrees
  PROVE  FinalAgrees
BY Zenon DEF FinalAgrees, LastRow, Spoken, UsageAgrees

\* Of most formats any reply is.
LEMMA AnyReply ==
  ASSUME format \notin {"codex", "codex-totals", "openclaw"}
  PROVE  Spoken = Replying(Messages)
<1>1. PICK ms : ms = Messages
  OBVIOUS
<1>2. Spoken = {n \in DOMAIN ms : ms[n].role = "assistant"}
  BY <1>1 DEF Spoken
<1> QED  BY <1>1, <1>2 DEF Replying

LEMMA CodexReply ==
  ASSUME format \in {"codex", "codex-totals"}
  PROVE  Spoken = CodexSpoken(log, Messages)
<1>1. PICK ms : ms = Messages
  OBVIOUS
<1>2. Spoken = {n \in DOMAIN ms : ms[n].role = "assistant" /\ log[ms[n].row].sub = "assistant"}
  BY <1>1 DEF Spoken
<1> QED  BY <1>1, <1>2 DEF CodexSpoken

LEMMA ClawReply ==
  ASSUME format = "openclaw"
  PROVE  Spoken = ClawSpoken(log, Messages, LastReplies)
<1>1. PICK ms : ms = Messages
  OBVIOUS
<1>2. Spoken = {n \in DOMAIN ms : /\ ms[n].role = "assistant"
                                  /\ log[ms[n].row].stop \in {"stop", "error"}
                                  /\ Cardinality({k \in DOMAIN ms : k > n /\ ms[k].role = "assistant"}) < LastReplies}
  BY <1>1 DEF Spoken
<1> QED  BY <1>1, <1>2, Zenon DEF ClawSpoken

LEMMA FinalHeld ==
  ASSUME format \in Formats, Written, LastReplies \in Nat, format = "antigravity" => AgyWritten(log),
         format = "codex" => CodexTurned(log)
  PROVE  Final.last = LastRow(Messages, Spoken) /\ UsageAgrees
<1>1. PICK n \in Nat : n = Len(log)
  BY DEF Written, IsList
<1>2. PICK ms, u : ms = Messages /\ u = UsageShown /\ u = UsageSums(ms)[Len(ms)]
  BY UsageIsSum
<1>3. CASE format \in {"claude", "claude-sub"}
  <2>1. ms = ClaudeMessages(log, sub) /\ Final = ClaudeFinal(log, sub) /\ Spoken = Replying(ms)
    BY <1>2, <1>3, AnyReply DEF Messages, Final
  <2>2. Final.last = LastRow(ms, Replying(ms)) /\ Final.usage = u
    BY <1>1, <1>2, <2>1, ClaudeFinalAgrees
  <2> QED  BY <1>2, <1>3, <2>1, <2>2 DEF UsageAgrees
<1>4. CASE format = "gemini"
  <2>1. ms = GeminiMessages(log) /\ Final = GeminiFinal(log) /\ Spoken = Replying(ms)
    BY <1>2, <1>4, AnyReply DEF Messages, Final
  <2>2. Final.last = LastRow(ms, Replying(ms)) /\ Final.usage = u
    BY <1>1, <1>2, <2>1, GeminiFinalAgrees
  <2> QED  BY <1>2, <1>4, <2>1, <2>2 DEF UsageAgrees
<1>5. CASE format = "pi"
  <2>1. ms = PiMessages(log) /\ Final = PiFinal(log) /\ Spoken = Replying(ms)
    BY <1>2, <1>5, AnyReply DEF Messages, Final
  <2>2. Final.last = LastRow(ms, Replying(ms)) /\ Final.usage = u
    BY <1>1, <1>2, <2>1, PiFinalAgrees
  <2> QED  BY <1>2, <1>5, <2>1, <2>2 DEF UsageAgrees
<1>6. CASE format = "dsh"
  <2>1. ms = DshMessages(log) /\ Final = DshFinal(log) /\ Spoken = Replying(ms)
    BY <1>2, <1>6, AnyReply DEF Messages, Final
  <2>2. Final.last = LastRow(ms, Replying(ms)) /\ Final.usage = u
    BY <1>1, <1>2, <2>1, DshFinalAgrees
  <2> QED  BY <1>2, <1>6, <2>1, <2>2 DEF UsageAgrees
<1>7. CASE format = "grok"
  <2>1. ms = GrokMessages(log) /\ Final = GrokFinal(log) /\ Spoken = Replying(ms)
    BY <1>2, <1>7, AnyReply DEF Messages, Final
  <2>2. Final.last = LastRow(ms, Replying(ms))
    BY <2>1, GrokFinalAgrees
  <2> QED  BY <1>2, <1>7, <2>1, <2>2 DEF UsageAgrees
<1>8. CASE format = "antigravity"
  <2>1. ms = AgyMessages(log) /\ Final = AgyFinal(log) /\ Spoken = Replying(ms)
    BY <1>2, <1>8, AnyReply DEF Messages, Final
  <2>2. Final.last = LastRow(ms, Replying(ms)) /\ Final.usage <= u
    BY <1>1, <1>2, <1>8, <2>1, AgyFinalAgrees
  <2> QED  BY <1>2, <1>8, <2>1, <2>2 DEF UsageAgrees
<1>9. CASE format = "openclaw"
  <2>1. ms = ClawMessages(log) /\ Final = ClawFinal(log, LastReplies) /\ Spoken = ClawSpoken(log, ms, LastReplies)
    BY <1>2, <1>9, ClawReply DEF Messages, Final
  <2>2. \A i \in 1..n : ClawFits(log[i])
    BY <1>1, <1>9 DEF Written, RowFits, ClawFits
  <2>3. Final.last = LastRow(ms, Spoken) /\ ClawUsage(log) = u
    BY <1>1, <1>2, <2>1, <2>2, ClawFinalAgrees
  <2> QED  BY <1>2, <1>9, <2>3 DEF UsageAgrees
<1>10. CASE format \in {"codex", "codex-totals"}
  <2>1. ms = CodexMessages(log) /\ Final = CodexFinal(log, {}) /\ Spoken = CodexSpoken(log, ms)
    BY <1>2, <1>10, CodexReply DEF Messages, Final
  <2>2. Final.last = LastRow(ms, Spoken)
    BY <1>1, <2>1, CodexLastAgrees
  <2>3. CASE format = "codex-totals"
    BY <1>2, <2>2, <2>3 DEF UsageAgrees
  <2>4. CASE format = "codex"
    <3>1. \A i \in 1..n : log[i].sub # "token_count"
      BY <1>1, <2>4 DEF Written, RowFits
    <3>2. \/ Final.usage = u
          \/ /\ Final.usage > u
             /\ \E i \in 1..n : log[i].type = "token_usage_record" /\ \A j \in 1..i : ~CodexSpeaks(log[j])
      BY <1>1, <1>2, <2>1, <2>4, <3>1, CodexUsageAgrees
    <3> QED  BY <1>1, <1>2, <2>2, <2>4, <3>2 DEF UsageAgrees
  <2> QED  BY <1>10, <2>3, <2>4
<1> QED  BY <1>3, <1>4, <1>5, <1>6, <1>7, <1>8, <1>9, <1>10 DEF Formats

\* The final result of a session names the last answer among its messages, whatever
\* the format (OpenClaw's, among its newest replies).  The usage it reports is what
\* the messages carry in Claude Code, Gemini, Pi and dsh, and in Codex where records
\* keyed by their turns have a reply before them; OpenClaw's is that of its report,
\* Antigravity adds up the steps that are done, and of Grok and Codex with running
\* totals nothing is said.  (readFinal of each source, Usage of OpenClaw.)
THEOREM FinalHolds == TranscriptsSpec => []FinalAgrees
<1>1. LastReplies \in Nat
  BY TranscriptsAssumption
<1>2. (format \in Formats /\ Written) /\ (format = "antigravity" => AgyWritten(log))
        /\ (format = "codex" => CodexTurned(log)) => FinalAgrees
  <2> SUFFICES ASSUME format \in Formats, Written, format = "antigravity" => AgyWritten(log),
                      format = "codex" => CodexTurned(log)
               PROVE  FinalAgrees
    OBVIOUS
  <2>1. Final.last = LastRow(Messages, Spoken) /\ UsageAgrees
    BY <1>1, FinalHeld
  <2> QED  BY <2>1, FinalParts
<1> QED  BY <1>2, WrittenInv, AgyWrittenInv, CodexTurnedInv, PTL

=============================================================================
