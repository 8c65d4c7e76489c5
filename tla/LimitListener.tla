---------------------------- MODULE LimitListener ----------------------------
(***************************************************************************)
(* The connection limit of internal/app/http.go between the kernel's       *)
(* backlog and http.Server: an accept loop in a goroutine of its own, one  *)
(* more goroutine per queued connection, and the permits that closing a    *)
(* connection gives back.  With it the end of Run in run.go: the signal,   *)
(* the shutdown, and the process's exit once Serve has returned.           *)
(***************************************************************************)
EXTENDS Integers, FiniteSets

CONSTANTS
  Conns,          \* connections clients open
  MaxConnections, \* --max-connections
  QueueSlots,     \* acceptQueueDepth
  MayFail,        \* whether the kernel's accept may fail for a while (no free descriptor)
  MayStop         \* whether the process may be told to stop

ASSUME LimitAssumption ==
  /\ MaxConnections \in Nat \ {0} /\ QueueSlots \in Nat \ {0}
  /\ MayFail \in BOOLEAN /\ MayStop \in BOOLEAN

VARIABLES
  place,    \* where each connection is
  sem,      \* permits taken
  slots,    \* queue slots taken, by the connection whose goroutine took it
  loop,     \* acceptLoop: about to accept, select, hand over a connection, or gone
  failed,   \* the error in the channel of that name
  err,      \* the error Accept keeps
  serve,    \* http.Server.Serve: in Accept, asleep after a passing error, returned
  shutdown, \* http.Server.Shutdown: not called, waiting, done, or out of time
  exited,   \* Run has returned
  active, badRequests \* the counters of apiServer

vars == <<place, sem, slots, loop, failed, err, serve, shutdown, exited, active, badRequests>>
errVars == <<failed, err>>
stopVars == <<shutdown, exited>>
statVars == <<active, badRequests>>

Errors == {"none", "temporary", "closed"}
Places == {"outside", "backlog", "looped", "direct", "queued", "admitted", "late",
           "serving", "closing", "closed", "rejected"}

At(p) == {c \in Conns : place[c] = p}
Move(c, p) == place' = [place EXCEPT ![c] = p]

-----------------------------------------------------------------------------
(* The kernel *)

Arrive(c) ==
  /\ place[c] = "outside" /\ shutdown = "none"
  /\ Move(c, "backlog")
  /\ UNCHANGED <<sem, slots, loop, errVars, serve, stopVars, statVars>>

(* acceptLoop *)

AcceptInner(c) ==
  /\ loop = "accept" /\ shutdown = "none" /\ place[c] = "backlog"
  /\ loop' = "select"
  /\ Move(c, "looped")
  /\ UNCHANGED <<sem, slots, errVars, serve, stopVars, statVars>>

\* Any error of the inner listener ends the loop.
AcceptFails ==
  /\ loop = "accept"
  /\ \/ MayFail /\ failed' = "temporary"
     \/ shutdown # "none" /\ failed' = "closed"
  /\ loop' = "gone"
  /\ UNCHANGED <<place, sem, slots, err, serve, stopVars, statVars>>

\* mutant: one permit too many
TakeOneMore == sem <= MaxConnections /\ sem' = sem + 1
TakePermit == sem < MaxConnections /\ sem' = sem + 1

\* Where both a permit and a queue slot are free, select takes either.
AdmitStraight(c) ==
  /\ loop = "select" /\ place[c] = "looped"
  /\ TakePermit
  /\ Move(c, "direct")
  /\ loop' = "hand"
  /\ UNCHANGED <<slots, errVars, serve, stopVars, statVars>>

Enqueue(c) ==
  /\ loop = "select" /\ place[c] = "looped"
  /\ Cardinality(slots) < QueueSlots
  /\ slots' = slots \cup {c}
  /\ Move(c, "queued")
  /\ loop' = "accept"
  /\ UNCHANGED <<sem, errVars, serve, stopVars, statVars>>

Reject(c) ==
  /\ Move(c, "rejected")
  /\ badRequests' = badRequests + 1

\* mutant: the loop ends with the first connection it cannot take
RefuseAndReturn(c) ==
  /\ loop = "select" /\ place[c] = "looped"
  /\ sem = MaxConnections /\ Cardinality(slots) = QueueSlots
  /\ Reject(c)
  /\ loop' = "gone"
  /\ UNCHANGED <<sem, slots, errVars, serve, stopVars, active>>

Refuse(c) ==
  /\ loop = "select" /\ place[c] = "looped"
  /\ sem = MaxConnections /\ Cardinality(slots) = QueueSlots
  /\ Reject(c)
  /\ loop' = "accept"
  /\ UNCHANGED <<sem, slots, errVars, serve, stopVars, active>>

-----------------------------------------------------------------------------
(* admit, in the goroutine of a queued connection *)

GetPermit(c) ==
  /\ place[c] = "queued"
  /\ TakePermit
  /\ Move(c, "admitted")
  /\ UNCHANGED <<slots, loop, errVars, serve, stopVars, statVars>>

TimeOut(c) ==
  /\ place[c] = "queued"
  /\ Move(c, "late")
  /\ UNCHANGED <<sem, slots, loop, errVars, serve, stopVars, statVars>>

RejectLate(c) ==
  /\ place[c] = "late"
  /\ Reject(c)
  /\ UNCHANGED <<sem, slots, loop, errVars, serve, stopVars, active>>

\* The deferred release of the queue slot, after the hand-over or the 503.
LeaveQueue(c) ==
  /\ c \in slots /\ place[c] \notin {"queued", "admitted", "late"}
  /\ slots' = slots \ {c}
  /\ UNCHANGED <<place, sem, loop, errVars, serve, stopVars, statVars>>

-----------------------------------------------------------------------------
(* Accept, called by http.Server.Serve *)

\* The rendezvous on ready, and connState with StateNew.
HandOver(c) ==
  /\ serve = "accept" /\ err = "none"
  /\ place[c] \in {"direct", "admitted"}
  /\ Move(c, "serving")
  /\ loop' = IF place[c] = "direct" THEN "accept" ELSE loop
  /\ active' = active + 1
  /\ UNCHANGED <<sem, slots, errVars, serve, stopVars, badRequests>>

\* Serve gives up on a closed listener or in a shutdown, and retries otherwise.
ServeFails(e) ==
  serve' = IF e = "closed" \/ shutdown # "none" THEN "returned" ELSE "asleep"

AcceptReturnsError ==
  /\ serve = "accept"
  /\ \/ err = "none" /\ failed # "none" /\ err' = failed /\ failed' = "none"
     \/ err # "none" /\ UNCHANGED errVars
  /\ ServeFails(err')
  /\ UNCHANGED <<place, sem, slots, loop, stopVars, statVars>>

Retry ==
  /\ serve = "asleep"
  /\ serve' = "accept"
  /\ UNCHANGED <<place, sem, slots, loop, errVars, stopVars, statVars>>

-----------------------------------------------------------------------------
(* The end of a connection: releaseConn.Close, then connState with StateClosed *)

\* mutant: every Close releases
ReleaseAlways(c) == sem > 0 /\ sem' = sem - 1
ReleaseOnce(c) == sem' = IF place[c] = "serving" THEN sem - 1 ELSE sem

\* http.Server may close a connection more than once.
Close(c) ==
  /\ place[c] \in {"serving", "closing"}
  /\ ReleaseOnce(c)
  /\ Move(c, "closing")
  /\ UNCHANGED <<slots, loop, errVars, serve, stopVars, statVars>>

StateClosed(c) ==
  /\ place[c] = "closing"
  /\ Move(c, "closed")
  /\ active' = active - 1
  /\ UNCHANGED <<sem, slots, loop, errVars, serve, stopVars, badRequests>>

-----------------------------------------------------------------------------
(* The end of Run *)

Signal ==
  /\ MayStop /\ shutdown = "none"
  /\ shutdown' = "waiting"
  /\ UNCHANGED <<place, sem, slots, loop, errVars, serve, exited, statVars>>

ShutdownReturns ==
  /\ shutdown = "waiting"
  /\ \/ At("serving") \cup At("closing") = {} /\ shutdown' = "done"
     \/ shutdown' = "expired"
  /\ UNCHANGED <<place, sem, slots, loop, errVars, serve, exited, statVars>>

Exit ==
  /\ serve = "returned"
  /\ exited' = TRUE
  /\ UNCHANGED <<place, sem, slots, loop, errVars, serve, shutdown, statVars>>

-----------------------------------------------------------------------------
Init ==
  /\ place = [c \in Conns |-> "outside"]
  /\ sem = 0 /\ slots = {}
  /\ loop = "accept" /\ failed = "none" /\ err = "none" /\ serve = "accept"
  /\ shutdown = "none" /\ exited = FALSE
  /\ active = 0 /\ badRequests = 0

AcceptLoop ==
  \/ AcceptFails
  \/ \E c \in Conns : AcceptInner(c) \/ AdmitStraight(c) \/ Enqueue(c) \/ Refuse(c)
Admit(c) == GetPermit(c) \/ TimeOut(c) \/ RejectLate(c) \/ LeaveQueue(c)
Serve == AcceptReturnsError \/ Retry \/ \E c \in Conns : HandOver(c)
Handle(c) == Close(c) \/ StateClosed(c)

Next ==
  /\ ~exited
  /\ \/ \E c \in Conns : Arrive(c) \/ Admit(c) \/ Handle(c)
     \/ AcceptLoop \/ Serve
     \/ Signal \/ ShutdownReturns \/ Exit

\* Goroutines run; the timer of admit fires; the server's read, write and idle
\* timeouts end every connection it serves.
Fairness ==
  /\ WF_vars(~exited /\ AcceptLoop) /\ WF_vars(~exited /\ Serve) /\ WF_vars(~exited /\ Exit)
  /\ \A c \in Conns : WF_vars(~exited /\ Admit(c)) /\ WF_vars(~exited /\ Handle(c))

Spec == Init /\ [][Next]_vars /\ Fairness

-----------------------------------------------------------------------------
(* Properties *)

\* limitListener "caps how many connections are being handled at once"
\* (http.go:1057), however connections close, close twice, time out in the
\* queue or are handed over late.
HandledWithinCap == Cardinality(At("serving")) <= MaxConnections

\* No permit is lost: a permit is out only for a connection that is being
\* handed over or handled, so the capacity comes back when they end.
NoPermitLost == sem = Cardinality(At("direct") \cup At("admitted") \cup At("serving"))

\* The cap is the cap: it is never exceeded and never shrinks.
CapKept == HandledWithinCap /\ NoPermitLost

\* Every connection the kernel took is served to its end or gets its 503
\* (api.md:74), whatever the others do, unless the listener fails or the
\* process is told to stop.
EveryConnectionEnds ==
  \A c \in Conns : place[c] = "backlog" ~>
    place[c] \in {"closed", "rejected"} \/ shutdown # "none" \/ failed # "none" \/ err # "none"

\* admit "hands the connection over once it gets one [a permit]"
\* (http.go:1132).
HandedOver ==
  \A c \in Conns : place[c] = "admitted" ~> place[c] \in {"serving", "closing", "closed"}

\* "Ctrl+C arrives as os.Interrupt, and graceful shutdown works as usual"
\* (internals.md:793-794): a process told to stop does not exit while it is
\* serving a connection, unless Shutdown has run out of its five seconds.
ExitsGracefully == exited /\ shutdown # "none" => At("serving") = {} \/ shutdown = "expired"
=============================================================================
