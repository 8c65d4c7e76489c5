----------------------------- MODULE DaemonStart -----------------------------
(***************************************************************************)
(* -d: the parent that starts the server in the background and has to say  *)
(* whether it runs (startDaemon of internal/app/daemon.go).  It watches the *)
(* child and the port at once, as the port may be answered by somebody      *)
(* else, and gives the child a moment after the port has answered.          *)
(*                                                                         *)
(* The clock's unit is the interval between two probes.  What a channel     *)
(* brings to a waiting select is taken before the clock moves.              *)
(***************************************************************************)
EXTENDS Integers

CONSTANTS
  ProbeTimeout,  \* daemonProbeTimeout, in intervals
  SettleDelay,   \* daemonSettleDelay, in intervals
  MaxBind,       \* the longest a child takes to listen or to give up
  MaxNow         \* bound: the clock

ASSUME DaemonAssumption ==
  /\ ProbeTimeout \in Nat /\ SettleDelay \in Nat /\ MaxBind \in Nat /\ MaxNow \in Nat

VARIABLES
  now,        \* the clock
  parent,     \* startDaemon: its place, or what it said
  born,       \* when the child was started
  child,      \* the child: none, starting, listening, dead; or it listened and is dead
  other,      \* another program answers on the port
  exits,      \* cmd.Wait has returned: the channel exited
  probed,     \* what waitForListen has returned, if it has: the channel listening
  retry,      \* when the next probe is due
  settle      \* when the moment given to the child is over

daemonVars == <<now, parent, born, child, other, exits, probed, retry, settle>>

-----------------------------------------------------------------------------
(* The child, and whoever else has the port *)

Bound == child = "listening"

\* A port that somebody has cannot be bound.
Bind ==
  /\ child = "starting" /\ ~other
  /\ child' = "listening"
  /\ UNCHANGED <<now, parent, born, other, exits, probed, retry, settle>>

Die ==
  /\ child \in {"starting", "listening"}
  /\ child' = IF Bound THEN "stopped" ELSE "dead"
  /\ UNCHANGED <<now, parent, born, other, exits, probed, retry, settle>>

OtherProgram ==
  /\ ~Bound
  /\ other' = ~other
  /\ UNCHANGED <<now, parent, born, child, exits, probed, retry, settle>>

-----------------------------------------------------------------------------
(* startDaemon *)

StartChild ==
  /\ parent = "idle"
  /\ parent' = "watching" /\ child' = "starting" /\ born' = now /\ retry' = now
  /\ UNCHANGED <<now, other, exits, probed, settle>>

\* The goroutine behind exited
WaitReturns ==
  /\ child \in {"dead", "stopped"} /\ ~exits
  /\ exits' = TRUE
  /\ UNCHANGED <<now, parent, born, child, other, probed, retry, settle>>

\* waitForListen: a probe, and another one an interval later
ProbeDue == parent # "idle" /\ probed = "no" /\ now = retry
Probe ==
  /\ ProbeDue
  /\ \/ /\ now - born >= ProbeTimeout
        /\ probed' = "timeout" /\ UNCHANGED retry
     \/ /\ now - born < ProbeTimeout /\ (Bound \/ other)
        /\ probed' = "answered" /\ UNCHANGED retry
     \/ /\ now - born < ProbeTimeout /\ ~Bound /\ ~other
        /\ retry' = now + 1 /\ UNCHANGED probed
  /\ UNCHANGED <<now, parent, born, child, other, exits, settle>>

SeesExit ==
  /\ parent = "watching" /\ exits
  /\ parent' = "saidExited"
  /\ UNCHANGED <<now, born, child, other, exits, probed, retry, settle>>

SeesTimeout ==
  /\ parent = "watching" /\ probed = "timeout"
  /\ parent' = "saidNeverListened"
  /\ UNCHANGED <<now, born, child, other, exits, probed, retry, settle>>

\* mutant: a port that answers is the child's
SeesPortAndBelieves ==
  /\ parent = "watching" /\ probed = "answered"
  /\ parent' = "saidStarted" /\ settle' = now
  /\ UNCHANGED <<now, born, child, other, exits, probed, retry>>

SeesPort ==
  /\ parent = "watching" /\ probed = "answered"
  /\ parent' = "settling" /\ settle' = now + SettleDelay
  /\ UNCHANGED <<now, born, child, other, exits, probed, retry>>

SeesExitLate ==
  /\ parent = "settling" /\ exits
  /\ parent' = "saidExited"
  /\ UNCHANGED <<now, born, child, other, exits, probed, retry, settle>>

Settled ==
  /\ parent = "settling" /\ now = settle
  /\ parent' = "saidStarted"
  /\ UNCHANGED <<now, born, child, other, exits, probed, retry, settle>>

Ready ==
  \/ ProbeDue
  \/ child \in {"dead", "stopped"} /\ ~exits
  \/ parent = "watching" /\ (exits \/ probed # "no")
  \/ parent = "settling" /\ (exits \/ now = settle)
  \/ child = "starting" /\ now - born >= MaxBind

Pass ==
  /\ now < MaxNow /\ ~Ready
  /\ now' = now + 1
  /\ UNCHANGED <<parent, born, child, other, exits, probed, retry, settle>>

-----------------------------------------------------------------------------
DaemonInit ==
  /\ now = 0 /\ parent = "idle" /\ born = 0 /\ child = "none" /\ other \in BOOLEAN
  /\ exits = FALSE /\ probed = "no" /\ retry = 0 /\ settle = 0

DaemonNext ==
  \/ Bind \/ Die \/ OtherProgram
  \/ StartChild \/ WaitReturns \/ Probe
  \/ SeesExit \/ SeesTimeout \/ SeesPort \/ SeesExitLate \/ Settled
  \/ Pass

DaemonSpec == DaemonInit /\ [][DaemonNext]_daemonVars

-----------------------------------------------------------------------------
(* Properties *)

\* What the parent says is so, whatever else answers on the port and however the
\* child's end, the probe's answer and the timer meet: "Started" is not said of a
\* child that never listened, nor a failed start of one that is alive and answers.
\* "the port comes up, and the child is still alive" (daemon.go:62-66, 86-87).  It
\* rests on a child that listens or gives up within the moment it is given,
\* and a probe before the last: MaxBind below SettleDelay and ProbeTimeout - 1.
DaemonVerdict ==
  /\ parent = "saidStarted" => child \in {"listening", "stopped"}
  /\ parent = "saidExited" => child \in {"dead", "stopped"}
  /\ parent = "saidNeverListened" => ~Bound
=============================================================================
