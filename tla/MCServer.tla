------------------------------- MODULE MCServer -------------------------------
(***************************************************************************)
(* The server as a process: four parts that share no state, checked one at *)
(* a time.  How it is started in the background, which sources it serves,  *)
(* what a labelled one of them lists, and how many connections at once.    *)
(***************************************************************************)
EXTENDS LimitListener, DaemonStart, SourceResolver, LabeledSource

MCModes == <<"openclaw", "claude">>
MCLabels == <<"claude:box">>

VARIABLE part  \* the one that moves

serverVars == <<part, vars, daemonVars, resolverVars, labelVars>>

ServerInit ==
  /\ part \in {"daemon", "sources", "labels", "connections"}
  /\ DaemonInit /\ ResolverInit /\ LabelInit /\ Init
  /\ part # "daemon" => ~other
  /\ part # "sources" => disk = {} /\ named = "auto"

DaemonStep == part = "daemon" /\ DaemonNext /\ UNCHANGED <<part, vars, resolverVars, labelVars>>
ResolverStep == part = "sources" /\ ResolverNext /\ UNCHANGED <<part, vars, daemonVars, labelVars>>
LabelStep == part = "labels" /\ LabelNext /\ UNCHANGED <<part, vars, daemonVars, resolverVars>>
LimitStep == part = "connections" /\ Next /\ UNCHANGED <<part, daemonVars, resolverVars, labelVars>>

ServerNext == DaemonStep \/ ResolverStep \/ LabelStep \/ LimitStep

\* The fairness of the connections
Runs == part = "connections" /\ ~exited

ServerSpec ==
  /\ ServerInit /\ [][ServerNext]_serverVars
  /\ WF_vars(Runs /\ AcceptLoop) /\ WF_vars(Runs /\ Serve) /\ WF_vars(Runs /\ Exit)
  /\ \A c \in Conns : WF_vars(Runs /\ Admit(c)) /\ WF_vars(Runs /\ Handle(c))
=============================================================================
