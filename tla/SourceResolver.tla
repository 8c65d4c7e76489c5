---------------------------- MODULE SourceResolver ----------------------------
(***************************************************************************)
(* Which sources serve a request (NewResolver and resolver.Sources of       *)
(* internal/source/source.go), while the CLIs' directories appear, go and   *)
(* come back.  In auto and all every call looks again; a source that was    *)
(* there once is the same instance ever after, with its caches and its last *)
(* error.                                                                  *)
(*                                                                         *)
(* A source is an instance: its mode, the stores it reads, which are chosen *)
(* when it is made, and a number of its own.                               *)
(***************************************************************************)
EXTENDS SequencesExt, Integers

CONSTANTS
  Modes,       \* KnownModes, a sequence
  Databases,   \* OpenClaw's databases; its other form is the store "openclaw"
  Labels,      \* the modes of labelled --path instances, a sequence
  MaxMoves     \* bound: changes of what is on disk

ASSUME ResolverAssumption ==
  /\ Modes \in Seq(STRING) /\ Labels \in Seq(STRING)
  /\ "openclaw" \in Range(Modes) /\ "auto" \notin Range(Modes)
  /\ Range(Modes) \cap Databases = {} /\ Range(Modes) \cap Range(Labels) = {}
  /\ IsInjective(Modes) /\ IsInjective(Labels)  \* no label is given twice
  /\ MaxMoves \in Nat

VARIABLES
  disk,      \* the stores that exist
  moves,     \* how often that changed
  named,     \* the mode asked for, or auto
  live,      \* mode -> the instance remembered
  fallback,  \* the instance behind nothing detected
  made,      \* instances so far
  next,      \* the mode looked at, 0 when nobody asks
  enabled,   \* what the call has found so far
  steady,    \* the stores that have not changed since the call began
  answer,    \* what the last call returned
  served     \* every instance a call has returned

resolverVars == <<disk, moves, named, live, fallback, made, next, enabled, steady, answer, served>>

-----------------------------------------------------------------------------
Stores == Range(Modes) \cup Databases
Nobody == [mode |-> "nobody", reads |-> {}, id |-> 0]

\* A CLI is used for the first time, or its directory is removed or unmounted.
StoreMoves(s) ==
  /\ moves < MaxMoves /\ moves' = moves + 1
  /\ disk' = IF s \in disk THEN disk \ {s} ELSE disk \cup {s}
  /\ steady' = steady \ {s}
  /\ UNCHANGED <<named, live, fallback, made, next, enabled, answer, served>>

\* defaultSource: OpenClaw's databases where there are any, as they are now
ReadsOf(m) == IF m = "openclaw" /\ disk \cap Databases # {} THEN disk \cap Databases ELSE {m}
AtSource(m) == [mode |-> m, reads |-> ReadsOf(m), id |-> made + 1]

\* Exists: a directory is looked for; the databases a source was made with are not.
Exists(src) == src.reads \subseteq Databases \/ src.reads \subseteq disk

Extras == [n \in DOMAIN Labels |-> [mode |-> Labels[n], reads |-> {}, id |-> -n]]

-----------------------------------------------------------------------------
(* Sources; its mutex is held from the first mode to the last *)

Return(sources) == answer' = sources /\ served' = served \cup Range(sources)

\* A named mode was resolved once, with what was on disk then.
BeginSources ==
  /\ next = 0
  /\ IF named = "auto"
       THEN next' = 1 /\ enabled' = <<>> /\ UNCHANGED <<answer, served>>
       ELSE Return(<<live[named]>> \o Extras) /\ UNCHANGED <<next, enabled>>
  /\ steady' = Stores
  /\ UNCHANGED <<disk, moves, named, live, fallback, made>>

\* mutant: a source that is gone is forgotten
LookAfresh(m) ==
  LET src == AtSource(m) IN
  IF Exists(src) THEN enabled' = Append(enabled, src) /\ live' = [live EXCEPT ![m] = src] /\ made' = made + 1
                 ELSE live' = [live EXCEPT ![m] = Nobody] /\ UNCHANGED <<enabled, made>>

LookAt(m) ==
  LET src == IF live[m] = Nobody THEN AtSource(m) ELSE live[m] IN
  IF Exists(src)
    THEN /\ enabled' = Append(enabled, src)
         /\ live' = [live EXCEPT ![m] = src]
         /\ made' = IF live[m] = Nobody THEN made + 1 ELSE made
    ELSE UNCHANGED <<enabled, live, made>>

LookNext ==
  /\ next \in DOMAIN Modes
  /\ LookAt(Modes[next])
  /\ next' = next + 1
  /\ UNCHANGED <<disk, moves, named, fallback, steady, answer, served>>

\* With nothing detected, OpenClaw serves, from one instance.
EndSources ==
  /\ next > Len(Modes)
  /\ LET found == enabled \o Extras
         src == IF fallback = Nobody THEN AtSource("openclaw") ELSE fallback
     IN IF found # <<>>
          THEN Return(found) /\ UNCHANGED <<fallback, made>>
          ELSE /\ Return(<<src>>) /\ fallback' = src
               /\ made' = IF fallback = Nobody THEN made + 1 ELSE made
  /\ next' = 0
  /\ UNCHANGED <<disk, moves, named, live, enabled, steady>>

-----------------------------------------------------------------------------
\* The start: a named mode has its source at once, whether it exists or not.
ResolverInit ==
  /\ disk \in SUBSET Stores /\ moves = 0
  /\ named \in Range(Modes) \cup {"auto"}
  /\ made = (IF named = "auto" THEN 0 ELSE 1)
  /\ live = [m \in Range(Modes) |->
              IF m = named
                THEN [mode |-> m, id |-> 1,
                      reads |-> IF m = "openclaw" /\ disk \cap Databases # {} THEN disk \cap Databases ELSE {m}]
                ELSE Nobody]
  /\ fallback = Nobody
  /\ next = 0 /\ enabled = <<>> /\ steady = Stores /\ answer = <<>> /\ served = {}

ResolverNext == (\E s \in Stores : StoreMoves(s)) \/ BeginSources \/ LookNext \/ EndSources

ResolverSpec == ResolverInit /\ [][ResolverNext]_resolverVars

-----------------------------------------------------------------------------
(* Properties *)

Answered == next = 0 /\ answer # <<>>
Served == {src.mode : src \in Range(answer)}

\* What was on disk while a call ran is what it returns: a source whose store was
\* there is served, one whose store was not is left out (but for the fallback),
\* and the labelled ones are always there - "a CLI that had never been run on this
\* machine has no data directory when the server starts" (source.go:340-344).
FollowsDisk ==
  named = "auto" /\ Answered =>
    /\ \A m \in Range(Modes) \cap steady \cap disk : m \in Served \/ m = "openclaw"
    /\ \A m \in (Range(Modes) \cap steady) \ (disk \cup {"openclaw"}) : m \notin Served
    /\ Range(Extras) \subseteq Range(answer)

\* However a directory goes and comes back between the calls, one mode is one
\* instance, once in an answer and the same in all of them: "the list error a source
\* carries has to keep accumulating across calls rather than reset"
\* (source.go:344-346).  The fallback alone is an instance beside OpenClaw's own.
OneInstance ==
  /\ Answered => \A i, j \in DOMAIN answer : answer[i].mode = answer[j].mode => i = j
  /\ \A a, b \in served : a.mode = b.mode => a = b \/ fallback \in {a, b}

SourcesFollow == FollowsDisk /\ OneInstance

\* "discovering agents/<id>/agent/ keeps finding new databases" (source_openclaw.go:50-51),
\* and a source that is gone "drops out of the enabled set" (source.go:382-385).
DatabasesFollowed ==
  named = "auto" /\ Answered /\ Databases \subseteq steady =>
    \A src \in Range(answer) :
      src.mode = "openclaw" /\ src.reads \subseteq Databases => src.reads = disk \cap Databases
=============================================================================
