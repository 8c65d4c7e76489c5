------------------------------ MODULE MCStorage ------------------------------
(***************************************************************************)
(* What the agents store, and what is remembered of it: five parts that     *)
(* share no state, checked one at a time.  The copies and the subagents of  *)
(* Claude sessions; the rollouts of a Codex session and of its fork; a page  *)
(* of a Hermes database; the cache of final results; the cache of a         *)
(* database's answers.                                                     *)
(***************************************************************************)
EXTENDS ClaudeStore, CodexStore, HermesStore, FinalCache, SnapshotCache, TLC

\* The callers of each cache are interchangeable
Symmetry == Permutations(Callers) \cup Permutations(Readers)

VARIABLE part  \* the one that moves

storageVars == <<part, claudeVars, codexVars, hermesVars, finalVars, vars>>

StorageInit ==
  /\ part \in {"claude", "codex", "hermes", "finals", "database"}
  /\ ClaudeInit /\ CodexInit /\ HermesInit /\ FinalInit /\ Init

ClaudeStep ==
  part = "claude" /\ ClaudeNext /\ UNCHANGED <<part, codexVars, hermesVars, finalVars, vars>>
CodexStep ==
  part = "codex" /\ CodexNext /\ UNCHANGED <<part, claudeVars, hermesVars, finalVars, vars>>
HermesStep ==
  part = "hermes" /\ HermesNext /\ UNCHANGED <<part, claudeVars, codexVars, finalVars, vars>>
FinalStep ==
  part = "finals" /\ FinalNext /\ UNCHANGED <<part, claudeVars, codexVars, hermesVars, vars>>
DatabaseStep ==
  part = "database" /\ Next /\ UNCHANGED <<part, claudeVars, codexVars, hermesVars, finalVars>>

StorageNext == ClaudeStep \/ CodexStep \/ HermesStep \/ FinalStep \/ DatabaseStep

StorageSpec == StorageInit /\ [][StorageNext]_storageVars
=============================================================================
