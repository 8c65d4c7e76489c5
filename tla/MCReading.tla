------------------------------ MODULE MCReading ------------------------------
(***************************************************************************)
(* Five parts that share no state, checked one at a time: how one          *)
(* session's rows are read as rounds, what is added up over many sessions, *)
(* how those sums are kept for the next asker, how a session of the lists  *)
(* is opened by its id, and how an MCP client pages through messages and   *)
(* lists.                                                                  *)
(***************************************************************************)
EXTENDS Rounds, Reports, AnswerCache, Lookup, McpPages

CONSTANTS c1, c2, a1, p1, k1, k2, f1, f2

MCOrder == <<c1, a1, c2>>
MCProjectOf == [s \in {c1, a1, c2} |-> IF s = c2 THEN NoProject ELSE p1]

\* A file that both read, and the files of a patch that only the server reads; a
\* name that only the page takes for a write
MCToolKindOf == [Edit |-> "write", apply_patch |-> "write", rewrite_file |-> "other", Read |-> "read"]
MCToolKind == [MCToolKindOf EXCEPT !.rewrite_file = "write"]
MCTools == DOMAIN MCToolKindOf
MCCall(name, files, file) == [name |-> name, files |-> files, file |-> file]
MCCalls ==
  {MCCall("Edit", {f1}, f1), MCCall("apply_patch", {f1, f2}, NoFile), MCCall("rewrite_file", {f2}, f2),
   MCCall("Read", {f1}, f1)}

\* Ids that hold one another, and an instance of Claude Code beside the usual one
MCIds == {<<"a">>, <<"b">>, <<"a", "b">>, <<"c">>}
MCSourceModes == <<"claude", "claude:box">>
MCCLIOf == [m \in Range(MCSourceModes) |-> "claude"]

\* The callers are interchangeable
Symmetry == Permutations(Callers)

VARIABLE part  \* the one that moves

others == <<roundsVars, reportsVars, answerVars>>
vars == <<part, others, lookupVars, mcpVars>>

Init ==
  /\ part \in {"rounds", "reports", "answers", "lookup", "mcp"}
  /\ RoundsInit /\ ReportsInit /\ AnswerInit /\ LookupInit /\ McpInit
  /\ part # "rounds" => ~ids
  /\ part # "mcp" => asked = [what |-> "earliest", limit |-> 1, role |-> ""]

Rests(read) == UNCHANGED <<part, lookupVars, mcpVars, read>>

RoundsStep == part = "rounds" /\ RoundsNext /\ Rests(<<reportsVars, answerVars>>)
ReportsStep == part = "reports" /\ ReportsNext /\ Rests(<<roundsVars, answerVars>>)
AnswerStep == part = "answers" /\ AnswerNext /\ Rests(<<roundsVars, reportsVars>>)
LookupStep == part = "lookup" /\ LookupNext /\ UNCHANGED <<part, others, mcpVars>>
McpStep == part = "mcp" /\ McpNext /\ UNCHANGED <<part, others, lookupVars>>

Next == RoundsStep \/ ReportsStep \/ AnswerStep \/ LookupStep \/ McpStep

Spec == Init /\ [][Next]_vars
==============================================================================
