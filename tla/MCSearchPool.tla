----------------------------- MODULE MCSearchPool -----------------------------
(* The sessions that are searched, newest first. *)
EXTENDS SearchPool

\* One of its own, one with a subagent, and an older one.
OneAgent == <<1, 2, 2, 3>>
=============================================================================
