------------------------------ MODULE HermesStore ------------------------------
(***************************************************************************)
(* One page of a Hermes session, read from state.db while Hermes writes it  *)
(* (hermesSQLiteMessages of internal/source/hermes_sqlite.go): a first      *)
(* query decides which rows are shown and which copy of a repeated row, the *)
(* next ones fetch those rows in chunks, and an attempt that meets a        *)
(* journal that looks hot is made again from the start.                     *)
(*                                                                         *)
(* A row's id is its place in the table, and its key stands for all that is *)
(* a row's identity: role, content, time and tool columns.  Each query sees *)
(* the table at one instant.                                                *)
(***************************************************************************)
EXTENDS Integers, Sequences, FiniteSets

CONSTANTS
  MaxTable,    \* bound: rows
  MaxKeys,     \* bound: different contents
  MaxHot,      \* bound: commits that look hot
  Pauses,      \* how often a refused read is tried again: hermesRetryPauses
  FetchChunk   \* fetchChunk

ASSUME HermesAssumption == MaxTable \in Nat /\ MaxKeys \in Nat /\ Pauses \in Nat /\ FetchChunk \in Nat \ {0}

VARIABLES
  table,       \* the rows of the session
  keys,        \* contents so far
  hot, hots,   \* whether a journal looks hot to the reader, and how often one did
  reading,     \* the reader's place
  tries,       \* attempts refused
  order,       \* the rows to show: for the first of each key, the row fetched for it
  unread,      \* the firsts of those that are still to be fetched
  page,        \* the chunks the attempt has put out: for each first, the row and the key it had
  first        \* the table as the first query saw it

hermesDB == <<table, keys, hot, hots>>
hermesRead == <<reading, tries, order, unread, page, first>>
hermesVars == <<hermesDB, hermesRead>>

-----------------------------------------------------------------------------
(* Hermes *)

Row(key, only) == [key |-> key, active |-> TRUE, compacted |-> FALSE, only |-> only]

\* A commit removes its journal.
Commits(t, k) ==
  /\ Len(t) <= MaxTable /\ k <= MaxKeys
  /\ table' = t /\ keys' = k /\ hot' = FALSE
  /\ UNCHANGED <<hots, hermesRead>>

\* A message, or a row only the model is to read
Insert == \E only \in BOOLEAN : Commits(Append(table, Row(keys + 1, only)), keys + 1)

\* Undo, rewind and regenerate
Undo == \E i \in DOMAIN table : table[i].active /\ Commits([table EXCEPT ![i].active = FALSE], keys)

\* Compression folds live rows away, and inserts the protected one of them again.
Compression ==
  \E i \in DOMAIN table :
    /\ table[i].active
    /\ LET folded == [j \in DOMAIN table |->
                        IF table[j].active THEN [table[j] EXCEPT !.active = FALSE, !.compacted = TRUE]
                                           ELSE table[j]]
       IN Commits(Append(folded, Row(table[i].key, table[i].only)), keys)

\* A row rewritten in place
Rewrite ==
  \E i \in DOMAIN table :
    table[i].active /\ Commits([table EXCEPT ![i].key = keys + 1], keys + 1)

LooksHot ==
  /\ ~hot /\ hots < MaxHot
  /\ hot' = TRUE /\ hots' = hots + 1
  /\ UNCHANGED <<table, keys, hermesRead>>

-----------------------------------------------------------------------------
(* hermesSQLiteMessages *)

\* hermesShownClause, hermesModelOnly: live or compacted, and not the model's only
Shown(t, i) == (t[i].active \/ t[i].compacted) /\ ~t[i].only

ShownRows(t) == {i \in DOMAIN t : Shown(t, i)}
Copies(t, i) == {j \in ShownRows(t) : t[j].key = t[i].key}

\* hermesMessagesFrom, pass one: one row for each key, at the place of the first,
\* and of its copies a live one, if there is one; the ids, compared as strings,
\* decide between equals.
FirstRows(t) == {i \in ShownRows(t) : \A j \in Copies(t, i) : i <= j}
Best(t, i) ==
  LET live == {j \in Copies(t, i) : t[j].active} IN IF live # {} THEN live ELSE Copies(t, i)
Winners(t) == {w \in [FirstRows(t) -> DOMAIN t] : \A i \in FirstRows(t) : w[i] \in Best(t, i)}

AskPage ==
  /\ reading = "idle"
  /\ reading' = "first" /\ tries' = 0
  /\ UNCHANGED <<hermesDB, order, unread, page, first>>

\* mutant: the next attempt adds to what the refused one had put out
ReadFirstKeeping ==
  /\ reading = "first" /\ ~hot
  /\ order' \in Winners(table) /\ unread' = DOMAIN order' /\ first' = table
  /\ reading' = "fetch"
  /\ UNCHANGED <<hermesDB, tries, page>>

\* What an attempt returned is replaced by the next one's.
ReadFirst ==
  /\ reading = "first" /\ ~hot
  /\ order' \in Winners(table) /\ unread' = DOMAIN order' /\ page' = <<>> /\ first' = table
  /\ reading' = "fetch"
  /\ UNCHANGED <<hermesDB, tries>>

\* readHermesDB: a read the journal refuses is tried again, or has failed.
Refused ==
  /\ reading \in {"first", "fetch"} /\ hot
  /\ IF tries < Pauses THEN reading' = "first" /\ tries' = tries + 1
                       ELSE reading' = "failed" /\ UNCHANGED tries
  /\ UNCHANGED <<hermesDB, order, unread, page, first>>

\* Pass two: the rows of one chunk by their ids, as they are now
NextChunk == {i \in unread : Cardinality({j \in unread : j < i}) < FetchChunk}
FetchRows ==
  /\ reading = "fetch" /\ ~hot /\ unread # {}
  /\ page' = Append(page, [i \in NextChunk |-> [row |-> order[i], key |-> table[order[i]].key]])
  /\ unread' = unread \ NextChunk
  /\ UNCHANGED <<hermesDB, reading, tries, order, first>>

ReturnPage ==
  /\ reading = "fetch" /\ unread = {}
  /\ reading' = "done"
  /\ UNCHANGED <<hermesDB, tries, order, unread, page, first>>

-----------------------------------------------------------------------------
HermesInit ==
  /\ table = <<Row(1, FALSE)>> /\ keys = 1 /\ hot = FALSE /\ hots = 0
  /\ reading = "idle" /\ tries = 0 /\ order = <<>> /\ unread = {} /\ page = <<>> /\ first = <<>>

HermesNext ==
  \/ Insert \/ Undo \/ Compression \/ Rewrite \/ LooksHot
  \/ AskPage \/ ReadFirst \/ Refused \/ FetchRows \/ ReturnPage

HermesSpec == HermesInit /\ [][HermesNext]_hermesVars

-----------------------------------------------------------------------------
(* Properties *)

\* What is shown first and last, and was not rewritten in any of its copies
Lasting ==
  {k \in {first[i].key : i \in ShownRows(first)} :
     /\ \A i \in DOMAIN first : first[i].key = k => table[i].key = k
     /\ \E i \in ShownRows(table) : table[i].key = k}

Entries == UNION {{<<n, i>> : i \in DOMAIN page[n]} : n \in DOMAIN page}
Entry(e) == page[e[1]][e[2]]

\* A page that was read to its end has every message once that the session shows
\* from the first query to the last, in the order they came, and none that it did
\* not show at the first - however the rows are folded, copied and rewritten
\* between the queries, and however many attempts were refused half way.
\* (hermesMessagesFrom, readHermesDB: "read must be safe to repeat".)
HermesPageExact ==
  reading = "done" =>
    /\ \A d, e \in Entries : Entry(d).key = Entry(e).key => d = e
    /\ Lasting \subseteq {Entry(e).key : e \in Entries}
    /\ \A e \in Entries : /\ e[2] \in FirstRows(first) /\ Entry(e).row \in Copies(first, e[2])
    /\ \A d, e \in Entries : d[1] < e[1] => d[2] < e[2]
=============================================================================
