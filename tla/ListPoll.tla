------------------------------- MODULE ListPoll -------------------------------
(***************************************************************************)
(* The session list from one source to a client that polls it:             *)
(* SessionQueryAPI.recordsOf (a cache with a time to live, and one scan at *)
(* a time), the verdict a source keeps of its last scan, the tag           *)
(* listSessions computes, and the /sessions handler that answers a         *)
(* matching tag with 304.  Beside the poll, other requests list through    *)
(* the same cache, and the usage report lists the source past it.          *)
(*                                                                         *)
(* A list is the version of its rows and the sessions it has as archived;  *)
(* NoRows is what a failed scan returns.                                   *)
(***************************************************************************)
EXTENDS Integers, FiniteSets

CONSTANTS
  Others,      \* other requests that list: /search, /projects, the MCP tools
  Reports,     \* usage reports in progress
  Sessions,
  Archived,    \* whether the client asks for include_archived=1
  MaxVersion,  \* bound: changes of the sessions that move their rows
  MaxMoves,    \* bound: sessions archived or brought back
  MaxOutages   \* bound: times the source becomes unreadable

ASSUME PollAssumption ==
  /\ Archived \in BOOLEAN
  /\ Others \cap Reports = {} /\ {"poll", "none"} \cap (Others \cup Reports) = {}
  /\ MaxVersion \in Nat /\ MaxMoves \in Nat /\ MaxOutages \in Nat

Poll == "poll"
Requests == Others \cup {Poll}

VARIABLES
  version, away, moves,       \* the sessions: their rows' version, the archived ones
  readable, outages,          \* whether they can be read
  verdict,          \* whether its last scan failed (setListError, ListError)
  cached, fresh,    \* the cached list, and whether it is younger than the TTL
  lock,             \* who holds the source's scan mutex
  pc, rows,         \* each request's place, and the list it has
  tag,              \* the tag of the poll in progress
  client,           \* the client's copy: its tag, its page and its warning
  expiredAt, floor  \* the version at the last expiry, and at the last before the poll's request

srcVars == <<version, away, moves, readable, outages>>
cacheVars == <<cached, fresh, lock>>
reqVars == <<pc, rows>>
history == <<expiredAt, floor>>
vars == <<srcVars, verdict, cacheVars, reqVars, tag, client, history>>

None == "none"
NoRows == [v |-> -1, away |-> {}]
Current == [v |-> version, away |-> away]

\* What the body of /sessions shows of a list, and what the tag is computed from:
\* the rows' key, time, status and count, not their archived mark, and how many
\* there are that have it.
Shown(list) == IF list = NoRows THEN {} ELSE IF Archived THEN Sessions ELSE Sessions \ list.away
Tag(list, warned) == [v |-> list.v, shown |-> Shown(list), archived |-> Cardinality(list.away),
                      failed |-> warned]
Page(list) == [v |-> list.v, shown |-> Shown(list), archived |-> Cardinality(list.away),
               marked |-> Shown(list) \cap list.away]
NoTag == [v |-> -2, shown |-> {}, archived |-> 0, failed |-> FALSE]

Goto(r, place) == pc' = [pc EXCEPT ![r] = place]

-----------------------------------------------------------------------------
(* The CLI and the clock *)

Change ==
  /\ version < MaxVersion
  /\ version' = version + 1
  /\ UNCHANGED <<away, moves, readable, outages, verdict, cacheVars, reqVars, tag, client, history>>

\* The CLI archives a session, or brings it back.
Move(s) ==
  /\ moves < MaxMoves
  /\ away' = IF s \in away THEN away \ {s} ELSE away \cup {s}
  /\ moves' = moves + 1
  /\ UNCHANGED <<version, readable, outages, verdict, cacheVars, reqVars, tag, client, history>>

Outage ==
  /\ readable /\ outages < MaxOutages
  /\ readable' = FALSE /\ outages' = outages + 1
  /\ UNCHANGED <<version, away, moves, verdict, cacheVars, reqVars, tag, client, history>>

Recovery ==
  /\ ~readable
  /\ readable' = TRUE
  /\ UNCHANGED <<version, away, moves, outages, verdict, cacheVars, reqVars, tag, client, history>>

Expire ==
  /\ fresh
  /\ fresh' = FALSE
  /\ expiredAt' = version
  /\ UNCHANGED <<srcVars, verdict, cached, lock, reqVars, tag, client, floor>>

-----------------------------------------------------------------------------
(* recordsOf *)

Ask(r) ==
  /\ pc[r] = "idle"
  /\ Goto(r, "records")
  /\ floor' = IF r = Poll THEN expiredAt ELSE floor
  /\ UNCHANGED <<srcVars, verdict, cacheVars, rows, tag, client, expiredAt>>

Finish(r) == Goto(r, "idle") /\ rows' = [rows EXCEPT ![r] = NoRows]

\* recordsOf returns: the poll goes on with the list, another request is done.
Return(r, list) ==
  IF r = Poll THEN Goto(r, "tag") /\ rows' = [rows EXCEPT ![r] = list] ELSE Finish(r)

\* mutant: a request that finds the cache old scans without waiting for the lock
LockedAnyway(r) ==
  /\ pc[r] = "records"
  /\ IF fresh
     THEN Return(r, cached) /\ UNCHANGED lock
     ELSE lock' = r /\ Goto(r, "scan") /\ UNCHANGED rows
  /\ UNCHANGED <<srcVars, verdict, cached, fresh, tag, client, history>>

\* With the lock: the cached list while it is young, a scan otherwise.
Locked(r) ==
  /\ pc[r] = "records" /\ lock = None
  /\ IF fresh
     THEN Return(r, cached) /\ UNCHANGED lock
     ELSE lock' = r /\ Goto(r, "scan") /\ UNCHANGED rows
  /\ UNCHANGED <<srcVars, verdict, cached, fresh, tag, client, history>>

\* The scan sees the source at one instant, and leaves its verdict at a later.
Scan(r) ==
  /\ pc[r] = "scan"
  /\ rows' = [rows EXCEPT ![r] = IF readable THEN Current ELSE NoRows]
  /\ Goto(r, "verdict")
  /\ UNCHANGED <<srcVars, verdict, cacheVars, tag, client, history>>

SetListError(r) ==
  /\ pc[r] = "verdict"
  /\ verdict' = (rows[r] = NoRows)
  /\ IF r \in Reports THEN Finish(r) ELSE Goto(r, "bank") /\ UNCHANGED rows
  /\ UNCHANGED <<srcVars, cacheVars, tag, client, history>>

Bank(r) ==
  /\ pc[r] = "bank"
  /\ cached' = rows[r] /\ fresh' = TRUE
  /\ lock' = None
  /\ Return(r, rows[r])
  /\ UNCHANGED <<srcVars, verdict, tag, client, history>>

\* usageSessionsOf lists the source itself, without the cache and its lock.
Report(r) ==
  /\ r \in Reports /\ pc[r] = "idle"
  /\ Goto(r, "scan")
  /\ UNCHANGED <<srcVars, verdict, cacheVars, rows, tag, client, history>>

-----------------------------------------------------------------------------
(* The /sessions handler *)

\* mutant: a session archived or brought back is not in the tag
CountlessTag == [Tag(rows[Poll], verdict) EXCEPT !.archived = 0, !.shown = {}]
ListVersion == Tag(rows[Poll], verdict)

\* listSessions ends with the tag; a match ends the request with 304.
Compare ==
  /\ pc[Poll] = "tag"
  /\ tag' = ListVersion
  /\ Goto(Poll, IF tag' = client.tag THEN "unchanged" ELSE "body")
  /\ UNCHANGED <<srcVars, verdict, cacheVars, rows, client, history>>

NotModified ==
  /\ pc[Poll] = "unchanged"
  /\ Finish(Poll) /\ tag' = NoTag
  /\ UNCHANGED <<srcVars, verdict, cacheVars, client, history>>

\* The warnings of the body are read again.
Answer ==
  /\ pc[Poll] = "body"
  /\ client' = [tag |-> tag, page |-> Page(rows[Poll]), warned |-> verdict]
  /\ Finish(Poll) /\ tag' = NoTag
  /\ UNCHANGED <<srcVars, verdict, cacheVars, history>>

-----------------------------------------------------------------------------
Init ==
  /\ version = 0 /\ away = {} /\ moves = 0 /\ readable = TRUE /\ outages = 0
  /\ verdict = FALSE
  /\ cached = NoRows /\ fresh = FALSE /\ lock = None
  /\ pc = [r \in Requests \cup Reports |-> "idle"]
  /\ rows = [r \in Requests \cup Reports |-> NoRows]
  /\ tag = NoTag
  /\ client = [tag |-> NoTag, page |-> Page(NoRows), warned |-> FALSE]
  /\ expiredAt = 0 /\ floor = 0

RecordsOf(r) == Ask(r) \/ Locked(r) \/ Scan(r) \/ SetListError(r) \/ Bank(r)
UsageReport(r) == Report(r) \/ Scan(r) \/ SetListError(r)
Handle == Compare \/ NotModified \/ Answer

Next ==
  \/ Change \/ (\E s \in Sessions : Move(s)) \/ Outage \/ Recovery \/ Expire
  \/ \E r \in Requests : RecordsOf(r)
  \/ \E r \in Reports : UsageReport(r)
  \/ Handle

\* Time passes, an outage ends, the client keeps polling, and a request that has
\* begun goes on; the lock is handed to every waiter in turn (sync.Mutex).
Fairness ==
  /\ WF_vars(Expire) /\ WF_vars(Recovery) /\ WF_vars(Handle)
  /\ SF_vars(RecordsOf(Poll))
  /\ \A r \in Others : SF_vars(pc[r] # "idle" /\ RecordsOf(r))
  /\ \A r \in Reports : WF_vars(pc[r] # "idle" /\ UsageReport(r))

Spec == Init /\ [][Next]_vars /\ Fairness

-----------------------------------------------------------------------------
(* Properties *)

\* recordsOf serves a list for one TTL: what a request answers with was read
\* after the last expiry that came before the request, whoever scanned it ("one
\* scans and the rest wait for its result", api.go:93-95) and however long the
\* request waited for that scan.
WithinTTL == pc[Poll] \in {"tag", "unchanged", "body"} /\ rows[Poll] # NoRows
             => rows[Poll].v >= floor

\* Polling gets there (/sessions, listVersion): once the sessions rest, the
\* client's page is of them, although every answer may be a 304, a list another
\* request banked, or the empty list of an outage.
ClientCatchesUp == <>[](client.page = Page(Current))

\* "A source that stops being readable changes none of the records ... and a 304
\* would then hide the one thing that did change" (api.go:230-232), which the
\* warnings in the tag are there to prevent: a 304 goes only to a client whose
\* copy has the warning, or the lack of one, that the tag stands for.
UnchangedIsTrue == [][NotModified => client.warned = tag.failed]_vars
=============================================================================
