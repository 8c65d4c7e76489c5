------------------------------- MODULE McpPages -------------------------------
(***************************************************************************)
(* An MCP client that pages through a session's messages or through the     *)
(* list of sessions (get_messages and list_sessions of internal/app/mcp.go), *)
(* while the session grows and sessions move in the list.  A cursor is an    *)
(* offset: from the session's beginning, from its end, or into the list, as  *)
(* these are when the next page is asked for.                               *)
(***************************************************************************)
EXTENDS SequencesExt, Integers

CONSTANTS
  MaxMessages,  \* bound: messages
  Listed,       \* the sessions there may be
  MaxListMoves, \* bound: changes of the list
  PageLimits,   \* the limits a client asks with
  MaxOffset     \* maxMessageOffset

ASSUME McpAssumption ==
  /\ MaxMessages \in Nat /\ MaxListMoves \in Nat /\ MaxOffset \in Nat
  /\ PageLimits \subseteq Nat /\ IsFiniteSet(Listed)

VARIABLES
  messages,   \* the session's, each with its role and its place in it
  list,       \* the sessions of the list, newest first
  listMoves,  \* how often that changed
  left,       \* the sessions that left the list during the walk
  written,    \* those that were written during it
  walk,       \* the client: none, walking, done, or refused
  asked,      \* what it walks through, by how many, of which role
  cursor,     \* the last answer's nextCursor
  pages,      \* the pages so far
  walked,     \* what they have, one after the other
  before      \* messages and list as the walk began

mcpVars == <<messages, list, listMoves, left, written, walk, asked, cursor, pages, walked, before>>

-----------------------------------------------------------------------------
(* The CLIs; what the client does not ask for rests *)

WriteMessage ==
  /\ asked.what # "list" /\ Len(messages) < MaxMessages
  /\ \E role \in {"user", "assistant"} :
       messages' = Append(messages, [role |-> role, at |-> Len(messages) + 1])
  /\ UNCHANGED <<list, listMoves, left, written, walk, asked, cursor, pages, walked, before>>

Without(s) ==
  IF s \in Range(list) THEN RemoveAt(list, CHOOSE n \in DOMAIN list : list[n] = s) ELSE list
Becomes(sessions) ==
  /\ asked.what = "list" /\ listMoves < MaxListMoves /\ listMoves' = listMoves + 1
  /\ list' = sessions
  /\ UNCHANGED <<messages, walk, asked, cursor, pages, walked, before>>

\* A session is written, or there is a new one.
WriteSession(s) == Becomes(<<s>> \o Without(s)) /\ UNCHANGED left /\ written' = written \cup {s}
\* A session is archived or deleted.
DropSession(s) == s \in Range(list) /\ Becomes(Without(s)) /\ UNCHANGED written /\ left' = left \cup {s}

-----------------------------------------------------------------------------
(* The server *)

Earliest(s, n) == SubSeq(s, 1, Min({n, Len(s)}))
Latest(s, n) == SubSeq(s, Max({1, Len(s) - n + 1}), Len(s))

\* The places of the role's messages, and the nth of them
Matching(ms) == {i \in DOMAIN ms : asked.role = "" \/ ms[i].role = asked.role}
Nth(places, n) == CHOOSE i \in {i \in places : Cardinality({j \in places : j <= i}) = n} : TRUE
OfRole(ms) ==
  LET places == Matching(ms) IN [n \in 1..Cardinality(places) |-> ms[Nth(places, n)]]

\* The sink filters by role and keeps one end.
Fetch(n) ==
  IF asked.what = "latest" THEN Latest(OfRole(messages), n) ELSE Earliest(OfRole(messages), n)

\* mutant: a latest page is cut at the fetched window's beginning
PageMessagesFirst(fetched) ==
  IF asked.what = "latest" THEN Earliest(fetched, asked.limit)
  ELSE Earliest(SubSeq(fetched, cursor + 1, Len(fetched)), asked.limit)

\* pageMessages
PageMessages(fetched) ==
  IF asked.what = "latest"
    THEN Latest(Earliest(fetched, Max({0, Len(fetched) - cursor})), asked.limit)
    ELSE Earliest(SubSeq(fetched, cursor + 1, Len(fetched)), asked.limit)

Paged(page, more) ==
  /\ pages' = Append(pages, page) /\ walked' = walked \o page
  /\ cursor' = cursor + Len(page)
  /\ walk' = IF more THEN "walking" ELSE "done"
  /\ UNCHANGED <<messages, list, listMoves, left, written, asked, before>>

\* mutant: nothing is read beyond the page
NoProbe == cursor + asked.limit
\* One message more than the page shows tells whether another page follows.
Reach == cursor + asked.limit + 1

GetMessages ==
  /\ walk = "walking" /\ asked.what # "list" /\ cursor <= MaxOffset
  /\ LET fetched == Fetch(Reach)
         page == PageMessages(fetched)
     IN Paged(page, asked.limit > 0 /\ Len(page) = asked.limit /\ Len(fetched) > cursor + Len(page))

RefuseDeep ==
  /\ walk = "walking" /\ asked.what # "list" /\ cursor > MaxOffset
  /\ walk' = "refused"
  /\ UNCHANGED <<messages, list, listMoves, left, written, asked, cursor, pages, walked, before>>

ListPage ==
  /\ walk = "walking" /\ asked.what = "list"
  /\ LET offset == Min({cursor, Len(list)})
         page == Earliest(SubSeq(list, offset + 1, Len(list)), asked.limit)
     IN Paged(page, offset + Len(page) < Len(list))

-----------------------------------------------------------------------------
(* The client follows nextCursor with the same arguments *)

StartWalk ==
  /\ walk = "none" /\ walk' = "walking"
  /\ before' = [messages |-> messages, list |-> list, listMoves |-> listMoves]
  /\ cursor' = 0 /\ pages' = <<>> /\ walked' = <<>> /\ left' = {} /\ written' = {}
  /\ UNCHANGED <<messages, list, listMoves, asked>>

McpInit ==
  /\ messages = <<>>
  /\ list \in {s \in BoundedSeq(Listed, Cardinality(Listed)) : IsInjective(s)}
  /\ listMoves = 0 /\ left = {} /\ written = {} /\ walk = "none"
  /\ asked \in [what : {"earliest", "latest", "list"}, limit : PageLimits, role : {"", "user"}]
  /\ asked.what = "list" => asked.role = ""
  /\ asked.what # "list" => list = <<>>
  /\ cursor = 0 /\ pages = <<>> /\ walked = <<>> /\ before = [messages |-> <<>>, list |-> <<>>, listMoves |-> 0]

McpNext ==
  \/ WriteMessage \/ \E s \in Listed : WriteSession(s) \/ DropSession(s)
  \/ StartWalk \/ GetMessages \/ RefuseDeep \/ ListPage

McpSpec == McpInit /\ [][McpNext]_mcpVars

-----------------------------------------------------------------------------
(* Properties *)

WalkOver(what) == walk = "done" /\ asked.limit > 0 /\ asked.what = what

EarliestWalk ==
  WalkOver("earliest") =>
    IsPrefix(walked, OfRole(messages)) /\ IsPrefix(OfRole(before.messages), walked)

LatestWalk ==
  WalkOver("latest") =>
    /\ Range(OfRole(before.messages)) \subseteq Range(walked)
    /\ \A p \in DOMAIN pages : \A m, n \in DOMAIN pages[p] :
         pages[p][m].at < pages[p][n].at <=> m < n
    /\ messages = before.messages => IsInjective(walked)

ListWalk ==
  WalkOver("list") =>
    /\ left = {} => Range(before.list) \ written \subseteq Range(walked)
    /\ listMoves = before.listMoves => walked = list

\* A walk from the beginning has every message of the role asked for once, in their
\* order, up to those of the last page; one from the end misses none that were there
\* when it began; one over the list misses no session but those written meanwhile,
\* which are before the cursor then, unless one has left the list.  Where nothing
\* changed each walk has everything once.
\* "Page through with cursor when you need everything" (mcp.md:140); the extra
\* message of a read "is the only way to know another page follows" (mcp.go:428-430).
WalksReachAll == EarliestWalk /\ LatestWalk /\ ListWalk

\* "Pages never overlap" (mcp.md:161).
PagesNeverOverlap == IsInjective(walked)
=============================================================================
