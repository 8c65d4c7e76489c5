# agent-session-query in TLA+

`agent-session-query` is one Go binary that reads the session stores of ten
agent CLIs (Claude, Codex, OpenCode, Hermes, OpenClaw, Grok, Gemini,
Antigravity, Dsh, Pi) and answers questions about them: over HTTP, in a web
page, to MCP clients, and as an OTLP export. It never writes to a store. Nearly
everything that can go wrong follows from that: the stores are written by other
programs *while* they are read, so every list, count, page and export is put
together from several reads of something that moves, and is then cached,
paginated, compared with a tag, or remembered as done.

The modules here model that. Each is translated from the code named in its
header; `PROJECT.json` maps every definition to the lines it stands for.

    tlc -workers 2 -config MCStorage.cfg MCStorage   model-check one configuration
    tlapm CountCacheProofs.tla                       check the proofs of one module

## The system: components, state, interactions

| Component (source) | State it keeps | Operations | Talks to | What is hard | What makes it correct | Module |
|---|---|---|---|---|---|---|
| `fileRecordCache` (`source/filecache.go`, `msgcount.go`) | records by path, banked counts, set `counting`, queue, number of workers | `records`, `queueCount`, `startCounting`, `countWorker`, `countStable`, `keepCounts` | the stores of the file-based sources; `/sessions` and `/usage` call it at once | the file grows or is replaced between any two reads of a scan; overlapping callers; workers that leave as work arrives | exact counts that never drift, one scan per file, no lost work, convergence | `CountCache` |
| `dbSnapshotCache` (`source/sqlitecache.go`) | one answer and the stamp of the database's files | `load` | SQLite stores | the stamp is several stats; a commit shows later than it is written | an answer is the content of an instant of its call | `SnapshotCache` implements `FreshRead` |
| `finalCache` (`source/finalcache.go`) | finals by key, with a stamp; dropped when full | `load` | `/final`, usage, digest | two files of one session written while they are read; a file that is not there yet | each file's part is the content of an instant of the call | `FinalCache` implements `FreshRead` twice |
| Claude store (`source/source_claude.go`) | identities and copies by signature | `List`: copies, subagents | project directories | forks that share messages; four passes over files that grow | every message and subagent is under a listed session | `ClaudeStore` |
| Codex store (`source/source_codex.go`) | verdicts on compressed files, paths and turns | `List`, `Final` of a fork | live, archived and compressed rollouts | a file archived or compressed between two globs; a parent that moves | a rollout is listed once, a turn counted once | `CodexStore` |
| Hermes store (`source/hermes_sqlite.go`) | none | a page: first query, chunks, retries | `state.db` | rows folded, copied and rewritten between the queries; a journal that refuses one | every lasting message once, in order | `HermesStore` |
| Formats (`source/source_*.go`, `blocks.go`) | none | messages, count, final, hits, title, each a pass of its own | the rows of one transcript | separate readers of one file, by rules of their own | the readers agree | `ClaudeTranscript` ... `OpenClawTranscript`, put side by side in `Transcripts` |
| `messageSink` (`source/source.go`) | one page as it is scanned, a ring | `add`, `result` | every source's messages | the ring turns while the scan goes on; roles, anchors, both ends | a page is the part asked for | `Transcript` |
| Sources' registry and resolver (`source/source.go`, `registry.go`) | an instance per mode | `NewResolver`, `Sources` | everything | stores that come and go under a running server, also within one call | a source that comes back is the same one, once | `SourceResolver` |
| `labeledSource` (`source/source.go`) | none; it writes into what the wrapped source returns | `List`, `Usage`, `Final` | a source's list cache, every handler | rows that the source still keeps, or another asker still reads | a row never has more labels than its list was handed out, and one where rows are made for each call | `LabeledSource` |
| The session list (`app/api.go`, `http.go`, `source/source_jsonmap.go`, `app/usage_report.go`) | cached list and TTL, the source's verdict, a scan mutex; the client keeps tag and page | `recordsOf`, `listSessions`, `/sessions` with `If-None-Match`, usage past the cache | every handler lists through it | 304 against a tag computed from other reads than the page | lists no older than the TTL, a poller catches up | `ListPoll` |
| `findSession`, `subagentsOf` (`app/api.go`, `source/record.go`) | none | matching tiers over all sources, chains of spawns | all per-session handlers | ids that repeat and hold one another, circles of agents | a row opens itself; exactly the agents under it | `Lookup` |
| Search (`app/search.go`, `source/searchquery.go`, `searchfile.go`) | hits per transcript, the sessions matched, a counter the dispatcher reads | dispatch, workers, early stop, page | `/search`, `find_failures`, `search_sessions` | out-of-order matches decide when an in-order scan stops | the page has the newest matches, whatever was not scanned | `SearchPool` |
| Rounds and briefs (`app/brief.go`), and the page's own (`app/ui/app.js`) | none: read from the rows each time | `splitRounds`, `at=`, `since=`; `buildRounds`, `analyseRound`, `mergeSteps` | `/rounds`, `/brief`, the reports; the message pane | results after the round they belong to; two implementations of one notion; only the latest rows are read | page and server agree; a closed round stays; a change is a write that was answered | `RoundSplit`, `Rounds` |
| List, projects, packs, failures, digest, usage (`app/api.go`, `activity.go`, `pack.go`, `usage_report.go`) | none | select, sort, cut, add up | `recordsOf`, `splitRounds`, finals | five filters over one set of sessions; limits that stop a scan | the numbers agree; what is cut is older and said to be cut | `Reports` |
| `cachedAnswer` (`app/api.go`, `http.go`) | answers by key | look up, compute, bank | `/failures`, `/digest` | overlapping computations; keys that hold an instant | an answer is no older than its time to live and one computation | `AnswerCache` |
| MCP server (`app/mcp.go`) | none between calls but the client's cursor | tool calls on stdin or `POST /mcp` | the same API | a cursor into a session or a list that changes | no message and no session skipped | `McpPages` |
| OTLP exporter (`app/telemetry.go`, `otlp/otlp.go`) | the cursor in memory and on disk | `run`, `exportOnce`, `allMessages`, `groupRounds`, `send`, `mark`, `loadState` | the list, the sources, a collector | sessions grow between two pages; batches and saves fail; restarts | nothing is marked that was not sent; everything is sent in the end | `OtelExport` |
| The web page's message pane (`app/ui/app.js`) | selection, order, window, edges, anchor, what is in flight | `syncDetail`, `loadMore`, `refresh`, `failureBeyond`, `selectSession`, `toggleOrder` | `/messages`, `/rounds`, `/sessions` | every `await` lets another handler change what the first one meant | the window is the reader's, in one piece, and follows the session | `PageStream` |
| `limitListener` and the end of `Run` (`app/http.go`, `run.go`) | permits, queue slots, the kept error, counters | `acceptLoop`, `admit`, `Accept`, `Close`, `connState`, shutdown | kernel, `http.Server`, the signal handler | a goroutine per queued connection, timeouts, double closes, failing accepts | the cap holds, no permit is lost, every connection gets an answer | `LimitListener` |
| Daemon start (`app/daemon.go`) | a child process | spawn, probe, settle | the child, the port | a child that exits, a port another program has, both at once | what the parent says of the child is so | `DaemonStart` |
| Line reader, titles, text cleaning (`source/record.go`, `title.go`, `cleantext.go`) | none | text to records | the sources | torn rows | offsets at row borders, the first real prompt | in part: `CountCache`, `Transcript` |
| HTTP surface (`app/http.go`, `ui.go`) | request counters | routing, tokens, CORS, parameters | | little: sequential code over one request | | only its conditional answers and its cap |
| `pack`, `export`, start-up, `check`, file kinds, query matching, the page's list search and drawing, health check, icons | none | formatting, one request | | | | no |

How they meet: a CLI appends to its store; `fileRecordCache` or
`dbSnapshotCache` notices at the next list; `recordsOf` keeps that list for one
TTL and hands it to the handlers; `listSessions` puts a tag on it; the page polls
with that tag, and when the session it shows has moved, refetches its window
through `messageSink`. The exporter walks the same lists on a clock of its own,
and an MCP client pages through them call by call.
The modules follow these borders: what a module takes from the next one is in its
header (`ListPoll` sees a list as a version, `PageStream` sees the list as each
session's newest time).

## The modules

### CountCache (state of `fileRecordCache`)

`file` is the disk: per path a modification number (the `(mtime, size)` pair
with `size`), a generation that a replacement moves, and a size in bytes; a row
is three bytes, so a size that is no multiple of three is a torn row. `counts`,
`counting`, `queue`, `working` are the fields of that name; `wpc`/`job` is where
each worker is inside `countWorker`/`countStable` and its locals; `entries`,
`rpc`, `round` the same of `records()`. One action per step between two file
reads or two locks: `StatBefore`, `ChooseOffset` (`newlineBefore` and the
fingerprint), `ScanFile`, `StatAfter`, `Fingerprint`, `BankCount`/`DropScan`;
`BeginRound`, `StatPath`, `BuildRecord`, `CountPath` (`queueCount`), `Publish`,
`KeepCounts`, `StartCounting`. Assumed: every write moves `(mtime, size)`; the
last bytes of two generations differ. `countFor` has no caller in the program
and is not an action.

### FreshRead, SnapshotCache and FinalCache

`FreshRead` says what a cache over files of other programs owes its caller: the
content of an instant between call and return, at most `Slack` changes older, or
an error. Two caches implement it.

`SnapshotCache` is `load` of `dbSnapshotCache`: `StampNext` per file, `Hit`, a read
that sees one instant of its duration, `Bank`. A commit to one of `LateFiles` (the
WAL) moves the file first and shows later (`CommitLate`, `Appear`): that is
SQLite's rule and external. With such commits `Slack` is 1.

`FinalCache` is `load` of `finalCache`, for a session of two files (Grok's
transcript and its usage, as the source with the most to stamp): `StatFile` one
path at a time, `HitFinal`, `ReadFile` one file at a time, `Keep` or
`ReturnUnstamped` where a file is not there, and `OtherBanks`, which fills the map
until it is dropped. The refinement is stated for each file; the two parts of
one answer may be of two instants.

### ClaudeStore, CodexStore, HermesStore

`ClaudeStore` is the list of one project directory: `content` holds the uuids of
each file, `Fork` starts a file with the messages of another. `List` goes through
its passes file by file (identities, the signature, the scan of what each file
holds, subagents), and files grow between any two of them. `identities` and
`copyGroup` are what `identityMu` guards. Where a copy leads is `Resolve`: `Along`
are the paths one reaches from it copy by copy, `Ends` the one of them that is
itself no copy, or the circle they run into, of which the code takes the first.

`CodexStore` is one session's rollout, at its place (`root`, `form`, `pack`:
live or archived; plain, packed beside the plain file, compressed only, or torn)
and a fork of it. `GlobStep` is one of the four globs of `codexRolloutFiles`,
`CheckFile`, `BeginDecode`, `EndDecode` are `validateCompressed` with its verdict
kept by stat, `AskFinal`, `ReadFork`, `StatParent`, `EndFinal` are `Final` with
`parentTurns`.

`HermesStore` is `hermesSQLiteMessages`: `ReadFirst` chooses rows and copies
(`Winners`), `FetchRows` reads a chunk, `Refused` is a query that met a hot
journal and starts the attempt again after a pause. Hermes inserts, undoes,
compresses and rewrites rows between any two of them. Keys compare here as the
code compares them, a rewritten row is another key. Of several copies that are
equally good the code takes the greatest id *as a string*, which is any of them:
`Winners` leaves it open. `unread` are the rows still to be fetched, and a chunk
is the lowest of them.

### Transcript, the ten formats, Transcripts

`Transcript` has what they share: the message, `messageSink` (`Add`, `SinkPage`
with its ring; `Window` is the reference it is checked against) and
`OutcomeStatus`. A scan is a function of how many rows have been read
(`MetUpTo`, `SinkUpTo`), which is what the proofs go along. Each `...Transcript`
module has the rows its CLI may write (`...MayWrite`) and one operator per reader
of the source: messages, the list's count, the final result, the rows search looks
at, the title. Text is one of "words", "plumbing", "notice" and "", because readers
ask only that of it. `GrokTranscript` derives both of Grok's logs from what
happened; `GeminiTranscript` both files of a session. `Transcripts` writes every
transcript of `MaxRows` rows, row by row, and puts the readers side by side in
every state. The formats of `Deeper` get one row more: those whose readers look
ahead or back from a row (a run of Grok's, a turn of Codex's, a copied row of dsh,
a step of Antigravity's that is rewritten, a reply of Pi's or OpenClaw's behind
others). `LastReplies` is how many replies OpenClaw's final looks through: ten in
the code, two in the run, so that there are more.

### SourceResolver, DaemonStart, LimitListener

`SourceResolver`: `BeginSources`, `LookNext` per mode, `EndSources` are `Sources`
under its mutex, while `StoreMoves` changes the disk. An instance is its mode, the
stores it was made with and a number.

`DaemonStart`: the parent's `select` is one action per channel, before and after
the port has answered; the child binds, dies, and another program takes and
leaves the port. The clock's unit is the pause between two probes, and it does
not move past what a waiting `select` can take.

`LimitListener`: a connection's `place` is the goroutine or queue that has it; `sem`
and `slots` are the two channels used as counters; `loop`, `serve`, `shutdown` are
the three loops around them. `HandOver` is the rendezvous on `ready` together with
`connState(StateNew)`; `Close` may happen twice, as `http.Server` may call it.
`AcceptFails` covers a passing error and the closed listener.

### OtelExport

A span is `<<round number, row>>`, because its id is derived from both. `Export`
is one goroutine: `BeginPass`, per record `Skip` or `BeginRead`, `ReadPage` per
page of `allMessages`, `BuildRounds` (fingerprints against the cursor),
`SendBatch`/`SendFails`, `Mark`, `EndPass` (the save, which may fail); between
any two of them a CLI may append, a session settle, or the process restart
(`Crash`, which keeps only `disk`). Not modelled: `--otel-dry-run`,
`--otel-resend`, the metric sums (the documentation defines them as what a pass
sent), the caps at which the cursor forgets (5000 rounds, 20000 sessions), the
500 000-message stop, the spans' attributes.

### ListPoll

A list is the version of its rows and the sessions archived in it. `RecordsOf`
is `recordsOf` with its mutex (`records`, `scan`, `verdict`, `bank`), `Handle`
the `/sessions` handler cut where it reads shared state: tag, then page or 304.
`UsageReport` lists the source without the cache, and moves its `verdict`.

### SearchPool

Transcripts are numbered in the order they are handed out; `UnitOf` gives the
session of each (newest is 1) and the assumption that it does not decrease is
the sort and the grouping that `search` does before. `has` is what a full scan
would find, chosen at the start; the workers' places are the steps between their
two mutex sections. `Page`, `Matched`, `HitsCut` are the tail of `search`.

### PageStream

The page is one thread: an action is the code from one `await` to the next.
`fetch`, `page`, `jump`, `lists` are the requests in flight, each with the values
its closure captured, and an answer is computed when it is served, from the
session's length at that moment. `ByOffset` and `ByTime` are the two pages
`messageSink` can give. A message is its position, so times are distinct;
instant 0 lies before the first message. Assumed: sessions only grow and never
leave the list.

### RoundSplit and Rounds

`RoundSplit` has no variables: it is `splitRounds` with `noteWrite`, `settleWrite`
and the selections of `sessionBrief`, and beside it the page's `buildRounds`,
`analyseRound`, `mergeSteps` and `summarizeRound`, both over rows
`[at, role, aside, words, block]`. A row has at most one block. Where the two read
one thing by rules of their own, the model has both:

* the kind of a tool is `toolKindOf[name]` to the server, which looks for whole words
  (`brief.go:491-510`), and `toolKind[name]` to the page, whose patterns look
  anywhere (`app.js:1405-1421`). The run has a name only the page takes for
  a write (`rewrite_file`); one only the server does (`NotebookRead`) is to the page as
  the patch below, a change whose files it does not list;
* the files of a call are a set `files` to the server, which folds the keys and reads
  patches and diffs (`toolCallFiles`, `brief.go:143-167`), and one `file` to the page,
  which knows six keys (`fileOf`, `app.js:2107-2114`). The run has an `apply_patch`
  with two files of which the page sees none;
* whether a row is an ask (`IsRoundStart`, `IsAsk`) is decided on the text blocks
  glued together by the server, on lines of their own by the page; a marker of
  plumbing that two blocks hold is one to only one of them. Such text is "apart" or
  "glued" beside "plain", "plumbing" and "none".

Each loop over rows
is a function of how many of them it has read (`ReadUpTo`, `BuiltUpTo`,
`AnalysedUpTo`, `MergedUpTo`, `WorkedUpTo`). `Rounds` lets a
CLI write such rows: asks (two may carry one second), queued prompts, injected
context, replies with and without a time, calls with and without ids, results
in any order and after the next ask, interruptions; its calls are those of `Calls`. Everything is recomputed in
every state, as the server does on every request.

### Reports

Sessions and subagents start, work, fail at tools, are archived and brought back;
the answers are operators of one moment: `ListSessions`, `ListProjects`, `Pack`
and `PackRange`, `FailuresReport`, `Digest`, `UsageByProject`, `UsageSince`. A
time of 0 is none. `Reporting` are the sessions of sources that answer `/usage` with
a query of their own (`UsageReporter`: OpenCode, Hermes, OpenClaw): their tokens and
their instant there (`bills`) are of other columns and other rows than the final's
and the list's, so `Work` always moves the bill of such a session and
may leave its final as it was. `answers` says whether the
query did: one that fails answers nothing and the finals are used
(`usage_report.go:111-123`). Projects are compared as wholes (the code takes substrings);
sources, branches and the tool filter are left out, as further conjuncts of
the same filters.

### AnswerCache

Time goes in steps; a report takes at most `Slow` of them, an entry lives
`Ttl`. `AskHit` and `AskMiss` are the first section under the mutex, `Compute`
the report, `Bank` the second section. `KeyOf` is the key as `http.go` prints it,
with the instant that `parseActivityWindow` made of the words of the question.
`usageReport` is the same code with one key.

### LabeledSource

A list in memory is the number of labels on each of its rows; `kept` is the one
the wrapped source holds, `HandOut` whether it returns that (`shares`: OpenCode's
lists and usage) or a copy of its rows (the lists of the file sources,
`records()`). Both kinds are in the run. `ListKept`, `ReadList`, `KeepList` are the
cache's hit, read and bank, which overlap; `LoadRow` and `StoreRow` are one turn
of the loop in `List`, `recs[i].Cwd = label + recs[i].Cwd`: nothing guards a row
that is shared, so another asker may write it between the two. `handed` is
to how many askers a list was handed, which the property speaks of and `MaxHands`
bounds. The validation of
a cached list is that of `SnapshotCache`, taken here as one stamp. Not modelled: a
string torn by two writes at once.

### Lookup

An id or a key is a sequence of marks, where ":" and "/" are marks of their own,
so that "equals", "ends after a separator" and "is part of" (`MatchRank`) are what
they are in the code. `FindSession` is the best rank over all sources with
`SourceMatchesWanted`, `SubagentsOf` the chain of spawns. A row is named by its
place, `<<source, row>>`, and `Precedes` is the order in which the code meets the rows; a chain of spawns
is a function from the number of hops to agents, of which `descendsFrom` walks
as many hops as there are agents. The lists of the run are every list of up to
four rows.

### McpPages

A client walks: `StartWalk`, then `GetMessages` or `ListPage` with the cursor of the
last answer, until there is none or `RefuseDeep` refuses it. `Fetch` reads one
message more than asked. `WriteMessage`, `WriteSession` and `DropSession` move
what it walks through between two calls. `walked` is what the pages so far hold,
one after the other; no answer depends on it. `Nth` is the nth message of the role
asked for, so that `OfRole` is the session as the sink sees it.

### MCReading, MCStorage, MCServer

Each puts parts that share no variable into one configuration: `part` says which
of them moves, and the others keep their initial states. MCReading has `Rounds`,
`Reports`, `AnswerCache`, `Lookup` and `McpPages`; MCStorage the three stores and
the two caches; MCServer the resolver, a labelled source, the background start
and the listener.

## Runs

| Run | What it asks | Bounds, and why they suffice |
|---|---|---|
| `count_append` | banked counts exact, shown counts never shrinking; convergence, with nothing pinned | one file, three writes, sizes 0, 1, 2, 3, 5, 6: empty, torn first row, whole row, torn second row, two rows, so every resume boundary (on a newline, inside a row) is met; one caller because `CountNeverShrinks` is a promise to one poller |
| `count_overlap` | one scan per file, `counting` exact, backlog served, records current | two callers, one file created, replaced and deleted, two worker slots with a limit of one; two is where "the older round publishes last" appears; callers and workers are symmetric |
| `server` | cap, permits, every connection ends; the parent's verdict; the sources that serve; a labelled row has one label in a source of files, and in one with a database at most one for each time its list was handed out | four connections on one permit and one queue slot: admitted, queued, refused and late at once, failing accepts and a stop at any moment; a child that listens or gives up one interval after its start and is given two, three for the probe; two modes, two databases, one label, three changes of the disk: away, back and a second store between them; two askers of a source of each kind, a list of two rows that changes once, four lists in memory, of which one is handed out twice: one more label than there should be is one more hand-out |
| `otel` | marked is sent, known is whole, all is exported | two rows in one or two sessions, pages of one row, posts of one span: a second page, a second batch and a second session are the first places where partial work exists; two failures, one restart |
| `listpoll` | TTL, the poller catches up | the poll, one other request, one usage report; one change, one archive move, one outage |
| `search` | page and counts exact, only the last session is short, search ends | three sessions, the middle one with a subagent, two workers, all distributions of up to two hits, page sizes 0, 1, 2 (none, cut, cut at the second), cancellation anywhere |
| `pagestream` | window as asked, contiguous | pages of two, a session of three that grows to four: short page, full page, overlap; one refresh in flight, one selection, jump and forced refetch each |
| `pagestream_follow` | an open page follows its session | the same with a switch of the order and a failing answer, no jump (an anchored window is not meant to follow) |
| `reading` | page and server read the same rounds, closed rounds stay, `at=`, `since=` and the tail select what they say; list, projects, failures, digest and usage agree; limits cut the oldest; cached reports are recent; a row opens itself; a walk skips nothing | four rows (ask, call, the next ask, the late result is the shortest of the bad cases) and two files; two sessions, one without a project, and a subagent, three moments, pages of one and two, `Enough` 2 for the code's 4 (a scan that stops while candidates are left needs two failures, not four); two askers, one fixed and one relative question, three asks; four records over two sources, of ids one of which holds two others; five messages and three sessions, pages of one and two, so that a walk has three pages and a page is cut short, a deep page from offset 4 |
| `transcripts` | the readers of each format agree | every transcript of three rows, of four where a reader looks ahead or back (Grok, Codex, Pi, OpenClaw, dsh, Antigravity): ask, call and result, with a row of every kind before, between or after, and in Codex a usage record behind a full page; pages of one and two with offsets 0 to 2, so the ring turns; a final that looks through two replies of up to four |
| `storage` | Claude: nothing hidden, copies right. Codex: listed once, turns counted once. Hermes: the page exact. The two caches implement `FreshRead` | three transcripts and four writes (a copy of a copy, and it goes on); two turns, four versions of the compressed file (half written, whole, rewritten torn, whole); four Hermes rows with one pause, chunks of one row and one hot journal; two callers of each cache, three sizes, one entry of another session before the map is full; a WAL commit |
| `fork_usage` | a disagreement, see below | two turns, no compression |

Every passing run's properties are also run against a deliberately broken
definition (the operators marked `\* mutant`), to make sure that the property
can fail at that bound.

### Fairness

`CountCache`: goroutines run (weak fairness of each worker), the page polls
(weak fairness of each caller); writers are never fair. `LimitListener` (in
`ServerSpec` of MCServer, while the connections are the part that moves): the
loops and goroutines run, `admit`'s timer fires, and the server's read, write
and idle timeouts end what it serves; signals and errors are not fair.
`OtelExport`: the ticker ticks and the clock passes; failures are bounded by a
budget, which is "the collector is up again some time". `ListPoll`: the poll
repeats and its handler runs; the list's mutex is granted with strong fairness,
which is Go's starvation mode of `sync.Mutex`; the store becomes readable again.
`SearchPool`: dispatcher and workers run; that a caller hangs up is not assumed.
`PageStream`: requests are answered, timers fire; the reader does nothing.
Everything else is safety, and has none.

## Where the code differs

One run must find a violation, of a sentence of the documentation and of a comment
(details under `findings`):

* `fork_usage`: the final result of a Codex fork leaves out the turns it copied from
  its parent, and is kept under the stamp of the fork's file alone. When the
  parent's rollout has moved since the last list (archived or compressed), the
  copied turns are counted as the fork's, and that answer is kept until the fork
  is written again.

The same modules show more. Each line below is a configuration of a run with the
change named, and the property in place of the run's own (an action property
wants the SYMMETRY line out); TLC stops with the property violated.

| Configuration, change | Property | What happens |
|---|---|---|
| `MCCountCache_append`, `Rewrites = TRUE` | `ResumeProven` | a file replaced between the second stat and the fingerprint: the old count is banked with the new fingerprint and a later resume adds to it (`filecache.go:201`, comment at 62) |
| `MCStorage` | `StampedExactly` | a read between a WAL commit's last write and its appearance keeps the old content under the new stamp until the next write (`sqlitecache.go:60`) |
| `MCServer` | `HandedOver` | one passing accept error ends the loop for good; a queued connection that gets its permit is never handed over (`http.go:1114`) |
| `MCServer` | `ExitsGracefully` | on a signal `Serve` returns at once and `Run` with it: the process exits while `Shutdown` waits for the connections being served (`run.go:260`) |
| `MCServer` | `DatabasesFollowed` | OpenClaw's databases are those that existed when its source was made: none that appears later is read, one that is gone stays in the set ("keeps finding new databases", `source_openclaw.go:50-51`; "drops out", `source.go:382-385`) |
| `OtelExport`, `SameInstant = TRUE` | `KnownIsWhole` | a row written in the second in which the first pass exported the session is not exported until the session grows again (`telemetry.go:674`) |
| `OtelExport`, one session, `MaxRows = 3` | `KnownIsExact` | rows appended between two pages shift the next one; a round is counted twice and later ones are exported under wrong numbers (`telemetry.go:346`) |
| `ListPoll`, `Archived = TRUE`, two sessions, `MaxMoves = 3` | `ClientCatchesUp` | the tag has how many sessions are archived, not which: one archived and one brought back answer 304 (`api.go:199`) |
| `ListPoll` | `UnchangedIsTrue` | tag and body read the warnings at two instants (`http.go:589`) |
| `MCServer` | `LabelledOnce` | a labelled OpenCode instance (`--path opencode:box=...`) labels the rows its database cache keeps, and once more at every further list of a database that did not change (`source.go:287`; the comment at 284-286 says that cannot be, which holds of the other sources' lists; the usage of OpenCode and Hermes is handed out as it is kept, too) |
| `MCServer` | `NobodyWritesWhatIsRead` | it labels those rows while another request reads them; and the same wrapper writes `source` into the final result the cache shares while another request encodes that map (`source.go:311`; "must not be modified", `finalcache.go:14`) |
| `MCReading` | `PageListsChanges` | the page does not list the files of a patch, and takes other names for writes than the server does, so its changed files are not the round's (see `RoundSplit` above) |
| `MCReading` | `RepeatIsServed` | the key of a window that counts back from now holds the instant of the request, so the page's own `since=7d` is never answered from the cache that is there for it, and each request leaves an entry for good |
| `MCReading` | `FailedWritesChangeNothing` | a write without an id counts as a change although its result failed (`brief.go:382`; the comment there says so) |
| `MCReading` | `ChangedIsComplete` | a write whose result comes after the next ask is a change of no round (`brief.go:393`) |
| `MCReading` | `PackRangeHolds` | a pack whose first entry has no time keeps an empty beginning of its range (`pack.go:160`) |
| `MCReading` | `SameSelection` | a bounded `/failures` or `/digest` keeps sessions without a time and leaves out the instant `until`; the selection of search and packs does the opposite (`activity.go:18`, `api.go:510`) |
| `MCReading` | `PagesNeverOverlap` | pages from the newest message, and pages of the list, repeat what moved between two calls (`mcp.md:161`) |
| `MCSearchPool`, `PerSession = 2`, `MaxHits = 3` | `ResultsExact` | a scan that stops inside a session leaves it on the page with fewer hits than it has, and which depends on the run (`search.go:192`) |
| `PageStream` | `PaintsSelected` | a page loaded for the old session is painted under the newly selected one (`app.js:4300`) |
| `PageStream`, `Toggles = 1`, `StartLen = 5` | `Contiguous` | a switch of the order during a fetch leaves the old window under the new order (`app.js:4430`) |
| `PageStream`, `MaxLen = 6`, `Jumps = 0` | `Contiguous` | a window that was paged is not refetched; when more messages have come since than it has, its size as an offset (`app.js:4264`) ends beyond it, and the page loaded for the older edge is made of newer messages, with a gap. With `MESSAGE_LIMIT` = 200 the window must have been read more than 200 messages ago (`app.js:4333`) |
| `PageStream` | `NoMoreIsTrue` | an empty page marks the edge of the window that replaces the paged one (`app.js:4292`) |
| `PageStream` | `PagedHolds` | a refetch that left before the reader paged replaces what was paged (`app.js:4399`) |
| `PageStream` | `AnchorOfSelected` | a jump answered after another selection anchors the wrong session (`app.js:3774`) |
| `Transcripts`, `Deeper = {}` | `EveryHitLands` | the window at a hit does not begin with its message ("a hit has to carry the time of the message it is in", `searchfile.go:41-45`): a dsh hit has milliseconds, its message's time is cut to the second (`source_dsh.go:373`); a line of Antigravity's, searched as a file when the index has nothing (`search.go:246`), has `created_at` where the search reads `timestamp`; a `$set` patch of Gemini's has no time of its own. The latter two hits have no time at all |
| `Transcripts`, `Deeper = {}` | `CountIsShown` | a Claude stop hook with blank errors is counted (`source_claude.go:852`) and not shown (808-818); the comment at 822-825 says the two numbers are one |

The passing runs leave out exactly the step that leads there (writers that only
append, no two rows in one second, no switch of the order and no session that
outgrows its window where contiguity is asked),
and say so in the property or the configuration. Where a theorem is about the same
property, that step is its hypothesis, and the line above is why the hypothesis
is needed.

The remaining differences stand in the definitions, which follow the code, and are
what the properties make room for:

* A session written between two pages of a list moves before the cursor and is
  missed by an MCP client's walk (`WalksReachAll` leaves such sessions out).
* Codex: a full page counted from the oldest message ends before the
  `token_usage_record` behind it is read, so the agent's last message in it may lack
  its usage, and rows that are no message of the agent's may stand between the two
  (`PagesAgree`); two
  usage records of one turn are summed by the messages and the first is kept by the
  final. A fork that has only copied turns falls back to the running total. A
  rollout that goes from packed to compressed only between two globs is missed by
  that list.
* The list's number and the messages shown: Antigravity and dsh show tool steps they
  do not count; Gemini's record of a session in two files shows the first file's number.
* Grok has two logs of one conversation, which merge two prompts in a row
  differently and of which the history does not say how a call ended
  (`source_grok.go:546-549`), and gives a hit a time of its own; its `summary.json` is read for the
  record and not stamped. A Claude subagent's record is kept under its
  transcript's stamp and built from `meta.json` too. The title of a Claude session may
  come from a sidechain row; its search keeps queued prompts without text. The title
  of a Gemini session passes over prompts inside a patch. dsh names every result
  "tool", whatever the call's name (`source_dsh.go:214`, 244).
* `docs/api.md:29` and `activity.go:143-145` say the digest's tokens are summed as
  `/usage` does. For sources that report their usage themselves they are not:
  OpenCode 2.x dates a session by its own `time_updated` (`source_opencode.go:181`)
  where the list takes the newest message's if that is later (320-324), 1.x has no
  cache columns (204-227) and the final does (767-803); OpenClaw adds up all messages where
  its final reads the closing one (`source_openclaw.go:320-378`); Hermes reads its
  sessions' columns (`hermes_sqlite.go:248-295`). `ReportsAgree` compares the two reports
  with those sessions taken out of both, whether the queries answer or not.
* `find_failures` names a parameter `include_archived` (`mcp.go:729`) and does not read it.
* OpenClaw's final looks at the last ten replies only: a session whose ten newest replies
  all ended to run tools has no final text.
* Hermes: a search hit may be of a row only the model sees, or of both copies of a
  repeated row; its final is four queries without one transaction; of two copies
  the one kept is chosen by comparing ids as strings; after the last refused
  attempt the partial page is returned; the usage query's retries append to
  what the failed attempt had collected.
* The fallback OpenClaw source and the one found later are two instances that share
  one list cache by their mode. The page asks for messages and finals by id alone
  (`app.js:4371`, `4260`): of an id two sources share it opens the first one's.
* `-d`: a child that needs longer than the settle delay to fail, beside another program
  on the port, is reported started; one that needs longer than the probe allows is
  reported failed and goes on.

## Proofs

All theorems hold for every value of the constants under the named `ASSUME`s,
which TLC evaluates on the instances.

* `CountCacheProofs`. `TypeCorrect` needs one strengthening: `working` is the
  number of workers that are not off (else "at most `Limit`" is not inductive).
  `QueueTracked` is inductive as the conjunction of what it states with "a worker
  in a scan has its path in `counting`"; with `BacklogHasWorker` it gives
  `QueueSafe`. `CountsNeverDrift` (`BankedExact`) rests
  on `ResumeAdds`: the rows counted up to a newline and the rows counted from it
  are the rows, and on an invariant that says of each place in a scan what its
  locals still mean if the file has not moved since the first stat.
  `ListIsCurrent` (`ListAnswersCurrent`) holds because a banked record was built at
  its stamp or later, so what a caller answers is no less than what it saw when it
  asked (`RecordInv`). `ShownNeverShrinks` is `CountNeverShrinks` under the
  assumption of one caller: an append-only file only gains bytes from version to
  version (`SizeInv`), a file that came after the glob is neither counted nor queued
  before the round ends (`SeenInv`), and a number once shown is at most the banked
  one of a path that is still listed (`ShownInv`).
* `ListPollProofs`. `WithinTTL` is not inductive: it needs that only the holder of the
  scan's lock makes a list young again. A list expires only while it is young, so
  nothing expires between the start of a scan under the lock and its banking, and
  the rows read in between are of after the last expiry (`AgeInv`, `LockInv`;
  `ListsWithinTTL`).
* `PageStreamProofs`. `WindowAsAsked` speaks of the page at rest; inductive is
  the half about requests in flight: a fetch nobody queued a call behind is for
  the present session and anchor (`Queued`, `WindowStaysAsAsked`).
  `WindowStaysUnbroken` is `Contiguous` with two hypotheses, each with its
  counterexample in the table above: the order has not been switched, and
  `[]NotOutgrown`, that no window read from the session's end has been outgrown by
  it. The invariant (`UInv`) says of every request in flight what its captured
  anchor, edge and offset mean for the window that is on screen now, or that its
  answer will be thrown away.
* `ServerProofs`, the parts of MCServer but the labels.
  `CapIsKept`: `PermitInv` says whose the taken permits are, and the cap and the
  balance follow by cardinality. `VerdictIsTrue` (`DaemonVerdict`) has the
  hypothesis `InTime`: a child listens or gives up in less than the settle delay,
  and a probe still comes after that and before the timeout. In the code
  these are 300 ms, 5 s and 50 ms (`daemon.go:19-22`); what a slower child does
  is among the differences above. The invariant
  follows the parent's place and says what the clock, the last probe and the
  child's end still allow. `SourcesAreOnce` (`SourcesFollow`): the remembered
  instances have different modes, those already enabled in this call are the
  modes looked at so far, and an instance that has ever been served is remembered,
  so that what comes back is the same one.
* `OtelExportProofs`. Sending is known by positions: of the rounds to send every
  span is still pending or with the collector, and a round that is not sent is one
  the cursor has; so what is marked is whole there. `RememberedInvariance` is
  this for the cursor in memory and on disk, with failures and restarts, and needs
  no hypothesis. `CursorIsTrue` (`CursorTrue`), that a session the cursor knows
  at its present version is with the collector to its last row, needs
  `SameInstant = FALSE`: two rows in one second are the table's counterexample.
* `StorageProofs`, the parts of MCStorage.
  * `FinalCache`: the stamp comes before the read and the files of a final only
    grow, so what is kept of a file is at least its stamp and a caller's stamp is
    at least the size at its call; a file left out of a stamp was empty at the
    call. `FinalsAreFresh` is the refinement of `FreshRead`, once per file, for any
    number of callers and other sessions.
  * `SnapshotCache`: the stamp is not taken at one instant, so the invariant
    quantifies over every answer that is or may be banked and every caller half-way
    through its stats (`Sound`, `MayMatch`). `BankedIsCurrent` follows, and
    `SnapshotServesCurrent` is the refinement of `FreshRead`.
  * `CodexStore`: a file that is gone from a path never comes back to it, so a
    stamp kept of a path is at most the file's, and an equal one is of the file as
    it is. Both the parent's turns (`TurnsOnceInvariance`, `TurnsCountedOnce`) and the
    verdicts on compressed files (`ListedOnceStep`, the action property
    `RolloutListedOnce`) rest on it. The second also needs what each of the four
    globs has already seen of a rollout that does not move (`Globbed`).
  * `HermesStore`: a row that is written again gets a content the first query did
    not see and that no other row it saw will have, so the keys fetched differ
    whenever each is read; and the rows still unread are behind those read, so the
    chunks are in order. `PageIsExact` (`HermesPageExact`).
  * `ClaudeStore`: every stat is taken before the read it stands for, so a file
    whose stat is still the one taken is the file that was read; two files of one
    group share only what was there before the first stat, so a copy has nothing
    within its stat that its target lacks. The paths reached from a copy are the
    least set closed under going on, so by a smallest such set the way has an end,
    that is listed and holds what the copy held.
    `CopiesAreExact` (`CopiesExact`) and `SessionsAreReachable`
    (`SessionsReachable`).
* `ReadingProofs`, what is read of the stores and kept or opened.
  * `AnswerCache`: computations of one key may be banked in any order, so an
    entry's data can go back; `AgeInv` bounds it by the version at the step `Slow`
    before the entry's own time, and a computation under way by the version at its
    beginning. `AnswersAreRecent` is `ServableIsRecent` for any number of callers.
  * `LabeledSource`: the labels on a row and the askers who have still to write it are
    together no more than the list was handed out (`RowsCounted`), and what an asker
    read of a row and has not written back keeps to the same bound (`ReadCounted`): two
    who read and write one row at once lose a label and never gain one. Hence
    `LabelsAreCounted` (`LabelsPerHandOut`). Where the rows are made for each call a
    list is handed out once.
  * `Lookup`: a row and its own id have the best rank there is, which only rows of
    that id have; a source has one of them, and a CLI's own source is asked before
    its labelled ones. An agent joined to another by spawns is joined by a shortest
    chain, which meets no agent twice and so has fewer hops than there are agents:
    `descendsFrom` does not stop too early. `NamesOpen` (`LookupExact`).
  * `SearchPool`: the invariant ties the counter the dispatcher reads to the set of
    flagged sessions (workers between the two sections lag by one each) and says
    every transcript below `next` is read or held by a worker; with `UnitOf`
    monotone, a session below the cut cannot be newer than the last one on the page
    (`AnswerIsExact`). `OnlyOneIsShort` (`OnlyLastIsShort`) adds that a session whose
    transcripts lie wholly below `next` has been read whole, so only the one the
    scan stopped in can show fewer hits than it has.
  * `McpPages`: the messages of a role are ranked by their place, so one that is
    written is the role's last or none of them; a page is the slice from the cursor
    on, or the one that ends where the last one began, counted from the end as it
    is now; a session that is written moves the others down by one place at most, so
    what is ahead of the cursor stays ahead. `WalksReach` (`WalksReachAll`).
  * `RoundSplit` and `Rounds`. A session's rows only grow at the end, so the invariants
    are small (`SessionTypes`, `TimesGrow`, `CallsWell`: a result is of a call before
    it, an id is called once). The rest holds of any rows they allow, row by row.
    `ClosedRoundsHold` (`ClosedRoundsStay`, an action property): `ReadUpTo` of the
    longer session is that of the shorter one on its prefix, and a row touches the
    last round alone. `SelectionsFind` (`SelectionsNameRounds`): starts do not go back
    in time, so `at=` finds the round whose span holds the instant, and what `since=`
    and the tail select is a suffix.
  * `RoundsAlike` (`RoundsReadAlike`), for any tools, however the two sides sort and
    read their calls, and any rows whose asks they see alike: the page first groups
    rows into rounds, then pairs the calls of one round, then folds its steps. `Fit`
    and `PageFits` tie the group to the server's round after the same row; `StepsWell`
    and `Tells` say which rows the steps stand for; folding keeps the steps it was
    given (`FoldTells`); and so the counts, the failures and the answer shown are the
    round's, and so is whether a file was changed, of each file that no call of the
    round leaves them at odds about (`Contested`, `Explained`).
* `ServerProofs` also has what the readers of a format owe each other, for any
  transcript the CLI may write, of any length.
  * `PagesHold` (`PagesAgree`). For any sequence of messages the sink's page is the
    window asked for: counted from the end the ring holds the newest
    (`HoldsNewest`), from the beginning the oldest (`HoldsOldest`), and the scan stops
    no earlier than the page is full (`PageIsWindow`). Nine formats pass their
    messages to it one by one. Codex stops its scan with the page, and then only the
    usage read after that is missing (`PagedAlike`, `UsageIsRead`). The invariant
    is `Written`: every row is one its CLI may write there.
  * `CountsHold` (`CountsAgree`): a scan lists as many messages as rows are
    counted; a count splits at any line, so an older count may be resumed; the files
    of a Gemini session add up, by induction on the end of the last one. Antigravity
    needs that a step is rewritten in place (`AgyWritten`).
  * `QuotedHold` (`QuotedIsShown`): a message's row and time grow with its place
    (`Shape`), so a page of one from the time of a hit is the message that was hit;
    and the title is the text of the first prompt that is shown. dsh writes
    rows again when it compacts, and `DshWritten` says a row that comes again is
    like the first.
  * `FinalHolds` (`FinalAgrees`): the final text is the last message that is a reply, in
    every format; and in Claude Code, Gemini, Pi and dsh usage added along the messages
    is usage added along the rows (`SumOfParts`). Of the others it says less: Codex
    with usage records may have some before any reply, OpenClaw is compared by its
    report, Antigravity adds up the steps that are done, and Grok's usage and
    Codex's running totals are not compared. Codex names the turn in its records, so the invariant `CodexTurned` says
    that a turn's number is the number of turns begun so far and that a record has
    its turn before it (`Heard`). Among OpenClaw's newest replies the last that
    speaks is the last of all that speaks, if one of them does (`LaterPlaces`).

* `CallProofs`: `AnswersHold` (`AnsweredOnce`). A row makes a call of its own number or
  answers one that is open, so of each call there is one result, after it
  (`Matched`). In most formats a message is one row and says of calls what the row
  does (`Told`); in Grok it is a run of rows (`Spans`); in Gemini the answer stands on
  two rows, of which one is shown with it and knows how the call ended; a row of dsh
  that comes again says the same.

Much of this is induction over data. It is proved by a least counterexample:
`LeastOf` and `UpTo` come from the library's well-founded order on the naturals,
without an operator parameter, and `Iterates` says that a function defined by its
value at 0 and a step has those values.

Only model-checked: all liveness (`CountsConverge`, `EveryConnectionEnds`,
`AllExported`, `ClientCatchesUp`, `SearchEnds`, `FollowsSession`), which is out of
the prover's reach; `ReportsAgree`, whose reports sort, flatten and add up with the
library's operators for sequences and folds, which are opaque to the provers; and
`GrokFormsAgree`, which matches the runs of one log with the turns of the other: that
bijection has not been written down.

## Not modelled

* The HTTP surface (routing, tokens, CORS, parameters, assets), pack and export
  documents, start-up and `--check`, file kinds, the health check and the icons:
  sequential code over one request or one command line, without state between two.
* Query and file matching, the cleaning of text, times and their formats: work on
  characters. What a scan finds is chosen freely in `SearchPool`.
* The page's list search, find in the session and drawing: filters of what is on
  screen, and markup.
* OpenCode's JSON storage of older versions and its merge with the database, and
  the parts of its messages.
* The fields of list records, models, kinds and token classes, and of Hermes the
  list, usage, search and final queries.
* Of MCP the stdin loop, the checks of arguments and the tools without a cursor.
* Of search the order of hits inside one session; of the exporter what is listed above.

## Plan

What is here was written from the state that is shared and long-lived (caches,
pool, listener, cursor, window) towards the stores, and what is computed from them.
What would come next, in this order:

| What | Code | Properties aimed at | Composes with |
|---|---|---|---|
| OpenCode's two stores | `source_opencode.go` | a session that is in both is one, with the rows of the newer | `SnapshotCache` |
| Finals and usage of Hermes | `hermes_sqlite.go` | nothing twice after a retry | `HermesStore` |
| The page's searches | `app.js` 907-981, 3919-4134, 4569-4790 | the results shown are of the query shown, with two queries in flight | `PageStream` |
| `LineReader` | `record.go` 372-544 | an overlong row is skipped whole, and the offset still names a border | the rows of `CountCache` |

Theorems, in this order: `GrokFormsAgree` (every run of one log is a turn of the
other, in the same order) and `ReportsAgree`, which needs facts about sorted sequences and about sums over sets of
sessions.
