# Verification of the procurement console

TLA+ models, TLC runs and TLAPS proofs for `procurement-ai-platform`: the API
process of the specialist console, its background discovery of procurement
procedures, the scans of the registries it reads, what it does with a procedure
once a specialist has seen it, and the screens people see of all that.

Every definition is translated from the TypeScript sources; the map from
definitions to lines is in `PROJECT.json` (`map`). Paths below are relative to
`src/`.

## 1. The system

One Node.js process (`apps/api`) serves a web console (`apps/web`) to
procurement specialists. Each specialist (or team) has a *cabinet*: a workspace
(profiles, triage journal, inbox) and a catalog of *cards*, one per procedure.
The process keeps both in memory, and writes them to PostgreSQL or, without a
database, to a workspace file. It talks to registries (goszakupki.by, BUTB)
through child processes speaking MCP over stdio, downloads and indexes
documents, and takes decisions from a Telegram bot.

The process is single-threaded: code between two `await`s is atomic, and every
`await` lets every other request, timer and job of the process run. That, the
failures of the registries and of the database, restarts, and a console whose
requests overtake each other are where the system is hard.

### 1.1 Inventory

| component | source | state | operations | what makes it correct |
|---|---|---|---|---|
| Background discovery pass | `apps/api/src/app.ts` (`discoveryPass`, `fetchProfileHits`), `packages/domain/src/specialist/workspace.ts` | per profile: `lastDiscoveryAt` (watermark), `discoveryScanCursors`, signature of the search | start, read a page of every lane, merge tokens, score, record, edit profile | the watermark passes no procedure the profile has not been given; a failed source keeps its place; a first pass converges |
| Multi-source search port | `apps/api/src/procurement-search.ts` | none between calls | fan a query out, merge hits, more-flags and tokens, name the failed sources | one failing source does not spoil the others |
| goszakupki.by scan | `mcp/procurement/src/goszakupki-by-source.ts` | resume token: page per phrase | read a page of every phrase, slice to the limit, hand out a token | what is read is returned or stays ahead of the token; a reading ends |
| BUTB scans | `mcp/procurement/src/butb-source.ts` | resume token: last row seen; a cache of windows | subject search, plain registry scan, fallback between them | rows below the cursor are reached; the cursor never rewinds |
| Case decisions and trash | `app.ts` (`applyTriageDecision`, restore, discard), `workspace.ts` | triage journal, card's triage | monitor, participate, reject, hide, restore, purge, archive | an answered decision is durable; a returned case stays returned |
| Case page, watch pass, inbox | `app.ts` (`hydrateSourceCard`, `applyFreshSourceCard`, `monitorDecidedCases`), `card-watch.ts`, `packages/domain/src/specialist/source-card.ts` | card's snapshot of the page, inbox rows | open, reindex, hydrate, watch pass, dismiss | no change of a followed case is applied without an inbox row |
| Document job | `app.ts` (`startDocumentJob`, `restoreDurableWork`), `document-ingest.ts`, `ingest-progress.ts` | `ingesting` flag, running jobs; documents, blobs, progress | start, download, unpack, follow links, finish, resume, reindex | the flag means a job; jobs end; nothing is fetched twice; what was read stays |
| Cabinet persistence | `persist.ts`, `packages/db/src/specialist-store.ts` | writer chain; rows | save cabinet (late image), save profile row, delete profile, load | writes do not overtake each other; a deleted profile stays deleted |
| Discovery control | `discovery-control.ts`, `discovery-queue.ts` | cooldown, failure counter, breaker, single flight | start, success, failure | the breaker opens on outages alone and closes again; one pass at a time |
| Manual search | `app.ts`, `search-progress.ts`, `search-review.ts` | run, progress slot, queue of rows | search, score, cancel, "more" | a superseded run adds nothing; progress ends |
| Telegram bot | `telegram.ts`, `main.ts`, `packages/db/src/telegram-store.ts` | update offset, links, codes, sent marks | poll, link, notify, remote decision | an update is handled, an event told once |
| MCP client pipes | `packages/mcp-client/src/call-tool.ts`, `source-routing-caller.ts` | a queue per pipe | call, time out, cancel | an answer reaches its own call; every call settles |
| Source health | `source-health.ts` | last probe per source | probe, settle, report | what is called serving answered lately |
| Cabinet cache | `cabinets.ts` | opened cabinets | open, get case, share | one instance per cabinet |
| Assistant memory | `app.ts`, `decision-memory.ts`, `assistant-suggestion-store.ts`, `packages/domain/src/assistant` | decisions remembered, suggestions | derive, offer, accept, refuse | an answer is final; an accepted rule is stored |
| Authentication, administration | `apps/api/src/auth` | accounts, sessions, roles, cabinets | sign up and in, approve, revoke, change roles | there is always an administrator |
| Web console | `apps/web/src` (`SpecialistApp`, `MyProcurementsApp`, `ProcurementsApp`) | lists, inbox, jobs, search pane on screen | load, act, poll, search, stop | the screen tells what is under way; an old answer does not undo a new one |
| Relevance | `packages/domain/src/search`, `search-review.ts` | none | read a plan off a profile, add a model's, score a text, judge a card, choose the rows of a listing | a verdict has its reason in the texts; the model drops nothing; a filter does not stand in the way of a verdict |
| Scoring, commercial terms, documents | `packages/domain/src` | none | pure functions over text | |
| BUTB session | `mcp/procurement/src/butb-http.ts` | one server-side session, its lock, a circuit | page, filtered page, open card, clear | a call is handed the page it asked for; a lost session is rebuilt unseen |
| MCP servers | `mcp/*` | parsers, OCR, the requests to goszakupki.by | one tool each | |
| Object store | `object-store.ts`, `blobs.ts` | content-addressed files | put, get | |
| Agent runtime | `apps/agent-runtime` | supervisor runs | | |
| Contracts, observability, schema | `packages/{contracts,observability,db}` | schemas, logs, SQL | | |

`PROJECT.json` (`components`) lists the same parts with what is modelled of
each.

### 1.2 How the parts interact

* A timer (or Redis) and the console's "discover" button ask the discovery
  controller for a pass. A pass visits the cabinets in turn; in each,
  `discoveryPass` first runs the watch pass over the followed cases, then
  searches for each profile through the search port, then writes the cabinet once.
* The search port calls one MCP pipe per source and joins the answers
  (`Promise.allSettled`); one page of a pass is one such call. In the child, the
  call is one turn of a scan, and the resume token in its answer is all the
  caller keeps of it.
* The health monitor sends its probes through the same pipes, ahead of the work.
* Console requests, the watch pass and document jobs each read a card from the
  store, wait for a registry or a download, then put their *whole copy* back in
  memory and ask the writer chain for a write.
* The writer chain (`enqueueWorkspaceWrite`) runs one write at a time. A write
  takes its image of the memory when its turn comes, not when it was asked for,
  so it also carries what others changed in memory meanwhile. The deletion of a
  profile goes past the chain with a transaction of its own.
* A decision, from the console or from Telegram, feeds the assistant's memory,
  takes the card out of the search queue and may start a document job.
* A restart keeps what the store holds. The journal and the inbox are loaded
  when a cabinet is opened; cards are read from the store when they are needed;
  interrupted downloads are looked for on the first request of a specialist;
  a search that was running is marked as interrupted.
* The console shows an action before the server has answered it, and polls
  lists, inbox and progress without one poll waiting for another.

### 1.3 Where it is hard

`PROJECT.json` (`hazards`) has the list with lines. The groups are:

* *partial failure of a multi-source read* (one lane, one page, all lanes,
  scoring, the store), with a position and a watermark to keep straight;
* *convergence of a window*: lanes, phrases and caches of different depth, rows
  that move while they are paged, tokens that are void when the query changes;
* *stale whole-card copies* written back after an `await`;
* *two-step durability*: an inbox row and the page it reports, a flag and the
  download it announces, a marker and the message it stands for;
* *a second actor on the same object*: two searches of a profile, two requests
  that answer a suggestion, two administrators, a deletion against a write;
* *late answers*: of a child, of a model, of a listing the specialist stopped,
  of a poll that was overtaken;
* *restart* between any two of these, and updates delivered again after one.

## 2. The models

| module | kind | models |
|---|---|---|
| `Discovery` | state machine | the background pass of one profile over any number of lanes, edits, two kinds of save, restarts |
| `WindowRead` | abstract specification | what a source promises the caller that reads it to the end |
| `PhraseScan`, `SubjectScan`, `RegistryScan` | state machines | the three scans of the registries, each shown to implement `WindowRead` |
| `McpPipe`, `SourceHealth` | state machine, extended | the pipes to the MCP children; the probes through them |
| `ButbHttp` | state machine | the session a child keeps with zakupki.butb.by, under overlapping calls |
| `DiscoveryControl` | state machine | single flight, breaker, the loop over cabinets and profiles |
| `CaseFile` | state machine | one case: requests, watch pass, document job, writer chain, restart |
| `CabinetWrites` | state machine | the rows of a cabinet: late images, profiles deleted past the chain, tombstones |
| `WatchNews` | state machine | what is news about a followed case: snapshots of its page, their differences, the rows told of them |
| `WatchRota` | state machine | whose turn it is when more cases are followed than a pass may read |
| `DocumentIngest` | state machine | the files, archives and links of a document job, job after job |
| `SearchRun` | state machine | manual searches of one profile |
| `TelegramBot` | state machine | links, announcements, taps, the polling loop |
| `AssistantRules` | state machine | suggestions from decisions, answered by several requests |
| `AccountDirectory` | state machine | accounts, sessions, administrators, personal cabinets |
| `SearchIntent` | operators, and a page written word by word | how a procedure is held against a profile |
| `CaseLists`, `ConsolePolls`, `SearchPane` | state machines | the console's lists, its polls, its search pane |
| `Scans` | composition | what a background pass reads, part by part: the scans, the window of the default source, the rota; what each keeps |
| `Sources` | composition | the pipes with their monitor, the breaker of the pass and the session, side by side; what is promised of them all |
| `Workspace` | composition | what the API process does for a cabinet (rows, searches, bot, documents, news), side by side; the types of all and the truth of the inbox |
| `Desk` | composition | the console, its assistant's rules and the accounts side by side; what is true of the whole screen |
| `MCDiscovery`, `MCCaseFile`, `MCScans`, `MCLanes`, `MCApi`, `MCDesk` | instances | constants, symmetry and composition for TLC |
| `DiscoveryProofs` | proofs about `Discovery`, `WatchRota` and `Scans` | section 4 |
| `CaseFileProofs` | proofs about `CaseFile` | section 4 |
| `RegistryScanProofs`, `PhraseScanProofs`, `SubjectScanProofs` | proofs about the scan of that name | section 4 |
| `SourcesProofs`, `DeskProofs`, `WorkspaceProofs` | proofs about `Sources` and its four parts; about `Desk` and its five parts; about `Workspace` and its five parts | section 4 |

`Scans` (instantiated by `MCScans`), `MCLanes`, `MCApi` and `MCDesk` each put several
components that share
no state side by side: a variable (`scan`, `part`) is chosen at the start and
only the steps of that component are taken. The components whose properties are
also proved are extended, so that the run and the theorem name the same definition.
The three scans of `Scans` share the names of their variables and are instances, of the
modules that hold their proofs, so that what was proved of a scan is cited of its
instance (`Subject!AnchorStep`); `SearchIntent` is an instance too. In `MCLanes` the pipes are followed twice, with the calls of
the API and with the calls of the monitor, so that neither multiplies the other. This is a disjoint union of state
spaces, not a product, and says nothing about how those parts would influence
each other. Where parts do influence each other they are one module
(`SourceHealth` over `McpPipe`; the actors of `CaseFile`; the bot and the console
in `TelegramBot`).

History variables are named in each module; they are written and never read by a
guard. Operators such as `ReleasedUndecided` or `TimesOutHolding` are plausible
bugs of the definition they stand before and are not used by the
specifications.

### 2.1 `Discovery`

| variable | code |
|---|---|
| `now` | the calendar day: the registries filter by day, and a token's fingerprint contains the day of `publishedFrom` |
| `registry[l]` | rows the source would list for the profile's terms, with their day |
| `cabinet` | the profile: `lastDiscoveryAt`, `discoveryScanCursors`, the search signature (`terms`), and the procedures handed to the filter and the cards (`found`) |
| `saved` | the same in the store |
| `pass` | the local variables of one iteration of `discoveryPass` |
| `faults` | bound on failures |

`since`, `floor` and `gaps` in `cabinet` are history: they are written and never
read by a guard.

| action | code |
|---|---|
| `StartPass` | the head of the loop over profiles: `startedAt`, `discoveryPublishedFrom`, the stored cursors |
| `PageAnswers(failing)` | `fetchProfileHits` / `nextPage` with the lanes in `failing` rejected; `mergePageCursors` |
| `FirstPageFails` | the outer catch: the profile is left as it was |
| `LaterPageFails` | the inner catch: the hits collected stay, the pass is degraded |
| `PassDies` | scoring or persisting throws |
| `RecordClosedWindow` | `degradedReason === undefined`: `markDiscovered(startedAt)` and no cursors |
| `RecordHeldWindow` | degraded: `setDiscoveryScanCursors` |
| `EditProfile` | `replace` with a changed signature: watermark, cursors and verdicts are dropped |
| `SaveCabinet`, `SaveProfile` | `persist` (one transaction), `persistWorkspaceOnly` (the profile row alone) |
| `Restart` | the process dies; cursors have no column in PostgreSQL (`CursorsDurable`) |
| `Post`, `Tick` | the registries and the calendar |

A lane is one list, newest row first, with a window of `Limit` rows; its resume
token is the next position and the fingerprint of the query. `KeywordBlind` are
the lanes whose fingerprint leaves the keywords out. A lane that takes its token
ignores the offset of the call (the sources rebase it); otherwise the offset
counts rows.

What is simplified: one profile without derived terms; rows appear at the head
only; a lane returns `Limit` rows while it has them. Rows *handed to the filter*
count as delivered; whether the filter keeps them is not the subject.

### 2.2 `CaseFile`

The page of the procedure is its version: version `v` lists files `1..v+1`. A
card is the version it shows, the files it holds, its `ingesting` flag and its
triage.

| variable | code |
|---|---|
| `site` | what the registry serves |
| `mem`, `decisions`, `told` | catalog card, triage journal, inbox rows in memory |
| `disk` | card row, decision rows, inbox rows |
| `queue`, `write` | writer chain: waiting writes, the write in progress with its image |
| `proc[a]` | each actor's place in its handler and the copy it carries |
| `clock` | time stamp of the newest decision |
| `history` | what was promised to whom (never read by a guard) |

Actors are the console requests (`Visitors`), the watch pass, the document job
and the restart. Each action runs from one `await` to the next: for a request
`Arrive`, then `Decide` / `TakeBack` / `NotInTrash` / `FetchDocuments`, then
`PageArrives` / `PageFails` when the page is read, then `Answer` / `AnswerError`
after the write; for the pass `PassLists`, `PassReads` / `PassReadFails`,
`PassSaves`, `PassEnds`; for the job `JobFetches`, `JobDelivers` / `JobFails`,
`JobWriteFailed`, `JobEnds`; for the chain `WriteBegins`, `WriteCommits`,
`WriteFails`; then `Crash`, `RestartLists` / `RestartListsFails`, `RestartResumes`,
and `SitePosts`.

`startDocumentJob` stores the flagged card and queues its own write before its
caller continues, and is dropped while a job of the case runs; the helper
operators `ProcWithJob`, `QueueWithJob`, `MemWithJob` are that. `SaveCabinet`
inserts decisions and never deletes one, and a card without triage leaves the
triage column as it was. A transaction in flight at a crash may have committed.

Left out: a second case, archive and purge, hide (a refusal for everything
modelled); what a change consists of, the rows it makes and how they are resolved
are `WatchNews`.

### 2.3 The scans: `WindowRead`, `PhraseScan`, `SubjectScan`, `RegistryScan`

`Discovery` takes a lane for one list with a position. These modules say how a
source gets there, page by page, and who is the caller: one that asks again with
the token it was given until it is told that nothing more follows.

`WindowRead` is the promise. Its state is the window owed, the rows got, the rows
dropped, and whether the reading was closed. `Answer` hands over and drops rows
and may close only if every owed row was got or dropped; `Reask` begins another
window; `Slip` loses a row that moved. All of the content is in which rows a scan
may *drop*: each scan names its own losses, and a loss without a name is a
violation of the refinement.

| scan | `window` | `dropped` |
|---|---|---|
| `PhraseScan` | the rows each phrase listed when its reading began | `cut`: read, but beyond the limit of the answer whose token is past their page; `slipped`: moved under a page boundary when a row above was withdrawn |
| `SubjectScan` | the rows of the phrases when the reading began | `passed`: collected, but left out of an answer for good, above its first hit or, when it ends the reading, below its last; `stale`: the cached window was past them when the reading began, or they are newer than a row it holds; `torn`: before the place of a token in a window that was rebuilt by a call whose answer was lost; `slipped`; `narrow`: the fallback only looks at titles |
| `RegistryScan` | the wanted rows of the table when the reading began | `cut`: on the page that both fills the answer and reaches the watermark; `slipped` |

A row is `slipped` when it was withdrawn, and when the withdrawal of another moved
it up to a place that some reading under way is already past.

| module | variables | code |
|---|---|---|
| `PhraseScan` | `found`, `query`, `token`, `call` | the site's lists; the caller's phrases and filter; the resume token; the local state of `search` in `goszakupki-by-source.ts` |
| `SubjectScan` | `found`, `token`, `window`, `call` | the registry's filtered model; the scan cursor; an entry of `#windows`; the local state of `nativeSearch` |
| `RegistryScan` | `registry`, `token`, `call` | the table; cursor row and day; the loop of `search` |

Actions: `Ask` (the call begins: which token is trusted, where it starts), one
action for a page read (`FetchNextPage`, `FilteredPage`, `ReadPage`), one for
what ends the call (`PageBound`, `Deadline`, `PageFails`, `FetchFails`,
`Abort`), `Answer` (slice, token, more-flag), and what the world does: `Post`,
`Withdraw`, `Edit`, `Forget` (restart or eviction), `ReadAgain`, `FallBack`, an
answer that never reaches its caller (`Answer(FALSE)`).

Left out: the requests for one card and for documents, the text of rows, the
HTTP sessions under the pages (a page is read or fails; for BUTB see `ButbHttp`).

### 2.4 The pipes and what is around them: `Sources`

`Sources` puts three specifications side by side that share no variable:
`SourceHealth` with the pipes below it, `DiscoveryControl` and `ButbHttp`.

`McpPipe`: per lane a `queue`, the call that is `running`, and what the child
still works on (`childWork`); per call its `state` and the rest of its budget
(`left`). `Submit` and `Refuse` are `createSourceRoutingCaller` and the check of
the abort signal; `Pump` takes the next entry; `ExpireInQueue`, `TimesOut`,
`AbortInQueue`, `AbortSent` are the timer and the signal on either side of it;
`ChildFinishes` is an answer, in time or late; `ChildDies` closes the transport,
which nobody opens again. Time is counted in ticks and never passes while a timer
is due. A call is dropped from the queue when the pump meets it, as in the code.

`SourceHealth` extends `McpPipe`: `ProbeOnce` (the interval), `Settle` (the
answer to a probe), `Closed` (the exit of a child), `Clock`. `Serving` is
`servingSources` of the snapshot. Its clock does not move while a pipe is idle
with work waiting: the code's queue takes the next call in the same turn.

`DiscoveryControl`: `TryStart` is `tryStart` (single flight and breaker),
`OpenCabinet` / `SearchProfile` / `CloseCabinet` the loop of `runDiscovery`,
`Finish` and `Fail` are `recordSuccess` and `recordFailure`. Only the first error
of a cabinet decides whether a failure was an outage, as in the code.

`ButbHttp`: the site renders one table per session and moves it with every
postback, so a page is what the session shows when the request arrives. `http` is
what the client believes (its view, whether a card or the search panel has
spoilt it, the search applied, the circuit), `site` the truth on the other end,
`conv` each call with its place, `lockQueue` and `depth` the queue of operations
and the counter of open `withSession` blocks that lets a call pass it, `seen` the
history the properties read.

| action | code |
|---|---|
| `Call`, `Enter` | `#serialized`, `withSession` |
| `Start` | the head of `registryPage`, `filteredPage` and `openCard`: the circuit, what must be dropped first, what is asked next |
| `Boot` | `#ensureSession`, one bootstrap for all who wait for it |
| `Served` (`Page`, `Expand`, `SubmitSearch`, `Restore`, `OpenCard`, `Card`) | the postbacks of `#pageChange`, `#applySearch`, `#postbackForCard`, each recognized by its markup |
| `Unrecognized`, `Expires`, `LoadsAgain` | the answer of a dead session: `#guarded` replays once, `#load` of `butb-source.ts` begins again |
| `Clear` | `clearSearch`, past the lock |
| `RequestFails`, `SessionDies`, `CircuitCloses` | the network, the site, the timer of the circuit |

Simplified: a joined bootstrap that fails is asked for again by its other
callers; a request made after its session was dropped goes out without cookies;
pacing, retries of one request and the downloads of files are left out.

### 2.5 Rows, bot, search, documents: `CabinetWrites`, `TelegramBot`, `SearchRun`, `DocumentIngest`

`CabinetWrites`: `mem` and `db` are the cabinet in memory and in the rows;
`writes` the chain, `image` what the write in progress took; `gone` and `dead`
the tombstones in memory and in the settings row; `deleting` the deletion under
way. `Find`, `Create`, `Decide`, `Delete` change the memory and ask for writes;
`TakeImage`, `ImageCommits`, `ImageFails` are a write's life; `DeleteCommits` and
`DeleteFails` the transaction beside the chain; `Restart` loads the rows.

`TelegramBot`: tables (`links`, `codes`, `sent`, `rows`, `decided`), memory
(`known`, `pending`, `announcing`, `offset`, `batch`, `handler`), and Telegram
(`posted`, `confirmed`). `Poll`, `Take`, `Handle` are the polling loop with its
handler, one step per query; `Record`, `SaveInbox`, `ReadLink`, `MarkSent`,
`Send` an announcement; `ConsoleDecides`, `ConsoleUnlinks`, `CodeExpires` what
happens beside it.

`SearchRun`: `search` is each press of the button with its place in the handler,
`slot` the progress hub's entry of the profile, `runQueue` the rows found. `Ask`,
`ListingArrives`, `ListingFails`, `Begin` are the request; `SaveBegun`, `NextRow`, `Judged`, `StoreRow`,
`Close`, `Finish` the background part; `Cancel`, `AheadExpires`, `Triage` the
specialist.

`DocumentIngest`: the recursion of `ingestOne` as an explicit `stack`; a document
is known by its key (`sourceUrl` with its fragments), which decides what a later
job takes for the same document. Every `Ingest` asks the platform anew and is given
any of the files it may list, so a file can be withdrawn, and listed again, between
two jobs. `TakeListed`, `Download`, `Unpack`,
`TakeMember`, `Recognize`, `Follow`, `Return`, `FinishJob`, `Reindex`,
`TakeStored`, `JobDies`. What the text of a document says is not modelled; which
links it holds is a constant.

### 2.6 What a watched page tells: `WatchNews`

`CaseFile` takes the page for a version and its inbox row for a number. This
module opens them: a page has a badge, a price, a deadline, one event of a
chronology and files with a content, and any of it can change, not be printed for
a while, and come back. The case is one the specialist takes part in, which is
told everything.

| variable | code |
|---|---|
| `page`, `day` | what the registry serves; the calendar |
| `card` | `status`, the text of the badge (`label`), the `amount`, and `snap`: the snapshot of the last reading, with the probe kept for every file |
| `inbox`, `dismissed` | the inbox of the case, and which of it was resolved |
| `watch`, `desk` | the copies of the card a pass and a request carry over their `await`s |
| `first`, `gaps` | history: the first value shown of everything; what vanished, which readings overlapped, which row was resolved although its change had come again |

| definition | code |
|---|---|
| `Snapshot`, `Baselines` | `cardSnapshot`, `mergeDocumentProbes` |
| `Checked`, `NextTarget` | the order of the `checkedAt` of the files; `nextDocumentProbeTarget` |
| `Diff`, `Altered` | `diffCardSnapshots` and what it calls for each field |
| `StateRows` | "the deadline has passed", "tomorrow is the last day" |
| `OnceForEver`, `Recorded` | the ids of rows, `dedupeKey`, the record of the catalog |
| `Merged`, `Apply` | `applySourceCard`, `applyFreshSourceCard`, `applyInboxChangeToCard` |
| `PassLists`, `PassReads`, `PassProbes`, `ProbeFails`, `PassReadFails` | `monitorDecidedCases` with `probeWatchedDocument` |
| `DeskAsks`, `DeskReads`, `DeskReadFails` | the card opened afresh, or a row resolved by reading the page |
| `StatusMoves`, `PriceMoves`, `DueMoves`, `EventMoves`, `FileMoves`, `NextDay` | the registry, the calendar |

`WatchRota` is the same pass over several cases. `memory` and `rows` are the
`capturedAt` of their snapshots, of which only the order matters: the times are
numbered anew at every step, so that passes can go on for ever in finitely many
states. `lists` says whether the pass makes its list from the store
(`listWatchedCases` of the store) or from memory. `StartRound` takes the oldest
`WatchLimit` cases in order, `Reads` and `Unreadable` are one turn, `Saves` and
`SaveFails` the end of the pass, `DeskReads` a reading asked for by the
specialist, `Decides` a case that begins or ceases to be followed. History: how
often each other case was read since the `patient` had its turn.

A row about a change is the triple (what, was, is). Left out: the delay of the
write and the download that new files start (both in `CaseFile`), the names of
files, rows resolved without reading the page.

### 2.7 People: `AssistantRules`, `AccountDirectory`, `CaseLists`, `ConsolePolls`, `SearchPane`

`AssistantRules`: `memory` (decisions remembered), `offers` (suggestions by key),
`excluded` / `stored` (the profile's exclusions in memory and in the row),
`desk[d]` (a request), `study` (the analysis in the background). The derivation of
a signal is a definition over the sets of decided cases (`Signals`), with the
thresholds as constants. A term is a sequence of stems; stemming itself is left
out.

`AccountDirectory`: `accounts`, `sessions`, `cabinetsOf`, `slot[d]` (a request
between its queries). `LookAtStatus`, `Lock`, `Write`, `CloseSessions` are
`replaceStatus`: the status is read outside, the check for the last administrator
is made under the lock of the transaction.

`CaseLists`: `place` is the server, `lists` what each tab holds with its kind,
`generation` and `loads` the guard against late answers, `actions` optimistic
actions with the snapshot they restore. `ConsolePolls`: the inbox with
`knownInboxIds` and the toasts raised; the ids followed in `ingestingIds` with the
progress shown. `SearchPane`: the pane's `busy`, `busyKind` and
`searchGeneration`, and the cards and the run its parent keeps. `Desk` puts these
three beside the rules and the accounts. Rendering, forms and wording are left out.

### 2.8 How a procedure is judged: `SearchIntent`

The pure part of the search: a text is a sequence of words and marks, and a word
stands for all its inflections. The operators are the functions of the code:
`InferPlan` (`inferSearchIntentPlan`, with the phrases that are works, deliveries
or a thing for a purpose), `MergePlans`, `ScoreText` (`scoreSearchIntent`: what is
found and the role of a refused verb in `Facts`, the points in `ScoreOf`, the
decision in `Judged`), `ScoreCard` (`scoreIntentProcedure`: the `Strongest` of the
texts of a card), `SelectRows` (the listing) and `ReviewRow` (the card
first, the model second). The state is one profile, one plan of a model and a page
that its site writes word by word, lot by lot, so that a behaviour is an input and
the graph of states is all inputs up to the bounds. The constants name what the
code has lists for: abbreviations, foreign codes with a term in them, ordinary
words with the letters of an abbreviation in them.

The properties do not repeat the decision table; they are said of words and their
places (`Standing`, `Longer`, `Fits`, `Refuses`) and compared with the verdict.
Left out: stemming, the scoring by queries alone when there is no plan, the
card's own score (`scoring/engine.ts`).

## 3. The runs

Passing runs:

| run | instance | what it shows |
|---|---|---|
| `two_lanes` | two lanes, PostgreSQL, one day step, up to 3 rows each, one edit, one fault | `WatermarkHonest` over every order of posts, failed lanes, dead passes, saves, edits and restarts; `SilentLaneKeepsItsPlace` |
| `scans` | the three scans (that of the registry with room for all and with less), pages of 2, up to 6 rows, one or two phrases; the default source with the workspace file, one edit, one fault; three followed cases of which a pass reads two, at most one unreadable | `WindowIsRead`: each scan implements `WindowRead`; `PlacesAreKept` (`OnePhraseKeepsItsAnchor`, `OneSourceReadsTheHead`); `CursorNeverRewinds`; `ReadingEnds` (of a scan, and of the window by passes); `PostedRowIsDelivered`; `InTurn`, `TailIsCoveredBehindFew` |
| `lanes` | one child with four names of calls; one child with two probes; two cabinets with three profiles; two calls over one session with two terms | `OneRequestAtATime`; `AnswersAreOnesOwn`; `PipesKeepTheirWord` (`QueueIsFair`, `VerdictsAreTrue`, and of the session `AnsweredAsAsked` and `OneDeathIsInvisible`); `EveryCallSettles`; `PassesGoOn` |
| `busy` | two requests of any kind, a watch pass, a job, a new page, one fault | `AckedDecisionSurvives`, `NewsIsNotSilent` |
| `resume` | two requests one after the other, no watch pass, three faults, fairness | `DownloadsSettle` (`FlaggedWorkResumes`, for every process that can list the flagged cases, and `JobSettles`); until the second request or a watch pass comes, the job by itself keeps its flag true and durable (`LoneJobKeepsItsFlag`) |
| `api` | two profiles and a card; two users and one chat; two presses over one row; six files in three jobs, each with its own listing; a followed case, its pass and a request | `DeletedStaysDeleted`, `DecidedCardIsKept`, `StoreCatchesUp`; `ToldOnceHandledOnce`, `UpdatesAreHandled`; `SupersededIsSilent`, `TriagedLeavesQueue`, `RunSettles`; `LinksAreBounded`, `ReadStaysRead`; `InboxIsTrue`, `NewsIsFound` |
| `desk` | two requests over three cases; two cards; two notices; one card in the pane; two accounts; four profiles, two plans of a model and every page of up to three words | `AcceptedIsSaved`, `AnswerIsFinal`; `ListsMoveForward`; `NoticedOnce`; `ConsoleIsTrue`; `AlwaysAnAdmin`; `VerdictIsEarned`, `ModelDropsNothing` |

`WatermarkHonest` is stated with exceptions, each of which is on record in
`gaps` when it happens: a lane's head was never delivered, a head older than the
margin, a profile edited during its pass, a profile row saved without its cards.
That is not to excuse them. It separates one promise ("nothing *else* ever makes
the watermark pass an undelivered row", checked and proved) from four ways the
code breaks it (section 5.2). The named losses of the scans in section 2.3 are
the same device: `WindowIsRead` says there is no other loss, and each loss is a
gap of its own. `OnePhraseKeepsItsAnchor` (for one phrase an answer leaves nothing out
but what is `stale`) speaks of readings with nothing `slipped` or `torn`.
`CursorNeverRewinds` sets apart the calls that collect more than an answer holds
(`Overflows`) and those that met a page above the one before it (`Outrun`); section
5.2 says how either happens.

`AcceptedIsSaved` excepts the phrases whose save failed, until any save of the cabinet
succeeds (the history variable `unsaved`): the next save must bring them. `BusyIsTrue`
sets apart a clearing
during which "stop" was pressed, `ProgressIsLive` a rereading that failed while
its job was shown; section 5.2 says what happens then. Of the session, `PipesKeepTheirWord` sets
apart the calls that passed the lock while another's session was open
(`"barged"`), those whose session a `clearSearch` dropped (`"cleared"`), and a
session whose last answer was lost. `InboxIsTrue` (the rows about a field form a
chain from its first value to the one shown, and events are told once) sets apart
three things it keeps in `gaps`: two readings of one case that overlap, a row
resolved by reading the page when its change had happened again, and a field that
was not printed between two values. `ReadStaysRead` speaks of
jobs that ingest, and names what such a job may lose (`MayGo`): a file the platform
lists no more, and a linked document met again under a file that the case no longer
held as read. Both are reached in `api`; rereading stored files loses more (5.2).
`FlaggedWorkResumes` excepts a process whose listing of the flagged cases failed
(`"missed"`): it does not list them again (5.2).

Runs that find a disagreement between the code and what it says of itself:

| run | disagreement |
|---|---|
| `returned` | a refusal taken back and confirmed is in the decisions table still, and is loaded by the next process |
| `starved` | cases whose pages cannot be read keep their old snapshot and come first in every pass: as many as a pass takes starve all others |
| `wiped` | a reading of a page without a badge keeps the status of the card, then the row it makes about the status writes its own empty text over it |
| `relink` | a chat that belongs to another user sends a live code: the row is inserted before the old one is deleted, a unique index refuses it, and the code is spent with nothing linked |
| `stopped` | a listing that was stopped answers late: the parent of the pane paints it before the pane looks at its generation |

Each is described with the quoted line under `findings` in `PROJECT.json`.

### Bounds

* `Discovery`: `Limit = 1`, `MaxPages = 2`, up to 3 or 4 rows: a window can be one
  page, two pages, or deeper than a pass; a token can point at the head, inside, or
  past the end. One day step with `Margin = 0` or more and `Bootstrap = 1`: rows
  fall before, on and after the watermark's day. The two-lane model was also
  explored with `Margin = 1` and two day steps (12 million states): the same
  invariants hold; it is not kept as a run for its length.
* The scans: a page holds 2 rows and an answer 2 (of the subject search 3, so that it
  ends between two pages), so that an answer can cut a
  page; up to 6 rows in at most 3 pages per phrase, so that a bound of 2 pages
  per round (`PhrasePages`) is met; two phrases with a row in common; 2 or 3
  events, so that a row can be posted and another withdrawn during one reading.
  `RegistryScan` runs twice: `Registry` has a page cap deeper than its table and
  answers that hold all of it, for with a smaller cap its reading does not end (5.2);
  `Deep` has answers of 2 and a cap of 3 pages, and is held to everything but the end.
* In the same run the default source is followed over any number of passes with
  up to 3 rows (one edit, one fault), and the watch list over any number of passes
  with one decision, one request and one failure; with a third case a pass of two
  has somebody to pass over. `starved` has two unreadable cases and no other event.
* `lanes`: a missing child, an unknown source, both levels of the queue, budgets of
  one and two ticks, three for the page that waits behind the probes; a settled call is forgotten, so four names stand for any
  number of calls made one after another. `Threshold = 3` and `Cooldown = 2` let the
  breaker open, be probed, and open again. In the session: two calls at once,
  tables of two pages, a term with rows and one without, one session lost and one
  request failed, two failures to open the circuit.
* `busy`, `resume`: `MaxSite = 1`, one new page version, so a copy is
  fresh or stale. `MaxFaults` counts every failed call, failed write, dead pass and crash. One
  is enough for two actors to meet a failure at every place; three in `resume` let
  the intent write of a job, its cleanup and a restart fail in a row.
* `api`: two profiles so that a card can be shared or orphaned by a deletion; two
  users for one chat so that it changes hands; two updates and one restart, so
  that an update can be handled and handed out again; two presses so that one is
  superseded; an archive in an archive, files that link in a circle, to
  themselves and to a listed file, more links than the budget, and three jobs, so
  that a document of the first can be met, missed and met again; two files the
  platform may list, any of which each job is given, so that one can be withdrawn by
  the second job and listed again for the third. On the watched page, one of the fields moves two or
  three times in a behaviour (`Subjects`, `Posts`), so that it can vanish and
  return, or change and change back; two files with two contents, so that the pass
  takes turns; deadlines on three days; one request and one failed reading.
* `desk`: two requests at once everywhere; five readings of a list, so that two
  overlap an action; three polls, so that an answer is overtaken by two; four
  calls in the pane: a listing, a stop, another listing, a decision.
* The pages of `SearchIntent` have up to three words in all, out of ten, in a title
  and one lot: enough for an object, a verb and a mark between them, in any order. The axes
  of a plan are clipped to 2 and 6 phrases (20 and 50 in the code), so that what the
  model adds does not fit.
* The lanes and the two requests are interchangeable in the runs that use
  symmetry; the runs with liveness use none.

`CHECK_DEADLOCK FALSE` is set where the bounds on requests, jobs and events can be
used up with all work done: nothing is left to do then. A profile can always
start another pass, so the `Discovery` runs check deadlock.

### Fairness

`Discovery`: the timer calls the pass again and again (`StartPass`), every tool
call ends by its budget (`DISCOVERY_SEARCH_BUDGET_MS`, MCP timeouts; `ReadPage`),
and a pass that was read is recorded. `Scans`: the caller asks again while the
source says that more follows, and a call that was begun is carried on; failing
pages, deadlines and lost answers are bounded by `Events`. A pass that was begun
goes on (`PassStep`), each of its reads having a timeout. At most one of these
steps is possible at a time, so one condition stands for all of them (`Onward`). `MCLanes`: timers fire
(`ExpireInQueue`, `TimesOut`, `Tick`) and an idle pipe takes the next call; the
schedule ticks and a pass goes on, each of its calls having a budget; a request
to BUTB is answered or fails by its own timeout (`Carries`). Nothing is
assumed of a child: `EveryCallSettles` holds although it may never answer.
`CaseFile`: each `await` ends, by an answer or a timeout (`Visit`, `WatchPass`,
`Job`, `Writer`), and the specialist comes back after a restart (`Restart`, which
lists the flagged cases or fails to).
`MCApi`: the polling loop of the bot runs on (it catches every error and polls
again), a background search goes on with its rows, and one watch pass follows
another, each of its reads having a timeout (`WatchPass`). Nothing is assumed of the
registries, of the calendar, of people or of failures. All of it is weak
fairness: none of these actions waits for something that comes and goes.

## 4. The proofs

All theorems hold for every value of the constants under the modules' named
assumptions: a finite, non-empty set of lanes, finitely many followed cases and a
pass that reads at least one, positive `Limit` and `MaxPages`,
`Margin <= Bootstrap` (1 and 45 days in the code); a finite set of visitors whose
names are not those of the other actors; for the accounts, that the first
account is one of them and that there is a role of administrator; the mark for "no
profile" is no profile; calls have a level and a budget, and a source without a
child goes to one that has (`PipeConstants`); a probe is a call of the urgent level
(`HealthConstants`); the cabinets taken in turn have profiles, and the breaker needs
at least one outage (`ControlBounds`); finitely many calls use a session, what is
searched for are terms, and the circuit needs at least one failure (`ButbBounds`);
a page lists finitely many files, numbered in the order of their URLs, and none of
them is the mark for "not shown" (`NewsBounds`); faults and waiting writes are
counted (`CabinetBounds`); the rows of a listing are finitely
many and numbered in their order; a code belongs to a user; the files the platform may list, the
members of archives and the ends of links are files (`IngestConstants`). The
bounds on failures, restarts, jobs and calls are any numbers. Of the desk: the rows
an inbox has at first are rows, what a profile remembers at first are decisions, and
a tab can be loaded at least once (`NewsAssumption`, `RulesAssumption`,
`ListsAssumption`); the search pane needs no assumption. Of the scans: pages and
answers have room for a row, rows are numbered in the order of their publication,
every listing shows each row once, newest first, and the days of the registry
follow that order (`ScanBounds`, `SubjectBounds`, `RegistryBounds`; they are
hypotheses of the theorems about one scan, and assumed in `Scans`: `ScansBounds`).

### 4.1 What is proved

| theorem | says |
|---|---|
| `DiscoveryProofs!TypeCorrect` | `Spec => []TypeOK` |
| `DiscoveryProofs!Invariance` | `Spec => []IInv` |
| `DiscoveryProofs!WatermarkIsHonest` | `Spec => []WatermarkHonest` |
| `DiscoveryProofs!SilentLanesKeepTheirPlace` | `Spec => SilentLaneKeepsItsPlace` |
| `DiscoveryProofs!OneSourceReadsItsHead` | `Spec => []OneSourceReadsTheHead` |
| `DiscoveryProofs!ScansInduction` | `ScansSpec => []ScansInv` |
| `DiscoveryProofs!ScansKeepTheirPlaces` | `ScansSpec => []PlacesAreKept` |
| `DiscoveryProofs!ScansReadTheirWindow` | `ScansSpec => WindowIsRead` |
| `DiscoveryProofs!ScansNeverRewind` | `ScansSpec => CursorNeverRewinds` |
| `CaseFileProofs!ChainIsSound` | types and the writer chain |
| `CaseFileProofs!TypeCorrect` | `Spec => []TypeOK` |
| `CaseFileProofs!NewsIsReported` | `Spec => []NewsIsNotSilent` |
| `CaseFileProofs!AckedDecisionsSurvive` | `Spec => []AckedDecisionSurvives` |
| `CaseFileProofs!LoneJobsKeepTheirFlag` | `Spec => []LoneJobKeepsItsFlag` |
| `WorkspaceProofs!DeletedProfilesStayDeleted` | `Spec => []DeletedStaysDeleted` |
| `WorkspaceProofs!DecidedCardsAreKept` | `Spec => []DecidedCardIsKept` |
| `WorkspaceProofs!StoreHasCaughtUp` | `Spec => []StoreCatchesUp` |
| `WorkspaceProofs!CabinetTypesHold` | `Spec => []TypeOK` |
| `WorkspaceProofs!NewsInduction` | `NewsSpec => []NewsInv` |
| `WorkspaceProofs!StoryIsTold` | `NewsSpec => [](NewsTypeOK /\ StoryIsTrue /\ EventsAreToldOnce)` |
| `WorkspaceProofs!InboxHolds` | `WorkspaceSpec => []InboxIsTrue` |
| `DiscoveryProofs!EveryCaseHasItsTurn` | `Rota => []InTurn` |
| `SourcesProofs!PipeTypesHold` | `PipeSpec => []PipeTypeOK` |
| `SourcesProofs!OneRequestHolds` | `PipeSpec => []OneRequestAtATime` |
| `SourcesProofs!QueuesAreFair` | `PipeSpec => []QueueIsFair` |
| `SourcesProofs!AnswersKeepTheirCalls` | `PipeSpec => AnswersAreOnesOwn` |
| `SourcesProofs!ServingIsHeard` | `HealthSpec => [](ServingWasHeard /\ DeadIsNeverServing /\ OneProbePerChild)` |
| `SourcesProofs!BreakerOpensOnOutages` | `ControlSpec => [](ControlTypeOK /\ OpensOnOutagesOnly)` |
| `SourcesProofs!ButbInduction` | `ButbSpec => []ButbInv` |
| `SourcesProofs!SessionsAreInvisible` | `ButbSpec => [](ButbTypeOK /\ AnsweredAsAsked /\ OneDeathIsInvisible)` |
| `SourcesProofs!PipesKeepTheirPromises` | `SourcesSpec => []PipesKeepTheirWord` |
| `WorkspaceProofs!SearchInduction`, `SearchTypesHold` | `SearchSpec => []SearchInv`, `[]SearchTypeOK` |
| `WorkspaceProofs!EndedStaysEnded` | `SearchSpec => []EndedRunStaysEnded` |
| `WorkspaceProofs!DecidedIsNotQueued` | `SearchSpec => []TriagedLeavesQueue` |
| `WorkspaceProofs!OthersAreSilent` | `SearchSpec => SupersededIsSilent` |
| `WorkspaceProofs!BotInduction`, `BotTypesHold` | `TelegramSpec => []BotInv`, `[]TelegramTypeOK` |
| `WorkspaceProofs!ToldAndHandledOnce` | `TelegramSpec => []ToldOnceHandledOnce` |
| `WorkspaceProofs!CodesLinkOnce` | `TelegramSpec => []CodeLinksOnce` |
| `WorkspaceProofs!IngestInduction`, `IngestTypesHold` | `IngestSpec => []IngestInv`, `[]IngestTypeOK` |
| `WorkspaceProofs!LinksStayBounded` | `IngestSpec => []LinksAreBounded` |
| `WorkspaceProofs!WhatWasReadStays` | `IngestSpec => ReadStaysRead` |
| `DeskProofs!AcceptedRulesAreSaved` | `RulesSpec => []AcceptedIsSaved` |
| `DeskProofs!AnswersAreFinal` | `RulesSpec => AnswerIsFinal` |
| `DeskProofs!ListsGoForward`, `LoadingIsSaidTruly` | `ListsSpec => ListsMoveForward`, `[]LoadingIsTrue` |
| `DeskProofs!DeadlinesAreNoticedOnce`, `ShownProgressIsFollowed` | `ConsoleSpec => []NoticedOnce`, `[]ProgressIsLive` |
| `DeskProofs!ThereIsAlwaysAnAdmin` | `AccountsSpec => []AlwaysAnAdmin` |
| `DeskProofs!TheConsoleIsTrue` | `DeskSpec => []ConsoleIsTrue` |
| `RegistryScanProofs!RegistryInduction`, `RegistryTypes` | `RegistryBounds => (Spec => []RegistryInv)`, `[]TypeOK` |
| `RegistryScanProofs!RegistryWindowIsRead` | `RegistryBounds => (Spec => WindowIsRead)` |
| `RegistryScanProofs!RegistryNeverRewinds` | `RegistryBounds => (Spec => CursorNeverRewinds)` |
| `PhraseScanProofs!PhraseInduction`, `PhraseTypes` | `ScanBounds => (Spec => []PhraseInv)`, `[]TypeOK` |
| `PhraseScanProofs!PhraseWindowIsRead` | `ScanBounds => (Spec => WindowIsRead)` |
| `SubjectScanProofs!SubjectInduction`, `SubjectTypes` | `SubjectBounds => (Spec => []SubjectInv)`, `[]TypeOK` |
| `SubjectScanProofs!SubjectWindowIsRead` | `SubjectBounds => (Spec => WindowIsRead)` |
| `SubjectScanProofs!AnchorIsKept` | `SubjectBounds => (Spec => []OnePhraseKeepsItsAnchor)` |

*The watermark.* "Nothing behind the watermark is undelivered" says nothing of
rows a truncated pass has left, so it is not inductive. `IInv` adds a promise
per lane, in memory, in the store and in the pass: every row the lane posted
before day `since[l]`, in the open window and ahead of its token, has been
delivered. A fresh scan of page 0 starts that promise; each page moves the token
and delivers exactly the rows it moves over; a new row shifts positions but is
dated later than `since`; a restart or an edit drops the promise with the token.
When a pass closes, every token is gone, so each lane's promise covers the whole
window up to the pass's start less the margin, which is what the new watermark
claims.

*The one source.* That a window is not closed over an unread head needs to be known
before the pass that closes it: `OneSourceInv` says of a token, in memory and in the
store, that the head of its window was read (`since` has a time), and of a pass that is
past its first page, or goes on from such a token, that it knows so too (`HeadIsRead`).
With one lane a page is answered or the pass ends; with two a page may be answered by
the other, which is the gap of 5.2. The claim is given up for a profile whose search
was edited and for one that is durable without its cards.

*The writer chain.* Each actor waits in the queue at most once, and only while
its entry says so; the write in progress has its actor waiting for it; whoever
holds a copy holds a card. All later proofs of the case rest on this (`TypeInv`).

*No silent apply.* Copies overwrite each other freely, so the invariant cannot
speak of one of them. It says that every page anyone carries, in an actor, in
memory, in an image or in the store, is announced in the inbox that travels with
it, and that a younger inbox contains the older one. An overwrite then replaces a
page by one that is announced too.

*Answered decisions.* A decision is followed from the journal, through the image
of the write made for it, into the store: an actor at `saved` has its decision in
the store, since the image was taken after the decision and saving only inserts.
A restart loads the journal from the store, so it loses only what was not yet
answered.

*The flag of a job.* With a second request or a watch pass the flag is lost (5.2), so
`LoneJobKeepsItsFlag` speaks of a case that only one request has touched. It is not
inductive: whether a download finds its flag in the store depends on the write
before it and on the image of that write. `FlagInv` adds three facts: of the request,
the job and the restart only one is at work (`OneAtWork`); while it is the request,
nothing carries a flag and nothing it may still read starts a job, so that the job
begins only with the answer (`NoFlagYet`); and the flag of the job is in memory while
it waits for its write, in the image while it is written, in the store from then on
(`JobFlag`). A crash is covered by the restart that takes the flag from the store,
which is empty until the first request (`Untouched`). Requests and passes are only
counted up, so a case that is alone has been alone (`AloneAllAlong`).

*Deleted profiles.* The deletion goes past the chain, so a write that took its
image before it may commit after it. The invariant (`CabinetInv`) is about the
tombstones: every profile whose deletion was answered is in the settings row
(`Tombstones`), whatever a write's image holds of it is taken out by the commit,
and no tombstone is ever removed. A restart loads the rows, and thereby the
tombstones, before anything is written.

*Decided cards.* Three clauses of the same invariant follow a decision from
memory, where it is in the journal together with its card (`Journalled`), through
the writes that carry it (`Carried`) and the image being stored (`Pictured`), to
the rows; a deletion releases only cards that are in neither journal.

*Turns.* `InTurn` counts readings, but what limits them are times. `RotaInv` says
for every other case (`TakesTurns`): one that was read once since the patient's turn,
and stands before it in the pass under way, will get a later time than the patient
has; one that was read twice has a later time and does not stand before the patient
again, since the list is made oldest first. Lists made from the store need that the
rows are what memory is between passes (`StoreFollows`), which a missed save breaks.
That the times are numbered anew at every step is shown to keep their order and to
leave no gaps (`SettleKeepsOrder`, `WithoutGaps`), so that a new time is later than
all there are.

*The last administrator.* The status of an account is read before the
transaction, so a request acts on what may be stale. What makes it safe is the
lock: whoever is about to write has checked its proposal against the rows as they
are now (`WritersAreChecked`), because nobody else can write in between
(`OneWriter`). Without the second clause the first is not kept.

*The rows catch up.* "No write waits and the last full one succeeded" says nothing
of what happens before. The invariant (`FollowInv`) follows the image on its way:
once nothing waits, that image, or the rows when there is none, have the profiles,
the decisions and the cards of memory, but for the profile whose deletion is under
way; a card that is missing has a write of all cards still to come, or the last one
failed. What the process deleted is nowhere in its memory (`LivingMemory`), so that
a deletion past the chain takes from the rows nothing that memory has.

*The inbox.* "Each row begins where the one before it ended" is about the inbox
alone, and a new row is made from the snapshot on a card; so the story must end at
that snapshot, which is the second half of `StoryIsTrue`. Two more facts make it
inductive. A card that was never read has no rows (the first reading tells no
change). And of a value that may be missing without being news, no row tells a
missing value, and there are no rows before its first value (`Tells`): when a
sum, a deadline or a content appears for the first time, nothing is told, and the
story may begin there because it has no row yet. A reading then adds to each
field no row, and shows what was shown (`TellsNothing`); one row, from what was
shown to what is (`TellsOne`); or the first value (`TellsFirst`). `DiffSays` is the
fact about `diffCardSnapshots` this needs: a row about a field is in the difference
exactly when both values differ and neither is missing where that is no news. What
was shown and is gone has vanished, and the story of that field is given up
(`LostIsVanished`: a content is not lost while its file is listed, which is
`mergeDocumentProbes`). A reader whose copy of the card is not the card is an
overlap, and a change that comes again while a row like it is being resolved is
taken for that row; both are on record in `gaps`. That rows about events and
states are told once is kept by itself, since the record looks at the whole inbox.
Rows are told in the order of a finite set (`DiffIsFinite`, `Enumerated`), and the
file that is tried next is a listed one (`TargetIsListed`). With the types of the
other four parts, this gives `InboxIsTrue`.

*The pipes.* `PipeInv` says where a call can be: a waiting call is in the queue of
its own lane, a queue has no call twice, a pipe is held for a call of its own lane,
and no open call has more left than its budget. The first two are what makes the
equivalence of `OneRequestAtATime` inductive, the last what makes `QueueIsFair` so:
the age of a call is what its budget has lost, and a call put behind another of its
level is younger. That an answer is one's own is then a fact about single steps.

*The monitor.* A good verdict is trusted for as long as it is young, but it is written
down after the answer came, and may be written after the child has died. `HealthInv`
says that a verdict is never younger than the answer it was heard from, and that an
answer whose verdict is still to be written was heard in this tick (`HeardBefore`):
the clock does not move past it, and the exit of a child takes the lane out of what
is known. A probe that waits or is out is the one its lane has under way
(`OpenProbesAreKnown`), so no second one is started.

*The breaker.* The counter of the controller goes with the outages the model has
seen: every end of a pass (`Finish`, `Fail`) and a restart move both. The invariant
adds what the loop over cabinets leaves for it: only a cabinet that is still to be
visited is open (`PassIsOne`), so a failure is charged to a pass under way.

*The session.* `ButbInv` has three layers. The lock: the queue has every call that
holds a place in it once, and who is at work and holds one is at its head
(`QueueOrder`); as long as nobody has passed the lock, everybody at work holds it, so
one call is at work at a time (`Serial`), and the number of open sessions is the
number of cards at work. What the client believes (`Session`): its view, the search it
thinks applied and the panel it thinks open are those of the site, and an undropped
table is not degraded; both fail for a while, in the middle of a search, at a card,
and when a search has ended whose filter is still to be dropped, and the invariant
names those places. What a call at work relies on (`ReliesOn`) is then what `Start` has
arranged for it. The deaths: a call in its second try has seen one and a card in its
second round another (`Endures`), so a call fails only after two. `"cleared"` and
`"barged"` in the history name the two ways in which calls get in each other's way;
the code has both, and nothing is claimed of the calls they befall.

*Searches.* A search that has not begun does not own the slot and is in no list of
ended runs (`NotBegun`); a search that judges is at a row of the listing
(`AtARow`). From these, a slot that is terminal stays so whoever moves it, since
every move asks whose the slot is. `DecidedIsNotQueued` needs `AtARow` and the
second look at the journal that is taken after the model has answered.

*The bot.* Three parts that do not disturb each other: everything up to the offset
was handled, and the offset given to Telegram is not ahead of it (`HandledFirst`;
a crash loses the offset and so only repeats); what was announced or is about to be
is marked as sent in the table (`MarkedFirst`), which survives the crash; a live code has linked
nobody, nor has the code that a handler holds, which was taken out of the table
before (`CodeShape`).

*Document jobs.* A key says how a document was reached, the first of its parts
being the file of the list it was reached from. `StackInv`: all frames of the stack belong to one
file of the list, one that the case does not hold as read, and of which nothing is
waiting or gathered yet. `CaseInv` speaks of what the job has met (`seen`): a file of
the list that the case holds as read is gathered as it is when it is met, and any
other key that is met is a link in a file the case does not hold. At the end a hashed
document is therefore a file not met, that is, listed no more; a file met, and
gathered; a part not met, which stays as it was (`Earlier`); or a link met again. The
first and the last are the two that `MayGo` names. `LinkInv`:
the linked keys shown and the budget that is left add up to no more than the
budget of the job. `DownloadInv`: whatever was fetched is among the files
that are never fetched again, and a file about to be downloaded was not.

*Suggestions.* Between the answer to a suggestion and its being recorded as
accepted lies a save. The invariant (`RulesInv`) says of every request in between
that the phrases are already excluded in memory (`AnswerIsCut`), and of memory that
it is ahead of the row only while some request has still to save, or by phrases whose
save failed and that no save has followed (`SaveIsOnItsWay`). A save writes all that
memory excludes, so the next one to succeed leaves nothing behind (`CabinetSaved`).

*Lists.* A load that may still be applied is the newest one, and is not older than
what its tab shows (`LoadsInOrder`); the others are dropped by their generation.

*The pane.* That a busy pane has a request of its own is not inductive: an answer
releases the pane, and it must not be another call's. `PaneInv` adds that calls
have numbers of their own (`CallsApart`) and that at most one of them holds the pane,
that is, is a decision, a clearing or a listing of the present generation
(`OneHoldsPane`, which like `BusyIsTrue` is said until a clearing has been stopped). A
stop takes the generation forward, so the listing it leaves behind may answer but not
release. With the types of the five parts and the two theorems about lists and
polls, this gives `ConsoleIsTrue` for the whole desk.

*The scans.* That a reading may be called finished when its last page was read says
nothing of the pages before it. What is kept is a fact about places: every row
that is owed and stands above the place a reading goes on from (the next page of each
phrase, the cursor row, the phrase and page of a token) was handed over, is among
the rows collected since, or is lost by name. Places are numbers and listings move
under them. A post puts a row on top of a listing, and every other row one place
down: what stands above a place is then a subset of what stood there before, and the new row,
which no reading under way owes. A withdrawal moves rows up, across one boundary per
place, and the row that crosses it is the one `slipped` names (`RemovalReads`,
`HeadingReads`, `PageReads` are these facts about sequences). A page moves a place
down by the rows it collects, or to the end of the listing when it is the last
(`EndReads`), or to the first row behind the watermark, below which nothing is owed,
the listing being ordered (`OldReads`). An answer hands over what was collected or
names what it leaves out. In the subject search there are two places, that of
the cached window and that of the token, and a token's place counts only while the window
it was read into is cached; a call that finds none begins at the first page of the
first phrase. Each step of a scan is then a step of `WindowRead` or a stutter
(`RegistryReads`, `PhraseReads`, `SubjectReads`). The cursor of the registry scan moves
down because a call counts rows as its tail only after it met the cursor row or an
older day; a call that meets neither keeps the token it was given.

*The anchor.* The token of the subject search says how many rows were handed over and
which was the last; the next answer leaves out everything as new as that row, or, when
it is not among the candidates, as many of them as were handed over. That nothing new is left
out is a matter of order. What was collected of one phrase has, but for stale rows, every
listed row that is newer than one it has: pages are read from the head, a post enters above
them all, and a reading that begins in a cached window names as stale what is newer than
the rows it finds there (`InOrder`, `BeginningKeepsAnchor`). `AnchorInv` adds two facts
about the token. Every owed row as new as the anchor was handed over or is stale. And there are as many
rows as were handed over, all as new as the anchor, that any call has collected once it
has a row below the anchor (`Anchored`): so a call that has the anchor skips no
fewer than were handed over, which is what its budget counts on; and a call that does not
have it has only rows that are newer (`SkippedIsOld`). Counting itself is three facts about places:
newer rows come first, every place is taken, and an interval of places has no more rows
than places (`DepthOrder`, `Ranked`, `RowsOfPlaces`). With two phrases rows of the second
may stand above the anchor, which is the gap of 5.2; a withdrawal and a lost answer that
rebuilt a window break the order too.

*The parts of a pass.* What is proved of each scan, of the window and of the rota is
carried over to `Scans`, whose properties the run `scans` checks. `ScansInv` is the
invariant of the part that is followed; a step is a step of that part or none
(`ScansParts`), and the lemma of the part says the rest. That all three scans read
one window (`ScansRead`) takes each scan's own step of `WindowRead` to a step of the one
`Promise`, whose window and losses are chosen by `scan`; a part without a window is a
reading that never closes.

### 4.2 What is only model-checked

* Liveness (`PostedRowIsDelivered`, `ReadingEnds`, `TailIsCoveredBehindFew`,
  `EveryCallSettles`, `PassesGoOn`, `DownloadsSettle`,
  `UpdatesAreHandled`, `RunSettles`, `NewsIsFound`): outside the prover's reach.
* `VerdictIsEarned`, `ModelDropsNothing`: the verdict is made of folds over texts,
  and what a fold computes for every text needs induction over data.

## 5. What is not modelled, and known gaps

### 5.1 Not modelled

* The algorithms of `packages/domain` over text beyond the verdict of a search (the
  score of a card, commercial terms, parsing of documents): pure functions with unit tests that enumerate what
  a bounded check would; where a result matters to a state machine it is a
  constant or a choice.
* The MCP servers below the scans, but for the session with BUTB: HTML parsing,
  OCR, the downloads of files, and the requests to goszakupki.by, which keep no
  session. The sites are not in the repository: what `ButbHttp` assumes of one is
  what the client's own recognition of its markup relies on.
* The agent runtime: a second program over the same packages, not on the path of
  the console; its steps are calls of a language model over text.
* Contracts, observability, SQL as such: schemas and logging. What a save or a
  unique index leaves in the rows is part of the models that rely on it.
* Inside modelled components: password resets, the rate limiter, presence and the
  admin journal; mail and web push; archive and the purge of the trash by age;
  the JSON mirror of the workspace; two requests that
  share the opening of a cabinet; forms, cards and admin pages of the console.

Most lines of the repository are text: parsing, prompts, rendering, validation,
SQL and wording. The models cover the stateful part of the API process and of its
sources, and of the console what is concurrent. They map about a seventh of all
implementation lines; the rest would be modelled by transcription only.

### 5.2 Known gaps

Disagreements and weak places met while modelling. Definitions in parentheses
state the property; TLC refutes it with the model, and no run keeps it.

Background discovery:

* A lane that fails page 0 while another reports more is paged past its head; the
  next pass resumes at that token and closes the window.
* Two lanes of different depth can truncate every pass, with no failure and no new
  row (`app.ts:2027`).
* A profile edited during its pass gets the watermark of what was read for the old
  phrases (`app.ts:2112`); a profile row is durable before the cards it covers
  (`persist.ts:480`).
* A cabinet whose profiles all fail ends the pass for the cabinets after it
  (`OneFailureCostsNoOther`, `app.ts:1984`). A busy child stops being reported as
  serving although it answers (`BusyIsServing`).

Scans:

* goszakupki.by: rows read but beyond the limit are cut, the token being past
  their page (`NothingIsCut`).
* BUTB, subject search: an anchor of a later phrase passes over rows collected for
  it (`NothingIsPassedOver`); a reading without a token goes on in a cached window
  (`FreshReadingIsFresh`), and the rows newer than those it holds are passed over with
  it; a phrase deeper than the page cap is read again from its
  first page. A token is applied to whatever window is cached for its question
  (`butb-source.ts:435` against the comment at 427), also to a shorter one that was
  rebuilt by a call whose answer was lost: the rows between are never read. Whether
  more follows is decided by how many rows were collected against the budget
  (`butb-source.ts:404`, 567), while the answer is cut after the anchor (574): with
  a row above the anchor withdrawn and the window lost, the last rows are not handed over.
* BUTB, registry: a window deeper than the page cap is never finished, each call
  reading the same head (`RegistryReadingEnds`, `butb-source.ts:295` against
  `butb-source.test.ts:191`); a call that collects more than it may answer goes back
  to the page before the last, and thereby above the cursor it was given when that
  was found on the last page (`butb-source.ts:318` against the comment at 328), as does
  one that had more rows than a page posted above it between two of its pages; rows on a page that fills the answer and reaches the
  watermark are cut.
* BUTB, session: the counter of open `withSession` blocks is shared by all calls, so that any
  call passes the lock while another's card is being located, where the interface
  says that other calls wait until `fn` resolves; it may then be handed another
  page than it asked for. `clearSearch` is not serialized and drops the session
  of whoever has begun meanwhile. A card whose answer is lost leaves a degraded
  session that the next page is read from and refused (`DegradedIsDropped`); so
  does an expanded panel whose answer is lost, which `clearSearch` does not see.
  Expanding the panel on a dead session fails and is not replayed.

Cases and documents:

* A watch pass stores its unflagged copy over the flagged card, and its flagged
  copy after the job has ended: `IntentIsDurable` and `FlagMeansJob` need a
  single writer.
* A crash between a decision and its job's flag forgets the download
  (`app.ts:3277`); a download asked for while a job runs is dropped
  (`app.ts:573`). A process whose first listing of the flagged cases fails
  (`app.ts:812`) logs that and does not look for them again (`app.ts:838`, `:851`):
  a flagged download waits for the next process.
* What a page did not print for one reading and prints differently in the next is
  never told: the snapshot forgets the old value (`StoryHasNoHoles`). In the same
  way a file that was not listed for one reading loses the content it is compared
  with, and its replacement is not noticed.
* A deadline that was extended and passes again is silent, the id of that row being
  taken. Two overlapping readings tell one change twice, or the older puts its
  value back without a row. A row resolved by reading the page takes with it a
  new change of the same kind.
* Followed cases whose pages cannot be read starve the others
  (`TailIsCovered`, run `starved`).
* A page without a badge blanks the badge on the card (`StatusIsNotWiped`, run
  `wiped`).
* `ingestOne` returns `indexStoredFile` without awaiting it, so that an exception
  ends the whole job. An archive member's `sourceUrl` replaces its parent's
  fragment. Links left out by a spent budget, and linked documents that failed, are
  not followed again once their parent is hashed.
* A hashed file that the platform lists no more is dropped by the next job that
  ingests, only members and linked documents of earlier jobs being kept
  (`document-ingest.ts:199`). If it is listed again later it is read anew, and a
  linked document met again then may be lost or failed although it was read. Members
  of an archive that is unpacked again stand in the list twice, no member being
  recorded as seen; in the model the two are one key.
* Rereading stored files drops failed documents, links found in archives, and the
  members of an archive whose blob is missing or that was withdrawn
  (`ReindexKeepsRead`, `document-ingest.ts:211`).

Persistence:

* An undecided card of a deleted profile comes back by a write in flight
  (`DroppedCardStaysDropped`).
* The workspace file: two writes share one temporary name; the image of memory is
  taken before the slow mirror is written, contrary to the comment in `persist`.

Search and Telegram:

* Between the emptying of the queue and the start of a run, verdicts of the older
  run land in the new queue. A cancellation while two listings are in flight
  reaches one (`CancelStopsAll`). A run that finished is shown as interrupted
  after a restart (`FinishedIsNotInterrupted`); a run whose first write fails
  keeps its slot (`BegunRunSettles`).
* A tap and a decision of the console within one `await`: the tap may overrule it
  (`TapNeverFlips`). A row dismissed before its dispatch is announced
  (`schema.ts:1130` says it is not).

Assistant, console, accounts:

* An accepted suggestion whose save fails is not in the row although a second
  answer, which closes it without a save, reports it accepted
  (`AcceptedIsSavedAlways`); the next save of the cabinet brings it, a restart before
  that loses it. Two offers may be open at
  once (`OneOpenRule`).
* A removed card lingers in another list (`RemovedCardDoesNotLinger`); a removal
  that failed is not put back, because the parent does not await it
  (`FailedActionKeepsCard`, `SpecialistApp.tsx:822`). A rereading that fails while
  its job is shown leaves "running" on the screen. A stop while the profile is
  being selected does not keep the search from being sent; a stop during a
  clearing frees the pane; a decided card may come back to it
  (`DecidedLeavesThePane`). The search wrapper drops `scanCursors`, so that
  «Загрузить ещё» never sends tokens back.
* Two first requests of an account make two personal cabinets
  (`OneCabinetPerUser`); a change of role writes the status read before the
  transaction (`RoleChangeKeepsStatus`).

## 6. Running it

    tlc -workers 2 -config MCDiscoveryTwoLanes.cfg MCDiscovery
    tlc -workers 2 -config MCCaseFileBusy.cfg MCCaseFile
    tlc -workers 2 -config MCScans.cfg MCScans
    tlc -workers 2 -config MCLanes.cfg MCLanes
    tlc -workers 2 -config MCApi.cfg MCApi
    tlc -workers 2 -config MCDesk.cfg MCDesk
    for m in DiscoveryProofs CaseFileProofs WorkspaceProofs SourcesProofs DeskProofs \
             RegistryScanProofs PhraseScanProofs SubjectScanProofs; do
        tlapm $m.tla
    done

Every run takes between a second and a few minutes on two cores. `PROJECT.json`
(`mutants`) lists for each property an operator that, put in the place of the
definition it mutates, makes TLC refute that property.
