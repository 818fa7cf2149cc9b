# Formal models of home-cortex

TLA+ specifications of the stateful core of home-cortex, the TLC runs that
check them on small instances, and TLAPS proofs of what matters most for every
size. The reference is the Python code under `src/home_cortex/`; paths below are
relative to it unless they start with `docs/`, `tests/`, `schemas/` or
`home_media/`.

## The system

home-cortex answers questions about a household from a graph in SurrealDB,
writes items and bodies into it, keeps conversations, reads calendars, and
tracks the bodies ("embodiments") that devices connect as. One FastAPI process
runs everything on one asyncio loop; operators and ingestion reach the same
database from other processes, and the media service runs beside it. The
interleaving points are the `await`s, and almost every `await` is a query.

| Component | State | Operations | Interacts with | What is hard | Correct when |
|---|---|---|---|---|---|
| Embodiment writing (`mutation/embodiments.py`) | `embodiment`, `agent`, `assigned_to` tables; one lock per service object | create, update, delete, assign, unassign, list, ensure_registered_agents | runtime reads what it writes; CLI and API each hold a service | several services, several locks; cancelled callers whose transaction still runs; list() is two queries | a body has one assignment at most, none dangles, calls return |
| Embodiment runtime (`agents/registration.py`, `agents/session.py`, `agents/embodiments.py`, `spatial/presence.py`) | sessions, session counter and token, current samples, cached bodies | connect, capabilities, heartbeat, disconnect, telemetry, view, start-up | graph, session routes | requests applied after another client took over; late and repeated telemetry; restart | only the holder of the current session acts, ids are never reused, samples advance |
| Item writing (`mutation/writing.py`) | `item`, `located_in` and other relations; one lock | create, update_location, update_attributes, delete; preview or commit | named writing, semantic layer | the transaction for a first location relies on reads under the lock; lost replies | one location, no dangling edge, truthful results |
| Named item writing (`mutation/semantic.py`, `mutation/service.py`, `mutation/ir.py`) | none | the same by name | fact engine, item writing | resolves outside the lock; two calls of the writer for a repeated create | what is answered is true of the items while the request ran |
| Conversations (`conversation/store.py`, `api/routes/conversations.py`, `api/execution.py`) | `conversation` and `message` tables | create, select, delete, post, stream, persist | agent runtime, embodiments | no lock, no transaction; whole records written back; streams cut short | owner-only, transcript in order, deletes final |
| Semantic conversation (`semantic/conversation.py`, `semantic/facts.py`, `semantic/planner.py`, `semantic/unified_planner.py`) | bounded map of discourse states, reference counts, locks | turn, evict, replay, plan, write | planner, fact engine, named writing | eviction of states in use; failing, waiting and cancelled turns; replays that must not write | a turn refers to the right turns, writes happen once and only when asked |
| Agent runtime and model loop (`runtime/agent.py`, `runtime/model_loop.py`, `common/display.py`, `api/sse.py`) | per answer: steps, tool results, stop reason, text held back | ask, receive, dispatch tools, answer, stop | providers, dispatcher, SSE client | chunk boundaries, timeouts, step and call limits, truncation, disconnection | what is shown is the answer, results pair with calls, the loop ends |
| Facts (`facts/*.py`), retrieval, schema (`semantic/schema.py`, `semantic/contracts.py`, `semantic/ontology.py`, `persistence/*.py`) | none | validate, resolve, filter, compute | graph | many queries without a snapshot, bounds on records, calendar arithmetic, name precedence | an answer is what held while it was read, a failure has its reason |
| Calendar (`capabilities/calendar.py`) | access token, its lock | list, check availability | Google API | concurrent fetches share a token; deadlines race replies | a listing says what it misses |
| Ingestion and export (`persistence/ingestion.py`, `persistence/export.py`) | all tables; the export tree | validate, upsert, relate, prune; read, stage, rename | every reader and writer | not transactional | sources are installed exactly, exports come back, old files survive |
| Model warm-up (`runtime/model_warmup.py`) | per model status; a file lock across workers | ask, lock, load, confirm, stop | model server | workers, evictions, timeouts | warm is true, loads are shared, models become warm again |
| Media service (`home_media/`) | SQLite index, thumbnail cache, per-item locks | refresh, list, thumbnail | folders, threads | files that change under a scan; the lock table | the index is the folder, pages cover it, thumbnails are whole |
| Embodiment directory (`agents/presence.py`), greetings, wiring, geometry, vision, browser client | none of their own | projection, I/O, floating point, wording | all | - | not modelled |

`PROJECT.json` lists every component with its sources, and under `hazards` each
place where the code is hard to test, with the properties that cover it.

## Modules

| Module | Models | Kind |
|---|---|---|
| `EmbodimentStore` | what readers may rely on: bodies, agents, singular link, atomic changes | abstract specification |
| `EmbodimentWriting` | `EmbodimentWritingService`, await by await | implements `EmbodimentStore` |
| `EmbodimentRuntime` | the API process over `EmbodimentStore` | composition: extends the store and interleaves its steps |
| `ItemWriting` | `ItemWritingService`, await by await | component |
| `NamedWriting` | `NamedItemWritingService` and the texts built from its results | component over an atomic writer |
| `Conversations` | conversation routes, `SurrealConversationStore`, `AnswerExecution` | component |
| `SemanticConversation` | the turn of a request: table of conversations, planning, focus, writes, replay | component |
| `DisplayText` | the filters that keep internal ids out of shown text | operators |
| `ModelLoop` | `ModelLoop.run` and `stream`, the dispatcher, the provider's stream, the SSE frames | composition over `DisplayText` |
| `FactOperators`, `FactDates` | operators and calendar arithmetic; the latter against definitions by counting | operators, component |
| `FactSchema`, `EntityNames`, `FactEngine` | vocabulary and validation; name lookup; filters and the answer | operators |
| `FactReading` | resolution query by query while items move | composition of the four above with the item writer's move |
| `Calendar` | a listing over several calendars | component |
| `GraphSnapshots` | ingestion and export with the item writer's transactions in between | composition |
| `ModelWarmup` | the warm-up tasks of several workers and the model server | component |
| `MediaLibrary` | scanner, index, paging, thumbnails | component |
| `*Proofs` | theorems about `EmbodimentWriting`, `EmbodimentRuntime`, `ItemWriting` with `NamedWriting`, `Conversations`, `SemanticConversation`, `GraphSnapshots`, `MediaLibrary`; `AgentProofs` about `ModelWarmup`, `Calendar` and `ModelLoop` | proofs |
| `MC*` | values, symmetry, and pairs of modes for TLC | instances |

Definitions named `Buggy...`, or commented as mutants, are mutated forms of the
definition that follows them. No specification uses them: each one shows that a
property notices a plausible bug.

Where one module checks two questions that share nothing, the MC module chooses
the mode in the initial state: `MCItemWriting` extends `ItemWriting` and
`NamedWriting` and runs one of them, `MCFactReading` runs questions or `FactDates`.

### Embodiment writing

`nodes`, `edges` and `agents` are the tables; `pc[c]` is the await caller `c` is
suspended at. `Acquire` enters `async with self._lock`; `ReadNodes` and
`ReadEdges` are the two queries of `list()`, the second with the decision that
follows it; `ReadAgents` is the query and the decision of `assign`; `Commit` is
the transaction and the release of the lock; `ReadBack` is the final `get`
outside the lock. A transaction is `TxGuard` (its `THROW`s) with `TxNodes` and
`TxEdges` (its statements): a throw changes nothing. `service` is chosen in the
initial state, so callers that share a lock and callers that do not are both
covered. `Abandon` is a caller cancelled or cut off after it sent its
transaction; the database may run it at any later moment (`LateTransaction`) or
never. A commit whose reply is lost is covered by abandoning and then running.

`Implementation` says the tables change only by the steps of `EmbodimentStore`,
under the mapping that reads `edges` as the agent of each body. That licenses
`EmbodimentRuntime` to use the abstract store in place of all the writers.
Ingestion of embodiment files also writes these tables, without a transaction;
it is not among the writers here. The unique index of `ensure_constraints` is
not consulted: the properties hold from the guards of the transactions alone.

### Embodiment runtime

A request awaits two queries, then runs to its answer without suspension.
`SendSome` is the request with its first reply, `ReadEdges` the second, and one
action per operation (`Connect`, `UpdateCapabilities`, `Disconnect`,
`SubmitTelemetry`, `Touch`) the synchronous rest, `_admit`'s caching included.
Between them operators write the graph (`StoreStep`) and other requests are
applied. Nothing a request does before its first reply depends on state, so a
longer wait for that reply is the same as a later request. `Crash` drops
everything but the graph and the ids clients remember; start-up is
`BootReadAgents`, `BootReadNodes`, `BootReadEdges`, and fails as `catalog()` and
`EmbodimentCatalog` do.

`instance` stands for the random token of the process. Taking a fresh number
assumes that two processes never draw the same token. The catalog is kept as ids
only: every operation replaces the cached record before it looks at it.
Clients only send ids they were given; a missing or unknown id is answered as
any id that is not current. `last_seen` is left out, so heartbeat and view differ
in their answers alone and share `Touch`.

### Item writing and writing by name

The structure of `ItemWriting` is that of embodiment writing. `Sent` builds the
transaction from what was read: an `initial` location when none was seen, a
`move` otherwise, and for `delete` only the relations the item was seen in.
`LoseReply` is an exception of the transaction's query, answered `REJECTED` by
`_database_rejected` (`TRANSACTION_FAILED` in the model); `Cancel` ends the
caller. Property validation is membership of an opaque value in `Declared`
(`ValidProperties`), destination validation membership in `Admissible` and
existence. Relations other than `located_in` are one set, `others`, written by
ingestion and removed by `delete`.

In `NamedWriting` a call of the writer is one step: its lock keeps other writers
out between its reads and its transaction, which is what `ItemWriting` checks.
The resolution of the names is one step too (how a resolution interleaves with
moves is `FactReading`'s question), and late transactions are left to
`ItemWriting`. What is left is what this layer adds: the names are resolved
without the lock, and a create that is repeated makes two calls. An answer's text
is abstracted to what it claims (added, moved, changed, deleted, already so, not
found, several, refused), and `ReplyJustified` asks that the claim held at some
moment of the request. An item in several places at once is not modelled. No item
is a place another one is put in: `located_in` leads to addresses and spaces, so
`NamedAssumption` keeps the keys of items out of `Suitable`.

### Conversations

`record` and `messages` are the tables. `Get` and `GetMessages` are
`owned_conversation`; `Load`, `WriteUser`, `SaveUser`, `WriteAnswer` and
`SaveAnswer` are `append_message`, before and after the stream; `Load` and
`SaveSelection` are `set_active_embodiment`. `Validate` is nondeterministic for a
selected body: its assignment may change at any time. `EndAnswer` covers a
stream that ends, fails or is left by its client: `tokens` persists what it
collected in its `finally` in all three. `Fail` is a failed query, a crash, or a
cancellation delivered again inside that `finally`. Contents are the number of
the request they came from. A conversation id is created once. The ghosts
`owner`, `overlapped`, `cut` and `deleted` record history for the properties and
guard nothing, but for `owner`, whose emptiness says the id was not created yet.

The in-memory `ConversationStore` serves tests alone and is not modelled; the
list and read routes change nothing.

### Semantic conversation

A request enters the table of conversations (`Arrive`), waits for the lock of its
own (`Acquire`), is planned in up to `Attempts` attempts (`PlannerReplies`,
`PlannerFails`), reads the foci of the turns its plan refers to, and ends in a
fact answer, a write or a chat. `Interrupt` is a cancellation at any await. A
request that finds the table full of conversations in use, or has none, replays
its own messages: turns are planned from the last backwards, only as far as
plans refer. A focus is the set of utterances it stems from, so that a wrong
antecedent shows. A request cancelled while it waits for the lock leaves no turn.
Prompts, hints and diagnostics are not modelled.

### Model loop

The model is the environment: it streams text and tool calls of its choice,
fails, or ends a step. `DisplayText` is the pair of filters of `stream`: the
display names of known ids, and the agent's address at the start. Text is a
sequence of tokens, of which two together spell an internal id, so that a chunk
may end inside one. `Dispatch` is a tool call with its refusal, timeout, failure,
result or truncated result; `Respond` and the frames are the SSE response. `at` is
the place in the loop, `Assembled` the calls the OpenAI-compatible transport puts
together from its fragments. The limits on steps, calls, records and bytes are at
least one, as the settings demand.

### Facts

`FactSchema` holds the vocabulary of `schemas/semantic/ontology.yaml` and
`schemas/edge/` that the questions use, the conditions under which the service
starts with it (`OntologyLoads`, `NodeTableSources`, and `ConceptsLoad` in
`FactReading`, all evaluated by TLC as assumptions), and `validation_code`.
`FactEngine` and `FactOperators` evaluate a request; `FactReading` resolves
references one query at a time (`TakeReference`, `Read`, `ReadFails`) while
`Move` changes locations. `Answer` computes the answer once every reference is
resolved; `Relate` takes the speaker's kinship concepts one by one through the
same reads. Only reads of `located_in` are steps: nothing else the
questions read is changed by the running system. Item records stay constant while
a question is answered. Names are normalised by a table given as a constant.

`AnswerBracketed` promises what a reader without a snapshot can have: items that
did not move are never missed, cut off or counted twice; an item moved within a
container that is being read may be missed. A kinship concept an answer names is
true of the person it is about.

### Calendar

A listing fetches every calendar at once; `Reply` is any answer of the service to
the request in flight of one calendar (token or page), `TimedOut` the
deadline that comes first, `Tick` the time between. The outer deadline of one
calendar (`BindingTimedOut`) comes first only if requests outlive the fetch
budget, which the code's bounds (3.5 s within 4 s) rule out. Access tokens live
at least 30 seconds, longer than a listing, so expiry is a refusal by the service.
An event is its position in its calendar; a fetch keeps the set of those it has
read and the length of the list the code builds from them, and a listing is the
`First` of all by start and id, which is unique. Malformed events are dropped
while the listing still counts as complete (`Valid`). A listing of which nothing could be fetched raises. Parsing of the
window and time zones are not modelled.

### Graph snapshots

`Valid` is everything `ingest_directory` checks before it writes; a refused source
changes nothing. The statements of an ingestion are a set of places
(`Statements`): one for each record of a file (`Upsert`, `Relate`) and one for what
a table is pruned of (`Prune`), each with its phase, its table and its row; the one
that no other is `Earlier` than is `Due`. `IngestStep` applies it; `IngestFails`
stops there, with the statement applied or not. Writes of the item service run in between, where the loop can be
interrupted. SurrealDB deletes the edges of a deleted record (external).
`StartExport`, `ReadTable` read table by table; `Stage`, `MoveOld`, `MoveNew`,
`Clean`, `MoveFails` are `_replace_export_tree` with its rollback, `Crash` ends the
process anywhere. The backups of an export have names of their own, so `backup`
is those of the last export; what an interrupted one left behind is not touched
again. `ghost.tree` is what stood in the tree when the export began. One ingestion
runs at a time; a rollback that fails itself is not modelled. Export omits empty node tables, and a failing first export (no old
tree) may leave the new `nodes` directory.

### Model warm-up

Two workers each run one task per distinct model. The server answers a question
(`Answer`) some time before the answer is read. `LateLoad` is a load whose request
timed out and which finishes nevertheless. Closing and process death are one
action (`Stop`). Back-off delays, the count of attempts and `ready_ms` are left out.

### Media library

A file is its version, 0 when it is absent; a later version has a later
modification time, and the index compares size and time; a file that was removed
may come back as any version, also as one it had before, and `past` is the history
of those. The files a scan has listed but not looked at are places in their root,
taken from the `First`. A page is the rows whose `Rank`, the number of rows before
them, lies within it. An unmounted root is a
root without files. `Refresh` to `UnlinkRemoved` are one scan, statement by
statement; a probe of a file that has vanished aborts it, and so does any other
error (`RefreshFails`: a SQLite statement, an unlink, a listing). `Broken` files can
never be decoded; any other probe may fail too, for lack of time or of `ffprobe` or
for an I/O error (`ProbeFails`), and the failure is stored like metadata
(`FailedMetadata`). `misread` is the history of those failures, read by no action:
`IndexIsFolder` lets a row tell of one, as no later refresh probes a file whose row
has its size and time. `StatFails` is a file that cannot be resolved. `StartPaging`,
`CountRows`, `SelectRows` are a client that follows `next_offset`; `FindItem` to
`PopLock` are one thumbnail request. Its source may be undecodable, out of reach for
a moment, or left in the middle (`Open`, `OpenFails`, `WriteFails`); the SQLite
statements of this path do not fail. A crash between the upsert and the unlink, or
a generation started before a refresh, can leave a thumbnail of the old version;
no property claims otherwise. Of content serving only the path resolution is
modelled.

## Runs

| Run | Instance | Distinct states | Checks |
|---|---|---|---|
| `embodiment_writing` | 1 body, 2 agents, 2 callers, 1-2 services, 1 late transaction | 259 k | `AssignmentsAreSound`, `SharedServiceDecisionsHold`, `CallsReturn`, `ImplementsStore` |
| `embodiment_runtime` | 1 body, 2 clients, 2 requests in flight, 2 sessions, 1 crash, 4 samples, 2 capabilities | 1.0 M | `RuntimeIsSound`, `OnlyHolderActs`, `TelemetryAdvances` |
| `item_writing` | 1 item, 2 places, 2 accepted and 1 refused value, 2 callers, 1 abandoned transaction; by name: 2 keys, 3 requests, 2 at a time | 383 k | `TablesAreSound`, `ReplyJustified`, `AppliedReportIsActual`, `OnlyAppliedCommitsWrite` |
| `conversations` | 1 conversation, 2 persons, 1 body, 2 requests in flight, 5 in all | 1.9 M | `ConversationsAreOwned`, `SerialUseIsAtomic`, `SerialSelectionRetained` |
| `model_loop` | 3 steps, 2 calls a step, 4 tools, 4 tokens of text | 821 k | `StreamShowsTheAnswer`, `StopReasonIsWhatHappened`, `ToolsAreServed`, `AnswerEnds` |
| `facts` | some 60 requests, 3 persons, 5 items, nested containers and a cycle, 2 moves, 3 records a query; dates in 3 windows, offsets -14 to 14 | 56 k | `AnswerBracketed`, `FailureJustified`, `OffsetMeetsItsAnniversary`, `OccurrenceIsNext` |
| `semantic_conversation` | 3 scenarios of up to 4 requests, room for 1 conversation, 2 remembered turns, 2 attempts | 75 k | `TurnsReferBack`, `UsedConversationsStay`, `ReplayIsInOrder`, `WritesAreAskedFor`, `RequestsEnd` |
| `calendar` | 3 calendars, 2 pages, 6 requests, half-second ticks | 170 k | `ListingIsTruthful`, `ReadEventsAreKept`, `ListingEnds` |
| `graph_snapshots` | 2 valid and 8 refused sources and what is exported, 2 items, 2 places | 1.5 M | `InstalledIsSource`, `StaysSomewhere`, `ExportedComesBack`, `OldTreeSurvives` |
| `model_warmup` | 2 workers, 2 providers of one model, 2 evictions, 2 faults, 1 stop | 65 k | `WarmWasVerified`, `WarmedOnce`, `StaysWarm` |
| `media` | 4 files in 2 roots (one a link out of them), 2 versions, pages of 2, 3 requests | 1.7 M | `IndexIsFolder`, `PagesCoverIndex`, `ThumbnailMadeOnce` |
| `thumbnail_torn` | as `media` | violation | `ServedWhole` |

Properties that belong together are checked as one named conjunction:
`AssignmentsAreSound` (types, `OneAssignmentPerBody`, `AssignmentEndpointsExist`),
`RuntimeIsSound` (types, `SessionIdsUnique`, `RuntimeStateIsBacked`),
`TablesAreSound` (types, `OneLocationWhileServed`, `NoEdgeOutlivesItsItem`),
`ConversationsAreOwned` (types, `OwnerOnly`), `SerialUseIsAtomic`
(`SerialDeleteIsFinal`, `SerialTranscript`, `CompleteContext`), `ToolsAreServed`
(types, `EveryCallAnswered`, `BoundedWork`, `OnlyOfferedToolsRun`,
`TruncationIsVisible`).

**Bounds.** Bodies, items and conversations do not share state, except that
`list()` fails for all bodies when one is inconsistent; hence one of each. Two
callers, requests or workers are the smallest number that interleaves, and one
late transaction the smallest that escapes the lock. `MaxSessions = 2` lets a
client be replaced, before or after the crash. Four samples give a later one, a
conflicting one of the same instant, a duplicate, an older one and one in an
unknown space; a body is configured with one capability and clients advertise it
or another. Five requests let a conversation be created, selected, posted to
twice and deleted in any order. Three requests by name let a create be repeated
while another one changes or deletes what it found. Four tokens hold an id, a
separator and the beginning of another id in every chunking. Room for one
conversation makes eviction and the full table happen; four turns are more than
are remembered. Two pages let a listing fail after it has read something. The
budgets of `graph_snapshots` (ingestions, writes, exports, failures) are chosen
so that each pair of activities meets: (2,1,0,1), (1,1,1,0), (2,0,1,1), and two
exports with two failures, (0,0,2,2). The plans
of `media` likewise: changes with failing scans, with a paging client, with two
thumbnails, and three thumbnails with a fault (the smallest number that tears
one). Date windows hold a leap day, the turn of a year, the year 1900, which has
no leap day, and the last representable year. Symmetry is used only in runs
without liveness properties.

**What the properties do not judge.** `RuntimeIsSound` is about what is cached and
registered, not about a request applied after its body was deleted or reassigned.
In `item_writing` no edge of `others` appears while a deletion runs, since only
ingestion writes those. `ReplyJustified` accepts a reply that was true at any moment
of its request and asks nothing of internal errors. `SerialUseIsAtomic` and
`SerialSelectionRetained` are about serial use. `FailureJustified` does not judge
`computation_impossible`, `property_unavailable` and the codes of filters.
`StaysSomewhere` is about ingestion's own statements.

**Deadlock** is checked in the embodiment, item, model loop and warm-up runs. The
others end: their requests, plans or budgets are used up.

**Fairness.**
- `EmbodimentWriting`: a call that can take a step does (the database answers),
  and a caller waiting for a lock that is free again and again gets it
  (`asyncio.Lock` wakes its waiters in order). `CallsReturn` then says that no
  path, failing ones included, leaves the lock held.
- `ModelLoop`: the loop's own steps, and the end of the provider's stream, which
  its HTTP timeout enforces. Content, failures and disconnection are not fair.
- `SemanticConversation`: each request's steps, the planner's reply or failure
  included (its calls have timeouts). `asyncio.Lock` hands the lock to the waiter
  that is first.
- `Calendar`: time, the deadlines and the final gathering. Replies are not fair: a
  service that never answers is covered.
- `ModelWarmup`: each task's steps and the server's answers; failures, evictions
  and stops are bounded in number, so "once the server keeps its models" is
  eventually true.

## What the code does that its documentation does not say

- **`thumbnail_torn`** (checked as a violation): `home_media/thumbnails.py` calls
  its cache "concurrency-safe". After a failed generation the item's lock is
  dropped from the table while others still wait on it; a newcomer gets a new
  lock, both write the same temporary file, and a half-written thumbnail is served.

The following were met while modelling and proving. The first nine were
counterexamples of TLC to the sentence quoted or to an earlier form of a property,
and the properties above are stated so that they hold in spite of them:

- `list()` reads bodies, then assignments (`mutation/embodiments.py:37-59`). When
  another body is created and assigned in between, `list()` raises, and a request
  for a stored body is answered `unknown_embodiment`.
  `agents/registration.py:31` documents a raise only "when the id is absent".
- A first-location transaction (`mutation/writing.py:184`) that outlives its
  cancelled caller can land after another caller's. The item then has two locations
  and every `update_location` of it answers `CONFLICT`.
  `docs/design/item-writing-api.md:41-42` says at most one is preserved; hence
  `OneLocationWhileServed`.
- A broken connection after the commit is answered "The item mutation transaction
  was not applied" (`mutation/writing.py:650`).
- `append_message` writes back the `active_embodiment_id` it loaded
  (`conversation/store.py:257`), undoing a selection made in between
  (`tests/test_conversation_embodiment_store.py:10` expects it to stay); hence
  `SerialSelectionRetained`.
- A probe that fails for a passing reason, such as the 60 s limit on `ffprobe`, a
  missing `ffprobe` or an I/O error (`home_media/metadata.py:136-142`), becomes a row
  with the file's size and time (`home_media/scanner.py:95-104`), which later
  refreshes count as unchanged (`home_media/scanner.py:84-90`): the modification time
  stays the capture time, and the item without its metadata, until the file itself
  changes. An earlier form of `IndexIsFolder` asked for the metadata after every
  refresh that met no error; it now admits the record of a failed probe.
- An export reads its tables one by one (`persistence/export.py:157`); with a
  write in between, the result need not be a valid source for ingestion
  (`persistence/export.py:14-15`); hence `ExportedComesBack` for a quiet export.
- A file that is removed between a scan's `stat` of it and its probe, replaced by
  another version for the probe, and later restored with its old modification time
  keeps the metadata of the version in between in the index for ever:
  `home_media/scanner.py:86` compares time and size alone. No document promises
  more; `IndexIsFolder` asks for the right metadata only of a file that has a
  version it did not have before. This came up as the case the proof could not
  close, and TLC confirms it with three changes.
- A file may give a relationship the explicit id that another item's relationship
  has in the database. Its `RELATE` (`persistence/ingestion.py:360`) then takes the
  relationship from the other item, which has no location until its own `RELATE`,
  and none at all if ingestion stops in between; hence the last condition of
  `StaysSomewhere`. The proof asked for it, and TLC confirms it with two items that
  exchange their ids.
- An ingestion that fails can leave an item with two locations. A later one whose
  source has neither items nor locations is valid, succeeds, and leaves them: only
  tables with a file are pruned (`persistence/ingestion.py:352-384`). What is
  exported then is a source that ingestion refuses. Hence `settled`: a graph that
  is not settled is so again when an ingestion replaces every relation.
- A move that runs between an ingestion's `RELATE` and its prune
  (`persistence/ingestion.py:431`) can leave the item without a location;
  `StaysSomewhere` is about the ingestion's own statements.
- `docs/semantic-composition-contract.md:46` and the engine differ on the focus of
  an empty result, which `facts/engine.py:158-177` keeps.
- A deletion that runs while an answer is streaming is undone in part: the answer is
  appended by an upsert of the whole record (`conversation/store.py:254-266`), which
  brings the conversation back. A conversation whose first question was stored, but
  whose record was not, is never titled. `ConversationsAreOwned` and
  `SerialUseIsAtomic` hold in spite of both, and forbid neither.
- Writing by name: two creates of one name with different keys may both find nothing
  and both be stored, so that later references are ambiguous; the second call of a repeated create reads location and
  attributes at two moments, so that "already so" may combine two states; a record
  deleted in between raises `AttributeError` (`mutation/semantic.py:77`); a key that
  belongs to an item of another name is answered "already has a record"; a create
  whose item was meanwhile moved or deleted is answered `ITEM_ALREADY_EXISTS`.
- Facts: the limit on name matches is applied before matches are scoped to the
  household; a negative date offset that meets a short month lands up to one unit
  late; the computed `age_years` validates as a projection and is then always
  `property_unavailable`; an `exists` filter on a missing value ends in
  `filter_input_missing`.

## Proofs

All theorems hold for any sets of bodies, agents, items, places, callers, clients,
workers, models, persons, conversations and sources, and any bounds; the files and
requests of `MediaLibrary`, the requests of `SemanticConversation`, the item keys
of `NamedWriting`, the calendars and the tools are any finite sets. They rest on the named `ASSUME`s only, which TLC evaluates: the
sentinels (`NoBody`, `NoAgent`, `NoSession`, `NoRequest`, `NoItem`, `NoPlace`,
`NoWorker`, `None`, `Free`) are distinct from real values, configured and advertised
sets are sets of capabilities, admissible places are places and declared values are
values, bounds are naturals, a request of `SemanticConversation` brings at least one message, and what its planner
returns is a plan. `NamedAssumption`, `StoredAssumption`, `LoopAssumption` and
`LibraryAssumption` give stores, requests, events, results and files their shape,
and say that a limit is at least 1, that no two events of the calendars have the
same id, that there are two roots, and that items are no places. `GraphAssumption`
says that the registered relations and the retired tables are tables of the database
and have nothing in common, that an item has one location at a time, that no node
file is named after a relation or a retired table, that the initial graph is a
finite valid source with finitely many retired rows beside it, that a missing, a null
and a malformed value are three things, and that items and places are records of the
tables the item writer uses. Where a module has a theorem `Soundness`, it states the
conjunction that the run checks; theorems of that module about single conjuncts are
its parts. Each other theorem states one property of a run.

**`EmbodimentWritingProofs`**: `TypeCorrect`, `SingleAssignment`,
`NoDanglingAssignment`, `Soundness`, `Implementation`, `DecisionsHold`. The types
are inductive with `CallShape` (a busy caller has a call). The graph invariant
`GraphOK` is the conjunction of the two graph properties, and needs both parts:
`assign` guards against a second edge of its body, and `create` gives an unassigned
body only because no edge dangles. The lemma `TransactionGraph` shows that any
transaction keeps `GraphOK` whenever it runs, since its guard is evaluated on the
tables it changes; that is why late transactions and separate locks do no harm. The
refinement proof gives each successful transaction its abstract step
(`TransactionRefines`); every other step stutters. `DecisionsHold` needs the lock:
`LockHeld` (a caller between acquiring and its transaction is the holder) excludes
a second writer, `NoOrphans` a late one, and so `ReadsHold`, what a caller has read
so far is still in the tables.

**`EmbodimentRuntimeProofs`**: `TypeCorrect`, `UniqueIds`, `Backed`, `Soundness`,
`HolderOnly`, `SampleOrder`. The inductive invariant adds to the properties:
`Carries` (a telemetry request has a sample), `Issuance` (every id handed out
precedes the next one: an older process, or a smaller number), `SentIds` (a request
carries only an id its client was given) and `Booting` (a starting process has no
session, sample or request; without it start-up would replace the catalog under
a live session). `HolderOnly` follows from `SentIds` and `UniqueIds`: the id a
request passes `_require_current` with identifies one client.

**`ItemWritingProofs`**: `Soundness`, `ReportsAreActual`, `OnlyCommitsWrite` about
`Spec` of `ItemWriting`, `RepliesAreJustified` about `NamedSpec` of `NamedWriting`
(the run takes a behaviour of one or of the other). The transaction for a first location looks at no edge, and the one of
`delete` removes only the relations that were seen: neither keeps the tables sound
by itself. `Inv` adds `Shaped` (which reads a call has behind it at each await),
`Locked` (a call past the lock holds it) and, while no transaction is abandoned,
`ReadsHold`: what the call decided upon is still in the tables. `RunSound` then shows
that a transaction built from such reads keeps one location per item and no edge of
what it deletes. The two action properties are the same facts at the moment of the
commit. For writing by name, `NamedInv` says of a request what it may rely on at
each of its awaits (`Underway`): the item it resolved, or none, was what its name
meant at some moment of the request, the place is one of that name, and for a
repeated create the stored location was seen; and of a request that is done, that
its `Claim` held then (`Answered`). The moments only grow, so other requests cannot
take a claim back (`OthersKeep`); what is left is the write itself, whose outcomes
are taken one by one (`WrittenKeeps`, `UnwrittenKeeps`).

**`ConversationsProofs`**: `TypeCorrect`, `Ownership`, `Soundness`,
`SerialAtomicity`, `SelectionRetained`. The invariant of the first three adds
`HasLoaded` (a request past its load holds a record), `CopiesOwned` (that copy
names the owner, however old it is) and `OneOwner`. Since no copy ever names
anyone else, no write back can change the owner, not even one that revives a
deleted record. The serial properties need more: `Counting` (contents are numbered
in the order of the requests, and a conversation nobody created is empty) and
`Serial`, which says of a conversation nobody has used twice at a time that its only
request `Knows` what the tables hold: its copy of the record is the record, and
which of its messages are stored. `SerialFrame` reduces a step to the one
conversation it concerns.

**`SemanticConversationProofs`**: `TurnsMean`, `UsedStay`, `OnlyAskedWrites`,
`ReplayMeansOrder`. `Owned` and `Tabled` say who made and uses a conversation, that
each key has one, that those in use are in the table, and that `users` counts the
requests that wait or work: hence eviction, which looks for `users = 0`, cannot hit
one in use. `Logged` says that what a conversation remembers is the end of its log
and that each turn of the log has its meaning given the turns before it; truncation
to `MaxTurns` is harmless because no offset reaches further. `RequestGood` holds the
replay together: of nested calls each one is a turn before its caller's, the memo
holds only turns that mean what their antecedents, already in the memo, make them
mean, and what a call has learned of earlier turns is what the memo says. For
`ReplayMeansOrder` the definition of `InOrder` must be shown to have a value at all
(no induction theorem can be instantiated): a first position without one is a
contradiction, from the well-ordering of the naturals (`MinFacts`), and so is a
first turn whose meaning in the memo differs.

**`GraphSnapshotsProofs`**: `Survival`, `InstallsSource`, `ItemsStaySomewhere`,
`ExportsComeBack`.
`Progress` says for each place of the export how far the renames have come: a
directory is `Untouched`, `MovedAway` or `Replaced`, and `nodes` is done before
`edges` begins. With it a rollback, which looks at the backups alone, restores
exactly what stood there, and a crash leaves every old directory in place or beside
it. That needs no assumption on what the tables or the sources hold.

The ingestion has one invariant, `GraphInv`. `GraphTypes`: the source is valid, its
node files are named after node tables, and every row is in a table of its kind.
`Installing`, while nobody else has written: each statement that is no longer to come
is earlier than those that are, and its `Effect` holds (its row is the only one with
that id; a pruned table has no row but those it keeps); and `Before` says what is
left of the graph that was there: tables and relations without a file are as they
were, less the edges of records that are gone. `UpsertKeeps`, `RelateKeeps` and
`PruneKeeps` show that every statement keeps all of these, for which validation is
needed: records of one id are in one file, relationships end at known records, and
no prune deletes a known one (`GoneUnknown`). When no statement is left, all effects
together are `InstalledIsSource`. For `StaysSomewhere` (`MoveStep`) a relationship
disappears only by a `RELATE` of its id, which is the new one, or by the prune of its
relation, which is later than every `RELATE`.

For `ExportedComesBack` a second invariant, `CopyInv`, is added. `Settled`: the
records always are what a valid node file can hold, and the relationships of a settled
graph what valid relationship files can hold; a move, a removal or a new item of the
item writer keeps that, and a finished ingestion restores it (`InstalledSound`, from
`InstalledIsSource`), but not one that stopped between two statements, which is why
`ghost.settled` is part of the property. `Reading`: what an export has read of a
steady graph is what is in the first tables of the list. `Copied`: what it staged is a
copy of a sound graph. `EdgeComesBack` is the heart: an id left out because it is
implicit, and an end added as null, are read back as they were. So the copy is valid
(`CopyIsValid`), and if it is ingested, the effects of its statements are the rows
that were read. `Listed` shows that `SetToSeq` of a finite set, which the files are,
has each of its elements once.

**`AgentProofs`**, about three modules of the agent's side.

`ModelWarmup`: `WarmIsVerified`, `LoadsAreShared`. `LockHeld` and
`DownIsOff` give mutual exclusion across workers. `Told`: a task that trusts its
model was told it is served, and that is true unless the model was unloaded after
`asOf`. `Paid`: when a load is due (nobody serves the model and nobody is
loading it, or a task has been told so), the loads made are one fewer than what
evictions, failures and stops account for; without the second case of `Due` a task
could load on the strength of an answer that another load has made stale.

`Calendar`: `ListingsAreTruthful`, `EventsAreKept`. `Reading` says that a fetch under
way has the valid events of exactly the positions before its page, each counted
once, a complete one those of its whole calendar, a failed one none; the fetches
that run are those of the calendars the caller may read. A listing that is not cut
then is all that was wanted, and one that names no calendar it misses has been
cut by the limit. That the first events of a list are no more than the limit is a
pigeonhole argument: two events of the same rank would precede each other, which is
where the uniqueness of ids is needed.

`ModelLoop`: `StopReasonsAreTrue`, `CallsAreServed`. `Reasons` ties the remembered
failure to what the tools did in all steps, `Frames` says the stream is still open
until the loop ends, and closed once by whoever ends it. `Blocks` is the
transcript: every assistant message is followed by one result for each of its
calls, in their order, except that the last one waits for the rest while its
calls are dispatched. `Counts` bounds the results by steps and calls, in a
disconnected answer as well. None of these needs the texts, which the loop
carries along unread.

**`MediaLibraryProofs`**: `MadeOnce`, `RefreshRepairs`, `PagesAreComplete`. Before a file has a thumbnail, everyone who has
a lock for it has the stored one, one request at most is inside, and the temporary
file is its own (`Unmade`); once it has one, a request that passes any lock sees it
on its second look, so nobody makes another (`Made`). Both are about files with no
failed attempt and no removed thumbnail, as the property is: after a failure they
are false, which is what `thumbnail_torn` exhibits.

`RefreshRepairs` starts from any index earlier refreshes, failures and changes have
left. `ReadTruly` is what survives all of them: the stamp of a row is of a version
the file has or had, and if the file has that version for the first time, what the
row says was probed from that version, or is the failure of a probe of it.
`Progress` is about a refresh that meets every file while none changes: rows that
matched when it began still do, each file it has met matches, and those of the
listed roots it has not met are in its queue. At its end the files it has met are
all there are, and pruning the others leaves the folder.

`PagesAreComplete` needs that ranks have no gaps: precedence is a total order, since
ids break ties, so the `n` first rows are those of the ranks below `n` (`Ranks`,
`NoGaps`, `BelowIs`). While no row is removed or moved a row's rank only grows,
hence `Ahead`: what the client has not been shown is not before its offset, whatever
is added. While nothing changes, `Behind`: what it has been shown is, and was shown
once.

**Model-checked only**:

- liveness (`CallsReturn`, `AnswerEnds`, `RequestsEnd`, `ListingEnds`, `StaysWarm`):
  out of the prover's reach;
- the facts (`AnswerBracketed`, `FailureJustified`, `OffsetMeetsItsAnniversary`,
  `OccurrenceIsNext`): `FactSchema`, and what extends it, is written with RECURSIVE
  operators, and calendar arithmetic is an induction over data;
- `StreamShowsTheAnswer`: what the filters of `DisplayText` make of a text in any
  chunking is an induction over its tokens.

## Not modelled

- Prompts, JSON schemas for the planner, rendering, greetings, HTTP envelopes,
  cookies and logging: wording.
- Provider encodings, query texts, the calculator, unit factors, datetimes with
  zones: conversions no property depends on.
- `EmbodimentDirectory`: it compares, at one moment, what `EmbodimentRuntime`
  holds with what it has just read, and changes nothing.
- Geometry, localization and pose solving: floating point, out of TLC's reach.
- Vision contracts: data contracts of a subsystem whose execution is paused.
- The browser client; benchmarks, probes and maintenance scripts.
- `last_seen` and the freshness of telemetry against the clock.
- Requests that fail validation before they touch state change nothing and have
  no action.

## Plan

What is left is an abstract specification of the item graph, one location per item
and atomic changes, that `ItemWriting` implements while no transaction is abandoned;
its proof can rest on `RunSound`.
