# A TLA+ model of the Foundry MCP server

Foundry MCP connects an MCP client (an assistant) to a running Foundry Virtual
Tabletop world. This directory holds TLA+ modules of the parts of it that hold
state and can go wrong in ways tests hardly reach, TLC configurations that
check them on small instances, and theorems that TLAPS proves for instances of
every size.

Paths of the source below are relative to `src/packages/`.

## 1. The system

```
MCP client -- stdio -- adapter -- authenticated pipe -- host -- WebSocket -- companion in a Foundry page
                   (mcp-adapter)                     (host, SQLite)          (foundry-module, localStorage)
```

| part | state it keeps | operations | what makes it correct |
| --- | --- | --- | --- |
| Event ledger (`host/src/intelligence/event-ledger.ts`) | SQLite: acknowledged sequence id, receipts ahead of it, captured events | ingest an envelope, resume point, retention | acknowledges exactly what it received; one event per id; deleted rows stay deleted |
| Intelligence queries (`queries.ts`, `context-pack.ts`) | none of their own; clients keep cursors | pages of the timeline and of what changed, polling, search, context packs | readers neither skip nor repeat a row that stayed; a pack says what it leaves out |
| Event stream (`foundry-module/src/companion-client.ts`, `host/src/intelligence/event-stream.ts`) | page: next id and unacknowledged window, in memory and in localStorage; frames on the socket | publish, `events.resume`, `event.ack`, replay | nothing published is lost; an id names one event |
| Companion requests (`host/src/bridge/companion-server.ts`, `companion-client.ts`) | host: pending and completed requests; page: response cache, in-flight table, durable guards | request, cancel, resend, begin, execute, finish | a mutation runs at most once; no caller is told it did not run when it did; every call is settled |
| Companion identity (same two files, `host/src/security/policy.ts`) | host: identity row, grants, connections; page: credential in memory and in storage | challenge, proof, enroll, offer, confirm, activate, grant, rotate | grants are not inherited; only a proven page is connected; the page can come back |
| Reconciler (`host/src/intelligence/reconciliation.ts`) | SQLite: job, tasks with cursors, snapshots | start or resume a pass, list a page, store a snapshot, complete, fail | a complete pass is complete; pruning removes only what is gone; passes keep completing |
| Policy and router (`host/src/security/policy.ts`, `bridge/router.ts`) | grants, audit rows, active requests | decide, audit, fetch an image, dispatch, abort, expire | nothing runs undecided; one audit row that is true |
| Adapter connection (`mcp-adapter/src/bridge-connection.ts`) | request table, timers | connect, negotiate, request, cancel | every call gets one answer, and a true one |
| Pipe (`host/src/bridge/pipe-server.ts`, `pipe-client.ts`, `bridge-auth.ts`, `windows-pipe-broker.ts`) | connections, frame counters, the broker process | start, check the ACL, authenticate, serve, close | nobody is served before the ACL is checked; every start and close settles |
| Daemon and coordinator (`host/src/daemon.ts`, `intelligence/coordinator.ts`, `status.ts`) | what is started, connected pages, tracked reconciliations, `status.json` | start, connections changed, periodic run, retention, shut down | everything begun is ended, in an order in which what is owed to the database is still written |
| Session journals (`foundry-module/src/sessions.ts`) | journals and pages in Foundry, locks and cursors in the page | start, append, end, reopen, list, get | a key takes effect once, an answer is complete, a status stands |
| Document service (`foundry-module/src/documents.ts`) | Foundry's collections | list, create a batch, update, snapshot | listings are stable, batches tell the truth, updates overwrite nothing they could have seen |
| Assets (`foundry-module/src/assets.ts`) | files and documents in Foundry | upload, attach, roll back, list images | a rollback leaves nothing of its own store, and removes nothing older and nothing that is used; nothing is replaced unseen |
| Event hooks, image sources, key storage, MCP declarations, command line, schemas | none, or files and keys | I/O, formatting, registration | not modelled, see section 6 |

How they interact: the host and a page talk over one WebSocket per page; the
page answers a challenge (identity), the host activates the connection, sends
`events.resume` (event stream), resends its pending requests (requests) and
tells the coordinator, which starts a reconciliation that reads documents with
companion requests. A call of the MCP client goes from the adapter through the
pipe to the router, past the policy, and becomes a companion request; in the
page it ends in the services of documents, sessions and assets. The tabs of one
user share a connection id and one localStorage entry. The page's receive queue
handles one frame after the other; the requests it starts run concurrently,
and everything that reaches the Foundry server leaves time in which other users
edit the world. The host's SQLite transactions are atomic, but statements
outside a transaction commit one by one.

What is hard: sockets and pipes that die on one side first, pages that reload,
storage that refuses a write, several tabs with copies of one state, hosts that
restart or are killed between two commits, requests resent after a reconnect,
cancellations and deadlines that race answers, retries of chains that were cut
off, a world that changes between two requests, a shutdown with work under way.
`PROJECT.json` lists the hazards at their lines with the properties that cover
them.

## 2. Modules

| module | models | builds on |
| --- | --- | --- |
| `EventLedger` | one action per transaction of the ledger | |
| `Queries` | pages of readers, and polls, over the ledger | extends `EventLedger` |
| `ContextPack` | `buildContextPack`, statement by statement | extends `Queries` |
| `EventDelivery` | abstract: events are recorded at most once, under ids that order them | |
| `EventStream` | page, socket and storage around the ledger | extends `EventLedger`, implements `EventDelivery` |
| `Mutation` | abstract: a mutation runs once, for callers who wait or know that it may, and is not denied to all of them | |
| `CompanionRequests` | the host's tables and each tab's cache, guards and executions | implements `Mutation` |
| `CompanionIdentity` | enrollment, confirmation, activation, grants, key rotation | |
| `Reconciler` | passes over a world that changes | |
| `Router` | decision, audit, image sources and dispatch in the host | |
| `Bridge` | the adapter, the authenticated pipe and what the MCP client is told | extends `Router`, implements `Mutation` |
| `PipeServer` | how the pipe opens and closes, on Unix and through the Windows broker | |
| `HostLifecycle` | daemon, coordinator and companion server from start to shutdown | extends `PipeServer` |
| `Sessions` | start, append, end and reopen as chains of Foundry calls under their locks | |
| `SessionReaders` | list and get with the page's cursors | extends `Sessions` |
| `Documents` | listings, a batch and updates, beside other users | |
| `DocumentSnapshots` | the concurrent expansion of references within its limits | extends `Documents` |
| `Assets` | uploads and attachments with their rollbacks, beside other users | |
| `AssetListing` | the listing of images, folder by folder | extends `Assets` |
| `IntelligenceProofs` | theorems | the ledger, its readers, the event stream and the reconciler |
| `CompanionRequestsProofs`, `CompanionIdentityProofs`, `BridgeProofs`, `HostLifecycleProofs`, `DocumentsProofs`, `AssetsProofs`, `SessionsProofs` | theorems | the component they are named for, with all its modules |
| `MC*` | instances for TLC; a `.cfg` per question | |

A module that is composed with another extends it, so that the invariants of
the smaller one are also checked under the steps of the larger. Where two parts
meet that are not composed, the smaller instance of one is used as what the
other may rely on: `Router` lets the companion answer as `CompanionRequests`
shows that it does, and both the companion's side and the adapter's side are
shown to keep the promises of one abstract `Mutation`, the host's router being
the caller of the first and the MCP client that of the second; `HostLifecycle` abstracts a reconciliation to "asking" or
"aborted" and a mutation to where its request is; `Activate` of the requests is
what `Confirm` or `AcceptProof` of the identity do. Each module has a section
"Mutated forms": changed definitions, used by `PROJECT.json` to show that each
property depends on the code.

### Correspondence

*Event ledger.* `ack`, `receipts`, `rows` are the tables `event_stream_state`,
`event_receipts` and `events`. `IngestDuplicate`, `IngestRefused` and
`IngestAccepted` are the three ways through the transaction of
`ingestEventEnvelope`; `ContiguousEnd` is its loop for the end of the run of
receipts. The capture filter and the clock of retention are choices. `accepted`
and `pruned` are history.

*Queries.* `stamp` holds the columns `id` and `received_at` that orders and
cursors use. `FirstPage`, `NextPage` and `Poll` are one SQL statement each;
`Before`, `Beyond`, `HasMore`, `CursorOf` are its clauses. A client that polls
does so with `intelligence.context`, whose pack holds the rows and the status
of the ledger (`GapShown`: the gap of the last reconciliation, or receipts) as
they were at one moment. `intelligence.changed-since` has no gap in its answer:
a client that asks for it and, in another request, for `intelligence.status` is
promised nothing, since a hole may open or fill between the two.

*Context packs.* `request` holds the candidates, `packEvents`, `packObjects`,
`packTruncated` and `byteLength` are the fields of `pack`, and `phase` is the
loop that runs. `TakeEvent` and `TakeObject` are one turn of the two filling
loops, with the attempt to keep an item without its payload; `CountEvents` and
`CountObjects` the comparisons after them; `Measure` the three passes over
`byteLength`; `TrimEvents` and `TrimObjects` one turn of the two trimming loops;
`Finish` the last measure and the throw. Every assignment to `truncated` is where the
code has it. A pack is measured by the sizes of its items; the comma between two
items, and the ids that go with them, count as part of an item.

*Event stream.* `publish` has three outcomes: saved, refused by storage (the
event stays queued and numbered, the caller sees an exception) and refused by a
full window (thrown after it was queued and numbered). `HandleResume`,
`HandleAck`, `Replay` are the branches of `#receive`. A frame that is already
in the receive queue is handled although the socket died meanwhile
(`sock = "closing"`).

*Requests.* `pending`, `completed`, `live` are the host's maps; `memory`,
`store`, `flight`, `taken` are a tab's `#state`, its localStorage,
`#inFlightRequests` and the frame whose digest `#beginRequest` awaits. `Begin`
has the five ways through `#beginRequest`: cached, joined, recovered, fresh and
unguarded. Responses are told apart by what they say about the side effect
only: `CANCELLED` stands for `TIMEOUT` too, `NOT_DISPATCHED` for the error with
`details.notDispatched`, `LOST` for the silence of a crashed host. The order in
which pending requests are resent, and which read responses a full storage
evicts, are left open. `Activate` waits until the tab has no request in hand
because the handshake frames wait behind it in the same receive queue.

*Mutation.* Abstract, so without lines of its own. `asked` stands for a call that
is pending, `runs` for how often the mutation was handed to Foundry, `told` for
the set of answers its callers got. It runs while it is asked for, or late, if
an answer left that open (`MayYetRun`: "indeterminate", the silence of a crashed
host, or to the MCP client a broken pipe). `Tell` ends a call or one of several;
who ends the last call of a mutation that ran leaves at least one answer that
says so or leaves it open (`MayHaveRun`). `Service` in `CompanionRequests` and in
`Bridge` is the instance, one per mutation.

*Identity.* `link[t]` is what is in flight on the tab's socket: the proof, the
offer (`auth.ready` with a credential), the confirmation. `Enroll`, `Reoffer`,
`RejectProof`, `AcceptProof` are the branches of the `auth.proof` handler,
`Confirm` and `RejectConfirm` those of `auth.confirm`. A grant is recorded with
the credential that was confirmed when it was made, so that inheriting one is
visible. `Persist` is any other write of a tab: `#persist` always writes the
tab's whole state.

*Reconciler.* `status`, `gap` are the job row, `queued`, `done`, `cursor` the
task rows, `indexed` the snapshots and `seen` those of the current run. `pc` is
the point `#reconcile` has reached: every point is either a request in flight,
where the world may change and the request may fail, or a statement that
commits by itself, where the host may be killed. Tasks are taken in the order
of their keys; the hash in a key is left open. A snapshot and the task for its
children are one step: a kill between them leaves the page to be done again.
`steady` and `absent` are history.

*Router and bridge.* `work[q]` is the entry of `#active` and the point its
operation has reached: at its image source, with the companion, answered.
`Report` is `reportProgress`, which puts frames on the pipe before the response
and counts against its budget; `CompanionReports` is what the companion reports
meanwhile. `Handle` is `#handle` up to the first await, `Denied` and
`Authorized` the branches of `runAuthorizedOperation`, `Finish` its audit and
the answer. `Expire` is the deadline, `Abort` a cancellation, `Stopped`
`assertOperationActive`. `call[q]` is the adapter's table: called, pending,
told. `client` and `server` are the states of the two ends during
authentication; `seen` counts the nonces each has seen, up to `MaxFrames`.
`toHost` and `toAdapter` are the frames on the pipe, in order.

*Pipe and lifecycle.* `phase` is the statement `startDaemon` or `shutdown` has
reached, `pipe` that of `startPipeServer` or of its close. `BrokerReady`,
`BrokerLost`, `BrokerRejected`, `GiveUp`, `ShutdownTimeout` are the branches of
`startWindowsPipeBroker`. `connected` and `tracked` are the coordinator's
`#connected` and `#pending`; several promises of one reconciliation are one
member of `tracked`, since the reconciler joins them. `Early` and
`ConnectionsChanged` are the callback of the companion server before and after
the coordinator exists.

*Sessions.* `call[c].at` is the Foundry call a chain waits for; between two
waits the code runs in one step, under the lock its key or its journal gives
it. `flags` are the module's flags on journals and pages, `bounds` the failures
and reloads left. A reload ends every running call, whose last Foundry call may
or may not have taken effect. `cursors` is the page's map with its limit.

*Documents.* A document is its name, whether it may be read, and the number of
the write that made it; hash and version differ exactly if those numbers do.
A call that reaches the Foundry server is two steps, with other users' edits
in between. An item of a batch may be created although the call for it rejects
(`ItemFailed`). `work` is the budget of nodes and bytes of raw data that all
documents of a snapshot share, `Weight` what a document takes of it. `Page`,
`NextCursor` are the sort and the cursor of a listing; `tasks` of a snapshot are the pending calls of `expandValue`.

*Assets.* A file is the number of the store that wrote it. `undo` is what the
rollback will do; `todo` the documents `#assetIsReferenced` has not read yet.
`listing.scan` is the queue of folders and the sources still to be browsed.

## 3. Runs

All runs are in `PROJECT.json` with their properties and mutants.

| run | instance | shows |
| --- | --- | --- |
| `event_ledger` | ids 1..4, two payloads, gap and receipts of 3, two milliseconds, pages of one, three pages | `LedgerInv` under every order, repetition and loss; `SteadyRowPagedOnce` for cursors, `PollMissesNothing` for polling, `PackIsHonest` for every reachable ledger, the three sources of a pack and four values of `maxBytes`, around those where `byteLength` gains a digit |
| `event_stream` | 4 events, window of 2, two deaths or reloads, one refused write, one lost storage | `NoUnacknowledgedDrop`, `StreamInv`, refinement of `EventDelivery`; `EventuallyRecorded` once faults stop |
| `requests` | a mutation and a read with a completed table of one, or one mutation called three times with three faults and two refused writes | `MutationRunsAtMostOnce`, `RequestsInv`, refinement of `Mutation` (`CompanionServes`), `EveryCallSettled` |
| `requests_two_tabs` (violation) | two tabs, no fault | a pending mutation is resent to a second tab and runs twice |
| `identity` | one or two tabs, three keys, two grants, four faults, two refused writes | `GrantsPostdateConfirmation`, `LiveIsProven`; for one tab `NotLockedOut`, `EventuallyConnected` |
| `reconcile` | three nested documents, one more, a compendium; pages of one, budget 3, depth 1, one change, one failed request, one kill | `IndexInv`, `NoGhosts`, `PrunesOnlyDeleted`, `PassesComplete` |
| `reconcile_task_limit` (violation) | task limit 4 | the pass prunes snapshots it never visited |
| `documents` | eight documents, embedded two deep and in a compendium, names shared; a budget of raw data that one snapshot can use up; two of listing, batch, two updates or a snapshot at a time, one foreign edit | `SteadyListedOnce`, `BatchAnswerIsTrue`, `LostOnlyInFlight`, `SnapshotsInv` |
| `sessions` | six scenarios of one to three calls with shared keys, three readers, one failed Foundry call, one reload | `SessionsInv`, `AnsweredIsWhole`, `StatusStands`, `SteadyReadOnce` |
| `bridge` | an update, an attachment, a read; two capabilities; progress for the read; four frames per direction, one broken pipe, one database error, one change of grants or companion | `BridgeInv`, `AuditTellsTheTruth`, refinement of `Mutation` (`BridgeServes`), `EveryCallEnds` |
| `assets` | two calls at once, or one beside a listing, over four paths in three folders and two documents; one foreign edit; with and without delete and restore | `RollbackIsRight`, `NothingReplacedUnseen`, `SteadyImageListedOnce`, `AssetsInv` |
| `lifecycle` | two pages, one adapter, two mutations, Unix and Windows | `LifecycleInv`, `NothingLeftOver`, `EveryPageSwept`, `StartAndShutdownEnd` |

An invariant named `...Inv` is the conjunction of the module's type invariant
with the smaller invariants its comment names; every conjunct has a name of its
own in the module.

### Bounds

Faults (`MaxDrops`, `MaxQuotaFailures`, `MaxStorageLosses`, `MaxRefusals`,
`MaxFaults`, `MaxCrashes`, `MaxFailures`, `MaxReloads`, the fault budgets in
`Budgets`), inputs (`MaxPublish`, `MaxGrants`, `MaxKeys`, `MaxChanges`,
`MaxEdits`, `Workloads`, `Work`, `Scenarios`, `Requests`) and sizes
(`MaxPendingEvents`, `MaxCompleted`, `PageSize`, `Limit`, `Budget`, `MaxTasks`,
`MaxDepth`, `MaxFrames`, `MaxUnread`, `MaxCursors`, `MaxWork`, `MaxBytes`) are constants. Where faults strike
during the recovery from another (stream, requests, identity) there are two or
more. Windows, tables, pages and budgets are one to four so that they fill,
overflow and are continued within the events and documents there are.
`MaxFrames = 4` leaves the handshake, the negotiation and one or two calls
before the connection is used up, and `MaxUnread = 1` lets the companion report
whenever the adapter has read what was sent, so that reports alone can use it up. The clients of a module that would multiply
without meeting (a listing and a batch, say) are put together in pairs, by
`Work`, `Workloads`, `Scenarios` or `Beside`.

Deadlock checking is off where the system may rest when its inputs are used up:
event stream, requests, documents and assets. It is on for the ledger, the
identity, the reconciler, the sessions, the bridge and the lifecycle, which
state when they are over and stutter only then, or always have a step.

### Fairness

*Event stream*: the page's reconnect timer, the handlers of frames that have
arrived, the host's reads and the close event, as both event loops keep
turning. Publishing and faults are not fair.
*Requests*: only the host's deadline and acknowledgement timers; nothing is
asked of the page.
*Identity*: the handshake of each tab, since the page reconnects by a timer and
a message is delivered unless the socket is lost. Faults are bounded, so the
property speaks of what happens once they stop.
*Reconciler*: its own steps; the coordinator's periodic timer starts the next
invocation.
*Bridge*: the timers of both ends (`ConnectTimesOut`, `NotAcknowledged`, the
deadlines behind `Cancel` and `Expire`), the host's reads, the end of an image
source (a failure at the latest, since it is given the deadline's signal) and
`CompanionGivesUp`, which `EveryCallSettled` of the requests justifies. Nothing
makes the companion answer.
*Lifecycle*: what the daemon awaits happens or times out (the broker's start
and end have timers), requests and reconciliations end by theirs, the periodic
timer fires. Nothing makes an adapter, a page or the operator act.

## 4. Theorems

TLAPS proves these for all values of the constants.

*Ledger* (`IntelligenceProofs`). `LedgerInvariant` proves `LedgerInv`, which is
inductive; from it `LedgerTypeCorrect`, `LedgerAcknowledgesOnlyReceived`,
`LedgerOneEventPerSequence`, `LedgerNoResurrection`, `LedgerWindowNeverFull`,
`LedgerAckOnlyGrows`. The window needs `MaxGap <= MaxReceipts`
(`WindowAssumption`): receipts lie strictly between `ack + 1` and `ack +
MaxGap`, so there are fewer than `MaxReceipts`. Pruned rows stay deleted because
their ids are accounted for by the acknowledgement or a receipt, and every such
id is a duplicate; that is why `RowsWereAccepted` is part of the invariant.

*Queries* (`IntelligenceProofs`, about `QueriesSpec`). `SteadyRowsPagedOnce` and
`PollsMissNothing` prove the two properties of the readers, beside an ingestion
and a retention that never rest; `ReadersInvariant` proves what they rest on.
The column `id` tells rows apart, the deleted ones included, and grows
(`StampsTellApart`). What a reader of pages has read it has read once and its
cursor has passed it (`ReadIsBehind`); a row that stayed is read or ahead of the
cursor (`SteadyIsAhead`), because a page is the first rows beyond the cursor
(lemma `PageIsFirstRows`). A polling client whose packs showed no gap stands at an
acknowledged sequence (`PollIsAcknowledged`), so that whatever is ingested later
lies beyond it: that needs the rows and the gap of one moment. `PacksOnlyRead`
carries both over to the specification with packs.

*Context packs* (`IntelligenceProofs`, about `ContextSpec`). `PacksAreHonest`
proves `PackIsHonest`, whatever is in the tables, whatever it measures and
whatever `maxBytes` is. Its invariant (`Building`) goes through the loops of
`buildContextPack`: up to the turn that stops a filling loop its items are whole;
that turn sets `truncated`, and after each loop the pack shows all candidates or
the flag is set (`EventsRight`, `ObjectsRight`); the flag of the timeline's page
is kept (`CandidatesKnown`); from the third measure on a pack is no longer than
its `byteLength` says (`LengthRight`). The last is what three passes are for: a
number of bytes has one digit when it is zero, the first pass may give it more,
the second too, and the third settles it (lemma `ThreePassesSettle`, which needs
powers of ten to lie further apart than there are digits, `PackAssumption`);
every item that goes leaves it true (`SmallerSettles`). Lists are defined by the
rank of their members, and `Total` counts bytes as a set of (item, offset) pairs,
so that what goes takes its own bytes along.

*Event stream* (`IntelligenceProofs`). `StreamNumbersHold` proves `StreamInv`,
`StreamDropsNothing` proves `NoUnacknowledgedDrop`, and
`StreamImplementsDelivery` the refinement of `EventDelivery`, for every window,
number of events, deaths of the socket, reloads, refused writes and losses of
the storage. The inductive invariant (`StreamIInv`) holds the two queues and
the wire together. Always: the queues are in the order of their numbers, below
the next number, and no frame of the host announces more than it has
acknowledged (`QueuesInOrder`). While storage is kept also
(`WhileStorageKept`): numbers order the events as they were produced, wherever
they are, and the page holds every number from the acknowledgement to its next
one in memory *and* on disk (`NothingSkipped`), because a reload forgets the
memory and a refused write the disk. A promised event is recorded or in both
(`KeptIsHeld`); it is recorded before any later one (`KeptInOrder`), which needs
to know that a frame on the wire comes after what it follows, or that the host
has refused its predecessor and will refuse every frame of this socket
(`WireInOrder`). For the refinement, a publish is the abstract `Produce`, an
accepted frame `Record`, and everything else a stutter; order and uniqueness
come from `NumbersOrderEvents`.

*Requests* (`CompanionRequestsProofs`). `MutationRunsOnce` and
`InvokedStaysRemembered`, for one tab (`ASSUME NEW tab, Tabs = {tab}`; with two
the property is false). The inductive invariant says that an execution in
flight has its guard on disk and in memory, that a mutation that ran is
remembered in both (with a response or a guard), and that one still waiting to
be dispatched has not run. Neither property is inductive alone: a fresh start
needs to know that the memory it consulted is at least as good as the disk.
`VerdictHolds` proves `HonestVerdict`, also for one tab. The caller can be told that a mutation did not run while a copy of its
request is still under way, so the invariant speaks of where copies may be: as
long as nobody was told that it may have run and the page has not sealed on
disk that it will not, a copy that is sent, held or begun belongs to a call
that waits and was dispatched (`VerdictInv`), which its end will answer with
"indeterminate" at worst; and a refusal for want of storage, which alone is not
sealed, is the only one on its way and the end of the only copy. `PageInv` adds
that what the page answers from its cache is what it did, and `TrueResponses`
that what is on the socket is what the page answered. From both follows
`RequestsInv` (`RequestsInvHolds`). `CompanionImplementsMutation` proves the
refinement of `Mutation`: each step lets the callers of a mutation wait, hands
it to Foundry, or tells them an answer (`MutationSteps`), and honest verdicts
make each of these an abstract step (`MutationStep`). That a late run was
announced needs one fact more, that Foundry's own answers ("ok" and its error)
are told only after the run (`Executed`); so only "indeterminate" and a crash
leave a run open. `ServiceIsHonest` closes the circle: whatever keeps the
promises of `Mutation` satisfies `MutationRunsAtMostOnce` and `HonestVerdict`,
which is why the run checks the refinement and not `HonestVerdict` beside it.

*Identity* (`CompanionIdentityProofs`). `GrantsAreFresh` and
`LiveConnectionIsProven`, for any number of tabs. The inductive invariant adds
that a proof or confirmation in flight was made with the credential in the
page's memory, which is why accepting it proves possession now, and that the
row's key is never ahead of the host's, so that a rotation always unbinds it.
`NobodyIsLockedOut` proves `NotLockedOut`: the only tab that was ever open, with
a storage that took every write, holds what is stored, and a confirmed row has
that very credential (`HeldByTheTab`), so the page can always come back.

*Reconciler* (`IntelligenceProofs`). `CompletedPassLeavesNoGhosts` proves
`NoGhosts`, for every world, limit, fault and kill. Its inductive invariant adds
that a run has seen nothing that was not public during it, and that between the
completion of a gap-free pass and the next one the index holds only what that
pass saw. `CompletedPassIsCurrent` proves `IndexInv` and
`PassesPruneOnlyDeleted` proves `PrunesOnlyDeleted`: a pass without a gap has
seen, and so does not prune, every document that was public all the time. The
invariant (`PassInv`) says of a pass that is still whole (no kill, no gap, not
truncated) that each such document has been seen and has a task for its
children, or is ahead of the cursor of its parent's task, or that its parent is
yet to be seen (`Accounted`); at the end no task is open, and
`ContainmentAssumption` (no document contains itself) excludes that two
documents wait for each other. Both theorems are of `ReconcilerSpec /\ []RoomForChildren`:
the limit of tasks is not reached at a page of embedded documents, which is the
bug of section 5 and nothing else; `SmallWorldsAreIndexed` shows that a world
with no more sources than `MaxTasks` satisfies it, so the condition is met by
every world of at most 2000 documents and collections.

*Bridge* (`BridgeProofs`). `ConnectionHolds` and `AuditHolds` prove the two
invariants of the run, `AnswersHold` that what the MCP client was told stays true
(`AnswersAreTrue`), and `BridgeImplementsMutation` the refinement of `Mutation`,
which implies it (`ServiceIsTrue`), for any requests, capabilities, budgets
and bounds. The inductive invariant has a part per place. In the router
(`JobInv`): before a mutation is read nothing happened; while it is active it is
decided and unwritten in the log, and only if it was sent can it have run; when
it is settled the log, the answer and what the companion may yet do agree. On
the wire (`WireInv`): a response about a mutation carries the answer it was
settled with, and nothing but the challenge precedes the authentication. In the
adapter (`CallInv`): a mutation it has not sent is unknown to the host and not
under way, so that `CANCELLED` before the call is final; what it was told it
read from the wire, or it says that it does not know. None of the three
properties is inductive alone: an answer is true because the frame was, the
frame because settled requests stay settled, and the log because a request
is settled once. For the refinement, a mutation that the companion carries out
was read by the host, so it was called (`CallInv`), and if its client has been
answered, that answer was "indeterminate" or of a broken pipe.

*Host lifecycle* (`HostLifecycleProofs`). `HostWritesItDown` proves
`LifecycleInv` (no late write, a true `status.json`, every dispatched mutation
in the audit log when the host is down) and `HostLeavesNothing` proves
`NothingLeftOver`, for any pages and mutations, on both platforms. The inductive
invariant (`HostInv`) says per stage of `startDaemon` and `shutdown` what is up
and what is down for good (`Stages`); that each reconciliation under way is one
`drain` waits for (`CoordPart`); that each mutation a page was sent is pending,
on its way into the log or in it (`WorkPart`), and that none is pending once the
companion server is not up (`NonePendingWithout`). Together these give the
reason for the order of the shutdown: when the database is closed nobody is left
to write.

*Documents* (`DocumentsProofs`, about `SnapshotSpec`, in which all clients
act). `UpdatesLoseOnlyInFlight`, `BatchesTellTheTruth`, `ListingsMissNothing`
and `SnapshotsAreComplete` prove the four invariants of the run, for every world
and its edits. The invariant has a part per client. An update that is on its way
is about the revision its caller expects or one written since it was sent
(`SentIsCurrent`). A batch knows everything it has created, an atomic one has
skipped nothing and its snapshot of the world contains nothing that it creates
(`BatchPart`), which is what restoring it undoes, also for an item that is there
although its creation failed. In a listing what stayed was
listed once if the cursor has passed it and not at all otherwise
(`PassedListedOnce`); the lemma this rests on (`PageIsFirst`) says that a page is
the entries after the cursor with fewer than `PageSize` before them. In a
snapshot each field of an expanded document has each of its references settled,
pending as a task, or waits in the task that walks the fields
(`NothingForgotten`), and that task's limits, which leave a reason, or the shared
budget of raw data, which does not, are the only ways to leave one out.

*Assets* (`AssetsProofs`, about `ListingSpec`). `RollbacksAreRight`,
`NothingIsReplacedUnseen`, `AssetsInvHolds` and `ImagesListedOnce` prove the
four invariants of the run, for any number of calls, paths, documents and
folders. Of a call the invariant says where it may be and what it then knows
(`StageFits`, `Addressed`): that its snapshot is older than its own store
(`SnapshotIsOlder`), so that restoring it takes that store away; that the path
was free when it looked, and what is there now is younger, until its rollback
deletes it (`FreeWhenLooked`); that whoever began to use the path since the
rollback began to look is still to be looked at (`UsersAreLookedAt`), so that none is left when it deletes. Of the
listing it says that there is a set of folders already browsed (`Visited`) such
that what is below them has been browsed, is queued or is too deep, and that
images of browsed folders that stayed are found; when the queue is empty that
set is every folder in reach, by `Depth` along the tree (`TreeAssumption`). The
proof was attempted first without `OthersRestore`, and TLC showed for three
callers why it is needed: a rollback that restores its snapshot can bring back a
file that another's rollback has deleted.

*Sessions* (`SessionsProofs`, about the `Spec` of `SessionReaders`).
`SessionsAreConsistent`, `AnsweredSessionsAreWhole`, `AcknowledgedStatusStands`
and `SteadyEntriesReadOnce` prove the four invariants of the run, for any calls,
keys, failures and reloads, page size and number of cursors. The invariant says
of the journals and pages by themselves (`World`) that keys tell sessions apart
and that the overview a journal points to is its own; of a running call where it
may be (`StageFits`), and that what it has in hand of its session is older but as
good (`SessionInHand`): the overview it saw is still the overview, the keys of
end and reopen are the same because nobody else of that session holds the lock,
and so is the status as long as nothing overlapped. That nothing is made twice
(`NothingMadeTwice`) needs the locks (`Locked`): a call that is about to create a
journal, an overview or a page has seen that there is none and holds the lock of
whoever else could create it. The fields a write has on its way point to the
overview or to nothing and do not change the status unless that is the call's
purpose (`FieldsInHand`), which is why a retried append cannot undo an end. What
end and reopen have done is in the flags of the journal (`Remembers`). Of a
reader: what stayed in its place was listed once if its cursor has passed it, not
at all otherwise (`SteadyRead`), where the cursor is the last entry of a page and
a page is the first of the remaining entries (lemma `PageIsFirst`); a cursor that
was forgotten is never taken for another, because numbers are issued once
(`ReaderTypes`).

Assumptions: those the modules declare, which TLC also evaluates
(`SeqsAssumption`, `WindowAssumption`, `QueriesAssumption`, `StreamAssumption`, `RequestsAssumption`,
`IdentityAssumption`, `SourcesAssumption`, `ContainmentAssumption`,
`BoundsAssumption`, `RouterAssumption`, `BridgeAssumption`, `PipeAssumption`,
`LifecycleAssumption`, `DocsAssumption`, `WorkAssumption`, `SnapshotAssumption`,
`PackAssumption`, `PathsAssumption`, `FoldersAssumption`, `TreeAssumption`, `SessionsAssumption`,
`ScenariosAssumption`, `ReadersAssumption`). They say what the
constants are, that worlds, folders and pages are finite, and that containment
of documents and of folders has no cycle, as in Foundry and in a file system;
of `Objects` (the sessions and documents of a pack) that their ids are distinct
and not those of events.

Every invariant and every action property that a passing run checks is proved.
Only model-checked: liveness under fairness (`EventuallyRecorded`,
`EveryCallSettled`, `EventuallyConnected`, `PassesComplete`, `EveryCallEnds`,
`EveryPageSwept`, `StartAndShutdownEnd`), which this prover does not treat, nor
`ENABLED`; and what recursive functions such as the reconciler's listing order
compute for every input, since induction over data cannot be instantiated. No module declares a `RECURSIVE` operator.

## 5. What the checks found

Two disagreements of the code with its documentation are runs of their own,
listed under `findings`:

- Two tabs of one user can both run one mutation (`requests_two_tabs`): pending
  requests are resent to whichever socket activates, and the guard is looked up
  in that tab's memory only.
- The reconciler prunes live snapshots when the task limit is reached at an
  embedded page (`reconcile_task_limit`).

The modules keep the following stronger properties, which no passing run
checks because TLC refutes them; each comes with the reason in its comment.

| property (module) | refuted because |
| --- | --- |
| `EventuallyAcknowledged` (`EventStream`) | a publish refused by a full window has consumed an id that is sent only after the next reconnect (`companion-client.ts:456`); later acknowledgements wait for it |
| `FreshNumbersOnceResumed` (`EventStream`) | storage lost while the host has a hole: the event that fills it also acknowledges the receipts beyond it |
| `UntruncatedPackIsComplete` (`ContextPack`) | a changed-since pack drops the cursor of its page, a search pack the hits beyond its limit |
| `OfflineDidNotRun` (`Bridge`) | `OFFLINE_BRIDGE` is called retryable, also for a mutation that was under way when the pipe broke |
| `ShutdownAlwaysEnds` (`HostLifecycle`) | the Unix server's close waits for the adapters to leave (`pipe-server.ts:261`) |
| `FailedStartServesNobody` (`HostLifecycle`) | `startDaemon` throws with the companion server up (`daemon.ts:138`) |
| `NothingOverwrittenUnseen` (`Documents`) | the hash is compared in the browser, the write happens on the server |
| `FailedItemsAreNotThere` (`Documents`) | Foundry may create an item and its call reject all the same; a batch that is not atomic then lists an error for a document that exists (`documents.ts:708`) |
| `UsedUpIsTold` (`DocumentSnapshots`) | the error of a used up budget of raw data is caught where the reference was found, without a truncation reason (`documents.ts:1462`) |
| `ItemLimit` (`DocumentSnapshots`) | the references of an array count concurrently and pass `maxItems` together |
| `StatusAlwaysStands` (`Sessions`) | a retried `start` holds the lock of its key, `end` that of the session; the retry writes the status it read |
| `DeletesOnlyItsOwn` (`Assets`) | a rollback asks only whether there is a file at its path (`assets.ts:585`): if the call's own store wrote nothing, it deletes what another user has stored there since, unless a document refers to that already |
| `NoBrokenReference` (`Assets`) | a reference added after the rollback looked at a document, or to a file that a restored snapshot removes |

Some listed properties hold under a condition that is part of their text:

| condition | without it |
| --- | --- |
| `StorageKept` of the event stream | after a loss, events published before `events.resume` reuse ids the host has acknowledged and are pruned unsent |
| one tab, no refused write, in `NotLockedOut` and `EventuallyConnected` | a tab loaded before the enrollment writes its state over the shared storage; a refused write leaves the credential in memory, the reconnect confirms it from there, and a reload forgets it |
| no kill, in `IndexInv` and `PrunesOnlyDeleted` | a kill while `#newRun` commits its tasks one by one leaves a run that lacks some, is resumed as if whole, completes without a gap and prunes what it did not visit |
| `Orphaned` in `PassesComplete` | a document deleted between its snapshot and the listing of its children fails every later invocation at the same task |
| room for the children of every page (`RoomForChildren`), in the theorems on `IndexInv` and `PrunesOnlyDeleted` | the second finding above |
| the prefixes are folders (`PrefixesAreFolders`), in `AssetsInv` | a configured prefix that names a file makes its siblings listed as writable, since the capability is asked once per folder |
| no other rollback restored (`OthersRestore`), in `RollbackIsRight` and `NothingReplacedUnseen` | a rollback that restores its snapshot of the files brings back what another's has deleted, also after a caller found the path free |
| adapters gone, in `StartAndShutdownEnd` | see `ShutdownAlwaysEnds` |
| no overlap of start with end, in `StatusStands` | see `StatusAlwaysStands` |

Further observations made while modelling, without a property: `#guard` and
`markCommitted` in the batch of `documents.create` are for callers with options,
of which production has none, so that `Documents` leaves them out (with them, an
atomic batch that is cancelled between two items stays half done); in production
the runtime of documents has neither `snapshotState` nor `restoreState` and that
of assets neither delete nor restore, so atomic batches and upload-and-attach are
always refused there, and
`Documents` and `Assets` model the services for adapters that have them; a
revocation after the decision does not stop a mutation that waits for its
image; an append whose key is the start's returns the overview page, or makes a
page of its own if the start was cut off before its overview, which is why
`PagesOnce` compares pages of one kind; the keys of end and reopen count per
session, so that a key may be used for two sessions; a write
capability is asked once per folder, also when the configured prefix names a
file.

## 6. Not modelled, and why

- Event hooks and module entry: adapters to Foundry's API without state of
  their own; a hook is a publish of `EventStream`.
- Image sources (`host/src/assets`, `host/src/providers`): file and network I/O
  with validation; to `Router` a source that is ready or fails.
- Secrets and pairing storage: the operating system's key storage.
- MCP adapter surface: declarations of tools, resources and prompts.
- Command line: one-shot processes; `status.json`, which they read, is in
  `HostLifecycle`.
- Protocol schemas: the models only send frames the schemas accept.
- The Windows broker's own program (PowerShell); the host's side is modelled.
- Payload contents, redaction, hashes, wording, counters and logs: no property
  is about them. `request.progress` frames on the companion's socket (those on the
  pipe are in `Bridge`), and the `CONFLICT` answers to an id
  reused for another operation: the host numbers its requests itself. Wrong
  secrets, malformed frames and the rate limit: they close the socket, which
  the models include as a dropped one.
- In the documents, `types`, `compendiums.list` and the redaction of fields; in
  the assets, reading an image and the search of references by itself; in the
  queries, the word, session and world filters and `summarization.ts`, which no
  request reaches. In the reconciler, the readable types and compendiums are
  constant.
- In the assets, a server that stores under another path than the one it was
  asked for, and looks that fail before anything is stored (they change nothing);
  compendia, which the rollback does not search either. In the bridge, an answer
  that does not fit the schema of its tool. In the lifecycle, a `status.json`
  left by an earlier process.

## 7. What would come next

Every component with state of its own has a module, a run and theorems. What
would add most: the request's whole way as one system, with the two callers of
`Mutation` composed (a router that asks a companion which is only known to be a
`Mutation`), and the frames of `request.progress` on the companion's socket,
which are left out today.
