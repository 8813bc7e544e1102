# Bear Harness: TLA+ models of the Host runtime

Bear Harness is a desktop application in which a user talks to characters. A
character can delegate a task to an *external agent* (Codex, Claude Code, a Pi
worker …). The Host process starts that agent as a worker process, follows it,
lets the user control it, captures its output and delivers the result back into
the conversation. The core logic of the program is in
`packages/host-runtime/src`; this directory models that part of it.

All paths below are relative to `src/packages/host-runtime/src` unless they begin
with `docs/` or `apps/`.

## 1. Inventory

The Host is one Node process with one JavaScript thread. Everything that can
interleave does so at an `await`: promises of worker processes, of the file
system and of model lookups, timers, `setImmediate`, and the serial queues
(`PQueue` with concurrency 1) that several components put their database writes
through. Durable state is SQLite and files; the rest is lost with the process.

| component | state it keeps | operations | modelled |
|---|---|---|---|
| **Run service** `external-agents/run-service.ts` | tables `runs`, `conversations`; run directories; in memory `launches`, `captures`, `reconciliationTasks`, `admissions`, `controls`, `deletingConversations`, `closed`, the serial queue | `delegate`, `control` (interrupt, resume, steer, respond, cancel), `retryDelivery`, executor events, `prepareConversationDeletion`, `close`, `recoverUnfinishedRuns`, `reconcilePending` | `RunService` |
| **ACP executor** `executors/acp-executor.ts`, `acp-client.ts`, `acp-recovery.ts` | `activeRuns` (client, session, pending permissions, release promise), `acp-connection.json` of each Run, the worker process | `launch`, `restore`, `cancel`, `stop`, `suspend`, `interruptRun`, `resumeRun`, `respond`, `recover`, `runtime`, `settle` | `AcpExecutor` |
| **Character runtime registry** `character-runtime-registry.ts` | one entry per character: opening, resource, users, blocked, closing, removals, drained | `use`, `visitOpen`, `close`, `deleteRuntime`, `replaceIdle`, `shutdown` | `CharacterRegistry` |
| **Result delivery and sessions** `companion/pi-runtime.ts`, `character-runtime.ts`, `companion/session-catalog.ts` | open Pi sessions, one sequence of turns each, `externalDeliveries`, `closing`, `deleting`, session files | `deliverExternalResult`, `send`, Stop, close, delete; also navigate, edit, continue, fork … | `ResultDelivery`, partly: the operations after "also" take a turn in the same sequence and are left out |
| **Durable file transaction** `storage/durable-file-transaction.ts` | marker, staged and backup copies beside one target | `replaceDurableFile`, `recoverDurableFileTransaction` | `DurableFile` |
| **Storage and bootstrap recovery** `storage/*`, `apps/desktop/src/main/index.ts` | schema, data directories, repair directories, pending resets | open, check, repair, reset | `BootstrapRecovery`, partly: `settings.db` and the product directories |
| **Local and shared embedding** `memory/*embedding*` | the one provider of the installation, its calls, opening and reset; model directories | `get`, calls, `reset`, `close`; acquire a model | `SharedEmbedding`, partly: without the acquisition |
| **Memory** `memory/tencentdb-runtime.ts` over `packages/tdai-core` | an instance per character, its store, its vectors; the cache of stores | start, recall, search, capture, close, `resetMemory` | `MemoryRuntime`, partly: without the extraction pipeline |
| **Characters, drafts and canon** `canon/*`, `companion/*` | packages; chunks and vectors of the Canon | `addSource`, `removeSource`, `indexPending`, `retrieveHybrid`, close; parsing, validation | `CanonIndex`, partly: the vector index |
| Host runtime, composition `runtime.ts`, `composition.ts` | what is started | start, close, wiring | partly: restarts, change of the embedding settings, the order of the shutdown |
| Router, profiles, adapters `executors/*` | none besides the processes | choose a controller, build a process specification | no: stateless |
| Artifacts `artifacts/*` | content-addressed files | capture, present | only that a capture runs, ends or is aborted |
| Models, providers, credentials, network, file operations, diagnostics | catalogues, logs | look up, request, observe | no: sequential transformations and I/O |
| Desktop `apps/desktop/src` | windows, updates | Electron main process | only the recovery loop of its start |
| UI, protocol, schema, i18n | – | rendering, wire formats | no |

**How they interact.** `delegate()` is called from a tool call of the
conversation's model. It inserts a row and schedules a launch. The launch asks
the router for a controller, which spawns a worker and calls back with events
(`started`, `needs_user`, `completed`, …); each callback adds a closure to the
service's serial queue, which writes the row. The user's controls read the
projection of a row, call the executor, wait for the worker, and add a second
closure that writes what the executor confirmed. A settled row starts a delivery
attempt into the Pi session; its acknowledgement sets `reported`. Deleting a
conversation and closing the Host go across all of this: they stop admission,
abort captures and deliveries, stop or suspend workers, wait for launches,
controls and the queue, and then settle rows and remove files. After a restart
the service walks over the unfinished rows and lets the executor re-attach the
ones whose worker was provably released.

Each character's runtime (database, session, Run service) is opened by the first
operation that needs it and shared by those that follow; the character runtime
registry counts them. Closing, deleting and shutting down block the entry, stop
the resource, wait for the operations to leave, dispose of it, and then change the
files; a package edit does so only when the runtime is idle.

A character's memory and its Canon borrow the one embedding provider of the
installation. A change of the embedding settings saves them, closes the memories
that are open, resets the provider and asks every Canon for a new pass; the
shutdown closes the memories, then the provider. Before any of this the desktop's
main process finishes what a reset or a repair left over, checks `settings.db`, and
lets the user repair or reset when the check fails. Character packages and the
application's own files are replaced by the durable file transaction.

**What is hard.** Nearly every operation awaits in the middle and goes on with
what it knew before; four activities (a launch, a control, a deletion, a close)
may be after the same worker at once; the worker exits or asks for permission
whenever it likes; a release may fail and leave a process of unknown state; a
crash may fall between any two of the durable writes. `PROJECT.json` lists these
as hazards at their lines, each with the property that would catch it.

**What makes each component correct.**
* Run service: a tool call has one Run; at most two Runs hold resources; the
  first terminal status stays; the row tells what the worker does; no outcome is
  lost; a deleted conversation is quiet; close and deletion return.
* Executor: a second worker is never started beside the first; a Run reported as
  completed or cancelled has no process; files outlive the processes using them.
* Registry: at most one runtime per character is open, and none while it is
  replaced or removed.
* Durable file transaction: after any crash the target has the old or the new
  content, and recovery decides for one or leaves both to a person.
* Result delivery: a result reaches its transcript at most once per Run and is
  not acknowledged unless it did; close and deletion have the session to themselves.
* Bootstrap recovery: no database is lost, none gets a foreign write-ahead log, and
  the Host never opens on half a reset.
* Embedding, memory, Canon: one provider, closed only after its calls; one handle on a
  memory's store; an index has the vectors of one configuration and a search
  compares within it; everything ends when the Host closes.

## 2. Modules

| module | models |
|---|---|
| `RunState` | constants, variables, statuses, the rows of the table, the executor's entries, the queue |
| `AcpExecutor` | the executor's own actions, as the Run service sees them: spawn, start, turn, permission, exit, release |
| `RunService` | the service's actions, composed with those of the executor; `Init`, `Next`, `Spec`, `FairSpec`; all properties |
| `CharacterRegistry`, refining `ExclusiveResource` | the registry for one character: `use`, construction, removal, replacement, disposal; an exclusive resource with a fence |
| `DurableFile`, refining `AtomicReplace` | the replacement of one target and its recovery, one file operation a step; a value that changes at one instant |
| `ResultDelivery`, refining `DeliverOnce` | one conversation: attempts, the session's sequence, the native session, Stop, close, delete; a result that is delivered and reported once |
| `BootstrapRecovery` | the start over `settings.db`: resets, repairs, the check, the user's choice, one rename or commit a step |
| `SharedEmbedding` | the embedding provider and those who get, call and reset it |
| `MemoryRuntime` | `SharedEmbedding` composed with the memories, the settings and the shutdown |
| `CanonIndex` | `SharedEmbedding` composed with the Canon's passes and retrievals and the settings |
| `MC…` | instances of these for TLC |
| `RunServiceInvariants` | the inductive invariants of the Run service, and the steps its proofs tell apart |
| `…Proofs` | theorems checked by TLAPS (section 4) |

The groups are separate specifications; they meet where one component calls
another:

* Stopping a character's resource closes its Run service: in `CharacterRegistry`
  that is `StopSucceeds` or `StopFails`, in `RunService` it is `close()`. What the registry
  sees of the Runs is the one bit `unfinished`, which any operation may change.
* A settled Run's delivery attempt ends in success or failure in `RunService`;
  `ResultDelivery` is what happens behind it, with the part of the service that
  drives the attempts (`reconcileRun`) repeated in full.
* `MemoryRuntime` and `CanonIndex` extend `SharedEmbedding` and are each its only user.
  What the other would do to the provider is what another memory or retrieval does.

### State of the Run service

| variable | code |
|---|---|
| `row[r]` | a row of `runs`: status, tool call, `permission` (the request it shows), `completed` (`completedAt` is set), `reported`; `"deleted"` when the row was removed |
| `convs` | rows of `conversations` |
| `dirs` | the Runs whose directory exists |
| `record[r]` | `acp-connection.json`: none, held by a worker, released |
| `native[r]` | what really runs: `live`; `exited` (the process ended, its tools are not known to); `disconnected` (a release that could not end the process after it had dropped the session); `released` |
| `exec[r]` | the entry in `activeRuns` (and, in phase `preparing`, the launch before it is there). `why` names the continuation that awaits a pending release, `start` the result of the opening promise |
| `launch[r]`, `capture[r]`, `recon[r]` | `launches`, `captures`, `reconciliationTasks` |
| `events` | closures in the serial queue whose order matters |
| `admission[d]`, `ctl[c]` | invocations in flight of `delegate()` and of a control |
| `closing`, `deletion[c]`, `recovering` | program counter and local variables of `close()`, of a deletion and of the recovery |

### State of the registry

Entries of different characters share nothing but `shuttingDown`, so the model has one
character.

| variable | code |
|---|---|
| `entries[e]` | an `Entry` object. `opening` is the state of the opening promise (`cold`: none), `resource` that of the resource it holds, `stopped` whether its `stop()` has succeeded, `closing` the operation whose `remove()` made the closing promise, `undrained` that a removal waits for the `drained` callback, `removals` the callbacks left there by deletions |
| `current`, `made` | the entry in the map, and how many were ever made: operations keep references to entries that left the map |
| `use[u]`, `op[o]` | invocations in flight of `use()` and of the other operations, with their entry; `op[o].removed` counts how often the `removeFiles()` of a deletion has succeeded |
| `unfinished` | whether the character's database has a Run that holds resources, which `verifyDelete()`, `verify()` and `removeFiles()` look at |
| `changes` | removals of the directory and replacements of the package so far |

### State of the other modules

*`DurableFile`.* `target`, `staging` and `backup` are what lies at the three paths,
`Torn` a tree that is half written or half removed; `marker` is the state in the marker
file; `job` and `at` are the replacement or recovery at work and its next file
operation; `before` and `offer` are for the properties. Each step is one operation and
the fsync after it. `Interrupt` cuts a job off, by a crash or an exception: the code
leaves the files alone in both cases. `verify` of a good copy may fail, of a bad one
cannot succeed.

*`ResultDelivery`.* On disk `file`, `member`, `copies[r]` (how often the result of a Run was
appended) and `reported[r]`; of the session library `session`, `turn`, `starter` (the
Run whose message began the turn and is not in the transcript yet) and `followUps`; of the
Host `op[r]` (`externalDeliveries`), `call`, `attempt`, `sequence` with its head's `phase`, and
the fences `closing`, `deleting` and `fenced`. The Pi SDK is not in the repository: its
turn, its queue of follow-ups, Stop and `sendCustomMessage` are modelled from the code
that calls it and from its comments, and these definitions are marked external. A
turn may stream for ever, fail, be stopped, and lose what is queued.

*`BootstrapRecovery`.* `db` and `wal` are `settings.db` and the database its log belongs
to; a database has an identity, a form (empty, schema, final), readable rows or not,
and what the integrity check says of it. `repair[i]` is a repair directory with its name
(`repair`, `corrupt`, `moved`), the new database and the original; `home[d]` tells in which
epoch a product directory was made, `reset[t]` and `epoch` the resets. `phase`, `at`,
`current`, `todo` are where the start is. The process may die before any rename or
commit (`Crash`), and any of them may throw (`Throws`).

*`SharedEmbedding`.* `providers[p]` is a provider ever made with its configuration, warm-up
and life; `service`, `opening`, `resetting`, `disposed` are the fields of
`SharedEmbeddingRuntime`; `get`, `calls`, `reset` the invocations under way.

*`MemoryRuntime`.* `runtime[c]` is the instance a character uses, `memory[m]` its start and
close, `store[m]` the initialisation it ran and `cache[c]` the one its directory has in the
cache of the memory core; `index[c]` tells of which configuration the vectors are, and
which uses have not written theirs. `op` and `visit` are changes of the settings
and of a character's memory switch, `host` the shutdown.

*`CanonIndex`.* `chunk`, `vector`, `meta` are the tables; `queue` and `pass` the passes, one after
the other; `retrieval` the hybrid retrievals; `op` changes of the settings; `life` the service.

### Grain

One action is what the code does between two awaits on something outside of the
process. Some conventions follow from the single thread:

* A closure whose place in the serial queue matters (an executor event, the second
  closure of a control) is an entry of `events`. Any other closure runs, in one
  step, when the queue is idle (`QueueIdle`): since the enqueued closures are
  synchronous this is exactly "after those added before me".
* Code that awaits a *release* continues in the microtasks that follow it, so the
  executor cannot start another release of the same Run in between
  (`ReleaseObserved`).
* A control reads and acts in one synchronous block, therefore `Controllable` and
  the call of the executor are one action.
* In the registry, promises that settle wake those who await them in the order in
  which they began to wait. `RemovalOpened` and `RemovalClosed` say so in their
  guards: whoever awaited the opening or the disposal before the removal goes on
  before it. An entry's loop over the removals is one step per callback, because it
  awaits each of them; what joins meanwhile is still in the loop.
* What `get()` of the provider returned is put to use before a reset that began
  meanwhile has closed a provider: `ResetClears` says so in its guard (`Returned`).
* A second `close()` of a resource joins the disposal under way, and `verifyDelete()`
  throws once the database is closed: both are what `CharacterRuntime` and the storage
  do.

`visitOpen()` is `use()` of an entry that is there. `steer` changes neither a row nor
the executor's state and is left out, as are the evidence table, receipts, artifacts'
content, wording and logging.

### Bounds

`MaxRuns`, `MaxPermissions` (requests of one worker), `MaxRestarts`,
`MaxReleaseFailures` bound what could go on for ever; they are guards of the
actions. `MaxConcurrentRuns` is the constant `MAX_CONCURRENT_RUNS` of the code
(2), set to 1 where the limit itself is in question so that two calls compete.
`Deletable` and `MayClose` switch off what a run is not about (in `controls` nothing is
deletable, so every Run is `Kept`). Two calls of one
conversation, two invocations, two controls, one failure and two crashes let every
pair of activities meet; the hazards listed need no more actors.

In the registry `Uses`, `Ops` and `Kinds` say who calls what. Two users and three
operations of any kind let a removal, one that joins it and a replacement meet two
users; `MaxEntries` lets the entry be made again; `MaxFailures` is one
failure of any construction, stop, disposal, replacement or removal.

`DurableFile`: two valid contents and an invalid one, so that old and new can be told
apart and an invalid offer or original occurs; `MaxFaults` = 4 reaches a cut-off in
the recovery of a recovery with an accidental verdict beside it. The proofs need no bound.

`ResultDelivery`: two Runs let a result queue behind the turn another one started, two
calls let a retry meet the call that timed out; one failing step and one restart.

`BootstrapRecovery`: `Repairs` and `Resets` are names, each used once; three of each let a
repair and a reset be cut off, be chosen again and be refused; one damage, one
crash, one exception.

`MemoryRuntime` and `CanonIndex`: `MaxProviders` exceeds changes and failures, so it never
stops a step; two memories of one character let one be closed while the next starts; two
requests (or one and the shutdown) reset the provider at the same time; one use. The
Canon has two chunks for safety, which one pass embeds one after the other, and one
for liveness. Setting embeddings off (`Off`) is in the liveness runs, where it adds
what may wait.

`CHECK_DEADLOCK FALSE` is stated where the system may come to rest: when the Host is
closed, or no user and no worker does anything. `delivery` and `bootstrap` cannot, and check
for deadlock.

## 3. Properties and runs

All passing runs are complete explorations. `PROJECT.json` holds for each property a
plausible fault in the code that violates it in that run.

| run | instance | shows |
|---|---|---|
| `controls` | 1 Run, 2 controls, 1 permission, close, 1 failing release, 2 crashes | `StoppedBeforeSettled`, `RowMatchesWorker`, `FinishedWorkerSettles`, `TerminalIsFinal`: late events, controls and outcomes agree with each other; `UnfinishedKeepsDirectory`, `NoSecondWorker`, `PreservedComeBack`: so they do across close(), a failed close() and recovery; `EndingReturns`: close() and controls return |
| `deletion` | 2 calls, 2 invocations, 1 slot, 1 control, deletion, 1 crash | `OneRunPerCall`: the second lookup is in the closure that inserts, after the await; `DeletedIsQuiet`: neither an admission nor an outcome slips past the deletion |
| `live` | 2 calls, 2 concurrent Runs, a deletion | `DeletionReturns`: captures, admissions, launches and deliveries of two Runs settle, and a deletion that cannot stop one of them awaits the launches it has cancelled and reopens the conversation |
| `registry_live` | 2 users, 3 operations of any kind, kept apart, 1 failure | `OwnerKept`, `WorkKeepsResource`: one runtime, never closed under an operation; `DeletionHonoured`, `ShutdownIsComplete`: what a resolved promise means; `ImplementsExclusiveResource`; `OperationsReturn` |
| `registry_race` | 1 user, a deletion and a replacement | a violation of `RemovalIsFenced` (section 5) |
| `durable` | 2 valid contents, 1 invalid, 4 faults | `NothingLost`, `ImplementsAtomicReplace`: the target changes at one instant or not at all; `TransactionEnds`: recovery ends, or leaves a layout to a person |
| `delivery` | 2 Runs, 2 calls, 1 failure, 1 restart; user, Stop, close, delete | `OwnershipLasts`, `NoDeadDelivery`: a retry joins what may still arrive and nothing else; `HeadIsAlone`; `ImplementsDeliverOnce`; `CallsReturn` |
| `bootstrap` | 3 repairs, 3 resets, 1 damage, 1 crash, 1 exception | `LogBesideItsDatabase`, `OriginalsKept`, `ResetTakesAll`; `Recovers`: the user comes out of the recovery screen |
| `memory` | 1 character, 2 instances, 1 use, 2 requests, the shutdown, 1 failure | `TypeOK`, `CallsEndFirst`, `OneProvider`, `OneHandle`, `StartedIsIndexed`, `AllReleased` |
| `memory_live` | 1 request, embeddings off and on, 1 restart | `AllReturn`: uses, requests and shutdown return |
| `canon` | 1 retrieval, 1 change, 2 chunks, 1 failure | `OneVectorSpace`, `SearchFindsAll`, `ClosedIsQuiet` |
| `canon_live` | 1 chunk, embeddings off and on | `AllReturn`: retrievals, changes and the close return |

`registry_live` checks `FairApartSpec`: the callers never delete a character while its
package is being replaced (`Apart`). Without that assumption files are removed without
a fence, which is the finding of `registry_race`. The four invariants are proved
without it. `ExclusiveResource` maps `held` to the entries whose resource is not closed,
`working` to the operations that run, and `fenced` to the block on the entry in the map.
`AtomicReplace` maps `value` to the target, or to what it held before while a marker
exists, and `pending` to the offer; `DeliverOnce` maps an entry to what `copies` and
`reported` say of it.

The type invariants of `RunService`, `CharacterRegistry`, `DurableFile`, `ResultDelivery` and
`BootstrapRecovery` are proved instead of run, as are `CapacityRespected`, `OldOrNewRemains`,
`RecoveryKeepsACopy` and `StalledLosesNothing`.

### Fairness

`FairSpec` assumes, with weak fairness, what the Host and the operating system
keep doing: the queue drains, a model lookup ends, a scheduled launch runs, and
preparing, starting and releasing a worker end in success or failure, as do a
capture and a delivery attempt (the code puts timeouts on each of them); the
awaits of controls, close, deletion and recovery continue. It does not assume that
a user does anything, that the Host crashes, that a worker's turn ends, that it
confirms an interrupt, or that it exits. A release ends, but may end in failure:
`controls` checks `EndingReturns` with one that fails and with
crashes, which end the operation too. Liveness properties are checked without
symmetry.

The registry's `Fairness` assumes that constructions and disposals end, that an
operation and a removal go on when what they await has settled, and that an
operation ends once `stop()` of its resource has succeeded, because stopping aborts
the turns and Runs that operations wait for (`ReleasedUseEnds`). An operation whose
resource is not stopped may run for ever. `registry_live` has a failure: a failed stop
must not leave the caller, or who joined it, waiting for operations that nobody
aborts.

`DurableFile` assumes that a job that is not cut off goes on (`JobStep`) and that somebody
starts the recovery of a marker (`Recover`): the next start does. `ResultDelivery`
assumes that the head of the sequence goes on when what it awaits is there, that an
entry in the transcript is recorded, and that a call's timer fires; nothing is assumed
of the native turn, of retries or of the user. `BootstrapRecovery` assumes the steps of
resets, repairs and the start, and strongly that the user on the recovery screen
chooses again: a crash or a throw sends him back there, and faults are bounded.
`MemoryRuntime` and `CanonIndex` assume that a provider closes, that `get`, `reset`, a
start, a close, a pass, a retrieval and the shutdown go on when their await has
settled, and that the embedding calls under way end (remote calls have a time limit);
nothing is assumed of who uses them or changes the settings.

## 4. Proofs

Checked by TLAPS for every value of the constants that satisfies the assumptions their
module names (bounds are naturals, names do not coincide with each other). Each
specification's invariant was checked by TLC before it was proved.

`RunServiceProofs`, from `RunStateAssumption` (every call has a conversation, `None` is none
of the other values). The invariants named below are in `RunServiceInvariants`, a module
without theorems. `...Leaves` are the frame of each group of actions, which most cases of
the proofs need and nothing else.

* `TypeCorrect == Spec => []TypeOK`. `TypeOK` is inductive by itself; it fixes the
  phases an activity may be in and that a control is idle exactly when it has no
  Run, which is what makes `exec[ctl[c].run]` meaningful in the actions of a
  control. There is one lemma per group of actions.

The table (`RunServiceProofs`):

* `TerminalStays == Spec => TerminalIsFinal`
* `CallsHaveOneRun == Spec => []OneRunPerCall`
* `CapacityHolds == Spec => []CapacityRespected`
* `RowsWellKept == Spec => [](TypeOK /\ RowInvariant)`, on which they rest.

None of the three properties is inductive. A deletion deletes all rows of its
conversation at the end, and settles Runs from a list it made several awaits
earlier; the recovery settles a Run from a list of its own. That no such step
touches a row that does not exist, or deletes one that is not settled, needs to
know that these lists still tell the truth. `RowInvariant` says so:
`WellFormed` (`completedAt` is set exactly for settled and deleted rows),
`DeletionKnows(c)` (the conversation is closed to admission; inside the loop every
unfinished Run is still on the list, and only Runs of the conversation are; behind
the loop every Run is settled) and `RecoveryKnows`. TLC checked `RowInvariant` on the
instances of `controls` and `deletion` and on one with two conversations.

The argument has three layers. `Moves(x, y)` says what may happen to a row short of
insertion and deletion; the lemmas `...Moves` show it for the helpers
(`Terminate`, `RecordStopped`, `SetRow`). `MovesKeep` and its corollaries show that
the invariant survives whenever rows only move. Then there is one lemma per
group of actions (`...Keeps`); only admission, deletion and restart need an
argument of their own. `TableStep` sums up what one step does to the table, and
the theorems follow from it.

The workers (`RunServiceProofs`):

* `SettledAfterStop == Spec => []StoppedBeforeSettled`
* `OneWorkerPerRun == Spec => NoSecondWorker`
* `DirectoriesStay == Spec => []UnfinishedKeepsDirectory`
* `WorkersWellKept == Spec => [](TypeOK /\ RowInvariant /\ WorkerInvariant)`, on which they rest.

A worker outlives the Host and the executor's entry of it does not, so an absent entry
alone says nothing of the worker. `StartKnown(r)` says when it does: a launch that waits,
or an entry that prepares, has no worker, a launch that was skipped left none, and a
record says `released` only when there is none; that is all `OneWorkerPerRun` needs.
`DirectoryKnown(r)` is `UnfinishedKeepsDirectory` with the entry that is about to spawn.

`StoppedBeforeSettled` is about what is still on its way: an event in the queue, a capture,
a control or a deletion that waits for a release will write the row several steps later.
`Ended(r)` is the state that a Run does not leave before the next start of the Host: no
launch waits, the recovery will not turn to it, and nothing prepares. `Gone(r)` is `Ended(r)`
without an entry, and therefore without a worker; `Marked(r)` a waiting launch that will be
skipped. The five parts of `StopKnown` say which of these each activity relies on: a settled
row, a capture, a captured Run of a deletion and an outcome or cancellation in the queue on
`Gone`; a control that waits for the worker on `Ended`; one that joined a launch on `Gone`
or `Marked`; the Run a deletion waits for on `Ended` or `Marked`.

Most actions leave the worker of every Run alone or change it only within its entry
(`WorkerStays`, lemmas `...KeepsWorkers`); then `StartKnown` stays and `Ended`, `Gone` and
`Marked` last (`Lasts`). Admission, launches, spawns, releases and restores (`Touches`) have
a lemma each. With that, `StepKeepsWorkers` covers every step but a restart, and one lemma
per part of `StopKnown` (`RowsStay`, `CapturesStay`, `QueueStays`, `ControlsStay`,
`StoppingsStay`) looks only at what an action adds to it. TLC checked `WorkerInvariant` on an
instance like that of `controls`.

The ends of Runs (`RunServiceProofs`, second half):

* `PreservedReturn == Spec => PreservedComeBack`
* `FinishedSettle == Spec => []FinishedWorkerSettles`
* `RowsFollowWorkers == Spec => []RowMatchesWorker`
* `EntriesWellKept == Spec => [](TypeOK /\ RowInvariant /\ WorkerInvariant /\ EntryInvariant)` and
  `RunsWellKept`, which adds `KeptInvariant`, on which they rest.

`EntryKnown(r)` relates the fields of an entry to its phase, its launch and its worker: whose
result is still to be taken, what a release is for, who may have asked. `PreservedKnown`
says of a close() that awaits the suspensions that each Run it will preserve is released,
or is being released for `suspend` and nothing else; who stops such a worker joins the
release (`ReleaseIsJoined`), so that nobody changes what it is for (`OnlyReleasesEnd`). From
there `PreservedComeBack` is one step.

The other two properties are about the serial queue, and only about Runs of a
conversation that is not deleted (`Kept`): a deletion that is refused leaves Runs whose
events it dropped (section 5). While the service is open, `KeptKnown(r)` says that whoever
takes the worker of `r` away has left something behind that settles the row: a capture, a
control that waits, or a closure in the queue; and that a launch is marked cancelled only
by a control that goes on to settle it, which is why no event that `admit()` drops is
missed. `FinishedWorkerSettles` is a special case of it.

`RowMatchesWorker` needs more than the presence of a closure, because the row passes
through several states before the queue is empty. `After(e, x)` is the row that the
closure `e` makes of `x`, as a function; `RowAfter` shows that `RunNextEvent` computes it.
`Replay(es, r, x, y)` says that the closures of `r` among `es` take `x` to `y`. It is stated
with a function on `0..Len(es)`, not by recursion, so that `ReplayAppend`, `ReplayTail` and
`ReplayNone` can be proved of it. The invariant `RowFollows(r)` is then short: the queue
leads the row to one that tells what the worker does now (`Tells`). An action of the
executor changes the worker and appends one closure, a step of the queue moves the front:
both keep it, in whatever order they interleave. With nothing of `r` on its way, the row
itself is the one (`FollowsMatches`). `Own(s)` lists the steps that are about `s`;
everything else leaves it `Undisturbed(s)` (`OwnOrUndisturbed`), a case each invariant
treats once.

Two facts about the properties came out that the runs of section 3 do not reach: `Kept`,
and that a worker which has asked twice waits, with its row at `running`, for an answer to
the request that the row dropped (`asked > 1`, section 5). TLC checked all of these
invariants on five instances, with a deletion, a close(), two requests and two Runs among
them.

Settled Runs and deleted conversations (`RunServiceProofs`, last part):

* `DeletedStayQuiet == Spec => []DeletedIsQuiet`
* `SettledStayQuiet`, which adds `QuietInvariant` to what `RunsWellKept` says, on which it rests.

A deletion removes the rows of settled Runs, so what is left of a deleted Run is what is
left of a settled one. `StopKnown` knows that for completed and cancelled Runs only:
a failed one may keep a worker that could not be released, and close() settles Runs that
are being launched. `SettledKnown` is what holds of all: the Run is `Over` (no launch
waits, nothing prepares, the recovery will not turn to it), and it is `Gone` if no release
has failed and no close() is called (`Clean`). It needs to know of whoever settles a Run
without looking: the start that failed (`FailedKnown`), the outcome `failed` in the queue
(`QueueStopped`, for `Clean`), and close(), which settles at its end what it remembers from
before it awaited the launches (`ClosingKnown`). That a Run which is over stays so (`OverLasts`)
is the same in every case.

`QuietKnown` is about captures, deliveries and controls. The deletion waits for them in
turn: first the captures that it aborted, then, behind the loop, deliveries and controls.
`NothingBegins` shows that meanwhile none begins, because every entry point looks at
`deleting` or at the row behind its last await; `DeletionQuiet(c)` is what each step of the
deletion may therefore count on, up to the removal of the rows, from where `Still(r)`
holds of a row that is not there. A deletion that gives up leaves `deleting` and its
program counter in one step, so nothing is claimed of it. TLC checked `QuietInvariant` on the
instance of `deletion` and on others with a close() and with a failed release.

`CharacterRegistryProofs`, from `RegistryAssumption` (finitely many uses, `None` is no
operation and no kind of one, the bounds are naturals):

* `RuntimeOwned == Spec => []OwnerKept`
* `RuntimeKept == Spec => []WorkKeepsResource`
* `RegistryTyped == Spec => []TypeOK`
* `RegistrySound == Spec => []IInv`, on which they rest.

Not even the type invariant is inductive here: that `users` stays a natural number
needs that it counts the invocations at the entry. `IInv` is `TypeOK /\ Sound`, and
`Sound` has a part for each kind of actor. `EntrySound`: users are counted; an open
or closing resource, and one under construction, is the map's; a closing or closed
one is blocked; an entry without a construction has no resource. `UseSound`: a
running operation has an open resource. `OpSound`: the entry of a removal or a
replacement is blocked, the removal's closing promise is there and its own, and each
step finds the resource in the state that the step before left. The last part is the
point: a removal, a replacement and a disposal work on the same entry, and each must
not disturb what the others rely on. That a removal is alone on its entry follows
from `closing`, which names one operation; that a replacement is not disturbed by
who leaves follows from the block, which is never taken back.

`EditKeeps` shows what an edit of one entry must respect (`Fits`) so that entries and
uses stay sound, `BesideKeeps` that an operation on another entry does not notice,
`OwnerKeeps` and `AdvanceKeeps` what a step of the removal that owns an entry must
respect. Then there is one lemma per action; only entering and leaving an entry
(`UserEnters`, `UserLeaves`) count. TLC checked `Sound` on the instance of
`registry_live` without `Apart`.

The registry's promises (`CharacterRegistryProofs`):

* `DeletionsHonoured == Spec => []DeletionHonoured`
* `ShutdownsComplete == Spec => []ShutdownIsComplete`
* `PromisesSound == Spec => []PInv`, on which they rest
* `RegistryImplements == ApartSpec => ImplementsExclusiveResource`

`PInv` is `IInv /\ Promises`. `EntryKeeps(e)`: the callbacks left at an entry are those of
deletions that wait there, each once, and a closing promise is that of a removal under
way. `OpKeeps(o)`: a deletion that is not over is either among those callbacks or is
the one being called; who joined finds a closing promise; once `shutdown` was
called, the map keeps the entry it found, or none. `BesideKept` covers the steps that no
caller could tell, `CallKept` the calls of `remove()`, `EndKept` the end of a removal with
all who joined it.

For the refinement `FenceKeeps(o)` is added: a deletion or a package edit under way is bound
to the map's entry, an edit is alone, and no callback runs at its entry. `BoundBlocked`
concludes that the fence is up, so that a change of the files happens behind it;
`FenceStays` says which steps keep it. Only here `Apart` is used: a replacement that ends
frees the entry, and no deletion may be bound to it. The rest is one lemma per action
(`...Step`) that shows it to be a step of `ExclusiveResource` or none (`Quiet`).

`DurableFileProofs`:

* `NothingIsLost == Spec => []NothingLost`, from `KeepsOldOrNew` and `StallsWithoutLoss`
* `RecoveryRemovesSafely == Spec => RecoveryKeepsACopy`
* `ReplacementIsAtomic == Spec => ImplementsAtomicReplace`

The invariant is `TypeOK /\ Layout /\ Position`. `Layout` lists the three layouts an
interruption can leave behind with a marker: the old contents returned, both copies
aside, the new contents in place. `Position` says for each file operation what lies
where before it. The plan of a recovery is made from verdicts that may be wrong about
good copies; `PlanFacts` says what each plan may conclude from them.

`ResultDeliveryProofs`:

* `DeliveredOnce == Spec => ImplementsDeliverOnce`
* `DeliveriesOwned`, `LostDeliveriesEnd`, `SequenceExcludes` for `OwnershipLasts`, `NoDeadDelivery`
  and `HeadIsAlone`

Their invariant adds to the three properties what is in the transcript (`Results`: no Run
twice, recorded and reported only what is there), whose the native messages are
(`Owned`), that a queued call is in the sequence once (`Lined`), and what the head may
rely on while it waits (`Held`).

`BootstrapRecoveryProofs`:

* `LogsFollow`, `NothingRemoved`, `ResetsAreWhole` for `LogBesideItsDatabase`, `OriginalsKept`
  and `ResetTakesAll`

Here the process may die anywhere, so the invariant is about the directories: a log whose
database was moved lies beside a repair that the next start finds and finishes
(`Orphan`), a directory that holds an original and a new database has not seen the new
one installed, so no second original is moved over it (`Held`); and, while a process
runs, where it is and what it relies on there (`Place`, `Relied`, `Homes`).

`SharedEmbeddingProofs`, from `SharedAssumption` (`None` and `Off` are none of the other
values, and no configuration is a number):

No theorem of its own, since the module is a part of two specifications; its lemmas are
what both need. `SharedSound` says that the provider in use is the one the promise of
the opening is of; that a provider which is not closed is the one in use (so there is
one); that who joined an opening joined that one, or one whose warm-up failed; that one
`get()` warms a provider up; that what `get()` returned, and what a call runs on, is
warm, and in use and open respectively; and that one reset is under way, nobody is
about to join once it awaits the calls, and what it closes is what is in use. There is one
lemma per operation, and `BorrowersStep` for whatever a borrower does: it asks, takes
what it was given, and begins a call only on a provider that is usable.

The point of the invariant is in `ResetClears`. A reset forgets the provider it has closed,
and whoever has been told of it by then still holds a closed one. That nobody has, at
that instant, is a fact of the microtasks: what `get()` returned is put to use long
before the close of a provider has ended. `Returned` in the guard says so; an instance with
two retrievals violated `OneVectorSpace` without it.

`MemoryRuntimeProofs`, from `MemoryAssumption` beside it:

* `CallsAreAwaited`, `ProviderIsOne`, `HandleIsOne`, `StartIndexes`, `ShutdownReleases` for
  `CallsEndFirst`, `OneProvider`, `OneHandle`, `StartedIsIndexed` and `AllReleased`
* `MemoryTyped == Spec => []TypeOK`
* `MemorySoundness == Spec => []IInv`, on which they rest.

`IInv` is `TypeOK /\ SharedSound /\ MemorySound`. `StoreSound` and `CacheSound` say that an open
store is the one its directory has in the cache and that exactly its instance will
close it; `InstanceSound` that an instance that is not closed is the one the character
uses; `IndexSound` that the store such an instance takes or joins fits the vectors in the
directory, and that nobody else is opening one; `CloseSound` that somebody awaits the close
of every instance that is closed and not gone, which is what the shutdown counts on.

`CanonIndexProofs`, from `CanonAssumption` beside it:

* `VectorSpaceIsOne`, `SearchIsComplete`, `ClosedStaysQuiet` for `OneVectorSpace`,
  `SearchFindsAll` and `ClosedIsQuiet`
* `CanonTyped == Spec => []TypeOK`
* `CanonSoundness == Spec => []IInv`, on which they rest.

A pass reads the chunks, awaits an embedding, awaits `get()`, compares the
configuration and writes. Between the two, retrievals and a reset may empty the index and
bring it to another configuration and back. `Expects(g, conf, complete)` is what a pass or a
retrieval that left the index of `conf` may count on while it awaits `get()`: the `get()`
is lost (`Doomed`); or the index is still of `conf` and complete; or it is of another, that
one is in use, and the `get()` will return a provider of it (`Follows`), which the
comparison tells apart. Each of these survives every step of the others
(`ExpectsGoesOn` for the provider's, `ExpectsLasts` for those who touch the index), and
`GotInUse` says that the comparison then leaves only the second. `PassSound` and
`RetrievalSound` put it at the awaits of each, with what the pass has still to write
(`PassComplete`), `QueueSound` keeps a retrieval from being waited for twice, and
`FoundSound` is what was found. `PassStays` and `RetrievalStays` are the two lemmas that
every action of another uses. `ClosedStaysQuiet` needs no invariant: every step that
touches the index looks at the service first.

TLC checked `IInv` of both on instances like those of `memory` and `canon`, and `canon` also
with two retrievals.

Every invariant and every action property that a run checks is stated by a theorem. Only
model-checked is every liveness property, because the prover does not reason about
fairness.

## 5. Observations

While the code was modelled, TLC found behaviours that a comment, a doc or a test of the
repository speaks against. One is kept as a run that must fail:

* `registry_race`, `RemovalIsFenced`: "The deletion callback runs while admissions remain
  blocked" (`character-runtime-registry.ts:84`). A deletion joins the entry that a package
  replacement has blocked; the replacement finishes first and forgets the entry, so
  `removeFiles()` runs while a new runtime may open, and closes its database.

The others are scenarios of the models that no run states as a property any more:

* `close()` during a start (`run-service.ts:1159`, `:1173`): `suspend()` does not see a launch
  that is still in `prepareLaunch`; the launch spawns its worker, `close()` waits for that
  and records the Run as stopped, and the worker goes on in a removed directory. The
  comment says that a successful close proves the release of locally owned startups.
* A deletion beside an unreleased worker (`run-service.ts:1344`, `acp-executor.ts:507`): a
  Run whose release failed has a settled row, so the deletion passes over it and removes
  the directory of a process that may run; `docs/refernece/host-runtime.md:132` says that
  a deletion fails closed there.
* A deletion that is refused (`run-service.ts:326`): a launch fails while its conversation
  is being deleted and its error is dropped. If the deletion is then refused the Run
  stays enqueued, holds a slot, and offers no action; `docs/refernece/host-runtime.md:114`
  says that a failed start is recorded as failed.
* Two permission requests (`run-service.ts:389`): the second request while the first is
  open never reaches the row, and can be answered by nobody.
* A permission request that crosses an interrupt (`acp-executor.ts:199`): the paused Run
  offers `respondPermission` instead of `resume`, which the row filters out; only
  cancel is left.
* A removal that is retried (`character-runtime-registry.ts:157`): the retry is refused by
  a verification that queries the closed database, until the package is reloaded or the
  Host restarts; a test speaks of "until retry succeeds".
* The cleanup of a replacement (`durable-file-transaction.ts:391`, `:664`): when the recursive
  removal of the backup is cut off half-way, the rest does not verify, recovery answers
  `recovery-required` and every later replacement of the target is refused.
  `NothingLost` holds: the new contents are at the target.
* The settings of the embeddings (`runtime.ts:199`): a memory that opens between the
  closing of the memories and the reset of the provider is given the old provider and
  keeps the old vectors until it is closed; `docs/refernece/architecture.md:160` says that
  a change invalidates every character's index.
* A repair that is cut off after its schema is committed (`bootstrap-recovery.ts:597`): the
  next start finds a sound but empty `new.db` and installs it;
  `docs/refernece/host-runtime.md:74` says that the new database replaces the old one
  after it was fully checked, and `docs/refernece/desktop.md:38` that rows are migrated. The
  original stays in the repair's directory (`OriginalsKept`).

A failed removal of the session file (`DeleteFails`) leaves the conversation in
`deletingConversations` until it is deleted again or the Host restarts. Neither
code nor docs say what should happen.

## 6. Not modelled

* The ACP wire protocol, the codec and the result reader: they carry no state of a
  Run beyond the outcome, which is nondeterministic here.
* Wall-clock timeouts: a timeout is the failing alternative of an action.
* The content of evidence, receipts, artifacts and transcripts.
* Failure of a SQLite write or of a row update inside a closure: the code has no
  path for it other than the rejection of the caller.
* Steering, and the read-only queries.
* Of the session's operations navigate, edit, correct, continue, fork, rename and the
  choice of a model: they take a turn in the same sequence as `send` does.
* The repair of a companion's database, which adds one insert to that of
  `settings.db`; the restoration of a character package; the export before a reset.
* The acquisition of an embedding model, a download into a directory.
* The extraction pipeline of the memory core, its checkpoints and its remote stores:
  vendored, and apart from the handle and the provider.
* `fsync` as such: a step of `DurableFile` and of `BootstrapRecovery` is an operation with
  the `fsync` after it, as the code writes them.
* The components marked "no" in the inventory, for the reasons given there.

## 7. Plan

What a continuation would take up, in this order:

1. The removal journal of the provider catalogue, the acquisition of an embedding model
   (cancel against completion) and the update state machine of the desktop.
2. The pipeline of the memory core: its queue, its checkpoints and `flush` at the end.
