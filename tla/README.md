# A verification project for wow-mods

wow-mods is a set of Rust DLLs injected into a 2006 game client that runs under Wine on
macOS, a Swift helper on the unix side, and a Lua addon. Two of its parts carry concurrent
or stateful logic worth a model: the **translation pipeline** (Lua addon -> DLL -> unix
side -> Apple's Translation framework, and back by polling) and **wow_turbo**, which
replaces hot functions of the client by parallel, caching or coalescing versions.

This directory holds TLA+ models of both, TLC configurations that check them on small
instances, and machine-checked proofs, for instances of any size, of every safety property
those configurations check. `PROJECT.json` lists the components, the runs, the source
lines of every definition, the known hazards, and for every property a mutated definition
under which TLC finds it violated.

Line numbers below are those of the commit the models were written from. `hooks.rs` is
`src/windows/turbo/src/win/hooks.rs`, `queue.rs` is `src/windows/translate/src/queue.rs`,
`API.lua` is `src/addon/WoWTranslate/WoWTranslate_API.lua`.

## 1. The system

### 1.1 How a chat line is translated

    chat frame hook (Lua)         WoWTranslate.lua          ChatFrames
    sender names (Lua)            WoWTranslate.lua          NameResolver
    messages held back (Lua)      WoWTranslate.lua          OutgoingChat
      | Translate(text, callback)
    request bookkeeping (Lua)     WoWTranslate_API.lua      AddonApi
      | UnitXP("WoWTranslate", ...)   hook.rs
    queues and worker (Rust)      queue.rs                  TranslateQueue
      | one thunk call per language pair (PE -> unix bridge)
    Swift driver                  translate.swift           TranslationDriver
      | TranslationSession (Apple)

Only the game thread runs Lua. It hands a request to a bounded channel and learns of the
result by polling, every 0.1 s and only while something is pending. The worker thread, and
on the unix side the main actor and SwiftUI's tasks, run beside it. Each layer gives up on
the one below it after a time of its own: the Swift call after 10 s, an incoming request
after 25 s, a line held back from the chat frame after 30 s.

### 1.2 What wow_turbo does in parallel

The game thread publishes a job to a pool of one to four worker threads (`gc_pool`): to
mark the Lua heap, to sweep the string table, to build particle geometry, or to animate
bones. It goes on with work of its own, takes part where that helps, and joins the job
before it lets the job's buffers go. Jobs follow one another at once, so a worker may still
be leaving one, or only be waking for it, when the next is published.

### 1.3 What wow_turbo remembers and defers

Writes of "visible item" fields are coalesced: a zero is held back for a while because the
server often restores the value in the next packet. Lookups of files in the archives are
memoised in front of the client's resolver, which several threads call. Portraits are
rendered into Direct3D textures that must be given up whenever the device is reset and be
rendered again afterwards. Log records are written by a thread of their own, once it runs.

### 1.4 The components

For each: its state, its operations, what it interacts with, what is hard about it, and
what would make it correct. **Modelled** components name their modules.

* **translation queues and worker** (`queue.rs`, `hook.rs`) -- *TranslateQueue,
  TranslateQueueProofs, PairChannels, TranslateQueueRefinement, MCTranslateQueue*. State:
  a work channel of 128, an unbounded completed channel, the worker's batch and its
  groups. Operations: `enqueue` (ok, full, closed), `drain_completed`, and the worker's
  loop. Hard: both threads interleave at two channels while a batch is regrouped by pair;
  the worker may be gone and is never restarted. Correct: per pair FIFO, each accepted
  request answered once.
* **addon request bookkeeping** (`API.lua`) -- *AddonApi, AddonProofs*.
  State: `pendingRequests`, `pendingTexts`, the in-flight count, whether polling runs,
  whether the DLL is there, unsupported pairs. Operations: `Translate`, `TranslateOutgoing`,
  the poll frame, the timeout sweep, `ClearPending`, `CheckDLL`. Hard: callbacks call
  `Translate` from inside a `pairs()` traversal of the table that it inserts into; results
  arrive after the timeout; the DLL dies. Correct: every request called back once, no text
  blocked, the count in step with the table.
* **chat frame hook** (`WoWTranslate.lua`) -- *ChatFrames, ChatLines, NameResolver,
  AddonProofs, MCChatFrames*. State: the frames registered for a text, the 30 second
  safety net, the cache, the closure of each request. Operations: the OnEvent hook in each
  frame, the translation callback, `CleanupPendingMessages`. Hard: one message visits
  several frames, one request serves them all, and with `replaceMode` the original has
  been swallowed before anyone knows whether a translation comes. Correct: a line that is
  owed its translation appears, and does not turn back.
* **Swift translation driver** (`translate.swift`) -- *TranslationDriver,
  TranslationDriverProofs, MCTranslationDriver*. State: streams, staged streams,
  generations of pairs, views and their tasks. Operations: `wow_translate_sync`, `submit`,
  `stage`, `takeStream`, `pump`. Hard: the game window may be destroyed between any two
  steps (a Direct3D reset), views die late, the caller gives up meanwhile. Correct: no
  stream that nobody will read, none read twice, no work for a caller that has gone.
* **visible-item write coalescer** (`transmog.rs`, `win/transmog.rs`) -- *Transmog,
  PendingZeros, TransmogProofs, MCTransmog*. State: an open-addressed table of pending zeros
  of other units, the player's pending zeros with the item field parked behind them, mirrors
  of the player's equipment, a flag read without the lock. Operations: four kinds of
  intercepted write and `flush`. Hard: entries removed in place leave holes in probe runs;
  flush gives up its lock between finding an entry and removing it by index, and goes by a
  time it has read before; the player object is replaced, or not found. Correct: a field
  shows what the server wrote, or its zero is still accounted for.
* **worker pool** (`hooks.rs`) -- *WorkerPool, WorkerPoolProofs, MCWorkerPool*. State: the
  job under its mutex, the lock-free `cur_epoch`, one cursor, `active`, `done`, an
  accounting counter. Operations: `gc_par_begin`, the workers' loop, three claim loops,
  five joins. Hard: the cursor, the epoch and `active` are separate atomics shared by all
  jobs. Correct: a join passes when the work is done, nobody works on an item twice,
  accounting is complete when it is read, buffers outlive their use.
* **parallel Lua mark** (`hooks.rs`) -- *GcMark, GcMarkProofs, MCGcMark*. State: mark
  bits, an injector, a thread queue, local stacks. Operations: the two passes, batch
  grabbing, claims, sharing of surplus, the coordinator's quiescence check and its
  servicing of threads through the client's own code. Hard: quiescence is decided from
  three separate reads; a worker of the first pass may slide into the second. Correct:
  everything reachable is traversed before the pass is taken to be over, and it ends.
* **outgoing chat** (`WoWTranslate.lua` 2926-2939, 3051-3125) -- *OutgoingChat,
  AddonProofs, MCOutgoingChat*. State: `outgoingQueue`, what the player typed and
  has not been sent. Operations: the hook on SendChatMessage, the callback of its request,
  the 30 s sweep. Hard: the request under it is answered, times out after 25 s, is refused
  or reset, and the sweep runs beside all of that. Correct: what is typed is sent once.
* **name resolution** (`WoWTranslate.lua` 1043-1168) -- *NameResolver, ChatFrames,
  AddonProofs*. State:
  who waits for which name, names that are watched. Operations: `ResolvePlayerDisplayName`,
  the callback of a name's request, `NameRetryOnUpdate`. Hard: a refusal has two ends (the
  callback runs, and then a watch is set up), watches and answers outlive those they were
  for. Correct: whoever waits is called. Guild and rank names keep no state of their own.
* **archive lookup memo** (`storm/filecache.rs`, `hooks.rs` 21243-21714) -- *FileCache,
  TurboServicesProofs, MCFileCache*. State: buckets of two ways, records that accumulate
  fields, a generation of archives. Operations: probe, replay, record, and the flush of a
  mount or unmount. Hard: the lock is held for a probe, an insert or a clear, never across
  the client's resolver; a replay takes references step by step and may give up half way;
  handles come back for other archives. Correct: no record survives the change that made
  it wrong, references balance.
* **portrait cache** (`portrait.rs`, `win/portrait.rs`, `portrait/*.rs`) -- *Portraits,
  PortraitsProofs, MCPortraits*. State: the registry (texture -> key, generation,
  sources), who owns the resource in each texture's slot, the mask and the depth surface.
  Operations: `set_portrait` with its early answers, the ends of a render,
  `release_resources`, `update_texture`, `destroy_texture`. Hard: a render re-enters, may
  fail at every call and may find its handle unresolved; entries are invalidated, taken
  over or forgotten between two resets. Correct: nothing of the default pool is left at a
  reset, and no frame keeps showing what was lost.
* **log worker** (`log_worker.rs`, `log_file.rs`) -- *LogWorker, LogOrder,
  TurboServicesProofs, MCLogWorker*. State: the flag `ACTIVE`, the channel. Operations:
  `log`, `defer`, `start`, the worker's loop. Hard: both paths are in use while the worker
  starts, and it may not start at all. Correct: the log keeps the order of the calls, and
  everything is written.
* **Lua chunk freelists** (`math/lua_gc.rs`): not modelled. Lock-free pushes onto lists
  that nobody pops from while a sweep runs, and a search with differential tests.
* **seen-unit enter-world downgrade** (`transmog.rs`): not modelled yet. A table of
  snapshots that turns a full refresh into none; a sequential decision with eviction.
* **breadcrumb ring** (`crumb.rs`): not modelled. A ring in shared memory without locks,
  compiled in only with the `wow_crumb` switch for one investigation at a time.
* **translation cache of the addon** (`WoWTranslate_Cache.lua`): not modelled yet. Two
  generations kept in SavedVariables. ChatFrames has a cache that only grows.
* **addon configuration, glossaries and minimap**: not modelled. Widgets and tables;
  settings are constants of ChatFrames.
* **hook installation and DLL lifecycle**: not modelled. Patches the client's code once,
  under the loader lock; nothing of it can be observed from this side.
* **PE to unix bridge**: not modelled. Stateless marshalling; its outcome, one status per
  item, is in TranslateQueue.
* **reimplemented client functions** (the rest of `hooks.rs`, `math.rs`, ...): not modelled.
  Numeric kernels which must agree bit for bit with the client's; differential tests.
* **UnitXP extensions and world text**: not modelled. Geometry and formatting.
* **diagnostics**: not modelled. No behaviour depends on them.

## 2. The models

One action is one step another actor can come between: an operation on a channel or an
atomic, a stretch under a lock, a Lua handler up to the callback it runs. Histories
(`accepted`, `delivered`, `calls`, `handled`, `traversed`, ...) exist for the properties
and guard nothing.

**TranslateQueue.** `workQ` and `doneQ` are the channels, `pc`, `batch`, `groups` and `out`
the worker's program counter and locals. `EnqueueOk`, `EnqueueFull` and `EnqueueClosed` are
`enqueue`'s three answers, `Poll` is `drain_completed`; `Recv`, `Coalesce`, `CloseBatch`,
`GroupOne`, `TranslateGroup` and `Send` are the worker's loop. Every item of a group gets
any status: what the unix side does is not known here. `WorkerGone` (only in `CrashSpec`)
ends the thread at any step: the case for which `enqueue` has the answer `Closed`. (A panic
would end the process with it: every profile is built with `panic = "abort"`.)

**PairChannels** is what the queues promise: per language pair one reliable FIFO channel,
which may be closed once, keeping a prefix. **TranslateQueueRefinement** maps the queues
to it: the channel of a pair is the results parked and being sent for it, then its group,
then what of it is in the batch and in the queue. AddonApi is written over PairChannels
instead of the queues, which is how the two compose.

**AddonApi.** The tables have their source names; `lua` is the handler that is running, what
its traversal has still to visit, and the request whose callback runs. The DLL's channel is
`Dll == INSTANCE PairChannels`. A callback is a step between two steps of its handler, in
which `Translate` may be called any number of times. Lua leaves a traversal undefined once
a key is added to the table: the new key may or may not be visited and keys not yet visited
may be skipped (`AddKey`, `disturbed`). The clock is `staleUpTo`: requests up to that number
are older than their timeout.

**OutgoingChat** extends AddonApi with `outgoingQueue`. Its actions are AddonApi's with what
they do to the queue: the hook stores the message and asks, in one step since Lua does not
yield in between; `Handle` is a step of a handler with the callback it starts; the sweep
(`CleanupOutgoingQueue`) takes the oldest messages, all of them old enough that their
request has timed out whether or not the API's own sweep has been there.

**ChatFrames.** `line[m][f]` is what frame f shows of message m: nothing, held, translated
but waiting for a name, original or translated. The API is taken at AddonApi's word: a
request is queued, turned away without a callback, or refused with a callback that runs
before `Translate` returns; a queued one is answered once. **ChatLines** declares `line`
and what is promised about it whatever else the hook keeps. Lines saying the same share
their request, their registered frames and their safety-net key, as in the code. An answer
posts one line in each registered frame, that of the message that asked (`AskersLines`);
a line of another message turned away meanwhile as a duplicate stays swallowed, and is
`held` for good. `FlushUnavailable` is the early exit behind the registration.

**NameResolver** is the part of ChatFrames between a translation and its post: lines join
those that wait for the sender's name, or are posted at once (`NameAtOnce`: also after a
refusal, which leaves a watch behind). `Finish` is the closure that takes the waiters off
the table and calls them, whoever runs it. A watch may give up at any look.

**TranslationDriver.** Streams are records with a buffer and a flag, `pendingStreams` and
`continuations` are the driver's dictionaries, `tasks` every `.translationTask` SwiftUI
has fired. SwiftUI and the window are external: views mount and unmount whenever the
driver's published state allows it.

**Transmog.** `units` is the table with its probes, removals in place and holes; `player`
the pending zeros of the player with what is parked. Each intercepted write is a step; a
flush is five, between which it holds no lock. Ages count ticks, up to where they have
ceased to matter. Time goes on during a flush, which compares with what it read at its
beginning: `flushing.late` counts the ticks since, and `Over` says when a window is over as
the flush sees it, for a stamp later than its reading at once, as `wrapping_sub` does
(`transmog.rs:401`). Any write to the player may find the mirrors bound to another object
and the object manager without the player (`found`): they are unbound then, an empty slot
is not known to be one (278), and a zero is swallowed with nothing blanked.

**PendingZeros** is what the unit half of it promises: a set of zeros, at most one per
field. A value shows at once and ends what is held back, a zero shows or is held back, and a
flush takes what nobody has renewed for the window, or what came after it had read the
clock; it removes the zero it took, unless the field was written in between. The table, its
order and its room are not visible. `Held`, `Hand` and `Zeros` at the end of Transmog are
the mapping: what the table holds, wherever it is, and the key a flush has in hand.

**WorkerPool.** `curEpoch`, `cursor`, `active`, `done`, `freedStrings` are the atomics of
`GcParShared`, one step each; `published` and `JobLocked` are the job mutex. `lane[p]` is a
participant's program counter in its claim loop with the job it copied, `game` the game
thread's in `gc_par_begin` and the joins. `view` is the `PqJobView` of a particle job and
`held` the jobs whose buffers have not been let go; what is read from a view that was
freed is any value (`Elect`). The claim loops differ only in what a chunk does, so
`Raise`, `Check`, `Claim`, `Lower` and `Leave` serve all three. The game thread animates
one chunk at a time between two looks at the node it waits for (`look`, `spent`, `quiet`,
`help`).

**FileCache.** `open` is Storm's list in search order, `blocks` what each archive holds,
`refs` its reference counts: external, like `Owner` and `FoundFor`, the original resolver:
where the name was found, and which archive it answers with, which may be another one
(`Redirect`). The block index is the latter's. `call[t]` is
a thread's lookup: `Probe`, then the replay's `RefFound`, `ReadBlock`, `RefFoundIn` and
`Write`, each of them calls of the client that may find the archive gone, or `Delegate` and
`Record`. `Mount` and `Unmount` change the list in one step and flush in the next. A record
carries whether its lookup straddled a change, and of which archive its block index is
(history, for the exception of `RecordsCurrent` and for `BlockInItsArchive`).

**Portraits.** `record` and `texture` are the client's portrait records and textures,
`entries` the registry, a texture's `slot` what its resource slot holds: a rendered target
it owns, the placeholder it borrows, nothing, or the pixels of a portrait the client made.
A request is one step up to the render; while it renders (`rendering`, the code's
`ENTERED`) other requests come in and are deferred; `RenderFails`, `PublishUnresolved` and
`Publish` end it. `deferred` is the client's list, `asking` the frames the UI will ask for
again after an entry of it fired. While the device is gone a request may be left to the
client's own function (`AskOriginal`). `blind` marks frames that were given an unresolved
handle, or what that function showed.

**LogWorker.** A record is its caller and number. `Call`, `DeferDecides`, `LogDecides` and
`Submit` or `WriteHere` are a call's steps; the flag is read at the decision and acted upon
later. `behind` remembers, for each record, which calls had returned when its own began;
**LogOrder** declares it and `written`, which is all that can be seen of the log.

**GcMark.** `injector`, `thread_q` and each lane's stack as in the code, batches and
surplus with their sizes as constants. A traversal marks one reference per step. The
coordinator's service of a thread is the client's traversestack, external code whose mark
is a plain test followed by a plain store: two steps (`StockTest`, `StockMark`).

## 3. What the runs check

All runs are exhaustive for their constants and end within three minutes each. The
`MC*.tla` modules only define the values of constants, and constraints on what the
surroundings do (named below).

| run | module | properties | distinct states |
|---|---|---|---|
| queue | MCTranslateQueue | TypeOK, PairFifo, AtMostOnce, NothingLost, ImplementsPairChannels, AcceptedIsDelivered | 77,908 |
| api_requests | MCOutgoingChat | CountTracksTable, NoTextBlocked, CallbackOnce, AlwaysAnswered, SentOnce, TypedIsSent | 218,551 |
| chat_frames | MCChatFrames | NoReappearance, OwedLineAppears | 114,400 |
| chat_turned_away | MCChatFrames | HeldLineAppears (violated) | |
| driver_churn | MCTranslationDriver | StreamIsServed, AbandonedNotTranslated, YieldedIsRead | 189,520 |
| transmog | MCTransmog | OneEntryPerKey, UnitFieldExplained, FlagHonest, FlushDrains, PlayerFieldExplained, EmptiedSlotBlank, ImplementsPendingZeros | 616,395 |
| pool | MCWorkerPool | OncePerTicket, FreedIsDebited, JoinCoversJob, AnimatedBeforeUse, JobsEnd | 854,574 |
| pool_late | MCWorkerPool | BuffersOutliveUse (violated) | |
| gc_mark | MCGcMark | TypeOK, PassComplete, TraversedOnce, MarkTerminates | 83,852 |
| file_cache | MCFileCache | RecordsCurrent, BlockInItsArchive, RefsAccounted | 2,786,541 |
| portraits | MCPortraits | DefaultPoolEmpty, LostIsRefreshed | 1,620,374 |
| log_worker | MCLogWorker | WrittenInOrder, EverythingWritten | 58,337 |

### Bounds, and why they are enough

* **queue**: three requests of one pair and two of the other, batches of three, a channel of
  two, polls of two. Five is what a channel and a batch hold: the channel fills and sheds, a
  batch holds both pairs in every order, and two batches follow one another. The worker may
  end with anything in hand, before or after other results were parked.
* **api_requests**: three requests, two texts of which one may be asked for by a callback.
  With three a callback's request meets one that is pending and one that was answered, and
  fits while a reset traverses two others; any may time out, be refused or be reset, and be
  an incoming or a typed one. The cap (`GetMaxPending()`) is three as well, so it is never
  what stops a request; a request over the cap is turned away and leaves nothing behind.
* **chat_frames**: two frames, three messages of one sender that say the same, every answer
  of the API for text and name, and failures. Sharing needs two frames and two lines with
  one text; a third meets a watch that a refusal left behind, or an answer that is late.
  Lines of other texts share only the name with them, as these do.
* **chat_turned_away**: one frame and one message are enough for the counterexample.
* **driver_churn**: one pair, three calls, the window destroyed twice. Two destructions
  make three generations: a view of the first may act after the second has died. Pairs
  share nothing but the window, so one is enough.
* **transmog**: three units in a table of three with probes of two; two collide at the last
  index and wrap into the third's place, so the table fills, probes overflow and holes
  appear. Two of them, which hash alike, are interchangeable (symmetry), as are the items;
  the third is there for its place in the table: it stays in sight and is shown one value
  only. One tick may pass during a flush (`FLUSH_TICKS`): that is enough for an entry to be
  stamped after the flush's reading and for one to come due behind it. One slot and two
  items for the player, whose object may be replaced at any time and may not be found by any
  write; slots share nothing. The units' entries and the player's share only the flag and
  the flush, so a behaviour writes to one of the two (`scene`).
* **pool**: two workers and the game thread, two jobs. A chunk of two and three items give
  one full and one partial chunk, two jobs give a worker of the one before. The second job
  is not a mark, which draws nothing from the cursor, and two particle passes do not follow
  one another (`Schedule`). The cursor stops counting at the longest job: past it every
  value means the same to every participant.
* **pool_late**: one worker more than needed, one particle job of two entries.
* **gc_mark**: three workers, eight objects, two of them roots that are seeded in any
  order: children shared by two parents, a cycle, two threads (one a root, one reached by a
  worker late), and a userdata that is finalised and
  keeps a table alive that refers back to it. Batches of two and stacks that share above
  one, so that sharing and a refilled injector happen at every depth.
* **file_cache**: two threads, one of which also mounts and unmounts; two handles, which
  come back; three changes of the list: mount, shadow and unmount, or mount, unmount and a
  handle come back. One name gives three keys (everywhere, and in either archive), which
  share a bucket of two ways, so records are evicted. The archive searched first answers
  with the other one where that has the file too (`TheOther`). Two shapes of call: the
  file-open path's, and one that wants both archives, which brings an archive without a
  block index; no caller in the client passes that today, but the hook serves every set of
  out-pointers (`hooks.rs:21292-21314`). The handles are interchangeable. The file is at an
  index that no other mounted archive uses (`OwnIndex`), so that a block index of the wrong
  archive shows.
* **portraits**: a player, two creatures that share a display and so a record, two frames,
  and two texture addresses: a texture may be destroyed and its address come back under
  another key. Any number of resets.
* **log_worker**: two callers, one of which starts the worker, three records each: one
  caller's can be written by it, wait in the channel and be with the worker at once.

### What the properties say

The queues: `PairFifo`, `AtMostOnce` and `NothingLost` follow a request to Lua;
`ImplementsPairChannels` says all of it at once, for a worker that may end, and
`AcceptedIsDelivered` that what is accepted arrives.

The addon: `CountTracksTable` ties the count that gates both requests and polling to the
table; `NoTextBlocked` says that no dedup entry outlives its request, which would swallow
that text for the session; `CallbackOnce` and `AlwaysAnswered` say that result, timeout,
reset and refusal together call back once. `SentOnce` says the same of what the player
typed, which the sweep may send as well; `TypedIsSent` that nothing typed is held for ever,
also when a reset strands its request (see the remarks).

The frames: `NoReappearance` is the defect that the comment on the safety net warns of;
`OwedLineAppears` says that the line of a message that asked appears in every frame that is
registered for it, unless the request fails, and that nobody waits for a name in vain.
`HeldLineAppears`, that whatever was held back is shown, is more than the code does.

The driver: `StreamIsServed` says that whatever stream requests go to is staged for the
current view, read by it alone, or closed; `AbandonedNotTranslated` that a session is not
spent on a caller who has left; `YieldedIsRead` that it recovers from any churn.

The coalescer: `OneEntryPerKey` for probes over holes, `UnitFieldExplained` and
`PlayerFieldExplained` for what is shown, `EmptiedSlotBlank` for the two orders of a zero
and the GUID that empties the slot (but for a zero that came while the player was not found,
and one that has lapsed), `FlagHonest` for the flag read without the lock,
`FlushDrains` for a scan that is interrupted by writes. `ImplementsPendingZeros` compares
the table, step by step, with a set of pending zeros: no write misses, doubles or loses an
entry, no zero is taken before its window is over as the flush read the clock (unless it was
stamped after that), and a flush removes the zero it has found and no other, unless a write
to that field came in between.

The pool: `OncePerTicket` says that an item is worked on at most as often as tickets with
its number were drawn for its job; `JoinCoversJob` that a joined sweep or animation has
left no item out; `FreedIsDebited` that the debit of `strt.nuse` is what was freed;
`AnimatedBeforeUse` that the walk over the visible list draws nothing in an old pose;
`JobsEnd` that no job hangs the frame.

The mark: `PassComplete` says that quiescence is never found too early: what it would miss,
the sweep frees while it is in use. `TraversedOnce` says that claims have one winner, up to
the client's own plain mark. `MarkTerminates` says that the passes end.

The memo: `RecordsCurrent` says that what is replayed is what the resolver would answer:
every record, in either way of the bucket, merged or not, is right for the archives that are
mounted, from the moment a change has been flushed. `BlockInItsArchive` says of every
record, those of `RecordsCurrent`'s exception too, that its block index is of the archive
whose handle stands beside it, whatever calls it was merged from. `RefsAccounted` says that
each reference on an archive is held by a call that runs or by a caller.

The portraits: `DefaultPoolEmpty` is what Direct3D asks of a reset; `LostIsRefreshed` says
that a frame whose target is gone is on its way to a new one.

The log: `WrittenInOrder` compares two paths and any number of threads: what had been
logged before is written before. `EverythingWritten` includes the worker that cannot start.

`TypeOK` is checked where the types depend on the protocol: TranslateQueue and GcMark (that
of WorkerPool is proved). Those of the other modules say less than their other properties
do.

### Fairness

Weak fairness of threads and handlers that have started: the worker, the coordinator, a
Lua handler that is running, the frame script that polls, the main queue, SwiftUI
following the driver's state. `WF` is enough where a step stays enabled until it is taken.
`SF` is used where other handlers come between: the clock of AddonApi, which stops while a
handler runs; the sweep of the messages held back, on a frame that is never hidden
(`TypedIsSent` rests on it); the answers to a chat frame's request and to a name's, and the
watch over names, which wait while a message is raised; and a mark worker's turn at the
injector's mutex, which the coordinator takes again and again but never keeps. Nothing is
assumed of callers, of the server, of the client starting another job, of a window coming
back, nor of the safety net: `OwedLineAppears` does not rest on it. The thunk call and a
bone animation are assumed to return.

## 4. What is proved

Eight modules hold theorems. Each is about a specification as it stands, for every value of
its constants that its named assumption allows; where a run constrains its surroundings
(`OwnIndexSpec`, `SceneSpec`, `ScheduleSpec`), the theorem is about `Spec`, which does not.
The assumptions say no more than that sizes are positive, that functions have their
domains, that values which stand for nothing are not among the others, and that threads,
workers and heap objects are finitely many.

**TranslateQueueProofs** (`QueueAssumption`).

* **QueueTypes**: TypeOK is not inductive, since `TranslateGroup` takes the head of
  `groups`, which has to exist. `WorkerInv` adds `WorkerShape` (what the worker holds at
  each program point), `OnePairPerGroup` (one thunk call per pair) and `BatchBounded`.
* **QueueAtMostOnce** and **QueuePairFifo**: `OrderInv` numbers the requests by their place
  in `accepted`. `Tickets` says that everything in the pipeline, wherever it is, has a
  ticket of its own; `WaitingInOrder` that batch and channel hold the last tickets in order;
  `Ordered` that for one pair a smaller ticket is further ahead: delivered before parked,
  parked before grouped, grouped before batched. Grouping is the step that needs
  `OnePairPerGroup`: it may let a request overtake others, but a pair has one group, so
  never one of its own pair. `OrderedOpens` and `OrderedJoins` are the two cases of it.
* **QueueNothingLost**: the same invariant, read the other way: every ticket is somewhere.
* **CrashTypes, CrashAtMostOnce, CrashNothingLost, CrashPairFifo** say the same of
  `CrashSpec`, in which the worker may end at any step. `CrashInv` is `OrderInv` until it
  does; afterwards (`Gone`) the worker holds nothing and what has surfaced is still sound,
  because what is in front of a sound sequence is (`FrontIsSound`).
* **QueuesArePairChannels**: `CrashSpec => ImplementsPairChannels`, the whole refinement of
  PairChannels. The steps of the worker leave every pair's channel as it is (`TakeHidden`,
  `GroupHidden`, `TranslateHidden`, `SendHidden`), `EnqueueOk` is an `Accept`, the other two
  answers a `Refuse` (`EnqueueAccepts`, `EnqueueRefuses`), a poll a `Deliver` from the heads
  of the channels (`PollDelivers`), the end of the worker a `Close` that keeps what was sent
  (`EndCloses`). A channel's content is the recursive function `ForPair`; that it
  distributes over concatenation is proved by induction on the length. The library's
  induction theorem takes an operator, so `NatInd` states induction for a set of numbers
  instead, from the well-founded minimum (`WFMin`).

**AddonProofs**, in two parts. Of `OutgoingSpec` (`ApiAssumption`):

* **OutgoingKeepsToApi**: every step is one of AddonApi or leaves it alone.
* **PollingTracksTable, DedupIsPending, EveryCallbackOnce**: `ApiInv`. A request is called
  back exactly when it is decided and out of the table, except at the one step where
  `ClearPending` has called and not yet removed (`Called`); the count and the poll frame
  follow the table outside of `ClearPending` (`Counted`), which visits every entry unless a
  callback disturbs its traversal (`ClearCovers`). `HandlerShape` says what a handler that
  is running holds.
* **TypedSentOnce**: `HeldOrSent`: what is held has been asked for and not been sent.

Of the chat frames (`ChatFrames` as the instance `Chat`, with `ChatAssumption` as the
hypothesis of the theorems), with and without `replaceMode`:

* **TranslationsStay**: `NoReappearance`, an action property. Two steps print an original:
  the safety net and a failed request. No line of a text is posted before the text is
  cached, nor is a text in flight cached (`Untranslated`). `Netted` says that what the net
  has is held, and that the request of its text is in flight and was asked for by the frame
  of its key; inductive, as the callback of that request takes the entry out in the step in
  which the line stops being held. A frame the message has still to visit shows nothing of
  it (`Unvisited`), so that no visit overwrites a line that is already translated.
* **WaitingLinesPursued**: a line that waits for a name is on the table under a name with a
  request or a watch that will call it (`NamesInv`): the safety that `OwedLineAppears`
  rests on, through refusals with their two ends and watches that outlive their names.

**TranslationDriverProofs** (`DriverAssumption`).

* **DriverTypes**, and **StreamsAreServed**: `ServeInv`. Two pairs never share a stream
  (`Routes`); what is staged is open, is its pair's current stream and is read by nobody
  (`Staged`); whoever reads a stream has it alone, and if it is a pair's current one, the
  reader is the pump of the current view (`Readers`); and an open current stream that is
  not staged is read (`Served`). The step of an old view is harmless because a view takes
  only what is staged for its own generation.
* **SessionsWorkForCallers**: `AbandonedNotTranslated`, an action property. The driver
  looks at a request when it takes it, so what must be shown is that nothing else happens
  to it in a queue: a request is in one place (`OneCopy`, `InSession`), and a queued one
  waits, unless its caller has given up (`QueuedAwaited`), which the look would see.

**TurboServicesProofs**, in two parts. Of the lookup memo (`FileCacheAssumption`):

* **NoReferenceLeaks**: `RefsInv`: what a replay holds at each of its steps (`HoldsRight`),
  against which `RefsAccounted` counts; a call gains or loses one reference per step.
* **RecordsAreCurrent**: `RecordsInv` adds `InFlight`: an answer that was asked for and not
  yet recorded is what the resolver would say now, or its lookup straddled a change.
* **BlocksStayInTheirArchive**: `BlockInv`: what the original delivers is of a piece
  (`Delivered`), and so is what two records merge to (`MergedWhole`): the old index is kept
  only beside the same handle.

Of the log worker (`LogWorker` as the instance `Log`, with `LogAssumption` as the hypothesis
of the theorems):

* **LogWrittenInOrder**: `WrittenInOrder` speaks of what is written only, so `LogInv` adds
  that what must come before a record is ahead of it wherever the record is: in the channel
  (`AheadInQueue`), with the worker (`AheadOfWorker`), with a caller that has decided to
  write (`AheadOfCaller`). The last holds at the decision because a record whose call has
  returned is somewhere (`Arrived`) and, while `ACTIVE` is down, nothing is in the channel
  or on its way there (`DownIsEmpty`), since `ACTIVE` is never lowered again.
* **LoggedIsOnItsWay**: the same invariant: a record whose call has returned is written, or
  a worker that runs has it or will come to it. That is the safety of `EverythingWritten`.

**TransmogProofs** (`TransmogAssumption`).

* **TypeCorrect**, and **TableIsAProbeTable, UnitsShowTheServer**: `UnitInv`. A probe looks
  at every place of its run and never stops at a hole, so what it does not find is nowhere
  (`NotFoundIsNowhere`); an entry means that zero is what the server wrote last
  (`EntryIsZero`), and so does a key in a flush's hand unless it was overtaken
  (`BlankIsZero`).
* **PlayerShowsTheServer, EmptiedSlotsAreBlank**: `PlayerInv`, slot by slot (`SlotInv`): the
  mirror, the pending zero and the field agree while the player is bound, and a zero that
  outlived its player, or came to an unbound one, is `carried`. `BoundSlot` says what a
  write finds in the mirrors, whether binding them anew succeeds or not.
* **FlagIsHonest**, and **FlushLeavesNothingDue**, an action property: what the scan has
  passed was young when the flush read the clock and stays so, since ticks add to an age and
  to the time since that reading alike, and writes only make entries younger (`Passing`).
* **TableIsASetOfZeros**: `Spec => ImplementsPendingZeros`, the whole refinement. A write is
  a `Write` (`WriteIsWrite`): that the probe's place is the only one of its key and that
  what it does not find is nowhere make the table's change the set's. A flush's three steps
  for an entry are `Takes`, `Removes` and `Blanks`; it `Begins` with its clock reading and
  `Ends` when nothing that was due then is left (`EndsWhenDrained`); dropping the player's
  old zeros is a stutter (`FlushIsFlush`). That `Removes` finds the zero that was taken is
  the invariant `InPlace`: it lies at the index until the field is written. The clock is
  `Ages` (`TickIsAges`), and what happens to the player is a stutter.

**GcMarkProofs** (`MarkAssumption`).

* **MarkTypes**: `active` is the number of lanes that may hold work (`ActiveCounts`).
* **PassIsComplete**: `Quiescent`: what the coordinator has seen stays true while it keeps
  the injector's lock, as nobody starts to hold work without it. `ClaimInv`: a marked
  object waits somewhere or has been traversed, and then what it refers to is marked or
  about to be (`ClaimsKept`); nothing beyond what is reachable is come across
  (`OnlyReachable`, for every closed set).
* **WinnerTraverses**: `OnceInv`: traversals of an object and the places where it waits are
  together no more than its claims (`Few`).

**PortraitsProofs** (`PortraitsAssumption`).

* **PoolIsEmpty**: a target is only in a texture that is registered (`Targets`), and no
  render runs across a release (`RenderingRight`).
* **LostComesBack**: a frame that shows a target is among the sources of its texture, so
  that a release defers its unit (`ShownRight`); inductive because a key has one handle and
  a handle one key (`HandlesRight`, `EntriesRight`).

**WorkerPoolProofs** (`PoolAssumption`), in four layers.

* **PoolTypesHold**: `PoolInv`: `active` counts the lanes between raise and lowering, and
  whoever has a job has one that was published.
* **TicketsOnce**: `ClaimInv`: what has been or is about to be worked on never exceeds the
  tickets used for it (`TicketsRight`), across the reset of the cursor (`CursorRight`), and
  a ticket used for its own job is not forgotten (`NothingDropped`).
* **JoinsCover, WalkIsAnimated**: `JoinInv`: a join that found the cursor past the end and
  then `active` at zero has nobody left with an item of its job.
* **SweepIsDebited**: `SweepInv`: as long as no ticket was stolen, what was freed is in the
  counter or with a lane that has not flushed it.

Only model-checked: liveness (`AcceptedIsDelivered`, `AlwaysAnswered`, `TypedIsSent`,
`OwedLineAppears`, `YieldedIsRead`, `JobsEnd`, `MarkTerminates`, `EverythingWritten`), as
fairness is out of the prover's reach. Every invariant, action property and refinement of
the passing runs has a theorem. The two properties that runs refute, `HeldLineAppears` and
`BuffersOutliveUse`, have none.

## 5. Findings

* **chat_turned_away.** With `replaceMode` a line whose request `Translate` turns away (cap
  reached, unsupported pair, refusal by the DLL) is never shown: the original has been
  swallowed, and only a queued request gets a safety-net entry (`WoWTranslate.lua:2894`).
  `API.lua:163-165` expects that the original is shown.
* **pool_late.** A worker that wakes after the particle join has drained raises `active`,
  finds `cur_epoch` unchanged (no other job has been published) and uses the view that the
  driver has freed (`hooks.rs:25087-25103`). The comments at 25092-25093 and 24213-24215
  say that the join keeps the view alive. The join sees that `active` is zero once, and
  nothing tells a late worker that its job has been joined; publishing an epoch with no
  job behind it, or counting the workers that copied the job, would.

### Remarks

Behaviour met while modelling which no property forbids, with how to see it:

* A stale participant can take a ticket of a newer job: it finds its epoch current, the join
  passes, the next job resets the cursor, and only then does it draw. It then works on its
  own job's item and the new job's item is left out. `Stolen = {}` is not an invariant of
  `WorkerPool` (two sweeps suffice). The comments at `hooks.rs` 22147-22149, 22166-22172
  and 22362-22364 say that `active`, raised before the check, excludes it; but the join may
  have looked before it was raised. `JoinCoversJob` and `FreedIsDebited` except exactly
  what was stolen. Besides, `gc_par_begin` resets the cursor before it stores `cur_epoch`,
  which makes the window of a participant that checks in between longer.
* "workers are parked" (`hooks.rs:22591`) holds only in the sense that no worker has work:
  one may still be looking at the empty injector. `PassComplete` shows that this is enough.
* A request that a callback makes while `ClearPending` traverses can stay pending with
  polling stopped (`API.lua:467-478`; 144 promises a callback). `CountTracksTable` and
  `AlwaysAnswered` except such runs; without `disturbedClear` TLC shows one.
* The health check sets `dllAvailable` although the worker is gone for good: the hook
  answers "pong" whatever became of it (`API.lua:87`, 349; `queue.rs:66`). Requests are
  then refused one by one, each with its callback.
* A line turned away as a duplicate of one that is in flight is never shown with
  `replaceMode`: the answer prints the asker's line only, once per frame
  (`WoWTranslate.lua:2854-2870`). Two players who say "hello" within one round trip give one
  line in the frame; 2891-2893 ("can be discarded") thinks of other frames of one message.
* A translation is posted in every frame registered for its text, whichever message
  registered it, under the prefix of the message that asked (`WoWTranslate.lua:2858-2866`).
  A frame that filtered this message, but shows another that says the same, gets the line
  all the same: while both are in flight, or after the DLL was unavailable, since the exit
  at 2817 comes behind the registration. "Frames that filtered the message ... must not
  receive the translation either" (2737-2739).
* When a shared translation fails, only the frame that asked gets its original back
  (`WoWTranslate.lua:2873`); 2890-2893 speaks only of the callback that brings one.
* A lookup that asked the client before a mount or an unmount and records its answer after
  the flush leaves a stale record (`hooks.rs:21695-21704`): "any lookup racing behind us
  re-derives" (21257-21258) does not cover it. `RecordsCurrent` excepts exactly those
  records; a flush generation compared at the insert would remove the exception.
* A replay checks an archive's handle at each step, not what is behind it: between the
  probe and the reference the archive may go and its handle come back for another.
* While the client has no graphics a portrait request is left to its own function
  (`win/portrait.rs:86-88`), which knows nothing of the registry: no source is recorded, and
  `LostIsRefreshed` excepts the frame (`blind`).
* A portrait handle that does not resolve to a texture yet is shown as a portrait of the
  client's own (`win/portrait.rs:118-126`: neither owned nor GPU): its unit is not observed
  and the frame not refreshed if the target is lost. `LostIsRefreshed` excepts such frames
  (`blind`).
* The name resolver meets a refusal twice, since `Translate` then both calls back and
  returns false: a watch is set up after the waiters were served
  (`WoWTranslate.lua:1161-1167`), which five seconds later may serve newer waiters of that
  name with the raw name; a guild's callback (1233-1241, not modelled) runs twice.
* A line may be posted before an older one of the same sender that waits for the name, when
  the DLL becomes unavailable in between: 1133-1136 come before the waiters are looked at.
* A zero that comes while the player is not found is swallowed whatever the slot holds, and
  nothing blanks it (`transmog.rs:278`, `win/transmog.rs:181-189`); the test
  `unbound_mirrors_swallow_zero_without_apply` (872-881) asks for that. `EmptiedSlotBlank`
  excepts it.
* A zero stamped after a flush has read the clock has a wrapped age and is taken by that
  flush at once (`transmog.rs:401`, `win/transmog.rs:435`; likewise the player's, 425). On
  one thread there is no such write. TLC shows one if `Takes` of PendingZeros is denied it.
* A parked item-field value of 0 is not applied when the restore arrives
  (`transmog.rs:258-263`, against 102): 0 is taken for "nothing parked".
* "The write itself is a no-op either way" (`transmog.rs:251-252`) is false when the player
  object was replaced while the zero was pending: the new descriptor need not show the
  value, and the restore is swallowed (`carried` in `PlayerFieldExplained`).

## 6. What is left out, and how

* Text, languages, formatting, hyperlinks, prefixes and the sender are abstracted: a text
  is a value, a translation the fact that it came.
* Durations are not compared with one another: a request is older than its timeout, or
  not. Whether 25 s exceed what three groups in one batch can take (10 s each) is a
  question for a model with a clock.
* `UnitXP` itself raising an error, and WIM whispers are not in AddonApi or ChatFrames.
  OutgoingChat leaves out which channels are translated, AFK answers, glossaries and the
  cut to 255 bytes.
* FileCache leaves out names too long to be cached and the resolver's return codes 2 and 3,
  which go to the original and are never recorded, and the lookups per sub-archive that the
  original makes through the hook while it runs (`hooks.rs:21501-21502`). Portraits leaves
  out what a pass draws, and what the client's own function does to a portrait record.
  LogWorker leaves out the worker's own reports and the retention of log files.
* Transmog leaves out the display refreshes with their cap of 16 units per flush, the
  seen-unit table, the time a write may take between its own clock reading and the lock, and
  the login before the token "player" names anybody.
* WorkerPool leaves out the consumption of particle entries by the batch pass (each has a
  deadline and a serial fallback), the chunk freelists and panics (a panic ends the
  process).
* Jobs do not nest: between a job's publication and its join the game thread runs client
  code, and no collection, particle pass or animation is assumed to start from there. The
  code assumes the same (`hooks.rs:25161-25170` guards particle passes against each other).
* GcMark leaves out weak tables, strings and what the mutator could do: the world stands
  still during a collection. Mark bits that are set for good are outside of its heap.

## 7. The plan

The order is by how much depends on the part and how hard it is to test.

1. `TranslationCache`, composed with ChatFrames.
2. `ParticleBuild`: publication, consumption with deadline and serial fallback, retirement.
3. `SeenUnits`, and a model of the three deadlines of the pipeline with a clock.
4. A refinement of AddonApi by ChatFrames' own view of it (`inFlight`, `nameRequests`), so
   that the API's word, which ChatFrames takes, is a theorem as it is for OutgoingChat.
