# A TLA+ verification project for mmap-io

mmap-io maps files into memory and lets many threads read and write them
through views, atomic views, copying reads and chunked iteration, with resizing
and automatic flushing. This directory holds TLA+ models of the parts of the
crate (`src/src/*.rs`) where steps of several threads, processes or system calls
interleave, or where a long sequence of calls may go wrong, the TLC configurations
that check them, and TLAPS proofs of their safety properties for every value of the
constants.

`PROJECT.json` is the machine-readable index: which definition models which
source lines (`map`), what each run checks (`runs`), the changed definition that
each property catches (`mutants`), disagreements between code and docs
(`findings`), the list of what is hard to test (`hazards`) and the proved
results (`theorems`).

## Inventory

| Component | State | Operations | Talks to | What is hard |
|---|---|---|---|---|
| View registry (`views.rs`) | shards of plain entries behind mutexes, the atomic set behind an RwLock, the counter `atomic_live` | `register_plain`, `register_atomic`, drops, `copy_out`, `touch` | called by every view, atomic view, read and iterator | lock-free fast path against a scan of the shards; undo of refused registrations; slots that are used again; a sweep over overlapping entries |
| Mapping (`mmap.rs`: `Inner.map`, `cached_len`) | RwLock around the raw mapping, cached length, file | `as_slice`, `as_slice_mut`, `update_region`, reads, `resize` | registry, raw layer | resize replaces what views point into; several fallible system calls in a row; recursive read locks beside a waiting writer |
| Flush accounting (`mmap.rs`, `flush.rs`, `iterator.rs`, `atomic.rs`) | `written_since_last_flush`, `writes_since_last_flush`, policy | write paths, `count_update`, `flush`, `flush_range` | mapping lock, msync | counters read and written outside the lock; restore after a failed msync; panicking closures |
| Timed flusher and handles (`flush.rs`, `mmap.rs`) | Arc count, stop flag, condition variable, worker thread | clone, write, flush, drop, `unmap`, worker loop | flush | lost wakeups, self-join, upgrade of a weak reference during drop |
| Opening and creating (`mmap.rs` builder) | the path, the file, its length | `open_or_create`, `create_new`, `open`, `create` | file system, other processes | check-then-act over several system calls |
| Raw mapping (`raw/`) | base, delta, length, OS length, kind, backing | `map`, `map_mut`, `map_copy`, `map_anon`, `flush`, `advise`, `lock`, `make_mut`, `make_read_only`, drop | operating system | rounding to pages and huge pages; empty mappings; conversions that fail after the handle was consumed |
| Range arithmetic (`raw/range.rs`, `utils.rs`) | none | `resolve_len`, `layout`, `flush_span`, `slice_range`, `align_up` | everything | overflow and boundaries |
| Iterators (`iterator.rs`) | cursor, pinned guard | `next`, `size_hint`, `drive`, `for_each_mut` | registry, mapping lock, accounting | registration of items one at a time, early ends, the length while the iterator lives |
| Atomic views (`atomic.rs`) | registration, guard | `atomic_u64` and friends, drop | registry, accounting | alignment and saturating bounds, counting on drop |
| Segments (`segment.rs`), reader (`MmapReader`) | range; position and buffer | read, write, seek, `fill_buf` | mapping | staleness after a shrink, also one between the two halves of a read |
| Copy-on-write handles (`mmap.rs`) | private pages | the write paths of a shared mapping, `advise(DontNeed)` | raw layer | a store that reaches the file; pages dropped under a view |
| Watch (`watch.rs`) | watcher, channel, dispatcher thread | `watch`, drop | `notify` crate | a callback in flight when the handle is dropped, a drop inside the callback, a panic |
| Anonymous mapping (`anonymous.rs`) | mapping, registry | the same views without a file | registry | views of all kinds created and dropped in any order |
| Advice, page locking, manager | none | range checks around one system call or one call of the handle | operating system, mapping | the range against a mapping that changes |
| Huge pages, smaps, errors | none | hints, a parser, formatting | operating system | nothing that a model adds to |

What makes the components correct: a plain view and an atomic view never share a
byte and atomic views of one byte have one size (registry); a view's bytes stay
mapped and backed by the file for as long as it lives, and a failed resize
leaves the mapping, the bytes and the file length that belong to the call that
failed (mapping); nothing that is dirty is forgotten, Ok
means durable, and policies act (accounting); drop and unmap end, and no flush
touches a mapping that is gone (flusher); a file with bytes keeps its length
(opening);
every page mapped is unmapped once, windows show the bytes asked for and
protections and durability survive every conversion (raw layer); whatever the
history, a call answers what a plain vector of bytes would (handle, segments,
reader, iterators); events arrive once, in order and never after the drop
(watch).

## Modules

Each module's header says what its constants and variables are. Actions are
named after the function or the step of the function they model; where the code
has a name for a thing the model uses it (`atomic_live`, `cached_len`,
`written_since_last_flush`, `record_write`, `set_len`). Failures of system calls
are choices of the action that makes the call.

* `RwLock` - the external parking_lot lock as records of readers and writer, with
  `read_recursive`, `write` and `downgrade`.
* `ViewRegistry` - `views.rs`, one step per lock or atomic operation. A shard is
  a set of entries; requests are slices, items of an iterator (which turn into a
  copy when refused), copies and atomic views. `MCViewRegistry` gives ranges
  that overlap, touch and are empty.
* `FlushAccounting` - counters, policies, flush with its undo. Bytes are blocks,
  `dirty` while memory and disk differ. msync writes blocks one at a time while
  atomic views go on storing. History variables: `due` (what a call promises to
  have written), `owed_bytes` and `owed_writes` (counts that the code lets pass
  without looking at the policy), `abandoned` (blocks a panicking closure left).
  The worker of EveryMillis calls `flush` as any thread does and has no action of
  its own here.
* `MappedFile` - the mapping's lock, views, reads, stores and resize, as compiled
  for Unix and for Windows. Every system call of resize is a step that works or
  fails, and the step where resize ends (`Outcome`) tells how it ended. `content`
  says which bytes were written, so that lost data shows.
* `OpenCreate` - `open_or_create`, `create_new` and `open` by callers that do not
  know of each other, each with a size of its own, one step per system call. A
  removed path keeps its file alive for those who have it open. History: `since`
  (removals before the call) and `late` (callers that opened a settled file, one
  with bytes that nobody has seen empty and is about to size).
* `FlusherLifecycle` - Arc handles, the weak reference of the worker, its mutex
  and condition variable, drop and `unmap`, and what the worker is for: stores that
  are counted later, flushes of the worker and of users that take the count, fail
  and give it back. There are dirty bytes or not, and the counter is zero or not;
  which bytes, and the map lock, are left to `FlushAccounting`.
* `RawMapping` - the raw layer and its three backends over a page table: what each
  virtual page shows, how it is protected, which mapping it belongs to. The
  backends are operators of their own (`unix_flush`, `windows_flush`, ...), the
  `os_` operators choose between them. A `Result` is a set with one element or
  none. History: the offset asked for and the lock state of a handle (fields `off`
  and `pinned`), `wrote` (private pages written), `last` (result of the last
  call). `MCRawMapping` gives the sizes.
* `Watch` - `watch`, the channel, the dispatcher thread, the callback and the drop
  of the `WatchHandle`, by another thread or inside the callback. The notify crate
  is external: it may report anything. History: `sent` and `delivered`.
* `FileModel` - what a handle promises, as the fuzz target `managed_ops.rs` states it:
  a vector of bytes, and a call that succeeds exactly when its range lies inside.
  It adds the mode of the handle, the file behind it, a reader and an iterator.
  Its numbers are unbounded, so it knows nothing of overflow.
* `Handle` - `MemoryMappedFile` with its three variants Ro, Rw and Cow, the length
  behind the lock and the cached one, private pages, and every call as one step;
  u64 ends at `UMax`. `ByteSeq` has the operators on bytes the two share.
* `Managed` - a `Handle` with a segment, a reader or a chunk iterator. The calls of the
  reader that read the length first and copy later are two steps. `Model` maps it
  onto `FileModel`.
* `ViewRules` - which views of a mapping may live together and how its bytes may be
  read meanwhile, stated over the live views alone.
* `Anonymous` - `AnonymousMmap` over the registry as it is built: slabs with free
  lists, the vector of atomic entries with `swap_remove`, the sweep of `copy_out` and
  `touch`. A call is one step here; `ViewRegistry` has the steps inside. `Rules` maps it
  onto `ViewRules`.
* `ViewRegistryProofs`, `FlushAccountingProofs`, `MappedFileProofs`,
  `OpenCreateProofs`, `FlusherLifecycleProofs`, `RawMappingProofs`, `WatchProofs`,
  `AnonymousProofs` - inductive invariants, theorems and proofs, one module for each
  component.

The two registries complement each other. `ViewRegistry` splits each call into its
atomic steps and abstracts a shard to a set; `Anonymous` keeps the data structure
and takes a call as one step. For what is granted, and for copies, `ViewRegistry`
justifies that: its properties hold at every step inside a call. For refusals it does
not: two requests that overlap in time may each see the other and both be refused, as
`views.rs:55-56` says, where one after the other would have been granted. `KeepsRules`
is about calls that do not overlap in time and says nothing of such refusals. In the
same way `MappedFile` and `FlushAccounting` have the steps inside `resize` and `flush`
that `Handle` takes as one; `Handle` lets a resize that fails leave the file longer, as
the failed undo in `MappedFile` does.

Operators whose comment begins with "Defect" (for example
`ScanShard_SkipsLast`) are variants of the action they stand before, each with
one plausible bug (`mutants` in `PROJECT.json`). No specification uses them; putting one in the place of the
original shows that the property it is meant for would notice the bug.

## Runs

| Run | Bounds | What it shows |
|---|---|---|
| `ViewRegistry` | 3 views or copies, 2 shards, 2 plain and 3 atomic ranges (overlapping, adjacent, empty), 2 element sizes | exclusion, no mixed sizes, race-free copies, no leaks, `CallsReturn` |
| `FlushAccounting` | 2 calls or views, 2 blocks, policies Always, EveryBytes(2), EveryWrites(2), 1 failing msync, 2 pending bytes when a call starts | `ForgottenOnlyByPanic`, `NeverUndercounts`, `DurableOnOk`, `PolicyActs` |
| `MappedFile` | 2 threads, lengths up to 2, both platforms, any system call may fail | `ViewsBacked`, `LenConsistent`, `ResizeOutcome`, `ReadsReturn` |
| `MappedFileWindows` | 1 thread, lengths up to 2 | violation: see findings |
| `OpenCreate` | 3 callers, two sizes, 2 files, a path that is missing, empty or has bytes in the beginning, sizing, mapping and removing may fail | `SettledFilesKept`, `LateOpenersBacked`, `GivesUpOnlyAfterRemoval` |
| `OpenCreateRace` | 2 callers of `open_or_create`, two sizes, an empty file | violation: see findings |
| `FlusherLifecycle` | 3 threads with handles and the worker, 1 failing msync | `FlushOnMapped`, `FileReturnedAlone`, `DropReturns`, `WorkerStops`, `EventuallyDurable` |
| `RawMapping` | 1 handle used again and again, pages of 2 bytes, granularity and huge pages of 4, a 4-bit usize, files of 0, 5 and 8 bytes opened read-only or read-write, 4 targets, any system call may fail | `ExactlyOwned`, `WindowExact`, `ProtectionMatches`, `SpanContract`, `FlushDurable`, `PrivateKept`, `LockCovers` |
| `Watch` | 3 events of any kind, errors included | `DeliveredInOrder`, `NoCallbackAfterDrop`, `WatchStops`, `EventsDelivered` |
| `WatchSelfDrop` | 2 events | violation: see findings |
| `Managed` | files of up to 3 bytes, pages of 2, offsets up to 4 where sums overflow, buffers of up to 2 bytes, any call may fail | `ImplementsModel`, `PrivateStaysPrivate` |
| `Anonymous` | 3 views, mappings of up to 4 bytes, elements of 2 and 4 bytes, offsets up to 6 where sums saturate | `RegistrationsMatch`, `NoConflict`, `KeepsRules` |

The two refinements are the widest runs. `ImplementsModel` (`Managed` against
`FileModel`) compares every answer, byte for byte and error for error, with the
vector the fuzz target compares with, where the detailed model has overflow, stale
lengths, guards and private pages and the abstract one has none of them.
`KeepsRules` (`Anonymous` against `ViewRules`) says that each request is granted or
refused by the views alive and by nothing that happened before, and that a copying
read meets each byte once, in order, plainly exactly where no atomic view lives.
Both compare answers: a call records its arguments and its result in `answer`, the
abstract specification reads the arguments from there and says what the result may
be. No action reads `answer`, so both runs leave it out of the state with VIEW;
TLC evaluates the refinement on every step it generates, those to known states
included. One answer is looser than the fuzz target's: a read of the reader may be
short, as `Read` allows, where a `Cursor` fills the buffer. `Anonymous` also leaves out the ids of atomic entries, which only tell
entries apart: a view's id is replaced by the position of its entry.

Why the bounds are enough. In the registry every conflict is between two
requests; the third is there to be in the middle of something else (a copy that
holds the lock, an atomic view that is being scanned for), and two shards let a
view be in the shard that was scanned already or in the one that was not. In the
accounting two blocks tell "some of the bytes" from "all of them" and a threshold
of two lies between one call and two. In the mapping two threads are a resizer
and an owner of a view, and lengths 0, 1 and 2 give grow, shrink and the empty
placeholder of Windows. Three callers are needed in `OpenCreate` for one to
create, one to remove and one to lose both races; two sizes let one caller cut what
another has mapped, and the second file is the one created after a removal. In
`FlusherLifecycle` three threads are one that writes, one that flushes and fails, and
one that drops or unmaps, beside the worker. In `RawMapping` handles share
nothing but the page table, so one handle, placed before pages of others, meets
all there is; `MAX_LEN` is 7, less than the largest file, and offsets and lengths
lie on, before and after pages, granules, the end of the file, `MAX_LEN` and
`usize::MAX`. Writes go to the first and to the fourth byte of a window, which
are in different pages. Three events in `Watch` are one in the callback, one queued
behind it and one after. In `Managed` three bytes are a whole page and a part of one,
a buffer of two is shorter than the mapping, and at most one object lives at a time:
objects share nothing but the handle, which the other thread's calls change in
every way. `Anonymous` has one slab: three views in it free and reuse slots in every
order, and which shards are scanned is `ViewRegistry`'s question; four bytes hold two
small elements, one large one, and views that nest, touch and overlap.

`MaxPending` and `MaxFailures` (accounting, flusher), `MaxFiles` (opening) and `MaxEvents`
(watch) are the only bounds on counters; they are guards, and the proofs hold for every
value of them. `OpenCreate`, `FlusherLifecycle` and `Watch` do not check for deadlock: in the
first a caller that would need one file more than `MaxFiles` stops, in the second
everything ends with the mapping, in the third a watch waits for events and a
dropped one has ended. `RawMapping` states no fairness: its calls
never wait.

## Fairness

* `ViewRegistry`: threads run and parking_lot starves no thread, so the steps are
  strongly fair. A writer that waits keeps later `read()` calls out (the registry
  takes its lock with plain `read`), which is stated as: a writer does not wait
  for ever while copies begin again and again. Without that assumption
  overlapping copies starve a writer, which TLC shows with three views. That the
  copies end and release the lock is not assumed. No call and no drop is fair. The
  mutex of a shard is taken and released within one step, because nothing else is
  locked while it is held: `CallsReturn` would not show an order of locks
  between a shard and the atomic set that a change of the code might invert.
* `MappedFile`: reads are strongly fair in getting the lock, calls go on, mutable
  slices are dropped. Reading views need never be dropped: that is the point of
  `ReadsReturn`, which is about recursive reads beside a resize that waits for
  ever.
* `FlusherLifecycle`: threads run, calls that were made return, views are dropped and
  counted, and the mutex starves nobody. The timeout of the worker is not fair, so
  drop must not depend on the interval; `EventuallyDurable` names that the interval
  keeps passing as its hypothesis. No failure is fair and the number of failures is
  bounded; a disk that always fails never makes anything durable.
* `Watch`: the dispatcher runs, a callback returns or panics, a drop that began goes
  on and the backend ends when its watcher is dropped. No event and no drop need ever
  happen. Callbacks that never return would block the drop, as the docs say.

## Proofs

Every safety invariant that a passing run checks is also a theorem, and so are the
action property `SettledFilesKept` and the refinement `KeepsRules`. A theorem holds for
every value of the constants that the named ASSUMEs allow: any number of views,
threads, callers, handles or shards, any lengths, page sizes and bounds. Each proof
has the same form: an invariant `IInv` that the initial states satisfy and each
action keeps, one lemma per action, and the properties as consequences of it. Why
each `IInv` is stronger than the properties:

* `ViewRegistryProofs` (`PlainAtomicExclusion`, `NoMixedSize`, `CopyRaceFree`,
  `NoLeakedEntry`, `LiveCountExact`). The heart is `ScanInv`: an atomic registration
  that has announced itself and has scanned the shards below `scan` can only miss a
  plain view of its range if that view is still before its check of the atomic set,
  which it cannot pass while the registration holds the write lock. Around it,
  `CountInv` ties the counter to the set of announced views (so that a plain view
  that reads zero knows that there is none), `LockInv` says who holds the lock,
  `EntryInv` and `PlainInv` tie entries to their owners and `CopyInv` says that the
  spans a copy collected are still those of the set.
* `FlushAccountingProofs` (`ForgottenOnlyByPanic`, `DurableOnOk`, `PolicyActs`,
  `NeverUndercounts`). `ForgottenOnlyByPanic` is inductive with the types because
  `Carries` names everybody who may still answer for a block: a writer before its
  count, a flush between its swap and its sync, a failed flush before its restore.
  `DurableOnOk` needs `DueInv`: what a flush owes is part of what its msync has yet to
  write. `NeverUndercounts` compares a number with the size of a set, and no sum over
  the calls is inductive: a block may be counted twice, or be written back by one call
  and counted by another. `Accounted` says instead that there is an assignment of blocks, those
  the counter stands for and those each running flush took with it, in which
  every dirty block has somebody who answers for it and no number is smaller than its set.
* `MappedFileProofs` (`ViewsBacked`, `LenConsistent`, `ResizeOutcome`). `GuardsMatch`:
  the guards that are out are those of the views and of the calls inside the lock, at
  most one of them writes, and then nobody reads; so a resize that is inside runs
  alone. `ResizeStep` says for each step of resize what is true of mapping, file and
  bytes there, the length of the file included, and so what the system call that fails
  next leaves behind. `ZeroTail` is
  what makes a grow after a failed grow correct: the tail the first one may
  leave in the file is all zeros (on Unix also between mapping and end of the file).
* `OpenCreateProofs` (`GivesUpOnlyAfterRemoval`, `SettledFilesKept`,
  `LateOpenersBacked`), for callers with any sizes. A second pass begins only after
  somebody created the file, so a path that is empty again was emptied since the call
  began (`SecondPass`, `GaveUp`). A settled file is one with bytes that nobody is about to
  size; whoever comes to `set_len` has created its file or has seen it empty, so no
  settled file is among theirs and none becomes one of theirs: it stays settled, and a
  length read from it is never stale.
* `FlusherLifecycleProofs` (`FlushOnMapped`, `FileReturnedAlone`, and the invariant
  `NoLostWakeup`). `Counted`: the strong count is the number of references held, so the last
  reference is the last one; `DroppedLast` and `UnmapOrder` order the end of the worker, of
  the mapping and of `unmap`; `Shutdown` says that the worker holds the mutex when it
  decides to wait, from which nobody ever joins a worker that waits or is about to.
  A store, a count and a flush keep the reference they run under (`DataInv`).
* `RawMappingProofs` (`ExactlyOwned`, `WindowExact`, `ProtectionMatches`,
  `SpanContract`, `FlushDurable`, `PrivateKept`, `LockCovers`). `Shape` and `BelongsTo`
  tie each handle's numbers (base, delta, length, rounded length) to the
  entries of the page table, `Apart` says that nothing else is mapped, `Access` that what
  stores can reach the file through is flushed. The lemmas on `layout`, `flush_span` and
  rounding state what these helpers return for every page size, granularity and
  huge page size.
* `WatchProofs` (`NoCallbackAfterDrop`, `DeliveredInOrder`, and the invariant `JoinEnds`).
  `Told`: after the send the dispatcher has ended or the message waits for it; `SelfDrop`:
  a drop inside the callback keeps the receiver alive meanwhile. For the
  order, `Queued` says that the queue is what was sent and not taken yet, and `CalledForAll`
  that each message taken that was due had its call.
* `AnonymousProofs` (`RegistrationsMatch`, `NoConflict`, `KeepsRules`). `SlabFits` and
  `EntriesFit` tie slots and entries to their owners one to one, the free list
  included; `Formed` and `Locked` say what a live view looks like and who has the guard.
  The refinement is proved for every call. A request that the registry grants or refuses by its slots
  and entries is granted or refused by the live views (`ConflictsFound`); `touch` reads
  each page in the way its views allow; `SweepRight` is the correctness of the loop of
  `copy_out`: after every round the bytes up to the position were read once each,
  plainly exactly where no atomic view lives, and no entry already met reaches beyond
  the position. The provers have no induction over data, so
  this is proved by least counterexample: `Smallest` takes the first round that went wrong
  from the well-foundedness of the numbers, and `OneRound` shows that a round after one
  that went right goes right.

Assumptions: the named ASSUMEs on constants only. Finite sets of views and blocks,
at least one shard, well-formed ranges, policies and platforms; in `RawMapping`,
sizes and arguments that are natural numbers, a granularity and a huge page that are
multiples of the page, and addresses that are multiples of both; in `Anonymous`,
`MAX_MMAP_SIZE` below `u64::MAX`. TLC evaluates them in each run.

Each of these invariants was also given to TLC as an invariant of the run of its component
before it was proved (the largest, `Accounted` with its types, over 3.9 million states).
They are no run of their own: the theorems say more.

What the proofs changed in the models. Two CASE expressions, in `ViewRules` and in
`Handle`, had arms that overlap, where TLC takes the first and the logic leaves open
which; their arms are disjoint now. The sweep of `copy_out` is a recursive function over
its rounds, and `DeliveredInOrder` counts messages by their rank, because folds and
filters of sequences cannot be reasoned about. `NoConflict` was needed for the
refinement and is what a caller relies on, so that it is checked by the run as well.

Only model-checked:

* Liveness, which the prover does not reach: `CallsReturn`, `EventuallyDurable`,
  `ReadsReturn`, `DropReturns`, `WorkerStops`, `WatchStops`, `EventsDelivered`. Of
  `DropReturns` and `WatchStops` the safety part is proved: `NoLostWakeup` and
  `JoinEnds`.
* `ImplementsModel` and `PrivateStaysPrivate` of `Managed`. They compare byte sequences
  call by call over two large modules; the sequences are built with
  `SubSeq` and concatenation at every call.
* `MappedBacked`, `FailedGrowKeepsBytes` and `NoFurtherCallback` are false, as the three
  violation runs show.

## Findings

1. `MappedFileWindows`. On Windows a shrink may lose the mapping: its remap fails after
   the file was truncated (documented: the mapping is empty until a later resize
   succeeds), or `set_len` fails and the old mapping cannot be restored either
   (`mmap.rs:1133` says without condition that it is). The next resize is a grow from
   length 0; when it fails it puts the file back with `set_len(0)` (`mmap.rs:1227`) and
   all bytes of the file are gone.
2. `OpenCreateRace`. Two calls of `open_or_create` see the same file empty; one sizes
   and maps it, then the `set_len` of the other, with a smaller size, truncates it under
   that mapping (`mmap.rs:2769`). The doc (`mmap.rs:2602-2606`) says that the file is
   never truncated and that racing processes cannot truncate each other's data. A file
   that was just created, by `create_new` or by `open_or_create`, is empty as well
   until its creator sizes it. What holds is checked by `OpenCreate`: a file that has
   bytes, and that nobody has seen empty, keeps its length.
3. `WatchSelfDrop`. A callback that drops its own `WatchHandle` puts the shutdown message
   behind what is queued (`watch.rs:99`), and the dispatcher delivers that first. The
   docs say that no callback runs after the drop returns (`watch.rs:11-13`) and that
   the thread exits when the callback returns (`watch.rs:77-79`). `EventsDelivered`
   takes no side: it leaves out what is queued when a callback drops the handle.

## Observations

Behaviours of the models that a reader of the docs would hardly expect. No run is
devoted to them; each shows as a trace when its negation is given to TLC as an
invariant.

* `for_each_mut` counts its bytes after the loop (`iterator.rs:346`); a closure that
  panics leaves written bytes that `pending_bytes` does not count, and under
  EveryMillis nothing flushes them. `ForgottenOnlyByPanic` says that nothing else
  leaves such bytes. The doc (`iterator.rs:360`) says that every byte handed to
  the closure counts.
* `create_new` removes the path when it fails after the exclusive create
  (`mmap.rs:2572`); another caller may have opened, sized and mapped the file by
  then.
* `unmap` of the only handle returns Err while the worker of EveryMillis holds its
  upgraded reference (`mmap.rs:1526`); the doc names other clones as the only
  reason.

## Not modelled

* Errors of `metadata` and of the spawn of the worker change nothing and are left out.
* `MappedFile` leaves out the validation of sizes (zero, too large for the
  platform), which happens before any state changes; `Handle` has it.
* Stores through `as_mut_ptr` are the caller's unsafe code; the count made when
  the pointer is handed out is modelled.
* Memory ordering: the registry's counter is SeqCst and everything else is
  behind locks, so interleaving is the memory model.
* The async forms run the same call on another thread; those whose result depends on
  it (`update_region_async`) are in `FlushAccounting`.
* Huge pages of file mappings (a hint), smaps (a parser of `/proc` text), error
  formatting, Debug and comparison traits, the accessors of paths and descriptors.
* `copy_mmap` and `delete_mmap` of the manager, one `std::fs` call each.
* A page size or granularity that is not a power of two: the constructors refuse
  it like any failing call of the OS.
* Another process that changes a mapped file: the docs leave what a mapping then shows
  open. `OpenCreate` has other processes while files are created.

## Plan

The components are modelled and their safety invariants are proved. What is left:

1. `Managed`: `PrivateStaysPrivate` as an invariant of `Handle` (the file changes only
   through a shared writable mapping), then the calls of `Handle` as steps of `FileModel`,
   those without a second step first.
2. The safety parts of the other liveness properties, as `NoLostWakeup` is for
   `DropReturns`: no cycle of waiting threads in `ViewRegistry` and in `MappedFile`.
3. The named lemmas on pages and on spans of `RawMappingProofs` for `align_up` and
   `ensure_in_bounds`.
