# Formal models of abgen's concurrent core

abgen converts the content of Decentraland entities (scenes, wearables, emotes) into Unity
asset bundles.  Most of its code is a sequential transformation of data, whose correctness is
byte parity with Unity and is tested as such.  Around it sits a smaller part whose correctness
is about order, sharing and failure: an asset-bundle server that builds what it is asked for
and cannot find, its disk cache, in-memory caches shared by threads, a corpus converter that
uploads what it builds, and a queue-driven lambda.  This directory models that part in TLA+.

Paths below are relative to the repository.  Every definition that models code is listed with
its lines in `PROJECT.json` under "map".

## Inventory

| part | state | operations and interactions | what is hard |
|---|---|---|---|
| JIT build lane, `crate/src/abcdn/handlers/jit.rs` | `jit_inflight` (key to lock), `jit_fail_cache`, build semaphore, files under the JIT root | a request takes its key's lock, re-checks, spawns a detached task that owns lock, permit and pin; entries of the map are removed by reference count | clients disconnect at any await; removal races with newcomers; checks are made steps before the build starts; the object store lane writes, and a revalidation removes, the same files without the lock |
| JIT disk cache, `crate/src/jitcache.rs` | entries with bytes, references and tick; recency index; running total; clock; a deleter thread | `pin`, `record`, `touch`, `seed_many`, eviction with rename-then-delete; used by every lane that writes | four structures kept in step; sizes measured outside the mutex; deletion after the mutex is released; files removed under an entry, or written with nobody left to record them; restart |
| single-flight group, `crate/src/singleflight.rs` | map of calls, a result and condition variable per call | `run_with_leader`; used by the encode cache, the decode cache and catalyst fetches | panics, spurious wakeups, the window between publishing and unlisting |
| texture encode cache, `crate/src/texencode_cache.rs` | LRU store bounded by bytes, flights, disk store | `get_or_encode_shared`, `clear` | look-then-fly race, retry by waiters with a one-shot closure, accounting across `clear` |
| image decode cache, `crate/src/decode_cache.rs` | as above, without disk or retry | `get_or_decode` | a leader's failure is shared |
| corpus conversion, `crate/src/live.rs` | corpus directory, object store, work list, manifest | probes, converter threads, upload pool, drain, manifest, publication | shared names, leftovers of earlier attempts, partial failure, crash |
| upload pool, `crate/src/upload.rs` | bounded channel, workers, failure report | `enqueue`, `drain`, `ensure_ok` | back pressure, retries, a pool nobody drains |
| content fetch and keyed locks, `crate/src/live.rs` | lock table with a cap, entity contexts, content files | `ensure_content`, `entity_ctx`, `bundle` | a lock may be dropped from the table while held |
| revalidation, `crate/src/live.rs`, `handlers/fresh.rs` | digest files, `revalidate_inflight`, `revalidate_recent` | fetch, compare, store, write digests, forget the context, prune; called by every manifest request | races with threads that fetch, scan and build; what interrupts digests and pruning; a dropped request; lost digests |
| resolution, `crate/src/abcdn/serve.rs`, `state.rs`, `handlers/dispatch.rs` | `resolve_cache`, negative caches, the files | `serve_lookup`, `resolve`, `bundle_fallback`: object store, build lane, second lookup | answers remembered after they ceased to be true; a file evicted between lookup and open; a build that succeeds without the file |
| LOD lane, `crate/src/abcdn/lodjit.rs` | its own table of running conversions | submit, coalesce, time out, invalidate | an abandoned entry |
| entity index and eager builds, `handlers/entities.rs`, `index.rs` | queue of eager builds | enqueue on a listing | queue bound checked early |
| conversion lambda, `lambda/src/` | a message's deliveries, manifests, Redis markers, what the registry was told | check for converted platforms, convert, forget, notify; tombstones on the last delivery | redelivery after part of the work, jobs of one entity side by side, markers that outlive a manifest |
| reuse cache and object store client, `rediscache.rs`, `space.rs` | remote | hit, mark, head, get, put | errors, puts whose outcome is unknown |
| registry, queues, content store, `crate/src/registry`, `crate/dcl-contents` | databases | HTTP handlers | external transactions |
| builder, encoders, GPU, LOD geometry, fonts, wrappers | none that outlives a call | data transformation | numerical parity |

What makes each part correct:

* **build lane**: at most one build of a key at a time; nothing is built that has just failed
  or that was there when its caller looked; every connected caller is answered; a build whose caller left still frees what
  it holds.
* **disk cache**: the total is the sum; the index mirrors the entries; a key's references are
  its guards; a pinned tree keeps its files whatever is evicted; the eldest unpinned go first, as many as needed.
* **single flight**: one leader per key; no lost wakeup; every run returns, panics included.
* **encode cache**: bytes are accounted within the budget; a remembered key is not encoded; no
  caller is given another caller's failure; a leader has its closure.
* **corpus**: a published manifest lists only bundles that are in the store; no item is lost;
  every attempt ends.
* **revalidation**: no conversion outlives the bytes it was made from; what later builds start
  from is not older than the digests; revalidation catches up with the content server.
* **resolution**: a name that builds make is not remembered as unbuildable for ever, nor without
  a cause.
* **lambda**: store and registry agree on every platform; a marker vouches for a good manifest.

`PROJECT.json` lists the hazards one by one, with the properties that cover them and, where
none does, the reason.

## Modules

| module | models |
|---|---|
| `KeyedBuild` | abstract: what a keyed build lane promises |
| `JitBuild` | `jit_build_entity`, `remove_jit_inflight`, the detached task |
| `JitBuildProofs` | proofs about `JitBuild` |
| `LruStore` | abstract: known keys in an order of use, with sizes and pins |
| `JitDiskCache` | `jitcache.rs` and the lanes that write, measure and record |
| `JitDiskCacheProofs` | proofs about `JitDiskCache` |
| `SingleFlight` | `Group::run_with_leader` |
| `SingleFlightProofs` | proofs about `SingleFlight` |
| `EncodeCache` | `get_or_encode_shared` over an instance of `SingleFlight` |
| `EncodeCacheProofs` | proofs about `EncodeCache` |
| `CorpusBuild` | `build_entity_into_corpus` with the upload pool |
| `CorpusBuildProofs` | proofs about `CorpusBuild` |
| `Revalidate` | `revalidate_if_stale`, `refresh_entity_content`, `prune_stale_bundles` and the threads they race with |
| `RevalidateProofs` | proofs about `Revalidate` |
| `ServeResolve` | `dispatch_local`, `resolve`, `bundle_fallback` and the caches they remember in |
| `ServeResolveProofs` | proofs about `ServeResolve` |
| `LambdaJobs` | `instrumented_job`, `convert_asset_bundles`, `output.rs`, `send_finished` for one entity |
| `LambdaJobsProofs` | proofs about `LambdaJobs` |
| `MC...` | constants of the small instances |

### JitBuild

A request is one call, used once, and goes through `pc`: `new`, `lookup` (take or insert the
key's lock), `waiting` (for the lock), `recheck`, `probe` and `spawn` (under it; the stat runs on
another thread, so its answer is a step old when the task is spawned), `awaiting` (its task),
`leaving` (about to remove the entry), `returning` (the clone of the lock is still alive),
`done`.  `gone` is a dropped future.  Its detached `task` goes through `queued` (for a permit),
`building`, `recording`, `unlocking`, `sending`, `exiting`, `ended`.  A lock is an `Arc`, named
by the request that created it; who holds a reference and who holds the guard is a function of
`pc` and `task`, so `strong_count(l) <= 2` in `remove_jit_inflight` is the operator `OnlyMine`.
Each await and each critical section is a step of its own.  `Cancel` drops a handler at any
await.  A build writes the probed file at some point of `building` (`BuildWrites`), or does not,
and then succeeds or fails whichever it was.
Eviction takes any set of entities nobody pins, so the module holds for every disk cache
that respects pins, which `JitDiskCache` shows of the real one.

Two other actors touch the same files and ask no lock.  `SpaceMaterializes` is the object store
lane (`space_materialize` in `bundle_fallback` and `flat_fallback`), which renames the file into
place under a pin that a dropped request takes along while the blocking write goes on.
`RevalidationRemoves` is `refresh_entity_content`, which removes the entity's directory whatever
is locked or pinned.  Two histories name their doings: `fetched` holds a key written by that lane
until the next probe misses it, `wiped` a key removed while it was in the making.  `KeyedBuild`
has both as steps of its own (`Bring` and `Wipe`).

`HandlerRef` counts a handler from its lookup on, not only from the moment it owns the guard:
the reference that a waiting caller's `lock` local holds is what keeps the entry in the map.

### JitDiskCache

One step per operation under the mutex, with `entries`, `order`, `total` and `clock` as in
`Inner`.  The victims of `evict_locked` are given as a set: an entry falls iff the older
evictable ones are not enough; that this is the loop's result is shown by the refinement of
`LruStore`, whose definition of the right victims is a different one (oldest first, enough,
and not one too many).  The order of use there is a relation on the known keys, which the index
shows through its ticks.  A client pins, writes (perhaps over a larger file), measures (outside the mutex), records and
unpins, in any order the lanes allow, or gives up; content files are written without a pin and
recorded afterwards.  `AbandonedWrite` is the object store lane's blocking write after its
request, and with it the pin, has gone; `RevalidationRemoves` is `prune_stale_bundles` and
`remove_dir_all`, without pin or record.  Two histories say what the accounts may then miss:
`loose` are trees with files whose writer gave up without a record, `shrunk` trees that became
smaller under their entry, until the tree loses its entry or is seeded afresh.  `doomed` are live paths that the deleter thread got because a rename
failed.  `Restart` is the death of the process and the seeding of the next one.

### SingleFlight and EncodeCache

A call is named by its leader while it is unfinished.  Joining reads the map; a waiter then
sleeps or takes the result, each under the call's mutex; publishing writes the result and
wakes; unlisting is a separate step.  `EncodeCache` instantiates the group with encodings named
by their keys and `Nothing` for `None`, and adds the store, the disk and the loop of the
caller.  A hit is answered in one step.

### CorpusBuild

One entity and platform, attempt after attempt.  Items are the entries left after names are
made unique; two of them may still be stored under one name (undecodable images fall back to
the bare name).  Converter threads look for the file, build, rename and enqueue; uploaders take
from the bounded channel and put with retries.  A hard error drops the pool without draining;
its uploads live on as `orphans`.  `leftover` records which files an attempt found, and exists
only for the properties.  `OtherEntityPuts` is the rest of the world: another entity's
conversion that uploads a bundle of the same name.

### Revalidate

One entity.  The bytes of a hash are a version; `remote` is what the content server answers,
`content` what is stored, `digest` the version whose digest the digest file has.  A conversion in
`conv` records the bytes it read and the scan of the models it was built with; the cached bundles
and the corpus directory are one set, since a refresh empties the second whenever it prunes the
first.  `refresh` is the thread of `refresh_entity_content`: `fetch` and `store` for each hash,
then the rename of the digests, `forget` (the context), `prune`, `done`.  It takes none of the
locks of the other threads, which are `fetching` (an `ensure_content` between its fetch and its
write) and `builder` (context, scan, insertion, reads, rename).  A hash that cannot be fetched is
left out of the new digests and so counts as changed the next time.  `CancelRequest` drops the
request and leaves `inflight`; the thread runs on.  `EvictDigests` is the disk cache that was
seeded with the directory of the digests.

`suspect` is a history: the hashes whose old bytes a thread held while they were replaced, and
what a restart kept from being pruned.  In these two cases the code does leave old conversions,
which the properties except by name and so show to be the only ones.  The memo tables of URIs
and of decode verdicts are left out.

### ServeResolve

A request for one path goes through `lookup` (`serve_lookup`), `consult` (`resolve_cache`), `stat`,
`remember`, `open`, and when it finds nothing `fallback`, `space`, `lane`, `probe`, `build`,
`invalidate` and back to `lookup`; `via` says what the lookup follows and so where a failed one goes on.  The answer of a
`stat` is put into the cache in a later step, whatever has happened since.  The build lane is
reduced to one lock, as `JitBuild` shows it to work; requests are not dropped here.  Eviction
takes the entity while nobody pins it.  A build that works makes all of `Makes` or, as a fault,
omits some (an item that failed); one that fails leaves any part of it.  A revalidation removes
files (`RevalidateRemoves`), then clears the caches (`RevalidateClears`), unless its request was
dropped in between (`RevalidateDropped`).  `excused` records paths that a working build omitted,
that an eviction or a revalidation took, or whose absence was remembered when they were there.

### LambdaJobs

The messages of one entity.  A `job` is what a running message does: `check` (each platform's
marker, then its manifest), `mark`, `convert`, `tombstone`, `notify`; `last` is the pass of
`tombstone_final_failure`.  `Fails` is an error, a panic or the death of the lambda at any of
these points.  Reads that fail count as "not converted", DELs and SETs of markers may be lost,
a manifest put of a conversion may be lost without a trace and a tombstone's may not.  A manifest
is its verdict (good, tolerated, tombstone), and the event of a platform is the verdict it
reports.  `disturbed` records that two jobs ran at a time or a put was lost, `outdated` the
platforms whose marker a write or a failed DEL left behind.

## Runs

| run | instance | shows |
|---|---|---|
| `jitbuild` | 3 requests (interchangeable), 1 key, 1 permit | exclusion, one lock per key, no wasted build, refinement of `KeyedBuild` |
| `jitbuild_live` | 2 requests, fairness | callers are answered, tasks end |
| `jitcache` | 2 trees, 2 lanes, budget 3, sizes to 2, clock to 5; lanes and trees interchangeable | types, accounted sizes, files of guarded trees |
| `jitcache_lru` | 1 tree and 2 content files that cannot be renamed, 2 lanes, same bounds; lanes and files interchangeable | total, index, references, refinement of `LruStore` |
| `singleflight` | 3 threads, 2 keys, fairness | one leader, no lost wakeup, every run returns, no deadlock |
| `encodecache` | 3 threads, 2 keys of weight 2, budget 3, one ask each, fairness | accounting, no double encoding, retries |
| `corpus` | 3 items on 2 names, 2 converters, 1 uploader, channel of 1, 2 tries, 2 attempts, fairness | the gate before the manifest, no lost item, termination |
| `corpus_retry` | as `corpus` | a violation, see below |
| `revalidate` | 1 model, 1 dependency, 1 building thread, 1 change, 1 fault, fairness | nothing stale is forgotten, sources are not behind, revalidation heals |
| `revalidate_stale` | as `revalidate`, no fault | a violation, see below |
| `serve_resolve` | 2 requests, a path that builds make and one they do not, 1 fault, fairness | what is remembered as unbuildable, that it ends, no deadlock |
| `lambda_jobs` | 2 messages, one forced, 2 platforms, 2 deliveries each | registry and store agree, markers vouch |

Bounds.  Three requests are the least with one who holds, one who waits and one who arrives
while the entry is being removed; one permit makes tasks compete.  Two trees of size 2 do not fit together into a budget of 3, so that records evict; in `jitcache`
the trees can be renamed, which is where pins have to protect them, and in `jitcache_lru` content
files that cannot be renamed add the deleter's work.  Symmetry is used in safety runs only: no
definition distinguishes callers, lanes or the keys of a kind.  `MaxClock` bounds the cache's ticks: five
steps are enough for two lanes to pin and record with an eviction in between, and a restart
starts again from the seeded clock.  Three threads give a leader, a waiter and a newcomer.  A
channel of one item and one uploader make converters block; `UPLOAD_RETRIES` is 3 in the code
and 2 here; two attempts are a failed one and its retry.  `jitbuild`, `jitcache`,
`encodecache` and `corpus` do not check deadlock because calls, ticks, asks and attempts are
bounded and behaviours end; `singleflight` is unbounded and does.  One change of bytes
(`MaxChanges`: once bytes have changed so often under one hash, none changes again) gives an
old and a new version, one fault each way in which a refresh is interrupted; two faults were
checked as well (two million states) and found nothing more.  A fetching thread, a building
thread and the refresh are three that race.  Two requests are one that answers from before a
build and one that builds; one bundle is enough, since each is looked up, omitted, removed and
remembered on its own; the fault is a partial build, a failed one, an eviction or a revalidation.
Two faults, and for the invariants three, were checked as well (a million states) and found
nothing more.  Two
messages are one that is forced and one that is not, or a delivery and its repetition; two
platforms make half-done jobs, and two deliveries the one that is redelivered and the last.
`revalidate` and `lambda_jobs` do not check deadlock: their faults and messages
are bounded, and in the first nothing is obliged to happen once all is quiet.  `serve_resolve`
does, since anyone may ask again.

The runs say nothing about larger instances; for all but liveness the proofs below do.

### Fairness

* `JitBuild`: weak fairness of handlers and tasks, which are tokio tasks; strong fairness of
  acquiring the lock and the permit, since tokio's mutex and semaphore are FIFO.  Builds are
  assumed to return.  No fairness of arrivals, cancellations, expiry or eviction.
* `SingleFlight`, `EncodeCache`: weak fairness of every thread; the work is assumed to end.
  `EveryCallerAnswered` needs the number of callers to be finite: with an endless supply of
  callers whose encodes fail, a waiter could be overtaken for ever.
* `CorpusBuild`: weak fairness of the attempt and of each thread; builds and puts end, one way
  or the other.  None for crashes, starts and other entities.
* `Revalidate`: weak fairness of the refresh, its request and the debounce's expiry, and of
  manifest requests, without which nothing is revalidated.  None of fetching and building
  threads, changes, evictions or failures.
* `ServeResolve`: weak fairness of each request, strong fairness of entering the build lane
  (tokio's FIFO mutex), weak fairness of the time to live.  None of arrivals and evictions.

### The violations

**A retry lists what never landed.**  `upload.rs:29-30` calls its gate "Hard gate before the corpus manifest: a manifest must never
advertise a bundle that did not land".  The gate looks at the uploads of one attempt.  An item
whose file is in the corpus directory already is not uploaded (`existed`, `live.rs:1381` and
`1408`) but is listed.  `corpus_retry` finds the shortest way: an upload fails, the manifest is
withheld, the retry finds the file, uploads nothing and publishes.  The same happens after a
crash.  `ManifestHonest` is what the code does guarantee: a listed bundle is in the store unless
its file was there before the attempt.

**An image keeps an old model's verdict.**  `README.md:135` promises of content digests to "prune
stale conversions when bytes changed under an unchanged hash".  A standalone image is built with
a colour space and flags that the scan of the entity's models decides (`live.rs:799-809`), but a
model that changes takes only its own bundles with it (`live.rs:1633-1640`, `1717`).
`revalidate_stale` needs no fault: convert the image, change the model, revalidate.  The same cell goes on to
name what else goes with changed bytes, "every glb bundle of the entity" when a texture or buffer
changed, and nothing for a changed model.  It concerns
images under bare names; where names carry a digest, the image's moves.  `StaleIsRemembered` is
the promise without the scan, which holds.

## Proofs

All constants are arbitrary, subject to the ASSUMEs of the modules.

**JitBuild.**  Exclusion is not inductive: that two tasks of a key use one lock follows only if
the map still shows the lock of the first when the second looks it up.  The inductive invariant
adds that whoever holds or waits for a lock finds it under its key in the map (`SharedLock`),
that guards of one lock are unique, that a task runs only for a handler that has reached the
spawn, and what a holder may rely on after its checks: no one else builds the key, so a failure
cannot be remembered meanwhile, and its output can appear only through the object store lane,
which leaves the key in `fetched`.  From it follow `BuildsExclude`,
`LockShared`, `NothingBuiltTwice`, and step by step the refinement `ImplementsKeyedBuild`.

**SingleFlight.**  The invariant says that a leader that has not unlisted is the one listed
for its key, that a listed call has such a leader, and that a waiter without a result holds
an unfinished call that is listed under its key.  From it follow `OneLeader` and `NoLostWakeup`.

**JitDiskCache.**  The index has the entries' ticks, one place for each key, none above the
clock (`IndexMirrors`); the counts are the guards (`CountsAreGuards`); what is queued for the
deleter under a live path could not be renamed; a content file is at hand only with a size to
record.  Each operation is a lemma about what it leaves of entries, order and clock
(`PinStep`, `UnpinStep`, `RecordStep`, ...), and `evict_locked` one that serves records and
restarts alike (`EvictMirrors`).  A guard keeps the count above zero, `evict_locked` takes only
counts of zero, and the deleter only what could not be renamed: hence `GuardsProtect`, that what makes a guarded tree
smaller is a write or a revalidation.

Bytes of a set of entries are a fold, defined by recursion on subsets.  No induction is needed
to reason about it: were some subset an exception, there would be a smallest one, and one entry
less leads to a contradiction (`MinimalSubset`, `SummedUnique`, `SummedExists`).  From this come
the facts about sums (`BytesRemove`, `BytesSplit`, `BytesSame`), and from these `TotalCounts`
and, with it, that no subtraction underflows (`TypeCorrect`).  For the sizes of trees the
invariant (`TreeAccounted`) says that what is accounted of a tree, or has been measured of it,
exceeds what is on disk only if the tree is in `shrunk`, and that where less is accounted, some
lane that holds the tree has still to measure it or has just measured as much, or a lane has given
up: hence `TreesAccurate`.  That guards keep larger old sizes is what makes the first part need
its exception: a pinned entry never shrinks.

For the refinement the sums say that an entry falls iff without the older ones that can be
evicted the rest is above the budget (`VictimKeys`).  Of such a set, older entries are in it when
younger ones are; the eldest that stays is one at which the rest fits; the youngest that falls
is one at which it does not (`VictimsRight`).  `evict_locked` serves records and restarts, so one lemma
(`EvictSettles`) carries both, and one lemma per operation maps its step to the store's or to
a stutter (`PinRefines`, ..., `RestartRefines`).  `Bounded` adds that sizes stay in the range
the store may be told of.  Hence `IsLru`.

**EncodeCache.**  The flights are those of `SingleFlight`: `FlightsAreGroups` shows that every
step of the cache is a step of the group or leaves it alone, which yields both
`FlightsImplement` and, through an INSTANCE of `SingleFlightProofs`, the group's invariant.  The
invariant of the cache adds that a thread with work to do leads a flight for the key it wants
(`WorkersFly`), that a closure is there until its thread encodes (`ClosuresKept`), that a leader
comes out of its work with an encoding or without its closure (`WorkIsOwn`), and that what a
leader found missing stays missing (`MissesStand`): only leaders store, and the group has one
for a key.  The store's part (`StoreOK`) says that no key is in the recency list twice and
that the counted bytes are its keys' weights, within the budget; dropping from the front until a newcomer
fits is a lemma about cutting a sequence.  Hence `BudgetHolds`, `OneEncoding`, `ClosureAtHand`
and `FailuresAreOwn`.

**Revalidate.**  Every hash has a floor, the newest of the versions that the digest file, the
old digests and the new digests of a running refresh name for it.  The content server is never below
it (`RemoteAtFloor`), since digests are of bytes it answered with; the stored content, what a thread
has fetched or read and the scans are not either, unless the hash is a suspect
(`BytesAtFloor`, `ScansAtFloor`); new digests are no older than old ones, and equal where they
do not count as changed (`FreshIsNewer`).  A scan may be behind until the context is forgotten, and a
conversion behind until the refresh has pruned, but then it is one of those that are about to
be (`ConversionsKnown`).  Hence `SourcesKeepUp` and `StaleConversionsRemembered`.

**CorpusBuild.**  The gate looks at `failed` only, so the invariant has to follow every bundle
that is in the corpus directory or listed as built: it is in the store, was there before the
attempt, or is `Pending`, that is, still to be queued by the thread that made it, in the
channel, with an uploader, or in `failed` (`NothingForgotten`).  A thread reports `existed`
only of a file in the directory, and before the threads start all of it is `leftover`.  Draining
ends with channel and uploaders empty, which leaves `failed`, and the gate asks that to be
empty: hence `GateHolds`.  For `NoItemLost` the invariant says where each item is: to do, with
one thread, built or bad.

**ServeResolve.**  A request that gives up after a build looked at four places on its way: the
disk, `resolve_cache`, the disk again, and the open.  The invariant (`AfterBuild`) says that a
path the build should have made is on disk or in `excused`, where an omission, an eviction and a
revalidation have put it, and that an answer of absence that the request meets is in `excused`
already: its own second look contradicts the disk only after a removal, and another request's answer is recorded when it is put into the cache.  Hence `MissesCaused`.

**LambdaJobs.**  For the markers the invariant adds that what a job is about to mark is still
good, or recorded (`MarkRead`): hence `MarkersTrue`.  For the events it needs that as long as
nothing is disturbed at most one job runs (`Alone`), so that what the job learns of a platform
stays true until its event: converted already, tombstoned, converted now with a verdict, and
from then on the status it sends (`Agrees`).  A job that fails forgets what it learned, and its
message is not acknowledged.  Hence `RegistryHears`.

Every type invariant, safety invariant, action property and refinement that a passing run checks
is proved.  Model-checked only are the liveness properties (`EveryCallAnswered`, `DetachedBuildEnds`,
`EveryRunReturns`, `EveryCallerAnswered`, `AttemptEnds`, `RevalidationHeals`, `RefusalsEnd`),
which rest on fairness and so on ENABLED, out of the prover's reach.  That the proofs use
the same definitions as the runs is why the runs replace none of them.

## Not modelled

* The LOD lane (`lodjit.rs`) has the build lane's shape with a ticket in place of a lock; the
  eager queue is one more caller of the build lane; the decode cache is the encode cache without
  its retry.  The range, pack, shader, upstream and status handlers are thin users of the
  caches.  They are the next candidates.
* The keyed locks' limit (`get_bounded`) and the memo tables of `live.rs`: at the limit content
  is fetched twice.
* Of the lambda, scene sources, satellite records and the LOD step, which never fail a job; the
  version lanes and recipe generations, which scope markers and manifests by what is deployed.
* The registry, its queues and the content store are handlers over a database whose
  transactions do the work.
* The builder, encoders, GPU kernels, LOD geometry, scene runner and fonts are most of the
  repository's lines: sequential transformations of large data, whose specification is byte
  parity with a reference.  A model of them would restate them.
* Wrappers, drivers, vendored code and CI scripts; the network clients appear as the results
  they may return.

The models therefore cover a small share of the lines, and most of those that run concurrently
or must survive a failure.
