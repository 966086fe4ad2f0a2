----------------------------- MODULE JitDiskCache -----------------------------
(***************************************************************************)
(* The disk cache of the server (crate/src/jitcache.rs): byte accounting,  *)
(* LRU order and pins for the trees and files the build lanes leave on     *)
(* disk, together with the lanes that write, measure and record them.      *)
(*                                                                         *)
(* Every operation of the cache runs under its mutex and is one step.  The *)
(* size of a tree is measured outside the mutex, so it may be stale when   *)
(* it is recorded.  A revalidation removes files of a tree with no pin and *)
(* no record.  The cache is enabled: the budget is positive.               *)
(***************************************************************************)
EXTENDS Naturals, FiniteSetsExt

CONSTANTS
  Keys,          \* entities, "b:{cid}" bundle directories, "c:{hash}" content files
  Files,         \* the keys of content files, which are written without a pin
  RenameErrors,  \* the keys whose rename fails for another reason than absence
  Clients,       \* the threads of the build lanes
  Budget,        \* ABGEN_JIT_CACHE_MAX_BYTES
  MaxSize,       \* bound: no tree or file grows larger
  MaxClock,      \* bound on the clock
  None           \* no key

ASSUME KeysAssumption == Files \subseteq Keys /\ RenameErrors \subseteq Keys /\ None \notin Keys
ASSUME SizesAssumption == Budget \in Nat \ {0} /\ MaxSize \in Nat /\ MaxClock \in Nat
ASSUME FiniteAssumption == IsFiniteSet(Keys) /\ IsFiniteSet(Clients)

VARIABLES
  entries,       \* Inner.entries; tick 0 stands for a missing entry
  order,         \* Inner.order: which key was used at which tick
  total,         \* Inner.total
  clock,         \* Inner.clock
  disk,          \* the bytes under each key's path
  doomed,        \* live paths queued for the deleter thread
  at,            \* the key each client works on
  seen,          \* the size a client is about to record
  unsaved,       \* whether a client wrote something it has not measured yet
  loose,         \* history: keys with files whose writer gave up without a record
  shrunk         \* history: trees whose files became smaller under their entry

inner == <<entries, order, total, clock>>
vars == <<entries, order, total, clock, disk, doomed, at, seen, unsaved, loose, shrunk>>

Entry == [bytes : Nat, refs : Nat, tick : Nat]
NoEntry == [bytes |-> 0, refs |-> 0, tick |-> 0]

\* The types of Inner, the disk and the clients; counts and totals never underflow.
TypeOK ==
  /\ entries \in [Keys -> Entry]
  /\ order \subseteq [tick : Nat, key : Keys]
  /\ total \in Nat
  /\ clock \in Nat
  /\ disk \in [Keys -> Nat]
  /\ doomed \subseteq Keys
  /\ at \in [Clients -> Keys \cup {None}]
  /\ seen \in [Clients -> Nat]
  /\ unsaved \in [Clients -> BOOLEAN]
  /\ loose \subseteq Keys
  /\ shrunk \subseteq Keys

Known(k) == entries[k].tick > 0

--------------------------------------------------------------------------------
(* Inner *)

Monus(a, b) == IF a > b THEN a - b ELSE 0

Bytes(en, K) == MapThenSumSet(LAMBDA k : en[k].bytes, K)

\* A slip: the entry's old place in the order is never given up.
Reorder_KeepsOld(old, tick, k) == order \cup {[tick |-> tick, key |-> k]}

\* order.remove(&old); order.insert(tick, key)
Reorder(old, tick, k) ==
  {p \in order : p.tick \notin {old, tick}} \cup {[tick |-> tick, key |-> k]}

\* A slip: youngest first.
Victims_Youngest(en, o, tot) ==
  LET can == {p \in o : en[p.key].refs = 0 /\ en[p.key].bytes > 0}
      younger(p) == {q \in can : q.tick > p.tick}
  IN {p \in can : Monus(tot, Bytes(en, {q.key : q \in younger(p)})) > Budget}

\* The loop of evict_locked takes entries by age, skipping pins and placeholders, while
\* the total is over the budget: an entry falls iff all the older ones are not enough.
Victims(en, o, tot) ==
  LET can == {p \in o : en[p.key].refs = 0 /\ en[p.key].bytes > 0}
      older(p) == {q \in can : q.tick < p.tick}
  IN {p \in can : Monus(tot, Bytes(en, {q.key : q \in older(p)})) > Budget}

\* A slip: no rename, the deleter gets every victim's live path.
Quarantined_Never(K) == {}

\* quarantine_rename moves a victim away at once; where that fails with another error than
\* NotFound the live path itself goes to the deleter.
Quarantined(K) == K \ RenameErrors

\* evict_locked and delete, on the entries, order and total a caller has prepared; q is what
\* the deleter has to do already.
EvictLocked(en, o, tot, q) ==
  LET V == Victims(en, o, tot)
      K == {p.key : p \in V}
  IN
  /\ entries' = [k \in Keys |-> IF k \in K THEN NoEntry ELSE en[k]]
  /\ order' = o \ V
  /\ total' = Monus(tot, Bytes(en, K))
  /\ disk' = [k \in Keys |-> IF k \in Quarantined(K) THEN 0 ELSE disk[k]]
  /\ doomed' = q \cup {k \in K \ Quarantined(K) : disk[k] > 0}

--------------------------------------------------------------------------------
(* The cache's operations *)

PinKey(k) ==
  LET tick == clock + 1 IN
  /\ clock < MaxClock
  /\ clock' = tick
  /\ entries' = [entries EXCEPT ![k].refs = @ + 1, ![k].tick = tick]
  /\ order' = Reorder(entries[k].tick, tick, k)
  /\ UNCHANGED <<total, disk, doomed>>

\* Slips: a placeholder falls with its first guard; a guard is given back twice.
UnpinKey_First(k) ==
  LET refs == Monus(entries[k].refs, 1)
      gone == entries[k].bytes = 0
  IN
  /\ entries' = [entries EXCEPT ![k] = IF gone THEN NoEntry ELSE [@ EXCEPT !.refs = refs]]
  /\ order' = IF gone THEN {p \in order : p.tick # entries[k].tick} ELSE order
  /\ UNCHANGED <<total, clock, disk, doomed>>
UnpinKey_Twice(k) ==
  /\ entries' = [entries EXCEPT ![k].refs = @ - 2]
  /\ UNCHANGED <<order, total, clock, disk, doomed>>

\* PinGuard::drop: the last guard of a placeholder takes the entry with it.
UnpinKey(k) ==
  LET refs == Monus(entries[k].refs, 1)
      gone == refs = 0 /\ entries[k].bytes = 0
  IN
  /\ entries' = [entries EXCEPT ![k] = IF gone THEN NoEntry ELSE [@ EXCEPT !.refs = refs]]
  /\ order' = IF gone THEN {p \in order : p.tick # entries[k].tick} ELSE order
  /\ UNCHANGED <<total, clock, disk, doomed>>

\* Slips: the old size stays in the total; the last writer wins even while it is pinned.
RecordKey_Adds(k, n) ==
  LET old == entries[k]
      tick == clock + 2
  IN
  /\ tick <= MaxClock
  /\ clock' = tick
  /\ EvictLocked([entries EXCEPT ![k] = [bytes |-> n, refs |-> old.refs, tick |-> tick]],
                 Reorder(old.tick, tick, k), total + n, doomed)
RecordKey_Overwrites(k, n) ==
  LET old == entries[k]
      tick == IF Known(k) THEN clock + 1 ELSE clock + 2
  IN
  /\ tick <= MaxClock
  /\ clock' = tick
  /\ EvictLocked([entries EXCEPT ![k] = [bytes |-> n, refs |-> old.refs, tick |-> tick]],
                 Reorder(old.tick, tick, k), Monus(total, old.bytes) + n, doomed)

\* The size of a pinned key never shrinks; a new entry takes a tick for itself and the bump
\* takes one more.  Whatever no longer fits is evicted at once.
RecordKey(k, n) ==
  LET old == entries[k]
      new == IF old.refs > 0 /\ old.bytes > n THEN old.bytes ELSE n
      tick == IF Known(k) THEN clock + 1 ELSE clock + 2
  IN
  /\ tick <= MaxClock
  /\ clock' = tick
  /\ EvictLocked([entries EXCEPT ![k] = [bytes |-> new, refs |-> old.refs, tick |-> tick]],
                 Reorder(old.tick, tick, k),
                 Monus(total, old.bytes) + new,
                 doomed)

TouchKey(k) ==
  /\ Known(k)
  /\ clock < MaxClock
  /\ clock' = clock + 1
  /\ entries' = [entries EXCEPT ![k].tick = clock + 1]
  /\ order' = Reorder(entries[k].tick, clock + 1, k)
  /\ UNCHANGED <<total, disk, doomed>>

--------------------------------------------------------------------------------
(* The build lanes *)

Init ==
  /\ entries = [k \in Keys |-> NoEntry]
  /\ order = {}
  /\ total = 0
  /\ clock = 0
  /\ disk = [k \in Keys |-> 0]
  /\ doomed = {}
  /\ at = [c \in Clients |-> None]
  /\ seen = [c \in Clients |-> 0]
  /\ unsaved = [c \in Clients |-> FALSE]
  /\ loose = {}
  /\ shrunk = {}

\* A build pins its entity (or bundle directory) before it writes.
Pin(c) ==
  \E k \in Keys \ Files :
    /\ at[c] = None
    /\ at' = [at EXCEPT ![c] = k]
    /\ PinKey(k)
    /\ UNCHANGED <<seen, unsaved, loose, shrunk>>

\* A file of a tree is written, perhaps over one that was larger.
Write(k) ==
  \E n \in 1..MaxSize :
    /\ disk' = [disk EXCEPT ![k] = n]
    /\ shrunk' = IF n < disk[k] THEN shrunk \cup {k} ELSE shrunk

WriteTree(c) ==
  /\ at[c] \in Keys \ Files /\ seen[c] = 0
  /\ Write(at[c])
  /\ unsaved' = [unsaved EXCEPT ![c] = TRUE]
  /\ UNCHANGED <<inner, doomed, at, seen, loose>>

\* The object store lane's blocking write goes on when its client has gone and taken the
\* pin along; nobody records it.
AbandonedWrite(k) ==
  /\ Write(k)
  /\ loose' = loose \cup {k}
  /\ UNCHANGED <<inner, doomed, at, seen, unsaved>>

\* A revalidation that found new content removes bundles, or the directory, of an entity.
RevalidationRemoves(k) ==
  \E n \in 0..MaxSize :
    /\ n < disk[k]
    /\ disk' = [disk EXCEPT ![k] = n]
    /\ shrunk' = shrunk \cup {k}
    /\ UNCHANGED <<inner, doomed, at, seen, unsaved, loose>>

\* jit_record: dir_size outside the mutex; an empty tree is not recorded.
Measure(c) ==
  /\ at[c] \in Keys \ Files /\ seen[c] = 0
  /\ seen' = [seen EXCEPT ![c] = disk[at[c]]]
  /\ unsaved' = [unsaved EXCEPT ![c] = FALSE]
  /\ loose' = loose \ {at[c]}
  /\ UNCHANGED <<inner, disk, doomed, at, shrunk>>

\* A tree that has lost its entry is accounted afresh.
StillKnown == shrunk' = {k \in shrunk : entries'[k].bytes > 0 \/ entries'[k].refs > 0}

RecordTree(c) ==
  /\ at[c] \in Keys \ Files /\ seen[c] > 0
  /\ RecordKey(at[c], seen[c])
  /\ seen' = [seen EXCEPT ![c] = 0]
  /\ StillKnown
  /\ UNCHANGED <<at, unsaved, loose>>

\* The guard is dropped; a lane that failed has written files it never records.
Unpin(c) ==
  /\ at[c] \in Keys \ Files /\ seen[c] = 0
  /\ UnpinKey(at[c])
  /\ at' = [at EXCEPT ![c] = None]
  /\ unsaved' = [unsaved EXCEPT ![c] = FALSE]
  /\ loose' = IF unsaved[c] THEN loose \cup {at[c]} ELSE loose
  /\ UNCHANGED <<seen, shrunk>>

\* A content file is replaced whole, and its length recorded afterwards, without a pin; the
\* revalidation does so even where the file is there already.
WriteFile(c) ==
  \E k \in Files, n \in 1..MaxSize :
    /\ at[c] = None
    /\ disk' = [disk EXCEPT ![k] = n]
    /\ at' = [at EXCEPT ![c] = k]
    /\ seen' = [seen EXCEPT ![c] = n]
    /\ UNCHANGED <<inner, doomed, unsaved, loose, shrunk>>

RecordFile(c) ==
  /\ at[c] \in Files
  /\ RecordKey(at[c], seen[c])
  /\ at' = [at EXCEPT ![c] = None]
  /\ seen' = [seen EXCEPT ![c] = 0]
  /\ StillKnown
  /\ UNCHANGED <<unsaved, loose>>

\* Serving a file refreshes its key.
Serve(k) ==
  /\ TouchKey(k)
  /\ UNCHANGED <<at, seen, unsaved, loose, shrunk>>

Deleter(k) ==
  /\ k \in doomed
  /\ doomed' = doomed \ {k}
  /\ disk' = [disk EXCEPT ![k] = 0]
  /\ UNCHANGED <<inner, at, seen, unsaved, loose, shrunk>>

\* The process dies and a new one seeds its cache from what it finds, in directory order.
Restart ==
  LET found == {k \in Keys : disk[k] > 0} IN
  \E tick \in [found -> 1..Cardinality(found)] :
    /\ \A j, k \in found : tick[j] = tick[k] => j = k
    /\ LET en == [k \in Keys |-> IF k \in found
                                 THEN [bytes |-> disk[k], refs |-> 0, tick |-> tick[k]]
                                 ELSE NoEntry]
       IN EvictLocked(en, {[tick |-> tick[k], key |-> k] : k \in found}, Bytes(en, found), {})
    /\ clock' = Cardinality(found)
    /\ at' = [c \in Clients |-> None]
    /\ seen' = [c \in Clients |-> 0]
    /\ unsaved' = [c \in Clients |-> FALSE]
    /\ loose' = {}
    /\ shrunk' = {}

Next ==
  \/ \E c \in Clients :
       \/ Pin(c) \/ WriteTree(c) \/ Measure(c) \/ RecordTree(c) \/ Unpin(c)
       \/ WriteFile(c) \/ RecordFile(c)
  \/ \E k \in Keys : Serve(k) \/ Deleter(k)
  \/ \E k \in Keys \ Files : AbandonedWrite(k) \/ RevalidationRemoves(k)
  \/ Restart

Spec == Init /\ [][Next]_vars

--------------------------------------------------------------------------------
(* Properties *)

guards == [k \in Keys |-> Cardinality({c \in Clients : at[c] = k /\ k \notin Files})]

\* The running total is the sum of the entries whatever mix of pins, re-records, evictions
\* and restarts came before ("accounting invariant" of the tests), so the budget is real.
TotalIsSum == total = Bytes(entries, Keys)

\* The recency index holds each entry once, at its latest tick, and no one else: the loop
\* of evict_locked neither misses a victim nor spins on a ghost.
OrderMirrorsEntries ==
  /\ order = {[tick |-> entries[k].tick, key |-> k] : k \in {j \in Keys : Known(j)}}
  /\ \A j, k \in Keys : Known(j) /\ entries[j].tick = entries[k].tick => j = k
  /\ \A k \in Keys : entries[k].tick <= clock

\* A key's reference count is the number of its live guards, through evictions of other
\* keys and re-creations of its own entry; a placeholder lives as long as its guards.
RefsAreGuards ==
  \A k \in Keys :
    /\ entries[k].refs = guards[k]
    /\ Known(k) /\ entries[k].bytes = 0 => entries[k].refs > 0

\* While a build keeps its guard neither the eviction for another lane nor the deleter, with
\* work from an earlier eviction of the same path, takes its files away: a tree becomes
\* smaller by a write, or by a revalidation, which asks nobody.
PinnedFilesStay ==
  [][\A c \in Clients : \A k \in Keys \ (Files \cup RenameErrors) :
       at[c] = k /\ at'[c] = k => disk'[k] >= disk[k] \/ Write(k) \/ RevalidationRemoves(k)]_vars

\* Once the lanes of a tree are through, its accounted size is its size on disk, in whatever
\* order they measured and recorded.  Only a lane that gave up leaves files uncounted, and
\* only files that became smaller without a record are counted too high.
AccurateWhenQuiet ==
  \A k \in Keys \ (Files \cup RenameErrors) :
    (\A c \in Clients : at[c] # k) /\ k \notin loose =>
      /\ entries[k].bytes >= disk[k]
      /\ k \notin shrunk => entries[k].bytes = disk[k]

\* The keys of an index o, and which of them it has before which.
Indexed(o) == {p.key : p \in o}
ByTick(o) ==
  {x \in Indexed(o) \X Indexed(o) :
     \E p, q \in o : p.key = x[1] /\ q.key = x[2] /\ p.tick < q.tick}

\* The bookkeeping with ticks, index and totals implements the plain LRU store with pins.
Lru == INSTANCE LruStore WITH
         Sizes <- 1..MaxSize,
         known <- Indexed(order),
         older <- ByTick(order),
         size <- [k \in Keys |-> entries[k].bytes],
         pins <- guards

ImplementsLru == Lru!LruSpec
================================================================================
