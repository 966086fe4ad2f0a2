------------------------------- MODULE JitBuild -------------------------------
(***************************************************************************)
(* jit_build_entity (crate/src/abcdn/handlers/jit.rs): the single-flight   *)
(* build lane of the asset-bundle server.  Every request that misses on    *)
(* disk takes the per-key lock out of a shared map, re-checks under it and *)
(* either leaves or spawns a detached task that owns the lock and builds.  *)
(* The client may disconnect at any await, which drops the handler's       *)
(* future and leaves the task alone.                                       *)
(*                                                                         *)
(* The disk is not the lane's own: the object store lane writes the file   *)
(* the build would make without taking the key's lock, and a revalidation  *)
(* removes an entity's directory whatever is locked or pinned.  Two        *)
(* history variables remember those, for the properties to name them.      *)
(*                                                                         *)
(* A request is one call, used once.  It creates at most one lock (an      *)
(* Arc<Mutex>), so a lock is named by the request that created it, and it  *)
(* spawns at most one task, which is named by it too.                      *)
(***************************************************************************)
EXTENDS Naturals, FiniteSets

CONSTANTS
  Requests,     \* the calls of jit_build_entity
  Keys,         \* "{entity}:{platform}"
  Entities,     \* the disk cache's keys: all platforms of an entity share one
  KeyOf,        \* the key each request asks for
  EntityOf,     \* the entity of a key
  Permits,      \* ABGEN_JIT_BUILD_CONCURRENCY
  None          \* no lock

ASSUME KeysAssumption ==
  /\ KeyOf \in [Requests -> Keys]
  /\ EntityOf \in [Keys -> Entities]
ASSUME PermitsAssumption == Permits \in Nat \ {0}
ASSUME NoneAssumption == None \notin Requests

VARIABLES
  pc,           \* where a request's handler is
  task,         \* where the detached task of a request is
  lock,         \* the lock a request took from the map
  outcome,      \* what a request's caller will be told
  inflight,     \* state.jit_inflight: the lock registered for each key
  failCache,    \* state.jit_fail_cache
  onDisk,       \* the keys whose probe path is a file
  fetched,      \* history: written by the object store lane since a probe missed them
  wiped         \* history: removed by a revalidation while they were being built

diskVars == <<onDisk, fetched, wiped>>
envVars == <<inflight, failCache, diskVars>>
vars == <<pc, task, lock, outcome, envVars>>

HandlerPcs == {"new", "lookup", "waiting", "recheck", "probe", "spawn", "awaiting",
               "leaving", "returning", "done", "gone"}
TaskPcs == {"none", "queued", "building", "recording", "unlocking", "sending",
            "exiting", "ended"}
Outcomes == {"unknown", "built", "coalesced", "failed"}

\* The types of the handlers, the tasks and the maps they share.
TypeOK ==
  /\ pc \in [Requests -> HandlerPcs]
  /\ task \in [Requests -> TaskPcs]
  /\ lock \in [Requests -> Requests \cup {None}]
  /\ outcome \in [Requests -> Outcomes]
  /\ inflight \in [Keys -> Requests \cup {None}]
  /\ failCache \subseteq Keys
  /\ onDisk \subseteq Keys
  /\ fetched \subseteq Keys
  /\ wiped \subseteq Keys

Init ==
  /\ pc = [r \in Requests |-> "new"]
  /\ task = [r \in Requests |-> "none"]
  /\ lock = [r \in Requests |-> None]
  /\ outcome = [r \in Requests |-> "unknown"]
  /\ inflight = [k \in Keys |-> None]
  /\ failCache = {}
  /\ onDisk \in SUBSET Keys
  /\ fetched = {}
  /\ wiped = {}

--------------------------------------------------------------------------------
(* Who holds what.  The owned guard of the mutex is first the handler's,   *)
(* then the task's; the task keeps one more clone of the Arc.              *)

\* Slip: dropping the handler's future would not release its guard.
HandlerGuard_Leaks(r) == pc[r] \in {"recheck", "probe", "spawn", "gone"}

\* The handler's own guard: from lock_owned to the early return or the spawn.
HandlerGuard(r) == pc[r] \in {"recheck", "probe", "spawn"}

\* The guard moved into the task, until drop(guard).
TaskGuard(r) == task[r] \in {"queued", "building", "recording", "unlocking"}

Guard(r) == HandlerGuard(r) \/ TaskGuard(r)

\* The handler's `lock` local (and the pending lock_owned future's clone).
HandlerRef(r) ==
  pc[r] \in {"waiting", "recheck", "probe", "spawn", "awaiting", "leaving", "returning"}

\* The task's `lock_owned` clone, until drop(lock_owned) just before the send.
TaskRef(r) == TaskGuard(r) \/ task[r] = "sending"

Locked(l) == \E r \in Requests : lock[r] = l /\ Guard(r)

\* Slip: the permit is forgotten instead of dropped.
Running_Leaks(r) == task[r] \notin {"none", "queued"}

\* The permit and the pin live from the acquire to the end of the task.
Running(r) == task[r] \in {"building", "recording", "unlocking", "sending", "exiting"}

\* Slip: the task builds without the pin.
Pinned_Never(e) == FALSE

Pinned(e) == \E r \in Requests : Running(r) /\ EntityOf[KeyOf[r]] = e

\* The keys whose build has its permit and its pin, and still its guard.
InTheMaking == {KeyOf[r] : r \in {q \in Requests : Running(q) /\ TaskGuard(q)}}

\* Slip: the entry is removed without looking at the other references.
OnlyMine_Unchecked(r) == TRUE

\* Slip: only the tasks' references are looked at, not those of waiting handlers.
OnlyMine_NoWaiters(r) == \A q \in Requests : ~(TaskRef(q) /\ lock[q] = lock[r])

\* strong_count(l) <= 2 in remove_jit_inflight, for a lock that is in the map and held
\* by the caller: those two references are the only ones.
OnlyMine(r) ==
  /\ \A q \in Requests \ {r} : ~(HandlerRef(q) /\ lock[q] = lock[r])
  /\ \A q \in Requests : ~(TaskRef(q) /\ lock[q] = lock[r])

--------------------------------------------------------------------------------
(* The handler *)

Goto(r, to) == pc' = [pc EXCEPT ![r] = to]

Answer(r, o) == outcome' = [outcome EXCEPT ![r] = o]

Arrive(r) ==
  /\ pc[r] = "new"
  /\ \/ /\ KeyOf[r] \in failCache
        /\ Goto(r, "done") /\ Answer(r, "failed")
     \/ /\ KeyOf[r] \notin failCache
        /\ Goto(r, "lookup") /\ UNCHANGED outcome
  /\ UNCHANGED <<task, lock, envVars>>

\* g.entry(key).or_default().clone() under the map's mutex.
Lookup(r) ==
  LET l == IF inflight[KeyOf[r]] = None THEN r ELSE inflight[KeyOf[r]] IN
  /\ pc[r] = "lookup"
  /\ inflight' = [inflight EXCEPT ![KeyOf[r]] = l]
  /\ lock' = [lock EXCEPT ![r] = l]
  /\ Goto(r, "waiting")
  /\ UNCHANGED <<task, outcome, failCache, diskVars>>

Acquire(r) ==
  /\ pc[r] = "waiting"
  /\ ~Locked(lock[r])
  /\ Goto(r, "recheck")
  /\ UNCHANGED <<task, lock, outcome, envVars>>

\* Slip: the negative cache is consulted before the lock only.
RecheckFailed_Skipped(r) ==
  /\ pc[r] = "recheck"
  /\ Goto(r, "probe")
  /\ UNCHANGED <<task, lock, outcome, envVars>>

RecheckFailed(r) ==
  /\ pc[r] = "recheck"
  /\ \/ /\ KeyOf[r] \in failCache
        /\ Goto(r, "leaving") /\ Answer(r, "failed")
     \/ /\ KeyOf[r] \notin failCache
        /\ Goto(r, "probe") /\ UNCHANGED outcome
  /\ UNCHANGED <<task, lock, envVars>>

\* probe_exists: the stat of the wanted file, on another thread.  An output that appeared
\* while this request waited is shared.
Probe(r) ==
  /\ pc[r] = "probe"
  /\ \/ /\ KeyOf[r] \in onDisk
        /\ Goto(r, "leaving") /\ Answer(r, "coalesced")
        /\ UNCHANGED fetched
     \/ /\ KeyOf[r] \notin onDisk
        /\ Goto(r, "spawn")
        /\ fetched' = fetched \ {KeyOf[r]}
        /\ UNCHANGED outcome
  /\ UNCHANGED <<task, lock, inflight, failCache, onDisk, wiped>>

\* The handler resumes with the answer of the stat and moves the guard into a task.
Spawn(r) ==
  /\ pc[r] = "spawn"
  /\ Goto(r, "awaiting")
  /\ task' = [task EXCEPT ![r] = "queued"]
  /\ UNCHANGED <<lock, outcome, envVars>>

\* rx.await returns once the task has sent.
Receive(r) ==
  /\ pc[r] = "awaiting"
  /\ task[r] \in {"exiting", "ended"}
  /\ Goto(r, "leaving")
  /\ UNCHANGED <<task, lock, outcome, envVars>>

RemoveInflight(r) ==
  /\ pc[r] = "leaving"
  /\ inflight' = IF inflight[KeyOf[r]] = lock[r] /\ OnlyMine(r)
                 THEN [inflight EXCEPT ![KeyOf[r]] = None]
                 ELSE inflight
  /\ Goto(r, "returning")
  /\ UNCHANGED <<task, lock, outcome, failCache, diskVars>>

\* The handler's clone of the lock is dropped only after the map's mutex was released.
Return(r) ==
  /\ pc[r] = "returning"
  /\ Goto(r, "done")
  /\ UNCHANGED <<task, lock, outcome, envVars>>

\* The client disconnects at an await: the future and all it owns is dropped.
Cancel(r) ==
  /\ pc[r] \in {"lookup", "waiting", "recheck", "probe", "spawn", "awaiting", "leaving"}
  /\ Goto(r, "gone")
  /\ UNCHANGED <<task, lock, outcome, envVars>>

--------------------------------------------------------------------------------
(* The detached task *)

TaskGoto(r, from, to) ==
  /\ task[r] = from
  /\ task' = [task EXCEPT ![r] = to]

\* Acquire a permit of the semaphore, then pin the entity.
StartBuild(r) ==
  /\ Cardinality({q \in Requests : Running(q)}) < Permits
  /\ TaskGoto(r, "queued", "building")
  /\ wiped' = wiped \ {KeyOf[r]}
  /\ UNCHANGED <<pc, lock, outcome, inflight, failCache, onDisk, fetched>>

\* The build renames the wanted file into place.
BuildWrites(r) ==
  /\ task[r] = "building"
  /\ onDisk' = onDisk \cup {KeyOf[r]}
  /\ UNCHANGED <<pc, task, lock, outcome, inflight, failCache, fetched, wiped>>

\* The build returns Ok, with the wanted file written or, when its item failed, left out.
BuildOk(r) ==
  /\ TaskGoto(r, "building", "recording")
  /\ Answer(r, "built")
  /\ UNCHANGED <<pc, lock, envVars>>

\* Slip: the failure is remembered for the entity, not for the key.
BuildFails_OfEntity(r) ==
  /\ TaskGoto(r, "building", "unlocking")
  /\ failCache' = failCache \cup {EntityOf[KeyOf[r]]}
  /\ Answer(r, "failed")
  /\ UNCHANGED <<pc, lock, inflight, diskVars>>

\* The build errs or panics, possibly after it has written the wanted file.
BuildFails(r) ==
  /\ TaskGoto(r, "building", "unlocking")
  /\ failCache' = failCache \cup {KeyOf[r]}
  /\ Answer(r, "failed")
  /\ UNCHANGED <<pc, lock, inflight, diskVars>>

\* The outputs of entities nobody pins are what the disk cache may take away.
EvictFrom(Unpinned) ==
  /\ \E V \in SUBSET Unpinned : onDisk' = {k \in onDisk : EntityOf[k] \notin V}
  /\ UNCHANGED <<fetched, wiped>>

\* jit_record: the disk cache evicts whatever it must among the unpinned.
Record(r) ==
  /\ TaskGoto(r, "recording", "unlocking")
  /\ EvictFrom({e \in Entities : ~Pinned(e)})
  /\ UNCHANGED <<pc, lock, outcome, inflight, failCache>>

DropGuard(r) ==
  /\ TaskGoto(r, "unlocking", "sending")
  /\ UNCHANGED <<pc, lock, outcome, envVars>>

\* drop(lock_owned), then tx.send(outcome): nobody hears it when the requester is gone.
Send(r) ==
  /\ TaskGoto(r, "sending", "exiting")
  /\ UNCHANGED <<pc, lock, outcome, envVars>>

\* The end of the task's scope drops the pin, then the permit.
Exit(r) ==
  /\ TaskGoto(r, "exiting", "ended")
  /\ UNCHANGED <<pc, lock, outcome, envVars>>

--------------------------------------------------------------------------------
(* The rest of the server *)

\* Entries of the negative cache expire, and a revalidation clears them all.
ExpireFailure(k) ==
  /\ k \in failCache
  /\ failCache' = failCache \ {k}
  /\ UNCHANGED <<pc, task, lock, outcome, inflight, diskVars>>

\* The object store lane writes the file a build of the key would make.  It takes no lock
\* of the key, and its pin is gone when its client left before the blocking write was done.
SpaceMaterializes(k) ==
  /\ onDisk' = onDisk \cup {k}
  /\ fetched' = fetched \cup {k}
  /\ UNCHANGED <<pc, task, lock, outcome, inflight, failCache, wiped>>

\* A revalidation that found new content removes the entity's directory, as much of it as
\* remove_dir_all gets, whatever is locked or pinned.
RevalidationRemoves(e) ==
  /\ \E V \in SUBSET {k \in Keys : EntityOf[k] = e} :
       /\ onDisk' = onDisk \ V
       /\ wiped' = wiped \cup (V \cap InTheMaking)
  /\ UNCHANGED <<pc, task, lock, outcome, inflight, failCache, fetched>>

\* Another lane records its own files and makes the disk cache evict.  Its own pin only
\* takes entities out of reach.
OtherLaneRecords ==
  /\ EvictFrom({e \in Entities : ~Pinned(e)})
  /\ UNCHANGED <<pc, task, lock, outcome, inflight, failCache>>

Handler(r) ==
  \/ Arrive(r) \/ Lookup(r) \/ Acquire(r) \/ RecheckFailed(r) \/ Probe(r)
  \/ Spawn(r) \/ Receive(r) \/ RemoveInflight(r) \/ Return(r)

Task(r) ==
  \/ StartBuild(r) \/ BuildWrites(r) \/ BuildOk(r) \/ BuildFails(r) \/ Record(r)
  \/ DropGuard(r) \/ Send(r) \/ Exit(r)

Next ==
  \/ \E r \in Requests : Handler(r) \/ Cancel(r) \/ Task(r)
  \/ \E k \in Keys : ExpireFailure(k) \/ SpaceMaterializes(k)
  \/ \E e \in Entities : RevalidationRemoves(e)
  \/ OtherLaneRecords

Spec == Init /\ [][Next]_vars

(* Handlers and tasks are tokio tasks and keep running; builds return.  The mutex and   *)
(* the semaphore of tokio are FIFO, so whoever waits is served if they are freed again  *)
(* and again.  Nothing obliges a client to call, to disconnect or to stay connected.    *)
HandlerGoesOn(r) ==
  \/ Lookup(r) \/ RecheckFailed(r) \/ Probe(r) \/ Spawn(r)
  \/ Receive(r) \/ RemoveInflight(r) \/ Return(r)

TaskGoesOn(r) ==
  BuildOk(r) \/ BuildFails(r) \/ Record(r) \/ DropGuard(r) \/ Send(r) \/ Exit(r)

Fairness ==
  \A r \in Requests :
    /\ WF_vars(HandlerGoesOn(r)) /\ SF_vars(Acquire(r))
    /\ WF_vars(TaskGoesOn(r)) /\ SF_vars(StartBuild(r))

FairSpec == Spec /\ Fairness

--------------------------------------------------------------------------------
(* Properties *)

\* Two tasks never build the same key at once, although map entries come and go and
\* requesters vanish while their tasks run (jit_inflight, strong_count, detached task).
MutualExclusion ==
  \A r, q \in Requests : TaskGuard(r) /\ TaskGuard(q) /\ KeyOf[r] = KeyOf[q] => r = q

\* Everyone who holds or waits for a key's lock uses the lock the map shows to newcomers:
\* removal of an entry never splits the callers of a key over two mutexes.
SharedLock ==
  \A r \in Requests :
    \/ pc[r] \in {"waiting", "recheck", "probe", "spawn", "awaiting", "leaving"}
    \/ TaskRef(r)
    => inflight[KeyOf[r]] = lock[r]

\* A build that is about to start is not one the server could have saved: no failure of the
\* key is remembered, and the wanted file is there only if the object store lane, which
\* takes no lock, brought it after the probe of this very build had missed it.
NoWastedBuild ==
  \A r \in Requests : task[r] = "queued" =>
    /\ KeyOf[r] \notin failCache
    /\ KeyOf[r] \in onDisk => KeyOf[r] \in fetched

\* The lane implements the abstract keyed build: builds of a key are disjoint, none starts
\* for a remembered failure or for a file that only builds made, and evictions leave the
\* key in the making alone: what takes its output is a revalidation, and is remembered.
KB == INSTANCE KeyedBuild WITH
        building <- InTheMaking,
        disk <- onDisk,
        failed <- failCache

BuildsAreKeyed == KB!KBSpec

\* A caller that stays connected gets an answer, whatever the other callers of its key do.
EveryCallAnswered ==
  \A r \in Requests : pc[r] = "lookup" ~> pc[r] \in {"done", "gone"}

\* A build frees its key and its permit even if the client that caused it is gone.
DetachedBuildEnds ==
  \A r \in Requests : task[r] = "queued" ~> task[r] = "ended"
================================================================================
