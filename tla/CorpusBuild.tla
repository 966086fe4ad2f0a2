----------------------------- MODULE CorpusBuild -----------------------------
(***************************************************************************)
(* One entity and platform, converted attempt after attempt:               *)
(* Proxy::build_entity_into_corpus (crate/src/live.rs) with its converter  *)
(* threads and the upload pool (crate/src/upload.rs), up to the manifest   *)
(* that tells the readers of the object store which bundles there are.     *)
(*                                                                         *)
(* The corpus directory outlives an attempt, and a crash.  The object      *)
(* store is writable, and only ever gains objects.                         *)
(***************************************************************************)
EXTENDS Naturals, SequencesExt, Functions

CONSTANTS
  Items,            \* the convertible entries that have a bundle name, once each
  Bundles,          \* bundle names
  Bundle,           \* the name each item is stored under; images that do not decode may share one
  Converters,       \* the threads of an attempt, corpus_file_jobs()
  Uploaders,        \* the workers of the upload pool
  QueueCap,         \* sync_channel(workers * 4)
  UPLOAD_RETRIES,
  MaxAttempts,      \* bound: how often the conversion is tried
  None

ASSUME NamesAssumption == Bundle \in [Items -> Bundles] /\ None \notin Items \cup Bundles
ASSUME BoundsAssumption == QueueCap \in Nat \ {0} /\ UPLOAD_RETRIES \in Nat \ {0} /\ MaxAttempts \in Nat

VARIABLES
  phase,            \* of the attempt: idle, probe, build, drain, write, publish
  attempts,
  todo,             \* items no thread has taken yet
  item,             \* the item each thread works on
  step,             \* where in run_item each thread is
  existed,          \* whether the thread found the item's file in the corpus directory
  hardErr,
  built, bad,       \* the items of the manifest; those that failed or were tolerated
  queue,            \* the pool's channel
  job, tries,       \* the upload of each worker, and the puts it has tried
  failed,           \* UploadReport.failed
  orphans,          \* uploads of a pool nobody drains
  corpus,           \* the bundle files in the corpus directory
  space,            \* the bundles in the object store
  manifest,         \* the bundles of the manifest in the corpus directory
  advertised,       \* the bundles of the manifest in the object store
  leftover          \* history: the bundle files the attempt found in the corpus directory

attempt == <<todo, item, step, existed, hardErr, built, bad>>
pool == <<queue, job, tries, failed>>
stores == <<corpus, space, manifest, advertised>>
vars == <<phase, attempts, attempt, pool, orphans, stores, leftover>>

Phases == {"idle", "probe", "build", "drain", "write", "publish"}
Steps == {"idle", "look", "bundle", "enqueue"}

\* The types of the attempt, the pool and the stores; the channel keeps its bound.
TypeOK ==
  /\ phase \in Phases /\ attempts \in 0..MaxAttempts
  /\ todo \subseteq Items /\ built \subseteq Items /\ bad \subseteq Items
  /\ item \in [Converters -> Items \cup {None}]
  /\ step \in [Converters -> Steps]
  /\ existed \in [Converters -> BOOLEAN] /\ hardErr \in BOOLEAN
  /\ queue \in Seq(Bundles) /\ Len(queue) <= QueueCap
  /\ job \in [Uploaders -> Bundles \cup {None}]
  /\ tries \in [Uploaders -> 0..UPLOAD_RETRIES]
  /\ failed \subseteq Bundles /\ orphans \subseteq Bundles
  /\ corpus \subseteq Bundles /\ space \subseteq Bundles
  /\ manifest \subseteq Bundles
  /\ advertised \subseteq Bundles /\ leftover \subseteq Bundles

Idle == [c \in Converters |-> "idle"]
Nobody(S) == [s \in S |-> None]
Names(I) == {Bundle[i] : i \in I}

Init ==
  /\ phase = "idle" /\ attempts = 0
  /\ todo = {} /\ built = {} /\ bad = {}
  /\ item = Nobody(Converters) /\ step = Idle
  /\ existed = [c \in Converters |-> FALSE] /\ hardErr = FALSE
  /\ queue = <<>> /\ job = Nobody(Uploaders) /\ tries = [u \in Uploaders |-> 0]
  /\ failed = {} /\ orphans = {}
  /\ corpus = {} /\ space = {}
  /\ manifest = {} /\ advertised = {} /\ leftover = {}

--------------------------------------------------------------------------------
(* The attempt *)

Start ==
  /\ phase = "idle" /\ attempts < MaxAttempts
  /\ phase' = "probe" /\ attempts' = attempts + 1
  /\ todo' = Items
  /\ leftover' = corpus
  /\ UNCHANGED <<item, step, existed, hardErr, built, bad, pool, orphans, stores>>

\* The probes of the object store, in parallel: a hit is a bundle that is there; an error, or
\* a name without a digest, is a miss.
Probe ==
  \E hits \in SUBSET todo :
    /\ phase = "probe"
    /\ Names(hits) \subseteq space
    /\ built' = hits
    /\ todo' = todo \ hits
    /\ phase' = "build"
    /\ UNCHANGED <<attempts, item, step, existed, hardErr, bad, pool, orphans, stores, leftover>>

Goto(c, s) == step' = [step EXCEPT ![c] = s]
Done(c) == /\ item' = [item EXCEPT ![c] = None]
           /\ existed' = [existed EXCEPT ![c] = FALSE]
           /\ Goto(c, "idle")

Take(c) ==
  \E i \in todo :
    /\ phase = "build" /\ step[c] = "idle" /\ ~hardErr
    /\ todo' = todo \ {i}
    /\ item' = [item EXCEPT ![c] = i]
    /\ Goto(c, "look")
    /\ UNCHANGED <<phase, attempts, existed, hardErr, built, bad, pool, orphans, stores, leftover>>

\* existed = dst.is_file()
Look(c) ==
  /\ step[c] = "look"
  /\ existed' = [existed EXCEPT ![c] = Bundle[item[c]] \in corpus]
  /\ Goto(c, "bundle")
  /\ UNCHANGED <<phase, attempts, todo, item, hardErr, built, bad, pool, orphans, stores, leftover>>

\* The bundle is built, or read from the bundle cache, and renamed into the corpus; a rename
\* that fails is ignored.
BundleOk(c) ==
  /\ step[c] = "bundle"
  /\ corpus' \in {corpus \cup {Bundle[item[c]]}, corpus}
  /\ Goto(c, "enqueue")
  /\ UNCHANGED <<phase, attempts, todo, item, existed, hardErr, built, bad, pool, orphans,
                 space, manifest, advertised, leftover>>

\* The item fails, or is a font the lane refuses: the attempt goes on without it.
BundleFails(c) ==
  /\ step[c] = "bundle"
  /\ bad' = bad \cup {item[c]}
  /\ Done(c)
  /\ UNCHANGED <<phase, attempts, todo, hardErr, built, pool, orphans, stores, leftover>>

\* The copy next to the file cannot be written: the attempt fails.
HardError(c) ==
  /\ step[c] = "bundle"
  /\ hardErr' = TRUE
  /\ Done(c)
  /\ UNCHANGED <<phase, attempts, todo, built, bad, pool, orphans, stores, leftover>>

\* A slip: the channel has no bound.
Enqueue_Overfills(c) ==
  /\ step[c] = "enqueue"
  /\ queue' = IF existed[c] THEN queue ELSE Append(queue, Bundle[item[c]])
  /\ built' = built \cup {item[c]}
  /\ Done(c)
  /\ UNCHANGED <<phase, attempts, todo, hardErr, bad, job, tries, failed, orphans, stores, leftover>>

\* The upload is queued unless the file was there before; a full channel blocks the thread.
\* An image that does not decode is built all the same, and counts against the exit code.
Enqueue(c) ==
  /\ step[c] = "enqueue"
  /\ IF existed[c]
       THEN UNCHANGED queue
       ELSE Len(queue) < QueueCap /\ queue' = Append(queue, Bundle[item[c]])
  /\ built' = built \cup {item[c]}
  /\ bad' \in {bad, bad \cup {item[c]}}
  /\ Done(c)
  /\ UNCHANGED <<phase, attempts, todo, hardErr, job, tries, failed, orphans, stores, leftover>>

\* What every end of an attempt leaves behind: nothing of its own, and a pool for the next one.
Reset ==
  /\ phase' = "idle"
  /\ todo' = {} /\ built' = {} /\ bad' = {}
  /\ item' = Nobody(Converters) /\ step' = Idle
  /\ existed' = [c \in Converters |-> FALSE] /\ hardErr' = FALSE
  /\ queue' = <<>> /\ job' = Nobody(Uploaders) /\ tries' = [u \in Uploaders |-> 0]
  /\ failed' = {}

\* A slip: the list is empty, but a thread is still at its last item.
Join_Early ==
  /\ phase = "build" /\ todo = {}
  /\ phase' = "drain"
  /\ UNCHANGED <<attempts, attempt, pool, orphans, stores, leftover>>

\* All threads have stopped.  After a hard error the pool is dropped, not drained: its workers
\* go on with what is queued.
Join ==
  /\ phase = "build" /\ step = Idle
  /\ \/ /\ hardErr
        /\ orphans' = orphans \cup ToSet(queue) \cup (Range(job) \ {None})
        /\ Reset
        /\ UNCHANGED <<attempts, stores, leftover>>
     \/ /\ ~hardErr /\ todo = {}
        /\ phase' = "drain"
        /\ UNCHANGED <<attempts, attempt, pool, orphans, stores, leftover>>

\* drain() has joined the workers; ensure_ok withholds the manifest if a put failed.
Drained == queue = <<>> /\ job = Nobody(Uploaders)

Drain ==
  /\ phase = "drain" /\ Drained
  /\ IF failed = {}
       THEN phase' = "write" /\ UNCHANGED <<attempt, pool>>
       ELSE Reset
  /\ UNCHANGED <<attempts, orphans, stores, leftover>>

WriteManifest ==
  /\ phase = "write"
  /\ \/ manifest' = Names(built) /\ phase' = "publish" /\ UNCHANGED <<attempt, pool>>
     \/ Reset /\ UNCHANGED manifest
  /\ UNCHANGED <<attempts, orphans, corpus, space, advertised, leftover>>

\* space_put_manifest: a put that fails is logged, and the attempt is a success all the same.
PublishManifest ==
  /\ phase = "publish"
  /\ advertised' \in {manifest, advertised}
  /\ Reset
  /\ UNCHANGED <<attempts, orphans, corpus, space, manifest, leftover>>

\* The process dies; the directories and the object store stay.
Crash ==
  /\ phase # "idle"
  /\ Reset
  /\ orphans' = {}
  /\ UNCHANGED <<attempts, stores, leftover>>

--------------------------------------------------------------------------------
(* The upload pool *)

Receive(u) ==
  /\ job[u] = None /\ queue # <<>>
  /\ job' = [job EXCEPT ![u] = Head(queue)]
  /\ tries' = [tries EXCEPT ![u] = 0]
  /\ queue' = Tail(queue)
  /\ UNCHANGED <<phase, attempts, attempt, failed, orphans, stores, leftover>>

Finish(u) == /\ job' = [job EXCEPT ![u] = None]
             /\ tries' = [tries EXCEPT ![u] = 0]
             /\ UNCHANGED <<phase, attempts, attempt, queue, orphans, corpus, manifest, advertised, leftover>>

\* The file is read once, before the first put.
ReadFails(u) ==
  /\ job[u] # None /\ tries[u] = 0
  /\ failed' = failed \cup {job[u]}
  /\ UNCHANGED space
  /\ Finish(u)

PutOk(u) ==
  /\ job[u] # None
  /\ job[u] \in corpus
  /\ space' = space \cup {job[u]}
  /\ UNCHANGED failed
  /\ Finish(u)

\* Slips: the last error is dropped; the retries start over.
PutFails_Forgets(u) ==
  /\ job[u] # None /\ job[u] \in corpus
  /\ IF tries[u] + 1 < UPLOAD_RETRIES
       THEN /\ tries' = [tries EXCEPT ![u] = @ + 1]
            /\ UNCHANGED <<phase, attempts, attempt, queue, job, orphans, corpus, manifest,
                           advertised, leftover>>
       ELSE Finish(u)
  /\ UNCHANGED <<space, failed>>

PutFails_Forever(u) ==
  /\ job[u] # None /\ job[u] \in corpus
  /\ tries' = [tries EXCEPT ![u] = IF @ + 1 < UPLOAD_RETRIES THEN @ + 1 ELSE 0]
  /\ UNCHANGED <<phase, attempts, attempt, queue, job, failed, orphans, stores, leftover>>

\* An error may also hide a put that has landed.
PutFails(u) ==
  /\ job[u] # None /\ job[u] \in corpus
  /\ space' \in {space, space \cup {job[u]}}
  /\ IF tries[u] + 1 < UPLOAD_RETRIES
       THEN /\ tries' = [tries EXCEPT ![u] = @ + 1]
            /\ UNCHANGED <<phase, attempts, attempt, queue, job, failed, orphans, corpus,
                           manifest, advertised, leftover>>
       ELSE failed' = failed \cup {job[u]} /\ Finish(u)

\* A worker of an undrained pool, to whose report nobody listens.
OrphanEnds(b) ==
  /\ b \in orphans
  /\ orphans' = orphans \ {b}
  /\ space' \in {space} \cup {space \cup {x} : x \in corpus \cap {b}}
  /\ UNCHANGED <<phase, attempts, attempt, pool, corpus, manifest, advertised, leftover>>

\* Another entity's conversion uploads the same bundle.
OtherEntityPuts(b) ==
  /\ b \notin space
  /\ space' = space \cup {b}
  /\ UNCHANGED <<phase, attempts, attempt, pool, orphans, corpus, manifest, advertised, leftover>>

Converter(c) == Take(c) \/ Look(c) \/ BundleOk(c) \/ BundleFails(c) \/ HardError(c) \/ Enqueue(c)
Attempt == Probe \/ Join \/ Drain \/ WriteManifest \/ PublishManifest
Uploader(u) == Receive(u) \/ ReadFails(u) \/ PutOk(u) \/ PutFails(u)

Next ==
  \/ Start \/ Attempt \/ Crash
  \/ \E c \in Converters : Converter(c)
  \/ \E u \in Uploaders : Uploader(u)
  \/ \E b \in Bundles : OrphanEnds(b) \/ OtherEntityPuts(b)

Spec == Init /\ [][Next]_vars

\* Every thread runs; builds and puts end, one way or another.
FairSpec ==
  /\ Spec
  /\ WF_vars(Attempt)
  /\ \A c \in Converters : WF_vars(Converter(c))
  /\ \A u \in Uploaders : WF_vars(Uploader(u))
--------------------------------------------------------------------------------
(* Properties *)

\* The gate before the manifest: a bundle it lists is in the object store, unless its file was
\* in the corpus directory before the attempt.  Threads race for shared names, the queue blocks
\* them, uploads are retried and reported by other threads, and an attempt that dies or gives
\* up leaves uploads behind.
ManifestHonest ==
  /\ phase \in {"write", "publish"} => Names(built) \subseteq space \cup leftover
  /\ advertised \subseteq space \cup leftover

\* "A manifest must never advertise a bundle that did not land" (crate/src/upload.rs:30).
NothingDangles == advertised \subseteq space

\* No item is lost between the threads: when they are done each is in the manifest or counts
\* against its exit code, and until then each is in one place.
EveryItemAccounted ==
  /\ phase \in {"drain", "write", "publish"} => built \cup bad = Items
  /\ \A c, d \in Converters : item[c] # None /\ item[c] = item[d] => c = d
  /\ \A c \in Converters : item[c] \notin todo \cup built \cup bad

\* Every attempt ends, however full the channel and however often puts fail.
AttemptEnds == phase # "idle" ~> phase = "idle"
================================================================================
