------------------------------- MODULE Revalidate -------------------------------
(***************************************************************************)
(* Revalidation of one entity whose declared hashes do not name the bytes  *)
(* (abcdn/handlers/fresh.rs and Proxy::refresh_entity_content in live.rs): *)
(* a manifest request downloads the content again, compares it with the    *)
(* digests on disk and prunes the conversions of bytes that changed, while *)
(* other threads fetch content, scan the entity and build bundles.         *)
(*                                                                         *)
(* The bytes of a hash are a version number, 0 standing for none; each GLB *)
(* refers to every dependency.  A content-versioned id is a hash whose     *)
(* version never moves.  The caches of resolved paths are ServeResolve's.  *)
(***************************************************************************)
EXTENDS Naturals, Functions

CONSTANTS
  Glbs, Deps,    \* the entity's hashes: models, and their images and buffers
  Builders,      \* threads that convert
  None,
  MaxChanges,    \* bound: once bytes changed so often under one hash, none changes again
  MaxFaults      \* bound: failures, evictions, cancelled requests and restarts

Hashes == Glbs \cup Deps
MaxVersion == MaxChanges + 1
Versions == 1..MaxVersion

ASSUME RevalidateAssumption ==
  /\ Glbs \cap Deps = {}
  /\ None \notin Hashes
  /\ MaxChanges \in Nat /\ MaxFaults \in Nat

VARIABLES
  remote,        \* the version the content server answers for each hash
  content,       \* the version in the content store, or 0
  digest,        \* the version whose digest the digest file has, or 0
  conv,          \* the conversions on disk: what each of them was made from
  ctx,           \* the entity context in memory: the versions it scanned
  fetching,      \* the bytes an ensure_content has and has not stored, or 0
  builder,       \* what each thread is converting
  refresh,       \* the refresh_entity_content under way
  awaiting,      \* a request awaits the refresh
  inflight,      \* revalidate_inflight has the entity
  recent,        \* revalidate_recent has the entity
  faults,        \* how many faults have happened
  suspect        \* history: hashes replaced under a thread that kept old bytes

disk == <<content, digest, conv>>
handler == <<awaiting, inflight, recent>>
vars == <<remote, disk, ctx, fetching, builder, refresh, handler, faults, suspect>>

\* The function f with h mapped to v.
Put(f, h, v) == [x \in {h} \cup DOMAIN f |-> IF x = h THEN v ELSE f[x]]

\* What the conversion of h reads.
Inputs(h) == IF h \in Glbs THEN {h} \cup Deps ELSE {h}

\* Bytes of some of the hashes.
Held == UNION {[I -> Versions] : I \in SUBSET Hashes}
Scan == [Glbs -> Versions]
Conversion == [bytes : Held, scan : Scan]

NoScan == [g \in Glbs |-> 0]
IdleBuilder == [pc |-> "idle", job |-> None, scan |-> NoScan, bytes |-> <<>>]
IdleRefresh == [pc |-> "idle", todo |-> {}, at |-> None, got |-> 0, old |-> <<>>,
                fresh |-> <<>>, changed |-> {}]

BuilderState ==
  [pc : {"idle", "ctx", "insert", "read"}, job : Hashes \cup {None},
   scan : {NoScan} \cup Scan, bytes : Held]
RefreshState ==
  [pc : {"idle", "fetch", "store", "forget", "prune", "done"}, todo : SUBSET Hashes,
   at : Hashes \cup {None}, got : 0..MaxVersion,
   old : {<<>>} \cup [Hashes -> 0..MaxVersion], fresh : Held, changed : SUBSET Hashes]

\* The types of the state; the names an interrupted refresh leaves are hashes of the entity.
TypeOK ==
  /\ remote \in [Hashes -> Versions]
  /\ content \in [Hashes -> 0..MaxVersion] /\ digest \in [Hashes -> 0..MaxVersion]
  /\ DOMAIN conv \subseteq Hashes
  /\ \A h \in DOMAIN conv : conv[h] \in Conversion /\ DOMAIN conv[h].bytes = Inputs(h)
  /\ ctx \in {NoScan} \cup Scan
  /\ fetching \in [Hashes -> 0..MaxVersion]
  /\ builder \in [Builders -> BuilderState]
  /\ \A b \in Builders :
       /\ builder[b].pc # "idle" =>
            builder[b].job \in Hashes /\ DOMAIN builder[b].bytes \subseteq Inputs(builder[b].job)
       /\ builder[b].pc \in {"insert", "read"} => builder[b].scan \in Scan
  /\ refresh \in RefreshState
  /\ refresh.pc \in {"fetch", "store"} => refresh.old \in [Hashes -> 0..MaxVersion]
  /\ refresh.pc = "store" => refresh.at \in Hashes \ refresh.todo /\ refresh.got \in Versions
  /\ refresh.changed \subseteq DOMAIN refresh.fresh
  /\ DOMAIN refresh.fresh \subseteq Hashes \ refresh.todo
  /\ awaiting \in BOOLEAN /\ inflight \in BOOLEAN /\ recent \in BOOLEAN
  /\ faults \in 0..MaxFaults
  /\ suspect \subseteq Hashes

Init ==
  /\ remote = [h \in Hashes |-> 1]
  /\ content = [h \in Hashes |-> 0] /\ digest = [h \in Hashes |-> 0]
  /\ conv = <<>> /\ ctx = NoScan
  /\ fetching = [h \in Hashes |-> 0]
  /\ builder = [b \in Builders |-> IdleBuilder]
  /\ refresh = IdleRefresh
  /\ awaiting = FALSE /\ inflight = FALSE /\ recent = FALSE
  /\ faults = 0
  /\ suspect = {}

Fault == faults < MaxFaults /\ faults' = faults + 1

\* Hashes of H of which some thread holds bytes older than the version v.
HeldOlder(H, v) ==
  {h \in H : \/ fetching[h] \in 1..(v[h] - 1)
             \/ \E b \in Builders :
                  \/ h \in DOMAIN builder[b].bytes /\ builder[b].bytes[h] < v[h]
                  \/ h \in Glbs /\ builder[b].scan[h] \in 1..(v[h] - 1)}

--------------------------------------------------------------------------------
(* The request: revalidate_if_stale *)

Revalidate ==
  /\ ~recent /\ ~inflight
  /\ inflight' = TRUE /\ awaiting' = TRUE
  /\ refresh' = [IdleRefresh EXCEPT !.pc = "fetch", !.todo = Hashes, !.old = digest]
  /\ UNCHANGED <<remote, disk, ctx, fetching, builder, recent, faults, suspect>>

\* The refresh returned, with an error or not.
Answered ==
  /\ awaiting /\ refresh.pc = "done"
  /\ recent' = TRUE /\ inflight' = FALSE /\ awaiting' = FALSE
  /\ refresh' = IdleRefresh
  /\ UNCHANGED <<remote, disk, ctx, fetching, builder, faults, suspect>>

\* The client is gone: the future is dropped at its await, the thread runs on.
CancelRequest ==
  /\ awaiting /\ Fault
  /\ awaiting' = FALSE
  /\ UNCHANGED <<remote, disk, ctx, fetching, builder, refresh, inflight, recent, suspect>>

RefreshUnheard ==
  /\ ~awaiting /\ refresh.pc = "done"
  /\ refresh' = IdleRefresh
  /\ UNCHANGED <<remote, disk, ctx, fetching, builder, handler, faults, suspect>>

DebounceExpires ==
  /\ recent /\ recent' = FALSE
  /\ UNCHANGED <<remote, disk, ctx, fetching, builder, refresh, awaiting, inflight, faults, suspect>>

--------------------------------------------------------------------------------
(* The thread: refresh_entity_content *)

\* A slip: the hash stays on the list.
RefreshFetch_KeepsTodo(h) ==
  /\ refresh.pc = "fetch" /\ h \in refresh.todo
  /\ refresh' = [refresh EXCEPT !.pc = "store", !.at = h, !.got = remote[h]]
  /\ UNCHANGED <<remote, disk, ctx, fetching, builder, handler, faults, suspect>>

RefreshFetch(h) ==
  /\ refresh.pc = "fetch" /\ h \in refresh.todo
  /\ refresh' = [refresh EXCEPT !.pc = "store", !.todo = @ \ {h}, !.at = h, !.got = remote[h]]
  /\ UNCHANGED <<remote, disk, ctx, fetching, builder, handler, faults, suspect>>

\* A hash that cannot be fetched is left out of the new digests.
RefreshSkip(h) ==
  /\ refresh.pc = "fetch" /\ h \in refresh.todo
  /\ Fault
  /\ refresh' = [refresh EXCEPT !.todo = @ \ {h}]
  /\ UNCHANGED <<remote, disk, ctx, fetching, builder, handler, suspect>>

\* The entity does not resolve, or a file cannot be written.
RefreshError ==
  /\ refresh.pc \in {"fetch", "store"}
  /\ Fault
  /\ refresh' = [refresh EXCEPT !.pc = "done"]
  /\ UNCHANGED <<remote, disk, ctx, fetching, builder, handler, suspect>>

\* content.write takes no content lock.
RefreshStore ==
  /\ refresh.pc = "store"
  /\ LET h == refresh.at
         differs == refresh.old[h] # refresh.got IN
       /\ content' = IF differs THEN [content EXCEPT ![h] = refresh.got] ELSE content
       /\ suspect' = IF differs THEN suspect \cup HeldOlder({h}, content') ELSE suspect
       /\ refresh' = [refresh EXCEPT !.pc = "fetch", !.at = None, !.got = 0,
                        !.fresh = Put(@, h, refresh.got),
                        !.changed = IF differs THEN @ \cup {h} ELSE @]
  /\ UNCHANGED <<remote, digest, conv, ctx, fetching, builder, handler, faults>>

\* A slip: hashes that were skipped keep the digest they had.
Recorded_KeepsSkipped(fresh) ==
  [h \in Hashes |-> IF h \in DOMAIN fresh THEN fresh[h] ELSE digest[h]]

\* The new digest file.
Recorded(fresh) == [h \in Hashes |-> IF h \in DOMAIN fresh THEN fresh[h] ELSE 0]

\* The rename of the digest file may fail unseen.
RefreshRecord ==
  /\ refresh.pc = "fetch" /\ refresh.todo = {}
  /\ \/ digest' = Recorded(refresh.fresh) /\ UNCHANGED faults
     \/ Fault /\ UNCHANGED digest
  /\ refresh' = [refresh EXCEPT !.old = <<>>, !.pc = IF refresh.changed = {} THEN "done" ELSE "forget"]
  /\ UNCHANGED <<remote, content, conv, ctx, fetching, builder, handler, suspect>>

\* A slip: the context stays in memory.
RefreshForget_KeepsCtx ==
  /\ refresh.pc = "forget"
  /\ refresh' = [refresh EXCEPT !.pc = "prune"]
  /\ UNCHANGED <<remote, disk, ctx, fetching, builder, handler, faults, suspect>>

\* The context goes; a thread that took or makes an old one keeps it.
RefreshForget ==
  /\ refresh.pc = "forget"
  /\ ctx' = NoScan
  /\ suspect' = suspect \cup HeldOlder(Hashes, Recorded(refresh.fresh))
  /\ refresh' = [refresh EXCEPT !.pc = "prune"]
  /\ UNCHANGED <<remote, disk, fetching, builder, handler, faults>>

\* A slip: the models that use a changed dependency are kept.
Stale_OnlyChanged(fresh, changed) == changed

\* prune_stale_bundles: what was changed, and the models if a dependency was.
Stale(fresh, changed) ==
  LET glbs == Glbs \cap DOMAIN fresh
  IN changed \cup (IF changed \subseteq glbs THEN {} ELSE glbs)

RefreshPrune ==
  /\ refresh.pc = "prune"
  /\ conv' = Restrict(conv, DOMAIN conv \ Stale(refresh.fresh, refresh.changed))
  /\ refresh' = [refresh EXCEPT !.pc = "done"]
  /\ UNCHANGED <<remote, content, digest, ctx, fetching, builder, handler, faults, suspect>>

Refresher ==
  \/ \E h \in Hashes : RefreshFetch(h) \/ RefreshSkip(h)
  \/ RefreshError \/ RefreshStore \/ RefreshRecord \/ RefreshForget \/ RefreshPrune

--------------------------------------------------------------------------------
(* Other threads: ensure_content, entity_ctx, bundle and build *)

FetchContent(h) ==
  /\ content[h] = 0 /\ fetching[h] = 0
  /\ fetching' = [fetching EXCEPT ![h] = remote[h]]
  /\ UNCHANGED <<remote, disk, ctx, builder, refresh, handler, faults, suspect>>

StoreContent(h) ==
  /\ fetching[h] # 0
  /\ content' = [content EXCEPT ![h] = fetching[h]]
  /\ fetching' = [fetching EXCEPT ![h] = 0]
  /\ UNCHANGED <<remote, digest, conv, ctx, builder, refresh, handler, faults, suspect>>

StartBuild(b, h) ==
  /\ builder[b].pc = "idle" /\ h \notin DOMAIN conv
  /\ \A c \in Builders : builder[c].job # h
  /\ builder' = [builder EXCEPT ![b] = [IdleBuilder EXCEPT !.pc = "ctx", !.job = h]]
  /\ UNCHANGED <<remote, disk, ctx, fetching, refresh, handler, faults, suspect>>

UseCtx(b) ==
  /\ builder[b].pc = "ctx" /\ ctx # NoScan
  /\ builder' = [builder EXCEPT ![b].pc = "read", ![b].scan = ctx]
  /\ UNCHANGED <<remote, disk, ctx, fetching, refresh, handler, faults, suspect>>

\* One thread scans, under the entity's lock.
ScanEntity(b) ==
  /\ builder[b].pc = "ctx" /\ ctx = NoScan
  /\ \A c \in Builders : builder[c].pc # "insert"
  /\ \A g \in Glbs : content[g] # 0
  /\ builder' = [builder EXCEPT ![b].pc = "insert", ![b].scan = Restrict(content, Glbs)]
  /\ UNCHANGED <<remote, disk, ctx, fetching, refresh, handler, faults, suspect>>

InsertCtx(b) ==
  /\ builder[b].pc = "insert"
  /\ ctx' = builder[b].scan
  /\ builder' = [builder EXCEPT ![b].pc = "read"]
  /\ UNCHANGED <<remote, disk, fetching, refresh, handler, faults, suspect>>

ReadInput(b, i) ==
  /\ builder[b].pc = "read"
  /\ i \in Inputs(builder[b].job) \ DOMAIN builder[b].bytes
  /\ content[i] # 0
  /\ builder' = [builder EXCEPT ![b].bytes = Put(@, i, content[i])]
  /\ UNCHANGED <<remote, disk, ctx, fetching, refresh, handler, faults, suspect>>

\* The bundle is renamed into place, or the build fails.
FinishBuild(b) ==
  /\ builder[b].pc = "read"
  /\ \/ /\ DOMAIN builder[b].bytes = Inputs(builder[b].job)
        /\ conv' = Put(conv, builder[b].job, [bytes |-> builder[b].bytes, scan |-> builder[b].scan])
     \/ UNCHANGED conv
  /\ builder' = [builder EXCEPT ![b] = IdleBuilder]
  /\ UNCHANGED <<remote, content, digest, ctx, fetching, refresh, handler, faults, suspect>>

Builder(b) ==
  \/ \E h \in Hashes : StartBuild(b, h) \/ ReadInput(b, h)
  \/ UseCtx(b) \/ ScanEntity(b) \/ InsertCtx(b) \/ FinishBuild(b)

--------------------------------------------------------------------------------
(* The environment *)

RemoteChanges(h) ==
  /\ \A k \in Hashes : remote[k] < MaxVersion
  /\ remote' = [remote EXCEPT ![h] = @ + 1]
  /\ UNCHANGED <<disk, ctx, fetching, builder, refresh, handler, faults, suspect>>

\* The disk cache evicts a content file, or all the conversions of the entity.
Evict ==
  /\ Fault
  /\ \/ \E h \in Hashes : content[h] # 0 /\ content' = [content EXCEPT ![h] = 0] /\ UNCHANGED conv
     \/ conv # <<>> /\ conv' = <<>> /\ UNCHANGED content
  /\ UNCHANGED <<remote, digest, ctx, fetching, builder, refresh, handler, suspect>>

\* After a restart the directory of the digest files is a key of the disk cache as well.
EvictDigests ==
  /\ Fault
  /\ digest # [h \in Hashes |-> 0]
  /\ digest' = [h \in Hashes |-> 0]
  /\ UNCHANGED <<remote, content, conv, ctx, fetching, builder, refresh, handler, suspect>>

\* Between the digests and the pruning, the restart loses what was to be pruned.
Restart ==
  /\ Fault
  /\ ctx' = NoScan
  /\ fetching' = [h \in Hashes |-> 0]
  /\ builder' = [b \in Builders |-> IdleBuilder]
  /\ refresh' = IdleRefresh
  /\ awaiting' = FALSE /\ inflight' = FALSE /\ recent' = FALSE
  /\ suspect' = suspect \cup
       (IF refresh.pc \in {"forget", "prune"}
          THEN UNION {Inputs(h) : h \in Stale(refresh.fresh, refresh.changed)} ELSE {})
  /\ UNCHANGED <<remote, disk>>

Next ==
  \/ Revalidate \/ Answered \/ CancelRequest \/ RefreshUnheard \/ DebounceExpires
  \/ Refresher
  \/ \E b \in Builders : Builder(b)
  \/ \E h \in Hashes : FetchContent(h) \/ StoreContent(h) \/ RemoteChanges(h)
  \/ Evict \/ EvictDigests \/ Restart

Spec == Init /\ [][Next]_vars

\* Manifest requests keep coming, and what runs goes on.
Fairness ==
  /\ WF_vars(Revalidate) /\ WF_vars(Answered) /\ WF_vars(RefreshUnheard)
  /\ WF_vars(DebounceExpires) /\ WF_vars(Refresher)

FairSpec == Spec /\ Fairness

--------------------------------------------------------------------------------
(* Properties *)

\* A conversion older than a recorded digest is not forgotten: its own digest is gone, so
\* that the next refresh prunes it, unless a thread held the old bytes while they were
\* replaced or the server stopped before pruning (refresh_entity_content, prune_stale_bundles).
StaleIsRemembered ==
  refresh.pc \notin {"forget", "prune"} =>
    \A h \in DOMAIN conv :
      digest[h] # 0 => \A i \in Inputs(h) \ suspect : conv[h].bytes[i] >= digest[i]

\* What later builds start from, the stored content and the context in memory, is never
\* older than the recorded digests, with the same exceptions (entity_ctx, ensure_content).
SourcesNotBehind ==
  refresh.pc # "forget" =>
    /\ \A h \in Hashes \ suspect : content[h] # 0 => content[h] >= digest[h]
    /\ \A g \in Glbs \ suspect : ctx[g] # 0 => ctx[g] >= digest[g]

\* A request was dropped while its refresh ran: the entity stays in revalidate_inflight.
Abandoned == inflight /\ ~awaiting

\* When the content server stops changing, manifest requests bring the digests and the
\* conversions up to it in the end, failures and restarts included, unless a dropped
\* request left the entity in revalidate_inflight (revalidate_if_stale).
RevalidationHeals ==
  <>[](\/ Abandoned
       \/ /\ digest = remote
          /\ \A h \in DOMAIN conv : \A i \in Inputs(h) \ suspect : conv[h].bytes[i] = remote[i])

\* The README's promise, "prune stale conversions when bytes changed under an unchanged
\* hash": no conversion outlives the bytes it was made from, the models that decide an
\* image's colour space included (build, prune_stale_bundles).
StaleIsPruned ==
  refresh.pc = "idle" =>
    \A h \in DOMAIN conv :
      /\ \A i \in Inputs(h) \ suspect : digest[h] # 0 => conv[h].bytes[i] >= digest[i]
      /\ \A g \in Glbs \ suspect : conv[h].scan[g] >= digest[g]
================================================================================
