------------------------------ MODULE ServeResolve ------------------------------
(***************************************************************************)
(* A GET of the server for a file of one entity: the lookup on disk behind *)
(* resolve_cache (abcdn/serve.rs, abcdn/handlers/dispatch.rs) and, when it *)
(* finds nothing, bundle_fallback (abcdn/handlers/jit.rs): the object      *)
(* store, the build lane, and the second lookup, whose failure is kept in  *)
(* jit_fail_cache as a name that no build makes.                           *)
(*                                                                         *)
(* The build lane is JitBuild's, one lock and one task at a time, without  *)
(* the requests that are dropped; the expiry of an entry is an action.  A  *)
(* revalidation of the entity takes files away and then clears the caches. *)
(***************************************************************************)
EXTENDS Naturals, FiniteSets

CONSTANTS
  Requests, Paths,
  Makes,         \* the paths a build of the entity produces
  InSpace,       \* the paths the object store has
  None,
  MaxFaults      \* bound: builds that fail or omit a path, evictions and revalidations

ASSUME PathsAssumption ==
  Makes \subseteq Paths /\ InSpace \subseteq Paths /\ None \notin Requests /\ MaxFaults \in Nat

VARIABLES
  onDisk,        \* the paths under jit_root
  cached,        \* resolve_cache: "hit", "miss", or "unknown" when it has no entry
  missed,        \* jit_fail_cache's miss:{path} entries
  failed,        \* jit_fail_cache has the entity
  building,      \* the request whose task has the build lock
  pc, path,
  saw,           \* whether the request found the file when it looked
  via,           \* what the lookup follows: nothing yet, the object store or a build
  clearing,      \* a revalidation has removed files and has not cleared the caches yet
  faults,
  excused        \* history: paths a build omitted, an eviction or a revalidation took, or
                 \* an answer called absent when they were not

disk == <<onDisk, building>>
caches == <<cached, missed, failed>>
rest == <<clearing, faults, excused>>
vars == <<disk, caches, pc, path, saw, via, rest>>

Stages == {"idle", "lookup", "consult", "stat", "remember", "open", "fallback", "space", "lane", "probe",
           "build", "invalidate", "unbuildable", "served", "refused"}

\* The types of the state; the lock is held just while a request probes or builds.
TypeOK ==
  /\ onDisk \subseteq Paths
  /\ cached \in [Paths -> {"hit", "miss", "unknown"}]
  /\ missed \subseteq Paths /\ failed \in BOOLEAN
  /\ pc \in [Requests -> Stages] /\ path \in [Requests -> Paths \cup {None}]
  /\ saw \in [Requests -> BOOLEAN]
  /\ via \in [Requests -> {"local", "space", "build"}]
  /\ {r \in Requests : pc[r] \in {"probe", "build"}} = {building} \ {None}
  /\ clearing \in BOOLEAN /\ faults \in 0..MaxFaults
  /\ excused \subseteq Paths

Init ==
  /\ onDisk = {} /\ building = None
  /\ cached = [p \in Paths |-> "unknown"]
  /\ missed = {} /\ failed = FALSE
  /\ pc = [r \in Requests |-> "idle"]
  /\ path = [r \in Requests |-> None]
  /\ saw = [r \in Requests |-> FALSE]
  /\ via = [r \in Requests |-> "local"]
  /\ clearing = FALSE /\ faults = 0 /\ excused = {}

Goto(r, from, to) == pc[r] = from /\ pc' = [pc EXCEPT ![r] = to]

Fault == faults < MaxFaults /\ faults' = faults + 1

\* Where a request whose lookup found nothing goes on.
NotFound(r) == CASE via[r] = "local" -> "fallback"
                 [] via[r] = "space" -> "lane"
                 [] via[r] = "build" -> "unbuildable"

--------------------------------------------------------------------------------
(* dispatch_local *)

Arrive(r, p) ==
  /\ Goto(r, "idle", "lookup")
  /\ path' = [path EXCEPT ![r] = p]
  /\ UNCHANGED <<disk, caches, saw, via, rest>>

\* serve_lookup chooses the place to look at.
Lookup(r) ==
  /\ Goto(r, "lookup", "consult")
  /\ saw' = [saw EXCEPT ![r] = path[r] \in onDisk]
  /\ UNCHANGED <<disk, caches, path, via, rest>>

\* An answer of resolve_cache makes the look at the disk needless.
Consult(r) ==
  /\ Goto(r, "consult", CASE cached[path[r]] = "hit" -> "open"
                          [] cached[path[r]] = "miss" -> NotFound(r)
                          [] OTHER -> "stat")
  /\ saw' = [saw EXCEPT ![r] = @ /\ cached[path[r]] = "unknown"]
  /\ UNCHANGED <<disk, caches, path, via, rest>>

Stat(r) ==
  /\ Goto(r, "stat", "remember")
  /\ saw' = [saw EXCEPT ![r] = @ /\ path[r] \in onDisk]
  /\ UNCHANGED <<disk, caches, path, via, rest>>

\* Both answers are remembered, whatever happened since.
Remember(r) ==
  /\ Goto(r, "remember", IF saw[r] THEN "open" ELSE NotFound(r))
  /\ cached' = [cached EXCEPT ![path[r]] = IF saw[r] THEN "hit" ELSE "miss"]
  /\ excused' = IF saw[r] THEN excused ELSE excused \cup ({path[r]} \cap onDisk)
  /\ saw' = [saw EXCEPT ![r] = FALSE]
  /\ UNCHANGED <<disk, missed, failed, path, via, clearing, faults>>

Open(r) ==
  /\ Goto(r, "open", IF path[r] \in onDisk THEN "served" ELSE NotFound(r))
  /\ UNCHANGED <<disk, caches, path, saw, via, rest>>

--------------------------------------------------------------------------------
(* bundle_fallback *)

Fallback(r) ==
  /\ Goto(r, "fallback", IF path[r] \in missed THEN "refused" ELSE "space")
  /\ UNCHANGED <<disk, caches, path, saw, via, rest>>

\* space_materialize: the file is taken from the object store, if it is there and can be read.
SpaceFetch(r) ==
  /\ \E hit \in {FALSE, path[r] \in InSpace} :
       /\ Goto(r, "space", IF hit THEN "invalidate" ELSE "lane")
       /\ onDisk' = IF hit THEN onDisk \cup {path[r]} ELSE onDisk
       /\ via' = IF hit THEN [via EXCEPT ![r] = "space"] ELSE via
  /\ UNCHANGED <<building, caches, path, saw, rest>>

\* A slip: what was remembered before the build is kept.
Invalidate_Skips(r) ==
  /\ Goto(r, "invalidate", "lookup")
  /\ UNCHANGED <<disk, caches, path, saw, via, rest>>

Invalidate(r) ==
  /\ Goto(r, "invalidate", "lookup")
  /\ cached' = [cached EXCEPT ![path[r]] = "unknown"]
  /\ UNCHANGED <<disk, missed, failed, path, saw, via, rest>>

EnterLane(r) ==
  /\ building = None
  /\ Goto(r, "lane", IF failed THEN "refused" ELSE "probe")
  /\ building' = IF failed THEN None ELSE r
  /\ UNCHANGED <<onDisk, caches, path, saw, via, rest>>

\* A slip: the lock is kept when the file is there.
Probe_KeepsLock(r) ==
  /\ Goto(r, "probe", IF path[r] \in onDisk THEN "invalidate" ELSE "build")
  /\ via' = [via EXCEPT ![r] = "build"]
  /\ UNCHANGED <<disk, caches, path, saw, rest>>

Probe(r) ==
  /\ Goto(r, "probe", IF path[r] \in onDisk THEN "invalidate" ELSE "build")
  /\ building' = IF path[r] \in onDisk THEN None ELSE r
  /\ via' = [via EXCEPT ![r] = "build"]
  /\ UNCHANGED <<onDisk, caches, path, saw, rest>>

\* A build that worked may have omitted an item that failed.
BuildOk(r) ==
  \E made \in SUBSET Makes :
    /\ Goto(r, "build", "invalidate")
    /\ IF made = Makes THEN UNCHANGED faults ELSE Fault
    /\ onDisk' = onDisk \cup made
    /\ excused' = excused \cup (Makes \ onDisk')
    /\ building' = None
    /\ UNCHANGED <<caches, path, saw, via, clearing>>

\* A build that failed leaves what it had made before.
BuildFails(r) ==
  \E made \in SUBSET Makes :
    /\ Goto(r, "build", "refused") /\ Fault
    /\ onDisk' = onDisk \cup made
    /\ failed' = TRUE
    /\ building' = None
    /\ UNCHANGED <<cached, missed, path, saw, via, clearing, excused>>

\* A build that worked did not make the path.
Unbuildable(r) ==
  /\ Goto(r, "unbuildable", "refused")
  /\ missed' = missed \cup {path[r]}
  /\ UNCHANGED <<disk, cached, failed, path, saw, via, rest>>

Return(r) ==
  /\ pc[r] \in {"served", "refused"}
  /\ pc' = [pc EXCEPT ![r] = "idle"]
  /\ path' = [path EXCEPT ![r] = None]
  /\ via' = [via EXCEPT ![r] = "local"]
  /\ UNCHANGED <<disk, caches, saw, rest>>

Request(r) ==
  \/ Lookup(r) \/ Consult(r) \/ Stat(r) \/ Remember(r) \/ Open(r)
  \/ Fallback(r) \/ SpaceFetch(r) \/ Invalidate(r)
  \/ EnterLane(r) \/ Probe(r) \/ BuildOk(r) \/ BuildFails(r)
  \/ Unbuildable(r) \/ Return(r)

--------------------------------------------------------------------------------
(* The disk cache and the time to live of the entries *)

\* A build and a read of the object store hold a pin.
Pinned ==
  \/ building # None
  \/ \E r \in Requests : pc[r] = "space" \/ (via[r] = "space" /\ pc[r] \notin {"lane", "refused"})

Evict ==
  /\ onDisk # {} /\ ~Pinned /\ Fault
  /\ onDisk' = {}
  /\ excused' = excused \cup onDisk
  /\ UNCHANGED <<building, caches, pc, path, saw, via, clearing>>

\* refresh_entity_content found new content: bundles, or the whole directory, are removed,
\* whoever has a pin or the lock.
RevalidateRemoves ==
  \E kept \in SUBSET onDisk :
    /\ kept # onDisk /\ ~clearing /\ Fault
    /\ onDisk' = kept
    /\ excused' = excused \cup (onDisk \ kept)
    /\ clearing' = TRUE
    /\ UNCHANGED <<building, caches, pc, path, saw, via>>

RevalidateClears ==
  /\ clearing /\ clearing' = FALSE
  /\ cached' = [p \in Paths |-> "unknown"]
  /\ missed' = {} /\ failed' = FALSE
  /\ UNCHANGED <<disk, pc, path, saw, via, faults, excused>>

\* The request that revalidates is dropped before it clears anything.
RevalidateDropped ==
  /\ clearing /\ clearing' = FALSE
  /\ UNCHANGED <<disk, caches, pc, path, saw, via, faults, excused>>

ExpireResolved(p) ==
  /\ cached[p] # "unknown"
  /\ cached' = [cached EXCEPT ![p] = "unknown"]
  /\ UNCHANGED <<disk, missed, failed, pc, path, saw, via, rest>>

\* A slip: an entry without a time to live.
ExpireMissed_Never(p) == p \in missed /\ FALSE /\ UNCHANGED vars

ExpireMissed(p) ==
  /\ p \in missed
  /\ missed' = missed \ {p}
  /\ UNCHANGED <<disk, cached, failed, pc, path, saw, via, rest>>

ExpireFailed ==
  /\ failed /\ failed' = FALSE
  /\ UNCHANGED <<disk, cached, missed, pc, path, saw, via, rest>>

Next ==
  \/ \E r \in Requests : Request(r) \/ \E p \in Paths : Arrive(r, p)
  \/ \E p \in Paths : ExpireResolved(p) \/ ExpireMissed(p)
  \/ Evict \/ RevalidateRemoves \/ RevalidateClears \/ RevalidateDropped \/ ExpireFailed

Spec == Init /\ [][Next]_vars

\* Requests go on, a build ends, and entries expire; nobody has to ask.
Fairness ==
  /\ \A r \in Requests : WF_vars(Request(r)) /\ SF_vars(EnterLane(r))
  /\ \A p \in Paths : WF_vars(ExpireResolved(p)) /\ WF_vars(ExpireMissed(p))
  /\ WF_vars(ExpireFailed)

FairSpec == Spec /\ Fairness

--------------------------------------------------------------------------------
(* Properties *)

\* A path that builds make is remembered as unbuildable only after a build that worked
\* omitted it, after an eviction or a revalidation removed it, or after another request put
\* an answer from before the build into resolve_cache (bundle_fallback, resolve).
MissesHaveACause == missed \cap Makes \subseteq excused

\* However lookups, builds, evictions and answers interleave, the wrong refusals end:
\* from some time on no request for a path that builds make is refused.
RefusalsEnd == <>[](\A r \in Requests : pc[r] = "refused" => path[r] \notin Makes)
================================================================================
