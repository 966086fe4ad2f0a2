--------------------------- MODULE ServeResolveProofs ---------------------------
(***************************************************************************)
(* Proofs about ServeResolve: its types, and that a name which builds make *)
(* is remembered as unbuildable only for a cause.  The invariant follows a *)
(* request from the end of its build to its second lookup: its path is on  *)
(* disk, or the build omitted it, or it was removed since; and an answer   *)
(* that contradicts the disk was put into resolve_cache by another request *)
(* (excused records each of these causes).                                 *)
(***************************************************************************)
EXTENDS ServeResolve, TLAPS

\* The stages of a lookup that may follow a build.
Second == {"invalidate", "lookup", "consult", "stat", "remember", "open", "unbuildable"}

Made(r) == via[r] = "build" /\ path[r] \in Makes

\* A path that builds make is on disk after one, or excused, and so is what says otherwise.
AfterBuild(r) ==
  Made(r) =>
    /\ pc[r] \in Second => path[r] \in onDisk \cup excused
    /\ pc[r] \in {"lookup", "consult"} /\ cached[path[r]] = "miss" => path[r] \in excused
    /\ pc[r] \in {"consult", "stat", "remember"} /\ ~saw[r] => path[r] \in excused
    /\ pc[r] = "unbuildable" => path[r] \in excused

\* A request knows its path from its arrival on, and gives up only after a build.
Bound(r) ==
  /\ pc[r] # "idle" => path[r] \in Paths
  /\ pc[r] = "idle" => via[r] = "local"
  /\ pc[r] = "unbuildable" => via[r] = "build"

IInv ==
  /\ TypeOK
  /\ \A r \in Requests : Bound(r) /\ AfterBuild(r)
  /\ MissesHaveACause

--------------------------------------------------------------------------------
LEMMA NotFoundType ==
  ASSUME TypeOK, NEW r \in Requests
  PROVE NotFound(r) \in Stages /\ NotFound(r) \notin {"idle", "probe", "build"}
BY DEF TypeOK, NotFound, Stages

\* No step of a request that neither takes nor leaves the lock disturbs the types.
LEMMA LookupType ==
  ASSUME TypeOK, NEW r \in Requests, Bound(r),
         Lookup(r) \/ Consult(r) \/ Stat(r) \/ Remember(r) \/ Open(r) \/ Fallback(r) \/ SpaceFetch(r)
           \/ Invalidate(r) \/ Unbuildable(r) \/ Return(r)
  PROVE TypeOK'
<1> USE PathsAssumption, NotFoundType DEF TypeOK, Stages, Goto, disk, caches, rest, Bound
<1>1. CASE Consult(r) BY <1>1 DEF Consult
<1>2. CASE Stat(r) BY <1>2 DEF Stat
<1>3. CASE Remember(r) BY <1>3 DEF Remember
<1>4. CASE Open(r) BY <1>4 DEF Open
<1>5. CASE Fallback(r) BY <1>5 DEF Fallback
<1>6. CASE SpaceFetch(r) BY <1>6 DEF SpaceFetch
<1>7. CASE Invalidate(r) BY <1>7 DEF Invalidate
<1>8. CASE Unbuildable(r) BY <1>8 DEF Unbuildable
<1>9. CASE Return(r) BY <1>9 DEF Return
<1>10. CASE Lookup(r) BY <1>10 DEF Lookup
<1> QED BY <1>1, <1>2, <1>3, <1>4, <1>5, <1>6, <1>7, <1>8, <1>9, <1>10

LEMMA LaneType ==
  ASSUME TypeOK, NEW r \in Requests, EnterLane(r) \/ Probe(r) \/ BuildOk(r) \/ BuildFails(r)
  PROVE TypeOK'
<1> USE PathsAssumption DEF TypeOK, Stages, Goto, disk, caches, rest
<1>1. CASE EnterLane(r) BY <1>1 DEF EnterLane
<1>2. CASE Probe(r) BY <1>2 DEF Probe
<1>3. CASE BuildOk(r) BY <1>3 DEF BuildOk, Fault
<1>4. CASE BuildFails(r) BY <1>4 DEF BuildFails, Fault
<1> QED BY <1>1, <1>2, <1>3, <1>4

\* What happens around the requests.
Around ==
  \/ \E p \in Paths : ExpireResolved(p) \/ ExpireMissed(p)
  \/ Evict \/ RevalidateRemoves \/ RevalidateClears \/ RevalidateDropped \/ ExpireFailed

LEMMA AroundType == ASSUME TypeOK, Around PROVE TypeOK'
<1> USE PathsAssumption DEF TypeOK, disk, caches, rest
<1>1. ASSUME NEW p \in Paths, ExpireResolved(p) PROVE TypeOK' BY <1>1 DEF ExpireResolved
<1>2. ASSUME NEW p \in Paths, ExpireMissed(p) PROVE TypeOK' BY <1>2 DEF ExpireMissed
<1>3. CASE Evict BY <1>3 DEF Evict, Fault
<1>4. CASE ExpireFailed BY <1>4 DEF ExpireFailed
<1>5. CASE RevalidateRemoves BY <1>5 DEF RevalidateRemoves, Fault
<1>6. CASE RevalidateClears BY <1>6 DEF RevalidateClears
<1>7. CASE RevalidateDropped BY <1>7 DEF RevalidateDropped
<1> QED BY <1>1, <1>2, <1>3, <1>4, <1>5, <1>6, <1>7 DEF Around

LEMMA ArriveType ==
  ASSUME TypeOK, NEW r \in Requests, NEW p \in Paths, Arrive(r, p)
  PROVE TypeOK'
BY DEF TypeOK, Stages, Arrive, Goto, disk, caches, rest

--------------------------------------------------------------------------------
LEMMA InitIInv == Init => IInv
<1> SUFFICES ASSUME Init PROVE IInv
  OBVIOUS
<1>1. TypeOK
  <2>1. {r \in Requests : pc[r] \in {"probe", "build"}} = {building} \ {None}
    BY DEF Init
  <2>2. faults \in 0..MaxFaults
    BY PathsAssumption DEF Init
  <2>3. failed \in BOOLEAN /\ saw \in [Requests -> BOOLEAN]
    BY DEF Init
  <2> QED BY <2>1, <2>2, <2>3 DEF Init, TypeOK, Stages
<1>2. \A r \in Requests : Bound(r) /\ AfterBuild(r)
  BY DEF Init, Bound, AfterBuild, Made
<1>3. MissesHaveACause
  BY DEF Init, MissesHaveACause
<1> QED BY <1>1, <1>2, <1>3 DEF IInv

\* What the step of a request leaves of the others.
LEMMA OthersUntouched ==
  ASSUME TypeOK, NEW r \in Requests, Request(r), NEW q \in Requests \ {r}
  PROVE /\ pc'[q] = pc[q] /\ path'[q] = path[q] /\ saw'[q] = saw[q] /\ via'[q] = via[q]
        /\ onDisk \subseteq onDisk' /\ excused \subseteq excused'
BY DEF TypeOK, Request, Lookup, Consult, Stat, Remember, Open, Fallback, SpaceFetch, Invalidate, EnterLane,
       Probe, BuildOk, BuildFails, Unbuildable, Return, Goto, disk, caches, rest

\* An answer of absence about a file on disk is excused from the moment it is remembered.
LEMMA AbsenceRecorded ==
  ASSUME TypeOK, NEW r \in Requests, Request(r), Bound(r),
         NEW p \in Paths, cached'[p] = "miss", cached[p] # "miss"
  PROVE p \in onDisk => p \in excused'
<1>1. Remember(r) /\ p = path[r] /\ ~saw[r]
  BY DEF TypeOK, Request, Lookup, Consult, Stat, Remember, Open, Fallback, SpaceFetch, Invalidate, EnterLane,
         Probe, BuildOk, BuildFails, Unbuildable, Return, Goto, disk, caches, rest, Bound
<1> QED BY <1>1 DEF Remember

LEMMA OthersKeep ==
  ASSUME IInv, TypeOK', NEW r \in Requests, Request(r), NEW q \in Requests \ {r}
  PROVE Bound(q)' /\ AfterBuild(q)'
<1>1. Bound(q) /\ Bound(r) /\ AfterBuild(q) /\ TypeOK
  BY DEF IInv
<1>2. /\ pc'[q] = pc[q] /\ path'[q] = path[q] /\ saw'[q] = saw[q] /\ via'[q] = via[q]
      /\ onDisk \subseteq onDisk' /\ excused \subseteq excused'
  BY <1>1, OthersUntouched
<1>3. Bound(q)'
  BY <1>1, <1>2 DEF Bound
<1>4. ASSUME Made(q), pc[q] \in {"lookup", "consult"}, cached'[path[q]] = "miss" PROVE path[q] \in excused'
  <2>1. path[q] \in Paths /\ path[q] \in onDisk \cup excused
    BY <1>1, <1>4 DEF Bound, AfterBuild, Second
  <2>2. CASE cached[path[q]] = "miss"
    BY <1>1, <1>2, <1>4, <2>2 DEF AfterBuild
  <2>3. CASE cached[path[q]] # "miss"
    BY <1>1, <1>2, <1>4, <2>1, <2>3, AbsenceRecorded
  <2> QED BY <2>2, <2>3
<1>5. AfterBuild(q)'
  BY <1>1, <1>2, <1>4 DEF AfterBuild, Made
<1> QED BY <1>3, <1>5

LEMMA SelfKeeps ==
  ASSUME IInv, TypeOK', NEW r \in Requests, Request(r)
  PROVE Bound(r)' /\ AfterBuild(r)'
<1> USE DEF TypeOK, Goto, Bound, AfterBuild, Made, Second, disk, caches, rest
<1>0. TypeOK /\ Bound(r) /\ AfterBuild(r)
  BY DEF IInv
<1>n. /\ NotFound(r) \notin Second \ {"unbuildable"} /\ NotFound(r) # "idle"
      /\ NotFound(r) = "unbuildable" <=> via[r] = "build"
  BY <1>0 DEF NotFound
<1>1. CASE Consult(r)
  <2>1. CASE cached[path[r]] = "hit" BY <1>0, <1>1, <2>1 DEF Consult
  <2>2. CASE cached[path[r]] = "miss" BY <1>0, <1>n, <1>1, <2>2 DEF Consult
  <2>3. CASE cached[path[r]] \notin {"hit", "miss"}
    <3>1. pc'[r] = "stat" /\ path'[r] = path[r] /\ via'[r] = via[r] /\ excused' = excused
          /\ onDisk' = onDisk /\ pc[r] = "consult"
      BY <1>0, <1>1, <2>3 DEF Consult
    <3>2. cached[path[r]] = "unknown"
      BY <1>0, <2>3, <3>1
    <3>3. saw'[r] = saw[r]
      BY <1>0, <1>1, <3>2 DEF Consult
    <3> QED BY <1>0, <3>1, <3>3
  <2> QED BY <2>1, <2>2, <2>3
<1>2. CASE Stat(r) BY <1>0, <1>2 DEF Stat
<1>3. CASE Remember(r)
  <2>1. CASE saw[r] BY <1>0, <1>3, <2>1 DEF Remember
  <2>2. CASE ~saw[r] BY <1>0, <1>n, <1>3, <2>2 DEF Remember
  <2> QED BY <2>1, <2>2
<1>4. CASE Open(r)
  <2>1. CASE path[r] \in onDisk BY <1>0, <1>4, <2>1 DEF Open
  <2>2. CASE path[r] \notin onDisk BY <1>0, <1>n, <1>4, <2>2 DEF Open
  <2> QED BY <2>1, <2>2
<1>5. CASE Fallback(r) BY <1>0, <1>5 DEF Fallback
<1>6. CASE SpaceFetch(r) BY <1>0, <1>6 DEF SpaceFetch
<1>7. CASE Invalidate(r) BY <1>0, <1>7 DEF Invalidate
<1>8. CASE EnterLane(r) BY <1>0, <1>8 DEF EnterLane
<1>9. CASE Probe(r) BY <1>0, <1>9 DEF Probe
<1>10. CASE BuildOk(r) BY <1>0, <1>10 DEF BuildOk
<1>11. CASE BuildFails(r) BY <1>0, <1>11 DEF BuildFails
<1>12. CASE Unbuildable(r) BY <1>0, <1>12 DEF Unbuildable
<1>13. CASE Return(r) BY <1>0, <1>13 DEF Return
<1>14. CASE Lookup(r)
  <2>1. /\ pc[r] = "lookup" /\ pc'[r] = "consult" /\ saw'[r] = (path[r] \in onDisk)
        /\ UNCHANGED <<path, via, onDisk, excused, cached>>
    BY <1>0, <1>14 DEF Lookup
  <2>2. Made(r) => path[r] \in onDisk \cup excused
    BY <1>0, <2>1 DEF Second
  <2> QED BY <1>0, <2>1, <2>2
<1> QED BY <1>1, <1>2, <1>3, <1>4, <1>5, <1>6, <1>7, <1>8, <1>9, <1>10, <1>11, <1>12, <1>13, <1>14
        DEF Request

\* Only a request that gives up adds a name.
LEMMA RequestKeepsCause ==
  ASSUME IInv, NEW r \in Requests, Request(r)
  PROVE MissesHaveACause'
<1>1. missed' \subseteq missed \/ Unbuildable(r)
  BY DEF Request, Lookup, Consult, Stat, Remember, Open, Fallback, SpaceFetch, Invalidate, EnterLane,
         Probe, BuildOk, BuildFails, Return, disk, caches, rest
<1>2. excused \subseteq excused'
  BY DEF Request, Lookup, Consult, Stat, Remember, Open, Fallback, SpaceFetch, Invalidate, EnterLane,
         Probe, BuildOk, BuildFails, Unbuildable, Return, disk, caches, rest
<1>3. CASE Unbuildable(r)
  <2>1. pc[r] = "unbuildable" /\ missed' = missed \cup {path[r]}
    BY <1>3 DEF Unbuildable, Goto
  <2>2. path[r] \in Makes => path[r] \in excused
    BY <2>1 DEF IInv, Bound, AfterBuild, Made
  <2> QED BY <1>2, <2>1, <2>2 DEF IInv, MissesHaveACause
<1> QED BY <1>1, <1>2, <1>3 DEF IInv, MissesHaveACause

LEMMA AroundKeeps ==
  ASSUME IInv, TypeOK', Around
  PROVE IInv'
<1> USE DEF IInv, MissesHaveACause
<1>0. TypeOK
  OBVIOUS
<1>1. UNCHANGED <<pc, path, saw, via>> /\ onDisk \cup excused \subseteq onDisk' \cup excused'
      /\ excused \subseteq excused' /\ missed' \subseteq missed
  BY DEF Around, ExpireResolved, ExpireMissed, Evict, RevalidateRemoves, RevalidateClears,
         RevalidateDropped, ExpireFailed, disk, caches, rest
<1>2. \A p \in Paths : cached'[p] = "miss" => cached[p] = "miss"
  BY <1>0 DEF TypeOK, Around, ExpireResolved, ExpireMissed, Evict, RevalidateRemoves, RevalidateClears,
         RevalidateDropped, ExpireFailed, disk, caches, rest
<1>3. ASSUME NEW r \in Requests PROVE Bound(r)' /\ AfterBuild(r)'
  BY <1>1, <1>2 DEF Bound, AfterBuild, Made, Second
<1> QED BY <1>1, <1>3

LEMMA ArriveKeeps ==
  ASSUME IInv, TypeOK', NEW r \in Requests, NEW p \in Paths, Arrive(r, p)
  PROVE IInv'
<1>1. UNCHANGED <<disk, caches, saw, via, rest>> /\ pc[r] = "idle"
      /\ pc' = [pc EXCEPT ![r] = "lookup"] /\ path' = [path EXCEPT ![r] = p]
  BY DEF Arrive, Goto
<1>2. ASSUME NEW q \in Requests PROVE Bound(q)' /\ AfterBuild(q)'
  <2>1. CASE q = r
    BY <1>1, <2>1 DEF IInv, TypeOK, Bound, AfterBuild, Made, Second
  <2>2. CASE q # r
    BY <1>1, <2>2 DEF IInv, TypeOK, Bound, AfterBuild, Made, Second, disk, caches, rest
  <2> QED BY <2>1, <2>2
<1> QED BY <1>1, <1>2 DEF IInv, MissesHaveACause, caches, rest

LEMMA StepIInv == IInv /\ [Next]_vars => IInv'
<1> SUFFICES ASSUME IInv, [Next]_vars PROVE IInv'
  OBVIOUS
<1>1. ASSUME NEW r \in Requests, Request(r) PROVE IInv'
  <2>1. TypeOK /\ Bound(r)
    BY DEF IInv
  <2>2. TypeOK'
    BY <1>1, <2>1, LookupType, LaneType DEF Request
  <2>3. \A q \in Requests : Bound(q)' /\ AfterBuild(q)'
    BY <1>1, <2>2, OthersKeep, SelfKeeps
  <2> QED BY <1>1, <2>2, <2>3, RequestKeepsCause DEF IInv
<1>2. ASSUME NEW r \in Requests, NEW p \in Paths, Arrive(r, p) PROVE IInv'
  BY <1>2, ArriveType, ArriveKeeps DEF IInv
<1>3. CASE Around
  BY <1>3, AroundType, AroundKeeps DEF IInv
<1>4. CASE UNCHANGED vars
  BY <1>4 DEF vars, disk, caches, rest, IInv, TypeOK, Bound, AfterBuild, Made, Second,
              MissesHaveACause
<1> QED BY <1>1, <1>2, <1>3, <1>4 DEF Next, Around

--------------------------------------------------------------------------------
(* Theorems *)

\* The invariant that carries the two theorems below is inductive.
THEOREM Inductive == Spec => []IInv
BY InitIInv, StepIInv, PTL DEF Spec

\* Whatever the requests and their paths, the state has its types, and the build lock is held
\* just while a request probes or builds (jit_lock of bundle_fallback).
THEOREM TypeCorrect == Spec => []TypeOK
<1>1. IInv => TypeOK
  BY DEF IInv
<1> QED BY <1>1, Inductive, PTL

\* For any number of requests side by side, of builds that fail or omit an item, of evictions
\* and revalidations: a path that builds make is remembered as unbuildable only if a build
\* omitted it, it was removed, or another request answered from before the build
\* (bundle_fallback, resolve, refresh_entity_content).
THEOREM MissesCaused == Spec => []MissesHaveACause
<1>1. IInv => MissesHaveACause
  BY DEF IInv
<1> QED BY <1>1, Inductive, PTL
================================================================================
