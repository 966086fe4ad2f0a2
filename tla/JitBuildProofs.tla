---------------------------- MODULE JitBuildProofs ----------------------------
(***************************************************************************)
(* Proofs about JitBuild, for any callers, keys, entities and permits.     *)
(***************************************************************************)
EXTENDS JitBuild, TLAPS

\* A request that has not looked the map up yet is not known to anyone as a lock.
Fresh ==
  \A l \in Requests : pc[l] \in {"new", "lookup"} =>
    /\ task[l] = "none"
    /\ \A q \in Requests : lock[q] # l
    /\ \A k \in Keys : inflight[k] # l

\* Locks are registered, and held, only by callers of the key they were created for.
LocksMatchKeys ==
  /\ \A r \in Requests : lock[r] # None => KeyOf[lock[r]] = KeyOf[r]
  /\ \A k \in Keys : inflight[k] # None => KeyOf[inflight[k]] = k

\* Whoever refers to a lock has one, and a task exists only behind a handler that spawned it.
RefsHaveLocks ==
  \A r \in Requests :
    /\ HandlerRef(r) \/ TaskRef(r) => lock[r] # None
    /\ task[r] # "none" => pc[r] \in {"awaiting", "leaving", "returning", "done", "gone"}

\* A mutex has one guard.
OneGuard ==
  \A r, q \in Requests : Guard(r) /\ Guard(q) /\ lock[r] = lock[q] => r = q

\* What was looked up under the lock stays true, but for what the object store lane brings,
\* until the task is spawned and gets its permit.
ChecksStand ==
  /\ \A r \in Requests : pc[r] \in {"probe", "spawn"} => KeyOf[r] \notin failCache
  /\ \A r \in Requests : pc[r] = "spawn" /\ KeyOf[r] \in onDisk => KeyOf[r] \in fetched
  /\ NoWastedBuild

IInv ==
  /\ TypeOK
  /\ Fresh
  /\ LocksMatchKeys
  /\ RefsHaveLocks
  /\ SharedLock
  /\ OneGuard
  /\ ChecksStand

--------------------------------------------------------------------------------
LEMMA TypeStep == TypeOK /\ [Next]_vars => TypeOK'
<1> SUFFICES ASSUME TypeOK, [Next]_vars PROVE TypeOK'
  OBVIOUS
<1> USE KeysAssumption DEF TypeOK, HandlerPcs, TaskPcs, Outcomes, Goto, Answer, TaskGoto, envVars, diskVars
<1>1. ASSUME NEW r \in Requests, Handler(r) PROVE TypeOK'
  <2>1. CASE Arrive(r) BY <2>1 DEF Arrive
  <2>2. CASE Lookup(r) BY <2>2 DEF Lookup
  <2>3. CASE Acquire(r) BY <2>3 DEF Acquire
  <2>4. CASE RecheckFailed(r) BY <2>4 DEF RecheckFailed
  <2>5. CASE Probe(r) BY <2>5 DEF Probe
  <2>6. CASE Spawn(r) BY <2>6 DEF Spawn
  <2>7. CASE Receive(r) BY <2>7 DEF Receive
  <2>8. CASE RemoveInflight(r) BY <2>8 DEF RemoveInflight
  <2>9. CASE Return(r) BY <2>9 DEF Return
  <2> QED BY <1>1, <2>1, <2>2, <2>3, <2>4, <2>5, <2>6, <2>7, <2>8, <2>9 DEF Handler
<1>2. ASSUME NEW r \in Requests, Cancel(r) PROVE TypeOK'
  BY <1>2 DEF Cancel
<1>3. ASSUME NEW r \in Requests, Task(r) PROVE TypeOK'
  <2>1. CASE StartBuild(r) BY <2>1 DEF StartBuild
  <2>2. CASE BuildOk(r) BY <2>2 DEF BuildOk
  <2>3. CASE BuildFails(r) BY <2>3 DEF BuildFails
  <2>4. CASE Record(r) BY <2>4 DEF Record, EvictFrom
  <2>5. CASE DropGuard(r) BY <2>5 DEF DropGuard
  <2>6. CASE Send(r) BY <2>6 DEF Send
  <2>7. CASE Exit(r) BY <2>7 DEF Exit
  <2>8. CASE BuildWrites(r) BY <2>8 DEF BuildWrites
  <2> QED BY <1>3, <2>1, <2>2, <2>3, <2>4, <2>5, <2>6, <2>7, <2>8 DEF Task
<1>4. ASSUME NEW k \in Keys, ExpireFailure(k) PROVE TypeOK'
  BY <1>4 DEF ExpireFailure
<1>5. ASSUME NEW k \in Keys, SpaceMaterializes(k) PROVE TypeOK'
  BY <1>5 DEF SpaceMaterializes
<1>6. ASSUME NEW e \in Entities, RevalidationRemoves(e) PROVE TypeOK'
  BY <1>6 DEF RevalidationRemoves
<1>7. CASE OtherLaneRecords
  BY <1>7 DEF OtherLaneRecords, EvictFrom
<1>8. CASE UNCHANGED vars
  BY <1>8 DEF vars
<1> QED BY <1>1, <1>2, <1>3, <1>4, <1>5, <1>6, <1>7, <1>8 DEF Next

LEMMA InitIInv == Init => IInv
<1> SUFFICES ASSUME Init PROVE IInv
  OBVIOUS
<1> USE KeysAssumption, NoneAssumption DEF Init
<1>1. TypeOK BY DEF TypeOK, HandlerPcs, TaskPcs, Outcomes
<1>2. Fresh BY DEF Fresh
<1>3. LocksMatchKeys BY DEF LocksMatchKeys
<1>4. RefsHaveLocks BY DEF RefsHaveLocks, HandlerRef, TaskRef, TaskGuard
<1>5. SharedLock BY DEF SharedLock, TaskRef, TaskGuard
<1>6. OneGuard BY DEF OneGuard, Guard, HandlerGuard, TaskGuard
<1>7. ChecksStand BY DEF ChecksStand, NoWastedBuild
<1> QED BY <1>1, <1>2, <1>3, <1>4, <1>5, <1>6, <1>7 DEF IInv

LEMMA StepIInv == IInv /\ [Next]_vars => IInv'
<1> SUFFICES ASSUME IInv, [Next]_vars PROVE IInv'
  OBVIOUS
<1>t. TypeOK /\ TypeOK'
  BY TypeStep DEF IInv
<1> USE <1>t, KeysAssumption, NoneAssumption
        DEF TypeOK, Goto, Answer, TaskGoto, envVars, diskVars, IInv
<1>1. ASSUME NEW r \in Requests, Arrive(r) PROVE IInv'
  <2> USE <1>1 DEF Arrive
  <2>1. Fresh' BY DEF Fresh
  <2>2. LocksMatchKeys' BY DEF LocksMatchKeys
  <2>3. RefsHaveLocks' BY DEF RefsHaveLocks, HandlerRef, TaskRef, TaskGuard
  <2>4. SharedLock' BY DEF SharedLock, RefsHaveLocks, HandlerRef, TaskRef, TaskGuard
  <2>5. OneGuard' BY DEF OneGuard, RefsHaveLocks, Guard, HandlerGuard, TaskGuard, Locked
  <2>6. ChecksStand' BY DEF ChecksStand, NoWastedBuild, RefsHaveLocks, SharedLock, OneGuard,
                           Guard, HandlerGuard, TaskGuard, TaskRef
  <2> QED BY <2>1, <2>2, <2>3, <2>4, <2>5, <2>6
<1>2. ASSUME NEW r \in Requests, Lookup(r) PROVE IInv'
  <2> USE <1>2 DEF Lookup
  <2>1. Fresh' BY DEF Fresh
  <2>2. LocksMatchKeys' BY DEF LocksMatchKeys
  <2>3. RefsHaveLocks' BY DEF RefsHaveLocks, HandlerRef, TaskRef, TaskGuard
  <2>4. SharedLock' BY DEF SharedLock, RefsHaveLocks, HandlerRef, TaskRef, TaskGuard
  <2>5. OneGuard' BY DEF OneGuard, RefsHaveLocks, Guard, HandlerGuard, TaskGuard, Locked
  <2>6. ChecksStand' BY DEF ChecksStand, NoWastedBuild, RefsHaveLocks, SharedLock, OneGuard,
                           Guard, HandlerGuard, TaskGuard, TaskRef
  <2> QED BY <2>1, <2>2, <2>3, <2>4, <2>5, <2>6
<1>3. ASSUME NEW r \in Requests, Acquire(r) PROVE IInv'
  <2> USE <1>3 DEF Acquire
  <2>1. Fresh' BY DEF Fresh
  <2>2. LocksMatchKeys' BY DEF LocksMatchKeys
  <2>3. RefsHaveLocks' BY DEF RefsHaveLocks, HandlerRef, TaskRef, TaskGuard
  <2>4. SharedLock' BY DEF SharedLock, RefsHaveLocks, HandlerRef, TaskRef, TaskGuard
  <2>5. OneGuard' BY DEF OneGuard, RefsHaveLocks, Guard, HandlerGuard, TaskGuard, Locked
  <2>6. ChecksStand' BY DEF ChecksStand, NoWastedBuild, RefsHaveLocks, SharedLock, OneGuard,
                           Guard, HandlerGuard, TaskGuard, TaskRef
  <2> QED BY <2>1, <2>2, <2>3, <2>4, <2>5, <2>6
<1>4. ASSUME NEW r \in Requests, RecheckFailed(r) PROVE IInv'
  <2> USE <1>4 DEF RecheckFailed
  <2>1. Fresh' BY DEF Fresh
  <2>2. LocksMatchKeys' BY DEF LocksMatchKeys
  <2>3. RefsHaveLocks' BY DEF RefsHaveLocks, HandlerRef, TaskRef, TaskGuard
  <2>4. SharedLock' BY DEF SharedLock, RefsHaveLocks, HandlerRef, TaskRef, TaskGuard
  <2>5. OneGuard' BY DEF OneGuard, RefsHaveLocks, Guard, HandlerGuard, TaskGuard, Locked
  <2>6. ChecksStand' BY DEF ChecksStand, NoWastedBuild, RefsHaveLocks, SharedLock, OneGuard,
                           Guard, HandlerGuard, TaskGuard, TaskRef
  <2> QED BY <2>1, <2>2, <2>3, <2>4, <2>5, <2>6
<1>5. ASSUME NEW r \in Requests, Probe(r) PROVE IInv'
  <2> USE <1>5 DEF Probe
  <2>1. Fresh' BY DEF Fresh
  <2>2. LocksMatchKeys' BY DEF LocksMatchKeys
  <2>3. RefsHaveLocks' BY DEF RefsHaveLocks, HandlerRef, TaskRef, TaskGuard
  <2>4. SharedLock' BY DEF SharedLock, RefsHaveLocks, HandlerRef, TaskRef, TaskGuard
  <2>5. OneGuard' BY DEF OneGuard, RefsHaveLocks, Guard, HandlerGuard, TaskGuard, Locked
  <2>6. ChecksStand' BY DEF ChecksStand, NoWastedBuild, RefsHaveLocks, SharedLock, OneGuard,
                           Guard, HandlerGuard, TaskGuard, TaskRef
  <2> QED BY <2>1, <2>2, <2>3, <2>4, <2>5, <2>6
<1>6. ASSUME NEW r \in Requests, Spawn(r) PROVE IInv'
  <2> USE <1>6 DEF Spawn
  <2>1. Fresh' BY DEF Fresh
  <2>2. LocksMatchKeys' BY DEF LocksMatchKeys
  <2>3. RefsHaveLocks' BY DEF RefsHaveLocks, HandlerRef, TaskRef, TaskGuard
  <2>4. SharedLock' BY DEF SharedLock, RefsHaveLocks, HandlerRef, TaskRef, TaskGuard
  <2>5. OneGuard' BY DEF OneGuard, RefsHaveLocks, Guard, HandlerGuard, TaskGuard, Locked
  <2>6. ChecksStand' BY DEF ChecksStand, NoWastedBuild, RefsHaveLocks, SharedLock, OneGuard,
                           Guard, HandlerGuard, TaskGuard, TaskRef
  <2> QED BY <2>1, <2>2, <2>3, <2>4, <2>5, <2>6
<1>7. ASSUME NEW r \in Requests, Receive(r) PROVE IInv'
  <2> USE <1>7 DEF Receive
  <2>1. Fresh' BY DEF Fresh
  <2>2. LocksMatchKeys' BY DEF LocksMatchKeys
  <2>3. RefsHaveLocks' BY DEF RefsHaveLocks, HandlerRef, TaskRef, TaskGuard
  <2>4. SharedLock' BY DEF SharedLock, RefsHaveLocks, HandlerRef, TaskRef, TaskGuard
  <2>5. OneGuard' BY DEF OneGuard, RefsHaveLocks, Guard, HandlerGuard, TaskGuard, Locked
  <2>6. ChecksStand' BY DEF ChecksStand, NoWastedBuild, RefsHaveLocks, SharedLock, OneGuard,
                           Guard, HandlerGuard, TaskGuard, TaskRef
  <2> QED BY <2>1, <2>2, <2>3, <2>4, <2>5, <2>6
<1>8. ASSUME NEW r \in Requests, RemoveInflight(r) PROVE IInv'
  <2> USE <1>8 DEF RemoveInflight
  <2>1. Fresh' BY DEF Fresh, OnlyMine
  <2>2. LocksMatchKeys' BY DEF LocksMatchKeys, OnlyMine
  <2>3. RefsHaveLocks' BY DEF RefsHaveLocks, HandlerRef, TaskRef, TaskGuard, OnlyMine
  <2>4. SharedLock' BY DEF SharedLock, RefsHaveLocks, HandlerRef, TaskRef, TaskGuard, OnlyMine
  <2>5. OneGuard' BY DEF OneGuard, RefsHaveLocks, Guard, HandlerGuard, TaskGuard, Locked, OnlyMine
  <2>6. ChecksStand' BY DEF ChecksStand, NoWastedBuild, RefsHaveLocks, SharedLock, OneGuard,
                           Guard, HandlerGuard, TaskGuard, TaskRef, OnlyMine
  <2> QED BY <2>1, <2>2, <2>3, <2>4, <2>5, <2>6
<1>9. ASSUME NEW r \in Requests, Return(r) PROVE IInv'
  <2> USE <1>9 DEF Return
  <2>1. Fresh' BY DEF Fresh
  <2>2. LocksMatchKeys' BY DEF LocksMatchKeys
  <2>3. RefsHaveLocks' BY DEF RefsHaveLocks, HandlerRef, TaskRef, TaskGuard
  <2>4. SharedLock' BY DEF SharedLock, RefsHaveLocks, HandlerRef, TaskRef, TaskGuard
  <2>5. OneGuard' BY DEF OneGuard, RefsHaveLocks, Guard, HandlerGuard, TaskGuard, Locked
  <2>6. ChecksStand' BY DEF ChecksStand, NoWastedBuild, RefsHaveLocks, SharedLock, OneGuard,
                           Guard, HandlerGuard, TaskGuard, TaskRef
  <2> QED BY <2>1, <2>2, <2>3, <2>4, <2>5, <2>6
<1>10. ASSUME NEW r \in Requests, StartBuild(r) PROVE IInv'
  <2> USE <1>10 DEF StartBuild
  <2>1. Fresh' BY DEF Fresh
  <2>2. LocksMatchKeys' BY DEF LocksMatchKeys
  <2>3. RefsHaveLocks' BY DEF RefsHaveLocks, HandlerRef, TaskRef, TaskGuard
  <2>4. SharedLock' BY DEF SharedLock, RefsHaveLocks, HandlerRef, TaskRef, TaskGuard
  <2>5. OneGuard' BY DEF OneGuard, RefsHaveLocks, Guard, HandlerGuard, TaskGuard, Locked
  <2>6. ChecksStand' BY DEF ChecksStand, NoWastedBuild, RefsHaveLocks, SharedLock, OneGuard,
                           Guard, HandlerGuard, TaskGuard, TaskRef
  <2> QED BY <2>1, <2>2, <2>3, <2>4, <2>5, <2>6
<1>11. ASSUME NEW r \in Requests, BuildWrites(r) PROVE IInv'
  <2> USE <1>11 DEF BuildWrites
  <2>1. Fresh' BY DEF Fresh
  <2>2. LocksMatchKeys' BY DEF LocksMatchKeys
  <2>3. RefsHaveLocks' BY DEF RefsHaveLocks, HandlerRef, TaskRef, TaskGuard
  <2>4. SharedLock' BY DEF SharedLock, RefsHaveLocks, HandlerRef, TaskRef, TaskGuard
  <2>5. OneGuard' BY DEF OneGuard, RefsHaveLocks, Guard, HandlerGuard, TaskGuard, Locked
  <2>6. ChecksStand' BY DEF ChecksStand, NoWastedBuild, RefsHaveLocks, SharedLock, OneGuard,
                           Guard, HandlerGuard, TaskGuard, TaskRef
  <2> QED BY <2>1, <2>2, <2>3, <2>4, <2>5, <2>6
<1>12. ASSUME NEW r \in Requests, BuildOk(r) PROVE IInv'
  <2> USE <1>12 DEF BuildOk
  <2>1. Fresh' BY DEF Fresh
  <2>2. LocksMatchKeys' BY DEF LocksMatchKeys
  <2>3. RefsHaveLocks' BY DEF RefsHaveLocks, HandlerRef, TaskRef, TaskGuard
  <2>4. SharedLock' BY DEF SharedLock, RefsHaveLocks, HandlerRef, TaskRef, TaskGuard
  <2>5. OneGuard' BY DEF OneGuard, RefsHaveLocks, Guard, HandlerGuard, TaskGuard, Locked
  <2>6. ChecksStand' BY DEF ChecksStand, NoWastedBuild, RefsHaveLocks, SharedLock, OneGuard,
                           Guard, HandlerGuard, TaskGuard, TaskRef
  <2> QED BY <2>1, <2>2, <2>3, <2>4, <2>5, <2>6
<1>13. ASSUME NEW r \in Requests, BuildFails(r) PROVE IInv'
  <2> USE <1>13 DEF BuildFails
  <2>1. Fresh' BY DEF Fresh
  <2>2. LocksMatchKeys' BY DEF LocksMatchKeys
  <2>3. RefsHaveLocks' BY DEF RefsHaveLocks, HandlerRef, TaskRef, TaskGuard
  <2>4. SharedLock' BY DEF SharedLock, RefsHaveLocks, HandlerRef, TaskRef, TaskGuard
  <2>5. OneGuard' BY DEF OneGuard, RefsHaveLocks, Guard, HandlerGuard, TaskGuard, Locked
  <2>6. ChecksStand' BY DEF ChecksStand, NoWastedBuild, RefsHaveLocks, SharedLock, OneGuard,
                           Guard, HandlerGuard, TaskGuard, TaskRef
  <2> QED BY <2>1, <2>2, <2>3, <2>4, <2>5, <2>6
<1>14. ASSUME NEW r \in Requests, Record(r) PROVE IInv'
  <2> USE <1>14 DEF Record, EvictFrom
  <2>1. Fresh' BY DEF Fresh
  <2>2. LocksMatchKeys' BY DEF LocksMatchKeys
  <2>3. RefsHaveLocks' BY DEF RefsHaveLocks, HandlerRef, TaskRef, TaskGuard
  <2>4. SharedLock' BY DEF SharedLock, RefsHaveLocks, HandlerRef, TaskRef, TaskGuard
  <2>5. OneGuard' BY DEF OneGuard, RefsHaveLocks, Guard, HandlerGuard, TaskGuard, Locked
  <2>6. ChecksStand' BY DEF ChecksStand, NoWastedBuild, RefsHaveLocks, SharedLock, OneGuard,
                           Guard, HandlerGuard, TaskGuard, TaskRef
  <2> QED BY <2>1, <2>2, <2>3, <2>4, <2>5, <2>6
<1>15. ASSUME NEW r \in Requests, DropGuard(r) PROVE IInv'
  <2> USE <1>15 DEF DropGuard
  <2>1. Fresh' BY DEF Fresh
  <2>2. LocksMatchKeys' BY DEF LocksMatchKeys
  <2>3. RefsHaveLocks' BY DEF RefsHaveLocks, HandlerRef, TaskRef, TaskGuard
  <2>4. SharedLock' BY DEF SharedLock, RefsHaveLocks, HandlerRef, TaskRef, TaskGuard
  <2>5. OneGuard' BY DEF OneGuard, RefsHaveLocks, Guard, HandlerGuard, TaskGuard, Locked
  <2>6. ChecksStand' BY DEF ChecksStand, NoWastedBuild, RefsHaveLocks, SharedLock, OneGuard,
                           Guard, HandlerGuard, TaskGuard, TaskRef
  <2> QED BY <2>1, <2>2, <2>3, <2>4, <2>5, <2>6
<1>16. ASSUME NEW r \in Requests, Send(r) PROVE IInv'
  <2> USE <1>16 DEF Send
  <2>1. Fresh' BY DEF Fresh
  <2>2. LocksMatchKeys' BY DEF LocksMatchKeys
  <2>3. RefsHaveLocks' BY DEF RefsHaveLocks, HandlerRef, TaskRef, TaskGuard
  <2>4. SharedLock' BY DEF SharedLock, RefsHaveLocks, HandlerRef, TaskRef, TaskGuard
  <2>5. OneGuard' BY DEF OneGuard, RefsHaveLocks, Guard, HandlerGuard, TaskGuard, Locked
  <2>6. ChecksStand' BY DEF ChecksStand, NoWastedBuild, RefsHaveLocks, SharedLock, OneGuard,
                           Guard, HandlerGuard, TaskGuard, TaskRef
  <2> QED BY <2>1, <2>2, <2>3, <2>4, <2>5, <2>6
<1>17. ASSUME NEW r \in Requests, Exit(r) PROVE IInv'
  <2> USE <1>17 DEF Exit
  <2>1. Fresh' BY DEF Fresh
  <2>2. LocksMatchKeys' BY DEF LocksMatchKeys
  <2>3. RefsHaveLocks' BY DEF RefsHaveLocks, HandlerRef, TaskRef, TaskGuard
  <2>4. SharedLock' BY DEF SharedLock, RefsHaveLocks, HandlerRef, TaskRef, TaskGuard
  <2>5. OneGuard' BY DEF OneGuard, RefsHaveLocks, Guard, HandlerGuard, TaskGuard, Locked
  <2>6. ChecksStand' BY DEF ChecksStand, NoWastedBuild, RefsHaveLocks, SharedLock, OneGuard,
                           Guard, HandlerGuard, TaskGuard, TaskRef
  <2> QED BY <2>1, <2>2, <2>3, <2>4, <2>5, <2>6
<1>18. ASSUME NEW r \in Requests, Cancel(r) PROVE IInv'
  <2> USE <1>18 DEF Cancel
  <2>1. Fresh' BY DEF Fresh
  <2>2. LocksMatchKeys' BY DEF LocksMatchKeys
  <2>3. RefsHaveLocks' BY DEF RefsHaveLocks, HandlerRef, TaskRef, TaskGuard
  <2>4. SharedLock' BY DEF SharedLock, RefsHaveLocks, HandlerRef, TaskRef, TaskGuard
  <2>5. OneGuard' BY DEF OneGuard, RefsHaveLocks, Guard, HandlerGuard, TaskGuard, Locked
  <2>6. ChecksStand' BY DEF ChecksStand, NoWastedBuild, RefsHaveLocks, SharedLock, OneGuard,
                           Guard, HandlerGuard, TaskGuard, TaskRef
  <2> QED BY <2>1, <2>2, <2>3, <2>4, <2>5, <2>6
<1>19. ASSUME NEW k \in Keys, ExpireFailure(k) PROVE IInv'
  <2> USE <1>19 DEF ExpireFailure
  <2>1. Fresh' BY DEF Fresh
  <2>2. LocksMatchKeys' BY DEF LocksMatchKeys
  <2>3. RefsHaveLocks' BY DEF RefsHaveLocks, HandlerRef, TaskRef, TaskGuard
  <2>4. SharedLock' BY DEF SharedLock, RefsHaveLocks, HandlerRef, TaskRef, TaskGuard
  <2>5. OneGuard' BY DEF OneGuard, RefsHaveLocks, Guard, HandlerGuard, TaskGuard, Locked
  <2>6. ChecksStand' BY DEF ChecksStand, NoWastedBuild, RefsHaveLocks, SharedLock, OneGuard,
                           Guard, HandlerGuard, TaskGuard, TaskRef
  <2> QED BY <2>1, <2>2, <2>3, <2>4, <2>5, <2>6
<1>20. ASSUME NEW k \in Keys, SpaceMaterializes(k) PROVE IInv'
  <2> USE <1>20 DEF SpaceMaterializes
  <2>1. Fresh' BY DEF Fresh
  <2>2. LocksMatchKeys' BY DEF LocksMatchKeys
  <2>3. RefsHaveLocks' BY DEF RefsHaveLocks, HandlerRef, TaskRef, TaskGuard
  <2>4. SharedLock' BY DEF SharedLock, RefsHaveLocks, HandlerRef, TaskRef, TaskGuard
  <2>5. OneGuard' BY DEF OneGuard, RefsHaveLocks, Guard, HandlerGuard, TaskGuard, Locked
  <2>6. ChecksStand' BY DEF ChecksStand, NoWastedBuild, RefsHaveLocks, SharedLock, OneGuard,
                           Guard, HandlerGuard, TaskGuard, TaskRef
  <2> QED BY <2>1, <2>2, <2>3, <2>4, <2>5, <2>6
<1>21. ASSUME NEW e \in Entities, RevalidationRemoves(e) PROVE IInv'
  <2> USE <1>21 DEF RevalidationRemoves
  <2>1. Fresh' BY DEF Fresh
  <2>2. LocksMatchKeys' BY DEF LocksMatchKeys
  <2>3. RefsHaveLocks' BY DEF RefsHaveLocks, HandlerRef, TaskRef, TaskGuard
  <2>4. SharedLock' BY DEF SharedLock, RefsHaveLocks, HandlerRef, TaskRef, TaskGuard
  <2>5. OneGuard' BY DEF OneGuard, RefsHaveLocks, Guard, HandlerGuard, TaskGuard, Locked
  <2>6. ChecksStand' BY DEF ChecksStand, NoWastedBuild, RefsHaveLocks, SharedLock, OneGuard,
                           Guard, HandlerGuard, TaskGuard, TaskRef
  <2> QED BY <2>1, <2>2, <2>3, <2>4, <2>5, <2>6
<1>22. CASE OtherLaneRecords
  <2> USE <1>22 DEF OtherLaneRecords, EvictFrom
  <2>1. Fresh' BY DEF Fresh
  <2>2. LocksMatchKeys' BY DEF LocksMatchKeys
  <2>3. RefsHaveLocks' BY DEF RefsHaveLocks, HandlerRef, TaskRef, TaskGuard
  <2>4. SharedLock' BY DEF SharedLock, RefsHaveLocks, HandlerRef, TaskRef, TaskGuard
  <2>5. OneGuard' BY DEF OneGuard, RefsHaveLocks, Guard, HandlerGuard, TaskGuard, Locked
  <2>6. ChecksStand' BY DEF ChecksStand, NoWastedBuild, RefsHaveLocks, SharedLock, OneGuard,
                           Guard, HandlerGuard, TaskGuard, TaskRef
  <2> QED BY <2>1, <2>2, <2>3, <2>4, <2>5, <2>6
<1>23. CASE UNCHANGED vars
  <2> USE <1>23 DEF vars
  <2>1. Fresh' BY DEF Fresh
  <2>2. LocksMatchKeys' BY DEF LocksMatchKeys
  <2>3. RefsHaveLocks' BY DEF RefsHaveLocks, HandlerRef, TaskRef, TaskGuard
  <2>4. SharedLock' BY DEF SharedLock, RefsHaveLocks, HandlerRef, TaskRef, TaskGuard
  <2>5. OneGuard' BY DEF OneGuard, RefsHaveLocks, Guard, HandlerGuard, TaskGuard, Locked
  <2>6. ChecksStand' BY DEF ChecksStand, NoWastedBuild, RefsHaveLocks, SharedLock, OneGuard,
                           Guard, HandlerGuard, TaskGuard, TaskRef
  <2> QED BY <2>1, <2>2, <2>3, <2>4, <2>5, <2>6
<1> QED BY <1>1, <1>2, <1>3, <1>4, <1>5, <1>6, <1>7, <1>8, <1>9, <1>10, <1>11, <1>12,
        <1>13, <1>14, <1>15, <1>16, <1>17, <1>18, <1>19, <1>20, <1>21, <1>22, <1>23
        DEF Next, Handler, Task

\* Every variable stays in its type.
THEOREM TypeCorrect == Spec => []TypeOK
<1>1. Init => TypeOK BY InitIInv DEF IInv
<1> QED BY <1>1, TypeStep, PTL DEF Spec

THEOREM Inductive == Spec => []IInv
<1> QED BY InitIInv, StepIInv, PTL DEF Spec

--------------------------------------------------------------------------------
\* Two tasks never build the same key at once: both would hold the guard of the one lock
\* that the map registers for the key.
THEOREM BuildsExclude == Spec => []MutualExclusion
<1>1. IInv => MutualExclusion
  BY DEF IInv, MutualExclusion, SharedLock, OneGuard, Guard, TaskRef
<1> QED BY <1>1, Inductive, PTL

\* Removing an entry of jit_inflight never splits the callers of a key over two locks.
THEOREM LockShared == Spec => []SharedLock
<1>1. IInv => SharedLock BY DEF IInv
<1> QED BY <1>1, Inductive, PTL

\* No build is queued for a failure that is remembered, nor for a file that was there when
\* it looked or that anyone but the object store lane has written since.
THEOREM NothingBuiltTwice == Spec => []NoWastedBuild
<1>1. IInv => NoWastedBuild BY DEF IInv, ChecksStand
<1> QED BY <1>1, Inductive, PTL

--------------------------------------------------------------------------------
(* Refinement.  A key is being built from the permit to the drop of the guard. *)

Builds(r) == Running(r) /\ TaskGuard(r)

LEMMA InitMaps == Init => KB!KBInit
<1> QED BY KeysAssumption DEF Init, KB!KBInit, InTheMaking, TaskGuard, Running

\* A step that leaves every task where it is with its guard and permit builds the same keys.
LEMMA SameInTheMaking ==
  ASSUME \A r \in Requests : Builds(r)' <=> Builds(r)
  PROVE  InTheMaking' = InTheMaking
<1> QED BY DEF InTheMaking, Builds

\* What the disk cache takes away is not in the making: a running task pins its entity.
LEMMA EvictMaps ==
  ASSUME TypeOK, EvictFrom({e \in Entities : ~Pinned(e)}),
         InTheMaking' = InTheMaking, failCache' = failCache
  PROVE  \E V \in SUBSET Keys : KB!Evict(V)
<1>1. PICK U \in SUBSET {e \in Entities : ~Pinned(e)} :
        onDisk' = {k \in onDisk : EntityOf[k] \notin U}
  BY DEF EvictFrom
<1> DEFINE V == {k \in onDisk : EntityOf[k] \in U}
<1>2. V \in SUBSET Keys /\ onDisk' = onDisk \ V
  BY <1>1 DEF TypeOK
<1>3. V \cap InTheMaking = {}
  BY <1>1 DEF InTheMaking, Pinned
<1> QED BY <1>2, <1>3 DEF KB!Evict, EvictFrom

LEMMA StepMaps == IInv /\ [Next]_vars => [KB!KBNext]_(KB!kbVars)
<1> SUFFICES ASSUME IInv, [Next]_vars PROVE KB!KBNext \/ UNCHANGED KB!kbVars
  OBVIOUS
<1>t. TypeOK /\ TypeOK' /\ IInv'
  BY StepIInv, TypeStep DEF IInv
<1> USE KeysAssumption DEF TypeOK, Goto, Answer, TaskGoto, envVars, diskVars
<1>e. ASSUME \A q \in Requests : Builds(q)' <=> Builds(q), UNCHANGED <<failCache, diskVars>>
      PROVE  UNCHANGED KB!kbVars
  BY <1>e, SameInTheMaking DEF KB!kbVars
<1>1. ASSUME NEW r \in Requests,
             Arrive(r) \/ Lookup(r) \/ Acquire(r) \/ RecheckFailed(r) \/ Receive(r)
               \/ RemoveInflight(r) \/ Return(r) \/ Cancel(r)
      PROVE  UNCHANGED KB!kbVars
  <2>1. task' = task /\ UNCHANGED <<failCache, diskVars>>
    BY <1>1 DEF Arrive, Lookup, Acquire, RecheckFailed, Receive, RemoveInflight, Return, Cancel
  <2> QED BY <2>1, <1>e DEF Builds, Running, TaskGuard
<1>2. ASSUME NEW r \in Requests, Probe(r)
      PROVE  KB!KBNext \/ UNCHANGED KB!kbVars
  <2>1. \A q \in Requests : Builds(q)' <=> Builds(q)
    BY <1>2 DEF Probe, Builds, Running, TaskGuard
  <2>2. CASE KeyOf[r] \in onDisk
    <3>1. UNCHANGED <<failCache, diskVars>>
      BY <1>2, <2>2 DEF Probe
    <3> QED BY <3>1, <2>1, <1>e
  <2>3. CASE KeyOf[r] \notin onDisk
    <3>1. KB!Miss(KeyOf[r])
      BY <1>2, <2>1, <2>3, SameInTheMaking DEF Probe, KB!Miss
    <3> QED BY <3>1 DEF KB!KBNext
  <2> QED BY <2>2, <2>3
<1>3. ASSUME NEW r \in Requests, Spawn(r) \/ BuildOk(r) \/ Send(r) \/ Exit(r)
      PROVE  UNCHANGED KB!kbVars
  <2>1. task[r] = "none" \/ ~Spawn(r)
    BY <1>t DEF IInv, RefsHaveLocks, Spawn
  <2>2. \A q \in Requests : Builds(q)' <=> Builds(q)
    BY <1>3, <2>1, <1>t DEF Spawn, BuildOk, Send, Exit, Builds, Running, TaskGuard
  <2>3. UNCHANGED <<failCache, diskVars>>
    BY <1>3 DEF Spawn, BuildOk, Send, Exit
  <2> QED BY <2>2, <2>3, <1>e
<1>4. ASSUME NEW r \in Requests, StartBuild(r) PROVE KB!KBNext
  <2>1. ~Builds(r) /\ Builds(r)' /\ \A q \in Requests \ {r} : Builds(q)' <=> Builds(q)
    BY <1>4, <1>t DEF StartBuild, Builds, Running, TaskGuard
  <2>2. KeyOf[r] \notin InTheMaking
    <3> SUFFICES ASSUME NEW q \in Requests, Builds(q), KeyOf[q] = KeyOf[r] PROVE FALSE
      BY DEF InTheMaking, Builds
    <3> QED BY <1>4, <2>1 DEF StartBuild, Builds, IInv, SharedLock, OneGuard, Guard, TaskRef,
                              TaskGuard
  <2>3. InTheMaking' = InTheMaking \cup {KeyOf[r]}
    BY <2>1 DEF InTheMaking, Builds
  <2>4. KeyOf[r] \notin failCache /\ (KeyOf[r] \in onDisk => KeyOf[r] \in fetched)
    BY <1>4 DEF StartBuild, IInv, ChecksStand, NoWastedBuild
  <2>5. KB!Begin(KeyOf[r])
    BY <1>4, <2>2, <2>3, <2>4 DEF StartBuild, KB!Begin
  <2> QED BY <2>5 DEF KB!KBNext
<1>5. ASSUME NEW r \in Requests, BuildWrites(r) PROVE KB!KBNext
  <2>1. \A q \in Requests : Builds(q)' <=> Builds(q)
    BY <1>5 DEF BuildWrites, Builds, Running, TaskGuard
  <2>2. KeyOf[r] \in InTheMaking
    BY <1>5 DEF BuildWrites, InTheMaking, Running, TaskGuard
  <2>3. KB!Produce(KeyOf[r])
    BY <1>5, <2>1, <2>2, SameInTheMaking DEF BuildWrites, KB!Produce
  <2> QED BY <2>3 DEF KB!KBNext
<1>6. ASSUME NEW r \in Requests, BuildFails(r) PROVE KB!KBNext
  <2>1. \A q \in Requests : Builds(q)' <=> Builds(q)
    BY <1>6, <1>t DEF BuildFails, Builds, Running, TaskGuard
  <2>2. KeyOf[r] \in InTheMaking
    BY <1>6 DEF BuildFails, InTheMaking, Running, TaskGuard
  <2>3. KB!Fail(KeyOf[r])
    BY <1>6, <2>1, <2>2, SameInTheMaking DEF BuildFails, KB!Fail
  <2> QED BY <2>3 DEF KB!KBNext
<1>7. ASSUME NEW r \in Requests, Record(r) PROVE KB!KBNext
  <2>1. \A q \in Requests : Builds(q)' <=> Builds(q)
    BY <1>7, <1>t DEF Record, Builds, Running, TaskGuard
  <2>2. InTheMaking' = InTheMaking /\ failCache' = failCache
    BY <2>1, <1>7, SameInTheMaking DEF Record
  <2> QED BY <2>2, <1>7, <1>t, EvictMaps DEF Record, KB!KBNext
<1>8. ASSUME NEW r \in Requests, DropGuard(r) PROVE KB!KBNext
  <2>1. Builds(r) /\ ~Builds(r)' /\ \A q \in Requests \ {r} : Builds(q)' <=> Builds(q)
    BY <1>8, <1>t DEF DropGuard, Builds, Running, TaskGuard
  <2>2. \A q \in Requests \ {r} : Builds(q) => KeyOf[q] # KeyOf[r]
    BY <2>1 DEF Builds, IInv, SharedLock, OneGuard, Guard, TaskRef
  <2>3. InTheMaking' = InTheMaking \ {KeyOf[r]} /\ KeyOf[r] \in InTheMaking
    BY <2>1, <2>2 DEF InTheMaking, Builds
  <2>4. KB!End(KeyOf[r])
    BY <1>8, <2>3 DEF DropGuard, KB!End
  <2> QED BY <2>4 DEF KB!KBNext
<1>9. ASSUME NEW k \in Keys, ExpireFailure(k) PROVE KB!KBNext
  <2>1. \A q \in Requests : Builds(q)' <=> Builds(q)
    BY <1>9 DEF ExpireFailure, Builds, Running, TaskGuard
  <2>2. KB!Forget(k)
    BY <1>9, <2>1, SameInTheMaking DEF ExpireFailure, KB!Forget
  <2> QED BY <2>2 DEF KB!KBNext
<1>10. ASSUME NEW k \in Keys, SpaceMaterializes(k) PROVE KB!KBNext
  <2>1. \A q \in Requests : Builds(q)' <=> Builds(q)
    BY <1>10 DEF SpaceMaterializes, Builds, Running, TaskGuard
  <2>2. KB!Bring(k)
    BY <1>10, <2>1, SameInTheMaking DEF SpaceMaterializes, KB!Bring
  <2> QED BY <2>2 DEF KB!KBNext
<1>11. ASSUME NEW e \in Entities, RevalidationRemoves(e) PROVE KB!KBNext
  <2>1. \A q \in Requests : Builds(q)' <=> Builds(q)
    BY <1>11 DEF RevalidationRemoves, Builds, Running, TaskGuard
  <2>2. \E V \in SUBSET Keys : KB!Wipe(V)
    BY <1>11, <2>1, SameInTheMaking DEF RevalidationRemoves, KB!Wipe
  <2> QED BY <2>2 DEF KB!KBNext
<1>12. CASE OtherLaneRecords
  <2>1. \A q \in Requests : Builds(q)' <=> Builds(q)
    BY <1>12 DEF OtherLaneRecords, Builds, Running, TaskGuard
  <2>2. InTheMaking' = InTheMaking /\ failCache' = failCache
    BY <2>1, <1>12, SameInTheMaking DEF OtherLaneRecords
  <2> QED BY <2>2, <1>12, <1>t, EvictMaps DEF OtherLaneRecords, KB!KBNext
<1>13. CASE UNCHANGED vars
  BY <1>13, <1>e DEF vars, Builds, Running, TaskGuard
<1> QED BY <1>1, <1>2, <1>3, <1>4, <1>5, <1>6, <1>7, <1>8, <1>9, <1>10, <1>11, <1>12, <1>13
        DEF Next, Handler, Task

\* The lane implements the abstract keyed build.
THEOREM ImplementsKeyedBuild == Spec => BuildsAreKeyed
<1>1. Spec => []IInv BY Inductive
<1> QED BY <1>1, InitMaps, StepMaps, PTL DEF Spec, BuildsAreKeyed, KB!KBSpec
================================================================================
