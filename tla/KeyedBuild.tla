------------------------------ MODULE KeyedBuild ------------------------------
(***************************************************************************)
(* What a keyed build lane of the server promises, whatever its locks,     *)
(* permits and maps look like, on a disk that others write and clear: at   *)
(* any time at most one build of a key runs; none begins for a key whose   *)
(* failure is remembered, nor for an output that was there when the key    *)
(* was last found missing or that a build has made since; and evictions    *)
(* never take the output of a key while it is being built.                 *)
(***************************************************************************)
CONSTANT Keys            \* the build keys, "{entity}:{platform}" in the code

VARIABLES
  building,              \* the keys a build is under way for
  disk,                  \* the keys whose output is on disk
  failed,                \* the keys in the negative cache
  fetched,               \* the keys brought by others since they were found missing
  wiped                  \* the keys whose output was removed during their build

kbVars == <<building, disk, failed, fetched, wiped>>

KBInit ==
  /\ building = {}
  /\ disk \in SUBSET Keys
  /\ failed = {}
  /\ fetched = {}
  /\ wiped = {}

\* The output of a key is found missing.
Miss(k) ==
  /\ k \notin disk
  /\ fetched' = fetched \ {k}
  /\ UNCHANGED <<building, disk, failed, wiped>>

\* Another lane brings the output of a key.
Bring(k) ==
  /\ disk' = disk \cup {k}
  /\ fetched' = fetched \cup {k}
  /\ UNCHANGED <<building, failed, wiped>>

Begin(k) ==
  /\ k \notin building \cup failed
  /\ k \in disk => k \in fetched
  /\ building' = building \cup {k}
  /\ wiped' = wiped \ {k}
  /\ UNCHANGED <<disk, failed, fetched>>

Produce(k) ==
  /\ k \in building
  /\ disk' = disk \cup {k}
  /\ UNCHANGED <<building, failed, fetched, wiped>>

Fail(k) ==
  /\ k \in building
  /\ failed' = failed \cup {k}
  /\ UNCHANGED <<building, disk, fetched, wiped>>

End(k) ==
  /\ k \in building
  /\ building' = building \ {k}
  /\ UNCHANGED <<disk, failed, fetched, wiped>>

Evict(V) ==
  /\ V \cap building = {}
  /\ disk' = disk \ V
  /\ UNCHANGED <<building, failed, fetched, wiped>>

\* A removal that no build can prevent is at least known to have hit it.
Wipe(V) ==
  /\ disk' = disk \ V
  /\ wiped' = wiped \cup (V \cap building)
  /\ UNCHANGED <<building, failed, fetched>>

Forget(k) ==
  /\ failed' = failed \ {k}
  /\ UNCHANGED <<building, disk, fetched, wiped>>

KBNext ==
  \/ \E k \in Keys :
       Miss(k) \/ Bring(k) \/ Begin(k) \/ Produce(k) \/ Fail(k) \/ End(k) \/ Forget(k)
  \/ \E V \in SUBSET Keys : Evict(V) \/ Wipe(V)

KBSpec == KBInit /\ [][KBNext]_kbVars
================================================================================
