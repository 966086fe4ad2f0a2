------------------------------ MODULE EncodeCache ------------------------------
(***************************************************************************)
(* The texture encode cache (crate/src/texencode_cache.rs): an LRU store   *)
(* bounded by bytes in front of a single-flight group, with a disk store   *)
(* behind it.  A caller that shared a flight whose leader failed flies     *)
(* again, as a leader if it can, with its own encode closure.              *)
(*                                                                         *)
(* The encoding of a key is named by the key; Nothing is Option::None.     *)
(***************************************************************************)
EXTENDS Naturals, FiniteSetsExt, SequencesExt

CONSTANTS
  Threads,
  Keys,          \* digests of pixels and parameters
  Weight,        \* the bytes of each key's encoding
  Budget,        \* max_bytes()
  Nothing,       \* the answer of an encode that failed
  None,
  MaxAsks        \* bound: how often each thread asks

ASSUME NamesAssumption == None \notin Threads \cup Keys \cup {Nothing} /\ Nothing \notin Keys
ASSUME FiniteAssumption == IsFiniteSet(Keys)
ASSUME SizesAssumption == Weight \in [Keys -> Nat \ {0}] /\ Budget \in Nat /\ MaxAsks \in Nat

VARIABLES
  calls, pc, key, joined, got, asleep,  \* the flights, see SingleFlight
  lru,           \* the keys of Store.map by their stamps, oldest first
  bytes,         \* Store.bytes
  disk,          \* the keys the disk store has
  want,          \* the key each thread is asking for
  closure,       \* the threads whose encode closure is still unused
  stage,         \* where a leader is in its work
  asks           \* how often each thread has asked

Flight == INSTANCE SingleFlight WITH Values <- Keys, Default <- Nothing

flight == <<calls, pc, key, joined, got, asleep>>
store == <<lru, bytes>>
caller == <<want, closure, asks>>
vars == <<flight, store, disk, caller, stage>>

Stages == {"recheck", "disk", "encode", "persist", "remember", "idle"}

\* The types of the flights and the store; the account of bytes never underflows.
TypeOK ==
  /\ Flight!TypeOK
  /\ lru \in Seq(Keys)
  /\ bytes \in Nat
  /\ disk \subseteq Keys
  /\ want \in [Threads -> Keys \cup {None}]
  /\ closure \subseteq Threads
  /\ stage \in [Threads -> Stages]
  /\ asks \in [Threads -> 0..MaxAsks]

Init ==
  /\ Flight!Init
  /\ lru = <<>> /\ bytes = 0
  /\ disk = {}
  /\ want = [t \in Threads |-> None]
  /\ closure = {}
  /\ stage = [t \in Threads |-> "idle"]
  /\ asks = [t \in Threads |-> 0]

--------------------------------------------------------------------------------
(* The store, each operation under its mutex *)

Stored == ToSet(lru)

Size(K) == MapThenSumSet(LAMBDA k : Weight[k], K)

\* The stamp of k becomes the latest.
Touch(k) == /\ \E i \in 1..Len(lru) : lru[i] = k /\ lru' = Append(RemoveAt(lru, i), k)
            /\ UNCHANGED bytes

Oldest(n) == ToSet(SubSeq(lru, 1, n))

\* make_room: how many of the oldest entries go, so that w more bytes fit.
Dropped(w) ==
  Min({n \in 0..Len(lru) : bytes - Size(Oldest(n)) + w <= Budget} \cup {Len(lru)})

\* A slip: the new bytes are taken from the account.
Insert_Subtracts(k) ==
  IF Weight[k] > Budget \/ k \in Stored
    THEN UNCHANGED store
    ELSE LET n == Dropped(Weight[k]) IN
         /\ lru' = Append(SubSeq(lru, n + 1, Len(lru)), k)
         /\ bytes' = bytes - Size(Oldest(n)) - Weight[k]

\* remember
Insert(k) ==
  IF Weight[k] > Budget \/ k \in Stored
    THEN UNCHANGED store
    ELSE LET n == Dropped(Weight[k]) IN
         /\ lru' = Append(SubSeq(lru, n + 1, Len(lru)), k)
         /\ bytes' = bytes - Size(Oldest(n)) + Weight[k]

\* A slip: the account is not reset.
Clear_KeepsBytes ==
  /\ lru' = <<>>
  /\ UNCHANGED <<bytes, flight, disk, caller, stage>>

\* clear(), at the end of an entity's conversion
Clear ==
  /\ lru' = <<>> /\ bytes' = 0
  /\ UNCHANGED <<flight, disk, caller, stage>>

\* The disk store evicts, or a file is damaged.
DiskLoses(k) ==
  /\ disk' = disk \ {k}
  /\ UNCHANGED <<flight, store, caller, stage>>

--------------------------------------------------------------------------------
(* get_or_encode_shared *)

Stage(t, s) == stage' = [stage EXCEPT ![t] = s]

Asks(t, k) ==
  /\ want[t] = None /\ asks[t] < MaxAsks
  /\ asks' = [asks EXCEPT ![t] = @ + 1]
  /\ want' = [want EXCEPT ![t] = k]
  /\ closure' = closure \cup {t}

\* A hit is answered at once: the thread is not even seen to ask.
Hit(k) ==
  /\ k \in Stored
  /\ Touch(k)
  /\ UNCHANGED <<flight, disk, caller, stage>>

Miss(t, k) ==
  /\ k \notin Stored
  /\ Asks(t, k)
  /\ UNCHANGED <<flight, store, disk, stage>>

Answered(t) == want' = [want EXCEPT ![t] = None]

Fly(t) ==
  /\ want[t] # None
  /\ \/ Flight!Lead(t, want[t]) /\ Stage(t, "recheck")
     \/ Flight!Join(t, want[t]) /\ UNCHANGED stage
  /\ UNCHANGED <<store, disk, caller>>

\* A slip: the leader trusts its first look.
Recheck_Skipped(t) ==
  /\ stage[t] = "recheck"
  /\ Stage(t, "disk")
  /\ UNCHANGED <<flight, store, disk, caller>>

\* The work of a leader.  A panic inside the closure unwinds out of it.
Recheck(t) ==
  /\ stage[t] = "recheck"
  /\ IF key[t] \in Stored
       THEN Touch(key[t]) /\ Flight!WorkReturns(t, key[t]) /\ Stage(t, "idle")
       ELSE Stage(t, "disk") /\ UNCHANGED <<flight, store>>
  /\ UNCHANGED <<disk, caller>>

ReadDisk(t) ==
  /\ stage[t] = "disk"
  /\ Stage(t, IF key[t] \in disk THEN "remember" ELSE "encode")
  /\ UNCHANGED <<flight, store, disk, caller>>

Encode(t) ==
  /\ stage[t] = "encode" /\ t \in closure
  /\ closure' = closure \ {t}
  /\ \/ Stage(t, "persist") /\ UNCHANGED flight
     \/ Flight!WorkReturns(t, Nothing) /\ Stage(t, "idle")
     \/ Flight!WorkPanics(t) /\ Stage(t, "idle")
  /\ UNCHANGED <<store, disk, want, asks>>

\* disk::put may fail, without a word.
Persist(t) ==
  /\ stage[t] = "persist"
  /\ disk' \in {disk, disk \cup {key[t]}}
  /\ Stage(t, "remember")
  /\ UNCHANGED <<flight, store, caller>>

Remember(t) ==
  /\ stage[t] = "remember"
  /\ Insert(key[t])
  /\ Flight!WorkReturns(t, key[t])
  /\ Stage(t, "idle")
  /\ UNCHANGED <<disk, caller>>

\* Slips: a waiter keeps what it got, as in decode_cache.rs; a failed leader flies again.
Land_Shares(t) ==
  /\ \/ Flight!TakeResult(t) /\ Answered(t)
     \/ Flight!Unlist(t) /\ Answered(t)
  /\ UNCHANGED <<store, disk, closure, stage, asks>>

Land_Retries(t) ==
  /\ Flight!TakeResult(t) \/ Flight!Unlist(t)
  /\ IF got[t] \in {Nothing, None} THEN UNCHANGED want ELSE Answered(t)
  /\ UNCHANGED <<store, disk, closure, stage, asks>>

\* The loop: a leader is done, with its result or its panic; a waiter only with a result.
Land(t) ==
  /\ \/ Flight!TakeResult(t) /\ IF got[t] = Nothing THEN UNCHANGED want ELSE Answered(t)
     \/ Flight!Unlist(t) /\ Answered(t)
  /\ UNCHANGED <<store, disk, closure, stage, asks>>

Work(t) == Recheck(t) \/ ReadDisk(t) \/ Encode(t) \/ Persist(t) \/ Remember(t)

\* A slip: a panic unwinds past the publication.
Publish_Unwound(t) ==
  /\ pc[t] = "returned"
  /\ Flight!Publish(t)
  /\ UNCHANGED <<store, disk, caller, stage>>

Publish(t) ==
  /\ Flight!Publish(t)
  /\ UNCHANGED <<store, disk, caller, stage>>

Doze(t) ==
  /\ Flight!Sleep(t) \/ Flight!WakeForNothing(t)
  /\ UNCHANGED <<store, disk, caller, stage>>

Next ==
  \/ \E t \in Threads : Fly(t) \/ Work(t) \/ Publish(t) \/ Land(t) \/ Doze(t)
  \/ \E t \in Threads, k \in Keys : Miss(t, k)
  \/ \E k \in Keys : Hit(k) \/ DiskLoses(k)
  \/ Clear

Spec == Init /\ [][Next]_vars

FairSpec == Spec /\ \A t \in Threads : WF_vars(Fly(t) \/ Work(t) \/ Publish(t) \/ Land(t))

--------------------------------------------------------------------------------
(* Properties *)

\* The byte account is the store's contents and stays within the budget, through evictions,
\* oversized encodings and a clear() in the middle of a flight: s.bytes -= len never wraps.
BytesAccounted == bytes = Size(Stored) /\ bytes <= Budget

\* Between a leader's second look and its return nobody else stores its key, so no encoding
\* is computed for a key the store has, and none is inserted twice.
NothingEncodedTwice ==
  /\ \A t \in Threads : stage[t] \notin {"idle", "recheck"} => key[t] \notin Stored
  /\ IsInjective(lru)

\* A leader that comes to encode still owns its closure, however often it waited before
\* ("single-flight leader owns the encode closure", the expect of the code).
LeaderOwnsClosure == \A t \in Threads : stage[t] = "encode" => t \in closure

\* A caller leaves empty-handed only if its own closure was run: the failure of another
\* caller's encode is not an answer.
NoBorrowedFailure ==
  [][\A t \in Threads : want[t] # None /\ want'[t] = None => got[t] \in Keys \/ t \notin closure]_vars

\* Each of finitely many callers is answered, though a waiter may fly again and again.
EveryCallerAnswered == \A t \in Threads : want[t] # None ~> want[t] = None
================================================================================
