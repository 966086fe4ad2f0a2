---------------------------- MODULE RevalidateProofs ----------------------------
(***************************************************************************)
(* Proofs about Revalidate, for any hashes, threads and bounds: its types, *)
(* that what later builds start from is not behind the recorded digests,   *)
(* and that a conversion older than a recorded digest is not forgotten.    *)
(* The argument gives every hash a floor, the newest of the versions that  *)
(* the digest file, the old digests and the new ones of a refresh name for *)
(* it: the content server is never below it, and neither is what a thread  *)
(* holds, unless the hash is a suspect.                                    *)
(***************************************************************************)
EXTENDS Revalidate, TLAPS

\* With the digests d and the refresh r, v is no older than what is known of h.
AtFloor(d, r, h, v) ==
  /\ v >= d[h]
  /\ h \in DOMAIN r.old => v >= r.old[h]
  /\ h \in DOMAIN r.fresh => v >= r.fresh[h]

\* What the digests and the refresh know, the content server has answered.
RemoteAtFloor ==
  /\ \A h \in Hashes : AtFloor(digest, refresh, h, remote[h])
  /\ refresh.pc = "store" =>
       AtFloor(digest, refresh, refresh.at, refresh.got) /\ refresh.got <= remote[refresh.at]

\* The new digests are no older than the others, and differ from the old ones as changed says.
FreshIsNewer ==
  \A h \in DOMAIN refresh.fresh :
    /\ digest[h] <= refresh.fresh[h]
    /\ h \in DOMAIN refresh.old =>
         /\ refresh.old[h] <= refresh.fresh[h]
         /\ h \notin refresh.changed => refresh.old[h] = refresh.fresh[h]

\* Bytes that are stored, fetched or read by a thread.
BytesAtFloor ==
  \A h \in Hashes \ suspect :
    /\ content[h] # 0 => AtFloor(digest, refresh, h, content[h])
    /\ fetching[h] # 0 => AtFloor(digest, refresh, h, fetching[h])
    /\ \A b \in Builders :
         builder[b].pc # "idle" /\ h \in DOMAIN builder[b].bytes =>
           AtFloor(digest, refresh, h, builder[b].bytes[h])

\* A scan is dropped only after the new digests are recorded.
ScanAtFloor(d, r, g, v) ==
  v # 0 =>
    /\ g \in DOMAIN r.old => v >= r.old[g]
    /\ r.pc # "forget" \/ g \notin DOMAIN r.fresh => v >= d[g]

ScansAtFloor ==
  \A g \in Glbs \ suspect :
    /\ ScanAtFloor(digest, refresh, g, ctx[g])
    /\ \A b \in Builders : ScanAtFloor(digest, refresh, g, builder[b].scan[g])

\* Until the refresh prunes, what it is going to prune may be older than the digests.
Settled(h) ==
  refresh.pc \in {"forget", "prune"} => h \notin Stale(refresh.fresh, refresh.changed)

ConversionsKnown ==
  \A h \in DOMAIN conv : \A i \in Inputs(h) \ suspect :
    /\ h \in DOMAIN refresh.old /\ refresh.old[h] # 0 => conv[h].bytes[i] >= refresh.old[i]
    /\ Settled(h) /\ digest[h] # 0 => conv[h].bytes[i] >= digest[i]

\* One refresh at a time, and the entity is in flight for as long as it takes.
SingleRefresh == refresh.pc # "idle" => inflight

IInv ==
  /\ TypeOK /\ SingleRefresh
  /\ RemoteAtFloor /\ FreshIsNewer /\ BytesAtFloor /\ ScansAtFloor /\ ConversionsKnown

--------------------------------------------------------------------------------
(* Bytes of some of the hashes *)

LEMMA HeldIntro ==
  ASSUME NEW I \in SUBSET Hashes, NEW f \in [I -> Versions]
  PROVE  f \in Held
BY DEF Held

LEMMA HeldElim ==
  ASSUME NEW f \in Held
  PROVE  DOMAIN f \subseteq Hashes /\ f \in [DOMAIN f -> Versions]
BY DEF Held

LEMMA HeldEmpty == <<>> \in Held /\ DOMAIN <<>> = {}
<1>1. DOMAIN <<>> = {} /\ <<>> \in [{} -> Versions]
  OBVIOUS
<1> QED BY <1>1, HeldIntro

LEMMA HeldPut ==
  ASSUME NEW f \in Held, NEW h \in Hashes, NEW v \in Versions
  PROVE  /\ Put(f, h, v) \in Held
         /\ DOMAIN Put(f, h, v) = {h} \cup DOMAIN f
         /\ \A x \in {h} \cup DOMAIN f : Put(f, h, v)[x] = IF x = h THEN v ELSE f[x]
<1>1. f \in [DOMAIN f -> Versions] /\ DOMAIN f \subseteq Hashes
  BY HeldElim
<1>2. Put(f, h, v) \in [{h} \cup DOMAIN f -> Versions]
  BY <1>1 DEF Put
<1> QED BY <1>1, <1>2, HeldIntro DEF Put

--------------------------------------------------------------------------------
(* Types *)

LEMMA Versioned == Versions \subseteq 0..MaxVersion /\ 0 \notin Versions /\ MaxVersion \in Nat \ {0}
BY RevalidateAssumption DEF Versions, MaxVersion

LEMMA IdleTypes == IdleBuilder \in BuilderState /\ IdleRefresh \in RefreshState
<1>1. {} \subseteq Hashes /\ 0 \in 0..MaxVersion
  BY Versioned
<1> QED BY <1>1, HeldEmpty DEF IdleBuilder, BuilderState, IdleRefresh, RefreshState

LEMMA TypeInit == Init => TypeOK
<1> SUFFICES ASSUME Init PROVE TypeOK
  OBVIOUS
<1>1. remote \in [Hashes -> Versions] /\ content \in [Hashes -> 0..MaxVersion]
      /\ digest \in [Hashes -> 0..MaxVersion] /\ fetching \in [Hashes -> 0..MaxVersion]
  BY Versioned DEF Init, Versions
<1>2. DOMAIN conv = {}
  BY HeldEmpty DEF Init
<1>3. builder \in [Builders -> BuilderState] /\ \A b \in Builders : builder[b].pc = "idle"
  BY IdleTypes DEF Init, IdleBuilder
<1>4. /\ refresh \in RefreshState /\ refresh.pc = "idle"
      /\ refresh.changed = {} /\ DOMAIN refresh.fresh = {}
  BY IdleTypes, HeldEmpty DEF Init, IdleRefresh
<1>5. faults \in 0..MaxFaults /\ suspect \subseteq Hashes /\ ctx \in {NoScan} \cup Scan
      /\ awaiting \in BOOLEAN /\ inflight \in BOOLEAN /\ recent \in BOOLEAN
  <2>1. faults \in 0..MaxFaults
    BY RevalidateAssumption DEF Init
  <2> QED BY <2>1 DEF Init
<1> QED BY <1>1, <1>2, <1>3, <1>4, <1>5 DEF TypeOK

\* The part of TypeOK that is about the refresh.
RefreshTyped ==
  /\ refresh \in RefreshState
  /\ refresh.pc \in {"fetch", "store"} => refresh.old \in [Hashes -> 0..MaxVersion]
  /\ refresh.pc = "store" => refresh.at \in Hashes \ refresh.todo /\ refresh.got \in Versions
  /\ refresh.changed \subseteq DOMAIN refresh.fresh
  /\ DOMAIN refresh.fresh \subseteq Hashes \ refresh.todo

\* The part of TypeOK that is about the threads that convert.
BuildersTyped ==
  /\ builder \in [Builders -> BuilderState]
  /\ \A b \in Builders :
       /\ builder[b].pc # "idle" =>
            builder[b].job \in Hashes /\ DOMAIN builder[b].bytes \subseteq Inputs(builder[b].job)
       /\ builder[b].pc \in {"insert", "read"} => builder[b].scan \in Scan

LEMMA RefreshTypes == TypeOK /\ [Next]_vars => RefreshTyped'
<1> SUFFICES ASSUME TypeOK, [Next]_vars PROVE RefreshTyped'
  OBVIOUS
<1>t. RefreshTyped /\ remote \in [Hashes -> Versions] /\ digest \in [Hashes -> 0..MaxVersion]
  BY DEF TypeOK, RefreshTyped
<1>i. refresh' = IdleRefresh => RefreshTyped'
  BY IdleTypes, HeldEmpty DEF RefreshTyped, IdleRefresh
<1>u. UNCHANGED refresh => RefreshTyped'
  BY <1>t DEF RefreshTyped
<1>1. CASE Revalidate
  <2>1. refresh' = [IdleRefresh EXCEPT !.pc = "fetch", !.todo = Hashes, !.old = digest]
    BY <1>1 DEF Revalidate
  <2>2. refresh' \in RefreshState
    BY <2>1, <1>t, IdleTypes DEF RefreshState
  <2>3. /\ refresh'.pc = "fetch" /\ refresh'.old \in [Hashes -> 0..MaxVersion]
        /\ refresh'.changed = {} /\ DOMAIN refresh'.fresh = {}
    BY <2>1, <1>t, HeldEmpty DEF IdleRefresh
  <2> QED BY <2>2, <2>3 DEF RefreshTyped
<1>2. CASE Answered \/ RefreshUnheard \/ Restart
  BY <1>2, <1>i DEF Answered, RefreshUnheard, Restart
<1>3. CASE Refresher
  <2>1. ASSUME NEW h \in Hashes, RefreshFetch(h) PROVE RefreshTyped'
    BY <2>1, <1>t, Versioned DEF RefreshFetch, RefreshTyped, RefreshState
  <2>2. ASSUME NEW h \in Hashes, RefreshSkip(h) PROVE RefreshTyped'
    BY <2>2, <1>t DEF RefreshSkip, RefreshTyped, RefreshState
  <2>3. CASE RefreshError
    BY <2>3, <1>t DEF RefreshError, RefreshTyped, RefreshState
  <2>4. CASE RefreshStore
    <3> DEFINE f == Put(refresh.fresh, refresh.at, refresh.got)
    <3>1. refresh.at \in Hashes /\ refresh.got \in Versions /\ refresh.fresh \in Held
      BY <2>4, <1>t DEF RefreshStore, RefreshTyped, RefreshState
    <3>2. f \in Held /\ DOMAIN f = {refresh.at} \cup DOMAIN refresh.fresh
      BY <3>1, HeldPut
    <3>3. PICK c \in {refresh.changed, refresh.changed \cup {refresh.at}} :
            refresh' = [refresh EXCEPT !.pc = "fetch", !.at = None, !.got = 0, !.fresh = f, !.changed = c]
      BY <2>4 DEF RefreshStore
    <3>4. c \subseteq {refresh.at} \cup DOMAIN refresh.fresh /\ c \subseteq Hashes
      BY <3>1, <1>t DEF RefreshTyped, RefreshState
    <3> HIDE DEF f
    <3>5. refresh' \in RefreshState
      <4>1. refresh \in RefreshState /\ 0 \in 0..MaxVersion
        BY <1>t, Versioned DEF RefreshTyped
      <4> QED BY <4>1, <3>2, <3>3, <3>4 DEF RefreshState
    <3>6. refresh.pc = "store"
      BY <2>4 DEF RefreshStore
    <3> QED BY <3>1, <3>2, <3>3, <3>4, <3>5, <3>6, <1>t DEF RefreshTyped, RefreshState
  <2>5. CASE RefreshRecord
    BY <2>5, <1>t DEF RefreshRecord, RefreshTyped, RefreshState
  <2>6. CASE RefreshForget
    BY <2>6, <1>t DEF RefreshForget, RefreshTyped, RefreshState
  <2>7. CASE RefreshPrune
    BY <2>7, <1>t DEF RefreshPrune, RefreshTyped, RefreshState
  <2> QED BY <1>3, <2>1, <2>2, <2>3, <2>4, <2>5, <2>6, <2>7 DEF Refresher
<1>4. CASE CancelRequest \/ DebounceExpires \/ Evict \/ EvictDigests \/ UNCHANGED vars
  BY <1>4, <1>u DEF CancelRequest, DebounceExpires, Evict, EvictDigests, vars
<1>5. CASE \E b \in Builders : Builder(b)
  BY <1>5, <1>u DEF Builder, StartBuild, ReadInput, UseCtx, ScanEntity, InsertCtx, FinishBuild
<1>6. CASE \E h \in Hashes : FetchContent(h) \/ StoreContent(h) \/ RemoteChanges(h)
  BY <1>6, <1>u DEF FetchContent, StoreContent, RemoteChanges
<1> QED BY <1>1, <1>2, <1>3, <1>4, <1>5, <1>6 DEF Next

LEMMA BuilderTypes == TypeOK /\ [Next]_vars => BuildersTyped'
<1> SUFFICES ASSUME TypeOK, [Next]_vars PROVE BuildersTyped'
  OBVIOUS
<1>t. /\ BuildersTyped /\ content \in [Hashes -> 0..MaxVersion] /\ ctx \in {NoScan} \cup Scan
  BY DEF TypeOK, BuildersTyped
<1>u. UNCHANGED builder => BuildersTyped'
  BY <1>t DEF BuildersTyped
<1>1. ASSUME NEW b \in Builders, NEW r \in BuilderState, builder' = [builder EXCEPT ![b] = r],
             r.pc # "idle" => r.job \in Hashes /\ DOMAIN r.bytes \subseteq Inputs(r.job),
             r.pc \in {"insert", "read"} => r.scan \in Scan
      PROVE  BuildersTyped'
  BY <1>1, <1>t DEF BuildersTyped
<1>2. ASSUME NEW b \in Builders, Builder(b) PROVE BuildersTyped'
  <2>t. builder[b] \in BuilderState /\ (builder[b].pc # "idle" => builder[b].job \in Hashes)
    BY <1>t DEF BuildersTyped
  <2>1. ASSUME NEW h \in Hashes, StartBuild(b, h) PROVE BuildersTyped'
    <3> DEFINE r == [IdleBuilder EXCEPT !.pc = "ctx", !.job = h]
    <3>1. r \in BuilderState
      BY IdleTypes DEF BuilderState
    <3>2. r.pc = "ctx" /\ r.job = h /\ DOMAIN r.bytes = {}
      BY HeldEmpty DEF IdleBuilder
    <3>3. builder' = [builder EXCEPT ![b] = r]
      BY <2>1 DEF StartBuild
    <3> HIDE DEF r
    <3> QED BY <1>1, <3>1, <3>2, <3>3
  <2>2. CASE UseCtx(b)
    <3> DEFINE r == [builder[b] EXCEPT !.pc = "read", !.scan = ctx]
    <3>1. builder[b].pc = "ctx" /\ ctx \in Scan
      BY <2>2, <1>t DEF UseCtx
    <3>2. r \in BuilderState /\ r.pc = "read" /\ r.scan \in Scan /\ r.job = builder[b].job
          /\ r.bytes = builder[b].bytes
      BY <3>1, <2>t DEF BuilderState
    <3>3. builder' = [builder EXCEPT ![b] = r]
      BY <2>2, <1>t DEF UseCtx, BuildersTyped, BuilderState
    <3> HIDE DEF r
    <3> QED BY <1>1, <1>t, <3>1, <3>2, <3>3 DEF BuildersTyped
  <2>3. CASE ScanEntity(b)
    <3> DEFINE k == Restrict(content, Glbs)
               r == [builder[b] EXCEPT !.pc = "insert", !.scan = k]
    <3>1. k \in Scan
      BY <2>3, <1>t, Versioned DEF ScanEntity, Restrict, Scan, Hashes, Versions
    <3>2. builder[b].pc = "ctx" /\ r \in BuilderState /\ r.pc = "insert" /\ r.scan \in Scan
          /\ r.job = builder[b].job /\ r.bytes = builder[b].bytes
      BY <2>3, <3>1, <2>t DEF BuilderState, ScanEntity
    <3>3. builder' = [builder EXCEPT ![b] = r]
      BY <2>3, <1>t DEF ScanEntity, BuildersTyped, BuilderState
    <3> HIDE DEF r
    <3> QED BY <1>1, <1>t, <3>2, <3>3 DEF BuildersTyped
  <2>4. CASE InsertCtx(b)
    BY <2>4, <1>t DEF InsertCtx, BuildersTyped, BuilderState
  <2>5. ASSUME NEW i \in Hashes, ReadInput(b, i) PROVE BuildersTyped'
    <3> DEFINE f == Put(builder[b].bytes, i, content[i])
               r == [builder[b] EXCEPT !.bytes = f]
    <3>1. /\ builder[b].pc = "read" /\ builder[b].bytes \in Held /\ content[i] \in Versions
          /\ i \in Inputs(builder[b].job)
      BY <2>5, <1>t, <2>t, Versioned DEF ReadInput, BuilderState, Versions
    <3>2. f \in Held /\ DOMAIN f = {i} \cup DOMAIN builder[b].bytes
      <4> DEFINE d == builder[b].bytes
                 v == content[i]
      <4>1. d \in Held /\ v \in Versions
        BY <3>1
      <4> HIDE DEF d, v
      <4>2. Put(d, i, v) \in Held /\ DOMAIN Put(d, i, v) = {i} \cup DOMAIN d
        BY <2>5, <4>1, HeldPut
      <4> QED BY <4>2 DEF d, v
    <3> HIDE DEF f
    <3>3. r \in BuilderState /\ r.pc = "read" /\ r.job = builder[b].job
          /\ r.bytes = f /\ r.scan = builder[b].scan
      BY <3>1, <3>2, <2>t DEF BuilderState
    <3>4. builder' = [builder EXCEPT ![b] = r]
      BY <2>5, <1>t DEF ReadInput, BuildersTyped, BuilderState, f
    <3> HIDE DEF r
    <3> QED BY <1>1, <1>t, <3>1, <3>2, <3>3, <3>4 DEF BuildersTyped
  <2>6. CASE FinishBuild(b)
    BY <2>6, <1>1, IdleTypes DEF FinishBuild, IdleBuilder
  <2> QED BY <1>2, <2>1, <2>2, <2>3, <2>4, <2>5, <2>6 DEF Builder
<1>3. CASE Restart
  BY <1>3, IdleTypes DEF Restart, BuildersTyped, IdleBuilder
<1>4. CASE Refresher
  BY <1>4, <1>u DEF Refresher, RefreshFetch, RefreshSkip, RefreshError, RefreshStore, RefreshRecord,
                    RefreshForget, RefreshPrune
<1>5. CASE \/ Revalidate \/ Answered \/ CancelRequest \/ RefreshUnheard \/ DebounceExpires
           \/ Evict \/ EvictDigests \/ UNCHANGED vars
  BY <1>5, <1>u DEF Revalidate, Answered, CancelRequest, RefreshUnheard, DebounceExpires, Evict,
                    EvictDigests, vars
<1>6. CASE \E h \in Hashes : FetchContent(h) \/ StoreContent(h) \/ RemoteChanges(h)
  BY <1>6, <1>u DEF FetchContent, StoreContent, RemoteChanges
<1> QED BY <1>2, <1>3, <1>4, <1>5, <1>6 DEF Next

LEMMA TypeNext == TypeOK /\ [Next]_vars => TypeOK'
<1> SUFFICES ASSUME TypeOK, [Next]_vars PROVE TypeOK'
  OBVIOUS
<1>1. RefreshTyped' /\ BuildersTyped'
  BY RefreshTypes, BuilderTypes
<1>t. RefreshTyped /\ BuildersTyped
  BY DEF TypeOK, RefreshTyped, BuildersTyped
<1>2. remote' \in [Hashes -> Versions]
  <2>1. ASSUME NEW h \in Hashes, RemoteChanges(h) PROVE remote' \in [Hashes -> Versions]
    <3>1. remote[h] + 1 \in Versions
      BY <2>1, Versioned DEF RemoteChanges, TypeOK, Versions
    <3> QED BY <2>1, <3>1 DEF RemoteChanges, TypeOK
  <2>2. UNCHANGED remote => remote' \in [Hashes -> Versions]
    BY DEF TypeOK
  <2> QED
    BY <2>1, <2>2 DEF Next, vars, Revalidate, Answered, CancelRequest, RefreshUnheard, DebounceExpires,
         Refresher, RefreshFetch, RefreshSkip, RefreshError, RefreshStore, RefreshRecord, RefreshForget,
         RefreshPrune, Builder, StartBuild, UseCtx, ScanEntity, InsertCtx, ReadInput, FinishBuild,
         FetchContent, StoreContent, Evict, EvictDigests, Restart
<1>3. content' \in [Hashes -> 0..MaxVersion] /\ fetching' \in [Hashes -> 0..MaxVersion]
  <2>1. ASSUME NEW h \in Hashes, FetchContent(h) \/ StoreContent(h)
        PROVE  content' \in [Hashes -> 0..MaxVersion] /\ fetching' \in [Hashes -> 0..MaxVersion]
    <3>1. CASE FetchContent(h)
      BY <3>1, Versioned DEF FetchContent, TypeOK, disk
    <3>2. CASE StoreContent(h)
      BY <3>2, Versioned DEF StoreContent, TypeOK
    <3> QED BY <2>1, <3>1, <3>2
  <2>2. CASE RefreshStore \/ Evict
    BY <2>2, <1>t, Versioned DEF RefreshStore, Evict, TypeOK, RefreshTyped
  <2>3. CASE Restart
    BY <2>3, Versioned DEF Restart, TypeOK, disk
  <2>4. UNCHANGED <<content, fetching>> =>
          content' \in [Hashes -> 0..MaxVersion] /\ fetching' \in [Hashes -> 0..MaxVersion]
    BY DEF TypeOK
  <2> QED
    BY <2>1, <2>2, <2>3, <2>4 DEF Next, vars, disk, Revalidate, Answered, CancelRequest, RefreshUnheard,
         DebounceExpires, Refresher, RefreshFetch, RefreshSkip, RefreshError, RefreshRecord,
         RefreshForget, RefreshPrune, Builder, StartBuild, UseCtx, ScanEntity, InsertCtx, ReadInput,
         FinishBuild, RemoteChanges, EvictDigests
<1>4. digest' \in [Hashes -> 0..MaxVersion]
  <2>1. CASE RefreshRecord
    <3>1. Recorded(refresh.fresh) \in [Hashes -> 0..MaxVersion]
      BY <1>t, HeldElim, Versioned DEF Recorded, RefreshTyped, RefreshState
    <3> QED BY <2>1, <3>1 DEF RefreshRecord, TypeOK
  <2>2. CASE EvictDigests
    BY <2>2, Versioned DEF EvictDigests
  <2>3. UNCHANGED digest => digest' \in [Hashes -> 0..MaxVersion]
    BY DEF TypeOK
  <2> QED
    BY <2>1, <2>2, <2>3 DEF Next, vars, disk, Revalidate, Answered, CancelRequest, RefreshUnheard,
         DebounceExpires, Refresher, RefreshFetch, RefreshSkip, RefreshError, RefreshStore,
         RefreshForget, RefreshPrune, Builder, StartBuild, UseCtx, ScanEntity, InsertCtx, ReadInput,
         FinishBuild, FetchContent, StoreContent, RemoteChanges, Evict, Restart
<1>5. DOMAIN conv' \subseteq Hashes
      /\ \A h \in DOMAIN conv' : conv'[h] \in Conversion /\ DOMAIN conv'[h].bytes = Inputs(h)
  <2> DEFINE Goal == DOMAIN conv' \subseteq Hashes
        /\ \A h \in DOMAIN conv' : conv'[h] \in Conversion /\ DOMAIN conv'[h].bytes = Inputs(h)
  <2>1. ASSUME NEW b \in Builders, FinishBuild(b) PROVE Goal
    <3>1. CASE UNCHANGED conv
      BY <3>1 DEF TypeOK
    <3>2. CASE conv' # conv
      <4> DEFINE c == [bytes |-> builder[b].bytes, scan |-> builder[b].scan]
      <4>1. conv' = Put(conv, builder[b].job, c)
            /\ DOMAIN builder[b].bytes = Inputs(builder[b].job)
        BY <2>1, <3>2 DEF FinishBuild
      <4>2. builder[b].job \in Hashes /\ c \in Conversion
        BY <2>1, <1>t DEF FinishBuild, BuildersTyped, BuilderState, Conversion
      <4>3. c.bytes = builder[b].bytes
        OBVIOUS
      <4> HIDE DEF c
      <4> QED BY <4>1, <4>2, <4>3 DEF Put, TypeOK
    <3> QED BY <3>1, <3>2
  <2>2. CASE RefreshPrune
    BY <2>2 DEF RefreshPrune, TypeOK, Restrict
  <2>3. CASE Evict
    BY <2>3, HeldEmpty DEF Evict, TypeOK
  <2>4. UNCHANGED conv => Goal
    BY DEF TypeOK
  <2> QED
    BY <2>1, <2>2, <2>3, <2>4 DEF Next, vars, disk, Revalidate, Answered, CancelRequest, RefreshUnheard,
         DebounceExpires, Refresher, RefreshFetch, RefreshSkip, RefreshError, RefreshStore, RefreshRecord,
         RefreshForget, Builder, StartBuild, UseCtx, ScanEntity, InsertCtx, ReadInput,
         FetchContent, StoreContent, RemoteChanges, EvictDigests, Restart
<1>6. ctx' \in {NoScan} \cup Scan
  <2>1. ASSUME NEW b \in Builders, InsertCtx(b) PROVE ctx' \in {NoScan} \cup Scan
    BY <2>1, <1>t DEF InsertCtx, BuildersTyped
  <2>2. CASE RefreshForget \/ Restart
    BY <2>2 DEF RefreshForget, Restart
  <2>3. UNCHANGED ctx => ctx' \in {NoScan} \cup Scan
    BY DEF TypeOK
  <2> QED
    BY <2>1, <2>2, <2>3 DEF Next, vars, Revalidate, Answered, CancelRequest, RefreshUnheard,
         DebounceExpires, Refresher, RefreshFetch, RefreshSkip, RefreshError, RefreshStore, RefreshRecord,
         RefreshPrune, Builder, StartBuild, UseCtx, ScanEntity, ReadInput, FinishBuild,
         FetchContent, StoreContent, RemoteChanges, Evict, EvictDigests
<1>7. awaiting' \in BOOLEAN /\ inflight' \in BOOLEAN /\ recent' \in BOOLEAN
  BY DEF TypeOK, Next, vars, handler, Revalidate, Answered, CancelRequest, RefreshUnheard,
         DebounceExpires, Refresher, RefreshFetch, RefreshSkip, RefreshError, RefreshStore, RefreshRecord,
         RefreshForget, RefreshPrune, Builder, StartBuild, UseCtx, ScanEntity, InsertCtx, ReadInput,
         FinishBuild, FetchContent, StoreContent, RemoteChanges, Evict, EvictDigests, Restart
<1>8. faults' \in 0..MaxFaults
  <2>1. Fault => faults' \in 0..MaxFaults
    BY RevalidateAssumption DEF Fault, TypeOK
  <2>2. UNCHANGED faults => faults' \in 0..MaxFaults
    BY DEF TypeOK
  <2> QED
    BY <2>1, <2>2 DEF Next, vars, Revalidate, Answered, CancelRequest, RefreshUnheard,
         DebounceExpires, Refresher, RefreshFetch, RefreshSkip, RefreshError, RefreshStore, RefreshRecord,
         RefreshForget, RefreshPrune, Builder, StartBuild, UseCtx, ScanEntity, InsertCtx, ReadInput,
         FinishBuild, FetchContent, StoreContent, RemoteChanges, Evict, EvictDigests, Restart
<1>9. suspect' \subseteq Hashes
  <2>1. CASE RefreshStore
    BY <2>1, <1>t DEF RefreshStore, HeldOlder, TypeOK, RefreshTyped
  <2>2. CASE RefreshForget
    BY <2>2 DEF RefreshForget, HeldOlder, TypeOK
  <2>3. CASE Restart
    <3>1. \A h \in Hashes : Inputs(h) \subseteq Hashes
      BY DEF Inputs, Hashes
    <3>2. Stale(refresh.fresh, refresh.changed) \subseteq Hashes
      BY <1>t DEF Stale, RefreshTyped, RefreshState, Hashes
    <3> QED BY <2>3, <3>1, <3>2 DEF Restart, TypeOK
  <2>4. UNCHANGED suspect => suspect' \subseteq Hashes
    BY DEF TypeOK
  <2> QED
    BY <2>1, <2>2, <2>3, <2>4 DEF Next, vars, Revalidate, Answered, CancelRequest, RefreshUnheard,
         DebounceExpires, Refresher, RefreshFetch, RefreshSkip, RefreshError, RefreshRecord,
         RefreshPrune, Builder, StartBuild, UseCtx, ScanEntity, InsertCtx, ReadInput,
         FinishBuild, FetchContent, StoreContent, RemoteChanges, Evict, EvictDigests
<1> QED BY <1>1, <1>2, <1>3, <1>4, <1>5, <1>6, <1>7, <1>8, <1>9
        DEF TypeOK, RefreshTyped, BuildersTyped

--------------------------------------------------------------------------------
(* Floors *)

LEMMA Numbers ==
  ASSUME TypeOK
  PROVE  /\ \A h \in Hashes :
              /\ remote[h] \in Nat \ {0} /\ content[h] \in Nat /\ digest[h] \in Nat /\ fetching[h] \in Nat
              /\ h \in DOMAIN refresh.old => refresh.old[h] \in Nat
         /\ DOMAIN refresh.fresh \subseteq Hashes /\ DOMAIN refresh.old \subseteq Hashes
         /\ \A h \in DOMAIN refresh.fresh : refresh.fresh[h] \in Nat \ {0}
         /\ refresh.got \in Nat
<1>1. Versions \subseteq Nat \ {0} /\ 0..MaxVersion \subseteq Nat
  BY Versioned DEF Versions
<1>2. refresh \in RefreshState
  BY DEF TypeOK
<1>3. refresh.fresh \in [DOMAIN refresh.fresh -> Versions] /\ DOMAIN refresh.fresh \subseteq Hashes
  BY <1>2, HeldElim DEF RefreshState
<1>4. refresh.old = <<>> \/ refresh.old \in [Hashes -> 0..MaxVersion]
  BY <1>2 DEF RefreshState
<1>5. DOMAIN refresh.old \subseteq Hashes /\ \A h \in DOMAIN refresh.old : refresh.old[h] \in Nat
  BY <1>1, <1>4, HeldEmpty
<1>6. refresh.got \in Nat
  BY <1>1, <1>2 DEF RefreshState
<1> QED BY <1>1, <1>3, <1>5, <1>6 DEF TypeOK

LEMMA NumbersNext ==
  ASSUME TypeOK'
  PROVE  \A h \in Hashes :
           /\ digest'[h] \in Nat
           /\ h \in DOMAIN refresh'.old => refresh'.old[h] \in Nat
           /\ h \in DOMAIN refresh'.fresh => refresh'.fresh[h] \in Nat \ {0}
<1>1. Versions \subseteq Nat \ {0} /\ 0..MaxVersion \subseteq Nat
  BY Versioned DEF Versions
<1>2. refresh' \in RefreshState
  BY DEF TypeOK
<1>3. refresh'.fresh \in [DOMAIN refresh'.fresh -> Versions]
  BY <1>2, HeldElim DEF RefreshState
<1>4. refresh'.old = <<>> \/ refresh'.old \in [Hashes -> 0..MaxVersion]
  BY <1>2 DEF RefreshState
<1> QED BY <1>1, <1>3, <1>4, HeldEmpty DEF TypeOK

\* What a step does to the digests and to the refresh, RefreshStore apart.
LEMMA FloorStep ==
  ASSUME TypeOK, [Next]_vars, ~RefreshStore
  PROVE  /\ \/ digest' = digest \/ digest' = [h \in Hashes |-> 0]
            \/ RefreshRecord /\ digest' = Recorded(refresh.fresh)
         /\ \/ refresh'.old = refresh.old \/ refresh'.old = <<>>
            \/ refresh'.old = digest /\ digest' = digest /\ refresh'.fresh = <<>>
         /\ \/ refresh'.fresh = refresh.fresh /\ refresh'.changed = refresh.changed
            \/ refresh'.fresh = <<>> /\ refresh'.changed = {}
<1>r. refresh \in RefreshState
  BY DEF TypeOK
<1>1. CASE Revalidate
  BY <1>1 DEF Revalidate, disk, IdleRefresh
<1>2. CASE Answered \/ RefreshUnheard \/ Restart
  BY <1>2 DEF Answered, RefreshUnheard, Restart, disk, IdleRefresh
<1>3. CASE Refresher
  <2>1. ASSUME NEW h \in Hashes, RefreshFetch(h) \/ RefreshSkip(h)
        PROVE /\ refresh'.old = refresh.old /\ refresh'.fresh = refresh.fresh
              /\ refresh'.changed = refresh.changed /\ digest' = digest
    BY <2>1, <1>r DEF RefreshFetch, RefreshSkip, disk, RefreshState
  <2>2. CASE RefreshError \/ RefreshForget \/ RefreshPrune
    BY <2>2, <1>r DEF RefreshError, RefreshForget, RefreshPrune, disk, RefreshState
  <2>3. CASE RefreshRecord
    BY <2>3, <1>r DEF RefreshRecord, RefreshState
  <2> QED BY <1>3, <2>1, <2>2, <2>3 DEF Refresher
<1>4. CASE EvictDigests
  BY <1>4 DEF EvictDigests
<1>5. CASE CancelRequest \/ DebounceExpires \/ Evict \/ UNCHANGED vars
  BY <1>5 DEF CancelRequest, DebounceExpires, Evict, vars, disk
<1>6. CASE \E b \in Builders : Builder(b)
  BY <1>6 DEF Builder, StartBuild, ReadInput, UseCtx, ScanEntity, InsertCtx, FinishBuild, disk
<1>7. CASE \E h \in Hashes : FetchContent(h) \/ StoreContent(h) \/ RemoteChanges(h)
  BY <1>7 DEF FetchContent, StoreContent, RemoteChanges, disk
<1> QED BY <1>1, <1>2, <1>3, <1>4, <1>5, <1>6, <1>7 DEF Next

\* What RefreshStore does to the refresh.
LEMMA StoreStep ==
  ASSUME TypeOK, RefreshStore
  PROVE  /\ digest' = digest /\ refresh'.old = refresh.old /\ refresh.at \in Hashes
         /\ DOMAIN refresh.old = Hashes
         /\ DOMAIN refresh'.fresh = {refresh.at} \cup DOMAIN refresh.fresh
         /\ \A h \in DOMAIN refresh'.fresh :
              refresh'.fresh[h] = IF h = refresh.at THEN refresh.got ELSE refresh.fresh[h]
         /\ refresh.changed \subseteq refresh'.changed
         /\ refresh.old[refresh.at] # refresh.got => refresh.at \in refresh'.changed
<1>1. refresh \in RefreshState /\ refresh.pc = "store"
      /\ refresh.at \in Hashes /\ DOMAIN refresh.old = Hashes
  BY DEF TypeOK, RefreshStore
<1>2. refresh'.fresh = Put(refresh.fresh, refresh.at, refresh.got)
  BY <1>1 DEF RefreshStore, RefreshState
<1>3. digest' = digest /\ refresh'.old = refresh.old /\ refresh.changed \subseteq refresh'.changed
      /\ (refresh.old[refresh.at] # refresh.got => refresh.at \in refresh'.changed)
  BY <1>1 DEF RefreshStore, RefreshState
<1> QED BY <1>1, <1>2, <1>3 DEF Put

\* Only RefreshStore raises a floor, that of the hash it stores.
LEMMA FloorKept ==
  ASSUME TypeOK, [Next]_vars, NEW h \in Hashes, NEW v \in Nat, AtFloor(digest, refresh, h, v),
         RefreshStore /\ h = refresh.at => v >= refresh.got
  PROVE  AtFloor(digest', refresh', h, v)
<1>1. CASE RefreshStore
  BY <1>1, StoreStep DEF AtFloor
<1>2. CASE ~RefreshStore
  <2>1. v >= digest'[h]
    BY <1>2, FloorStep DEF AtFloor, Recorded
  <2>2. h \in DOMAIN refresh'.old => v >= refresh'.old[h]
    BY <1>2, FloorStep, HeldEmpty DEF AtFloor
  <2>3. h \in DOMAIN refresh'.fresh => v >= refresh'.fresh[h]
    BY <1>2, FloorStep, HeldEmpty DEF AtFloor
  <2> QED BY <2>1, <2>2, <2>3 DEF AtFloor
<1> QED BY <1>1, <1>2

LEMMA SuspectsStay == [Next]_vars => suspect \subseteq suspect'
BY DEF Next, vars, Revalidate, Answered, CancelRequest, RefreshUnheard,
       DebounceExpires, Refresher, RefreshFetch, RefreshSkip, RefreshError, RefreshStore, RefreshRecord,
       RefreshForget, RefreshPrune, Builder, StartBuild, UseCtx, ScanEntity, InsertCtx, ReadInput,
       FinishBuild, FetchContent, StoreContent, RemoteChanges, Evict, EvictDigests, Restart

LEMMA RemoteGrows ==
  ASSUME TypeOK, [Next]_vars, NEW h \in Hashes
  PROVE  remote'[h] \in Nat /\ remote'[h] >= remote[h]
<1>1. remote[h] \in Nat
  BY Numbers
<1>2. ASSUME NEW k \in Hashes, RemoteChanges(k) PROVE remote'[h] \in Nat /\ remote'[h] >= remote[h]
  BY <1>1, <1>2 DEF RemoteChanges, TypeOK
<1>3. UNCHANGED remote => remote'[h] \in Nat /\ remote'[h] >= remote[h]
  BY <1>1
<1> QED
  BY <1>2, <1>3 DEF Next, vars, Revalidate, Answered, CancelRequest, RefreshUnheard, DebounceExpires,
       Refresher, RefreshFetch, RefreshSkip, RefreshError, RefreshStore, RefreshRecord, RefreshForget,
       RefreshPrune, Builder, StartBuild, UseCtx, ScanEntity, InsertCtx, ReadInput, FinishBuild,
       FetchContent, StoreContent, Evict, EvictDigests, Restart

LEMMA ToStore ==
  ASSUME TypeOK, [Next]_vars, refresh'.pc = "store"
  PROVE  ~RefreshStore /\ (refresh' = refresh \/ \E h \in Hashes : RefreshFetch(h))
<1>r. refresh \in RefreshState
  BY DEF TypeOK
<1>1. CASE Refresher
  BY <1>1, <1>r DEF Refresher, RefreshFetch, RefreshSkip, RefreshError, RefreshStore, RefreshRecord,
                    RefreshForget, RefreshPrune, RefreshState
<1>2. CASE Revalidate \/ Answered \/ RefreshUnheard \/ Restart
  <2>1. CASE Revalidate
    BY <2>1 DEF Revalidate, IdleRefresh
  <2>2. CASE Answered \/ RefreshUnheard \/ Restart
    BY <2>2 DEF Answered, RefreshUnheard, Restart, IdleRefresh
  <2> QED BY <1>2, <2>1, <2>2
<1>3. CASE \/ CancelRequest \/ DebounceExpires \/ Evict \/ EvictDigests \/ UNCHANGED vars
           \/ \E b \in Builders : Builder(b)
           \/ \E h \in Hashes : FetchContent(h) \/ StoreContent(h) \/ RemoteChanges(h)
  <2>1. refresh' = refresh
    BY <1>3 DEF vars, CancelRequest, DebounceExpires, Builder, StartBuild, UseCtx, ScanEntity, InsertCtx,
         ReadInput, FinishBuild, FetchContent, StoreContent, RemoteChanges, Evict, EvictDigests
  <2>2. ~RefreshStore
    BY <2>1, <1>r DEF RefreshStore, RefreshState
  <2> QED BY <2>1, <2>2
<1> QED BY <1>1, <1>2, <1>3 DEF Next

LEMMA RemoteNext ==
  ASSUME TypeOK, RemoteAtFloor, [Next]_vars
  PROVE  RemoteAtFloor'
<1>1. ASSUME NEW h \in Hashes PROVE AtFloor(digest', refresh', h, remote'[h])
  <2>1. remote[h] \in Nat /\ AtFloor(digest, refresh, h, remote[h])
    BY Numbers DEF RemoteAtFloor
  <2>2. RefreshStore /\ h = refresh.at => remote[h] >= refresh.got
    BY DEF RemoteAtFloor, RefreshStore
  <2>3. AtFloor(digest', refresh', h, remote[h])
    BY <2>1, <2>2, FloorKept
  <2>4. remote'[h] \in Nat /\ remote'[h] >= remote[h]
    BY RemoteGrows
  <2>5. /\ digest'[h] \in Nat
        /\ h \in DOMAIN refresh'.old => refresh'.old[h] \in Nat
        /\ h \in DOMAIN refresh'.fresh => refresh'.fresh[h] \in Nat
    BY TypeNext, NumbersNext
  <2> QED BY <2>1, <2>3, <2>4, <2>5 DEF AtFloor
<1>2. ASSUME refresh'.pc = "store"
      PROVE  AtFloor(digest', refresh', refresh'.at, refresh'.got) /\ refresh'.got <= remote'[refresh'.at]
  <2>1. CASE refresh' = refresh
    <3>1. refresh.at \in Hashes /\ refresh.got \in Nat /\ ~RefreshStore
      BY <1>2, <2>1, ToStore, Numbers DEF TypeOK
    <3>2. AtFloor(digest, refresh, refresh.at, refresh.got) /\ refresh.got <= remote[refresh.at]
      BY <1>2, <2>1 DEF RemoteAtFloor
    <3>3. AtFloor(digest', refresh', refresh.at, refresh.got)
      BY <3>1, <3>2, FloorKept
    <3>4. remote'[refresh.at] \in Nat /\ remote'[refresh.at] >= remote[refresh.at] /\ remote[refresh.at] \in Nat
      BY <3>1, RemoteGrows, Numbers
    <3> QED BY <2>1, <3>1, <3>2, <3>3, <3>4
  <2>2. ASSUME NEW h \in Hashes, RefreshFetch(h)
        PROVE  AtFloor(digest', refresh', refresh'.at, refresh'.got) /\ refresh'.got <= remote'[refresh'.at]
    <3>1. refresh'.at = h /\ refresh'.got = remote[h] /\ remote' = remote
      BY <2>2 DEF RefreshFetch, TypeOK, RefreshState
    <3> QED BY <1>1, <3>1, Numbers
  <2> QED BY <1>2, <2>1, <2>2, ToStore
<1> QED BY <1>1, <1>2 DEF RemoteAtFloor

LEMMA FreshNext ==
  ASSUME TypeOK, RemoteAtFloor, FreshIsNewer, [Next]_vars
  PROVE  FreshIsNewer'
<1>1. CASE RefreshStore
  <2>1. AtFloor(digest, refresh, refresh.at, refresh.got)
    BY <1>1 DEF RemoteAtFloor, RefreshStore
  <2> QED BY <1>1, <2>1, StoreStep, Numbers DEF FreshIsNewer, AtFloor
<1>2. CASE ~RefreshStore
  <2> SUFFICES ASSUME NEW h \in DOMAIN refresh'.fresh
               PROVE  /\ digest'[h] <= refresh'.fresh[h]
                      /\ h \in DOMAIN refresh'.old =>
                           /\ refresh'.old[h] <= refresh'.fresh[h]
                           /\ h \notin refresh'.changed => refresh'.old[h] = refresh'.fresh[h]
    BY DEF FreshIsNewer
  <2>1. refresh'.fresh = refresh.fresh /\ refresh'.changed = refresh.changed
    BY <1>2, FloorStep, HeldEmpty
  <2>2. h \in DOMAIN refresh.fresh /\ h \in Hashes /\ refresh.fresh[h] \in Nat /\ digest[h] <= refresh.fresh[h]
    BY <2>1, Numbers DEF FreshIsNewer
  <2>3. digest'[h] <= refresh'.fresh[h]
    BY <1>2, <2>1, <2>2, FloorStep DEF Recorded
  <2>4. refresh'.old = refresh.old \/ refresh'.old = <<>>
    BY <1>2, <2>2, <2>1, FloorStep, HeldEmpty
  <2> QED BY <2>1, <2>2, <2>3, <2>4, HeldEmpty DEF FreshIsNewer
<1> QED BY <1>1, <1>2

--------------------------------------------------------------------------------
(* Bytes *)

LEMMA ContentStep ==
  ASSUME TypeOK, [Next]_vars, ~RefreshStore, NEW h \in Hashes
  PROVE  /\ content'[h] \in {content[h], fetching[h], 0}
         /\ fetching'[h] \in {fetching[h], remote[h], 0}
<1>1. ASSUME NEW k \in Hashes, FetchContent(k) \/ StoreContent(k)
      PROVE  content'[h] \in {content[h], fetching[h], 0} /\ fetching'[h] \in {fetching[h], remote[h], 0}
  BY <1>1 DEF FetchContent, StoreContent, TypeOK, disk
<1>2. CASE Evict \/ Restart
  BY <1>2 DEF Evict, Restart, TypeOK, disk
<1>3. UNCHANGED <<content, fetching>> =>
        content'[h] \in {content[h], fetching[h], 0} /\ fetching'[h] \in {fetching[h], remote[h], 0}
  OBVIOUS
<1> QED
  BY <1>1, <1>2, <1>3 DEF Next, vars, disk, Revalidate, Answered, CancelRequest, RefreshUnheard,
       DebounceExpires, Refresher, RefreshFetch, RefreshSkip, RefreshError, RefreshRecord, RefreshForget,
       RefreshPrune, Builder, StartBuild, UseCtx, ScanEntity, InsertCtx, ReadInput, FinishBuild,
       RemoteChanges, EvictDigests

LEMMA HeldNumbers ==
  ASSUME TypeOK, NEW b \in Builders
  PROVE  /\ DOMAIN builder[b].bytes \subseteq Hashes
         /\ \A h \in DOMAIN builder[b].bytes : builder[b].bytes[h] \in Nat \ {0}
<1>1. builder[b].bytes \in Held /\ Versions \subseteq Nat \ {0}
  BY DEF TypeOK, BuilderState, Versions
<1> QED BY <1>1, HeldElim

\* The bytes a thread has were its own before, or are what the store holds.
LEMMA BytesRead ==
  ASSUME TypeOK, [Next]_vars, NEW b \in Builders, builder'[b].pc # "idle",
         NEW h \in DOMAIN builder'[b].bytes
  PROVE  \/ /\ builder[b].pc # "idle" /\ h \in DOMAIN builder[b].bytes
            /\ builder'[b].bytes[h] = builder[b].bytes[h]
         \/ ~RefreshStore /\ content[h] # 0 /\ builder'[b].bytes[h] = content[h]
<1> DEFINE Kept == /\ builder[b].pc # "idle" /\ h \in DOMAIN builder[b].bytes
                   /\ builder'[b].bytes[h] = builder[b].bytes[h]
           Read == ~RefreshStore /\ content[h] # 0 /\ builder'[b].bytes[h] = content[h]
<1>t. builder \in [Builders -> BuilderState]
  BY DEF TypeOK
<1>1. ASSUME NEW c \in Builders, NEW k \in Hashes, StartBuild(c, k) PROVE Kept
  BY <1>1, <1>t, HeldEmpty DEF StartBuild, IdleBuilder
<1>2. ASSUME NEW c \in Builders, NEW k \in Hashes, ReadInput(c, k) PROVE Kept \/ Read
  <2>1. ~RefreshStore
    BY <1>2 DEF ReadInput, RefreshStore, TypeOK, RefreshState
  <2>2. CASE c # b
    BY <1>2, <1>t, <2>2 DEF ReadInput, BuilderState
  <2>3. CASE c = b
    <3>1. /\ builder[b].pc = "read" /\ content[k] # 0
          /\ builder'[b].bytes = Put(builder[b].bytes, k, content[k])
      BY <1>2, <1>t, <2>3 DEF ReadInput, BuilderState
    <3> QED BY <2>1, <3>1 DEF Put
  <2> QED BY <2>2, <2>3
<1>3. ASSUME NEW c \in Builders, UseCtx(c) \/ ScanEntity(c) \/ InsertCtx(c) \/ FinishBuild(c) PROVE Kept
  <2>1. CASE UseCtx(c)
    BY <2>1, <1>t DEF UseCtx, BuilderState
  <2>2. CASE ScanEntity(c)
    BY <2>2, <1>t DEF ScanEntity, BuilderState
  <2>3. CASE InsertCtx(c)
    BY <2>3, <1>t DEF InsertCtx, BuilderState
  <2>4. CASE FinishBuild(c)
    BY <2>4, <1>t DEF FinishBuild, IdleBuilder
  <2> QED BY <1>3, <2>1, <2>2, <2>3, <2>4
<1>4. ASSUME Restart PROVE Kept
  BY <1>4 DEF Restart, IdleBuilder
<1>5. UNCHANGED builder => Kept
  OBVIOUS
<1> HIDE DEF Kept, Read
<1>6. ASSUME NEW c \in Builders, Builder(c) PROVE Kept \/ Read
  BY <1>1, <1>2, <1>3, <1>6 DEF Builder
<1>7. ~(\E c \in Builders : Builder(c)) /\ ~Restart => UNCHANGED builder
  BY DEF Next, vars, Revalidate, Answered, CancelRequest, RefreshUnheard,
       DebounceExpires, Refresher, RefreshFetch, RefreshSkip, RefreshError, RefreshStore, RefreshRecord,
       RefreshForget, RefreshPrune, FetchContent, StoreContent, RemoteChanges, Evict, EvictDigests
<1>8. Kept \/ Read
  BY <1>4, <1>5, <1>6, <1>7
<1> QED BY <1>8 DEF Kept, Read

\* Bytes older than those a refresh stores make the hash a suspect.
LEMMA StoreSuspects ==
  ASSUME TypeOK, RefreshStore, refresh.at \notin suspect',
         NEW v \in Nat \ {0}, AtFloor(digest, refresh, refresh.at, v),
         \/ v = fetching[refresh.at]
         \/ \E b \in Builders : refresh.at \in DOMAIN builder[b].bytes /\ v = builder[b].bytes[refresh.at]
  PROVE  v >= refresh.got
<1>1. refresh.got \in Nat /\ refresh.at \in Hashes /\ refresh.at \in DOMAIN refresh.old
  BY Numbers, StoreStep
<1>2. CASE refresh.old[refresh.at] = refresh.got
  BY <1>1, <1>2 DEF AtFloor
<1>3. CASE refresh.old[refresh.at] # refresh.got
  <2>1. content'[refresh.at] = refresh.got /\ refresh.at \notin HeldOlder({refresh.at}, content')
    BY <1>1, <1>3 DEF RefreshStore, TypeOK
  <2>2. v < refresh.got => v \in 1..(refresh.got - 1)
    BY <1>1
  <2> QED BY <1>1, <2>1, <2>2 DEF HeldOlder
<1> QED BY <1>2, <1>3

LEMMA BytesNext ==
  ASSUME TypeOK, RemoteAtFloor, BytesAtFloor, [Next]_vars
  PROVE  BytesAtFloor'
<1> SUFFICES ASSUME NEW h \in Hashes \ suspect'
             PROVE  /\ content'[h] # 0 => AtFloor(digest', refresh', h, content'[h])
                    /\ fetching'[h] # 0 => AtFloor(digest', refresh', h, fetching'[h])
                    /\ \A b \in Builders :
                         builder'[b].pc # "idle" /\ h \in DOMAIN builder'[b].bytes =>
                           AtFloor(digest', refresh', h, builder'[b].bytes[h])
  BY DEF BytesAtFloor
<1>h. h \in Hashes \ suspect
  BY SuspectsStay
<1>n. content[h] \in Nat /\ fetching[h] \in Nat /\ remote[h] \in Nat \ {0}
  BY Numbers
<1>i. /\ content[h] # 0 => AtFloor(digest, refresh, h, content[h])
      /\ fetching[h] # 0 => AtFloor(digest, refresh, h, fetching[h])
      /\ AtFloor(digest, refresh, h, remote[h])
  BY <1>h DEF BytesAtFloor, RemoteAtFloor
<1>1. CASE ~RefreshStore
  <2>1. \A v \in Nat : AtFloor(digest, refresh, h, v) => AtFloor(digest', refresh', h, v)
    BY <1>1, FloorKept
  <2>2. content'[h] # 0 => AtFloor(digest', refresh', h, content'[h])
    BY <1>1, <1>i, <1>n, <2>1, ContentStep
  <2>3. fetching'[h] # 0 => AtFloor(digest', refresh', h, fetching'[h])
    BY <1>1, <1>i, <1>n, <2>1, ContentStep
  <2>4. ASSUME NEW b \in Builders, builder'[b].pc # "idle", h \in DOMAIN builder'[b].bytes
        PROVE  AtFloor(digest', refresh', h, builder'[b].bytes[h])
    <3>1. CASE content[h] # 0 /\ builder'[b].bytes[h] = content[h]
      BY <3>1, <1>i, <1>n, <2>1
    <3>2. CASE /\ builder[b].pc # "idle" /\ h \in DOMAIN builder[b].bytes
               /\ builder'[b].bytes[h] = builder[b].bytes[h]
      <4>1. builder[b].bytes[h] \in Nat /\ AtFloor(digest, refresh, h, builder[b].bytes[h])
        BY <3>2, <1>h, HeldNumbers DEF BytesAtFloor
      <4> QED BY <3>2, <4>1, <2>1
    <3> QED BY <2>4, <3>1, <3>2, BytesRead
  <2> QED BY <2>2, <2>3, <2>4
<1>2. CASE RefreshStore
  <2>1. ASSUME NEW v \in Nat \ {0}, AtFloor(digest, refresh, h, v),
               \/ v = fetching[h]
               \/ \E b \in Builders : h \in DOMAIN builder[b].bytes /\ v = builder[b].bytes[h]
        PROVE  AtFloor(digest', refresh', h, v)
    <3>1. h = refresh.at => v >= refresh.got
      BY <1>2, <2>1, StoreSuspects
    <3> QED BY <2>1, <3>1, FloorKept
  <2>2. fetching' = fetching /\ builder' = builder
    BY <1>2 DEF RefreshStore
  <2>3. fetching'[h] # 0 => AtFloor(digest', refresh', h, fetching'[h])
    BY <1>i, <1>n, <2>1, <2>2
  <2>4. ASSUME NEW b \in Builders, builder'[b].pc # "idle", h \in DOMAIN builder'[b].bytes
        PROVE  AtFloor(digest', refresh', h, builder'[b].bytes[h])
    <3>1. builder[b].bytes[h] \in Nat \ {0} /\ AtFloor(digest, refresh, h, builder[b].bytes[h])
      BY <2>2, <2>4, <1>h, HeldNumbers DEF BytesAtFloor
    <3> QED BY <2>1, <2>2, <2>4, <3>1
  <2>5. content'[h] # 0 => AtFloor(digest', refresh', h, content'[h])
    <3>1. refresh.got \in Nat /\ refresh.at \in Hashes /\ DOMAIN refresh.old = Hashes
          /\ AtFloor(digest, refresh, refresh.at, refresh.got)
      BY <1>2, Numbers, StoreStep DEF RemoteAtFloor, RefreshStore
    <3>2. CASE h # refresh.at
      <4>1. content'[h] = content[h]
        BY <1>2, <3>2 DEF RefreshStore, TypeOK
      <4> QED BY <3>2, <4>1, <1>i, <1>n, FloorKept
    <3>3. CASE h = refresh.at /\ refresh.old[h] # refresh.got
      <4>1. content'[h] = refresh.got
        BY <1>2, <3>3 DEF RefreshStore, TypeOK
      <4> QED BY <3>1, <3>3, <4>1, FloorKept
    <3>4. CASE h = refresh.at /\ refresh.old[h] = refresh.got
      <4>1. content' = content
        BY <1>2, <3>4 DEF RefreshStore
      <4>2. content[h] # 0 => content[h] >= refresh.got
        BY <3>1, <3>4, <1>i DEF AtFloor
      <4> QED BY <4>1, <4>2, <1>i, <1>n, FloorKept
    <3> QED BY <3>2, <3>3, <3>4
  <2> QED BY <2>3, <2>4, <2>5
<1> QED BY <1>1, <1>2

--------------------------------------------------------------------------------
(* Scans *)

LEMMA SingleNext == TypeOK /\ SingleRefresh /\ [Next]_vars => SingleRefresh'
<1> SUFFICES ASSUME TypeOK, SingleRefresh, [Next]_vars PROVE SingleRefresh'
  OBVIOUS
<1>r. refresh \in RefreshState
  BY DEF TypeOK
<1>1. CASE Refresher
  BY <1>1, <1>r DEF Refresher, RefreshFetch, RefreshSkip, RefreshError, RefreshStore, RefreshRecord,
                    RefreshForget, RefreshPrune, SingleRefresh, handler, RefreshState
<1>2. CASE Revalidate
  BY <1>2 DEF Revalidate, SingleRefresh
<1>3. CASE Answered \/ RefreshUnheard \/ Restart
  BY <1>3 DEF Answered, RefreshUnheard, Restart, SingleRefresh, IdleRefresh
<1>4. UNCHANGED <<refresh, inflight>> => SingleRefresh'
  BY DEF SingleRefresh
<1> QED
  BY <1>1, <1>2, <1>3, <1>4 DEF Next, vars, handler, CancelRequest, DebounceExpires, Builder, StartBuild,
       UseCtx, ScanEntity, InsertCtx, ReadInput, FinishBuild, FetchContent, StoreContent, RemoteChanges,
       Evict, EvictDigests

\* The steps that leave the digests and the refresh alone, or forget all the digests.
Elsewhere ==
  refresh' = refresh /\ (digest' = digest \/ digest' = [h \in Hashes |-> 0])

LEMMA RefreshSteps ==
  ASSUME TypeOK, SingleRefresh, [Next]_vars
  PROVE  \/ Elsewhere \/ RefreshStore \/ RefreshRecord \/ RefreshForget \/ RefreshPrune \/ Restart
         \/ Revalidate /\ refresh.pc = "idle"
         \/ /\ digest' = digest /\ refresh.pc \in {"fetch", "store", "done"}
            /\ refresh'.pc \notin {"forget", "prune"}
            /\ refresh'.old = refresh.old \/ refresh'.old = <<>>
<1>r. refresh \in RefreshState
  BY DEF TypeOK
<1>1. ASSUME NEW h \in Hashes, RefreshFetch(h) \/ RefreshSkip(h)
      PROVE  /\ digest' = digest /\ refresh.pc = "fetch" /\ refresh'.old = refresh.old
             /\ refresh'.pc \in {"fetch", "store"}
  BY <1>1, <1>r DEF RefreshFetch, RefreshSkip, disk, RefreshState
<1>2. CASE RefreshError
  BY <1>2, <1>r DEF RefreshError, disk, RefreshState
<1>3. CASE Answered \/ RefreshUnheard
  BY <1>3 DEF Answered, RefreshUnheard, disk, IdleRefresh
<1>4. CASE Revalidate
  BY <1>4 DEF Revalidate, SingleRefresh
<1>5. CASE \/ CancelRequest \/ DebounceExpires \/ Evict \/ EvictDigests \/ UNCHANGED vars
           \/ \E b \in Builders : Builder(b)
           \/ \E h \in Hashes : FetchContent(h) \/ StoreContent(h) \/ RemoteChanges(h)
  <2>1. Elsewhere
    BY <1>5 DEF Elsewhere, vars, disk, CancelRequest, DebounceExpires, Builder, StartBuild, UseCtx,
         ScanEntity, InsertCtx, ReadInput, FinishBuild, FetchContent, StoreContent, RemoteChanges, Evict,
         EvictDigests
  <2> QED BY <2>1
<1> QED BY <1>1, <1>2, <1>3, <1>4, <1>5 DEF Next, Refresher

LEMMA ScanKept ==
  ASSUME TypeOK, SingleRefresh, FreshIsNewer, [Next]_vars, ~Restart,
         NEW g \in Glbs, NEW v \in Nat, ScanAtFloor(digest, refresh, g, v),
         RefreshForget /\ v # 0 => v >= Recorded(refresh.fresh)[g]
  PROVE  ScanAtFloor(digest', refresh', g, v)
<1>g. g \in Hashes
  BY DEF Hashes
<1>r. refresh \in RefreshState
  BY DEF TypeOK
<1>n. digest[g] \in Nat /\ \A h \in DOMAIN refresh.fresh : refresh.fresh[h] \in Nat
  BY <1>g, Numbers
<1>1. CASE Elsewhere
  BY <1>1, <1>g, <1>n DEF Elsewhere, ScanAtFloor
<1>2. CASE RefreshStore
  BY <1>2, <1>r, StoreStep DEF ScanAtFloor, RefreshStore
<1>3. CASE RefreshRecord
  <2>1. DOMAIN refresh.old = Hashes /\ refresh.pc = "fetch"
    BY <1>3 DEF RefreshRecord, TypeOK
  <2>2. /\ DOMAIN refresh'.old = {} /\ refresh'.fresh = refresh.fresh
        /\ refresh'.pc = IF refresh.changed = {} THEN "done" ELSE "forget"
    BY <1>3, <1>r, HeldEmpty DEF RefreshRecord, RefreshState
  <2>3. CASE digest' = digest
    BY <2>1, <2>2, <2>3 DEF ScanAtFloor
  <2>4. CASE digest' = Recorded(refresh.fresh)
    <3>1. digest'[g] = IF g \in DOMAIN refresh.fresh THEN refresh.fresh[g] ELSE 0
      BY <1>g, <2>4 DEF Recorded
    <3>2. g \in DOMAIN refresh.fresh /\ refresh.changed = {} => refresh.old[g] = refresh.fresh[g]
      BY <1>g, <2>1 DEF FreshIsNewer
    <3> QED BY <1>g, <2>1, <2>2, <3>1, <3>2 DEF ScanAtFloor
  <2> QED BY <1>3, <2>3, <2>4 DEF RefreshRecord
<1>4. CASE RefreshForget
  <2>1. /\ digest' = digest /\ refresh'.old = refresh.old /\ refresh'.fresh = refresh.fresh
        /\ refresh.pc = "forget" /\ refresh'.pc = "prune"
    BY <1>4, <1>r DEF RefreshForget, disk, RefreshState
  <2>2. g \in DOMAIN refresh.fresh /\ v # 0 => v >= digest[g]
    BY <1>4, <1>g, <1>n DEF FreshIsNewer, Recorded
  <2> QED BY <2>1, <2>2 DEF ScanAtFloor
<1>5. CASE RefreshPrune
  BY <1>5, <1>r DEF RefreshPrune, RefreshState, ScanAtFloor
<1>6. CASE Revalidate /\ refresh.pc = "idle"
  BY <1>6, FloorStep, HeldEmpty, <1>r DEF Revalidate, disk, ScanAtFloor, RefreshStore, IdleRefresh
<1>7. CASE /\ digest' = digest /\ refresh.pc \in {"fetch", "store", "done"}
           /\ refresh'.pc \notin {"forget", "prune"}
           /\ refresh'.old = refresh.old \/ refresh'.old = <<>>
  BY <1>7, HeldEmpty DEF ScanAtFloor
<1> QED BY <1>1, <1>2, <1>3, <1>4, <1>5, <1>6, <1>7, RefreshSteps

LEMMA ScanStep ==
  ASSUME TypeOK, [Next]_vars, NEW g \in Glbs
  PROVE  /\ ctx'[g] \in {ctx[g], 0} \/ \E b \in Builders : ctx'[g] = builder[b].scan[g]
         /\ \A b \in Builders : builder'[b].scan[g] \in {builder[b].scan[g], ctx[g], content[g], 0}
         /\ RefreshForget => ctx'[g] = 0 /\ builder' = builder
         /\ Restart => ctx'[g] = 0 /\ \A b \in Builders : builder'[b].scan[g] = 0
<1>t. builder \in [Builders -> BuilderState] /\ content \in [Hashes -> 0..MaxVersion] /\ NoScan[g] = 0
      /\ IdleBuilder.scan = NoScan
  BY DEF TypeOK, NoScan, IdleBuilder
<1>1. RefreshForget => ctx'[g] = 0 /\ builder' = builder
  BY <1>t DEF RefreshForget
<1>2. Restart => ctx'[g] = 0 /\ \A b \in Builders : builder'[b].scan[g] = 0
  BY <1>t DEF Restart
<1>3. ctx'[g] \in {ctx[g], 0} \/ \E b \in Builders : ctx'[g] = builder[b].scan[g]
  <2>1. ASSUME NEW b \in Builders, InsertCtx(b) PROVE ctx'[g] = builder[b].scan[g]
    BY <2>1 DEF InsertCtx
  <2>2. UNCHANGED ctx \/ RefreshForget \/ Restart \/ \E b \in Builders : InsertCtx(b)
    BY DEF Next, vars, Revalidate, Answered, CancelRequest, RefreshUnheard, DebounceExpires,
       Refresher, RefreshFetch, RefreshSkip, RefreshError, RefreshStore, RefreshRecord,
       RefreshPrune, Builder, StartBuild, UseCtx, ScanEntity, ReadInput, FinishBuild,
       FetchContent, StoreContent, RemoteChanges, Evict, EvictDigests
  <2> QED BY <1>1, <1>2, <2>1, <2>2
<1>4. ASSUME NEW b \in Builders
      PROVE  builder'[b].scan[g] \in {builder[b].scan[g], ctx[g], content[g], 0}
  <2>1. ASSUME NEW c \in Builders, NEW h \in Hashes, StartBuild(c, h) \/ ReadInput(c, h)
        PROVE  builder'[b].scan[g] \in {builder[b].scan[g], 0}
    <3>1. CASE StartBuild(c, h)
      BY <3>1, <1>t DEF StartBuild, IdleBuilder
    <3>2. CASE ReadInput(c, h)
      BY <3>2, <1>t DEF ReadInput, BuilderState
    <3> QED BY <2>1, <3>1, <3>2
  <2>2. ASSUME NEW c \in Builders, UseCtx(c)
        PROVE  builder'[b].scan[g] \in {builder[b].scan[g], ctx[g]}
    BY <2>2, <1>t DEF UseCtx, BuilderState
  <2>3. ASSUME NEW c \in Builders, ScanEntity(c)
        PROVE  builder'[b].scan[g] \in {builder[b].scan[g], content[g]}
    <3>1. Restrict(content, Glbs)[g] = content[g]
      BY <1>t DEF Restrict, Hashes
    <3>2. builder' = [builder EXCEPT ![c] = [@ EXCEPT !.pc = "insert", !.scan = Restrict(content, Glbs)]]
      BY <2>3, <1>t DEF ScanEntity, BuilderState
    <3> QED BY <3>1, <3>2, <1>t DEF BuilderState
  <2>4. ASSUME NEW c \in Builders, InsertCtx(c) \/ FinishBuild(c)
        PROVE  builder'[b].scan[g] \in {builder[b].scan[g], 0}
    BY <2>4, <1>t DEF InsertCtx, FinishBuild, BuilderState
  <2>5. ASSUME NEW c \in Builders, Builder(c)
        PROVE  builder'[b].scan[g] \in {builder[b].scan[g], ctx[g], content[g], 0}
    BY <2>1, <2>2, <2>3, <2>4, <2>5 DEF Builder
  <2>6. UNCHANGED builder \/ Restart \/ \E c \in Builders : Builder(c)
    BY DEF Next, vars, Revalidate, Answered, CancelRequest, RefreshUnheard,
       DebounceExpires, Refresher, RefreshFetch, RefreshSkip, RefreshError, RefreshStore, RefreshRecord,
       RefreshForget, RefreshPrune, FetchContent, StoreContent, RemoteChanges, Evict, EvictDigests
  <2> QED BY <1>2, <2>5, <2>6
<1> QED BY <1>1, <1>2, <1>3, <1>4

LEMMA ScansNext ==
  ASSUME TypeOK, SingleRefresh, FreshIsNewer, BytesAtFloor, ScansAtFloor, [Next]_vars
  PROVE  ScansAtFloor'
<1> SUFFICES ASSUME NEW g \in Glbs \ suspect'
             PROVE  /\ ScanAtFloor(digest', refresh', g, ctx'[g])
                    /\ \A b \in Builders : ScanAtFloor(digest', refresh', g, builder'[b].scan[g])
  BY DEF ScansAtFloor
<1>g. g \in Glbs \ suspect /\ g \in Hashes \ suspect
  BY SuspectsStay DEF Hashes
<1>z. ScanAtFloor(digest', refresh', g, 0)
  BY DEF ScanAtFloor
<1>n. /\ ctx[g] \in Nat /\ content[g] \in Nat /\ \A b \in Builders : builder[b].scan[g] \in Nat
      /\ \A h \in DOMAIN refresh.fresh : refresh.fresh[h] \in Nat
  <2>1. \A s \in {NoScan} \cup Scan : s[g] \in Nat
    BY Versioned DEF NoScan, Scan, Versions
  <2> QED BY <2>1, <1>g, Numbers DEF TypeOK, BuilderState
<1>i. /\ ScanAtFloor(digest, refresh, g, ctx[g])
      /\ \A b \in Builders : ScanAtFloor(digest, refresh, g, builder[b].scan[g])
      /\ ScanAtFloor(digest, refresh, g, content[g])
  BY <1>g DEF ScansAtFloor, BytesAtFloor, AtFloor, ScanAtFloor
<1>1. CASE Restart
  BY <1>1, <1>z, ScanStep
<1>2. CASE RefreshForget
  <2>1. ~Restart /\ ctx'[g] = 0 /\ builder' = builder
    <3>1. refresh'.pc = "prune"
      BY <1>2 DEF RefreshForget, TypeOK, RefreshState
    <3>2. Restart => refresh'.pc = "idle"
      BY DEF Restart, IdleRefresh
    <3> QED BY <1>2, <3>1, <3>2, ScanStep
  <2>2. ASSUME NEW b \in Builders PROVE ScanAtFloor(digest', refresh', g, builder'[b].scan[g])
    <3> DEFINE v == builder[b].scan[g]
               w == Recorded(refresh.fresh)[g]
    <3>1. v \in Nat /\ w \in Nat
      BY <1>n, <1>g DEF Recorded
    <3>2. g \notin HeldOlder(Hashes, Recorded(refresh.fresh))
      BY <1>2 DEF RefreshForget
    <3>3. v \notin 1..(w - 1)
      BY <3>2, <1>g DEF HeldOlder
    <3> HIDE DEF v, w
    <3>4. v # 0 => v >= w
      BY <3>1, <3>3
    <3>5. ScanAtFloor(digest', refresh', g, v)
      BY <2>1, <3>1, <3>4, <1>i, ScanKept DEF v, w
    <3> QED BY <3>5, <2>1 DEF v
  <2> QED BY <2>1, <2>2, <1>z
<1>3. CASE ~Restart /\ ~RefreshForget
  <2>1. \A v \in Nat : ScanAtFloor(digest, refresh, g, v) => ScanAtFloor(digest', refresh', g, v)
    BY <1>3, ScanKept
  <2> QED BY <2>1, <1>i, <1>n, <1>z, ScanStep
<1> QED BY <1>1, <1>2, <1>3

--------------------------------------------------------------------------------
(* Conversions *)

\* A conversion was there before, and the refresh does not prune it, or a thread finished it.
LEMMA ConversionStep ==
  ASSUME TypeOK, [Next]_vars, NEW h \in DOMAIN conv'
  PROVE  \/ h \in DOMAIN conv /\ conv'[h] = conv[h]
            /\ (RefreshPrune => h \notin Stale(refresh.fresh, refresh.changed))
         \/ \E b \in Builders :
              /\ FinishBuild(b) /\ DOMAIN builder[b].bytes = Inputs(h)
              /\ conv'[h].bytes = builder[b].bytes
<1> DEFINE Kept == h \in DOMAIN conv /\ conv'[h] = conv[h]
                   /\ (RefreshPrune => h \notin Stale(refresh.fresh, refresh.changed))
<1>1. ASSUME NEW b \in Builders, FinishBuild(b)
      PROVE Kept \/ (DOMAIN builder[b].bytes = Inputs(h) /\ conv'[h].bytes = builder[b].bytes)
  <2>1. ~RefreshPrune
    BY <1>1 DEF FinishBuild, RefreshPrune, TypeOK, RefreshState
  <2>2. CASE conv' = conv
    <3>1. h \in DOMAIN conv /\ conv'[h] = conv[h]
      BY <2>2
    <3> QED BY <2>1, <3>1
  <2>3. CASE conv' # conv
    <3>1. /\ DOMAIN builder[b].bytes = Inputs(builder[b].job)
          /\ conv' = Put(conv, builder[b].job, [bytes |-> builder[b].bytes, scan |-> builder[b].scan])
      BY <1>1, <2>3 DEF FinishBuild
    <3>2. \/ h \in DOMAIN conv /\ conv'[h] = conv[h]
          \/ DOMAIN builder[b].bytes = Inputs(h) /\ conv'[h].bytes = builder[b].bytes
      BY <3>1 DEF Put
    <3> QED BY <2>1, <3>2
  <2> QED BY <2>2, <2>3
<1>2. ASSUME RefreshPrune PROVE Kept
  BY <1>2 DEF RefreshPrune, Restrict
<1>3. ASSUME Evict PROVE Kept
  <2>1. ~RefreshPrune
    BY <1>3 DEF Evict, RefreshPrune, TypeOK, RefreshState
  <2>2. conv' = conv
    BY <1>3, HeldEmpty DEF Evict
  <2> QED BY <2>1, <2>2
<1>4. ASSUME UNCHANGED conv, ~RefreshPrune PROVE Kept
  BY <1>4
<1>5. UNCHANGED conv \/ RefreshPrune \/ Evict \/ \E b \in Builders : FinishBuild(b)
  BY DEF Next, vars, disk, Revalidate, Answered, CancelRequest, RefreshUnheard, DebounceExpires,
     Refresher, RefreshFetch, RefreshSkip, RefreshError, RefreshStore, RefreshRecord, RefreshForget,
     Builder, StartBuild, UseCtx, ScanEntity, InsertCtx, ReadInput, FetchContent, StoreContent,
     RemoteChanges, EvictDigests, Restart
<1> QED BY <1>1, <1>2, <1>3, <1>4, <1>5

\* What the new digests say of a conversion that is not to be pruned, the old ones said.
LEMMA RecordSettles ==
  ASSUME TypeOK, FreshIsNewer, RefreshRecord,
         NEW h \in Hashes, h \in DOMAIN refresh.fresh, h \notin Stale(refresh.fresh, refresh.changed),
         NEW i \in Inputs(h), i \in DOMAIN refresh.fresh
  PROVE  /\ h \in DOMAIN refresh.old /\ refresh.old[h] # 0
         /\ refresh.old[i] = refresh.fresh[i]
<1>1. DOMAIN refresh.old = Hashes
  BY DEF TypeOK, RefreshRecord
<1>2. h \notin refresh.changed
  BY DEF Stale
<1>3. i \notin refresh.changed
  <2>1. CASE i = h
    BY <2>1, <1>2
  <2>2. CASE i # h
    <3>1. h \in Glbs /\ i \in Deps
      BY <2>2 DEF Inputs
    <3>2. refresh.changed \subseteq Glbs
      BY <3>1 DEF Stale
    <3> QED BY <3>1, <3>2, RevalidateAssumption
  <2> QED BY <2>1, <2>2
<1>4. refresh.fresh[h] # 0
  BY Numbers
<1> QED BY <1>1, <1>2, <1>3, <1>4, Numbers DEF FreshIsNewer

LEMMA ConversionsNext ==
  ASSUME TypeOK, SingleRefresh, RemoteAtFloor, FreshIsNewer, BytesAtFloor, ConversionsKnown, [Next]_vars
  PROVE  ConversionsKnown'
<1> SUFFICES ASSUME NEW h \in DOMAIN conv', NEW i \in Inputs(h) \ suspect'
             PROVE  /\ h \in DOMAIN refresh'.old /\ refresh'.old[h] # 0 =>
                         conv'[h].bytes[i] >= refresh'.old[i]
                    /\ Settled(h)' /\ digest'[h] # 0 => conv'[h].bytes[i] >= digest'[i]
  BY DEF ConversionsKnown, Settled, Inputs
<1>r. refresh \in RefreshState
  BY DEF TypeOK
<1>i. i \notin suspect
  BY SuspectsStay
<1>1. ASSUME NEW b \in Builders, FinishBuild(b), DOMAIN builder[b].bytes = Inputs(h),
             conv'[h].bytes = builder[b].bytes
      PROVE  /\ h \in DOMAIN refresh'.old => conv'[h].bytes[i] >= refresh'.old[i]
             /\ conv'[h].bytes[i] >= digest'[i]
  <2>1. refresh' = refresh /\ digest' = digest /\ builder[b].pc # "idle"
    BY <1>1 DEF FinishBuild
  <2>2. i \in Hashes
    BY <1>1, HeldNumbers
  <2>3. AtFloor(digest, refresh, i, builder[b].bytes[i])
    BY <1>1, <1>i, <2>1, <2>2 DEF BytesAtFloor
  <2>4. h \in DOMAIN refresh.old => i \in DOMAIN refresh.old
    <3>1. DOMAIN refresh.old \in {{}, Hashes}
      BY <1>r, HeldEmpty DEF RefreshState
    <3> QED BY <3>1, <2>2
  <2> QED BY <1>1, <2>1, <2>3, <2>4 DEF AtFloor
<1>2. ASSUME h \in DOMAIN conv, conv'[h] = conv[h],
             RefreshPrune => h \notin Stale(refresh.fresh, refresh.changed)
      PROVE  /\ h \in DOMAIN refresh'.old /\ refresh'.old[h] # 0 =>
                  conv'[h].bytes[i] >= refresh'.old[i]
             /\ Settled(h)' /\ digest'[h] # 0 => conv'[h].bytes[i] >= digest'[i]
  <2> DEFINE v == conv[h].bytes[i]
  <2>v. v \in Nat
    <3>1. conv[h].bytes \in Held /\ DOMAIN conv[h].bytes = Inputs(h)
      BY <1>2 DEF TypeOK, Conversion
    <3>2. conv[h].bytes[i] \in Versions
      BY <3>1, HeldElim
    <3> QED BY <3>2 DEF Versions
  <2>h. h \in Hashes /\ i \in Hashes
    BY <1>2 DEF TypeOK, Inputs, Hashes
  <2>o. h \in DOMAIN refresh.old /\ refresh.old[h] # 0 => v >= refresh.old[i]
    BY <1>2, <1>i DEF ConversionsKnown
  <2>d. Settled(h) /\ digest[h] # 0 => v >= digest[i]
    BY <1>2, <1>i DEF ConversionsKnown
  <2> SUFFICES /\ h \in DOMAIN refresh'.old /\ refresh'.old[h] # 0 => v >= refresh'.old[i]
               /\ Settled(h)' /\ digest'[h] # 0 => v >= digest'[i]
    BY <1>2
  <2> HIDE DEF v
  <2>1. CASE Elsewhere
    BY <2>1, <2>o, <2>d, <2>v, <2>h DEF Elsewhere, Settled
  <2>2. CASE RefreshStore
    BY <2>2, <1>r, <2>o, <2>d, StoreStep DEF RefreshStore, Settled, RefreshState
  <2>3. CASE RefreshRecord
    <3>1. /\ refresh.pc = "fetch" /\ DOMAIN refresh'.old = {} /\ refresh'.fresh = refresh.fresh
          /\ refresh'.changed = refresh.changed
          /\ refresh'.pc = IF refresh.changed = {} THEN "done" ELSE "forget"
      BY <2>3, <1>r, HeldEmpty DEF RefreshRecord, RefreshState
    <3>2. CASE digest' = digest
      BY <3>1, <3>2, <2>d DEF Settled
    <3>3. CASE digest' = Recorded(refresh.fresh)
      <4> SUFFICES ASSUME Settled(h)', digest'[h] # 0 PROVE v >= digest'[i]
        BY <3>1
      <4>1. h \in DOMAIN refresh.fresh
        BY <3>3, <2>h DEF Recorded
      <4>2. h \notin Stale(refresh.fresh, refresh.changed)
        BY <3>1 DEF Settled, Stale
      <4>3. CASE i \in DOMAIN refresh.fresh
        <5>1. v >= refresh.old[i] /\ refresh.old[i] = refresh.fresh[i]
          BY <2>3, <2>h, <2>o, <4>1, <4>2, <4>3, RecordSettles
        <5> QED BY <5>1, <3>3, <4>3, <2>h DEF Recorded
      <4>4. CASE i \notin DOMAIN refresh.fresh
        BY <3>3, <4>4, <2>h, <2>v DEF Recorded
      <4> QED BY <4>3, <4>4
    <3> QED BY <2>3, <3>2, <3>3 DEF RefreshRecord
  <2>4. CASE RefreshForget
    BY <2>4, <1>r, <2>o, <2>d DEF RefreshForget, disk, Settled, RefreshState
  <2>5. CASE RefreshPrune
    BY <2>5, <1>2, <1>r, <2>o, <2>d DEF RefreshPrune, Settled, RefreshState
  <2>6. CASE Restart
    <3>1. digest' = digest /\ DOMAIN refresh'.old = {}
      BY <2>6, HeldEmpty DEF Restart, disk, IdleRefresh
    <3>2. Settled(h)
      <4> SUFFICES ASSUME refresh.pc \in {"forget", "prune"}, h \in Stale(refresh.fresh, refresh.changed)
                   PROVE  FALSE
        BY DEF Settled
      <4>1. Inputs(h) \subseteq suspect'
        BY <2>6 DEF Restart
      <4> QED BY <4>1
    <3> QED BY <3>1, <3>2, <2>d
  <2>7. CASE Revalidate /\ refresh.pc = "idle"
    <3>1. digest' = digest /\ refresh'.old = digest /\ Settled(h)
      BY <2>7 DEF Revalidate, disk, IdleRefresh, Settled
    <3> QED BY <3>1, <2>d
  <2>8. CASE /\ digest' = digest /\ refresh.pc \in {"fetch", "store", "done"}
             /\ refresh'.pc \notin {"forget", "prune"}
             /\ refresh'.old = refresh.old \/ refresh'.old = <<>>
    BY <2>8, <2>o, <2>d, HeldEmpty DEF Settled
  <2> QED BY <2>1, <2>2, <2>3, <2>4, <2>5, <2>6, <2>7, <2>8, RefreshSteps
<1> QED BY <1>1, <1>2, ConversionStep

--------------------------------------------------------------------------------
(* The theorems *)

LEMMA StepIInv == IInv /\ [Next]_vars => IInv'
BY TypeNext, SingleNext, RemoteNext, FreshNext, BytesNext, ScansNext, ConversionsNext DEF IInv

LEMMA InitIInv == Init => IInv
<1> SUFFICES ASSUME Init PROVE IInv
  OBVIOUS
<1>1. TypeOK
  BY TypeInit
<1>2. /\ refresh = IdleRefresh /\ refresh.pc = "idle" /\ DOMAIN refresh.old = {}
      /\ DOMAIN refresh.fresh = {} /\ DOMAIN conv = {}
  BY HeldEmpty DEF Init, IdleRefresh
<1>3. \A h \in Hashes : remote[h] = 1 /\ content[h] = 0 /\ digest[h] = 0 /\ fetching[h] = 0
  BY DEF Init
<1>4. \A b \in Builders : builder[b].pc = "idle" /\ builder[b].scan = NoScan
  BY DEF Init, IdleBuilder
<1>5. RemoteAtFloor /\ FreshIsNewer /\ ConversionsKnown /\ SingleRefresh
  BY <1>2, <1>3 DEF RemoteAtFloor, FreshIsNewer, ConversionsKnown, AtFloor, SingleRefresh
<1>6. BytesAtFloor
  BY <1>3, <1>4 DEF BytesAtFloor
<1>7. ScansAtFloor
  BY <1>2, <1>4 DEF Init, ScansAtFloor, ScanAtFloor, NoScan
<1> QED BY <1>1, <1>5, <1>6, <1>7 DEF IInv

\* The strengthened invariant holds of every behaviour of the refresh, its requests and the
\* threads it races with (revalidate_if_stale, refresh_entity_content).
THEOREM Inductive == Spec => []IInv
<1>1. Init => IInv
  BY InitIInv
<1>2. IInv /\ [Next]_vars => IInv'
  BY StepIInv
<1> QED BY <1>1, <1>2, PTL DEF Spec

\* Every variable keeps its type: a refresh that was interrupted names only hashes of the
\* entity, and the new digests leave out what is still to be fetched
\* (refresh_entity_content).
THEOREM TypeCorrect == Spec => []TypeOK
<1>1. IInv => TypeOK
  BY DEF IInv
<1> QED BY <1>1, Inductive, PTL

\* No conversion that is older than a recorded digest is forgotten: its own digest is gone,
\* and the next refresh prunes it (prune_stale_bundles), unless a thread held the old bytes
\* while they were replaced or the server stopped before pruning.
THEOREM StaleConversionsRemembered == Spec => []StaleIsRemembered
<1>1. IInv => StaleIsRemembered
  BY DEF IInv, StaleIsRemembered, ConversionsKnown, Settled
<1> QED BY <1>1, Inductive, PTL

\* The stored content and the context in memory are never behind the recorded digests, with
\* the same exceptions (ensure_content, entity_ctx).
THEOREM SourcesKeepUp == Spec => []SourcesNotBehind
<1>1. IInv => SourcesNotBehind
  BY Numbers DEF IInv, SourcesNotBehind, BytesAtFloor, ScansAtFloor, AtFloor, ScanAtFloor
<1> QED BY <1>1, Inductive, PTL
================================================================================
