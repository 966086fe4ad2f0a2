--------------------------- MODULE CorpusBuildProofs ---------------------------
(***************************************************************************)
(* Proofs about CorpusBuild, for any items, names, threads, bounds of the  *)
(* channel and of the retries, and any number of attempts.                 *)
(***************************************************************************)
EXTENDS CorpusBuild, SequenceTheorems, TLAPS

\* A thread works on an item only while the attempt builds, and only what is in the corpus
\* directory has been found there.
ThreadsBuild ==
  \A c \in Converters :
    /\ step[c] # "idle" => phase = "build" /\ item[c] \in Items
    /\ existed[c] => step[c] # "idle" /\ Bundle[item[c]] \in corpus

\* The leftover is what was there; before the first thread starts there is nothing else.
LeftoverStays ==
  /\ leftover \subseteq corpus
  /\ phase = "probe" => corpus \subseteq leftover

\* The upload of b is still to be queued, is queued, under way, or reported as failed.
Pending(b) ==
  \/ \E c \in Converters : step[c] = "enqueue" /\ ~existed[c] /\ Bundle[item[c]] = b
  \/ \E n \in 1..Len(queue) : queue[n] = b
  \/ \E u \in Uploaders : job[u] = b
  \/ b \in failed

\* While it builds and drains the attempt forgets none of the bundles it has made or lists.
NothingForgotten ==
  phase \in {"build", "drain"} =>
    \A b \in corpus \cup Names(built) : b \in space \cup leftover \/ Pending(b)

\* What is about to be published is what the gate has let through.
ManifestIsBuilt == phase = "publish" => manifest = Names(built)

IInv ==
  /\ TypeOK
  /\ ThreadsBuild
  /\ LeftoverStays
  /\ NothingForgotten
  /\ ManifestIsBuilt
  /\ ManifestHonest

--------------------------------------------------------------------------------
LEMMA ResetType ==
  ASSUME Reset
  PROVE
    /\ phase' \in Phases
    /\ todo' \subseteq Items /\ built' \subseteq Items /\ bad' \subseteq Items
    /\ item' \in [Converters -> Items \cup {None}] /\ step' \in [Converters -> Steps]
    /\ existed' \in [Converters -> BOOLEAN] /\ hardErr' \in BOOLEAN
    /\ queue' \in Seq(Bundles) /\ Len(queue') <= QueueCap
    /\ job' \in [Uploaders -> Bundles \cup {None}] /\ tries' \in [Uploaders -> 0..UPLOAD_RETRIES]
    /\ failed' \subseteq Bundles
<1>1. queue' \in Seq(Bundles) /\ Len(queue') <= QueueCap
  BY BoundsAssumption DEF Reset
<1>2. tries' \in [Uploaders -> 0..UPLOAD_RETRIES]
  BY BoundsAssumption DEF Reset
<1>3. /\ item' \in [Converters -> Items \cup {None}]
      /\ step' \in [Converters -> Steps]
      /\ job' \in [Uploaders -> Bundles \cup {None}]
      /\ existed' \in [Converters -> BOOLEAN]
  BY DEF Reset, Nobody, Idle, Steps
<1> QED BY <1>1, <1>2, <1>3 DEF Reset, Phases

LEMMA ConverterType ==
  ASSUME TypeOK, ThreadsBuild, NEW c \in Converters, Converter(c)
  PROVE TypeOK'
<1> USE NamesAssumption, BoundsAssumption
<1> USE DEF TypeOK, Phases, Steps, Goto, Done, pool, stores
<1>i. step[c] # "idle" => item[c] \in Items /\ Bundle[item[c]] \in Bundles
  BY DEF ThreadsBuild
<1>1. CASE Take(c) BY <1>1 DEF Take
<1>2. CASE Look(c) BY <1>2, <1>i DEF Look
<1>3. CASE BundleOk(c)
  <2>1. corpus' \subseteq Bundles
    BY <1>3, <1>i DEF BundleOk
  <2>2. step' \in [Converters -> Steps]
    BY <1>3 DEF BundleOk
  <2> QED BY <1>3, <2>1, <2>2 DEF BundleOk
<1>4. CASE BundleFails(c) BY <1>4, <1>i DEF BundleFails
<1>5. CASE HardError(c) BY <1>5 DEF HardError
<1>6. CASE Enqueue(c)
  <2>1. queue' \in Seq(Bundles) /\ Len(queue') <= QueueCap
    <3>1. CASE existed[c]
      BY <1>6, <3>1 DEF Enqueue
    <3>2. CASE ~existed[c]
      <4>1. queue' = Append(queue, Bundle[item[c]]) /\ Len(queue) < QueueCap
        BY <1>6, <3>2 DEF Enqueue
      <4>2. Bundle[item[c]] \in Bundles
        BY <1>6, <1>i DEF Enqueue
      <4> QED BY <4>1, <4>2
    <3> QED BY <3>1, <3>2
  <2>2. built' \subseteq Items /\ bad' \subseteq Items
    BY <1>6, <1>i DEF Enqueue
  <2>3. /\ item' \in [Converters -> Items \cup {None}]
        /\ existed' \in [Converters -> BOOLEAN]
        /\ step' \in [Converters -> Steps]
    BY <1>6 DEF Enqueue
  <2> QED BY <1>6, <2>1, <2>2, <2>3 DEF Enqueue
<1> QED BY <1>1, <1>2, <1>3, <1>4, <1>5, <1>6 DEF Converter

LEMMA UploaderType ==
  ASSUME TypeOK, NEW u \in Uploaders, Uploader(u)
  PROVE TypeOK'
<1> USE BoundsAssumption, NamesAssumption DEF TypeOK, attempt, stores
<1>1. CASE Receive(u)
  <2>1. Head(queue) \in Bundles /\ Tail(queue) \in Seq(Bundles) /\ Len(Tail(queue)) <= QueueCap
    BY <1>1 DEF Receive
  <2> QED BY <1>1, <2>1 DEF Receive
<1>2. CASE ReadFails(u) BY <1>2 DEF ReadFails, Finish
<1>3. CASE PutOk(u) BY <1>3 DEF PutOk, Finish
<1>4. CASE PutFails(u)
  <2>1. space' \subseteq Bundles
    BY <1>4 DEF PutFails
  <2>2. CASE tries[u] + 1 < UPLOAD_RETRIES
    <3>1. tries' = [tries EXCEPT ![u] = tries[u] + 1] /\ tries[u] + 1 \in 0..UPLOAD_RETRIES
      BY <1>4, <2>2 DEF PutFails
    <3> QED BY <1>4, <2>1, <2>2, <3>1 DEF PutFails
  <2>3. CASE ~(tries[u] + 1 < UPLOAD_RETRIES)
    <3>1. job[u] \in Bundles /\ failed' = failed \cup {job[u]} /\ Finish(u)
      BY <1>4, <2>3 DEF PutFails
    <3> QED BY <2>1, <3>1 DEF Finish
  <2> QED BY <2>2, <2>3
<1> QED BY <1>1, <1>2, <1>3, <1>4 DEF Uploader

LEMMA OrphansType ==
  ASSUME TypeOK
  PROVE orphans \cup ToSet(queue) \cup (Range(job) \ {None}) \subseteq Bundles
<1>1. ToSet(queue) \subseteq Bundles
  BY DEF TypeOK, ToSet
<1>2. Range(job) \subseteq Bundles \cup {None}
  BY DEF TypeOK, Range
<1> QED BY <1>1, <1>2 DEF TypeOK

LEMMA AttemptType ==
  ASSUME TypeOK, Start \/ Attempt \/ Crash
  PROVE TypeOK'
<1> USE BoundsAssumption, NamesAssumption
<1>1. CASE Start
  BY <1>1 DEF Start, TypeOK, Phases, pool, stores
<1>2. CASE Probe
  BY <1>2 DEF Probe, TypeOK, Phases, pool, stores
<1>3. CASE Join
  <2>1. CASE hardErr
    BY <1>3, <2>1, ResetType, OrphansType DEF Join, TypeOK, stores
  <2>2. CASE ~hardErr
    BY <1>3, <2>2 DEF Join, TypeOK, Phases, attempt, pool, stores
  <2> QED BY <2>1, <2>2
<1>4. CASE Drain
  <2>1. CASE failed = {}
    BY <1>4, <2>1 DEF Drain, TypeOK, Phases, attempt, pool, stores
  <2>2. CASE failed # {}
    BY <1>4, <2>2, ResetType DEF Drain, TypeOK, stores
  <2> QED BY <2>1, <2>2
<1>5. CASE WriteManifest
  <2>1. CASE Reset
    <3>1. Names(built) \subseteq Bundles
      BY DEF Names, TypeOK
    <3> QED BY <1>5, <2>1, <3>1, ResetType DEF WriteManifest, TypeOK
  <2>2. CASE manifest' = Names(built) /\ phase' = "publish" /\ UNCHANGED <<attempt, pool>>
    <3>1. Names(built) \subseteq Bundles
      BY DEF Names, TypeOK
    <3> QED BY <1>5, <2>2, <3>1 DEF WriteManifest, TypeOK, Phases, attempt, pool
  <2> QED BY <1>5, <2>1, <2>2 DEF WriteManifest
<1>6. CASE PublishManifest
  BY <1>6, ResetType DEF PublishManifest, TypeOK
<1>7. CASE Crash
  BY <1>7, ResetType DEF Crash, TypeOK, stores
<1> QED BY <1>1, <1>2, <1>3, <1>4, <1>5, <1>6, <1>7 DEF Attempt

LEMMA TypeStep ==
  ASSUME TypeOK, ThreadsBuild, [Next]_vars
  PROVE TypeOK'
<1>1. ASSUME NEW b \in Bundles, OrphanEnds(b) PROVE TypeOK'
  BY <1>1 DEF OrphanEnds, TypeOK, attempt, pool
<1>2. ASSUME NEW b \in Bundles, OtherEntityPuts(b) PROVE TypeOK'
  BY <1>2 DEF OtherEntityPuts, TypeOK, attempt, pool
<1>3. CASE UNCHANGED vars
  BY <1>3 DEF vars, attempt, pool, stores, TypeOK
<1> QED BY <1>1, <1>2, <1>3, AttemptType, ConverterType, UploaderType DEF Next

--------------------------------------------------------------------------------
LEMMA InitIInv == Init => IInv
<1> SUFFICES ASSUME Init PROVE IInv
  OBVIOUS
<1>1. TypeOK
  <2>1. queue \in Seq(Bundles) /\ Len(queue) <= QueueCap
    BY BoundsAssumption DEF Init
  <2>2. tries \in [Uploaders -> 0..UPLOAD_RETRIES] /\ attempts \in 0..MaxAttempts
    BY BoundsAssumption DEF Init
  <2> QED BY <2>1, <2>2 DEF Init, TypeOK, Phases, Steps, Idle, Nobody
<1>2. ThreadsBuild BY DEF Init, ThreadsBuild, Idle
<1> QED BY <1>1, <1>2
        DEF Init, IInv, LeftoverStays, NothingForgotten, ManifestIsBuilt, ManifestHonest

\* After a reset there is no thread and nothing to watch over.
LEMMA ResetKeeps ==
  ASSUME IInv, Reset, corpus' = corpus, leftover' = leftover,
         advertised' \subseteq space' \cup leftover'
  PROVE ThreadsBuild' /\ LeftoverStays' /\ NothingForgotten' /\ ManifestIsBuilt' /\ ManifestHonest'
BY DEF IInv, Reset, Idle, ThreadsBuild, LeftoverStays, NothingForgotten, ManifestIsBuilt, ManifestHonest

LEMMA ConverterKeeps ==
  ASSUME IInv, TypeOK', NEW c \in Converters, Converter(c)
  PROVE IInv'
<1> USE DEF IInv
<1>p. phase = "build" /\ phase' = "build"
  BY DEF Converter, Take, Look, BundleOk, BundleFails, HardError, Enqueue, ThreadsBuild
<1>s. space' = space /\ leftover' = leftover /\ advertised' = advertised /\ failed' = failed
      /\ job' = job /\ corpus \subseteq corpus'
  BY DEF Converter, Take, Look, BundleOk, BundleFails, HardError, Enqueue, stores, pool
<1>m. LeftoverStays' /\ ManifestIsBuilt' /\ ManifestHonest'
  BY <1>p, <1>s DEF LeftoverStays, ManifestIsBuilt, ManifestHonest
<1>1. ASSUME Take(c) PROVE ThreadsBuild' /\ NothingForgotten'
  <2>1. ThreadsBuild'
    BY <1>1 DEF Take, Goto, ThreadsBuild, TypeOK, stores
  <2>2. \A b : Pending(b) => Pending(b)'
    BY <1>1 DEF Take, Goto, Pending, TypeOK, pool
  <2> QED BY <1>1, <1>p, <2>1, <2>2 DEF Take, NothingForgotten, Names, stores
<1>2. ASSUME Look(c) PROVE ThreadsBuild' /\ NothingForgotten'
  <2>1. ThreadsBuild'
    BY <1>2 DEF Look, Goto, ThreadsBuild, TypeOK, stores
  <2>2. \A b : Pending(b) => Pending(b)'
    BY <1>2 DEF Look, Goto, Pending, TypeOK, pool
  <2> QED BY <1>2, <1>p, <2>1, <2>2 DEF Look, NothingForgotten, Names, stores
<1>3. ASSUME BundleOk(c) PROVE ThreadsBuild' /\ NothingForgotten'
  <2>1. ThreadsBuild'
    BY <1>3 DEF BundleOk, Goto, ThreadsBuild, TypeOK
  <2>2. \A b : Pending(b) => Pending(b)'
    BY <1>3 DEF BundleOk, Goto, Pending, TypeOK, pool
  <2>3. existed[c] => Bundle[item[c]] \in corpus
    BY DEF ThreadsBuild
  <2>4. \A b : ~existed[c] /\ b = Bundle[item[c]] => Pending(b)'
    BY <1>3 DEF BundleOk, Goto, Pending, TypeOK
  <2>5. corpus' \subseteq corpus \cup {Bundle[item[c]]} /\ built' = built
    BY <1>3 DEF BundleOk
  <2> QED BY <1>p, <1>s, <2>1, <2>2, <2>3, <2>4, <2>5 DEF NothingForgotten, Names
<1>4. ASSUME BundleFails(c) \/ HardError(c) PROVE ThreadsBuild' /\ NothingForgotten'
  <2>1. ThreadsBuild'
    BY <1>4 DEF BundleFails, HardError, Done, Goto, ThreadsBuild, TypeOK, stores
  <2>2. \A b : Pending(b) => Pending(b)'
    BY <1>4 DEF BundleFails, HardError, Done, Goto, Pending, TypeOK, pool
  <2>3. corpus' = corpus /\ built' = built
    BY <1>4 DEF BundleFails, HardError, stores
  <2> QED BY <1>p, <1>s, <2>1, <2>2, <2>3 DEF NothingForgotten, Names
<1>5. ASSUME Enqueue(c) PROVE ThreadsBuild' /\ NothingForgotten'
  <2> DEFINE bundle == Bundle[item[c]]
  <2>1. ThreadsBuild'
    BY <1>5 DEF Enqueue, Done, Goto, ThreadsBuild, TypeOK, stores
  <2>2. bundle \in Bundles
    BY <1>5, NamesAssumption DEF Enqueue, ThreadsBuild
  <2>3. \A n \in 1..Len(queue) : n \in 1..Len(queue') /\ queue'[n] = queue[n]
    <3>1. CASE queue' = queue
      BY <3>1
    <3>2. CASE queue' = Append(queue, bundle)
      BY <2>2, <3>2 DEF TypeOK
    <3> QED BY <1>5, <3>1, <3>2 DEF Enqueue
  <2>4. ~existed[c] => \E n \in 1..Len(queue') : queue'[n] = bundle
    <3> SUFFICES ASSUME ~existed[c] PROVE \E n \in 1..Len(queue') : queue'[n] = bundle
      OBVIOUS
    <3>1. queue' = Append(queue, bundle)
      BY <1>5 DEF Enqueue
    <3>2. Len(queue') = Len(queue) + 1 /\ queue'[Len(queue) + 1] = bundle
      BY <2>2, <3>1 DEF TypeOK
    <3>3. Len(queue) \in Nat
      BY DEF TypeOK
    <3> QED BY <3>2, <3>3
  <2>5. \A d \in Converters \ {c} : step'[d] = step[d] /\ existed'[d] = existed[d] /\ item'[d] = item[d]
    BY <1>5 DEF Enqueue, Done, Goto, TypeOK
  <2>6. \A b : Pending(b) => Pending(b)'
    BY <1>s, <2>3, <2>4, <2>5 DEF Pending
  <2>7. \A b : ~existed[c] /\ b = bundle => Pending(b)'
    BY <2>4 DEF Pending
  <2>8. existed[c] => bundle \in corpus
    BY DEF ThreadsBuild
  <2>9. Names(built') \subseteq Names(built) \cup {bundle} /\ corpus' = corpus
    BY <1>5 DEF Enqueue, Names, stores
  <2> QED BY <1>p, <1>s, <2>1, <2>6, <2>7, <2>8, <2>9 DEF NothingForgotten, Names
<1> QED BY <1>m, <1>1, <1>2, <1>3, <1>4, <1>5 DEF Converter

LEMMA UploaderKeeps ==
  ASSUME IInv, TypeOK', NEW u \in Uploaders, Uploader(u)
  PROVE IInv'
<1> USE DEF IInv
<1>s. /\ UNCHANGED <<phase, attempt, corpus, manifest, advertised, leftover>>
      /\ space \subseteq space'
  BY DEF Uploader, Receive, ReadFails, PutOk, PutFails, Finish, stores
<1>m. ThreadsBuild' /\ LeftoverStays' /\ ManifestIsBuilt' /\ ManifestHonest'
  BY <1>s DEF ThreadsBuild, LeftoverStays, ManifestIsBuilt, ManifestHonest, attempt, Names
<1>f. failed \subseteq failed'
  BY DEF Uploader, Receive, ReadFails, PutOk, PutFails, Finish, attempt
<1>1. \A b \in Bundles : Pending(b) => Pending(b)' \/ b \in space'
  <2> SUFFICES ASSUME NEW b \in Bundles, Pending(b) PROVE Pending(b)' \/ b \in space'
    OBVIOUS
  <2>1. CASE \E c \in Converters : step[c] = "enqueue" /\ ~existed[c] /\ Bundle[item[c]] = b
    BY <1>s, <2>1 DEF Pending, attempt
  <2>2. CASE b \in failed
    BY <1>f, <2>2 DEF Pending
  <2>3. ASSUME NEW n \in 1..Len(queue), queue[n] = b PROVE Pending(b)'
    <3>1. CASE Receive(u)
      <4>1. CASE n = 1
        BY <2>3, <3>1, <4>1 DEF Receive, Pending, TypeOK
      <4>2. CASE n # 1
        <5>1. n - 1 \in 1..Len(queue') /\ queue'[n - 1] = queue[n]
          BY <3>1, <4>2 DEF Receive, TypeOK
        <5> QED BY <2>3, <5>1 DEF Pending
      <4> QED BY <4>1, <4>2
    <3>2. CASE ~Receive(u)
      <4>1. queue' = queue
        BY <3>2 DEF Uploader, ReadFails, PutOk, PutFails, Finish
      <4> QED BY <2>3, <4>1 DEF Pending
    <3> QED BY <3>1, <3>2
  <2>4. ASSUME NEW w \in Uploaders, job[w] = b PROVE Pending(b)' \/ b \in space'
    <3>1. CASE w # u
      <4>1. job'[w] = job[w]
        BY <3>1 DEF Uploader, Receive, ReadFails, PutOk, PutFails, Finish, TypeOK
      <4> QED BY <2>4, <4>1 DEF Pending
    <3>2. CASE w = u
      <4>1. CASE Receive(u)
        BY <2>4, <3>2, <4>1, NamesAssumption DEF Receive
      <4>2. CASE ReadFails(u)
        BY <2>4, <3>2, <4>2 DEF ReadFails, Pending
      <4>3. CASE PutOk(u)
        BY <2>4, <3>2, <4>3 DEF PutOk
      <4>4. CASE PutFails(u)
        BY <2>4, <3>2, <4>4 DEF PutFails, Pending
      <4> QED BY <4>1, <4>2, <4>3, <4>4 DEF Uploader
    <3> QED BY <3>1, <3>2
  <2> QED BY <2>1, <2>2, <2>3, <2>4 DEF Pending
<1>2. corpus \cup Names(built) \subseteq Bundles
  BY NamesAssumption DEF TypeOK, Names
<1>3. NothingForgotten'
  BY <1>s, <1>1, <1>2 DEF NothingForgotten, Names, attempt
<1> QED BY <1>m, <1>3

LEMMA AttemptKeeps ==
  ASSUME IInv, TypeOK', Start \/ Attempt \/ Crash
  PROVE IInv'
<1> USE DEF IInv
<1>1. CASE Start
  <2>1. step' = step /\ existed' = existed /\ phase = "idle" /\ phase' = "probe"
    BY <1>1 DEF Start
  <2>2. ThreadsBuild'
    BY <2>1 DEF ThreadsBuild
  <2> QED BY <1>1, <2>2
          DEF Start, LeftoverStays, NothingForgotten, ManifestIsBuilt, ManifestHonest, stores
<1>2. CASE Probe
  <2>1. phase = "probe" /\ phase' = "build" /\ UNCHANGED <<step, existed, pool, stores, leftover>>
    BY <1>2 DEF Probe
  <2>2. ThreadsBuild'
    BY <2>1 DEF ThreadsBuild
  <2>3. Names(built') \subseteq space
    BY <1>2 DEF Probe, Names
  <2> QED BY <2>1, <2>2, <2>3
          DEF LeftoverStays, NothingForgotten, ManifestIsBuilt, ManifestHonest, stores, Names
<1>3. CASE Join
  <2>1. CASE hardErr
    BY <1>3, <2>1, ResetKeeps DEF Join, ManifestHonest, stores
  <2>2. CASE ~hardErr
    <3>1. /\ phase = "build" /\ phase' = "drain" /\ step = Idle
          /\ UNCHANGED <<attempt, pool, stores, leftover>>
      BY <1>3, <2>2 DEF Join
    <3>2. ThreadsBuild'
      BY <3>1 DEF ThreadsBuild, Idle, attempt, stores
    <3>3. \A b : Pending(b) => Pending(b)'
      BY <3>1 DEF Pending, attempt, pool
    <3> QED BY <3>1, <3>2, <3>3
            DEF LeftoverStays, NothingForgotten, ManifestIsBuilt, ManifestHonest, attempt, stores, Names
  <2> QED BY <2>1, <2>2
<1>4. CASE Drain
  <2>1. CASE failed = {}
    <3>1. /\ phase = "drain" /\ phase' = "write" /\ Drained
          /\ UNCHANGED <<attempt, pool, stores, leftover>>
      BY <1>4, <2>1 DEF Drain
    <3>2. ThreadsBuild'
      BY <3>1 DEF ThreadsBuild, attempt, stores
    <3>3. \A b \in Bundles : ~Pending(b)
      BY <2>1, <3>1, NamesAssumption DEF Drained, Nobody, Pending, ThreadsBuild
    <3>4. Names(built) \subseteq Bundles
      BY NamesAssumption DEF Names, TypeOK
    <3>5. Names(built) \subseteq space \cup leftover
      BY <3>1, <3>3, <3>4 DEF NothingForgotten
    <3> QED BY <3>1, <3>2, <3>5
            DEF LeftoverStays, NothingForgotten, ManifestIsBuilt, ManifestHonest, attempt, stores, Names
  <2>2. CASE failed # {}
    BY <1>4, <2>2, ResetKeeps DEF Drain, ManifestHonest, stores
  <2> QED BY <2>1, <2>2
<1>5. CASE WriteManifest
  <2>1. CASE Reset
    BY <1>5, <2>1, ResetKeeps DEF WriteManifest, ManifestHonest
  <2>2. CASE manifest' = Names(built) /\ phase' = "publish" /\ UNCHANGED <<attempt, pool>>
    <3>1. phase = "write" /\ UNCHANGED <<corpus, space, advertised, leftover>>
      BY <1>5 DEF WriteManifest
    <3>2. ThreadsBuild'
      BY <2>2, <3>1 DEF ThreadsBuild, attempt
    <3> QED BY <2>2, <3>1, <3>2
            DEF LeftoverStays, NothingForgotten, ManifestIsBuilt, ManifestHonest, attempt, Names
  <2> QED BY <1>5, <2>1, <2>2 DEF WriteManifest
<1>6. CASE PublishManifest
  <2>1. advertised' \subseteq space \cup leftover
    BY <1>6 DEF PublishManifest, ManifestIsBuilt, ManifestHonest
  <2> QED BY <1>6, <2>1, ResetKeeps DEF PublishManifest
<1>7. CASE Crash
  BY <1>7, ResetKeeps DEF Crash, ManifestHonest, stores
<1> QED BY <1>1, <1>2, <1>3, <1>4, <1>5, <1>6, <1>7 DEF Attempt

\* The object store only gains bundles, whoever puts them there.
LEMMA OthersKeep ==
  ASSUME IInv, TypeOK', NEW b \in Bundles, OrphanEnds(b) \/ OtherEntityPuts(b)
  PROVE IInv'
<1>1. /\ UNCHANGED <<phase, attempt, pool, corpus, manifest, advertised, leftover>>
      /\ space \subseteq space'
  BY DEF OrphanEnds, OtherEntityPuts
<1>2. \A x : Pending(x) => Pending(x)'
  BY <1>1 DEF Pending, attempt, pool
<1> QED BY <1>1, <1>2 DEF IInv, ThreadsBuild, LeftoverStays, NothingForgotten, ManifestIsBuilt,
                          ManifestHonest, attempt, Names

LEMMA StepIInv == IInv /\ [Next]_vars => IInv'
<1> SUFFICES ASSUME IInv, [Next]_vars PROVE IInv'
  OBVIOUS
<1>t. TypeOK'
  BY TypeStep DEF IInv
<1>1. CASE UNCHANGED vars
  <2>1. \A x : Pending(x) => Pending(x)'
    BY <1>1 DEF vars, Pending, attempt, pool
  <2> QED BY <1>t, <1>1, <2>1 DEF vars, IInv, ThreadsBuild, LeftoverStays, NothingForgotten,
                                 ManifestIsBuilt, ManifestHonest, attempt, stores, Names
<1> QED BY <1>t, <1>1, AttemptKeeps, ConverterKeeps, UploaderKeeps, OthersKeep DEF Next

--------------------------------------------------------------------------------
\* The strengthened invariant holds of every behaviour.
THEOREM Inductive == Spec => []IInv
<1>1. Init => IInv
  BY InitIInv
<1>2. IInv /\ [Next]_vars => IInv'
  BY StepIInv
<1> QED BY <1>1, <1>2, PTL DEF Spec

\* The attempt, the pool and the stores keep their types, and the channel its bound.
THEOREM TypeCorrect == Spec => []TypeOK
<1>1. IInv => TypeOK
  BY DEF IInv
<1> QED BY <1>1, Inductive, PTL

\* What the gate lets through, and what readers of the object store are told of, is in the
\* store or was left in the corpus directory by an earlier attempt, for any number of threads,
\* retries, crashes and attempts (build_entity_into_corpus, ensure_ok).
THEOREM GateHolds == Spec => []ManifestHonest
<1>1. IInv => ManifestHonest
  BY DEF IInv
<1> QED BY <1>1, Inductive, PTL

--------------------------------------------------------------------------------
\* Where an item is while the attempt goes on: untouched, with a thread, in the manifest or
\* among the bad ones, unless a hard error has put an end to the attempt.
ItemsPlaced ==
  /\ phase \in {"idle", "probe"} => built = {} /\ bad = {}
  /\ phase = "build" /\ ~hardErr =>
       \A i \in Items : i \in todo \cup built \cup bad \/ \E c \in Converters : item[c] = i
  /\ phase = "probe" => todo = Items
  /\ todo \cap (built \cup bad) = {}
  /\ \A c \in Converters : item[c] = None <=> step[c] = "idle"

Accounts == ItemsPlaced /\ EveryItemAccounted

LEMMA InitAccounts == Init => Accounts
BY DEF Init, Accounts, ItemsPlaced, EveryItemAccounted, Idle, Nobody

LEMMA ResetAccounts ==
  ASSUME TypeOK, Reset
  PROVE Accounts'
BY DEF Reset, TypeOK, Accounts, ItemsPlaced, EveryItemAccounted, Idle, Nobody

LEMMA StepAccounts == IInv /\ Accounts /\ [Next]_vars => Accounts'
<1> SUFFICES ASSUME IInv, Accounts, [Next]_vars PROVE Accounts'
  OBVIOUS
<1>t. TypeOK /\ TypeOK' /\ ThreadsBuild
  BY TypeStep DEF IInv
<1> USE <1>t, NamesAssumption DEF Accounts
<1>1. ASSUME NEW c \in Converters, Converter(c) PROVE Accounts'
  <2>1. phase = "build" /\ phase' = "build"
    BY <1>1 DEF Converter, Take, Look, BundleOk, BundleFails, HardError, Enqueue, ThreadsBuild
  <2>2. CASE Take(c)
    <3>1. PICK i \in todo : /\ todo' = todo \ {i} /\ item' = [item EXCEPT ![c] = i]
                            /\ step' = [step EXCEPT ![c] = "look"] /\ step[c] = "idle"
                            /\ UNCHANGED <<hardErr, built, bad>>
      BY <2>2 DEF Take, Goto
    <3>2. i \in Items /\ i # None
      BY <3>1 DEF TypeOK
    <3>3. ItemsPlaced'
      BY <2>1, <3>1, <3>2 DEF ItemsPlaced, TypeOK
    <3>4. EveryItemAccounted'
      BY <2>1, <3>1, <3>2 DEF EveryItemAccounted, ItemsPlaced, TypeOK
    <3> QED BY <3>3, <3>4
  <2>3. CASE Look(c) \/ BundleOk(c)
    <3>1. /\ UNCHANGED <<todo, item, hardErr, built, bad>>
          /\ \A d \in Converters : step'[d] = "idle" <=> step[d] = "idle"
      BY <2>3 DEF Look, BundleOk, Goto, TypeOK
    <3> QED BY <2>1, <3>1 DEF ItemsPlaced, EveryItemAccounted
  <2>4. CASE BundleFails(c) \/ HardError(c) \/ Enqueue(c)
    <3>1. /\ todo' = todo
          /\ item' = [item EXCEPT ![c] = None]
          /\ step' = [step EXCEPT ![c] = "idle"]
          /\ step[c] # "idle"
      BY <2>4 DEF BundleFails, HardError, Enqueue, Done, Goto
    <3>2. /\ built \cup bad \subseteq built' \cup bad'
          /\ built' \cup bad' \subseteq built \cup bad \cup {item[c]}
          /\ hardErr' \/ (hardErr' = hardErr /\ item[c] \in built' \cup bad')
      BY <2>4 DEF BundleFails, HardError, Enqueue
    <3>3. item[c] \in Items /\ item[c] \notin todo
      BY <3>1 DEF ThreadsBuild, EveryItemAccounted
    <3>4. ItemsPlaced'
      <4>1. \A d \in Converters : item'[d] = None <=> step'[d] = "idle"
        BY <3>1 DEF ItemsPlaced, TypeOK
      <4>2. todo' \cap (built' \cup bad') = {}
        BY <3>1, <3>2, <3>3 DEF ItemsPlaced
      <4>3. ~hardErr' => \A i \in Items : \/ i \in todo' \cup built' \cup bad'
                                          \/ \E d \in Converters : item'[d] = i
        <5> SUFFICES ASSUME ~hardErr', NEW i \in Items
                     PROVE \/ i \in todo' \cup built' \cup bad'
                           \/ \E d \in Converters : item'[d] = i
          OBVIOUS
        <5>1. CASE i \in todo \cup built \cup bad
          BY <3>1, <3>2, <5>1
        <5>2. ASSUME NEW d \in Converters, item[d] = i
              PROVE \/ i \in todo' \cup built' \cup bad'
                    \/ \E e \in Converters : item'[e] = i
          <6>1. CASE d = c BY <3>2, <5>2, <6>1
          <6>2. CASE d # c
            <7>1. item'[d] = i BY <3>1, <5>2, <6>2 DEF TypeOK
            <7> QED BY <7>1
          <6> QED BY <6>1, <6>2
        <5> QED BY <2>1, <3>2, <5>1, <5>2 DEF ItemsPlaced
      <4> QED BY <2>1, <4>1, <4>2, <4>3 DEF ItemsPlaced
    <3>5. EveryItemAccounted'
      <4>1. \A d \in Converters : item'[d] # None => d # c /\ item'[d] = item[d]
        BY <3>1 DEF TypeOK
      <4>2. None \notin todo' \cup built' \cup bad'
        BY DEF TypeOK
      <4> QED BY <2>1, <3>1, <3>2, <4>1, <4>2 DEF EveryItemAccounted
    <3> QED BY <3>4, <3>5
  <2> QED BY <1>1, <2>2, <2>3, <2>4 DEF Converter
<1>2. ASSUME NEW u \in Uploaders, Uploader(u) PROVE Accounts'
  <2>1. UNCHANGED <<phase, attempt>>
    BY <1>2 DEF Uploader, Receive, ReadFails, PutOk, PutFails, Finish
  <2> QED BY <2>1 DEF ItemsPlaced, EveryItemAccounted, attempt
<1>3. CASE Start
  <2>1. UNCHANGED <<item, step, built, bad>> /\ phase = "idle" /\ phase' = "probe" /\ todo' = Items
    BY <1>3 DEF Start
  <2>2. \A c \in Converters : item[c] = None
    BY <2>1 DEF ItemsPlaced, ThreadsBuild
  <2> QED BY <2>1, <2>2 DEF ItemsPlaced, EveryItemAccounted
<1>4. CASE Probe
  <2>1. /\ UNCHANGED <<item, step, bad>> /\ phase = "probe" /\ phase' = "build"
        /\ todo' = todo \ built' /\ built' \subseteq todo
    BY <1>4 DEF Probe
  <2>2. \A c \in Converters : item[c] = None
    BY <2>1 DEF ItemsPlaced, ThreadsBuild
  <2>3. None \notin todo
    BY DEF TypeOK
  <2> QED BY <2>1, <2>2, <2>3 DEF ItemsPlaced, EveryItemAccounted
<1>5. CASE Join
  <2>1. CASE hardErr
    BY <1>5, <2>1, ResetAccounts DEF Join
  <2>2. CASE ~hardErr
    <3>1. /\ phase = "build" /\ phase' = "drain" /\ step = Idle /\ todo = {}
          /\ UNCHANGED attempt
      BY <1>5, <2>2 DEF Join
    <3>2. \A c \in Converters : item[c] = None
      BY <3>1 DEF ItemsPlaced, Idle
    <3>3. built \cup bad = Items
      BY <2>2, <3>1, <3>2 DEF ItemsPlaced, TypeOK
    <3> QED BY <3>1, <3>3 DEF ItemsPlaced, EveryItemAccounted, attempt
  <2> QED BY <2>1, <2>2
<1>6. CASE Drain \/ WriteManifest \/ PublishManifest \/ Crash
  <2>1. CASE Reset
    BY <2>1, ResetAccounts
  <2>2. CASE ~Reset
    <3>1. /\ UNCHANGED attempt
          /\ phase \in {"drain", "write"} /\ phase' \in {"write", "publish"}
      BY <1>6, <2>2 DEF Drain, WriteManifest, PublishManifest, Crash
    <3> QED BY <3>1 DEF ItemsPlaced, EveryItemAccounted, attempt
  <2> QED BY <2>1, <2>2
<1>7. ASSUME NEW b \in Bundles, OrphanEnds(b) \/ OtherEntityPuts(b) PROVE Accounts'
  BY <1>7 DEF OrphanEnds, OtherEntityPuts, ItemsPlaced, EveryItemAccounted, attempt
<1>8. CASE UNCHANGED vars
  BY <1>8 DEF vars, attempt, ItemsPlaced, EveryItemAccounted
<1> QED BY <1>1, <1>2, <1>3, <1>4, <1>5, <1>6, <1>7, <1>8 DEF Next, Attempt

\* No item is lost between the threads of an attempt, nor taken twice, and the manifest is
\* decided only when each is in it or counts against its exit code (run_item, hard_err).
THEOREM NoItemLost == Spec => []EveryItemAccounted
<1>1. Init => Accounts
  BY InitAccounts
<1>2. IInv /\ Accounts /\ [Next]_vars => Accounts'
  BY StepAccounts
<1>3. Accounts => EveryItemAccounted
  BY DEF Accounts
<1> QED BY <1>1, <1>2, <1>3, Inductive, PTL DEF Spec

================================================================================
