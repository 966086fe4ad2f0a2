------------------------------- MODULE LambdaJobs -------------------------------
(***************************************************************************)
(* The conversion jobs of one entity in the queue-driven lambda            *)
(* (lambda/src/main.rs, output.rs, notify.rs): the check for platforms     *)
(* already converted and its Redis markers, the conversion, the finished   *)
(* events, redelivery, and the tombstones of the last delivery.            *)
(*                                                                         *)
(* Each message is one job; messages of one entity run side by side.  The  *)
(* upload of bundles is CorpusBuild's; scene sources, satellite records    *)
(* and LODs are best effort and left out.  A manifest is its verdict.     *)
(***************************************************************************)
EXTENDS Naturals, FiniteSets

CONSTANTS
  Messages,
  Forced,        \* the messages that ask for a conversion whatever there is
  Platforms,     \* by their places in the configuration's list
  MaxReceive,    \* ABGEN_MAX_RECEIVE_COUNT, the redrive limit of the queue
  None

ASSUME JobsAssumption ==
  Forced \subseteq Messages /\ Platforms \subseteq Nat /\ MaxReceive \in Nat \ {0} /\ None \notin Nat

VARIABLES
  manifest,      \* each platform's manifest in the store: its verdict, or None
  marker,        \* platforms with a converted marker in Redis
  event,         \* what the event heard last of each platform
  msg,           \* where each message is
  receives,      \* how often it was received
  job,           \* the job of a running message
  outdated,      \* history: markers set or kept across another's write, or that a forget missed
  disturbed      \* history: two jobs ran at a time, or a put was lost

vars == <<manifest, marker, event, msg, receives, job, outdated, disturbed>>
store == <<manifest, outdated, disturbed>>

\* Exit code 0, the tolerated 12, and the tombstone's 5.
Verdicts == {"good", "tolerated", "tomb"}

Idle == [pc |-> "idle", last |-> FALSE, left |-> {}, at |-> None, already |-> {}, put |-> {},
         tolerated |-> {}]
Jobs == [pc : {"idle", "check", "mark", "convert", "tombstone", "notify"}, last : BOOLEAN,
         left : SUBSET Platforms, at : Platforms \cup {None}, already : SUBSET Platforms,
         put : SUBSET Platforms, tolerated : SUBSET Platforms]

\* The types of the state; only a running message has a job, and none is received too often.
TypeOK ==
  /\ manifest \in [Platforms -> Verdicts \cup {None}]
  /\ marker \subseteq Platforms
  /\ event \in [Platforms -> Verdicts \cup {None}]
  /\ msg \in [Messages -> {"queued", "running", "acked", "dead"}]
  /\ receives \in [Messages -> 0..MaxReceive]
  /\ job \in [Messages -> Jobs]
  /\ \A m \in Messages : job[m] = Idle <=> msg[m] # "running"
  /\ outdated \subseteq Platforms
  /\ disturbed \in BOOLEAN

Init ==
  /\ manifest = [p \in Platforms |-> None]
  /\ marker = {}
  /\ event = [p \in Platforms |-> None]
  /\ msg = [m \in Messages |-> "queued"]
  /\ receives = [m \in Messages |-> 0]
  /\ job = [m \in Messages |-> Idle]
  /\ outdated = {}
  /\ disturbed = FALSE

At(m, pc) == job[m].pc = pc

\* A job takes the platforms in their order.
Turn(m, p) == p \in job[m].left /\ \A q \in job[m].left : p <= q

\* The message leaves its job, for the queue or for good.
Settle(m, where) ==
  /\ msg' = [msg EXCEPT ![m] = where]
  /\ job' = [job EXCEPT ![m] = Idle]

\* rediscache::forget of a forced job: a DEL that fails leaves its marker.
Forget(m) ==
  IF m \in Forced
    THEN /\ marker' \in SUBSET marker
         /\ outdated' = outdated \cup marker'
    ELSE UNCHANGED <<marker, outdated>>

--------------------------------------------------------------------------------
(* Delivery *)

\* A forced job forgets the markers and checks nothing.
Receive(m) ==
  /\ msg[m] = "queued"
  /\ msg' = [msg EXCEPT ![m] = "running"]
  /\ receives' = [receives EXCEPT ![m] = @ + 1]
  /\ job' = [job EXCEPT ![m] = [Idle EXCEPT !.pc = "check", !.left = IF m \in Forced THEN {} ELSE Platforms]]
  /\ Forget(m)
  /\ disturbed' = (disturbed \/ \E n \in Messages : msg[n] = "running")
  /\ UNCHANGED <<manifest, event>>

\* A slip: the last delivery is followed by one more.
GiveUp_OnceMore(m) ==
  IF receives[m] <= MaxReceive THEN Settle(m, "queued") ELSE Settle(m, "dead")

\* An error, or a lambda that dies, leaves the message to the queue and its redrive limit.
GiveUp(m) ==
  IF receives[m] < MaxReceive THEN Settle(m, "queued") ELSE Settle(m, "dead")

\* instrumented_job: the error of the last delivery begins the tombstones instead.
Fails(m) ==
  /\ msg[m] = "running"
  /\ \/ GiveUp(m)
     \/ /\ ~job[m].last /\ receives[m] = MaxReceive
        /\ job' = [job EXCEPT ![m] = [Idle EXCEPT !.pc = "check", !.last = TRUE, !.left = Platforms]]
        /\ UNCHANGED msg
  /\ outdated' = outdated \cup (job[m].put \cap marker)
  /\ UNCHANGED <<manifest, marker, event, receives, disturbed>>

--------------------------------------------------------------------------------
(* already_converted, converted_lane *)

\* A platform is known to be converted; one that is not waits, or gets its tombstone.
Known(m, p) == [job[m] EXCEPT !.pc = "check", !.left = @ \ {p}, !.at = None, !.already = @ \cup {p}]
Unknown(m, p) == IF job[m].last THEN [job[m] EXCEPT !.pc = "tombstone", !.at = p]
                                ELSE [job[m] EXCEPT !.left = @ \ {p}]

\* current_lane
Current(p) == manifest[p] = "good"

\* A marker is enough; a marker or a manifest that cannot be read counts as none.
Check(m, p) ==
  /\ At(m, "check") /\ Turn(m, p)
  /\ \/ p \in marker /\ job' = [job EXCEPT ![m] = Known(m, p)]
     \/ Current(p) /\ job' = [job EXCEPT ![m].pc = "mark", ![m].at = p]
     \/ job' = [job EXCEPT ![m] = Unknown(m, p)]
  /\ UNCHANGED <<store, marker, event, msg, receives>>

Mark(m) ==
  /\ At(m, "mark")
  /\ marker' \in {marker, marker \cup {job[m].at}}
  /\ job' = [job EXCEPT ![m] = Known(m, job[m].at)]
  /\ UNCHANGED <<store, event, msg, receives>>

\* A slip: a job with nothing to convert is done without an event.
Checked_SkipsQuietly(m) ==
  /\ At(m, "check") /\ job[m].left = {}
  /\ LET pending == Platforms \ job[m].already IN
       job' = [job EXCEPT ![m] =
         IF job[m].last \/ pending = {}
           THEN [@ EXCEPT !.pc = "notify", !.left = IF job[m].last THEN Platforms ELSE {}]
           ELSE [@ EXCEPT !.pc = "convert", !.left = pending]]
  /\ UNCHANGED <<store, marker, event, msg, receives>>

Checked(m) ==
  /\ At(m, "check") /\ job[m].left = {}
  /\ LET pending == Platforms \ job[m].already IN
       job' = [job EXCEPT ![m] =
         IF job[m].last \/ pending = {}
           THEN [@ EXCEPT !.pc = "notify", !.left = Platforms]
           ELSE [@ EXCEPT !.pc = "convert", !.left = pending]]
  /\ UNCHANGED <<store, marker, event, msg, receives>>

--------------------------------------------------------------------------------
(* Conversion, publication and tombstones *)

\* A write over what another job read and marks, or has marked.
Overwrites(m, p) ==
  \/ \E n \in Messages \ {m} : At(n, "mark") /\ job[n].at = p
  \/ p \in marker /\ (m \notin Forced \/ job[m].last)

PutManifest(m, p, verdict) ==
  /\ manifest' = [manifest EXCEPT ![p] = verdict]
  /\ outdated' = IF Overwrites(m, p) THEN outdated \cup {p} ELSE outdated

\* build_entity_into_corpus writes the manifest through, and a put that fails is only logged.
\* Its verdict is read back from the local copy, for the event.
Convert(m, p) ==
  /\ At(m, "convert") /\ Turn(m, p)
  /\ \E verdict \in {"good", "tolerated"} :
       /\ \/ PutManifest(m, p, verdict) /\ UNCHANGED disturbed
          \/ disturbed' = TRUE /\ UNCHANGED <<manifest, outdated>>
       /\ job' = [job EXCEPT ![m].left = @ \ {p}, ![m].put = @ \cup {p},
                             ![m].tolerated = IF verdict = "good" THEN @ ELSE @ \cup {p}]
  /\ UNCHANGED <<marker, event, msg, receives>>

\* A slip: the markers are forgotten only before the conversion.
Publish_KeepsMarkers(m) ==
  /\ At(m, "convert") /\ job[m].left = {}
  /\ job' = [job EXCEPT ![m].pc = "notify", ![m].left = Platforms, ![m].put = {}]
  /\ UNCHANGED <<store, marker, event, msg, receives>>

\* publish_forget_notify
Publish(m) ==
  /\ At(m, "convert") /\ job[m].left = {}
  /\ Forget(m)
  /\ job' = [job EXCEPT ![m].pc = "notify", ![m].left = Platforms, ![m].put = {}]
  /\ UNCHANGED <<manifest, event, msg, receives, disturbed>>

\* publish_failure_tombstones: the put must land.
Tombstone(m) ==
  /\ At(m, "tombstone")
  /\ LET p == job[m].at IN
       /\ PutManifest(m, p, "tomb")
       /\ job' = [job EXCEPT ![m].pc = "check", ![m].left = @ \ {p}, ![m].at = None]
  /\ UNCHANGED <<marker, event, msg, receives, disturbed>>

--------------------------------------------------------------------------------
(* send_finished: the platforms built or tombstoned, and those already converted *)

Status(m, p) ==
  IF p \in job[m].already THEN "good"
  ELSE IF job[m].last THEN "tomb"
  ELSE IF p \in job[m].tolerated THEN "tolerated" ELSE "good"

Notify(m, p) ==
  /\ At(m, "notify") /\ Turn(m, p)
  /\ event' = [event EXCEPT ![p] = Status(m, p)]
  /\ job' = [job EXCEPT ![m].left = @ \ {p}]
  /\ UNCHANGED <<store, marker, msg, receives>>

Acknowledge(m) ==
  /\ At(m, "notify") /\ job[m].left = {}
  /\ Settle(m, "acked")
  /\ UNCHANGED <<store, marker, event, receives>>

Runs(m) ==
  \/ \E p \in Platforms : Check(m, p) \/ Convert(m, p) \/ Notify(m, p)
  \/ Mark(m) \/ Checked(m) \/ Publish(m) \/ Tombstone(m) \/ Acknowledge(m)

\* A marker has a time to live.
MarkerExpires(p) ==
  /\ p \in marker /\ marker' = marker \ {p}
  /\ UNCHANGED <<store, event, msg, receives, job>>

Next ==
  \/ \E m \in Messages : Receive(m) \/ Runs(m) \/ Fails(m)
  \/ \E p \in Platforms : MarkerExpires(p)

Spec == Init /\ [][Next]_vars

--------------------------------------------------------------------------------
(* Properties *)

\* Once every message is acknowledged, the registry has heard last of every platform what the
\* store holds of it: whichever deliveries failed after a manifest and before its event, and
\* whatever was found already converted. Only jobs side by side, which send their events in
\* any order, a lost put and an outdated marker can set the two apart (send_finished,
\* convert_asset_bundles).
RegistryAgrees ==
  ~disturbed /\ (\A m \in Messages : msg[m] = "acked") =>
    \A p \in Platforms \ outdated : event[p] = manifest[p]

\* A marker vouches for a good manifest, but while a forced job has yet to forget, and where a
\* job marked or kept a marker across another's write, a forget failed, or a forced job failed
\* between its writes and its forgetting (converted_lane, publish_forget_notify).
MarkersVouch ==
  \A p \in marker \ outdated :
    \/ manifest[p] = "good"
    \/ \E m \in Forced : At(m, "convert") /\ p \in job[m].put
================================================================================
