---------------------------- MODULE LambdaJobsProofs ----------------------------
(***************************************************************************)
(* Proofs about LambdaJobs, for any messages, platforms and redrive limit: *)
(* its types, what the markers vouch for, and that the registry hears last *)
(* what the store holds.  The last follows the one job that runs, platform *)
(* by platform, from its check to its events.                              *)
(***************************************************************************)
EXTENDS LambdaJobs, TLAPS

\* What the stage of a job says of its fields.
Shape(m) ==
  /\ msg[m] = "queued" => receives[m] < MaxReceive
  /\ At(m, "idle") => msg[m] # "running"
  /\ At(m, "mark") \/ At(m, "tombstone") => job[m].at \in job[m].left
  /\ At(m, "tombstone") => job[m].last
  /\ At(m, "convert") => ~job[m].last
  /\ ~At(m, "notify") => job[m].left \cap job[m].already = {}
  /\ ~At(m, "notify") /\ ~At(m, "convert") => job[m].tolerated = {}
  /\ At(m, "convert") => job[m].tolerated \cap job[m].left = {}

\* What a job is about to mark is still good, or the mark will be outdated.
MarkRead(m) ==
  At(m, "mark") /\ job[m].at \notin outdated => manifest[job[m].at] = "good"

\* Until two jobs run at a time, no two do.
Alone ==
  ~disturbed => \A m, n \in Messages : msg[m] = "running" /\ msg[n] = "running" => m = n

\* What the job knows of p, and the event of p once it is sent, is what the store holds.
Agrees(m, p) ==
  /\ p \in job[m].already => manifest[p] = "good"
  /\ ~At(m, "convert") /\ ~At(m, "notify") /\ job[m].last /\ p \notin job[m].left \cup job[m].already =>
       manifest[p] = "tomb"
  /\ At(m, "convert") /\ p \notin job[m].left \cup job[m].already =>
       manifest[p] = IF p \in job[m].tolerated THEN "tolerated" ELSE "good"
  /\ At(m, "notify") /\ p \in job[m].left => manifest[p] = Status(m, p)
  /\ At(m, "notify") /\ p \notin job[m].left => event[p] = manifest[p]

JobsAgree == ~disturbed => \A m \in Messages : \A p \in Platforms \ outdated : Agrees(m, p)

IInv ==
  /\ TypeOK
  /\ \A m \in Messages : Shape(m) /\ MarkRead(m)
  /\ MarkersVouch
  /\ Alone
  /\ JobsAgree
  /\ RegistryAgrees

--------------------------------------------------------------------------------
Moves(m) == Receive(m) \/ Runs(m) \/ Fails(m)

LEMMA OthersUntouched ==
  ASSUME TypeOK, NEW m \in Messages, Moves(m), NEW n \in Messages \ {m}
  PROVE msg'[n] = msg[n] /\ receives'[n] = receives[n] /\ job'[n] = job[n]
<1> USE DEF TypeOK, Settle
<1>1. CASE Receive(m) BY <1>1 DEF Receive
<1>2. CASE Fails(m) BY <1>2 DEF Fails, GiveUp
<1>3. CASE Runs(m)
  BY <1>3 DEF Runs, Check, Mark, Checked, Convert, Publish, Tombstone, Notify, Acknowledge
<1> QED BY <1>1, <1>2, <1>3 DEF Moves

\* A job that goes on keeps its type, and its message runs.
LEMMA GoesOn ==
  ASSUME TypeOK, NEW m \in Messages, Shape(m), ~At(m, "idle"),
         NEW j \in Jobs, j.pc # "idle", job' = [job EXCEPT ![m] = j], msg' = msg
  PROVE /\ job' \in [Messages -> Jobs] /\ job'[m] = j
        /\ msg' \in [Messages -> {"queued", "running", "acked", "dead"}]
        /\ \A n \in Messages : job'[n] = Idle <=> msg'[n] # "running"
        /\ msg'[m] = "running"
<1>1. j # Idle /\ job[m] # Idle
  BY DEF At, Idle
<1>2. msg[m] = "running"
  BY <1>1 DEF TypeOK
<1> QED BY <1>1, <1>2 DEF TypeOK

LEMMA ReceiveType ==
  ASSUME TypeOK, NEW m \in Messages, Shape(m), Receive(m)
  PROVE TypeOK' /\ Shape(m)'
<1> DEFINE j == [Idle EXCEPT !.pc = "check", !.left = IF m \in Forced THEN {} ELSE Platforms]
<1>1. j \in Jobs /\ j.pc = "check" /\ j.already = {} /\ j.tolerated = {} /\ j # Idle
  BY DEF Jobs, Idle
<1>2. job' = [job EXCEPT ![m] = j]
  BY DEF Receive
<1> HIDE DEF j
<1>3. job' \in [Messages -> Jobs] /\ job'[m] = j
  BY <1>1, <1>2 DEF TypeOK
<1>4. receives[m] \in Nat /\ receives[m] + 1 \in 0..MaxReceive
  BY JobsAssumption DEF Receive, Shape, TypeOK
<1>5. receives' \in [Messages -> 0..MaxReceive]
  BY <1>4 DEF Receive, TypeOK
<1>6. marker' \subseteq Platforms /\ outdated' \subseteq Platforms /\ disturbed' \in BOOLEAN
  BY DEF Receive, Forget, TypeOK
<1>7. /\ msg' \in [Messages -> {"queued", "running", "acked", "dead"}] /\ msg'[m] = "running"
      /\ \A n \in Messages : job'[n] = Idle <=> msg'[n] # "running"
  BY <1>1, <1>2 DEF Receive, TypeOK
<1>8. TypeOK'
  BY <1>3, <1>5, <1>6, <1>7 DEF Receive, TypeOK
<1>9. Shape(m)'
  BY <1>1, <1>3, <1>7 DEF Shape, At
<1> QED BY <1>8, <1>9

LEMMA SettleType ==
  ASSUME TypeOK, NEW m \in Messages, NEW where \in {"queued", "acked", "dead"}, Settle(m, where),
         where = "queued" => receives[m] < MaxReceive, receives' = receives
  PROVE /\ msg' \in [Messages -> {"queued", "running", "acked", "dead"}]
        /\ job' \in [Messages -> Jobs]
        /\ \A n \in Messages : job'[n] = Idle <=> msg'[n] # "running"
        /\ Shape(m)'
<1>1. Idle \in Jobs
  BY DEF Idle, Jobs
<1>2. job' \in [Messages -> Jobs] /\ job'[m] = Idle /\ msg'[m] = where
  BY <1>1 DEF Settle, TypeOK
<1>3. Shape(m)'
  BY <1>2 DEF Shape, At, Idle
<1> QED BY <1>2, <1>3 DEF Settle, TypeOK

LEMMA FailsType ==
  ASSUME TypeOK, NEW m \in Messages, Shape(m), Fails(m)
  PROVE TypeOK' /\ Shape(m)'
<1>1. outdated' \subseteq Platforms /\ UNCHANGED <<manifest, marker, event, receives, disturbed>>
  BY DEF Fails, TypeOK
<1>2. CASE GiveUp(m)
  BY <1>1, <1>2, SettleType DEF GiveUp, TypeOK
<1>3. CASE ~GiveUp(m)
  <2> DEFINE j == [Idle EXCEPT !.pc = "check", !.last = TRUE, !.left = Platforms]
  <2>1. job' = [job EXCEPT ![m] = j] /\ msg' = msg /\ msg[m] = "running"
    BY <1>3 DEF Fails
  <2>2. j \in Jobs /\ j.pc = "check" /\ j.already = {} /\ j.tolerated = {} /\ j # Idle
    BY DEF Jobs, Idle
  <2> HIDE DEF j
  <2>3. /\ job' \in [Messages -> Jobs] /\ job'[m] = j
        /\ \A n \in Messages : job'[n] = Idle <=> msg'[n] # "running"
    BY <2>1, <2>2 DEF TypeOK
  <2> QED BY <1>1, <2>1, <2>2, <2>3 DEF TypeOK, Shape, At
<1> QED BY <1>2, <1>3

\* The stages in which a job works on the platforms left to it.
LEMMA RunsType ==
  ASSUME TypeOK, NEW m \in Messages, Shape(m), Runs(m)
  PROVE TypeOK' /\ Shape(m)'
<1> USE DEF At
<1>0. job[m] \in Jobs
  BY DEF TypeOK
<1>1. ASSUME NEW p \in Platforms, Check(m, p) PROVE TypeOK' /\ Shape(m)'
  <2>1. At(m, "check") /\ p \in job[m].left /\ UNCHANGED <<store, marker, event, msg, receives>>
    BY <1>1 DEF Check, Turn
  <2>2. PICK j : /\ job' = [job EXCEPT ![m] = j]
                 /\ j \in {Known(m, p), [job[m] EXCEPT !.pc = "mark", !.at = p], Unknown(m, p)}
    BY <1>1 DEF Check
  <2>3. j \in Jobs /\ j.pc \in {"check", "mark", "tombstone"}
    <3>1. CASE j = Known(m, p) BY <1>0, <3>1 DEF Known, Jobs
    <3>2. CASE j = [job[m] EXCEPT !.pc = "mark", !.at = p] BY <1>0, <3>2 DEF Jobs
    <3>3. CASE j = Unknown(m, p)
      <4>1. CASE job[m].last BY <1>0, <3>3, <4>1 DEF Unknown, Jobs
      <4>2. CASE ~job[m].last BY <1>0, <2>1, <3>3, <4>2 DEF Unknown, Jobs
      <4> QED BY <4>1, <4>2
    <3> QED BY <2>2, <3>1, <3>2, <3>3
  <2>4. /\ j.pc # "check" => j.at \in j.left
        /\ j.pc = "tombstone" => j.last
        /\ j.left \cap j.already = {} /\ j.tolerated = {}
    BY <1>0, <2>1, <2>2 DEF Known, Unknown, Jobs, Shape
  <2>5. /\ job' \in [Messages -> Jobs] /\ job'[m] = j /\ msg'[m] = "running"
        /\ \A n \in Messages : job'[n] = Idle <=> msg'[n] # "running"
    BY <2>1, <2>2, <2>3, GoesOn
  <2>6. TypeOK'
    BY <2>1, <2>5 DEF TypeOK, store
  <2> QED BY <2>3, <2>4, <2>5, <2>6 DEF Shape
<1>2. ASSUME Mark(m) PROVE TypeOK' /\ Shape(m)'
  <2> DEFINE j == Known(m, job[m].at)
  <2>1. At(m, "mark") /\ job[m].at \in Platforms /\ job' = [job EXCEPT ![m] = j]
        /\ UNCHANGED <<store, event, msg, receives>>
    BY <1>0, <1>2 DEF Mark, Shape, Jobs
  <2>2. j \in Jobs /\ j.pc = "check" /\ j.left \cap j.already = {} /\ j.tolerated = {}
    BY <1>0, <2>1 DEF Known, Jobs, Shape
  <2> HIDE DEF j
  <2>3. /\ job' \in [Messages -> Jobs] /\ job'[m] = j /\ msg'[m] = "running"
        /\ \A n \in Messages : job'[n] = Idle <=> msg'[n] # "running"
    BY <2>1, <2>2, GoesOn
  <2>4. marker' \subseteq Platforms
    BY <1>2, <2>1 DEF Mark, TypeOK
  <2>5. TypeOK'
    BY <2>1, <2>3, <2>4 DEF TypeOK, store
  <2> QED BY <2>2, <2>3, <2>5 DEF Shape
<1>3. ASSUME Checked(m) PROVE TypeOK' /\ Shape(m)'
  <2>1. At(m, "check") /\ UNCHANGED <<store, marker, event, msg, receives>>
    BY <1>3 DEF Checked
  <2>2. PICK j : /\ job' = [job EXCEPT ![m] = j]
                 /\ \/ j = [job[m] EXCEPT !.pc = "notify", !.left = Platforms]
                    \/ /\ j = [job[m] EXCEPT !.pc = "convert", !.left = Platforms \ job[m].already]
                       /\ ~job[m].last
    BY <1>3 DEF Checked
  <2>3. j \in Jobs /\ j.pc \in {"notify", "convert"} /\ (j.pc = "convert" => ~j.last)
    <3>1. CASE j = [job[m] EXCEPT !.pc = "notify", !.left = Platforms]
      BY <1>0, <3>1 DEF Jobs
    <3>2. CASE /\ j = [job[m] EXCEPT !.pc = "convert", !.left = Platforms \ job[m].already]
               /\ ~job[m].last
      BY <1>0, <3>2 DEF Jobs
    <3> QED BY <2>2, <3>1, <3>2
  <2>4. j.pc = "convert" => j.left \cap j.already = {} /\ j.tolerated = {}
    BY <1>0, <2>1, <2>2 DEF Jobs, Shape
  <2>5. /\ job' \in [Messages -> Jobs] /\ job'[m] = j /\ msg'[m] = "running"
        /\ \A n \in Messages : job'[n] = Idle <=> msg'[n] # "running"
    BY <2>1, <2>2, <2>3, GoesOn
  <2>6. TypeOK'
    BY <2>1, <2>5 DEF TypeOK, store
  <2> QED BY <2>3, <2>4, <2>5, <2>6 DEF Shape
<1>4. ASSUME NEW p \in Platforms, Convert(m, p) PROVE TypeOK' /\ Shape(m)'
  <2>1. At(m, "convert") /\ UNCHANGED <<marker, event, msg, receives>>
    BY <1>4 DEF Convert
  <2>2. PICK verdict \in {"good", "tolerated"} :
          /\ \/ PutManifest(m, p, verdict) /\ UNCHANGED disturbed
             \/ disturbed' = TRUE /\ UNCHANGED <<manifest, outdated>>
          /\ job' = [job EXCEPT ![m].left = @ \ {p}, ![m].put = @ \cup {p},
                                ![m].tolerated = IF verdict = "good" THEN @ ELSE @ \cup {p}]
    BY <1>4 DEF Convert
  <2> DEFINE j == [job[m] EXCEPT !.left = @ \ {p}, !.put = @ \cup {p},
                                 !.tolerated = IF verdict = "good" THEN @ ELSE @ \cup {p}]
  <2>3. job' = [job EXCEPT ![m] = j]
    BY <1>0, <2>2 DEF TypeOK, Jobs
  <2>4. j \in Jobs /\ j.pc = "convert" /\ ~j.last
        /\ j.left \cap j.already = {} /\ j.tolerated \cap j.left = {}
    BY <1>0, <2>1 DEF Jobs, Shape
  <2> HIDE DEF j
  <2>5. /\ job' \in [Messages -> Jobs] /\ job'[m] = j /\ msg'[m] = "running"
        /\ \A n \in Messages : job'[n] = Idle <=> msg'[n] # "running"
    BY <2>1, <2>3, <2>4, GoesOn
  <2>6. /\ manifest' \in [Platforms -> Verdicts \cup {None}] /\ outdated' \subseteq Platforms
        /\ disturbed' \in BOOLEAN
    BY <2>2 DEF TypeOK, PutManifest, Verdicts
  <2>7. TypeOK'
    BY <2>1, <2>5, <2>6 DEF TypeOK
  <2> QED BY <2>4, <2>5, <2>7 DEF Shape
<1>5. ASSUME Publish(m) PROVE TypeOK' /\ Shape(m)'
  <2> DEFINE j == [job[m] EXCEPT !.pc = "notify", !.left = Platforms, !.put = {}]
  <2>1. At(m, "convert") /\ UNCHANGED <<manifest, event, msg, receives, disturbed>>
    BY <1>5 DEF Publish
  <2>2. job' = [job EXCEPT ![m] = j]
    BY <1>0, <1>5 DEF Publish, TypeOK, Jobs
  <2>3. j \in Jobs /\ j.pc = "notify"
    BY <1>0 DEF Jobs
  <2> HIDE DEF j
  <2>4. /\ job' \in [Messages -> Jobs] /\ job'[m] = j /\ msg'[m] = "running"
        /\ \A n \in Messages : job'[n] = Idle <=> msg'[n] # "running"
    BY <2>1, <2>2, <2>3, GoesOn
  <2>5. marker' \subseteq Platforms /\ outdated' \subseteq Platforms
    BY <1>5 DEF Publish, Forget, TypeOK
  <2>6. TypeOK'
    BY <2>1, <2>4, <2>5 DEF TypeOK
  <2> QED BY <2>3, <2>4, <2>6 DEF Shape
<1>6. ASSUME Tombstone(m) PROVE TypeOK' /\ Shape(m)'
  <2> DEFINE j == [job[m] EXCEPT !.pc = "check", !.left = @ \ {job[m].at}, !.at = None]
  <2>1. At(m, "tombstone") /\ UNCHANGED <<marker, event, msg, receives, disturbed>>
    BY <1>6 DEF Tombstone
  <2>2. job' = [job EXCEPT ![m] = j]
    BY <1>0, <1>6 DEF Tombstone, TypeOK, Jobs
  <2>3. j \in Jobs /\ j.pc = "check" /\ j.left \cap j.already = {} /\ j.tolerated = {}
    BY <1>0, <2>1 DEF Jobs, Shape
  <2> HIDE DEF j
  <2>4. /\ job' \in [Messages -> Jobs] /\ job'[m] = j /\ msg'[m] = "running"
        /\ \A n \in Messages : job'[n] = Idle <=> msg'[n] # "running"
    BY <2>1, <2>2, <2>3, GoesOn
  <2>5. job[m].at \in Platforms
    BY <1>0, <2>1 DEF Shape, Jobs
  <2>6. manifest' \in [Platforms -> Verdicts \cup {None}] /\ outdated' \subseteq Platforms
    BY <1>6, <2>5 DEF Tombstone, PutManifest, TypeOK, Verdicts
  <2>7. TypeOK'
    BY <2>1, <2>4, <2>6 DEF TypeOK
  <2> QED BY <2>3, <2>4, <2>7 DEF Shape
<1>7. ASSUME NEW p \in Platforms, Notify(m, p) PROVE TypeOK' /\ Shape(m)'
  <2> DEFINE j == [job[m] EXCEPT !.left = @ \ {p}]
  <2>1. At(m, "notify") /\ UNCHANGED <<store, marker, msg, receives>>
    BY <1>7 DEF Notify
  <2>2. job' = [job EXCEPT ![m] = j]
    BY <1>0, <1>7 DEF Notify, TypeOK, Jobs
  <2>3. j \in Jobs /\ j.pc = "notify"
    BY <1>0, <2>1 DEF Jobs
  <2> HIDE DEF j
  <2>4. /\ job' \in [Messages -> Jobs] /\ job'[m] = j /\ msg'[m] = "running"
        /\ \A n \in Messages : job'[n] = Idle <=> msg'[n] # "running"
    BY <2>1, <2>2, <2>3, GoesOn
  <2>5. Status(m, p) \in Verdicts
    BY DEF Status, Verdicts
  <2>6. event' \in [Platforms -> Verdicts \cup {None}]
    BY <1>7, <2>5 DEF Notify, TypeOK
  <2>7. TypeOK'
    BY <2>1, <2>4, <2>6 DEF TypeOK, store
  <2> QED BY <2>3, <2>4, <2>7 DEF Shape
<1>8. ASSUME Acknowledge(m) PROVE TypeOK' /\ Shape(m)'
  <2>1. Settle(m, "acked") /\ UNCHANGED <<store, marker, event, receives>>
    BY <1>8 DEF Acknowledge
  <2> QED BY <2>1, SettleType DEF TypeOK, store
<1> QED BY <1>1, <1>2, <1>3, <1>4, <1>5, <1>6, <1>7, <1>8 DEF Runs

--------------------------------------------------------------------------------
LEMMA MovesType ==
  ASSUME TypeOK, NEW m \in Messages, Shape(m), Moves(m)
  PROVE TypeOK' /\ Shape(m)'
BY ReceiveType, FailsType, RunsType DEF Moves

LEMMA ExpiryType ==
  ASSUME TypeOK, NEW p \in Platforms, MarkerExpires(p)
  PROVE TypeOK'
BY DEF MarkerExpires, TypeOK, store

LEMMA InitIInv == Init => IInv
<1> SUFFICES ASSUME Init PROVE IInv
  OBVIOUS
<1>1. TypeOK
  <2>1. Idle \in Jobs
    BY DEF Idle, Jobs
  <2>2. receives \in [Messages -> 0..MaxReceive]
    BY JobsAssumption DEF Init
  <2> QED BY <2>1, <2>2 DEF Init, TypeOK
<1>2. \A m \in Messages : job[m] = Idle /\ msg[m] = "queued" /\ receives[m] = 0
  BY DEF Init
<1>3. \A m \in Messages : Shape(m) /\ MarkRead(m)
  BY <1>2, JobsAssumption DEF Shape, MarkRead, At, Idle
<1>4. MarkersVouch
  BY DEF Init, MarkersVouch
<1>5. Alone
  BY <1>2 DEF Alone
<1>6. JobsAgree
  BY <1>2 DEF JobsAgree, Agrees, At, Idle
<1>7. RegistryAgrees
  BY DEF Init, RegistryAgrees
<1> QED BY <1>1, <1>3, <1>4, <1>5, <1>6, <1>7 DEF IInv

\* A write over a manifest that a job is about to mark, or that has its marker, is recorded,
\* but for the marker that a forced job will forget.
LEMMA WriteRecorded ==
  ASSUME IInv, NEW m \in Messages, NEW p \in Platforms, NEW verdict \in Verdicts,
         PutManifest(m, p, verdict), marker' = marker,
         \/ At(m, "convert")
         \/ At(m, "tombstone")
  PROVE /\ outdated \subseteq outdated'
        /\ \A n \in Messages \ {m} :
             At(n, "mark") /\ job[n].at \notin outdated' => manifest'[job[n].at] = "good"
        /\ \A q \in marker \ outdated' :
             \/ manifest'[q] = manifest[q]
             \/ q = p /\ m \in Forced /\ At(m, "convert")
<1>1. TypeOK /\ Shape(m) /\ (\A n \in Messages : MarkRead(n))
  BY DEF IInv
<1>2. manifest' = [manifest EXCEPT ![p] = verdict]
  BY DEF PutManifest
<1>3. p \notin outdated' => ~Overwrites(m, p)
  BY DEF PutManifest
<1>4. outdated \subseteq outdated'
  BY DEF PutManifest
<1>5. ASSUME NEW n \in Messages \ {m}, At(n, "mark"), job[n].at \notin outdated'
      PROVE manifest'[job[n].at] = "good"
  <2>1. manifest[job[n].at] = "good"
    BY <1>1, <1>4, <1>5 DEF MarkRead
  <2>2. job[n].at # p
    BY <1>3, <1>5 DEF Overwrites
  <2> QED BY <1>1, <1>2, <2>1, <2>2 DEF TypeOK
<1>6. ASSUME NEW q \in marker \ outdated'
      PROVE manifest'[q] = manifest[q] \/ (q = p /\ m \in Forced /\ At(m, "convert"))
  <2>1. CASE q # p
    <3>1. q \in Platforms /\ manifest \in [Platforms -> Verdicts \cup {None}]
      BY <1>1, <1>6 DEF TypeOK
    <3> QED BY <1>2, <2>1, <3>1
  <2>2. CASE q = p
    BY <1>1, <1>3, <1>6, <2>2 DEF Overwrites, Shape
  <2> QED BY <2>1, <2>2
<1> QED BY <1>4, <1>5, <1>6

\* A marker is vouched for as before, by a good manifest, or by the forced job that moves.
LEMMA VouchStays ==
  ASSUME MarkersVouch, NEW m \in Messages,
         \A n \in Messages \ {m} : job'[n] = job[n],
         \A q \in marker' \ outdated' :
           \/ /\ q \in marker \ outdated /\ manifest'[q] = manifest[q]
              /\ At(m, "convert") /\ q \in job[m].put => At(m, "convert")' /\ q \in job'[m].put
           \/ manifest'[q] = "good"
           \/ m \in Forced /\ At(m, "convert")' /\ q \in job'[m].put
  PROVE MarkersVouch'
<1> SUFFICES ASSUME NEW q \in marker' \ outdated', manifest'[q] # "good"
             PROVE \E n \in Forced : At(n, "convert")' /\ q \in job'[n].put
  BY DEF MarkersVouch
<1>1. CASE m \in Forced /\ At(m, "convert")' /\ q \in job'[m].put
  BY <1>1
<1>2. CASE /\ q \in marker \ outdated /\ manifest'[q] = manifest[q]
           /\ At(m, "convert") /\ q \in job[m].put => At(m, "convert")' /\ q \in job'[m].put
  <2>1. PICK n \in Forced : At(n, "convert") /\ q \in job[n].put
    BY <1>2 DEF MarkersVouch
  <2>2. n \in Messages
    BY JobsAssumption
  <2>3. CASE n = m BY <1>2, <2>1, <2>3
  <2>4. CASE n # m
    <3>1. job'[n] = job[n]
      BY <2>2, <2>4
    <3> QED BY <2>1, <3>1 DEF At
  <2> QED BY <2>3, <2>4
<1> QED BY <1>1, <1>2

\* What a job forgets, when it is forced, is recorded if its marker stays.
LEMMA ForgetRecords ==
  ASSUME NEW m \in Messages, Forget(m)
  PROVE /\ outdated \subseteq outdated' /\ marker' \subseteq marker
        /\ m \in Forced => marker' \subseteq outdated'
BY DEF Forget

LEMMA MarksKeep ==
  ASSUME IInv, NEW m \in Messages, Moves(m)
  PROVE MarkersVouch' /\ (\A n \in Messages : MarkRead(n)') /\ outdated \subseteq outdated'
<1>0. TypeOK /\ Shape(m) /\ MarkersVouch /\ (\A n \in Messages : MarkRead(n)) /\ job[m] \in Jobs
  BY DEF IInv, TypeOK
<1>o. \A n \in Messages \ {m} : job'[n] = job[n]
  BY <1>0, OthersUntouched
<1>t. TypeOK'
  BY <1>0, MovesType
<1>m. ASSUME outdated \subseteq outdated', manifest' = manifest, MarkRead(m)'
      PROVE \A n \in Messages : MarkRead(n)'
  BY <1>0, <1>m, <1>o DEF MarkRead, At
<1>1. CASE Receive(m)
  <2>1. Forget(m) /\ manifest' = manifest /\ ~At(m, "convert") /\ job'[m].pc = "check"
    BY <1>0, <1>1 DEF Receive, TypeOK, At, Idle
  <2>2. MarkRead(m)'
    BY <2>1 DEF MarkRead, At
  <2>3. MarkersVouch'
    <3>1. CASE m \in Forced
      BY <1>0, <2>1, <3>1, ForgetRecords DEF MarkersVouch
    <3>2. CASE m \notin Forced
      <4>1. marker' = marker /\ outdated' = outdated
        BY <2>1, <3>2 DEF Forget
      <4> QED BY <1>0, <1>o, <2>1, <4>1, VouchStays
    <3> QED BY <3>1, <3>2
  <2> QED BY <1>m, <2>1, <2>2, <2>3, ForgetRecords
<1>2. CASE Fails(m)
  <2>1. /\ outdated' = outdated \cup (job[m].put \cap marker)
        /\ manifest' = manifest /\ marker' = marker
    BY <1>2 DEF Fails
  <2>2. job'[m].pc \in {"idle", "check"}
    <3>1. CASE GiveUp(m)
      BY <1>0, <3>1 DEF GiveUp, Settle, Idle, TypeOK
    <3>2. CASE ~GiveUp(m)
      BY <1>0, <1>2, <3>2 DEF Fails, Idle, TypeOK
    <3> QED BY <3>1, <3>2
  <2>3. MarkRead(m)'
    BY <2>2 DEF MarkRead, At
  <2>4. MarkersVouch'
    BY <1>0, <1>o, <2>1, VouchStays
  <2> QED BY <1>m, <2>1, <2>3, <2>4
<1>3. ASSUME NEW p \in Platforms, Check(m, p)
      PROVE MarkersVouch' /\ MarkRead(m)' /\ manifest' = manifest /\ outdated' = outdated
  <2>1. At(m, "check") /\ UNCHANGED <<manifest, outdated, marker>>
    BY <1>3 DEF Check, store
  <2>2. MarkersVouch'
    BY <1>0, <1>o, <2>1, VouchStays DEF At
  <2>3. PICK j : /\ job' = [job EXCEPT ![m] = j]
                 /\ \/ j \in {Known(m, p), Unknown(m, p)}
                    \/ Current(p) /\ j = [job[m] EXCEPT !.pc = "mark", !.at = p]
    BY <1>3 DEF Check
  <2>4. job'[m] = j
    BY <1>0, <2>3 DEF TypeOK
  <2>5. j.pc = "mark" => manifest[j.at] = "good"
    <3>1. CASE j \in {Known(m, p), Unknown(m, p)}
      BY <1>0, <2>1, <3>1 DEF Known, Unknown, Jobs, At
    <3>2. CASE Current(p) /\ j = [job[m] EXCEPT !.pc = "mark", !.at = p]
      BY <1>0, <3>2 DEF Current, Jobs
    <3> QED BY <2>3, <3>1, <3>2
  <2> QED BY <2>1, <2>2, <2>4, <2>5 DEF MarkRead, At
<1>4. ASSUME Mark(m)
      PROVE MarkersVouch' /\ MarkRead(m)' /\ manifest' = manifest /\ outdated' = outdated
  <2>1. /\ At(m, "mark") /\ UNCHANGED <<manifest, outdated>>
        /\ marker' \subseteq marker \cup {job[m].at} /\ job'[m].pc = "check"
    BY <1>0, <1>4 DEF Mark, store, Known, TypeOK, Jobs
  <2>2. MarkersVouch'
    BY <1>0, <1>o, <2>1, VouchStays DEF At, MarkRead
  <2> QED BY <2>1, <2>2 DEF MarkRead, At
<1>5. ASSUME Checked(m) \/ (\E p \in Platforms : Notify(m, p)) \/ Acknowledge(m)
      PROVE MarkersVouch' /\ MarkRead(m)' /\ manifest' = manifest /\ outdated' = outdated
  <2>1. ~At(m, "convert") /\ UNCHANGED <<manifest, outdated, marker>>
    BY <1>5 DEF Checked, Notify, Acknowledge, store, At
  <2>2. job'[m].pc # "mark"
    <3>1. CASE Checked(m)
      <4>1. job'[m].pc \in {"notify", "convert"}
        BY <1>0, <3>1 DEF Checked, TypeOK, Jobs
      <4> QED BY <4>1
    <3>2. CASE \E p \in Platforms : Notify(m, p)
      BY <1>0, <3>2 DEF Notify, TypeOK, Jobs, At
    <3>3. CASE Acknowledge(m)
      BY <1>0, <3>3 DEF Acknowledge, Settle, Idle, TypeOK
    <3> QED BY <1>5, <3>1, <3>2, <3>3
  <2>3. MarkersVouch'
    BY <1>0, <1>o, <2>1, VouchStays
  <2> QED BY <2>1, <2>2, <2>3 DEF MarkRead, At
<1>6. ASSUME NEW p \in Platforms, Convert(m, p)
      PROVE MarkersVouch' /\ (\A n \in Messages : MarkRead(n)') /\ outdated \subseteq outdated'
  <2>1. /\ At(m, "convert") /\ marker' = marker
        /\ job'[m].pc = "convert" /\ job'[m].put = job[m].put \cup {p}
    BY <1>0, <1>6 DEF Convert, TypeOK, Jobs, At
  <2>2. MarkRead(m)'
    BY <2>1 DEF MarkRead, At
  <2>3. CASE manifest' = manifest /\ outdated' = outdated
    <3>1. MarkersVouch'
      BY <1>0, <1>o, <2>1, <2>3, VouchStays DEF At
    <3> QED BY <1>m, <2>2, <2>3, <3>1
  <2>4. ASSUME NEW verdict \in {"good", "tolerated"}, PutManifest(m, p, verdict)
        PROVE MarkersVouch' /\ (\A n \in Messages : MarkRead(n)') /\ outdated \subseteq outdated'
    <3>1. /\ outdated \subseteq outdated'
          /\ \A n \in Messages \ {m} :
               At(n, "mark") /\ job[n].at \notin outdated' => manifest'[job[n].at] = "good"
          /\ \A q \in marker \ outdated' :
               \/ manifest'[q] = manifest[q]
               \/ q = p /\ m \in Forced /\ At(m, "convert")
      BY <2>1, <2>4, WriteRecorded DEF Verdicts
    <3>2. MarkersVouch'
      BY <1>0, <1>o, <2>1, <3>1, VouchStays DEF At
    <3>3. \A n \in Messages : MarkRead(n)'
      BY <1>o, <2>2, <3>1 DEF MarkRead, At
    <3> QED BY <3>1, <3>2, <3>3
  <2> QED BY <1>6, <2>3, <2>4 DEF Convert
<1>7. CASE Publish(m)
  <2>1. /\ Forget(m) /\ manifest' = manifest /\ job'[m].pc = "notify"
    BY <1>0, <1>7 DEF Publish, TypeOK, Jobs
  <2>2. MarkRead(m)'
    BY <2>1 DEF MarkRead, At
  <2>3. CASE m \in Forced
    <3>1. MarkersVouch'
      BY <2>1, <2>3, ForgetRecords DEF MarkersVouch
    <3> QED BY <1>m, <2>1, <2>2, <3>1, ForgetRecords
  <2>4. CASE m \notin Forced
    <3>1. marker' = marker /\ outdated' = outdated
      BY <2>1, <2>4 DEF Forget
    <3>2. MarkersVouch'
      <4> SUFFICES ASSUME NEW q \in marker \ outdated, manifest[q] # "good"
                   PROVE \E n \in Forced : At(n, "convert")' /\ q \in job'[n].put
        BY <2>1, <3>1 DEF MarkersVouch
      <4>1. PICK n \in Forced : At(n, "convert") /\ q \in job[n].put
        BY <1>0 DEF MarkersVouch
      <4>2. n \in Messages \ {m}
        BY <2>4, JobsAssumption
      <4> QED BY <1>o, <4>1, <4>2 DEF At
    <3> QED BY <1>m, <2>1, <2>2, <3>1, <3>2
  <2> QED BY <2>3, <2>4
<1>8. CASE Tombstone(m)
  <2>1. /\ At(m, "tombstone") /\ marker' = marker /\ job[m].at \in Platforms
        /\ PutManifest(m, job[m].at, "tomb") /\ job'[m].pc = "check"
    BY <1>0, <1>8 DEF Tombstone, TypeOK, Jobs, Shape, At
  <2>2. /\ outdated \subseteq outdated'
        /\ \A n \in Messages \ {m} :
             At(n, "mark") /\ job[n].at \notin outdated' => manifest'[job[n].at] = "good"
        /\ \A q \in marker \ outdated' : manifest'[q] = manifest[q]
    BY <2>1, WriteRecorded DEF Verdicts, At
  <2>3. MarkersVouch'
    BY <1>0, <1>o, <2>1, <2>2, VouchStays DEF At
  <2>4. \A n \in Messages : MarkRead(n)'
    BY <1>o, <2>1, <2>2 DEF MarkRead, At
  <2> QED BY <2>2, <2>3, <2>4
<1> QED BY <1>m, <1>1, <1>2, <1>3, <1>4, <1>5, <1>6, <1>7, <1>8 DEF Moves, Runs

--------------------------------------------------------------------------------
\* While nothing is disturbed, the job that moves is the only one.
LEMMA OnlyOne ==
  ASSUME IInv, NEW m \in Messages, Moves(m), ~disturbed'
  PROVE /\ ~disturbed
        /\ \A n \in Messages \ {m} : msg[n] # "running" /\ job[n] = Idle /\ job'[n] = Idle
        /\ Alone'
<1>0. TypeOK /\ Shape(m) /\ Alone
  BY DEF IInv
<1>1. ~disturbed
  BY <1>0 DEF Moves, Receive, Fails, Runs, Check, Mark, Checked, Convert, Publish, Tombstone, Notify,
         Acknowledge, store, TypeOK
<1>2. \A n \in Messages \ {m} : msg[n] # "running"
  <2>1. CASE Receive(m)
    BY <2>1 DEF Receive
  <2>2. CASE ~Receive(m)
    <3>1. msg[m] = "running"
      <4>1. CASE Fails(m) BY <4>1 DEF Fails
      <4>2. CASE Runs(m)
        <5>1. ~At(m, "idle")
          BY <4>2 DEF Runs, Check, Mark, Checked, Convert, Publish, Tombstone, Notify, Acknowledge, At
        <5> QED BY <1>0, <5>1 DEF TypeOK, At, Idle
      <4> QED BY <2>2, <4>1, <4>2 DEF Moves
    <3> QED BY <1>0, <1>1, <3>1 DEF Alone
  <2> QED BY <2>1, <2>2
<1>3. \A n \in Messages \ {m} : msg'[n] = msg[n] /\ job'[n] = job[n] /\ job[n] = Idle
  BY <1>0, <1>2, OthersUntouched DEF TypeOK
<1>4. Alone'
  BY <1>2, <1>3 DEF Alone
<1> QED BY <1>1, <1>2, <1>3, <1>4

LEMMA IdleAgrees ==
  ASSUME NEW n \in Messages, job'[n] = Idle, NEW p \in Platforms
  PROVE Agrees(n, p)'
BY DEF Agrees, At, Idle

LEMMA JobAgrees ==
  ASSUME IInv, NEW m \in Messages, Moves(m), ~disturbed', NEW p \in Platforms \ outdated'
  PROVE Agrees(m, p)'
<1>0. TypeOK /\ Shape(m) /\ MarkersVouch /\ MarkRead(m) /\ job[m] \in Jobs
  BY DEF IInv, TypeOK
<1>a. Agrees(m, p)
  BY OnlyOne, MarksKeep DEF IInv, JobsAgree
<1>p. p \notin outdated
  BY MarksKeep
<1> USE DEF At
<1>1. CASE Receive(m)
  <2>1. job'[m].pc = "check" /\ job'[m].already = {} /\ ~job'[m].last
    BY <1>0, <1>1 DEF Receive, Idle, TypeOK
  <2> QED BY <2>1 DEF Agrees
<1>2. CASE Fails(m)
  <2>1. CASE GiveUp(m)
    <3>1. job'[m] = Idle
      BY <1>0, <2>1 DEF GiveUp, Settle, TypeOK
    <3> QED BY <3>1, IdleAgrees
  <2>2. CASE ~GiveUp(m)
    <3> DEFINE j == [Idle EXCEPT !.pc = "check", !.last = TRUE, !.left = Platforms]
    <3>1. job' = [job EXCEPT ![m] = j]
      BY <1>2, <2>2 DEF Fails
    <3>2. j.pc = "check" /\ j.already = {} /\ j.left = Platforms
      BY DEF Idle
    <3> HIDE DEF j
    <3>3. job'[m] = j
      BY <1>0, <3>1 DEF TypeOK
    <3> QED BY <3>2, <3>3 DEF Agrees
  <2> QED BY <2>1, <2>2
<1>3. ASSUME NEW q \in Platforms, Check(m, q) PROVE Agrees(m, p)'
  <2>1. At(m, "check") /\ manifest' = manifest /\ q \in job[m].left
    BY <1>3 DEF Check, Turn, store
  <2>2. CASE q \in marker /\ job' = [job EXCEPT ![m] = Known(m, q)]
    <3>1. q \notin outdated => manifest[q] = "good"
      BY <1>0, <2>1, <2>2, OnlyOne, JobsAssumption DEF MarkersVouch, Idle
    <3>2. /\ job'[m].pc = "check" /\ job'[m].last = job[m].last
          /\ job'[m].left = job[m].left \ {q} /\ job'[m].already = job[m].already \cup {q}
      BY <1>0, <2>2 DEF Known, TypeOK, Jobs
    <3> QED BY <1>a, <1>p, <2>1, <3>1, <3>2 DEF Agrees
  <2>3. CASE job' = [job EXCEPT ![m].pc = "mark", ![m].at = q]
    <3>1. /\ job'[m].pc = "mark" /\ job'[m].last = job[m].last
          /\ job'[m].left = job[m].left /\ job'[m].already = job[m].already
      BY <1>0, <2>3 DEF TypeOK, Jobs
    <3> QED BY <1>a, <2>1, <3>1 DEF Agrees
  <2>4. CASE job' = [job EXCEPT ![m] = Unknown(m, q)]
    <3>1. CASE job[m].last
      <4>1. /\ job'[m].pc = "tombstone" /\ job'[m].last = job[m].last
            /\ job'[m].left = job[m].left /\ job'[m].already = job[m].already
        BY <1>0, <2>4, <3>1 DEF Unknown, TypeOK, Jobs
      <4> QED BY <1>a, <2>1, <4>1 DEF Agrees
    <3>2. CASE ~job[m].last
      <4>1. job'[m].pc = "check" /\ ~job'[m].last /\ job'[m].already = job[m].already
        BY <1>0, <2>1, <2>4, <3>2 DEF Unknown, TypeOK, Jobs
      <4> QED BY <1>a, <2>1, <4>1 DEF Agrees
    <3> QED BY <3>1, <3>2
  <2> QED BY <1>3, <2>2, <2>3, <2>4 DEF Check
<1>4. CASE Mark(m)
  <2>1. At(m, "mark") /\ manifest' = manifest /\ job' = [job EXCEPT ![m] = Known(m, job[m].at)]
    BY <1>4 DEF Mark, store
  <2>2. job[m].at \notin outdated => manifest[job[m].at] = "good"
    BY <1>0, <2>1 DEF MarkRead
  <2>3. /\ job'[m].pc = "check" /\ job'[m].last = job[m].last
        /\ job'[m].left = job[m].left \ {job[m].at}
        /\ job'[m].already = job[m].already \cup {job[m].at}
    BY <1>0, <2>1 DEF Known, TypeOK, Jobs
  <2> QED BY <1>a, <1>p, <2>1, <2>2, <2>3 DEF Agrees
<1>5. CASE Checked(m)
  <2>1. At(m, "check") /\ manifest' = manifest /\ job[m].left = {}
    BY <1>5 DEF Checked, store
  <2>2. CASE job[m].last \/ Platforms \ job[m].already = {}
    <3>1. /\ job'[m].pc = "notify" /\ job'[m].left = Platforms /\ job'[m].last = job[m].last
          /\ job'[m].already = job[m].already
      BY <1>0, <1>5, <2>2 DEF Checked, TypeOK, Jobs
    <3>2. manifest'[p] = Status(m, p)'
      <4>1. CASE p \in job[m].already
        <5>1. manifest[p] = "good" /\ p \in job'[m].already
          BY <1>a, <3>1, <4>1 DEF Agrees
        <5> QED BY <2>1, <5>1 DEF Status
      <4>2. CASE p \notin job[m].already
        <5>1. manifest[p] = "tomb" /\ p \notin job'[m].already /\ job'[m].last
          BY <1>a, <2>1, <2>2, <3>1, <4>2 DEF Agrees
        <5> QED BY <2>1, <5>1 DEF Status
      <4> QED BY <4>1, <4>2
    <3> QED BY <1>a, <2>1, <3>1, <3>2 DEF Agrees
  <2>3. CASE ~(job[m].last \/ Platforms \ job[m].already = {})
    <3>1. /\ job'[m].pc = "convert" /\ job'[m].left = Platforms \ job[m].already
          /\ job'[m].already = job[m].already
      BY <1>0, <1>5, <2>3 DEF Checked, TypeOK, Jobs
    <3> QED BY <1>a, <2>1, <3>1 DEF Agrees
  <2> QED BY <2>2, <2>3
<1>6. ASSUME NEW q \in Platforms, Convert(m, q) PROVE Agrees(m, p)'
  <2>1. PICK verdict \in {"good", "tolerated"} :
          /\ PutManifest(m, q, verdict)
          /\ job' = [job EXCEPT ![m].left = @ \ {q}, ![m].put = @ \cup {q},
                                ![m].tolerated = IF verdict = "good" THEN @ ELSE @ \cup {q}]
    BY <1>6 DEF Convert
  <2>2. At(m, "convert") /\ q \in job[m].left
    BY <1>6 DEF Convert, Turn
  <2>3. /\ job'[m].pc = "convert" /\ job'[m].left = job[m].left \ {q}
        /\ job'[m].already = job[m].already
        /\ job'[m].tolerated = IF verdict = "good" THEN job[m].tolerated ELSE job[m].tolerated \cup {q}
    BY <1>0, <2>1, <2>2 DEF TypeOK, Jobs
  <2>4. manifest'[p] = IF p = q THEN verdict ELSE manifest[p]
    BY <1>0, <2>1 DEF PutManifest, TypeOK
  <2>5. q \notin job[m].already /\ q \notin job[m].tolerated
    BY <1>0, <2>2 DEF Shape
  <2> QED BY <1>a, <2>2, <2>3, <2>4, <2>5 DEF Agrees
<1>7. CASE Publish(m)
  <2>1. At(m, "convert") /\ manifest' = manifest /\ job[m].left = {} /\ ~job[m].last
    BY <1>0, <1>7 DEF Publish, Shape
  <2>2. /\ job'[m].pc = "notify" /\ job'[m].left = Platforms /\ ~job'[m].last
        /\ job'[m].already = job[m].already /\ job'[m].tolerated = job[m].tolerated
    BY <1>0, <1>7, <2>1 DEF Publish, TypeOK, Jobs
  <2>3. manifest'[p] = Status(m, p)'
    <3>1. CASE p \in job[m].already
      <4>1. manifest[p] = "good" /\ p \in job'[m].already
        BY <1>a, <2>2, <3>1 DEF Agrees
      <4> QED BY <2>1, <4>1 DEF Status
    <3>2. CASE p \notin job[m].already
      <4>1. /\ manifest[p] = IF p \in job'[m].tolerated THEN "tolerated" ELSE "good"
            /\ p \notin job'[m].already /\ ~job'[m].last
        BY <1>a, <2>1, <2>2, <3>2 DEF Agrees
      <4> QED BY <2>1, <4>1 DEF Status
    <3> QED BY <3>1, <3>2
  <2> QED BY <1>a, <2>1, <2>2, <2>3 DEF Agrees
<1>8. CASE Tombstone(m)
  <2> DEFINE q == job[m].at
  <2>1. At(m, "tombstone") /\ PutManifest(m, q, "tomb")
        /\ job' = [job EXCEPT ![m].pc = "check", ![m].left = @ \ {q}, ![m].at = None]
    BY <1>8 DEF Tombstone
  <2>2. q \in job[m].left /\ q \notin job[m].already
    BY <1>0, <2>1 DEF Shape
  <2>3. /\ job'[m].pc = "check" /\ job'[m].left = job[m].left \ {q}
        /\ job'[m].already = job[m].already /\ job'[m].last = job[m].last
    BY <1>0, <2>1 DEF TypeOK, Jobs
  <2>4. manifest'[p] = IF p = q THEN "tomb" ELSE manifest[p]
    BY <1>0, <2>1 DEF PutManifest, TypeOK
  <2> QED BY <1>a, <2>1, <2>2, <2>3, <2>4 DEF Agrees
<1>9. ASSUME NEW q \in Platforms, Notify(m, q) PROVE Agrees(m, p)'
  <2>1. /\ At(m, "notify") /\ manifest' = manifest /\ q \in job[m].left
        /\ event' = [event EXCEPT ![q] = Status(m, q)]
        /\ job' = [job EXCEPT ![m].left = @ \ {q}]
    BY <1>9 DEF Notify, Turn, store
  <2>2. /\ job'[m].pc = "notify" /\ job'[m].left = job[m].left \ {q} /\ job'[m].last = job[m].last
        /\ job'[m].already = job[m].already /\ job'[m].tolerated = job[m].tolerated
    BY <1>0, <2>1 DEF TypeOK, Jobs
  <2>3. event'[p] = IF p = q THEN Status(m, p) ELSE event[p]
    BY <1>0, <2>1 DEF TypeOK
  <2>4. Status(m, p)' = Status(m, p)
    BY <2>2 DEF Status
  <2> QED BY <1>a, <2>1, <2>2, <2>3, <2>4 DEF Agrees
<1>10. CASE Acknowledge(m)
  <2>1. job'[m] = Idle
    BY <1>0, <1>10 DEF Acknowledge, Settle, TypeOK
  <2> QED BY <2>1, IdleAgrees
<1> QED BY <1>1, <1>2, <1>3, <1>4, <1>5, <1>6, <1>7, <1>8, <1>9, <1>10 DEF Moves, Runs

\* The last message is acknowledged when its job has sent every event.
LEMMA RegistryKeeps ==
  ASSUME IInv, NEW m \in Messages, Moves(m)
  PROVE RegistryAgrees'
<1>0. TypeOK /\ Shape(m)
  BY DEF IInv
<1> SUFFICES ASSUME ~disturbed', msg'[m] = "acked", NEW p \in Platforms \ outdated'
             PROVE event'[p] = manifest'[p]
  BY DEF RegistryAgrees
<1>1. Acknowledge(m)
  <2>1. CASE Receive(m) BY <1>0, <2>1 DEF Receive, TypeOK
  <2>2. CASE Fails(m) BY <1>0, <2>2 DEF Fails, GiveUp, Settle, TypeOK
  <2>3. CASE Runs(m) /\ ~Acknowledge(m)
    <3>1. msg'[m] = msg[m] /\ ~At(m, "idle")
      BY <2>3 DEF Runs, Check, Mark, Checked, Convert, Publish, Tombstone, Notify, At
    <3> QED BY <1>0, <3>1 DEF TypeOK, At, Idle
  <2> QED BY <2>1, <2>2, <2>3 DEF Moves
<1>2. At(m, "notify") /\ job[m].left = {} /\ UNCHANGED <<manifest, event, outdated>>
  BY <1>1 DEF Acknowledge, store
<1>3. Agrees(m, p)
  BY <1>2, OnlyOne DEF IInv, JobsAgree
<1> QED BY <1>2, <1>3 DEF Agrees

LEMMA MovesKeep ==
  ASSUME IInv, NEW m \in Messages, Moves(m)
  PROVE IInv'
<1>1. TypeOK' /\ Shape(m)'
  BY MovesType DEF IInv
<1>2. \A n \in Messages : Shape(n)'
  <2> SUFFICES ASSUME NEW n \in Messages \ {m} PROVE Shape(n)'
    BY <1>1
  <2>1. msg'[n] = msg[n] /\ receives'[n] = receives[n] /\ job'[n] = job[n]
    BY OthersUntouched DEF IInv
  <2> QED BY <2>1 DEF IInv, Shape, At
<1>3. MarkersVouch' /\ (\A n \in Messages : MarkRead(n)')
  BY MarksKeep
<1>4. Alone'
  BY OnlyOne DEF Alone
<1>5. JobsAgree'
  <2> SUFFICES ASSUME ~disturbed', NEW n \in Messages, NEW p \in Platforms \ outdated'
               PROVE Agrees(n, p)'
    BY DEF JobsAgree
  <2> QED BY JobAgrees, IdleAgrees, OnlyOne
<1>6. RegistryAgrees'
  BY RegistryKeeps
<1> QED BY <1>1, <1>2, <1>3, <1>4, <1>5, <1>6 DEF IInv

LEMMA ExpiryKeeps ==
  ASSUME IInv, NEW q \in Platforms, MarkerExpires(q)
  PROVE IInv'
<1>1. /\ TypeOK' /\ marker' \subseteq marker
      /\ UNCHANGED <<manifest, event, msg, receives, job, outdated, disturbed>>
  BY ExpiryType DEF IInv, MarkerExpires, store
<1>2. \A m \in Messages : Shape(m)' /\ MarkRead(m)'
  BY <1>1 DEF IInv, Shape, MarkRead, At
<1>3. MarkersVouch'
  BY <1>1 DEF IInv, MarkersVouch, At
<1>4. JobsAgree'
  BY <1>1 DEF IInv, JobsAgree, Agrees, At, Status
<1> QED BY <1>1, <1>2, <1>3, <1>4 DEF IInv, Alone, RegistryAgrees

LEMMA StepIInv == IInv /\ [Next]_vars => IInv'
<1> SUFFICES ASSUME IInv, [Next]_vars PROVE IInv'
  OBVIOUS
<1>1. CASE UNCHANGED vars
  <2>1. TypeOK' BY <1>1 DEF vars, IInv, TypeOK
  <2>2. \A m \in Messages : Shape(m)' /\ MarkRead(m)'
    BY <1>1 DEF vars, IInv, Shape, MarkRead, At
  <2>3. MarkersVouch' /\ Alone' /\ RegistryAgrees'
    BY <1>1 DEF vars, IInv, MarkersVouch, Alone, RegistryAgrees, At
  <2>4. JobsAgree'
    BY <1>1 DEF vars, IInv, JobsAgree, Agrees, At, Status
  <2> QED BY <2>1, <2>2, <2>3, <2>4 DEF IInv
<1> QED BY <1>1, MovesKeep, ExpiryKeeps DEF Next, Moves

--------------------------------------------------------------------------------
(* Theorems *)

\* The invariant that carries the theorems below is inductive.
THEOREM Inductive == Spec => []IInv
BY InitIInv, StepIInv, PTL DEF Spec

\* For any number of messages, the state has its types, no message is received more often than
\* the queue redrives it, and only a running one has a job (instrumented_job).
THEOREM TypeCorrect == Spec => []TypeOK
<1>1. IInv => TypeOK
  BY DEF IInv
<1> QED BY <1>1, Inductive, PTL

\* However jobs of one entity run side by side, fail and are redelivered: a marker vouches for
\* a good manifest, but in the cases outdated records and before a forced job forgets
\* (converted_lane, publish_forget_notify).
THEOREM MarkersTrue == Spec => []MarkersVouch
<1>1. IInv => MarkersVouch
  BY DEF IInv
<1> QED BY <1>1, Inductive, PTL

\* With one job at a time and no lost put, for any number of messages and platforms: once all
\* are acknowledged, the last event of a platform is what the store holds of it, whichever
\* deliveries failed in between (send_finished, convert_asset_bundles).
THEOREM RegistryHears == Spec => []RegistryAgrees
<1>1. IInv => RegistryAgrees
  BY DEF IInv
<1> QED BY <1>1, Inductive, PTL
================================================================================
