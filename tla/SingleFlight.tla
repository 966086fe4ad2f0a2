----------------------------- MODULE SingleFlight -----------------------------
(***************************************************************************)
(* Group::run_with_leader of crate/src/singleflight.rs: of the threads     *)
(* that ask for one key at a time, the first does the work and the others  *)
(* wait for its result.                                                    *)
(*                                                                         *)
(* A thread leads one call at most, so an unfinished call is named by its  *)
(* leader.  A result is written once: publishing hands it to every waiter  *)
(* of the call, and leaves it with the call for whoever still finds it.    *)
(***************************************************************************)
EXTENDS FiniteSets

CONSTANTS
  Threads,
  Keys,
  Values,        \* what the work can return
  Default,       \* V::default(), what the waiters of a panicking leader get
  None           \* no call, no result, no key

ASSUME NoneAssumption == None \notin Threads \cup Keys \cup Values \cup {Default}

VARIABLES
  calls,         \* Group.calls: the call of each key, leader None where there is none
  pc,            \* where each thread is in run_with_leader
  key,           \* the key each thread asks for
  joined,        \* the leader of the unfinished call a waiting thread holds
  got,           \* the result a thread has: of its own work, or of the call it waits for
  asleep         \* the threads blocked on a call's condition variable

flight == <<calls, pc, key, joined, got, asleep>>

Results == Values \cup {Default}
NoCall == [leader |-> None, result |-> None]
Unfinished == {"working", "panicked", "returned"}
Leading == Unfinished \cup {"published"}

\* The types of the calls and the threads; a thread that waits holds either a call that has
\* no result yet or a result, so result.is_none() is the whole condition of its loop.
TypeOK ==
  /\ calls \in [Keys -> [leader : Threads \cup {None}, result : Results \cup {None}]]
  /\ pc \in [Threads -> Leading \cup {"outside", "waiting"}]
  /\ key \in [Threads -> Keys \cup {None}]
  /\ joined \in [Threads -> Threads \cup {None}]
  /\ got \in [Threads -> Results \cup {None}]
  /\ asleep \subseteq Threads
  /\ \A t \in Threads : pc[t] = "waiting" => (got[t] = None <=> joined[t] # None)

Init ==
  /\ calls = [k \in Keys |-> NoCall]
  /\ pc = [t \in Threads |-> "outside"]
  /\ key = [t \in Threads |-> None]
  /\ joined = [t \in Threads |-> None]
  /\ got = [t \in Threads |-> None]
  /\ asleep = {}

--------------------------------------------------------------------------------

Goto(t, p) == pc' = [pc EXCEPT ![t] = p]

IsCallOf(k, t) == calls[k].leader = t

\* A slip: the look and the insertion are two critical sections, so a call can be replaced.
Lead_Unchecked(t, k) ==
  /\ pc[t] = "outside"
  /\ calls' = [calls EXCEPT ![k] = [leader |-> t, result |-> None]]
  /\ key' = [key EXCEPT ![t] = k]
  /\ Goto(t, "working")
  /\ UNCHANGED <<joined, got, asleep>>

\* The look at the map: insert a call, or join the one that is listed, finished or not.
Lead(t, k) ==
  /\ pc[t] = "outside"
  /\ calls[k] = NoCall
  /\ calls' = [calls EXCEPT ![k] = [leader |-> t, result |-> None]]
  /\ key' = [key EXCEPT ![t] = k]
  /\ Goto(t, "working")
  /\ UNCHANGED <<joined, got, asleep>>

Join(t, k) ==
  /\ pc[t] = "outside"
  /\ calls[k] # NoCall
  /\ key' = [key EXCEPT ![t] = k]
  /\ joined' = [joined EXCEPT ![t] = IF calls[k].result = None THEN calls[k].leader ELSE None]
  /\ got' = [got EXCEPT ![t] = calls[k].result]
  /\ Goto(t, "waiting")
  /\ UNCHANGED <<calls, asleep>>

\* Condvar::wait, which may also return for no reason.
Sleep(t) ==
  /\ pc[t] = "waiting" /\ got[t] = None
  /\ t \notin asleep
  /\ asleep' = asleep \cup {t}
  /\ UNCHANGED <<calls, pc, key, joined, got>>

WakeForNothing(t) ==
  /\ t \in asleep
  /\ asleep' = asleep \ {t}
  /\ UNCHANGED <<calls, pc, key, joined, got>>

Leave(t) ==
  /\ key' = [key EXCEPT ![t] = None]
  /\ got' = [got EXCEPT ![t] = None]
  /\ Goto(t, "outside")

TakeResult(t) ==
  /\ pc[t] = "waiting" /\ got[t] # None
  /\ t \notin asleep
  /\ Leave(t)
  /\ UNCHANGED <<calls, joined, asleep>>

\* catch_unwind(work)
WorkReturns(t, v) ==
  /\ pc[t] = "working"
  /\ got' = [got EXCEPT ![t] = v]
  /\ Goto(t, "returned")
  /\ UNCHANGED <<calls, key, joined, asleep>>

WorkPanics(t) ==
  /\ pc[t] = "working"
  /\ Goto(t, "panicked")
  /\ UNCHANGED <<calls, key, joined, got, asleep>>

\* A slip: outcome.ok(), so that a panic publishes no value at all.
Outcome_Ok(t) == IF pc[t] = "panicked" THEN None ELSE got[t]

Outcome(t) == IF pc[t] = "panicked" THEN Default ELSE got[t]

Members(t) == {w \in Threads : joined[w] = t}

\* Slips: the waiters are not notified; a panic unwinds past the publication.
Publish_Silent(t) ==
  /\ pc[t] \in {"panicked", "returned"}
  /\ calls' = [k \in Keys |-> IF IsCallOf(k, t) THEN [calls[k] EXCEPT !.result = Outcome(t)]
                                                ELSE calls[k]]
  /\ got' = [w \in Threads |-> IF w \in Members(t) THEN Outcome(t) ELSE got[w]]
  /\ joined' = [w \in Threads |-> IF w \in Members(t) THEN None ELSE joined[w]]
  /\ Goto(t, "published")
  /\ UNCHANGED <<key, asleep>>
Publish_Unwound(t) ==
  /\ pc[t] = "returned"
  /\ calls' = [k \in Keys |-> IF IsCallOf(k, t) THEN [calls[k] EXCEPT !.result = Outcome(t)]
                                                ELSE calls[k]]
  /\ got' = [w \in Threads |-> IF w \in Members(t) THEN Outcome(t) ELSE got[w]]
  /\ joined' = [w \in Threads |-> IF w \in Members(t) THEN None ELSE joined[w]]
  /\ asleep' = asleep \ Members(t)
  /\ Goto(t, "published")
  /\ UNCHANGED key

\* Under the mutex of the call: write the result, notify_all.
Publish(t) ==
  /\ pc[t] \in {"panicked", "returned"}
  /\ calls' = [k \in Keys |-> IF IsCallOf(k, t) THEN [calls[k] EXCEPT !.result = Outcome(t)]
                                                ELSE calls[k]]
  /\ got' = [w \in Threads |-> IF w \in Members(t) THEN Outcome(t) ELSE got[w]]
  /\ joined' = [w \in Threads |-> IF w \in Members(t) THEN None ELSE joined[w]]
  /\ asleep' = asleep \ Members(t)
  /\ Goto(t, "published")
  /\ UNCHANGED key

\* Remove the entry if it is still this call; then the leader returns or resumes its panic.
Unlist(t) ==
  /\ pc[t] = "published"
  /\ calls' = IF IsCallOf(key[t], t) THEN [calls EXCEPT ![key[t]] = NoCall] ELSE calls
  /\ Leave(t)
  /\ UNCHANGED <<joined, asleep>>

\* What happens to a thread inside, apart from its work.
FlightGoesOn(t) == Sleep(t) \/ TakeResult(t) \/ Publish(t) \/ Unlist(t)

Next ==
  \E t \in Threads :
    \/ \E k \in Keys : Lead(t, k) \/ Join(t, k)
    \/ FlightGoesOn(t) \/ WakeForNothing(t)
    \/ WorkPanics(t) \/ \E v \in Results : WorkReturns(t, v)

Spec == Init /\ [][Next]_flight

\* The scheduler runs every thread, and the work is assumed to end.
WorkEnds(t) == WorkPanics(t) \/ \E v \in Results : WorkReturns(t, v)

Fairness == \A t \in Threads : WF_flight(FlightGoesOn(t)) /\ WF_flight(WorkEnds(t))

FairSpec == Spec /\ Fairness

--------------------------------------------------------------------------------
(* Properties *)

\* One thread at a time works on a key, and the next one starts only when the last has told
\* its waiters and unlisted its call, whether its work returned or panicked.
OneLeaderPerKey ==
  \A s, t \in Threads : pc[s] \in Leading /\ pc[t] \in Leading /\ key[s] = key[t] => s = t

\* No wakeup is lost: a thread that sleeps, or is about to, holds a call for its own key that
\* is listed and whose leader has yet to publish.
SleepersHaveLeaders ==
  \A t \in Threads :
    t \in asleep \/ (pc[t] = "waiting" /\ got[t] = None)
      => \E l \in Threads : /\ joined[t] = l /\ key[l] = key[t]
                            /\ pc[l] \in Unfinished
                            /\ calls[key[t]] = [leader |-> l, result |-> None]

\* Every run returns, whatever became of the leader; in particular a panic poisons nothing.
EveryRunReturns == \A t \in Threads : pc[t] # "outside" ~> pc[t] = "outside"
================================================================================
