-------------------------- MODULE SingleFlightProofs --------------------------
(***************************************************************************)
(* Proofs about SingleFlight, for any threads, keys and values.            *)
(***************************************************************************)
EXTENDS SingleFlight, TLAPS

\* A leader's call is listed under its key, with a result once it is published.
LeadersAreListed ==
  \A t \in Threads : pc[t] \in Leading =>
    /\ key[t] \in Keys
    /\ calls[key[t]].leader = t
    /\ calls[key[t]].result = None <=> pc[t] \in Unfinished

\* A listed call has its leader inside.
ListedAreLed ==
  \A k \in Keys : calls[k] # NoCall =>
    /\ calls[k].leader \in Threads
    /\ pc[calls[k].leader] \in Leading
    /\ key[calls[k].leader] = k

\* Whoever holds an unfinished call waits for it, and its leader is at work on the same key.
HeldAreUnfinished ==
  \A t \in Threads : joined[t] # None =>
    /\ pc[t] = "waiting" /\ got[t] = None
    /\ pc[joined[t]] \in Unfinished
    /\ key[joined[t]] = key[t]

\* A waiting thread holds an unfinished call or has a result; only then does it sleep.
WaitersHold ==
  \A t \in Threads :
    /\ pc[t] = "waiting" => key[t] \in Keys /\ (got[t] = None => joined[t] # None)
    /\ t \in asleep => pc[t] = "waiting" /\ got[t] = None
    /\ pc[t] = "returned" => got[t] # None

IInv ==
  /\ TypeOK
  /\ LeadersAreListed
  /\ ListedAreLed
  /\ HeldAreUnfinished
  /\ WaitersHold

--------------------------------------------------------------------------------
LEMMA TypeStep == IInv /\ [Next]_flight => TypeOK'
<1> SUFFICES ASSUME IInv, TypeOK, [Next]_flight PROVE TypeOK'
  BY DEF IInv
<1> USE NoneAssumption DEF TypeOK, Goto, Results, Leading, Unfinished, NoCall, flight
<1>1. ASSUME NEW t \in Threads, NEW k \in Keys, Lead(t, k) PROVE TypeOK'
  BY <1>1 DEF Lead
<1>2. ASSUME NEW t \in Threads, NEW k \in Keys, Join(t, k) PROVE TypeOK'
  BY <1>2 DEF Join
<1>3. ASSUME NEW t \in Threads, FlightGoesOn(t) PROVE TypeOK'
  <2>1. CASE Sleep(t) BY <2>1 DEF Sleep
  <2>2. CASE TakeResult(t) BY <2>2 DEF TakeResult, Leave
  <2>3. CASE Publish(t)
    <3>1. Outcome(t) \in Results BY <2>3 DEF Publish, Outcome, IInv, WaitersHold
    <3>2. \A w \in Threads : joined[w] = t => pc[w] = "waiting"
      BY DEF IInv, HeldAreUnfinished
    <3> QED BY <2>3, <3>1, <3>2 DEF Publish, Members
  <2>4. CASE Unlist(t) BY <2>4 DEF Unlist, Leave
  <2> QED BY <1>3, <2>1, <2>2, <2>3, <2>4 DEF FlightGoesOn
<1>4. ASSUME NEW t \in Threads, WakeForNothing(t) PROVE TypeOK'
  BY <1>4 DEF WakeForNothing
<1>5. ASSUME NEW t \in Threads, WorkPanics(t) PROVE TypeOK'
  BY <1>5 DEF WorkPanics
<1>6. ASSUME NEW t \in Threads, NEW v \in Results, WorkReturns(t, v) PROVE TypeOK'
  BY <1>6 DEF WorkReturns
<1>7. CASE UNCHANGED flight
  BY <1>7
<1> QED BY <1>1, <1>2, <1>3, <1>4, <1>5, <1>6, <1>7 DEF Next

LEMMA InitIInv == Init => IInv
BY NoneAssumption DEF Init, IInv, TypeOK, LeadersAreListed, ListedAreLed, HeldAreUnfinished,
                      WaitersHold, Leading, Unfinished, NoCall, Results

LEMMA StepIInv == IInv /\ [Next]_flight => IInv'
<1> SUFFICES ASSUME IInv, [Next]_flight PROVE IInv'
  OBVIOUS
<1>t. TypeOK /\ TypeOK'
  BY TypeStep DEF IInv
<1> USE <1>t, NoneAssumption DEF IInv, TypeOK, Goto, Leading, Unfinished, NoCall
<1>1. ASSUME NEW t \in Threads, NEW k \in Keys, Lead(t, k) PROVE IInv'
  <2> USE <1>1 DEF Lead
  <2>1. LeadersAreListed' BY DEF LeadersAreListed
  <2>2. ListedAreLed' BY DEF ListedAreLed
  <2>3. HeldAreUnfinished' BY DEF HeldAreUnfinished
  <2>4. WaitersHold' BY DEF WaitersHold
  <2> QED BY <2>1, <2>2, <2>3, <2>4
<1>2. ASSUME NEW t \in Threads, NEW k \in Keys, Join(t, k) PROVE IInv'
  <2> USE <1>2 DEF Join
  <2>1. LeadersAreListed' BY DEF LeadersAreListed
  <2>2. ListedAreLed' BY DEF ListedAreLed
  <2>3. HeldAreUnfinished' BY DEF HeldAreUnfinished, ListedAreLed, LeadersAreListed
  <2>4. WaitersHold' BY DEF WaitersHold, ListedAreLed
  <2> QED BY <2>1, <2>2, <2>3, <2>4
<1>3. ASSUME NEW t \in Threads, Sleep(t) PROVE IInv'
  BY <1>3 DEF Sleep, LeadersAreListed, ListedAreLed, HeldAreUnfinished, WaitersHold
<1>4. ASSUME NEW t \in Threads, TakeResult(t) PROVE IInv'
  BY <1>4 DEF TakeResult, Leave, LeadersAreListed, ListedAreLed, HeldAreUnfinished, WaitersHold
<1>5. ASSUME NEW t \in Threads, Publish(t) PROVE IInv'
  <2> USE <1>5 DEF Publish
  <2>1. Outcome(t) # None
    BY DEF Outcome, WaitersHold
  <2>2. LeadersAreListed' BY <2>1 DEF LeadersAreListed, HeldAreUnfinished, IsCallOf, Members
  <2>3. ListedAreLed' BY DEF ListedAreLed, IsCallOf
  <2>4. HeldAreUnfinished' BY DEF HeldAreUnfinished, Members
  <2>5. WaitersHold' BY <2>1 DEF WaitersHold, HeldAreUnfinished, Members
  <2> QED BY <2>2, <2>3, <2>4, <2>5
<1>6. ASSUME NEW t \in Threads, Unlist(t) PROVE IInv'
  <2> USE <1>6 DEF Unlist, Leave
  <2>1. LeadersAreListed' BY DEF LeadersAreListed, IsCallOf
  <2>2. ListedAreLed' BY DEF ListedAreLed, LeadersAreListed, IsCallOf
  <2>3. HeldAreUnfinished' BY DEF HeldAreUnfinished
  <2>4. WaitersHold' BY DEF WaitersHold
  <2> QED BY <2>1, <2>2, <2>3, <2>4
<1>7. ASSUME NEW t \in Threads, WakeForNothing(t) PROVE IInv'
  BY <1>7 DEF WakeForNothing, LeadersAreListed, ListedAreLed, HeldAreUnfinished, WaitersHold
<1>8. ASSUME NEW t \in Threads, WorkPanics(t) PROVE IInv'
  BY <1>8 DEF WorkPanics, LeadersAreListed, ListedAreLed, HeldAreUnfinished, WaitersHold
<1>9. ASSUME NEW t \in Threads, NEW v \in Results, WorkReturns(t, v) PROVE IInv'
  BY <1>9 DEF WorkReturns, Results, LeadersAreListed, ListedAreLed, HeldAreUnfinished, WaitersHold
<1>10. CASE UNCHANGED flight
  BY <1>10 DEF flight, LeadersAreListed, ListedAreLed, HeldAreUnfinished, WaitersHold
<1> QED BY <1>1, <1>2, <1>3, <1>4, <1>5, <1>6, <1>7, <1>8, <1>9, <1>10 DEF Next, FlightGoesOn

--------------------------------------------------------------------------------
\* The inductive invariant holds in every state of a single-flight group.
THEOREM Inductive == Spec => []IInv
BY InitIInv, StepIInv, PTL DEF Spec

\* Group::run_with_leader keeps its data well-formed, and a waiter always has a call without
\* a result, or a result.
THEOREM TypeCorrect == Spec => []TypeOK
<1>1. IInv => TypeOK BY DEF IInv
<1> QED BY <1>1, Inductive, PTL

\* However threads join, panic and come back, a key has one leader at a time.
THEOREM OneLeader == Spec => []OneLeaderPerKey
<1>1. IInv => OneLeaderPerKey BY DEF IInv, LeadersAreListed, OneLeaderPerKey
<1> QED BY <1>1, Inductive, PTL

\* No wakeup of the condition variable is lost, for any number of waiters.
THEOREM NoLostWakeup == Spec => []SleepersHaveLeaders
<1>1. IInv => SleepersHaveLeaders
  <2> SUFFICES ASSUME IInv, NEW t \in Threads, t \in asleep \/ (pc[t] = "waiting" /\ got[t] = None)
               PROVE \E l \in Threads : /\ joined[t] = l /\ key[l] = key[t]
                                        /\ pc[l] \in Unfinished
                                        /\ calls[key[t]] = [leader |-> l, result |-> None]
    BY DEF SleepersHaveLeaders
  <2>1. joined[t] \in Threads /\ key[t] \in Keys
    BY DEF IInv, TypeOK, WaitersHold
  <2>2. pc[joined[t]] \in Unfinished /\ key[joined[t]] = key[t]
    BY <2>1, NoneAssumption DEF IInv, HeldAreUnfinished
  <2>3. calls[key[t]].leader = joined[t] /\ calls[key[t]].result = None
    BY <2>1, <2>2 DEF IInv, LeadersAreListed, Leading
  <2>4. calls[key[t]] = [leader |-> joined[t], result |-> None]
    BY <2>1, <2>3 DEF IInv, TypeOK
  <2> QED BY <2>1, <2>2, <2>4
<1> QED BY <1>1, Inductive, PTL
================================================================================
