------------------------------- MODULE LruStore -------------------------------
(***************************************************************************)
(* What the disk cache promises its users, without ticks, indexes or       *)
(* running totals: known keys in an order of use, with sizes and pins.     *)
(* Recording a size evicts the oldest unpinned keys, as many as the budget *)
(* asks for and no more; nothing else ever evicts.                         *)
(***************************************************************************)
EXTENDS Naturals, FiniteSetsExt

CONSTANTS Keys, Sizes, Budget

VARIABLES
  known,      \* the keys with an entry
  older,      \* pairs of them: the first was last used before the second
  size,       \* bytes accounted to each key, 0 when none or unknown
  pins        \* how many guards each key has

lruVars == <<known, older, size, pins>>

Used(K, s) == MapThenSumSet(LAMBDA k : s[k], K)

\* The order o on the keys of K.
Among(o, K) == {x \in o : x[1] \in K /\ x[2] \in K}

\* The order of use once k is the last one used.
Latest(k) == Among(older, known \ {k}) \cup ((known \ {k}) \X {k})

Evictable(K, s, p) == {k \in K : p[k] = 0 /\ s[k] > 0}

\* E is a right choice of victims among the keys K, used in the order o: oldest first,
\* enough, and not one too many.
RightVictims(E, K, o, s, p) ==
  LET Can == Evictable(K, s, p) IN
  /\ E \X (Can \ E) \subseteq o
  /\ Used(K \ E, s) <= Budget \/ E = Can
  /\ \A v \in E : (E \ {v}) \X {v} \subseteq o => Used((K \ E) \cup {v}, s) > Budget

SettleAs(K, o, s, p) ==
  \E E \in SUBSET Evictable(K, s, p) :
    /\ known' = K \ E
    /\ older' = Among(o, K \ E)
    /\ size' = [k \in Keys |-> IF k \in E THEN 0 ELSE s[k]]
    /\ RightVictims(E, K, o, s, p)

LruInit == /\ known = {} /\ older = {}
           /\ size = [k \in Keys |-> 0]
           /\ pins = [k \in Keys |-> 0]

Pin(k) == /\ pins' = [pins EXCEPT ![k] = @ + 1]
          /\ known' = known \cup {k} /\ older' = Latest(k)
          /\ UNCHANGED size

\* A key without a size is forgotten with its last guard.
Unpin(k) ==
  /\ pins[k] > 0
  /\ pins' = [pins EXCEPT ![k] = @ - 1]
  /\ known' = IF pins[k] = 1 /\ size[k] = 0 THEN known \ {k} ELSE known
  /\ older' = Among(older, known')
  /\ UNCHANGED size

Touch(k) == /\ k \in known
            /\ older' = Latest(k)
            /\ UNCHANGED <<known, size, pins>>

\* A pinned key never shrinks: concurrent writers may report in any order.
Record(k, n) ==
  LET new == IF pins[k] > 0 /\ size[k] > n THEN size[k] ELSE n IN
  /\ UNCHANGED pins
  /\ SettleAs(known \cup {k}, Latest(k), [size EXCEPT ![k] = new], pins)

\* A new process knows nothing but what it finds on disk, in no particular order.
Restart ==
  /\ pins' = [k \in Keys |-> 0]
  /\ \E s \in [Keys -> Sizes \cup {0}] :
       LET found == {k \in Keys : s[k] > 0} IN
       /\ known' \subseteq found /\ \A k \in known' : size'[k] = s[k]
       /\ \E rank \in [found -> 1..Cardinality(found)] :
            /\ \A j, k \in found : rank[j] = rank[k] => j = k
            /\ SettleAs(found, {x \in found \X found : rank[x[1]] < rank[x[2]]}, s, pins')

LruNext ==
  \/ \E k \in Keys : Pin(k) \/ Unpin(k) \/ Touch(k) \/ \E n \in Sizes : Record(k, n)
  \/ Restart

LruSpec == LruInit /\ [][LruNext]_lruVars
================================================================================
