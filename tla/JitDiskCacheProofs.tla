--------------------------- MODULE JitDiskCacheProofs ---------------------------
(***************************************************************************)
(* Proofs about JitDiskCache, for any finite sets of keys and clients and  *)
(* any budget and sizes: the index, the guards, the running total, the     *)
(* accounts of the lanes, and that the cache implements LruStore.          *)
(***************************************************************************)
EXTENDS JitDiskCache, FiniteSetTheorems, WellFoundedInduction, TLAPS

\* The types the steps rely on; the index is typed by what it mirrors.
Typed ==
  /\ entries \in [Keys -> Entry]
  /\ clock \in Nat
  /\ disk \in [Keys -> Nat]
  /\ at \in [Clients -> Keys \cup {None}]
  /\ seen \in [Clients -> Nat]

\* An index o that mirrors the entries en up to the clock c, as in OrderMirrorsEntries.
Mirrors(o, en, c) ==
  /\ o = {[tick |-> en[k].tick, key |-> k] : k \in {j \in Keys : en[j].tick > 0}}
  /\ \A j, k \in Keys : en[j].tick > 0 /\ en[k].tick = en[j].tick => j = k
  /\ \A k \in Keys : en[k].tick <= c

\* The live paths the deleter gets are those that could not be renamed.
DoomedStuck == doomed \subseteq RenameErrors

\* A content file is at hand only to be recorded.
FilesMeasured == \A c \in Clients : at[c] \in Files => seen[c] > 0

\* What is accounted or about to be recorded of a tree exceeds what is there only where
\* files became smaller, and where it is less a lane has still to measure or to record, or
\* has given up.
TreeAccounted(k) ==
  /\ k \notin shrunk => /\ entries[k].bytes <= disk[k]
                       /\ \A c \in Clients : at[c] = k => seen[c] <= disk[k]
  /\ \/ entries[k].bytes >= disk[k]
     \/ k \in loose
     \/ \E c \in Clients : at[c] = k /\ (unsaved[c] \/ seen[c] >= disk[k])

Trees == Keys \ (Files \cup RenameErrors)

LanesAccount == \A k \in Trees : TreeAccounted(k)

\* A lane with nothing to do has nothing to record.
LanesTyped ==
  /\ unsaved \in [Clients -> BOOLEAN]
  /\ loose \subseteq Keys /\ shrunk \subseteq Keys
  /\ \A c \in Clients : at[c] = None => seen[c] = 0

Accounts == LanesTyped /\ TotalIsSum /\ LanesAccount

IInv ==
  /\ Typed
  /\ OrderMirrorsEntries
  /\ RefsAreGuards
  /\ DoomedStuck
  /\ FilesMeasured

--------------------------------------------------------------------------------
(* The bytes of a set of entries.  Bytes folds over the set, which defines it by  *)
(* recursion on subsets; what it returns is found by taking a smallest subset     *)
(* that would be an exception.                                                    *)

LEMMA MinimalSubset ==
  ASSUME NEW S, IsFiniteSet(S), NEW C \in SUBSET SUBSET S, C # {}
  PROVE  \E T \in C : \A U \in C : U \subseteq T => U = T
<1>1. IsWellFoundedOn(StrictSubsetOrdering(S), SUBSET S)
  BY FS_StrictSubsetOrderingWellFounded, FS_FiniteSubsetsOfFinite
<1>2. \E T \in C : \A U \in C : <<U, T>> \notin StrictSubsetOrdering(S)
  BY <1>1, WFMin
<1> QED BY <1>2 DEF StrictSubsetOrdering

\* g adds up the bytes of the subsets of S, one entry after the other.
Summed(g, en, S) ==
  g = [s \in SUBSET S |->
         IF s = {} THEN 0 ELSE en[CHOOSE x \in s : TRUE].bytes + g[s \ {CHOOSE x \in s : TRUE}]]

LEMMA BytesDef ==
  ASSUME NEW en, NEW S
  PROVE  Bytes(en, S) = (CHOOSE g : Summed(g, en, S))[S]
BY DEF Bytes, MapThenSumSet, MapThenFoldSet, Summed

LEMMA SummedUnique ==
  ASSUME NEW S, IsFiniteSet(S), NEW T \in SUBSET S, NEW en,
         NEW g, Summed(g, en, S), NEW h, Summed(h, en, T)
  PROVE  g[T] = h[T]
<1> DEFINE C == {s \in SUBSET T : g[s] # h[s]}
           c(s) == CHOOSE x \in s : TRUE
<1>1. SUFFICES ASSUME C # {} PROVE FALSE
  OBVIOUS
<1>2. PICK s \in C : \A u \in C : u \subseteq s => u = s
  <2>1. C \in SUBSET SUBSET S
    OBVIOUS
  <2> HIDE DEF C
  <2> QED BY <1>1, <2>1, MinimalSubset
<1>3. g[s] = IF s = {} THEN 0 ELSE en[c(s)].bytes + g[s \ {c(s)}]
  BY DEF Summed
<1>4. h[s] = IF s = {} THEN 0 ELSE en[c(s)].bytes + h[s \ {c(s)}]
  BY DEF Summed
<1>5. s # {} => g[s \ {c(s)}] = h[s \ {c(s)}]
  <2>1. s # {} => c(s) \in s
    OBVIOUS
  <2> QED BY <1>2, <2>1
<1> QED BY <1>3, <1>4, <1>5

LEMMA SummedExists ==
  ASSUME NEW S, IsFiniteSet(S), NEW en
  PROVE  \E g : Summed(g, en, S)
<1> DEFINE C == {s \in SUBSET S : ~ \E g : Summed(g, en, s)}
           c(s) == CHOOSE x \in s : TRUE
           sum(s) == (CHOOSE g : Summed(g, en, s))[s]
<1>1. SUFFICES ASSUME C # {} PROVE FALSE
  OBVIOUS
<1>2. PICK T \in C : \A u \in C : u \subseteq T => u = T
  <2>1. C \in SUBSET SUBSET S
    OBVIOUS
  <2> HIDE DEF C
  <2> QED BY <1>1, <2>1, MinimalSubset
<1>3. \A u \in SUBSET T : u # T => Summed(CHOOSE g : Summed(g, en, u), en, u)
  BY <1>2
<1> DEFINE f == [s \in SUBSET T |-> IF s = {} THEN 0 ELSE en[c(s)].bytes + sum(s \ {c(s)})]
<1>4. \A s \in SUBSET T : s # {} => c(s) \in s
  OBVIOUS
<1>5. ASSUME NEW u \in SUBSET T, u # T
      PROVE  f[u] = sum(u)
  <2> DEFINE g == CHOOSE g : Summed(g, en, u)
  <2>1. Summed(g, en, u)
    BY <1>3, <1>5
  <2> HIDE DEF g
  <2>2. g[u] = IF u = {} THEN 0 ELSE en[c(u)].bytes + g[u \ {c(u)}]
    BY <2>1 DEF Summed
  <2>3. ASSUME u # {} PROVE g[u \ {c(u)}] = sum(u \ {c(u)})
    <3>1. c(u) \in u
      BY <1>4, <2>3
    <3>2. Summed(CHOOSE h : Summed(h, en, u \ {c(u)}), en, u \ {c(u)})
      BY <1>3, <1>5, <3>1
    <3>3. IsFiniteSet(u)
      BY FS_Subset
    <3> QED BY <2>1, <3>2, <3>3, SummedUnique
  <2>4. f[u] = g[u]
    BY <2>2, <2>3
  <2> QED BY <2>4 DEF g
<1>6. \A s \in SUBSET T : s # {} => f[s \ {c(s)}] = sum(s \ {c(s)})
  BY <1>4, <1>5
<1>7. Summed(f, en, T)
  <2>1. \A s \in SUBSET T : f[s] = IF s = {} THEN 0 ELSE en[c(s)].bytes + f[s \ {c(s)}]
    <3>1. \A s \in SUBSET T : f[s] = IF s = {} THEN 0 ELSE en[c(s)].bytes + sum(s \ {c(s)})
      OBVIOUS
    <3> HIDE DEF f, sum
    <3> QED BY <1>6, <3>1
  <2>2. f = [s \in SUBSET T |-> f[s]]
    OBVIOUS
  <2> HIDE DEF f
  <2>3. f = [s \in SUBSET T |-> IF s = {} THEN 0 ELSE en[c(s)].bytes + f[s \ {c(s)}]]
    BY <2>1, <2>2
  <2> QED BY <2>3 DEF Summed
<1> QED BY <1>7

LEMMA BytesUnfold ==
  ASSUME NEW S, IsFiniteSet(S), NEW en
  PROVE  /\ Bytes(en, {}) = 0
         /\ S # {} => Bytes(en, S) = en[CHOOSE x \in S : TRUE].bytes
                                       + Bytes(en, S \ {CHOOSE x \in S : TRUE})
<1> DEFINE c == CHOOSE x \in S : TRUE
<1>1. \A T : IsFiniteSet(T) => Summed(CHOOSE g : Summed(g, en, T), en, T)
  BY SummedExists
<1>2. Bytes(en, {}) = 0
  BY <1>1, FS_EmptySet, BytesDef DEF Summed
<1>3. ASSUME S # {} PROVE Bytes(en, S) = en[c].bytes + Bytes(en, S \ {c})
  <2> DEFINE g == CHOOSE g : Summed(g, en, S)
  <2>1. Summed(g, en, S)
    BY <1>1
  <2>2. Bytes(en, S) = g[S]
    BY BytesDef
  <2> HIDE DEF g
  <2>3. g[S] = en[c].bytes + g[S \ {c}]
    BY <1>3, <2>1 DEF Summed
  <2>4. g[S \ {c}] = Bytes(en, S \ {c})
    <3>1. IsFiniteSet(S \ {c})
      BY FS_Subset
    <3>2. Summed(CHOOSE h : Summed(h, en, S \ {c}), en, S \ {c})
      BY <1>1, <3>1
    <3> QED BY <2>1, <3>2, SummedUnique, BytesDef
  <2> QED BY <2>2, <2>3, <2>4
<1> QED BY <1>2, <1>3

LEMMA BytesType ==
  ASSUME NEW S, IsFiniteSet(S), NEW en, \A x \in S : en[x].bytes \in Nat
  PROVE  Bytes(en, S) \in Nat
<1> DEFINE C == {s \in SUBSET S : Bytes(en, s) \notin Nat}
<1>1. SUFFICES ASSUME C # {} PROVE FALSE
  OBVIOUS
<1>2. PICK T \in C : \A u \in C : u \subseteq T => u = T
  <2>1. C \in SUBSET SUBSET S
    OBVIOUS
  <2> HIDE DEF C
  <2> QED BY <1>1, <2>1, MinimalSubset
<1> DEFINE c == CHOOSE x \in T : TRUE
<1>3. T # {}
  <2>1. Bytes(en, {}) = 0
    BY FS_EmptySet, BytesUnfold
  <2>2. Bytes(en, T) \notin Nat
    BY <1>2
  <2> HIDE DEF C
  <2> QED BY <2>1, <2>2
<1>4. c \in T
  BY <1>3
<1>5. Bytes(en, T) = en[c].bytes + Bytes(en, T \ {c})
  BY <1>3, BytesUnfold, FS_Subset
<1> HIDE DEF c
<1>6. Bytes(en, T \ {c}) \in Nat
  BY <1>2, <1>4
<1> QED BY <1>2, <1>4, <1>5, <1>6

\* The entries may be added up in any order.
LEMMA BytesRemove ==
  ASSUME NEW S, IsFiniteSet(S), NEW en, \A y \in S : en[y].bytes \in Nat, NEW x \in S
  PROVE  Bytes(en, S) = en[x].bytes + Bytes(en, S \ {x})
<1> DEFINE Same(s) == \A y \in s : Bytes(en, s) = en[y].bytes + Bytes(en, s \ {y})
           C == {s \in SUBSET S : ~Same(s)}
<1>1. SUFFICES ASSUME C # {} PROVE FALSE
  OBVIOUS
<1>2. PICK T \in C : \A u \in C : u \subseteq T => u = T
  <2>1. C \in SUBSET SUBSET S
    OBVIOUS
  <2> HIDE DEF C
  <2> QED BY <1>1, <2>1, MinimalSubset
<1>s. T \in SUBSET S /\ \A u \in SUBSET T : u # T => Same(u)
  <2> HIDE DEF Same
  <2> QED BY <1>2
<1>3. PICK y \in T : Bytes(en, T) # en[y].bytes + Bytes(en, T \ {y})
  BY <1>2
<1> DEFINE c == CHOOSE z \in T : TRUE
<1>4. c \in T
  BY <1>3
<1>5. Bytes(en, T) = en[c].bytes + Bytes(en, T \ {c})
  BY <1>3, BytesUnfold, FS_Subset
<1> HIDE DEF c
<1>6. y # c
  BY <1>3, <1>5
<1>7. Bytes(en, T \ {c}) = en[y].bytes + Bytes(en, (T \ {c}) \ {y})
  <2>1. Same(T \ {c}) /\ y \in T \ {c}
    <3> HIDE DEF Same
    <3> QED BY <1>s, <1>4, <1>6
  <2> QED BY <2>1
<1>8. Bytes(en, T \ {y}) = en[c].bytes + Bytes(en, (T \ {y}) \ {c})
  <2>1. Same(T \ {y}) /\ c \in T \ {y}
    <3> HIDE DEF Same
    <3> QED BY <1>s, <1>4, <1>6
  <2> QED BY <2>1
<1>9. (T \ {c}) \ {y} = (T \ {y}) \ {c}
  OBVIOUS
<1>10. Bytes(en, (T \ {y}) \ {c}) \in Nat /\ en[y].bytes \in Nat /\ en[c].bytes \in Nat
  <2>1. IsFiniteSet((T \ {y}) \ {c}) /\ (T \ {y}) \ {c} \subseteq S
    BY <1>s, FS_Subset
  <2> QED BY <1>s, <1>4, <2>1, BytesType
<1> HIDE DEF C, Same
<1> DEFINE n == Bytes(en, (T \ {y}) \ {c})
<1>11. en[c].bytes + (en[y].bytes + n) = en[y].bytes + (en[c].bytes + n)
  BY <1>10
<1>12. Bytes(en, T) = en[c].bytes + (en[y].bytes + n)
  BY <1>5, <1>7, <1>9
<1> QED BY <1>3, <1>8, <1>11, <1>12

LEMMA BytesSplit ==
  ASSUME NEW S, IsFiniteSet(S), NEW en, \A x \in S : en[x].bytes \in Nat, NEW K \in SUBSET S
  PROVE  Bytes(en, S) = Bytes(en, K) + Bytes(en, S \ K)
<1> DEFINE Splits(s) == Bytes(en, S) = Bytes(en, s) + Bytes(en, S \ s)
           C == {s \in SUBSET K : ~Splits(s)}
<1>1. SUFFICES ASSUME C # {} PROVE FALSE
  OBVIOUS
<1>2. PICK R \in C : \A u \in C : u \subseteq R => u = R
  <2>1. C \in SUBSET SUBSET S
    OBVIOUS
  <2> HIDE DEF C
  <2> QED BY <1>1, <2>1, MinimalSubset
<1>s. R \in SUBSET S /\ ~Splits(R) /\ \A u \in SUBSET R : u # R => Splits(u)
  <2> HIDE DEF Splits
  <2> QED BY <1>2
<1>t. \A s \in SUBSET S : IsFiniteSet(s) /\ Bytes(en, s) \in Nat
  BY FS_Subset, BytesType
<1>3. R # {}
  <2>1. Bytes(en, {}) = 0
    BY FS_EmptySet, BytesUnfold
  <2>2. S \ {} = S /\ Bytes(en, S) \in Nat
    BY <1>t
  <2>3. Splits({})
    BY <2>1, <2>2
  <2> QED BY <1>s, <2>3
<1>4. PICK x \in R : TRUE
  BY <1>3
<1>5. Bytes(en, R) = en[x].bytes + Bytes(en, R \ {x})
  <2>1. IsFiniteSet(R) /\ \A y \in R : en[y].bytes \in Nat
    BY <1>s, <1>t
  <2>2. x \in R
    BY <1>4
  <2> QED BY <2>1, <2>2, BytesRemove
<1>6. Bytes(en, S \ (R \ {x})) = en[x].bytes + Bytes(en, S \ R)
  <2>1. x \in S \ (R \ {x}) /\ (S \ (R \ {x})) \ {x} = S \ R
    BY <1>s
  <2>2. IsFiniteSet(S \ (R \ {x}))
    BY <1>t
  <2> QED BY <2>1, <2>2, BytesRemove
<1>7. Bytes(en, S) = Bytes(en, R \ {x}) + Bytes(en, S \ (R \ {x}))
  <2>1. Splits(R \ {x})
    <3> HIDE DEF Splits
    <3> QED BY <1>s, <1>4
  <2> QED BY <2>1
<1>8. en[x].bytes \in Nat /\ Bytes(en, R \ {x}) \in Nat /\ Bytes(en, S \ R) \in Nat
  BY <1>s, <1>t
<1>9. Splits(R)
  BY <1>5, <1>6, <1>7, <1>8
<1> QED BY <1>s, <1>9

\* Only the bytes of the entries matter.
LEMMA BytesSame ==
  ASSUME NEW S, IsFiniteSet(S), NEW en, NEW em, \A x \in S : en[x].bytes = em[x].bytes
  PROVE  Bytes(en, S) = Bytes(em, S)
<1> DEFINE C == {s \in SUBSET S : Bytes(en, s) # Bytes(em, s)}
<1>1. SUFFICES ASSUME C # {} PROVE FALSE
  OBVIOUS
<1>2. PICK T \in C : \A u \in C : u \subseteq T => u = T
  <2>1. C \in SUBSET SUBSET S
    OBVIOUS
  <2> HIDE DEF C
  <2> QED BY <1>1, <2>1, MinimalSubset
<1> DEFINE c == CHOOSE x \in T : TRUE
<1>3. T # {} /\ IsFiniteSet(T)
  <2>1. Bytes(en, {}) = 0 /\ Bytes(em, {}) = 0
    BY FS_EmptySet, BytesUnfold
  <2> QED BY <1>2, <2>1, FS_Subset
<1>4. c \in T /\ c \in S
  BY <1>2, <1>3
<1>5. /\ Bytes(en, T) = en[c].bytes + Bytes(en, T \ {c})
      /\ Bytes(em, T) = em[c].bytes + Bytes(em, T \ {c})
  BY <1>3, BytesUnfold
<1> HIDE DEF c
<1>6. Bytes(en, T \ {c}) = Bytes(em, T \ {c})
  BY <1>2, <1>4
<1> QED BY <1>2, <1>4, <1>5, <1>6

LEMMA BytesZero ==
  ASSUME NEW S, IsFiniteSet(S), NEW en, \A x \in S : en[x].bytes = 0
  PROVE  Bytes(en, S) = 0
<1> DEFINE C == {s \in SUBSET S : Bytes(en, s) # 0}
<1>1. SUFFICES ASSUME C # {} PROVE FALSE
  OBVIOUS
<1>2. PICK T \in C : \A u \in C : u \subseteq T => u = T
  <2>1. C \in SUBSET SUBSET S
    OBVIOUS
  <2> HIDE DEF C
  <2> QED BY <1>1, <2>1, MinimalSubset
<1> DEFINE c == CHOOSE x \in T : TRUE
<1>3. T # {} /\ IsFiniteSet(T)
  <2>1. Bytes(en, {}) = 0
    BY FS_EmptySet, BytesUnfold
  <2> QED BY <1>2, <2>1, FS_Subset
<1>4. c \in T /\ c \in S
  BY <1>2, <1>3
<1>5. Bytes(en, T) = en[c].bytes + Bytes(en, T \ {c})
  BY <1>3, BytesUnfold
<1> HIDE DEF c
<1>6. Bytes(en, T \ {c}) = 0
  BY <1>2, <1>4
<1> QED BY <1>2, <1>4, <1>5, <1>6

--------------------------------------------------------------------------------
(* Lemmas about the operators *)

LEMMA MirrorsDef == OrderMirrorsEntries <=> Mirrors(order, entries, clock)
BY DEF OrderMirrorsEntries, Mirrors, Known

\* bump: moving one entry to a new tick keeps the index a mirror.
LEMMA ReorderMirrors ==
  ASSUME entries \in [Keys -> Entry], clock \in Nat,
         Mirrors(order, entries, clock),
         NEW k \in Keys, NEW tick \in Nat, clock < tick,
         NEW en \in [Keys -> Entry],
         en[k].tick = tick, \A j \in Keys \ {k} : en[j].tick = entries[j].tick
  PROVE  Mirrors(Reorder(entries[k].tick, tick, k), en, tick)
<1> DEFINE R == Reorder(entries[k].tick, tick, k)
<1>1. \A j \in Keys : entries[j].tick \in Nat /\ entries[j].tick <= clock /\ en[j].tick \in Nat
  BY DEF Mirrors, Entry
<1>2. tick > 0
  OBVIOUS
<1>3. ASSUME NEW p, p \in R
      PROVE  p \in {[tick |-> en[j].tick, key |-> j] : j \in {i \in Keys : en[i].tick > 0}}
  <2>1. CASE p = [tick |-> tick, key |-> k]
    BY <1>2, <2>1
  <2>2. CASE p # [tick |-> tick, key |-> k]
    <3>1. p \in order /\ p.tick # entries[k].tick
      BY <1>3, <2>2 DEF Reorder
    <3>2. PICK j \in Keys : entries[j].tick > 0 /\ p = [tick |-> entries[j].tick, key |-> j]
      BY <3>1 DEF Mirrors
    <3>3. j # k
      BY <3>1, <3>2
    <3> QED BY <3>2, <3>3
  <2> QED BY <2>1, <2>2
<1>4. ASSUME NEW j \in Keys, en[j].tick > 0
      PROVE  [tick |-> en[j].tick, key |-> j] \in R
  <2>1. CASE j = k
    BY <2>1 DEF Reorder
  <2>2. CASE j # k
    <3>1. [tick |-> entries[j].tick, key |-> j] \in order
      BY <1>4, <2>2 DEF Mirrors
    <3>2. entries[j].tick # entries[k].tick
      BY <1>4, <2>2 DEF Mirrors
    <3>3. entries[j].tick # tick
      BY <1>1
    <3> QED BY <2>2, <3>1, <3>2, <3>3 DEF Reorder
  <2> QED BY <2>1, <2>2
<1>5. R = {[tick |-> en[j].tick, key |-> j] : j \in {i \in Keys : en[i].tick > 0}}
  BY <1>3, <1>4
<1>6. \A i, j \in Keys : en[i].tick > 0 /\ en[j].tick = en[i].tick => i = j
  BY <1>1 DEF Mirrors
<1>7. \A j \in Keys : en[j].tick <= tick
  BY <1>1
<1> QED BY <1>5, <1>6, <1>7 DEF Mirrors

\* evict_locked: the entries it takes and their places in the index go together.
LEMMA EvictMirrors ==
  ASSUME NEW o, NEW en \in [Keys -> Entry], NEW tot, NEW q, NEW c \in Nat,
         Mirrors(o, en, c),
         EvictLocked(en, o, tot, q)
  PROVE  /\ entries' \in [Keys -> Entry]
         /\ Mirrors(order', entries', c)
         /\ \A k \in Keys : \/ entries'[k] = en[k]
                            \/ en[k].refs = 0 /\ entries'[k] = NoEntry
         /\ disk \in [Keys -> Nat] => disk' \in [Keys -> Nat]
         /\ \A k \in Keys : en[k].refs > 0 => disk'[k] = disk[k]
         /\ doomed' \subseteq q \cup RenameErrors
<1> DEFINE V == Victims(en, o, tot)
           K == {p.key : p \in V}
<1>1. /\ entries' = [k \in Keys |-> IF k \in K THEN NoEntry ELSE en[k]]
      /\ order' = o \ V
  BY DEF EvictLocked
<1>2. \A p \in V : p \in o /\ en[p.key].refs = 0
  BY DEF Victims
<1>3. NoEntry \in Entry /\ NoEntry.tick = 0
  BY DEF NoEntry, Entry
<1>4. entries' \in [Keys -> Entry]
  BY <1>1, <1>3
<1>5. \A k \in Keys : k \in K <=> en[k].tick > 0 /\ [tick |-> en[k].tick, key |-> k] \in V
  <2> SUFFICES ASSUME NEW k \in Keys
               PROVE  k \in K <=> en[k].tick > 0 /\ [tick |-> en[k].tick, key |-> k] \in V
    OBVIOUS
  <2>1. ASSUME NEW p \in V, p.key = k
        PROVE  en[k].tick > 0 /\ p = [tick |-> en[k].tick, key |-> k]
    <3>1. PICK j \in Keys : en[j].tick > 0 /\ p = [tick |-> en[j].tick, key |-> j]
      BY <1>2 DEF Mirrors
    <3> QED BY <2>1, <3>1
  <2>2. [tick |-> en[k].tick, key |-> k].key = k
    OBVIOUS
  <2> QED BY <2>1, <2>2
<1>6. \A k \in Keys : entries'[k] = IF k \in K THEN NoEntry ELSE en[k]
  BY <1>1
<1>7. Mirrors(order', entries', c)
  <2>1. order' = {[tick |-> entries'[k].tick, key |-> k] : k \in {j \in Keys : entries'[j].tick > 0}}
    <3>1. ASSUME NEW p, p \in order'
          PROVE  \E k \in Keys : entries'[k].tick > 0 /\ p = [tick |-> entries'[k].tick, key |-> k]
      <4>1. PICK k \in Keys : en[k].tick > 0 /\ p = [tick |-> en[k].tick, key |-> k]
        BY <1>1, <3>1 DEF Mirrors
      <4>2. k \notin K
        BY <1>1, <1>5, <3>1, <4>1
      <4> QED BY <1>6, <4>1, <4>2
    <3>2. ASSUME NEW k \in Keys, entries'[k].tick > 0
          PROVE  [tick |-> entries'[k].tick, key |-> k] \in order'
      <4>1. k \notin K /\ entries'[k] = en[k]
        BY <1>3, <1>6, <3>2
      <4>2. [tick |-> en[k].tick, key |-> k] \in o
        BY <3>2, <4>1 DEF Mirrors
      <4> QED BY <1>1, <1>5, <3>2, <4>1, <4>2
    <3> QED BY <3>1, <3>2
  <2>2. \A j, k \in Keys : entries'[j].tick > 0 /\ entries'[k].tick = entries'[j].tick => j = k
    BY <1>3, <1>6 DEF Mirrors
  <2>3. \A k \in Keys : entries'[k].tick <= c
    BY <1>3, <1>6 DEF Mirrors
  <2> QED BY <2>1, <2>2, <2>3 DEF Mirrors
<1>8. \A k \in K : en[k].refs = 0
  BY <1>2
<1>9. disk' = [k \in Keys |-> IF k \in K \ RenameErrors THEN 0 ELSE disk[k]]
  BY DEF EvictLocked, Quarantined
<1>10. doomed' \subseteq q \cup RenameErrors
  BY DEF EvictLocked, Quarantined
<1> QED BY <1>4, <1>6, <1>7, <1>8, <1>9, <1>10

LEMMA EntryBytes ==
  ASSUME NEW en \in [Keys -> Entry]
  PROVE  \A k \in Keys : en[k].bytes \in Nat
BY DEF Entry

\* evict_locked takes from the total what it takes from the entries.
LEMMA EvictTotal ==
  ASSUME NEW o, NEW en \in [Keys -> Entry], NEW q, NEW c \in Nat, Mirrors(o, en, c),
         EvictLocked(en, o, Bytes(en, Keys), q)
  PROVE  total' = Bytes(entries', Keys)
<1> DEFINE V == Victims(en, o, Bytes(en, Keys))
           K == {p.key : p \in V}
<1>1. /\ entries' = [k \in Keys |-> IF k \in K THEN NoEntry ELSE en[k]]
      /\ total' = Monus(Bytes(en, Keys), Bytes(en, K))
  BY DEF EvictLocked
<1>2. K \in SUBSET Keys
  <2>1. ASSUME NEW p \in V PROVE p.key \in Keys
    <3>1. PICK k \in Keys : p = [tick |-> en[k].tick, key |-> k]
      BY DEF Victims, Mirrors
    <3> QED BY <3>1
  <2> QED BY <2>1
<1> HIDE DEF K
<1>3. /\ IsFiniteSet(Keys) /\ IsFiniteSet(K) /\ IsFiniteSet(Keys \ K)
      /\ \A k \in Keys : en[k].bytes \in Nat
  BY <1>2, FiniteAssumption, FS_Subset, EntryBytes
<1>4. NoEntry \in Entry /\ NoEntry.bytes = 0
  BY DEF NoEntry, Entry
<1>5. /\ \A k \in K : entries'[k].bytes = 0
      /\ \A k \in Keys \ K : entries'[k].bytes = en[k].bytes
      /\ \A k \in Keys : entries'[k].bytes \in Nat
  BY <1>1, <1>2, <1>3, <1>4
<1>6. Bytes(en, Keys) = Bytes(en, K) + Bytes(en, Keys \ K)
  BY <1>2, <1>3, BytesSplit
<1>7. Bytes(entries', Keys) = Bytes(entries', K) + Bytes(entries', Keys \ K)
  BY <1>2, <1>3, <1>5, BytesSplit
<1>8. Bytes(entries', K) = 0
  BY <1>3, <1>5, BytesZero
<1>9. Bytes(entries', Keys \ K) = Bytes(en, Keys \ K)
  BY <1>3, <1>5, BytesSame
<1>10. Bytes(en, K) \in Nat /\ Bytes(en, Keys \ K) \in Nat
  BY <1>2, <1>3, BytesType
<1>11. Monus(Bytes(en, Keys), Bytes(en, K)) = Bytes(en, Keys \ K)
  BY <1>6, <1>10 DEF Monus
<1> QED BY <1>1, <1>7, <1>8, <1>9, <1>10, <1>11

\* evict_locked leaves an entry and its tree alone, or takes both unless the rename fails.
LEMMA EvictTrees ==
  ASSUME NEW o, NEW en \in [Keys -> Entry], NEW tot, NEW q, EvictLocked(en, o, tot, q),
         NEW k \in Keys \ RenameErrors
  PROVE  \/ entries'[k] = en[k] /\ disk'[k] = disk[k]
         \/ en[k].refs = 0 /\ entries'[k].bytes = 0 /\ disk'[k] = 0
<1> DEFINE K == {p.key : p \in Victims(en, o, tot)}
<1>1. /\ entries' = [j \in Keys |-> IF j \in K THEN NoEntry ELSE en[j]]
      /\ disk' = [j \in Keys |-> IF j \in K \ RenameErrors THEN 0 ELSE disk[j]]
  BY DEF EvictLocked, Quarantined
<1>2. k \in K => en[k].refs = 0
  BY DEF Victims
<1> HIDE DEF K
<1> QED BY <1>1, <1>2 DEF NoEntry

\* The guards of a key, as a client comes and goes.
LEMMA GuardsType ==
  \A k \in Keys : guards[k] \in Nat
<1> SUFFICES ASSUME NEW k \in Keys
             PROVE  Cardinality({c \in Clients : at[c] = k /\ k \notin Files}) \in Nat
  BY DEF guards
<1> DEFINE G == {c \in Clients : at[c] = k /\ k \notin Files}
<1>1. IsFiniteSet(G)
  BY FiniteAssumption, FS_Subset
<1> QED BY <1>1, FS_CardinalityType

LEMMA GuardsSame ==
  ASSUME \A c \in Clients : at'[c] = at[c] \/ (at[c] \in Files \cup {None} /\ at'[c] \in Files \cup {None})
  PROVE  \A k \in Keys : guards'[k] = guards[k]
<1> SUFFICES ASSUME NEW k \in Keys
             PROVE  guards'[k] = guards[k]
  OBVIOUS
<1>1. {c \in Clients : at'[c] = k /\ k \notin Files} = {c \in Clients : at[c] = k /\ k \notin Files}
  BY KeysAssumption
<1> QED BY <1>1 DEF guards

LEMMA GuardTaken ==
  ASSUME NEW c \in Clients, NEW k \in Keys \ Files,
         at \in [Clients -> Keys \cup {None}], at[c] # k, at[c] \in Files \cup {None},
         at' = [at EXCEPT ![c] = k]
  PROVE  \A j \in Keys : guards'[j] = IF j = k THEN guards[j] + 1 ELSE guards[j]
<1> SUFFICES ASSUME NEW j \in Keys
             PROVE  guards'[j] = IF j = k THEN guards[j] + 1 ELSE guards[j]
  OBVIOUS
<1> DEFINE G == {d \in Clients : at[d] = j /\ j \notin Files}
           H == {d \in Clients : at'[d] = j /\ j \notin Files}
<1>1. guards[j] = Cardinality(G) /\ guards'[j] = Cardinality(H)
  BY DEF guards
<1>2. IsFiniteSet(G)
  BY FiniteAssumption, FS_Subset
<1>3. CASE j = k
  <2>1. H = G \cup {c} /\ c \notin G
    BY <1>3
  <2>2. Cardinality(G \cup {c}) = Cardinality(G) + 1
    BY <1>2, <2>1, FS_AddElement
  <2> QED BY <1>1, <1>3, <2>1, <2>2
<1>4. CASE j # k
  <2>1. H = G
    BY <1>4, KeysAssumption
  <2> QED BY <1>1, <1>4, <2>1
<1> QED BY <1>3, <1>4

LEMMA GuardHeld ==
  ASSUME NEW c \in Clients, NEW k \in Keys \ Files, at[c] = k
  PROVE  guards[k] > 0
<1> DEFINE G == {d \in Clients : at[d] = k /\ k \notin Files}
<1>1. IsFiniteSet(G) /\ c \in G
  BY FiniteAssumption, FS_Subset
<1>2. Cardinality(G) # 0 /\ Cardinality(G) \in Nat
  BY <1>1, FS_EmptySet, FS_CardinalityType
<1> QED BY <1>2 DEF guards

LEMMA GuardDropped ==
  ASSUME NEW c \in Clients, NEW k \in Keys \ Files,
         at \in [Clients -> Keys \cup {None}], at[c] = k,
         at' = [at EXCEPT ![c] = None]
  PROVE  /\ guards[k] > 0
         /\ \A j \in Keys : guards'[j] = IF j = k THEN guards[j] - 1 ELSE guards[j]
<1>1. guards[k] > 0
  BY GuardHeld
<1>2. ASSUME NEW j \in Keys
      PROVE  guards'[j] = IF j = k THEN guards[j] - 1 ELSE guards[j]
  <2> DEFINE G == {d \in Clients : at[d] = j /\ j \notin Files}
             H == {d \in Clients : at'[d] = j /\ j \notin Files}
  <2>1. guards[j] = Cardinality(G) /\ guards'[j] = Cardinality(H)
    BY DEF guards
  <2>2. IsFiniteSet(G)
    BY FiniteAssumption, FS_Subset
  <2>3. CASE j = k
    <3>1. H = G \ {c} /\ c \in G
      BY <2>3, KeysAssumption
    <3>2. Cardinality(G \ {c}) = Cardinality(G) - 1
      BY <2>2, <3>1, FS_RemoveElement
    <3> QED BY <2>1, <2>3, <3>1, <3>2
  <2>4. CASE j # k
    <3>1. H = G
      BY <2>4, KeysAssumption
    <3> QED BY <2>1, <2>4, <3>1
  <2> QED BY <2>3, <2>4
<1> QED BY <1>1, <1>2

--------------------------------------------------------------------------------
(* What each operation of the cache leaves of the invariant.  Whole is what is left to
   show of entries, order and clock once the guards are counted. *)

Whole(en, o, c) ==
  /\ en \in [Keys -> Entry]
  /\ c \in Nat
  /\ Mirrors(o, en, c)
  /\ \A k \in Keys : en[k].tick > 0 /\ en[k].bytes = 0 => en[k].refs > 0

LEMMA PinStep ==
  ASSUME IInv, NEW k \in Keys, PinKey(k)
  PROVE  /\ Whole(entries', order', clock')
         /\ \A j \in Keys : entries'[j].refs = IF j = k THEN entries[j].refs + 1 ELSE entries[j].refs
<1>1. /\ entries \in [Keys -> Entry] /\ clock \in Nat
      /\ Mirrors(order, entries, clock)
      /\ \A j \in Keys : entries[j].tick > 0 /\ entries[j].bytes = 0 => entries[j].refs > 0
  BY MirrorsDef DEF IInv, Typed, RefsAreGuards, Known
<1>2. /\ clock' = clock + 1
      /\ entries' = [entries EXCEPT ![k].refs = @ + 1, ![k].tick = clock + 1]
      /\ order' = Reorder(entries[k].tick, clock + 1, k)
  BY DEF PinKey
<1>3. entries'[k] = [bytes |-> entries[k].bytes, refs |-> entries[k].refs + 1, tick |-> clock + 1]
  BY <1>1, <1>2 DEF Entry
<1>4. entries' \in [Keys -> Entry] /\ \A j \in Keys \ {k} : entries'[j] = entries[j]
  <2>1. [bytes |-> entries[k].bytes, refs |-> entries[k].refs + 1, tick |-> clock + 1] \in Entry
    BY <1>1 DEF Entry
  <2>2. DOMAIN entries' = Keys /\ \A j \in Keys \ {k} : entries'[j] = entries[j]
    BY <1>1, <1>2
  <2>3. \A j \in Keys : entries'[j] \in Entry
    BY <1>1, <1>3, <2>1, <2>2
  <2>4. entries' = [j \in Keys |-> entries'[j]]
    BY <1>1, <1>2
  <2> QED BY <2>2, <2>3, <2>4
<1>5. /\ entries'[k].tick = clock + 1
      /\ entries'[k].refs = entries[k].refs + 1
      /\ \A j \in Keys \ {k} : entries'[j] = entries[j]
      /\ \A j \in Keys \ {k} : entries'[j].tick = entries[j].tick
  BY <1>1, <1>3, <1>4
<1>6. Mirrors(order', entries', clock')
  <2>1. clock + 1 \in Nat /\ clock < clock + 1
    BY <1>1
  <2>2. Mirrors(Reorder(entries[k].tick, clock + 1, k), entries', clock + 1)
    BY <1>1, <1>4, <1>5, <2>1, ReorderMirrors
  <2> QED BY <1>2, <2>2
<1> QED BY <1>1, <1>2, <1>4, <1>5, <1>6 DEF Whole, Entry

LEMMA TouchStep ==
  ASSUME IInv, NEW k \in Keys, TouchKey(k)
  PROVE  /\ Whole(entries', order', clock')
         /\ \A j \in Keys : entries'[j].refs = entries[j].refs
<1>1. /\ entries \in [Keys -> Entry] /\ clock \in Nat
      /\ Mirrors(order, entries, clock)
      /\ \A j \in Keys : entries[j].tick > 0 /\ entries[j].bytes = 0 => entries[j].refs > 0
  BY MirrorsDef DEF IInv, Typed, RefsAreGuards, Known
<1>2. /\ clock' = clock + 1
      /\ entries' = [entries EXCEPT ![k] = [@ EXCEPT !.tick = clock + 1]]
      /\ order' = Reorder(entries[k].tick, clock + 1, k)
      /\ entries[k].tick > 0
  BY <1>1 DEF TouchKey, Entry, Known
<1>3. entries' \in [Keys -> Entry]
  BY <1>1, <1>2 DEF Entry
<1>4. \A j \in Keys : entries'[j] = IF j = k THEN [entries[k] EXCEPT !.tick = clock + 1]
                                             ELSE entries[j]
  BY <1>1, <1>2
<1>5. /\ entries'[k].tick = clock + 1
      /\ entries'[k].refs = entries[k].refs
      /\ entries'[k].bytes = entries[k].bytes
      /\ \A j \in Keys \ {k} : entries'[j] = entries[j]
      /\ \A j \in Keys \ {k} : entries'[j].tick = entries[j].tick
  BY <1>1, <1>4 DEF Entry
<1>6. Mirrors(order', entries', clock')
  <2>1. clock + 1 \in Nat /\ clock < clock + 1
    BY <1>1
  <2>2. Mirrors(Reorder(entries[k].tick, clock + 1, k), entries', clock + 1)
    BY <1>1, <1>3, <1>5, <2>1, ReorderMirrors
  <2> QED BY <1>2, <2>2
<1> QED BY <1>1, <1>2, <1>3, <1>5, <1>6 DEF Whole, Entry

\* The guard must be one that is counted.
LEMMA UnpinStep ==
  ASSUME IInv, NEW k \in Keys, entries[k].refs > 0, UnpinKey(k)
  PROVE  /\ Whole(entries', order', clock')
         /\ \A j \in Keys : entries'[j].refs = IF j = k THEN entries[j].refs - 1 ELSE entries[j].refs
<1>1. /\ entries \in [Keys -> Entry] /\ clock \in Nat
      /\ Mirrors(order, entries, clock)
      /\ \A j \in Keys : entries[j].tick > 0 /\ entries[j].bytes = 0 => entries[j].refs > 0
  BY MirrorsDef DEF IInv, Typed, RefsAreGuards, Known
<1>2. Monus(entries[k].refs, 1) = entries[k].refs - 1 /\ entries[k].refs - 1 \in Nat
  BY <1>1 DEF Monus, Entry
<1>3. CASE entries[k].refs - 1 = 0 /\ entries[k].bytes = 0
  <2>1. /\ entries' = [entries EXCEPT ![k] = NoEntry]
        /\ order' = {p \in order : p.tick # entries[k].tick}
        /\ clock' = clock
    BY <1>2, <1>3 DEF UnpinKey
  <2>2. NoEntry \in Entry /\ NoEntry.tick = 0 /\ NoEntry.refs = 0
    BY DEF NoEntry, Entry
  <2>3. entries' \in [Keys -> Entry]
    BY <1>1, <2>1, <2>2
  <2>4. entries'[k] = NoEntry /\ \A j \in Keys \ {k} : entries'[j] = entries[j]
    BY <1>1, <2>1
  <2>5. order' = {[tick |-> entries'[j].tick, key |-> j] : j \in {i \in Keys : entries'[i].tick > 0}}
    <3>1. ASSUME NEW p, p \in order'
          PROVE  \E j \in Keys : entries'[j].tick > 0 /\ p = [tick |-> entries'[j].tick, key |-> j]
      <4>1. PICK j \in Keys : entries[j].tick > 0 /\ p = [tick |-> entries[j].tick, key |-> j]
        BY <1>1, <2>1, <3>1 DEF Mirrors
      <4>2. j # k
        BY <2>1, <3>1, <4>1
      <4> QED BY <2>4, <4>1, <4>2
    <3>2. ASSUME NEW j \in Keys, entries'[j].tick > 0
          PROVE  [tick |-> entries'[j].tick, key |-> j] \in order'
      <4>1. j # k /\ entries'[j] = entries[j]
        BY <2>2, <2>4, <3>2
      <4>2. [tick |-> entries[j].tick, key |-> j] \in order /\ entries[j].tick # entries[k].tick
        BY <1>1, <3>2, <4>1 DEF Mirrors
      <4> QED BY <2>1, <4>1, <4>2
    <3> QED BY <3>1, <3>2
  <2>6. \A i, j \in Keys : entries'[i].tick > 0 /\ entries'[j].tick = entries'[i].tick => i = j
    BY <1>1, <2>2, <2>4 DEF Mirrors
  <2>7. \A j \in Keys : entries'[j].tick <= clock
    BY <1>1, <2>2, <2>4 DEF Mirrors
  <2>8. Mirrors(order', entries', clock')
    BY <2>1, <2>5, <2>6, <2>7 DEF Mirrors
  <2> QED BY <1>1, <1>3, <2>1, <2>2, <2>3, <2>4, <2>8 DEF Whole
<1>4. CASE ~(entries[k].refs - 1 = 0 /\ entries[k].bytes = 0)
  <2>1. /\ entries' = [entries EXCEPT ![k] = [@ EXCEPT !.refs = entries[k].refs - 1]]
        /\ order' = order /\ clock' = clock
    BY <1>2, <1>4 DEF UnpinKey
  <2>2. entries' \in [Keys -> Entry]
    BY <1>1, <1>2, <2>1 DEF Entry
  <2>3. \A j \in Keys : entries'[j] = IF j = k THEN [entries[k] EXCEPT !.refs = entries[k].refs - 1]
                                               ELSE entries[j]
    BY <1>1, <2>1
  <2>4. /\ entries'[k].refs = entries[k].refs - 1
        /\ entries'[k].bytes = entries[k].bytes
        /\ \A j \in Keys : entries'[j].tick = entries[j].tick
        /\ \A j \in Keys \ {k} : entries'[j] = entries[j]
    BY <1>1, <2>3 DEF Entry
  <2>5. Mirrors(order', entries', clock')
    BY <1>1, <2>1, <2>4 DEF Mirrors
  <2>6. \A j \in Keys : entries'[j].tick > 0 /\ entries'[j].bytes = 0 => entries'[j].refs > 0
    <3>1. SUFFICES ASSUME NEW j \in Keys, entries'[j].tick > 0, entries'[j].bytes = 0
                   PROVE  entries'[j].refs > 0
      OBVIOUS
    <3>2. CASE j = k
      <4>1. entries[k].bytes = 0 /\ entries'[k].refs = entries[k].refs - 1
        BY <2>4, <3>1, <3>2
      <4>2. entries[k].refs - 1 # 0
        BY <1>4, <4>1
      <4>3. entries'[k].refs \in Nat /\ entries'[k].refs # 0
        BY <1>2, <4>1, <4>2
      <4> QED BY <3>2, <4>3
    <3>3. CASE j # k
      BY <1>1, <2>4, <3>1, <3>3
    <3> QED BY <3>2, <3>3
  <2> QED BY <1>1, <2>1, <2>2, <2>4, <2>5, <2>6 DEF Whole
<1> QED BY <1>3, <1>4

\* What record hands to evict_locked.
LEMMA RecordEvicts ==
  ASSUME IInv, NEW k \in Keys, NEW n \in Nat \ {0}, RecordKey(k, n)
  PROVE  \E en \in [Keys -> Entry], t \in Nat : \E o :
           /\ EvictLocked(en, o, Monus(total, entries[k].bytes) + en[k].bytes, doomed)
           /\ Mirrors(o, en, t) /\ clock' = t /\ clock < t
           /\ o = Reorder(entries[k].tick, t, k) /\ en[k].tick = t
           /\ en[k].bytes = (IF entries[k].refs > 0 /\ entries[k].bytes > n THEN entries[k].bytes ELSE n)
           /\ en[k].bytes > 0
           /\ en[k].refs = entries[k].refs
           /\ \A j \in Keys \ {k} : en[j] = entries[j]
<1>1. /\ entries \in [Keys -> Entry] /\ clock \in Nat /\ Mirrors(order, entries, clock)
  BY MirrorsDef DEF IInv, Typed
<1> DEFINE old == entries[k]
           new == IF old.refs > 0 /\ old.bytes > n THEN old.bytes ELSE n
           tick == IF Known(k) THEN clock + 1 ELSE clock + 2
           en == [entries EXCEPT ![k] = [bytes |-> new, refs |-> old.refs, tick |-> tick]]
           o == Reorder(old.tick, tick, k)
<1>2. clock' = tick /\ EvictLocked(en, o, Monus(total, old.bytes) + new, doomed)
  BY DEF RecordKey
<1>3. tick \in Nat /\ tick > clock
  BY <1>1
<1>4. new \in Nat /\ new > 0 /\ old.refs \in Nat
  BY <1>1 DEF Entry
<1>5. en \in [Keys -> Entry]
  BY <1>1, <1>3, <1>4 DEF Entry
<1>6. en[k] = [bytes |-> new, refs |-> old.refs, tick |-> tick] /\ \A j \in Keys \ {k} : en[j] = entries[j]
  BY <1>1
<1>7. en[k].tick = tick /\ en[k].refs = old.refs /\ en[k].bytes = new
  BY <1>6
<1> HIDE DEF new, tick
<1>8. Mirrors(o, en, tick)
  <2> HIDE DEF en
  <2> QED BY <1>1, <1>3, <1>5, <1>6, <1>7, ReorderMirrors
<1>o. o = Reorder(entries[k].tick, tick, k)
  OBVIOUS
<1> HIDE DEF en, o
<1>9. EvictLocked(en, o, Monus(total, old.bytes) + en[k].bytes, doomed)
  BY <1>2, <1>7
<1> QED BY <1>2, <1>3, <1>4, <1>5, <1>6, <1>7, <1>8, <1>o, <1>9 DEF new

LEMMA RecordStep ==
  ASSUME IInv, NEW k \in Keys, NEW n \in Nat \ {0}, RecordKey(k, n)
  PROVE  /\ Whole(entries', order', clock')
         /\ \A j \in Keys : entries'[j].refs = entries[j].refs
         /\ disk' \in [Keys -> Nat]
         /\ \A j \in Keys : entries[j].refs > 0 => disk'[j] = disk[j]
         /\ doomed' \subseteq RenameErrors
<1>1. /\ \A j \in Keys : entries[j].tick > 0 /\ entries[j].bytes = 0 => entries[j].refs > 0
      /\ disk \in [Keys -> Nat]
      /\ doomed \subseteq RenameErrors
  BY DEF IInv, Typed, RefsAreGuards, Known, DoomedStuck
<1>2. PICK en \in [Keys -> Entry], t \in Nat : \E o :
        /\ EvictLocked(en, o, Monus(total, entries[k].bytes) + en[k].bytes, doomed)
        /\ Mirrors(o, en, t) /\ clock' = t
        /\ en[k].bytes > 0
        /\ en[k].refs = entries[k].refs
        /\ \A j \in Keys \ {k} : en[j] = entries[j]
  BY RecordEvicts
<1>3. /\ entries' \in [Keys -> Entry]
      /\ Mirrors(order', entries', t)
      /\ \A j \in Keys : \/ entries'[j] = en[j]
                         \/ en[j].refs = 0 /\ entries'[j] = NoEntry
      /\ disk' \in [Keys -> Nat]
      /\ \A j \in Keys : en[j].refs > 0 => disk'[j] = disk[j]
      /\ doomed' \subseteq RenameErrors
  <2>1. PICK o : /\ EvictLocked(en, o, Monus(total, entries[k].bytes) + en[k].bytes, doomed)
                 /\ Mirrors(o, en, t)
    BY <1>2
  <2> QED BY <1>1, <2>1, EvictMirrors
<1>4. NoEntry.tick = 0 /\ NoEntry.refs = 0
  BY DEF NoEntry
<1>5. \A j \in Keys : en[j].refs = entries[j].refs
  BY <1>2
<1>6. \A j \in Keys : entries'[j].refs = entries[j].refs
  BY <1>3, <1>4, <1>5
<1>7. \A j \in Keys : en[j].tick > 0 /\ en[j].bytes = 0 => en[j].refs > 0
  BY <1>1, <1>2
<1>8. \A j \in Keys : entries'[j].tick > 0 /\ entries'[j].bytes = 0 => entries'[j].refs > 0
  BY <1>3, <1>4, <1>7
<1> QED BY <1>2, <1>3, <1>5, <1>6, <1>8 DEF Whole

\* What is whole and counts its guards satisfies both properties of the entries.
LEMMA WholeSuffices ==
  ASSUME Whole(entries', order', clock'),
         \A k \in Keys : entries'[k].refs = guards'[k]
  PROVE  /\ entries' \in [Keys -> Entry] /\ clock' \in Nat
         /\ OrderMirrorsEntries'
         /\ RefsAreGuards'
<1>1. OrderMirrorsEntries' <=> Mirrors(order', entries', clock')
  BY DEF OrderMirrorsEntries, Mirrors, Known
<1>2. RefsAreGuards'
  BY DEF Whole, RefsAreGuards, Known
<1> QED BY <1>1, <1>2 DEF Whole

\* The other way round, for steps that leave the cache alone.
LEMMA WholeNow ==
  ASSUME IInv
  PROVE  /\ Whole(entries, order, clock)
         /\ \A k \in Keys : entries[k].refs = guards[k] /\ entries[k].refs \in Nat
<1>1. Whole(entries, order, clock)
  BY MirrorsDef DEF IInv, Typed, RefsAreGuards, Known, Whole
<1> QED BY <1>1 DEF IInv, RefsAreGuards, Typed, Entry

\* What seeding hands to evict_locked: an entry for each file found, at a tick of its own.
LEMMA RestartEvicts ==
  ASSUME disk \in [Keys -> Nat], Restart
  PROVE  \E en \in [Keys -> Entry], t \in Nat : \E o :
           /\ EvictLocked(en, o, Bytes(en, Keys), {})
           /\ Mirrors(o, en, t) /\ clock' = t /\ t = Cardinality({k \in Keys : disk[k] > 0})
           /\ \A k \in Keys : /\ en[k].bytes = disk[k]
                              /\ en[k].refs = 0
                              /\ en[k].tick > 0 <=> en[k].bytes > 0
<1> DEFINE found == {k \in Keys : disk[k] > 0}
           N == Cardinality(found)
<1>1. PICK tick \in [found -> 1..N] :
        /\ \A j, k \in found : tick[j] = tick[k] => j = k
        /\ LET en == [k \in Keys |-> IF k \in found
                                     THEN [bytes |-> disk[k], refs |-> 0, tick |-> tick[k]]
                                     ELSE NoEntry]
           IN EvictLocked(en, {[tick |-> tick[k], key |-> k] : k \in found}, Bytes(en, found), {})
        /\ clock' = N
  BY DEF Restart
<1> DEFINE en == [k \in Keys |-> IF k \in found
                                 THEN [bytes |-> disk[k], refs |-> 0, tick |-> tick[k]]
                                 ELSE NoEntry]
           o == {[tick |-> tick[k], key |-> k] : k \in found}
           tot == Bytes(en, found)
<1>2. N \in Nat
  <2>1. IsFiniteSet(found)
    BY FiniteAssumption, FS_Subset
  <2> QED BY <2>1, FS_CardinalityType
<1>3. \A k \in found : tick[k] \in Nat /\ tick[k] > 0 /\ tick[k] <= N
  BY <1>1, <1>2
<1>4. NoEntry \in Entry /\ NoEntry.tick = 0 /\ NoEntry.refs = 0
  BY DEF NoEntry, Entry
<1>5. \A k \in found : /\ en[k] = [bytes |-> disk[k], refs |-> 0, tick |-> tick[k]]
                       /\ en[k] \in Entry
  BY <1>3 DEF Entry
<1>6. \A k \in Keys \ found : en[k] = NoEntry
  OBVIOUS
<1>7. en \in [Keys -> Entry]
  BY <1>4, <1>5, <1>6
<1>8. \A k \in Keys : en[k].refs = 0 /\ (en[k].tick > 0 <=> k \in found)
  BY <1>3, <1>4, <1>5, <1>6
<1>9. \A k \in found : en[k].tick = tick[k] /\ en[k].bytes > 0 /\ en[k].bytes = disk[k]
  <2> SUFFICES ASSUME NEW k \in found
               PROVE  en[k].tick = tick[k] /\ en[k].bytes > 0 /\ en[k].bytes = disk[k]
    OBVIOUS
  <2> HIDE DEF en
  <2>1. en[k] = [bytes |-> disk[k], refs |-> 0, tick |-> tick[k]]
    BY <1>5
  <2> QED BY <2>1
<1>10. EvictLocked(en, o, tot, {})
  BY <1>1
<1> HIDE DEF en
<1>11. Mirrors(o, en, N)
  <2>1. o = {[tick |-> en[k].tick, key |-> k] : k \in {j \in Keys : en[j].tick > 0}}
    BY <1>8, <1>9
  <2>2. \A j, k \in Keys : en[j].tick > 0 /\ en[k].tick = en[j].tick => j = k
    BY <1>1, <1>8, <1>9
  <2>3. \A k \in Keys : en[k].tick <= N
    BY <1>2, <1>3, <1>4, <1>6, <1>9
  <2> QED BY <2>1, <2>2, <2>3 DEF Mirrors
<1>12. \A k \in Keys : en[k].bytes = disk[k] /\ (en[k].tick > 0 <=> en[k].bytes > 0)
  <2>1. \A k \in found : en[k].bytes = disk[k]
    BY <1>9
  <2>2. \A k \in Keys \ found : en[k].bytes = 0 /\ disk[k] = 0
    BY <1>6 DEF NoEntry
  <2> QED BY <1>8, <1>9, <2>1, <2>2
<1>13. Bytes(en, Keys) = tot
  <2>1. IsFiniteSet(Keys) /\ IsFiniteSet(found) /\ IsFiniteSet(Keys \ found) /\ found \in SUBSET Keys
    BY FiniteAssumption, FS_Subset
  <2>2. \A k \in Keys : en[k].bytes \in Nat
    BY <1>7, EntryBytes
  <2>3. \A k \in Keys \ found : en[k].bytes = 0
    BY <1>6 DEF NoEntry
  <2> HIDE DEF found
  <2>4. Bytes(en, Keys) = tot + Bytes(en, Keys \ found)
    BY <2>1, <2>2, BytesSplit
  <2>5. Bytes(en, Keys \ found) = 0 /\ tot \in Nat
    BY <2>1, <2>2, <2>3, BytesZero, BytesType
  <2> QED BY <2>4, <2>5
<1>14. EvictLocked(en, o, Bytes(en, Keys), {}) /\ Mirrors(o, en, N) /\ clock' = N
  BY <1>1, <1>10, <1>11, <1>13
<1>15. \A k \in Keys : /\ en[k].bytes = disk[k]
                       /\ en[k].refs = 0
                       /\ en[k].tick > 0 <=> en[k].bytes > 0
  BY <1>8, <1>12
<1>16. N = Cardinality({k \in Keys : disk[k] > 0})
  OBVIOUS
<1> HIDE DEF o, N
<1> QED BY <1>2, <1>7, <1>14, <1>15, <1>16

LEMMA RestartStep ==
  ASSUME disk \in [Keys -> Nat], Restart
  PROVE  /\ Whole(entries', order', clock')
         /\ \A k \in Keys : entries'[k].refs = 0
         /\ disk' \in [Keys -> Nat]
         /\ doomed' \subseteq RenameErrors
<1>1. PICK en \in [Keys -> Entry], t \in Nat : \E o :
        /\ EvictLocked(en, o, Bytes(en, Keys), {})
        /\ Mirrors(o, en, t) /\ clock' = t
        /\ \A k \in Keys : en[k].refs = 0 /\ (en[k].tick > 0 => en[k].bytes > 0)
  BY RestartEvicts
<1>2. /\ entries' \in [Keys -> Entry]
      /\ Mirrors(order', entries', t)
      /\ \A k \in Keys : \/ entries'[k] = en[k]
                         \/ en[k].refs = 0 /\ entries'[k] = NoEntry
      /\ disk' \in [Keys -> Nat]
      /\ doomed' \subseteq {} \cup RenameErrors
  <2>1. PICK o : EvictLocked(en, o, Bytes(en, Keys), {}) /\ Mirrors(o, en, t)
    BY <1>1
  <2> QED BY <2>1, EvictMirrors
<1>3. NoEntry.tick = 0 /\ NoEntry.refs = 0
  BY DEF NoEntry
<1>4. \A k \in Keys : entries'[k].refs = 0
  BY <1>1, <1>2, <1>3
<1>5. \A k \in Keys : entries'[k].tick > 0 => entries'[k].bytes # 0
  BY <1>1, <1>2, <1>3
<1> QED BY <1>1, <1>2, <1>4, <1>5 DEF Whole

--------------------------------------------------------------------------------
(* The invariant *)

LEMMA InitIInv == Init => IInv
<1> SUFFICES ASSUME Init PROVE IInv
  OBVIOUS
<1>1. NoEntry \in Entry /\ NoEntry.tick = 0 /\ NoEntry.refs = 0
  BY DEF NoEntry, Entry
<1>2. Typed
  BY <1>1 DEF Init, Typed
<1>3. OrderMirrorsEntries
  BY <1>1 DEF Init, OrderMirrorsEntries, Known
<1>4. RefsAreGuards
  <2>1. SUFFICES ASSUME NEW k \in Keys
                 PROVE  guards[k] = 0
    BY <1>1 DEF Init, RefsAreGuards, Known
  <2>2. {c \in Clients : at[c] = k /\ k \notin Files} = {}
    BY KeysAssumption DEF Init
  <2> QED BY <2>2, FS_EmptySet DEF guards
<1> QED BY <1>2, <1>3, <1>4, KeysAssumption DEF Init, IInv, DoomedStuck, FilesMeasured

\* Steps that leave the cache and the clients' keys alone.
LEMMA Aside ==
  ASSUME IInv, UNCHANGED <<entries, order, clock>>,
         \A k \in Keys : guards'[k] = guards[k]
  PROVE  /\ entries' \in [Keys -> Entry] /\ clock' \in Nat
         /\ OrderMirrorsEntries' /\ RefsAreGuards'
<1>1. Whole(entries', order', clock') /\ \A k \in Keys : entries'[k].refs = guards'[k]
  BY WholeNow
<1> QED BY <1>1, WholeSuffices

LEMMA StepIInv == IInv /\ [Next]_vars => IInv'
<1> SUFFICES ASSUME IInv, [Next]_vars PROVE IInv'
  OBVIOUS
<1> USE DEF IInv
<1>0. /\ Typed /\ DoomedStuck /\ FilesMeasured
      /\ \A k \in Keys : entries[k].refs = guards[k] /\ entries[k].refs \in Nat
  BY WholeNow
<1>1. ASSUME NEW c \in Clients, Pin(c) PROVE IInv'
  <2>1. PICK k \in Keys \ Files : at[c] = None /\ at' = [at EXCEPT ![c] = k] /\ PinKey(k)
    BY <1>1 DEF Pin
  <2>2. /\ Whole(entries', order', clock')
        /\ \A j \in Keys : entries'[j].refs = IF j = k THEN entries[j].refs + 1 ELSE entries[j].refs
    BY <2>1, PinStep
  <2>3. \A j \in Keys : guards'[j] = IF j = k THEN guards[j] + 1 ELSE guards[j]
    BY <1>0, <2>1, KeysAssumption, GuardTaken DEF Typed
  <2>4. entries' \in [Keys -> Entry] /\ clock' \in Nat /\ OrderMirrorsEntries' /\ RefsAreGuards'
    BY <1>0, <2>2, <2>3, WholeSuffices
  <2>5. Typed' /\ DoomedStuck' /\ FilesMeasured'
    BY <1>0, <1>1, <2>1, <2>4 DEF Pin, PinKey, Typed, DoomedStuck, FilesMeasured
  <2> QED BY <2>4, <2>5
<1>2. ASSUME NEW c \in Clients, WriteTree(c) PROVE IInv'
  <2>1. UNCHANGED <<entries, order, clock, at>>
    BY <1>2 DEF WriteTree, inner
  <2>2. entries' \in [Keys -> Entry] /\ clock' \in Nat /\ OrderMirrorsEntries' /\ RefsAreGuards'
    BY <2>1, GuardsSame, Aside
  <2>3. Typed' /\ DoomedStuck' /\ FilesMeasured'
    BY <1>0, <1>2, <2>1, <2>2, SizesAssumption
       DEF WriteTree, Write, Typed, DoomedStuck, FilesMeasured
  <2> QED BY <2>2, <2>3
<1>3. ASSUME NEW c \in Clients, Measure(c) PROVE IInv'
  <2>1. UNCHANGED <<entries, order, clock, at>>
    BY <1>3 DEF Measure, inner
  <2>2. entries' \in [Keys -> Entry] /\ clock' \in Nat /\ OrderMirrorsEntries' /\ RefsAreGuards'
    BY <2>1, GuardsSame, Aside
  <2>3. Typed' /\ DoomedStuck' /\ FilesMeasured'
    BY <1>0, <1>3, <2>1, <2>2 DEF Measure, Typed, DoomedStuck, FilesMeasured
  <2> QED BY <2>2, <2>3
<1>4. ASSUME NEW c \in Clients, RecordTree(c) PROVE IInv'
  <2>1. at[c] \in Keys \ Files /\ seen[c] \in Nat \ {0} /\ RecordKey(at[c], seen[c])
    BY <1>0, <1>4 DEF RecordTree, Typed
  <2>2. /\ Whole(entries', order', clock')
        /\ \A j \in Keys : entries'[j].refs = entries[j].refs
        /\ disk' \in [Keys -> Nat]
        /\ doomed' \subseteq RenameErrors
    BY <2>1, RecordStep
  <2>3. at' = at
    BY <1>4 DEF RecordTree
  <2>4. entries' \in [Keys -> Entry] /\ clock' \in Nat /\ OrderMirrorsEntries' /\ RefsAreGuards'
    BY <1>0, <2>2, <2>3, GuardsSame, WholeSuffices
  <2>5. Typed' /\ DoomedStuck' /\ FilesMeasured'
    BY <1>0, <1>4, <2>1, <2>2, <2>3, <2>4 DEF RecordTree, Typed, DoomedStuck, FilesMeasured
  <2> QED BY <2>4, <2>5
<1>5. ASSUME NEW c \in Clients, Unpin(c) PROVE IInv'
  <2>1. at[c] \in Keys \ Files /\ UnpinKey(at[c]) /\ at' = [at EXCEPT ![c] = None]
    BY <1>5 DEF Unpin
  <2>2. /\ guards[at[c]] > 0
        /\ \A j \in Keys : guards'[j] = IF j = at[c] THEN guards[j] - 1 ELSE guards[j]
    BY <1>0, <2>1, GuardDropped DEF Typed
  <2>3. /\ Whole(entries', order', clock')
        /\ \A j \in Keys : entries'[j].refs = IF j = at[c] THEN entries[j].refs - 1 ELSE entries[j].refs
    BY <1>0, <2>1, <2>2, UnpinStep
  <2>4. entries' \in [Keys -> Entry] /\ clock' \in Nat /\ OrderMirrorsEntries' /\ RefsAreGuards'
    BY <1>0, <2>2, <2>3, WholeSuffices
  <2>5. Typed' /\ DoomedStuck' /\ FilesMeasured'
    BY <1>0, <1>5, <2>1, <2>4, KeysAssumption
       DEF Unpin, UnpinKey, Typed, DoomedStuck, FilesMeasured
  <2> QED BY <2>4, <2>5
<1>6. ASSUME NEW c \in Clients, WriteFile(c) PROVE IInv'
  <2>1. PICK k \in Files, n \in 1..MaxSize :
          /\ at[c] = None
          /\ disk' = [disk EXCEPT ![k] = n]
          /\ at' = [at EXCEPT ![c] = k]
          /\ seen' = [seen EXCEPT ![c] = n]
    BY <1>6 DEF WriteFile
  <2> at \in [Clients -> Keys \cup {None}] /\ seen \in [Clients -> Nat] /\ disk \in [Keys -> Nat]
    BY <1>0 DEF Typed
  <2>2. \A d \in Clients : at'[d] = at[d] \/ (at[d] = None /\ at'[d] \in Files)
    BY <2>1
  <2>3. \A j \in Keys : guards'[j] = guards[j]
    BY <2>2, GuardsSame
  <2>4. entries' \in [Keys -> Entry] /\ clock' \in Nat /\ OrderMirrorsEntries' /\ RefsAreGuards'
    BY <1>6, <2>3, Aside DEF WriteFile, inner
  <2>5. k \in Keys /\ n \in Nat \ {0}
    BY KeysAssumption, SizesAssumption
  <2>6. Typed'
    BY <2>1, <2>4, <2>5 DEF Typed
  <2>7. DoomedStuck'
    BY <1>0, <1>6 DEF WriteFile, DoomedStuck
  <2>8. ASSUME NEW d \in Clients, at'[d] \in Files PROVE seen'[d] > 0
    <3>1. CASE d = c
      BY <2>1, <2>5, <3>1
    <3>2. CASE d # c
      BY <1>0, <2>1, <2>8, <3>2 DEF FilesMeasured
    <3> QED BY <3>1, <3>2
  <2> QED BY <2>4, <2>6, <2>7, <2>8 DEF FilesMeasured
<1>7. ASSUME NEW c \in Clients, RecordFile(c) PROVE IInv'
  <2>1. /\ at[c] \in Keys /\ at[c] \in Files /\ seen[c] \in Nat \ {0}
        /\ RecordKey(at[c], seen[c])
    BY <1>0, <1>7, KeysAssumption DEF RecordFile, Typed, FilesMeasured
  <2>2. /\ Whole(entries', order', clock')
        /\ \A j \in Keys : entries'[j].refs = entries[j].refs
        /\ disk' \in [Keys -> Nat]
        /\ doomed' \subseteq RenameErrors
    BY <2>1, RecordStep
  <2>3. at' = [at EXCEPT ![c] = None] /\ seen' = [seen EXCEPT ![c] = 0]
    BY <1>7 DEF RecordFile
  <2> at \in [Clients -> Keys \cup {None}]
    BY <1>0 DEF Typed
  <2>4. \A d \in Clients : at'[d] = at[d] \/ (at[d] \in Files /\ at'[d] = None)
    BY <2>1, <2>3
  <2>5. \A j \in Keys : guards'[j] = guards[j]
    BY <2>4, GuardsSame
  <2>6. entries' \in [Keys -> Entry] /\ clock' \in Nat /\ OrderMirrorsEntries' /\ RefsAreGuards'
    BY <1>0, <2>2, <2>5, WholeSuffices
  <2>7. Typed' /\ DoomedStuck' /\ FilesMeasured'
    BY <1>0, <2>1, <2>2, <2>3, <2>6, KeysAssumption DEF Typed, DoomedStuck, FilesMeasured
  <2> QED BY <2>6, <2>7
<1>8. ASSUME NEW k \in Keys, Serve(k) PROVE IInv'
  <2>1. /\ Whole(entries', order', clock')
        /\ \A j \in Keys : entries'[j].refs = entries[j].refs
    BY <1>8, TouchStep DEF Serve
  <2>2. UNCHANGED <<disk, doomed, at, seen>>
    BY <1>8 DEF Serve, TouchKey
  <2>3. entries' \in [Keys -> Entry] /\ clock' \in Nat /\ OrderMirrorsEntries' /\ RefsAreGuards'
    BY <1>0, <2>1, <2>2, GuardsSame, WholeSuffices
  <2>4. Typed' /\ DoomedStuck' /\ FilesMeasured'
    BY <1>0, <2>2, <2>3 DEF Typed, DoomedStuck, FilesMeasured
  <2> QED BY <2>3, <2>4
<1>9. ASSUME NEW k \in Keys, Deleter(k) PROVE IInv'
  <2>1. UNCHANGED <<entries, order, clock, at, seen>>
    BY <1>9 DEF Deleter, inner
  <2>2. entries' \in [Keys -> Entry] /\ clock' \in Nat /\ OrderMirrorsEntries' /\ RefsAreGuards'
    BY <2>1, GuardsSame, Aside
  <2>3. Typed' /\ DoomedStuck' /\ FilesMeasured'
    BY <1>0, <1>9, <2>1, <2>2 DEF Deleter, Typed, DoomedStuck, FilesMeasured
  <2> QED BY <2>2, <2>3
<1>10. ASSUME Restart PROVE IInv'
  <2>1. /\ Whole(entries', order', clock')
        /\ \A k \in Keys : entries'[k].refs = 0
        /\ disk' \in [Keys -> Nat]
        /\ doomed' \subseteq RenameErrors
    BY <1>0, <1>10, RestartStep DEF Typed
  <2>2. at' = [c \in Clients |-> None] /\ seen' = [c \in Clients |-> 0]
    BY <1>10 DEF Restart
  <2>3. ASSUME NEW k \in Keys PROVE guards'[k] = 0
    <3>1. {c \in Clients : at'[c] = k /\ k \notin Files} = {}
      BY <2>2, KeysAssumption
    <3> QED BY <3>1, FS_EmptySet DEF guards
  <2>4. entries' \in [Keys -> Entry] /\ clock' \in Nat /\ OrderMirrorsEntries' /\ RefsAreGuards'
    BY <2>1, <2>3, WholeSuffices
  <2>5. Typed' /\ DoomedStuck' /\ FilesMeasured'
    BY <2>1, <2>2, <2>4, KeysAssumption DEF Typed, DoomedStuck, FilesMeasured
  <2> QED BY <2>4, <2>5
<1>11. ASSUME UNCHANGED vars PROVE IInv'
  <2>1. UNCHANGED <<entries, order, clock, at, seen, disk, doomed>>
    BY <1>11 DEF vars
  <2>2. entries' \in [Keys -> Entry] /\ clock' \in Nat /\ OrderMirrorsEntries' /\ RefsAreGuards'
    BY <2>1, GuardsSame, Aside
  <2> QED BY <1>0, <2>1, <2>2 DEF Typed, DoomedStuck, FilesMeasured
<1>12. ASSUME NEW k \in Keys, AbandonedWrite(k) \/ RevalidationRemoves(k) PROVE IInv'
  <2>1. UNCHANGED <<entries, order, clock, at, seen, doomed>> /\ disk' \in [Keys -> Nat]
    BY <1>0, <1>12, SizesAssumption
       DEF AbandonedWrite, RevalidationRemoves, Write, Typed, inner
  <2>2. entries' \in [Keys -> Entry] /\ clock' \in Nat /\ OrderMirrorsEntries' /\ RefsAreGuards'
    BY <2>1, GuardsSame, Aside
  <2>3. Typed' /\ DoomedStuck' /\ FilesMeasured'
    BY <1>0, <2>1, <2>2 DEF Typed, DoomedStuck, FilesMeasured
  <2> QED BY <2>2, <2>3
<1> QED BY <1>1, <1>2, <1>3, <1>4, <1>5, <1>6, <1>7, <1>8, <1>9, <1>10, <1>11, <1>12 DEF Next

\* Only a write or a revalidation makes a tree smaller whose guard outlives the step.
LEMMA StepKeepsPinned ==
  ASSUME IInv, [Next]_vars,
         NEW c \in Clients, NEW k \in Keys \ (Files \cup RenameErrors), at[c] = k, at'[c] = k
  PROVE  disk'[k] >= disk[k] \/ Write(k) \/ RevalidationRemoves(k)
<1>0. /\ Typed /\ DoomedStuck
      /\ \A j \in Keys : entries[j].refs = guards[j] /\ entries[j].refs \in Nat
  BY WholeNow DEF IInv
<1>1. entries[k].refs > 0
  BY <1>0, GuardHeld
<1>2. ASSUME NEW j \in Keys, NEW n \in Nat \ {0}, RecordKey(j, n) PROVE disk'[k] = disk[k]
  BY <1>1, <1>2, RecordStep
<1>3. ASSUME NEW j \in Keys, Write(j) \/ RevalidationRemoves(j)
      PROVE  disk'[k] >= disk[k] \/ Write(k) \/ RevalidationRemoves(k)
  <2>1. CASE j = k
    BY <1>3, <2>1
  <2>2. CASE j # k
    BY <1>0, <1>3, <2>2 DEF Write, RevalidationRemoves, Typed
  <2> QED BY <2>1, <2>2
<1>4. ASSUME NEW d \in Clients, RecordTree(d) PROVE disk'[k] >= disk[k]
  BY <1>0, <1>2, <1>4 DEF RecordTree, Typed
<1>5. ASSUME NEW d \in Clients, RecordFile(d) PROVE disk'[k] >= disk[k]
  BY <1>0, <1>2, <1>5, KeysAssumption DEF RecordFile, Typed, IInv, FilesMeasured
<1>6. ASSUME NEW d \in Clients, WriteFile(d) PROVE disk'[k] >= disk[k]
  BY <1>0, <1>6 DEF WriteFile, Typed
<1>7. ASSUME NEW j \in Keys, Deleter(j) PROVE disk'[k] >= disk[k]
  BY <1>0, <1>7 DEF Deleter, DoomedStuck, Typed
<1>8. ~Restart
  BY KeysAssumption DEF Restart
<1>9. ASSUME disk' = disk PROVE disk'[k] >= disk[k]
  BY <1>0, <1>9 DEF Typed
<1> QED
  BY <1>3, <1>4, <1>5, <1>6, <1>7, <1>8, <1>9
     DEF Next, Pin, PinKey, WriteTree, AbandonedWrite, Measure, Unpin, UnpinKey, Serve,
         TouchKey, vars

--------------------------------------------------------------------------------
(* The total and the lanes' accounts *)

LEMMA RecordSum ==
  ASSUME IInv, TotalIsSum, NEW k \in Keys, NEW en \in [Keys -> Entry],
         \A j \in Keys \ {k} : en[j] = entries[j]
  PROVE  Monus(total, entries[k].bytes) + en[k].bytes = Bytes(en, Keys)
<1>1. /\ IsFiniteSet(Keys) /\ IsFiniteSet(Keys \ {k})
      /\ \A j \in Keys : entries[j].bytes \in Nat /\ en[j].bytes \in Nat
  BY FiniteAssumption, FS_Subset, EntryBytes DEF IInv, Typed
<1>2. Bytes(entries, Keys) = entries[k].bytes + Bytes(entries, Keys \ {k})
  BY <1>1, BytesRemove
<1>3. Bytes(en, Keys) = en[k].bytes + Bytes(en, Keys \ {k})
  BY <1>1, BytesRemove
<1>4. Bytes(en, Keys \ {k}) = Bytes(entries, Keys \ {k})
  BY <1>1, BytesSame
<1>5. Bytes(entries, Keys \ {k}) \in Nat
  BY <1>1, BytesType
<1>6. Monus(total, entries[k].bytes) = Bytes(entries, Keys \ {k})
  BY <1>1, <1>2, <1>5 DEF TotalIsSum, Monus
<1> QED BY <1>1, <1>3, <1>4, <1>5, <1>6

LEMMA RecordTotal ==
  ASSUME IInv, TotalIsSum, NEW k \in Keys, NEW n \in Nat \ {0}, RecordKey(k, n)
  PROVE  TotalIsSum'
<1>1. PICK en \in [Keys -> Entry], t \in Nat : \E o :
        /\ EvictLocked(en, o, Monus(total, entries[k].bytes) + en[k].bytes, doomed)
        /\ Mirrors(o, en, t)
        /\ \A j \in Keys \ {k} : en[j] = entries[j]
  BY RecordEvicts
<1>2. Monus(total, entries[k].bytes) + en[k].bytes = Bytes(en, Keys)
  BY <1>1, RecordSum
<1>3. PICK o : /\ EvictLocked(en, o, Monus(total, entries[k].bytes) + en[k].bytes, doomed)
               /\ Mirrors(o, en, t)
  BY <1>1
<1>4. total' = Bytes(entries', Keys)
  BY <1>2, <1>3, EvictTotal
<1> QED BY <1>4 DEF TotalIsSum

LEMMA TotalKept ==
  ASSUME IInv, TotalIsSum, total' = total,
         \A k \in Keys : entries'[k].bytes = entries[k].bytes
  PROVE  TotalIsSum'
<1>1. Bytes(entries, Keys) = Bytes(entries', Keys)
  BY FiniteAssumption, BytesSame
<1> QED BY <1>1 DEF TotalIsSum

LEMMA PinBytes ==
  ASSUME Typed, NEW k \in Keys, PinKey(k)
  PROVE  \A j \in Keys : entries'[j].bytes = entries[j].bytes
<1>1. entries' = [entries EXCEPT ![k].refs = @ + 1, ![k].tick = clock + 1]
  BY DEF PinKey
<1> QED BY <1>1 DEF Typed, Entry

LEMMA TouchBytes ==
  ASSUME Typed, NEW k \in Keys, TouchKey(k)
  PROVE  \A j \in Keys : entries'[j].bytes = entries[j].bytes
<1>1. entries' = [entries EXCEPT ![k].tick = clock + 1]
  BY DEF TouchKey
<1> QED BY <1>1 DEF Typed, Entry

LEMMA UnpinBytes ==
  ASSUME Typed, NEW k \in Keys, UnpinKey(k)
  PROVE  \A j \in Keys : entries'[j].bytes = entries[j].bytes
<1> DEFINE refs == Monus(entries[k].refs, 1)
<1>1. \/ entries[k].bytes = 0 /\ entries' = [entries EXCEPT ![k] = NoEntry]
      \/ entries' = [entries EXCEPT ![k] = [@ EXCEPT !.refs = refs]]
  BY DEF UnpinKey
<1> HIDE DEF refs
<1>2. NoEntry.bytes = 0
  BY DEF NoEntry
<1> QED BY <1>1, <1>2 DEF Typed, Entry

LEMMA StepTotal ==
  ASSUME IInv, TotalIsSum, [Next]_vars
  PROVE  TotalIsSum'
<1>0. Typed
  BY DEF IInv
<1>1. ASSUME NEW c \in Clients, Pin(c) PROVE TotalIsSum'
  <2>1. PICK k \in Keys : PinKey(k)
    BY <1>1 DEF Pin
  <2>2. total' = total
    BY <2>1 DEF PinKey
  <2> QED BY <1>0, <2>1, <2>2, PinBytes, TotalKept
<1>2. ASSUME NEW c \in Clients, RecordTree(c) \/ RecordFile(c) PROVE TotalIsSum'
  <2>1. at[c] \in Keys /\ seen[c] \in Nat \ {0} /\ RecordKey(at[c], seen[c])
    BY <1>0, <1>2, KeysAssumption DEF RecordTree, RecordFile, Typed, IInv, FilesMeasured
  <2> QED BY <2>1, RecordTotal
<1>3. ASSUME NEW c \in Clients, Unpin(c) PROVE TotalIsSum'
  <2>1. at[c] \in Keys /\ UnpinKey(at[c])
    BY <1>3 DEF Unpin
  <2>2. total' = total
    BY <2>1 DEF UnpinKey
  <2> QED BY <1>0, <2>1, <2>2, UnpinBytes, TotalKept
<1>4. ASSUME NEW k \in Keys, Serve(k) PROVE TotalIsSum'
  <2>1. TouchKey(k) /\ total' = total
    BY <1>4 DEF Serve, TouchKey
  <2> QED BY <1>0, <2>1, TouchBytes, TotalKept
<1>5. ASSUME Restart PROVE TotalIsSum'
  <2>1. PICK en \in [Keys -> Entry], t \in Nat : \E o :
          EvictLocked(en, o, Bytes(en, Keys), {}) /\ Mirrors(o, en, t)
    BY <1>0, <1>5, RestartEvicts DEF Typed
  <2>2. total' = Bytes(entries', Keys)
    BY <2>1, EvictTotal
  <2> QED BY <2>2 DEF TotalIsSum
<1>6. ASSUME UNCHANGED <<entries, total>> PROVE TotalIsSum'
  BY <1>6, TotalKept
<1> QED
  BY <1>1, <1>2, <1>3, <1>4, <1>5, <1>6
     DEF Next, WriteTree, AbandonedWrite, RevalidationRemoves, Measure, WriteFile, Deleter,
         inner, vars

LEMMA StepLanesTyped ==
  ASSUME IInv, LanesTyped, [Next]_vars
  PROVE  LanesTyped'
<1>0. /\ at \in [Clients -> Keys \cup {None}] /\ seen \in [Clients -> Nat]
      /\ unsaved \in [Clients -> BOOLEAN] /\ loose \subseteq Keys /\ shrunk \subseteq Keys
      /\ \A c \in Clients : at[c] = None => seen[c] = 0
      /\ None \notin Keys /\ Files \subseteq Keys
  BY KeysAssumption DEF IInv, Typed, LanesTyped
<1>1. ASSUME NEW c \in Clients,
             \/ Pin(c) \/ WriteTree(c) \/ Measure(c) \/ RecordTree(c) \/ Unpin(c)
             \/ WriteFile(c) \/ RecordFile(c)
      PROVE  LanesTyped'
  <2>1. CASE Pin(c)
    BY <1>0, <2>1 DEF Pin, LanesTyped
  <2>2. CASE WriteTree(c)
    BY <1>0, <2>2 DEF WriteTree, Write, LanesTyped
  <2>3. CASE Measure(c)
    BY <1>0, <2>3 DEF Measure, LanesTyped
  <2>4. CASE RecordTree(c)
    BY <1>0, <2>4 DEF RecordTree, StillKnown, LanesTyped
  <2>5. CASE Unpin(c)
    BY <1>0, <2>5 DEF Unpin, LanesTyped
  <2>6. CASE WriteFile(c)
    BY <1>0, <2>6 DEF WriteFile, LanesTyped
  <2>7. CASE RecordFile(c)
    BY <1>0, <2>7 DEF RecordFile, StillKnown, LanesTyped
  <2> QED BY <1>1, <2>1, <2>2, <2>3, <2>4, <2>5, <2>6, <2>7
<1>2. ASSUME Restart PROVE LanesTyped'
  BY <1>2 DEF Restart, LanesTyped
<1>3. ASSUME UNCHANGED <<at, seen, unsaved, loose, shrunk>> PROVE LanesTyped'
  BY <1>0, <1>3 DEF LanesTyped
<1>4. ASSUME NEW k \in Keys, AbandonedWrite(k) \/ RevalidationRemoves(k) PROVE LanesTyped'
  BY <1>0, <1>4 DEF AbandonedWrite, RevalidationRemoves, Write, LanesTyped
<1> QED BY <1>1, <1>2, <1>3, <1>4 DEF Next, Serve, Deleter, vars

\* What a record leaves of the account of a tree: its own lane has brought the larger of
\* two sizes, another tree is left alone or taken as a whole.
LEMMA RecordLanes ==
  ASSUME IInv, NEW i \in Keys, NEW n \in Nat \ {0}, RecordKey(i, n),
         NEW k \in Trees, TreeAccounted(k),
         i = k => entries[k].refs > 0 /\ (k \notin shrunk => n <= disk[k])
  PROVE  /\ entries'[k].bytes \in Nat /\ disk'[k] \in Nat
         /\ k \notin shrunk => entries'[k].bytes <= disk'[k]
         /\ \A d \in Clients : at[d] = k => disk'[k] = disk[k] /\ entries'[k].refs > 0
         /\ entries[k].bytes >= disk[k] => entries'[k].bytes >= disk'[k]
         /\ i = k /\ n >= disk[k] => entries'[k].bytes >= disk'[k]
         /\ disk'[k] \in {disk[k], 0}
<1>0. /\ k \in Keys \ Files /\ k \in Keys \ RenameErrors
      /\ entries[k].bytes \in Nat /\ disk[k] \in Nat
      /\ \A d \in Clients : at[d] = k => entries[k].refs > 0
  BY GuardHeld, EntryBytes DEF IInv, Typed, Trees, RefsAreGuards
<1>1. PICK en \in [Keys -> Entry], t \in Nat : \E o :
        /\ EvictLocked(en, o, Monus(total, entries[i].bytes) + en[i].bytes, doomed)
        /\ en[i].bytes = (IF entries[i].refs > 0 /\ entries[i].bytes > n
                              THEN entries[i].bytes ELSE n)
        /\ en[i].refs = entries[i].refs
        /\ \A j \in Keys \ {i} : en[j] = entries[j]
  BY RecordEvicts
<1>2. \/ entries'[k] = en[k] /\ disk'[k] = disk[k]
      \/ en[k].refs = 0 /\ entries'[k].bytes = 0 /\ disk'[k] = 0
  BY <1>0, <1>1, EvictTrees
<1>3. en[k].refs = entries[k].refs
  BY <1>0, <1>1
<1>4. CASE i = k
  <2>1. entries'[k] = en[k] /\ disk'[k] = disk[k] /\ entries[k].refs > 0
    BY <1>0, <1>2, <1>3, <1>4
  <2>2. en[k].bytes = IF entries[k].bytes > n THEN entries[k].bytes ELSE n
    BY <1>1, <1>4, <2>1
  <2>3. k \notin shrunk => entries[k].bytes <= disk[k] /\ n <= disk[k]
    BY <1>4 DEF TreeAccounted
  <2> QED BY <1>0, <1>3, <2>1, <2>2, <2>3
<1>5. CASE i # k
  <2>1. en[k] = entries[k]
    BY <1>0, <1>1, <1>5
  <2> QED BY <1>0, <1>2, <1>3, <1>5, <2>1 DEF TreeAccounted
<1> QED BY <1>4, <1>5

LEMMA StepLanes ==
  ASSUME IInv, LanesTyped, LanesAccount, [Next]_vars
  PROVE  LanesAccount'
<1> SUFFICES ASSUME NEW k \in Trees
             PROVE  TreeAccounted(k)'
  BY DEF LanesAccount
<1>0. /\ entries \in [Keys -> Entry] /\ disk \in [Keys -> Nat]
      /\ at \in [Clients -> Keys \cup {None}] /\ seen \in [Clients -> Nat]
      /\ unsaved \in [Clients -> BOOLEAN]
      /\ \A c \in Clients : at[c] = None => seen[c] = 0
      /\ entries[k].bytes \in Nat /\ disk[k] \in Nat
      /\ MaxSize \in Nat
  BY EntryBytes, SizesAssumption DEF IInv, Typed, LanesTyped, Trees
<1>k. /\ k \in Keys /\ k \in Keys \ Files /\ k \in Keys \ RenameErrors /\ k # None
      /\ Files \subseteq Keys
  BY KeysAssumption DEF Trees
<1>t. /\ TreeAccounted(k)
      /\ k \notin shrunk => /\ entries[k].bytes <= disk[k]
                            /\ \A c \in Clients : at[c] = k => seen[c] <= disk[k]
      /\ \/ entries[k].bytes >= disk[k]
         \/ k \in loose
         \/ \E c \in Clients : at[c] = k /\ (unsaved[c] \/ seen[c] >= disk[k])
  BY DEF LanesAccount, TreeAccounted
<1>g. \A c \in Clients : at[c] = k => entries[k].refs > 0
  BY <1>k, GuardHeld DEF IInv, RefsAreGuards
<1>1. ASSUME NEW c \in Clients, Pin(c) PROVE TreeAccounted(k)'
  <2>1. PICK j \in Keys : /\ at[c] = None /\ at' = [at EXCEPT ![c] = j] /\ PinKey(j)
                          /\ UNCHANGED <<seen, unsaved, loose, shrunk>>
    BY <1>1 DEF Pin
  <2>2. entries'[k].bytes = entries[k].bytes /\ disk' = disk
    BY <1>k, <2>1, PinBytes DEF IInv, PinKey
  <2> QED BY <1>0, <1>k, <1>t, <2>1, <2>2 DEF TreeAccounted
<1>w. ASSUME NEW j \in Keys, Write(j), UNCHANGED <<entries, at, seen>>,
             \/ j # k
             \/ j \in loose'
             \/ \E c \in Clients : at[c] = j /\ unsaved'[c],
             loose \subseteq loose',
             \A c \in Clients : unsaved[c] => unsaved'[c]
      PROVE  TreeAccounted(k)'
  <2>1. PICK n \in 1..MaxSize :
          /\ disk' = [disk EXCEPT ![j] = n]
          /\ shrunk' = IF n < disk[j] THEN shrunk \cup {j} ELSE shrunk
    BY <1>w DEF Write
  <2>2. k \notin shrunk' => disk'[k] >= disk[k] /\ k \notin shrunk
    BY <1>0, <1>k, <2>1
  <2>3. disk'[k] \in Nat
    BY <1>0, <1>k, <2>1
  <2>4. k \notin shrunk' => /\ entries'[k].bytes <= disk'[k]
                            /\ \A c \in Clients : at'[c] = k => seen'[c] <= disk'[k]
    BY <1>0, <1>t, <1>w, <2>2, <2>3
  <2>5. \/ entries'[k].bytes >= disk'[k]
        \/ k \in loose'
        \/ \E c \in Clients : at'[c] = k /\ (unsaved'[c] \/ seen'[c] >= disk'[k])
    <3>1. CASE j = k
      BY <1>w, <3>1
    <3>2. CASE j # k
      BY <1>0, <1>k, <1>t, <1>w, <2>1, <3>2
    <3> QED BY <3>1, <3>2
  <2> QED BY <2>4, <2>5 DEF TreeAccounted
<1>2. ASSUME NEW c \in Clients, WriteTree(c) PROVE TreeAccounted(k)'
  <2>1. /\ at[c] \in Keys /\ Write(at[c]) /\ UNCHANGED <<entries, at, seen, loose>>
        /\ unsaved' = [unsaved EXCEPT ![c] = TRUE]
    BY <1>2 DEF WriteTree, inner
  <2>2. unsaved'[c] /\ \A d \in Clients : unsaved[d] => unsaved'[d]
    BY <1>0, <2>1
  <2>3. loose \subseteq loose'
    BY <2>1
  <2> QED BY <1>w, <2>1, <2>2, <2>3
<1>3. ASSUME NEW c \in Clients, Measure(c) PROVE TreeAccounted(k)'
  BY <1>0, <1>k, <1>t, <1>3 DEF Measure, inner, TreeAccounted
<1>4. ASSUME NEW c \in Clients, RecordTree(c) PROVE TreeAccounted(k)'
  <2>1. /\ at[c] \in Keys /\ seen[c] \in Nat \ {0} /\ RecordKey(at[c], seen[c])
        /\ seen' = [seen EXCEPT ![c] = 0] /\ UNCHANGED <<at, unsaved, loose>>
        /\ shrunk' = {j \in shrunk : entries'[j].bytes > 0 \/ entries'[j].refs > 0}
    BY <1>0, <1>4 DEF RecordTree, StillKnown
  <2>2. /\ entries'[k].bytes \in Nat /\ disk'[k] \in Nat
        /\ k \notin shrunk => entries'[k].bytes <= disk'[k]
        /\ \A d \in Clients : at[d] = k => disk'[k] = disk[k] /\ entries'[k].refs > 0
        /\ entries[k].bytes >= disk[k] => entries'[k].bytes >= disk'[k]
        /\ at[c] = k /\ seen[c] >= disk[k] => entries'[k].bytes >= disk'[k]
    BY <1>g, <1>t, <2>1, RecordLanes
  <2>3. \A d \in Clients : seen'[d] \in {0, seen[d]}
    BY <1>0, <2>1
  <2>4. k \notin shrunk' => /\ entries'[k].bytes <= disk'[k]
                            /\ \A d \in Clients : at'[d] = k => seen'[d] <= disk'[k]
    BY <1>0, <1>t, <2>1, <2>2, <2>3
  <2>5. \/ entries'[k].bytes >= disk'[k]
        \/ k \in loose'
        \/ \E d \in Clients : at'[d] = k /\ (unsaved'[d] \/ seen'[d] >= disk'[k])
    BY <1>0, <1>t, <2>1, <2>2
  <2> QED BY <2>4, <2>5 DEF TreeAccounted
<1>5. ASSUME NEW c \in Clients, RecordFile(c) PROVE TreeAccounted(k)'
  <2>1. /\ at[c] \in Files /\ seen[c] \in Nat \ {0} /\ RecordKey(at[c], seen[c])
        /\ at' = [at EXCEPT ![c] = None]
        /\ seen' = [seen EXCEPT ![c] = 0] /\ UNCHANGED <<unsaved, loose>>
        /\ shrunk' = {j \in shrunk : entries'[j].bytes > 0 \/ entries'[j].refs > 0}
    BY <1>0, <1>5 DEF RecordFile, StillKnown, IInv, FilesMeasured
  <2>2. /\ entries'[k].bytes \in Nat /\ disk'[k] \in Nat
        /\ k \notin shrunk => entries'[k].bytes <= disk'[k]
        /\ \A d \in Clients : at[d] = k => disk'[k] = disk[k] /\ entries'[k].refs > 0
        /\ entries[k].bytes >= disk[k] => entries'[k].bytes >= disk'[k]
    BY <1>k, <1>t, <2>1, RecordLanes
  <2>3. \A d \in Clients : at'[d] = k => d # c /\ at[d] = k /\ seen'[d] = seen[d]
    BY <1>0, <1>k, <2>1
  <2>6. \A d \in Clients : at[d] = k => at'[d] = k /\ seen'[d] = seen[d]
    BY <1>0, <1>k, <2>1
  <2>4. k \notin shrunk' => /\ entries'[k].bytes <= disk'[k]
                            /\ \A d \in Clients : at'[d] = k => seen'[d] <= disk'[k]
    BY <1>0, <1>t, <2>1, <2>2, <2>3
  <2>5. \/ entries'[k].bytes >= disk'[k]
        \/ k \in loose'
        \/ \E d \in Clients : at'[d] = k /\ (unsaved'[d] \/ seen'[d] >= disk'[k])
    BY <1>0, <1>t, <2>1, <2>2, <2>6
  <2> QED BY <2>4, <2>5 DEF TreeAccounted
<1>6. ASSUME NEW c \in Clients, Unpin(c) PROVE TreeAccounted(k)'
  <2>1. /\ at[c] \in Keys /\ seen[c] = 0 /\ UnpinKey(at[c])
        /\ at' = [at EXCEPT ![c] = None]
        /\ unsaved' = [unsaved EXCEPT ![c] = FALSE]
        /\ loose' = IF unsaved[c] THEN loose \cup {at[c]} ELSE loose
        /\ seen' = seen /\ shrunk' = shrunk
    BY <1>6 DEF Unpin
  <2>2. entries'[k].bytes = entries[k].bytes /\ disk' = disk
    BY <1>k, <2>1, UnpinBytes DEF IInv, UnpinKey
  <2> QED BY <1>0, <1>k, <1>t, <2>1, <2>2 DEF TreeAccounted
<1>7. ASSUME NEW c \in Clients, WriteFile(c) PROVE TreeAccounted(k)'
  <2>1. PICK j \in Files, n \in 1..MaxSize :
          /\ at[c] = None
          /\ disk' = [disk EXCEPT ![j] = n]
          /\ at' = [at EXCEPT ![c] = j]
          /\ seen' = [seen EXCEPT ![c] = n]
          /\ UNCHANGED <<entries, unsaved, loose, shrunk>>
    BY <1>7 DEF WriteFile, inner
  <2> QED BY <1>0, <1>k, <1>t, <2>1 DEF TreeAccounted
<1>8. ASSUME NEW j \in Keys, Serve(j) PROVE TreeAccounted(k)'
  <2>1. entries'[k].bytes = entries[k].bytes
        /\ UNCHANGED <<disk, at, seen, unsaved, loose, shrunk>>
    BY <1>k, <1>8, TouchBytes DEF IInv, Serve, TouchKey
  <2> QED BY <1>t, <2>1 DEF TreeAccounted
<1>9. ASSUME NEW j \in Keys, Deleter(j) PROVE TreeAccounted(k)'
  <2>1. j # k /\ disk'[k] = disk[k] /\ UNCHANGED <<entries, at, seen, unsaved, loose, shrunk>>
    BY <1>0, <1>k, <1>9 DEF IInv, DoomedStuck, Deleter, inner
  <2> QED BY <1>t, <2>1 DEF TreeAccounted
<1>10. ASSUME Restart PROVE TreeAccounted(k)'
  <2>1. PICK en \in [Keys -> Entry], t \in Nat : \E o :
          EvictLocked(en, o, Bytes(en, Keys), {}) /\ \A j \in Keys : en[j].bytes = disk[j]
    BY <1>0, <1>10, RestartEvicts
  <2>2. entries'[k].bytes = disk'[k] /\ disk'[k] \in Nat
    BY <1>0, <1>k, <2>1, EvictTrees
  <2>3. \A c \in Clients : at'[c] = None
    BY <1>10 DEF Restart
  <2> QED BY <1>k, <2>2, <2>3 DEF TreeAccounted
<1>11. ASSUME UNCHANGED vars PROVE TreeAccounted(k)'
  BY <1>t, <1>11 DEF TreeAccounted, vars
<1>12. ASSUME NEW j \in Keys, AbandonedWrite(j) PROVE TreeAccounted(k)'
  <2>1. /\ Write(j) /\ UNCHANGED <<entries, at, seen, unsaved>> /\ loose' = loose \cup {j}
    BY <1>12 DEF AbandonedWrite, inner
  <2>2. j \in loose' /\ loose \subseteq loose' /\ \A c \in Clients : unsaved[c] => unsaved'[c]
    BY <2>1
  <2> QED BY <1>w, <2>1, <2>2
<1>13. ASSUME NEW j \in Keys, RevalidationRemoves(j) PROVE TreeAccounted(k)'
  <2>1. PICK n \in 0..MaxSize : /\ n < disk[j] /\ disk' = [disk EXCEPT ![j] = n]
                                /\ shrunk' = shrunk \cup {j}
                                /\ UNCHANGED <<entries, at, seen, unsaved, loose>>
    BY <1>13 DEF RevalidationRemoves, inner
  <2>2. CASE j = k
    BY <1>0, <1>k, <1>t, <2>1, <2>2 DEF TreeAccounted
  <2>3. CASE j # k
    BY <1>0, <1>k, <1>t, <2>1, <2>3 DEF TreeAccounted
  <2> QED BY <2>2, <2>3
<1> QED
  BY <1>1, <1>2, <1>3, <1>4, <1>5, <1>6, <1>7, <1>8, <1>9, <1>10, <1>11, <1>12, <1>13 DEF Next

LEMMA InitAccounts == Init => Accounts
<1> SUFFICES ASSUME Init PROVE Accounts
  OBVIOUS
<1>1. \A k \in Keys : entries[k].bytes = 0 /\ disk[k] = 0
  BY DEF Init, NoEntry
<1>2. TotalIsSum
  BY <1>1, FiniteAssumption, BytesZero DEF TotalIsSum, Init
<1>3. LanesTyped /\ LanesAccount
  BY <1>1, KeysAssumption DEF Init, LanesTyped, LanesAccount, TreeAccounted, Trees
<1> QED BY <1>2, <1>3 DEF Accounts

--------------------------------------------------------------------------------
(* The refinement of the LRU store *)

\* Sizes stay within the bound, and a key without an entry counts no bytes.
Bounded ==
  /\ \A k \in Keys : disk[k] <= MaxSize
  /\ \A c \in Clients : seen[c] <= MaxSize
  /\ \A k \in Keys : entries[k].tick = 0 => entries[k].bytes = 0

\* The sums of the two modules agree.
LEMMA UsedIsBytes ==
  ASSUME NEW S, NEW s, NEW en, \A x \in S : s[x] = en[x].bytes
  PROVE  Lru!Used(S, s) = Bytes(en, S)
<1> DEFINE Adds(g) ==
             g = [x \in SUBSET S |->
                    IF x = {} THEN 0 ELSE s[CHOOSE y \in x : TRUE] + g[x \ {CHOOSE y \in x : TRUE}]]
<1>1. Lru!Used(S, s) = (CHOOSE g : Adds(g))[S]
  BY DEF Lru!Used, Lru!MapThenSumSet, Lru!MapThenFoldSet
<1>2. ASSUME NEW g PROVE Adds(g) <=> Summed(g, en, S)
  <2>1. \A x \in SUBSET S : x # {} => s[CHOOSE y \in x : TRUE] = en[CHOOSE y \in x : TRUE].bytes
    <3>1. \A x \in SUBSET S : x # {} => (CHOOSE y \in x : TRUE) \in S
      OBVIOUS
    <3> QED BY <3>1
  <2>2. [x \in SUBSET S |->
           IF x = {} THEN 0 ELSE s[CHOOSE y \in x : TRUE] + g[x \ {CHOOSE y \in x : TRUE}]]
        = [x \in SUBSET S |->
             IF x = {} THEN 0 ELSE en[CHOOSE y \in x : TRUE].bytes + g[x \ {CHOOSE y \in x : TRUE}]]
    BY <2>1
  <2> QED BY <2>2 DEF Summed
<1> HIDE DEF Adds
<1>3. (CHOOSE g : Adds(g)) = (CHOOSE g : Summed(g, en, S))
  BY <1>2
<1> QED BY <1>1, <1>3, BytesDef

LEMMA BytesMore ==
  ASSUME NEW S, IsFiniteSet(S), NEW en, \A x \in S : en[x].bytes \in Nat, NEW K \in SUBSET S
  PROVE  Bytes(en, K) \in Nat /\ Bytes(en, S) \in Nat /\ Bytes(en, K) <= Bytes(en, S)
<1>1. IsFiniteSet(K) /\ IsFiniteSet(S \ K)
  BY FS_Subset
<1>2. Bytes(en, S) = Bytes(en, K) + Bytes(en, S \ K)
  BY BytesSplit
<1>3. Bytes(en, K) \in Nat /\ Bytes(en, S \ K) \in Nat
  BY <1>1, BytesType
<1> QED BY <1>2, <1>3

\* Among some keys one was used before all the others.
LEMMA Eldest ==
  ASSUME NEW en \in [Keys -> Entry], NEW T \in SUBSET Keys, T # {}
  PROVE  \E k \in T : \A j \in T : en[k].tick <= en[j].tick
<1> DEFINE before(k) == {j \in T : en[j].tick < en[k].tick}
           C == {before(k) : k \in T}
<1>1. IsFiniteSet(T) /\ C \in SUBSET SUBSET T /\ C # {}
  <2>1. IsFiniteSet(T)
    BY FiniteAssumption, FS_Subset
  <2>2. \A k \in T : before(k) \in C /\ before(k) \in SUBSET T
    OBVIOUS
  <2> QED BY <2>1, <2>2
<1>2. PICK U \in C : \A W \in C : W \subseteq U => W = U
  <2> HIDE DEF C
  <2> QED BY <1>1, MinimalSubset
<1>3. PICK k \in T : U = before(k)
  BY <1>2
<1>4. ASSUME NEW j \in T, ~(en[k].tick <= en[j].tick) PROVE FALSE
  <2>1. \A i \in T : en[i].tick \in Nat
    BY DEF Entry
  <2>2. j \in before(k) /\ j \notin before(j) /\ before(j) \subseteq before(k)
    BY <1>4, <2>1
  <2> QED BY <1>2, <1>3, <2>2
<1> QED BY <1>4

\* The keys and the order of an index that mirrors the entries.
LEMMA MirroredOrder ==
  ASSUME NEW en \in [Keys -> Entry], NEW o, NEW c \in Nat, Mirrors(o, en, c)
  PROVE  /\ Indexed(o) = {k \in Keys : en[k].tick > 0}
         /\ ByTick(o) = {x \in Indexed(o) \X Indexed(o) : en[x[1]].tick < en[x[2]].tick}
         /\ \A p \in o : p.key \in Indexed(o) /\ p.tick = en[p.key].tick
         /\ \A k \in Indexed(o) : \E p \in o : p.key = k
<1>1. \A p \in o : p.key \in Keys /\ p.tick = en[p.key].tick /\ p.tick > 0
  <2> SUFFICES ASSUME NEW p \in o PROVE p.key \in Keys /\ p.tick = en[p.key].tick /\ p.tick > 0
    OBVIOUS
  <2>1. PICK k \in Keys : en[k].tick > 0 /\ p = [tick |-> en[k].tick, key |-> k]
    BY DEF Mirrors
  <2> QED BY <2>1
<1>2. ASSUME NEW k \in Keys, en[k].tick > 0 PROVE \E p \in o : p.key = k
  <2>1. [tick |-> en[k].tick, key |-> k] \in o
    BY <1>2 DEF Mirrors
  <2> QED BY <2>1
<1>3. Indexed(o) = {k \in Keys : en[k].tick > 0}
  BY <1>1, <1>2 DEF Indexed
<1>4. \A x \in Indexed(o) \X Indexed(o) :
        (\E p, q \in o : p.key = x[1] /\ q.key = x[2] /\ p.tick < q.tick)
          <=> en[x[1]].tick < en[x[2]].tick
  BY <1>1, <1>2, <1>3
<1>5. ByTick(o) = {x \in Indexed(o) \X Indexed(o) : en[x[1]].tick < en[x[2]].tick}
  BY <1>4 DEF ByTick
<1> QED BY <1>1, <1>2, <1>3, <1>5

\* The bytes of the known keys, short of a set of them, are what the total would be.
LEMMA KnownBytes ==
  ASSUME NEW en \in [Keys -> Entry], NEW K \in SUBSET Keys,
         \A k \in Keys \ K : en[k].bytes = 0,
         NEW S \in SUBSET K
  PROVE  /\ Bytes(en, K \ S) \in Nat
         /\ Monus(Bytes(en, Keys), Bytes(en, S)) = Bytes(en, K \ S)
<1>1. /\ IsFiniteSet(Keys) /\ IsFiniteSet(K) /\ IsFiniteSet(Keys \ K)
      /\ IsFiniteSet(S) /\ IsFiniteSet(K \ S)
      /\ \A k \in Keys : en[k].bytes \in Nat
  BY FiniteAssumption, FS_Subset, EntryBytes
<1>2. Bytes(en, Keys) = Bytes(en, K) + Bytes(en, Keys \ K)
  BY <1>1, BytesSplit
<1>3. Bytes(en, K) = Bytes(en, S) + Bytes(en, K \ S)
  BY <1>1, BytesSplit
<1>4. Bytes(en, Keys \ K) = 0
  BY <1>1, BytesZero
<1>5. Bytes(en, S) \in Nat /\ Bytes(en, K \ S) \in Nat
  BY <1>1, BytesType
<1> QED BY <1>2, <1>3, <1>4, <1>5 DEF Monus

\* What can be evicted, what of it was used before k, and what evict_locked takes.
CanFall(en, K) == {k \in K : en[k].refs = 0 /\ en[k].bytes > 0}
Before(en, K, k) == {j \in CanFall(en, K) : en[j].tick < en[k].tick}
Falling(en, K) == {k \in CanFall(en, K) : Bytes(en, K \ Before(en, K, k)) > Budget}

\* An entry falls iff without the older ones that can fall the rest is too much.
LEMMA VictimKeys ==
  ASSUME NEW en \in [Keys -> Entry], NEW o, NEW c \in Nat, Mirrors(o, en, c),
         \A k \in Keys : en[k].tick = 0 => en[k].bytes = 0
  PROVE  {p.key : p \in Victims(en, o, Bytes(en, Keys))} = Falling(en, Indexed(o))
<1> DEFINE K == Indexed(o)
           can == {p \in o : en[p.key].refs = 0 /\ en[p.key].bytes > 0}
           Aged(p) == {q.key : q \in {r \in can : r.tick < p.tick}}
<1>1. /\ K \in SUBSET Keys /\ \A k \in Keys \ K : en[k].bytes = 0
      /\ \A p \in o : p.key \in K /\ p.tick = en[p.key].tick
      /\ \A k \in K : \E p \in o : p.key = k
  <2>1. K = {k \in Keys : en[k].tick > 0}
    BY MirroredOrder
  <2>2. \A k \in Keys : en[k].tick \in Nat
    BY DEF Entry
  <2> QED BY <2>1, <2>2, MirroredOrder
<1>2. Victims(en, o, Bytes(en, Keys)) = {p \in can : Monus(Bytes(en, Keys), Bytes(en, Aged(p))) > Budget}
  BY DEF Victims
<1> HIDE DEF K
<1>3. ASSUME NEW p \in o PROVE Aged(p) = Before(en, K, p.key)
  <2>1. ASSUME NEW k \in Aged(p) PROVE k \in Before(en, K, p.key)
    <3>1. PICK q \in can : q.tick < p.tick /\ q.key = k
      BY <2>1
    <3> QED BY <1>1, <3>1 DEF Before, CanFall
  <2>2. ASSUME NEW k \in Before(en, K, p.key) PROVE k \in Aged(p)
    <3>1. PICK q \in o : q.key = k
      BY <1>1, <2>2 DEF Before, CanFall
    <3>2. q \in can /\ q.tick < p.tick
      BY <1>1, <2>2, <3>1 DEF Before, CanFall
    <3> QED BY <3>1, <3>2
  <2> QED BY <2>1, <2>2
<1>4. \A k \in K : Monus(Bytes(en, Keys), Bytes(en, Before(en, K, k))) = Bytes(en, K \ Before(en, K, k))
  <2>1. \A k \in K : Before(en, K, k) \in SUBSET K
    BY DEF Before, CanFall
  <2> QED BY <1>1, <2>1, KnownBytes
<1> HIDE DEF Aged
<1>5. Victims(en, o, Bytes(en, Keys))
        = {p \in can : Bytes(en, K \ Before(en, K, p.key)) > Budget}
  BY <1>1, <1>2, <1>3, <1>4
<1>6. {p.key : p \in Victims(en, o, Bytes(en, Keys))}
        = {k \in K : en[k].refs = 0 /\ en[k].bytes > 0 /\ Bytes(en, K \ Before(en, K, k)) > Budget}
  <2> DEFINE Falls(k) == en[k].refs = 0 /\ en[k].bytes > 0 /\ Bytes(en, K \ Before(en, K, k)) > Budget
  <2>1. Victims(en, o, Bytes(en, Keys)) = {p \in o : Falls(p.key)}
    BY <1>5
  <2> HIDE DEF Falls
  <2>2. {p.key : p \in {q \in o : Falls(q.key)}} = {k \in K : Falls(k)}
    BY <1>1
  <2> QED BY <2>1, <2>2 DEF Falls
<1> QED BY <1>6 DEF K, Falling, CanFall

\* Those are the right victims: oldest first, enough, and not one too many.
RightlyFalls(en, K, E, Can) ==
  /\ \A v \in E, k \in Can \ E : en[v].tick < en[k].tick
  /\ Bytes(en, K \ E) <= Budget \/ E = Can
  /\ \A v \in E : (\A w \in E \ {v} : en[w].tick < en[v].tick)
                    => Bytes(en, (K \ E) \cup {v}) > Budget

LEMMA VictimsRight ==
  ASSUME NEW en \in [Keys -> Entry], NEW K \in SUBSET Keys,
         \A j, k \in K : en[j].tick = en[k].tick => j = k
  PROVE  RightlyFalls(en, K, Falling(en, K), CanFall(en, K))
<1> DEFINE Can == CanFall(en, K)
           E == Falling(en, K)
<1>e. /\ Can = {k \in K : en[k].refs = 0 /\ en[k].bytes > 0}
      /\ E = {k \in Can : Bytes(en, K \ Before(en, K, k)) > Budget}
  BY DEF CanFall, Falling
<1> HIDE DEF Can, E
<1>0. /\ \A k \in Keys : en[k].tick \in Nat /\ en[k].bytes \in Nat
      /\ \A S \in SUBSET K : IsFiniteSet(S) /\ Bytes(en, S) \in Nat
      /\ Budget \in Nat
  <2>1. \A k \in Keys : en[k].tick \in Nat /\ en[k].bytes \in Nat
    BY DEF Entry
  <2>2. \A S \in SUBSET K : IsFiniteSet(S)
    BY FiniteAssumption, FS_Subset
  <2>3. \A S \in SUBSET K : Bytes(en, S) \in Nat
    BY <2>1, <2>2, BytesType
  <2> QED BY <2>1, <2>2, <2>3, SizesAssumption
<1>1. \A k \in K : Before(en, K, k) = {j \in Can : en[j].tick < en[k].tick}
  BY DEF Before, Can
<1>2. ASSUME NEW v \in E, NEW k \in Can \ E PROVE en[v].tick < en[k].tick
  <2> SUFFICES ASSUME ~(en[v].tick < en[k].tick) PROVE FALSE
    OBVIOUS
  <2>1. v \in K /\ k \in K /\ v # k
    BY <1>e
  <2>2. Before(en, K, k) \subseteq Before(en, K, v)
    BY <1>0, <1>1, <1>e, <2>1
  <2>3. K \ Before(en, K, v) \in SUBSET (K \ Before(en, K, k)) /\ K \ Before(en, K, k) \in SUBSET K
    BY <2>2
  <2>4. Bytes(en, K \ Before(en, K, v)) <= Bytes(en, K \ Before(en, K, k))
    BY <1>0, <2>3, BytesMore
  <2> QED BY <1>0, <1>e, <2>3, <2>4
<1>3. ASSUME E # Can PROVE Bytes(en, K \ E) <= Budget
  <2>1. PICK k \in Can \ E : \A j \in Can \ E : en[k].tick <= en[j].tick
    <3>1. Can \ E # {} /\ Can \ E \in SUBSET Keys
      BY <1>3, <1>e
    <3> QED BY <3>1, Eldest
  <2>2. Before(en, K, k) = E
    BY <1>0, <1>1, <1>2, <1>e, <2>1
  <2>3. ~(Bytes(en, K \ E) > Budget)
    BY <1>e, <2>1, <2>2
  <2>4. Bytes(en, K \ E) \in Nat
    BY <1>0
  <2> QED BY <1>0, <2>3, <2>4
<1>4. ASSUME NEW v \in E, \A w \in E \ {v} : en[w].tick < en[v].tick
      PROVE  Bytes(en, (K \ E) \cup {v}) > Budget
  <2>1. Before(en, K, v) = E \ {v}
    BY <1>0, <1>1, <1>2, <1>4, <1>e
  <2>2. K \ Before(en, K, v) = (K \ E) \cup {v}
    BY <1>e, <2>1
  <2> QED BY <1>e, <2>2
<1> QED BY <1>2, <1>3, <1>4 DEF RightlyFalls, E, Can

\* evict_locked, on entries, an index that mirrors them and their sum, settles as the
\* abstract store does.
Settled(known, older, size, K, o, s, p) ==
  \E E \in SUBSET Lru!Evictable(K, s, p) :
    /\ known = K \ E
    /\ older = Lru!Among(o, K \ E)
    /\ size = [k \in Keys |-> IF k \in E THEN 0 ELSE s[k]]
    /\ Lru!RightVictims(E, K, o, s, p)

LEMMA EvictSettles ==
  ASSUME NEW en \in [Keys -> Entry], NEW o, NEW c \in Nat, Mirrors(o, en, c), NEW q,
         \A k \in Keys : en[k].tick = 0 => en[k].bytes = 0,
         EvictLocked(en, o, Bytes(en, Keys), q),
         NEW s \in [Keys -> Nat], \A k \in Keys : s[k] = en[k].bytes,
         NEW p, \A k \in Keys : p[k] = en[k].refs
  PROVE  Settled(Indexed(order'), ByTick(order'), [k \in Keys |-> entries'[k].bytes],
                 Indexed(o), ByTick(o), s, p)
<1> DEFINE K == Indexed(o)
           E == {r.key : r \in Victims(en, o, Bytes(en, Keys))}
           Can == Lru!Evictable(K, s, p)
<1>1. /\ K = {k \in Keys : en[k].tick > 0}
      /\ ByTick(o) = {x \in K \X K : en[x[1]].tick < en[x[2]].tick}
  BY MirroredOrder
<1>2. Can = CanFall(en, K)
  BY <1>1 DEF Lru!Evictable, CanFall
<1>3. E = Falling(en, K)
  BY VictimKeys
<1>4. entries' = [k \in Keys |-> IF k \in E THEN NoEntry ELSE en[k]]
  BY DEF EvictLocked
<1>5. Mirrors(order', entries', c) /\ entries' \in [Keys -> Entry]
  BY EvictMirrors
<1>6. /\ Indexed(order') = {k \in Keys : entries'[k].tick > 0}
      /\ ByTick(order') = {x \in Indexed(order') \X Indexed(order') :
                             entries'[x[1]].tick < entries'[x[2]].tick}
  BY <1>5, MirroredOrder
<1> HIDE DEF E, K, Can
<1>7. NoEntry.tick = 0 /\ NoEntry.bytes = 0
  BY DEF NoEntry
<1>8. E \in SUBSET Can /\ Can \in SUBSET K /\ K \in SUBSET Keys
  BY <1>1, <1>2, <1>3 DEF Falling, CanFall
<1>9. Indexed(order') = K \ E
  BY <1>1, <1>4, <1>6, <1>7
<1>10. ByTick(order') = Lru!Among(ByTick(o), K \ E)
  <2>1. \A k \in K \ E : entries'[k] = en[k]
    BY <1>4, <1>8
  <2> QED BY <1>1, <1>6, <1>9, <2>1 DEF Lru!Among
<1>11. [k \in Keys |-> entries'[k].bytes] = [k \in Keys |-> IF k \in E THEN 0 ELSE s[k]]
  BY <1>4, <1>7
<1>12. Lru!RightVictims(E, K, ByTick(o), s, p)
  <2>1. \A j, k \in K : en[j].tick = en[k].tick => j = k
    BY <1>1 DEF Mirrors
  <2>2. /\ \A v \in E, k \in Can \ E : en[v].tick < en[k].tick
        /\ Bytes(en, K \ E) <= Budget \/ E = Can
        /\ \A v \in E : (\A w \in E \ {v} : en[w].tick < en[v].tick)
                          => Bytes(en, (K \ E) \cup {v}) > Budget
    <3>1. K \in SUBSET Keys
      BY <1>8
    <3>2. RightlyFalls(en, K, E, Can)
      BY <1>2, <1>3, <2>1, <3>1, VictimsRight
    <3> QED BY <3>2 DEF RightlyFalls
  <2>3. E \X (Can \ E) \subseteq ByTick(o)
    BY <1>1, <1>8, <2>2
  <2>4. \A S \in SUBSET K : Lru!Used(S, s) = Bytes(en, S)
    BY <1>8, UsedIsBytes
  <2>5. Lru!Used(K \ E, s) <= Budget \/ E = Can
    BY <2>2, <2>4
  <2>6. ASSUME NEW v \in E, (E \ {v}) \X {v} \subseteq ByTick(o)
        PROVE  Lru!Used((K \ E) \cup {v}, s) > Budget
    <3>1. \A w \in E \ {v} : en[w].tick < en[v].tick
      <4>1. \A w \in E \ {v} : <<w, v>> \in ByTick(o)
        BY <2>6
      <4> QED BY <1>1, <4>1
    <3> QED BY <1>8, <2>2, <2>4, <3>1
  <2> QED BY <2>3, <2>5, <2>6 DEF Lru!RightVictims, Can
<1> QED BY <1>8, <1>9, <1>10, <1>11, <1>12 DEF Settled, K, Can

\* A key used now is the latest.
LEMMA LatestOrder ==
  ASSUME entries \in [Keys -> Entry], clock \in Nat, Mirrors(order, entries, clock),
         NEW k \in Keys, NEW t \in Nat, clock < t,
         NEW en \in [Keys -> Entry], NEW o, Mirrors(o, en, t),
         en[k].tick = t, \A j \in Keys \ {k} : en[j].tick = entries[j].tick
  PROVE  Indexed(o) = Indexed(order) \cup {k} /\ ByTick(o) = Lru!Latest(k)
<1>1. /\ Indexed(order) = {j \in Keys : entries[j].tick > 0}
      /\ ByTick(order) = {x \in Indexed(order) \X Indexed(order) :
                            entries[x[1]].tick < entries[x[2]].tick}
  BY MirroredOrder
<1>2. /\ Indexed(o) = {j \in Keys : en[j].tick > 0}
      /\ ByTick(o) = {x \in Indexed(o) \X Indexed(o) : en[x[1]].tick < en[x[2]].tick}
  BY MirroredOrder
<1>3. \A j \in Keys : entries[j].tick \in Nat /\ entries[j].tick <= clock /\ en[j].tick \in Nat
  BY DEF Mirrors, Entry
<1>4. Indexed(o) = Indexed(order) \cup {k}
  BY <1>1, <1>2, <1>3
<1>5. ASSUME NEW i \in Indexed(o), NEW j \in Indexed(o)
      PROVE  <<i, j>> \in ByTick(o) <=> <<i, j>> \in Lru!Latest(k)
  <2>1. i \in Keys /\ j \in Keys /\ (i \in Indexed(order) \/ i = k) /\ (j \in Indexed(order) \/ j = k)
    BY <1>2, <1>4
  <2>2. <<i, j>> \in ByTick(o) <=> en[i].tick < en[j].tick
    BY <1>2
  <2>3. <<i, j>> \in Lru!Latest(k) <=>
          \/ i # k /\ j # k /\ <<i, j>> \in ByTick(order)
          \/ i # k /\ j = k
    BY <2>1 DEF Lru!Latest, Lru!Among
  <2>4. i # k /\ j # k => (<<i, j>> \in ByTick(order) <=> en[i].tick < en[j].tick)
    BY <1>1, <2>1
  <2>5. i # k => en[i].tick < en[k].tick
    BY <1>3, <2>1
  <2>6. i = k => ~(en[i].tick < en[j].tick)
    BY <1>3, <2>1
  <2> QED BY <2>2, <2>3, <2>4, <2>5, <2>6
<1>6. ByTick(o) \subseteq Indexed(o) \X Indexed(o) /\ Lru!Latest(k) \subseteq Indexed(o) \X Indexed(o)
  BY <1>1, <1>2, <1>4 DEF Lru!Latest, Lru!Among
<1>7. ByTick(o) \subseteq Lru!Latest(k)
  <2> SUFFICES ASSUME NEW x \in ByTick(o) PROVE x \in Lru!Latest(k)
    OBVIOUS
  <2>1. PICK i \in Indexed(o), j \in Indexed(o) : x = <<i, j>>
    BY <1>6
  <2> QED BY <1>5, <2>1
<1>8. Lru!Latest(k) \subseteq ByTick(o)
  <2> SUFFICES ASSUME NEW x \in Lru!Latest(k) PROVE x \in ByTick(o)
    OBVIOUS
  <2>1. PICK i \in Indexed(o), j \in Indexed(o) : x = <<i, j>>
    BY <1>6
  <2> QED BY <1>5, <2>1
<1> QED BY <1>4, <1>7, <1>8

LEMMA GuardsFunction ==
  /\ guards = [k \in Keys |-> guards[k]]
  /\ guards' = [k \in Keys |-> guards'[k]]
BY DEF guards

LEMMA PinRefines ==
  ASSUME IInv, NEW c \in Clients, Pin(c)
  PROVE  \E k \in Keys : Lru!Pin(k)
<1>1. PICK k \in Keys \ Files : at[c] = None /\ at' = [at EXCEPT ![c] = k] /\ PinKey(k)
  BY DEF Pin
<1>2. /\ entries \in [Keys -> Entry] /\ clock \in Nat /\ Mirrors(order, entries, clock)
      /\ at \in [Clients -> Keys \cup {None}]
  BY MirrorsDef DEF IInv, Typed
<1>3. Mirrors(order', entries', clock') /\ entries' \in [Keys -> Entry]
  BY <1>1, PinStep DEF Whole
<1>4. clock' = clock + 1 /\ entries' = [entries EXCEPT ![k].refs = @ + 1, ![k].tick = clock + 1]
  BY <1>1 DEF PinKey
<1>5. /\ entries'[k].tick = clock' /\ clock' \in Nat /\ clock < clock'
      /\ \A j \in Keys \ {k} : entries'[j].tick = entries[j].tick
  BY <1>2, <1>4 DEF Entry
<1>6. Indexed(order') = Indexed(order) \cup {k} /\ ByTick(order') = Lru!Latest(k)
  BY <1>2, <1>3, <1>5, LatestOrder
<1>7. guards' = [guards EXCEPT ![k] = @ + 1]
  <2>1. \A j \in Keys : guards'[j] = IF j = k THEN guards[j] + 1 ELSE guards[j]
    BY <1>1, <1>2, KeysAssumption, GuardTaken
  <2> QED BY <2>1, GuardsFunction
<1>8. [j \in Keys |-> entries'[j].bytes] = [j \in Keys |-> entries[j].bytes]
  BY <1>1, PinBytes DEF IInv
<1> QED BY <1>6, <1>7, <1>8 DEF Lru!Pin

LEMMA TouchRefines ==
  ASSUME IInv, NEW k \in Keys, Serve(k)
  PROVE  Lru!Touch(k)
<1>1. TouchKey(k) /\ at' = at
  BY DEF Serve
<1>2. entries \in [Keys -> Entry] /\ clock \in Nat /\ Mirrors(order, entries, clock)
  BY MirrorsDef DEF IInv, Typed
<1>3. Mirrors(order', entries', clock') /\ entries' \in [Keys -> Entry]
  BY <1>1, TouchStep DEF Whole
<1>4. /\ Known(k) /\ clock' = clock + 1
      /\ entries' = [entries EXCEPT ![k].tick = clock + 1]
  BY <1>1 DEF TouchKey
<1>5. /\ entries'[k].tick = clock' /\ clock' \in Nat /\ clock < clock'
      /\ \A j \in Keys \ {k} : entries'[j].tick = entries[j].tick
  BY <1>2, <1>4 DEF Entry
<1>6. Indexed(order') = Indexed(order) \cup {k} /\ ByTick(order') = Lru!Latest(k)
  BY <1>2, <1>3, <1>5, LatestOrder
<1>7. k \in Indexed(order)
  BY <1>2, <1>4, MirroredOrder DEF Known
<1>8. [j \in Keys |-> entries'[j].bytes] = [j \in Keys |-> entries[j].bytes]
  BY <1>1, TouchBytes DEF IInv
<1>9. guards' = guards
  BY <1>1 DEF guards
<1> QED BY <1>6, <1>7, <1>8, <1>9 DEF Lru!Touch

LEMMA UnpinRefines ==
  ASSUME IInv, NEW c \in Clients, Unpin(c)
  PROVE  \E k \in Keys : Lru!Unpin(k)
<1> DEFINE k == at[c]
           gone == Monus(entries[k].refs, 1) = 0 /\ entries[k].bytes = 0
<1>1. k \in Keys \ Files /\ UnpinKey(k) /\ at' = [at EXCEPT ![c] = None]
  BY DEF Unpin
<1>2. /\ entries \in [Keys -> Entry] /\ clock \in Nat /\ Mirrors(order, entries, clock)
      /\ at \in [Clients -> Keys \cup {None}]
      /\ entries[k].refs = guards[k] /\ entries[k].refs \in Nat
  BY <1>1, MirrorsDef, WholeNow DEF IInv, Typed
<1>3. Mirrors(order', entries', clock') /\ entries' \in [Keys -> Entry] /\ clock' \in Nat
  BY <1>1, <1>2, GuardHeld, UnpinStep DEF Whole
<1>4. guards[k] > 0 /\ guards' = [guards EXCEPT ![k] = @ - 1]
  <2>1. guards[k] > 0 /\ \A j \in Keys : guards'[j] = IF j = k THEN guards[j] - 1 ELSE guards[j]
    BY <1>1, <1>2, GuardDropped
  <2> QED BY <2>1, GuardsFunction
<1>5. gone <=> guards[k] = 1 /\ entries[k].bytes = 0
  BY <1>2, <1>4 DEF Monus
<1>6. entries' = [entries EXCEPT ![k] = IF gone THEN NoEntry
                                        ELSE [@ EXCEPT !.refs = Monus(entries[k].refs, 1)]]
  BY <1>1 DEF UnpinKey
<1>7. /\ gone => entries'[k].tick = 0
      /\ ~gone => entries'[k].tick = entries[k].tick
      /\ \A j \in Keys \ {k} : entries'[j].tick = entries[j].tick
  <2> HIDE DEF gone
  <2>1. NoEntry.tick = 0
    BY DEF NoEntry
  <2> QED BY <1>1, <1>2, <1>6, <2>1 DEF Entry
<1>8. /\ Indexed(order) = {j \in Keys : entries[j].tick > 0}
      /\ ByTick(order) = {x \in Indexed(order) \X Indexed(order) :
                            entries[x[1]].tick < entries[x[2]].tick}
  BY <1>2, MirroredOrder
<1>9. /\ Indexed(order') = {j \in Keys : entries'[j].tick > 0}
      /\ ByTick(order') = {x \in Indexed(order') \X Indexed(order') :
                             entries'[x[1]].tick < entries'[x[2]].tick}
  BY <1>3, MirroredOrder
<1> HIDE DEF gone
<1>10. Indexed(order') = IF gone THEN Indexed(order) \ {k} ELSE Indexed(order)
  BY <1>7, <1>8, <1>9
<1>11. ByTick(order') = Lru!Among(ByTick(order), Indexed(order'))
  <2>1. Indexed(order') \subseteq Indexed(order)
    BY <1>10
  <2>2. \A j \in Indexed(order') : j \in Keys /\ entries'[j].tick = entries[j].tick
    BY <1>7, <1>8, <1>10
  <2> QED BY <1>8, <1>9, <2>1, <2>2 DEF Lru!Among
<1>12. [j \in Keys |-> entries'[j].bytes] = [j \in Keys |-> entries[j].bytes]
  BY <1>1, UnpinBytes DEF IInv
<1>13. [j \in Keys |-> entries[j].bytes][k] = entries[k].bytes
  BY <1>1
<1> HIDE DEF k
<1> QED BY <1>1, <1>4, <1>5, <1>10, <1>11, <1>12, <1>13 DEF Lru!Unpin

LEMMA RecordRefines ==
  ASSUME IInv, TotalIsSum, Bounded, NEW k \in Keys, NEW n \in 1..MaxSize, RecordKey(k, n),
         guards' = guards
  PROVE  \E j \in Keys, m \in 1..MaxSize : Lru!Record(j, m)
<1> DEFINE new == IF entries[k].refs > 0 /\ entries[k].bytes > n THEN entries[k].bytes ELSE n
<1>1. n \in Nat \ {0}
  BY SizesAssumption
<1>2. PICK en \in [Keys -> Entry], t \in Nat : \E o :
        /\ EvictLocked(en, o, Monus(total, entries[k].bytes) + en[k].bytes, doomed)
        /\ Mirrors(o, en, t) /\ clock < t /\ en[k].tick = t
        /\ en[k].bytes = new /\ en[k].refs = entries[k].refs
        /\ \A j \in Keys \ {k} : en[j] = entries[j]
  BY <1>1, RecordEvicts
<1> HIDE DEF new
<1>3. PICK o : /\ EvictLocked(en, o, Monus(total, entries[k].bytes) + en[k].bytes, doomed)
               /\ Mirrors(o, en, t)
  BY <1>2
<1>4. EvictLocked(en, o, Bytes(en, Keys), doomed)
  BY <1>2, <1>3, RecordSum
<1>5. /\ entries \in [Keys -> Entry] /\ clock \in Nat /\ Mirrors(order, entries, clock)
      /\ \A j \in Keys : entries[j].refs = guards[j]
  BY MirrorsDef DEF IInv, Typed, RefsAreGuards
<1>6. Indexed(o) = Indexed(order) \cup {k} /\ ByTick(o) = Lru!Latest(k)
  BY <1>2, <1>3, <1>5, LatestOrder
<1> DEFINE s == [[j \in Keys |-> entries[j].bytes] EXCEPT ![k] = new]
<1>7. /\ \A j \in Keys : s[j] = en[j].bytes
      /\ s = [j \in Keys |-> en[j].bytes]
  BY <1>2
<1>8. s \in [Keys -> Nat]
  BY <1>7, EntryBytes
<1>9. \A j \in Keys : en[j].tick = 0 => en[j].bytes = 0
  BY <1>2, <1>5 DEF Bounded
<1>10. \A j \in Keys : guards[j] = en[j].refs
  BY <1>2, <1>5
<1> HIDE DEF s
<1>11. Settled(Indexed(order'), ByTick(order'), [j \in Keys |-> entries'[j].bytes],
               Indexed(o), ByTick(o), s, guards)
  BY <1>3, <1>4, <1>7, <1>8, <1>9, <1>10, EvictSettles
<1>12. Settled(Indexed(order'), ByTick(order'), [j \in Keys |-> entries'[j].bytes],
               Indexed(order) \cup {k}, Lru!Latest(k), s, guards)
  BY <1>6, <1>11
<1>13. new = IF guards[k] > 0 /\ [j \in Keys |-> entries[j].bytes][k] > n
               THEN [j \in Keys |-> entries[j].bytes][k] ELSE n
  BY <1>5 DEF new
<1>14. Lru!Record(k, n)
  BY <1>12, <1>13 DEF Lru!Record, Lru!SettleAs, Settled, s
<1> QED BY <1>14

LEMMA RestartRefines ==
  ASSUME IInv, Bounded, Restart
  PROVE  Lru!Restart
<1> DEFINE here == {k \in Keys : disk[k] > 0}
<1>1. disk \in [Keys -> Nat]
  BY DEF IInv, Typed
<1>2. PICK en \in [Keys -> Entry], t \in Nat : \E o :
        /\ EvictLocked(en, o, Bytes(en, Keys), {})
        /\ Mirrors(o, en, t) /\ t = Cardinality(here)
        /\ \A k \in Keys : /\ en[k].bytes = disk[k] /\ en[k].refs = 0
                           /\ en[k].tick > 0 <=> en[k].bytes > 0
  BY <1>1, RestartEvicts
<1>3. PICK o : EvictLocked(en, o, Bytes(en, Keys), {}) /\ Mirrors(o, en, t)
  BY <1>2
<1>4. guards' = [k \in Keys |-> 0]
  <2>1. ASSUME NEW k \in Keys PROVE guards'[k] = 0
    <3>1. {c \in Clients : at'[c] = k /\ k \notin Files} = {}
      BY KeysAssumption DEF Restart
    <3> QED BY <3>1, FS_EmptySet DEF guards
  <2> QED BY <2>1, GuardsFunction
<1> DEFINE s == [k \in Keys |-> en[k].bytes]
           found == {k \in Keys : s[k] > 0}
           rank == [k \in found |-> en[k].tick]
<1>5. /\ \A k \in Keys : en[k].tick \in Nat /\ en[k].bytes \in Nat /\ en[k].tick <= t
      /\ \A j, k \in Keys : en[j].tick > 0 /\ en[k].tick = en[j].tick => j = k
  BY <1>3 DEF Entry, Mirrors
<1>6. s \in [Keys -> Nat] /\ s \in [Keys -> 1..MaxSize \cup {0}] /\ \A k \in Keys : s[k] = en[k].bytes
  BY <1>2, <1>5, SizesAssumption DEF Bounded
<1>7. found = here /\ \A k \in found : k \in Keys /\ en[k].tick > 0
  BY <1>2, <1>6
<1>8. rank \in [found -> 1..Cardinality(found)]
  <2>1. Cardinality(found) = t
    BY <1>2, <1>7
  <2>2. \A k \in found : en[k].tick \in 1..t
    BY <1>5, <1>7
  <2> HIDE DEF found
  <2> QED BY <2>1, <2>2
<1>9. \A j, k \in found : rank[j] = rank[k] => j = k
  BY <1>5, <1>7
<1>10. \A k \in Keys : en[k].tick = 0 => en[k].bytes = 0
  BY <1>2, <1>5
<1>11. \A k \in Keys : guards'[k] = en[k].refs
  BY <1>2, <1>4
<1>12. Settled(Indexed(order'), ByTick(order'), [j \in Keys |-> entries'[j].bytes],
               Indexed(o), ByTick(o), s, guards')
  <2> HIDE DEF s
  <2> QED BY <1>3, <1>6, <1>10, <1>11, EvictSettles
<1>13. Indexed(o) = found /\ ByTick(o) = {x \in found \X found : rank[x[1]] < rank[x[2]]}
  <2>1. /\ Indexed(o) = {k \in Keys : en[k].tick > 0}
        /\ ByTick(o) = {x \in Indexed(o) \X Indexed(o) : en[x[1]].tick < en[x[2]].tick}
    BY <1>3, MirroredOrder
  <2>2. Indexed(o) = found
    BY <1>2, <1>6, <2>1
  <2> QED BY <2>1, <2>2
<1>14. Settled(Indexed(order'), ByTick(order'), [j \in Keys |-> entries'[j].bytes],
               found, {x \in found \X found : rank[x[1]] < rank[x[2]]}, s, guards')
  <2> HIDE DEF found, rank, s
  <2> QED BY <1>12, <1>13
<1> HIDE DEF rank
<1>15. \E r \in [found -> 1..Cardinality(found)] :
         /\ \A j, k \in found : r[j] = r[k] => j = k
         /\ Settled(Indexed(order'), ByTick(order'), [j \in Keys |-> entries'[j].bytes],
                    found, {x \in found \X found : r[x[1]] < r[x[2]]}, s, guards')
  <2> HIDE DEF found, s
  <2> QED BY <1>8, <1>9, <1>14
<1>16. \E z \in [Keys -> 1..MaxSize \cup {0}] :
         LET f == {k \in Keys : z[k] > 0} IN
         \E r \in [f -> 1..Cardinality(f)] :
           /\ \A j, k \in f : r[j] = r[k] => j = k
           /\ Settled(Indexed(order'), ByTick(order'), [j \in Keys |-> entries'[j].bytes],
                      f, {x \in f \X f : r[x[1]] < r[x[2]]}, z, guards')
  <2> s \in [Keys -> 1..MaxSize \cup {0}]
    BY <1>6
  <2> HIDE DEF s
  <2> WITNESS s \in [Keys -> 1..MaxSize \cup {0}]
  <2> QED BY <1>15
<1>17. \E z \in [Keys -> 1..MaxSize \cup {0}] :
         LET f == {k \in Keys : z[k] > 0} IN
         \E r \in [f -> 1..Cardinality(f)] :
           /\ \A j, k \in f : r[j] = r[k] => j = k
           /\ \E E \in SUBSET Lru!Evictable(f, z, guards') :
                /\ Indexed(order') = f \ E
                /\ ByTick(order') = Lru!Among({x \in f \X f : r[x[1]] < r[x[2]]}, f \ E)
                /\ [k \in Keys |-> entries'[k].bytes] = [k \in Keys |-> IF k \in E THEN 0 ELSE z[k]]
                /\ Lru!RightVictims(E, f, {x \in f \X f : r[x[1]] < r[x[2]]}, z, guards')
  BY <1>16 DEF Settled
<1>19. \E z \in [Keys -> 1..MaxSize \cup {0}] :
         LET f == {k \in Keys : z[k] > 0} IN
         /\ Indexed(order') \subseteq f
         /\ \A k \in Indexed(order') : [j \in Keys |-> entries'[j].bytes][k] = z[k]
         /\ \E r \in [f -> 1..Cardinality(f)] :
           /\ \A j, k \in f : r[j] = r[k] => j = k
           /\ \E E \in SUBSET Lru!Evictable(f, z, guards') :
                /\ Indexed(order') = f \ E
                /\ ByTick(order') = Lru!Among({x \in f \X f : r[x[1]] < r[x[2]]}, f \ E)
                /\ [k \in Keys |-> entries'[k].bytes] = [k \in Keys |-> IF k \in E THEN 0 ELSE z[k]]
                /\ Lru!RightVictims(E, f, {x \in f \X f : r[x[1]] < r[x[2]]}, z, guards')
  BY <1>17
<1>18. \A S : Lru!Cardinality(S) = Cardinality(S)
  BY DEF Lru!Cardinality, Cardinality
<1> QED BY <1>4, <1>18, <1>19 DEF Lru!Restart, Lru!SettleAs

LEMMA EvictBounded ==
  ASSUME NEW o, NEW en \in [Keys -> Entry], NEW tot, NEW q, EvictLocked(en, o, tot, q),
         \A k \in Keys : en[k].tick = 0 => en[k].bytes = 0
  PROVE  /\ \A k \in Keys : disk'[k] = disk[k] \/ disk'[k] = 0
         /\ \A k \in Keys : entries'[k].tick = 0 => entries'[k].bytes = 0
<1> DEFINE K == {p.key : p \in Victims(en, o, tot)}
<1>1. /\ entries' = [k \in Keys |-> IF k \in K THEN NoEntry ELSE en[k]]
      /\ disk' = [k \in Keys |-> IF k \in Quarantined(K) THEN 0 ELSE disk[k]]
  BY DEF EvictLocked
<1> HIDE DEF K
<1> QED BY <1>1 DEF NoEntry

LEMMA RecordBounded ==
  ASSUME IInv, Bounded, NEW k \in Keys, NEW n \in Nat \ {0}, RecordKey(k, n),
         \A c \in Clients : seen'[c] \in {0, seen[c]}
  PROVE  Bounded'
<1>1. PICK en \in [Keys -> Entry], t \in Nat : \E o :
        /\ EvictLocked(en, o, Monus(total, entries[k].bytes) + en[k].bytes, doomed)
        /\ clock < t /\ en[k].tick = t
        /\ \A j \in Keys \ {k} : en[j] = entries[j]
  BY RecordEvicts
<1>2. \A j \in Keys : en[j].tick = 0 => en[j].bytes = 0
  BY <1>1 DEF Bounded, IInv, Typed
<1>3. /\ \A j \in Keys : disk'[j] = disk[j] \/ disk'[j] = 0
      /\ \A j \in Keys : entries'[j].tick = 0 => entries'[j].bytes = 0
  BY <1>1, <1>2, EvictBounded
<1> QED BY <1>3, SizesAssumption DEF Bounded

LEMMA StepBounded ==
  ASSUME IInv, Bounded, [Next]_vars
  PROVE  Bounded'
<1>0. /\ disk \in [Keys -> Nat] /\ seen \in [Clients -> Nat] /\ entries \in [Keys -> Entry]
      /\ clock \in Nat /\ at \in [Clients -> Keys \cup {None}] /\ MaxSize \in Nat
  BY SizesAssumption DEF IInv, Typed
<1>1. ASSUME NEW c \in Clients, Pin(c) PROVE Bounded'
  <2>1. PICK k \in Keys : PinKey(k)
    BY <1>1 DEF Pin
  <2>2. UNCHANGED <<disk, seen>> /\ entries' = [entries EXCEPT ![k].refs = @ + 1, ![k].tick = clock + 1]
    BY <1>1, <2>1 DEF Pin, PinKey
  <2> QED BY <1>0, <2>2 DEF Bounded, Entry
<1>2. ASSUME NEW c \in Clients, WriteTree(c) PROVE Bounded'
  BY <1>0, <1>2 DEF WriteTree, Write, Bounded, inner
<1>3. ASSUME NEW c \in Clients, Measure(c) PROVE Bounded'
  BY <1>0, <1>3 DEF Measure, Bounded, inner
<1>4. ASSUME NEW c \in Clients, RecordTree(c) \/ RecordFile(c) PROVE Bounded'
  <2>1. at[c] \in Keys /\ seen[c] \in Nat \ {0} /\ RecordKey(at[c], seen[c])
    BY <1>0, <1>4, KeysAssumption DEF RecordTree, RecordFile, IInv, FilesMeasured
  <2>2. \A d \in Clients : seen'[d] \in {0, seen[d]}
    BY <1>0, <1>4 DEF RecordTree, RecordFile
  <2> QED BY <2>1, <2>2, RecordBounded
<1>5. ASSUME NEW c \in Clients, Unpin(c) PROVE Bounded'
  <2>1. at[c] \in Keys /\ UnpinKey(at[c]) /\ UNCHANGED <<disk, seen>>
    BY <1>5 DEF Unpin, UnpinKey
  <2>2. \A k \in Keys : entries'[k] = NoEntry \/ (entries'[k].tick = entries[k].tick
                                                   /\ entries'[k].bytes = entries[k].bytes)
    BY <1>0, <2>1 DEF UnpinKey, Entry
  <2> QED BY <2>1, <2>2 DEF Bounded, NoEntry
<1>6. ASSUME NEW c \in Clients, WriteFile(c) PROVE Bounded'
  BY <1>0, <1>6, KeysAssumption DEF WriteFile, Bounded, inner
<1>7. ASSUME NEW k \in Keys, Serve(k) PROVE Bounded'
  <2>1. UNCHANGED <<disk, seen>> /\ entries' = [entries EXCEPT ![k].tick = clock + 1]
    BY <1>7 DEF Serve, TouchKey
  <2> QED BY <1>0, <2>1 DEF Bounded, Entry
<1>8. ASSUME NEW k \in Keys, Deleter(k) PROVE Bounded'
  BY <1>0, <1>8 DEF Deleter, Bounded, inner
<1>9. ASSUME Restart PROVE Bounded'
  <2>1. PICK en \in [Keys -> Entry], t \in Nat : \E o :
          /\ EvictLocked(en, o, Bytes(en, Keys), {})
          /\ \A k \in Keys : en[k].tick > 0 <=> en[k].bytes > 0
    BY <1>0, <1>9, RestartEvicts
  <2>2. \A k \in Keys : en[k].tick = 0 => en[k].bytes = 0
    BY <2>1 DEF Entry
  <2>3. /\ \A k \in Keys : disk'[k] = disk[k] \/ disk'[k] = 0
        /\ \A k \in Keys : entries'[k].tick = 0 => entries'[k].bytes = 0
    BY <2>1, <2>2, EvictBounded
  <2>4. \A c \in Clients : seen'[c] = 0
    BY <1>9 DEF Restart
  <2> QED BY <1>0, <2>3, <2>4 DEF Bounded
<1>10. ASSUME UNCHANGED vars PROVE Bounded'
  BY <1>10 DEF vars, inner, Bounded
<1>11. ASSUME NEW k \in Keys, AbandonedWrite(k) \/ RevalidationRemoves(k) PROVE Bounded'
  BY <1>0, <1>11 DEF AbandonedWrite, RevalidationRemoves, Write, Bounded, inner
<1> QED BY <1>1, <1>2, <1>3, <1>4, <1>5, <1>6, <1>7, <1>8, <1>9, <1>10, <1>11 DEF Next

\* Every step of the cache and its lanes is a step of the store, or none.
LEMMA StepRefines ==
  ASSUME IInv, Accounts, Bounded, [Next]_vars
  PROVE  [Lru!LruNext]_(Lru!lruVars)
<1>0. /\ at \in [Clients -> Keys \cup {None}] /\ seen \in [Clients -> Nat]
      /\ TotalIsSum /\ Files \subseteq Keys /\ None \notin Keys
  BY KeysAssumption DEF IInv, Typed, Accounts
<1>1. ASSUME NEW c \in Clients, Pin(c) PROVE Lru!LruNext
  BY <1>1, PinRefines DEF Lru!LruNext
<1>2. ASSUME NEW c \in Clients, Unpin(c) PROVE Lru!LruNext
  BY <1>2, UnpinRefines DEF Lru!LruNext
<1>3. ASSUME NEW c \in Clients, RecordTree(c) \/ RecordFile(c) PROVE Lru!LruNext
  <2>1. at[c] \in Keys /\ seen[c] \in 1..MaxSize /\ RecordKey(at[c], seen[c])
    BY <1>0, <1>3, SizesAssumption DEF RecordTree, RecordFile, IInv, FilesMeasured, Bounded
  <2>2. guards' = guards
    <3>1. \A d \in Clients : at'[d] = at[d] \/ (at[d] \in Files \cup {None} /\ at'[d] \in Files \cup {None})
      BY <1>0, <1>3 DEF RecordTree, RecordFile
    <3> QED BY <3>1, GuardsSame, GuardsFunction
  <2>3. \E k \in Keys, n \in 1..MaxSize : Lru!Record(k, n)
    BY <1>0, <2>1, <2>2, RecordRefines DEF Accounts
  <2> QED BY <2>3 DEF Lru!LruNext
<1>4. ASSUME NEW k \in Keys, Serve(k) PROVE Lru!LruNext
  BY <1>4, TouchRefines DEF Lru!LruNext
<1>5. ASSUME Restart PROVE Lru!LruNext
  BY <1>5, RestartRefines DEF Lru!LruNext
<1>6. ASSUME UNCHANGED inner,
             \A c \in Clients : at'[c] = at[c] \/ (at[c] \in Files \cup {None} /\ at'[c] \in Files \cup {None})
      PROVE  UNCHANGED Lru!lruVars
  <2>1. guards' = guards
    BY <1>6, GuardsSame, GuardsFunction
  <2> QED BY <1>6, <2>1 DEF inner, Lru!lruVars
<1>7. ASSUME NEW c \in Clients, WriteTree(c) \/ Measure(c) PROVE UNCHANGED Lru!lruVars
  BY <1>6, <1>7 DEF WriteTree, Measure
<1>8. ASSUME NEW c \in Clients, WriteFile(c) PROVE UNCHANGED Lru!lruVars
  <2>1. \A d \in Clients : at'[d] = at[d] \/ (at[d] \in Files \cup {None} /\ at'[d] \in Files \cup {None})
    BY <1>0, <1>8 DEF WriteFile
  <2> QED BY <1>6, <1>8, <2>1 DEF WriteFile
<1>9. ASSUME NEW k \in Keys, Deleter(k) PROVE UNCHANGED Lru!lruVars
  BY <1>6, <1>9 DEF Deleter
<1>10. ASSUME UNCHANGED vars PROVE UNCHANGED Lru!lruVars
  <2>1. UNCHANGED inner /\ at' = at
    BY <1>10 DEF vars, inner
  <2> QED BY <1>6, <2>1
<1>11. ASSUME NEW k \in Keys, AbandonedWrite(k) \/ RevalidationRemoves(k)
       PROVE  UNCHANGED Lru!lruVars
  <2>1. UNCHANGED inner /\ at' = at
    BY <1>11 DEF AbandonedWrite, RevalidationRemoves
  <2> QED BY <1>6, <2>1
<1> QED BY <1>1, <1>2, <1>3, <1>4, <1>5, <1>7, <1>8, <1>9, <1>10, <1>11 DEF Next

LEMMA InitRefines == Init => Bounded /\ Lru!LruInit
<1> SUFFICES ASSUME Init PROVE Bounded /\ Lru!LruInit
  OBVIOUS
<1>1. \A k \in Keys : entries[k].bytes = 0 /\ disk[k] = 0
  BY DEF Init, NoEntry
<1>2. Bounded
  BY <1>1, SizesAssumption DEF Init, Bounded
<1>3. Indexed(order) = {} /\ ByTick(order) = {}
  BY DEF Init, Indexed, ByTick
<1>4. ASSUME NEW k \in Keys PROVE guards[k] = 0
  <2>1. {c \in Clients : at[c] = k /\ k \notin Files} = {}
    BY KeysAssumption DEF Init
  <2> QED BY <2>1, FS_EmptySet DEF guards
<1>5. guards = [k \in Keys |-> 0]
  BY <1>4, GuardsFunction
<1> QED BY <1>1, <1>2, <1>3, <1>5 DEF Lru!LruInit

--------------------------------------------------------------------------------
(* Theorems *)

\* The strengthened invariant holds of every behaviour of the cache and its lanes
\* (jitcache.rs, pin to evict_locked).
THEOREM Inductive == Spec => []IInv
<1> QED BY InitIInv, StepIInv, PTL DEF Spec

\* The accounts of the total and of the lanes hold of every behaviour, too.
THEOREM AccountsKept == Spec => []Accounts
<1>1. IInv /\ Accounts /\ [Next]_vars => Accounts'
  BY StepTotal, StepLanesTyped, StepLanes DEF Accounts
<1> QED BY <1>1, InitAccounts, Inductive, PTL DEF Spec

\* The types hold, so no count and no total ever underflows.
THEOREM TypeCorrect == Spec => []TypeOK
<1>1. IInv /\ Accounts => TypeOK
  <2> SUFFICES ASSUME IInv, Accounts PROVE TypeOK
    OBVIOUS
  <2>1. total \in Nat
    BY FiniteAssumption, EntryBytes, BytesType DEF IInv, Typed, Accounts, TotalIsSum
  <2>2. order \subseteq [tick : Nat, key : Keys]
    BY MirrorsDef DEF IInv, Typed, Mirrors, Entry
  <2> QED BY <2>1, <2>2, KeysAssumption
          DEF IInv, Typed, DoomedStuck, Accounts, LanesTyped, TypeOK
<1> QED BY <1>1, Inductive, AccountsKept, PTL

\* The running total is the sum of the entries' bytes, whatever was recorded, evicted or
\* reseeded, so what is held against the budget is what is accounted (record, evict_locked).
THEOREM TotalCounts == Spec => []TotalIsSum
<1>1. Accounts => TotalIsSum
  BY DEF Accounts
<1> QED BY <1>1, AccountsKept, PTL

\* Once its lanes are through, a tree is accounted with its size on disk, in whatever order
\* they measured it and recorded what they measured, unless one gave up; where a revalidation
\* or a rewrite made it smaller, never with less (jit_record, record, prune_stale_bundles).
THEOREM TreesAccurate == Spec => []AccurateWhenQuiet
<1>1. IInv /\ Accounts => AccurateWhenQuiet
  <2> SUFFICES ASSUME IInv, Accounts, NEW k \in Trees,
                      \A c \in Clients : at[c] # k, k \notin loose
               PROVE  /\ entries[k].bytes >= disk[k]
                      /\ k \notin shrunk => entries[k].bytes = disk[k]
    BY DEF AccurateWhenQuiet, Trees
  <2>1. entries[k].bytes \in Nat /\ disk[k] \in Nat
    BY EntryBytes DEF IInv, Typed, Trees
  <2> QED BY <2>1 DEF Accounts, LanesAccount, TreeAccounted
<1> QED BY <1>1, Inductive, AccountsKept, PTL

\* The recency index holds each entry of the map once, at its latest tick, whatever was
\* pinned, recorded, evicted or reseeded (bump, evict_locked, seed).
THEOREM IndexMirrors == Spec => []OrderMirrorsEntries
<1>1. IInv => OrderMirrorsEntries
  BY DEF IInv
<1> QED BY <1>1, Inductive, PTL

\* The reference count of a key is the number of its live guards, and no placeholder
\* outlives them (pin, PinGuard::drop, evict_locked).
THEOREM CountsAreGuards == Spec => []RefsAreGuards
<1>1. IInv => RefsAreGuards
  BY DEF IInv
<1> QED BY <1>1, Inductive, PTL

\* While a lane keeps its guard, no eviction and no pending deletion takes the tree it
\* writes: what makes it smaller is a write or a revalidation (evict_locked's filter,
\* quarantine_rename, remove_dir_all).
THEOREM GuardsProtect == Spec => PinnedFilesStay
<1>1. IInv /\ [Next]_vars
        => [\A c \in Clients : \A k \in Keys \ (Files \cup RenameErrors) :
              at[c] = k /\ at'[c] = k
                => disk'[k] >= disk[k] \/ Write(k) \/ RevalidationRemoves(k)]_vars
  BY StepKeepsPinned
<1> QED BY <1>1, Inductive, PTL DEF Spec, PinnedFilesStay

\* The cache with its ticks, index, running total and reference counts does what the plain
\* LRU store does: the eldest entries nobody pins fall, as many as the budget asks for and
\* not one too many, and nothing else ever does (jitcache.rs).
THEOREM IsLru == Spec => ImplementsLru
<1>1. IInv /\ Bounded /\ [Next]_vars => Bounded'
  BY StepBounded
<1>2. Spec => []Bounded
  BY <1>1, InitRefines, Inductive, PTL DEF Spec
<1>3. IInv /\ Accounts /\ Bounded /\ [Next]_vars => [Lru!LruNext]_(Lru!lruVars)
  BY StepRefines
<1> QED BY <1>2, <1>3, InitRefines, Inductive, AccountsKept, PTL DEF Spec, ImplementsLru, Lru!LruSpec

================================================================================
