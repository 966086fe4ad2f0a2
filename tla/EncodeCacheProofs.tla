--------------------------- MODULE EncodeCacheProofs ---------------------------
(***************************************************************************)
(* Proofs about EncodeCache, for any threads, any finite set of keys, any  *)
(* weights and any budget.  The flights of the cache are those of          *)
(* SingleFlight, so what is proved of these is taken from there.           *)
(***************************************************************************)
EXTENDS EncodeCache, SequenceTheorems, FiniteSetTheorems, WellFoundedInduction, TLAPS

Group == INSTANCE SingleFlightProofs WITH Values <- Keys, Default <- Nothing

--------------------------------------------------------------------------------
(* What a set of keys weighs.  Size folds over the set, which defines it by        *)
(* recursion on subsets; what it returns is found by taking a smallest subset that *)
(* would be an exception.                                                          *)

First(S) == CHOOSE x \in S : TRUE

LEMMA MinimalSubset ==
  ASSUME NEW C \in SUBSET SUBSET Keys, C # {}
  PROVE  \E T \in C : \A U \in C : U \subseteq T => U = T
<1>1. IsWellFoundedOn(StrictSubsetOrdering(Keys), SUBSET Keys)
  BY FiniteAssumption, FS_StrictSubsetOrderingWellFounded, FS_FiniteSubsetsOfFinite
<1>2. \E T \in C : \A U \in C : <<U, T>> \notin StrictSubsetOrdering(Keys)
  BY <1>1, WFMin
<1> QED BY <1>2 DEF StrictSubsetOrdering

\* g adds up the weights of the subsets of S, one key after the other.
Summed(g, S) ==
  g = [s \in SUBSET S |-> IF s = {} THEN 0 ELSE Weight[First(s)] + g[s \ {First(s)}]]

LEMMA SizeDef ==
  ASSUME NEW S
  PROVE  Size(S) = (CHOOSE g : Summed(g, S))[S]
BY DEF Size, MapThenSumSet, MapThenFoldSet, Summed, First

LEMMA FirstIn == \A S : S # {} => First(S) \in S
BY DEF First

LEMMA SummedUnique ==
  ASSUME NEW S \in SUBSET Keys, NEW T \in SUBSET S, NEW g, Summed(g, S), NEW h, Summed(h, T)
  PROVE  g[T] = h[T]
<1> DEFINE C == {s \in SUBSET T : g[s] # h[s]}
<1>1. SUFFICES ASSUME C # {} PROVE FALSE
  OBVIOUS
<1>2. PICK s \in C : \A u \in C : u \subseteq s => u = s
  <2>1. C \in SUBSET SUBSET Keys
    OBVIOUS
  <2> HIDE DEF C
  <2> QED BY <1>1, <2>1, MinimalSubset
<1>3. g[s] = IF s = {} THEN 0 ELSE Weight[First(s)] + g[s \ {First(s)}]
  BY DEF Summed
<1>4. h[s] = IF s = {} THEN 0 ELSE Weight[First(s)] + h[s \ {First(s)}]
  BY DEF Summed
<1>5. s # {} => g[s \ {First(s)}] = h[s \ {First(s)}]
  BY <1>2, FirstIn
<1> QED BY <1>3, <1>4, <1>5

LEMMA SummedExists ==
  ASSUME NEW S \in SUBSET Keys
  PROVE  \E g : Summed(g, S)
<1> DEFINE C == {s \in SUBSET S : ~ \E g : Summed(g, s)}
           sum(s) == (CHOOSE g : Summed(g, s))[s]
<1>1. SUFFICES ASSUME C # {} PROVE FALSE
  OBVIOUS
<1>2. PICK T \in C : \A u \in C : u \subseteq T => u = T
  <2>1. C \in SUBSET SUBSET Keys
    OBVIOUS
  <2> HIDE DEF C
  <2> QED BY <1>1, <2>1, MinimalSubset
<1>3. \A u \in SUBSET T : u # T => Summed(CHOOSE g : Summed(g, u), u)
  BY <1>2
<1> DEFINE f == [s \in SUBSET T |-> IF s = {} THEN 0 ELSE Weight[First(s)] + sum(s \ {First(s)})]
<1>4. ASSUME NEW u \in SUBSET T, u # T
      PROVE  f[u] = sum(u)
  <2> DEFINE g == CHOOSE g : Summed(g, u)
  <2>1. Summed(g, u)
    BY <1>3, <1>4
  <2> HIDE DEF g
  <2>2. g[u] = IF u = {} THEN 0 ELSE Weight[First(u)] + g[u \ {First(u)}]
    BY <2>1 DEF Summed
  <2>3. ASSUME u # {} PROVE g[u \ {First(u)}] = sum(u \ {First(u)})
    <3>1. First(u) \in u
      BY <2>3, FirstIn
    <3>2. Summed(CHOOSE h : Summed(h, u \ {First(u)}), u \ {First(u)})
      BY <1>3, <1>4, <3>1
    <3> QED BY <2>1, <3>2, SummedUnique
  <2>4. f[u] = g[u]
    BY <2>2, <2>3
  <2> QED BY <2>4 DEF g
<1>5. \A s \in SUBSET T : s # {} => f[s \ {First(s)}] = sum(s \ {First(s)})
  BY <1>4, FirstIn
<1>6. Summed(f, T)
  <2>1. \A s \in SUBSET T : f[s] = IF s = {} THEN 0 ELSE Weight[First(s)] + f[s \ {First(s)}]
    <3>1. \A s \in SUBSET T : f[s] = IF s = {} THEN 0 ELSE Weight[First(s)] + sum(s \ {First(s)})
      OBVIOUS
    <3> HIDE DEF f, sum
    <3> QED BY <1>5, <3>1
  <2>2. f = [s \in SUBSET T |-> f[s]]
    OBVIOUS
  <2> HIDE DEF f
  <2>3. f = [s \in SUBSET T |-> IF s = {} THEN 0 ELSE Weight[First(s)] + f[s \ {First(s)}]]
    BY <2>1, <2>2
  <2> QED BY <2>3 DEF Summed
<1> QED BY <1>6

LEMMA SizeUnfold ==
  ASSUME NEW S \in SUBSET Keys
  PROVE  Size(S) = IF S = {} THEN 0 ELSE Weight[First(S)] + Size(S \ {First(S)})
<1>1. \A T \in SUBSET Keys : Summed(CHOOSE g : Summed(g, T), T)
  BY SummedExists
<1> DEFINE g == CHOOSE g : Summed(g, S)
<1>2. Summed(g, S) /\ Size(S) = g[S]
  BY <1>1, SizeDef
<1> HIDE DEF g
<1>3. g[S] = IF S = {} THEN 0 ELSE Weight[First(S)] + g[S \ {First(S)}]
  BY <1>2 DEF Summed
<1>4. ASSUME S # {} PROVE g[S \ {First(S)}] = Size(S \ {First(S)})
  <2>1. Summed(CHOOSE h : Summed(h, S \ {First(S)}), S \ {First(S)})
    BY <1>1
  <2> QED BY <1>2, <2>1, SummedUnique, SizeDef
<1> QED BY <1>2, <1>3, <1>4

LEMMA SizeType ==
  ASSUME NEW S \in SUBSET Keys
  PROVE  Size(S) \in Nat
<1> DEFINE C == {s \in SUBSET S : Size(s) \notin Nat}
<1>1. SUFFICES ASSUME C # {} PROVE FALSE
  OBVIOUS
<1>2. PICK T \in C : \A u \in C : u \subseteq T => u = T
  <2>1. C \in SUBSET SUBSET Keys
    OBVIOUS
  <2> HIDE DEF C
  <2> QED BY <1>1, <2>1, MinimalSubset
<1>3. T \in SUBSET S /\ Size(T) \notin Nat /\ \A u \in SUBSET T : u # T => Size(u) \in Nat
  BY <1>2
<1> HIDE DEF C
<1>4. Size(T) = IF T = {} THEN 0 ELSE Weight[First(T)] + Size(T \ {First(T)})
  BY <1>3, SizeUnfold
<1>5. T # {} /\ First(T) \in T
  BY <1>3, <1>4, FirstIn
<1>6. Weight[First(T)] \in Nat /\ Size(T \ {First(T)}) \in Nat
  BY <1>3, <1>5, SizesAssumption
<1> QED BY <1>3, <1>4, <1>5, <1>6

\* The keys may be added up in any order.
LEMMA SizeRemove ==
  ASSUME NEW S \in SUBSET Keys, NEW x \in S
  PROVE  Size(S) = Weight[x] + Size(S \ {x})
<1> DEFINE Same(s) == \A y \in s : Size(s) = Weight[y] + Size(s \ {y})
           C == {s \in SUBSET S : ~Same(s)}
<1>1. SUFFICES ASSUME C # {} PROVE FALSE
  OBVIOUS
<1>2. PICK T \in C : \A u \in C : u \subseteq T => u = T
  <2>1. C \in SUBSET SUBSET Keys
    OBVIOUS
  <2> HIDE DEF C
  <2> QED BY <1>1, <2>1, MinimalSubset
<1>s. T \in SUBSET S /\ \A u \in SUBSET T : u # T => Same(u)
  <2> HIDE DEF Same
  <2> QED BY <1>2
<1>3. PICK y \in T : Size(T) # Weight[y] + Size(T \ {y})
  BY <1>2
<1> HIDE DEF C
<1> DEFINE c == First(T)
<1>4. c \in T
  BY <1>3, FirstIn
<1>5. Size(T) = Weight[c] + Size(T \ {c})
  BY <1>s, <1>3, SizeUnfold
<1> HIDE DEF c
<1>6. y # c
  BY <1>3, <1>5
<1>7. Size(T \ {c}) = Weight[y] + Size((T \ {c}) \ {y})
  <2>1. Same(T \ {c}) /\ y \in T \ {c}
    <3> HIDE DEF Same
    <3> QED BY <1>s, <1>4, <1>6
  <2> QED BY <2>1
<1>8. Size(T \ {y}) = Weight[c] + Size((T \ {y}) \ {c})
  <2>1. Same(T \ {y}) /\ c \in T \ {y}
    <3> HIDE DEF Same
    <3> QED BY <1>s, <1>4, <1>6
  <2> QED BY <2>1
<1>9. (T \ {c}) \ {y} = (T \ {y}) \ {c}
  OBVIOUS
<1>10. Size((T \ {y}) \ {c}) \in Nat /\ Weight[y] \in Nat /\ Weight[c] \in Nat
  <2>1. (T \ {y}) \ {c} \in SUBSET Keys /\ y \in Keys /\ c \in Keys
    BY <1>s, <1>4
  <2> QED BY <2>1, SizeType, SizesAssumption
<1> HIDE DEF Same
<1> DEFINE n == Size((T \ {y}) \ {c})
<1>11. Weight[c] + (Weight[y] + n) = Weight[y] + (Weight[c] + n)
  BY <1>10
<1>12. Size(T) = Weight[c] + (Weight[y] + n)
  BY <1>5, <1>7, <1>9
<1> QED BY <1>3, <1>8, <1>11, <1>12

LEMMA SizeSplit ==
  ASSUME NEW S \in SUBSET Keys, NEW K \in SUBSET S
  PROVE  Size(S) = Size(K) + Size(S \ K)
<1> DEFINE Splits(s) == Size(S) = Size(s) + Size(S \ s)
           C == {s \in SUBSET K : ~Splits(s)}
<1>1. SUFFICES ASSUME C # {} PROVE FALSE
  OBVIOUS
<1>2. PICK R \in C : \A u \in C : u \subseteq R => u = R
  <2>1. C \in SUBSET SUBSET Keys
    OBVIOUS
  <2> HIDE DEF C
  <2> QED BY <1>1, <2>1, MinimalSubset
<1>s. R \in SUBSET S /\ ~Splits(R) /\ \A u \in SUBSET R : u # R => Splits(u)
  <2> HIDE DEF Splits
  <2> QED BY <1>2
<1>t. \A s \in SUBSET S : Size(s) \in Nat
  BY SizeType
<1> HIDE DEF C
<1>3. R # {}
  <2>1. Size({}) = 0 /\ S \ {} = S
    BY SizeUnfold
  <2>2. Splits({})
    BY <1>t, <2>1
  <2> QED BY <1>s, <2>2
<1>4. PICK x : x \in R
  BY <1>3
<1>5. Size(R) = Weight[x] + Size(R \ {x})
  BY <1>s, <1>4, SizeRemove
<1>6. Size(S \ (R \ {x})) = Weight[x] + Size(S \ R)
  <2>1. x \in S \ (R \ {x}) /\ (S \ (R \ {x})) \ {x} = S \ R
    BY <1>s, <1>4
  <2> QED BY <2>1, SizeRemove
<1>7. Size(S) = Size(R \ {x}) + Size(S \ (R \ {x}))
  <2>1. Splits(R \ {x})
    <3> HIDE DEF Splits
    <3> QED BY <1>s, <1>4
  <2> QED BY <2>1
<1>8. Weight[x] \in Nat /\ Size(R \ {x}) \in Nat /\ Size(S \ R) \in Nat
  BY <1>s, <1>t, <1>4, SizesAssumption
<1>9. Splits(R)
  BY <1>5, <1>6, <1>7, <1>8
<1> QED BY <1>s, <1>9

--------------------------------------------------------------------------------
(* The store *)

\* The store holds each key once and its account is what it holds, within the budget.
StoreOK ==
  /\ lru \in Seq(Keys)
  /\ IsInjective(lru)
  /\ BytesAccounted

LEMMA Elements ==
  ASSUME NEW l \in Seq(Keys)
  PROVE  /\ Len(l) \in Nat /\ DOMAIN l = 1..Len(l)
         /\ \A i \in 1..Len(l) : l[i] \in Keys
         /\ ToSet(l) = {l[i] : i \in 1..Len(l)}
         /\ ToSet(l) \in SUBSET Keys
BY LenProperties DEF ToSet

LEMMA AppendNew ==
  ASSUME NEW l \in Seq(Keys), IsInjective(l), NEW k \in Keys, k \notin ToSet(l)
  PROVE  /\ Append(l, k) \in Seq(Keys)
         /\ IsInjective(Append(l, k))
         /\ ToSet(Append(l, k)) = ToSet(l) \cup {k}
<1> DEFINE a == Append(l, k)
           n == Len(l)
<1>1. /\ a \in Seq(Keys) /\ Len(a) = n + 1
      /\ \A i \in 1..n : a[i] = l[i]
      /\ a[n + 1] = k
  BY AppendProperties
<1> HIDE DEF a
<1>2. n \in Nat /\ DOMAIN l = 1..n /\ ToSet(l) = {l[i] : i \in 1..n}
  BY Elements
<1>3. DOMAIN a = 1..(n + 1) /\ ToSet(a) = {a[i] : i \in 1..(n + 1)}
  BY <1>1, Elements
<1> HIDE DEF n
<1>4. \A i \in 1..(n + 1) : i \in 1..n \/ i = n + 1
  BY <1>2
<1>5. \A i \in 1..n : i \in 1..(n + 1)
  BY <1>2
<1>6. n + 1 \in 1..(n + 1)
  BY <1>2
<1>7. ToSet(a) = ToSet(l) \cup {k}
  BY <1>1, <1>2, <1>3, <1>4, <1>5, <1>6
<1>8. \A i \in 1..n : l[i] # k
  BY <1>2
<1>9. IsInjective(a)
  BY <1>1, <1>2, <1>3, <1>4, <1>8 DEF IsInjective
<1> QED BY <1>1, <1>7, <1>9 DEF a

\* Giving up the n oldest entries leaves the others.
LEMMA CutOff ==
  ASSUME NEW l \in Seq(Keys), IsInjective(l), NEW n \in 0..Len(l)
  PROVE  /\ SubSeq(l, n + 1, Len(l)) \in Seq(Keys)
         /\ IsInjective(SubSeq(l, n + 1, Len(l)))
         /\ ToSet(SubSeq(l, 1, n)) \in SUBSET ToSet(l)
         /\ ToSet(SubSeq(l, n + 1, Len(l))) = ToSet(l) \ ToSet(SubSeq(l, 1, n))
<1> DEFINE m == Len(l)
           p == SubSeq(l, 1, n)
           s == SubSeq(l, n + 1, m)
<1>1. /\ m \in Nat /\ n \in Nat /\ n <= m /\ DOMAIN l = 1..m
      /\ ToSet(l) = {l[i] : i \in 1..m} /\ \A i \in 1..m : l[i] \in Keys
  BY Elements
<1>2. p \in Seq(Keys) /\ Len(p) = n /\ \A i \in 1..n : p[i] = l[i]
  <2>1. \A i \in 1..n : l[i] \in Keys
    BY <1>1
  <2>2. /\ p \in Seq(Keys) /\ Len(p) = IF 1 <= n THEN n - 1 + 1 ELSE 0
        /\ \A i \in 1..(n - 1 + 1) : p[i] = l[1 + i - 1]
    BY <1>1, <2>1, SubSeqProperties
  <2> HIDE DEF p
  <2> QED BY <1>1, <2>2
<1>3. s \in Seq(Keys) /\ Len(s) = m - n /\ \A i \in 1..(m - n) : s[i] = l[n + i]
  <2>1. \A i \in (n + 1)..m : l[i] \in Keys
    BY <1>1
  <2>2. /\ s \in Seq(Keys) /\ Len(s) = IF n + 1 <= m THEN m - (n + 1) + 1 ELSE 0
        /\ \A i \in 1..(m - (n + 1) + 1) : s[i] = l[n + 1 + i - 1]
    BY <1>1, <2>1, SubSeqProperties
  <2> HIDE DEF s, m
  <2>3. m - (n + 1) + 1 = m - n /\ \A i \in 1..(m - n) : n + 1 + i - 1 = n + i
    BY <1>1
  <2> QED BY <1>1, <2>2, <2>3
<1> HIDE DEF p, s
<1>4. ToSet(p) = {p[i] : i \in 1..n} /\ DOMAIN s = 1..(m - n) /\ ToSet(s) = {s[i] : i \in 1..(m - n)}
  BY <1>2, <1>3, Elements
<1> HIDE DEF m
<1>5. \A i, j \in 1..m : l[i] = l[j] => i = j
  BY <1>1 DEF IsInjective
<1>6. \A i \in 1..(m - n) : n + i \in 1..m
  BY <1>1
<1>7. IsInjective(s)
  BY <1>1, <1>3, <1>4, <1>5, <1>6 DEF IsInjective
<1>8. ToSet(p) \in SUBSET ToSet(l)
  BY <1>1, <1>2, <1>4
<1>9. ToSet(s) = ToSet(l) \ ToSet(p)
  <2>1. ASSUME NEW x \in ToSet(s) PROVE x \in ToSet(l) /\ x \notin ToSet(p)
    <3>1. PICK i \in 1..(m - n) : x = l[n + i]
      BY <1>3, <1>4
    <3>2. \A j \in 1..n : j \in 1..m /\ j # n + i
      BY <1>1
    <3> QED BY <1>1, <1>2, <1>4, <1>5, <1>6, <3>1, <3>2
  <2>2. ASSUME NEW x \in ToSet(l), x \notin ToSet(p) PROVE x \in ToSet(s)
    <3>1. PICK i \in 1..m : x = l[i]
      BY <1>1
    <3>2. i \notin 1..n
      BY <1>2, <1>4, <2>2, <3>1
    <3>3. i - n \in 1..(m - n) /\ n + (i - n) = i
      BY <1>1, <3>2
    <3>4. s[i - n] = l[i]
      BY <1>3, <3>3
    <3> QED BY <1>4, <3>1, <3>3, <3>4
  <2> QED BY <2>1, <2>2
<1> QED BY <1>3, <1>7, <1>8, <1>9 DEF p, s, m

LEMMA TakeOut ==
  ASSUME NEW l \in Seq(Keys), IsInjective(l), NEW i \in 1..Len(l)
  PROVE  /\ RemoveAt(l, i) \in Seq(Keys)
         /\ IsInjective(RemoveAt(l, i))
         /\ ToSet(RemoveAt(l, i)) = ToSet(l) \ {l[i]}
<1> DEFINE m == Len(l)
           p == SubSeq(l, 1, i - 1)
           s == SubSeq(l, i + 1, m)
           r == RemoveAt(l, i)
<1>1. /\ m \in Nat /\ i \in Nat /\ 1 <= i /\ i <= m /\ DOMAIN l = 1..m
      /\ ToSet(l) = {l[j] : j \in 1..m} /\ \A j \in 1..m : l[j] \in Keys
  BY Elements
<1>2. p \in Seq(Keys) /\ Len(p) = i - 1 /\ \A j \in 1..(i - 1) : p[j] = l[j]
  <2>1. \A j \in 1..(i - 1) : l[j] \in Keys
    BY <1>1
  <2>2. /\ p \in Seq(Keys) /\ Len(p) = IF 1 <= i - 1 THEN i - 1 - 1 + 1 ELSE 0
        /\ \A j \in 1..(i - 1 - 1 + 1) : p[j] = l[1 + j - 1]
    BY <1>1, <2>1, SubSeqProperties
  <2> HIDE DEF p
  <2> QED BY <1>1, <2>2
<1>3. s \in Seq(Keys) /\ Len(s) = m - i /\ \A j \in 1..(m - i) : s[j] = l[i + j]
  <2>1. \A j \in (i + 1)..m : l[j] \in Keys
    BY <1>1
  <2>2. /\ s \in Seq(Keys) /\ Len(s) = IF i + 1 <= m THEN m - (i + 1) + 1 ELSE 0
        /\ \A j \in 1..(m - (i + 1) + 1) : s[j] = l[i + 1 + j - 1]
    BY <1>1, <2>1, SubSeqProperties
  <2> HIDE DEF s, m
  <2>3. m - (i + 1) + 1 = m - i /\ \A j \in 1..(m - i) : i + 1 + j - 1 = i + j
    BY <1>1
  <2> QED BY <1>1, <2>2, <2>3
<1>4. r = p \o s
  BY DEF RemoveAt
<1> HIDE DEF p, s, r
<1>5. r \in Seq(Keys) /\ Len(r) = m - 1
  <2>1. r \in Seq(Keys) /\ Len(r) = Len(p) + Len(s)
    BY <1>2, <1>3, <1>4, ConcatProperties
  <2> HIDE DEF m
  <2> QED BY <1>1, <1>2, <1>3, <2>1
<1>6. DOMAIN r = 1..(m - 1) /\ ToSet(r) = {r[j] : j \in 1..(m - 1)}
  BY <1>5, Elements
<1>c. \A j \in 1..(Len(p) + Len(s)) : r[j] = IF j <= Len(p) THEN p[j] ELSE s[j - Len(p)]
  BY <1>2, <1>3, <1>4, ConcatProperties
<1> HIDE DEF m
<1>7. \A j \in 1..(m - 1) : r[j] = IF j < i THEN l[j] ELSE l[j + 1]
  <2> SUFFICES ASSUME NEW j \in 1..(m - 1) PROVE r[j] = IF j < i THEN l[j] ELSE l[j + 1]
    OBVIOUS
  <2>1. r[j] = IF j <= i - 1 THEN p[j] ELSE s[j - (i - 1)]
    BY <1>1, <1>2, <1>3, <1>c
  <2>2. CASE j < i
    BY <1>1, <1>2, <2>1, <2>2
  <2>3. CASE ~(j < i)
    <3>1. j - (i - 1) \in 1..(m - i) /\ i + (j - (i - 1)) = j + 1
      BY <1>1, <2>3
    <3> QED BY <1>1, <1>3, <2>1, <2>3, <3>1
  <2> QED BY <2>2, <2>3
<1>8. \A j, k \in 1..m : l[j] = l[k] => j = k
  BY <1>1 DEF IsInjective
<1> DEFINE f(j) == IF j < i THEN j ELSE j + 1
<1>9. /\ \A j \in 1..(m - 1) : f(j) \in 1..m /\ f(j) # i /\ r[j] = l[f(j)]
      /\ \A j, k \in 1..(m - 1) : f(j) = f(k) => j = k
  BY <1>1, <1>7
<1>10. \A j \in 1..m : j # i => \E k \in 1..(m - 1) : f(k) = j
  <2> SUFFICES ASSUME NEW j \in 1..m, j # i PROVE \E k \in 1..(m - 1) : f(k) = j
    OBVIOUS
  <2>1. CASE j < i
    <3>1. j \in 1..(m - 1) /\ f(j) = j
      BY <1>1, <2>1
    <3> QED BY <3>1
  <2>2. CASE ~(j < i)
    <3>1. j - 1 \in 1..(m - 1) /\ f(j - 1) = j
      BY <1>1, <2>2
    <3> QED BY <3>1
  <2> QED BY <2>1, <2>2
<1> HIDE DEF f
<1>11. IsInjective(r)
  BY <1>6, <1>8, <1>9 DEF IsInjective
<1>12. ToSet(r) = ToSet(l) \ {l[i]}
  <2>1. \A x \in ToSet(r) : x \in ToSet(l) /\ x # l[i]
    BY <1>1, <1>6, <1>8, <1>9
  <2>2. ASSUME NEW x \in ToSet(l), x # l[i] PROVE x \in ToSet(r)
    <3>1. PICK j \in 1..m : x = l[j]
      BY <1>1
    <3>2. PICK k \in 1..(m - 1) : f(k) = j
      BY <1>10, <2>2, <3>1
    <3> QED BY <1>6, <1>9, <3>1, <3>2
  <2> QED BY <2>1, <2>2
<1> QED BY <1>5, <1>11, <1>12 DEF r

LEMMA NothingStored == lru = <<>> /\ bytes = 0 => StoreOK /\ Stored = {}
<1> SUFFICES ASSUME lru = <<>>, bytes = 0
             PROVE  StoreOK /\ Stored = {}
  OBVIOUS
<1>1. lru \in Seq(Keys) /\ Len(lru) = 0
  BY EmptySeq
<1>2. DOMAIN lru = 1..Len(lru) /\ ToSet(lru) = {lru[i] : i \in 1..Len(lru)}
  BY <1>1, Elements
<1>3. DOMAIN lru = {} /\ ToSet(lru) = {}
  BY <1>1, <1>2
<1>4. Size({}) = 0
  BY SizeUnfold
<1>5. IsInjective(lru)
  BY <1>3 DEF IsInjective
<1>6. Stored = {} /\ Size(Stored) = 0
  BY <1>3, <1>4, Zenon DEF Stored
<1>7. BytesAccounted
  BY <1>6, SizesAssumption DEF BytesAccounted
<1> QED BY <1>1, <1>5, <1>6, <1>7 DEF StoreOK

LEMMA TouchStep ==
  ASSUME StoreOK, NEW k \in Keys, Touch(k)
  PROVE  StoreOK' /\ Stored' = Stored
<1>1. PICK i \in 1..Len(lru) : lru[i] = k /\ lru' = Append(RemoveAt(lru, i), k)
  BY DEF Touch
<1>2. lru \in Seq(Keys) /\ IsInjective(lru) /\ bytes' = bytes
  BY DEF StoreOK, Touch
<1> DEFINE r == RemoveAt(lru, i)
<1>3. r \in Seq(Keys) /\ IsInjective(r) /\ ToSet(r) = ToSet(lru) \ {k}
  BY <1>1, <1>2, TakeOut
<1> HIDE DEF r
<1>4. /\ Append(r, k) \in Seq(Keys) /\ IsInjective(Append(r, k))
      /\ ToSet(Append(r, k)) = ToSet(r) \cup {k}
  BY <1>3, AppendNew
<1>5. lru' = Append(r, k)
  BY <1>1 DEF r
<1>6. k \in ToSet(lru)
  BY <1>1, <1>2, Elements
<1>7. ToSet(lru') = ToSet(lru)
  BY <1>3, <1>4, <1>5, <1>6
<1> QED BY <1>2, <1>4, <1>5, <1>7 DEF StoreOK, BytesAccounted, Stored

\* make_room finds the fewest entries that are enough; all of them always are.
LEMMA DroppedEnough ==
  ASSUME StoreOK, NEW w \in Nat, w <= Budget
  PROVE  /\ Dropped(w) \in 0..Len(lru)
         /\ bytes - Size(Oldest(Dropped(w))) + w <= Budget
<1> DEFINE m == Len(lru)
           E == {n \in 0..m : bytes - Size(Oldest(n)) + w <= Budget}
           D == E \cup {m}
<1>1. lru \in Seq(Keys) /\ m \in Nat /\ bytes = Size(ToSet(lru)) /\ bytes <= Budget
  BY Elements DEF StoreOK, BytesAccounted, Stored
<1>2. m \in E
  <2>1. Oldest(m) = ToSet(lru)
    BY <1>1, SubSeqFull DEF Oldest
  <2>2. bytes - Size(Oldest(m)) + w = w
    BY <1>1, <2>1, SizeType, Elements
  <2> HIDE DEF m
  <2> QED BY <1>1, <2>2
<1>3. D = E /\ E \subseteq Nat /\ E # {}
  BY <1>1, <1>2
<1>4. Dropped(w) = CHOOSE x \in D : \A y \in D : x <= y
  BY DEF Dropped, Min
<1> HIDE DEF E, D
<1>5. \E x \in E : \A y \in E : x <= y
  <2>1. \E x \in E : \A y \in E : <<y, x>> \notin OpToRel(<, Nat)
    BY <1>3, NatLessThanWellFounded, WFMin
  <2>2. PICK x \in E : \A y \in E : <<y, x>> \notin OpToRel(<, Nat)
    BY <2>1
  <2>3. \A y \in E : ~(y < x)
    BY <1>3, <2>2 DEF OpToRel
  <2>4. \A y \in E : x <= y
    BY <1>3, <2>3
  <2> QED BY <2>4
<1>6. Dropped(w) \in E
  BY <1>3, <1>4, <1>5
<1> QED BY <1>6 DEF E

\* remember: a new key comes last, for the oldest ones it needs the room of.
LEMMA InsertStep ==
  ASSUME StoreOK, NEW k \in Keys, Insert(k)
  PROVE  StoreOK' /\ Stored' \subseteq Stored \cup {k}
<1>1. CASE Weight[k] > Budget \/ k \in Stored
  BY <1>1 DEF Insert, store, StoreOK, BytesAccounted, Stored
<1>2. CASE ~(Weight[k] > Budget \/ k \in Stored)
  <2>1. lru \in Seq(Keys) /\ IsInjective(lru) /\ bytes = Size(ToSet(lru)) /\ bytes <= Budget
    BY DEF StoreOK, BytesAccounted, Stored
  <2>2. Weight[k] \in Nat /\ Weight[k] <= Budget /\ k \notin ToSet(lru)
    BY <1>2, SizesAssumption DEF Stored
  <2> DEFINE n == Dropped(Weight[k])
             s == SubSeq(lru, n + 1, Len(lru))
  <2>3. n \in 0..Len(lru) /\ bytes - Size(Oldest(n)) + Weight[k] <= Budget
    BY <2>2, DroppedEnough
  <2>4. lru' = Append(s, k) /\ bytes' = bytes - Size(Oldest(n)) + Weight[k]
    BY <1>2 DEF Insert
  <2> HIDE DEF n
  <2>5. /\ s \in Seq(Keys) /\ IsInjective(s)
        /\ Oldest(n) \in SUBSET ToSet(lru)
        /\ ToSet(s) = ToSet(lru) \ Oldest(n)
    BY <2>1, <2>3, CutOff DEF Oldest
  <2> HIDE DEF s
  <2>6. /\ Append(s, k) \in Seq(Keys) /\ IsInjective(Append(s, k))
        /\ ToSet(Append(s, k)) = ToSet(s) \cup {k}
    BY <2>2, <2>5, AppendNew
  <2>7. ToSet(lru) \in SUBSET Keys /\ ToSet(s) \in SUBSET Keys
    BY <2>1, <2>5, Elements
  <2>8. Size(ToSet(lru)) = Size(Oldest(n)) + Size(ToSet(s))
    BY <2>5, <2>7, SizeSplit
  <2>9. Size(ToSet(s) \cup {k}) = Weight[k] + Size(ToSet(s))
    <3>1. (ToSet(s) \cup {k}) \ {k} = ToSet(s) /\ ToSet(s) \cup {k} \in SUBSET Keys
      BY <2>2, <2>5, <2>7
    <3> QED BY <3>1, SizeRemove
  <2>10. Size(Oldest(n)) \in Nat /\ Size(ToSet(s)) \in Nat
    BY <2>5, <2>7, SizeType
  <2>11. bytes' = Size(ToSet(lru')) /\ bytes' <= Budget
    BY <2>1, <2>2, <2>3, <2>4, <2>6, <2>8, <2>9, <2>10
  <2> QED BY <2>4, <2>5, <2>6, <2>11 DEF StoreOK, BytesAccounted, Stored
<1> QED BY <1>1, <1>2

--------------------------------------------------------------------------------
(* The callers *)

\* The types of what the callers add to the flights.
CallersTyped ==
  /\ disk \subseteq Keys
  /\ want \in [Threads -> Keys \cup {None}]
  /\ closure \subseteq Threads
  /\ stage \in [Threads -> Stages]
  /\ asks \in [Threads -> 0..MaxAsks]

\* A thread with work to do leads a flight, and whoever is in a flight is in it for the key
\* it asks for.
WorkersFly ==
  \A t \in Threads :
    /\ stage[t] # "idle" => pc[t] = "working"
    /\ pc[t] # "outside" => want[t] \in Keys /\ key[t] = want[t]

\* A closure is used once, by a leader that comes to encode.
ClosuresKept ==
  \A t \in Threads :
    want[t] # None /\ (pc[t] \in {"outside", "waiting"} \/ stage[t] \in {"recheck", "disk", "encode"})
      => t \in closure

\* A leader comes out of its work with an encoding, or has used its closure.
WorkIsOwn ==
  \A t \in Threads :
    /\ pc[t] \in {"returned", "published"} => got[t] \in Keys \/ t \notin closure
    /\ pc[t] = "panicked" => t \notin closure

\* Nobody else stores what a leader has found missing.
MissesStand ==
  \A t \in Threads : stage[t] \notin {"idle", "recheck"} => key[t] \notin Stored

IInv ==
  /\ Group!IInv
  /\ StoreOK
  /\ CallersTyped
  /\ WorkersFly
  /\ ClosuresKept
  /\ WorkIsOwn
  /\ MissesStand

\* What is known of the flights.
LEMMA FlightFacts ==
  ASSUME Group!IInv
  PROVE  /\ Flight!TypeOK
         /\ \A t \in Threads : pc[t] = "working" => key[t] \in Keys
         /\ \A s, t \in Threads : pc[s] = "working" /\ pc[t] = "working" /\ key[s] = key[t] => s = t
         /\ \A t \in Threads : joined[t] # None => pc[t] = "waiting"
<1>1. Group!TypeOK /\ Group!LeadersAreListed /\ Group!HeldAreUnfinished
  BY DEF Group!IInv
<1>2. Flight!TypeOK
  BY <1>1 DEF Group!TypeOK, Flight!TypeOK, Group!Results, Flight!Results,
              Group!Leading, Flight!Leading, Group!Unfinished, Flight!Unfinished
<1>3. \A t \in Threads : pc[t] = "working" => key[t] \in Keys /\ calls[key[t]].leader = t
  BY <1>1 DEF Group!LeadersAreListed, Group!Leading, Group!Unfinished
<1>4. \A t \in Threads : joined[t] # None => pc[t] = "waiting"
  BY <1>1 DEF Group!HeldAreUnfinished
<1>5. \A s, t \in Threads : pc[s] = "working" /\ pc[t] = "working" /\ key[s] = key[t] => s = t
  BY <1>3
<1> QED BY <1>2, <1>3, <1>4, <1>5

--------------------------------------------------------------------------------
(* The flights of the cache are flights of SingleFlight *)

FlightSteps ==
  [\E t \in Threads :
     \/ \E k \in Keys : Flight!Lead(t, k) \/ Flight!Join(t, k)
     \/ Flight!Sleep(t) \/ Flight!WakeForNothing(t)
     \/ Flight!TakeResult(t) \/ Flight!Publish(t) \/ Flight!Unlist(t)
     \/ Flight!WorkPanics(t)
     \/ \E v \in Keys \cup {Nothing} : Flight!WorkReturns(t, v)]_flight

LEMMA StepsAreFlights ==
  ASSUME Group!IInv, CallersTyped, WorkersFly, [Next]_vars
  PROVE  FlightSteps
<1>1. ASSUME NEW t \in Threads, Fly(t) PROVE FlightSteps
  BY <1>1 DEF Fly, CallersTyped, FlightSteps
<1>2. ASSUME NEW t \in Threads, Work(t) PROVE FlightSteps
  <2>1. stage[t] # "idle"
    BY <1>2 DEF Work, Recheck, ReadDisk, Encode, Persist, Remember
  <2>2. key[t] \in Keys
    BY <2>1, FlightFacts DEF WorkersFly
  <2> QED BY <1>2, <2>2 DEF Work, Recheck, ReadDisk, Encode, Persist, Remember, FlightSteps
<1>3. ASSUME NEW t \in Threads, Publish(t) \/ Land(t) \/ Doze(t) PROVE FlightSteps
  BY <1>3 DEF Publish, Land, Doze, FlightSteps
<1>4. ASSUME UNCHANGED flight PROVE FlightSteps
  BY <1>4 DEF FlightSteps
<1> QED BY <1>1, <1>2, <1>3, <1>4 DEF Next, Miss, Hit, DiskLoses, Clear, vars

LEMMA FlightsAreGroups ==
  ASSUME FlightSteps
  PROVE  [Group!Next]_(Group!flight)
BY DEF FlightSteps, flight, Group!flight, Group!Next, Group!FlightGoesOn, Group!Results,
       Flight!Lead, Group!Lead, Flight!Join, Group!Join, Flight!Sleep, Group!Sleep,
       Flight!WakeForNothing, Group!WakeForNothing, Flight!TakeResult, Group!TakeResult,
       Flight!Publish, Group!Publish, Flight!Unlist, Group!Unlist, Flight!WorkPanics,
       Group!WorkPanics, Flight!WorkReturns, Group!WorkReturns, Flight!Goto, Group!Goto,
       Flight!Leave, Group!Leave, Flight!NoCall, Group!NoCall, Flight!IsCallOf, Group!IsCallOf,
       Flight!Outcome, Group!Outcome, Flight!Members, Group!Members

\* What the steps of a flight do to a thread.
LEMMA FlightMoves ==
  ASSUME Group!IInv, NEW t \in Threads
  PROVE  /\ \A k \in Keys : Flight!Lead(t, k) =>
              /\ pc[t] = "outside" /\ pc' = [pc EXCEPT ![t] = "working"]
              /\ key' = [key EXCEPT ![t] = k] /\ got' = got
         /\ \A k \in Keys : Flight!Join(t, k) =>
              /\ pc[t] = "outside" /\ pc' = [pc EXCEPT ![t] = "waiting"]
              /\ key' = [key EXCEPT ![t] = k]
              /\ \A u \in Threads : u # t => got'[u] = got[u]
         /\ Flight!TakeResult(t) =>
              /\ pc[t] = "waiting" /\ got[t] # None
              /\ pc' = [pc EXCEPT ![t] = "outside"] /\ key' = [key EXCEPT ![t] = None]
              /\ got' = [got EXCEPT ![t] = None]
         /\ Flight!Unlist(t) =>
              /\ pc[t] = "published"
              /\ pc' = [pc EXCEPT ![t] = "outside"] /\ key' = [key EXCEPT ![t] = None]
              /\ got' = [got EXCEPT ![t] = None]
         /\ Flight!Publish(t) =>
              /\ pc[t] \in {"panicked", "returned"}
              /\ pc' = [pc EXCEPT ![t] = "published"] /\ key' = key
              /\ \A u \in Threads : pc[u] # "waiting" => got'[u] = got[u]
         /\ Flight!WorkPanics(t) =>
              /\ pc[t] = "working" /\ pc' = [pc EXCEPT ![t] = "panicked"]
              /\ UNCHANGED <<key, got>>
         /\ \A v \in Keys \cup {Nothing} : Flight!WorkReturns(t, v) =>
              /\ pc[t] = "working" /\ pc' = [pc EXCEPT ![t] = "returned"]
              /\ got' = [got EXCEPT ![t] = v] /\ key' = key
         /\ Flight!Sleep(t) \/ Flight!WakeForNothing(t) => UNCHANGED <<pc, key, got>>
<1>1. Flight!TypeOK /\ \A u \in Threads : joined[u] # None => pc[u] = "waiting"
  BY FlightFacts
<1>2. Flight!Publish(t) => \A u \in Threads : pc[u] # "waiting" => got'[u] = got[u]
  BY <1>1, NamesAssumption DEF Flight!Publish, Flight!Members
<1> QED BY <1>1, <1>2
        DEF Flight!TypeOK, Flight!Lead, Flight!Join, Flight!TakeResult, Flight!Unlist, Flight!Leave,
            Flight!Publish, Flight!WorkPanics, Flight!WorkReturns, Flight!Sleep,
            Flight!WakeForNothing, Flight!Goto

--------------------------------------------------------------------------------
(* The invariant *)

LEMMA InitIInv == Init => IInv
<1> SUFFICES ASSUME Init PROVE IInv
  OBVIOUS
<1>1. Group!IInv
  <2>1. Group!Init
    BY DEF Init, Flight!Init, Group!Init, Flight!NoCall, Group!NoCall
  <2> QED BY <2>1, Group!InitIInv, NamesAssumption
<1>2. StoreOK
  BY NothingStored DEF Init
<1>3. CallersTyped
  BY SizesAssumption DEF Init, CallersTyped, Stages
<1>4. WorkersFly /\ ClosuresKept /\ WorkIsOwn /\ MissesStand
  BY DEF Init, Flight!Init, WorkersFly, ClosuresKept, WorkIsOwn, MissesStand
<1> QED BY <1>1, <1>2, <1>3, <1>4 DEF IInv

\* Only a leader that found its key missing adds to the store, and it is done with it then.
LEMMA StoreStep ==
  ASSUME IInv, [Next]_vars
  PROVE  /\ StoreOK'
         /\ \/ Stored' \subseteq Stored
            \/ \E t \in Threads : Remember(t) /\ Stored' \subseteq Stored \cup {key[t]}
<1>0. StoreOK
  BY DEF IInv
<1>1. ASSUME NEW k \in Keys, Touch(k) PROVE StoreOK' /\ Stored' \subseteq Stored
  BY <1>0, <1>1, TouchStep
<1>2. ASSUME UNCHANGED store PROVE StoreOK' /\ Stored' \subseteq Stored
  BY <1>0, <1>2 DEF store, StoreOK, BytesAccounted, Stored
<1>3. ASSUME NEW t \in Threads, Recheck(t) PROVE StoreOK' /\ Stored' \subseteq Stored
  <2>1. key[t] \in Keys
    BY <1>3, FlightFacts DEF IInv, WorkersFly, Recheck
  <2>2. Touch(key[t]) \/ UNCHANGED store
    BY <1>3 DEF Recheck
  <2> QED BY <1>1, <1>2, <2>1, <2>2
<1>4. ASSUME NEW t \in Threads, Remember(t)
      PROVE  StoreOK' /\ Stored' \subseteq Stored \cup {key[t]}
  <2>1. key[t] \in Keys
    BY <1>4, FlightFacts DEF IInv, WorkersFly, Remember
  <2> QED BY <1>0, <1>4, <2>1, InsertStep DEF Remember
<1>5. ASSUME Clear PROVE StoreOK' /\ Stored' \subseteq Stored
  <2>1. (lru = <<>>)' /\ (bytes = 0)'
    BY <1>5 DEF Clear
  <2>2. (lru = <<>> /\ bytes = 0 => StoreOK /\ Stored = {})'
    BY NothingStored, PTL
  <2> QED BY <2>1, <2>2
<1>6. ASSUME NEW k \in Keys, Hit(k) PROVE StoreOK' /\ Stored' \subseteq Stored
  BY <1>1, <1>6 DEF Hit
<1> QED
  BY <1>2, <1>3, <1>4, <1>5, <1>6
     DEF Next, Fly, Work, ReadDisk, Encode, Persist, Publish, Land, Doze, Miss, DiskLoses, vars

\* The callers' part of the invariant, action by action.
CallersOK == CallersTyped /\ WorkersFly /\ ClosuresKept /\ WorkIsOwn

LEMMA CallersStep ==
  ASSUME IInv, [Next]_vars
  PROVE  CallersOK'
<1>0. /\ CallersTyped /\ WorkersFly /\ ClosuresKept /\ WorkIsOwn /\ Group!IInv
      /\ pc \in [Threads -> {"working", "panicked", "returned", "published", "outside", "waiting"}]
      /\ key \in [Threads -> Keys \cup {None}]
      /\ got \in [Threads -> Keys \cup {Nothing, None}]
      /\ \A t \in Threads : pc[t] = "working" => key[t] \in Keys
      /\ None \notin Keys /\ None # Nothing /\ Nothing \notin Keys
  BY FlightFacts, NamesAssumption
     DEF IInv, Flight!TypeOK, Flight!Leading, Flight!Unfinished, Flight!Results
<1> USE DEF CallersTyped, Stages
<1>1. ASSUME NEW t \in Threads, Fly(t) PROVE CallersOK'
  <2>1. want[t] \in Keys /\ UNCHANGED <<disk, want, closure, asks>>
    BY <1>0, <1>1 DEF Fly, caller
  <2>2. CASE Flight!Lead(t, want[t]) /\ Stage(t, "recheck")
    <3>1. /\ pc[t] = "outside" /\ pc' = [pc EXCEPT ![t] = "working"]
          /\ key' = [key EXCEPT ![t] = want[t]] /\ got' = got
      BY <1>0, <2>1, <2>2, FlightMoves
    <3>2. stage' = [stage EXCEPT ![t] = "recheck"]
      BY <2>2 DEF Stage
    <3>3. CallersTyped'
      BY <1>0, <2>1, <3>2
    <3>4. WorkersFly'
      BY <1>0, <2>1, <3>1, <3>2 DEF WorkersFly
    <3>5. ClosuresKept' /\ WorkIsOwn'
      BY <1>0, <2>1, <3>1, <3>2 DEF WorkersFly, ClosuresKept, WorkIsOwn
    <3> QED BY <3>3, <3>4, <3>5 DEF CallersOK
  <2>3. CASE Flight!Join(t, want[t]) /\ UNCHANGED stage
    <3>1. /\ pc[t] = "outside" /\ pc' = [pc EXCEPT ![t] = "waiting"]
          /\ key' = [key EXCEPT ![t] = want[t]]
          /\ \A u \in Threads : u # t => got'[u] = got[u]
      BY <1>0, <2>1, <2>3, FlightMoves
    <3>2. CallersTyped'
      BY <1>0, <2>1, <2>3
    <3>3. WorkersFly'
      BY <1>0, <2>1, <2>3, <3>1 DEF WorkersFly
    <3>4. ClosuresKept' /\ WorkIsOwn'
      BY <1>0, <2>1, <2>3, <3>1 DEF WorkersFly, ClosuresKept, WorkIsOwn
    <3> QED BY <3>2, <3>3, <3>4 DEF CallersOK
  <2> QED BY <1>1, <2>2, <2>3 DEF Fly
<1>2. ASSUME NEW t \in Threads, stage[t] # "idle", NEW v \in Keys \cup {Nothing},
             Flight!WorkReturns(t, v), v \in Keys \/ t \notin closure',
             Stage(t, "idle"), closure' \subseteq closure,
             \A u \in Threads : u # t /\ u \in closure => u \in closure',
             disk' \subseteq Keys, UNCHANGED <<want, asks>>
      PROVE  CallersOK'
  <2>1. /\ pc[t] = "working" /\ pc' = [pc EXCEPT ![t] = "returned"]
        /\ got' = [got EXCEPT ![t] = v] /\ key' = key
    BY <1>0, <1>2, FlightMoves
  <2>2. stage' = [stage EXCEPT ![t] = "idle"]
    BY <1>2 DEF Stage
  <2>3. CallersTyped'
    BY <1>0, <1>2, <2>2
  <2>4. WorkersFly'
    BY <1>0, <1>2, <2>1, <2>2 DEF WorkersFly
  <2>5. ClosuresKept'
    BY <1>0, <1>2, <2>1, <2>2 DEF ClosuresKept
  <2>6. WorkIsOwn'
    BY <1>0, <1>2, <2>1 DEF WorkIsOwn
  <2> QED BY <2>3, <2>4, <2>5, <2>6 DEF CallersOK
<1>3. ASSUME NEW t \in Threads, stage[t] # "idle", NEW s \in Stages, Stage(t, s), s # "idle",
             s \in {"disk", "encode"} => stage[t] \in {"recheck", "disk"},
             s = "recheck" => FALSE,
             \A u \in Threads : (u # t \/ s \in {"disk", "encode"}) /\ u \in closure => u \in closure',
             closure' \subseteq closure,
             disk' \subseteq Keys, UNCHANGED <<flight, want, asks>>
      PROVE  CallersOK'
  <2>1. stage' = [stage EXCEPT ![t] = s] /\ UNCHANGED <<pc, key, got>> /\ pc[t] = "working"
    BY <1>0, <1>3 DEF Stage, flight, WorkersFly
  <2>2. CallersTyped'
    BY <1>0, <1>3, <2>1
  <2>3. WorkersFly' /\ WorkIsOwn'
    BY <1>0, <1>3, <2>1 DEF WorkersFly, WorkIsOwn
  <2>4. ClosuresKept'
    BY <1>0, <1>3, <2>1 DEF ClosuresKept
  <2> QED BY <2>2, <2>3, <2>4 DEF CallersOK
<1>4. ASSUME NEW t \in Threads, Recheck(t) PROVE CallersOK'
  <2>1. stage[t] = "recheck" /\ key[t] \in Keys /\ UNCHANGED <<disk, want, closure, asks>>
    BY <1>0, <1>4 DEF Recheck, caller, WorkersFly
  <2>2. CASE key[t] \in Stored
    BY <1>0, <1>2, <1>4, <2>1, <2>2 DEF Recheck
  <2>3. CASE key[t] \notin Stored
    BY <1>0, <1>3, <1>4, <2>1, <2>3 DEF Recheck
  <2> QED BY <2>2, <2>3
<1>5. ASSUME NEW t \in Threads, ReadDisk(t) PROVE CallersOK'
  BY <1>0, <1>3, <1>5 DEF ReadDisk, caller
<1>6. ASSUME NEW t \in Threads, Encode(t) PROVE CallersOK'
  <2>1. /\ stage[t] = "encode" /\ closure' = closure \ {t} /\ UNCHANGED <<disk, want, asks>>
    BY <1>6 DEF Encode
  <2>2. CASE Stage(t, "persist") /\ UNCHANGED flight
    BY <1>0, <1>3, <2>1, <2>2
  <2>3. CASE Flight!WorkReturns(t, Nothing) /\ Stage(t, "idle")
    BY <1>0, <1>2, <2>1, <2>3
  <2>4. CASE Flight!WorkPanics(t) /\ Stage(t, "idle")
    <3>1. /\ pc[t] = "working" /\ pc' = [pc EXCEPT ![t] = "panicked"]
          /\ key' = key /\ got' = got
      BY <1>0, <2>4, FlightMoves
    <3>2. stage' = [stage EXCEPT ![t] = "idle"]
      BY <2>4 DEF Stage
    <3>3. CallersTyped'
      BY <1>0, <2>1, <3>2
    <3>4. WorkersFly' /\ WorkIsOwn'
      BY <1>0, <2>1, <3>1, <3>2 DEF WorkersFly, WorkIsOwn
    <3>5. ClosuresKept'
      BY <1>0, <2>1, <3>1, <3>2 DEF ClosuresKept
    <3> QED BY <3>3, <3>4, <3>5 DEF CallersOK
  <2> QED BY <1>6, <2>2, <2>3, <2>4 DEF Encode
<1>7. ASSUME NEW t \in Threads, Persist(t) PROVE CallersOK'
  <2>1. stage[t] = "persist" /\ key[t] \in Keys
    BY <1>0, <1>7 DEF Persist, WorkersFly
  <2>2. disk' \subseteq Keys
    BY <1>0, <1>7, <2>1 DEF Persist
  <2> QED BY <1>3, <1>7, <2>1, <2>2 DEF Persist, caller
<1>8. ASSUME NEW t \in Threads, Remember(t) PROVE CallersOK'
  <2>1. stage[t] = "remember" /\ key[t] \in Keys
    BY <1>0, <1>8 DEF Remember, WorkersFly
  <2> QED BY <1>0, <1>2, <1>8, <2>1 DEF Remember, caller
<1>9. ASSUME NEW t \in Threads, Publish(t) PROVE CallersOK'
  <2>1. /\ pc[t] \in {"panicked", "returned"}
        /\ pc' = [pc EXCEPT ![t] = "published"] /\ key' = key
        /\ \A u \in Threads : pc[u] # "waiting" => got'[u] = got[u]
        /\ UNCHANGED <<disk, want, closure, asks, stage>>
    BY <1>0, <1>9, FlightMoves DEF Publish, caller
  <2>2. CallersTyped'
    BY <1>0, <2>1
  <2>3. WorkersFly'
    BY <1>0, <2>1 DEF WorkersFly
  <2>4. ClosuresKept'
    BY <1>0, <2>1 DEF ClosuresKept
  <2>5. WorkIsOwn'
    BY <1>0, <2>1 DEF WorkIsOwn
  <2> QED BY <2>2, <2>3, <2>4, <2>5 DEF CallersOK
<1>10. ASSUME NEW t \in Threads, Land(t) PROVE CallersOK'
  <2>1. /\ pc[t] \in {"waiting", "published"}
        /\ pc' = [pc EXCEPT ![t] = "outside"] /\ key' = [key EXCEPT ![t] = None]
        /\ got' = [got EXCEPT ![t] = None]
        /\ UNCHANGED <<disk, closure, asks, stage>>
    BY <1>0, <1>10, FlightMoves DEF Land
  <2>2. /\ want' = want \/ want' = [want EXCEPT ![t] = None]
        /\ pc[t] = "published" => want' = [want EXCEPT ![t] = None]
    <3>1. CASE Flight!TakeResult(t)
      BY <1>0, <1>10, <3>1, FlightMoves DEF Land, Answered
    <3>2. CASE Flight!Unlist(t) /\ Answered(t)
      BY <3>2 DEF Answered
    <3> QED BY <1>0, <1>10, <3>1, <3>2 DEF Land
  <2>3. CallersTyped'
    BY <1>0, <2>1, <2>2
  <2>4. WorkersFly'
    BY <1>0, <2>1, <2>2 DEF WorkersFly
  <2>5. ClosuresKept'
    BY <1>0, <2>1, <2>2 DEF ClosuresKept
  <2>6. WorkIsOwn'
    BY <1>0, <2>1 DEF WorkIsOwn
  <2> QED BY <2>3, <2>4, <2>5, <2>6 DEF CallersOK
<1>11. ASSUME NEW t \in Threads, NEW k \in Keys, Miss(t, k) PROVE CallersOK'
  <2>1. /\ want[t] = None /\ asks[t] < MaxAsks
        /\ asks' = [asks EXCEPT ![t] = @ + 1]
        /\ want' = [want EXCEPT ![t] = k]
        /\ closure' = closure \cup {t}
        /\ UNCHANGED <<pc, key, got, disk, stage>>
    BY <1>11 DEF Miss, Asks, flight
  <2>2. pc[t] = "outside" /\ stage[t] = "idle"
    BY <1>0, <2>1 DEF WorkersFly
  <2>3. asks[t] + 1 \in 0..MaxAsks
    BY <1>0, <2>1, SizesAssumption
  <2>4. CallersTyped'
    BY <1>0, <2>1, <2>3
  <2>5. WorkersFly'
    BY <1>0, <2>1, <2>2 DEF WorkersFly
  <2>6. ClosuresKept' /\ WorkIsOwn'
    BY <1>0, <2>1, <2>2 DEF ClosuresKept, WorkIsOwn
  <2> QED BY <2>4, <2>5, <2>6 DEF CallersOK
<1>12. ASSUME UNCHANGED <<pc, key, got, want, closure, asks, stage>>, disk' \subseteq disk
       PROVE  CallersOK'
  BY <1>0, <1>12 DEF WorkersFly, ClosuresKept, WorkIsOwn, CallersOK
<1>13. ASSUME NEW t \in Threads, Doze(t) PROVE CallersOK'
  BY <1>0, <1>12, <1>13, FlightMoves DEF Doze, caller
<1>14. ASSUME (\E k \in Keys : Hit(k) \/ DiskLoses(k)) \/ Clear \/ UNCHANGED vars PROVE CallersOK'
  BY <1>12, <1>14 DEF Hit, DiskLoses, Clear, vars, flight, caller
<1> QED
  BY <1>1, <1>4, <1>5, <1>6, <1>7, <1>8, <1>9, <1>10, <1>11, <1>13, <1>14 DEF Next, Work

\* A leader past its second look is alone with its key, and a store only grows by the key of
\* a leader that is then done.
LEMMA MissesStep ==
  ASSUME IInv, [Next]_vars
  PROVE  MissesStand'
<1>1. /\ MissesStand /\ WorkersFly /\ Group!IInv /\ stage \in [Threads -> Stages]
      /\ pc \in [Threads -> {"working", "panicked", "returned", "published", "outside", "waiting"}]
      /\ key \in [Threads -> Keys \cup {None}]
      /\ \A s, t \in Threads : pc[s] = "working" /\ pc[t] = "working" /\ key[s] = key[t] => s = t
  BY FlightFacts DEF IInv, CallersTyped, Flight!TypeOK, Flight!Leading, Flight!Unfinished
<1> SUFFICES ASSUME NEW t \in Threads, stage'[t] \notin {"idle", "recheck"}
             PROVE  key'[t] \notin Stored'
  BY DEF MissesStand
\* It was there already, or it has just looked.
<1>2. /\ key'[t] = key[t] /\ pc[t] = "working" /\ key[t] \notin Stored
      /\ ~Remember(t)
  <2>1. ASSUME NEW u \in Threads, Fly(u) PROVE stage'[t] = stage[t] /\ key'[t] = key[t]
    <3>1. CASE Flight!Lead(u, want[u]) /\ Stage(u, "recheck")
      BY <1>1, <3>1 DEF Stage, Flight!Lead
    <3>2. CASE Flight!Join(u, want[u]) /\ UNCHANGED stage
      <4>1. pc[u] = "outside" /\ key' = [key EXCEPT ![u] = want[u]]
        BY <3>2 DEF Flight!Join
      <4>2. stage[u] = "idle"
        BY <1>1, <4>1 DEF WorkersFly
      <4> QED BY <1>1, <3>2, <4>1, <4>2
    <3> QED BY <2>1, <3>1, <3>2 DEF Fly
  <2>2. ASSUME NEW u \in Threads, Land(u) PROVE stage'[t] = stage[t] /\ key'[t] = key[t]
    <3>1. pc[u] \in {"waiting", "published"} /\ key' = [key EXCEPT ![u] = None] /\ stage' = stage
      BY <1>1, <2>2, FlightMoves DEF Land
    <3>2. stage[u] = "idle"
      BY <1>1, <3>1 DEF WorkersFly
    <3> QED BY <1>1, <3>1, <3>2
  <2>3. ASSUME NEW u \in Threads, Work(u), u # t PROVE stage'[t] = stage[t] /\ key'[t] = key[t]
    BY <1>1, <2>3
       DEF Work, Recheck, ReadDisk, Encode, Persist, Remember, Stage, flight,
           Flight!WorkReturns, Flight!WorkPanics
  <2>4. ASSUME Work(t)
        PROVE  /\ key'[t] = key[t] /\ stage[t] # "idle" /\ ~Remember(t)
               /\ stage[t] = "recheck" => key[t] \notin Stored
    BY <1>1, <2>4
       DEF Work, Recheck, ReadDisk, Encode, Persist, Remember, Stage, flight,
           Flight!WorkReturns, Flight!WorkPanics
  <2>5. ASSUME NEW u \in Threads, Publish(u) \/ Doze(u) PROVE stage'[t] = stage[t] /\ key'[t] = key[t]
    BY <2>5 DEF Publish, Doze, Flight!Publish, Flight!Sleep, Flight!WakeForNothing
  <2>6. ASSUME UNCHANGED <<flight, stage>> PROVE stage'[t] = stage[t] /\ key'[t] = key[t]
    BY <2>6 DEF flight
  <2>7. /\ stage'[t] = stage[t] /\ key'[t] = key[t]
        \/ /\ Work(t) /\ key'[t] = key[t] /\ stage[t] # "idle"
           /\ stage[t] = "recheck" => key[t] \notin Stored
    BY <2>1, <2>2, <2>3, <2>4, <2>5, <2>6 DEF Next, Miss, Hit, DiskLoses, Clear, vars
  <2>8. ~Remember(t)
    BY <1>1 DEF Remember, Stage
  <2> QED BY <1>1, <2>7, <2>8 DEF MissesStand, WorkersFly
<1>3. ASSUME NEW u \in Threads, Remember(u) PROVE key[u] # key[t]
  <2>1. pc[u] = "working"
    BY <1>1, <1>3 DEF WorkersFly, Remember
  <2> QED BY <1>1, <1>2, <1>3, <2>1
<1> QED BY <1>2, <1>3, StoreStep

LEMMA StepIInv == IInv /\ [Next]_vars => IInv'
<1> SUFFICES ASSUME IInv, [Next]_vars PROVE IInv'
  OBVIOUS
<1>1. FlightSteps
  BY StepsAreFlights DEF IInv
<1>2. Group!IInv'
  BY <1>1, FlightsAreGroups, Group!StepIInv, NamesAssumption DEF IInv
<1> QED BY <1>2, StoreStep, CallersStep, MissesStep DEF IInv, CallersOK

--------------------------------------------------------------------------------
(* Theorems *)

\* The strengthened invariant holds of every behaviour of the cache and its callers.
THEOREM Inductive == Spec => []IInv
BY InitIInv, StepIInv, PTL DEF Spec

\* The types hold; s.bytes -= len never underflows (make_room, remember, clear).
THEOREM TypeCorrect == Spec => []TypeOK
<1>1. IInv => TypeOK
  <2> SUFFICES ASSUME IInv PROVE TypeOK
    OBVIOUS
  <2>1. bytes \in Nat
    BY Elements, SizeType DEF IInv, StoreOK, BytesAccounted, Stored
  <2>2. Flight!TypeOK
    BY FlightFacts DEF IInv
  <2> QED BY <2>1, <2>2 DEF IInv, StoreOK, CallersTyped, TypeOK
<1> QED BY <1>1, Inductive, PTL

\* The account of bytes is what the store holds, and the budget bounds it, whatever is
\* remembered, refreshed and cleared in whatever order (make_room, remember, clear).
THEOREM BudgetHolds == Spec => []BytesAccounted
<1>1. IInv => BytesAccounted
  BY DEF IInv, StoreOK
<1> QED BY <1>1, Inductive, PTL

\* What a leader has looked for under the lock a second time stays missing until it comes
\* back with it, so no encoding is computed for nothing (get_or_encode_shared).
THEOREM OneEncoding == Spec => []NothingEncodedTwice
<1>1. IInv => NothingEncodedTwice
  BY DEF IInv, StoreOK, MissesStand, NothingEncodedTwice
<1> QED BY <1>1, Inductive, PTL

\* The expect of the code never fires: a leader that comes to encode has its closure.
THEOREM ClosureAtHand == Spec => []LeaderOwnsClosure
<1>1. IInv => LeaderOwnsClosure
  <2> SUFFICES ASSUME IInv, NEW t \in Threads, stage[t] = "encode" PROVE t \in closure
    BY DEF LeaderOwnsClosure
  <2>1. want[t] # None
    BY NamesAssumption DEF IInv, WorkersFly
  <2> QED BY <2>1 DEF IInv, ClosuresKept
<1> QED BY <1>1, Inductive, PTL

\* A caller leaves without an encoding only when its own closure has run (the loop of
\* get_or_encode_shared).
THEOREM FailuresAreOwn == Spec => NoBorrowedFailure
<1>1. ASSUME IInv, [Next]_vars, NEW t \in Threads, want[t] # None, want'[t] = None
      PROVE  got[t] \in Keys \/ t \notin closure
  <2>1. want \in [Threads -> Keys \cup {None}] /\ WorkIsOwn /\ Group!IInv
    BY <1>1 DEF IInv, CallersTyped
  <2>2. got \in [Threads -> Keys \cup {Nothing, None}]
    BY <2>1, FlightFacts DEF Flight!TypeOK, Flight!Results
  <2>3. Land(t)
    <3>1. ASSUME NEW u \in Threads, Land(u) PROVE Land(t)
      <4>1. want' = want \/ want' = [want EXCEPT ![u] = None]
        BY <3>1 DEF Land, Answered
      <4> QED BY <1>1, <2>1, <3>1, <4>1
    <3>2. ASSUME NEW u \in Threads, NEW k \in Keys, Miss(u, k) PROVE FALSE
      BY <1>1, <2>1, <3>2, NamesAssumption DEF Miss, Asks
    <3> QED BY <1>1, <3>1, <3>2
            DEF Next, Fly, Work, Recheck, ReadDisk, Encode, Persist, Remember, Publish, Doze, Hit,
                DiskLoses, Clear, vars, caller
  <2>4. CASE Flight!TakeResult(t) /\ IF got[t] = Nothing THEN UNCHANGED want ELSE Answered(t)
    BY <1>1, <2>1, <2>2, <2>4, FlightMoves
  <2>5. CASE Flight!Unlist(t)
    BY <2>1, <2>5, FlightMoves DEF WorkIsOwn
  <2> QED BY <2>3, <2>4, <2>5 DEF Land
<1>2. IInv /\ [Next]_vars
        => [\A t \in Threads : want[t] # None /\ want'[t] = None
              => got[t] \in Keys \/ t \notin closure]_vars
  BY <1>1
<1> QED BY <1>2, Inductive, PTL DEF Spec, NoBorrowedFailure

\* The flights of the cache are a single-flight group, so all that is proved of SingleFlight
\* holds of them.
THEOREM FlightsImplement == Spec => Group!Spec
<1>1. Init => Group!Init
  BY DEF Init, Flight!Init, Group!Init, Flight!NoCall, Group!NoCall
<1>2. IInv /\ [Next]_vars => [Group!Next]_(Group!flight)
  BY StepsAreFlights, FlightsAreGroups DEF IInv
<1> QED BY <1>1, <1>2, Inductive, PTL DEF Spec, Group!Spec

================================================================================
