---------------------------- MODULE Caches_proofs ----------------------------
(***************************************************************************)
(* Proofs about CachedObjectStore, RangeCache and TableHydration.  The     *)
(* loops of the two byte caches (the sum of the sizes, the deletion by a   *)
(* predicate, the eviction) are recursive functions on an initial segment  *)
(* of the naturals: the first lemmas say that such a function exists, so   *)
(* that a loop is its steps, and what sums of sizes are.  The lemmas about *)
(* the object-store cache then speak of the set of its entries, whatever   *)
(* their order, and its invariant relates those entries to the content of  *)
(* the inner store.  The last part is about the loads of a table, for any  *)
(* number of loads, snapshots, files, failures and tables made one after   *)
(* another at the same place.                                              *)
(***************************************************************************)
EXTENDS Caches, WellFoundedInduction, TLAPS

(* A set of naturals that is not empty has a least element.                 *)
LEMMA LeastElement ==
    ASSUME NEW S \in SUBSET Nat, S # {}
    PROVE  \E n \in S : \A k \in S : n <= k
<1> DEFINE Less == OpToRel(<, Nat)
<1>1. IsWellFoundedOn(Less, Nat)
  BY NatLessThanWellFounded
<1>2. PICK n \in S : \A k \in S : ~ (<<k, n>> \in Less)
  <2> HIDE DEF Less
  <2> QED
    BY <1>1, WFMin
<1>3. \A k \in S : ~(k < n)
  BY <1>2 DEF OpToRel
<1> QED
  BY <1>3

(* Induction over the naturals, on a set of them.                           *)
LEMMA Induction ==
    ASSUME NEW S, 0 \in S, \A n \in S \cap Nat : n + 1 \in S
    PROVE  Nat \subseteq S
<1> SUFFICES ASSUME Nat \ S # {} PROVE FALSE
  OBVIOUS
<1>1. PICK n \in Nat \ S : \A k \in Nat \ S : n <= k
  BY LeastElement
<1>2. n # 0 /\ n - 1 \in Nat /\ n - 1 < n /\ (n - 1) + 1 = n
  OBVIOUS
<1>3. n - 1 \in S
  BY <1>1, <1>2
<1> QED
  BY <1>1, <1>2, <1>3

(* The history of a loop of N steps on c, each a function of what precedes. *)
Runs(f, N, c, pass) == f[0] = c /\ \A n \in 1 .. N : f[n] = pass[n][f[n - 1]]

(* Every loop of total steps has one.                                       *)
LEMMA LoopRuns ==
    ASSUME NEW X, NEW N \in Nat, NEW c \in X, NEW pass \in [1 .. N -> [X -> X]]
    PROVE  \E f \in [0 .. N -> X] : Runs(f, N, c, pass)
<1> USE DEF Runs
<1> DEFINE S == {k \in Nat : k <= N => \E f \in [0 .. k -> X] : Runs(f, k, c, pass)}
<1>1. 0 \in S
  <2>1. Runs([n \in 0 .. 0 |-> c], 0, c, pass)
    OBVIOUS
  <2> QED
    BY <2>1
<1>2. ASSUME NEW k \in S \cap Nat PROVE k + 1 \in S
  <2> SUFFICES ASSUME k + 1 <= N PROVE \E f \in [0 .. k + 1 -> X] : Runs(f, k + 1, c, pass)
    OBVIOUS
  <2>1. PICK f \in [0 .. k -> X] : Runs(f, k, c, pass)
    OBVIOUS
  <2>2. k + 1 \in 1 .. N /\ f[k] \in X
    OBVIOUS
  <2>3. pass[k + 1][f[k]] \in X
    BY <2>2
  <2> DEFINE g == [n \in 0 .. k + 1 |-> IF n <= k THEN f[n] ELSE pass[k + 1][f[k]]]
  <2>4. g \in [0 .. k + 1 -> X]
    BY <2>3
  <2>5. ASSUME NEW n \in 1 .. k + 1 PROVE g[n] = pass[n][g[n - 1]]
    <3>1. CASE n = k + 1
      BY <3>1
    <3>2. CASE n # k + 1
      <4>1. n \in 1 .. k /\ n - 1 \in 0 .. k
        BY <3>2
      <4>2. f[n] = pass[n][f[n - 1]]
        BY <2>1, <4>1
      <4> QED
        BY <4>1, <4>2
    <3> QED
      BY <3>1, <3>2
  <2>6. g[0] = c
    BY <2>1
  <2> QED
    BY <2>4, <2>5, <2>6
<1>3. N \in S
  <2> HIDE DEF S
  <2> QED
    BY <1>1, <1>2, Induction
<1> QED
  BY <1>3
--------------------------------------------------------------------------------
CacheEntries ==
    [key : Kinds \X Paths, value : [path : Paths, value : Contents],
     bytes : Nat, priority : Nat, expires : Nat \cup {Forever}]

StoredCaches == [entries : Seq(CacheEntries), bytes : Int]

Elements(s) == {s[i] : i \in 1 .. Len(s)}
Held(c) == Elements(c.entries)

DistinctKeys(s) == \A i, j \in 1 .. Len(s) : s[i].key = s[j].key => i = j

(* What the operations of the cache keep; eviction brings the count under   *)
(* the budget as well.                                                      *)
Accounted(c) ==
    /\ c \in StoredCaches
    /\ c.bytes = TotalBytes(c.entries)
    /\ DistinctKeys(c.entries)

(* What the sums need to know of the entries of either cache.               *)
Sized(T) == \A e \in T : e.bytes \in Nat

(* A running sum of the sizes of the entries.                               *)
Sums(s, f) ==
    /\ f \in [0 .. Len(s) -> Int]
    /\ f[0] = 0
    /\ \A n \in 1 .. Len(s) : f[n] = f[n - 1] + s[n].bytes

(* The entries of the object-store cache have sizes.                        *)
LEMMA CacheEntriesSized == Sized(CacheEntries)
BY DEF Sized, CacheEntries

(* The sequence without its i-th element, index by index.                   *)
LEMMA RemoveAtIs ==
    ASSUME NEW T, Sized(T), NEW s \in Seq(T), NEW i \in 1 .. Len(s)
    PROVE  /\ RemoveAt(s, i) \in Seq(T)
           /\ Len(RemoveAt(s, i)) = Len(s) - 1
           /\ \A k \in 1 .. Len(s) - 1 :
                 RemoveAt(s, i)[k] = IF k < i THEN s[k] ELSE s[k + 1]
<1> DEFINE a == SubSeq(s, 1, i - 1)
           b == SubSeq(s, i + 1, Len(s))
<1>0. Len(s) \in Nat
  OBVIOUS
<1>1. a \in Seq(T) /\ Len(a) = i - 1 /\ \A k \in 1 .. i - 1 : a[k] = s[k]
  OBVIOUS
<1>2. b \in Seq(T) /\ Len(b) = Len(s) - i
  OBVIOUS
<1>3. \A k \in 1 .. Len(s) - i : b[k] = s[k + i]
  OBVIOUS
<1>4. RemoveAt(s, i) = a \o b
  BY DEF RemoveAt
<1> HIDE DEF a, b
<1>5. a \o b \in Seq(T) /\ Len(a \o b) = Len(s) - 1
  <2>1. a \o b \in Seq(T)
    BY <1>1, <1>2
  <2>2. Len(a \o b) = Len(a) + Len(b)
    BY <1>1, <1>2
  <2> QED
    BY <1>0, <1>1, <1>2, <2>1, <2>2
<1>6. ASSUME NEW k \in 1 .. Len(s) - 1
      PROVE  (a \o b)[k] = IF k < i THEN s[k] ELSE s[k + 1]
  <2>1. CASE k < i
    BY <1>0, <1>1, <1>2, <2>1
  <2>2. CASE ~(k < i)
    <3>1. k - (i - 1) \in 1 .. Len(s) - i /\ (k - (i - 1)) + i = k + 1
      BY <1>0, <2>2
    <3>2. (a \o b)[k] = b[k - (i - 1)]
      BY <1>0, <1>1, <1>2, <2>2
    <3> QED
      BY <1>3, <2>2, <3>1, <3>2
  <2> QED
    BY <2>1, <2>2
<1> QED
  BY <1>4, <1>5, <1>6

(* The sizes of a sequence of entries have a running sum ...                *)
LEMMA SumsExist ==
    ASSUME NEW T, Sized(T), NEW s \in Seq(T)
    PROVE  \E f : Sums(s, f)
<1> DEFINE pass == [n \in 1 .. Len(s) |-> [x \in Int |-> x + s[n].bytes]]
<1>1. pass \in [1 .. Len(s) -> [Int -> Int]]
  <2>1. ASSUME NEW n \in 1 .. Len(s) PROVE s[n].bytes \in Nat
    <3>1. s[n] \in T
      OBVIOUS
    <3> QED
      BY <3>1 DEF Sized
  <2>2. ASSUME NEW n \in 1 .. Len(s), NEW x \in Int PROVE x + s[n].bytes \in Int
    BY <2>1
  <2> QED
    BY <2>2
<1>2. PICK f \in [0 .. Len(s) -> Int] : Runs(f, Len(s), 0, pass)
  <2> HIDE DEF pass
  <2>1. Len(s) \in Nat /\ 0 \in Int
    OBVIOUS
  <2> QED
    BY <1>1, <2>1, LoopRuns
<1>3. ASSUME NEW n \in 1 .. Len(s) PROVE f[n] = f[n - 1] + s[n].bytes
  <2>1. f[n - 1] \in Int
    OBVIOUS
  <2> QED
    BY <1>2, <2>1 DEF Runs
<1> QED
  BY <1>2, <1>3 DEF Runs, Sums

(* ... and it ends in their total.                                          *)
LEMMA TotalIs ==
    ASSUME NEW T, Sized(T), NEW s \in Seq(T), NEW f, Sums(s, f)
    PROVE  TotalBytes(s) = f[Len(s)] /\ TotalBytes(s) \in Int
<1> DEFINE IsSum(g) ==
             g = [n \in 0 .. Len(s) |-> IF n = 0 THEN 0 ELSE g[n - 1] + s[n].bytes]
<1>0. Len(s) \in Nat
  OBVIOUS
<1>1. IsSum(f)
  <2>1. ASSUME NEW n \in 0 .. Len(s)
        PROVE  f[n] = IF n = 0 THEN 0 ELSE f[n - 1] + s[n].bytes
    BY DEF Sums
  <2> QED
    BY <2>1 DEF Sums
<1>2. TotalBytes(s) = (CHOOSE g : IsSum(g))[Len(s)]
  BY Zenon DEF TotalBytes
<1>3. PICK g : g = (CHOOSE h : IsSum(h)) /\ IsSum(g)
  <2> HIDE DEF IsSum
  <2> QED
    BY <1>1, Zenon
<1>4. \A n \in 0 .. Len(s) : g[n] = IF n = 0 THEN 0 ELSE g[n - 1] + s[n].bytes
  <2>1. g = [n \in 0 .. Len(s) |-> IF n = 0 THEN 0 ELSE g[n - 1] + s[n].bytes]
    BY <1>3
  <2> HIDE DEF IsSum
  <2> QED
    BY <2>1, Zenon
<1> DEFINE S == {n \in Nat : n <= Len(s) => g[n] = f[n]}
<1>5. 0 \in S
  <2>1. g[0] = 0
    BY <1>0, <1>4
  <2>2. f[0] = 0
    BY DEF Sums
  <2> QED
    BY <2>1, <2>2
<1>6. ASSUME NEW n \in S \cap Nat PROVE n + 1 \in S
  <2> SUFFICES ASSUME n + 1 <= Len(s) PROVE g[n + 1] = f[n + 1]
    OBVIOUS
  <2>1. n + 1 \in 1 .. Len(s) /\ (n + 1) - 1 = n /\ n + 1 \in 0 .. Len(s) /\ n + 1 # 0
    BY <1>0
  <2>2. g[n + 1] = g[(n + 1) - 1] + s[n + 1].bytes
    BY <1>4, <2>1
  <2>3. f[n + 1] = f[(n + 1) - 1] + s[n + 1].bytes
    BY <2>1 DEF Sums
  <2>4. g[n] = f[n]
    BY <1>0
  <2> QED
    BY <2>1, <2>2, <2>3, <2>4
<1>7. Len(s) \in S
  <2> HIDE DEF S
  <2> QED
    BY <1>0, <1>5, <1>6, Induction
<1>8. g[Len(s)] = f[Len(s)]
  BY <1>0, <1>7
<1>9. f[Len(s)] \in Int
  BY <1>0 DEF Sums
<1> HIDE DEF IsSum
<1> QED
  BY <1>2, <1>3, <1>8, <1>9, Zenon

(* Nothing adds up to nothing.                                              *)
LEMMA EmptyTotal ==
    ASSUME NEW T, Sized(T), NEW s \in Seq(T), Len(s) = 0
    PROVE  TotalBytes(s) = 0
<1>1. PICK f : Sums(s, f)
  BY SumsExist
<1> QED
  BY <1>1, TotalIs DEF Sums

(* Appending an entry adds its size to the total.                           *)
LEMMA TotalAppend ==
    ASSUME NEW T, Sized(T), NEW s \in Seq(T), NEW e \in T
    PROVE  TotalBytes(Append(s, e)) = TotalBytes(s) + e.bytes
<1> DEFINE t == Append(s, e)
<1>0. Len(s) \in Nat /\ e.bytes \in Nat
  BY DEF Sized
<1>1. /\ t \in Seq(T) /\ Len(t) = Len(s) + 1 /\ t[Len(s) + 1] = e
      /\ \A n \in 1 .. Len(s) : t[n] = s[n]
  OBVIOUS
<1> HIDE DEF t
<1>2. PICK f : Sums(s, f)
  BY SumsExist
<1>3. f \in [0 .. Len(s) -> Int] /\ f[0] = 0
      /\ \A n \in 1 .. Len(s) : f[n] = f[n - 1] + s[n].bytes
  BY <1>2 DEF Sums
<1>4. TotalBytes(s) = f[Len(s)] /\ f[Len(s)] \in Int
  BY <1>0, <1>2, <1>3, TotalIs
<1> DEFINE g == [n \in 0 .. Len(s) + 1 |-> IF n <= Len(s) THEN f[n] ELSE f[Len(s)] + e.bytes]
<1>5. g \in [0 .. Len(t) -> Int] /\ g[0] = 0
  BY <1>0, <1>1, <1>3, <1>4
<1>6. ASSUME NEW n \in 1 .. Len(t) PROVE g[n] = g[n - 1] + t[n].bytes
  <2>1. CASE n = Len(s) + 1
    BY <1>0, <1>1, <2>1
  <2>2. CASE n # Len(s) + 1
    <3>1. n \in 1 .. Len(s) /\ n - 1 \in 0 .. Len(s)
      BY <1>0, <1>1, <2>2
    <3>2. g[n] = f[n] /\ g[n - 1] = f[n - 1]
      BY <1>0, <3>1
    <3> QED
      BY <1>1, <1>3, <3>1, <3>2
  <2> QED
    BY <2>1, <2>2
<1>7. g[Len(t)] = f[Len(s)] + e.bytes
  BY <1>0, <1>1
<1>8. Sums(t, g)
  BY <1>5, <1>6 DEF Sums
<1>9. TotalBytes(t) = g[Len(t)]
  <2> HIDE DEF g
  <2> QED
    BY <1>1, <1>8, TotalIs
<1> QED
  BY <1>4, <1>7, <1>9 DEF t

(* Removing one subtracts it.                                               *)
LEMMA TotalRemoveAt ==
    ASSUME NEW T, Sized(T), NEW s \in Seq(T), NEW i \in 1 .. Len(s)
    PROVE  TotalBytes(RemoveAt(s, i)) = TotalBytes(s) - s[i].bytes
<1>1. PICK t : t = RemoveAt(s, i)
  OBVIOUS
<1>2. /\ t \in Seq(T) /\ Len(t) = Len(s) - 1
      /\ \A k \in 1 .. Len(s) - 1 : t[k] = IF k < i THEN s[k] ELSE s[k + 1]
  BY <1>1, RemoveAtIs
<1>3. PICK f : Sums(s, f)
  BY SumsExist
<1>4. f \in [0 .. Len(s) -> Int] /\ f[0] = 0
      /\ \A n \in 1 .. Len(s) : f[n] = f[n - 1] + s[n].bytes
  BY <1>3 DEF Sums
<1>5. Len(s) \in Nat /\ s[i].bytes \in Nat
  <2>1. s[i] \in T
    OBVIOUS
  <2> QED
    BY <2>1 DEF Sized
<1>6. TotalBytes(s) = f[Len(s)]
  BY <1>3, TotalIs
<1> DEFINE g == [n \in 0 .. Len(s) - 1 |-> IF n < i THEN f[n] ELSE f[n + 1] - s[i].bytes]
<1>7. g \in [0 .. Len(t) -> Int] /\ g[0] = 0
  <2>1. ASSUME NEW n \in 0 .. Len(s) - 1
        PROVE  (IF n < i THEN f[n] ELSE f[n + 1] - s[i].bytes) \in Int
    <3>1. n \in 0 .. Len(s) /\ n + 1 \in 0 .. Len(s)
      BY <1>5
    <3>2. f[n] \in Int /\ f[n + 1] \in Int
      BY <1>4, <3>1
    <3> QED
      BY <1>5, <3>2
  <2>2. 0 \in 0 .. Len(s) - 1 /\ 0 < i
    BY <1>5
  <2> QED
    BY <1>2, <1>4, <2>1, <2>2
<1>8. ASSUME NEW n \in 1 .. Len(t) PROVE g[n] = g[n - 1] + t[n].bytes
  <2>1. /\ n \in 1 .. Len(s) - 1 /\ n \in 1 .. Len(s) /\ n + 1 \in 1 .. Len(s)
        /\ n \in 0 .. Len(s) - 1 /\ n - 1 \in 0 .. Len(s) - 1 /\ (n + 1) - 1 = n
        /\ (n - 1) + 1 = n
    BY <1>2, <1>5
  <2>2. f[n] = f[n - 1] + s[n].bytes /\ f[n + 1] = f[n] + s[n + 1].bytes
    BY <1>4, <2>1
  <2>3. s[n] \in T /\ s[n + 1] \in T
    BY <2>1
  <2>4. /\ s[n].bytes \in Nat /\ s[n + 1].bytes \in Nat
        /\ f[n - 1] \in Int /\ f[n] \in Int /\ f[n + 1] \in Int
    <3>1. n - 1 \in 0 .. Len(s) /\ n \in 0 .. Len(s) /\ n + 1 \in 0 .. Len(s)
      BY <1>5, <2>1
    <3> QED
      BY <1>4, <2>3, <3>1 DEF Sized
  <2>5. /\ g[n] = IF n < i THEN f[n] ELSE f[n + 1] - s[i].bytes
        /\ g[n - 1] = IF n - 1 < i THEN f[n - 1] ELSE f[n] - s[i].bytes
    BY <2>1
  <2>6. t[n] = IF n < i THEN s[n] ELSE s[n + 1]
    BY <1>2, <2>1
  <2> HIDE DEF g
  <2>7. CASE n < i
    BY <2>1, <2>2, <2>5, <2>6, <2>7
  <2>8. CASE n = i
    <3>1. g[n] = f[n + 1] - s[n].bytes /\ g[n - 1] = f[n - 1]
      BY <2>1, <2>5, <2>8
    <3>2. t[n].bytes = s[n + 1].bytes
      BY <2>6, <2>8
    <3>3. f[n + 1] - s[n].bytes = f[n - 1] + s[n + 1].bytes
      <4>1. PICK b \in Int : b = s[n].bytes
        BY <2>4
      <4>2. PICK d \in Int : d = s[n + 1].bytes
        BY <2>4
      <4>3. PICK a \in Int : a = f[n - 1]
        BY <2>4
      <4>4. f[n] = a + b /\ f[n + 1] = (a + b) + d
        BY <2>2, <4>1, <4>2, <4>3, Zenon
      <4>5. ((a + b) + d) - b = a + d
        OBVIOUS
      <4> QED
        BY <4>1, <4>2, <4>3, <4>4, <4>5, Zenon
    <3> QED
      BY <3>1, <3>2, <3>3
  <2>9. CASE n > i
    <3>1. g[n] = f[n + 1] - s[i].bytes /\ g[n - 1] = f[n] - s[i].bytes
      BY <2>1, <2>5, <2>9
    <3>2. t[n].bytes = s[n + 1].bytes
      BY <2>1, <2>6, <2>9
    <3>3. f[n + 1] - s[i].bytes = (f[n] - s[i].bytes) + s[n + 1].bytes
      <4>1. PICK a \in Int : a = f[n]
        BY <2>4
      <4>2. PICK b \in Int : b = s[n + 1].bytes
        BY <2>4
      <4>3. PICK d \in Int : d = s[i].bytes
        BY <1>5
      <4>4. f[n + 1] = a + b
        BY <2>2, <4>1, <4>2, Zenon
      <4>5. (a + b) - d = (a - d) + b
        OBVIOUS
      <4> QED
        BY <4>1, <4>2, <4>3, <4>4, <4>5, Zenon
    <3> QED
      BY <3>1, <3>2, <3>3, Zenon
  <2> QED
    BY <2>1, <2>7, <2>8, <2>9
<1>9. g[Len(t)] = f[Len(s)] - s[i].bytes
  <2>1. CASE i = Len(s)
    <3>1. f[i] = f[i - 1] + s[i].bytes /\ f[i - 1] \in Int
      BY <1>4, <1>5
    <3> QED
      BY <1>2, <1>5, <2>1, <3>1
  <2>2. CASE i # Len(s)
    BY <1>2, <1>5, <2>2
  <2> QED
    BY <2>1, <2>2
<1>10. Sums(t, g)
  BY <1>7, <1>8 DEF Sums
<1>11. TotalBytes(t) = g[Len(t)]
  <2> HIDE DEF g
  <2> QED
    BY <1>2, <1>10, TotalIs
<1> QED
  BY <1>1, <1>6, <1>9, <1>11
--------------------------------------------------------------------------------
(* Of entries with distinct keys the others are left.                       *)
LEMMA RemoveAtHolds ==
    ASSUME NEW T, Sized(T), NEW s \in Seq(T), DistinctKeys(s), NEW i \in 1 .. Len(s)
    PROVE  /\ DistinctKeys(RemoveAt(s, i))
           /\ \A e : e \in Elements(RemoveAt(s, i))
                    <=> e \in Elements(s) /\ e.key # s[i].key
<1>1. PICK t : t = RemoveAt(s, i)
  OBVIOUS
<1>2. /\ t \in Seq(T) /\ Len(t) = Len(s) - 1
      /\ \A k \in 1 .. Len(s) - 1 : t[k] = IF k < i THEN s[k] ELSE s[k + 1]
  BY <1>1, RemoveAtIs
<1>3. Len(s) \in Nat
  OBVIOUS
<1>4. ASSUME NEW k \in 1 .. Len(t)
      PROVE  \E m \in 1 .. Len(s) : m # i /\ t[k] = s[m] /\ m = IF k < i THEN k ELSE k + 1
  BY <1>2, <1>3
<1>5. ASSUME NEW m \in 1 .. Len(s), m # i
      PROVE  \E k \in 1 .. Len(t) : t[k] = s[m]
  <2>1. CASE m < i
    <3>1. m \in 1 .. Len(t) /\ m \in 1 .. Len(s) - 1
      BY <1>2, <1>3, <2>1
    <3> QED
      BY <1>2, <2>1, <3>1
  <2>2. CASE ~(m < i)
    <3>1. m - 1 \in 1 .. Len(s) - 1 /\ (m - 1) + 1 = m /\ ~(m - 1 < i)
      BY <1>3, <1>5, <2>2
    <3>2. t[m - 1] = s[m]
      BY <1>2, <3>1
    <3> QED
      BY <1>2, <3>1, <3>2
  <2> QED
    BY <2>1, <2>2
<1>6. DistinctKeys(t)
  <2> SUFFICES ASSUME NEW k \in 1 .. Len(t), NEW l \in 1 .. Len(t), t[k].key = t[l].key
               PROVE  k = l
    BY DEF DistinctKeys
  <2>1. PICK m \in 1 .. Len(s) : t[k] = s[m] /\ m = IF k < i THEN k ELSE k + 1
    BY <1>4
  <2>2. PICK n \in 1 .. Len(s) : t[l] = s[n] /\ n = IF l < i THEN l ELSE l + 1
    BY <1>4
  <2>3. m = n
    BY <2>1, <2>2 DEF DistinctKeys
  <2> QED
    BY <1>2, <1>3, <2>1, <2>2, <2>3
<1>7. ASSUME NEW e
      PROVE  (\E k \in 1 .. Len(t) : t[k] = e)
             <=> (\E k \in 1 .. Len(s) : s[k] = e) /\ e.key # s[i].key
  <2>1. ASSUME NEW k \in 1 .. Len(t), t[k] = e
        PROVE  (\E m \in 1 .. Len(s) : s[m] = e) /\ e.key # s[i].key
    <3>1. PICK m \in 1 .. Len(s) : m # i /\ t[k] = s[m]
      BY <1>4
    <3> QED
      BY <2>1, <3>1 DEF DistinctKeys
  <2>2. ASSUME NEW m \in 1 .. Len(s), s[m] = e, e.key # s[i].key
        PROVE  \E k \in 1 .. Len(t) : t[k] = e
    BY <1>5, <2>2
  <2> QED
    BY <2>1, <2>2
<1>8. ASSUME NEW e
      PROVE  e \in Elements(t) <=> e \in Elements(s) /\ e.key # s[i].key
  BY <1>7 DEF Elements
<1> QED
  BY <1>1, <1>6, <1>8

(* The entry of a key that is there.                                        *)
LEMMA EntryIs ==
    ASSUME NEW c, Accounted(c), NEW key \in Keys(c)
    PROVE  /\ Place(c, key) \in 1 .. Len(c.entries)
           /\ Entry(c, key) = c.entries[Place(c, key)]
           /\ Entry(c, key).key = key
           /\ \A e \in Held(c) : e.key = key => e = Entry(c, key)
<1>0. c.entries \in Seq(CacheEntries) /\ DOMAIN c.entries = 1 .. Len(c.entries)
  BY DEF Accounted, StoredCaches
<1>1. PICK i \in 1 .. Len(c.entries) : c.entries[i].key = key
  BY <1>0 DEF Keys
<1>2. Place(c, key) \in 1 .. Len(c.entries) /\ c.entries[Place(c, key)].key = key
  BY <1>0, <1>1 DEF Place
<1>3. ASSUME NEW e \in Held(c), e.key = key PROVE e = c.entries[Place(c, key)]
  <2>1. PICK j \in 1 .. Len(c.entries) : c.entries[j] = e
    BY DEF Held, Elements
  <2> QED
    BY <1>2, <1>3, <2>1 DEF Accounted, DistinctKeys
<1> QED
  BY <1>2, <1>3 DEF Entry

(* The keys are those of the entries held.                                  *)
LEMMA KeysAreHeld ==
    ASSUME NEW c, Accounted(c)
    PROVE  \A key : key \in Keys(c) <=> \E e \in Held(c) : e.key = key
<1>1. DOMAIN c.entries = 1 .. Len(c.entries)
  BY DEF Accounted, StoredCaches
<1> QED
  BY <1>1 DEF Keys, Held, Elements

(* Delete drops the entry of the key, and only that.                        *)
LEMMA DeleteDrops ==
    ASSUME NEW c, Accounted(c), NEW key
    PROVE  /\ Accounted(Delete(c, key))
           /\ \A e : e \in Held(Delete(c, key)) <=> e \in Held(c) /\ e.key # key
           /\ Len(Delete(c, key).entries) =
                IF key \in Keys(c) THEN Len(c.entries) - 1 ELSE Len(c.entries)
           /\ Delete(c, key).bytes <= c.bytes
<1>0. /\ c \in StoredCaches /\ c.entries \in Seq(CacheEntries) /\ c.bytes \in Int
      /\ c.bytes = TotalBytes(c.entries) /\ DistinctKeys(c.entries)
  BY DEF Accounted, StoredCaches
<1>1. CASE key \notin Keys(c)
  <2>1. Delete(c, key) = c
    BY <1>1 DEF Delete
  <2>2. \A e \in Held(c) : e.key # key
    BY <1>1, KeysAreHeld
  <2> QED
    BY <1>0, <1>1, <2>1, <2>2
<1>2. CASE key \in Keys(c)
  <2>1. PICK i \in 1 .. Len(c.entries) : i = Place(c, key) /\ c.entries[i].key = key
        /\ Entry(c, key) = c.entries[i]
    BY <1>2, EntryIs
  <2>2. PICK t : t = RemoveAt(c.entries, i)
    OBVIOUS
  <2>3. Delete(c, key) = [entries |-> t, bytes |-> c.bytes - c.entries[i].bytes]
    BY <1>2, <2>1, <2>2 DEF Delete, Without
  <2>4. t \in Seq(CacheEntries) /\ Len(t) = Len(c.entries) - 1
    BY <1>0, <2>2, CacheEntriesSized, RemoveAtIs
  <2>5. TotalBytes(t) = TotalBytes(c.entries) - c.entries[i].bytes
    BY <1>0, <2>2, CacheEntriesSized, TotalRemoveAt
  <2>6. /\ DistinctKeys(t)
        /\ \A e : e \in Elements(t)
                 <=> e \in Elements(c.entries) /\ e.key # c.entries[i].key
    BY <1>0, <2>2, CacheEntriesSized, RemoveAtHolds
  <2>7. c.entries[i].bytes \in Nat
    <3>1. c.entries[i] \in CacheEntries
      BY <1>0
    <3> QED
      BY <3>1 DEF CacheEntries
  <2>8. Accounted(Delete(c, key))
    BY <1>0, <2>3, <2>4, <2>5, <2>6, <2>7 DEF Accounted, StoredCaches
  <2>9. \A e : e \in Held(Delete(c, key)) <=> e \in Held(c) /\ e.key # key
    <3>1. Delete(c, key).entries = t
      BY <2>3
    <3> QED
      BY <2>1, <2>6, <3>1 DEF Held
  <2>10. Delete(c, key).bytes <= c.bytes
    BY <1>0, <2>3, <2>7
  <2> QED
    BY <1>2, <2>3, <2>4, <2>8, <2>9, <2>10
<1> QED
  BY <1>1, <1>2

(* Delete is a function on the caches, whatever they count.                 *)
LEMMA DeleteType ==
    ASSUME NEW c \in StoredCaches, NEW key
    PROVE  Delete(c, key) \in StoredCaches
<1>0. c.entries \in Seq(CacheEntries) /\ c.bytes \in Int
  BY DEF StoredCaches
<1>1. CASE key \in Keys(c)
  <2>1. PICK i \in DOMAIN c.entries : c.entries[i].key = key
    BY <1>1 DEF Keys
  <2>2. Place(c, key) \in DOMAIN c.entries
    BY <2>1 DEF Place
  <2>3. Place(c, key) \in 1 .. Len(c.entries)
    BY <1>0, <2>2
  <2>4. Entry(c, key) \in CacheEntries
    BY <1>0, <2>2 DEF Entry
  <2>5. Without(c, key) \in Seq(CacheEntries)
    BY <1>0, <2>3, CacheEntriesSized, RemoveAtIs DEF Without
  <2>6. Entry(c, key).bytes \in Nat
    BY <2>4 DEF CacheEntries
  <2>7. Delete(c, key) = [entries |-> Without(c, key), bytes |-> c.bytes - Entry(c, key).bytes]
    BY <1>1 DEF Delete
  <2> QED
    BY <1>0, <2>5, <2>6, <2>7 DEF StoredCaches
<1> QED
  BY <1>1 DEF Delete

(* The deletion by a predicate drops the entries of the path, one by one.   *)
LEMMA InvalidateDrops ==
    ASSUME NEW c, Accounted(c), NEW path
    PROVE  /\ Accounted(InvalidatePath(c, path))
           /\ InvalidatePath(c, path).bytes <= c.bytes
           /\ \A e : e \in Held(InvalidatePath(c, path))
                    <=> e \in Held(c) /\ e.value.path # path
<1> DEFINE N == Len(c.entries)
           E(n) == c.entries[n]
           Of == {value \in Values(c) : value.path = path}
           Out(n) == E(n).value \in Of
           IsRun(g) ==
             g = [n \in 0 .. N |->
                    IF n = 0 THEN c
                    ELSE IF Out(n) THEN Delete(g[n - 1], E(n).key) ELSE g[n - 1]]
           pass == [n \in 1 .. N |-> [x \in StoredCaches |->
                       IF Out(n) THEN Delete(x, E(n).key) ELSE x]]
<1>0. /\ c \in StoredCaches /\ c.entries \in Seq(CacheEntries) /\ N \in Nat
      /\ c.bytes \in Int /\ DistinctKeys(c.entries)
  BY DEF Accounted, StoredCaches
<1>1. InvalidatePath(c, path) = (CHOOSE g : IsRun(g))[N]
  BY Zenon DEF InvalidatePath, DeleteWhere
<1>1a. \A n \in 1 .. N : Out(n) <=> E(n).value.path = path
  BY <1>0 DEF Values
<1>2. pass \in [1 .. N -> [StoredCaches -> StoredCaches]]
  BY DeleteType
<1>3. PICK f \in [0 .. N -> StoredCaches] : Runs(f, N, c, pass)
  <2> HIDE DEF pass, N
  <2> QED
    BY <1>0, <1>2, LoopRuns
<1>4. IsRun(f)
  <2>1. ASSUME NEW n \in 0 .. N
        PROVE  f[n] = IF n = 0 THEN c
                      ELSE IF Out(n) THEN Delete(f[n - 1], E(n).key) ELSE f[n - 1]
    <3> HIDE DEF Out, E
    <3>1. CASE n = 0
      BY <1>3, <3>1 DEF Runs
    <3>2. CASE n # 0
      <4>1. n \in 1 .. N /\ n - 1 \in 0 .. N
        BY <1>0, <3>2
      <4>2. f[n - 1] \in StoredCaches
        BY <4>1
      <4>3. f[n] = pass[n][f[n - 1]]
        BY <1>3, <4>1 DEF Runs
      <4> QED
        BY <3>2, <4>1, <4>2, <4>3
    <3> QED
      BY <3>1, <3>2
  <2> HIDE DEF Out, E, N
  <2> QED
    BY <2>1
<1>5. PICK g : g = (CHOOSE h : IsRun(h)) /\ IsRun(g)
  <2> HIDE DEF IsRun
  <2> QED
    BY <1>4, Zenon
<1>6. \A n \in 0 .. N : g[n] = IF n = 0 THEN c
                      ELSE IF Out(n) THEN Delete(g[n - 1], E(n).key) ELSE g[n - 1]
  <2>1. g = [n \in 0 .. N |->
                    IF n = 0 THEN c
                    ELSE IF Out(n) THEN Delete(g[n - 1], E(n).key) ELSE g[n - 1]]
    BY <1>5, Zenon
  <2> HIDE DEF IsRun, Out, E, N
  <2> QED
    BY <2>1, Zenon
<1> HIDE DEF IsRun, pass
<1> DEFINE Left(n) == \A e : e \in Held(g[n]) <=>
                         \E m \in 1 .. N : e = E(m) /\ (m > n \/ ~Out(m))
           Kept(n) == Accounted(g[n]) /\ g[n].bytes <= c.bytes /\ Left(n)
           S == {n \in Nat : n <= N => Kept(n)}
<1>7. 0 \in S
  <2>1. g[0] = c
    BY <1>0, <1>6
  <2>2. Left(0)
    BY <1>0, <2>1 DEF Held, Elements
  <2> QED
    BY <1>0, <2>1, <2>2
<1>8. ASSUME NEW n \in S \cap Nat PROVE n + 1 \in S
  <2> SUFFICES ASSUME n + 1 <= N PROVE Kept(n + 1)
    OBVIOUS
  <2>0. n + 1 \in 0 .. N /\ n + 1 \in 1 .. N /\ n + 1 # 0 /\ (n + 1) - 1 = n /\ n <= N
    BY <1>0
  <2>1. Accounted(g[n]) /\ g[n].bytes <= c.bytes /\ Left(n)
    BY <2>0
  <2>2. g[n + 1] = IF Out(n + 1) THEN Delete(g[n], E(n + 1).key) ELSE g[n]
    <3> HIDE DEF Out, E, N
    <3> QED
      BY <1>6, <2>0
  <2>3. \A m \in 1 .. N : E(m).key = E(n + 1).key => m = n + 1
    BY <1>0, <2>0 DEF DistinctKeys
  <2> HIDE DEF E, N, Kept, S
  <2>4. CASE Out(n + 1)
    <3>1. g[n + 1] = Delete(g[n], E(n + 1).key)
      BY <2>2, <2>4
    <3>2. Accounted(g[n + 1]) /\ g[n + 1].bytes <= g[n].bytes
          /\ \A e : e \in Held(g[n + 1]) <=> e \in Held(g[n]) /\ e.key # E(n + 1).key
      BY <2>1, <3>1, DeleteDrops
    <3>3. g[n + 1].bytes \in Int /\ g[n].bytes \in Int
      BY <2>1, <3>2 DEF Accounted, StoredCaches
    <3>4. Left(n + 1)
      <4> SUFFICES ASSUME NEW e
                   PROVE  e \in Held(g[n + 1]) <=>
                            \E m \in 1 .. N : e = E(m) /\ (m > n + 1 \/ ~Out(m))
        OBVIOUS
      <4>1. ASSUME e \in Held(g[n + 1])
            PROVE  \E m \in 1 .. N : e = E(m) /\ (m > n + 1 \/ ~Out(m))
        <5>1. e \in Held(g[n]) /\ e.key # E(n + 1).key
          BY <3>2, <4>1
        <5>2. PICK m \in 1 .. N : e = E(m) /\ (m > n \/ ~Out(m))
          BY <2>1, <5>1
        <5>3. m # n + 1
          BY <5>1, <5>2
        <5> QED
          BY <1>0, <5>2, <5>3
      <4>2. ASSUME NEW m \in 1 .. N, e = E(m), m > n + 1 \/ ~Out(m)
            PROVE  e \in Held(g[n + 1])
        <5>1. m # n + 1
          BY <2>4, <4>2
        <5>2. e.key # E(n + 1).key
          BY <2>3, <4>2, <5>1
        <5>3. m > n \/ ~Out(m)
          BY <1>0, <4>2
        <5>4. e \in Held(g[n])
          BY <2>1, <4>2, <5>3
        <5> QED
          BY <3>2, <5>2, <5>4
      <4> QED
        BY <4>1, <4>2
    <3> QED
      BY <1>0, <2>1, <3>2, <3>3, <3>4 DEF Kept
  <2>5. CASE ~Out(n + 1)
    <3>1. g[n + 1] = g[n]
      BY <2>2, <2>5
    <3>2. \A m \in 1 .. N : (m > n \/ ~Out(m)) <=> (m > n + 1 \/ ~Out(m))
      BY <1>0, <2>5
    <3>3. Left(n + 1)
      BY <2>1, <3>1, <3>2
    <3> QED
      BY <2>1, <3>1, <3>3 DEF Kept
  <2> QED
    BY <2>4, <2>5
<1>9. Kept(N)
  <2>1. N \in S
    <3> HIDE DEF S, N
    <3> QED
      BY <1>0, <1>7, <1>8, Induction
  <2> HIDE DEF Kept
  <2> QED
    BY <1>0, <2>1
<1>10. ASSUME NEW e
       PROVE  e \in Held(g[N]) <=> e \in Held(c) /\ e.value.path # path
  <2>1. e \in Held(g[N]) <=> \E m \in 1 .. N : e = E(m) /\ ~Out(m)
    BY <1>0, <1>9
  <2> HIDE DEF Out
  <2> QED
    BY <1>1a, <2>1 DEF Held, Elements
<1> HIDE DEF E, N, Out
<1> QED
  BY <1>1, <1>5, <1>9, <1>10

(* A cache that is not empty has an entry to evict, of the lowest priority. *)
LEMMA EvictKeyIs ==
    ASSUME NEW s \in Seq(CacheEntries), Len(s) # 0
    PROVE  \E e \in Elements(s) : /\ e.key = EvictKey(s)
                                 /\ \A k \in Elements(s) : e.priority <= k.priority
<1> DEFINE Before(i, j) == \/ s[i].priority < s[j].priority
                           \/ s[i].priority = s[j].priority /\ i <= j
           IsFirst(i) == \A j \in DOMAIN s : Before(i, j)
           P == {s[i].priority : i \in 1 .. Len(s)}
<1>0. DOMAIN s = 1 .. Len(s) /\ Len(s) \in Nat /\ 1 \in 1 .. Len(s)
  OBVIOUS
<1>1. \A i \in 1 .. Len(s) : s[i].priority \in Nat
  <2>1. \A i \in 1 .. Len(s) : s[i] \in CacheEntries
    OBVIOUS
  <2> QED
    BY <2>1 DEF CacheEntries
<1>2. P \in SUBSET Nat /\ P # {}
  BY <1>0, <1>1
<1>3. PICK p \in P : \A q \in P : p <= q
  <2> HIDE DEF P
  <2> QED
    BY <1>2, LeastElement
<1> DEFINE I == {i \in 1 .. Len(s) : s[i].priority = p}
<1>4. I \in SUBSET Nat /\ I # {}
  BY <1>3
<1>5. PICK i \in I : \A j \in I : i <= j
  <2> HIDE DEF I
  <2> QED
    BY <1>4, LeastElement
<1>6. ASSUME NEW j \in 1 .. Len(s) PROVE Before(i, j)
  <2>1. s[i].priority = p /\ s[j].priority \in P /\ p <= s[j].priority
    BY <1>3, <1>5
  <2>2. s[i].priority \in Nat /\ s[j].priority \in Nat
    BY <1>1, <1>5
  <2>3. CASE s[j].priority = p
    <3>1. i <= j
      BY <1>5, <2>3
    <3> QED
      BY <2>1, <2>3, <3>1
  <2>4. CASE s[j].priority # p
    BY <2>1, <2>2, <2>4
  <2> QED
    BY <2>3, <2>4
<1>7. i \in DOMAIN s /\ IsFirst(i)
  BY <1>0, <1>5, <1>6
<1>8. PICK first \in DOMAIN s : IsFirst(first) /\ EvictKey(s) = s[first].key
  <2>1. EvictKey(s) = s[CHOOSE k \in DOMAIN s : IsFirst(k)].key
    BY Zenon DEF EvictKey
  <2> HIDE DEF IsFirst
  <2> QED
    BY <1>7, <2>1
<1>9. s[first] \in Elements(s) /\ s[first].key = EvictKey(s)
  BY <1>0, <1>8 DEF Elements
<1>10. ASSUME NEW k \in Elements(s) PROVE s[first].priority <= k.priority
  <2>1. PICK j \in 1 .. Len(s) : s[j] = k
    BY DEF Elements
  <2>2. Before(first, j)
    BY <1>0, <1>8
  <2>3. s[first].priority \in Nat /\ s[j].priority \in Nat
    BY <1>0, <1>1
  <2> QED
    BY <2>1, <2>2, <2>3
<1> QED
  BY <1>9, <1>10

(* Eviction stops within the budget; what is gone was no more wanted than   *)
(* what is left.                                                            *)
LEMMA EvictFits ==
    ASSUME NEW c, Accounted(c)
    PROVE  /\ Accounted(Evict(c))
           /\ Evict(c).bytes <= MaxBytes
           /\ \A e \in Held(Evict(c)) : e \in Held(c)
           /\ \A e \in Held(c) : e \notin Held(Evict(c)) =>
                 \A k \in Held(Evict(c)) : e.priority <= k.priority
<1> DEFINE N == Len(c.entries)
           Next1(x) == IF x.bytes > MaxBytes THEN Delete(x, EvictKey(x.entries)) ELSE x
           IsRun(g) ==
             g = [n \in 0 .. N |->
                    IF n = 0 THEN c
                    ELSE IF g[n - 1].bytes > MaxBytes
                         THEN Delete(g[n - 1], EvictKey(g[n - 1].entries))
                         ELSE g[n - 1]]
           pass == [n \in 1 .. N |-> [x \in StoredCaches |-> Next1(x)]]
<1>0. /\ c \in StoredCaches /\ c.entries \in Seq(CacheEntries) /\ N \in Nat
      /\ MaxBytes \in Nat
  BY CacheAssumption DEF Accounted, StoredCaches
<1>1. Evict(c) = (CHOOSE g : IsRun(g))[N]
  BY Zenon DEF Evict
<1>2. pass \in [1 .. N -> [StoredCaches -> StoredCaches]]
  BY DeleteType
<1>3. PICK f \in [0 .. N -> StoredCaches] : Runs(f, N, c, pass)
  <2> HIDE DEF pass, N
  <2> QED
    BY <1>0, <1>2, LoopRuns
<1>4. IsRun(f)
  <2>1. ASSUME NEW n \in 0 .. N
        PROVE  f[n] = IF n = 0 THEN c ELSE Next1(f[n - 1])
    <3> HIDE DEF Next1
    <3>1. CASE n = 0
      BY <1>3, <3>1 DEF Runs
    <3>2. CASE n # 0
      <4>1. n \in 1 .. N /\ n - 1 \in 0 .. N
        BY <1>0, <3>2
      <4>2. f[n - 1] \in StoredCaches
        BY <4>1
      <4>3. f[n] = pass[n][f[n - 1]]
        BY <1>3, <4>1 DEF Runs
      <4> QED
        BY <3>2, <4>1, <4>2, <4>3
    <3> QED
      BY <3>1, <3>2
  <2> HIDE DEF N
  <2> QED
    BY <2>1
<1>5. PICK g : g = (CHOOSE h : IsRun(h)) /\ IsRun(g)
  <2> HIDE DEF IsRun
  <2> QED
    BY <1>4, Zenon
<1>6. \A n \in 0 .. N : g[n] = IF n = 0 THEN c ELSE Next1(g[n - 1])
  <2>1. g = [n \in 0 .. N |-> IF n = 0 THEN c ELSE Next1(g[n - 1])]
    BY <1>5, Zenon
  <2> HIDE DEF IsRun, Next1, N
  <2> QED
    BY <2>1, Zenon
<1> HIDE DEF IsRun, pass
<1> DEFINE Fewer(n) == g[n].bytes <= MaxBytes \/ Len(g[n].entries) = N - n
           Within(n) == \A e \in Held(g[n]) : e \in Held(c)
           Lowest(n) == \A e \in Held(c) : e \notin Held(g[n]) =>
                           \A k \in Held(g[n]) : e.priority <= k.priority
           Kept(n) == Accounted(g[n]) /\ Fewer(n) /\ Within(n) /\ Lowest(n)
           S == {n \in Nat : n <= N => Kept(n)}
<1>7. 0 \in S
  <2>1. g[0] = c
    BY <1>0, <1>6
  <2> QED
    BY <1>0, <2>1
<1>8. ASSUME NEW n \in S \cap Nat PROVE n + 1 \in S
  <2> SUFFICES ASSUME n + 1 <= N PROVE Kept(n + 1)
    OBVIOUS
  <2>0. n + 1 \in 0 .. N /\ n + 1 # 0 /\ (n + 1) - 1 = n /\ n <= N
    BY <1>0
  <2>1. Accounted(g[n]) /\ Fewer(n) /\ Within(n) /\ Lowest(n)
    BY <2>0
  <2>2. g[n + 1] = Next1(g[n])
    <3> HIDE DEF Next1, N
    <3> QED
      BY <1>6, <2>0
  <2>3. g[n] \in StoredCaches /\ g[n].entries \in Seq(CacheEntries) /\ g[n].bytes \in Int
    BY <2>1 DEF Accounted, StoredCaches
  <2>4. CASE ~(g[n].bytes > MaxBytes)
    <3>1. g[n + 1] = g[n] /\ g[n].bytes <= MaxBytes
      BY <1>0, <2>2, <2>3, <2>4
    <3> QED
      BY <2>1, <3>1
  <2>5. CASE g[n].bytes > MaxBytes
    <3>1. g[n + 1] = Delete(g[n], EvictKey(g[n].entries))
      BY <2>2, <2>5
    <3>2. Len(g[n].entries) = N - n /\ Len(g[n].entries) # 0
      BY <1>0, <2>0, <2>1, <2>3, <2>5
    <3>3. PICK low \in Held(g[n]) :
            low.key = EvictKey(g[n].entries) /\ \A k \in Held(g[n]) : low.priority <= k.priority
      BY <2>3, <3>2, EvictKeyIs DEF Held
    <3>4. EvictKey(g[n].entries) \in Keys(g[n])
      BY <2>1, <3>3, KeysAreHeld
    <3>5. /\ Accounted(g[n + 1]) /\ Len(g[n + 1].entries) = Len(g[n].entries) - 1
          /\ \A e : e \in Held(g[n + 1]) <=> e \in Held(g[n]) /\ e.key # low.key
      BY <2>1, <3>1, <3>3, <3>4, DeleteDrops
    <3>6. ASSUME NEW e \in Held(g[n]), e.key = low.key PROVE e = low
      BY <2>1, <3>3, <3>4, <3>6, EntryIs
    <3>7. Fewer(n + 1)
      BY <1>0, <2>0, <3>2, <3>5
    <3>8. Within(n + 1)
      BY <2>1, <3>5
    <3>9. Lowest(n + 1)
      <4> SUFFICES ASSUME NEW e \in Held(c), e \notin Held(g[n + 1]),
                          NEW k \in Held(g[n + 1])
                   PROVE  e.priority <= k.priority
        OBVIOUS
      <4>1. k \in Held(g[n])
        BY <3>5
      <4>2. CASE e \in Held(g[n])
        <5>1. e = low
          BY <3>5, <3>6, <4>2
        <5> QED
          BY <3>3, <4>1, <5>1
      <4>3. CASE e \notin Held(g[n])
        BY <2>1, <4>1, <4>3
      <4> QED
        BY <4>2, <4>3
    <3> QED
      BY <3>5, <3>7, <3>8, <3>9
  <2> QED
    BY <2>4, <2>5
<1>9. Kept(N)
  <2>1. N \in S
    <3> HIDE DEF S, N
    <3> QED
      BY <1>0, <1>7, <1>8, Induction
  <2> HIDE DEF Kept
  <2> QED
    BY <1>0, <2>1
<1>10. g[N].bytes <= MaxBytes
  <2>1. CASE Len(g[N].entries) = 0
    <3>1. g[N].entries \in Seq(CacheEntries) /\ g[N].bytes = TotalBytes(g[N].entries)
      BY <1>9 DEF Accounted, StoredCaches
    <3> QED
      BY <1>0, <2>1, <3>1, CacheEntriesSized, EmptyTotal
  <2> QED
    BY <1>0, <1>9, <2>1
<1> QED
  BY <1>1, <1>5, <1>9, <1>10

(* An entry of a new key is added at the end.                               *)
LEMMA AppendHolds ==
    ASSUME NEW T, NEW s \in Seq(T), DistinctKeys(s),
           NEW e \in T, \A k \in Elements(s) : k.key # e.key
    PROVE  /\ Append(s, e) \in Seq(T)
           /\ DistinctKeys(Append(s, e))
           /\ \A k : k \in Elements(Append(s, e)) <=> k \in Elements(s) \/ k = e
<1>1. PICK t : t = Append(s, e)
  OBVIOUS
<1>2. /\ t \in Seq(T) /\ Len(s) \in Nat /\ Len(t) = Len(s) + 1
      /\ t[Len(s) + 1] = e /\ \A i \in 1 .. Len(s) : t[i] = s[i]
  BY <1>1
<1>3. DistinctKeys(t)
  <2> SUFFICES ASSUME NEW i \in 1 .. Len(t), NEW j \in 1 .. Len(t), t[i].key = t[j].key
               PROVE  i = j
    BY DEF DistinctKeys
  <2>1. ASSUME NEW k \in 1 .. Len(s) PROVE t[k].key # e.key
    BY <1>2 DEF Elements
  <2>2. CASE i \in 1 .. Len(s) /\ j \in 1 .. Len(s)
    BY <1>2, <2>2 DEF DistinctKeys
  <2>3. CASE i \notin 1 .. Len(s)
    <3>1. i = Len(s) + 1
      BY <1>2, <2>3
    <3> QED
      BY <1>2, <2>1, <3>1
  <2>4. CASE j \notin 1 .. Len(s)
    <3>1. j = Len(s) + 1
      BY <1>2, <2>4
    <3> QED
      BY <1>2, <2>1, <3>1
  <2> QED
    BY <2>2, <2>3, <2>4
<1>4. ASSUME NEW k PROVE k \in Elements(t) <=> k \in Elements(s) \/ k = e
  <2>1. \A i : i \in 1 .. Len(t) <=> i \in 1 .. Len(s) \/ i = Len(s) + 1
    BY <1>2
  <2> QED
    BY <1>2, <2>1 DEF Elements
<1> QED
  BY <1>1, <1>2, <1>3, <1>4

(* A look-up moves an entry, or drops one.                                  *)
LEMMA AfterGetKeeps ==
    ASSUME NEW c, Accounted(c), NEW key, NEW time
    PROVE  /\ Accounted(AfterGet(c, key, time))
           /\ AfterGet(c, key, time).bytes <= c.bytes
           /\ \A e \in Held(AfterGet(c, key, time)) : e \in Held(c)
<1>0. /\ c \in StoredCaches /\ c.entries \in Seq(CacheEntries) /\ c.bytes \in Int
      /\ c.bytes = TotalBytes(c.entries) /\ DistinctKeys(c.entries)
  BY DEF Accounted, StoredCaches
<1>1. CASE Hits(c, key, time)
  <2>1. PICK i \in 1 .. Len(c.entries) :
          i = Place(c, key) /\ Entry(c, key) = c.entries[i]
    BY <1>1, EntryIs DEF Hits
  <2>2. PICK t, e : t = RemoveAt(c.entries, i) /\ e = c.entries[i]
    OBVIOUS
  <2>3. AfterGet(c, key, time) = [entries |-> Append(t, e), bytes |-> c.bytes]
    BY <1>0, <1>1, <2>1, <2>2 DEF AfterGet, Without, StoredCaches
  <2>4. /\ t \in Seq(CacheEntries) /\ DistinctKeys(t)
        /\ \A k : k \in Elements(t) <=> k \in Elements(c.entries) /\ k.key # e.key
        /\ e \in CacheEntries /\ e \in Elements(c.entries)
    <3>1. t \in Seq(CacheEntries)
      BY <1>0, <2>2, CacheEntriesSized, RemoveAtIs
    <3>2. /\ DistinctKeys(t)
          /\ \A k : k \in Elements(t) <=> k \in Elements(c.entries) /\ k.key # e.key
      BY <1>0, <2>2, CacheEntriesSized, RemoveAtHolds
    <3>3. e \in CacheEntries /\ e \in Elements(c.entries)
      BY <1>0, <2>2 DEF Elements
    <3> QED
      BY <3>1, <3>2, <3>3
  <2>5. /\ Append(t, e) \in Seq(CacheEntries) /\ DistinctKeys(Append(t, e))
        /\ \A k : k \in Elements(Append(t, e)) <=> k \in Elements(t) \/ k = e
    BY <2>4, AppendHolds
  <2>6. TotalBytes(Append(t, e)) = TotalBytes(c.entries)
    <3>1. TotalBytes(t) = TotalBytes(c.entries) - e.bytes
      BY <1>0, <2>2, CacheEntriesSized, TotalRemoveAt
    <3>2. TotalBytes(Append(t, e)) = TotalBytes(t) + e.bytes
      BY <2>4, CacheEntriesSized, TotalAppend
    <3>3. e.bytes \in Nat
      BY <2>4 DEF CacheEntries
    <3> QED
      BY <1>0, <3>1, <3>2, <3>3
  <2>7. Accounted(AfterGet(c, key, time))
    BY <1>0, <2>3, <2>5, <2>6 DEF Accounted, StoredCaches
  <2> QED
    BY <1>0, <2>3, <2>4, <2>5, <2>7 DEF Held
<1>2. CASE ~Hits(c, key, time)
  BY <1>2, DeleteDrops DEF AfterGet
<1> QED
  BY <1>1, <1>2

(* An admitted entry leaves the count within the budget, and displaces only *)
(* entries no more wanted than those that stay.                             *)
LEMMA SetFits ==
    ASSUME NEW c, Accounted(c), c.bytes <= MaxBytes,
           NEW key \in Kinds \X Paths, NEW value \in [path : Paths, value : Contents],
           NEW bytes \in Nat, NEW priority \in Nat, NEW time \in Nat
    PROVE  LET d == Set(c, key, value, bytes, priority, time)
           IN  /\ Accounted(d)
               /\ d.bytes <= MaxBytes
               /\ \A e \in Held(d) : e \in Held(c) \/ e.value = value
               /\ \A e \in Held(c) : e \notin Held(d) /\ e.key # key =>
                     \A k \in Held(d) : e.priority <= k.priority
<1> DEFINE d == Set(c, key, value, bytes, priority, time)
<1>1. CASE bytes > MaxBytes
  BY <1>1 DEF Set
<1>2. CASE ~(bytes > MaxBytes)
  <2>1. PICK rest : rest = Delete(c, key)
    OBVIOUS
  <2>2. Accounted(rest) /\ \A e : e \in Held(rest) <=> e \in Held(c) /\ e.key # key
    BY <2>1, DeleteDrops
  <2>3. /\ rest.entries \in Seq(CacheEntries) /\ rest.bytes \in Int
        /\ rest.bytes = TotalBytes(rest.entries) /\ DistinctKeys(rest.entries)
    BY <2>2 DEF Accounted, StoredCaches
  <2>4. PICK new : new = [key |-> key, value |-> value, bytes |-> bytes,
                          priority |-> priority,
                          expires |-> IF Ttl = Forever THEN Forever ELSE time + Ttl]
    OBVIOUS
  <2>5. new \in CacheEntries
    BY <2>4, CacheAssumption DEF CacheEntries
  <2>6. PICK in : in = Insert(rest, key, value, bytes, priority, time)
    OBVIOUS
  <2>7. in = [entries |-> Append(rest.entries, new), bytes |-> rest.bytes + bytes]
    BY <2>4, <2>6 DEF Insert
  <2>8. \A k \in Elements(rest.entries) : k.key # new.key
    BY <2>2, <2>4 DEF Held
  <2>9. /\ Append(rest.entries, new) \in Seq(CacheEntries)
        /\ DistinctKeys(Append(rest.entries, new))
        /\ \A k : k \in Elements(Append(rest.entries, new))
                 <=> k \in Elements(rest.entries) \/ k = new
    BY <2>3, <2>5, <2>8, AppendHolds
  <2>10. TotalBytes(Append(rest.entries, new)) = rest.bytes + bytes
    BY <2>3, <2>4, <2>5, CacheEntriesSized, TotalAppend
  <2>11. Accounted(in)
    BY <2>3, <2>7, <2>9, <2>10 DEF Accounted, StoredCaches
  <2>12. \A k : k \in Held(in) <=> k \in Held(rest) \/ k = new
    BY <2>7, <2>9 DEF Held
  <2>13. d = Evict(in)
    BY <1>2, <2>1, <2>6 DEF Set
  <2>14. /\ Accounted(d) /\ d.bytes <= MaxBytes
         /\ \A e \in Held(d) : e \in Held(in)
         /\ \A e \in Held(in) : e \notin Held(d) =>
               \A k \in Held(d) : e.priority <= k.priority
    BY <2>11, <2>13, EvictFits
  <2>15. new.value = value
    BY <2>4
  <2> HIDE DEF d
  <2>16. \A e \in Held(d) : e \in Held(c) \/ e.value = value
    BY <2>2, <2>12, <2>14, <2>15
  <2>17. \A e \in Held(c) : e \notin Held(d) /\ e.key # key =>
            \A k \in Held(d) : e.priority <= k.priority
    BY <2>2, <2>12, <2>14
  <2> QED
    BY <2>14, <2>16, <2>17 DEF d
<1> QED
  BY <1>1, <1>2
--------------------------------------------------------------------------------
Typing ==
    /\ content \in [Paths -> Contents]
    /\ now \in Nat
    /\ DOMAIN call = Callers
    /\ \A c \in Callers : call[c] # None => call[c] \in Calls

Budgeted == Accounted(cache) /\ cache.bytes <= MaxBytes

(* An answer on its way is the content, unless a write overtook it.         *)
Answered(c) == call[c] # None /\ call[c].op = "read" /\ call[c].step = "answered"

AnswersCurrent ==
    \A c \in Callers : Answered(c) =>
       /\ call[c].value \in Contents
       /\ call[c].path \notin overlapped => call[c].value = content[call[c].path]

(* An entry is the content, unless a write of its path has yet to return.   *)
EntriesCurrent ==
    \A e \in Held(cache) :
       e.value.path \notin overlapped /\ ~WriteApplied(e.value.path) =>
          e.value.value = content[e.value.path]

Safe == Typing /\ Budgeted /\ AnswersCurrent /\ EntriesCurrent

(* An empty cache counts nothing and no call is under way.                  *)
LEMMA SafeInit == Init => Safe
<1> SUFFICES ASSUME Init PROVE Safe
  OBVIOUS
<1> USE DEF Init
<1>1. cache.entries = <<>> /\ cache.bytes = 0 /\ cache \in StoredCaches
  BY DEF EmptyCache, StoredCaches
<1>2. TotalBytes(cache.entries) = 0
  <2>1. cache.entries \in Seq(CacheEntries) /\ Len(cache.entries) = 0
    BY <1>1
  <2> QED
    BY <2>1, CacheEntriesSized, EmptyTotal
<1>3. Budgeted
  BY <1>1, <1>2, CacheAssumption DEF Budgeted, Accounted, DistinctKeys
<1>4. Typing
  BY DEF Typing, Contents
<1>5. EntriesCurrent
  BY <1>1 DEF EntriesCurrent, Held, Elements
<1>6. AnswersCurrent
  BY DEF AnswersCurrent, Answered
<1> QED
  BY <1>3, <1>4, <1>5, <1>6 DEF Safe

(* A step replaces the call of one caller.                                  *)
LEMMA CallStep ==
    ASSUME Typing, NEW c \in Callers, NEW v,
           call' = [call EXCEPT ![c] = v], v = None \/ v \in Calls
    PROVE  /\ DOMAIN call' = Callers /\ call'[c] = v
           /\ \A d \in Callers : d # c => call'[d] = call[d]
           /\ \A d \in Callers : call'[d] # None => call'[d] \in Calls
  BY DEF Typing

(* Entries are not added, no write takes effect, and none that has is       *)
(* forgotten.                                                               *)
LEMMA EntriesStay ==
    ASSUME EntriesCurrent, content' = content, overlapped \subseteq overlapped',
           \A path : WriteApplied(path) => WriteApplied(path)' \/ path \in overlapped',
           \A e \in Held(cache') : e \in Held(cache)
    PROVE  EntriesCurrent'
  BY DEF EntriesCurrent

(* What the look-up of a read leaves.                                       *)
LEMMA ReadHitStep ==
    ASSUME Safe, NEW c \in Callers, ReadHit(c)
    PROVE  Safe'
<1> USE DEF Safe
<1>1. PICK key : cache' = AfterGet(cache, key, now)
  BY DEF ReadHit
<1>2. UNCHANGED <<content, now, call, overlapped>>
  BY DEF ReadHit
<1>3. /\ Accounted(cache') /\ cache'.bytes <= cache.bytes
      /\ \A e \in Held(cache') : e \in Held(cache)
  BY <1>1, AfterGetKeeps DEF Budgeted
<1>4. Budgeted'
  BY <1>3, CacheAssumption DEF Budgeted, Accounted, StoredCaches
<1>5. Typing' /\ AnswersCurrent'
  BY <1>2 DEF Typing, AnswersCurrent, Answered
<1>6. \A path : WriteApplied(path) => WriteApplied(path)'
  BY <1>2 DEF WriteApplied
<1> QED
  BY <1>2, <1>3, <1>4, <1>5, <1>6, EntriesStay

(* A miss issues a call of the inner store, which has not answered yet.     *)
LEMMA ReadMissStep ==
    ASSUME Safe, NEW c \in Callers, ReadMiss(c)
    PROVE  Safe'
<1> USE DEF Safe
<1>1. PICK kind \in Kinds, path \in Paths :
        /\ cache' = AfterGet(cache, <<kind, path>>, now)
        /\ call' = [call EXCEPT ![c] = [op |-> "read", kind |-> kind, path |-> path,
                                         step |-> "issued", value |-> None]]
  BY DEF ReadMiss
<1>2. UNCHANGED <<content, now, overlapped>> /\ call[c] = None
  BY DEF ReadMiss
<1>3. PICK v : v = [op |-> "read", kind |-> kind, path |-> path,
                    step |-> "issued", value |-> None]
  OBVIOUS
<1>4. v \in Calls /\ v.op = "read" /\ v.step = "issued"
  BY <1>3 DEF Calls, Reads
<1>5. /\ DOMAIN call' = Callers /\ call'[c] = v
      /\ \A d \in Callers : d # c => call'[d] = call[d]
      /\ \A d \in Callers : call'[d] # None => call'[d] \in Calls
  BY <1>1, <1>3, <1>4, CallStep
<1>6. /\ Accounted(cache') /\ cache'.bytes <= cache.bytes
      /\ \A e \in Held(cache') : e \in Held(cache)
  BY <1>1, AfterGetKeeps DEF Budgeted
<1>7. Budgeted'
  BY <1>6, CacheAssumption DEF Budgeted, Accounted, StoredCaches
<1>8. Typing'
  BY <1>2, <1>5 DEF Typing
<1>9. AnswersCurrent'
  BY <1>2, <1>4, <1>5 DEF AnswersCurrent, Answered
<1>10. \A p : WriteApplied(p) => WriteApplied(p)'
  BY <1>2, <1>5 DEF WriteApplied
<1> QED
  BY <1>2, <1>6, <1>7, <1>8, <1>9, <1>10, EntriesStay

(* The inner store answers with what it holds.                              *)
LEMMA InnerReadStep ==
    ASSUME Safe, NEW c \in Callers, InnerRead(c)
    PROVE  Safe'
<1> USE DEF Safe
<1>1. /\ call[c] # None /\ call[c].op = "read"
      /\ call' = [call EXCEPT ![c].step = "answered", ![c].value = content[call[c].path]]
      /\ UNCHANGED <<content, cache, now, overlapped>>
  BY DEF InnerRead
<1>2. call[c] \in Reads
  BY <1>1 DEF Typing, Calls, Writes
<1>3. PICK v : v = [call[c] EXCEPT !.step = "answered", !.value = content[call[c].path]]
  OBVIOUS
<1>4. content[call[c].path] \in Contents
  BY <1>2 DEF Typing, Reads
<1>5. v = [op |-> "read", kind |-> call[c].kind, path |-> call[c].path,
           step |-> "answered", value |-> content[call[c].path]]
  BY <1>2, <1>3 DEF Reads
<1>6. /\ v \in Calls /\ v.op = "read" /\ v.path = call[c].path
      /\ v.value = content[call[c].path]
  BY <1>2, <1>4, <1>5 DEF Calls, Reads
<1>7. call' = [call EXCEPT ![c] = v]
  BY <1>1, <1>3 DEF Typing
<1>8. /\ DOMAIN call' = Callers /\ call'[c] = v
      /\ \A d \in Callers : d # c => call'[d] = call[d]
      /\ \A d \in Callers : call'[d] # None => call'[d] \in Calls
  BY <1>6, <1>7, CallStep
<1>9. Typing' /\ Budgeted'
  BY <1>1, <1>8 DEF Typing, Budgeted
<1>10. AnswersCurrent'
  BY <1>1, <1>4, <1>6, <1>8 DEF AnswersCurrent, Answered
<1>11. \A p : WriteApplied(p) => WriteApplied(p)'
  BY <1>1, <1>8 DEF WriteApplied
<1> QED
  BY <1>1, <1>9, <1>10, <1>11, EntriesStay

(* The answer that is cached is the content, if no write overtook it.       *)
LEMMA ReadAnswerStep ==
    ASSUME Safe, NEW c \in Callers, ReadAnswer(c)
    PROVE  /\ Safe'
           /\ \A e \in Held(cache) :
                 e \notin Held(cache') /\ e.key # <<call[c].kind, call[c].path>> =>
                    \A k \in Held(cache') : e.priority <= k.priority
<1> USE DEF Safe
<1>1. /\ Answered(c)
      /\ call' = [call EXCEPT ![c] = None]
      /\ UNCHANGED <<content, now, overlapped>>
  BY DEF ReadAnswer, Answered, Return
<1>2. call[c] \in Reads /\ call[c].value \in Contents
  BY <1>1 DEF Typing, Calls, Writes, Answered, AnswersCurrent
<1>3. PICK key, value, bytes, priority :
        /\ key = <<call[c].kind, call[c].path>>
        /\ value = [path |-> call[c].path, value |-> call[c].value]
        /\ bytes = ValueBytes(call[c].kind, call[c].value)
        /\ priority = Priority(call[c].kind)
  OBVIOUS
<1>4. cache' = Set(cache, key, value, bytes, priority, now)
  BY <1>3, Zenon DEF ReadAnswer
<1>5. key \in Kinds \X Paths /\ value \in [path : Paths, value : Contents]
  BY <1>2, <1>3 DEF Reads
<1>6. bytes \in Nat
  BY <1>2, <1>3, CacheAssumption DEF Reads, Kinds, ValueBytes
<1>7. priority \in Nat
  BY <1>2, <1>3, CacheAssumption DEF Reads, Kinds, Priority
<1>8. /\ Accounted(cache') /\ cache'.bytes <= MaxBytes
      /\ \A e \in Held(cache') : e \in Held(cache) \/ e.value = value
      /\ \A e \in Held(cache) : e \notin Held(cache') /\ e.key # key =>
            \A k \in Held(cache') : e.priority <= k.priority
  <2>1. Accounted(cache) /\ cache.bytes <= MaxBytes /\ now \in Nat
    BY DEF Budgeted, Typing
  <2> QED
    BY <1>4, <1>5, <1>6, <1>7, <2>1, SetFits
<1>9. /\ DOMAIN call' = Callers /\ call'[c] = None
      /\ \A d \in Callers : d # c => call'[d] = call[d]
      /\ \A d \in Callers : call'[d] # None => call'[d] \in Calls
  BY <1>1, CallStep
<1>10. Typing' /\ Budgeted'
  BY <1>1, <1>8, <1>9 DEF Typing, Budgeted
<1>11. AnswersCurrent'
  BY <1>1, <1>9 DEF AnswersCurrent, Answered
<1>12. \A p : WriteApplied(p) => WriteApplied(p)'
  BY <1>1, <1>9 DEF WriteApplied, Answered
<1>13. EntriesCurrent'
  <2> SUFFICES ASSUME NEW e \in Held(cache'),
                      e.value.path \notin overlapped', ~WriteApplied(e.value.path)'
               PROVE  e.value.value = content'[e.value.path]
    BY DEF EntriesCurrent
  <2>1. e.value.path \notin overlapped /\ ~WriteApplied(e.value.path)
    BY <1>1, <1>12
  <2>2. CASE e \in Held(cache)
    BY <1>1, <2>1, <2>2 DEF EntriesCurrent
  <2>3. CASE e.value = value
    <3>1. e.value.path = call[c].path /\ e.value.value = call[c].value
      BY <1>3, <2>3
    <3> QED
      BY <1>1, <2>1, <3>1 DEF AnswersCurrent
  <2> QED
    BY <1>8, <2>2, <2>3
<1> QED
  BY <1>3, <1>8, <1>10, <1>11, <1>13

(* A failed read forgets its call and caches nothing.                       *)
LEMMA ReadFailsStep ==
    ASSUME Safe, NEW c \in Callers, ReadFails(c)
    PROVE  Safe'
<1> USE DEF Safe
<1>1. /\ call[c].op = "read" /\ call' = [call EXCEPT ![c] = None]
      /\ UNCHANGED <<content, cache, now, overlapped>>
  BY DEF ReadFails, Return
<1>2. /\ DOMAIN call' = Callers /\ call'[c] = None
      /\ \A d \in Callers : d # c => call'[d] = call[d]
      /\ \A d \in Callers : call'[d] # None => call'[d] \in Calls
  BY <1>1, CallStep
<1>3. Typing' /\ Budgeted' /\ AnswersCurrent'
  BY <1>1, <1>2 DEF Typing, Budgeted, AnswersCurrent, Answered
<1>4. \A p : WriteApplied(p) => WriteApplied(p)'
  BY <1>1, <1>2 DEF WriteApplied
<1> QED
  BY <1>1, <1>3, <1>4, EntriesStay

(* A write drops the entries of its path before it starts.                  *)
LEMMA WriteStartStep ==
    ASSUME Safe, NEW c \in Callers, WriteStart(c)
    PROVE  Safe'
<1> USE DEF Safe
<1>1. PICK path \in Paths, there \in BOOLEAN :
        /\ cache' = InvalidatePath(cache, path)
        /\ call' = [call EXCEPT ![c] = [op |-> "write", path |-> path, there |-> there,
                                         step |-> "issued"]]
  BY DEF WriteStart
<1>2. UNCHANGED <<content, now, overlapped>> /\ call[c] = None
  BY DEF WriteStart
<1>3. PICK v : v = [op |-> "write", path |-> path, there |-> there, step |-> "issued"]
  OBVIOUS
<1>4. v \in Calls /\ v.op = "write"
  BY <1>3 DEF Calls, Writes
<1>5. /\ DOMAIN call' = Callers /\ call'[c] = v
      /\ \A d \in Callers : d # c => call'[d] = call[d]
      /\ \A d \in Callers : call'[d] # None => call'[d] \in Calls
  BY <1>1, <1>3, <1>4, CallStep
<1>6. /\ Accounted(cache') /\ cache'.bytes <= cache.bytes
      /\ \A e \in Held(cache') : e \in Held(cache)
  BY <1>1, InvalidateDrops DEF Budgeted
<1>7. Budgeted'
  BY <1>6, CacheAssumption DEF Budgeted, Accounted, StoredCaches
<1>8. Typing'
  BY <1>2, <1>5 DEF Typing
<1>9. AnswersCurrent'
  BY <1>2, <1>4, <1>5 DEF AnswersCurrent, Answered
<1>10. \A p : WriteApplied(p) => WriteApplied(p)'
  BY <1>2, <1>5 DEF WriteApplied
<1> QED
  BY <1>2, <1>6, <1>7, <1>8, <1>9, <1>10, EntriesStay

(* A write that takes effect makes every answer on its way an overlapped    *)
(* one, and stands in front of the entries of its path until it returns.    *)
LEMMA InnerWriteStep ==
    ASSUME Safe, NEW c \in Callers, InnerWrite(c)
    PROVE  Safe'
<1> USE DEF Safe
<1>1. PICK path, n :
        /\ call[c] # None /\ call[c].op = "write" /\ call[c].step = "issued"
        /\ path = call[c].path /\ n = content[path].write + 1
        /\ content' = [content EXCEPT ![path] = [write |-> n, there |-> call[c].there]]
        /\ call' = [call EXCEPT ![c].step = "applied"]
        /\ overlapped' = IF ReadUnderWay(path) THEN overlapped \cup {path} ELSE overlapped
        /\ UNCHANGED <<cache, now>>
  BY DEF InnerWrite
<1>2. call[c] \in Writes
  BY <1>1 DEF Typing, Calls, Reads
<1>3. path \in Paths /\ call[c].there \in BOOLEAN
  BY <1>1, <1>2 DEF Writes
<1>4. n \in Nat
  <2>1. content[path] \in Contents
    BY <1>3 DEF Typing
  <2> QED
    BY <1>1, <2>1 DEF Contents
<1>5. /\ content' \in [Paths -> Contents]
      /\ \A p \in Paths : p # path => content'[p] = content[p]
  BY <1>1, <1>3, <1>4 DEF Typing, Contents
<1>6. PICK v : v = [call[c] EXCEPT !.step = "applied"]
  OBVIOUS
<1>7. v = [op |-> "write", path |-> path, there |-> call[c].there, step |-> "applied"]
  BY <1>1, <1>2, <1>6 DEF Writes
<1>8. v \in Calls /\ v # None /\ v.op = "write" /\ v.path = path /\ v.step = "applied"
  BY <1>3, <1>7, CacheAssumption DEF Calls, Writes
<1>9. call' = [call EXCEPT ![c] = v]
  BY <1>1, <1>6 DEF Typing
<1>10. /\ DOMAIN call' = Callers /\ call'[c] = v
       /\ \A d \in Callers : d # c => call'[d] = call[d]
       /\ \A d \in Callers : call'[d] # None => call'[d] \in Calls
  BY <1>8, <1>9, CallStep
<1>11. Typing' /\ Budgeted'
  BY <1>1, <1>5, <1>10 DEF Typing, Budgeted
<1>12. AnswersCurrent'
  <2> SUFFICES ASSUME NEW d \in Callers, Answered(d)'
               PROVE  /\ call'[d].value \in Contents
                      /\ call'[d].path \notin overlapped' =>
                            call'[d].value = content'[call'[d].path]
    BY DEF AnswersCurrent
  <2>1. d # c /\ call'[d] = call[d]
    BY <1>8, <1>10 DEF Answered
  <2>2. Answered(d)
    BY <2>1 DEF Answered
  <2>3. call[d].path \in Paths
    BY <2>2 DEF Typing, Calls, Reads, Writes, Answered
  <2>4. CASE call[d].path = path
    <3>1. ReadUnderWay(path)
      BY <2>2, <2>4 DEF ReadUnderWay, Answered
    <3> QED
      BY <1>1, <2>1, <2>2, <2>4, <3>1 DEF AnswersCurrent
  <2>5. CASE call[d].path # path
    <3>1. content'[call[d].path] = content[call[d].path]
      BY <1>5, <2>3, <2>5
    <3>2. overlapped \subseteq overlapped'
      BY <1>1
    <3> QED
      BY <2>1, <2>2, <3>1, <3>2 DEF AnswersCurrent
  <2> QED
    BY <2>4, <2>5
<1>13. WriteApplied(path)' /\ \A p : WriteApplied(p) => WriteApplied(p)'
  BY <1>1, <1>8, <1>10 DEF WriteApplied
<1>14. EntriesCurrent'
  <2> SUFFICES ASSUME NEW e \in Held(cache),
                      e.value.path \notin overlapped', ~WriteApplied(e.value.path)'
               PROVE  e.value.value = content'[e.value.path]
    BY <1>1 DEF EntriesCurrent
  <2>1. e.value.path # path
    BY <1>13
  <2>2. e.value.path \in Paths
    <3>1. e \in CacheEntries
      BY DEF Held, Elements, Budgeted, Accounted, StoredCaches
    <3> QED
      BY <3>1 DEF CacheEntries
  <2>3. content'[e.value.path] = content[e.value.path]
    BY <1>5, <2>1, <2>2
  <2>4. e.value.path \notin overlapped /\ ~WriteApplied(e.value.path)
    BY <1>1, <1>13
  <2> QED
    BY <2>3, <2>4 DEF EntriesCurrent
<1> QED
  BY <1>11, <1>12, <1>14

(* Before it returns the write drops what was cached of its path meanwhile. *)
LEMMA WriteAnswerStep ==
    ASSUME Safe, NEW c \in Callers, WriteAnswer(c)
    PROVE  Safe'
<1> USE DEF Safe
<1>1. /\ call[c].op = "write" /\ cache' = InvalidatePath(cache, call[c].path)
      /\ call' = [call EXCEPT ![c] = None]
      /\ UNCHANGED <<content, now, overlapped>>
  BY DEF WriteAnswer, Return
<1>2. /\ DOMAIN call' = Callers /\ call'[c] = None
      /\ \A d \in Callers : d # c => call'[d] = call[d]
      /\ \A d \in Callers : call'[d] # None => call'[d] \in Calls
  BY <1>1, CallStep
<1>3. /\ Accounted(cache') /\ cache'.bytes <= cache.bytes
      /\ \A e : e \in Held(cache') <=> e \in Held(cache) /\ e.value.path # call[c].path
  BY <1>1, InvalidateDrops DEF Budgeted
<1>4. Budgeted'
  BY <1>3, CacheAssumption DEF Budgeted, Accounted, StoredCaches
<1>5. Typing' /\ AnswersCurrent'
  BY <1>1, <1>2 DEF Typing, AnswersCurrent, Answered
<1>6. \A p : p # call[c].path => (WriteApplied(p) => WriteApplied(p)')
  BY <1>1, <1>2 DEF WriteApplied
<1>7. EntriesCurrent'
  BY <1>1, <1>3, <1>6 DEF EntriesCurrent
<1> QED
  BY <1>4, <1>5, <1>7

(* One that throws leaves them, and its path is overlapped from then on.    *)
LEMMA WriteFailsStep ==
    ASSUME Safe, NEW c \in Callers, WriteFails(c)
    PROVE  Safe'
<1> USE DEF Safe
<1>1. /\ call[c].op = "write" /\ call' = [call EXCEPT ![c] = None]
      /\ overlapped' = IF call[c].step = "applied" THEN overlapped \cup {call[c].path}
                                                    ELSE overlapped
      /\ UNCHANGED <<content, cache, now>>
  BY DEF WriteFails, Return
<1>2. /\ DOMAIN call' = Callers /\ call'[c] = None
      /\ \A d \in Callers : d # c => call'[d] = call[d]
      /\ \A d \in Callers : call'[d] # None => call'[d] \in Calls
  BY <1>1, CallStep
<1>3. overlapped \subseteq overlapped'
  BY <1>1
<1>4. Typing' /\ Budgeted'
  BY <1>1, <1>2 DEF Typing, Budgeted
<1>5. AnswersCurrent'
  BY <1>1, <1>2, <1>3 DEF AnswersCurrent, Answered
<1>6. \A p : WriteApplied(p) => WriteApplied(p)' \/ p \in overlapped'
  BY <1>1, <1>2 DEF WriteApplied
<1> QED
  BY <1>1, <1>3, <1>4, <1>5, <1>6, EntriesStay

(* Every step of the store keeps the invariant.                             *)
LEMMA SafeStep == Safe /\ [Next]_vars => Safe'
<1> SUFFICES ASSUME Safe, [Next]_vars PROVE Safe'
  OBVIOUS
<1>1. CASE UNCHANGED vars
  BY <1>1 DEF vars, Safe, Typing, Budgeted, AnswersCurrent, Answered, EntriesCurrent,
              WriteApplied
<1>2. CASE Tick
  BY <1>2 DEF Tick, Safe, Typing, Budgeted, AnswersCurrent, Answered, EntriesCurrent,
              WriteApplied
<1>3. ASSUME NEW c \in Callers,
             \/ ReadHit(c) \/ ReadMiss(c) \/ InnerRead(c) \/ ReadAnswer(c) \/ ReadFails(c)
             \/ WriteStart(c) \/ InnerWrite(c) \/ WriteAnswer(c) \/ WriteFails(c)
      PROVE  Safe'
  BY <1>3, ReadHitStep, ReadMissStep, InnerReadStep, ReadAnswerStep, ReadFailsStep,
     WriteStartStep, InnerWriteStep, WriteAnswerStep, WriteFailsStep
<1> QED
  BY <1>1, <1>2, <1>3 DEF Next

(* The byte count of the cache is the sum of the sizes of its entries and   *)
(* within maxBytes, and no key has two entries, through every look-up,      *)
(* expiry, replacement, invalidation and eviction of concurrent calls.      *)
THEOREM CacheStaysInBudget == Spec => []BytesAccounted
<1>1. Safe => BytesAccounted
  <2>1. cache.entries \in Seq(CacheEntries) => DOMAIN cache.entries = 1 .. Len(cache.entries)
    OBVIOUS
  <2> QED
    BY <2>1 DEF Safe, Budgeted, Accounted, StoredCaches, DistinctKeys, BytesAccounted,
                Consistent
<1> QED
  BY <1>1, SafeInit, SafeStep, PTL DEF Spec

(* What the cache answers is what the inner store holds, except while a     *)
(* write that took effect has not returned, and on paths where a write took *)
(* effect under an answered read, or threw after it did: with any number of *)
(* paths and concurrent calls, and under every policy, budget and ttl.      *)
THEOREM CacheIsCoherent == Spec => []CoherentUnlessOverlapped
<1>1. Safe => CoherentUnlessOverlapped
  <2> SUFFICES ASSUME Safe, NEW i \in DOMAIN cache.entries
               PROVE  LET e == cache.entries[i].value
                      IN  e.path \notin overlapped /\ ~WriteApplied(e.path) =>
                             e.value = content[e.path]
    BY DEF CoherentUnlessOverlapped
  <2>1. cache.entries[i] \in Held(cache)
    BY DEF Safe, Budgeted, Accounted, StoredCaches, Held, Elements
  <2> QED
    BY <2>1 DEF Safe, EntriesCurrent
<1> QED
  BY <1>1, SafeInit, SafeStep, PTL DEF Spec

(* Room for an answer is made at the cost of the entries of the lowest      *)
(* priority: none that is dropped had a higher one than any that stays.     *)
THEOREM RoomIsMadeLowestFirst == Spec => EvictsLowestFirst
<1> DEFINE Lowest ==
      \A c \in Callers :
          call[c] # None /\ call'[c] = None /\ call[c].op = "read" /\ call[c].step = "answered"
          => \A key \in Keys(cache) \ (Keys(cache') \cup {<<call[c].kind, call[c].path>>}) :
                \A kept \in Keys(cache') :
                    Entry(cache, key).priority <= Entry(cache', kept).priority
<1>1. Safe /\ [Next]_vars => [Lowest]_vars
  <2> SUFFICES ASSUME Safe, Next, NEW c \in Callers, Answered(c), call'[c] = None,
                      NEW key \in Keys(cache), key \notin Keys(cache'),
                      key # <<call[c].kind, call[c].path>>, NEW kept \in Keys(cache')
               PROVE  Entry(cache, key).priority <= Entry(cache', kept).priority
    BY DEF Answered
  <2>1. ReadAnswer(c)
    <3>1. ASSUME NEW d \in Callers, d # c,
                 \/ ReadHit(d) \/ ReadMiss(d) \/ InnerRead(d) \/ ReadAnswer(d) \/ ReadFails(d)
                 \/ WriteStart(d) \/ InnerWrite(d) \/ WriteAnswer(d) \/ WriteFails(d)
          PROVE  call'[c] = call[c]
      BY <3>1 DEF Safe, Typing, Return, ReadHit, ReadMiss, InnerRead, ReadAnswer, ReadFails,
                  WriteStart, InnerWrite, WriteAnswer, WriteFails
    <3>2. ~Tick
      BY DEF Tick, Answered
    <3>3. /\ ~ReadHit(c) /\ ~ReadMiss(c) /\ ~InnerRead(c) /\ ~ReadFails(c)
          /\ ~WriteStart(c) /\ ~InnerWrite(c) /\ ~WriteAnswer(c) /\ ~WriteFails(c)
      BY DEF Answered, ReadHit, ReadMiss, InnerRead, ReadFails,
             WriteStart, InnerWrite, WriteAnswer, WriteFails
    <3> QED
      BY <3>1, <3>2, <3>3 DEF Next, Answered
  <2>2. /\ Safe'
        /\ \A e \in Held(cache) :
              e \notin Held(cache') /\ e.key # <<call[c].kind, call[c].path>> =>
                 \A k \in Held(cache') : e.priority <= k.priority
    BY <2>1, ReadAnswerStep
  <2>3. Accounted(cache) /\ Accounted(cache')
    BY <2>2 DEF Safe, Budgeted
  <2>4. Entry(cache, key) \in Held(cache) /\ Entry(cache, key).key = key
    BY <2>3, EntryIs DEF Held, Elements
  <2>5. Entry(cache', kept) \in Held(cache')
    BY <2>3, EntryIs DEF Held, Elements
  <2>6. Entry(cache, key) \notin Held(cache')
    BY <2>3, <2>4, KeysAreHeld
  <2> QED
    BY <2>2, <2>4, <2>5, <2>6
<1>2. Spec => [][Lowest]_vars
  BY <1>1, SafeInit, SafeStep, PTL DEF Spec
<1> QED
  BY <1>2 DEF EvictsLowestFirst
--------------------------------------------------------------------------------
(* The range cache.  An entry is a range with its length.                   *)
RangeEntries == {Ranges!Entry(key) : key \in DOMAIN RangeLengths}

(* Between steps the count is in the budget, what was written twice and is  *)
(* counted for nothing included.                                            *)
RangeSafe ==
    /\ entries \in Seq(RangeEntries)
    /\ DistinctKeys(entries)
    /\ slicing \in [Callers -> DOMAIN RangeLengths \cup {None}]
    /\ overwritten \in Nat
    /\ cachedBytes = TotalBytes(entries) + overwritten
    /\ cachedBytes <= MaxRangeBytes

(* An entry of the range cache has the length of its range.                 *)
LEMMA RangeEntriesSized ==
    /\ Sized(RangeEntries)
    /\ \A e \in RangeEntries : e.key \in DOMAIN RangeLengths /\ e = Ranges!Entry(e.key)
    /\ \A key \in DOMAIN RangeLengths :
          /\ Ranges!Entry(key) \in RangeEntries
          /\ Ranges!Entry(key).key = key
          /\ Ranges!Entry(key).bytes = RangeLengths[key]
BY RangeAssumption DEF Sized, RangeEntries, Ranges!Entry

(* Both caches add sizes up the same way.                                   *)
LEMMA TotalsAgree ==
    ASSUME NEW s
    PROVE  Ranges!Total(s) = TotalBytes(s)
BY Zenon DEF Ranges!Total, TotalBytes

(* What the instance took from the library is the library's.                *)
LEMMA LibraryAgrees ==
    /\ \A s, i : Ranges!RemoveAt(s, i) = RemoveAt(s, i)
    /\ \A S : Ranges!Min(S) = Min(S)
BY Zenon DEF Ranges!RemoveAt, RemoveAt, Ranges!Min, Min

(* Sizes add up to a natural number.                                        *)
LEMMA TotalNat ==
    ASSUME NEW T, Sized(T), NEW s \in Seq(T)
    PROVE  TotalBytes(s) \in Nat
<1> DEFINE pass == [n \in 1 .. Len(s) |-> [x \in Nat |-> x + s[n].bytes]]
<1>1. pass \in [1 .. Len(s) -> [Nat -> Nat]]
  <2>1. ASSUME NEW n \in 1 .. Len(s) PROVE s[n].bytes \in Nat
    <3>1. s[n] \in T
      OBVIOUS
    <3> QED
      BY <3>1 DEF Sized
  <2>2. ASSUME NEW n \in 1 .. Len(s), NEW x \in Nat PROVE x + s[n].bytes \in Nat
    BY <2>1
  <2> QED
    BY <2>2
<1>2. PICK f \in [0 .. Len(s) -> Nat] : Runs(f, Len(s), 0, pass)
  <2> HIDE DEF pass
  <2>1. Len(s) \in Nat /\ 0 \in Nat
    OBVIOUS
  <2> QED
    BY <1>1, <2>1, LoopRuns
<1>3. ASSUME NEW n \in 1 .. Len(s) PROVE f[n] = f[n - 1] + s[n].bytes
  <2>1. f[n - 1] \in Nat
    OBVIOUS
  <2> QED
    BY <1>2, <2>1 DEF Runs
<1>4. Sums(s, f)
  BY <1>2, <1>3 DEF Runs, Sums
<1>5. TotalBytes(s) = f[Len(s)]
  BY <1>4, TotalIs
<1> QED
  BY <1>5

(* An entry is no larger than all of them.                                  *)
LEMMA PartOfTotal ==
    ASSUME NEW T, Sized(T), NEW s \in Seq(T), NEW i \in 1 .. Len(s)
    PROVE  s[i].bytes <= TotalBytes(s)
<1>1. PICK t : t = RemoveAt(s, i)
  OBVIOUS
<1>2. t \in Seq(T) /\ TotalBytes(t) = TotalBytes(s) - s[i].bytes
  BY <1>1, RemoveAtIs, TotalRemoveAt
<1>3. TotalBytes(t) \in Nat /\ TotalBytes(s) \in Nat
  BY <1>2, TotalNat
<1>4. s[i].bytes \in Nat
  <2>1. s[i] \in T
    OBVIOUS
  <2> QED
    BY <2>1 DEF Sized
<1> QED
  BY <1>2, <1>3, <1>4

(* What a cut leaves and what it takes add up to what there was.            *)
LEMMA TotalCut ==
    ASSUME NEW T, Sized(T), NEW s \in Seq(T), NEW n \in 0 .. Len(s)
    PROVE  /\ SubSeq(s, n + 1, Len(s)) \in Seq(T)
           /\ SubSeq(s, 1, n) \in Seq(T)
           /\ TotalBytes(s) = TotalBytes(SubSeq(s, 1, n)) + TotalBytes(SubSeq(s, n + 1, Len(s)))
<1>0. Len(s) \in Nat /\ n \in Nat
  OBVIOUS
<1>1. PICK a : a = SubSeq(s, 1, n)
  OBVIOUS
<1>2. PICK b : b = SubSeq(s, n + 1, Len(s))
  OBVIOUS
<1>3. a \in Seq(T) /\ Len(a) = n /\ \A k \in 1 .. n : a[k] = s[k]
  BY <1>1
<1>4. b \in Seq(T) /\ Len(b) = Len(s) - n /\ \A k \in 1 .. Len(s) - n : b[k] = s[k + n]
  BY <1>2
<1>5. PICK f : Sums(s, f)
  BY SumsExist
<1>6. f \in [0 .. Len(s) -> Int] /\ f[0] = 0
      /\ \A k \in 1 .. Len(s) : f[k] = f[k - 1] + s[k].bytes
  BY <1>5 DEF Sums
<1> DEFINE g == [k \in 0 .. n |-> f[k]]
           h == [k \in 0 .. Len(s) - n |-> f[k + n] - f[n]]
<1>7. Sums(a, g)
  <2>1. g \in [0 .. Len(a) -> Int] /\ g[0] = 0
    BY <1>0, <1>3, <1>6
  <2>2. ASSUME NEW k \in 1 .. Len(a) PROVE g[k] = g[k - 1] + a[k].bytes
    BY <1>0, <1>3, <1>6
  <2> QED
    BY <2>1, <2>2 DEF Sums
<1>8. Sums(b, h)
  <2>1. h \in [0 .. Len(b) -> Int] /\ h[0] = 0
    <3>1. ASSUME NEW k \in 0 .. Len(s) - n PROVE f[k + n] - f[n] \in Int
      <4>1. k + n \in 0 .. Len(s) /\ n \in 0 .. Len(s)
        BY <1>0
      <4> QED
        BY <1>6, <4>1
    <3>2. f[0 + n] = f[n] /\ f[n] \in Int /\ 0 \in 0 .. Len(s) - n
      BY <1>0, <1>6
    <3> QED
      BY <1>4, <3>1, <3>2
  <2>2. ASSUME NEW k \in 1 .. Len(b) PROVE h[k] = h[k - 1] + b[k].bytes
    <3>1. /\ k \in 0 .. Len(s) - n /\ k - 1 \in 0 .. Len(s) - n /\ k + n \in 1 .. Len(s)
          /\ (k - 1) + n = (k + n) - 1 /\ k \in 1 .. Len(s) - n
          /\ (k + n) - 1 \in 0 .. Len(s) /\ n \in 0 .. Len(s)
      BY <1>0, <1>4
    <3>2. PICK x \in Int : x = f[(k + n) - 1]
      BY <1>6, <3>1
    <3>3. PICK y \in Int : y = s[k + n].bytes
      <4>1. s[k + n] \in T
        BY <3>1
      <4> QED
        BY <4>1 DEF Sized
    <3>4. PICK z \in Int : z = f[n]
      BY <1>6, <3>1
    <3>5. f[k + n] = x + y
      BY <1>6, <3>1, <3>2, <3>3, Zenon
    <3>6. h[k] = (x + y) - z /\ h[k - 1] = x - z
      BY <3>1, <3>2, <3>4, <3>5
    <3>7. b[k].bytes = y
      BY <1>4, <3>1, <3>3
    <3>8. (x + y) - z = (x - z) + y
      OBVIOUS
    <3> QED
      BY <3>6, <3>7, <3>8, Zenon
  <2> QED
    BY <2>1, <2>2 DEF Sums
<1>9. g[Len(a)] = f[n] /\ h[Len(b)] = f[Len(s)] - f[n] /\ f[n] \in Int /\ f[Len(s)] \in Int
  <2>1. n \in 0 .. n /\ Len(s) - n \in 0 .. Len(s) - n /\ (Len(s) - n) + n = Len(s)
        /\ Len(s) \in 0 .. Len(s)
    BY <1>0
  <2> QED
    BY <1>3, <1>4, <1>6, <2>1
<1>10. TotalBytes(a) = g[Len(a)] /\ TotalBytes(b) = h[Len(b)] /\ TotalBytes(s) = f[Len(s)]
  <2> HIDE DEF g, h
  <2> QED
    BY <1>3, <1>4, <1>5, <1>7, <1>8, TotalIs
<1> QED
  BY <1>1, <1>2, <1>3, <1>4, <1>9, <1>10

(* Eviction takes a prefix, and stops within the budget: at the latest when *)
(* nothing is left, since what is counted for nothing is within it.         *)
LEMMA RangeEvictKeeps ==
    ASSUME NEW kept \in Seq(RangeEntries), DistinctKeys(kept),
           NEW wasted \in Nat, wasted <= MaxRangeBytes,
           NEW bytes, bytes = TotalBytes(kept) + wasted,
           NEW left, left = Ranges!Evict(kept, bytes)
    PROVE  /\ left.entries \in Seq(RangeEntries)
           /\ DistinctKeys(left.entries)
           /\ left.bytes = TotalBytes(left.entries) + wasted
           /\ left.bytes <= MaxRangeBytes
<1> DEFINE taken(n) == SubSeq(kept, 1, n)
           rest(n) == SubSeq(kept, n + 1, Len(kept))
           enough == {n \in 0 .. Len(kept) : bytes - TotalBytes(taken(n)) <= MaxRangeBytes}
<1>0. Len(kept) \in Nat /\ MaxRangeBytes \in Nat
  BY RangeAssumption
<1>1. ASSUME NEW n \in 0 .. Len(kept)
      PROVE  /\ rest(n) \in Seq(RangeEntries)
             /\ TotalBytes(taken(n)) \in Nat /\ TotalBytes(rest(n)) \in Nat
             /\ bytes - TotalBytes(taken(n)) = TotalBytes(rest(n)) + wasted
  <2>1. /\ rest(n) \in Seq(RangeEntries) /\ taken(n) \in Seq(RangeEntries)
        /\ TotalBytes(kept) = TotalBytes(taken(n)) + TotalBytes(rest(n))
    BY RangeEntriesSized, TotalCut
  <2>2. TotalBytes(taken(n)) \in Nat /\ TotalBytes(rest(n)) \in Nat
    BY <2>1, RangeEntriesSized, TotalNat
  <2> HIDE DEF taken, rest
  <2> QED
    BY <2>1, <2>2
<1>2. Len(kept) \in enough
  <2>1. rest(Len(kept)) \in Seq(RangeEntries) /\ Len(rest(Len(kept))) = 0
    BY <1>0
  <2>2. TotalBytes(rest(Len(kept))) = 0
    BY <2>1, RangeEntriesSized, EmptyTotal
  <2>3. bytes - TotalBytes(taken(Len(kept))) = wasted
    <3> HIDE DEF taken, rest
    <3> QED
      BY <1>0, <1>1, <2>2
  <2> HIDE DEF taken, rest
  <2> QED
    BY <1>0, <2>3
<1>3. Min(enough) \in enough
  <2>1. enough \in SUBSET Nat /\ enough # {}
    BY <1>0, <1>2
  <2> HIDE DEF enough
  <2>2. PICK n \in enough : \A k \in enough : n <= k
    BY <2>1, LeastElement
  <2> QED
    BY <2>2 DEF Min
<1>4. left = [entries |-> rest(Min(enough)),
              bytes   |-> bytes - TotalBytes(taken(Min(enough)))]
  <2>1. enough = {n \in 0 .. Len(kept) :
                    [entries |-> SubSeq(kept, n + 1, Len(kept)),
                     bytes   |-> bytes - Ranges!Total(SubSeq(kept, 1, n))].bytes <= MaxRangeBytes}
    BY TotalsAgree
  <2>2. enough # {}
    BY <1>2
  <2>3. Ranges!Total(taken(Min(enough))) = TotalBytes(taken(Min(enough)))
    BY TotalsAgree
  <2>4. Ranges!Min(enough) = Min(enough)
    BY LibraryAgrees, Zenon
  <2> QED
    BY <2>1, <2>2, <2>3, <2>4 DEF Ranges!Evict
<1>5. PICK n \in 0 .. Len(kept) : /\ bytes - TotalBytes(taken(n)) <= MaxRangeBytes
                                   /\ left.entries = rest(n)
                                   /\ left.bytes = bytes - TotalBytes(taken(n))
  <2> HIDE DEF taken, rest
  <2> QED
    BY <1>3, <1>4
<1>6. DistinctKeys(rest(n))
  <2>1. Len(rest(n)) = Len(kept) - n /\ \A k \in 1 .. Len(kept) - n : rest(n)[k] = kept[k + n]
    BY <1>0
  <2> HIDE DEF rest, taken, enough
  <2>2. PICK r : r = rest(n)
    OBVIOUS
  <2>3. ASSUME NEW i \in 1 .. Len(r), NEW j \in 1 .. Len(r), r[i].key = r[j].key PROVE i = j
    <3>1. /\ i + n \in 1 .. Len(kept) /\ j + n \in 1 .. Len(kept)
          /\ r[i] = kept[i + n] /\ r[j] = kept[j + n]
      BY <1>0, <2>1, <2>2
    <3>2. i + n = j + n
      BY <2>3, <3>1, Zenon DEF DistinctKeys
    <3> QED
      BY <1>0, <2>1, <2>2, <3>2
  <2> QED
    BY <2>2, <2>3 DEF DistinctKeys
<1> HIDE DEF taken, rest
<1> QED
  BY <1>1, <1>5, <1>6

(* At the start nothing is kept.                                            *)
LEMMA RangeSafeInit == Ranges!Init => RangeSafe
<1> SUFFICES ASSUME Ranges!Init PROVE RangeSafe
  OBVIOUS
<1>1. entries = <<>> /\ cachedBytes = 0 /\ overwritten = 0
      /\ slicing = [c \in Callers |-> None]
  BY DEF Ranges!Init
<1>2. entries \in Seq(RangeEntries) /\ Len(entries) = 0
  BY <1>1
<1>3. TotalBytes(entries) = 0
  BY <1>2, RangeEntriesSized, EmptyTotal
<1>4. DistinctKeys(entries)
  BY <1>2 DEF DistinctKeys
<1> QED
  BY <1>1, <1>2, <1>3, <1>4, RangeAssumption DEF RangeSafe

(* A hit takes its entry out and adds it at the end.                        *)
LEMMA RangeHitStep ==
    ASSUME RangeSafe, NEW c \in Callers, Ranges!Hit(c)
    PROVE  RangeSafe'
<1>1. PICK key \in DOMAIN RangeLengths :
           /\ Ranges!Cached(key)
           /\ entries' = Append(RemoveAt(entries, Ranges!Place(key)), entries[Ranges!Place(key)])
  BY LibraryAgrees DEF Ranges!Hit
<1>2. UNCHANGED <<cachedBytes, slicing, overwritten>>
  BY DEF Ranges!Hit
<1>3. entries \in Seq(RangeEntries) /\ DistinctKeys(entries)
  BY DEF RangeSafe
<1>4. PICK i \in 1 .. Len(entries) : i = Ranges!Place(key)
  <2>1. \E i \in DOMAIN entries : entries[i].key = key
    BY <1>1 DEF Ranges!Cached
  <2>2. Ranges!Place(key) \in DOMAIN entries
    BY <2>1 DEF Ranges!Place
  <2> QED
    BY <1>3, <2>2
<1>5. PICK rest : rest = RemoveAt(entries, i)
  OBVIOUS
<1>6. /\ rest \in Seq(RangeEntries) /\ DistinctKeys(rest)
      /\ TotalBytes(rest) = TotalBytes(entries) - entries[i].bytes
      /\ \A e \in Elements(rest) : e.key # entries[i].key
  BY <1>3, <1>5, RangeEntriesSized, RemoveAtIs, RemoveAtHolds, TotalRemoveAt
<1>7. entries[i] \in RangeEntries /\ entries[i].bytes \in Nat
  <2>1. entries[i] \in RangeEntries
    BY <1>3
  <2> QED
    BY <2>1, RangeEntriesSized DEF Sized
<1>8. entries' = Append(rest, entries[i])
  BY <1>1, <1>4, <1>5
<1>9. entries' \in Seq(RangeEntries) /\ DistinctKeys(entries)'
  <2>1. Append(rest, entries[i]) \in Seq(RangeEntries)
        /\ DistinctKeys(Append(rest, entries[i]))
    BY <1>6, <1>7, AppendHolds
  <2> QED
    BY <1>8, <2>1 DEF DistinctKeys
<1>10. TotalBytes(entries') = TotalBytes(entries)
  <2>1. TotalBytes(Append(rest, entries[i])) = TotalBytes(rest) + entries[i].bytes
    BY <1>6, <1>7, RangeEntriesSized, TotalAppend
  <2>2. TotalBytes(entries) \in Nat
    BY <1>3, RangeEntriesSized, TotalNat
  <2> QED
    BY <1>6, <1>7, <1>8, <2>1, <2>2
<1> QED
  BY <1>2, <1>9, <1>10 DEF RangeSafe

(* An answer adds its range unless another call just did, counts it in both *)
(* cases, and makes room.  A range that was there already is one of those   *)
(* the budget holds, so even what is counted for nothing stays within it.   *)
LEMMA RangeAnswerStep ==
    ASSUME RangeSafe, NEW c \in Callers, Ranges!Answer(c)
    PROVE  RangeSafe'
<1>0. slicing[c] \in DOMAIN RangeLengths
  BY DEF RangeSafe, Ranges!Answer
<1>1. PICK key \in DOMAIN RangeLengths : key = slicing[c]
  BY <1>0
<1> DEFINE new == Ranges!Entry(key)
           placed == IF Ranges!Cached(key) THEN entries ELSE Append(entries, new)
           wasted == overwritten + IF Ranges!Cached(key) THEN RangeLengths[key] ELSE 0
           kept == Ranges!Evict(placed, cachedBytes + RangeLengths[key])
<1>2. slicing' \in [Callers -> DOMAIN RangeLengths \cup {None}]
  <2>1. slicing' = [slicing EXCEPT ![c] = None]
    BY DEF Ranges!Answer
  <2> QED
    BY <2>1 DEF RangeSafe
<1>3. /\ entries \in Seq(RangeEntries) /\ DistinctKeys(entries) /\ overwritten \in Nat
      /\ TotalBytes(entries) \in Nat /\ cachedBytes = TotalBytes(entries) + overwritten
      /\ cachedBytes <= MaxRangeBytes
  BY RangeEntriesSized, TotalNat DEF RangeSafe
<1>4. new \in RangeEntries /\ new.key = key /\ new.bytes = RangeLengths[key]
      /\ RangeLengths[key] \in Nat /\ MaxRangeBytes \in Nat
  BY RangeEntriesSized, RangeAssumption
<1>5. CASE UNCHANGED <<entries, cachedBytes, overwritten>>
  BY <1>2, <1>5 DEF RangeSafe, DistinctKeys
<1>6. CASE /\ entries' = kept.entries /\ cachedBytes' = kept.bytes
           /\ overwritten' = wasted
  <2>1. /\ placed \in Seq(RangeEntries) /\ DistinctKeys(placed)
        /\ wasted \in Nat /\ wasted <= MaxRangeBytes
        /\ cachedBytes + RangeLengths[key] = TotalBytes(placed) + wasted
    <3>1. CASE Ranges!Cached(key)
      <4>1. PICK i \in 1 .. Len(entries) : entries[i].key = key
        BY <1>3, <3>1 DEF Ranges!Cached
      <4>2. entries[i].bytes = RangeLengths[key]
        <5>1. entries[i] \in RangeEntries
          BY <1>3
        <5> QED
          BY <1>1, <4>1, <5>1, RangeEntriesSized
      <4>3. RangeLengths[key] <= TotalBytes(entries)
        BY <1>3, <4>2, RangeEntriesSized, PartOfTotal
      <4>4. placed = entries /\ wasted = overwritten + RangeLengths[key]
        BY <3>1
      <4> HIDE DEF placed, wasted
      <4> QED
        BY <1>3, <1>4, <4>3, <4>4
    <3>2. CASE ~Ranges!Cached(key)
      <4>1. \A e \in Elements(entries) : e.key # new.key
        BY <1>3, <1>4, <3>2 DEF Ranges!Cached, Elements
      <4>2. Append(entries, new) \in Seq(RangeEntries) /\ DistinctKeys(Append(entries, new))
        BY <1>3, <1>4, <4>1, AppendHolds
      <4>3. TotalBytes(Append(entries, new)) = TotalBytes(entries) + RangeLengths[key]
        BY <1>3, <1>4, RangeEntriesSized, TotalAppend
      <4>4. placed = Append(entries, new) /\ wasted = overwritten
        BY <1>3, <3>2
      <4> HIDE DEF placed, wasted, new
      <4> QED
        BY <1>3, <1>4, <4>2, <4>3, <4>4
    <3> QED
      BY <3>1, <3>2
  <2> HIDE DEF placed, wasted
  <2>2. /\ kept.entries \in Seq(RangeEntries) /\ DistinctKeys(kept.entries)
        /\ kept.bytes = TotalBytes(kept.entries) + wasted
        /\ kept.bytes <= MaxRangeBytes
    BY <2>1, RangeEvictKeeps
  <2> HIDE DEF kept
  <2> QED
    BY <1>2, <1>6, <2>1, <2>2 DEF RangeSafe, DistinctKeys
<1> QED
  BY <1>1, <1>5, <1>6 DEF Ranges!Answer

(* No step of a slice takes the range cache out of its budget.              *)
LEMMA RangeSafeStep == RangeSafe /\ [Ranges!Next]_Ranges!vars => RangeSafe'
<1> SUFFICES ASSUME RangeSafe, [Ranges!Next]_Ranges!vars PROVE RangeSafe'
  OBVIOUS
<1>1. CASE UNCHANGED Ranges!vars
  BY <1>1 DEF Ranges!vars, RangeSafe, DistinctKeys
<1>2. ASSUME NEW c \in Callers, Ranges!Miss(c) \/ Ranges!Fail(c) PROVE RangeSafe'
  <2>1. UNCHANGED <<entries, cachedBytes, overwritten>>
    BY <1>2 DEF Ranges!Miss, Ranges!Fail
  <2>2. slicing' \in [Callers -> DOMAIN RangeLengths \cup {None}]
    BY <1>2 DEF RangeSafe, Ranges!Miss, Ranges!Fail
  <2> QED
    BY <2>1, <2>2 DEF RangeSafe, DistinctKeys
<1> QED
  BY <1>1, <1>2, RangeHitStep, RangeAnswerStep DEF Ranges!Next

(* The byte count of the range cache is what it keeps and what concurrent   *)
(* misses of one range counted twice; the cache stays within maxBytes, and  *)
(* so does what is counted for nothing, with any number of slices, ranges   *)
(* of any lengths and any budget.                                           *)
THEOREM RangeCacheStaysInBudget == Ranges!Spec => []RangesAccounted
<1>1. RangeSafe => RangesAccounted
  <2> SUFFICES ASSUME RangeSafe PROVE RangesAccounted
    OBVIOUS
  <2>1. TotalBytes(entries) \in Nat
    BY RangeEntriesSized, TotalNat DEF RangeSafe
  <2>2. /\ overwritten \in Nat /\ cachedBytes = TotalBytes(entries) + overwritten
        /\ cachedBytes <= MaxRangeBytes
    BY DEF RangeSafe
  <2>3. Ranges!Total(entries) = TotalBytes(entries)
    BY TotalsAgree
  <2> QED
    BY <2>1, <2>2, <2>3, RangeAssumption DEF RangesAccounted, Ranges!RangesAccounted
<1> QED
  BY <1>1, RangeSafeInit, RangeSafeStep, PTL DEF Ranges!Spec
--------------------------------------------------------------------------------
PromiseSteps == {"none", "lookup", "read", "store", "held"}
Waits == {"nothing", "list", "manifests", "hydrated", "failed"}
Promises == [Hydration!Files -> [step : PromiseSteps, holds : Nat]]

HydrationTyping ==
    /\ generation \in Nat
    /\ persistent \in SUBSET [key : Nat \X Hydration!Files, holds : Nat]
    /\ load \in [Callers -> {"idle", "running", "loaded", "failed"}]
    /\ uuid \in [Callers -> Nat]
    /\ aborted \in [Callers -> BOOLEAN]
    /\ promise \in [Callers -> Promises]
    /\ waits \in [Callers -> [Snapshots -> Waits]]
    /\ reads \in [Callers -> [Hydration!Files -> Nat]]
    /\ failures \in [Callers -> Nat]

(* Each path is read once a load and once more for each failure, and what   *)
(* was read is of the load's own table.                                     *)
Fetched(l, f) ==
    /\ promise[l][f].step \in {"store", "held"} /\ uuid[l] \notin mixed =>
          promise[l][f].holds = uuid[l]
    /\ reads[l][f] <= 1 + failures[l]
    /\ promise[l][f].step \in {"none", "lookup", "read"} => reads[l][f] <= failures[l]

HeldBy(l, f) == promise[l][f].step = "held"

(* A snapshot fails for a reason of its load's, and goes on when its files  *)
(* have come.                                                               *)
Waiting(l, s) ==
    /\ waits[l][s] = "failed" => failures[l] > 0 \/ aborted[l]
    /\ waits[l][s] = "list" => ListOf[s] # None
    /\ waits[l][s] \in {"manifests", "hydrated"} => ListOf[s] = None \/ HeldBy(l, ListOf[s])
    /\ waits[l][s] = "hydrated" => \A f \in ManifestsOf[s] : HeldBy(l, f)

Ended(l) ==
    /\ load[l] = "idle" =>
          /\ \A f \in Hydration!Files : promise[l][f] = Hydration!NoPromise
          /\ \A s \in Snapshots : waits[l][s] = "nothing"
    /\ load[l] = "loaded" => \A s \in Snapshots : waits[l][s] = "hydrated"
    /\ load[l] = "failed" => failures[l] > 0 \/ aborted[l]

Loading(l) ==
    /\ Ended(l)
    /\ \A f \in Hydration!Files : Fetched(l, f)
    /\ \A s \in Snapshots : Waiting(l, s)

(* The shared cache holds a file of a table under that table's key.         *)
CacheExact ==
    \A entry \in persistent : \E u \in Nat, f \in Hydration!Files :
        entry.key = Hydration!CacheKey(u, f) /\ (u \notin mixed => entry.holds = u)

HydrationSafe == HydrationTyping /\ CacheExact /\ \A l \in Callers : Loading(l)

(* The files of a snapshot are files of the table.                          *)
LEMMA FilesOfSnapshots ==
    ASSUME NEW s \in Snapshots
    PROVE  /\ ManifestsOf[s] \subseteq Hydration!Files
           /\ ListOf[s] # None => ListOf[s] \in Hydration!Files
BY HydrationAssumption DEF Hydration!Files

(* Nothing is cached and no load has started.                               *)
LEMMA HydrationSafeInit == Hydration!Init => HydrationSafe
BY DEF Hydration!Init, Hydration!NoPromise, HydrationSafe, HydrationTyping, PromiseSteps,
       Waits, Promises,
       CacheExact, Loading, Ended, Fetched, Waiting

(* Joining the promises of files begins those that were not there and       *)
(* leaves the others.                                                       *)
LEMMA AskedBegins ==
    ASSUME NEW p \in Promises, NEW files
    PROVE  /\ Hydration!Asked(p, files) \in Promises
           /\ \A f \in Hydration!Files :
                 \/ Hydration!Asked(p, files)[f] = p[f]
                 \/ p[f] = Hydration!NoPromise /\ Hydration!Asked(p, files)[f].step = "lookup"
BY DEF Hydration!Asked, PromiseSteps, Promises

(* A promise is resolved for its own load and file.                         *)
LEMMA ResolvedIs ==
    ASSUME HydrationTyping, NEW l \in Callers, NEW f \in Hydration!Files,
           NEW state \in PromiseSteps, NEW holds \in Nat,
           Hydration!Resolved(l, f, state, holds)
    PROVE  /\ promise' \in [Callers -> Promises]
           /\ promise'[l][f].step = state /\ promise'[l][f].holds = holds
           /\ \A k \in Callers, g \in Hydration!Files :
                 k # l \/ g # f => promise'[k][g] = promise[k][g]
           /\ \A k \in Callers : k # l => promise'[k] = promise[k]
BY DEF HydrationTyping, Promises, Waits, Hydration!Resolved

(* Every step is typed.                                                     *)
LEMMA HydrationTypingStep ==
    HydrationTyping /\ [Hydration!Next]_Hydration!vars => HydrationTyping'
<1> SUFFICES ASSUME HydrationTyping, [Hydration!Next]_Hydration!vars PROVE HydrationTyping'
  OBVIOUS
<1> USE DEF HydrationTyping, Promises, Waits
<1>1. CASE UNCHANGED Hydration!vars \/ Hydration!Recreate
  BY <1>1 DEF Hydration!vars, Hydration!Recreate
<1>2. ASSUME NEW l \in Callers, Hydration!Start(l) PROVE HydrationTyping'
  <2>1. \A files : Hydration!Asked(promise[l], files) \in Promises
    BY AskedBegins
  <2> QED
    BY <1>2, <2>1 DEF Hydration!Start
<1>3. ASSUME NEW l \in Callers, Hydration!End(l) \/ Hydration!Abort(l) PROVE HydrationTyping'
  BY <1>3 DEF Hydration!End, Hydration!Abort
<1>4. ASSUME NEW l \in Callers, NEW s \in Snapshots, Hydration!Continue(l, s)
      PROVE  HydrationTyping'
  <2>1. promise[l] \in Promises
    OBVIOUS
  <2>2. Hydration!Asked(promise[l], ManifestsOf[s]) \in Promises
    BY <2>1, AskedBegins
  <2>3. /\ \E outcome \in {"failed", "manifests", "hydrated"} :
              waits' = [waits EXCEPT ![l][s] = outcome]
        /\ \/ promise' = promise
           \/ promise' = [promise EXCEPT ![l] = Hydration!Asked(promise[l], ManifestsOf[s])]
        /\ UNCHANGED <<generation, persistent, load, uuid, aborted, reads, failures, mixed>>
    BY <1>4 DEF Hydration!Continue
  <2>4. waits' \in [Callers -> [Snapshots -> Waits]]
    BY <2>3
  <2>5. promise' \in [Callers -> Promises]
    BY <2>2, <2>3
  <2> QED
    BY <2>3, <2>4, <2>5
<1>5. ASSUME NEW l \in Callers, NEW f \in Hydration!Files, Hydration!Lookup(l, f)
      PROVE  HydrationTyping'
  BY <1>5, ResolvedIs DEF Hydration!Lookup, PromiseSteps, Promises
<1>6. ASSUME NEW l \in Callers, NEW f \in Hydration!Files, Hydration!Read(l, f)
      PROVE  HydrationTyping'
  BY <1>6, ResolvedIs DEF Hydration!Read, PromiseSteps, Promises
<1>7. ASSUME NEW l \in Callers, NEW f \in Hydration!Files, Hydration!Store(l, f)
      PROVE  HydrationTyping'
  BY <1>7, ResolvedIs DEF Hydration!Store, PromiseSteps, Promises, Hydration!CacheKey
<1>8. ASSUME NEW l \in Callers, NEW f \in Hydration!Files, Hydration!Fail(l, f)
      PROVE  HydrationTyping'
  BY <1>8 DEF Hydration!Fail, Hydration!NoPromise, PromiseSteps, Promises
<1> QED
  BY <1>1, <1>2, <1>3, <1>4, <1>5, <1>6, <1>7, <1>8 DEF Hydration!Next

(* Reads of another table are marked, so what the cache holds is exact.     *)
LEMMA MetadataCacheStep == HydrationSafe /\ [Hydration!Next]_Hydration!vars => CacheExact'
<1> SUFFICES ASSUME HydrationSafe, [Hydration!Next]_Hydration!vars PROVE CacheExact'
  OBVIOUS
<1> USE DEF HydrationSafe, CacheExact
<1>1. CASE persistent' = persistent /\ mixed \subseteq mixed'
  BY <1>1
<1>2. ASSUME NEW l \in Callers, NEW f \in Hydration!Files, Hydration!Store(l, f)
      PROVE  CacheExact'
  <2>1. /\ \A entry \in persistent' :
              \/ entry \in persistent
              \/ entry = [key   |-> Hydration!CacheKey(uuid[l], f),
                          holds |-> promise[l][f].holds]
        /\ mixed' = mixed
    BY <1>2 DEF Hydration!Store
  <2>2. uuid[l] \in Nat /\ (uuid[l] \notin mixed => promise[l][f].holds = uuid[l])
    BY <1>2 DEF Hydration!Store, HydrationTyping, Promises, Waits, Loading, Fetched
  <2> QED
    BY <2>1, <2>2
<1> QED
  BY <1>1, <1>2
     DEF Hydration!Next, Hydration!vars, Hydration!Recreate, Hydration!Start, Hydration!End,
         Hydration!Abort, Hydration!Continue, Hydration!Lookup, Hydration!Read, Hydration!Fail

(* A load that takes no part in a step stays as it is, but for the marks of *)
(* tables read for another.                                                 *)
LEMMA LoadingKept ==
    ASSUME NEW l \in Callers, Loading(l), mixed \subseteq mixed',
           UNCHANGED <<load[l], uuid[l], aborted[l], promise[l], waits[l], reads[l], failures[l]>>
    PROVE  Loading(l)'
BY DEF Loading, Ended, Fetched, Waiting, HeldBy

(* The files of a load in a step that changes promises and waits: what is   *)
(* held stays held, and what begins has not been read without a failure.    *)
LEMMA FetchedKept ==
    ASSUME HydrationTyping, NEW l \in Callers, NEW f \in Hydration!Files, Fetched(l, f),
           \/ promise'[l][f] = promise[l][f]
           \/ promise[l][f] = Hydration!NoPromise /\ promise'[l][f].step = "lookup",
           promise[l][f].step \in {"store", "held"} => uuid'[l] = uuid[l],
           UNCHANGED <<reads[l][f], failures[l], mixed>>
    PROVE  Fetched(l, f)'
BY DEF Fetched, Hydration!NoPromise

(* A load that starts has asked for its files and fetched none.             *)
LEMMA LoadStartStep ==
    ASSUME HydrationTyping, NEW l \in Callers, Loading(l), Hydration!Start(l) PROVE Loading(l)'
<1> USE DEF HydrationTyping, Promises, Waits
<1>0. PICK files : promise'[l] = Hydration!Asked(promise[l], files)
  BY DEF Hydration!Start
<1>1. /\ load[l] = "idle" /\ load'[l] = "running"
      /\ waits'[l] = [s \in Snapshots |-> IF ListOf[s] = None THEN "manifests" ELSE "list"]
      /\ UNCHANGED <<reads[l], failures[l], mixed, aborted[l]>>
  BY DEF Hydration!Start
<1>2. \A f \in Hydration!Files : promise[l][f] = Hydration!NoPromise
  BY <1>1 DEF Loading, Ended
<1>3. \A f \in Hydration!Files : promise'[l][f] = promise[l][f] \/ promise'[l][f].step = "lookup"
  <2>1. promise[l] \in Promises
    OBVIOUS
  <2>2. \A f \in Hydration!Files :
           \/ Hydration!Asked(promise[l], files)[f] = promise[l][f]
           \/ /\ promise[l][f] = Hydration!NoPromise
              /\ Hydration!Asked(promise[l], files)[f].step = "lookup"
    BY <2>1, AskedBegins
  <2> QED
    BY <1>0, <2>2
<1>4. ASSUME NEW f \in Hydration!Files PROVE Fetched(l, f)'
  <2>1. promise[l][f].step = "none" /\ Fetched(l, f)
    BY <1>2 DEF Loading, Hydration!NoPromise
  <2>2. promise'[l][f] = promise[l][f] \/ promise'[l][f].step = "lookup"
    BY <1>3
  <2>3. promise'[l][f].step \in {"none", "lookup"}
    BY <2>1, <2>2
  <2> QED
    BY <1>1, <2>1, <2>3 DEF Fetched
<1>5. \A s \in Snapshots : Waiting(l, s)'
  BY <1>1 DEF Waiting
<1>6. Ended(l)'
  BY <1>1 DEF Ended
<1> QED
  BY <1>4, <1>5, <1>6 DEF Loading

(* A load goes on with the manifests of a list it has been answered.        *)
LEMMA LoadContinueStep ==
    ASSUME HydrationTyping, NEW l \in Callers, Loading(l),
           NEW s \in Snapshots, Hydration!Continue(l, s)
    PROVE  Loading(l)'
<1> USE DEF HydrationTyping, Promises, Waits
<1>1. UNCHANGED <<load[l], uuid[l], aborted[l], reads[l], failures[l], mixed>>
  BY DEF Hydration!Continue
<1>2. \A f \in Hydration!Files :
         \/ promise'[l][f] = promise[l][f]
         \/ promise[l][f] = Hydration!NoPromise /\ promise'[l][f].step = "lookup"
  <2>1. promise'[l] = promise[l] \/ promise'[l] = Hydration!Asked(promise[l], ManifestsOf[s])
    BY DEF Hydration!Continue
  <2>2. promise[l] \in Promises
    OBVIOUS
  <2>3. \A f \in Hydration!Files :
           \/ Hydration!Asked(promise[l], ManifestsOf[s])[f] = promise[l][f]
           \/ /\ promise[l][f] = Hydration!NoPromise
              /\ Hydration!Asked(promise[l], ManifestsOf[s])[f].step = "lookup"
    BY <2>2, AskedBegins
  <2> QED
    BY <2>1, <2>3
<1>3. \A f \in Hydration!Files : Fetched(l, f)'
  BY <1>1, <1>2, FetchedKept DEF Loading
<1>4. ASSUME NEW f \in Hydration!Files, HeldBy(l, f) PROVE HeldBy(l, f)'
  <2>1. promise[l][f] # Hydration!NoPromise
    BY <1>4 DEF HeldBy, Hydration!NoPromise
  <2> QED
    BY <1>2, <1>4, <2>1 DEF HeldBy
<1>5. /\ \A t \in Snapshots \ {s} : waits'[l][t] = waits[l][t]
      /\ \/ waits[l][s] = "list" /\ HeldBy(l, ListOf[s]) /\ waits'[l][s] = "manifests"
         \/ /\ waits[l][s] = "manifests" /\ \A f \in ManifestsOf[s] : HeldBy(l, f)
            /\ waits'[l][s] = "hydrated"
         \/ waits[l][s] \in {"list", "manifests"} /\ aborted[l] /\ waits'[l][s] = "failed"
  BY DEF Hydration!Continue, Hydration!Held, HeldBy
<1>6. \A t \in Snapshots : Waiting(l, t) /\ ManifestsOf[t] \subseteq Hydration!Files
                           /\ (ListOf[t] # None => ListOf[t] \in Hydration!Files)
  BY FilesOfSnapshots DEF Loading
<1>7. ASSUME NEW t \in Snapshots PROVE Waiting(l, t)'
  <2>1. CASE t = s
    BY <1>1, <1>4, <1>5, <1>6, <2>1 DEF Waiting
  <2>2. CASE t # s
    BY <1>1, <1>4, <1>5, <1>6, <2>2 DEF Waiting
  <2> QED
    BY <2>1, <2>2
<1>8. Ended(l)'
  BY <1>1, <1>5 DEF Loading, Ended
<1> QED
  BY <1>3, <1>7, <1>8 DEF Loading

(* Looking up, reading and storing a file change its promise only.          *)
LEMMA LoadFetchStep ==
    ASSUME HydrationSafe, NEW l \in Callers, NEW f \in Hydration!Files,
           Hydration!Lookup(l, f) \/ Hydration!Read(l, f) \/ Hydration!Store(l, f)
    PROVE  Loading(l)'
<1> USE DEF HydrationSafe, HydrationTyping, Promises, Waits
<1>1. UNCHANGED <<load[l], uuid[l], aborted[l], waits[l], failures[l]>> /\ mixed \subseteq mixed'
  BY DEF Hydration!Lookup, Hydration!Read, Hydration!Store
<1>2. \A g \in Hydration!Files \ {f} : promise'[l][g] = promise[l][g] /\ reads'[l][g] = reads[l][g]
  BY ResolvedIs DEF Hydration!Lookup, Hydration!Read, Hydration!Store, PromiseSteps, Promises
<1>3. promise[l][f].step \in {"lookup", "read", "store"} /\ Fetched(l, f)
  BY DEF Hydration!Lookup, Hydration!Read, Hydration!Store, Loading
<1>4. Fetched(l, f)'
  <2>1. CASE Hydration!Lookup(l, f)
    <3>1. /\ UNCHANGED <<reads, mixed>>
          /\ \/ promise'[l][f].step = "read"
             \/ \E entry \in persistent :
                   /\ entry.key = Hydration!CacheKey(uuid[l], f)
                   /\ promise'[l][f].step = "held" /\ promise'[l][f].holds = entry.holds
      BY <2>1, ResolvedIs DEF Hydration!Lookup, PromiseSteps, Promises
    <3>2. ASSUME NEW entry \in persistent, entry.key = Hydration!CacheKey(uuid[l], f),
                 uuid[l] \notin mixed
          PROVE  entry.holds = uuid[l]
      BY <3>2 DEF CacheExact, Hydration!CacheKey
    <3>3. reads[l][f] <= failures[l] /\ reads[l][f] \in Nat /\ failures[l] \in Nat
      BY <1>3, <2>1 DEF Hydration!Lookup, Fetched
    <3> QED
      BY <1>1, <3>1, <3>2, <3>3 DEF Fetched
  <2>2. CASE Hydration!Read(l, f)
    <3>1. /\ promise'[l][f].step = "store" /\ promise'[l][f].holds = generation
          /\ reads'[l][f] = reads[l][f] + 1
          /\ uuid[l] \notin mixed' => generation = uuid[l]
      BY <2>2, ResolvedIs DEF Hydration!Read, PromiseSteps, Promises
    <3>2. reads[l][f] <= failures[l] /\ reads[l][f] \in Nat /\ failures[l] \in Nat
      BY <1>3, <2>2 DEF Hydration!Read, Fetched
    <3> QED
      BY <1>1, <3>1, <3>2 DEF Fetched
  <2>3. CASE Hydration!Store(l, f)
    <3>1. /\ promise'[l][f].step = "held" /\ promise'[l][f].holds = promise[l][f].holds
          /\ UNCHANGED <<reads, mixed>> /\ promise[l][f].step = "store"
      BY <2>3, ResolvedIs DEF Hydration!Store, PromiseSteps, Promises
    <3> QED
      BY <1>1, <1>3, <3>1 DEF Fetched
  <2> QED
    BY <2>1, <2>2, <2>3
<1>5. \A g \in Hydration!Files \ {f} : Fetched(l, g)'
  BY <1>1, <1>2 DEF Loading, Fetched
<1>6. \A g \in Hydration!Files : HeldBy(l, g) => HeldBy(l, g)'
  BY <1>2, <1>3 DEF HeldBy
<1>7. \A s \in Snapshots : Waiting(l, s)'
  BY <1>1, <1>6, FilesOfSnapshots DEF Loading, Waiting
<1>8. Ended(l)'
  BY <1>1, <1>3 DEF Loading, Ended, Hydration!NoPromise
<1> QED
  BY <1>4, <1>5, <1>7, <1>8 DEF Loading

(* A failure of a file is counted, and leaves no promise behind.            *)
LEMMA LoadFailStep ==
    ASSUME HydrationTyping, NEW l \in Callers, Loading(l),
           NEW f \in Hydration!Files, Hydration!Fail(l, f)
    PROVE  Loading(l)'
<1> USE DEF HydrationTyping, Promises, Waits
<1>1. /\ promise[l][f].step \in {"lookup", "read", "store"}
      /\ promise'[l][f] = Hydration!NoPromise /\ failures'[l] = failures[l] + 1
      /\ failures[l] \in Nat
      /\ reads'[l][f] = IF promise[l][f].step = "read" THEN reads[l][f] + 1 ELSE reads[l][f]
      /\ \A g \in Hydration!Files \ {f} :
            promise'[l][g] = promise[l][g] /\ reads'[l][g] = reads[l][g]
      /\ UNCHANGED <<load[l], uuid[l], aborted[l], mixed>>
  BY DEF Hydration!Fail
<1>2. \A s \in Snapshots : \/ waits'[l][s] = "failed" /\ Hydration!WaitsFor(l, s, f)
                           \/ waits'[l][s] = waits[l][s]
  BY DEF Hydration!Fail
<1>3. Fetched(l, f)'
  <2>1. Fetched(l, f) /\ reads[l][f] \in Nat
    BY DEF Loading
  <2> QED
    BY <1>1, <2>1 DEF Fetched, Hydration!NoPromise
<1>4. ASSUME NEW g \in Hydration!Files \ {f} PROVE Fetched(l, g)'
  <2>1. Fetched(l, g) /\ reads[l][g] \in Nat
    BY DEF Loading
  <2> QED
    BY <1>1, <2>1 DEF Fetched
<1>5. \A g \in Hydration!Files : HeldBy(l, g) => HeldBy(l, g)'
  BY <1>1 DEF HeldBy
<1>6. ASSUME NEW s \in Snapshots PROVE Waiting(l, s)'
  <2>1. /\ Waiting(l, s) /\ ManifestsOf[s] \subseteq Hydration!Files
        /\ (ListOf[s] # None => ListOf[s] \in Hydration!Files)
    BY FilesOfSnapshots DEF Loading
  <2>2. failures'[l] > 0
    BY <1>1
  <2>3. waits'[l][s] = "failed" \/ waits'[l][s] = waits[l][s]
    BY <1>2
  <2> QED
    BY <1>1, <1>5, <2>1, <2>2, <2>3 DEF Waiting
<1>7. Ended(l)'
  <2>1. Ended(l) /\ failures'[l] > 0 /\ load'[l] = load[l]
    BY <1>1 DEF Loading
  <2>2. load[l] # "idle"
    BY <1>1, <2>1 DEF Ended, Hydration!NoPromise
  <2>3. load[l] = "loaded" => \A s \in Snapshots : waits'[l][s] = "hydrated"
    <3> SUFFICES ASSUME load[l] = "loaded", NEW s \in Snapshots PROVE waits'[l][s] = "hydrated"
      OBVIOUS
    <3>1. waits[l][s] = "hydrated"
      BY <2>1 DEF Ended
    <3>2. ~Hydration!WaitsFor(l, s, f)
      BY <3>1 DEF Hydration!WaitsFor
    <3> QED
      BY <1>2, <3>1, <3>2
  <2> QED
    BY <2>1, <2>2, <2>3 DEF Ended
<1> QED
  BY <1>3, <1>4, <1>6, <1>7 DEF Loading

(* A load ends when it waits for nothing more, or is aborted.               *)
LEMMA LoadEndStep ==
    ASSUME HydrationTyping, NEW l \in Callers, Loading(l), Hydration!End(l) \/ Hydration!Abort(l)
    PROVE  Loading(l)'
<1>1. UNCHANGED <<uuid, promise, waits, reads, failures, mixed>>
  BY DEF Hydration!End, Hydration!Abort
<1>2. \A f \in Hydration!Files : Fetched(l, f)'
  BY <1>1 DEF Loading, Fetched
<1>3. \A s \in Snapshots : Waiting(l, s)'
  BY <1>1 DEF HydrationTyping, Promises, Waits, Hydration!End, Hydration!Abort, Loading,
              Waiting, HeldBy
<1>4. Ended(l)'
  BY <1>1 DEF HydrationTyping, Promises, Waits, Hydration!End, Hydration!Abort, Loading,
              Ended, Waiting
<1> QED
  BY <1>2, <1>3, <1>4 DEF Loading

(* Every step of every load keeps the invariant.                            *)
LEMMA HydrationSafeStep == HydrationSafe /\ [Hydration!Next]_Hydration!vars => HydrationSafe'
<1> SUFFICES ASSUME HydrationSafe, [Hydration!Next]_Hydration!vars PROVE HydrationSafe'
  OBVIOUS
<1>1. HydrationTyping' /\ CacheExact'
  BY HydrationTypingStep, MetadataCacheStep DEF HydrationSafe
<1>2. mixed \subseteq mixed'
  BY DEF Hydration!Next, Hydration!vars, Hydration!Recreate, Hydration!Start, Hydration!End,
         Hydration!Abort, Hydration!Continue, Hydration!Lookup, Hydration!Read, Hydration!Store,
         Hydration!Fail
<1>3. ASSUME NEW l \in Callers PROVE Loading(l)'
  <2>1. CASE UNCHANGED <<load[l], uuid[l], aborted[l], promise[l], waits[l], reads[l], failures[l]>>
    BY <1>2, <2>1, LoadingKept DEF HydrationSafe
  <2>2. ASSUME NEW k \in Callers \ {l},
               Hydration!Start(k) \/ Hydration!End(k) \/ Hydration!Abort(k)
        PROVE  Loading(l)'
    BY <2>1, <2>2 DEF HydrationSafe, HydrationTyping, Promises, Waits, Hydration!Start,
                      Hydration!End, Hydration!Abort
  <2>3. ASSUME NEW k \in Callers \ {l}, NEW s \in Snapshots, Hydration!Continue(k, s)
        PROVE  Loading(l)'
    BY <2>1, <2>3 DEF HydrationSafe, HydrationTyping, Promises, Waits, Hydration!Continue
  <2>4. ASSUME NEW k \in Callers \ {l}, NEW f \in Hydration!Files,
               \/ Hydration!Lookup(k, f) \/ Hydration!Read(k, f)
               \/ Hydration!Store(k, f) \/ Hydration!Fail(k, f)
        PROVE  Loading(l)'
    <3>1. CASE Hydration!Lookup(k, f) \/ Hydration!Read(k, f) \/ Hydration!Store(k, f)
      <4>1. promise'[l] = promise[l]
        BY <3>1, ResolvedIs DEF HydrationSafe, Hydration!Lookup, Hydration!Read,
                                Hydration!Store, PromiseSteps, HydrationTyping, Promises, Waits
      <4> QED
        BY <2>1, <3>1, <4>1 DEF HydrationSafe, HydrationTyping, Promises, Waits,
                                Hydration!Lookup, Hydration!Read, Hydration!Store
    <3>2. CASE Hydration!Fail(k, f)
      BY <2>1, <3>2 DEF HydrationSafe, HydrationTyping, Promises, Waits, Hydration!Fail
    <3> QED
      BY <2>4, <3>1, <3>2
  <2>5. CASE Hydration!Start(l)
    BY <2>5, LoadStartStep DEF HydrationSafe
  <2>6. CASE Hydration!End(l) \/ Hydration!Abort(l)
    BY <2>6, LoadEndStep DEF HydrationSafe
  <2>7. ASSUME NEW s \in Snapshots, Hydration!Continue(l, s) PROVE Loading(l)'
    BY <2>7, LoadContinueStep DEF HydrationSafe
  <2>8. ASSUME NEW f \in Hydration!Files,
               Hydration!Lookup(l, f) \/ Hydration!Read(l, f) \/ Hydration!Store(l, f)
        PROVE  Loading(l)'
    BY <2>8, LoadFetchStep
  <2>9. ASSUME NEW f \in Hydration!Files, Hydration!Fail(l, f) PROVE Loading(l)'
    BY <2>9, LoadFailStep DEF HydrationSafe
  <2>10. CASE UNCHANGED Hydration!vars \/ Hydration!Recreate
    BY <2>1, <2>10 DEF Hydration!vars, Hydration!Recreate
  <2> QED
    BY <2>2, <2>3, <2>4, <2>5, <2>6, <2>7, <2>8, <2>9, <2>10 DEF Hydration!Next
<1> QED
  BY <1>1, <1>3 DEF HydrationSafe

(* A load that succeeds holds all files of its own table, one that fails    *)
(* has a reason of its own, and no path is read again without a failure,    *)
(* whatever other loads do.                                                 *)
THEOREM HydrationIsExact == Hydration!Spec => []HydrationExact
<1>1. Hydration!Init => HydrationSafe
  BY HydrationSafeInit
<1>2. HydrationSafe /\ [Hydration!Next]_Hydration!vars => HydrationSafe'
  BY HydrationSafeStep
<1>3. HydrationSafe => HydrationExact
  <2> SUFFICES ASSUME HydrationSafe, NEW l \in Callers
               PROVE  /\ load[l] = "loaded" => \A f \in Hydration!Files : HeldBy(l, f)
                      /\ load[l] = "failed" => failures[l] > 0 \/ aborted[l]
                      /\ \A f \in Hydration!Files : Fetched(l, f)
    BY DEF HydrationExact, Hydration!HydrationExact, HeldBy, Fetched
  <2>1. Ended(l) /\ \A s \in Snapshots : Waiting(l, s)
    BY DEF HydrationSafe, Loading
  <2>2. ASSUME load[l] = "loaded", NEW f \in Hydration!Files PROVE HeldBy(l, f)
    <3>1. PICK s \in Snapshots : (ListOf[s] # None /\ f = ListOf[s]) \/ f \in ManifestsOf[s]
      BY DEF Hydration!Files
    <3>2. waits[l][s] = "hydrated"
      BY <2>1, <2>2 DEF Ended
    <3> QED
      BY <2>1, <3>1, <3>2 DEF Waiting
  <2> QED
    BY <2>1, <2>2 DEF Ended, HydrationSafe, Loading
<1> QED
  BY <1>1, <1>2, <1>3, PTL DEF Hydration!Spec
================================================================================
