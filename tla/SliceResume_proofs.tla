--------------------------- MODULE SliceResume_proofs ---------------------------
(***************************************************************************)
(* Proofs about SliceResume: a query read slice by slice is one reading of *)
(* it, for any objects, rows, queries, slice sizes and writes.  Listing,   *)
(* the rows of a listing and DISTINCT are loops: the first lemmas say what *)
(* they return for a part of what they run over, the next ones that an     *)
(* answer over a part begins the answer over the whole, and the invariant  *)
(* says which part a slice has read.                                       *)
(***************************************************************************)
EXTENDS Caches_proofs, SequenceTheorems

(* A loop has one history: two that never part are the same.                *)
LEMMA HistoriesAgree ==
    ASSUME NEW N \in Nat, NEW f, NEW g, g[0] = f[0],
           \A n \in 1 .. N : g[n - 1] = f[n - 1] => g[n] = f[n]
    PROVE  g[N] = f[N]
<1> DEFINE S == {n \in Nat : n <= N => g[n] = f[n]}
<1>1. 0 \in S
  OBVIOUS
<1>2. ASSUME NEW n \in S \cap Nat PROVE n + 1 \in S
  <2> SUFFICES ASSUME n + 1 <= N PROVE g[n + 1] = f[n + 1]
    OBVIOUS
  <2>1. n + 1 \in 1 .. N /\ (n + 1) - 1 = n /\ g[n] = f[n]
    OBVIOUS
  <2> QED
    BY <2>1
<1>3. Nat \subseteq S
  <2> HIDE DEF S
  <2> QED
    BY <1>1, <1>2, Induction
<1> QED
  BY <1>3

(* A sequence begins another.                                               *)
Begins(s, t) == Len(s) <= Len(t) /\ \A i \in 1 .. Len(s) : s[i] = t[i]

(* The first part of a sequence.                                            *)
LEMMA FirstPart ==
    ASSUME NEW T, NEW s \in Seq(T), NEW k \in 0 .. Len(s)
    PROVE  /\ SubSeq(s, 1, k) \in Seq(T) /\ Len(SubSeq(s, 1, k)) = k
           /\ \A i \in 1 .. k : SubSeq(s, 1, k)[i] = s[i]
           /\ Begins(SubSeq(s, 1, k), s)
<1>1. Len(s) \in Nat
  OBVIOUS
<1>2. PICK u : u = SubSeq(s, 1, k)
  OBVIOUS
<1>3. u \in Seq(T)
  BY <1>1, <1>2, SMTT(30)
<1>4. Len(u) = k
  BY <1>1, <1>2, SMTT(30)
<1>5. \A i \in 1 .. k : u[i] = s[i]
  BY <1>1, <1>2, SMTT(30)
<1> QED
  BY <1>1, <1>2, <1>3, <1>4, <1>5 DEF Begins

(* What begins another is its first part.                                   *)
LEMMA BeginsIs ==
    ASSUME NEW T, NEW s \in Seq(T), NEW t \in Seq(T), Begins(s, t)
    PROVE  s = SubSeq(t, 1, Len(s)) /\ (Len(s) = Len(t) => s = t)
<1>1. Len(s) \in Nat /\ Len(t) \in Nat /\ Len(s) <= Len(t)
  BY DEF Begins
<1>2. PICK u : u = SubSeq(t, 1, Len(s))
  OBVIOUS
<1>3. u \in Seq(T) /\ Len(u) = Len(s) /\ \A i \in 1 .. Len(s) : u[i] = t[i]
  BY <1>1, <1>2, FirstPart
<1>4. s = u
  BY <1>3, SeqEqual DEF Begins
<1>5. Len(s) = Len(t) => s = t
  BY SeqEqual DEF Begins
<1> QED
  BY <1>2, <1>4, <1>5

(* What begins a sequence that begins another begins the other.             *)
LEMMA BeginsFollows ==
    ASSUME NEW T, NEW a \in Seq(T), NEW b \in Seq(T), NEW c \in Seq(T),
           Begins(a, b), Begins(b, c)
    PROVE  Begins(a, c)
<1>1. Len(a) \in Nat /\ Len(b) \in Nat /\ Len(c) \in Nat
  OBVIOUS
<1>2. Len(a) <= Len(b) /\ Len(b) <= Len(c)
  BY DEF Begins
<1>3. ASSUME NEW i \in 1 .. Len(a) PROVE a[i] = c[i]
  <2>1. i \in 1 .. Len(b)
    BY <1>1, <1>2
  <2>2. a[i] = b[i]
    BY Zenon DEF Begins
  <2>3. b[i] = c[i]
    BY <2>1, Zenon DEF Begins
  <2> QED
    BY <2>2, <2>3
<1>4. Len(a) <= Len(c)
  BY <1>1, <1>2
<1> QED
  BY <1>3, <1>4, Zenon DEF Begins

(* Each history of a loop that only appends begins the last.                *)
LEMMA HistoriesBegin ==
    ASSUME NEW T, NEW N \in Nat, NEW f \in [0 .. N -> Seq(T)],
           \A n \in 1 .. N : Begins(f[n - 1], f[n]), NEW k \in 0 .. N
    PROVE  Begins(f[k], f[N])
<1> DEFINE S == {n \in Nat : k + n <= N => Begins(f[k], f[k + n])}
<1>1. 0 \in S
  BY DEF Begins
<1>2. ASSUME NEW n \in S \cap Nat PROVE n + 1 \in S
  <2> SUFFICES ASSUME k + (n + 1) <= N PROVE Begins(f[k], f[k + (n + 1)])
    OBVIOUS
  <2>1. k + (n + 1) \in 1 .. N /\ (k + (n + 1)) - 1 = k + n /\ k + n <= N /\ k + n \in 0 .. N
    OBVIOUS
  <2>2. Begins(f[k], f[k + n]) /\ Begins(f[k + n], f[k + (n + 1)])
    BY <2>1
  <2>3. PICK a, b, c \in Seq(T) : a = f[k] /\ b = f[k + n] /\ c = f[k + (n + 1)]
    BY <2>1
  <2>4. Begins(a, b) /\ Begins(b, c) => Begins(a, c)
    BY BeginsFollows
  <2> QED
    BY <2>2, <2>3, <2>4
<1>3. Nat \subseteq S
  <2> HIDE DEF S
  <2> QED
    BY <1>1, <1>2, Induction
<1>4. N - k \in Nat /\ k + (N - k) = N
  OBVIOUS
<1>5. N - k \in S
  <2> HIDE DEF S
  <2> QED
    BY <1>3, <1>4
<1> QED
  BY <1>4, <1>5
--------------------------------------------------------------------------------
(* How the rows of a listing are gathered.                                  *)
Gathers(listing, f) ==
    /\ f \in [0 .. Len(listing) -> Seq(RowSet)]
    /\ f[0] = <<>>
    /\ \A n \in 1 .. Len(listing) :
          f[n] = f[n - 1] \o Rows[listing[n].path][listing[n].version]

(* Every listed object has rows.                                            *)
LEMMA ObjectRows ==
    ASSUME NEW listing \in Seq(Objects), NEW n \in 1 .. Len(listing)
    PROVE  Rows[listing[n].path][listing[n].version] \in Seq(RowSet)
<1>1. listing[n] \in Objects
  OBVIOUS
<1>2. listing[n].path \in 1 .. PathCount /\ listing[n].version \in 1 .. SliceWrites + 1
  BY <1>1 DEF Objects
<1> QED
  BY <1>2, SliceAssumption

(* Every listing has its rows gathered.                                     *)
LEMMA GathersExist ==
    ASSUME NEW listing \in Seq(Objects)
    PROVE  \E f : Gathers(listing, f)
<1> DEFINE N == Len(listing)
           more(n) == Rows[listing[n].path][listing[n].version]
           pass == [n \in 1 .. N |-> [x \in Seq(RowSet) |-> x \o more(n)]]
<1>1. ASSUME NEW n \in 1 .. N, NEW x \in Seq(RowSet) PROVE x \o more(n) \in Seq(RowSet)
  <2>1. more(n) \in Seq(RowSet)
    BY ObjectRows
  <2> HIDE DEF more
  <2> QED
    BY <2>1
<1>2. pass \in [1 .. N -> [Seq(RowSet) -> Seq(RowSet)]]
  <2> HIDE DEF more, N
  <2> QED
    BY <1>1
<1>3. N \in Nat /\ <<>> \in Seq(RowSet)
  OBVIOUS
<1>4. PICK f \in [0 .. N -> Seq(RowSet)] : Runs(f, N, <<>>, pass)
  <2> HIDE DEF pass, N
  <2> QED
    BY <1>2, <1>3, LoopRuns
<1>5. ASSUME NEW n \in 1 .. N PROVE f[n] = f[n - 1] \o more(n)
  <2>1. f[n - 1] \in Seq(RowSet)
    BY <1>3
  <2>2. f[n] = pass[n][f[n - 1]]
    BY <1>4 DEF Runs
  <2> HIDE DEF more, N
  <2> QED
    BY <2>1, <2>2
<1> QED
  BY <1>4, <1>5 DEF Runs, Gathers

(* The gathered rows are the rows of the listing ...                        *)
LEMMA RowsOfIs ==
    ASSUME NEW listing \in Seq(Objects), NEW f, Gathers(listing, f)
    PROVE  Slices!RowsOf(listing) = f[Len(listing)]
<1> DEFINE N == Len(listing)
           more(n) == Rows[listing[n].path][listing[n].version]
           IsRun(g) == g = [n \in 0 .. N |-> IF n = 0 THEN <<>> ELSE g[n - 1] \o more(n)]
<1>0. N \in Nat
  OBVIOUS
<1>1. IsRun(f)
  <2>1. ASSUME NEW n \in 0 .. N PROVE f[n] = IF n = 0 THEN <<>> ELSE f[n - 1] \o more(n)
    <3>1. n # 0 => n \in 1 .. N
      BY <1>0
    <3> QED
      BY <3>1, Zenon DEF Gathers
  <2> QED
    BY <2>1 DEF Gathers
<1>2. Slices!RowsOf(listing) = (CHOOSE g : IsRun(g))[N]
  BY Zenon DEF Slices!RowsOf
<1>3. PICK g : g = (CHOOSE h : IsRun(h)) /\ IsRun(g)
  <2> HIDE DEF IsRun
  <2> QED
    BY <1>1, Zenon
<1>4. \A n \in 0 .. N : g[n] = IF n = 0 THEN <<>> ELSE g[n - 1] \o more(n)
  <2>1. g = [n \in 0 .. N |-> IF n = 0 THEN <<>> ELSE g[n - 1] \o more(n)]
    BY <1>3
  <2> HIDE DEF IsRun, more, N
  <2> QED
    BY <2>1, Zenon
<1>5. g[0] = f[0]
  BY <1>0, <1>4 DEF Gathers
<1>6. ASSUME NEW n \in 1 .. N, g[n - 1] = f[n - 1] PROVE g[n] = f[n]
  <2>1. n \in 0 .. N /\ n # 0
    BY <1>0
  <2>2. f[n] = f[n - 1] \o more(n)
    BY DEF Gathers
  <2> HIDE DEF more, N
  <2> QED
    BY <1>4, <1>6, <2>1, <2>2
<1> HIDE DEF IsRun, N, more
<1>7. g[N] = f[N]
  BY <1>0, <1>5, <1>6, HistoriesAgree
<1> QED
  BY <1>2, <1>3, <1>7 DEF N

(* ... and so are those of a part of it.                                    *)
LEMMA RowsOfPart ==
    ASSUME NEW listing \in Seq(Objects), NEW f, Gathers(listing, f), NEW k \in 0 .. Len(listing)
    PROVE  Slices!RowsOf(SubSeq(listing, 1, k)) = f[k]
<1>1. PICK part : part = SubSeq(listing, 1, k)
  OBVIOUS
<1>2. part \in Seq(Objects) /\ Len(part) = k /\ \A n \in 1 .. k : part[n] = listing[n]
  BY <1>1, FirstPart
<1> DEFINE g == [n \in 0 .. k |-> f[n]]
<1>3. g \in [0 .. k -> Seq(RowSet)] /\ g[0] = <<>> /\ g[k] = f[k]
  BY DEF Gathers
<1>4. ASSUME NEW n \in 1 .. k
      PROVE  g[n] = g[n - 1] \o Rows[part[n].path][part[n].version]
  <2>1. n \in 1 .. Len(listing) /\ n - 1 \in 0 .. k /\ n \in 0 .. k
    OBVIOUS
  <2>2. f[n] = f[n - 1] \o Rows[listing[n].path][listing[n].version]
    BY <2>1 DEF Gathers
  <2> QED
    BY <1>2, <2>1, <2>2
<1>5. Gathers(part, g)
  <2> HIDE DEF g
  <2> QED
    BY <1>2, <1>3, <1>4 DEF Gathers
<1> HIDE DEF g
<1> QED
  BY <1>1, <1>2, <1>3, <1>5, RowsOfIs

(* The rows of the next object are added, and what was read begins what     *)
(* there is to read.                                                        *)
LEMMA RowsOfNext ==
    ASSUME NEW listing \in Seq(Objects), NEW k \in 0 .. Len(listing)
    PROVE  /\ Slices!RowsOf(SubSeq(listing, 1, k)) \in Seq(RowSet)
           /\ k = 0 => Slices!RowsOf(SubSeq(listing, 1, k)) = <<>>
           /\ k = Len(listing) =>
                 Slices!RowsOf(SubSeq(listing, 1, k)) = Slices!RowsOf(listing)
           /\ k < Len(listing) =>
                 Slices!RowsOf(SubSeq(listing, 1, k + 1))
                 = Slices!RowsOf(SubSeq(listing, 1, k))
                   \o Rows[listing[k + 1].path][listing[k + 1].version]
           /\ Begins(Slices!RowsOf(SubSeq(listing, 1, k)), Slices!RowsOf(listing))
<1>0. Len(listing) \in Nat
  OBVIOUS
<1>1. PICK f : Gathers(listing, f)
  BY GathersExist
<1>2. Slices!RowsOf(SubSeq(listing, 1, k)) = f[k] /\ Slices!RowsOf(listing) = f[Len(listing)]
  BY <1>1, RowsOfPart, RowsOfIs
<1>3. f \in [0 .. Len(listing) -> Seq(RowSet)] /\ f[0] = <<>>
  BY <1>1 DEF Gathers
<1>4. ASSUME NEW n \in 1 .. Len(listing)
      PROVE  /\ f[n] = f[n - 1] \o Rows[listing[n].path][listing[n].version]
             /\ Begins(f[n - 1], f[n])
  <2>1. PICK more \in Seq(RowSet) : more = Rows[listing[n].path][listing[n].version]
    BY ObjectRows
  <2>2. f[n] = f[n - 1] \o more
    BY <1>1, <2>1 DEF Gathers
  <2>3. PICK before \in Seq(RowSet) : before = f[n - 1]
    BY <1>3
  <2>4. Begins(before, before \o more)
    BY DEF Begins
  <2> QED
    BY <2>1, <2>2, <2>3, <2>4
<1>5. ASSUME k < Len(listing)
      PROVE  Slices!RowsOf(SubSeq(listing, 1, k + 1))
             = f[k] \o Rows[listing[k + 1].path][listing[k + 1].version]
  <2>1. k + 1 \in 1 .. Len(listing) /\ k + 1 \in 0 .. Len(listing) /\ (k + 1) - 1 = k
    BY <1>0, <1>5
  <2>2. Slices!RowsOf(SubSeq(listing, 1, k + 1)) = f[k + 1]
    BY <1>1, <2>1, RowsOfPart
  <2> QED
    BY <1>4, <2>1, <2>2
<1>6. Begins(f[k], f[Len(listing)])
  BY <1>0, <1>3, <1>4, HistoriesBegin
<1> QED
  BY <1>2, <1>3, <1>5, <1>6
--------------------------------------------------------------------------------
(* How DISTINCT sifts rows.                                                 *)
Sifts(rows, f) ==
    /\ f \in [0 .. Len(rows) -> Seq(RowSet)]
    /\ f[0] = <<>>
    /\ \A n \in 1 .. Len(rows) :
          f[n] = IF \E m \in 1 .. n - 1 : rows[m] = rows[n] THEN f[n - 1]
                 ELSE Append(f[n - 1], rows[n])

(* Any rows can be sifted.                                                  *)
LEMMA SiftsExist ==
    ASSUME NEW rows \in Seq(RowSet)
    PROVE  \E f : Sifts(rows, f)
<1> DEFINE N == Len(rows)
           old(n) == \E m \in 1 .. n - 1 : rows[m] = rows[n]
           pass == [n \in 1 .. N |-> [x \in Seq(RowSet) |->
                       IF old(n) THEN x ELSE Append(x, rows[n])]]
<1>1. ASSUME NEW n \in 1 .. N, NEW x \in Seq(RowSet)
      PROVE  (IF old(n) THEN x ELSE Append(x, rows[n])) \in Seq(RowSet)
  <2>1. rows[n] \in RowSet
    OBVIOUS
  <2> HIDE DEF old
  <2> QED
    BY <2>1
<1>2. pass \in [1 .. N -> [Seq(RowSet) -> Seq(RowSet)]]
  <2> HIDE DEF old, N
  <2> QED
    BY <1>1
<1>3. N \in Nat /\ <<>> \in Seq(RowSet)
  OBVIOUS
<1>4. PICK f \in [0 .. N -> Seq(RowSet)] : Runs(f, N, <<>>, pass)
  <2> HIDE DEF pass, N
  <2> QED
    BY <1>2, <1>3, LoopRuns
<1>5. ASSUME NEW n \in 1 .. N
      PROVE  f[n] = IF old(n) THEN f[n - 1] ELSE Append(f[n - 1], rows[n])
  <2>1. f[n - 1] \in Seq(RowSet)
    BY <1>3
  <2>2. f[n] = pass[n][f[n - 1]]
    BY <1>4 DEF Runs
  <2> HIDE DEF old, N
  <2> QED
    BY <2>1, <2>2
<1> QED
  BY <1>4, <1>5 DEF Runs, Sifts

(* The sifted rows are the distinct ones ...                                *)
LEMMA DistinctIs ==
    ASSUME NEW rows \in Seq(RowSet), NEW f, Sifts(rows, f)
    PROVE  Slices!Distinct(rows) = f[Len(rows)]
<1> DEFINE N == Len(rows)
           old(n) == \E m \in 1 .. n - 1 : rows[m] = rows[n]
           IsRun(g) == g = [n \in 0 .. N |->
                               IF n = 0 THEN <<>>
                               ELSE IF old(n) THEN g[n - 1] ELSE Append(g[n - 1], rows[n])]
<1>0. N \in Nat
  OBVIOUS
<1>1. IsRun(f)
  <2>1. ASSUME NEW n \in 0 .. N
        PROVE  f[n] = IF n = 0 THEN <<>>
                      ELSE IF old(n) THEN f[n - 1] ELSE Append(f[n - 1], rows[n])
    <3>1. n # 0 => n \in 1 .. N
      BY <1>0
    <3> QED
      BY <3>1, Zenon DEF Sifts
  <2>2. f = [n \in 0 .. N |-> f[n]]
    BY DEF Sifts
  <2> HIDE DEF old, N
  <2> QED
    BY <2>1, <2>2, Zenon
<1>2. Slices!Distinct(rows) = (CHOOSE g : IsRun(g))[N]
  BY Zenon DEF Slices!Distinct
<1>3. PICK g : g = (CHOOSE h : IsRun(h)) /\ IsRun(g)
  <2> HIDE DEF IsRun
  <2> QED
    BY <1>1, Zenon
<1>4. \A n \in 0 .. N : g[n] = IF n = 0 THEN <<>>
                                ELSE IF old(n) THEN g[n - 1] ELSE Append(g[n - 1], rows[n])
  <2>1. g = [n \in 0 .. N |-> IF n = 0 THEN <<>>
                               ELSE IF old(n) THEN g[n - 1] ELSE Append(g[n - 1], rows[n])]
    BY <1>3
  <2> HIDE DEF IsRun, old, N
  <2> QED
    BY <2>1, Zenon
<1>5. g[0] = f[0]
  BY <1>0, <1>4 DEF Sifts
<1>6. ASSUME NEW n \in 1 .. N, g[n - 1] = f[n - 1] PROVE g[n] = f[n]
  <2>1. n \in 0 .. N /\ n # 0
    BY <1>0
  <2>2. f[n] = IF old(n) THEN f[n - 1] ELSE Append(f[n - 1], rows[n])
    BY DEF Sifts
  <2> HIDE DEF old, N
  <2> QED
    BY <1>4, <1>6, <2>1, <2>2
<1> HIDE DEF IsRun, N, old
<1>7. g[N] = f[N]
  BY <1>0, <1>5, <1>6, HistoriesAgree
<1> QED
  BY <1>2, <1>3, <1>7 DEF N

(* ... and so are those of a part, which begin those of the whole.          *)
LEMMA DistinctBegins ==
    ASSUME NEW part \in Seq(RowSet), NEW rows \in Seq(RowSet), Begins(part, rows)
    PROVE  /\ Slices!Distinct(part) \in Seq(RowSet) /\ Slices!Distinct(rows) \in Seq(RowSet)
           /\ Begins(Slices!Distinct(part), Slices!Distinct(rows))
<1>0. Len(part) \in 0 .. Len(rows) /\ Len(rows) \in Nat
  BY DEF Begins
<1>1. PICK f : Sifts(rows, f)
  BY SiftsExist
<1> DEFINE g == [n \in 0 .. Len(part) |-> f[n]]
<1>2. /\ f \in [0 .. Len(rows) -> Seq(RowSet)] /\ f[0] = <<>>
      /\ g \in [0 .. Len(part) -> Seq(RowSet)] /\ g[0] = <<>> /\ g[Len(part)] = f[Len(part)]
  BY <1>0, <1>1 DEF Sifts
<1>3. ASSUME NEW n \in 1 .. Len(part)
      PROVE  g[n] = IF \E m \in 1 .. n - 1 : part[m] = part[n] THEN g[n - 1]
                    ELSE Append(g[n - 1], part[n])
  <2>1. n \in 1 .. Len(rows) /\ n - 1 \in 0 .. Len(part) /\ n \in 0 .. Len(part)
    BY <1>0
  <2>2. f[n] = IF \E m \in 1 .. n - 1 : rows[m] = rows[n] THEN f[n - 1]
               ELSE Append(f[n - 1], rows[n])
    BY <1>1, <2>1 DEF Sifts
  <2>3. part[n] = rows[n] /\ \A m \in 1 .. n - 1 : part[m] = rows[m]
    <3>1. \A m \in 1 .. n - 1 : m \in 1 .. Len(part)
      BY <1>0
    <3> QED
      BY <3>1 DEF Begins
  <2>4. g[n] = f[n] /\ g[n - 1] = f[n - 1]
    BY <2>1
  <2> HIDE DEF g
  <2> QED
    BY <2>2, <2>3, <2>4, Zenon
<1>4. Sifts(part, g)
  <2> HIDE DEF g
  <2> QED
    BY <1>2, <1>3 DEF Sifts
<1>5. Slices!Distinct(rows) = f[Len(rows)] /\ Slices!Distinct(part) = f[Len(part)]
  <2> HIDE DEF g
  <2> QED
    BY <1>1, <1>2, <1>4, DistinctIs
<1>6. ASSUME NEW n \in 1 .. Len(rows) PROVE Begins(f[n - 1], f[n])
  <2>1. rows[n] \in RowSet /\ n - 1 \in 0 .. Len(rows)
    BY <1>0
  <2>2. PICK before \in Seq(RowSet) : before = f[n - 1]
    BY <1>2, <2>1
  <2>3. f[n] = before \/ f[n] = Append(before, rows[n])
    BY <1>1, <2>2 DEF Sifts
  <2>4. Begins(before, before) /\ Begins(before, Append(before, rows[n]))
    BY <2>1 DEF Begins
  <2> QED
    BY <2>2, <2>3, <2>4
<1>7. Begins(f[Len(part)], f[Len(rows)])
  BY <1>0, <1>2, <1>6, HistoriesBegin
<1> QED
  BY <1>0, <1>2, <1>5, <1>7

(* A stretch of a sequence.                                                 *)
LEMMA Stretch ==
    ASSUME NEW T, NEW s \in Seq(T), NEW m \in Nat, NEW n \in 0 .. Len(s)
    PROVE  /\ SubSeq(s, m + 1, n) \in Seq(T)
           /\ Len(SubSeq(s, m + 1, n)) = IF m < n THEN n - m ELSE 0
           /\ \A i \in 1 .. n - m : SubSeq(s, m + 1, n)[i] = s[m + i]
<1>1. Len(s) \in Nat
  OBVIOUS
<1>2. PICK u : u = SubSeq(s, m + 1, n)
  OBVIOUS
<1>3. u \in Seq(T)
  BY <1>1, <1>2, SMTT(30)
<1>4. Len(u) = IF m < n THEN n - m ELSE 0
  BY <1>1, <1>2, SMTT(30)
<1>5. \A i \in 1 .. n - m : u[i] = s[m + i]
  BY <1>1, <1>2, SMTT(30)
<1> QED
  BY <1>2, <1>3, <1>4, <1>5

Clauses == [distinct : BOOLEAN, offset : Nat, limit : Nat \cup {None}]

(* The answer over some of the rows begins the answer over all, and is all  *)
(* of it when it has as many rows as the limit.                             *)
LEMMA AnswerBegins ==
    ASSUME NEW query \in Clauses,
           NEW part \in Seq(RowSet), NEW rows \in Seq(RowSet), Begins(part, rows)
    PROVE  /\ Slices!Answer(query, part) \in Seq(RowSet)
           /\ Slices!Answer(query, rows) \in Seq(RowSet)
           /\ Begins(Slices!Answer(query, part), Slices!Answer(query, rows))
           /\ query.limit # None /\ Len(Slices!Answer(query, part)) >= query.limit =>
                 Slices!Answer(query, part) = Slices!Answer(query, rows)
<1>1. query.offset \in Nat /\ (query.limit # None => query.limit \in Nat)
  BY DEF Clauses
<1>2. PICK o \in Nat : o = query.offset
  BY <1>1
<1> DEFINE kept(r) == IF query.distinct THEN Slices!Distinct(r) ELSE r
           end(r) == IF query.limit = None THEN Len(kept(r)) ELSE o + query.limit
           cut(r) == IF end(r) < Len(kept(r)) THEN end(r) ELSE Len(kept(r))
<1>3. /\ Slices!Answer(query, part) = SubSeq(kept(part), o + 1, cut(part))
      /\ Slices!Answer(query, rows) = SubSeq(kept(rows), o + 1, cut(rows))
  BY <1>2 DEF Slices!Answer
<1>4. PICK k, l \in Seq(RowSet) : k = kept(part) /\ l = kept(rows) /\ Begins(k, l)
  BY DistinctBegins
<1>5. PICK m, n \in Nat : /\ m = cut(part) /\ m <= Len(k) /\ n = cut(rows) /\ n <= Len(l)
                          /\ m <= n
                          /\ query.limit = None => m = Len(k) /\ n = Len(l)
                          /\ query.limit # None => /\ m <= o + query.limit /\ n <= o + query.limit
  <2>0. Len(k) \in Nat /\ Len(l) \in Nat /\ Len(k) <= Len(l)
    BY <1>4 DEF Begins
  <2>1. CASE query.limit = None
    <3>1. cut(part) = Len(k) /\ cut(rows) = Len(l)
      BY <1>4, <2>0, <2>1
    <3> QED
      BY <2>0, <2>1, <3>1
  <2>2. CASE query.limit # None
    <3>1. PICK t \in Nat : t = o + query.limit
      BY <1>1, <2>2
    <3>2. /\ cut(part) = IF t < Len(k) THEN t ELSE Len(k)
          /\ cut(rows) = IF t < Len(l) THEN t ELSE Len(l)
      BY <1>4, <2>2, <3>1
    <3> HIDE DEF cut
    <3>3. PICK m, n \in Nat : m = cut(part) /\ n = cut(rows)
      BY <2>0, <3>1, <3>2
    <3>4. m <= Len(k) /\ n <= Len(l) /\ m <= n /\ m <= t /\ n <= t
      BY <2>0, <3>1, <3>2, <3>3
    <3> QED
      BY <2>2, <3>1, <3>3, <3>4, Zenon
  <2> QED
    BY <2>1, <2>2
<1> HIDE DEF kept, cut, end
<1>6. PICK a, b : a = SubSeq(k, o + 1, m) /\ b = SubSeq(l, o + 1, n)
  OBVIOUS
<1>7. /\ a \in Seq(RowSet) /\ Len(a) = (IF o < m THEN m - o ELSE 0)
      /\ \A i \in 1 .. m - o : a[i] = k[o + i]
      /\ b \in Seq(RowSet) /\ Len(b) = (IF o < n THEN n - o ELSE 0)
      /\ \A i \in 1 .. n - o : b[i] = l[o + i]
  <2>1. m \in 0 .. Len(k) /\ n \in 0 .. Len(l)
    BY <1>5
  <2> QED
    BY <1>6, <2>1, Stretch
<1>8. Begins(a, b)
  <2>1. Len(a) <= Len(b)
    BY <1>5, <1>7
  <2>2. ASSUME NEW i \in 1 .. Len(a) PROVE a[i] = b[i]
    <3>1. o < m /\ i \in 1 .. m - o /\ i \in 1 .. n - o /\ o + i \in 1 .. m
      BY <1>5, <1>7
    <3>2. o + i \in 1 .. Len(k)
      BY <1>5, <3>1
    <3> QED
      BY <1>4, <1>7, <3>1, <3>2 DEF Begins
  <2> QED
    BY <2>1, <2>2 DEF Begins
<1>9. ASSUME query.limit # None, Len(a) >= query.limit PROVE a = b
  <2>1. PICK t \in Nat : t = query.limit
    BY <1>1, <1>9
  <2>2. Len(b) <= t /\ Len(a) >= t /\ Len(a) <= Len(b) /\ Len(a) \in Nat /\ Len(b) \in Nat
    <3>1. n <= o + t
      BY <1>5, <1>9, <2>1
    <3>2. Len(b) <= t
      BY <1>7, <3>1
    <3> QED
      BY <1>7, <1>8, <1>9, <2>1, <3>2 DEF Begins
  <2>3. Len(a) = Len(b)
    BY <2>2
  <2> QED
    BY <1>7, <1>8, <2>3, BeginsIs
<1>10. Slices!Answer(query, part) = a /\ Slices!Answer(query, rows) = b
  BY <1>3, <1>4, <1>5, <1>6
<1> QED
  BY <1>7, <1>8, <1>9, <1>10
--------------------------------------------------------------------------------
(* Types of what the slices keep.                                           *)
SliceTyping ==
    /\ writes \in 1 .. SliceWrites + 1
    /\ objects \in [1 .. PathCount -> 0 .. writes]
    /\ setup \in Slices!Setups
    /\ remembered \in Seq(Objects) \cup {None}
    /\ step \in {"idle", "planned", "reading", "done", "stale", "failed"}
    /\ plan \in Seq(Prints)
    /\ queue \in Seq(Objects) /\ basis \in Seq(Objects)
    /\ read \in Seq(RowSet) /\ out \in Seq(RowSet)
    /\ bookmark \in Bookmarks \cup {None}
    /\ unseen \in BOOLEAN

(* No slice has listed anything yet.                                        *)
Untouched == bookmark = None /\ step = "idle"

(* A planning cache holds the first listing, the bookmark and the plan the  *)
(* fingerprint of it; a slice that reads what it listed reads what was      *)
(* there; and one is refused or fails for the changes it saw.               *)
Planned ==
    /\ remembered = IF setup.cached /\ ~Untouched THEN basis ELSE None
    /\ bookmark # None => bookmark.planFingerprint = Slices!Fingerprint(basis)
    /\ step \in {"planned", "reading"} => plan = Slices!Fingerprint(basis)
    /\ step \in {"planned", "reading"} /\ ~unseen => Slices!Listing = basis
    /\ step = "stale" => ~setup.cached /\ Slices!Listing # basis
    /\ step = "failed" => unseen

(* A slice has read the first objects of the listing and has the others     *)
(* before it.                                                               *)
ReadSoFar ==
    step = "reading" /\ ~unseen =>
        \E k \in 0 .. Len(basis) :
            /\ queue = SubSeq(basis, k + 1, Len(basis))
            /\ read = Slices!RowsOf(SubSeq(basis, 1, k))

(* A change the fingerprints could not tell, or DISTINCT dropped by resume. *)
Excused == unseen \/ (setup.resume = "lake" /\ setup.query.distinct)

Whole == Slices!Answer(setup.query, Slices!RowsOf(basis))

(* What the slices have delivered ends where the bookmark says.             *)
Delivered ==
    /\ step = "done" => out = Whole
    /\ step # "done" => /\ Slices!StartOffset <= Len(Whole)
                        /\ out = SubSeq(Whole, 1, Slices!StartOffset)

SliceSafe == SliceTyping /\ Planned /\ ReadSoFar /\ (Excused \/ Delivered)

(* The objects that are there.                                              *)
Current == {o \in Objects : objects[o.path] = o.version}

(* A listing is of what is there.                                           *)
LEMMA ListingIs ==
    ASSUME SliceTyping
    PROVE  Slices!Listing \in Seq(Current) /\ Slices!Listing \in Seq(Objects)
<1> DEFINE N == PathCount
           there(p) == [path |-> p, version |-> objects[p]]
           pass == [p \in 1 .. N |-> [x \in Seq(Current) |->
                       IF objects[p] = 0 THEN x ELSE Append(x, there(p))]]
           IsRun(g) == g = [p \in 0 .. N |->
                               IF p = 0 THEN <<>>
                               ELSE IF objects[p] = 0 THEN g[p - 1]
                               ELSE Append(g[p - 1], there(p))]
<1>0. N \in Nat /\ SliceWrites \in Nat /\ <<>> \in Seq(Current)
  BY SliceAssumption
<1>1. ASSUME NEW p \in 1 .. N, NEW x \in Seq(Current)
      PROVE  (IF objects[p] = 0 THEN x ELSE Append(x, there(p))) \in Seq(Current)
  <2>1. CASE objects[p] = 0
    BY <2>1
  <2>2. CASE objects[p] # 0
    <3>1. objects[p] \in 1 .. SliceWrites + 1
      BY <1>0, <2>2 DEF SliceTyping
    <3>2. there(p) \in Current
      BY <3>1 DEF Current, Objects
    <3> HIDE DEF there
    <3> QED
      BY <2>2, <3>2
  <2> QED
    BY <2>1, <2>2
<1>2. pass \in [1 .. N -> [Seq(Current) -> Seq(Current)]]
  <2> HIDE DEF there, N
  <2> QED
    BY <1>1
<1>3. PICK f \in [0 .. N -> Seq(Current)] : Runs(f, N, <<>>, pass)
  <2> HIDE DEF pass, N
  <2> QED
    BY <1>0, <1>2, LoopRuns
<1>4. ASSUME NEW p \in 1 .. N
      PROVE  f[p] = IF objects[p] = 0 THEN f[p - 1] ELSE Append(f[p - 1], there(p))
  <2>1. f[p - 1] \in Seq(Current)
    BY <1>0
  <2>2. f[p] = pass[p][f[p - 1]]
    BY <1>3 DEF Runs
  <2> HIDE DEF there, N
  <2> QED
    BY <2>1, <2>2
<1>5. f[0] = <<>>
  BY <1>3 DEF Runs
<1>6. IsRun(f)
  <2>1. ASSUME NEW p \in 0 .. N
        PROVE  f[p] = IF p = 0 THEN <<>>
                      ELSE IF objects[p] = 0 THEN f[p - 1] ELSE Append(f[p - 1], there(p))
    <3>1. p # 0 => p \in 1 .. N
      BY <1>0
    <3> HIDE DEF there, N
    <3> QED
      BY <1>4, <1>5, <3>1, Zenon
  <2>2. f = [p \in 0 .. N |-> f[p]]
    OBVIOUS
  <2> HIDE DEF there, N
  <2> QED
    BY <2>1, <2>2, Zenon
<1>7. Slices!Listing = (CHOOSE g : IsRun(g))[N]
  BY Zenon DEF Slices!Listing
<1>8. PICK g : g = (CHOOSE h : IsRun(h)) /\ IsRun(g)
  <2> HIDE DEF IsRun
  <2> QED
    BY <1>6, Zenon
<1>9. \A p \in 0 .. N : g[p] = IF p = 0 THEN <<>>
                                ELSE IF objects[p] = 0 THEN g[p - 1]
                                ELSE Append(g[p - 1], there(p))
  <2>1. g = [p \in 0 .. N |-> IF p = 0 THEN <<>>
                               ELSE IF objects[p] = 0 THEN g[p - 1]
                               ELSE Append(g[p - 1], there(p))]
    BY <1>8
  <2> HIDE DEF IsRun, there, N
  <2> QED
    BY <2>1, Zenon
<1>10. g[0] = f[0]
  <2>1. 0 \in 0 .. N
    BY <1>0
  <2> HIDE DEF there, N
  <2> QED
    BY <1>5, <1>9, <2>1, Zenon
<1>11. ASSUME NEW p \in 1 .. N, g[p - 1] = f[p - 1] PROVE g[p] = f[p]
  <2>1. p \in 0 .. N /\ p # 0
    BY <1>0
  <2> HIDE DEF there, N
  <2> QED
    BY <1>4, <1>9, <1>11, <2>1
<1> HIDE DEF IsRun, N, there
<1>12. g[N] = f[N]
  BY <1>0, <1>10, <1>11, HistoriesAgree
<1>13. Slices!Listing \in Seq(Current)
  <2>1. f[N] \in Seq(Current)
    BY <1>0
  <2> QED
    BY <1>7, <1>8, <1>12, <2>1
<1>14. Current \subseteq Objects
  BY DEF Current
<1> QED
  BY <1>13, <1>14, SeqMonotonic

(* A listing changes with the objects only, a fingerprint with the setup.   *)
LEMMA ListingKept == UNCHANGED objects => Slices!Listing' = Slices!Listing
BY DEF Slices!Listing

LEMMA FingerprintKept ==
    UNCHANGED setup =>
        \A listing : (Slices!Fingerprint(listing) = Slices!Fingerprint(listing)')
BY DEF Slices!Fingerprint

(* A fingerprint of a listing can be kept in a bookmark.                    *)
LEMMA FingerprintIs ==
    ASSUME SliceTyping, NEW listing \in Seq(Objects)
    PROVE  Slices!Fingerprint(listing) \in Seq(Prints)
<1>1. Len(listing) \in Nat /\ DOMAIN listing = 1 .. Len(listing)
  OBVIOUS
<1>2. ASSUME NEW i \in 1 .. Len(listing)
      PROVE  <<listing[i].path, Size[listing[i].version],
               IF setup.etags THEN listing[i].version ELSE None>> \in Prints
  <2>1. listing[i] \in Objects
    OBVIOUS
  <2>2. listing[i].path \in 1 .. PathCount /\ listing[i].version \in 1 .. SliceWrites + 1
    BY <2>1 DEF Objects
  <2>3. Size[listing[i].version] \in Nat
    BY <2>2, SliceAssumption
  <2> QED
    BY <2>2, <2>3 DEF Prints
<1>3. PICK n \in Nat : n = Len(listing)
  BY <1>1
<1>4. Slices!Fingerprint(listing) \in [1 .. n -> Prints]
  BY <1>1, <1>2, <1>3 DEF Slices!Fingerprint
<1> QED
  BY <1>3, <1>4, SeqDef

(* The answer over a listing is rows.                                       *)
LEMMA AnswerIs ==
    ASSUME NEW query \in Clauses, NEW listing \in Seq(Objects)
    PROVE  /\ Slices!Answer(query, Slices!RowsOf(listing)) \in Seq(RowSet)
           /\ Len(Slices!Answer(query, Slices!RowsOf(listing))) \in Nat
           /\ SubSeq(Slices!Answer(query, Slices!RowsOf(listing)), 1, 0) = <<>>
<1>1. PICK rows \in Seq(RowSet) : rows = Slices!RowsOf(listing)
  <2>1. Len(listing) \in 0 .. Len(listing)
    OBVIOUS
  <2> QED
    BY <2>1, RowsOfNext
<1>2. Begins(rows, rows)
  BY DEF Begins
<1>3. PICK answer \in Seq(RowSet) : answer = Slices!Answer(query, rows)
  BY <1>2, AnswerBegins
<1>4. Len(answer) \in Nat /\ SubSeq(answer, 1, 0) = <<>>
  OBVIOUS
<1> QED
  BY <1>1, <1>3, <1>4

(* The whole answer is rows.                                                *)
LEMMA WholeIs ==
    SliceTyping => /\ Whole \in Seq(RowSet) /\ Len(Whole) \in Nat
                   /\ SubSeq(Whole, 1, 0) = <<>>
BY AnswerIs, SliceAssumption DEF SliceTyping, Slices!Setups, Whole, Clauses

(* At the start nothing is listed, read or delivered.                       *)
LEMMA SliceInit == Slices!Init => SliceSafe
<1> SUFFICES ASSUME Slices!Init PROVE SliceSafe
  OBVIOUS
<1> USE DEF Slices!Init
<1>0. PathCount \in Nat /\ SliceWrites \in Nat
  BY SliceAssumption
<1>1. SliceTyping
  <2>1. objects \in [1 .. PathCount -> 0 .. writes] /\ writes \in 1 .. SliceWrites + 1
    BY <1>0 DEF Slices!PathNumbers
  <2>2. /\ <<>> \in Seq(Objects) /\ <<>> \in Seq(Prints) /\ <<>> \in Seq(RowSet)
    OBVIOUS
  <2> QED
    BY <2>1, <2>2 DEF SliceTyping
<1>2. Planned /\ ReadSoFar
  BY DEF Planned, ReadSoFar, Untouched
<1>3. Delivered
  BY <1>1, WholeIs DEF Delivered, Slices!StartOffset
<1> QED
  BY <1>1, <1>2, <1>3 DEF SliceSafe

(* Planning lists the objects and compares the bookmark.                    *)
LEMMA PlanStep ==
    ASSUME SliceSafe, Slices!Plan
    PROVE  SliceSafe'
<1> DEFINE listed == Slices!Expanded
<1>1. /\ SliceTyping /\ Planned /\ (Excused \/ Delivered)
      /\ step = "idle"
      /\ UNCHANGED <<objects, writes, setup, queue, read, bookmark, out>>
  BY DEF SliceSafe, Slices!Plan
<1>2. /\ Slices!Listing \in Seq(Objects) /\ Slices!Listing # None
      /\ listed = IF setup.cached /\ ~Untouched THEN basis ELSE Slices!Listing
      /\ listed \in Seq(Objects)
      /\ remembered' = IF setup.cached THEN listed ELSE None
      /\ basis' = IF bookmark = None THEN Slices!Listing ELSE basis
  <2>1. Slices!Listing \in Seq(Objects)
    BY <1>1, ListingIs
  <2>2. basis \in Seq(Objects) /\ None \notin Seq(Objects)
    BY <1>1, SliceAssumption DEF SliceTyping
  <2>3. listed = IF setup.cached /\ ~Untouched THEN basis ELSE Slices!Listing
    BY <1>1, <2>2 DEF Slices!Expanded, Planned
  <2>4. /\ remembered' = IF setup.cached THEN listed ELSE None
        /\ basis' = IF bookmark = None THEN Slices!Listing ELSE basis
    BY DEF Slices!Plan, Slices!Remember
  <2> QED
    BY <2>1, <2>2, <2>3, <2>4
<1>3. /\ Slices!Listing' = Slices!Listing
      /\ \A listing : Slices!Fingerprint(listing)' = Slices!Fingerprint(listing)
  BY <1>1, ListingKept, FingerprintKept
<1>4. /\ plan' = Slices!Fingerprint(listed)
      /\ step' \in {"planned", "stale"}
      /\ step' = "planned" <=> (bookmark = None \/ bookmark.planFingerprint = plan')
      /\ unseen' = (unseen \/ (/\ bookmark # None /\ bookmark.planFingerprint = plan'
                              /\ Slices!Listing # basis))
  BY DEF Slices!Plan, Slices!Matches
<1> HIDE DEF listed
<1>5. SliceTyping'
  <2>1. plan' \in Seq(Prints)
    BY <1>1, <1>2, <1>4, FingerprintIs
  <2> QED
    BY <1>1, <1>2, <1>4, <2>1 DEF SliceTyping
<1>6. Planned'
  <2>1. CASE bookmark = None
    <3>1. basis' = Slices!Listing /\ listed = Slices!Listing /\ step' = "planned"
      BY <1>1, <1>2, <1>4, <2>1 DEF Untouched
    <3> QED
      BY <1>1, <1>2, <1>3, <1>4, <2>1, <3>1 DEF Planned, Untouched
  <2>2. CASE bookmark # None
    <3>1. basis' = basis /\ bookmark.planFingerprint = Slices!Fingerprint(basis)
      BY <1>1, <1>2, <2>2 DEF Planned
    <3>2. setup.cached => listed = basis
      BY <1>2, <2>2 DEF Untouched
    <3>3. ~setup.cached => listed = Slices!Listing
      BY <1>2
    <3> QED
      BY <1>1, <1>2, <1>3, <1>4, <2>2, <3>1, <3>2, <3>3 DEF Planned, Untouched
  <2> QED
    BY <2>1, <2>2
<1>7. ReadSoFar'
  BY <1>4 DEF ReadSoFar
<1>8. Excused' \/ Delivered'
  <2>1. CASE Excused
    BY <1>1, <1>4, <2>1 DEF Excused
  <2>2. CASE Delivered /\ bookmark = None
    <3>1. out = <<>>
      BY <1>1, <2>2, WholeIs DEF Delivered, Slices!StartOffset
    <3>2. Len(Whole') \in Nat /\ SubSeq(Whole', 1, 0) = <<>>
      BY <1>5, AnswerIs, SliceAssumption DEF SliceTyping, Slices!Setups, Whole, Clauses
    <3>3. Slices!StartOffset' = 0
      BY <1>1, <2>2 DEF Slices!StartOffset
    <3> QED
      BY <1>1, <1>4, <3>1, <3>2, <3>3 DEF Delivered
  <2>3. CASE Delivered /\ bookmark # None
    <3>1. Whole' = Whole
      BY <1>1, <1>2, <2>3 DEF Whole
    <3>2. Slices!StartOffset' = Slices!StartOffset
      BY <1>1 DEF Slices!StartOffset
    <3> QED
      BY <1>1, <1>4, <2>3, <3>1, <3>2 DEF Delivered
  <2> QED
    BY <1>1, <2>1, <2>2, <2>3
<1> QED
  BY <1>5, <1>6, <1>7, <1>8 DEF SliceSafe

(* The second listing of a slice is the first one, or a change was unseen.  *)
LEMMA OpenStep ==
    ASSUME SliceSafe, Slices!Open
    PROVE  SliceSafe'
<1> DEFINE listed == Slices!Expanded
<1>1. /\ SliceTyping /\ Planned /\ (Excused \/ Delivered)
      /\ step = "planned" /\ step' = "reading"
      /\ queue' = listed /\ read' = <<>>
      /\ UNCHANGED <<objects, writes, setup, plan, bookmark, out, basis, unseen>>
  BY DEF SliceSafe, Slices!Open
<1>2. /\ listed = IF setup.cached THEN basis ELSE Slices!Listing
      /\ listed \in Seq(Objects)
      /\ remembered' = IF setup.cached THEN listed ELSE None
  <2>1. Slices!Listing \in Seq(Objects)
    BY <1>1, ListingIs
  <2>2. basis \in Seq(Objects) /\ None \notin Seq(Objects)
    BY <1>1, SliceAssumption DEF SliceTyping
  <2>3. listed = IF setup.cached THEN basis ELSE Slices!Listing
    BY <1>1, <2>2 DEF Slices!Expanded, Planned, Untouched
  <2>4. remembered' = IF setup.cached THEN listed ELSE None
    BY DEF Slices!Open, Slices!Remember
  <2> QED
    BY <2>1, <2>2, <2>3, <2>4
<1>3. /\ Slices!Listing' = Slices!Listing
      /\ \A listing : Slices!Fingerprint(listing)' = Slices!Fingerprint(listing)
  BY <1>1, ListingKept, FingerprintKept
<1> HIDE DEF listed
<1>4. SliceTyping'
  <2>1. <<>> \in Seq(RowSet)
    OBVIOUS
  <2> QED
    BY <1>1, <1>2, <2>1 DEF SliceTyping
<1>5. Planned'
  BY <1>1, <1>2, <1>3 DEF Planned, Untouched
<1>6. ReadSoFar'
  <2> SUFFICES ASSUME ~unseen
               PROVE  \E k \in 0 .. Len(basis) :
                         /\ queue' = SubSeq(basis, k + 1, Len(basis))
                         /\ read' = Slices!RowsOf(SubSeq(basis, 1, k))
    BY <1>1 DEF ReadSoFar
  <2>1. basis \in Seq(Objects) /\ 0 \in 0 .. Len(basis)
    BY <1>1 DEF SliceTyping
  <2>2. queue' = basis
    BY <1>1, <1>2 DEF Planned
  <2>3. SubSeq(basis, 0 + 1, Len(basis)) = basis
    BY <2>1
  <2>4. Slices!RowsOf(SubSeq(basis, 1, 0)) = <<>>
    BY <2>1, RowsOfNext
  <2> QED
    BY <1>1, <2>1, <2>2, <2>3, <2>4
<1>7. Excused' \/ Delivered'
  <2>1. Whole' = Whole /\ Slices!StartOffset' = Slices!StartOffset
    BY <1>1 DEF Whole, Slices!StartOffset
  <2> QED
    BY <1>1, <2>1 DEF Excused, Delivered
<1> QED
  BY <1>4, <1>5, <1>6, <1>7 DEF SliceSafe

(* A slice reads the next listed object, which is as it was listed unless   *)
(* a change went unseen.                                                    *)
LEMMA ReadObjectStep ==
    ASSUME SliceSafe, Slices!ReadObject
    PROVE  SliceSafe'
<1>1. /\ SliceTyping /\ Planned /\ ReadSoFar /\ (Excused \/ Delivered)
      /\ step = "reading" /\ queue # <<>>
      /\ UNCHANGED <<objects, writes, setup, remembered, plan, bookmark, out, basis, unseen>>
  BY DEF SliceSafe, Slices!ReadObject, Slices!Reading
<1>2. PICK o \in Objects : o = Head(queue)
  BY <1>1 DEF SliceTyping
<1>3. \/ objects[o.path] = 0 /\ step' = "failed" /\ UNCHANGED <<queue, read>>
      \/ /\ objects[o.path] # 0 /\ UNCHANGED step
         /\ read' = read \o Rows[o.path][objects[o.path]]
         /\ queue' = Tail(queue)
  BY <1>2 DEF Slices!ReadObject
<1>4. ASSUME ~unseen
      PROVE  \E k \in 0 .. Len(basis) :
                /\ k < Len(basis) /\ o = basis[k + 1]
                /\ objects[o.path] = o.version /\ o.version # 0
                /\ Tail(queue) = SubSeq(basis, (k + 1) + 1, Len(basis))
                /\ read = Slices!RowsOf(SubSeq(basis, 1, k))
  <2>1. PICK k \in 0 .. Len(basis) :
            /\ queue = SubSeq(basis, k + 1, Len(basis))
            /\ read = Slices!RowsOf(SubSeq(basis, 1, k))
    BY <1>1, <1>4 DEF ReadSoFar
  <2>2. basis \in Seq(Objects) /\ Len(basis) \in Nat
    BY <1>1 DEF SliceTyping
  <2>3. k < Len(basis)
    <3>1. k = Len(basis) => queue = <<>>
      BY <2>1, <2>2
    <3> QED
      BY <1>1, <2>2, <3>1
  <2>4. k + 1 \in 1 .. Len(basis) /\ Len(basis) \in k + 1 .. Len(basis)
    BY <2>2, <2>3
  <2>5. /\ Head(queue) = basis[k + 1]
        /\ Tail(queue) = SubSeq(basis, (k + 1) + 1, Len(basis))
    BY <2>1, <2>2, <2>4, HeadTailOfSubSeq
  <2>6. basis \in Seq(Current)
    BY <1>1, <1>4, ListingIs DEF Planned
  <2>7. basis[k + 1] \in Current
    BY <2>4, <2>6
  <2>8. objects[o.path] = o.version /\ o.version # 0
    <3>1. o \in Current /\ o \in Objects
      BY <1>2, <2>5, <2>7
    <3>2. o.version \in 1 .. SliceWrites + 1 /\ SliceWrites \in Nat
      BY <3>1, SliceAssumption DEF Objects
    <3> QED
      BY <3>1, <3>2 DEF Current
  <2> QED
    BY <1>2, <2>1, <2>3, <2>5, <2>8
<1>5. SliceTyping'
  <2>1. CASE step' = "failed"
    BY <1>1, <1>3, <2>1 DEF SliceTyping
  <2>2. CASE step' # "failed"
    <3>1. objects[o.path] \in 1 .. SliceWrites + 1 /\ o.path \in 1 .. PathCount
      <4>1. o.path \in 1 .. PathCount /\ SliceWrites \in Nat
        BY <1>2, SliceAssumption DEF Objects
      <4>2. objects[o.path] \in 0 .. writes /\ writes \in 1 .. SliceWrites + 1
        BY <1>1, <4>1 DEF SliceTyping
      <4>3. objects[o.path] # 0
        BY <1>3, <2>2
      <4> QED
        BY <4>1, <4>2, <4>3
    <3>2. Rows[o.path][objects[o.path]] \in Seq(RowSet)
      BY <3>1, SliceAssumption
    <3>3. read' \in Seq(RowSet) /\ queue' \in Seq(Objects)
      <4>1. read \in Seq(RowSet) /\ queue \in Seq(Objects)
        BY <1>1 DEF SliceTyping
      <4>2. read' = read \o Rows[o.path][objects[o.path]] /\ queue' = Tail(queue)
        BY <1>3, <2>2
      <4>3. Tail(queue) \in Seq(Objects)
        BY <1>1, <4>1
      <4>4. PICK more \in Seq(RowSet) : more = Rows[o.path][objects[o.path]]
        BY <3>2
      <4> QED
        BY <4>1, <4>2, <4>3, <4>4
    <3> QED
      BY <1>1, <1>3, <2>2, <3>3 DEF SliceTyping
  <2> QED
    BY <2>1, <2>2
<1>6. Planned'
  <2>1. Slices!Listing' = Slices!Listing
        /\ Slices!Fingerprint(basis)' = Slices!Fingerprint(basis)
    BY <1>1, ListingKept DEF Slices!Fingerprint
  <2>2. step' = "failed" => unseen
    BY <1>1, <1>3, <1>4
  <2> QED
    BY <1>1, <1>3, <2>1, <2>2 DEF Planned, Untouched
<1>7. ReadSoFar'
  <2> SUFFICES ASSUME step' = "reading", ~unseen
               PROVE  \E k \in 0 .. Len(basis) :
                         /\ queue' = SubSeq(basis, k + 1, Len(basis))
                         /\ read' = Slices!RowsOf(SubSeq(basis, 1, k))
    BY <1>1 DEF ReadSoFar
  <2>1. PICK k \in 0 .. Len(basis) :
                /\ k < Len(basis) /\ o = basis[k + 1]
                /\ objects[o.path] = o.version /\ o.version # 0
                /\ Tail(queue) = SubSeq(basis, (k + 1) + 1, Len(basis))
                /\ read = Slices!RowsOf(SubSeq(basis, 1, k))
    BY <1>4
  <2>2. basis \in Seq(Objects) /\ Len(basis) \in Nat
    BY <1>1 DEF SliceTyping
  <2>3. k + 1 \in 0 .. Len(basis)
    BY <2>1, <2>2
  <2>4. Slices!RowsOf(SubSeq(basis, 1, k + 1)) = read \o Rows[o.path][o.version]
    BY <2>1, <2>2, RowsOfNext
  <2> QED
    BY <1>3, <2>1, <2>3, <2>4
<1>8. Excused' \/ Delivered'
  <2>1. Whole' = Whole /\ Slices!StartOffset' = Slices!StartOffset
    BY <1>1 DEF Whole, Slices!StartOffset
  <2>2. step # "done" /\ step' # "done"
    BY <1>1, <1>3
  <2> QED
    BY <1>1, <2>1, <2>2 DEF Excused, Delivered
<1> QED
  BY <1>5, <1>6, <1>7, <1>8 DEF SliceSafe

(* Two adjacent stretches are one.                                          *)
LEMMA Adjacent ==
    ASSUME NEW T, NEW s \in Seq(T), NEW m \in Nat, NEW n \in m .. Len(s)
    PROVE  SubSeq(s, 1, m) \o SubSeq(s, m + 1, n) = SubSeq(s, 1, n)
<1>1. 1 \in 1 .. Len(s) + 1 /\ m \in 1 - 1 .. Len(s)
  OBVIOUS
<1> QED
  BY <1>1, ConcatAdjacentSubSeq

(* A stretch of what begins a sequence is one of the sequence.              *)
LEMMA SameStretch ==
    ASSUME NEW T, NEW s \in Seq(T), NEW t \in Seq(T), Begins(s, t),
           NEW m \in Nat, NEW n \in 0 .. Len(s)
    PROVE  SubSeq(s, m + 1, n) = SubSeq(t, m + 1, n)
<1>1. Len(s) \in Nat /\ Len(t) \in Nat /\ n \in 0 .. Len(t)
  BY DEF Begins
<1>2. PICK a, b : a = SubSeq(s, m + 1, n) /\ b = SubSeq(t, m + 1, n)
  OBVIOUS
<1>3. /\ a \in Seq(T) /\ Len(a) = (IF m < n THEN n - m ELSE 0)
      /\ \A i \in 1 .. n - m : a[i] = s[m + i]
      /\ b \in Seq(T) /\ Len(b) = (IF m < n THEN n - m ELSE 0)
      /\ \A i \in 1 .. n - m : b[i] = t[m + i]
  BY <1>1, <1>2, Stretch
<1>4. Len(a) = Len(b)
  BY <1>3
<1>5. ASSUME NEW i \in 1 .. Len(a) PROVE a[i] = b[i]
  <2>1. i \in 1 .. n - m /\ m + i \in 1 .. Len(s)
    BY <1>1, <1>3
  <2> QED
    BY <1>3, <2>1 DEF Begins
<1> QED
  BY <1>2, <1>3, <1>4, <1>5, SeqEqual

(* A slice delivers the rows between where the last one ended and where it  *)
(* ends itself: at its size if it has seen another row, else at the end.    *)
LEMMA DeliverStep ==
    ASSUME SliceSafe, Slices!Deliver
    PROVE  SliceSafe'
<1> DEFINE rows == Slices!Answer(Slices!Clauses, read)
           start == Slices!StartOffset
           last == IF Slices!HasMore(rows) THEN start + setup.maxRows ELSE Len(rows)
<1>1. /\ SliceTyping /\ Planned /\ ReadSoFar /\ (Excused \/ Delivered)
      /\ step = "reading"
      /\ queue = <<>> \/ Slices!HasMore(rows) \/ Slices!LimitReached(rows)
      /\ UNCHANGED <<objects, writes, setup, remembered, plan, queue, read, basis, unseen>>
  BY DEF SliceSafe, Slices!Deliver, Slices!Reading
<1>2. /\ out' = out \o SubSeq(rows, start + 1, last)
      /\ \/ /\ Slices!HasMore(rows) /\ step' = "idle"
            /\ bookmark' = [planFingerprint |-> plan, rowOffset |-> start + setup.maxRows]
         \/ ~Slices!HasMore(rows) /\ step' = "done" /\ UNCHANGED bookmark
  BY DEF Slices!Deliver
<1>3. setup.query \in Clauses /\ setup.maxRows \in Nat \ {0}
  <2>1. setup.query \in Queries /\ setup.maxRows \in MaxRows
    BY <1>1 DEF SliceTyping, Slices!Setups
  <2> QED
    BY <2>1, SliceAssumption DEF Clauses
<1>4. /\ Slices!Clauses \in Clauses
      /\ ~Excused => Slices!Clauses = setup.query
  <2>1. CASE Slices!Clauses = setup.query
    BY <1>3, <2>1
  <2>2. CASE Slices!Clauses # setup.query
    <3>1. /\ setup.resume = "lake"
          /\ Slices!Clauses = [setup.query EXCEPT !.distinct = FALSE]
      BY <2>2 DEF Slices!Clauses
    <3>2. PICK query \in Clauses : query = setup.query
      BY <1>3
    <3>3. [query EXCEPT !.distinct = FALSE] \in Clauses
      BY DEF Clauses
    <3>4. query.distinct = FALSE => [query EXCEPT !.distinct = FALSE] = query
      BY DEF Clauses
    <3>5. query.distinct \in BOOLEAN
      BY DEF Clauses
    <3> QED
      BY <2>2, <3>1, <3>2, <3>3, <3>4, <3>5 DEF Excused
  <2> QED
    BY <2>1, <2>2
<1>5. /\ rows \in Seq(RowSet) /\ Len(rows) \in Nat
      /\ start \in Nat /\ (bookmark = None => start = 0)
      /\ plan \in Seq(Prints)
  <2>1. read \in Seq(RowSet) /\ Begins(read, read)
    BY <1>1 DEF SliceTyping, Begins
  <2>2. rows \in Seq(RowSet)
    BY <1>4, <2>1, AnswerBegins
  <2>3. start \in Nat /\ (bookmark = None => start = 0) /\ plan \in Seq(Prints)
    BY <1>1 DEF SliceTyping, Bookmarks, Slices!StartOffset
  <2> HIDE DEF rows, start
  <2> QED
    BY <2>2, <2>3
<1>6. Slices!HasMore(rows) <=> Len(rows) > start + setup.maxRows
  BY DEF Slices!HasMore
<1>7. PICK size \in Nat \ {0} : size = setup.maxRows
  BY <1>3
<1> HIDE DEF rows, start
<1>8. last \in 0 .. Len(rows)
  BY <1>5, <1>6, <1>7
<1>9. SubSeq(rows, start + 1, last) \in Seq(RowSet)
  <2> HIDE DEF last
  <2> QED
    BY <1>5, <1>8, Stretch
<1> HIDE DEF last
<1>10. SliceTyping'
  <2>1. out' \in Seq(RowSet)
    <3>1. PICK page \in Seq(RowSet) : page = SubSeq(rows, start + 1, last)
      BY <1>9
    <3> QED
      BY <1>1, <1>2, <3>1 DEF SliceTyping
  <2>2. bookmark' \in Bookmarks \cup {None}
    <3>1. start + setup.maxRows \in Nat
      BY <1>5, <1>7
    <3> QED
      BY <1>1, <1>2, <1>5, <3>1 DEF SliceTyping, Bookmarks
  <2> QED
    BY <1>1, <1>2, <2>1, <2>2 DEF SliceTyping
<1>11. Planned'
  <2>1. Slices!Listing' = Slices!Listing
        /\ Slices!Fingerprint(basis)' = Slices!Fingerprint(basis)
    BY <1>1, ListingKept DEF Slices!Fingerprint
  <2>2. bookmark' # None => bookmark'.planFingerprint = Slices!Fingerprint(basis)
    BY <1>1, <1>2 DEF Planned
  <2>3. ~Untouched /\ ~Untouched'
    <3>1. step' = "idle" => bookmark' \in Bookmarks
      <4>1. start + setup.maxRows \in Nat
        BY <1>5, <1>7
      <4> QED
        BY <1>2, <1>5, <4>1 DEF Bookmarks
    <3> QED
      BY <1>1, <3>1, SliceAssumption DEF Untouched
  <2> QED
    BY <1>1, <1>2, <2>1, <2>2, <2>3 DEF Planned
<1>12. ReadSoFar'
  BY <1>2 DEF ReadSoFar
<1>13. ASSUME ~Excused PROVE Delivered'
  <2>1. /\ Whole' = Whole /\ Whole \in Seq(RowSet) /\ Len(Whole) \in Nat
        /\ start <= Len(Whole) /\ out = SubSeq(Whole, 1, start)
    <3>1. Whole' = Whole /\ Whole \in Seq(RowSet) /\ Len(Whole) \in Nat
      BY <1>1, WholeIs DEF Whole
    <3> QED
      BY <1>1, <1>13, <3>1 DEF Delivered, start
  <2>2. PICK k \in 0 .. Len(basis) :
            /\ queue = SubSeq(basis, k + 1, Len(basis))
            /\ read = Slices!RowsOf(SubSeq(basis, 1, k))
    BY <1>1, <1>13 DEF ReadSoFar, Excused
  <2>3. basis \in Seq(Objects) /\ Len(basis) \in Nat
    BY <1>1 DEF SliceTyping
  <2>4. /\ Begins(rows, Whole)
        /\ Slices!LimitReached(rows) => rows = Whole
        /\ k = Len(basis) => rows = Whole
    <3>1. PICK all \in Seq(RowSet) : all = Slices!RowsOf(basis)
      <4>1. Len(basis) \in 0 .. Len(basis)
        BY <2>3
      <4> QED
        BY <2>3, <4>1, RowsOfNext
    <3>2. /\ read \in Seq(RowSet) /\ Begins(read, all)
          /\ k = Len(basis) => read = all
      BY <2>2, <2>3, <3>1, RowsOfNext
    <3>3. rows = Slices!Answer(setup.query, read) /\ Whole = Slices!Answer(setup.query, all)
      BY <1>4, <1>13, <3>1 DEF rows, Whole
    <3>4. Slices!LimitReached(rows) <=>
             setup.query.limit # None /\ Len(rows) >= setup.query.limit
      BY <1>4, <1>13 DEF Slices!LimitReached
    <3> QED
      BY <1>3, <3>2, <3>3, <3>4, AnswerBegins
  <2>5. CASE Slices!HasMore(rows)
    <3>1. /\ last = start + size /\ last <= Len(rows) /\ Len(rows) <= Len(Whole)
          /\ last \in start .. Len(Whole) /\ start + 1 \in 1 .. Len(rows)
          /\ last \in start + 1 .. Len(rows)
      BY <1>5, <1>6, <1>7, <2>1, <2>4, <2>5 DEF last, Begins
    <3>2. SubSeq(rows, start + 1, last) = SubSeq(Whole, start + 1, last)
      <4>1. rows \in Seq(RowSet) /\ Whole \in Seq(RowSet) /\ Begins(rows, Whole)
        BY <1>5, <2>1, <2>4
      <4>2. start \in Nat /\ last \in 0 .. Len(rows)
        BY <1>5, <1>8
      <4> HIDE DEF Whole
      <4> QED
        BY <4>1, <4>2, SameStretch, ZenonT(60)
    <3>3. SubSeq(Whole, 1, start) \o SubSeq(Whole, start + 1, last) = SubSeq(Whole, 1, last)
      BY <1>5, <2>1, <3>1, Adjacent
    <3>4. step' # "done" /\ Slices!StartOffset' = last
      <4>1. step' = "idle" /\ bookmark' = [planFingerprint |-> plan, rowOffset |-> last]
        BY <1>2, <1>7, <2>5, <3>1
      <4>2. bookmark' # None
        BY <1>5, <3>1, <4>1, SliceAssumption DEF Bookmarks
      <4> QED
        BY <4>1, <4>2 DEF Slices!StartOffset
    <3>5. out' = SubSeq(Whole, 1, last)
      BY <1>2, <2>1, <3>2, <3>3
    <3>6. last <= Len(Whole)
      BY <3>1
    <3> QED
      BY <2>1, <3>4, <3>5, <3>6 DEF Delivered
  <2>6. CASE ~Slices!HasMore(rows)
    <3>1. rows = Whole
      <4>1. queue = <<>> => k = Len(basis)
        <5>1. Len(queue) = IF k < Len(basis) THEN Len(basis) - k ELSE 0
          <6>1. k \in Nat /\ Len(basis) \in 0 .. Len(basis)
            BY <2>3
          <6> QED
            BY <2>2, <2>3, <6>1, Stretch
        <5> QED
          BY <2>3, <5>1
      <4> QED
        BY <1>1, <2>4, <2>6, <4>1
    <3>2. last = Len(Whole)
      BY <2>6, <3>1 DEF last
    <3>3. SubSeq(Whole, 1, start) \o SubSeq(Whole, start + 1, last) = SubSeq(Whole, 1, last)
      <4>1. last \in start .. Len(Whole)
        BY <1>5, <2>1, <3>2
      <4> QED
        BY <1>5, <2>1, <4>1, Adjacent
    <3>4. SubSeq(Whole, 1, last) = Whole
      BY <2>1, <3>2, SubSeqFull
    <3>5. out' = Whole
      BY <1>2, <2>1, <3>1, <3>3, <3>4
    <3>6. step' = "done"
      BY <1>2, <2>6
    <3> QED
      BY <2>1, <3>5, <3>6 DEF Delivered
  <2> QED
    BY <2>5, <2>6
<1>14. Excused' <=> Excused
  BY <1>1 DEF Excused
<1> QED
  BY <1>10, <1>11, <1>12, <1>13, <1>14 DEF SliceSafe

(* A write under a slice goes unseen; between slices the next one sees it.  *)
LEMMA WriteStep ==
    ASSUME SliceSafe, Slices!Write
    PROVE  SliceSafe'
<1>1. /\ SliceTyping /\ Planned /\ (Excused \/ Delivered)
      /\ writes <= SliceWrites /\ writes' = writes + 1
      /\ step \notin {"done", "stale", "failed"}
      /\ unseen' = (unseen \/ step \in {"planned", "reading"})
      /\ UNCHANGED <<setup, remembered, step, plan, queue, read, bookmark, out, basis>>
  BY DEF SliceSafe, Slices!Write
<1>2. SliceTyping'
  <2>1. PICK p \in 1 .. PathCount, there \in BOOLEAN :
            objects' = [objects EXCEPT ![p] = IF there THEN writes' ELSE 0]
    BY DEF Slices!Write, Slices!PathNumbers
  <2>2. writes \in Nat /\ writes' \in 1 .. SliceWrites + 1 /\ writes' = writes + 1
    BY <1>1, SliceAssumption DEF SliceTyping
  <2>3. objects' \in [1 .. PathCount -> 0 .. writes']
    <3>1. objects \in [1 .. PathCount -> 0 .. writes']
      BY <1>1, <2>2 DEF SliceTyping
    <3>2. (IF there THEN writes' ELSE 0) \in 0 .. writes'
      BY <2>2
    <3> QED
      BY <2>1, <3>1, <3>2
  <2> QED
    BY <1>1, <2>2, <2>3 DEF SliceTyping
<1>3. Planned'
  <2>1. Slices!Fingerprint(basis)' = Slices!Fingerprint(basis)
    BY <1>1 DEF Slices!Fingerprint
  <2> QED
    BY <1>1, <2>1 DEF Planned, Untouched, SliceTyping
<1>4. ReadSoFar'
  BY <1>1 DEF ReadSoFar
<1>5. Excused' \/ Delivered'
  <2>1. Whole' = Whole /\ Slices!StartOffset' = Slices!StartOffset
    BY <1>1 DEF Whole, Slices!StartOffset
  <2> QED
    BY <1>1, <2>1 DEF Excused, Delivered
<1> QED
  BY <1>2, <1>3, <1>4, <1>5 DEF SliceSafe

(* Every step of a slice, and of other writers, keeps the invariant.        *)
LEMMA SliceStep == SliceSafe /\ [Slices!Next]_Slices!vars => SliceSafe'
<1> SUFFICES ASSUME SliceSafe, [Slices!Next]_Slices!vars PROVE SliceSafe'
  OBVIOUS
<1>1. CASE UNCHANGED Slices!vars
  <2>1. UNCHANGED <<objects, writes, setup, remembered, step, plan, queue, read, bookmark,
                    out, basis, unseen>>
    BY <1>1 DEF Slices!vars
  <2>2. /\ Slices!Listing' = Slices!Listing
        /\ Slices!Fingerprint(basis)' = Slices!Fingerprint(basis)
        /\ Whole' = Whole /\ Slices!StartOffset' = Slices!StartOffset
    BY <2>1, ListingKept DEF Slices!Fingerprint, Whole, Slices!StartOffset
  <2> QED
    BY <2>1, <2>2
    DEF SliceSafe, SliceTyping, Planned, Untouched, ReadSoFar, Excused, Delivered
<1>2. CASE Slices!Next
  BY <1>2, PlanStep, OpenStep, ReadObjectStep, DeliverStep, WriteStep DEF Slices!Next
<1> QED
  BY <1>1, <1>2

(* The slices of a query together deliver each of its rows once, in order,  *)
(* as one read of the store at the first slice would have, and a slice is   *)
(* refused or fails only for a change, with any number of objects of any    *)
(* rows, any clauses and slice sizes and any writes.  The exceptions are    *)
(* those of the property: a change no fingerprint can tell, and a DISTINCT  *)
(* query continued by Lake.resume.                                          *)
THEOREM SlicesAreOneReading == Slices!Spec => []SlicesReadOnce
<1>1. SliceSafe => SlicesReadOnce
  <2> SUFFICES ASSUME SliceSafe PROVE SlicesReadOnce
    OBVIOUS
  <2>1. SliceTyping /\ Planned /\ (Excused \/ Delivered)
    BY DEF SliceSafe
  <2>2. ASSUME ~Excused
        PROVE  /\ \E n \in 0 .. Len(Whole) : out = SubSeq(Whole, 1, n)
               /\ step = "done" => out = Whole
    <3>1. Whole \in Seq(RowSet) /\ Len(Whole) \in 0 .. Len(Whole)
      BY <2>1, WholeIs
    <3>2. CASE step = "done"
      BY <2>1, <2>2, <3>1, <3>2, SubSeqFull DEF Delivered
    <3>3. CASE step # "done"
      <4>1. Slices!StartOffset \in Nat
        BY <2>1 DEF SliceTyping, Bookmarks, Slices!StartOffset
      <4> QED
        BY <2>1, <2>2, <3>1, <3>3, <4>1 DEF Delivered
    <3> QED
      BY <3>2, <3>3
  <2> QED
    BY <2>1, <2>2 DEF SlicesReadOnce, Slices!SlicesReadOnce, Planned, Excused, Whole
<1> QED
  BY <1>1, SliceInit, SliceStep, PTL DEF Slices!Spec
================================================================================
