--------------------------- MODULE TabletStoreProofs ---------------------------
(***************************************************************************)
(* Theorems about TabletStore.tla, for any keys, values and file size.     *)
(***************************************************************************)
EXTENDS TabletStore, LeastNumber, FiniteSets, FunctionTheorems, FiniteSetTheorems,
        SequenceTheorems, TLAPS

-----------------------------------------------------------------------------
(* find_file's search.  Among ascending keys it ends with the last one, the *)
(* very last excepted, that is not beyond k, and its neighbour.            *)

Ascending(first) == \A i, j \in DOMAIN first : i <= j => first[i] <= first[j]

\* m is where the search between lo and hi ends.
EndsAt(first, k, lo, hi, m) ==
    /\ m \in lo .. hi - 1
    /\ m = lo \/ first[m] <= k
    /\ \A i \in m + 1 .. hi - 1 : ~(first[i] <= k)

\* The pair with which the search goes on from p.
Half(first, k, p) ==
    IF first[(p[1] + p[2]) \div 2] <= k THEN <<(p[1] + p[2]) \div 2, p[2]>>
                                        ELSE <<p[1], (p[1] + p[2]) \div 2>>

IsPair(f, first, k) ==
    f = [p \in (DOMAIN first) \X (DOMAIN first) |->
            IF p[1] + 1 < p[2] THEN f[Half(first, k, p)] ELSE p]

LEMMA SearchIs ==
    \A first, k : Search(first, k) = (CHOOSE f : IsPair(f, first, k))[<<1, Len(first)>>]
BY DEF Search, IsPair, Half

LEMMA EndExists ==
    ASSUME NEW first \in Seq(Nat), NEW k \in Nat,
           NEW lo \in DOMAIN first, NEW hi \in DOMAIN first, lo < hi
    PROVE  \E m : EndsAt(first, k, lo, hi, m)
<1> DEFINE S == {i \in lo .. hi - 1 : i = lo \/ first[i] <= k}
<1>1. /\ lo \in Nat /\ hi \in Nat /\ S \subseteq 1 .. hi - 1 /\ lo \in S /\ hi - 1 \in Nat
  BY LenProperties
<1>2. PICK m \in S : \A i \in S : i <= m
  <2> HIDE DEF S
  <2> QED BY <1>1, Greatest
<1>3. EndsAt(first, k, lo, hi, m)
  BY <1>1, <1>2 DEF EndsAt
<1> QED BY <1>3

LEMMA EndUnique ==
    ASSUME NEW first, NEW k, NEW lo \in Nat, NEW hi \in Nat,
           NEW m, NEW n, EndsAt(first, k, lo, hi, m), EndsAt(first, k, lo, hi, n)
    PROVE  m = n
<1>1. m \in lo .. hi - 1 /\ n \in lo .. hi - 1
  BY DEF EndsAt
<1>2. ~(m < n) /\ ~(n < m)
  BY <1>1 DEF EndsAt
<1> QED BY <1>1, <1>2

\* Halving does not change where the search ends.
LEMMA EndOfHalf ==
    ASSUME NEW first \in Seq(Nat), Ascending(first), NEW k \in Nat,
           NEW lo \in DOMAIN first, NEW hi \in DOMAIN first, NEW mid \in lo + 1 .. hi - 1, NEW m
    PROVE  /\ first[mid] <= k =>
                (EndsAt(first, k, mid, hi, m) => EndsAt(first, k, lo, hi, m))
           /\ ~(first[mid] <= k) =>
                (EndsAt(first, k, lo, mid, m) => EndsAt(first, k, lo, hi, m))
<1>1. DOMAIN first = 1 .. Len(first) /\ Len(first) \in Nat
  BY LenProperties
<1>2. ASSUME first[mid] <= k, EndsAt(first, k, mid, hi, m)
      PROVE  EndsAt(first, k, lo, hi, m)
  BY <1>1, <1>2 DEF EndsAt
<1>3. ASSUME ~(first[mid] <= k), EndsAt(first, k, lo, mid, m)
      PROVE  EndsAt(first, k, lo, hi, m)
  <2>1. \A i \in mid .. hi - 1 : ~(first[i] <= k)
    <3> SUFFICES ASSUME NEW i \in mid .. hi - 1 PROVE ~(first[i] <= k)
      OBVIOUS
    <3>1. mid \in DOMAIN first /\ i \in DOMAIN first /\ first[mid] \in Nat /\ first[i] \in Nat
      BY <1>1, ElementOfSeq
    <3>2. first[mid] <= first[i]
      BY <3>1 DEF Ascending
    <3> QED BY <1>3, <3>1, <3>2
  <2> QED BY <1>1, <1>3, <2>1 DEF EndsAt
<1> QED BY <1>2, <1>3

\* What the search gives, said without recursion.
End(first, k, p) == CHOOSE m : EndsAt(first, k, p[1], p[2], m)

Neighbours(first, k) ==
    [p \in (DOMAIN first) \X (DOMAIN first) |->
        IF p[1] < p[2] THEN <<End(first, k, p), End(first, k, p) + 1>> ELSE p]

LEMMA NeighboursArePair ==
    ASSUME NEW first \in Seq(Nat), Ascending(first), NEW k \in Nat
    PROVE  IsPair(Neighbours(first, k), first, k)
<1> DEFINE f == Neighbours(first, k)
           D == DOMAIN first
           E(p) == End(first, k, p)
<1>1. DOMAIN first = 1 .. Len(first) /\ Len(first) \in Nat
  BY LenProperties
<1>2. \A p \in D \X D : f[p] = IF p[1] < p[2] THEN <<E(p), E(p) + 1>> ELSE p
  BY DEF Neighbours
<1>3. \A p \in D \X D : p[1] < p[2] => EndsAt(first, k, p[1], p[2], E(p))
  BY EndExists DEF End
<1>4. ASSUME NEW p \in D \X D
      PROVE  f[p] = IF p[1] + 1 < p[2] THEN f[Half(first, k, p)] ELSE p
  <2> HIDE DEF f, E
  <2> DEFINE mid == (p[1] + p[2]) \div 2
             lo  == p[1]
             hi  == p[2]
  <2>1. lo \in Nat /\ hi \in Nat /\ p = <<lo, hi>> /\ lo \in D /\ hi \in D
    BY <1>1
  <2>4. lo + 1 < hi => p[1] < p[2]
    BY <2>1
  <2> HIDE DEF lo, hi
  <2>2. CASE lo + 1 < hi
    <3>1. mid \in lo + 1 .. hi - 1
      BY <2>1, <2>2 DEF lo, hi
    <3> HIDE DEF mid
    <3>2. mid \in DOMAIN first /\ lo < mid /\ mid < hi /\ mid \in Nat
      BY <1>1, <2>1, <3>1
    <3>3. EndsAt(first, k, lo, hi, E(p))
      BY <1>3, <2>1, <2>2 DEF lo, hi
    <3>4. CASE first[mid] <= k
      <4> DEFINE q == <<mid, hi>>
      <4>1. q \in D \X D /\ q[1] = mid /\ q[2] = hi
        BY <2>1, <3>2
      <4> HIDE DEF q
      <4>2. EndsAt(first, k, mid, hi, E(q))
        BY <1>3, <3>2, <4>1
      <4>3. EndsAt(first, k, lo, hi, E(q))
        BY <2>1, <3>1, <3>4, <4>2, EndOfHalf
      <4>4. E(p) = E(q)
        BY <2>1, <3>3, <4>3, EndUnique
      <4>5. f[p] = f[q]
        BY <1>2, <2>2, <2>4, <3>2, <4>1, <4>4
      <4>6. Half(first, k, p) = q
        BY <3>4 DEF Half, mid, q, lo, hi
      <4> QED BY <2>2, <4>5, <4>6 DEF lo, hi
    <3>5. CASE ~(first[mid] <= k)
      <4> DEFINE q == <<lo, mid>>
      <4>1. q \in D \X D /\ q[1] = lo /\ q[2] = mid
        BY <2>1, <3>2
      <4> HIDE DEF q
      <4>2. EndsAt(first, k, lo, mid, E(q))
        BY <1>3, <3>2, <4>1
      <4>3. EndsAt(first, k, lo, hi, E(q))
        BY <2>1, <3>1, <3>5, <4>2, EndOfHalf
      <4>4. E(p) = E(q)
        BY <2>1, <3>3, <4>3, EndUnique
      <4>5. f[p] = f[q]
        BY <1>2, <2>2, <2>4, <3>2, <4>1, <4>4
      <4>6. Half(first, k, p) = q
        BY <3>5 DEF Half, mid, q, lo, hi
      <4> QED BY <2>2, <4>5, <4>6 DEF lo, hi
    <3> QED BY <3>4, <3>5
  <2>3. CASE ~(lo + 1 < hi)
    <3>1. lo < hi => lo + 1 = hi /\ E(p) = lo
      <4> SUFFICES ASSUME lo < hi PROVE lo + 1 = hi /\ E(p) = lo
        OBVIOUS
      <4>1. EndsAt(first, k, lo, hi, E(p))
        BY <1>3 DEF lo, hi
      <4>2. lo + 1 = hi
        BY <2>1, <2>3
      <4> QED BY <2>1, <4>1, <4>2 DEF EndsAt
    <3>2. f[p] = p
      BY <1>2, <2>1, <3>1 DEF lo, hi
    <3> QED BY <2>3, <3>2 DEF lo, hi
  <2> QED BY <2>2, <2>3 DEF lo, hi
<1>5. f = [p \in D \X D |-> f[p]]
  BY DEF Neighbours
<1> HIDE DEF f
<1>6. f = [p \in D \X D |-> IF p[1] + 1 < p[2] THEN f[Half(first, k, p)] ELSE p]
  BY <1>4, <1>5
<1> QED BY <1>6 DEF IsPair, f

\* Half of a pair is a pair, and a narrower one.
LEMMA HalfShrinks ==
    ASSUME NEW first \in Seq(Nat), NEW k \in Nat,
           NEW p \in (DOMAIN first) \X (DOMAIN first), p[1] + 1 < p[2]
    PROVE  /\ Half(first, k, p) \in (DOMAIN first) \X (DOMAIN first)
           /\ Half(first, k, p)[2] - Half(first, k, p)[1] \in Nat
           /\ ~(p[2] - p[1] <= Half(first, k, p)[2] - Half(first, k, p)[1])
<1>0. \A a, b \in Nat : \A m \in a + 1 .. b - 1 :
         /\ b - m \in Nat /\ ~(b - a <= b - m)
         /\ m - a \in Nat /\ ~(b - a <= m - a)
  OBVIOUS
<1> DEFINE mid == (p[1] + p[2]) \div 2
           h   == Half(first, k, p)
           lo  == p[1]
           hi  == p[2]
<1>1. DOMAIN first = 1 .. Len(first) /\ Len(first) \in Nat
  BY LenProperties
<1>2. lo \in Nat /\ hi \in Nat /\ lo \in DOMAIN first /\ hi \in DOMAIN first
  BY <1>1
<1>3. mid \in lo + 1 .. hi - 1
  BY <1>2
<1>4. h = <<mid, hi>> \/ h = <<lo, mid>>
  BY DEF Half
<1>5. lo + 1 < hi
  OBVIOUS
<1> HIDE DEF mid, h, lo, hi
<1>6. mid \in DOMAIN first /\ mid \in Nat
  BY <1>1, <1>2, <1>3
<1>7. /\ h \in (DOMAIN first) \X (DOMAIN first)
      /\ h[2] - h[1] \in Nat /\ ~(hi - lo <= h[2] - h[1])
  <2>1. CASE h = <<mid, hi>>
    <3>1. h[1] = mid /\ h[2] = hi /\ h \in (DOMAIN first) \X (DOMAIN first)
      BY <1>2, <1>6, <2>1
    <3>2. hi - mid \in Nat /\ ~(hi - lo <= hi - mid)
      BY <1>2, <1>3, <1>0
    <3> QED BY <3>1, <3>2
  <2>2. CASE h = <<lo, mid>>
    <3>1. h[1] = lo /\ h[2] = mid /\ h \in (DOMAIN first) \X (DOMAIN first)
      BY <1>2, <1>6, <2>2
    <3>2. mid - lo \in Nat /\ ~(hi - lo <= mid - lo)
      BY <1>2, <1>3, <1>0
    <3> QED BY <3>1, <3>2
  <2> QED BY <1>4, <2>1, <2>2
<1> QED BY <1>7 DEF h, lo, hi

\* Whatever satisfies the equation of the search gives the same.
LEMMA PairUnique ==
    ASSUME NEW first \in Seq(Nat), NEW k \in Nat,
           NEW f, IsPair(f, first, k), NEW g, IsPair(g, first, k),
           NEW p \in (DOMAIN first) \X (DOMAIN first), p[1] <= p[2]
    PROVE  f[p] = g[p]
<1> DEFINE D == DOMAIN first
           W == {d \in Nat : \E r \in D \X D : r[2] - r[1] = d /\ f[r] # g[r]}
<1>1. D = 1 .. Len(first) /\ Len(first) \in Nat
  BY LenProperties
<1>2. \A r \in D \X D :
         /\ f[r] = IF r[1] + 1 < r[2] THEN f[Half(first, k, r)] ELSE r
         /\ g[r] = IF r[1] + 1 < r[2] THEN g[Half(first, k, r)] ELSE r
  BY DEF IsPair
<1>3. W = {}
  <2> SUFFICES ASSUME W # {} PROVE FALSE
    OBVIOUS
  <2>1. PICK d \in W : \A e \in W : d <= e
    <3>1. W \in SUBSET Nat
      OBVIOUS
    <3> HIDE DEF W
    <3> QED BY <3>1, Least
  <2>2. PICK r \in D \X D : r[2] - r[1] = d /\ f[r] # g[r]
    OBVIOUS
  <2>3. r[1] + 1 < r[2]
    BY <1>2, <2>2
  <2>4. /\ Half(first, k, r) \in D \X D
        /\ Half(first, k, r)[2] - Half(first, k, r)[1] \in Nat
        /\ ~(d <= Half(first, k, r)[2] - Half(first, k, r)[1])
    BY <2>2, <2>3, HalfShrinks
  <2>5. f[Half(first, k, r)] # g[Half(first, k, r)]
    BY <1>2, <2>2, <2>3
  <2>6. Half(first, k, r)[2] - Half(first, k, r)[1] \in W
    BY <2>4, <2>5
  <2>7. d \in Nat
    OBVIOUS
  <2> HIDE DEF W
  <2> QED BY <2>1, <2>4, <2>6, <2>7
<1>4. p[2] - p[1] \in Nat
  BY <1>1
<1> QED BY <1>3, <1>4

LEMMA SearchEnds ==
    ASSUME NEW first \in Seq(Nat), first # << >>, Ascending(first), NEW k \in Nat
    PROVE  Search(first, k) = Neighbours(first, k)[<<1, Len(first)>>]
<1>1. DOMAIN first = 1 .. Len(first) /\ Len(first) \in Nat /\ Len(first) # 0
  BY LenProperties, EmptySeq
<1> DEFINE f == CHOOSE f : IsPair(f, first, k)
           p == <<1, Len(first)>>
<1>2. IsPair(f, first, k)
  BY NeighboursArePair
<1>3. p \in (DOMAIN first) \X (DOMAIN first) /\ p[1] <= p[2]
  BY <1>1
<1>4. Search(first, k) = f[p]
  BY SearchIs
<1> HIDE DEF f, p
<1>5. f[p] = Neighbours(first, k)[p]
  BY <1>2, <1>3, NeighboursArePair, PairUnique
<1> QED BY <1>4, <1>5 DEF p

\* find_file gives a table, and for up to two tables which.
LEMMA PlaceIs ==
    ASSUME NEW first \in Seq(Nat), first # << >>, Ascending(first), NEW k \in Nat
    PROVE  /\ Place(first, k) \in DOMAIN first
           /\ Len(first) = 2 =>
                Place(first, k) = IF first[1] # k /\ (first[2] = k \/ ~(first[1] <= k))
                                  THEN 2 ELSE 1
<1>1. DOMAIN first = 1 .. Len(first) /\ Len(first) \in Nat /\ Len(first) # 0
  BY LenProperties, EmptySeq
<1> DEFINE n == Len(first)
           p == Search(first, k)
<1>2. CASE n = 1
  BY <1>1, <1>2 DEF Place
<1>3. CASE n # 1
  <2>1. 1 \in DOMAIN first /\ n \in DOMAIN first /\ 1 < n
    BY <1>1, <1>3
  <2>2. PICK m : EndsAt(first, k, 1, n, m) /\ p = <<m, m + 1>>
    <3> DEFINE q == <<1, n>>
               e == End(first, k, q)
    <3>1. q \in (DOMAIN first) \X (DOMAIN first) /\ q[1] = 1 /\ q[2] = n
      BY <2>1
    <3>2. p = Neighbours(first, k)[q]
      BY SearchEnds
    <3>3. p = <<e, e + 1>>
      BY <2>1, <3>1, <3>2 DEF Neighbours
    <3>4. EndsAt(first, k, 1, n, e)
      BY <2>1, EndExists DEF End
    <3> QED BY <3>3, <3>4
  <2> HIDE DEF p
  <2>3. m \in 1 .. n - 1 /\ p[1] = m /\ p[2] = m + 1
    BY <2>2 DEF EndsAt
  <2>4. Place(first, k) = IF first[m] = k THEN m
                          ELSE IF first[m + 1] = k THEN m + 1
                          ELSE IF first[m] <= k THEN m ELSE m + 1
    BY <1>3, <2>3 DEF Place, p
  <2>5. n = 2 => m = 1
    BY <2>3
  <2> QED BY <1>1, <2>3, <2>4, <2>5
<1> QED BY <1>2, <1>3

-----------------------------------------------------------------------------
(* Sequences of tables.                                                    *)

MetaLine == [file : 1 .. MaxTables, size : Int, first : Key \cup {FirstLine}]
Table == [file : 1 .. MaxTables, size : Int, first : Key \cup {FirstLine},
          cells : [Key -> Value \cup {None}]]

\* The tables have the first files, each one of its own.
Numbered(ts) ==
    /\ \A i \in DOMAIN ts : ts[i].file \in 1 .. Len(ts)
    /\ \A i, j \in DOMAIN ts : ts[i].file = ts[j].file => i = j

\* The order find_file's search relies on.
Ordered(ts) == Ascending(Firsts(ts))

LEMMA FirstsAre ==
    ASSUME NEW R, NEW ts \in Seq(R), \A r \in R : r.first \in Key \cup {FirstLine}
    PROVE  /\ Firsts(ts) \in Seq(Nat) /\ Len(Firsts(ts)) = Len(ts)
           /\ DOMAIN Firsts(ts) = DOMAIN ts
           /\ \A i \in DOMAIN ts : Firsts(ts)[i] = ts[i].first /\ ts[i].first \in Nat
<1>1. DOMAIN ts = 1 .. Len(ts) /\ Len(ts) \in Nat
  BY LenProperties
<1>2. \A i \in DOMAIN ts : ts[i].first \in Nat
  BY ElementOfSeq, KeyAssumption
<1>3. Firsts(ts) = [i \in 1 .. Len(ts) |-> ts[i].first]
  BY <1>1 DEF Firsts
<1>4. Firsts(ts) \in [1 .. Len(ts) -> Nat]
  BY <1>1, <1>2, <1>3
<1>5. Firsts(ts) \in Seq(Nat) /\ Len(Firsts(ts)) = Len(ts)
  BY <1>1, <1>4, SeqDef, LenProperties
<1> QED BY <1>1, <1>2, <1>3, <1>5

LEMMA TableFirsts ==
    /\ \A r \in Table : r.first \in Key \cup {FirstLine}
    /\ \A r \in MetaLine : r.first \in Key \cup {FirstLine}
BY DEF Table, MetaLine

LEMMA FindIsTable ==
    ASSUME NEW ts \in Seq(Table), ts # << >>, Ordered(ts), NEW k \in Key
    PROVE  Find(ts, k) \in DOMAIN ts
<1>1. /\ Firsts(ts) \in Seq(Nat) /\ Len(Firsts(ts)) = Len(ts)
      /\ DOMAIN Firsts(ts) = DOMAIN ts
  BY FirstsAre, TableFirsts
<1>2. Firsts(ts) # << >>
  BY <1>1, LenProperties, EmptySeq
<1>3. k \in Nat
  BY KeyAssumption
<1> QED BY <1>1, <1>2, <1>3, PlaceIs DEF Find, Ordered

\* find_file looks at nothing but first keys.
LEMMA FindSame ==
    ASSUME NEW ts, NEW us, DOMAIN ts = DOMAIN us,
           \A i \in DOMAIN ts : ts[i].first = us[i].first
    PROVE  Firsts(ts) = Firsts(us) /\ \A k : Find(ts, k) = Find(us, k)
<1>1. Firsts(ts) = Firsts(us)
  BY DEF Firsts
<1> QED BY <1>1 DEF Find

-----------------------------------------------------------------------------
(* sort.                                                                   *)

\* A sequence with no descent from a member to the next is ascending.
LEMMA NoDescent ==
    ASSUME NEW s \in Seq(Nat), \A i \in 1 .. Len(s) - 1 : s[i] <= s[i + 1]
    PROVE  Ascending(s)
<1>1. DOMAIN s = 1 .. Len(s) /\ Len(s) \in Nat /\ \A i \in DOMAIN s : s[i] \in Nat
  BY LenProperties, ElementOfSeq
<1> SUFFICES ASSUME NEW i \in DOMAIN s,
                    {j \in DOMAIN s : i <= j /\ ~(s[i] <= s[j])} # {}
             PROVE  FALSE
  BY DEF Ascending
<1> DEFINE T == {j \in DOMAIN s : i <= j /\ ~(s[i] <= s[j])}
<1>2. PICK j \in T : \A m \in T : j <= m
  <2>1. T \in SUBSET Nat /\ T # {}
    BY <1>1
  <2> HIDE DEF T
  <2> QED BY <2>1, Least
<1>3. j - 1 \in DOMAIN s /\ i <= j - 1 /\ j - 1 \in 1 .. Len(s) - 1 /\ j \in Nat /\ i \in Nat
  BY <1>1
<1>4. s[j - 1] <= s[j]
  <2>1. (j - 1) + 1 = j
    BY <1>3
  <2> QED BY <1>3, <2>1
<1>5. s[i] <= s[j - 1]
  <2>1. j - 1 \notin T
    BY <1>2, <1>3
  <2> QED BY <1>3, <2>1
<1> QED BY <1>1, <1>3, <1>4, <1>5

\* What sort leaves: the same tables, in ascending order.
LEMMA SortedAre ==
    ASSUME NEW R, \A r \in R : r.first \in Key \cup {FirstLine},
           NEW ts \in Seq(R), Numbered(ts), NEW q \in Sorted(ts)
    PROVE  /\ q \in Seq(R) /\ Len(q) = Len(ts) /\ DOMAIN q = DOMAIN ts
           /\ Ordered(q) /\ Numbered(q)
           /\ \A i \in DOMAIN q : \E j \in DOMAIN ts : q[i] = ts[j]
           /\ \A j \in DOMAIN ts : \E i \in DOMAIN q : q[i] = ts[j]
<1> DEFINE S == {ts[i] : i \in DOMAIN ts}
           c == Cardinality(S)
<1>1. DOMAIN ts = 1 .. Len(ts) /\ Len(ts) \in Nat /\ S \subseteq R
  BY LenProperties, ElementOfSeq
<1>2. /\ q \in [1 .. c -> S]
      /\ \A i, j \in 1 .. c : i # j => q[i] # q[j]
      /\ \A i \in 1 .. Len(q) - 1 : q[i].first <= q[i + 1].first
  <2>1. \A T : Seqs!SetToSeqs(T) =
                 {f \in [1 .. Seqs!Cardinality(T) -> T] :
                    \A i, j \in 1 .. Seqs!Cardinality(T) : i # j => f[i] # f[j]}
    BY DEF Seqs!SetToSeqs
  <2>2. Seqs!Cardinality(S) = c
    BY DEF Seqs!Cardinality, Cardinality
  <2>3. Seqs!ToSet(ts) = S
    BY DEF Seqs!ToSet
  <2> HIDE DEF S, c
  <2> QED BY <2>1, <2>2, <2>3 DEF Sorted
<1>3. IsFiniteSet(S) /\ c = Len(ts)
  <2> DEFINE n == Len(ts)
  <2>1. IsFiniteSet(1 .. n) /\ Cardinality(1 .. n) = n
    BY <1>1, FS_Interval
  <2>2. ts \in Bijection(1 .. n, S)
    <3>1. ts \in [1 .. n -> S]
      BY <1>1
    <3>2. ts \in Injection(1 .. n, S)
      <4>1. \A a, b \in 1 .. n : ts[a] = ts[b] => a = b
        BY <1>1 DEF Numbered
      <4> HIDE DEF S
      <4> QED BY <3>1, <4>1, Fun_IsInj
    <3>3. ts \in Surjection(1 .. n, S)
      BY <1>1, <3>1, Fun_IsSurj
    <3> QED BY <3>2, <3>3 DEF Bijection
  <2>3. ExistsBijection(1 .. n, S)
    BY <2>2 DEF ExistsBijection
  <2> HIDE DEF n, S
  <2> QED BY <2>1, <2>3, FS_Bijection DEF n
<1>4. q \in Surjection(1 .. c, S)
  <2>1. q \in Injection(1 .. c, S)
    BY <1>2, Fun_IsInj
  <2>2. IsFiniteSet(1 .. c) /\ Cardinality(1 .. c) = c
    BY <1>1, <1>3, FS_Interval
  <2> HIDE DEF S
  <2> QED BY <1>3, <2>1, <2>2, FS_Injection
<1>5. \A x \in S : \E i \in 1 .. c : q[i] = x
  BY <1>4 DEF Surjection
<1> HIDE DEF c
<1>6. DOMAIN q = 1 .. Len(ts)
  BY <1>2, <1>3
<1>7. q \in Seq(R) /\ Len(q) = Len(ts)
  <2>1. q \in [1 .. Len(ts) -> R]
    BY <1>1, <1>2, <1>3
  <2> QED BY <1>1, <2>1, SeqDef, LenProperties
<1>8. \A i \in DOMAIN q : \E j \in DOMAIN ts : q[i] = ts[j]
  BY <1>2, <1>3, <1>6
<1>9. \A j \in DOMAIN ts : \E i \in DOMAIN q : q[i] = ts[j]
  BY <1>3, <1>5, <1>6
<1>10. Numbered(q)
  <2>1. \A i \in DOMAIN q : q[i].file \in 1 .. Len(q)
    BY <1>7, <1>8 DEF Numbered
  <2>2. ASSUME NEW i \in DOMAIN q, NEW j \in DOMAIN q, q[i].file = q[j].file
        PROVE  i = j
    <3>1. PICK a \in DOMAIN ts, b \in DOMAIN ts : q[i] = ts[a] /\ q[j] = ts[b]
      BY <1>8
    <3>2. q[i] = q[j]
      BY <2>2, <3>1 DEF Numbered
    <3> QED BY <1>2, <1>3, <1>6, <3>2
  <2> QED BY <2>1, <2>2 DEF Numbered
<1>11. Ordered(q)
  <2>1. /\ Firsts(q) \in Seq(Nat) /\ Len(Firsts(q)) = Len(q)
        /\ \A i \in DOMAIN q : Firsts(q)[i] = q[i].first
    BY <1>7, FirstsAre
  <2>2. ASSUME NEW i \in 1 .. Len(Firsts(q)) - 1
        PROVE  Firsts(q)[i] <= Firsts(q)[i + 1]
    <3>1. i \in DOMAIN q /\ i + 1 \in DOMAIN q /\ i \in 1 .. Len(q) - 1
      BY <1>1, <1>6, <1>7, <2>1
    <3> QED BY <1>2, <2>1, <3>1
  <2> QED BY <2>1, <2>2, NoDescent DEF Ordered
<1> QED BY <1>1, <1>6, <1>7, <1>8, <1>9, <1>10, <1>11

\* Sorting leaves alone what is in order, when no two first keys are equal.
LEMMA SortedSame ==
    ASSUME NEW R, \A r \in R : r.first \in Key \cup {FirstLine},
           NEW ts \in Seq(R), Numbered(ts), Ordered(ts), Apart(ts), NEW q \in Sorted(ts)
    PROVE  q = ts
<1>1. /\ q \in Seq(R) /\ Len(q) = Len(ts) /\ DOMAIN q = DOMAIN ts
      /\ Ordered(q) /\ Numbered(q)
      /\ \A i \in DOMAIN q : \E j \in DOMAIN ts : q[i] = ts[j]
      /\ \A j \in DOMAIN ts : \E i \in DOMAIN q : q[i] = ts[j]
  BY SortedAre
<1>2. DOMAIN ts \subseteq Nat
  BY LenProperties
<1>3. \A i \in DOMAIN ts : ts[i].first \in Nat /\ q[i].first \in Nat
  <2>1. \A i \in DOMAIN ts : ts[i].first \in Nat
    BY FirstsAre
  <2>2. \A i \in DOMAIN q : q[i].first \in Nat
    BY <1>1, FirstsAre
  <2> QED BY <1>1, <2>1, <2>2
<1>4. \A i, j \in DOMAIN ts : i <= j => /\ ts[i].first <= ts[j].first
                                        /\ q[i].first <= q[j].first
  <2>1. /\ DOMAIN Firsts(ts) = DOMAIN ts
        /\ \A i \in DOMAIN ts : Firsts(ts)[i] = ts[i].first
    BY FirstsAre
  <2>2. /\ DOMAIN Firsts(q) = DOMAIN q
        /\ \A i \in DOMAIN q : Firsts(q)[i] = q[i].first
    BY <1>1, FirstsAre
  <2>3. \A i, j \in DOMAIN ts : i <= j => Firsts(ts)[i] <= Firsts(ts)[j]
    BY <2>1 DEF Ordered, Ascending
  <2>4. \A i, j \in DOMAIN ts : i <= j => Firsts(q)[i] <= Firsts(q)[j]
    BY <1>1, <2>2 DEF Ordered, Ascending
  <2> QED BY <1>1, <2>1, <2>2, <2>3, <2>4
<1>5. {i \in DOMAIN ts : q[i] # ts[i]} = {}
  <2> DEFINE T == {i \in DOMAIN ts : q[i] # ts[i]}
  <2> SUFFICES ASSUME T # {} PROVE FALSE
    OBVIOUS
  <2>1. PICK m \in T : \A i \in T : m <= i
    <3>1. T \in SUBSET Nat
      BY <1>2
    <3> HIDE DEF T
    <3> QED BY <3>1, Least
  <2>2. m \in DOMAIN ts /\ q[m] # ts[m]
    OBVIOUS
  <2>3. \A i \in DOMAIN ts : ~(m <= i) => q[i] = ts[i]
    BY <2>1
  <2>4. PICK j \in DOMAIN ts : q[m] = ts[j]
    BY <1>1, <2>2
  <2>5. PICK l \in DOMAIN q : q[l] = ts[m]
    BY <1>1, <2>2
  <2>6. m <= j
    <3> SUFFICES ASSUME ~(m <= j) PROVE FALSE
      OBVIOUS
    <3>1. q[j].file = q[m].file
      BY <2>3, <2>4
    <3> QED BY <1>1, <2>2, <2>3, <2>4, <3>1 DEF Numbered
  <2>7. m <= l
    <3> SUFFICES ASSUME ~(m <= l) PROVE FALSE
      OBVIOUS
    <3>1. ts[l].file = ts[m].file /\ l \in DOMAIN ts
      BY <1>1, <2>3, <2>5
    <3> QED BY <1>1, <2>2, <2>3, <2>5, <3>1 DEF Numbered
  <2>8. ts[m].first <= ts[j].first /\ ts[j].first <= ts[m].first
    BY <1>1, <1>4, <2>2, <2>4, <2>5, <2>6, <2>7
  <2>9. ts[m].first = ts[j].first
    BY <1>3, <2>2, <2>8
  <2> QED BY <2>2, <2>4, <2>9 DEF Apart
<1>6. \A i \in 1 .. Len(q) : q[i] = ts[i]
  <2>1. DOMAIN ts = 1 .. Len(q)
    BY <1>1, LenProperties
  <2> QED BY <1>5, <2>1
<1> QED BY <1>1, <1>6, SeqEqual

-----------------------------------------------------------------------------
(* split_file.                                                             *)

LEMMA MaxIs ==
    ASSUME NEW n \in Nat, NEW S \in SUBSET Nat, \A x \in S : x <= n, S # {}
    PROVE  Seqs!Max(S) \in S /\ \A x \in S : x <= Seqs!Max(S)
<1>1. \E x \in S : \A y \in S : x >= y
  <2> DEFINE T == {y \in 1 .. n + 1 : y - 1 \in S}
  <2>1. T \in SUBSET (1 .. n + 1) /\ T # {} /\ n + 1 \in Nat
    <3>1. PICK x \in S : TRUE
      OBVIOUS
    <3>2. x + 1 \in 1 .. n + 1 /\ (x + 1) - 1 = x
      BY <3>1
    <3>3. (x + 1) - 1 \in S
      BY <3>1, <3>2
    <3>4. x + 1 \in T
      BY <3>2, <3>3
    <3> HIDE DEF T
    <3>5. T # {} /\ n + 1 \in Nat
      BY <3>4
    <3> QED BY <3>5 DEF T
  <2>2. PICK m \in T : \A y \in T : y <= m
    <3> HIDE DEF T
    <3> QED BY <2>1, Greatest
  <2>3. m - 1 \in S /\ m \in Nat
    OBVIOUS
  <2>4. ASSUME NEW y \in S PROVE m - 1 >= y
    <3>1. y + 1 \in 1 .. n + 1 /\ (y + 1) - 1 = y
      OBVIOUS
    <3>2. y + 1 <= m
      BY <2>2, <3>1
    <3> QED BY <2>3, <3>2
  <2> QED BY <2>3, <2>4
<1>2. Seqs!Max(S) \in S /\ \A y \in S : Seqs!Max(S) >= y
  <2>1. Seqs!Max(S) = CHOOSE x \in S : \A y \in S : x >= y
    BY DEF Seqs!Max
  <2> QED BY <1>1, <2>1
<1> QED BY <1>2

LEMMA MinIs ==
    ASSUME NEW S \in SUBSET Nat, S # {}
    PROVE  Seqs!Min(S) \in S /\ \A x \in S : Seqs!Min(S) <= x
<1>1. \E x \in S : \A y \in S : x <= y
  BY Least
<1>2. Seqs!Min(S) = CHOOSE x \in S : \A y \in S : x <= y
  BY DEF Seqs!Min
<1> QED BY <1>1, <1>2

LEMMA CellsOfTable ==
    ASSUME NEW ts \in Seq(Table), NEW i \in DOMAIN ts
    PROVE  /\ ts[i] \in Table
           /\ ts[i].file \in 1 .. MaxTables /\ ts[i].size \in Int
           /\ ts[i].first \in Key \cup {FirstLine}
           /\ ts[i].cells \in [Key -> Value \cup {None}]
           /\ Stored(ts[i].cells) \subseteq Key
<1>1. ts[i] \in Table
  BY ElementOfSeq
<1> QED BY <1>1 DEF Table, Stored

\* What a table with a new cell k, not its only one, is split into: at, the
\* table without its last cell, and new, with nothing else.
IsSplit(ts, i, us, last) ==
    /\ us \in Seq(Table) /\ Len(us) = Len(ts) + 1
    /\ \A j \in DOMAIN ts : j # i => us[j] = ts[j]
    /\ us[i].file = ts[i].file
    /\ us[i].first \in Stored(us[i].cells)
    /\ \A x \in Stored(us[i].cells) : us[i].first <= x /\ x < last
    /\ us[i].cells = [ts[i].cells EXCEPT ![last] = None]
    /\ last \in Stored(ts[i].cells)
    /\ us[Len(us)].file = Len(us)
    /\ us[Len(us)].first = last
    /\ us[Len(us)].cells = [NoCells EXCEPT ![last] = ts[i].cells[last]]

LEMMA SplitIs ==
    ASSUME NEW ts \in Seq(Table), NEW i \in DOMAIN ts, Len(ts) < MaxTables,
           NEW n \in Nat, \A x \in Stored(ts[i].cells) : x <= n,
           NEW k \in Stored(ts[i].cells), Stored(ts[i].cells) # {k}
    PROVE  \E last \in Key : IsSplit(ts, i, Split(ts, i), last)
<1> DEFINE cells == ts[i].cells
           last  == Seqs!Max(Stored(cells))
           rest  == Without(ts[i], last)
           low   == Seqs!Min(Stored(rest.cells))
           at    == [rest EXCEPT !.first = low]
           new   == NewTable(Len(ts) + 1, last, cells[last])
           us    == Split(ts, i)
<1>1. /\ DOMAIN ts = 1 .. Len(ts) /\ Len(ts) \in Nat /\ MaxTables \in Nat
      /\ Len(ts) + 1 \in 1 .. MaxTables
  BY LenProperties, BoundAssumption
<1>2. /\ ts[i] \in Table /\ cells \in [Key -> Value \cup {None}]
      /\ ts[i].file \in 1 .. MaxTables /\ ts[i].size \in Int
      /\ Stored(cells) \subseteq Key /\ Key \subseteq Nat
  BY CellsOfTable, KeyAssumption
<1>3. last \in Stored(cells) /\ \A x \in Stored(cells) : x <= last
  <2>1. Stored(cells) \in SUBSET Nat /\ Stored(cells) # {}
    BY <1>2
  <2> HIDE DEF cells
  <2> QED BY <2>1, MaxIs DEF cells
<1> HIDE DEF last
<1>4. /\ rest = [ts[i] EXCEPT !.size = @ - sizeOf[cells[last]], !.cells[last] = None]
      /\ rest.file = ts[i].file /\ rest.size \in Int
      /\ rest.cells = [cells EXCEPT ![last] = None]
      /\ rest \in Table
  <2>1. last \in Key /\ cells[last] \in Value /\ sizeOf[cells[last]] \in Nat
    BY <1>2, <1>3, ValueAssumption DEF Stored
  <2>2. rest = [ts[i] EXCEPT !.size = @ - sizeOf[cells[last]], !.cells[last] = None]
    BY DEF Without
  <2>3. ts[i].size - sizeOf[cells[last]] \in Int
    BY <1>2, <2>1
  <2> HIDE DEF rest
  <2>4. /\ rest.file = ts[i].file /\ rest.first = ts[i].first
        /\ rest.size = ts[i].size - sizeOf[cells[last]]
        /\ rest.cells = [cells EXCEPT ![last] = None]
    BY <1>2, <2>2 DEF Table
  <2>5. rest.cells \in [Key -> Value \cup {None}]
    BY <1>2, <2>4
  <2>6. rest = [file |-> rest.file, size |-> rest.size, first |-> rest.first,
                cells |-> rest.cells]
    BY <1>2, <2>2 DEF Table
  <2>7. rest.first \in Key \cup {FirstLine}
    BY <2>4, CellsOfTable
  <2>8. rest \in Table
    BY <1>2, <2>3, <2>4, <2>5, <2>6, <2>7 DEF Table
  <2> QED BY <2>2, <2>3, <2>4, <2>8
<1> HIDE DEF rest
<1>5. Stored(rest.cells) = Stored(cells) \ {last}
  BY <1>2, <1>3, <1>4 DEF Stored
<1>6. Stored(rest.cells) # {} /\ Stored(rest.cells) \in SUBSET Nat
  BY <1>2, <1>3, <1>5
<1>7. low \in Stored(rest.cells) /\ \A x \in Stored(rest.cells) : low <= x
  BY <1>6, MinIs
<1> HIDE DEF low
<1>8. /\ at \in Table /\ at.file = ts[i].file /\ at.first = low
      /\ at.cells = [cells EXCEPT ![last] = None]
  BY <1>2, <1>4, <1>5, <1>7 DEF Table
<1>9. /\ new \in Table /\ new.file = Len(ts) + 1 /\ new.first = last
      /\ new.cells = [NoCells EXCEPT ![last] = cells[last]]
  <2>1. last \in Key /\ cells[last] \in Value /\ sizeOf[cells[last]] \in Nat
    BY <1>2, <1>3, NoneAssumption, ValueAssumption DEF Stored
  <2> QED BY <1>1, <2>1 DEF NewTable, NoCells, Table
<1> HIDE DEF at, new
<1>10. us = Append([ts EXCEPT ![i] = at], new)
  BY DEF Split, at, new, rest, last, low
<1> HIDE DEF us
<1>11. /\ us \in Seq(Table) /\ Len(us) = Len(ts) + 1
       /\ \A j \in DOMAIN ts : us[j] = IF j = i THEN at ELSE ts[j]
       /\ us[Len(us)] = new
  <2> DEFINE vs == [ts EXCEPT ![i] = at]
  <2>1. /\ vs \in Seq(Table) /\ Len(vs) = Len(ts)
        /\ \A j \in DOMAIN ts : vs[j] = IF j = i THEN at ELSE ts[j]
    BY <1>8, ExceptSeq
  <2> HIDE DEF vs
  <2>2. /\ us \in Seq(Table) /\ Len(us) = Len(vs) + 1
        /\ \A j \in 1 .. Len(vs) : us[j] = vs[j]
        /\ us[Len(vs) + 1] = new
    BY <1>9, <1>10, <2>1, AppendProperties DEF vs
  <2> QED BY <1>1, <2>1, <2>2
<1>12. ASSUME NEW x \in Stored(rest.cells) PROVE x < last
  <2>1. x \in Nat /\ last \in Nat /\ x <= last /\ x # last
    BY <1>2, <1>3, <1>5
  <2> QED BY <2>1
<1>13. last \in Key /\ Stored(at.cells) = Stored(rest.cells)
  BY <1>2, <1>3, <1>4, <1>8
<1>14. us[i] = at /\ \A j \in DOMAIN ts : j # i => us[j] = ts[j]
  BY <1>11
<1>15. IsSplit(ts, i, us, last)
  BY <1>3, <1>7, <1>8, <1>9, <1>11, <1>12, <1>13, <1>14 DEF IsSplit
<1> QED BY <1>13, <1>15 DEF us

-----------------------------------------------------------------------------
(* Tables that change their cells only.                                    *)

SameShape(ts, us) ==
    /\ DOMAIN ts = DOMAIN us /\ Len(ts) = Len(us)
    /\ \A i \in DOMAIN ts : ts[i].file = us[i].file /\ ts[i].first = us[i].first

Tidy(ts) == Numbered(ts) /\ Ordered(ts) /\ Len(ts) <= MaxTables

LEMMA ShapeKeeps ==
    ASSUME NEW ts, NEW us, SameShape(ts, us)
    PROVE  /\ Firsts(ts) = Firsts(us) /\ \A k : Find(ts, k) = Find(us, k)
           /\ Tidy(ts) = Tidy(us) /\ Apart(ts) = Apart(us)
<1>1. Firsts(ts) = Firsts(us) /\ \A k : Find(ts, k) = Find(us, k)
  BY FindSame DEF SameShape
<1>2. Numbered(ts) <=> Numbered(us)
  BY DEF SameShape, Numbered
<1>3. Apart(ts) <=> Apart(us)
  BY DEF SameShape, Apart
<1>4. Tidy(ts) <=> Tidy(us)
  BY <1>1, <1>2 DEF SameShape, Tidy, Ordered
<1>5. /\ Tidy(ts) \in BOOLEAN /\ Tidy(us) \in BOOLEAN
      /\ Apart(ts) \in BOOLEAN /\ Apart(us) \in BOOLEAN
  BY DEF Tidy, Apart, Numbered, Ordered, Ascending
<1> QED BY <1>1, <1>3, <1>4, <1>5

\* v in the cell k of table i, and table i with size n.
InCell(ts, i, k, v) == [ts EXCEPT ![i].cells[k] = v]
Resized(ts, i, n) == [ts EXCEPT ![i].size = n]

LEMMA PutIs ==
    ASSUME NEW ts \in Seq(Table), NEW i \in DOMAIN ts, NEW k \in Key,
           NEW v \in Value \cup {None}, NEW us, us = InCell(ts, i, k, v)
    PROVE  /\ us \in Seq(Table) /\ SameShape(ts, us)
           /\ \A j \in DOMAIN ts : /\ us[j].size = ts[j].size
                                   /\ j # i => us[j] = ts[j]
           /\ us[i].cells = [ts[i].cells EXCEPT ![k] = v]
<1> DEFINE t == [ts[i] EXCEPT !.cells[k] = v]
<1>1. DOMAIN ts = 1 .. Len(ts) /\ ts[i] \in Table
  BY LenProperties, ElementOfSeq
<1>2. /\ t \in Table /\ t.file = ts[i].file /\ t.first = ts[i].first
      /\ t.size = ts[i].size /\ t.cells = [ts[i].cells EXCEPT ![k] = v]
  BY <1>1 DEF Table
<1>3. us = [ts EXCEPT ![i] = t]
  BY DEF InCell
<1> HIDE DEF t
<1>4. /\ us \in Seq(Table) /\ Len(us) = Len(ts)
      /\ \A j \in 1 .. Len(ts) : us[j] = IF j = i THEN t ELSE ts[j]
  BY <1>1, <1>2, <1>3, ExceptSeq
<1>5. DOMAIN us = DOMAIN ts
  BY <1>1, <1>4, LenProperties
<1>6. SameShape(ts, us)
  BY <1>1, <1>2, <1>4, <1>5 DEF SameShape
<1>7. /\ us[i].cells = [ts[i].cells EXCEPT ![k] = v]
      /\ \A j \in DOMAIN ts : us[j].size = ts[j].size /\ (j # i => us[j] = ts[j])
  BY <1>1, <1>2, <1>4
<1> QED BY <1>4, <1>6, <1>7

LEMMA ResizeIs ==
    ASSUME NEW ts \in Seq(Table), NEW i \in DOMAIN ts, NEW n \in Int,
           NEW us, us = Resized(ts, i, n)
    PROVE  /\ us \in Seq(Table) /\ SameShape(ts, us)
           /\ \A j \in DOMAIN ts : us[j].cells = ts[j].cells
<1> DEFINE t == [ts[i] EXCEPT !.size = n]
<1>1. DOMAIN ts = 1 .. Len(ts) /\ ts[i] \in Table
  BY LenProperties, ElementOfSeq
<1>2. t \in Table /\ t.file = ts[i].file /\ t.first = ts[i].first /\ t.cells = ts[i].cells
  BY <1>1 DEF Table
<1>3. us = [ts EXCEPT ![i] = t]
  BY DEF Resized
<1> HIDE DEF t
<1>4. /\ us \in Seq(Table) /\ Len(us) = Len(ts)
      /\ \A j \in 1 .. Len(ts) : us[j] = IF j = i THEN t ELSE ts[j]
  BY <1>1, <1>2, <1>3, ExceptSeq
<1>5. DOMAIN us = DOMAIN ts
  BY <1>1, <1>4, LenProperties
<1>6. SameShape(ts, us)
  BY <1>1, <1>2, <1>4, <1>5 DEF SameShape
<1> QED BY <1>1, <1>2, <1>4, <1>6

LEMMA ReplayIs ==
    ASSUME NEW ts \in Seq(Table), NEW es \in Seq(Key \X Value)
    PROVE  /\ Replay(ts, es) \in Seq(Table) /\ SameShape(ts, Replay(ts, es))
           /\ \A i \in DOMAIN ts, k \in Key :
                Replay(ts, es)[i].cells[k] =
                  IF Find(ts, k) = i /\ \E j \in DOMAIN es : IsLastPut(es, k, j)
                  THEN es[CHOOSE j \in DOMAIN es : IsLastPut(es, k, j)][2]
                  ELSE ts[i].cells[k]
<1> DEFINE us == Replay(ts, es)
           Cell(i, k) == IF Find(ts, k) = i /\ \E j \in DOMAIN es : IsLastPut(es, k, j)
                         THEN es[CHOOSE j \in DOMAIN es : IsLastPut(es, k, j)][2]
                         ELSE ts[i].cells[k]
<1>1. DOMAIN ts = 1 .. Len(ts) /\ Len(ts) \in Nat
  BY LenProperties
<1>2. us = [i \in DOMAIN ts |-> [ts[i] EXCEPT !.cells = [k \in Key |-> Cell(i, k)]]]
  BY DEF Replay
<1>3. ASSUME NEW i \in DOMAIN ts, NEW k \in Key PROVE Cell(i, k) \in Value \cup {None}
  <2>1. ASSUME NEW j \in DOMAIN es PROVE es[j][2] \in Value
    <3>1. es[j] \in Key \X Value
      BY ElementOfSeq
    <3> QED BY <3>1
  <2>2. ts[i].cells[k] \in Value \cup {None}
    BY CellsOfTable
  <2> QED BY <2>1, <2>2
<1> HIDE DEF Cell, us
<1>4. ASSUME NEW i \in DOMAIN ts
      PROVE  /\ us[i] \in Table /\ us[i].file = ts[i].file /\ us[i].first = ts[i].first
             /\ us[i].cells = [k \in Key |-> Cell(i, k)]
  <2>1. ts[i] \in Table
    BY ElementOfSeq
  <2>2. us[i] = [ts[i] EXCEPT !.cells = [k \in Key |-> Cell(i, k)]]
    BY <1>2
  <2>3. [k \in Key |-> Cell(i, k)] \in [Key -> Value \cup {None}]
    BY <1>3
  <2> QED BY <2>1, <2>2, <2>3 DEF Table
<1>5. us \in Seq(Table) /\ Len(us) = Len(ts) /\ DOMAIN us = DOMAIN ts
  <2>1. us \in [1 .. Len(ts) -> Table]
    BY <1>1, <1>2, <1>4
  <2> QED BY <1>1, <2>1, SeqDef, LenProperties
<1>6. SameShape(ts, us)
  BY <1>4, <1>5 DEF SameShape
<1> QED BY <1>4, <1>5, <1>6 DEF us, Cell

LEMMA LoadedIs ==
    ASSUME NEW m \in Seq(MetaLine), files \in [1 .. MaxTables -> [Key -> Value \cup {None}]]
    PROVE  /\ Loaded(m) \in Seq(Table) /\ SameShape(m, Loaded(m))
           /\ \A i \in DOMAIN m : Loaded(m)[i].cells = files[m[i].file]
<1>1. DOMAIN m = 1 .. Len(m) /\ Len(m) \in Nat
  BY LenProperties
<1>2. Loaded(m) = [i \in 1 .. Len(m) |->
                     [file |-> m[i].file, size |-> m[i].size,
                      first |-> m[i].first, cells |-> files[m[i].file]]]
  BY <1>1 DEF Loaded
<1>3. ASSUME NEW i \in 1 .. Len(m)
      PROVE  [file |-> m[i].file, size |-> m[i].size,
              first |-> m[i].first, cells |-> files[m[i].file]] \in Table
  <2>1. m[i] \in MetaLine
    BY ElementOfSeq
  <2> QED BY <2>1 DEF MetaLine, Table
<1>4. Loaded(m) \in [1 .. Len(m) -> Table]
  BY <1>2, <1>3
<1>5. Loaded(m) \in Seq(Table) /\ Len(Loaded(m)) = Len(m) /\ DOMAIN Loaded(m) = DOMAIN m
  BY <1>1, <1>4, SeqDef, LenProperties
<1> QED BY <1>1, <1>2, <1>5 DEF SameShape

-----------------------------------------------------------------------------
(* The shape of the state: types, the order and the files of the tables in *)
(* memory and in the metadata, what a checkpoint is at, and a bound on the *)
(* keys that are stored anywhere.                                          *)

Busy ==
    /\ step # "ready" => up /\ late.num \in DOMAIN tables
    /\ step \in {"openFile", "closeFile"} => nth \in DOMAIN tables

UpTo(n) ==
    \A k \in Key : ~(k <= n) =>
        /\ \A i \in DOMAIN tables : tables[i].cells[k] = None
        /\ \A f \in DOMAIN files : files[f][k] = None
        /\ \A j \in DOMAIN log : log[j][1] # k

Shape ==
    /\ TypeOK
    /\ Tidy(tables)
    /\ Tidy(meta)
    /\ Busy

Bounded == \E n \in Nat : UpTo(n)

LEMMA TypeOKIs ==
    TypeOK <=> /\ up \in BOOLEAN
               /\ tables \in Seq(Table)
               /\ up <=> tables # << >>
               /\ step \in {"ready", "openMeta", "closeMeta", "openFile", "closeFile",
                            "openLog", "closeLog"}
               /\ nth \in 1 .. MaxTables + 1
               /\ late \in [num : 1 .. MaxTables, size : Nat]
               /\ meta \in Seq(MetaLine)
               /\ files \in [1 .. MaxTables -> [Key -> Value \cup {None}]]
               /\ log \in Seq(Key \X Value)
               /\ marked \in BOOLEAN
               /\ crashes \in 0 .. MaxCrash
               /\ torn \in BOOLEAN
               /\ unsaved \subseteq Key
               /\ answers \in [Key -> Value \cup {None}]
BY DEF TypeOK, Table, MetaLine

LEMMA NoTables ==
    << >> \in Seq(Table) /\ << >> \in Seq(MetaLine) /\ Tidy(<< >>) /\ Apart(<< >>)
<1>1. DOMAIN << >> = {} /\ Len(<< >>) = 0
  BY LenProperties, EmptySeq
<1>2. MaxTables \in Nat
  BY BoundAssumption
<1>3. DOMAIN Firsts(<< >>) = {}
  BY <1>1 DEF Firsts
<1>4. Tidy(<< >>) /\ Apart(<< >>)
  BY <1>1, <1>2, <1>3 DEF Tidy, Numbered, Ordered, Ascending, Apart
<1> QED BY <1>4, EmptySeq

LEMMA NewMetaIs ==
    /\ NewMeta \in Seq(MetaLine) /\ NewMeta # << >> /\ Tidy(NewMeta)
    /\ Len(NewMeta) = 1 /\ DOMAIN NewMeta = {1}
<1> DEFINE r == [file |-> 1, size |-> 0, first |-> FirstLine]
<1>1. 1 \in 1 .. MaxTables /\ 1 <= MaxTables /\ MaxTables \in Nat
  BY BoundAssumption
<1>2. r \in MetaLine /\ r.file = 1
  BY <1>1 DEF MetaLine
<1>3. NewMeta = << r >>
  BY DEF NewMeta
<1> HIDE DEF r
<1>4. NewMeta \in Seq(MetaLine) /\ Len(NewMeta) = 1 /\ NewMeta[1] = r
  BY <1>2, <1>3
<1>5. DOMAIN NewMeta = {1}
  BY <1>4, LenProperties
<1>6. Ascending(Firsts(NewMeta))
  <2>1. /\ DOMAIN Firsts(NewMeta) = {1} /\ \A i \in {1} : Firsts(NewMeta)[i] \in Nat
    BY <1>4, <1>5, FirstsAre, TableFirsts
  <2> QED BY <2>1 DEF Ascending
<1>7. Tidy(NewMeta)
  BY <1>1, <1>2, <1>4, <1>5, <1>6 DEF Tidy, Numbered, Ordered
<1>8. NewMeta # << >>
  BY <1>4, EmptySeq
<1> QED BY <1>4, <1>5, <1>7, <1>8

\* The tables of a new server are its metadata's, without a cell.
LEMMA NewServer ==
    ASSUME Init
    PROVE  /\ tables \in Seq(Table) /\ tables # << >> /\ SameShape(meta, tables)
           /\ Len(tables) = 1 /\ DOMAIN tables = {1} /\ tables[1].cells = NoCells
           /\ meta = NewMeta
<1> DEFINE t == [file |-> 1, size |-> 0, first |-> FirstLine, cells |-> NoCells]
<1>1. 1 \in 1 .. MaxTables
  BY BoundAssumption
<1>2. t \in Table /\ t.file = 1 /\ t.first = FirstLine /\ t.cells = NoCells
  BY <1>1 DEF Table, NoCells
<1>3. tables = << t >> /\ meta = NewMeta
  BY DEF Init
<1> HIDE DEF t
<1>4. tables \in Seq(Table) /\ Len(tables) = 1 /\ tables[1] = t
  BY <1>2, <1>3
<1>5. DOMAIN tables = {1} /\ tables # << >>
  BY <1>4, LenProperties, EmptySeq
<1>6. meta[1].file = 1 /\ meta[1].first = FirstLine
  BY <1>3 DEF NewMeta
<1>7. SameShape(meta, tables)
  BY <1>2, <1>3, <1>4, <1>5, <1>6, NewMetaIs DEF SameShape
<1> QED BY <1>2, <1>3, <1>4, <1>5, <1>7

LEMMA ShapeInit == Init => Shape /\ Bounded
<1> SUFFICES ASSUME Init PROVE Shape /\ Bounded
  OBVIOUS
<1>1. /\ tables \in Seq(Table) /\ tables # << >> /\ SameShape(meta, tables)
      /\ Len(tables) = 1 /\ DOMAIN tables = {1} /\ tables[1].cells = NoCells
      /\ meta = NewMeta
  BY NewServer
<1>2. NoCells \in [Key -> Value \cup {None}]
  BY DEF NoCells
<1>3. /\ 1 \in 1 .. MaxTables /\ 1 \in 1 .. MaxTables + 1 /\ 0 \in 0 .. MaxCrash
      /\ MaxTables \in Nat
  BY BoundAssumption
<1>4. /\ up = TRUE /\ step = "ready" /\ nth = 1 /\ late = [num |-> 1, size |-> 0]
      /\ files = [f \in 1 .. MaxTables |-> NoCells] /\ log = << >> /\ marked = FALSE
      /\ crashes = 0 /\ torn = FALSE /\ unsaved = {} /\ answers = NoCells
  BY DEF Init
<1>5. TypeOK
  BY <1>1, <1>2, <1>3, <1>4, NewMetaIs, TypeOKIs, EmptySeq
<1>6. Tidy(meta) /\ Tidy(tables)
  BY <1>1, NewMetaIs, ShapeKeeps
<1>7. Busy
  BY <1>4 DEF Busy
<1>8. UpTo(0)
  <2>1. DOMAIN log = {}
    BY <1>4, LenProperties, EmptySeq
  <2> QED BY <1>1, <1>4, <2>1 DEF UpTo, NoCells
<1> QED BY <1>5, <1>6, <1>7, <1>8 DEF Shape, Bounded

-----------------------------------------------------------------------------
(* put_value.                                                              *)

\* The tables with v put into the cell k.
With(k, v) == [tables EXCEPT ![Find(tables, k)].cells[k] = v]

LEMMA WithIs ==
    ASSUME Shape, up, NEW k \in Key, NEW v \in Value \cup {None}
    PROVE  /\ Find(tables, k) \in DOMAIN tables
           /\ With(k, v) \in Seq(Table) /\ With(k, v) # << >>
           /\ SameShape(tables, With(k, v)) /\ Tidy(With(k, v))
           /\ \A j \in DOMAIN tables : /\ With(k, v)[j].size = tables[j].size
                                       /\ j # Find(tables, k) => With(k, v)[j] = tables[j]
           /\ With(k, v)[Find(tables, k)].cells = [tables[Find(tables, k)].cells EXCEPT ![k] = v]
<1>1. tables \in Seq(Table) /\ tables # << >> /\ Tidy(tables) /\ Ordered(tables)
  BY TypeOKIs DEF Shape, Tidy
<1>2. Find(tables, k) \in DOMAIN tables
  BY <1>1, FindIsTable
<1>3. /\ With(k, v) \in Seq(Table) /\ SameShape(tables, With(k, v))
      /\ \A j \in DOMAIN tables : /\ With(k, v)[j].size = tables[j].size
                                  /\ j # Find(tables, k) => With(k, v)[j] = tables[j]
      /\ With(k, v)[Find(tables, k)].cells = [tables[Find(tables, k)].cells EXCEPT ![k] = v]
  <2>1. With(k, v) = InCell(tables, Find(tables, k), k, v)
    BY DEF With, InCell
  <2> QED BY <1>1, <1>2, <2>1, PutIs
<1>4. With(k, v) # << >>
  BY <1>1, <1>3, EmptySeq DEF SameShape
<1>5. Tidy(With(k, v))
  BY <1>1, <1>3, ShapeKeeps
<1> QED BY <1>2, <1>3, <1>4, <1>5

\* The three ways put_value goes.
Plain(k, v) ==
    /\ tables' \in Seq(Table) /\ SameShape(With(k, v), tables')
    /\ \A j \in DOMAIN tables : tables'[j].cells = With(k, v)[j].cells
    /\ UNCHANGED <<up, step, nth, late, crashes, torn, answers>>

Splits(k, v) ==
    /\ Len(tables) < MaxTables
    /\ \E us, last : IsSplit(With(k, v), Find(tables, k), us, last) /\ tables' \in Sorted(us)
    /\ step' = "openMeta"
    /\ late' = [num |-> Find(tables, k), size |-> sizeOf[v]]
    /\ UNCHANGED <<up, nth, crashes, torn, answers>>

LEMMA PutValueIs ==
    ASSUME Shape, Bounded, Ready, NEW k \in Key, NEW v \in Value, PutValue(k, v)
    PROVE  /\ log' = Append(log, <<k, v>>) /\ log' \in Seq(Key \X Value)
           /\ unsaved' = unsaved \ {k} /\ UNCHANGED <<meta, files, marked>>
           /\ \/ Plain(k, v)
              \/ Splits(k, v)
              \/ Die(With(k, v))
<1> DEFINE i    == Find(tables, k)
           old  == tables[i].cells[k]
           put  == With(k, v)
           full == old = None /\ tables[i].size > FileSize
<1>1. up
  BY DEF Ready
<1>2. /\ log' = Append(log, <<k, v>>)
      /\ unsaved' = unsaved \ {k} /\ UNCHANGED <<meta, files, marked>>
      /\ \/ /\ ~full
            /\ tables' = [put EXCEPT ![i].size =
                            @ + sizeOf[v] - (IF old = None THEN 0 ELSE sizeOf[old])]
            /\ UNCHANGED <<up, step, nth, late, crashes, torn, answers>>
         \/ /\ full
            /\ Stored(put[i].cells) # {k}
            /\ Len(tables) < MaxTables
            /\ tables' \in Sorted(Split(put, i))
            /\ step' = "openMeta"
            /\ late' = [num |-> i, size |-> sizeOf[v]]
            /\ UNCHANGED <<up, nth, crashes, torn, answers>>
         \/ /\ full
            /\ Stored(put[i].cells) = {k}
            /\ Die(put)
  BY DEF PutValue, With
<1>3. /\ i \in DOMAIN tables /\ put \in Seq(Table) /\ SameShape(tables, put) /\ Tidy(put)
      /\ put[i].cells = [tables[i].cells EXCEPT ![k] = v]
  BY <1>1, WithIs
<1>4. log' \in Seq(Key \X Value)
  <2>1. log \in Seq(Key \X Value)
    BY TypeOKIs DEF Shape
  <2> QED BY <1>2, <2>1, AppendProperties
<1> HIDE DEF put, i
<1>5. CASE /\ tables' = [put EXCEPT ![i].size =
                            @ + sizeOf[v] - (IF old = None THEN 0 ELSE sizeOf[old])]
           /\ UNCHANGED <<up, step, nth, late, crashes, torn, answers>>
  <2> DEFINE n == put[i].size + sizeOf[v] - (IF old = None THEN 0 ELSE sizeOf[old])
  <2>1. i \in DOMAIN put
    BY <1>3 DEF SameShape
  <2>2. n \in Int
    <3>1. put[i].size \in Int
      BY <1>3, <2>1, CellsOfTable
    <3>2. old \in Value \cup {None}
      <4>1. tables \in Seq(Table)
        BY TypeOKIs DEF Shape
      <4> QED BY <1>3, <4>1, CellsOfTable
    <3>3. sizeOf[v] \in Nat /\ (old # None => sizeOf[old] \in Nat)
      BY <3>2, ValueAssumption
    <3> QED BY <3>1, <3>3
  <2>3. tables' = Resized(put, i, n)
    BY <1>5 DEF Resized
  <2> HIDE DEF n
  <2>4. /\ tables' \in Seq(Table) /\ SameShape(put, tables')
        /\ \A j \in DOMAIN put : tables'[j].cells = put[j].cells
    <3>1. put \in Seq(Table)
      BY <1>3
    <3> QED BY <3>1, <2>1, <2>2, <2>3, ResizeIs

  <2>5. Plain(k, v)
    BY <1>3, <1>5, <2>4 DEF Plain, SameShape, put
  <2> QED BY <1>2, <1>4, <2>5
<1>6. CASE /\ Stored(put[i].cells) # {k}
           /\ Len(tables) < MaxTables
           /\ tables' \in Sorted(Split(put, i))
           /\ step' = "openMeta"
           /\ late' = [num |-> i, size |-> sizeOf[v]]
           /\ UNCHANGED <<up, nth, crashes, torn, answers>>
  <2>1. PICK n \in Nat : UpTo(n)
    BY DEF Bounded
  <2>2. PICK m \in Nat : n <= m /\ k <= m
    <3>1. k \in Nat
      BY KeyAssumption
    <3>2. n + k \in Nat /\ n <= n + k /\ k <= n + k
      BY <3>1
    <3> QED BY <3>2
  <2>3. k \in Stored(put[i].cells)
    <3>1. tables \in Seq(Table)
      BY TypeOKIs DEF Shape
    <3>2. tables[i].cells \in [Key -> Value \cup {None}]
      BY <1>3, <3>1, CellsOfTable
    <3> QED BY <1>3, <3>2, NoneAssumption DEF Stored
  <2>4. ASSUME NEW x \in Stored(put[i].cells) PROVE x <= m
    <3>1. x \in Key /\ x \in Nat
      BY KeyAssumption DEF Stored
    <3>2. x = k \/ x <= n
      <4>1. tables \in Seq(Table)
        BY TypeOKIs DEF Shape
      <4>2. tables[i].cells \in [Key -> Value \cup {None}]
        BY <1>3, <4>1, CellsOfTable
      <4>3. x # k => tables[i].cells[x] # None
        BY <1>3, <3>1, <4>2 DEF Stored
      <4> QED BY <1>3, <2>1, <3>1, <4>3 DEF UpTo
    <3> QED BY <2>2, <3>1, <3>2
  <2>5. i \in DOMAIN put /\ Len(put) < MaxTables
    BY <1>3, <1>6 DEF SameShape
  <2>6. PICK last \in Key : IsSplit(put, i, Split(put, i), last)
    BY <1>3, <1>6, <2>3, <2>4, <2>5, SplitIs
  <2>7. Splits(k, v)
    BY <1>6, <2>6 DEF Splits, put, i
  <2> QED BY <1>2, <1>4, <2>7
<1>7. CASE Die(put)
  BY <1>2, <1>4, <1>7 DEF put
<1> QED BY <1>2, <1>5, <1>6, <1>7

LEMMA DieKeepsShape ==
    ASSUME Shape, NEW ts \in Seq(Table), ts # << >>, Ordered(ts), Die(ts),
           log' \in Seq(Key \X Value), unsaved' \subseteq Key,
           UNCHANGED <<meta, files, marked>>
    PROVE  Shape'
<1>1. /\ up' = FALSE /\ tables' = << >> /\ step' = "ready" /\ crashes < MaxCrash
      /\ crashes' = crashes + 1 /\ answers' = [k \in Key |-> Answer(ts, k)]
      /\ UNCHANGED <<nth, late>>
  BY DEF Die
<1>2. crashes' \in 0 .. MaxCrash
  BY <1>1, TypeOKIs, BoundAssumption DEF Shape
<1>3. answers' \in [Key -> Value \cup {None}]
  <2>1. ASSUME NEW k \in Key PROVE Answer(ts, k) \in Value \cup {None}
    BY FindIsTable, CellsOfTable DEF Answer
  <2> QED BY <1>1, <2>1
<1>4. TypeOK'
  <2>1. torn' \in BOOLEAN
    BY DEF Die
  <2> QED BY <1>1, <1>2, <1>3, <2>1, NoTables DEF Shape, TypeOK, Table, MetaLine
<1>5. Tidy(tables)' /\ Tidy(meta)'
  BY <1>1, NoTables DEF Shape
<1>6. Busy'
  BY <1>1 DEF Busy
<1> QED BY <1>4, <1>5, <1>6 DEF Shape

\* A split gives the new table the next file.
LEMMA SplitNumbered ==
    ASSUME NEW ts \in Seq(Table), Numbered(ts), NEW i \in DOMAIN ts,
           NEW us, NEW last, IsSplit(ts, i, us, last)
    PROVE  Numbered(us)
<1>1. /\ us \in Seq(Table) /\ Len(us) = Len(ts) + 1
      /\ DOMAIN us = 1 .. Len(ts) + 1 /\ DOMAIN ts = 1 .. Len(ts) /\ Len(ts) \in Nat
  BY LenProperties DEF IsSplit
<1>2. \A j \in DOMAIN ts : us[j].file = ts[j].file
  BY DEF IsSplit
<1>3. us[Len(ts) + 1].file = Len(ts) + 1
  BY <1>1 DEF IsSplit
<1>4. \A j \in DOMAIN us : us[j].file \in 1 .. Len(us)
  <2> SUFFICES ASSUME NEW j \in DOMAIN us PROVE us[j].file \in 1 .. Len(us)
    OBVIOUS
  <2>1. CASE j \in DOMAIN ts
    <3>1. us[j].file \in 1 .. Len(ts)
      BY <1>2, <2>1 DEF Numbered
    <3> QED BY <1>1, <3>1
  <2>2. CASE j = Len(ts) + 1
    BY <1>1, <1>3, <2>2
  <2> QED BY <1>1, <2>1, <2>2
<1>5. ASSUME NEW a \in DOMAIN us, NEW b \in DOMAIN us, us[a].file = us[b].file
      PROVE  a = b
  <2>1. \A j \in DOMAIN ts : us[j].file \in 1 .. Len(ts)
    BY <1>2 DEF Numbered
  <2>2. CASE a \in DOMAIN ts /\ b \in DOMAIN ts
    BY <1>2, <1>5, <2>2 DEF Numbered
  <2>3. CASE ~(a \in DOMAIN ts /\ b \in DOMAIN ts)
    BY <1>1, <1>3, <1>5, <2>1, <2>3
  <2> QED BY <2>2, <2>3
<1> QED BY <1>4, <1>5 DEF Numbered

\* A split leaves tables in order, with files of their own.
LEMMA SplitsKeepsTables ==
    ASSUME Shape, up, NEW k \in Key, NEW v \in Value, Splits(k, v)
    PROVE  /\ tables' \in Seq(Table) /\ tables' # << >> /\ Tidy(tables')
           /\ Len(tables') = Len(tables) + 1 /\ DOMAIN tables \subseteq DOMAIN tables'
           /\ Find(tables, k) \in DOMAIN tables
<1> DEFINE put == With(k, v)
           i   == Find(tables, k)
<1>1. /\ i \in DOMAIN tables /\ put \in Seq(Table) /\ SameShape(tables, put) /\ Tidy(put)
  BY WithIs
<1>2. PICK us, last : IsSplit(put, i, us, last) /\ tables' \in Sorted(us)
  BY DEF Splits
<1> HIDE DEF put, i
<1>3. /\ us \in Seq(Table) /\ Len(us) = Len(put) + 1
      /\ DOMAIN us = 1 .. Len(put) + 1 /\ DOMAIN put = 1 .. Len(put) /\ Len(put) \in Nat
  BY <1>1, <1>2, LenProperties DEF IsSplit
<1>4. Numbered(us)
  <2>1. i \in DOMAIN put
    BY <1>1 DEF SameShape
  <2> QED BY <1>1, <1>2, <2>1, SplitNumbered DEF Tidy
<1>5. /\ tables' \in Seq(Table) /\ Len(tables') = Len(us) /\ DOMAIN tables' = DOMAIN us
      /\ Ordered(tables') /\ Numbered(tables')
  BY <1>2, <1>3, <1>4, SortedAre, TableFirsts
<1>6. Len(put) = Len(tables) /\ DOMAIN put = DOMAIN tables /\ Len(tables) < MaxTables
  BY <1>1 DEF SameShape, Splits
<1>7. Len(tables') <= MaxTables
  BY <1>3, <1>5, <1>6, BoundAssumption
<1>8. DOMAIN tables \subseteq DOMAIN tables'
  BY <1>3, <1>5, <1>6
<1>9. tables' # << >>
  BY <1>3, <1>5, EmptySeq
<1> QED BY <1>1, <1>3, <1>5, <1>6, <1>7, <1>8, <1>9 DEF Tidy, i

-----------------------------------------------------------------------------
(* Every step keeps the shape.                                             *)

LEMMA PutValueKeepsShape ==
    ASSUME Shape, Bounded, Ready, NEW k \in Key, NEW v \in Value, PutValue(k, v)
    PROVE  Shape'
<1>1. up /\ step = "ready"
  BY DEF Ready
<1>2. /\ log' \in Seq(Key \X Value) /\ UNCHANGED <<meta, files, marked>>
      /\ unsaved' \subseteq Key
      /\ Plain(k, v) \/ Splits(k, v) \/ Die(With(k, v))
  <2>1. unsaved \subseteq Key
    BY TypeOKIs DEF Shape
  <2> QED BY <2>1, PutValueIs
<1>3. /\ Find(tables, k) \in DOMAIN tables
      /\ With(k, v) \in Seq(Table) /\ With(k, v) # << >>
      /\ SameShape(tables, With(k, v)) /\ Tidy(With(k, v))
  BY <1>1, WithIs
<1>4. CASE Plain(k, v)
  <2>1. /\ tables' \in Seq(Table) /\ SameShape(With(k, v), tables')
        /\ UNCHANGED <<up, step, nth, late, crashes, torn, answers>>
    BY <1>4 DEF Plain
  <2>2. Tidy(tables')
    BY <1>3, <2>1, ShapeKeeps
  <2>3. tables' # << >>
    BY <1>3, <2>1, EmptySeq DEF SameShape
  <2>4. TypeOK'
    BY <1>1, <1>2, <2>1, <2>3 DEF Shape, TypeOK, Table
  <2>5. Busy'
    BY <1>1, <2>1 DEF Busy
  <2> QED BY <1>2, <2>2, <2>4, <2>5 DEF Shape
<1>5. CASE Splits(k, v)
  <2>1. /\ tables' \in Seq(Table) /\ tables' # << >> /\ Tidy(tables')
        /\ DOMAIN tables \subseteq DOMAIN tables'
    BY <1>1, <1>5, SplitsKeepsTables
  <2>2. /\ step' = "openMeta" /\ late' = [num |-> Find(tables, k), size |-> sizeOf[v]]
        /\ UNCHANGED <<up, nth, crashes, torn, answers>>
    BY <1>5 DEF Splits
  <2>3. late' \in [num : 1 .. MaxTables, size : Nat] /\ late'.num \in DOMAIN tables'
    <3>1. sizeOf[v] \in Nat
      BY ValueAssumption
    <3>2. Find(tables, k) \in 1 .. MaxTables
      <4>1. /\ DOMAIN tables = 1 .. Len(tables) /\ Len(tables) \in Nat
            /\ Len(tables) <= MaxTables
        BY TypeOKIs, LenProperties DEF Shape, Tidy
      <4> QED BY <1>3, <4>1, BoundAssumption
    <3> QED BY <1>3, <2>1, <2>2, <3>1, <3>2
  <2>4. TypeOK'
    BY <1>1, <1>2, <2>1, <2>2, <2>3 DEF Shape, TypeOK, Table
  <2>5. Busy'
    BY <1>1, <2>2, <2>3 DEF Busy
  <2> QED BY <1>2, <2>1, <2>4, <2>5 DEF Shape
<1>6. CASE Die(With(k, v))
  BY <1>2, <1>3, <1>6, DieKeepsShape DEF Tidy
<1> QED BY <1>2, <1>4, <1>5, <1>6

LEMMA DeleteKeepsShape ==
    ASSUME Shape, NEW k \in Key, Delete(k)
    PROVE  Shape'
<1>1. /\ up /\ step = "ready" /\ tables' = With(k, None)
      /\ unsaved' = unsaved \cup {k}
      /\ UNCHANGED <<up, step, nth, late, disk, crashes, torn, answers>>
  BY DEF Delete, Ready, With
<1>2. /\ tables' \in Seq(Table) /\ tables' # << >> /\ Tidy(tables')
  BY <1>1, WithIs
<1>3. TypeOK'
  BY <1>1, <1>2 DEF Shape, TypeOK, Table, disk
<1>4. Busy'
  BY <1>1 DEF Busy
<1> QED BY <1>1, <1>2, <1>3, <1>4 DEF Shape, disk

LEMMA OpenMetaKeepsShape == ASSUME Shape, OpenMeta PROVE Shape'
<1>1. /\ up /\ step = "openMeta" /\ step' = "closeMeta" /\ meta' = << >>
      /\ UNCHANGED <<up, crashes, torn, answers, unsaved, tables, nth, late, files, log, marked>>
  BY DEF OpenMeta, Checkpointing
<1>2. TypeOK'
  BY <1>1, NoTables DEF Shape, TypeOK, MetaLine
<1> QED BY <1>1, <1>2, NoTables DEF Shape, Busy

LEMMA CloseMetaKeepsShape ==
    ASSUME Shape, CloseMeta
    PROVE  Shape' /\ SameShape(tables, meta')
<1>1. /\ up /\ step = "closeMeta" /\ step' = "openFile" /\ nth' = 1
      /\ meta' = [i \in DOMAIN tables |->
                    [file |-> tables[i].file, size |-> tables[i].size,
                     first |-> tables[i].first]]
      /\ UNCHANGED <<up, crashes, torn, answers, unsaved, tables, late, files, log, marked>>
  BY DEF CloseMeta, Checkpointing
<1>2. /\ tables \in Seq(Table) /\ tables # << >> /\ Tidy(tables)
      /\ DOMAIN tables = 1 .. Len(tables) /\ Len(tables) \in Nat
  BY <1>1, TypeOKIs, LenProperties DEF Shape
<1>3. meta' \in Seq(MetaLine) /\ Len(meta') = Len(tables) /\ DOMAIN meta' = DOMAIN tables
  <2>1. ASSUME NEW i \in DOMAIN tables
        PROVE  [file |-> tables[i].file, size |-> tables[i].size,
                first |-> tables[i].first] \in MetaLine
    BY <1>2, CellsOfTable DEF MetaLine
  <2>2. meta' \in [1 .. Len(tables) -> MetaLine]
    BY <1>1, <1>2, <2>1
  <2> QED BY <1>2, <2>2, SeqDef, LenProperties
<1>4. SameShape(tables, meta')
  BY <1>1, <1>3 DEF SameShape
<1>5. Tidy(meta')
  BY <1>2, <1>4, ShapeKeeps
<1>6. 1 \in DOMAIN tables
  BY <1>2, EmptySeq
<1>7. TypeOK'
  BY <1>1, <1>3, BoundAssumption DEF Shape, TypeOK, MetaLine
<1>8. Busy'
  BY <1>1, <1>6 DEF Shape, Busy
<1> QED BY <1>1, <1>2, <1>4, <1>5, <1>7, <1>8 DEF Shape

LEMMA OpenFileKeepsShape == ASSUME Shape, OpenFile PROVE Shape'
<1>1. /\ up /\ step = "openFile" /\ step' = "closeFile"
      /\ files' = [files EXCEPT ![tables[nth].file] = NoCells]
      /\ UNCHANGED <<up, crashes, torn, answers, unsaved, tables, nth, late, meta, log, marked>>
  BY DEF OpenFile, Checkpointing
<1>2. files' \in [1 .. MaxTables -> [Key -> Value \cup {None}]]
  <2>1. NoCells \in [Key -> Value \cup {None}]
    BY DEF NoCells
  <2> QED BY <1>1, <2>1, TypeOKIs DEF Shape
<1>3. TypeOK'
  BY <1>1, <1>2 DEF Shape, TypeOK
<1> QED BY <1>1, <1>3 DEF Shape, Busy

Shown(cells) == [k \in Key |-> IF cells[k] = Deleted THEN None ELSE cells[k]]

LEMMA CloseFileKeepsShape == ASSUME Shape, CloseFile PROVE Shape'
<1>1. /\ up /\ step = "closeFile" /\ nth' = nth + 1
      /\ step' = IF nth < Len(tables) THEN "openFile" ELSE "openLog"
      /\ files' = [files EXCEPT ![tables[nth].file] = Shown(tables[nth].cells)]
      /\ UNCHANGED <<up, crashes, torn, answers, unsaved, tables, late, meta, log, marked>>
  BY DEF CloseFile, Checkpointing, Shown
<1>2. /\ tables \in Seq(Table) /\ nth \in DOMAIN tables
      /\ DOMAIN tables = 1 .. Len(tables) /\ Len(tables) \in Nat /\ Len(tables) <= MaxTables
  BY <1>1, TypeOKIs, LenProperties DEF Shape, Busy, Tidy
<1>3. Shown(tables[nth].cells) \in [Key -> Value \cup {None}]
  <2>1. tables[nth].cells \in [Key -> Value \cup {None}]
    BY <1>2, CellsOfTable
  <2> QED BY <2>1 DEF Shown
<1>4. files' \in [1 .. MaxTables -> [Key -> Value \cup {None}]]
  BY <1>1, <1>3, TypeOKIs DEF Shape
<1>5. nth' \in 1 .. MaxTables + 1
  BY <1>1, <1>2, BoundAssumption
<1>6. nth < Len(tables) => nth' \in DOMAIN tables
  BY <1>1, <1>2
<1>7. TypeOK'
  BY <1>1, <1>4, <1>5 DEF Shape, TypeOK
<1>8. Busy'
  BY <1>1, <1>6 DEF Shape, Busy
<1> QED BY <1>1, <1>7, <1>8 DEF Shape

LEMMA OpenLogKeepsShape == ASSUME Shape, OpenLog PROVE Shape'
<1>1. /\ up /\ step = "openLog" /\ step' = "closeLog" /\ log' = << >> /\ marked' = FALSE
      /\ UNCHANGED <<up, crashes, torn, answers, unsaved, tables, nth, late, meta, files>>
  BY DEF OpenLog, Checkpointing
<1>2. TypeOK'
  BY <1>1, EmptySeq DEF Shape, TypeOK
<1> QED BY <1>1, <1>2 DEF Shape, Busy

LEMMA CloseLogKeepsShape ==
    ASSUME Shape, CloseLog
    PROVE  /\ Shape' /\ SameShape(tables, tables')
           /\ \A i \in DOMAIN tables : tables'[i].cells = tables[i].cells
<1> DEFINE i == late.num
           n == tables[i].size + late.size
<1>1. /\ up /\ step = "closeLog" /\ step' = "ready" /\ marked' = TRUE
      /\ tables' = Resized(tables, i, n) /\ unsaved' = {}
      /\ UNCHANGED <<up, crashes, torn, answers, nth, late, meta, files, log>>
  BY DEF CloseLog, Checkpointing, Resized
<1>2. tables \in Seq(Table) /\ i \in DOMAIN tables /\ tables # << >>
  BY <1>1, TypeOKIs DEF Shape, Busy
<1>3. n \in Int
  <2>1. late.size \in Nat
    BY TypeOKIs DEF Shape
  <2> QED BY <1>2, <2>1, CellsOfTable
<1> HIDE DEF i, n
<1>4. /\ tables' \in Seq(Table) /\ SameShape(tables, tables')
      /\ \A j \in DOMAIN tables : tables'[j].cells = tables[j].cells
  BY <1>1, <1>2, <1>3, ResizeIs
<1>5. Tidy(tables')
  BY <1>4, ShapeKeeps DEF Shape
<1>6. tables' # << >>
  BY <1>2, <1>4, EmptySeq DEF SameShape
<1>7. TypeOK'
  BY <1>1, <1>4, <1>6 DEF Shape, TypeOK, Table
<1>8. Busy'
  BY <1>1 DEF Busy
<1> QED BY <1>1, <1>4, <1>5, <1>7, <1>8 DEF Shape

LEMMA RestartKeepsShape ==
    ASSUME Shape, Restart
    PROVE  /\ Shape' /\ meta' # << >>
           /\ \E ts, n : /\ ts \in Sorted(Loaded(meta')) /\ ts \in Seq(Table)
                         /\ SubSeq(log, n + 1, Len(log)) \in Seq(Key \X Value)
                         /\ n \in IF marked THEN {0} ELSE 0 .. Len(log)
                         /\ tables' = Replay(ts, SubSeq(log, n + 1, Len(log)))
<1>1. /\ ~up /\ up' = TRUE /\ meta' = IF meta = << >> THEN NewMeta ELSE meta
      /\ unsaved' = {} /\ answers' = NoCells
      /\ UNCHANGED <<step, nth, late, files, log, marked, crashes, torn>>
  BY DEF Restart
<1>2. PICK ts \in Sorted(Loaded(meta')), n \in IF marked THEN {0} ELSE 0 .. Len(log) :
         tables' = Replay(ts, SubSeq(log, n + 1, Len(log)))
  BY DEF Restart
<1>3. meta' \in Seq(MetaLine) /\ meta' # << >> /\ Tidy(meta')
  BY <1>1, NewMetaIs, TypeOKIs DEF Shape
<1>4. /\ Loaded(meta') \in Seq(Table) /\ SameShape(meta', Loaded(meta'))
      /\ Tidy(Loaded(meta')) /\ Loaded(meta') # << >>
  <2>1. Loaded(meta') \in Seq(Table) /\ SameShape(meta', Loaded(meta'))
    BY <1>3, LoadedIs, TypeOKIs DEF Shape
  <2>2. Loaded(meta') # << >>
    BY <1>3, <2>1, EmptySeq DEF SameShape
  <2> QED BY <1>3, <2>1, <2>2, ShapeKeeps
<1>5. ts \in Seq(Table) /\ Tidy(ts) /\ ts # << >>
  <2>1. /\ ts \in Seq(Table) /\ Len(ts) = Len(Loaded(meta'))
        /\ DOMAIN ts = DOMAIN Loaded(meta') /\ Ordered(ts) /\ Numbered(ts)
    BY <1>2, <1>4, SortedAre, TableFirsts DEF Tidy
  <2> QED BY <1>4, <2>1, EmptySeq DEF Tidy
<1>6. SubSeq(log, n + 1, Len(log)) \in Seq(Key \X Value)
  <2>1. log \in Seq(Key \X Value) /\ Len(log) \in Nat /\ n \in Nat
    <3>1. log \in Seq(Key \X Value)
      BY TypeOKIs DEF Shape
    <3>2. Len(log) \in Nat
      BY <3>1, LenProperties
    <3> QED BY <1>2, <3>1, <3>2
  <2>2. \A i \in n + 1 .. Len(log) : i \in 1 .. Len(log)
    BY <2>1
  <2> QED BY <2>1, <2>2, SubSeqProperties
<1>7. /\ tables' \in Seq(Table) /\ SameShape(ts, tables')
  BY <1>2, <1>5, <1>6, ReplayIs
<1>8. Tidy(tables') /\ tables' # << >>
  BY <1>5, <1>7, ShapeKeeps, EmptySeq DEF SameShape
<1>9. TypeOK'
  BY <1>1, <1>3, <1>7, <1>8 DEF Shape, TypeOK, Table, MetaLine, NoCells
<1>10. Busy'
  <2>1. step = "ready"
    BY <1>1 DEF Shape, Busy
  <2> QED BY <1>1, <2>1 DEF Busy
<1> QED BY <1>2, <1>3, <1>5, <1>6, <1>8, <1>9, <1>10 DEF Shape

-----------------------------------------------------------------------------
(* Every step keeps a bound on the keys that are stored.                   *)

\* A cell of a split table was a cell of the table.
LEMMA SplitCells ==
    ASSUME NEW ts \in Seq(Table), NEW i \in DOMAIN ts, NEW us, NEW last \in Key,
           IsSplit(ts, i, us, last), NEW j \in DOMAIN us, NEW k \in Key
    PROVE  us[j].cells[k] = None \/ \E l \in DOMAIN ts : us[j].cells[k] = ts[l].cells[k]
<1>1. /\ us \in Seq(Table) /\ Len(us) = Len(ts) + 1
      /\ DOMAIN us = 1 .. Len(us) /\ DOMAIN ts = 1 .. Len(ts) /\ Len(ts) \in Nat
  BY LenProperties DEF IsSplit
<1>2. CASE j = i
  <2>1. us[j].cells = [ts[i].cells EXCEPT ![last] = None]
    BY <1>2 DEF IsSplit
  <2>2. ts[i].cells \in [Key -> Value \cup {None}]
    BY CellsOfTable
  <2> QED BY <2>1, <2>2
<1>3. CASE j \in DOMAIN ts /\ j # i
  <2>1. us[j] = ts[j]
    BY <1>3 DEF IsSplit
  <2> QED BY <1>3, <2>1
<1>4. CASE j = Len(us)
  <2>1. us[j].cells = [NoCells EXCEPT ![last] = ts[i].cells[last]]
    BY <1>4 DEF IsSplit
  <2> QED BY <2>1 DEF NoCells
<1> QED BY <1>1, <1>2, <1>3, <1>4

LEMMA PutValueKeepsBound ==
    ASSUME Shape, Bounded, Ready, NEW k \in Key, NEW v \in Value, PutValue(k, v)
    PROVE  Bounded'
<1>1. PICK n \in Nat : UpTo(n)
  BY DEF Bounded
<1>2. PICK m \in Nat : n <= m /\ k <= m
  <2>1. k \in Nat
    BY KeyAssumption
  <2>2. n + k \in Nat /\ n <= n + k /\ k <= n + k
    BY <2>1
  <2> QED BY <2>2
<1>3. \A x \in Key : ~(x <= m) => ~(x <= n) /\ x # k
  BY <1>2, KeyAssumption
<1>4. /\ log' = Append(log, <<k, v>>) /\ UNCHANGED <<meta, files, marked>>
      /\ Plain(k, v) \/ Splits(k, v) \/ Die(With(k, v))
  BY PutValueIs
<1>5. /\ tables \in Seq(Table) /\ log \in Seq(Key \X Value)
  BY TypeOKIs DEF Shape
<1>6. /\ Find(tables, k) \in DOMAIN tables
      /\ With(k, v) \in Seq(Table) /\ SameShape(tables, With(k, v))
      /\ \A j \in DOMAIN tables : j # Find(tables, k) => With(k, v)[j] = tables[j]
      /\ With(k, v)[Find(tables, k)].cells = [tables[Find(tables, k)].cells EXCEPT ![k] = v]
  BY WithIs DEF Ready
<1>7. \A x \in Key : ~(x <= m) => \A j \in DOMAIN log' : log'[j][1] # x
  <2> SUFFICES ASSUME NEW x \in Key, ~(x <= m), NEW j \in DOMAIN log' PROVE log'[j][1] # x
    OBVIOUS
  <2>1. /\ DOMAIN log = 1 .. Len(log) /\ DOMAIN log' = 1 .. Len(log) + 1 /\ Len(log) \in Nat
        /\ \A l \in 1 .. Len(log) : log'[l] = log[l]
        /\ log'[Len(log) + 1] = <<k, v>>
    BY <1>4, <1>5, AppendProperties, LenProperties
  <2>2. CASE j \in DOMAIN log
    BY <1>1, <1>3, <2>1, <2>2 DEF UpTo
  <2>3. CASE j = Len(log) + 1
    BY <1>3, <2>1, <2>3
  <2> QED BY <2>1, <2>2, <2>3
<1>8. ASSUME NEW x \in Key, ~(x <= m), NEW j \in DOMAIN With(k, v)
      PROVE  With(k, v)[j].cells[x] = None
  <2>1. j \in DOMAIN tables /\ tables[j].cells[x] = None
    BY <1>1, <1>3, <1>6, <1>8 DEF UpTo, SameShape
  <2>2. tables[j].cells \in [Key -> Value \cup {None}]
    BY <1>5, <2>1, CellsOfTable
  <2>3. x # k
    BY <1>3, <1>8
  <2>4. CASE j = Find(tables, k)
    BY <1>6, <2>1, <2>2, <2>3, <2>4
  <2>5. CASE j # Find(tables, k)
    BY <1>6, <2>1, <2>5
  <2> QED BY <2>4, <2>5
<1>9. ASSUME NEW x \in Key, ~(x <= m), NEW j \in DOMAIN tables'
      PROVE  tables'[j].cells[x] = None
  <2>1. CASE Plain(k, v)
    BY <1>6, <1>8, <1>9, <2>1 DEF Plain, SameShape
  <2>2. CASE Splits(k, v)
    <3>1. PICK us, last : IsSplit(With(k, v), Find(tables, k), us, last) /\ tables' \in Sorted(us)
      BY <2>2 DEF Splits
    <3>2. us \in Seq(Table) /\ last \in Key
      <4>1. Find(tables, k) \in DOMAIN With(k, v)
        BY <1>6 DEF SameShape
      <4> QED BY <1>6, <3>1, <4>1, CellsOfTable DEF IsSplit
    <3>3. PICK l \in DOMAIN us : tables'[j] = us[l]
      <4>1. PICK i \in DOMAIN us : tables'[j] = us[i]
        BY <1>9, <3>1 DEF Sorted, Seqs!SetToSeqs, Seqs!ToSet
      <4> QED BY <4>1
    <3>4. Find(tables, k) \in DOMAIN With(k, v)
      BY <1>6 DEF SameShape
    <3>5. us[l].cells[x] = None \/ \E i \in DOMAIN With(k, v) : us[l].cells[x] = With(k, v)[i].cells[x]
      BY <1>6, <3>1, <3>2, <3>4, SplitCells
    <3> QED BY <1>8, <1>9, <3>3, <3>5
  <2>3. CASE Die(With(k, v))
    <3>1. tables' = << >>
      BY <2>3 DEF Die
    <3> QED BY <1>9, <3>1, LenProperties, EmptySeq
  <2> QED BY <1>4, <2>1, <2>2, <2>3
<1>10. \A x \in Key : ~(x <= m) => \A f \in DOMAIN files' : files'[f][x] = None
  BY <1>1, <1>3, <1>4 DEF UpTo
<1>11. UpTo(m)'
  BY <1>7, <1>9, <1>10 DEF UpTo
<1> QED BY <1>11 DEF Bounded

LEMMA RestartKeepsBound ==
    ASSUME Shape, Bounded, Restart
    PROVE  Bounded'
<1>1. PICK n \in Nat : UpTo(n)
  BY DEF Bounded
<1>2. /\ meta' = IF meta = << >> THEN NewMeta ELSE meta
      /\ UNCHANGED <<files, log>>
  BY DEF Restart
<1>3. PICK ts, o : /\ ts \in Sorted(Loaded(meta')) /\ ts \in Seq(Table)
                   /\ SubSeq(log, o + 1, Len(log)) \in Seq(Key \X Value)
                   /\ o \in IF marked THEN {0} ELSE 0 .. Len(log)
                   /\ tables' = Replay(ts, SubSeq(log, o + 1, Len(log)))
  BY RestartKeepsShape
<1> DEFINE es == SubSeq(log, o + 1, Len(log))
<1>4. /\ meta' \in Seq(MetaLine) /\ files \in [1 .. MaxTables -> [Key -> Value \cup {None}]]
      /\ log \in Seq(Key \X Value) /\ Len(log) \in Nat /\ DOMAIN log = 1 .. Len(log)
  BY <1>2, NewMetaIs, TypeOKIs, LenProperties DEF Shape
<1>5. ASSUME NEW x \in Key, ~(x <= n), NEW i \in DOMAIN ts PROVE ts[i].cells[x] = None
  <2>1. PICK l \in DOMAIN Loaded(meta') : ts[i] = Loaded(meta')[l]
    <3>1. PICK a \in DOMAIN Loaded(meta') : ts[i] = Loaded(meta')[a]
      BY <1>3, <1>5 DEF Sorted, Seqs!SetToSeqs, Seqs!ToSet
    <3> QED BY <3>1
  <2>2. l \in DOMAIN meta' /\ ts[i].cells = files[meta'[l].file]
    BY <1>4, <2>1, LoadedIs DEF SameShape
  <2>3. meta'[l].file \in 1 .. MaxTables
    <3>1. meta'[l] \in MetaLine
      BY <1>4, <2>2, ElementOfSeq
    <3> QED BY <3>1 DEF MetaLine
  <2> QED BY <1>1, <1>4, <1>5, <2>2, <2>3 DEF UpTo
<1>6. ASSUME NEW x \in Key, ~(x <= n), NEW j \in DOMAIN es PROVE es[j][1] # x
  <2>1. o \in Nat /\ o <= Len(log)
    BY <1>3, <1>4
  <2>2. /\ Len(es) = IF o + 1 <= Len(log) THEN Len(log) - (o + 1) + 1 ELSE 0
        /\ \A l \in 1 .. Len(log) - (o + 1) + 1 : es[l] = log[o + 1 + l - 1]
    <3>1. \A l \in o + 1 .. Len(log) : log[l] \in Key \X Value
      <4> SUFFICES ASSUME NEW l \in o + 1 .. Len(log) PROVE log[l] \in Key \X Value
        OBVIOUS
      <4>1. l \in 1 .. Len(log)
        BY <1>4, <2>1
      <4> QED BY <1>4, <4>1, ElementOfSeq
    <3> QED BY <1>4, <2>1, <3>1, SubSeqProperties
  <2>3. DOMAIN es = 1 .. Len(es)
    BY <1>3, LenProperties
  <2> HIDE DEF es
  <2>4. j \in 1 .. Len(log) - (o + 1) + 1 /\ o + 1 + j - 1 \in DOMAIN log
    <3>1. j \in 1 .. Len(es)
      BY <1>6, <2>3
    <3>2. o + 1 <= Len(log) /\ Len(es) = Len(log) - (o + 1) + 1
      <4>1. CASE o + 1 <= Len(log)
        BY <2>2, <4>1
      <4>2. CASE ~(o + 1 <= Len(log))
        BY <2>2, <3>1, <4>2
      <4> QED BY <4>1, <4>2
    <3>3. j \in 1 .. Len(log) - (o + 1) + 1
      BY <3>1, <3>2
    <3>4. o + 1 + j - 1 \in 1 .. Len(log)
      BY <1>4, <2>1, <3>3
    <3> QED BY <1>4, <3>3, <3>4
  <2> QED BY <1>1, <1>6, <2>2, <2>4 DEF UpTo
<1>7. ASSUME NEW x \in Key, ~(x <= n), NEW i \in DOMAIN tables'
      PROVE  tables'[i].cells[x] = None
  <2>1. /\ i \in DOMAIN ts
        /\ tables'[i].cells[x] =
             IF Find(ts, x) = i /\ \E j \in DOMAIN es : IsLastPut(es, x, j)
             THEN es[CHOOSE j \in DOMAIN es : IsLastPut(es, x, j)][2]
             ELSE ts[i].cells[x]
    <3> HIDE DEF es
    <3>1. tables' = Replay(ts, es) /\ ts \in Seq(Table) /\ es \in Seq(Key \X Value)
      BY <1>3 DEF es
    <3>2. i \in DOMAIN ts
      BY <1>7, <3>1, ReplayIs DEF SameShape
    <3> QED BY <3>1, <3>2, ReplayIs
  <2>2. ~ \E j \in DOMAIN es : IsLastPut(es, x, j)
    <3> HIDE DEF es
    <3> QED BY <1>6, <1>7 DEF IsLastPut
  <2> QED BY <1>5, <1>7, <2>1, <2>2
<1>8. UpTo(n)'
  BY <1>1, <1>2, <1>7 DEF UpTo
<1> QED BY <1>8 DEF Bounded

LEMMA ShapeNext == Shape /\ Bounded /\ [Next]_vars => Shape' /\ Bounded'
<1> SUFFICES ASSUME Shape, Bounded, [Next]_vars
             PROVE  Shape' /\ Bounded'
  OBVIOUS
<1>1. PICK n \in Nat : UpTo(n)
  BY DEF Bounded
<1>2. tables \in Seq(Table) /\ log \in Seq(Key \X Value)
      /\ files \in [1 .. MaxTables -> [Key -> Value \cup {None}]]
  BY TypeOKIs DEF Shape
<1>3. ASSUME NEW k \in Key, NEW v \in Value, Ready, PutValue(k, v)
      PROVE  Shape' /\ Bounded'
  BY <1>3, PutValueKeepsShape, PutValueKeepsBound
<1>4. ASSUME NEW k \in Key, NEW v \in Value, Put(k, v)
      PROVE  Shape' /\ Bounded'
  BY <1>3, <1>4 DEF Put
<1>5. ASSUME NEW k \in Key, NEW old, NEW v \in Value, ConditionalPut(k, old, v)
      PROVE  Shape' /\ Bounded'
  BY <1>3, <1>5 DEF ConditionalPut
<1>6. ASSUME Die(tables), UNCHANGED <<disk, unsaved>>, up PROVE Shape' /\ Bounded'
  <2>1. /\ tables' = << >> /\ log' \in Seq(Key \X Value) /\ unsaved' \subseteq Key
        /\ UNCHANGED <<meta, files, log, marked>>
    BY <1>2, <1>6, TypeOKIs DEF Die, disk, Shape
  <2>2. Shape'
    BY <1>2, <1>6, <2>1, DieKeepsShape DEF Shape, Tidy, TypeOK
  <2>3. UpTo(n)'
    BY <1>1, <2>1, LenProperties, EmptySeq DEF UpTo
  <2> QED BY <2>2, <2>3 DEF Bounded
<1>7. ASSUME NEW k \in Key, ConditionalPutAbsent(k) PROVE Shape' /\ Bounded'
  BY <1>6, <1>7 DEF ConditionalPutAbsent, Ready
<1>8. ASSUME NEW k \in Key, Delete(k) PROVE Shape' /\ Bounded'
  <2>1. Shape'
    BY <1>8, DeleteKeepsShape
  <2>2. up /\ tables' = With(k, None) /\ UNCHANGED <<files, log>>
    BY <1>8 DEF Delete, Ready, With, disk
  <2>3. /\ Find(tables, k) \in DOMAIN tables /\ SameShape(tables, With(k, None))
        /\ \A j \in DOMAIN tables : j # Find(tables, k) => With(k, None)[j] = tables[j]
        /\ With(k, None)[Find(tables, k)].cells = [tables[Find(tables, k)].cells EXCEPT ![k] = None]
    BY <2>2, WithIs
  <2>4. ASSUME NEW x \in Key, ~(x <= n), NEW j \in DOMAIN tables'
        PROVE  tables'[j].cells[x] = None
    <3>1. j \in DOMAIN tables /\ tables[j].cells[x] = None
      BY <1>1, <2>2, <2>3, <2>4 DEF UpTo, SameShape
    <3>2. tables[j].cells \in [Key -> Value \cup {None}]
      BY <1>2, <3>1, CellsOfTable
    <3>3. CASE j = Find(tables, k)
      BY <2>2, <2>3, <3>1, <3>2, <3>3
    <3>4. CASE j # Find(tables, k)
      BY <2>2, <2>3, <3>1, <3>4
    <3> QED BY <3>3, <3>4
  <2>5. UpTo(n)'
    BY <1>1, <2>2, <2>4 DEF UpTo
  <2> QED BY <2>1, <2>5 DEF Bounded
<1>9. CASE OpenMeta
  <2>1. UpTo(n)'
    BY <1>1, <1>9 DEF UpTo, OpenMeta
  <2> QED BY <1>9, <2>1, OpenMetaKeepsShape DEF Bounded
<1>10. CASE CloseMeta
  <2>1. UpTo(n)'
    BY <1>1, <1>10 DEF UpTo, CloseMeta
  <2> QED BY <1>10, <2>1, CloseMetaKeepsShape DEF Bounded
<1>11. CASE OpenFile
  <2>1. files' = [files EXCEPT ![tables[nth].file] = NoCells] /\ UNCHANGED <<tables, log>>
    BY <1>11 DEF OpenFile
  <2>2. \A k \in Key : ~(k <= n) => \A f \in DOMAIN files' : files'[f][k] = None
    BY <1>1, <1>2, <2>1 DEF UpTo, NoCells
  <2>3. UpTo(n)'
    BY <1>1, <2>1, <2>2 DEF UpTo
  <2> QED BY <1>11, <2>3, OpenFileKeepsShape DEF Bounded
<1>12. CASE CloseFile
  <2>1. /\ files' = [files EXCEPT ![tables[nth].file] = Shown(tables[nth].cells)]
        /\ UNCHANGED <<tables, log>>
    BY <1>12 DEF CloseFile, Shown
  <2>2. nth \in DOMAIN tables
    BY <1>12 DEF CloseFile, Checkpointing, Shape, Busy
  <2>3. ASSUME NEW k \in Key, ~(k <= n) PROVE Shown(tables[nth].cells)[k] = None
    BY <1>1, <2>2, <2>3 DEF UpTo, Shown
  <2>4. \A k \in Key : ~(k <= n) => \A f \in DOMAIN files' : files'[f][k] = None
    BY <1>1, <1>2, <2>1, <2>3 DEF UpTo
  <2>5. UpTo(n)'
    BY <1>1, <2>1, <2>4 DEF UpTo
  <2> QED BY <1>12, <2>5, CloseFileKeepsShape DEF Bounded
<1>13. CASE OpenLog
  <2>1. UpTo(n)'
    BY <1>1, <1>13, LenProperties, EmptySeq DEF UpTo, OpenLog
  <2> QED BY <1>13, <2>1, OpenLogKeepsShape DEF Bounded
<1>14. CASE CloseLog
  <2>1. /\ SameShape(tables, tables') /\ \A i \in DOMAIN tables : tables'[i].cells = tables[i].cells
        /\ UNCHANGED <<files, log>>
    BY <1>14, CloseLogKeepsShape DEF CloseLog
  <2>2. UpTo(n)'
    BY <1>1, <2>1 DEF UpTo, SameShape
  <2> QED BY <1>14, <2>2, CloseLogKeepsShape DEF Bounded
<1>15. CASE Crash
  BY <1>6, <1>15 DEF Crash
<1>16. CASE Restart
  BY <1>16, RestartKeepsShape, RestartKeepsBound
<1>17. CASE UNCHANGED vars
  <2>1. Shape'
    BY <1>17 DEF vars, memory, disk, Shape, TypeOK, Busy
  <2>2. UpTo(n)'
    BY <1>1, <1>17 DEF vars, memory, disk, UpTo
  <2> QED BY <2>1, <2>2 DEF Bounded
<1>18. CASE Call
  BY <1>4, <1>5, <1>7, <1>8, <1>18 DEF Call
<1> QED BY <1>9, <1>10, <1>11, <1>12, <1>13, <1>14, <1>15, <1>16, <1>17, <1>18 DEF Next

LEMMA ShapeAlways == Spec => [](Shape /\ Bounded)
<1>1. Init => Shape /\ Bounded
  BY ShapeInit
<1>2. Shape /\ Bounded /\ [Next]_vars => (Shape /\ Bounded)'
  BY ShapeNext
<1> QED BY <1>1, <1>2, PTL DEF Spec

\* Every state is of the type declared for it.
THEOREM StoreTypes == Spec => []TypeOK
<1>1. Shape => TypeOK
  BY DEF Shape
<1> QED BY <1>1, ShapeAlways, PTL

\* No two tables write the same file, whatever crashes come between: split_file
\* gives the new table the number of tables as its file, and the tables always
\* have the first files, in memory and in the metadata a restart reads.
THEOREM StoreFiles == Spec => []FilesApart
<1>1. Shape => FilesApart
  BY DEF Shape, Tidy, Numbered, FilesApart
<1> QED BY <1>1, ShapeAlways, PTL

-----------------------------------------------------------------------------
(* What a restart finds, if no crash has come inside a checkpoint.         *)

LEMMA TornStays == ASSUME torn, [Next]_vars PROVE torn'
<1>1. ASSUME NEW ts, Die(ts) PROVE torn'
  BY <1>1, Zenon DEF Die
<1>2. ASSUME NEW k, NEW v, PutValue(k, v) PROVE torn'
  BY <1>1, <1>2, Zenon DEF PutValue
<1>3. CASE Call
  BY <1>1, <1>2, <1>3, Zenon DEF Call, Put, ConditionalPut, ConditionalPutAbsent, Delete
<1>4. CASE OpenMeta \/ CloseMeta \/ OpenFile \/ CloseFile \/ OpenLog \/ CloseLog
  BY <1>4, Zenon DEF OpenMeta, CloseMeta, OpenFile, CloseFile, OpenLog, CloseLog,
                     Checkpointing
<1>5. CASE Crash \/ Restart \/ UNCHANGED vars
  BY <1>1, <1>5, Zenon DEF Crash, Restart, vars
<1> QED BY <1>3, <1>4, <1>5, Zenon DEF Next

\* The metadata is that of the tables in memory.
Described == (Ready /\ marked /\ Apart(meta)) \/ step \in {"openFile", "closeFile", "openLog", "closeLog"}

Written(i) == files[tables[i].file] = Shown(tables[i].cells)

SaveInv ==
    /\ ~up => marked
    /\ ~up \/ (Ready /\ marked) => meta # << >>
    /\ Described => SameShape(tables, meta)
    /\ step \in {"openFile", "closeFile"} => \A i \in DOMAIN tables : i < nth => Written(i)
    /\ step \in {"openLog", "closeLog"} => \A i \in DOMAIN tables : Written(i)
    /\ step = "closeLog" => log = << >>

LEMMA SaveInit == Init => SaveInv
BY DEF Init, SaveInv, Described, Ready

\* A process that dies leaves a metadata file that describes its tables.
LEMMA DieSaves ==
    ASSUME ~torn', Shape, SaveInv, up, NEW ts, Die(ts), UNCHANGED <<meta, files, marked>>
    PROVE  /\ SaveInv' /\ Ready /\ marked /\ (Apart(meta) => SameShape(tables, meta))
           /\ ~up' /\ tables' = << >> /\ step' = "ready"
           /\ answers' = [k \in Key |-> Answer(ts, k)]
<1>1. /\ up' = FALSE /\ tables' = << >> /\ step' = "ready" /\ crashes < MaxCrash
      /\ Ready /\ marked /\ answers' = [k \in Key |-> Answer(ts, k)]
  BY DEF Die
<1>2. Ready /\ marked
  BY <1>1
<1>3. meta # << >> /\ (Apart(meta) => SameShape(tables, meta))
  BY <1>2 DEF SaveInv, Described
<1>4. SaveInv'
  BY <1>1, <1>2, <1>3 DEF SaveInv, Described, Ready
<1> QED BY <1>1, <1>2, <1>3, <1>4

LEMMA ShapeSymmetric ==
    ASSUME NEW r, NEW s, NEW t, SameShape(r, s), SameShape(r, t)
    PROVE  SameShape(s, t) /\ SameShape(s, r)
BY DEF SameShape

\* The tables a restart builds, with the values of the log put in.
OnDisk == Replay(Loaded(meta), log)

LEMMA OnDiskIs ==
    ASSUME Shape
    PROVE  /\ Loaded(meta) \in Seq(Table) /\ SameShape(meta, Loaded(meta))
           /\ OnDisk \in Seq(Table) /\ SameShape(meta, OnDisk)
           /\ \A i \in DOMAIN meta : Loaded(meta)[i].cells = files[meta[i].file]
<1>1. /\ meta \in Seq(MetaLine) /\ log \in Seq(Key \X Value)
      /\ files \in [1 .. MaxTables -> [Key -> Value \cup {None}]]
  BY TypeOKIs DEF Shape
<1>2. /\ Loaded(meta) \in Seq(Table) /\ SameShape(meta, Loaded(meta))
      /\ \A i \in DOMAIN meta : Loaded(meta)[i].cells = files[meta[i].file]
  BY <1>1, LoadedIs
<1>3. OnDisk \in Seq(Table) /\ SameShape(Loaded(meta), OnDisk)
  BY <1>1, <1>2, ReplayIs DEF OnDisk
<1> QED BY <1>2, <1>3, ShapeSymmetric DEF SameShape

\* After such a crash the restart does build them.
LEMMA RestartIs ==
    ASSUME Shape, SaveInv, Apart(meta), Restart
    PROVE  /\ tables' = OnDisk /\ SameShape(meta, tables')
           /\ up' /\ step' = "ready" /\ ~up /\ marked
           /\ unsaved' = {} /\ UNCHANGED <<meta, files, log, marked>>
<1>1. /\ ~up /\ up' = TRUE /\ meta' = meta /\ marked /\ unsaved' = {}
      /\ UNCHANGED <<step, nth, late, files, log, marked, crashes, torn>>
  BY DEF Restart, SaveInv
<1>2. step = "ready"
  BY <1>1 DEF Shape, Busy
<1>3. PICK ts, n : /\ ts \in Sorted(Loaded(meta)) /\ n \in IF marked THEN {0} ELSE 0 .. Len(log)
                   /\ tables' = Replay(ts, SubSeq(log, n + 1, Len(log)))
  BY <1>1, RestartKeepsShape
<1>4. ts = Loaded(meta)
  <2>1. /\ Loaded(meta) \in Seq(Table) /\ Tidy(Loaded(meta)) /\ Apart(Loaded(meta))
    BY <1>1, OnDiskIs, ShapeKeeps DEF Shape
  <2> QED BY <1>3, <2>1, SortedSame, TableFirsts DEF Tidy
<1>5. SubSeq(log, n + 1, Len(log)) = log
  <2>1. n = 0 /\ log \in Seq(Key \X Value)
    BY <1>1, <1>3, TypeOKIs DEF Shape
  <2>2. SubSeq(log, 1, Len(log)) = log
    BY <2>1, SubSeqFull
  <2> QED BY <2>1, <2>2
<1> QED BY <1>1, <1>2, <1>3, <1>4, <1>5, OnDiskIs DEF OnDisk

\* A value put, or a cell deleted, in memory leaves what a restart finds.
LEMMA SaveReady ==
    ASSUME SaveInv, Ready, up', step' = step, UNCHANGED <<meta, marked>>,
           SameShape(tables, tables')
    PROVE  SaveInv'
<1>1. Described' => SameShape(tables', meta')
  BY ShapeSymmetric DEF SaveInv, Described, Ready, Apart
<1> QED BY <1>1 DEF SaveInv, Ready

LEMMA PutValueSaves ==
    ASSUME ~torn', Shape, Bounded, SaveInv,
           Ready, NEW k \in Key, NEW v \in Value, PutValue(k, v)
    PROVE  SaveInv'
<1>1. /\ UNCHANGED <<meta, files, marked>>
      /\ Plain(k, v) \/ Splits(k, v) \/ Die(With(k, v))
  BY PutValueIs
<1>2. up /\ step = "ready" /\ SameShape(tables, With(k, v))
  BY WithIs DEF Ready
<1>3. CASE Plain(k, v)
  <2>1. SameShape(With(k, v), tables') /\ UNCHANGED <<up, step>>
    BY <1>3 DEF Plain
  <2>2. SameShape(tables, tables')
    BY <1>2, <2>1 DEF SameShape
  <2> QED BY <1>1, <1>2, <2>1, <2>2, SaveReady
<1>4. CASE Splits(k, v)
  BY <1>1, <1>2, <1>4 DEF Splits, SaveInv, Described, Ready
<1>5. CASE Die(With(k, v))
  BY <1>1, <1>2, <1>5, DieSaves
<1> QED BY <1>1, <1>3, <1>4, <1>5

LEMMA SaveNext ==
    ASSUME ~torn', Shape, Bounded, SaveInv, [Next]_vars
    PROVE  SaveInv'
<1>1. /\ tables \in Seq(Table) /\ files \in [1 .. MaxTables -> [Key -> Value \cup {None}]]
      /\ DOMAIN tables = 1 .. Len(tables) /\ Len(tables) \in Nat
      /\ up \in BOOLEAN /\ marked \in BOOLEAN
  BY TypeOKIs, LenProperties DEF Shape
<1>2. /\ \A i \in DOMAIN tables : tables[i].file \in 1 .. MaxTables
      /\ \A i, j \in DOMAIN tables : tables[i].file = tables[j].file => i = j
  BY <1>1, CellsOfTable DEF Shape, Tidy, Numbered
<1>3. ASSUME NEW k \in Key, NEW v \in Value, Put(k, v) PROVE SaveInv'
  BY <1>3, PutValueSaves DEF Put
<1>4. ASSUME NEW k \in Key, NEW old, NEW v \in Value, ConditionalPut(k, old, v)
      PROVE  SaveInv'
  BY <1>4, PutValueSaves DEF ConditionalPut
<1>5. ASSUME up, Die(tables), UNCHANGED disk PROVE SaveInv'
  BY <1>5, DieSaves DEF disk
<1>6. ASSUME NEW k \in Key, ConditionalPutAbsent(k) PROVE SaveInv'
  BY <1>5, <1>6 DEF ConditionalPutAbsent, Ready
<1>7. ASSUME NEW k \in Key, Delete(k) PROVE SaveInv'
  <2>1. /\ Ready /\ up /\ up' = up /\ step' = step /\ tables' = With(k, None)
        /\ UNCHANGED <<meta, marked>>
    BY <1>7 DEF Delete, Ready, With, disk
  <2>2. SameShape(tables, tables')
    BY <2>1, WithIs
  <2> QED BY <2>1, <2>2, SaveReady
<1>8. CASE OpenMeta
  BY <1>8 DEF OpenMeta, Checkpointing, SaveInv, Described, Ready
<1>9. CASE CloseMeta
  <2>1. /\ step' = "openFile" /\ nth' = 1 /\ up' = up /\ up /\ UNCHANGED <<tables, marked>>
    BY <1>9 DEF CloseMeta, Checkpointing
  <2>2. SameShape(tables', meta')
    BY <1>9, <2>1, CloseMetaKeepsShape
  <2>3. \A i \in DOMAIN tables' : ~(i < nth')
    BY <1>1, <2>1
  <2> QED BY <2>1, <2>2, <2>3 DEF SaveInv, Ready
<1>10. CASE OpenFile
  <2>1. /\ up /\ step = "openFile" /\ step' = "closeFile"
        /\ files' = [files EXCEPT ![tables[nth].file] = NoCells]
        /\ UNCHANGED <<up, tables, nth, meta, log, marked>>
    BY <1>10 DEF OpenFile, Checkpointing
  <2>2. nth \in DOMAIN tables
    BY <2>1 DEF Shape, Busy
  <2>3. ASSUME NEW i \in DOMAIN tables, i < nth PROVE Written(i)'
    <3>1. Written(i) /\ i # nth
      BY <1>1, <2>1, <2>2, <2>3 DEF SaveInv
    <3>2. files'[tables[i].file] = files[tables[i].file]
      BY <1>1, <1>2, <2>1, <2>2, <3>1
    <3> QED BY <2>1, <3>1, <3>2 DEF Written
  <2>4. Described /\ SameShape(tables, meta)
    BY <2>1 DEF SaveInv, Described
  <2> QED BY <2>1, <2>3, <2>4 DEF SaveInv, Ready
<1>11. CASE CloseFile
  <2>1. /\ up /\ step = "closeFile" /\ nth' = nth + 1
        /\ step' = IF nth < Len(tables) THEN "openFile" ELSE "openLog"
        /\ files' = [files EXCEPT ![tables[nth].file] = Shown(tables[nth].cells)]
        /\ UNCHANGED <<up, tables, meta, log, marked>>
    BY <1>11 DEF CloseFile, Checkpointing, Shown
  <2>2. nth \in DOMAIN tables
    BY <2>1 DEF Shape, Busy
  <2>3. ASSUME NEW i \in DOMAIN tables, i < nth' PROVE Written(i)'
    <3>1. CASE i = nth
      BY <1>1, <1>2, <2>1, <2>2, <3>1 DEF Written
    <3>2. CASE i # nth
      <4>1. i < nth
        BY <1>1, <2>1, <2>2, <2>3, <3>2
      <4>2. Written(i)
        BY <2>1, <2>3, <4>1 DEF SaveInv
      <4>3. files'[tables[i].file] = files[tables[i].file]
        BY <1>1, <1>2, <2>1, <2>2, <3>2
      <4> QED BY <2>1, <4>2, <4>3 DEF Written
    <3> QED BY <3>1, <3>2
  <2>4. step' = "openLog" => \A i \in DOMAIN tables : i < nth'
    BY <1>1, <2>1, <2>2
  <2>5. SameShape(tables, meta)
    BY <2>1 DEF SaveInv, Described
  <2> QED BY <2>1, <2>3, <2>4, <2>5 DEF SaveInv, Ready
<1>12. CASE OpenLog
  <2>1. /\ up /\ step = "openLog" /\ step' = "closeLog" /\ log' = << >> /\ marked' = FALSE
        /\ UNCHANGED <<up, tables, meta, files>>
    BY <1>12 DEF OpenLog, Checkpointing
  <2>2. SameShape(tables, meta) /\ \A i \in DOMAIN tables : Written(i)
    BY <2>1 DEF SaveInv, Described
  <2> QED BY <2>1, <2>2 DEF SaveInv, Written
<1>13. CASE CloseLog
  <2>1. /\ up /\ step = "closeLog" /\ step' = "ready" /\ UNCHANGED <<up, meta>>
    BY <1>13 DEF CloseLog, Checkpointing
  <2>2. SameShape(tables, tables') /\ SameShape(tables, meta)
    BY <1>13, <2>1, CloseLogKeepsShape DEF SaveInv, Described
  <2>3. meta # << >>
    BY <1>1, <2>1, <2>2, TypeOKIs, EmptySeq DEF SameShape, Shape
  <2> QED BY <2>1, <2>2, <2>3, ShapeSymmetric DEF SaveInv, Ready
<1>14. CASE Crash
  BY <1>5, <1>14 DEF Crash
<1>15. CASE Restart
  <2>1. ~up /\ marked /\ meta # << >>
    BY <1>15 DEF Restart, SaveInv
  <2>2. up' /\ step' = step /\ step = "ready" /\ UNCHANGED meta
    BY <1>15, <2>1 DEF Restart, Shape, Busy
  <2>3. Apart(meta) => SameShape(tables', meta')
    BY <1>15, <2>2, RestartIs DEF SameShape
  <2> QED BY <2>1, <2>2, <2>3 DEF SaveInv, Described, Ready, Apart
<1>16. CASE UNCHANGED vars
  BY <1>16 DEF vars, memory, disk, SaveInv, Described, Ready, Written, Apart
<1>17. CASE Call
  BY <1>3, <1>4, <1>6, <1>7, <1>17 DEF Call
<1> QED BY <1>8, <1>9, <1>10, <1>11, <1>12, <1>13, <1>14, <1>15, <1>16, <1>17 DEF Next

-----------------------------------------------------------------------------
(* The log.                                                                *)

\* There is one last value of a key in a log.
LEMMA LastPutUnique ==
    ASSUME NEW es \in Seq(Key \X Value), NEW k, NEW j, IsLastPut(es, k, j)
    PROVE  /\ \E i \in DOMAIN es : IsLastPut(es, k, i)
           /\ (CHOOSE i \in DOMAIN es : IsLastPut(es, k, i)) = j
<1>1. DOMAIN es \subseteq Nat
  BY LenProperties
<1>2. ASSUME NEW i \in DOMAIN es, IsLastPut(es, k, i) PROVE i = j
  BY <1>1, <1>2 DEF IsLastPut
<1>3. j \in DOMAIN es
  BY DEF IsLastPut
<1> QED BY <1>2, <1>3

\* What a new value does to the tables the log is put into.
LEMMA ReplayAppend ==
    ASSUME NEW ts \in Seq(Table), NEW es \in Seq(Key \X Value), NEW k \in Key, NEW v \in Value,
           NEW i \in DOMAIN ts, NEW x \in Key
    PROVE  Replay(ts, Append(es, <<k, v>>))[i].cells[x] =
             IF x = k /\ Find(ts, k) = i THEN v ELSE Replay(ts, es)[i].cells[x]
<1> DEFINE fs == Append(es, <<k, v>>)
           n  == Len(es) + 1
           Last(s) == s[CHOOSE j \in DOMAIN s : IsLastPut(s, x, j)][2]
<1>1. /\ fs \in Seq(Key \X Value) /\ DOMAIN fs = 1 .. n /\ DOMAIN es = 1 .. Len(es)
      /\ Len(es) \in Nat /\ fs[n] = <<k, v>> /\ \A j \in DOMAIN es : fs[j] = es[j]
  BY AppendProperties, LenProperties
<1> HIDE DEF fs
<1>2. Replay(ts, fs)[i].cells[x] =
        IF Find(ts, x) = i /\ \E j \in DOMAIN fs : IsLastPut(fs, x, j) THEN Last(fs)
        ELSE ts[i].cells[x]
  BY <1>1, ReplayIs
<1>3. Replay(ts, es)[i].cells[x] =
        IF Find(ts, x) = i /\ \E j \in DOMAIN es : IsLastPut(es, x, j) THEN Last(es)
        ELSE ts[i].cells[x]
  BY ReplayIs
<1>4. CASE x = k
  <2>1. IsLastPut(fs, x, n)
    BY <1>1, <1>4 DEF IsLastPut
  <2>2. /\ \E j \in DOMAIN fs : IsLastPut(fs, x, j)
        /\ (CHOOSE j \in DOMAIN fs : IsLastPut(fs, x, j)) = n
    BY <1>1, <2>1, LastPutUnique
  <2>3. Last(fs) = v
    <3>1. Last(fs) = fs[n][2]
      BY <2>2, Zenon
    <3> QED BY <1>1, <3>1
  <2>4. Find(ts, x) # i =>
          Replay(ts, fs)[i].cells[x] = ts[i].cells[x] /\ Replay(ts, es)[i].cells[x] = ts[i].cells[x]
    BY <1>2, <1>3
  <2> HIDE DEF Last
  <2> QED BY <1>2, <1>4, <2>2, <2>3, <2>4 DEF fs
<1>5. CASE x # k
  <2>1. \A j : IsLastPut(fs, x, j) <=> IsLastPut(es, x, j)
    <3>1. \A j \in DOMAIN fs : fs[j][1] = x => j \in DOMAIN es
      BY <1>1, <1>5
    <3> QED BY <1>1, <3>1 DEF IsLastPut
  <2>2. CASE \E j : IsLastPut(es, x, j)
    <3>1. PICK j : IsLastPut(es, x, j)
      BY <2>2
    <3>2. /\ \E a \in DOMAIN es : IsLastPut(es, x, a)
          /\ (CHOOSE a \in DOMAIN es : IsLastPut(es, x, a)) = j
      BY <3>1, LastPutUnique
    <3>3. /\ \E a \in DOMAIN fs : IsLastPut(fs, x, a)
          /\ (CHOOSE a \in DOMAIN fs : IsLastPut(fs, x, a)) = j
      <4>1. IsLastPut(fs, x, j) /\ fs \in Seq(Key \X Value)
        BY <1>1, <2>1, <3>1
      <4> QED BY <4>1, LastPutUnique
    <3>4. j \in DOMAIN es
      BY <3>1 DEF IsLastPut
    <3>5. Last(fs) = Last(es)
      BY <1>1, <3>2, <3>3, <3>4
    <3> HIDE DEF Last
    <3> QED BY <1>2, <1>3, <1>5, <3>2, <3>3, <3>5 DEF fs
  <2>3. CASE ~ \E j : IsLastPut(es, x, j)
    <3> HIDE DEF Last
    <3> QED BY <1>2, <1>3, <1>5, <2>1, <2>3 DEF fs
  <2> QED BY <2>2, <2>3
<1> QED BY <1>4, <1>5

LEMMA ReplayNothing ==
    ASSUME NEW ts \in Seq(Table), NEW i \in DOMAIN ts, NEW k \in Key
    PROVE  Replay(ts, << >>)[i].cells[k] = ts[i].cells[k]
<1>1. << >> \in Seq(Key \X Value) /\ DOMAIN << >> = {}
  BY LenProperties, EmptySeq
<1> QED BY <1>1, ReplayIs

-----------------------------------------------------------------------------
(* Memory and disk agree between two calls, but for what is deleted.       *)

\* The tables ts and us show the same, but for the keys lost where find_file
\* looks for them.
Agree(ts, us, lost) ==
    \A i \in DOMAIN ts : \A k \in Key :
       \/ k \in lost /\ Find(ts, k) = i
       \/ Visible(ts[i].cells[k]) = Visible(us[i].cells[k])

DiskInv ==
    /\ Ready /\ marked /\ Apart(meta) => Agree(tables, OnDisk, unsaved)
    /\ ~up /\ Apart(meta) =>
         \A k \in Key \ unsaved : Visible(answers[k]) = Visible(Answer(OnDisk, k))

LEMMA DiskInit == Init => DiskInv
BY DEF Init, DiskInv, Ready

LEMMA OnDiskLater ==
    ASSUME UNCHANGED <<meta, files>>
    PROVE  OnDisk' = Replay(Loaded(meta), log') /\ (UNCHANGED log => OnDisk' = OnDisk)
<1>1. Loaded(meta)' = Loaded(meta)
  BY DEF Loaded
<1>2. OnDisk' = Replay(Loaded(meta)', log')
  BY DEF OnDisk, Replay, Find, Firsts
<1> QED BY <1>1, <1>2 DEF OnDisk

\* Tables that show the same in each place give the same answers.
LEMMA SameAnswers ==
    ASSUME NEW ts \in Seq(Table), NEW us, ts # << >>, Ordered(ts), SameShape(ts, us),
           NEW lost, Agree(ts, us, lost), NEW k \in Key \ lost
    PROVE  Visible(Answer(ts, k)) = Visible(Answer(us, k))
<1>1. Find(ts, k) \in DOMAIN ts /\ Find(us, k) = Find(ts, k)
  BY FindIsTable, ShapeKeeps
<1> QED BY <1>1 DEF Answer, Agree

\* One new value makes memory and disk agree in its cell.
LEMMA PutSame ==
    ASSUME Shape, SaveInv, DiskInv, Ready, marked, Apart(meta), NEW k \in Key, NEW v \in Value,
           log' = Append(log, <<k, v>>), UNCHANGED <<meta, files>>
    PROVE  Agree(With(k, v), OnDisk', unsaved \ {k})
<1>1. up /\ SameShape(tables, meta)
  BY DEF SaveInv, Described, Ready
<1>2. /\ tables \in Seq(Table) /\ log \in Seq(Key \X Value)
      /\ Loaded(meta) \in Seq(Table) /\ SameShape(meta, Loaded(meta))
      /\ OnDisk' = Replay(Loaded(meta), Append(log, <<k, v>>))
      /\ OnDisk = Replay(Loaded(meta), log)
  BY OnDiskIs, OnDiskLater, TypeOKIs DEF Shape, OnDisk
<1>3. Find(Loaded(meta), k) = Find(tables, k)
  BY <1>1, <1>2, ShapeKeeps
<1>4. /\ Find(tables, k) \in DOMAIN tables /\ SameShape(tables, With(k, v))
      /\ \A j \in DOMAIN tables : j # Find(tables, k) => With(k, v)[j] = tables[j]
      /\ With(k, v)[Find(tables, k)].cells = [tables[Find(tables, k)].cells EXCEPT ![k] = v]
  BY <1>1, WithIs
<1>5. /\ \A x : Find(With(k, v), x) = Find(tables, x)
      /\ DOMAIN With(k, v) = DOMAIN tables
  <2>1. SameShape(tables, With(k, v))
    BY <1>4
  <2> QED BY <2>1, ShapeKeeps DEF SameShape
<1> SUFFICES ASSUME NEW i \in DOMAIN tables, NEW x \in Key,
                    ~(x \in unsaved \ {k} /\ Find(tables, x) = i)
             PROVE  Visible(With(k, v)[i].cells[x]) = Visible(OnDisk'[i].cells[x])
  BY <1>5 DEF Agree
<1>6. i \in DOMAIN Loaded(meta)
  BY <1>1, <1>2 DEF SameShape
<1>7. OnDisk'[i].cells[x] = IF x = k /\ Find(tables, k) = i THEN v ELSE OnDisk[i].cells[x]
  BY <1>2, <1>3, <1>6, ReplayAppend
<1>8. With(k, v)[i].cells[x] = IF x = k /\ Find(tables, k) = i THEN v ELSE tables[i].cells[x]
  <2>1. tables[i].cells \in [Key -> Value \cup {None}]
    BY <1>2, CellsOfTable
  <2>2. CASE i = Find(tables, k)
    BY <1>4, <2>1, <2>2
  <2>3. CASE i # Find(tables, k)
    BY <1>4, <2>3
  <2> QED BY <2>2, <2>3
<1>9. ~(x = k /\ Find(tables, k) = i) => Visible(tables[i].cells[x]) = Visible(OnDisk[i].cells[x])
  BY DEF DiskInv, Agree
<1> QED BY <1>7, <1>8, <1>9

LEMMA PutValueDisk ==
    ASSUME ~torn', Shape, Bounded, SaveInv, DiskInv,
           Ready, NEW k \in Key, NEW v \in Value, PutValue(k, v)
    PROVE  DiskInv'
<1>1. /\ UNCHANGED <<meta, files, marked>> /\ log' = Append(log, <<k, v>>)
      /\ unsaved' = unsaved \ {k}
      /\ Plain(k, v) \/ Splits(k, v) \/ Die(With(k, v))
  BY PutValueIs
<1>2. /\ up /\ With(k, v) \in Seq(Table) /\ With(k, v) # << >>
      /\ SameShape(tables, With(k, v)) /\ Tidy(With(k, v))
  BY WithIs DEF Ready
<1>3. CASE Plain(k, v)
  <2>1. /\ SameShape(With(k, v), tables') /\ UNCHANGED <<up, step>>
        /\ \A j \in DOMAIN tables : tables'[j].cells = With(k, v)[j].cells
    BY <1>3 DEF Plain
  <2>2. DOMAIN tables' = DOMAIN tables /\ DOMAIN With(k, v) = DOMAIN tables
    BY <1>2, <2>1 DEF SameShape
  <2>3. \A x : Find(tables', x) = Find(With(k, v), x)
    BY <2>1, ShapeKeeps
  <2>4. marked /\ Apart(meta) => Agree(With(k, v), OnDisk', unsaved')
    BY <1>1, PutSame
  <2>5. marked /\ Apart(meta) => Agree(tables', OnDisk', unsaved')
    BY <2>1, <2>2, <2>3, <2>4 DEF Agree
  <2>6. marked /\ Apart(meta) => Agree(tables, OnDisk, unsaved)'
    BY <2>5 DEF Agree, Find, Firsts, Visible
  <2> QED BY <1>1, <1>2, <2>1, <2>6 DEF DiskInv, Ready, Apart
<1>4. CASE Splits(k, v)
  BY <1>2, <1>4 DEF Splits, DiskInv, Ready
<1>5. CASE Die(With(k, v))
  <2>1. /\ Ready /\ marked /\ (Apart(meta) => SameShape(tables, meta)) /\ ~up'
        /\ answers' = [x \in Key |-> Answer(With(k, v), x)]
    BY <1>1, <1>2, <1>5, DieSaves
  <2> SUFFICES ASSUME Apart(meta), NEW x \in Key \ unsaved'
               PROVE  Visible(answers'[x]) = Visible(Answer(OnDisk', x))
    <3>1. Apart(meta)' <=> Apart(meta)
      BY <1>1 DEF Apart
    <3>2. \A x \in Key : Answer(OnDisk, x)' = Answer(OnDisk', x)
      BY DEF Answer, Find, Firsts
    <3> QED BY <2>1, <3>1, <3>2 DEF DiskInv, Ready, Visible
  <2>2. Agree(With(k, v), OnDisk', unsaved')
    BY <1>1, <2>1, PutSame
  <2>3. SameShape(With(k, v), OnDisk')
    <3>1. SameShape(meta, Loaded(meta)) /\ Loaded(meta) \in Seq(Table)
      BY OnDiskIs
    <3>2. log' \in Seq(Key \X Value)
      BY PutValueIs
    <3>3. SameShape(Loaded(meta), OnDisk')
      BY <1>1, <3>1, <3>2, OnDiskLater, ReplayIs
    <3> QED BY <1>2, <2>1, <3>1, <3>3 DEF SameShape
  <2>4. Visible(Answer(With(k, v), x)) = Visible(Answer(OnDisk', x))
    BY <1>2, <2>2, <2>3, SameAnswers DEF Tidy
  <2> QED BY <2>1, <2>4
<1> QED BY <1>1, <1>3, <1>4, <1>5

\* A DELETE changes one cell, where find_file looks for its key.
LEMMA DeleteDisk ==
    ASSUME Shape, DiskInv, NEW k \in Key, Delete(k)
    PROVE  DiskInv'
<1>1. /\ Ready /\ up /\ tables' = With(k, None) /\ unsaved' = unsaved \cup {k}
      /\ UNCHANGED <<up, step, meta, files, log, marked>>
  BY DEF Delete, Ready, With, disk
<1>2. /\ tables \in Seq(Table) /\ Find(tables, k) \in DOMAIN tables
      /\ SameShape(tables, With(k, None))
      /\ \A j \in DOMAIN tables : j # Find(tables, k) => With(k, None)[j] = tables[j]
      /\ With(k, None)[Find(tables, k)].cells = [tables[Find(tables, k)].cells EXCEPT ![k] = None]
  BY <1>1, WithIs, TypeOKIs DEF Shape
<1>3. DOMAIN tables' = DOMAIN tables /\ \A x : Find(tables', x) = Find(tables, x)
  <2>1. SameShape(tables, tables')
    BY <1>1, <1>2
  <2> QED BY <2>1, ShapeKeeps DEF SameShape
<1>4. ASSUME marked, Apart(meta), NEW i \in DOMAIN tables, NEW x \in Key,
             ~(x \in unsaved' /\ Find(tables, x) = i)
      PROVE  Visible(tables'[i].cells[x]) = Visible(OnDisk[i].cells[x])
  <2>1. Visible(tables[i].cells[x]) = Visible(OnDisk[i].cells[x])
    BY <1>1, <1>4 DEF DiskInv, Agree
  <2>2. tables'[i].cells[x] = tables[i].cells[x]
    <3>1. CASE i = Find(tables, k)
      <4>1. x # k
        BY <1>1, <1>4, <3>1
      <4>2. tables[i].cells \in [Key -> Value \cup {None}]
        BY <1>2, CellsOfTable
      <4> QED BY <1>1, <1>2, <3>1, <4>1, <4>2
    <3>2. CASE i # Find(tables, k)
      BY <1>1, <1>2, <3>2
    <3> QED BY <3>1, <3>2
  <2> QED BY <2>1, <2>2
<1>5. marked /\ Apart(meta) => Agree(tables', OnDisk, unsaved')
  BY <1>3, <1>4 DEF Agree
<1>6. OnDisk' = OnDisk
  BY <1>1, OnDiskLater
<1>7. marked /\ Apart(meta) => Agree(tables, OnDisk, unsaved)'
  BY <1>5, <1>6 DEF Agree, Find, Firsts, Visible
<1> QED BY <1>1, <1>7 DEF DiskInv, Ready, Apart

LEMMA DieDisk ==
    ASSUME ~torn', Shape, SaveInv, DiskInv, up, Die(tables), UNCHANGED <<disk, unsaved>>
    PROVE  DiskInv'
<1>1. /\ Ready /\ marked /\ (Apart(meta) => SameShape(tables, meta)) /\ ~up'
      /\ answers' = [x \in Key |-> Answer(tables, x)] /\ UNCHANGED <<meta, files, log>>
  BY DieSaves DEF disk
<1> SUFFICES ASSUME Apart(meta), NEW x \in Key \ unsaved
             PROVE  Visible(answers'[x]) = Visible(Answer(OnDisk', x))
  <2>1. Apart(meta)' <=> Apart(meta)
    BY <1>1 DEF Apart
  <2>2. \A x \in Key : Answer(OnDisk, x)' = Answer(OnDisk', x)
    BY DEF Answer, Find, Firsts
  <2> QED BY <1>1, <2>1, <2>2 DEF DiskInv, Ready, Visible
<1>2. tables \in Seq(Table) /\ tables # << >> /\ Ordered(tables)
  BY TypeOKIs DEF Shape, Tidy
<1>3. SameShape(tables, OnDisk) /\ OnDisk' = OnDisk
  BY <1>1, OnDiskIs, OnDiskLater DEF SameShape
<1>4. Agree(tables, OnDisk, unsaved)
  BY <1>1 DEF DiskInv
<1>5. Visible(Answer(tables, x)) = Visible(Answer(OnDisk, x))
  BY <1>2, <1>3, <1>4, SameAnswers
<1> QED BY <1>1, <1>3, <1>5

LEMMA RestartAnswers ==
    ASSUME Shape, SaveInv, DiskInv, Apart(meta), Restart
    PROVE  \A k \in Key \ unsaved : Visible(Got(k)') = Visible(answers[k])
<1>1. tables' = OnDisk /\ ~up
  BY RestartIs
<1>2. \A k \in Key : Got(k)' = Answer(tables', k)
  BY DEF Got, Answer, Find, Firsts
<1> QED BY <1>1, <1>2 DEF DiskInv

LEMMA DiskNext ==
    ASSUME ~torn', Shape, Bounded, SaveInv, DiskInv, [Next]_vars
    PROVE  DiskInv'
<1>1. tables \in Seq(Table) /\ meta \in Seq(MetaLine)
      /\ files \in [1 .. MaxTables -> [Key -> Value \cup {None}]]
  BY TypeOKIs DEF Shape
<1>2. ASSUME NEW k \in Key, NEW v \in Value, Put(k, v) PROVE DiskInv'
  BY <1>2, PutValueDisk DEF Put
<1>3. ASSUME NEW k \in Key, NEW old, NEW v \in Value, ConditionalPut(k, old, v)
      PROVE  DiskInv'
  BY <1>3, PutValueDisk DEF ConditionalPut
<1>4. ASSUME NEW k \in Key, ConditionalPutAbsent(k) PROVE DiskInv'
  BY <1>4, DieDisk DEF ConditionalPutAbsent, Ready
<1>5. CASE OpenMeta
  BY <1>5 DEF OpenMeta, Checkpointing, DiskInv, Ready
<1>6. CASE CloseMeta
  BY <1>6 DEF CloseMeta, Checkpointing, DiskInv, Ready
<1>7. CASE OpenFile
  BY <1>7 DEF OpenFile, Checkpointing, DiskInv, Ready
<1>8. CASE CloseFile
  BY <1>8 DEF CloseFile, Checkpointing, DiskInv, Ready
<1>9. CASE OpenLog
  BY <1>9 DEF OpenLog, Checkpointing, DiskInv, Ready
<1>10. CASE CloseLog
  <2>1. /\ up /\ step = "closeLog" /\ step' = "ready" /\ log = << >>
        /\ UNCHANGED <<up, meta, files, log>>
    BY <1>10 DEF CloseLog, Checkpointing, SaveInv
  <2>2. /\ SameShape(tables, tables') /\ SameShape(tables, meta)
        /\ \A i \in DOMAIN tables : tables'[i].cells = tables[i].cells /\ Written(i)
    BY <1>10, <2>1, CloseLogKeepsShape DEF SaveInv, Described
  <2>3. ASSUME NEW i \in DOMAIN tables', NEW k \in Key
        PROVE  Visible(tables'[i].cells[k]) = Visible(OnDisk'[i].cells[k])
    <3>1. i \in DOMAIN tables /\ i \in DOMAIN meta /\ meta[i].file = tables[i].file
      BY <2>2, <2>3 DEF SameShape
    <3>2. /\ Loaded(meta) \in Seq(Table) /\ i \in DOMAIN Loaded(meta)
          /\ Loaded(meta)[i].cells = Shown(tables[i].cells)
      BY <2>2, <3>1, OnDiskIs DEF SameShape, Written
    <3>3. OnDisk'[i].cells[k] = Shown(tables[i].cells)[k]
      BY <2>1, <3>2, OnDiskLater, ReplayNothing
    <3>4. Visible(Shown(tables[i].cells)[k]) = Visible(tables[i].cells[k])
      BY <2>3 DEF Shown, Visible
    <3> QED BY <2>2, <3>1, <3>3, <3>4
  <2> QED BY <2>1, <2>3 DEF DiskInv, Agree, Visible
<1>11. CASE Crash
  BY <1>11, DieDisk DEF Crash
<1>12. CASE Restart
  <2>1. ~up /\ up' /\ UNCHANGED <<meta, files, log>>
    BY <1>12 DEF Restart, SaveInv
  <2>2. OnDisk' = OnDisk
    BY <2>1, OnDiskLater
  <2>3. Apart(meta)' => tables' = OnDisk
    <3>1. Apart(meta)' <=> Apart(meta)
      BY <2>1 DEF Apart
    <3> QED BY <1>12, <3>1, RestartIs
  <2> QED BY <2>1, <2>2, <2>3 DEF DiskInv, Agree, Visible
<1>13. CASE UNCHANGED vars
  <2>1. UNCHANGED <<up, step, tables, marked, unsaved, answers, meta, files, log>>
    BY <1>13 DEF vars, memory, disk
  <2>2. OnDisk' = OnDisk
    BY <2>1, OnDiskLater
  <2>3. /\ \A k : Answer(OnDisk, k)' = Answer(OnDisk', k)
        /\ Agree(tables, OnDisk, unsaved)' <=> Agree(tables, OnDisk, unsaved)
        /\ Apart(meta)' <=> Apart(meta)
    BY <2>1, <2>2 DEF Answer, Find, Firsts, Agree, Visible, Apart
  <2> QED BY <2>1, <2>2, <2>3 DEF DiskInv, Ready, Visible
<1>14. CASE Call
  BY <1>2, <1>3, <1>4, <1>14, DeleteDisk DEF Call
<1> QED BY <1>5, <1>6, <1>7, <1>8, <1>9, <1>10, <1>11, <1>12, <1>13, <1>14 DEF Next

\* A restart gives every GET the answer it had before the crash, whatever was
\* put, deleted, split and checkpointed before, for any number of tables, calls
\* and crashes: the metadata, the files and the log are read back into the same
\* tables in the same order, and find_file looks for a key where put_value had
\* put it.  What is left out the property names.
THEOREM RestartRestores == Spec => RestartKeepsAnswers
<1> DEFINE Inv == Shape /\ Bounded /\ (~torn => SaveInv /\ DiskInv)
<1>1. Init => Inv
  BY ShapeInit, SaveInit, DiskInit
<1>2. Inv /\ [Next]_vars => Inv'
  <2> SUFFICES ASSUME Inv, [Next]_vars PROVE Inv'
    OBVIOUS
  <2>1. Shape' /\ Bounded'
    BY ShapeNext
  <2>2. CASE ~torn'
    <3>1. SaveInv /\ DiskInv
      BY <2>2, TornStays
    <3> QED BY <2>1, <2>2, <3>1, SaveNext, DiskNext
  <2> QED BY <2>1, <2>2
<1>3. Inv /\ [Next]_vars =>
         [~up /\ up' /\ ~torn /\ Apart(meta) =>
            \A k \in Key \ unsaved : Visible(Got(k)') = Visible(answers[k])]_vars
  <2> SUFFICES ASSUME Inv, Next, ~up, up', ~torn, Apart(meta)
               PROVE  \A k \in Key \ unsaved : Visible(Got(k)') = Visible(answers[k])
    OBVIOUS
  <2>1. Restart
    BY DEF Next, Call, Put, ConditionalPut, ConditionalPutAbsent, Delete, Ready, OpenMeta,
           CloseMeta, OpenFile, CloseFile, OpenLog, CloseLog, Checkpointing, Crash
  <2> QED BY <2>1, RestartAnswers
<1> HIDE DEF Inv
<1> QED BY <1>1, <1>2, <1>3, PTL DEF Spec, RestartKeepsAnswers

-----------------------------------------------------------------------------
(* Up to two tables every value is where find_file looks for it; with more, *)
(* it need not be (UnavailableIsAbsent fails).                             *)

Placed(ts) ==
    \A i \in DOMAIN ts : \A k \in Key : ts[i].cells[k] # None => Find(ts, k) = i

\* Where find_file looks among two tables of different first keys.
LEMMA FindOfTwo ==
    ASSUME NEW ts \in Seq(Table), Ordered(ts), Len(ts) = 2, NEW k \in Nat
    PROVE  Find(ts, k) = IF ts[1].first # k /\ (ts[2].first = k \/ ~(ts[1].first <= k))
                         THEN 2 ELSE 1
<1>1. /\ Firsts(ts) \in Seq(Nat) /\ Len(Firsts(ts)) = 2
      /\ Firsts(ts)[1] = ts[1].first /\ Firsts(ts)[2] = ts[2].first
  <2>1. DOMAIN ts = 1 .. 2
    BY LenProperties
  <2> QED BY <2>1, FirstsAre, TableFirsts
<1>2. Firsts(ts) # << >>
  <2>1. Len(Firsts(ts)) # 0
    BY <1>1
  <2> QED BY <2>1, EmptySeq
<1> QED BY <1>1, <1>2, PlaceIs DEF Find, Ordered

LEMMA FindOfOne ==
    ASSUME NEW ts \in Seq(Table), Len(ts) = 1, NEW k
    PROVE  Find(ts, k) = 1
<1>1. Len(Firsts(ts)) = 1
  BY FirstsAre, TableFirsts
<1> QED BY <1>1 DEF Find, Place

\* The first key of a table is looked for in that table.
LEMMA FindFirst ==
    ASSUME NEW ts \in Seq(Table), Ordered(ts), Apart(ts), Len(ts) <= 2,
           NEW i \in DOMAIN ts
    PROVE  Find(ts, ts[i].first) = i
<1>1. DOMAIN ts = 1 .. Len(ts) /\ Len(ts) \in Nat
  BY LenProperties
<1>2. ts[i].first \in Nat
  BY FirstsAre, TableFirsts
<1>3. CASE Len(ts) = 1
  BY <1>1, <1>3, FindOfOne
<1>4. CASE Len(ts) = 2
  <2>1. ts[1].first # ts[2].first
    BY <1>1, <1>4 DEF Apart
  <2>2. i = 1 \/ i = 2
    BY <1>1, <1>4
  <2> QED BY <1>2, <1>4, <2>1, <2>2, FindOfTwo
<1> QED BY <1>1, <1>3, <1>4

\* A value in a cell of With(k, v) was there, or it is the new one.
LEMMA WithPlaced ==
    ASSUME Shape, up, Placed(tables), NEW k \in Key, NEW v \in Value \cup {None}
    PROVE  Placed(With(k, v))
<1>1. /\ tables \in Seq(Table) /\ Find(tables, k) \in DOMAIN tables
      /\ SameShape(tables, With(k, v))
      /\ \A j \in DOMAIN tables : j # Find(tables, k) => With(k, v)[j] = tables[j]
      /\ With(k, v)[Find(tables, k)].cells = [tables[Find(tables, k)].cells EXCEPT ![k] = v]
  BY WithIs, TypeOKIs DEF Shape
<1> SUFFICES ASSUME NEW i \in DOMAIN With(k, v), NEW x \in Key,
                    With(k, v)[i].cells[x] # None
             PROVE  Find(With(k, v), x) = i
  BY DEF Placed
<1>2. i \in DOMAIN tables /\ Find(With(k, v), x) = Find(tables, x)
  <2>1. SameShape(tables, With(k, v))
    BY <1>1
  <2> QED BY <2>1, ShapeKeeps DEF SameShape
<1>3. CASE i = Find(tables, k) /\ x = k
  BY <1>2, <1>3
<1>4. CASE ~(i = Find(tables, k) /\ x = k)
  <2>1. tables[i].cells \in [Key -> Value \cup {None}]
    BY <1>1, <1>2, CellsOfTable
  <2>2. With(k, v)[i].cells[x] = tables[i].cells[x]
    <3>1. CASE i = Find(tables, k)
      BY <1>1, <1>4, <2>1, <3>1
    <3>2. CASE i # Find(tables, k)
      BY <1>1, <1>2, <3>2
    <3> QED BY <3>1, <3>2
  <2> QED BY <1>2, <2>2 DEF Placed
<1> QED BY <1>3, <1>4

\* A split of one of at most two tables that hold their keys gives tables of
\* different first keys.
LEMMA SplitApart ==
    ASSUME NEW ts \in Seq(Table), Tidy(ts), Apart(ts), Len(ts) <= 2, Placed(ts),
           NEW i \in DOMAIN ts, NEW us, NEW last, IsSplit(ts, i, us, last)
    PROVE  Apart(us) /\ last \in Key
<1>1. /\ DOMAIN ts = 1 .. Len(ts) /\ Len(ts) \in Nat /\ us \in Seq(Table)
      /\ Len(us) = Len(ts) + 1 /\ DOMAIN us = 1 .. Len(us)
  BY LenProperties DEF IsSplit
<1>2. ts[i].cells \in [Key -> Value \cup {None}]
  BY CellsOfTable
<1>3. /\ last \in Key /\ ts[i].cells[last] # None /\ us[Len(us)].first = last
  BY DEF IsSplit, Stored
<1>4. /\ us[i].first \in Key /\ ts[i].cells[us[i].first] # None /\ us[i].first # last
  <2>1. us[i].first \in Stored(us[i].cells) /\ us[i].cells = [ts[i].cells EXCEPT ![last] = None]
    BY DEF IsSplit
  <2> QED BY <1>2, <1>3, <2>1 DEF Stored
<1>5. ASSUME NEW j \in DOMAIN ts, j # i
      PROVE  us[j].first # last /\ us[j].first # us[i].first
  <2>1. us[j].first = ts[j].first
    BY <1>5 DEF IsSplit
  <2>2. Find(ts, ts[j].first) = j
    BY FindFirst DEF Tidy
  <2>3. Find(ts, last) = i /\ Find(ts, us[i].first) = i
    BY <1>3, <1>4 DEF Placed
  <2> QED BY <1>5, <2>1, <2>2, <2>3
<1>6. ASSUME NEW a \in DOMAIN us, NEW b \in DOMAIN us, us[a].first = us[b].first
      PROVE  a = b
  <2>1. CASE a = Len(us)
    BY <1>1, <1>3, <1>4, <1>5, <1>6, <2>1
  <2>2. CASE b = Len(us)
    BY <1>1, <1>3, <1>4, <1>5, <1>6, <2>2
  <2>3. CASE a \in DOMAIN ts /\ b \in DOMAIN ts
    <3>1. CASE a = i \/ b = i
      BY <1>5, <1>6, <2>3, <3>1
    <3>2. CASE a # i /\ b # i
      <4>1. ts[a].first = ts[b].first
        BY <1>6, <2>3, <3>2 DEF IsSplit
      <4> QED BY <2>3, <4>1 DEF Apart
    <3> QED BY <3>1, <3>2
  <2> QED BY <1>1, <2>1, <2>2, <2>3
<1> QED BY <1>3, <1>6 DEF Apart

\* A split of the only table leaves two, in order, that hold their keys.
LEMMA SplitPlaced ==
    ASSUME NEW ts \in Seq(Table), Len(ts) = 1, NEW i \in DOMAIN ts,
           NEW us, NEW last, IsSplit(ts, i, us, last)
    PROVE  Ordered(us) /\ Apart(us) /\ Placed(us)
<1>1. /\ i = 1 /\ us \in Seq(Table) /\ Len(us) = 2 /\ DOMAIN us = 1 .. 2
  BY LenProperties DEF IsSplit
<1>2. ts[1].cells \in [Key -> Value \cup {None}]
  BY <1>1, CellsOfTable
<1>3. /\ us[2].first = last /\ us[2].cells = [NoCells EXCEPT ![last] = ts[1].cells[last]]
      /\ us[1].cells = [ts[1].cells EXCEPT ![last] = None]
      /\ \A x \in Stored(us[1].cells) : us[1].first <= x /\ x < last
      /\ us[1].first \in Stored(us[1].cells) /\ last \in Stored(ts[1].cells)
  BY <1>1 DEF IsSplit
<1>4. last \in Nat /\ us[1].first \in Nat /\ us[1].first < last
  BY <1>3, KeyAssumption DEF Stored
<1>5. Apart(us)
  BY <1>1, <1>3, <1>4 DEF Apart
<1>6. Ordered(us)
  <2>1. /\ DOMAIN Firsts(us) = 1 .. 2
        /\ Firsts(us)[1] = us[1].first /\ Firsts(us)[2] = us[2].first
    BY <1>1, FirstsAre, TableFirsts
  <2> QED BY <1>3, <1>4, <2>1 DEF Ordered, Ascending
<1>7. ASSUME NEW j \in DOMAIN us, NEW k \in Key, us[j].cells[k] # None
      PROVE  Find(us, k) = j
  <2>1. k \in Nat
    BY KeyAssumption
  <2>2. CASE j = 1
    <3>1. us[1].first <= k /\ k < last
      BY <1>3, <1>7, <2>2 DEF Stored
    <3> QED BY <1>1, <1>3, <1>4, <1>6, <2>1, <2>2, <3>1, FindOfTwo
  <2>3. CASE j = 2
    <3>1. k = last
      BY <1>3, <1>7, <2>3 DEF NoCells
    <3> QED BY <1>1, <1>3, <1>4, <1>6, <2>1, <2>3, <3>1, FindOfTwo
  <2> QED BY <1>1, <2>2, <2>3
<1> QED BY <1>5, <1>6, <1>7 DEF Placed

PlaceInv ==
    /\ Len(tables) <= 3 => Apart(tables)
    /\ Len(meta) <= 3 => Apart(meta)
    /\ Len(tables) <= 2 => Placed(tables)
    /\ (~up \/ (Ready /\ marked)) /\ Len(meta) <= 2 => Placed(Loaded(meta))

LEMMA PlaceInit == Init => PlaceInv
<1> SUFFICES ASSUME Init PROVE PlaceInv
  OBVIOUS
<1>1. DOMAIN tables = {1} /\ tables[1].cells = NoCells /\ DOMAIN meta = {1}
  BY NewServer, NewMetaIs
<1>2. Placed(tables) /\ Apart(tables) /\ Apart(meta)
  BY <1>1 DEF Placed, NoCells, Apart
<1> QED BY <1>2 DEF Init, PlaceInv, Ready

\* Tables that have fewer values than others of their shape.
LEMMA PlacedKeeps ==
    ASSUME NEW ts, NEW us, SameShape(ts, us), Placed(ts),
           \A i \in DOMAIN ts : \A k \in Key :
              us[i].cells[k] # None => ts[i].cells[k] # None
    PROVE  Placed(us)
<1>1. \A k : Find(ts, k) = Find(us, k)
  BY ShapeKeeps
<1> QED BY <1>1 DEF Placed, SameShape

\* A step that leaves the tables, or their shape, and the disk.
LEMMA PlaceStays ==
    ASSUME PlaceInv, up, up' \/ (Ready /\ marked), step' = "ready" => Ready, marked' = marked,
           UNCHANGED <<meta, files>>, Len(tables') <= 3 => Apart(tables'),
           Len(tables') <= 2 => Placed(tables')
    PROVE  PlaceInv'
<1>1. Loaded(meta)' = Loaded(meta) /\ Len(meta)' = Len(meta)
  BY DEF Loaded
<1>2. (~up \/ (Ready /\ marked))' => Ready /\ marked
  BY DEF Ready
<1>3. Placed(Loaded(meta))' <=> Placed(Loaded(meta))
  BY <1>1 DEF Placed, Find, Firsts
<1>4. Placed(tables)' <=> Placed(tables')
  BY DEF Placed, Find, Firsts
<1>5. (Apart(tables)' <=> Apart(tables')) /\ (Apart(meta)' <=> Apart(meta))
  BY DEF Apart
<1> QED BY <1>1, <1>2, <1>3, <1>4, <1>5 DEF PlaceInv

LEMMA SplitsPlaces ==
    ASSUME Shape, PlaceInv, up, NEW k \in Key, NEW v \in Value, Splits(k, v),
           Len(tables') <= 3
    PROVE  Apart(tables') /\ (Len(tables') <= 2 => Placed(tables'))
<1> DEFINE put == With(k, v)
           i   == Find(tables, k)
<1>1. /\ i \in DOMAIN tables /\ put \in Seq(Table) /\ SameShape(tables, put) /\ Tidy(put)
  BY WithIs
<1>2. PICK us, last : IsSplit(put, i, us, last) /\ tables' \in Sorted(us)
  BY DEF Splits
<1>3. Len(put) = Len(tables) /\ i \in DOMAIN put /\ Len(put) \in Nat /\ Len(put) # 0
  <2>1. tables \in Seq(Table) /\ Len(tables) \in Nat /\ tables # << >>
    BY TypeOKIs, LenProperties DEF Shape
  <2> QED BY <1>1, <2>1, EmptySeq DEF SameShape
<1>4. Len(put) <= 2 /\ Placed(put) /\ Apart(put)
  <2>1. Len(tables') = Len(put) + 1
    <3>1. us \in Seq(Table) /\ Len(us) = Len(put) + 1
      BY <1>2 DEF IsSplit
    <3>2. Numbered(us)
      BY <1>1, <1>2, <1>3, SplitNumbered DEF Tidy
    <3> QED BY <1>2, <3>1, <3>2, SortedAre, TableFirsts
  <2>2. Len(tables) <= 2
    BY <1>3, <2>1
  <2>3. Placed(put)
    BY <2>2, WithPlaced DEF PlaceInv
  <2>4. Apart(tables) /\ SameShape(tables, put)
    BY <1>1, <2>2 DEF PlaceInv
  <2>5. Apart(put)
    BY <2>4, ShapeKeeps
  <2> QED BY <1>3, <2>2, <2>3, <2>5
<1> HIDE DEF put, i
<1>5. us \in Seq(Table) /\ Numbered(us) /\ Apart(us) /\ Len(us) = Len(put) + 1
  <2>1. IsSplit(put, i, us, last) /\ Tidy(put) /\ Numbered(put)
    BY <1>1, <1>2 DEF Tidy
  <2>2. Numbered(us)
    BY <1>1, <1>3, <2>1, SplitNumbered
  <2>3. Apart(us)
    BY <1>1, <1>3, <1>4, <2>1, SplitApart
  <2> QED BY <2>1, <2>2, <2>3 DEF IsSplit
<1>6. /\ Len(tables') = Len(us) /\ Numbered(tables')
      /\ \A a \in DOMAIN tables' : \E b \in DOMAIN us : tables'[a] = us[b]
  BY <1>2, <1>5, SortedAre, TableFirsts
<1>7. Apart(tables')
  <2>1. ASSUME NEW a \in DOMAIN tables', NEW b \in DOMAIN tables',
               tables'[a].first = tables'[b].first
        PROVE  a = b
    <3>1. PICK c \in DOMAIN us, d \in DOMAIN us : tables'[a] = us[c] /\ tables'[b] = us[d]
      BY <1>6
    <3>2. tables'[a] = tables'[b]
      BY <1>5, <2>1, <3>1 DEF Apart
    <3> QED BY <1>6, <3>2 DEF Numbered
  <2> QED BY <2>1 DEF Apart
<1>8. Len(tables') <= 2 => Placed(tables')
  <2> SUFFICES ASSUME Len(tables') <= 2 PROVE Placed(tables')
    OBVIOUS
  <2>1. Len(put) = 1
    BY <1>3, <1>5, <1>6
  <2>2. Ordered(us) /\ Placed(us)
    BY <1>1, <1>2, <1>3, <2>1, SplitPlaced
  <2>3. tables' = us
    BY <1>2, <1>5, <2>2, SortedSame, TableFirsts
  <2> QED BY <2>2, <2>3
<1> QED BY <1>7, <1>8

LEMMA PutValuePlaces ==
    ASSUME ~torn', Shape, Bounded, SaveInv, PlaceInv,
           Ready, NEW k \in Key, NEW v \in Value, PutValue(k, v)
    PROVE  PlaceInv'
<1>1. /\ UNCHANGED <<meta, files, marked>>
      /\ Plain(k, v) \/ Splits(k, v) \/ Die(With(k, v))
  BY PutValueIs
<1>2. up /\ step = "ready" /\ SameShape(tables, With(k, v))
  BY WithIs DEF Ready
<1>3. CASE Plain(k, v)
  <2>1. /\ SameShape(With(k, v), tables') /\ UNCHANGED <<up, step>>
        /\ \A j \in DOMAIN tables : tables'[j].cells = With(k, v)[j].cells
    BY <1>3 DEF Plain
  <2>2. SameShape(tables, tables')
    BY <1>2, <2>1 DEF SameShape
  <2>3. Len(tables') <= 3 => Apart(tables')
    BY <2>2, ShapeKeeps DEF PlaceInv, SameShape
  <2>4. Len(tables') <= 2 => Placed(tables')
    <3> SUFFICES ASSUME Len(tables') <= 2 PROVE Placed(tables')
      OBVIOUS
    <3>1. Placed(With(k, v))
      BY <1>2, <2>2, WithPlaced DEF PlaceInv, SameShape
    <3>2. DOMAIN With(k, v) = DOMAIN tables
      BY <1>2 DEF SameShape
    <3> QED BY <2>1, <3>1, <3>2, PlacedKeeps
  <2> QED BY <1>1, <1>2, <2>1, <2>3, <2>4, PlaceStays
<1>4. CASE Splits(k, v)
  <2>1. Len(tables') <= 3 => Apart(tables') /\ (Len(tables') <= 2 => Placed(tables'))
    BY <1>2, <1>4, SplitsPlaces
  <2>2. step' = "openMeta" /\ up' = up
    BY <1>4 DEF Splits
  <2>3. Len(tables') <= 2 => Placed(tables')
    <3>1. Len(tables') \in Nat
      <4>1. tables' \in Seq(Table)
        BY <1>1, <1>2, <1>4, SplitsKeepsTables
      <4> QED BY <4>1, LenProperties
    <3> QED BY <2>1, <3>1
  <2> QED BY <1>1, <1>2, <2>1, <2>2, <2>3, PlaceStays
<1>5. CASE Die(With(k, v))
  <2>1. Ready /\ marked /\ tables' = << >>
    BY <1>1, <1>2, <1>5, DieSaves DEF PlaceInv
  <2>2. Placed(tables') /\ Apart(tables')
    BY <2>1, LenProperties, EmptySeq DEF Placed, Apart
  <2> QED BY <1>1, <1>2, <2>1, <2>2, PlaceStays
<1> QED BY <1>1, <1>3, <1>4, <1>5

LEMMA DiePlaces ==
    ASSUME ~torn', Shape, SaveInv, PlaceInv, up, Die(tables), UNCHANGED disk
    PROVE  PlaceInv'
<1>1. Ready /\ marked /\ tables' = << >> /\ UNCHANGED <<meta, files, marked>>
  BY DieSaves DEF disk, PlaceInv
<1>2. Placed(tables') /\ Apart(tables')
  BY <1>1, LenProperties, EmptySeq DEF Placed, Apart
<1> QED BY <1>1, <1>2, PlaceStays

\* A restart builds a table for every line of the metadata.
LEMMA RestartLen == ASSUME Shape, Restart PROVE Len(tables') = Len(meta')
<1>1. PICK ts, n : /\ ts \in Sorted(Loaded(meta')) /\ ts \in Seq(Table)
                   /\ SubSeq(log, n + 1, Len(log)) \in Seq(Key \X Value)
                   /\ tables' = Replay(ts, SubSeq(log, n + 1, Len(log)))
  BY RestartKeepsShape
<1>2. meta' \in Seq(MetaLine) /\ Tidy(meta')
  BY RestartKeepsShape, TypeOKIs DEF Shape, TypeOK, MetaLine
<1>3. Loaded(meta') \in Seq(Table) /\ SameShape(meta', Loaded(meta'))
  BY <1>2, LoadedIs, TypeOKIs DEF Shape
<1>4. Numbered(Loaded(meta'))
  BY <1>2, <1>3, ShapeKeeps DEF Tidy
<1>5. Len(ts) = Len(Loaded(meta'))
  BY <1>1, <1>3, <1>4, SortedAre, TableFirsts
<1>6. SameShape(ts, tables')
  BY <1>1, ReplayIs
<1> QED BY <1>3, <1>5, <1>6 DEF SameShape

LEMMA PlaceNext ==
    ASSUME ~torn', Shape, Bounded, SaveInv, PlaceInv, [Next]_vars
    PROVE  PlaceInv'
<1>1. ASSUME NEW us, SameShape(tables, us) PROVE Len(us) <= 3 => Apart(us)
  BY <1>1, ShapeKeeps DEF PlaceInv, SameShape
<1>2. ASSUME NEW k \in Key, NEW v \in Value, Put(k, v) PROVE PlaceInv'
  BY <1>2, PutValuePlaces DEF Put
<1>3. ASSUME NEW k \in Key, NEW old, NEW v \in Value, ConditionalPut(k, old, v)
      PROVE  PlaceInv'
  BY <1>3, PutValuePlaces DEF ConditionalPut
<1>4. ASSUME NEW k \in Key, ConditionalPutAbsent(k) PROVE PlaceInv'
  BY <1>4, DiePlaces DEF ConditionalPutAbsent, Ready
<1>5. ASSUME NEW k \in Key, Delete(k) PROVE PlaceInv'
  <2>1. /\ Ready /\ up /\ up' = up /\ step' = step /\ tables' = With(k, None)
        /\ UNCHANGED <<meta, files, marked>>
    BY <1>5 DEF Delete, Ready, With, disk
  <2>2. SameShape(tables, tables')
    BY <2>1, WithIs
  <2>3. Len(tables') <= 3 => Apart(tables')
    BY <1>1, <2>2
  <2>4. Len(tables') <= 2 => Placed(tables')
    BY <2>1, <2>2, WithPlaced DEF PlaceInv, SameShape
  <2> QED BY <2>1, <2>3, <2>4, PlaceStays
<1>6. ASSUME up, up', step' # "ready", UNCHANGED tables, Len(meta') <= 3 => Apart(meta')
      PROVE  PlaceInv'
  <2>1. /\ (Len(tables) <= 3 => Apart(tables))'
        /\ (Len(tables) <= 2 => Placed(tables))'
        /\ Apart(meta)' <=> Apart(meta')
    BY <1>6 DEF PlaceInv, Apart, Placed, Find, Firsts
  <2>2. ~(~up \/ (Ready /\ marked))'
    BY <1>6 DEF Ready
  <2> QED BY <1>6, <2>1, <2>2 DEF PlaceInv
<1>7. CASE OpenMeta \/ CloseMeta \/ OpenFile \/ CloseFile \/ OpenLog
  <2>1. up /\ up' /\ step' # "ready" /\ UNCHANGED tables
    BY <1>7 DEF OpenMeta, CloseMeta, OpenFile, CloseFile, OpenLog, Checkpointing
  <2>2. CASE OpenMeta
    BY <1>6, <2>1, <2>2, NoTables DEF OpenMeta
  <2>3. CASE CloseMeta
    BY <1>1, <1>6, <2>1, <2>3, CloseMetaKeepsShape
  <2>4. CASE OpenFile \/ CloseFile \/ OpenLog
    <3>1. UNCHANGED meta
      BY <2>4 DEF OpenFile, CloseFile, OpenLog
    <3>2. Len(meta') <= 3 => Apart(meta')
      BY <3>1 DEF PlaceInv
    <3> QED BY <1>6, <2>1, <3>2
  <2> QED BY <1>7, <2>2, <2>3, <2>4
<1>8. CASE CloseLog
  <2>1. /\ up /\ step = "closeLog" /\ UNCHANGED <<up, meta, files>>
    BY <1>8 DEF CloseLog, Checkpointing
  <2>2. /\ SameShape(tables, tables') /\ SameShape(tables, meta)
        /\ \A i \in DOMAIN tables : tables'[i].cells = tables[i].cells /\ Written(i)
    BY <1>8, <2>1, CloseLogKeepsShape DEF SaveInv, Described
  <2>3. Len(tables') <= 3 => Apart(tables')
    BY <1>1, <2>2
  <2>4. Len(tables') <= 2 => Placed(tables')
    BY <2>2, PlacedKeeps DEF PlaceInv, SameShape
  <2>5. Len(meta) <= 2 => Placed(Loaded(meta))
    <3>1. SameShape(tables, Loaded(meta))
      BY <2>2, OnDiskIs DEF SameShape
    <3>2. ASSUME NEW i \in DOMAIN tables, NEW k \in Key, Loaded(meta)[i].cells[k] # None
          PROVE  tables[i].cells[k] # None
      <4>1. Loaded(meta)[i].cells = Shown(tables[i].cells)
        BY <2>2, OnDiskIs DEF SameShape, Written
      <4> QED BY <3>2, <4>1 DEF Shown
    <3> QED BY <2>2, <3>1, <3>2, PlacedKeeps DEF PlaceInv, SameShape
  <2>6. Loaded(meta)' = Loaded(meta)
    BY <2>1 DEF Loaded
  <2>7. /\ Placed(Loaded(meta))' <=> Placed(Loaded(meta))
        /\ Placed(tables)' <=> Placed(tables')
        /\ Apart(tables)' <=> Apart(tables')
        /\ Apart(meta)' <=> Apart(meta)
    BY <2>1, <2>6 DEF Placed, Find, Firsts, Apart
  <2> QED BY <2>1, <2>3, <2>4, <2>5, <2>7 DEF PlaceInv
<1>9. CASE Crash
  BY <1>9, DiePlaces DEF Crash
<1>10. CASE Restart
  <2>1. ~up /\ UNCHANGED <<meta, files, log>>
    BY <1>10 DEF Restart, SaveInv
  <2>2. /\ Loaded(meta) \in Seq(Table) /\ SameShape(meta, Loaded(meta))
        /\ log \in Seq(Key \X Value) /\ Len(tables') = Len(meta) /\ Len(meta) \in Nat
    BY <1>10, <2>1, OnDiskIs, RestartLen, TypeOKIs, LenProperties DEF Shape
  <2>3. Len(meta) <= 3 => Apart(meta) /\ tables' = OnDisk /\ SameShape(meta, tables')
    BY <1>10, RestartIs DEF PlaceInv
  <2>4. Len(tables') <= 3 => Apart(tables')
    BY <2>2, <2>3, ShapeKeeps
  <2>5. Len(tables') <= 2 => Placed(tables')
    <3> SUFFICES ASSUME Len(meta) <= 2, NEW i \in DOMAIN tables', NEW k \in Key,
                        tables'[i].cells[k] # None
                 PROVE  Find(tables', k) = i
      BY <2>2 DEF Placed
    <3>1. tables' = OnDisk /\ SameShape(meta, tables')
      BY <2>2, <2>3
    <3>2. i \in DOMAIN Loaded(meta) /\ SameShape(Loaded(meta), tables')
      BY <2>2, <3>1 DEF SameShape
    <3>3. Find(tables', k) = Find(Loaded(meta), k)
      BY <3>2, ShapeKeeps
    <3>4. Placed(Loaded(meta))
      BY <2>1 DEF PlaceInv
    <3>5. Find(Loaded(meta), k) # i => tables'[i].cells[k] = Loaded(meta)[i].cells[k]
      BY <2>2, <3>1, <3>2, ReplayIs DEF OnDisk
    <3> QED BY <3>2, <3>3, <3>4, <3>5 DEF Placed
  <2>6. Loaded(meta)' = Loaded(meta)
    BY <2>1 DEF Loaded
  <2>7. /\ Placed(Loaded(meta))' <=> Placed(Loaded(meta))
        /\ Placed(tables)' <=> Placed(tables')
        /\ Apart(tables)' <=> Apart(tables')
        /\ Apart(meta)' <=> Apart(meta)
    BY <2>1, <2>6 DEF Placed, Find, Firsts, Apart
  <2> QED BY <2>1, <2>4, <2>5, <2>7 DEF PlaceInv
<1>11. CASE UNCHANGED vars
  BY <1>11 DEF vars, memory, disk, PlaceInv, Ready, Placed, Find, Firsts, Loaded, Apart
<1>12. CASE Call
  BY <1>2, <1>3, <1>4, <1>5, <1>12 DEF Call
<1> QED BY <1>7, <1>8, <1>9, <1>10, <1>11, <1>12 DEF Next

\* Up to three tables begin with different keys, as sort and find_file need: up
\* to two tables hold the keys they are looked for in, so that a split makes
\* no first key anew that another table has.
THEOREM ThreeTablesApart == Spec => []ThreeFirstsApart
<1> DEFINE Inv == Shape /\ Bounded /\ (~torn => SaveInv /\ PlaceInv)
<1>1. Init => Inv
  BY ShapeInit, SaveInit, PlaceInit
<1>2. Inv /\ [Next]_vars => Inv'
  <2> SUFFICES ASSUME Inv, [Next]_vars PROVE Inv'
    OBVIOUS
  <2>1. Shape' /\ Bounded'
    BY ShapeNext
  <2>2. CASE ~torn'
    <3>1. SaveInv /\ PlaceInv
      BY <2>2, TornStays
    <3> QED BY <2>1, <2>2, <3>1, SaveNext, PlaceNext
  <2> QED BY <2>1, <2>2
<1>3. Inv => ThreeFirstsApart
  BY DEF PlaceInv, ThreeFirstsApart
<1> HIDE DEF Inv
<1> QED BY <1>1, <1>2, <1>3, PTL DEF Spec

-----------------------------------------------------------------------------
(* A server is a map from keys to values, but at later splits.             *)

\* What is put is what is found, and nothing else changes.
LEMMA WithAnswers ==
    ASSUME Shape, up, NEW k \in Key, NEW v \in Value \cup {None}, NEW x \in Key
    PROVE  Answer(With(k, v), x) = IF x = k THEN v ELSE Got(x)
<1> DEFINE i == Find(tables, k)
           j == Find(tables, x)
<1>1. /\ tables \in Seq(Table) /\ i \in DOMAIN tables
      /\ SameShape(tables, With(k, v))
      /\ \A l \in DOMAIN tables : l # i => With(k, v)[l] = tables[l]
      /\ With(k, v)[i].cells = [tables[i].cells EXCEPT ![k] = v]
  BY WithIs, TypeOKIs DEF Shape
<1>2. tables # << >> /\ Ordered(tables) /\ j \in DOMAIN tables
  BY <1>1, TypeOKIs, FindIsTable DEF Shape, Tidy
<1>3. Find(With(k, v), x) = j
  <2>1. SameShape(tables, With(k, v))
    BY <1>1
  <2> QED BY <2>1, ShapeKeeps
<1>4. /\ Answer(With(k, v), x) = With(k, v)[j].cells[x] /\ Got(x) = tables[j].cells[x]
      /\ x = k => j = i
  BY <1>3 DEF Answer, Got
<1>5. tables[i].cells \in [Key -> Value \cup {None}]
  BY <1>1, CellsOfTable
<1> HIDE DEF i, j
<1>6. CASE x = k
  BY <1>1, <1>4, <1>5, <1>6
<1>7. CASE x # k
  <2>1. CASE j = i
    BY <1>1, <1>4, <1>5, <1>7, <2>1
  <2>2. CASE j # i
    BY <1>1, <1>2, <1>4, <1>7, <2>2
  <2> QED BY <2>1, <2>2
<1> QED BY <1>6, <1>7

\* A split of the only table changes no answer.
LEMMA SplitAnswers ==
    ASSUME NEW ts \in Seq(Table), Len(ts) = 1, NEW i \in DOMAIN ts,
           NEW us, NEW last, IsSplit(ts, i, us, last), NEW x \in Key
    PROVE  Answer(us, x) = Answer(ts, x)
<1>1. /\ i = 1 /\ us \in Seq(Table) /\ Len(us) = 2 /\ DOMAIN us = 1 .. 2
  BY LenProperties DEF IsSplit
<1>2. Ordered(us) /\ Placed(us)
  BY SplitPlaced
<1>3. us # << >>
  <2>1. Len(us) # 0
    BY <1>1
  <2> QED BY <1>1, <2>1, EmptySeq
<1>4. Find(us, x) \in 1 .. 2 /\ Find(ts, x) = 1
  BY <1>1, <1>2, <1>3, FindIsTable, FindOfOne
<1>5. ts[1].cells \in [Key -> Value \cup {None}]
  BY <1>1, CellsOfTable
<1>6. /\ us[2].cells = [NoCells EXCEPT ![last] = ts[1].cells[last]]
      /\ us[1].cells = [ts[1].cells EXCEPT ![last] = None]
      /\ last \in Key
  BY <1>1 DEF IsSplit, Stored
<1>7. /\ us[1].cells[x] = IF x = last THEN None ELSE ts[1].cells[x]
      /\ us[2].cells[x] = IF x = last THEN ts[1].cells[last] ELSE None
  BY <1>5, <1>6 DEF NoCells
<1>8. \A j \in 1 .. 2 : us[j].cells[x] # None => Find(us, x) = j
  BY <1>1, <1>2 DEF Placed
<1>9. us[Find(us, x)].cells[x] = ts[1].cells[x]
  BY <1>4, <1>7, <1>8
<1> QED BY <1>4, <1>9 DEF Answer

\* What the next state shows, from what it answers.
LEMMA NextView ==
    ASSUME NEW g, \A x \in Key : (IF up' THEN Answer(tables', x) ELSE answers'[x]) = g[x]
    PROVE  View' = [x \in Key |-> Visible(g[x])]
<1>1. \A x : Got(x)' = Answer(tables', x)
  BY DEF Got, Answer, Find, Firsts
<1>2. View' = [x \in Key |-> Visible(IF up' THEN Got(x)' ELSE answers'[x])]
  BY DEF View, Visible
<1> QED BY <1>1, <1>2

LEMMA PutValueAnswers ==
    ASSUME Shape, Bounded, Ready, ~LaterSplit, NEW k \in Key, NEW v \in Value, PutValue(k, v),
           NEW x \in Key
    PROVE  (IF up' THEN Answer(tables', x) ELSE answers'[x]) = Answer(With(k, v), x)
<1>1. Plain(k, v) \/ Splits(k, v) \/ Die(With(k, v))
  BY PutValueIs
<1>2. /\ up /\ Find(tables, k) \in DOMAIN tables
      /\ With(k, v) \in Seq(Table) /\ With(k, v) # << >>
      /\ SameShape(tables, With(k, v)) /\ Tidy(With(k, v))
  BY WithIs DEF Ready
<1>3. CASE Plain(k, v)
  <2>1. /\ SameShape(With(k, v), tables') /\ up' = up
        /\ \A j \in DOMAIN tables : tables'[j].cells = With(k, v)[j].cells
    BY <1>3 DEF Plain
  <2>2. Find(tables', x) = Find(With(k, v), x)
    BY <2>1, ShapeKeeps
  <2>3. Find(With(k, v), x) \in DOMAIN tables
    BY <1>2, FindIsTable DEF Tidy, SameShape
  <2> QED BY <1>2, <2>1, <2>2, <2>3 DEF Answer
<1>4. CASE Splits(k, v)
  <2> DEFINE put == With(k, v)
             i   == Find(tables, k)
  <2>1. PICK us, last : IsSplit(put, i, us, last) /\ tables' \in Sorted(us)
    BY <1>4 DEF Splits
  <2>2. Len(put) = 1 /\ i \in DOMAIN put
    <3>1. Len(put) \in Nat /\ Len(put) # 0
      BY <1>2, LenProperties, EmptySeq
    <3>2. Len(put) = Len(tables) /\ i \in DOMAIN put
      BY <1>2 DEF SameShape
    <3>3. Len(tables') = Len(put) + 1
      <4> HIDE DEF put, i
      <4>1. us \in Seq(Table) /\ Len(us) = Len(put) + 1
        BY <2>1 DEF IsSplit
      <4>2. put \in Seq(Table) /\ Numbered(put)
        BY <1>2 DEF Tidy, put
      <4>3. Numbered(us)
        BY <2>1, <3>2, <4>2, SplitNumbered
      <4> QED BY <2>1, <4>1, <4>3, SortedAre, TableFirsts
    <3> QED BY <3>1, <3>2, <3>3 DEF LaterSplit
  <2>3. put \in Seq(Table) /\ Numbered(put)
    BY <1>2 DEF Tidy
  <2> HIDE DEF put, i
  <2>4. us \in Seq(Table) /\ Numbered(us) /\ Ordered(us) /\ Apart(us)
    <3>1. Numbered(us)
      BY <2>1, <2>2, <2>3, SplitNumbered
    <3>2. Ordered(us) /\ Apart(us)
      BY <2>1, <2>2, <2>3, SplitPlaced
    <3> QED BY <2>1, <3>1, <3>2 DEF IsSplit
  <2>5. tables' = us
    BY <2>1, <2>4, SortedSame, TableFirsts
  <2>6. Answer(us, x) = Answer(put, x)
    BY <2>1, <2>2, <2>3, SplitAnswers
  <2>7. up' = up
    BY <1>4 DEF Splits
  <2> QED BY <1>2, <2>5, <2>6, <2>7 DEF put
<1>5. CASE Die(With(k, v))
  BY <1>5 DEF Die
<1> QED BY <1>1, <1>3, <1>4, <1>5

LEMMA PutValueActs ==
    ASSUME Shape, Bounded, Ready, ~LaterSplit, NEW k \in Key, NEW v \in Value, PutValue(k, v)
    PROVE  KV!Next
<1>1. up
  BY DEF Ready
<1>2. \A x \in Key : Answer(With(k, v), x) = IF x = k THEN v ELSE Got(x)
  BY <1>1, WithAnswers
<1>3. \A x \in Key :
        (IF up' THEN Answer(tables', x) ELSE answers'[x]) = [y \in Key |-> IF y = k THEN v ELSE Got(y)][x]
  BY <1>2, PutValueAnswers
<1>4. View' = [x \in Key |-> Visible([y \in Key |-> IF y = k THEN v ELSE Got(y)][x])]
  BY <1>3, NextView
<1>5. View = [x \in Key |-> Visible(Got(x))]
  BY <1>1 DEF View
<1>6. View' = [View EXCEPT ![k] = Visible(v)]
  BY <1>4, <1>5
<1>7. CASE v = Deleted
  <2>1. KV!Delete(k)
    BY <1>6, <1>7 DEF KV!Delete, Visible
  <2> QED BY <2>1 DEF KV!Next
<1>8. CASE v # Deleted
  <2>1. KV!Put(k, v)
    BY <1>6, <1>8 DEF KV!Put, Visible
  <2> QED BY <1>8, <2>1 DEF KV!Next
<1> QED BY <1>7, <1>8

LEMMA DeleteActs ==
    ASSUME Shape, NEW k \in Key, Delete(k)
    PROVE  KV!Next
<1>1. up /\ up' = up /\ tables' = With(k, None)
  BY DEF Delete, Ready, With
<1>2. \A x \in Key : Answer(With(k, None), x) = IF x = k THEN None ELSE Got(x)
  BY <1>1, WithAnswers
<1>3. \A x \in Key :
        (IF up' THEN Answer(tables', x) ELSE answers'[x])
          = [y \in Key |-> IF y = k THEN None ELSE Got(y)][x]
  BY <1>1, <1>2
<1>4. View' = [x \in Key |-> Visible([y \in Key |-> IF y = k THEN None ELSE Got(y)][x])]
  BY <1>3, NextView
<1>5. View = [x \in Key |-> Visible(Got(x))]
  BY <1>1 DEF View
<1>6. View' = [View EXCEPT ![k] = None]
  BY <1>4, <1>5, NoneAssumption, ValueAssumption DEF Visible
<1>7. KV!Delete(k)
  BY <1>6 DEF KV!Delete
<1> QED BY <1>7 DEF KV!Next

\* A crash shows nothing, and neither does a step that keeps tables and answers.
LEMMA DieShows == ASSUME up, Die(tables) PROVE View' = View
<1>1. \A x \in Key : (IF up' THEN Answer(tables', x) ELSE answers'[x]) = [y \in Key |-> Got(y)][x]
  BY DEF Die, Got
<1>2. View' = [x \in Key |-> Visible([y \in Key |-> Got(y)][x])]
  BY <1>1, NextView
<1> QED BY <1>2 DEF View

LEMMA CheckpointShows ==
    ASSUME Shape, up, up', SameShape(tables, tables'),
           \A i \in DOMAIN tables : tables'[i].cells = tables[i].cells
    PROVE  View' = View
<1>1. tables \in Seq(Table) /\ tables # << >> /\ Ordered(tables)
  BY TypeOKIs DEF Shape, Tidy
<1>2. \A x \in Key : Find(tables', x) = Find(tables, x) /\ Find(tables, x) \in DOMAIN tables
  BY <1>1, ShapeKeeps, FindIsTable
<1>3. \A x \in Key : (IF up' THEN Answer(tables', x) ELSE answers'[x]) = [y \in Key |-> Got(y)][x]
  BY <1>2 DEF Answer, Got
<1>4. View' = [x \in Key |-> Visible([y \in Key |-> Got(y)][x])]
  BY <1>3, NextView
<1> QED BY <1>4 DEF View

LEMMA StepActs ==
    ASSUME Shape, Bounded, up, ~LaterSplit, [Next]_vars
    PROVE  [KV!Next]_View
<1>1. ASSUME NEW k \in Key, NEW v \in Value, Put(k, v) PROVE KV!Next
  BY <1>1, PutValueActs DEF Put
<1>2. ASSUME NEW k \in Key, NEW old, NEW v \in Value, ConditionalPut(k, old, v) PROVE KV!Next
  BY <1>2, PutValueActs DEF ConditionalPut
<1>3. ASSUME NEW k \in Key, ConditionalPutAbsent(k) PROVE View' = View
  BY <1>3, DieShows DEF ConditionalPutAbsent, Ready
<1>4. ASSUME NEW k \in Key, Delete(k) PROVE KV!Next
  BY <1>4, DeleteActs
<1>5. CASE OpenMeta \/ CloseMeta \/ OpenFile \/ CloseFile \/ OpenLog
  <2>1. up /\ up' /\ UNCHANGED tables
    BY <1>5 DEF OpenMeta, CloseMeta, OpenFile, CloseFile, OpenLog, Checkpointing
  <2>2. SameShape(tables, tables')
    BY <2>1 DEF SameShape
  <2>3. View' = View
    BY <2>1, <2>2, CheckpointShows
  <2> QED BY <2>3
<1>6. CASE CloseLog
  <2>1. up /\ up'
    BY <1>6 DEF CloseLog, Checkpointing
  <2>2. View' = View
    BY <1>6, <2>1, CloseLogKeepsShape, CheckpointShows
  <2> QED BY <2>2
<1>7. CASE Crash
  <2>1. View' = View
    BY <1>7, DieShows DEF Crash
  <2> QED BY <2>1
<1>8. ~Restart
  BY DEF Restart
<1>9. CASE UNCHANGED vars
  <2>1. View' = View
    BY <1>9 DEF vars, memory, View, Got, Answer, Find, Firsts, Visible
  <2> QED BY <2>1
<1>10. CASE Call
  BY <1>1, <1>2, <1>3, <1>4, <1>10 DEF Call
<1> QED BY <1>5, <1>6, <1>7, <1>8, <1>9, <1>10 DEF Next

LEMMA InitActs == Init => KV!Init
<1> SUFFICES ASSUME Init PROVE KV!Init
  OBVIOUS
<1>1. /\ up /\ tables \in Seq(Table) /\ Len(tables) = 1 /\ tables[1].cells = NoCells
  BY NewServer DEF Init
<1>2. \A k \in Key : Got(k) = None
  BY <1>1, FindOfOne DEF Got, Answer, NoCells
<1>3. View = [k \in Key |-> None]
  BY <1>1, <1>2, NoneAssumption, ValueAssumption DEF View, Visible
<1> QED BY <1>3 DEF KV!Init

\* A server is a map from keys to values, whatever crashes it has been through:
\* every PUT, CPUT and DELETE takes effect on its key alone, checkpoints and
\* crashes show nothing, and the split of the only table changes no answer.
THEOREM StoreActs == Spec => ActsAsStoreButAtLaterSplits
<1>1. Spec => [](Shape /\ Bounded)
  BY ShapeAlways
<1>2. Shape /\ Bounded /\ [Next]_vars => [up /\ ~LaterSplit => KV!Next]_View
  <2> SUFFICES ASSUME Shape, Bounded, [Next]_vars, up, ~LaterSplit
               PROVE  [KV!Next]_View
    OBVIOUS
  <2> QED BY StepActs
<1>3. Init => KV!Init
  BY InitActs
<1> QED BY <1>1, <1>2, <1>3, PTL DEF Spec, ActsAsStoreButAtLaterSplits

=============================================================================
