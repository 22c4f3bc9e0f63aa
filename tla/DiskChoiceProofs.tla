-------------------------- MODULE DiskChoiceProofs --------------------------
(***************************************************************************)
(* Proofs about DiskChoice, for any drives, bays, listings, strategies and *)
(* losses: names tell drives apart, and neither a partial reading nor a    *)
(* drive that is pulled puts another drive in the place of the one picked, *)
(* as far as a name can promise it.                                        *)
(***************************************************************************)
EXTENDS DiskChoice, FiniteSetTheorems, WellFoundedInduction, TLAPS

-----------------------------------------------------------------------------
(* What a reading keeps.                                                   *)

\* Every set of numbers has a least one.
LEMMA LeastExists ==
  ASSUME NEW S, S \subseteq Nat, S # {}
  PROVE  \E k \in S : \A m \in S : k <= m
<1> DEFINE R == {p \in Nat \X Nat : p[1] < p[2]}
<1>1. IsWellFoundedOn(R, Nat)
  BY NatLessThanWellFounded DEF OpToRel
<1>2. PICK k \in S : \A m \in S : ~(<<m, k>> \in R)
  BY <1>1, WFMin
<1>3. ASSUME NEW m \in S, m < k
      PROVE  <<m, k>> \in R
  BY <1>3
<1>4. \A m \in S : ~(m < k)
  BY <1>2, <1>3
<1> QED
  BY <1>4

\* The reading after k listings.
After(raw, f, k) == IF k \in raw THEN Emit(raw, f, Listing[k][2]) ELSE f

\* There is such a function, by induction on the number of listings.
LEMMA KeptExists ==
  ASSUME NEW raw, NEW n \in Nat
  PROVE  \E f : f = [k \in 0..n |-> IF k = 0 THEN {} ELSE After(raw, f[k - 1], k)]
<1> DEFINE Has(m) == \E f : f = [k \in 0..m |-> IF k = 0 THEN {} ELSE After(raw, f[k - 1], k)]
           S == {m \in Nat : ~Has(m)}
<1>1. Has(0)
  <2> DEFINE f == [k \in 0..0 |-> {}]
  <2>1. f = [k \in 0..0 |-> IF k = 0 THEN {} ELSE After(raw, f[k - 1], k)]
    OBVIOUS
  <2> QED
    BY <2>1
<1>2. ASSUME NEW m \in Nat, Has(m)
      PROVE  Has(m + 1)
  <2>1. PICK f : f = [k \in 0..m |-> IF k = 0 THEN {} ELSE After(raw, f[k - 1], k)]
    BY <1>2
  <2> DEFINE g == [k \in 0..m + 1 |-> IF k = m + 1 THEN After(raw, f[m], k) ELSE f[k]]
  <2>2. g = [k \in 0..m + 1 |-> IF k = 0 THEN {} ELSE After(raw, g[k - 1], k)]
    <3>1. ASSUME NEW k \in 0..m + 1
          PROVE  g[k] = IF k = 0 THEN {} ELSE After(raw, g[k - 1], k)
      <4>1. CASE k = 0
        BY <2>1, <4>1
      <4>2. CASE k \in 1..m
        <5>1. f[k] = After(raw, f[k - 1], k)
          <6>1. \A x \in 0..m : f[x] = IF x = 0 THEN {} ELSE After(raw, f[x - 1], x)
            BY ONLY <2>1
          <6>2. k \in 0..m /\ k # 0
            BY <4>2
          <6> QED
            BY <6>1, <6>2
        <5>2. /\ k \in 0..m + 1 /\ k # m + 1 /\ k - 1 \in 0..m + 1 /\ k - 1 # m + 1
              /\ k # 0
          BY <4>2
        <5>3. \A x \in 0..m + 1 : x # m + 1 => g[x] = f[x]
          BY DEF g
        <5>4. g[k] = f[k] /\ g[k - 1] = f[k - 1]
          BY <5>2, <5>3
        <5> QED
          BY <5>1, <5>2, <5>4
      <4>3. CASE k = m + 1
        <5>1. g[k] = After(raw, f[m], k) /\ g[k - 1] = f[m]
          BY <4>3
        <5> QED
          BY <4>3, <5>1
      <4> QED
        BY <4>1, <4>2, <4>3
    <3> HIDE DEF g
    <3>2. \A k \in 0..m + 1 : g[k] = IF k = 0 THEN {} ELSE After(raw, g[k - 1], k)
      BY <3>1
    <3>3. g = [k \in 0..m + 1 |-> g[k]]
      BY DEF g
    <3> QED
      BY <3>2, <3>3
  <2> QED
    BY <2>2
<1> HIDE DEF Has
<1>3. S = {}
  <2> SUFFICES ASSUME S # {} PROVE FALSE
    OBVIOUS
  <2>1. PICK m \in S : \A k \in S : m <= k
    BY LeastExists
  <2>2. m # 0 /\ m - 1 \in Nat /\ m - 1 \notin S
    BY <1>1, <2>1
  <2>3. Has(m - 1) /\ m - 1 + 1 = m
    BY <2>2
  <2> QED
    BY <1>2, <2>1, <2>2, <2>3
<1> QED
  BY <1>3 DEF Has

LEMMA KeptIs ==
  ASSUME NEW raw
  PROVE  /\ Kept(raw)[0] = {}
         /\ \A k \in 1..Len(Listing) : Kept(raw)[k] = After(raw, Kept(raw)[k - 1], k)
<1> DEFINE L == Len(Listing)
<1>1. L \in Nat
  BY DiskAssumption
<1>2. Kept(raw) = CHOOSE f : f = [k \in 0..L |-> IF k = 0 THEN {}
                                                 ELSE After(raw, f[k - 1], k)]
  BY DEF Kept, After
<1>3. Kept(raw) = [k \in 0..L |-> IF k = 0 THEN {} ELSE After(raw, Kept(raw)[k - 1], k)]
  BY <1>1, <1>2, KeptExists
<1>4. \A k \in 0..L : Kept(raw)[k] = IF k = 0 THEN {} ELSE After(raw, Kept(raw)[k - 1], k)
  <2> DEFINE K == Kept(raw)
  <2> HIDE DEF K, L
  <2>1. K = [k \in 0..L |-> IF k = 0 THEN {} ELSE After(raw, K[k - 1], k)]
    BY <1>3 DEF K
  <2>2. \A k \in 0..L : K[k] = IF k = 0 THEN {} ELSE After(raw, K[k - 1], k)
    BY ONLY <2>1
  <2> QED
    BY <2>2 DEF K
<1>5. 0 \in 0..L /\ \A k \in 1..L : k \in 0..L /\ k # 0
  BY <1>1
<1> QED
  BY <1>4, <1>5

-----------------------------------------------------------------------------
(* The names of one reading.                                               *)

Bay(d) == Disk[d].bay

LEMMA ListingType ==
  /\ Len(Listing) \in Nat /\ DOMAIN Listing = 1..Len(Listing)
  /\ \A i \in DOMAIN Listing : Listing[i][2] \in Drives
  /\ \A d \in Drives : Disk[d] \in DiskRecord
BY DiskAssumption

\* Fewer than n entries leave one of n numbers free.
LEMMA NumberLeft ==
  ASSUME NEW out, IsFiniteSet(out), NEW n \in Nat, Cardinality(out) <= n, NEW b, NEW s
  PROVE  \E k \in 2..n + 2 : \A e \in out : e.name # <<b, s, 1, k>>
<1> SUFFICES ASSUME \A k \in 2..n + 2 : \E e \in out : e.name = <<b, s, 1, k>>
             PROVE  FALSE
  OBVIOUS
<1> DEFINE f == [k \in 2..n + 2 |-> CHOOSE e \in out : e.name = <<b, s, 1, k>>]
<1>1. \A k \in 2..n + 2 : f[k] \in out /\ f[k].name = <<b, s, 1, k>>
  OBVIOUS
<1>2. f \in [2..n + 2 -> out]
  BY <1>1
<1>3. ASSUME NEW j \in 2..n + 2, NEW k \in 2..n + 2, f[j] = f[k]
      PROVE  j = k
  <2>1. <<b, s, 1, j>> = <<b, s, 1, k>>
    BY <1>1, <1>3
  <2> QED
    BY <2>1
<1> HIDE DEF f
<1>4. f \in Injection(2..n + 2, out)
  BY <1>2, <1>3 DEF Injection, IsInjective
<1>5. Cardinality(2..n + 2) <= Cardinality(out) /\ Cardinality(out) \in Nat
  BY <1>4, FS_Injection, FS_CardinalityType
<1>6. Cardinality(2..n + 2) = n + 1
  BY FS_Interval
<1> QED
  BY <1>5, <1>6

\* What an entry of the reading after k listings is.
Described(raw, k, e) ==
  /\ e \in [drive : Drives, name : Names]
  /\ Disk[e.drive].size > 0
  /\ e.name[1] = Bay(e.drive)
  /\ e.name[2] = 0 => ~Shared(raw, e.drive)
  /\ \E i \in raw : i <= k /\ e.drive = Listing[i][2]

Unique(S) == \A e, f \in S : e.name = f.name \/ e.drive = f.drive => e = f

Good(raw, k) ==
  /\ IsFiniteSet(Kept(raw)[k]) /\ Cardinality(Kept(raw)[k]) <= k
  /\ \A e \in Kept(raw)[k] : Described(raw, k, e)
  /\ Unique(Kept(raw)[k])

\* A name is of its drive's bay and new; a plain one is a lone bay's.
LEMMA NameIsNew ==
  ASSUME NEW d \in Drives, NEW shared \in BOOLEAN,
         NEW out, IsFiniteSet(out), Cardinality(out) <= Len(Listing)
  PROVE  LET name == Name(d, shared, {e.name : e \in out})
         IN  /\ name \in Names /\ name[1] = Bay(d)
             /\ name[2] = 0 => ~shared
             /\ ~shared => name = <<Bay(d), 0, 0, 0>>
             /\ shared => \A e \in out : e.name # name
<1>0. \A x, y : \E k \in 2..Len(Listing) + 2 : \A e \in out : e.name # <<x, y, 1, k>>
  <2>1. Len(Listing) \in Nat
    BY ListingType
  <2> DEFINE n == Len(Listing)
  <2> HIDE DEF n
  <2>2. n \in Nat /\ Cardinality(out) <= n
    BY <2>1 DEF n
  <2>3. \A x, y : \E k \in 2..n + 2 : \A e \in out : e.name # <<x, y, 1, k>>
    BY <2>2, NumberLeft
  <2> QED
    BY <2>3 DEF n
<1> DEFINE b == Disk[d].bay
           s == Disk[d].sizeLabel
           t == Disk[d].tail
           emitted == {e.name : e \in out}
           free == {n \in 2..Len(Listing) + 2 : <<b, s, 1, n>> \notin emitted}
<1>1. b \in Nat /\ s \in Nat /\ s # 0 /\ t \in Nat
  BY ListingType DEF DiskRecord
<1>2. Least(free) \in free
  <2> HIDE DEF b, s, t
  <2>0. Len(Listing) \in Nat
    BY ListingType
  <2>1. PICK h \in 2..Len(Listing) + 2 : \A e \in out : e.name # <<b, s, 1, h>>
    BY <1>0
  <2>2. <<b, s, 1, h>> \notin emitted
    BY <2>1
  <2>4. h \in free
    BY <2>2
  <2>5. free # {}
    BY <2>4
  <2>6. free \subseteq Nat
    BY <2>0
  <2>3. \E k \in free : \A m \in free : k <= m
    BY <2>5, <2>6, LeastExists
  <2> HIDE DEF free
  <2> QED
    BY <2>3 DEF Least
<1>3. Least(free) \in Nat /\ <<b, s, 1, Least(free)>> \notin emitted
  <2>1. free \subseteq Nat
    BY ListingType
  <2> QED
    BY <1>2, <2>1
<1> DEFINE name == Name(d, shared, emitted)
<1>4. CASE ~shared
  BY <1>1, <1>4 DEF Name, Names, Bay
<1>5. CASE shared
  <2>1. \/ name = <<b, s, 0, 0>> /\ <<b, s, 0, 0>> \notin emitted
        \/ name = <<b, s, 2, t>> /\ <<b, s, 2, t>> \notin emitted
        \/ name = <<b, s, 1, Least(free)>>
    BY <1>5 DEF Name
  <2> HIDE DEF name, free
  <2>2. name \in Names /\ name[1] = b /\ name[2] = s /\ name \notin emitted
    BY <1>1, <1>3, <2>1 DEF Names
  <2> QED
    BY <1>1, <1>5, <2>2 DEF Bay, name
<1> QED
  BY <1>4, <1>5

\* One listing more leaves the entries told apart.
LEMMA EmitGood ==
  ASSUME NEW raw, raw \subseteq DOMAIN Listing, \A i \in raw : Disk[Listing[i][2]].size > 0,
         NEW k \in 1..Len(Listing), Good(raw, k - 1)
  PROVE  Good(raw, k)
<1> DEFINE out == Kept(raw)[k - 1]
           d == Listing[k][2]
           new == [drive |-> d, name |-> Name(d, Shared(raw, d), {e.name : e \in out})]
<1>0. k \in Nat /\ k - 1 \in Nat /\ k <= Len(Listing) /\ Len(Listing) \in Nat
  BY ListingType
<1>1. Kept(raw)[k] = After(raw, out, k)
  BY KeptIs
<1>2. /\ IsFiniteSet(out) /\ Cardinality(out) \in Nat /\ Cardinality(out) <= k - 1
      /\ \A e \in out : Described(raw, k - 1, e)
      /\ Unique(out)
  BY FS_CardinalityType DEF Good
<1>3. \A e : Described(raw, k - 1, e) => Described(raw, k, e)
  <2>1. \A i \in raw : i \in Nat
    BY ListingType
  <2>2. \A i \in raw : i <= k - 1 => i <= k
    BY <1>0, <2>1
  <2> QED
    BY <2>2 DEF Described
<1>4. CASE Kept(raw)[k] = out
  <2>1. Cardinality(out) <= k
    BY <1>0, <1>2
  <2> QED
    BY <1>2, <1>3, <1>4, <2>1 DEF Good
<1>5. CASE k \in raw /\ \A e \in out : e.drive # d
  <2>1. Kept(raw)[k] = out \cup {new}
    BY <1>1, <1>5 DEF After, Emit
  <2>2. d \in Drives /\ Disk[d].size > 0 /\ Shared(raw, d) \in BOOLEAN
    BY <1>5, ListingType DEF Shared
  <2>3. Cardinality(out) <= Len(Listing)
    BY <1>0, <1>2
  <2> DEFINE name == Name(d, Shared(raw, d), {e.name : e \in out})
  <2>4. /\ name \in Names /\ name[1] = Bay(d)
        /\ name[2] = 0 => ~Shared(raw, d)
        /\ Shared(raw, d) => \A e \in out : e.name # name
    BY <1>2, <2>2, <2>3, NameIsNew
  <2>5. Described(raw, k, new)
    <3>1. new.drive = d /\ new.name = name /\ new \in [drive : Drives, name : Names]
      BY <2>2, <2>4
    <3>2. k \in raw /\ k <= k
      BY <1>0, <1>5
    <3> HIDE DEF new, name
    <3>3. \E i \in raw : i <= k /\ new.drive = Listing[i][2]
      BY <3>1, <3>2
    <3> QED
      BY <2>2, <2>4, <3>1, <3>3 DEF Described
  <2>6. \A e \in out : e.name # name /\ e.drive # d
    <3> SUFFICES ASSUME NEW e \in out, e.name = name
                 PROVE  Shared(raw, d)
      BY <1>5, <2>4
    <3>1. Described(raw, k - 1, e)
      BY <1>2
    <3>2. PICK i \in raw : i <= k - 1 /\ e.drive = Listing[i][2]
      BY <3>1 DEF Described
    <3>3. Bay(e.drive) = Bay(d)
      BY <2>4, <3>1 DEF Described
    <3>4. i # k
      BY <1>5, <3>2
    <3> QED
      BY <1>5, <3>2, <3>3, <3>4 DEF Shared, Bay
  <2> HIDE DEF name, d
  <2>7. new.name = name /\ new.drive = d
    BY DEF name
  <2> HIDE DEF new, out
  <2>8. Unique(out \cup {new})
    BY <1>2, <2>6, <2>7 DEF Unique
  <2>9. /\ IsFiniteSet(out \cup {new}) /\ Cardinality(out \cup {new}) <= k
    <3>0. IsFiniteSet(out) /\ Cardinality(out) \in Nat
      BY <1>2
    <3>1. IsFiniteSet(out \cup {new})
          /\ Cardinality(out \cup {new}) <= Cardinality(out) + 1
      <4>1. /\ IsFiniteSet(out \cup {new})
            /\ Cardinality(out \cup {new}) =
                 IF new \in out THEN Cardinality(out) ELSE Cardinality(out) + 1
        BY <3>0, FS_AddElement
      <4> QED
        BY <3>0, <4>1
    <3>2. Cardinality(out \cup {new}) \in Nat
      BY <3>1, FS_CardinalityType
    <3> QED
      BY <1>0, <1>2, <3>1, <3>2
  <2>10. \A e \in out \cup {new} : Described(raw, k, e)
    BY <1>2, <1>3, <2>5
  <2> QED
    BY <2>1, <2>8, <2>9, <2>10 DEF Good
<1> QED
  BY <1>1, <1>4, <1>5 DEF After, Emit

\* So every reading tells its drives apart, by induction on its listings.
LEMMA KeptGood ==
  ASSUME NEW raw, raw \subseteq DOMAIN Listing, \A i \in raw : Disk[Listing[i][2]].size > 0
  PROVE  Good(raw, Len(Listing))
<1> DEFINE S == {m \in 0..Len(Listing) : ~Good(raw, m)}
<1>0. Len(Listing) \in Nat
  BY ListingType
<1>1. Good(raw, 0)
  <2>1. Kept(raw)[0] = {}
    BY KeptIs
  <2>2. IsFiniteSet({}) /\ Cardinality({}) = 0
    BY FS_EmptySet
  <2> QED
    BY <2>1, <2>2 DEF Good, Unique
<1>2. S = {}
  <2> SUFFICES ASSUME S # {} PROVE FALSE
    OBVIOUS
  <2>0. S \subseteq Nat
    BY <1>0
  <2>1. PICK m \in S : \A n \in S : m <= n
    BY <2>0, LeastExists
  <2>2. m \in 1..Len(Listing)
    BY <1>0, <1>1, <2>1
  <2>3. m - 1 \in 0..Len(Listing) /\ m - 1 \notin S
    BY <1>0, <2>1, <2>2
  <2> QED
    BY <2>1, <2>2, <2>3, EmitGood
<1> QED
  BY <1>0, <1>2

\* The entries of a reading, as the rest of the argument needs them.
Sound(row1) ==
  /\ \A e \in row1 : Entry(e) /\ e.name[1] = Bay(e.drive)
  /\ Unique(row1)

LEMMA InventorySound ==
  ASSUME NEW c, NEW l, NEW in
  PROVE  /\ Sound(Inventory(Raw(c, l, in)))
         /\ \A e \in Inventory(Raw(c, l, in)) : e = [name |-> e.name, drive |-> e.drive]
<1> DEFINE raw == Raw(c, l, in)
<1>1. raw \subseteq DOMAIN Listing /\ \A i \in raw : Disk[Listing[i][2]].size > 0
  BY DEF Raw, Present
<1>2. Good(raw, Len(Listing))
  BY <1>1, KeptGood
<1> HIDE DEF raw
<1>3. /\ Unique(Inventory(raw))
      /\ \A e \in Inventory(raw) : Described(raw, Len(Listing), e)
  BY <1>2 DEF Good, Inventory
<1>4. \A e \in Inventory(raw) : /\ e \in [drive : Drives, name : Names]
                                /\ Entry(e) /\ e.name[1] = Bay(e.drive)
  BY <1>3 DEF Described, Entry
<1> QED
  BY <1>3, <1>4 DEF Sound, raw

\* Whatever the walk loses, what it brings of the drives present is sound.
LEMMA ReadingSound ==
  ASSUME NEW in, in \subseteq Drives, Drives \ in \subseteq Swappable,
         NEW r \in Readings[in]
  PROVE  Sound(r)
<1>1. in = Drives \ (Drives \ in)
  OBVIOUS
<1>2. in \in {Drives \ out : out \in SUBSET Swappable}
  BY <1>1
<1>3. PICK c \in SUBSET Controllers, l \in SUBSET DOMAIN Listing : r = Inventory(Raw(c, l, in))
  BY <1>2 DEF Readings
<1> QED
  BY <1>3, InventorySound

-----------------------------------------------------------------------------
(* The first of some entries, and what a name or a strategy resolves to.   *)

Low(S, i) == {e \in S : \A f \in S : e.name[i] <= f.name[i]}

LEMMA LowExists ==
  ASSUME NEW S, S # {}, NEW i \in 1..4, \A e \in S : e.name \in Names
  PROVE  Low(S, i) # {} /\ Low(S, i) \subseteq S
<1> DEFINE N == {e.name[i] : e \in S}
<1>1. \A e \in S : e.name[i] \in Nat
  BY DEF Names
<1>2. N \subseteq Nat /\ N # {}
  BY <1>1
<1>3. PICK n \in N : \A m \in N : n <= m
  BY <1>2, LeastExists
<1>4. PICK e \in S : e.name[i] = n
  OBVIOUS
<1>5. \A f \in S : e.name[i] <= f.name[i]
  BY <1>3, <1>4
<1> QED
  BY <1>5 DEF Low

\* Names told apart have a first.
LEMMA FirstIn ==
  ASSUME NEW S, S # {}, Unique(S), \A e \in S : e.name \in Names
  PROVE  First(S) \in S
<1> DEFINE A == Low(S, 1)
           B == Low(A, 2)
           C == Low(B, 3)
           D == Low(C, 4)
<1>1. A # {} /\ A \subseteq S
  BY LowExists
<1>2. B # {} /\ B \subseteq A
  <2> HIDE DEF A
  <2> QED
    BY <1>1, LowExists
<1>3. C # {} /\ C \subseteq B
  <2> HIDE DEF A, B
  <2> QED
    BY <1>1, <1>2, LowExists
<1>4. D # {} /\ D \subseteq C
  <2> HIDE DEF A, B, C
  <2> QED
    BY <1>1, <1>2, <1>3, LowExists
<1>5. PICK e \in D : TRUE
  BY <1>4
<1>6. e \in S /\ e \in A /\ e \in B /\ e \in C
  BY <1>1, <1>2, <1>3, <1>4, <1>5
<1>7. ASSUME NEW f \in S \ {e}
      PROVE  Before(e, f)
  <2>1. \A i \in 1..4 : e.name[i] \in Nat /\ f.name[i] \in Nat
    BY <1>6 DEF Names
  <2>2. CASE f \notin A
    <3>1. PICK g \in S : ~(f.name[1] <= g.name[1])
      BY <2>2 DEF Low
    <3>2. e.name[1] <= g.name[1] /\ g.name[1] \in Nat
      BY <1>6 DEF Low, Names
    <3>3. e.name[1] < f.name[1]
      BY <2>1, <3>1, <3>2
    <3> QED
      BY <3>3 DEF Before
  <2>3. ASSUME NEW X, NEW i \in 2..4, X \subseteq S, f \in X, f \notin Low(X, i), e \in Low(X, i)
        PROVE  e.name[i] < f.name[i]
    <3>1. PICK g \in X : ~(f.name[i] <= g.name[i])
      BY <2>3 DEF Low
    <3>2. i \in 1..4 /\ g \in S
      BY <2>3
    <3>3. e.name[i] <= g.name[i] /\ g.name[i] \in Nat
      BY <2>3, <3>2 DEF Low, Names
    <3> QED
      BY <2>1, <3>1, <3>2, <3>3
  <2>4. ASSUME NEW X, NEW i \in 1..4, X \subseteq S, f \in Low(X, i), e \in Low(X, i)
        PROVE  e.name[i] = f.name[i]
    <3>1. e.name[i] <= f.name[i] /\ f.name[i] <= e.name[i]
      BY <2>4 DEF Low
    <3> QED
      BY <2>1, <3>1
  <2> HIDE DEF B, C, D
  <2>5. CASE f \in A /\ f \notin B
    <3>1. e.name[1] = f.name[1] /\ e.name[2] < f.name[2]
      BY <1>1, <1>6, <2>3, <2>4, <2>5 DEF B
    <3> QED
      BY <3>1 DEF Before
  <2> HIDE DEF A
  <2>6. CASE f \in B /\ f \notin C
    <3>1. f \in A
      BY <1>2, <2>6
    <3>2. e.name[1] = f.name[1]
      BY <1>6, <2>4, <3>1 DEF A
    <3>3. e.name[2] = f.name[2]
      BY <1>1, <1>6, <2>4, <2>6 DEF B
    <3>4. e.name[3] < f.name[3]
      BY <1>1, <1>2, <1>6, <2>3, <2>6 DEF C
    <3> QED
      BY <3>2, <3>3, <3>4 DEF Before
  <2>7. CASE f \in C
    <3>1. f \in A /\ f \in B
      BY <1>2, <1>3, <2>7
    <3>2. e.name[1] = f.name[1]
      BY <1>6, <2>4, <3>1 DEF A
    <3>3. e.name[2] = f.name[2]
      BY <1>1, <1>6, <2>4, <3>1 DEF B
    <3>4. e.name[3] = f.name[3]
      BY <1>1, <1>2, <1>6, <2>4, <2>7 DEF C
    <3>5. f \notin D
      <4> SUFFICES ASSUME f \in D PROVE FALSE
        OBVIOUS
      <4>1. e.name[4] = f.name[4]
        BY <1>1, <1>2, <1>3, <1>5, <2>4 DEF D
      <4>2. e.name \in Names /\ f.name \in Names
        BY <1>6
      <4>3. e.name = f.name
        BY <3>2, <3>3, <3>4, <4>1, <4>2 DEF Names
      <4> QED
        BY <1>6, <4>3 DEF Unique
    <3>6. e.name[4] < f.name[4]
      BY <1>1, <1>2, <1>3, <1>5, <2>3, <2>7, <3>5 DEF D
    <3> QED
      BY <3>2, <3>3, <3>4, <3>6 DEF Before
  <2> QED
    BY <2>2, <2>5, <2>6, <2>7
<1> QED
  BY <1>6, <1>7 DEF First

\* A strategy takes an entry of the inventory, or none.
LEMMA ResolveTakes ==
  ASSUME NEW s, NEW inv, Sound(inv)
  PROVE  \/ Resolve(s, inv) = Unmatched
         \/ \E e \in inv, st \in Runnable : Resolve(s, inv) = As(st, e)
<1> DEFINE Size(e) == Disk[e.drive].size
           strict == {e \in inv : Fits(s, e.drive)}
           cands == IF s.kind = "first_m2" /\ strict = {}
                    THEN {e \in inv : M2Like(e.drive)} ELSE strict
           best == CASE s.kind \in {"smallest_ssd", "smallest_disk"} ->
                           {e \in cands : \A f \in cands : Size(e) <= Size(f)}
                     [] s.kind = "largest_disk" ->
                           {e \in cands : \A f \in cands : Size(e) >= Size(f)}
                     [] OTHER -> cands
           several == s.kind \in {"by_size", "by_model"} /\ Cardinality(cands) > 1
<1>1. Resolve(s, inv) = IF best = {} THEN Unmatched
                        ELSE As(IF several THEN "ambiguous" ELSE "matched", First(best))
  BY DEF Resolve
<1>2. cands \subseteq inv
  OBVIOUS
<1> HIDE DEF cands
<1>3. best \subseteq inv
  BY <1>2
<1> HIDE DEF best, several
<1>4. best # {} => First(best) \in best
  BY <1>3, FirstIn DEF Sound, Entry, Unique
<1> QED
  BY <1>1, <1>3, <1>4 DEF Runnable

\* So does a start; a pick is taken by its name or not at all.
LEMMA ResolveForTakes ==
  ASSUME NEW s, NEW inv, Sound(inv), NEW name
  PROVE  \/ ResolveFor(name, s, inv) \in {Unmatched, As("requires_override", NoPick)}
         \/ \E e \in inv, st \in Runnable :
              ResolveFor(name, s, inv) = As(st, e) /\ (name # None => e.name = name)
<1> DEFINE named == {e \in inv : e.name = name}
<1>1. CASE named # {}
  <2>1. First(named) \in named
    <3>1. Unique(named) /\ \A e \in named : e.name \in Names
      BY DEF Sound, Entry, Unique
    <3> HIDE DEF named
    <3> QED
      BY <1>1, <3>1, FirstIn
  <2>2. ResolveFor(name, s, inv) = As("override", First(named))
    BY <1>1 DEF ResolveFor
  <2> QED
    BY <2>1, <2>2 DEF Runnable
<1>2. CASE named = {} /\ (name # None \/ inv = {})
  BY <1>2 DEF ResolveFor
<1>3. CASE named = {} /\ name = None /\ inv # {}
  BY <1>3, ResolveTakes DEF ResolveFor
<1> QED
  BY <1>1, <1>2, <1>3

-----------------------------------------------------------------------------
(* The inductive invariant.                                                *)

PlaceOK == present \subseteq Drives /\ Drives \ present \subseteq Swappable

PickOK == pick # NoPick => Entry(pick) /\ pick.name[1] = Bay(pick.drive)

\* What was resolved is what the task says; with a pick, it is of the pick's bay.
ResOK ==
  /\ job.res.status \in Runnable \cup {"unmatched", "requires_override"}
  /\ job.res.status \in Runnable =>
       /\ Entry(job.res)
       /\ job.meant # None => job.meant \in Drives /\ Bay(job.res.drive) = Bay(job.meant)

\* Rendered answers name the drive by serial number when there is one.
RenderedOK ==
  job.pc \in {"rendered", "wiped"} =>
    /\ job.res.status \in Runnable
    /\ job.by \in {"serial", "device"}
    /\ job.by = DiskSnippets(job.res)

WipedOK == job.pc = "wiped" /\ job.by = "serial" => job.wiped = job.res.drive

IInv ==
  /\ PlaceOK /\ Sound(row) /\ PickOK
  /\ job.pc \in {"idle", "resolved", "rendered", "wiped"}
  /\ ResOK /\ RenderedOK /\ WipedOK

JobOK ==
  /\ job.pc \in {"idle", "resolved", "rendered", "wiped"}
  /\ ResOK /\ RenderedOK /\ WipedOK

LEMMA IdleOK ==
  ASSUME job = Idle
  PROVE  JobOK
<1>1. job.pc = "idle" /\ job.res.status = "unmatched"
  BY DEF Idle, Unmatched, As
<1>2. "unmatched" \notin Runnable
  BY DEF Runnable
<1> QED
  BY <1>1, <1>2 DEF JobOK, ResOK, RenderedOK, WipedOK

\* The drive a serial number finds is the one it was read from.
LEMMA SerialIsItsDrive ==
  ASSUME NEW e \in Drives, NEW d \in Drives, Disk[e].serial # 0, Disk[d].serial = Disk[e].serial
  PROVE  d = e
BY DiskAssumption

LEMMA InitInv == Init => IInv
<1> SUFFICES ASSUME Init PROVE IInv
  OBVIOUS
<1>1. PlaceOK /\ PickOK
  BY DEF Init, PlaceOK, PickOK
<1>2. Sound(row)
  BY DEF Init, Sound, Unique
<1> QED
  BY <1>1, <1>2, IdleOK DEF Init, IInv, JobOK

LEMMA NextInv == IInv /\ [Next]_vars => IInv'
<1> SUFFICES ASSUME IInv, [Next]_vars PROVE IInv'
  OBVIOUS
<1> USE DEF IInv
<1>0. JobOK
  BY DEF JobOK
<1>a. (job' = Idle) => JobOK'
  <2> SUFFICES ASSUME job' = Idle PROVE JobOK'
    OBVIOUS
  <2>1. job'.pc = "idle" /\ job'.res.status = "unmatched"
    BY DEF Idle, Unmatched, As
  <2>2. "unmatched" \notin Runnable
    BY DEF Runnable
  <2> QED
    BY <2>1, <2>2 DEF JobOK, ResOK, RenderedOK, WipedOK
<1>b. UNCHANGED job => JobOK'
  BY <1>0 DEF JobOK, ResOK, RenderedOK, WipedOK, DiskSnippets, SerialOf, Entry, Bay
<1>1. CASE RefreshDisks
  <2>1. Sound(row')
    BY <1>1, ReadingSound DEF RefreshDisks, PlaceOK
  <2> QED
    BY <1>1, <1>b, <2>1 DEF RefreshDisks, PlaceOK, PickOK, JobOK, Sound, Entry, Unique
<1>2. CASE ScanDisks
  <2>1. Sound(row')
    BY <1>2, ReadingSound DEF ScanDisks, PlaceOK
  <2> QED
    BY <1>2, <1>b, <2>1 DEF ScanDisks, PlaceOK, PickOK, JobOK, Sound, Entry, Unique
<1>3. CASE PickDrive
  <2>1. PickOK'
    <3>1. PICK e \in row \cup {NoPick} : pick' = [name |-> e.name, drive |-> e.drive]
      BY <1>3 DEF PickDrive
    <3>2. CASE e = NoPick
      BY <3>1, <3>2 DEF PickOK, NoPick
    <3>3. CASE e \in row
      BY <3>1, <3>3 DEF PickOK, Sound, Entry, Bay
    <3> QED
      BY <3>1, <3>2, <3>3
  <2> QED
    BY <1>3, <1>b, <2>1 DEF PickDrive, PlaceOK, JobOK, Sound, Entry, Unique
<1>4. CASE Swap
  <2>1. PlaceOK'
    <3>1. Swappable \subseteq Drives
      BY DiskAssumption
    <3> QED
      BY <1>4, <3>1 DEF Swap, PlaceOK
  <2> QED
    BY <1>4, <1>b, <2>1 DEF Swap, PickOK, JobOK, Sound, Entry, Unique
<1>5. ASSUME NEW s \in Strategies, Start(s)
      PROVE  IInv'
  <2> DEFINE r == ResolveFor(pick.name, s, row)
  <2>1. job' = [pc |-> "resolved", meant |-> pick.drive, res |-> r, by |-> "none", wiped |-> None]
    BY <1>5 DEF Start, Idle
  <2>2. \/ r \in {Unmatched, As("requires_override", NoPick)}
        \/ \E e \in row, st \in Runnable : r = As(st, e) /\ (pick.name # None => e.name = pick.name)
    BY ResolveForTakes
  <2> HIDE DEF r
  <2>3. job'.pc = "resolved" /\ job'.meant = pick.drive /\ job'.res = r
    BY <2>1
  <2>4. ResOK'
    <3>1. CASE r \in {Unmatched, As("requires_override", NoPick)}
      <4>1. r.status \in {"unmatched", "requires_override"}
        BY <3>1 DEF Unmatched, As
      <4> QED
        BY <2>3, <4>1 DEF ResOK, Runnable
    <3>2. ASSUME NEW e \in row, NEW st \in Runnable, r = As(st, e),
                 pick.name # None => e.name = pick.name
          PROVE  ResOK'
      <4>1. r.status = st /\ r.name = e.name /\ r.drive = e.drive
        BY <3>2 DEF As
      <4>2. Entry(r) /\ Bay(r.drive) = r.name[1]
        BY <3>2, <4>1 DEF Sound, Entry
      <4>3. pick.drive # None => pick.drive \in Drives /\ Bay(pick.drive) = r.name[1]
        BY <3>2, <4>1, DiskAssumption DEF PickOK, NoPick, Entry
      <4> QED
        BY <2>3, <4>1, <4>2, <4>3 DEF ResOK, Entry, Bay
    <3> QED
      BY <2>2, <3>1, <3>2
  <2>5. RenderedOK' /\ WipedOK'
    BY <2>3 DEF RenderedOK, WipedOK
  <2> QED
    BY <1>5, <2>3, <2>4, <2>5 DEF Start, PlaceOK, PickOK, Sound, Entry, Unique
<1>6. CASE RenderAnswers
  <2>1. CASE job' = Idle
    BY <1>6, <1>a, <2>1 DEF RenderAnswers, JobOK, PlaceOK, PickOK, Sound, Entry, Unique
  <2>2. CASE job' # Idle
    <3>1. /\ job.res.status \in Runnable /\ DiskSnippets(job.res) # "refused"
          /\ job' = [job EXCEPT !.pc = "rendered", !.by = DiskSnippets(job.res)]
      BY <1>6, <2>2 DEF RenderAnswers
    <3>2. DiskSnippets(job.res) \in {"serial", "device"}
      BY <3>1 DEF DiskSnippets
    <3>3. /\ job'.pc = "rendered" /\ job'.by = DiskSnippets(job.res) /\ job'.res = job.res
          /\ job'.meant = job.meant
      BY <3>1
    <3> QED
      BY <1>6, <3>1, <3>2, <3>3 DEF RenderAnswers, ResOK, RenderedOK, WipedOK, DiskSnippets,
        SerialOf, Entry, Bay, PlaceOK, PickOK, Sound, Unique
  <2> QED
    BY <2>1, <2>2
<1>7. CASE Install
  <2>1. CASE job' = Idle
    BY <1>7, <1>a, <2>1 DEF Install, JobOK, PlaceOK, PickOK, Sound, Entry, Unique
  <2>2. CASE job' # Idle
    <3>1. /\ Found # {} /\ job.pc = "rendered"
          /\ job' = [job EXCEPT !.pc = "wiped", !.wiped = CHOOSE d \in Found : TRUE]
      BY <1>7, <2>2 DEF Install
    <3>2. /\ job'.pc = "wiped" /\ job'.by = job.by /\ job'.res = job.res
          /\ job'.meant = job.meant /\ job'.wiped \in Found
      BY <3>1
    <3>3. RenderedOK' /\ ResOK'
      BY <3>1, <3>2 DEF RenderedOK, ResOK, DiskSnippets, SerialOf, Entry, Bay
    <3>4. WipedOK'
      <4> SUFFICES ASSUME job.by = "serial" PROVE job'.wiped = job.res.drive
        BY <3>2 DEF WipedOK
      <4>1. SerialOf(job.res) # 0 /\ Entry(job.res)
        BY <3>1 DEF RenderedOK, ResOK, DiskSnippets
      <4>2. job'.wiped \in present /\ Disk[job'.wiped].serial = SerialOf(job.res)
        BY <3>2 DEF Found
      <4>3. SerialOf(job.res) = Disk[job.res.drive].serial /\ job.res.drive \in Drives
        BY <4>1, DiskAssumption DEF SerialOf, Entry
      <4> QED
        BY <4>1, <4>2, <4>3, SerialIsItsDrive DEF PlaceOK
    <3> QED
      BY <1>7, <3>2, <3>3, <3>4 DEF Install, PlaceOK, PickOK, Sound, Entry, Unique
  <2> QED
    BY <2>1, <2>2
<1>8. CASE JobEnds
  BY <1>8, <1>a DEF JobEnds, JobOK, PlaceOK, PickOK, Sound, Entry, Unique
<1>9. CASE UNCHANGED vars
  BY <1>9, <1>b DEF vars, JobOK, PlaceOK, PickOK, Sound, Entry, Unique
<1> QED
  BY <1>1, <1>2, <1>3, <1>4, <1>5, <1>6, <1>7, <1>8, <1>9 DEF Next

LEMMA Invariant == Spec => []IInv
BY InitInv, NextInv, PTL DEF Spec

-----------------------------------------------------------------------------
(* The theorems.                                                           *)

\* Types, for any machine: a bay without a drive is never in an inventory, never
\* picked and never resolved (get_storage_inventory's capacity filter).
THEOREM TypeCorrect == Spec => []TypeOK
<1>1. IInv => TypeOK
  BY DEF IInv, TypeOK, PlaceOK, PickOK, ResOK, Sound
<1> QED
  BY <1>1, Invariant, PTL

\* _disambiguate's promise, for any listing the walk may lose or repeat parts of:
\* no name of an inventory stands for two drives, no drive has two names.
THEOREM NamesTellApart == Spec => []NamesAreUnique
<1>1. IInv => NamesAreUnique
  BY DEF IInv, NamesAreUnique, Sound, Unique
<1> QED
  BY <1>1, Invariant, PTL

\* A picked drive whose bay number is its own is wiped, or nothing is, whatever
\* start_job's second resolution found in the row by then.
THEOREM LoneBayIsKept == Spec => []LoneBayIsExact
<1>1. IInv => LoneBayIsExact
  <2> SUFFICES ASSUME IInv, job.pc = "wiped", job.meant # None, Alone(job.meant),
                      SerialOf(job.res) # 0
               PROVE  job.wiped = job.meant
    BY DEF LoneBayIsExact
  <2>1. /\ job.meant \in Drives /\ job.res.drive \in Drives
        /\ Bay(job.res.drive) = Bay(job.meant)
    BY DEF IInv, RenderedOK, ResOK, Entry
  <2>2. job.res.drive = job.meant
    BY <2>1 DEF Alone, Bay
  <2>3. job.by = "serial"
    BY DEF IInv, RenderedOK, DiskSnippets
  <2> QED
    BY <2>2, <2>3 DEF IInv, WipedOK
<1> QED
  BY <1>1, Invariant, PTL

\* _disk_snippets keeps the installer to the resolved drive: by its serial number,
\* and a drive without one only under a genuine device name.
THEOREM InstallerIsExact == Spec => []InstallerHitsResolved
<1>1. IInv => InstallerHitsResolved
  <2> SUFFICES ASSUME IInv, job.pc = "wiped"
               PROVE  IF SerialOf(job.res) # 0 THEN job.wiped = job.res.drive
                      ELSE IsHandle(job.res.name)
    BY DEF InstallerHitsResolved
  <2>1. job.by = DiskSnippets(job.res) /\ job.by # "refused"
    BY DEF IInv, RenderedOK
  <2>2. CASE SerialOf(job.res) # 0
    BY <2>1, <2>2 DEF IInv, WipedOK, DiskSnippets
  <2>3. CASE SerialOf(job.res) = 0
    BY <2>1, <2>3 DEF DiskSnippets
  <2> QED
    BY <2>2, <2>3
<1> QED
  BY <1>1, Invariant, PTL
=============================================================================
