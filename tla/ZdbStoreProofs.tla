--------------------------- MODULE ZdbStoreProofs ---------------------------
(***************************************************************************)
(* Proofs about ZdbStore: its types, that what was written is found again  *)
(* (Durable) and that the newest version of a record can be read           *)
(* (Readable), for any number of records, files, writes and crashes.       *)
(***************************************************************************)
EXTENDS ZdbStore, SequenceTheorems, WellFoundedInduction, TLAPS

-----------------------------------------------------------------------------
(* Numbers *)

LEMMA LeastExists ==
  ASSUME NEW S \in SUBSET Nat, S # {}
  PROVE  \E m \in S : \A n \in S : m <= n
<1>1. PICK m \in S : \A n \in S : ~(<<n, m>> \in OpToRel(<, Nat))
  BY NatLessThanWellFounded, WFMin, Zenon
<1>2. \A n \in S : ~(n < m)
  BY <1>1 DEF OpToRel
<1> QED
  BY <1>2

LEMMA GreatestExists ==
  ASSUME NEW S \in SUBSET Nat, S # {}, NEW b \in Nat, \A n \in S : n <= b
  PROVE  \E m \in S : \A n \in S : n <= m
<1> DEFINE T == {n \in Nat : \A s \in S : s <= n}
<1>1. b \in T
  OBVIOUS
<1>2. PICK m \in T : \A n \in T : m <= n
  BY <1>1, LeastExists
<1>3. CASE m \in S
  BY <1>2, <1>3
<1>4. CASE m \notin S
  <2>1. \A s \in S : s <= m /\ s # m
    BY <1>2, <1>4
  <2>2. m > 0
    <3>1. PICK s \in S : s <= m /\ s # m
      BY <2>1
    <3> QED
      BY <3>1
  <2>3. m - 1 \in Nat /\ \A s \in S : s <= m - 1
    BY <2>1, <2>2
  <2>4. m <= m - 1
    BY <1>2, <2>3
  <2> QED
    BY <2>4, <2>2
<1> QED
  BY <1>3, <1>4

LEMMA MaxIs ==
  ASSUME NEW S \in SUBSET Nat, S # {}, NEW b \in Nat, \A n \in S : n <= b
  PROVE  Max(S) \in S /\ \A n \in S : n <= Max(S)
<1>1. \E m \in S : \A n \in S : m >= n
  BY GreatestExists
<1>2. Max(S) \in S /\ \A n \in S : Max(S) >= n
  BY <1>1 DEF Max
<1> QED
  BY <1>2

LEMMA MinIs ==
  ASSUME NEW S \in SUBSET Nat, S # {}
  PROVE  Min(S) \in S /\ \A n \in S : Min(S) <= n
<1>1. \E m \in S : \A n \in S : m <= n
  BY LeastExists
<1> QED
  BY <1>1 DEF Min

LEMMA MaxOfTwo ==
  ASSUME NEW a \in Nat, NEW b \in Nat
  PROVE  Max({a, b}) = IF a >= b THEN a ELSE b
<1>1. \E m \in {a, b} : \A n \in {a, b} : m >= n
  OBVIOUS
<1>2. Max({a, b}) \in {a, b} /\ \A n \in {a, b} : Max({a, b}) >= n
  BY <1>1 DEF Max
<1> QED
  BY <1>2

LEMMA MinOfTwo ==
  ASSUME NEW a \in Nat, NEW b \in Nat
  PROVE  Min({a, b}) = IF a <= b THEN a ELSE b
<1>1. \E m \in {a, b} : \A n \in {a, b} : m <= n
  OBVIOUS
<1>2. Min({a, b}) \in {a, b} /\ \A n \in {a, b} : Min({a, b}) <= n
  BY <1>1 DEF Min
<1> QED
  BY <1>2

LEMMA FileSlot ==
  ASSUME NEW n \in Nat
  PROVE  FileOf(n) \in Nat /\ SlotOf(n) \in Slot /\ n = FileOf(n) * FileRecs + SlotOf(n)
BY StoreAssumption DEF FileOf, SlotOf, Slot

LEMMA SlotFile ==
  ASSUME NEW i \in Nat, NEW s \in Slot
  PROVE  i * FileRecs + s \in Nat /\ FileOf(i * FileRecs + s) = i /\ SlotOf(i * FileRecs + s) = s
BY StoreAssumption DEF FileOf, SlotOf, Slot

LEMMA FileOrder ==
  ASSUME NEW m \in Nat, NEW n \in Nat, m <= n
  PROVE  FileOf(m) <= FileOf(n)
BY StoreAssumption DEF FileOf, SlotOf, Slot

-----------------------------------------------------------------------------
(* Sequences *)

LEMMA RemoveAtProperties ==
  ASSUME NEW S, NEW s \in Seq(S), NEW i \in 1..Len(s)
  PROVE  /\ RemoveAt(s, i) \in Seq(S)
         /\ Len(RemoveAt(s, i)) = Len(s) - 1
         /\ \A j \in 1..Len(s) - 1 : RemoveAt(s, i)[j] = IF j < i THEN s[j] ELSE s[j + 1]
<1> DEFINE b == SubSeq(s, 1, i - 1)
           a == SubSeq(s, i + 1, Len(s))
<1>0. Len(s) \in Nat
  OBVIOUS
<1>1. b \in Seq(S) /\ Len(b) = i - 1 /\ \A j \in 1..i - 1 : b[j] = s[j]
  BY <1>0, SubSeqProperties
<1>2. a \in Seq(S) /\ Len(a) = Len(s) - i /\ \A j \in 1..Len(s) - i : a[j] = s[i + j]
  <2>1. a \in Seq(S) /\ Len(a) = IF i + 1 <= Len(s) + 1 THEN Len(s) + 1 - (i + 1) ELSE 0
    BY <1>0, SubSeqProperties
  <2>2. \A j \in 1..Len(s) + 1 - (i + 1) : a[j] = s[(i + 1) + j - 1]
    BY <1>0, SubSeqProperties
  <2> QED
    BY <1>0, <2>1, <2>2
<1> HIDE DEF a, b
<1>3. b \o a \in Seq(S) /\ Len(b \o a) = Len(b) + Len(a)
  BY <1>1, <1>2, ConcatProperties
<1>4. \A j \in 1..Len(s) - 1 : (b \o a)[j] = IF j <= Len(b) THEN b[j] ELSE a[j - Len(b)]
  BY <1>0, <1>1, <1>2, ConcatProperties
<1>5. ASSUME NEW j \in 1..Len(s) - 1
      PROVE  (b \o a)[j] = IF j < i THEN s[j] ELSE s[j + 1]
  <2>1. CASE j < i
    BY <1>0, <1>1, <1>4, <2>1
  <2>2. CASE ~(j < i)
    <3>1. j - (i - 1) \in 1..Len(s) - i /\ i + (j - (i - 1)) = j + 1
      BY <1>0, <2>2
    <3> QED
      BY <1>0, <1>1, <1>2, <1>4, <2>2, <3>1
  <2> QED
    BY <2>1, <2>2
<1>6. Len(b \o a) = Len(s) - 1
  BY <1>0, <1>1, <1>2, <1>3
<1>7. b \o a = RemoveAt(s, i)
  BY DEF RemoveAt, a, b
<1> QED
  BY <1>3, <1>5, <1>6, <1>7

\* Removing the first occurrence of an element.
LEMMA RemoveFirstIs ==
  ASSUME NEW S, NEW s \in Seq(S), NEW x
  PROVE  /\ RemoveFirst(s, x) \in Seq(S)
         /\ ToSet(RemoveFirst(s, x)) \subseteq ToSet(s)
         /\ \A y \in ToSet(s) : y # x => y \in ToSet(RemoveFirst(s, x))
         /\ IsInjective(s) => IsInjective(RemoveFirst(s, x)) /\ x \notin ToSet(RemoveFirst(s, x))
<1>0. Len(s) \in Nat /\ DOMAIN s = 1..Len(s)
  OBVIOUS
<1>1. CASE ~\E i \in 1..Len(s) : s[i] = x
  <2>1. RemoveFirst(s, x) = s
    BY <1>1 DEF RemoveFirst
  <2> QED
    BY <1>0, <1>1, <2>1 DEF ToSet
<1>2. CASE \E i \in 1..Len(s) : s[i] = x
  <2> DEFINE I == {i \in 1..Len(s) : s[i] = x}
  <2>1. RemoveFirst(s, x) = RemoveAt(s, Min(I))
    BY <1>2 DEF RemoveFirst, SelectInSeq
  <2>2. PICK k \in 1..Len(s) : k = Min(I) /\ s[k] = x
    <3>1. I \subseteq Nat /\ I # {}
      BY <1>0, <1>2
    <3>2. Min(I) \in I
      BY <3>1, MinIs
    <3> QED
      BY <3>2
  <2> DEFINE r == RemoveAt(s, k)
  <2>3. /\ r \in Seq(S) /\ Len(r) = Len(s) - 1
        /\ \A j \in 1..Len(s) - 1 : r[j] = IF j < k THEN s[j] ELSE s[j + 1]
    BY RemoveAtProperties
  <2>4. r = RemoveFirst(s, x)
    BY <2>1, <2>2
  <2> HIDE DEF r
  <2>5. DOMAIN r = 1..Len(s) - 1
    BY <2>3
  <2>6. \A j \in 1..Len(s) - 1 : \E i \in 1..Len(s) : i # k /\ r[j] = s[i] /\ i = IF j < k THEN j ELSE j + 1
    <3> SUFFICES ASSUME NEW j \in 1..Len(s) - 1
                 PROVE  \E i \in 1..Len(s) : i # k /\ r[j] = s[i] /\ i = IF j < k THEN j ELSE j + 1
      OBVIOUS
    <3> DEFINE i == IF j < k THEN j ELSE j + 1
    <3>1. i \in 1..Len(s) /\ i # k
      BY <1>0, <2>2
    <3>2. r[j] = s[i]
      BY <2>3
    <3> QED
      BY <3>1, <3>2
  <2>7. \A i \in 1..Len(s) : i # k => \E j \in 1..Len(s) - 1 : r[j] = s[i]
    <3> SUFFICES ASSUME NEW i \in 1..Len(s), i # k
                 PROVE  \E j \in 1..Len(s) - 1 : r[j] = s[i]
      OBVIOUS
    <3>1. CASE i < k
      <4>1. i \in 1..Len(s) - 1
        BY <1>0, <2>2, <3>1
      <4> QED
        BY <2>3, <3>1, <4>1
    <3>2. CASE i > k
      <4>1. i - 1 \in 1..Len(s) - 1 /\ ~(i - 1 < k) /\ (i - 1) + 1 = i
        BY <1>0, <2>2, <3>2
      <4> QED
        BY <2>3, <4>1
    <3> QED
      BY <1>0, <2>2, <3>1, <3>2
  <2>8. ToSet(r) \subseteq ToSet(s)
    BY <1>0, <2>5, <2>6 DEF ToSet
  <2>9. \A y \in ToSet(s) : y # x => y \in ToSet(r)
    BY <1>0, <2>2, <2>5, <2>7 DEF ToSet
  <2>10. ASSUME IsInjective(s)
         PROVE  IsInjective(r) /\ x \notin ToSet(r)
    <3>1. \A i, j \in 1..Len(s) : s[i] = s[j] => i = j
      BY <1>0, <2>10 DEF IsInjective
    <3>2. ASSUME NEW a \in 1..Len(s) - 1, NEW b \in 1..Len(s) - 1, r[a] = r[b]
          PROVE  a = b
      <4>1. PICK i \in 1..Len(s) : r[a] = s[i] /\ i = IF a < k THEN a ELSE a + 1
        BY <2>6
      <4>2. PICK j \in 1..Len(s) : r[b] = s[j] /\ j = IF b < k THEN b ELSE b + 1
        BY <2>6
      <4>3. i = j
        BY <3>1, <3>2, <4>1, <4>2
      <4> QED
        BY <1>0, <2>2, <4>1, <4>2, <4>3
    <3>3. x \notin ToSet(r)
      BY <2>2, <2>5, <2>6, <3>1 DEF ToSet
    <3> QED
      BY <2>5, <3>2, <3>3 DEF IsInjective
  <2> QED
    BY <2>3, <2>4, <2>8, <2>9, <2>10
<1> QED
  BY <1>1, <1>2

LEMMA AppendIs ==
  ASSUME NEW S, NEW s \in Seq(S), NEW x \in S
  PROVE  /\ Append(s, x) \in Seq(S)
         /\ ToSet(Append(s, x)) = ToSet(s) \cup {x}
         /\ IsInjective(s) /\ x \notin ToSet(s) => IsInjective(Append(s, x))
<1>1. /\ Append(s, x) \in Seq(S) /\ Len(Append(s, x)) = Len(s) + 1
      /\ \A i \in 1..Len(s) : Append(s, x)[i] = s[i]
      /\ Append(s, x)[Len(s) + 1] = x
  BY AppendProperties
<1>2. Len(s) \in Nat /\ DOMAIN s = 1..Len(s)
  OBVIOUS
<1> DEFINE r == Append(s, x)
<1> HIDE DEF r
<1>3. DOMAIN r = 1..Len(s) + 1 /\ (\A i \in 1..Len(s) : r[i] = s[i]) /\ r[Len(s) + 1] = x
  BY <1>1 DEF r
<1>4. ToSet(r) = ToSet(s) \cup {x}
  <2>1. \A i \in DOMAIN r : i = Len(s) + 1 \/ i \in DOMAIN s
    BY <1>2, <1>3
  <2>2. Len(s) + 1 \in DOMAIN r /\ DOMAIN s \subseteq DOMAIN r
    BY <1>2, <1>3
  <2> QED
    BY <1>2, <1>3, <2>1, <2>2 DEF ToSet
<1>5. IsInjective(s) /\ x \notin ToSet(s) => IsInjective(r)
  <2> SUFFICES ASSUME IsInjective(s), x \notin ToSet(s), NEW a \in DOMAIN r, NEW b \in DOMAIN r, r[a] = r[b]
               PROVE  a = b
    BY DEF IsInjective
  <2>1. /\ a = Len(s) + 1 \/ a \in DOMAIN s
        /\ b = Len(s) + 1 \/ b \in DOMAIN s
    BY <1>2, <1>3
  <2>2. \A i \in DOMAIN s : s[i] # x
    BY DEF ToSet
  <2> QED
    BY <1>2, <1>3, <2>1, <2>2 DEF IsInjective
<1> QED
  BY <1>1, <1>4, <1>5 DEF r

LEMMA InsertAtIs ==
  ASSUME NEW S, NEW s \in Seq(S), NEW x \in S, NEW i \in 1..Len(s) + 1
  PROVE  LET r == InsertAt(s, i, x) IN
         /\ r \in Seq(S) /\ DOMAIN r = 1..Len(s) + 1 /\ r[i] = x
         /\ \A j \in 1..i - 1 : r[j] = s[j]
         /\ \A j \in i..Len(s) : r[j + 1] = s[j]
         /\ ToSet(r) = ToSet(s) \cup {x}
<1> DEFINE a == SubSeq(s, 1, i - 1)
           b == SubSeq(s, i, Len(s))
           c == a \o <<x>>
           r == c \o b
<1>0. Len(s) \in Nat /\ DOMAIN s = 1..Len(s) /\ i \in Nat /\ i >= 1 /\ \A j \in 1..Len(s) : s[j] \in S
  OBVIOUS
<1>1. /\ a \in Seq(S) /\ Len(a) = i - 1
      /\ \A j \in 1..i - 1 : a[j] = s[j]
  <2>1. \A j \in 1..i - 1 : j \in 1..Len(s)
    BY <1>0
  <2>2. /\ a \in Seq(S) /\ Len(a) = IF 1 <= i - 1 THEN i - 1 - 1 + 1 ELSE 0
        /\ \A j \in 1..i - 1 - 1 + 1 : a[j] = s[1 + j - 1]
    BY <1>0, <2>1, SubSeqProperties
  <2> HIDE DEF a
  <2> QED
    BY <1>0, <2>2
<1>2. /\ b \in Seq(S) /\ Len(b) = Len(s) - i + 1
      /\ \A j \in 1..Len(s) - i + 1 : b[j] = s[i + j - 1]
  <2>1. \A j \in i..Len(s) : j \in 1..Len(s)
    BY <1>0
  <2>2. /\ b \in Seq(S) /\ Len(b) = IF i <= Len(s) THEN Len(s) - i + 1 ELSE 0
        /\ \A j \in 1..Len(s) - i + 1 : b[j] = s[i + j - 1]
    BY <1>0, <2>1, SubSeqProperties
  <2> HIDE DEF b
  <2> QED
    BY <1>0, <2>2
<1> HIDE DEF a, b
<1>3. <<x>> \in Seq(S) /\ Len(<<x>>) = 1 /\ <<x>>[1] = x
  OBVIOUS
<1>4. /\ c \in Seq(S) /\ Len(c) = i /\ c[i] = x
      /\ \A j \in 1..i - 1 : c[j] = s[j]
  <2>1. /\ c \in Seq(S) /\ Len(c) = Len(a) + 1
        /\ \A j \in 1..Len(a) + 1 : c[j] = IF j <= Len(a) THEN a[j] ELSE <<x>>[j - Len(a)]
    BY <1>1, <1>3, ConcatProperties
  <2> HIDE DEF c
  <2> QED
    BY <1>0, <1>1, <1>3, <2>1
<1> HIDE DEF c
<1>5. /\ r \in Seq(S) /\ Len(r) = Len(s) + 1 /\ r[i] = x
      /\ \A j \in 1..i - 1 : r[j] = s[j]
      /\ \A j \in i..Len(s) : r[j + 1] = s[j]
  <2>1. /\ r \in Seq(S) /\ Len(r) = Len(c) + Len(b)
        /\ \A j \in 1..Len(c) + Len(b) : r[j] = IF j <= Len(c) THEN c[j] ELSE b[j - Len(c)]
    BY <1>2, <1>4, ConcatProperties
  <2> HIDE DEF r
  <2>2. Len(r) = Len(s) + 1 /\ r[i] = x /\ \A j \in 1..i - 1 : r[j] = s[j]
    BY <1>0, <1>2, <1>4, <2>1
  <2>3. ASSUME NEW j \in i..Len(s)
        PROVE  r[j + 1] = s[j]
    <3> DEFINE k == j + 1 - i
    <3>1. j + 1 \in 1..Len(c) + Len(b) /\ ~(j + 1 <= Len(c)) /\ j + 1 - Len(c) = k
      BY <1>0, <1>2, <1>4
    <3>2. k \in 1..Len(s) - i + 1 /\ i + k - 1 = j
      BY <1>0
    <3> HIDE DEF k
    <3>3. r[j + 1] = b[k]
      BY <2>1, <3>1
    <3>4. b[k] = s[j]
      BY <1>2, <3>2
    <3> QED
      BY <3>3, <3>4
  <2> QED
    BY <2>1, <2>2, <2>3
<1>6. InsertAt(s, i, x) = r
  BY DEF InsertAt, a, b, c
<1> HIDE DEF r
<1>7. DOMAIN r = 1..Len(s) + 1
  BY <1>5
<1>8. ToSet(r) = ToSet(s) \cup {x}
  <2>1. \A j \in DOMAIN r : r[j] \in ToSet(s) \cup {x}
    <3> SUFFICES ASSUME NEW j \in DOMAIN r, j # i
                 PROVE  r[j] \in ToSet(s)
      BY <1>5
    <3>1. CASE j < i
      <4>1. j \in 1..i - 1 /\ j \in DOMAIN s
        BY <1>0, <1>7, <3>1
      <4> QED
        BY <1>5, <4>1 DEF ToSet
    <3>2. CASE j > i
      <4>1. j - 1 \in i..Len(s) /\ j - 1 \in DOMAIN s /\ (j - 1) + 1 = j
        BY <1>0, <1>7, <3>2
      <4> QED
        BY <1>5, <4>1 DEF ToSet
    <3> QED
      BY <1>0, <1>7, <3>1, <3>2
  <2>2. \A j \in DOMAIN s : s[j] \in ToSet(r)
    <3> SUFFICES ASSUME NEW j \in DOMAIN s
                 PROVE  s[j] \in ToSet(r)
      OBVIOUS
    <3>1. CASE j < i
      <4>1. j \in 1..i - 1 /\ j \in DOMAIN r
        BY <1>0, <1>7, <3>1
      <4> QED
        BY <1>5, <4>1 DEF ToSet
    <3>2. CASE j >= i
      <4>1. j \in i..Len(s) /\ j + 1 \in DOMAIN r
        BY <1>0, <1>7, <3>2
      <4> QED
        BY <1>5, <4>1 DEF ToSet
    <3> QED
      BY <1>0, <3>1, <3>2
  <2>3. i \in DOMAIN r
    BY <1>7
  <2> QED
    BY <1>5, <2>1, <2>2, <2>3 DEF ToSet
<1> QED
  BY <1>5, <1>6, <1>7, <1>8

LEMMA TailIs ==
  ASSUME NEW S, NEW s \in Seq(S), s # << >>
  PROVE  /\ Head(s) \in S /\ Head(s) \in ToSet(s) /\ Tail(s) \in Seq(S)
         /\ ToSet(s) = ToSet(Tail(s)) \cup {Head(s)}
         /\ IsInjective(s) => IsInjective(Tail(s)) /\ Head(s) \notin ToSet(Tail(s))
<1>1. /\ Len(s) \in Nat \ {0} /\ DOMAIN s = 1..Len(s) /\ Head(s) \in S /\ Tail(s) \in Seq(S)
      /\ Len(Tail(s)) = Len(s) - 1 /\ \A i \in 1..Len(Tail(s)) : Tail(s)[i] = s[i + 1]
  BY HeadTailProperties, EmptySeq
<1>2. Head(s) = s[1]
  OBVIOUS
<1> DEFINE r == Tail(s)
<1> HIDE DEF r
<1>3. DOMAIN r = 1..Len(s) - 1 /\ \A i \in 1..Len(s) - 1 : r[i] = s[i + 1]
  BY <1>1 DEF r
<1>4. ToSet(s) = ToSet(r) \cup {s[1]}
  <2>1. \A i \in DOMAIN s : i = 1 \/ (i - 1 \in DOMAIN r /\ r[i - 1] = s[i])
    <3> SUFFICES ASSUME NEW i \in DOMAIN s, i # 1
                 PROVE  i - 1 \in DOMAIN r /\ r[i - 1] = s[i]
      OBVIOUS
    <3>1. i - 1 \in 1..Len(s) - 1 /\ (i - 1) + 1 = i
      BY <1>1
    <3> QED
      BY <1>3, <3>1
  <2>2. \A i \in DOMAIN r : i + 1 \in DOMAIN s /\ r[i] = s[i + 1]
    BY <1>1, <1>3
  <2>3. 1 \in DOMAIN s
    BY <1>1
  <2> QED
    BY <2>1, <2>2, <2>3 DEF ToSet
<1>5. ASSUME IsInjective(s)
      PROVE  IsInjective(r) /\ s[1] \notin ToSet(r)
  <2>1. \A i, j \in DOMAIN s : s[i] = s[j] => i = j
    BY <1>5 DEF IsInjective
  <2>2. \A i \in DOMAIN r : i \in Nat /\ i + 1 # 1 /\ i + 1 \in DOMAIN s /\ r[i] = s[i + 1]
    BY <1>1, <1>3
  <2>3. 1 \in DOMAIN s
    BY <1>1
  <2>4. s[1] \notin ToSet(r)
    BY <2>1, <2>2, <2>3 DEF ToSet
  <2>5. \A i, j \in DOMAIN r : r[i] = r[j] => i = j
    BY <2>1, <2>2
  <2> QED
    BY <2>4, <2>5 DEF IsInjective
<1> QED
  BY <1>1, <1>2, <1>4, <1>5 DEF r, ToSet

LEMMA PrependIs ==
  ASSUME NEW S, NEW s \in Seq(S), NEW x \in S
  PROVE  <<x>> \o s \in Seq(S) /\ ToSet(<<x>> \o s) = ToSet(s) \cup {x}
<1>1. /\ <<x>> \o s \in Seq(S) /\ Len(<<x>> \o s) = Len(s) + 1
      /\ \A i \in 1..Len(s) + 1 : (<<x>> \o s)[i] = IF i = 1 THEN x ELSE s[i - 1]
  <2>1. <<x>> \in Seq(S) /\ Len(<<x>>) = 1 /\ <<x>>[1] = x
    OBVIOUS
  <2>2. /\ <<x>> \o s \in Seq(S) /\ Len(<<x>> \o s) = Len(<<x>>) + Len(s)
        /\ \A i \in 1..Len(<<x>>) + Len(s) : (<<x>> \o s)[i] = IF i <= Len(<<x>>) THEN <<x>>[i] ELSE s[i - Len(<<x>>)]
    BY <2>1, ConcatProperties
  <2> QED
    BY <2>1, <2>2
<1> DEFINE r == <<x>> \o s
<1>2. r = <<x>> \o s
  OBVIOUS
<1> HIDE DEF r
<1>3. Len(s) \in Nat /\ DOMAIN s = 1..Len(s) /\ DOMAIN r = 1..Len(s) + 1
  BY <1>1, <1>2
<1>4. \A i \in DOMAIN r : r[i] = x \/ (i - 1 \in DOMAIN s /\ r[i] = s[i - 1])
  BY <1>1, <1>2, <1>3
<1>5. 1 \in DOMAIN r /\ r[1] = x
  BY <1>1, <1>2, <1>3
<1>6. \A j \in DOMAIN s : j + 1 \in DOMAIN r /\ r[j + 1] = s[j]
  <2> SUFFICES ASSUME NEW j \in DOMAIN s
               PROVE  j + 1 \in DOMAIN r /\ r[j + 1] = s[j]
    OBVIOUS
  <2>1. j + 1 \in 1..Len(s) + 1 /\ j + 1 # 1 /\ (j + 1) - 1 = j
    BY <1>3
  <2> QED
    BY <1>1, <1>2, <1>3, <2>1
<1>7. ToSet(r) = ToSet(s) \cup {x}
  BY <1>4, <1>5, <1>6 DEF ToSet
<1> QED
  BY <1>1, <1>2, <1>7

LEMMA RemovedIs ==
  ASSUME NEW S, NEW s \in Seq(S), NEW i \in 1..Len(s)
  PROVE  /\ RemoveAt(s, i) \in Seq(S) /\ ToSet(RemoveAt(s, i)) \subseteq ToSet(s)
         /\ \A j \in 1..Len(s) : j # i => s[j] \in ToSet(RemoveAt(s, i))
<1> DEFINE r == RemoveAt(s, i)
<1>1. /\ r \in Seq(S) /\ Len(r) = Len(s) - 1 /\ Len(s) \in Nat
      /\ \A j \in 1..Len(s) - 1 : r[j] = IF j < i THEN s[j] ELSE s[j + 1]
  BY RemoveAtProperties
<1> HIDE DEF r
<1>2. DOMAIN r = 1..Len(s) - 1 /\ DOMAIN s = 1..Len(s)
  BY <1>1
<1>3. \A j \in DOMAIN r : j \in DOMAIN s /\ j + 1 \in DOMAIN s /\ (r[j] = s[j] \/ r[j] = s[j + 1])
  BY <1>1, <1>2
<1>4. ASSUME NEW j \in 1..Len(s), j # i
      PROVE  \E k \in DOMAIN r : r[k] = s[j]
  <2>1. CASE j < i
    <3>1. j \in 1..Len(s) - 1
      BY <1>1, <2>1
    <3> QED
      BY <1>1, <1>2, <2>1, <3>1
  <2>2. CASE j > i
    <3>1. j - 1 \in 1..Len(s) - 1 /\ ~(j - 1 < i) /\ (j - 1) + 1 = j
      BY <1>1, <2>2
    <3> QED
      BY <1>1, <1>2, <3>1
  <2> QED
    BY <1>1, <1>4, <2>1, <2>2
<1>5. \A j \in 1..Len(s) : j # i => s[j] \in ToSet(r)
  BY <1>4 DEF ToSet
<1> QED
  BY <1>1, <1>3, <1>5 DEF r, ToSet

-----------------------------------------------------------------------------
(* Files                                                                   *)
(*                                                                         *)
(* What the files hold is seen by record number: At(f, n) is what is at    *)
(* n's place, Marked(f, n) whether the open file's bitmap has it deleted.   *)

FilesOK(f) ==
  /\ f = [disk |-> f.disk, open |-> f.open, lru |-> f.lru, last |-> f.last]
  /\ f.disk \in [DOMAIN f.disk -> [Slot -> Trailer]] /\ DOMAIN f.disk \subseteq Nat
  /\ f.open \in [DOMAIN f.open -> SUBSET Slot] /\ DOMAIN f.open \subseteq DOMAIN f.disk
  /\ f.lru \in Seq(Nat) /\ f.last \in Nat
  /\ DOMAIN f.open = ToSet(f.lru) /\ IsInjective(f.lru)

At(f, n) == IF FileOf(n) \in DOMAIN f.disk THEN Stored(f, n) ELSE Zero
Marked(f, n) == FileOf(n) \in DOMAIN f.open /\ SlotOf(n) \in f.open[FileOf(n)]
SameFile(m, n) == FileOf(m) = FileOf(n)

LEMMA ZeroIsTrailer == Zero \in Trailer
BY StoreAssumption DEF Zero, Trailer, RN, Magic

LEMMA AtIsTrailer ==
  ASSUME NEW f, FilesOK(f), NEW n \in Nat
  PROVE  At(f, n) \in Trailer
BY FileSlot, ZeroIsTrailer DEF At, Stored, FilesOK

LEMMA MaxOf ==
  ASSUME NEW a \in Nat, NEW b \in Nat
  PROVE  Max({a, b}) \in Nat /\ Max({a, b}) = IF a >= b THEN a ELSE b
BY MaxOfTwo

\* Opening a file changes nothing of what the files hold, and marks what scan() finds deleted.
Opened(f, g) ==
  /\ FilesOK(g)
  /\ \A n \in Nat : At(g, n) = At(f, n)
  /\ \A n \in Nat : Marked(g, n) => Marked(f, n) \/ At(f, n).magic \in {"allocated", "deleted"}

LEMMA TouchedOK ==
  ASSUME NEW f, FilesOK(f), NEW i \in DOMAIN f.open
  PROVE  /\ FilesOK([f EXCEPT !.lru = Append(RemoveFirst(@, i), i)])
         /\ [f EXCEPT !.lru = Append(RemoveFirst(@, i), i)]
              = [disk |-> f.disk, open |-> f.open, lru |-> Append(RemoveFirst(f.lru, i), i), last |-> f.last]
<1> DEFINE l == RemoveFirst(f.lru, i)
           g == [disk |-> f.disk, open |-> f.open, lru |-> Append(l, i), last |-> f.last]
<1>1. /\ f.lru \in Seq(Nat) /\ IsInjective(f.lru) /\ i \in ToSet(f.lru) /\ i \in Nat
      /\ f = [disk |-> f.disk, open |-> f.open, lru |-> f.lru, last |-> f.last]
  BY DEF FilesOK
<1>2. /\ l \in Seq(Nat) /\ ToSet(l) \subseteq ToSet(f.lru)
      /\ \A y \in ToSet(f.lru) : y # i => y \in ToSet(l)
      /\ IsInjective(l) /\ i \notin ToSet(l)
  BY <1>1, RemoveFirstIs
<1>3. [f EXCEPT !.lru = Append(RemoveFirst(@, i), i)] = g
  <2>1. f = [disk |-> f.disk, open |-> f.open, lru |-> f.lru, last |-> f.last]
    BY DEF FilesOK
  <2> QED
    BY <2>1
<1> HIDE DEF l
<1>4. Append(l, i) \in Seq(Nat) /\ ToSet(Append(l, i)) = ToSet(l) \cup {i} /\ IsInjective(Append(l, i))
  BY <1>1, <1>2, AppendIs
<1>5. ToSet(Append(l, i)) = ToSet(f.lru)
  BY <1>1, <1>2, <1>4
<1>6. FilesOK(g)
  BY <1>4, <1>5 DEF FilesOK
<1> QED
  BY <1>3, <1>6 DEF l

LEMMA WithIs ==
  ASSUME NEW f, NEW x, NEW y
  PROVE  /\ DOMAIN With(f, x, y) = DOMAIN f \cup {x}
         /\ With(f, x, y)[x] = y
         /\ \A z \in DOMAIN f : z # x => With(f, x, y)[z] = f[z]
         /\ \A R : f \in [DOMAIN f -> R] /\ y \in R => With(f, x, y) \in [DOMAIN f \cup {x} -> R]
BY DEF With

\* The slots scan() finds deleted hold records that are.
LEMMA ScanIs ==
  ASSUME NEW file \in [Slot -> Trailer]
  PROVE  Scan(file) \subseteq Slot /\ \A s \in Scan(file) : file[s].magic \in {"allocated", "deleted"}
<1>1. ASSUME NEW s \in Scan(file)
      PROVE  file[s].magic \in {"allocated", "deleted"}
  <2>1. s \in Slot /\ file[s].magic # "committed" /\ \A t \in 0..s : file[t].magic # "zero"
    BY DEF Scan
  <2>2. s \in 0..s
    BY <2>1 DEF Slot
  <2>3. file[s].magic \in Magic
    BY <2>1 DEF Trailer
  <2> QED
    BY <2>1, <2>2, <2>3 DEF Magic
<1> QED
  BY <1>1 DEF Scan

\* getFile() of a file that is not open.
LEMMA OpenNewIs ==
  ASSUME NEW f, FilesOK(f), NEW i \in Nat, NEW create \in BOOLEAN,
         i \notin DOMAIN f.open, i \in DOMAIN f.disk \/ create
  PROVE  LET g == GetFile(f, i, create) IN
         /\ FilesOK(g)
         /\ DOMAIN g.disk = DOMAIN f.disk \cup {i}
         /\ \A j \in DOMAIN f.disk : g.disk[j] = f.disk[j]
         /\ i \notin DOMAIN f.disk => g.disk[i] = [s \in Slot |-> Zero]
         /\ i \in DOMAIN g.open
         /\ g.open[i] = IF i \in DOMAIN f.disk THEN Scan(f.disk[i]) ELSE {}
         /\ \A j \in DOMAIN g.open : j # i => j \in DOMAIN f.open /\ g.open[j] = f.open[j]
<1> DEFINE exists == i \in DOMAIN f.disk
           full == Len(f.lru) >= FilesMax
           out == IF full THEN {Head(f.lru)} ELSE {}
           bits == IF exists THEN Scan(f.disk[i]) ELSE {}
           disk == IF exists THEN f.disk ELSE With(f.disk, i, [s \in Slot |-> Zero])
           stay == Restrict(f.open, DOMAIN f.open \ out)
           open == With(stay, i, bits)
           rest == IF full THEN Tail(f.lru) ELSE f.lru
           lru == Append(rest, i)
           last == Max({f.last, i})
<1>1. GetFile(f, i, create) = [disk |-> disk, open |-> open, lru |-> lru, last |-> last]
  BY DEF GetFile
<1>2. /\ f.disk \in [DOMAIN f.disk -> [Slot -> Trailer]] /\ DOMAIN f.disk \subseteq Nat
      /\ f.open \in [DOMAIN f.open -> SUBSET Slot] /\ DOMAIN f.open \subseteq DOMAIN f.disk
      /\ f.lru \in Seq(Nat) /\ f.last \in Nat
      /\ DOMAIN f.open = ToSet(f.lru) /\ IsInjective(f.lru)
  BY DEF FilesOK
<1>3. last \in Nat
  BY <1>2, MaxOf
<1>4. /\ DOMAIN disk = DOMAIN f.disk \cup {i}
      /\ \A j \in DOMAIN f.disk : disk[j] = f.disk[j]
      /\ i \notin DOMAIN f.disk => disk[i] = [s \in Slot |-> Zero]
      /\ disk \in [DOMAIN disk -> [Slot -> Trailer]]
  <2>1. CASE exists
    BY <1>2, <2>1
  <2>2. CASE ~exists
    <3> DEFINE d == With(f.disk, i, [s \in Slot |-> Zero])
    <3>1. /\ DOMAIN d = DOMAIN f.disk \cup {i} /\ d[i] = [s \in Slot |-> Zero]
          /\ \A z \in DOMAIN f.disk : z # i => d[z] = f.disk[z]
      BY DEF With
    <3>2. disk = d
      BY <2>2
    <3>3. [s \in Slot |-> Zero] \in [Slot -> Trailer]
      BY ZeroIsTrailer
    <3>4. d \in [DOMAIN f.disk \cup {i} -> [Slot -> Trailer]]
      BY <1>2, <3>3, WithIs
    <3> HIDE DEF d, disk
    <3> QED
      BY <2>2, <3>1, <3>2, <3>4
  <2> QED
    BY <2>1, <2>2
<1>5. /\ rest \in Seq(Nat) /\ IsInjective(rest) /\ ToSet(rest) = ToSet(f.lru) \ out
  <2>1. CASE full
    <3>1. f.lru # << >>
      BY <1>2, <2>1, StoreAssumption
    <3> QED
      BY <1>2, <2>1, <3>1, TailIs
  <2>2. CASE ~full
    BY <1>2, <2>2
  <2> QED
    BY <2>1, <2>2
<1>6. i \notin ToSet(rest)
  BY <1>2, <1>5
<1>7. bits \in SUBSET Slot
  BY <1>2, ScanIs
<1> HIDE DEF bits, rest, out, disk, last
<1>8. /\ DOMAIN open = ToSet(rest) \cup {i} /\ open[i] = bits
      /\ \A j \in DOMAIN open : j # i => j \in DOMAIN f.open /\ open[j] = f.open[j]
      /\ open \in [DOMAIN open -> SUBSET Slot]
  <2>1. /\ DOMAIN stay = ToSet(rest) /\ DOMAIN stay \subseteq DOMAIN f.open
        /\ \A j \in DOMAIN stay : stay[j] = f.open[j]
    BY <1>2, <1>5 DEF Restrict
  <2>2. stay \in [DOMAIN stay -> SUBSET Slot]
    <3>1. stay = [j \in DOMAIN f.open \ out |-> f.open[j]]
      BY DEF Restrict
    <3> QED
      BY <1>2, <3>1
  <2> HIDE DEF stay
  <2>3. /\ DOMAIN open = DOMAIN stay \cup {i} /\ open[i] = bits
        /\ \A j \in DOMAIN stay : j # i => open[j] = stay[j]
    BY DEF With
  <2>4. open \in [DOMAIN stay \cup {i} -> SUBSET Slot]
    BY <1>7, <2>2, WithIs
  <2> HIDE DEF open
  <2> QED
    BY <2>1, <2>3, <2>4
<1>9. lru \in Seq(Nat) /\ ToSet(lru) = ToSet(rest) \cup {i} /\ IsInjective(lru)
  BY <1>5, <1>6, AppendIs
<1> HIDE DEF open, lru
<1> DEFINE g == [disk |-> disk, open |-> open, lru |-> lru, last |-> last]
<1>10. g.disk = disk /\ g.open = open /\ g.lru = lru /\ g.last = last
  OBVIOUS
<1>11. DOMAIN open \subseteq DOMAIN disk /\ DOMAIN disk \subseteq Nat
  BY <1>2, <1>4, <1>8
<1>12. FilesOK(g)
  BY <1>3, <1>4, <1>8, <1>9, <1>11 DEF FilesOK
<1>13. GetFile(f, i, create) = g
  BY <1>1
<1> HIDE DEF g
<1> QED
  BY <1>4, <1>8, <1>10, <1>12, <1>13 DEF bits

LEMMA GetFileIs ==
  ASSUME NEW f, FilesOK(f), NEW i \in Nat, NEW create \in BOOLEAN
  PROVE  LET g == GetFile(f, i, create) IN
         /\ Opened(f, g)
         /\ i \in DOMAIN f.disk \/ create <=> i \in DOMAIN g.open
         /\ DOMAIN g.open \subseteq DOMAIN f.open \cup {i}
         /\ DOMAIN f.disk \subseteq DOMAIN g.disk /\ DOMAIN g.disk \subseteq DOMAIN f.disk \cup {i}
         /\ \A j \in DOMAIN f.disk : g.disk[j] = f.disk[j]
<1> DEFINE g == GetFile(f, i, create)
<1>0. DOMAIN f.open \subseteq DOMAIN f.disk
  BY DEF FilesOK
<1>1. CASE i \in DOMAIN f.open
  <2>1. g = [f EXCEPT !.lru = Append(RemoveFirst(@, i), i)]
    BY <1>1 DEF GetFile
  <2> DEFINE h == [disk |-> f.disk, open |-> f.open, lru |-> Append(RemoveFirst(f.lru, i), i), last |-> f.last]
  <2>2. /\ FilesOK([f EXCEPT !.lru = Append(RemoveFirst(@, i), i)])
        /\ [f EXCEPT !.lru = Append(RemoveFirst(@, i), i)] = h
    BY <1>1, TouchedOK
  <2> HIDE DEF g
  <2>3. g.disk = f.disk /\ g.open = f.open /\ FilesOK(g)
    <3>1. g = h
      BY <2>1, <2>2
    <3>2. h.disk = f.disk /\ h.open = f.open
      OBVIOUS
    <3> HIDE DEF h
    <3> QED
      BY <2>1, <2>2, <3>1, <3>2
  <2> QED
    <3>1. Opened(f, g)
      BY <2>3 DEF Opened, At, Stored, Marked
    <3> QED
      BY <1>0, <1>1, <2>3, <3>1 DEF g
<1>2. CASE i \notin DOMAIN f.open /\ i \notin DOMAIN f.disk /\ ~create
  <2>1. g = f
    BY <1>2 DEF GetFile
  <2> QED
    BY <1>2, <2>1 DEF Opened
<1>3. CASE i \notin DOMAIN f.open /\ (i \in DOMAIN f.disk \/ create)
  <2>1. /\ FilesOK(g)
        /\ DOMAIN g.disk = DOMAIN f.disk \cup {i}
        /\ \A j \in DOMAIN f.disk : g.disk[j] = f.disk[j]
        /\ i \notin DOMAIN f.disk => g.disk[i] = [s \in Slot |-> Zero]
        /\ i \in DOMAIN g.open
        /\ g.open[i] = IF i \in DOMAIN f.disk THEN Scan(f.disk[i]) ELSE {}
        /\ \A j \in DOMAIN g.open : j # i => j \in DOMAIN f.open /\ g.open[j] = f.open[j]
    BY <1>3, OpenNewIs
  <2> HIDE DEF g
  <2>2. ASSUME NEW n \in Nat
        PROVE  At(g, n) = At(f, n)
    <3>1. FileOf(n) \in Nat /\ SlotOf(n) \in Slot
      BY FileSlot
    <3>2. CASE FileOf(n) \in DOMAIN f.disk
      BY <2>1, <3>2 DEF At, Stored
    <3>3. CASE FileOf(n) \notin DOMAIN f.disk /\ FileOf(n) = i
      BY <2>1, <3>1, <3>3 DEF At, Stored
    <3>4. CASE FileOf(n) \notin DOMAIN f.disk /\ FileOf(n) # i
      BY <2>1, <3>4 DEF At, Stored
    <3> QED
      BY <3>2, <3>3, <3>4
  <2>3. ASSUME NEW n \in Nat, Marked(g, n)
        PROVE  Marked(f, n) \/ At(f, n).magic \in {"allocated", "deleted"}
    <3>1. CASE FileOf(n) # i
      BY <2>1, <2>3, <3>1 DEF Marked
    <3>2. CASE FileOf(n) = i
      <4>1. i \in DOMAIN f.disk /\ SlotOf(n) \in Scan(f.disk[i])
        BY <2>1, <2>3, <3>2 DEF Marked
      <4>2. f.disk[i] \in [Slot -> Trailer]
        BY <4>1 DEF FilesOK
      <4> QED
        BY <3>2, <4>1, <4>2, ScanIs DEF At, Stored
    <3> QED
      BY <3>1, <3>2
  <2>4. Opened(f, g)
    BY <2>1, <2>2, <2>3 DEF Opened
  <2> QED
    BY <1>3, <2>1, <2>4 DEF g
<1> QED
  BY <1>1, <1>2, <1>3

LEMMA WriteSlotIs ==
  ASSUME NEW f, FilesOK(f), NEW rn \in Nat, FileOf(rn) \in DOMAIN f.disk, NEW data \in Trailer
  PROVE  LET g == WriteSlot(f, rn, data) IN
         /\ FilesOK(g)
         /\ At(g, rn) = data
         /\ \A n \in Nat : n # rn => At(g, n) = At(f, n)
         /\ \A n \in Nat : Marked(g, n) <=> Marked(f, n)
<1> DEFINE i == FileOf(rn)
           s == SlotOf(rn)
           disk == [f.disk EXCEPT ![i] = [f.disk[i] EXCEPT ![s] = data]]
           g == [disk |-> disk, open |-> f.open, lru |-> f.lru, last |-> f.last]
<1>1. i \in Nat /\ s \in Slot
  BY FileSlot
<1>2. WriteSlot(f, rn, data) = g
  <2>1. f = [disk |-> f.disk, open |-> f.open, lru |-> f.lru, last |-> f.last]
    BY DEF FilesOK
  <2> QED
    BY <2>1 DEF WriteSlot
<1>3. f.disk \in [DOMAIN f.disk -> [Slot -> Trailer]]
  BY DEF FilesOK
<1> HIDE DEF i, s
<1>4. /\ disk \in [DOMAIN f.disk -> [Slot -> Trailer]]
      /\ disk[i][s] = data
      /\ \A j \in DOMAIN f.disk, t \in Slot : j # i \/ t # s => disk[j][t] = f.disk[j][t]
  <2>1. i \in DOMAIN f.disk
    BY DEF i
  <2>2. f.disk[i] \in [Slot -> Trailer] /\ [f.disk[i] EXCEPT ![s] = data] \in [Slot -> Trailer]
    BY <1>3, <2>1
  <2> QED
    BY <1>1, <1>3, <2>1, <2>2
<1> HIDE DEF disk
<1>5. g.disk = disk /\ g.open = f.open /\ g.lru = f.lru /\ g.last = f.last
  OBVIOUS
<1> HIDE DEF g
<1>6. FilesOK(g)
  <2>1. g = [disk |-> g.disk, open |-> g.open, lru |-> g.lru, last |-> g.last]
    BY DEF g
  <2>2. DOMAIN g.disk = DOMAIN f.disk
    BY <1>4, <1>5
  <2> QED
    BY <1>4, <1>5, <2>1, <2>2 DEF FilesOK
<1>7. At(g, rn) = data
  BY <1>4, <1>5 DEF At, Stored, i, s
<1>8. ASSUME NEW n \in Nat, n # rn
      PROVE  At(g, n) = At(f, n)
  <2>1. FileOf(n) # i \/ SlotOf(n) # s
    BY <1>8, FileSlot DEF i, s
  <2>2. SlotOf(n) \in Slot
    BY FileSlot
  <2> QED
    BY <1>4, <1>5, <2>1, <2>2 DEF At, Stored
<1>9. \A n \in Nat : Marked(g, n) <=> Marked(f, n)
  BY <1>5 DEF Marked
<1> QED
  BY <1>2, <1>6, <1>7, <1>8, <1>9

\* delFile(): what the other files hold stays.
LEMMA DelFileIs ==
  ASSUME NEW f, FilesOK(f), NEW i \in Nat
  PROVE  LET g == DelFile(f, i) IN
         /\ FilesOK(g)
         /\ \A n \in Nat : FileOf(n) = i => At(g, n) = Zero /\ ~Marked(g, n)
         /\ \A n \in Nat : FileOf(n) # i => At(g, n) = At(f, n)
         /\ \A n \in Nat : Marked(g, n) => Marked(f, n) \/ At(f, n).magic \in {"allocated", "deleted"}
<1> DEFINE open == Restrict(f.open, DOMAIN f.open \ {i})
           lru == RemoveFirst(f.lru, i)
           g == [disk |-> f.disk, open |-> open, lru |-> lru, last |-> f.last]
           h == IF i = f.last THEN GetFile(g, i + 1, TRUE) ELSE g
           disk == Restrict(h.disk, DOMAIN h.disk \ {i})
           d == [disk |-> disk, open |-> h.open, lru |-> h.lru, last |-> h.last]
<1>1. /\ f.disk \in [DOMAIN f.disk -> [Slot -> Trailer]] /\ DOMAIN f.disk \subseteq Nat
      /\ f.open \in [DOMAIN f.open -> SUBSET Slot] /\ DOMAIN f.open \subseteq DOMAIN f.disk
      /\ f.lru \in Seq(Nat) /\ f.last \in Nat
      /\ DOMAIN f.open = ToSet(f.lru) /\ IsInjective(f.lru)
  BY DEF FilesOK
<1>2. [f EXCEPT !.open = Restrict(@, DOMAIN @ \ {i}), !.lru = RemoveFirst(@, i)] = g
  <2>1. f = [disk |-> f.disk, open |-> f.open, lru |-> f.lru, last |-> f.last]
    BY DEF FilesOK
  <2> HIDE DEF open, lru
  <2> DEFINE e == [f EXCEPT !.open = open]
  <2>2. e = [disk |-> f.disk, open |-> open, lru |-> f.lru, last |-> f.last]
    BY <2>1
  <2>3. [f EXCEPT !.open = open, !.lru = lru] = [e EXCEPT !.lru = lru]
    OBVIOUS
  <2> HIDE DEF e
  <2>4. [e EXCEPT !.lru = lru] = g
    BY <2>2
  <2> QED
    BY <2>3, <2>4 DEF open, lru
<1>3. /\ DOMAIN open = DOMAIN f.open \ {i} /\ open \in [DOMAIN open -> SUBSET Slot]
      /\ \A j \in DOMAIN open : open[j] = f.open[j]
  BY <1>1 DEF Restrict
<1>4. lru \in Seq(Nat) /\ IsInjective(lru) /\ ToSet(lru) = DOMAIN f.open \ {i}
  BY <1>1, RemoveFirstIs
<1> HIDE DEF open, lru
<1>5. g.disk = f.disk /\ g.open = open /\ g.lru = lru /\ g.last = f.last
  OBVIOUS
<1>6. g = [disk |-> g.disk, open |-> g.open, lru |-> g.lru, last |-> g.last]
  OBVIOUS
<1> HIDE DEF g
<1>7. FilesOK(g)
  BY <1>1, <1>3, <1>4, <1>5, <1>6 DEF FilesOK
<1>8. /\ FilesOK(h) /\ i \notin DOMAIN h.open
      /\ \A n \in Nat : At(h, n) = At(g, n)
      /\ \A n \in Nat : Marked(h, n) => Marked(g, n) \/ At(g, n).magic \in {"allocated", "deleted"}
  <2>1. CASE i = f.last
    <3> DEFINE k == GetFile(g, i + 1, TRUE)
    <3>0. i + 1 \in Nat /\ TRUE \in BOOLEAN
      OBVIOUS
    <3>1. Opened(g, k) /\ DOMAIN k.open \subseteq DOMAIN g.open \cup {i + 1}
      BY <1>7, <3>0, GetFileIs
    <3>2. h = k
      BY <2>1
    <3> HIDE DEF h, k
    <3>3. i \notin DOMAIN g.open \cup {i + 1}
      BY <1>3, <1>5
    <3> QED
      BY <3>1, <3>2, <3>3 DEF Opened
  <2>2. CASE i # f.last
    BY <1>3, <1>5, <1>7, <2>2
  <2> QED
    BY <2>1, <2>2
<1>9. DelFile(f, i) = d
  <2>1. DelFile(f, i) = [h EXCEPT !.disk = Restrict(@, DOMAIN @ \ {i})]
    BY <1>2 DEF DelFile
  <2>2. h = [disk |-> h.disk, open |-> h.open, lru |-> h.lru, last |-> h.last]
    BY <1>8 DEF FilesOK
  <2> HIDE DEF h
  <2> QED
    BY <2>1, <2>2
<1> HIDE DEF h
<1>10. /\ h.disk \in [DOMAIN h.disk -> [Slot -> Trailer]] /\ DOMAIN h.disk \subseteq Nat
       /\ DOMAIN h.open \subseteq DOMAIN h.disk
  BY <1>8 DEF FilesOK
<1>11. /\ DOMAIN disk = DOMAIN h.disk \ {i} /\ disk \in [DOMAIN disk -> [Slot -> Trailer]]
       /\ \A j \in DOMAIN disk : disk[j] = h.disk[j]
  BY <1>10 DEF Restrict
<1> HIDE DEF disk
<1>12. d.disk = disk /\ d.open = h.open /\ d.lru = h.lru /\ d.last = h.last
  OBVIOUS
<1>13. d = [disk |-> d.disk, open |-> d.open, lru |-> d.lru, last |-> d.last]
  OBVIOUS
<1> HIDE DEF d
<1>14. DOMAIN d.open \subseteq DOMAIN d.disk /\ DOMAIN d.disk \subseteq Nat
  BY <1>8, <1>10, <1>11, <1>12
<1>15. FilesOK(d)
  BY <1>8, <1>11, <1>12, <1>13, <1>14 DEF FilesOK
<1>16. ASSUME NEW n \in Nat
       PROVE  /\ FileOf(n) = i => At(d, n) = Zero /\ ~Marked(d, n)
              /\ FileOf(n) # i => At(d, n) = At(f, n)
              /\ Marked(d, n) => Marked(f, n) \/ At(f, n).magic \in {"allocated", "deleted"}
  <2>1. FileOf(n) = i => At(d, n) = Zero /\ ~Marked(d, n)
    BY <1>8, <1>11, <1>12 DEF At, Marked
  <2>2. At(g, n) = At(f, n)
    BY <1>5 DEF At, Stored
  <2>3. FileOf(n) # i => At(d, n) = At(h, n)
    BY <1>11, <1>12 DEF At, Stored
  <2>4. At(h, n) = At(g, n)
    BY <1>8
  <2>5. Marked(d, n) => Marked(h, n)
    BY <1>12 DEF Marked
  <2>6. Marked(g, n) => Marked(f, n)
    BY <1>3, <1>5 DEF Marked
  <2> QED
    BY <1>8, <2>1, <2>2, <2>3, <2>4, <2>5, <2>6
<1> QED
  BY <1>9, <1>15, <1>16

\* The file of rn is removed when rn is: nothing else of it is left.
OnlyLeft(f, rn) == \A m \in Nat : SameFile(m, rn) /\ m # rn => Marked(f, m)

LEMMA EraseIs ==
  ASSUME NEW f, FilesOK(f), NEW rn \in Nat, FileOf(rn) \in DOMAIN f.open, NEW data \in Trailer
  PROVE  LET g == Erase(f, rn, data) IN
         /\ FilesOK(g)
         /\ OnlyLeft(f, rn) => \A n \in Nat : SameFile(n, rn) => At(g, n) = Zero /\ ~Marked(g, n)
         /\ ~OnlyLeft(f, rn) => At(g, rn) = data /\ \A n \in Nat : n # rn => At(g, n) = At(f, n)
         /\ \A n \in Nat : ~SameFile(n, rn) => At(g, n) = At(f, n)
         /\ \A n \in Nat : Marked(g, n) =>
              Marked(f, n) \/ n = rn \/ At(f, n).magic \in {"allocated", "deleted"}
<1> DEFINE i == FileOf(rn)
           open == [f.open EXCEPT ![i] = @ \cup {SlotOf(rn)}]
           g == [disk |-> f.disk, open |-> open, lru |-> f.lru, last |-> f.last]
<1>1. i \in Nat /\ SlotOf(rn) \in Slot /\ i \in DOMAIN f.open /\ i \in DOMAIN f.disk
  BY FileSlot DEF FilesOK
<1>2. [f EXCEPT !.open[i] = @ \cup {SlotOf(rn)}] = g
  <2>1. f = [disk |-> f.disk, open |-> f.open, lru |-> f.lru, last |-> f.last]
    BY DEF FilesOK
  <2> QED
    BY <2>1
<1>3. /\ f.open \in [DOMAIN f.open -> SUBSET Slot]
      /\ open \in [DOMAIN f.open -> SUBSET Slot] /\ open[i] = f.open[i] \cup {SlotOf(rn)}
      /\ \A j \in DOMAIN f.open : j # i => open[j] = f.open[j]
  <2>1. f.open \in [DOMAIN f.open -> SUBSET Slot]
    BY DEF FilesOK
  <2> QED
    BY <1>1, <2>1
<1> HIDE DEF open
<1>4. g.disk = f.disk /\ g.open = open /\ g.lru = f.lru /\ g.last = f.last
  OBVIOUS
<1>5. g = [disk |-> g.disk, open |-> g.open, lru |-> g.lru, last |-> g.last]
  OBVIOUS
<1>6. Erase(f, rn, data) = IF open[i] = Slot THEN DelFile(g, i) ELSE WriteSlot(g, rn, data)
  BY <1>2, <1>4 DEF Erase
<1> HIDE DEF g, i
<1>7. FilesOK(g)
  <2>1. DOMAIN g.open = DOMAIN f.open
    BY <1>3, <1>4
  <2> QED
    BY <1>3, <1>4, <1>5, <2>1 DEF FilesOK
<1>8. \A n \in Nat : At(g, n) = At(f, n)
  BY <1>4 DEF At, Stored
<1>9. \A n \in Nat : Marked(g, n) <=> Marked(f, n) \/ n = rn
  <2> SUFFICES ASSUME NEW n \in Nat
               PROVE  Marked(g, n) <=> Marked(f, n) \/ n = rn
    OBVIOUS
  <2>1. n = rn <=> FileOf(n) = i /\ SlotOf(n) = SlotOf(rn)
    BY FileSlot DEF i
  <2> QED
    BY <1>1, <1>3, <1>4, <2>1 DEF Marked
<1>10. open[i] = Slot <=> OnlyLeft(f, rn)
  <2>1. ASSUME open[i] = Slot, NEW m \in Nat, SameFile(m, rn), m # rn
        PROVE  Marked(f, m)
    <3>1. SlotOf(m) \in Slot /\ FileOf(m) = i
      BY <2>1, FileSlot DEF SameFile, i
    <3>2. Marked(g, m)
      BY <1>1, <1>3, <1>4, <2>1, <3>1 DEF Marked
    <3> QED
      BY <1>9, <2>1, <3>2
  <2>2. ASSUME OnlyLeft(f, rn), NEW s \in Slot
        PROVE  s \in open[i]
    <3> DEFINE m == i * FileRecs + s
    <3>1. m \in Nat /\ FileOf(m) = i /\ SlotOf(m) = s
      BY <1>1, SlotFile
    <3> HIDE DEF m
    <3>2. m = rn \/ Marked(f, m)
      BY <2>2, <3>1 DEF OnlyLeft, SameFile, i
    <3>3. Marked(g, m)
      BY <1>9, <3>1, <3>2
    <3> QED
      BY <1>4, <3>1, <3>3 DEF Marked
  <2>3. open[i] \subseteq Slot
    BY <1>1, <1>3
  <2> QED
    BY <2>1, <2>2, <2>3 DEF OnlyLeft
<1>11. CASE OnlyLeft(f, rn)
  <2>1. Erase(f, rn, data) = DelFile(g, i)
    BY <1>6, <1>10, <1>11
  <2> DEFINE h == DelFile(g, i)
  <2>2. /\ FilesOK(h)
        /\ \A n \in Nat : FileOf(n) = i => At(h, n) = Zero /\ ~Marked(h, n)
        /\ \A n \in Nat : FileOf(n) # i => At(h, n) = At(g, n)
        /\ \A n \in Nat : Marked(h, n) => Marked(g, n) \/ At(g, n).magic \in {"allocated", "deleted"}
    BY <1>1, <1>7, DelFileIs
  <2> HIDE DEF h
  <2>3. \A n \in Nat : SameFile(n, rn) <=> FileOf(n) = i
    BY DEF SameFile, i
  <2>4. h = Erase(f, rn, data)
    BY <2>1 DEF h
  <2> QED
    BY <1>8, <1>9, <1>11, <2>2, <2>3, <2>4
<1>12. CASE ~OnlyLeft(f, rn)
  <2>1. Erase(f, rn, data) = WriteSlot(g, rn, data)
    BY <1>6, <1>10, <1>12
  <2> DEFINE h == WriteSlot(g, rn, data)
  <2>2. /\ FilesOK(h)
        /\ At(h, rn) = data
        /\ \A n \in Nat : n # rn => At(h, n) = At(g, n)
        /\ \A n \in Nat : Marked(h, n) <=> Marked(g, n)
    <3>1. FileOf(rn) \in DOMAIN g.disk
      BY <1>1, <1>4 DEF i
    <3> QED
      BY <1>7, <3>1, WriteSlotIs
  <2> HIDE DEF h
  <2>3. \A n \in Nat : ~SameFile(n, rn) => n # rn
    BY DEF SameFile
  <2>4. h = Erase(f, rn, data)
    BY <2>1 DEF h
  <2> QED
    BY <1>8, <1>9, <1>12, <2>2, <2>3, <2>4
<1> QED
  BY <1>11, <1>12

\* What the write thread does to the files: rn's place is overwritten, or its file, of which
\* nothing else is left, is removed.
Gone == {"allocated", "deleted"}

Overwritten(f, g, rn, data) ==
  /\ FilesOK(g)
  /\ At(g, rn) = data
  /\ \A n \in Nat : n # rn => At(g, n) = At(f, n)
  /\ \A n \in Nat : Marked(g, n) => Marked(f, n) \/ At(f, n).magic \in Gone

Removed(f, g, rn) ==
  /\ \A m \in Nat : SameFile(m, rn) /\ m # rn => Marked(f, m) \/ At(f, m).magic \in Gone
  /\ \A n \in Nat : SameFile(n, rn) => At(g, n) = Zero /\ ~Marked(g, n)
  /\ \A n \in Nat : ~SameFile(n, rn) => At(g, n) = At(f, n)

Erased(f, g, rn, data) ==
  /\ FilesOK(g)
  /\ \/ Removed(f, g, rn)
     \/ At(g, rn) = data /\ \A n \in Nat : n # rn => At(g, n) = At(f, n)
  /\ \A n \in Nat : Marked(g, n) => Marked(f, n) \/ n = rn \/ At(f, n).magic \in Gone

LEMMA WriteAtIs ==
  ASSUME NEW f, FilesOK(f), NEW rn \in Nat, NEW create \in BOOLEAN,
         FileOf(rn) \in DOMAIN f.disk \/ create, NEW data \in Trailer
  PROVE  /\ Overwritten(f, WriteSlot(GetFile(f, FileOf(rn), create), rn, data), rn, data)
         /\ Erased(f, Erase(GetFile(f, FileOf(rn), create), rn, data), rn, data)
<1> DEFINE h == GetFile(f, FileOf(rn), create)
           w == WriteSlot(h, rn, data)
           e == Erase(h, rn, data)
<1>1. FileOf(rn) \in Nat
  BY FileSlot
<1>2. Opened(f, h) /\ FileOf(rn) \in DOMAIN h.open
  BY <1>1, GetFileIs
<1> HIDE DEF h
<1>3. FilesOK(h) /\ FileOf(rn) \in DOMAIN h.disk
  BY <1>2 DEF Opened, FilesOK
<1>4. /\ \A n \in Nat : At(h, n) = At(f, n)
      /\ \A n \in Nat : Marked(h, n) => Marked(f, n) \/ At(f, n).magic \in Gone
  BY <1>2 DEF Opened, Gone
<1>5. /\ FilesOK(w) /\ At(w, rn) = data
      /\ \A n \in Nat : n # rn => At(w, n) = At(h, n)
      /\ \A n \in Nat : Marked(w, n) <=> Marked(h, n)
  BY <1>3, WriteSlotIs
<1>6. /\ FilesOK(e)
      /\ OnlyLeft(h, rn) => \A n \in Nat : SameFile(n, rn) => At(e, n) = Zero /\ ~Marked(e, n)
      /\ ~OnlyLeft(h, rn) => At(e, rn) = data /\ \A n \in Nat : n # rn => At(e, n) = At(h, n)
      /\ \A n \in Nat : ~SameFile(n, rn) => At(e, n) = At(h, n)
      /\ \A n \in Nat : Marked(e, n) => Marked(h, n) \/ n = rn \/ At(h, n).magic \in {"allocated", "deleted"}
  BY <1>2, <1>3, EraseIs
<1> HIDE DEF w, e
<1>7. Overwritten(f, w, rn, data)
  BY <1>4, <1>5 DEF Overwritten
<1>8. Erased(f, e, rn, data)
  <2>1. CASE OnlyLeft(h, rn)
    <3>1. Removed(f, e, rn)
      BY <1>4, <1>6, <2>1 DEF Removed, OnlyLeft
    <3> QED
      BY <1>4, <1>6, <3>1 DEF Erased, Gone
  <2>2. CASE ~OnlyLeft(h, rn)
    BY <1>4, <1>6, <2>2 DEF Erased, Gone
  <2> QED
    BY <2>1, <2>2
<1> QED
  BY <1>7, <1>8 DEF w, e, h

-----------------------------------------------------------------------------
(* Records in memory *)

Pod == [data : Trailer, op : Op, pinned : BOOLEAN]

MemOK(m) ==
  /\ m = [pods |-> m.pods, cache |-> m.cache, lru |-> m.lru, size |-> m.size, hash |-> m.hash]
  /\ m.pods \in [DOMAIN m.pods -> Pod] /\ DOMAIN m.pods \subseteq Pods
  /\ m.cache \in Seq(DOMAIN m.pods) /\ m.lru \in Seq(DOMAIN m.pods)

\* No record leaves the cache unless it has number rn.
Keeps(m, c, rn) == \A q \in ToSet(m.cache) : m.pods[q].data.rn # rn => q \in ToSet(c.cache)

\* A pinned record of the cache stays there: the list of used records has no other of its number.
Fast(m, q) ==
  /\ q \in ToSet(m.cache) /\ m.pods[q].pinned = TRUE
  /\ \A l \in ToSet(m.lru) : l # q => m.pods[l].data.rn # m.pods[q].data.rn

\* The same records, and no others than those of S in the cache that were not there.
Cacheable(m, c, S) == MemOK(c) /\ c.pods = m.pods /\ ToSet(c.cache) \subseteq ToSet(m.cache) \cup S

LEMMA ToSetOf ==
  ASSUME NEW S, NEW s \in Seq(S)
  PROVE  ToSet(s) \subseteq S
BY DEF ToSet

LEMMA PlacesIs ==
  ASSUME NEW m, MemOK(m), NEW rn, Places(m, rn) # {}
  PROVE  /\ Min(Places(m, rn)) \in 1..Len(m.cache)
         /\ Cached(m, rn) \in ToSet(m.cache) /\ Cached(m, rn) \in DOMAIN m.pods
         /\ m.pods[Cached(m, rn)].data.rn = rn
<1>1. m.cache \in Seq(DOMAIN m.pods)
  BY DEF MemOK
<1>2. Places(m, rn) \subseteq 1..Len(m.cache) /\ DOMAIN m.cache = 1..Len(m.cache)
  BY <1>1 DEF Places
<1>3. Places(m, rn) \subseteq Nat
  BY <1>2
<1>4. Min(Places(m, rn)) \in Places(m, rn)
  BY <1>3, MinIs
<1> DEFINE i == Min(Places(m, rn))
<1>5. i \in DOMAIN m.cache /\ i \in 1..Len(m.cache) /\ m.pods[m.cache[i]].data.rn = rn
  BY <1>2, <1>4 DEF Places
<1>6. Cached(m, rn) = m.cache[i]
  BY DEF Cached
<1> HIDE DEF i
<1>7. m.cache[i] \in ToSet(m.cache) /\ m.cache[i] \in DOMAIN m.pods
  BY <1>1, <1>5 DEF ToSet
<1> QED
  BY <1>5, <1>6, <1>7 DEF i

LEMMA UncacheIs ==
  ASSUME NEW m, MemOK(m), NEW rn
  PROVE  Cacheable(m, Uncache(m, rn), {}) /\ Uncache(m, rn).lru = m.lru /\ Keeps(m, Uncache(m, rn), rn)
<1>1. CASE Places(m, rn) = {}
  BY <1>1 DEF Uncache, Cacheable, Keeps
<1>2. CASE Places(m, rn) # {}
  <2> DEFINE c == RemoveAt(m.cache, Min(Places(m, rn)))
             u == [pods |-> m.pods, cache |-> c, lru |-> m.lru, size |-> m.size, hash |-> m.hash]
  <2>1. /\ m = [pods |-> m.pods, cache |-> m.cache, lru |-> m.lru, size |-> m.size, hash |-> m.hash]
        /\ m.cache \in Seq(DOMAIN m.pods)
    BY DEF MemOK
  <2>2. /\ c \in Seq(DOMAIN m.pods) /\ ToSet(c) \subseteq ToSet(m.cache)
        /\ \A q \in ToSet(m.cache) : m.pods[q].data.rn # rn => q \in ToSet(c)
    <3> DEFINE i == Min(Places(m, rn))
    <3>1. i \in 1..Len(m.cache) /\ m.pods[m.cache[i]].data.rn = rn /\ DOMAIN m.cache = 1..Len(m.cache)
      BY <1>2, <2>1, PlacesIs DEF Cached
    <3> HIDE DEF i
    <3>2. /\ c \in Seq(DOMAIN m.pods) /\ ToSet(c) \subseteq ToSet(m.cache)
          /\ \A j \in 1..Len(m.cache) : j # i => m.cache[j] \in ToSet(c)
      BY <2>1, <3>1, RemovedIs DEF i
    <3> HIDE DEF c
    <3> QED
      BY <3>1, <3>2 DEF ToSet
  <2>3. Uncache(m, rn) = [m EXCEPT !.cache = c]
    BY <1>2 DEF Uncache
  <2> HIDE DEF c
  <2>4. [m EXCEPT !.cache = c] = u
    BY <2>1
  <2>5. u.pods = m.pods /\ u.cache = c /\ u.lru = m.lru
    OBVIOUS
  <2>6. MemOK(u)
    BY <2>2 DEF MemOK
  <2> HIDE DEF u
  <2> QED
    BY <2>2, <2>3, <2>4, <2>5, <2>6 DEF Cacheable, Keeps
<1> QED
  BY <1>1, <1>2

LEMMA LruIs ==
  ASSUME NEW m, MemOK(m), NEW l \in Seq(DOMAIN m.pods)
  PROVE  /\ Cacheable(m, [m EXCEPT !.lru = l], {})
         /\ [m EXCEPT !.lru = l].lru = l /\ [m EXCEPT !.lru = l].cache = m.cache
<1> DEFINE u == [pods |-> m.pods, cache |-> m.cache, lru |-> l, size |-> m.size, hash |-> m.hash]
<1>1. m = [pods |-> m.pods, cache |-> m.cache, lru |-> m.lru, size |-> m.size, hash |-> m.hash]
  BY DEF MemOK
<1>2. [m EXCEPT !.lru = l] = u
  BY <1>1
<1>3. u.pods = m.pods /\ u.cache = m.cache /\ u.lru = l
  OBVIOUS
<1>4. MemOK(u)
  BY DEF MemOK
<1> HIDE DEF u
<1> QED
  BY <1>2, <1>3, <1>4 DEF Cacheable

LEMMA CacheDelIs ==
  ASSUME NEW m, MemOK(m), NEW rn
  PROVE  /\ Cacheable(m, CacheDel(m, rn), {}) /\ Keeps(m, CacheDel(m, rn), rn)
         /\ ToSet(CacheDel(m, rn).lru) \subseteq ToSet(m.lru)
<1>1. CASE Places(m, rn) = {}
  BY <1>1 DEF CacheDel, Cacheable, Keeps
<1>2. CASE Places(m, rn) # {}
  <2> DEFINE u == Uncache(m, rn)
             l == RemoveFirst(u.lru, Cached(m, rn))
  <2>1. Cacheable(m, u, {}) /\ u.lru = m.lru /\ Keeps(m, u, rn)
    BY UncacheIs
  <2>2. CacheDel(m, rn) = [u EXCEPT !.lru = l]
    BY <1>2 DEF CacheDel
  <2> HIDE DEF u
  <2>3. MemOK(u) /\ u.pods = m.pods
    BY <2>1 DEF Cacheable
  <2>4. u.lru \in Seq(DOMAIN u.pods)
    BY <2>3 DEF MemOK
  <2>5. l \in Seq(DOMAIN u.pods) /\ ToSet(l) \subseteq ToSet(u.lru)
    BY <2>4, RemoveFirstIs
  <2> HIDE DEF l
  <2>6. Cacheable(u, [u EXCEPT !.lru = l], {}) /\ [u EXCEPT !.lru = l].lru = l /\ [u EXCEPT !.lru = l].cache = u.cache
    BY <2>3, <2>5, LruIs
  <2> QED
    BY <2>1, <2>2, <2>5, <2>6 DEF Cacheable, Keeps
<1> QED
  BY <1>1, <1>2

LEMMA CacheAddIs ==
  ASSUME NEW m, MemOK(m), NEW p \in DOMAIN m.pods
  PROVE  /\ Cacheable(m, CacheAdd(m, p), {p})
         /\ ToSet(CacheAdd(m, p).cache) = ToSet(m.cache) \cup {p}
         /\ ToSet(CacheAdd(m, p).lru) = ToSet(m.lru) \cup {p}
<1> DEFINE c == <<p>> \o m.cache
           l == Append(m.lru, p)
           h == IF Len(m.cache) >= m.hash THEN 2 * m.hash ELSE m.hash
           u == [pods |-> m.pods, cache |-> c, lru |-> l, size |-> m.size, hash |-> h]
<1>1. /\ m = [pods |-> m.pods, cache |-> m.cache, lru |-> m.lru, size |-> m.size, hash |-> m.hash]
      /\ m.cache \in Seq(DOMAIN m.pods) /\ m.lru \in Seq(DOMAIN m.pods)
  BY DEF MemOK
<1>2. c \in Seq(DOMAIN m.pods) /\ ToSet(c) = ToSet(m.cache) \cup {p}
  BY <1>1, PrependIs
<1>3. l \in Seq(DOMAIN m.pods) /\ ToSet(l) = ToSet(m.lru) \cup {p}
  BY <1>1, AppendIs
<1>4. CacheAdd(m, p) = [m EXCEPT !.cache = c, !.lru = l, !.hash = h]
  BY DEF CacheAdd
<1> HIDE DEF c, l, h
<1>5. [m EXCEPT !.cache = c, !.lru = l, !.hash = h] = u
  <2> DEFINE a == [m EXCEPT !.cache = c]
  <2>1. a = [pods |-> m.pods, cache |-> c, lru |-> m.lru, size |-> m.size, hash |-> m.hash]
    BY <1>1
  <2> DEFINE b == [a EXCEPT !.lru = l]
  <2>2. [m EXCEPT !.cache = c, !.lru = l, !.hash = h] = [b EXCEPT !.hash = h]
    OBVIOUS
  <2> HIDE DEF a
  <2>3. b = [pods |-> m.pods, cache |-> c, lru |-> l, size |-> m.size, hash |-> m.hash]
    BY <2>1
  <2> HIDE DEF b
  <2>4. [b EXCEPT !.hash = h] = u
    BY <2>3
  <2> QED
    BY <2>2, <2>4
<1>6. u.pods = m.pods /\ u.cache = c /\ u.lru = l
  OBVIOUS
<1>7. MemOK(u)
  BY <1>2, <1>3 DEF MemOK
<1> HIDE DEF u
<1> QED
  BY <1>2, <1>3, <1>4, <1>5, <1>6, <1>7 DEF Cacheable

LEMMA CacheIs ==
  ASSUME NEW m, MemOK(m), NEW p \in DOMAIN m.pods
  PROVE  /\ Cacheable(m, Cache(m, p), {p}) /\ p \in ToSet(Cache(m, p).cache)
         /\ ToSet(Cache(m, p).lru) \subseteq ToSet(m.lru) \cup {p}
         /\ \A q : Fast(m, q) => q \in ToSet(Cache(m, p).cache)
<1>1. CASE Len(m.cache) < m.size \/ m.lru = <<>>
  <2>1. Cache(m, p) = CacheAdd(m, p)
    BY <1>1 DEF Cache
  <2>2. /\ Cacheable(m, CacheAdd(m, p), {p})
        /\ ToSet(CacheAdd(m, p).cache) = ToSet(m.cache) \cup {p}
        /\ ToSet(CacheAdd(m, p).lru) = ToSet(m.lru) \cup {p}
    BY CacheAddIs
  <2> QED
    BY <2>1, <2>2 DEF Fast
<1>2. CASE ~(Len(m.cache) < m.size \/ m.lru = <<>>)
  <2> DEFINE old == Head(m.lru)
             rest == [m EXCEPT !.lru = Tail(@)]
             again == [rest EXCEPT !.lru = Append(@, old)]
             grown == CacheAdd(again, p)
             sized == [grown EXCEPT !.size = grown.hash]
             evicted == CacheAdd(Uncache(rest, m.pods[old].data.rn), p)
  <2>1. m.lru \in Seq(DOMAIN m.pods) /\ m.lru # <<>>
    BY <1>2 DEF MemOK
  <2>2. /\ Tail(m.lru) \in Seq(DOMAIN m.pods) /\ old \in DOMAIN m.pods
        /\ ToSet(m.lru) = ToSet(Tail(m.lru)) \cup {old}
    BY <2>1, TailIs
  <2>3. Cacheable(m, rest, {}) /\ rest.lru = Tail(m.lru) /\ rest.cache = m.cache
    <3>1. rest = [m EXCEPT !.lru = Tail(m.lru)]
      OBVIOUS
    <3> QED
      BY <2>2, <3>1, LruIs
  <2>4. Cache(m, p) = IF m.pods[old].pinned THEN sized ELSE evicted
    BY <1>2 DEF Cache
  <2> HIDE DEF old, rest
  <2>5. MemOK(rest) /\ rest.pods = m.pods /\ ToSet(rest.cache) \subseteq ToSet(m.cache)
    BY <2>3 DEF Cacheable
  <2>6. /\ Cacheable(m, evicted, {p}) /\ p \in ToSet(evicted.cache)
        /\ ToSet(evicted.lru) \subseteq ToSet(m.lru) \cup {p}
        /\ \A q \in ToSet(m.cache) : m.pods[q].data.rn # m.pods[old].data.rn => q \in ToSet(evicted.cache)
    <3> DEFINE u == Uncache(rest, m.pods[old].data.rn)
    <3>1. Cacheable(rest, u, {}) /\ u.lru = rest.lru /\ Keeps(rest, u, m.pods[old].data.rn)
      BY <2>5, UncacheIs
    <3> HIDE DEF u
    <3>2. MemOK(u) /\ u.pods = m.pods /\ ToSet(u.cache) \subseteq ToSet(m.cache)
      BY <2>5, <3>1 DEF Cacheable
    <3>3. /\ Cacheable(u, CacheAdd(u, p), {p})
          /\ ToSet(CacheAdd(u, p).cache) = ToSet(u.cache) \cup {p}
          /\ ToSet(CacheAdd(u, p).lru) = ToSet(u.lru) \cup {p}
      BY <3>2, CacheAddIs
    <3>4. evicted = CacheAdd(u, p)
      BY DEF u
    <3>5. \A q \in ToSet(m.cache) : m.pods[q].data.rn # m.pods[old].data.rn => q \in ToSet(u.cache)
      BY <2>3, <2>5, <3>1 DEF Keeps
    <3> HIDE DEF evicted
    <3> QED
      BY <2>2, <2>3, <3>1, <3>2, <3>3, <3>4, <3>5 DEF Cacheable
  <2>7. /\ Cacheable(m, grown, {p}) /\ ToSet(grown.cache) = ToSet(m.cache) \cup {p}
        /\ ToSet(grown.lru) \subseteq ToSet(m.lru) \cup {p}
    <3>1. /\ Append(rest.lru, old) \in Seq(DOMAIN rest.pods)
          /\ ToSet(Append(rest.lru, old)) = ToSet(rest.lru) \cup {old}
      <4> DEFINE S == DOMAIN rest.pods
                 s == rest.lru
      <4>1. s \in Seq(S) /\ old \in S
        BY <2>2, <2>3, <2>5
      <4> HIDE DEF S, s
      <4>2. Append(s, old) \in Seq(S) /\ ToSet(Append(s, old)) = ToSet(s) \cup {old}
        BY <4>1, AppendIs
      <4> QED
        BY <4>2 DEF S, s
    <3>2. Cacheable(rest, again, {}) /\ again.cache = rest.cache /\ again.lru = Append(rest.lru, old)
      <4>1. again = [rest EXCEPT !.lru = Append(rest.lru, old)]
        OBVIOUS
      <4> QED
        BY <2>5, <3>1, <4>1, LruIs
    <3> HIDE DEF again
    <3>3. MemOK(again) /\ again.pods = m.pods /\ ToSet(again.cache) \subseteq ToSet(m.cache)
      BY <2>5, <3>2 DEF Cacheable
    <3>4. /\ Cacheable(again, grown, {p}) /\ ToSet(grown.cache) = ToSet(again.cache) \cup {p}
          /\ ToSet(grown.lru) = ToSet(again.lru) \cup {p}
      BY <3>3, CacheAddIs
    <3> HIDE DEF grown
    <3> QED
      BY <2>2, <2>3, <3>1, <3>2, <3>3, <3>4 DEF Cacheable
  <2> HIDE DEF grown, evicted
  <2>8. Cacheable(m, sized, {p}) /\ sized.cache = grown.cache /\ sized.lru = grown.lru
    <3> DEFINE s == [pods |-> grown.pods, cache |-> grown.cache, lru |-> grown.lru, size |-> grown.hash, hash |-> grown.hash]
    <3>1. /\ grown = [pods |-> grown.pods, cache |-> grown.cache, lru |-> grown.lru,
                     size |-> grown.size, hash |-> grown.hash]
          /\ MemOK(grown) /\ grown.pods = m.pods /\ ToSet(grown.cache) \subseteq ToSet(m.cache) \cup {p}
      BY <2>7 DEF Cacheable, MemOK
    <3>2. sized = s
      BY <3>1
    <3>3. s.pods = grown.pods /\ s.cache = grown.cache /\ s.lru = grown.lru
      OBVIOUS
    <3>4. MemOK(s)
      BY <3>1 DEF MemOK
    <3> HIDE DEF s, sized
    <3> QED
      BY <3>1, <3>2, <3>3, <3>4 DEF Cacheable
  <2>9. ~m.pods[old].pinned =>
          \A q : Fast(m, q) => q \in ToSet(m.cache) /\ m.pods[q].data.rn # m.pods[old].data.rn
    BY <2>2 DEF Fast
  <2>10. \A q : Fast(m, q) => q \in ToSet(m.cache)
    BY DEF Fast
  <2> HIDE DEF sized
  <2> QED
    BY <2>4, <2>6, <2>7, <2>8, <2>9, <2>10
<1> QED
  BY <1>1, <1>2

\* One record is changed.
Changed(m, c, p) ==
  /\ MemOK(c) /\ c.cache = m.cache /\ c.lru = m.lru /\ DOMAIN c.pods = DOMAIN m.pods
  /\ \A q \in DOMAIN m.pods : q # p => c.pods[q] = m.pods[q]

LEMMA ChangedIs ==
  ASSUME NEW m, MemOK(m), NEW p \in DOMAIN m.pods, NEW v \in Pod
  PROVE  Changed(m, [m EXCEPT !.pods[p] = v], p) /\ [m EXCEPT !.pods[p] = v].pods[p] = v
<1> DEFINE f == [m.pods EXCEPT ![p] = v]
           u == [pods |-> f, cache |-> m.cache, lru |-> m.lru, size |-> m.size, hash |-> m.hash]
<1>1. /\ m = [pods |-> m.pods, cache |-> m.cache, lru |-> m.lru, size |-> m.size, hash |-> m.hash]
      /\ m.pods \in [DOMAIN m.pods -> Pod]
  BY DEF MemOK
<1>2. [m EXCEPT !.pods[p] = v] = u
  <2>1. [m EXCEPT !.pods[p] = v] = [m EXCEPT !.pods = f]
    OBVIOUS
  <2> HIDE DEF f
  <2>2. [m EXCEPT !.pods = f] = u
    BY <1>1
  <2> QED
    BY <2>1, <2>2
<1>3. /\ f \in [DOMAIN m.pods -> Pod] /\ f[p] = v
      /\ \A q \in DOMAIN m.pods : q # p => f[q] = m.pods[q]
  BY <1>1
<1> HIDE DEF f
<1>4. u.pods = f /\ u.cache = m.cache /\ u.lru = m.lru
  OBVIOUS
<1>5. DOMAIN f = DOMAIN m.pods
  BY <1>3
<1>6. MemOK(u)
  BY <1>3, <1>5 DEF MemOK
<1> HIDE DEF u
<1> QED
  BY <1>2, <1>3, <1>4, <1>5, <1>6 DEF Changed

LEMMA PodIs ==
  ASSUME NEW q \in Pod
  PROVE  /\ q = [data |-> q.data, op |-> q.op, pinned |-> q.pinned]
         /\ q.data = [rn |-> q.data.rn, prev |-> q.data.prev, magic |-> q.data.magic]
         /\ q.data \in Trailer /\ q.op \in Op /\ q.pinned \in BOOLEAN
         /\ q.data.rn \in RN /\ q.data.prev \in RN /\ q.data.magic \in Magic
BY DEF Pod, Trailer

LEMMA TrailerWith ==
  ASSUME NEW t \in Trailer, NEW x
  PROVE  /\ [t EXCEPT !.magic = x] = [rn |-> t.rn, prev |-> t.prev, magic |-> x]
         /\ [t EXCEPT !.rn = x] = [rn |-> x, prev |-> t.prev, magic |-> t.magic]
         /\ [t EXCEPT !.prev = x] = [rn |-> t.rn, prev |-> x, magic |-> t.magic]
BY DEF Trailer

LEMMA PodWith ==
  ASSUME NEW q, q = [data |-> q.data, op |-> q.op, pinned |-> q.pinned], NEW x
  PROVE  /\ [q EXCEPT !.data = x] = [data |-> x, op |-> q.op, pinned |-> q.pinned]
         /\ [q EXCEPT !.op = x] = [data |-> q.data, op |-> x, pinned |-> q.pinned]
         /\ [q EXCEPT !.pinned = x] = [data |-> q.data, op |-> q.op, pinned |-> x]
OBVIOUS

\* What is queued has a magic and an operation.
WithMagicOp(m, p, magic, op) ==
  [m EXCEPT !.pods[p].data.magic = magic, !.pods[p].op = op]

LEMMA QueuedIs ==
  ASSUME NEW m, MemOK(m), NEW p \in DOMAIN m.pods, NEW magic \in Magic, NEW op \in Op
  PROVE  LET c == WithMagicOp(m, p, magic, op) IN
         /\ Changed(m, c, p)
         /\ c.pods[p].data.rn = m.pods[p].data.rn /\ c.pods[p].data.prev = m.pods[p].data.prev
         /\ c.pods[p].data.magic = magic /\ c.pods[p].op = op /\ c.pods[p].pinned = m.pods[p].pinned
<1> DEFINE q == m.pods[p]
           d == [rn |-> q.data.rn, prev |-> q.data.prev, magic |-> magic]
           v == [data |-> d, op |-> op, pinned |-> q.pinned]
           c == [m EXCEPT !.pods[p].data.magic = magic, !.pods[p].op = op]
<1>1. q \in Pod
  BY DEF MemOK
<1>2. c = [m EXCEPT !.pods[p] = v]
  <2>1. m = [pods |-> m.pods, cache |-> m.cache, lru |-> m.lru, size |-> m.size, hash |-> m.hash]
    BY DEF MemOK
  <2>2. m.pods \in [DOMAIN m.pods -> Pod]
    BY DEF MemOK
  <2>3. [[q EXCEPT !.data = [q.data EXCEPT !.magic = magic]] EXCEPT !.op = op] = v
    <3> HIDE DEF q
    <3>1. [q.data EXCEPT !.magic = magic] = d
      BY <1>1, PodIs, TrailerWith
    <3>2. q = [data |-> q.data, op |-> q.op, pinned |-> q.pinned]
      BY <1>1, PodIs
    <3> HIDE DEF d
    <3> DEFINE e == [q EXCEPT !.data = d]
    <3>3. e = [data |-> d, op |-> q.op, pinned |-> q.pinned]
      BY <3>2, PodWith
    <3> HIDE DEF e
    <3>4. [e EXCEPT !.op = op] = v
      BY <3>3, PodWith
    <3> QED
      BY <3>1, <3>4 DEF e
  <2>4. c = [m EXCEPT !.pods[p] = [[q EXCEPT !.data = [q.data EXCEPT !.magic = magic]] EXCEPT !.op = op]]
    BY <2>1, <2>2
  <2> QED
    BY <2>3, <2>4
<1>3. v \in Pod
  BY <1>1, PodIs DEF Pod, Trailer
<1> HIDE DEF v, c
<1>4. Changed(m, c, p) /\ c.pods[p] = v
  BY <1>2, <1>3, ChangedIs
<1> QED
  BY <1>4 DEF v, c, WithMagicOp

\* The magic of a record is changed.
LEMMA MagicIs ==
  ASSUME NEW m, MemOK(m), NEW p \in DOMAIN m.pods, NEW x \in Magic
  PROVE  LET c == [m EXCEPT !.pods[p].data.magic = x] IN
         /\ Changed(m, c, p)
         /\ c.pods[p].data.magic = x
         /\ c.pods[p].data.rn = m.pods[p].data.rn /\ c.pods[p].data.prev = m.pods[p].data.prev
         /\ c.pods[p].op = m.pods[p].op /\ c.pods[p].pinned = m.pods[p].pinned
<1> DEFINE q == m.pods[p]
           d == [rn |-> q.data.rn, prev |-> q.data.prev, magic |-> x]
           v == [data |-> d, op |-> q.op, pinned |-> q.pinned]
           c == [m EXCEPT !.pods[p].data.magic = x]
<1>1. q \in Pod
  BY DEF MemOK
<1>2. c = [m EXCEPT !.pods[p] = v]
  <2>1. m = [pods |-> m.pods, cache |-> m.cache, lru |-> m.lru, size |-> m.size, hash |-> m.hash]
    BY DEF MemOK
  <2>2. m.pods \in [DOMAIN m.pods -> Pod]
    BY DEF MemOK
  <2>3. [q EXCEPT !.data = [q.data EXCEPT !.magic = x]] = v
    <3> HIDE DEF q
    <3>1. q = [data |-> q.data, op |-> q.op, pinned |-> q.pinned]
      BY <1>1, PodIs
    <3>2. [q.data EXCEPT !.magic = x] = d
      BY <1>1, PodIs, TrailerWith
    <3> HIDE DEF d
    <3> QED
      BY <3>1, <3>2, PodWith
  <2>4. c = [m EXCEPT !.pods[p] = [q EXCEPT !.data = [q.data EXCEPT !.magic = x]]]
    BY <2>1, <2>2
  <2> QED
    BY <2>3, <2>4
<1>3. v \in Pod
  BY <1>1, PodIs DEF Pod, Trailer
<1> HIDE DEF v, c
<1>4. Changed(m, c, p) /\ c.pods[p] = v
  BY <1>2, <1>3, ChangedIs
<1> QED
  BY <1>4 DEF v, c

\* Its number.
LEMMA NumberIs ==
  ASSUME NEW m, MemOK(m), NEW p \in DOMAIN m.pods, NEW x \in RN
  PROVE  LET c == [m EXCEPT !.pods[p].data.rn = x] IN
         /\ Changed(m, c, p)
         /\ c.pods[p].data.rn = x
         /\ c.pods[p].data.prev = m.pods[p].data.prev /\ c.pods[p].data.magic = m.pods[p].data.magic
         /\ c.pods[p].op = m.pods[p].op /\ c.pods[p].pinned = m.pods[p].pinned
<1> DEFINE q == m.pods[p]
           d == [rn |-> x, prev |-> q.data.prev, magic |-> q.data.magic]
           v == [data |-> d, op |-> q.op, pinned |-> q.pinned]
           c == [m EXCEPT !.pods[p].data.rn = x]
<1>1. q \in Pod
  BY DEF MemOK
<1>2. c = [m EXCEPT !.pods[p] = v]
  <2>1. m = [pods |-> m.pods, cache |-> m.cache, lru |-> m.lru, size |-> m.size, hash |-> m.hash]
    BY DEF MemOK
  <2>2. m.pods \in [DOMAIN m.pods -> Pod]
    BY DEF MemOK
  <2>3. [q EXCEPT !.data = [q.data EXCEPT !.rn = x]] = v
    <3> HIDE DEF q
    <3>1. q = [data |-> q.data, op |-> q.op, pinned |-> q.pinned]
      BY <1>1, PodIs
    <3>2. [q.data EXCEPT !.rn = x] = d
      BY <1>1, PodIs, TrailerWith
    <3> HIDE DEF d
    <3> QED
      BY <3>1, <3>2, PodWith
  <2>4. c = [m EXCEPT !.pods[p] = [q EXCEPT !.data = [q.data EXCEPT !.rn = x]]]
    BY <2>1, <2>2
  <2> QED
    BY <2>3, <2>4
<1>3. v \in Pod
  BY <1>1, PodIs DEF Pod, Trailer
<1> HIDE DEF v, c
<1>4. Changed(m, c, p) /\ c.pods[p] = v
  BY <1>2, <1>3, ChangedIs
<1> QED
  BY <1>4 DEF v, c

\* The number of what it replaces.
LEMMA PrevIs ==
  ASSUME NEW m, MemOK(m), NEW p \in DOMAIN m.pods, NEW x \in RN
  PROVE  LET c == [m EXCEPT !.pods[p].data.prev = x] IN
         /\ Changed(m, c, p)
         /\ c.pods[p].data.prev = x
         /\ c.pods[p].data.rn = m.pods[p].data.rn /\ c.pods[p].data.magic = m.pods[p].data.magic
         /\ c.pods[p].op = m.pods[p].op /\ c.pods[p].pinned = m.pods[p].pinned
<1> DEFINE q == m.pods[p]
           d == [rn |-> q.data.rn, prev |-> x, magic |-> q.data.magic]
           v == [data |-> d, op |-> q.op, pinned |-> q.pinned]
           c == [m EXCEPT !.pods[p].data.prev = x]
<1>1. q \in Pod
  BY DEF MemOK
<1>2. c = [m EXCEPT !.pods[p] = v]
  <2>1. m = [pods |-> m.pods, cache |-> m.cache, lru |-> m.lru, size |-> m.size, hash |-> m.hash]
    BY DEF MemOK
  <2>2. m.pods \in [DOMAIN m.pods -> Pod]
    BY DEF MemOK
  <2>3. [q EXCEPT !.data = [q.data EXCEPT !.prev = x]] = v
    <3> HIDE DEF q
    <3>1. q = [data |-> q.data, op |-> q.op, pinned |-> q.pinned]
      BY <1>1, PodIs
    <3>2. [q.data EXCEPT !.prev = x] = d
      BY <1>1, PodIs, TrailerWith
    <3> HIDE DEF d
    <3> QED
      BY <3>1, <3>2, PodWith
  <2>4. c = [m EXCEPT !.pods[p] = [q EXCEPT !.data = [q.data EXCEPT !.prev = x]]]
    BY <2>1, <2>2
  <2> QED
    BY <2>3, <2>4
<1>3. v \in Pod
  BY <1>1, PodIs DEF Pod, Trailer
<1> HIDE DEF v, c
<1>4. Changed(m, c, p) /\ c.pods[p] = v
  BY <1>2, <1>3, ChangedIs
<1> QED
  BY <1>4 DEF v, c

\* Whether it is pinned.
WithPinned(m, p, x) ==
  [m EXCEPT !.pods[p].pinned = x]

LEMMA PinnedIs ==
  ASSUME NEW m, MemOK(m), NEW p \in DOMAIN m.pods, NEW x \in BOOLEAN
  PROVE  LET c == WithPinned(m, p, x) IN
         /\ Changed(m, c, p)
         /\ c.pods[p].data = m.pods[p].data /\ c.pods[p].op = m.pods[p].op /\ c.pods[p].pinned = x
<1> DEFINE q == m.pods[p]
           d == q.data
           v == [data |-> d, op |-> q.op, pinned |-> x]
           c == [m EXCEPT !.pods[p].pinned = x]
<1>1. q \in Pod
  BY DEF MemOK
<1>2. c = [m EXCEPT !.pods[p] = v]
  <2>1. m = [pods |-> m.pods, cache |-> m.cache, lru |-> m.lru, size |-> m.size, hash |-> m.hash]
    BY DEF MemOK
  <2>2. m.pods \in [DOMAIN m.pods -> Pod]
    BY DEF MemOK
  <2>3. [q EXCEPT !.pinned = x] = v
    <3> HIDE DEF q
    <3>1. q = [data |-> q.data, op |-> q.op, pinned |-> q.pinned]
      BY <1>1, PodIs
    <3> QED
      BY <3>1, PodWith
  <2>4. c = [m EXCEPT !.pods[p] = [q EXCEPT !.pinned = x]]
    BY <2>1, <2>2
  <2> QED
    BY <2>3, <2>4
<1>3. v \in Pod
  BY <1>1, PodIs DEF Pod, Trailer
<1> HIDE DEF v, c
<1>4. Changed(m, c, p) /\ c.pods[p] = v
  BY <1>2, <1>3, ChangedIs
<1> QED
  BY <1>4 DEF v, c, WithPinned

\* A record that is put is pinned and committed.
PinCommitted(m, p) ==
  [m EXCEPT !.pods[p].pinned = TRUE, !.pods[p].data.magic = "committed"]

LEMMA CommittedIs ==
  ASSUME NEW m, MemOK(m), NEW p \in DOMAIN m.pods
  PROVE  LET c == PinCommitted(m, p) IN
         /\ Changed(m, c, p)
         /\ c.pods[p].data.rn = m.pods[p].data.rn /\ c.pods[p].data.prev = m.pods[p].data.prev
         /\ c.pods[p].data.magic = "committed" /\ c.pods[p].op = m.pods[p].op /\ c.pods[p].pinned = TRUE
<1> DEFINE b == [m EXCEPT !.pods[p].pinned = TRUE]
           c == [b EXCEPT !.pods[p].data.magic = "committed"]
<1>1. [m EXCEPT !.pods[p].pinned = TRUE, !.pods[p].data.magic = "committed"] = c
  OBVIOUS
<1>2. /\ Changed(m, b, p)
      /\ b.pods[p].data = m.pods[p].data /\ b.pods[p].op = m.pods[p].op /\ b.pods[p].pinned = TRUE
  BY PinnedIs DEF WithPinned
<1> HIDE DEF b
<1>3. MemOK(b) /\ p \in DOMAIN b.pods
  BY <1>2 DEF Changed
<1>4. /\ Changed(b, c, p)
      /\ c.pods[p].data.magic = "committed"
      /\ c.pods[p].data.rn = b.pods[p].data.rn /\ c.pods[p].data.prev = b.pods[p].data.prev
      /\ c.pods[p].op = b.pods[p].op /\ c.pods[p].pinned = b.pods[p].pinned
  <2>1. "committed" \in Magic
    BY DEF Magic
  <2> QED
    BY <1>3, <2>1, MagicIs
<1> HIDE DEF c
<1>5. Changed(m, c, p)
  BY <1>2, <1>4 DEF Changed
<1> QED
  BY <1>1, <1>2, <1>4, <1>5 DEF PinCommitted

\* A record that is deleted has a new number, and replaces the one it had.
Renumber(m, p, n, old) ==
  [m EXCEPT !.pods[p].data.rn = n, !.pods[p].data.prev = old]

LEMMA RenumberedIs ==
  ASSUME NEW m, MemOK(m), NEW p \in DOMAIN m.pods, NEW n \in RN, NEW old \in RN
  PROVE  LET c == Renumber(m, p, n, old) IN
         /\ Changed(m, c, p)
         /\ c.pods[p].data.rn = n /\ c.pods[p].data.prev = old
         /\ c.pods[p].data.magic = m.pods[p].data.magic /\ c.pods[p].op = m.pods[p].op
         /\ c.pods[p].pinned = m.pods[p].pinned
<1> DEFINE b == [m EXCEPT !.pods[p].data.rn = n]
           c == [b EXCEPT !.pods[p].data.prev = old]
<1>1. [m EXCEPT !.pods[p].data.rn = n, !.pods[p].data.prev = old] = c
  OBVIOUS
<1>2. /\ Changed(m, b, p)
      /\ b.pods[p].data.rn = n
      /\ b.pods[p].data.prev = m.pods[p].data.prev /\ b.pods[p].data.magic = m.pods[p].data.magic
      /\ b.pods[p].op = m.pods[p].op /\ b.pods[p].pinned = m.pods[p].pinned
  BY NumberIs
<1> HIDE DEF b
<1>3. MemOK(b) /\ p \in DOMAIN b.pods
  BY <1>2 DEF Changed
<1>4. /\ Changed(b, c, p)
      /\ c.pods[p].data.prev = old
      /\ c.pods[p].data.rn = b.pods[p].data.rn /\ c.pods[p].data.magic = b.pods[p].data.magic
      /\ c.pods[p].op = b.pods[p].op /\ c.pods[p].pinned = b.pods[p].pinned
  BY <1>3, PrevIs
<1> HIDE DEF c
<1>5. Changed(m, c, p)
  BY <1>2, <1>4 DEF Changed
<1> QED
  BY <1>1, <1>2, <1>4, <1>5 DEF Renumber

\* A new record in memory.
LEMMA AddPodIs ==
  ASSUME NEW m, MemOK(m), NEW p \in Pods, NEW data \in Trailer
  PROVE  LET c == AddPod(m, p, data) IN
         /\ MemOK(c) /\ c.cache = m.cache /\ c.lru = m.lru
         /\ DOMAIN c.pods = DOMAIN m.pods \cup {p}
         /\ c.pods[p] = [data |-> data, op |-> "none", pinned |-> FALSE]
         /\ \A q \in DOMAIN m.pods : q # p => c.pods[q] = m.pods[q]
<1> DEFINE v == [data |-> data, op |-> "none", pinned |-> FALSE]
           f == With(m.pods, p, v)
           u == [pods |-> f, cache |-> m.cache, lru |-> m.lru, size |-> m.size, hash |-> m.hash]
<1>1. /\ m = [pods |-> m.pods, cache |-> m.cache, lru |-> m.lru, size |-> m.size, hash |-> m.hash]
      /\ m.pods \in [DOMAIN m.pods -> Pod] /\ DOMAIN m.pods \subseteq Pods
      /\ m.cache \in Seq(DOMAIN m.pods) /\ m.lru \in Seq(DOMAIN m.pods)
  BY DEF MemOK
<1>2. v \in Pod
  BY DEF Pod, Op
<1>3. AddPod(m, p, data) = [m EXCEPT !.pods = f]
  BY DEF AddPod
<1> HIDE DEF v
<1>4. /\ DOMAIN f = DOMAIN m.pods \cup {p} /\ f[p] = v
      /\ \A q \in DOMAIN m.pods : q # p => f[q] = m.pods[q]
  BY DEF With
<1>5. f \in [DOMAIN m.pods \cup {p} -> Pod]
  BY <1>1, <1>2, WithIs
<1> HIDE DEF f
<1>6. [m EXCEPT !.pods = f] = u
  BY <1>1
<1>7. u.pods = f /\ u.cache = m.cache /\ u.lru = m.lru
  OBVIOUS
<1>8. u = [pods |-> u.pods, cache |-> u.cache, lru |-> u.lru, size |-> u.size, hash |-> u.hash]
  OBVIOUS
<1> HIDE DEF u
<1>9. u.cache \in Seq(DOMAIN f) /\ u.lru \in Seq(DOMAIN f)
  BY <1>1, <1>4, <1>7
<1>10. MemOK(u)
  BY <1>1, <1>4, <1>5, <1>7, <1>8, <1>9 DEF MemOK
<1> QED
  BY <1>3, <1>4, <1>6, <1>7, <1>10 DEF v

\* The records that stay when those nobody refers to are gone.
LEMMA CollectIs ==
  ASSUME NEW m, MemOK(m), NEW used
  PROVE  LET c == Collect(m, used) IN
         /\ MemOK(c) /\ c.cache = m.cache /\ c.lru = m.lru
         /\ DOMAIN c.pods \subseteq DOMAIN m.pods /\ DOMAIN m.pods \cap used \subseteq DOMAIN c.pods
         /\ \A q \in DOMAIN c.pods : c.pods[q] = m.pods[q]
<1> DEFINE S == DOMAIN m.pods \cap (used \cup ToSet(m.cache) \cup ToSet(m.lru))
           f == Restrict(m.pods, S)
           u == [pods |-> f, cache |-> m.cache, lru |-> m.lru, size |-> m.size, hash |-> m.hash]
<1>1. /\ m = [pods |-> m.pods, cache |-> m.cache, lru |-> m.lru, size |-> m.size, hash |-> m.hash]
      /\ m.pods \in [DOMAIN m.pods -> Pod] /\ DOMAIN m.pods \subseteq Pods
      /\ m.cache \in Seq(DOMAIN m.pods) /\ m.lru \in Seq(DOMAIN m.pods)
  BY DEF MemOK
<1>2. Collect(m, used) = [m EXCEPT !.pods = f]
  BY DEF Collect
<1>3. S \subseteq DOMAIN m.pods /\ DOMAIN m.pods \cap used \subseteq S
  OBVIOUS
<1>4. ToSet(m.cache) \subseteq S /\ ToSet(m.lru) \subseteq S
  BY <1>1, ToSetOf
<1> HIDE DEF S
<1>5. DOMAIN f = S /\ f \in [S -> Pod] /\ \A q \in S : f[q] = m.pods[q]
  BY <1>1, <1>3 DEF Restrict
<1> HIDE DEF f
<1>6. [m EXCEPT !.pods = f] = u
  BY <1>1
<1>7. m.cache \in Seq(S) /\ m.lru \in Seq(S)
  BY <1>1, <1>4 DEF ToSet
<1>8. u.pods = f /\ u.cache = m.cache /\ u.lru = m.lru
  OBVIOUS
<1>9. u = [pods |-> u.pods, cache |-> u.cache, lru |-> u.lru, size |-> u.size, hash |-> u.hash]
  OBVIOUS
<1> HIDE DEF u
<1>10. MemOK(u)
  BY <1>1, <1>3, <1>5, <1>7, <1>8, <1>9 DEF MemOK
<1> QED
  BY <1>2, <1>3, <1>5, <1>6, <1>8, <1>10

PodNum(p) == mem.pods[p].data.rn
PodPrev(p) == mem.pods[p].data.prev
PodMagic(p) == mem.pods[p].data.magic

LEMMA NewPodIs ==
  ASSUME CanAlloc, MemOK(mem)
  PROVE  NewPod \in Pods \ DOMAIN mem.pods
<1>1. Pods \ DOMAIN mem.pods \subseteq Nat /\ Pods \ DOMAIN mem.pods # {}
  BY StoreAssumption DEF CanAlloc
<1> QED
  BY <1>1, MinIs DEF NewPod

\* get__(): what it finds is in the cache, or a new record in memory of what the file has.
Hit(rn) == Places(mem, rn) # {}

LEMMA LoadIs ==
  ASSUME CanAlloc, MemOK(mem), FilesOK(fs), NEW rn \in RN
  PROVE  LET l == Load(rn) IN
         /\ Opened(fs, l.fs)
         /\ MemOK(l.mem) /\ l.mem.cache = mem.cache /\ l.mem.lru = mem.lru /\ l.pod \in Pods
         /\ l.cached <=> Hit(rn)
         /\ DOMAIN mem.pods \subseteq DOMAIN l.mem.pods /\ DOMAIN l.mem.pods \subseteq DOMAIN mem.pods \cup {l.pod}
         /\ \A q \in DOMAIN mem.pods : l.mem.pods[q] = mem.pods[q]
         /\ l.magic # "none" => l.pod \in DOMAIN l.mem.pods /\ l.mem.pods[l.pod].data.magic = l.magic
         /\ Hit(rn) => /\ l.pod \in ToSet(mem.cache) /\ l.pod \in DOMAIN mem.pods
                       /\ mem.pods[l.pod].data.rn = rn /\ l.magic # "none"
         /\ ~Hit(rn) => /\ l.pod \notin DOMAIN mem.pods
                        /\ l.magic # "none" =>
                             l.mem.pods[l.pod] = [data |-> At(fs, rn), op |-> "none", pinned |-> FALSE]
<1> DEFINE hit == Places(mem, rn) # {}
           f == IF hit THEN fs ELSE GetFile(fs, FileOf(rn), FALSE)
           found == hit \/ InFile(f, rn)
           p == IF hit THEN Cached(mem, rn) ELSE NewPod
           m == IF ~hit /\ found THEN AddPod(mem, p, Stored(f, rn)) ELSE mem
           magic == IF found THEN m.pods[p].data.magic ELSE "none"
           l == [fs |-> f, mem |-> m, pod |-> p, cached |-> hit, magic |-> magic]
<1>1. Load(rn) = l
  BY DEF Load
<1>2. /\ mem.pods \in [DOMAIN mem.pods -> Pod] /\ DOMAIN mem.pods \subseteq Pods
      /\ rn \in Nat
  BY DEF MemOK, RN
<1>3. CASE Hit(rn)
  <2>1. /\ f = fs /\ m = mem /\ found /\ p = Cached(mem, rn) /\ hit
        /\ magic = mem.pods[p].data.magic
    BY <1>3 DEF Hit
  <2>2. p \in ToSet(mem.cache) /\ p \in DOMAIN mem.pods /\ mem.pods[p].data.rn = rn
    BY <1>3, <2>1, PlacesIs DEF Hit
  <2>3. mem.pods[p].data.magic # "none"
    BY <1>2, <2>2, PodIs DEF Magic
  <2>4. Opened(fs, fs)
    BY DEF Opened
  <2> HIDE DEF f, m, found, p, hit, magic
  <2>5. l.fs = fs /\ l.mem = mem /\ l.pod = p /\ l.magic = mem.pods[p].data.magic /\ l.cached = hit
    BY <2>1
  <2> HIDE DEF l
  <2> QED
    BY <1>1, <1>2, <1>3, <2>1, <2>2, <2>3, <2>4, <2>5
<1>4. CASE ~Hit(rn)
  <2>1. ~hit
    BY <1>4 DEF Hit
  <2>2. f = GetFile(fs, FileOf(rn), FALSE) /\ p = NewPod
    BY <2>1
  <2>3. Opened(fs, f)
    <3>1. FALSE \in BOOLEAN /\ FileOf(rn) \in Nat
      BY <1>2, FileSlot
    <3> HIDE DEF f
    <3> QED
      BY <2>2, <3>1, GetFileIs
  <2>4. p \in Pods \ DOMAIN mem.pods
    BY <2>2, NewPodIs
  <2>5. found <=> InFile(f, rn)
    BY <2>1
  <2> HIDE DEF f, p, hit
  <2>6. FilesOK(f) /\ At(f, rn) = At(fs, rn) /\ At(fs, rn) \in Trailer
    BY <1>2, <2>3, AtIsTrailer DEF Opened
  <2>7. CASE found
    <3>1. Stored(f, rn) = At(fs, rn)
      BY <2>5, <2>6, <2>7 DEF InFile, At, FilesOK
    <3>2. m = AddPod(mem, p, At(fs, rn))
      BY <2>1, <2>7, <3>1
    <3> HIDE DEF m
    <3>3. /\ MemOK(m) /\ m.cache = mem.cache /\ m.lru = mem.lru
          /\ DOMAIN m.pods = DOMAIN mem.pods \cup {p}
          /\ m.pods[p] = [data |-> At(fs, rn), op |-> "none", pinned |-> FALSE]
          /\ \A q \in DOMAIN mem.pods : q # p => m.pods[q] = mem.pods[q]
      BY <2>4, <2>6, <3>2, AddPodIs
    <3>4. magic = m.pods[p].data.magic
      BY <2>7
    <3> HIDE DEF magic, found
    <3>5. l.fs = f /\ l.mem = m /\ l.pod = p /\ l.magic = m.pods[p].data.magic /\ l.cached = hit
      BY <3>4
    <3> HIDE DEF l
    <3> QED
      BY <1>1, <1>2, <1>4, <2>1, <2>3, <2>4, <3>3, <3>5
  <2>8. CASE ~found
    <3>1. m = mem /\ magic = "none"
      BY <2>8
    <3> HIDE DEF m, magic, found
    <3>2. l.fs = f /\ l.mem = mem /\ l.pod = p /\ l.magic = "none" /\ l.cached = hit
      BY <3>1
    <3> HIDE DEF l
    <3> QED
      BY <1>1, <1>2, <1>4, <2>1, <2>3, <2>4, <3>2
  <2> QED
    BY <2>7, <2>8
<1> QED
  BY <1>3, <1>4

-----------------------------------------------------------------------------
(* The inductive invariant for the types *)

Steps == {"gap", "record", "chain", "done"}
Write == [pod : Pods, rn : RN, prev : RN, op : Op, step : Steps, gap : Nat]

PodsTyped ==
  /\ MemOK(mem) /\ held \subseteq DOMAIN mem.pods /\ queue \in Seq(DOMAIN mem.pods)
  /\ writer # Idle => writer.pod \in DOMAIN mem.pods
WriterTyped ==
  writer # Idle => writer \in Write /\ (writer.step = "gap" => writer.gap < writer.rn)
NumbersTyped == nextRN \in 0..MaxRN /\ minRN \in 0..MaxRN /\ fileRN \in 0..MaxRN
PurgeTyped == purging # Idle => purging \in [pod : {1}, rn : Nat, min : Nat]
RecoveryTyped == recovering \subseteq RN /\ \A rn \in recovering : FileOf(rn) \in DOMAIN fs.disk
CountsTyped == purges \in 0..MaxPurges /\ crashes \in 0..MaxCrashes
HistoryTyped ==
  /\ older \in [RN -> SUBSET RN] /\ gapped \in BOOLEAN /\ torn \in BOOLEAN
  /\ live \subseteq RN /\ kept \subseteq RN /\ filled \subseteq RN /\ erased \subseteq RN /\ late \subseteq RN

TypeInv ==
  /\ PodsTyped /\ FilesOK(fs) /\ WriterTyped /\ NumbersTyped /\ PurgeTyped /\ RecoveryTyped
  /\ CountsTyped /\ HistoryTyped

LEMMA TypeInvOK ==
  ASSUME TypeInv
  PROVE  TypeOK
<1>1. /\ mem.pods \in [DOMAIN mem.pods -> Pod] /\ DOMAIN mem.pods \subseteq Pods
      /\ mem.cache \in Seq(DOMAIN mem.pods) /\ mem.lru \in Seq(DOMAIN mem.pods)
      /\ held \subseteq DOMAIN mem.pods /\ queue \in Seq(DOMAIN mem.pods)
  BY DEF TypeInv, PodsTyped, MemOK
<1>2. /\ fs.disk \in [DOMAIN fs.disk -> [Slot -> Trailer]]
      /\ DOMAIN fs.open = ToSet(fs.lru) /\ DOMAIN fs.open \subseteq DOMAIN fs.disk
  BY DEF TypeInv, FilesOK
<1>3. ToSet(mem.cache) \cup ToSet(mem.lru) \cup held \cup ToSet(queue) \subseteq DOMAIN mem.pods
  BY <1>1, ToSetOf
<1>4. /\ DOMAIN mem.pods \subseteq Pods
      /\ \A p \in DOMAIN mem.pods : mem.pods[p] \in [data : Trailer, op : Op, pinned : BOOLEAN]
  BY <1>1 DEF Pod
<1>5. \A i \in DOMAIN fs.disk : fs.disk[i] \in [Slot -> Trailer]
  BY <1>2
<1>6. NumbersTyped /\ RecoveryTyped /\ CountsTyped /\ HistoryTyped
  BY DEF TypeInv
<1> QED
  BY <1>2, <1>3, <1>4, <1>5, <1>6 DEF TypeOK, NumbersTyped, RecoveryTyped, CountsTyped, HistoryTyped

LEMMA InitTyped == Init => TypeInv
<1> SUFFICES ASSUME Init PROVE TypeInv
  OBVIOUS
<1>1. MemOK(mem) /\ DOMAIN mem.pods = {}
  <2>1. /\ mem.pods = <<>> /\ mem.cache = <<>> /\ mem.lru = <<>>
        /\ mem.size = CacheSize /\ mem.hash = CacheSize
        /\ mem = [pods |-> <<>>, cache |-> <<>>, lru |-> <<>>, size |-> CacheSize, hash |-> CacheSize]
    BY DEF Init
  <2>2. DOMAIN mem.pods = {}
    BY <2>1
  <2> QED
    BY <2>1, <2>2 DEF MemOK
<1>2. FilesOK(fs) /\ DOMAIN fs.disk = {}
  <2>1. /\ fs.disk = <<>> /\ fs.open = <<>> /\ fs.lru = <<>> /\ fs.last = 0
        /\ fs = [disk |-> <<>>, open |-> <<>>, lru |-> <<>>, last |-> 0]
    BY DEF Init
  <2>2. DOMAIN fs.disk = {} /\ DOMAIN fs.open = {} /\ ToSet(fs.lru) = {} /\ IsInjective(fs.lru)
    BY <2>1 DEF ToSet, IsInjective
  <2> QED
    BY <2>1, <2>2 DEF FilesOK
<1>3. PodsTyped
  BY <1>1 DEF PodsTyped, Init
<1>4. /\ WriterTyped /\ NumbersTyped /\ PurgeTyped /\ RecoveryTyped /\ CountsTyped
  BY StoreAssumption DEF Init, WriterTyped, NumbersTyped, PurgeTyped, RecoveryTyped, CountsTyped
<1>5. HistoryTyped
  BY DEF Init, HistoryTyped
<1> QED
  BY <1>2, <1>3, <1>4, <1>5 DEF TypeInv

-----------------------------------------------------------------------------
(* What each action does to the records in memory *)

\* The records that are used stay.
LEMMA SettleIs ==
  ASSUME NEW m, MemOK(m), Settle(m)
  PROVE  /\ MemOK(mem') /\ mem'.cache = m.cache /\ mem'.lru = m.lru
         /\ DOMAIN mem'.pods \subseteq DOMAIN m.pods
         /\ \A q \in DOMAIN mem'.pods : mem'.pods[q] = m.pods[q]
         /\ held' \cap DOMAIN m.pods \subseteq DOMAIN mem'.pods
         /\ ToSet(queue') \cap DOMAIN m.pods \subseteq DOMAIN mem'.pods
         /\ writer'.pod \in DOMAIN m.pods => writer'.pod \in DOMAIN mem'.pods
<1> DEFINE used == held' \cup ToSet(queue') \cup ({writer'.pod} \ {0})
           c == Collect(m, used)
<1>1. /\ MemOK(c) /\ c.cache = m.cache /\ c.lru = m.lru
      /\ DOMAIN c.pods \subseteq DOMAIN m.pods /\ DOMAIN m.pods \cap used \subseteq DOMAIN c.pods
      /\ \A q \in DOMAIN c.pods : c.pods[q] = m.pods[q]
  BY CollectIs
<1>2. mem' = c
  BY DEF Settle
<1>3. \A q \in DOMAIN m.pods : q # 0
  BY StoreAssumption DEF MemOK
<1> HIDE DEF c
<1> QED
  BY <1>1, <1>2, <1>3

\* A write that is queued, ahead of some that are: those it follows are late.
Inserted(c) ==
  /\ DOMAIN queue' = 1..Len(queue) + 1
  /\ \E i \in 1..Len(queue) + 1 :
       /\ queue'[i] = c
       /\ \A j \in 1..i - 1 : queue'[j] = queue[j]
       /\ \A j \in i..Len(queue) : queue'[j + 1] = queue[j]
       /\ late' = late \cup {rn \in older'[PodNum(c)'] : \E j \in i..Len(queue) : PodNum(queue[j]) = rn}

\* A record that is queued.
LEMMA QueueIs ==
  ASSUME NEW m, MemOK(m), NEW p \in DOMAIN m.pods, NEW magic \in Magic, NEW op \in Op,
         queue \in Seq(DOMAIN m.pods), held' \subseteq DOMAIN m.pods,
         Queue(m, p, magic, op)
  PROVE  /\ MemOK(mem') /\ mem'.cache = m.cache /\ mem'.lru = m.lru
         /\ Inserted(p) /\ queue' \in Seq(DOMAIN mem'.pods) /\ held' \subseteq DOMAIN mem'.pods
         /\ ToSet(queue') = ToSet(queue) \cup {p} /\ p \in DOMAIN mem'.pods
         /\ writer'.pod \in DOMAIN m.pods => writer'.pod \in DOMAIN mem'.pods
         /\ DOMAIN mem'.pods \subseteq DOMAIN m.pods
         /\ \A q \in DOMAIN mem'.pods : q # p => mem'.pods[q] = m.pods[q]
         /\ mem'.pods[p].data.rn = m.pods[p].data.rn /\ mem'.pods[p].data.prev = m.pods[p].data.prev
         /\ mem'.pods[p].data.magic = magic /\ mem'.pods[p].op = op /\ mem'.pods[p].pinned = m.pods[p].pinned
<1> DEFINE c == WithMagicOp(m, p, magic, op)
<1>1. /\ Changed(m, c, p)
      /\ c.pods[p].data.rn = m.pods[p].data.rn /\ c.pods[p].data.prev = m.pods[p].data.prev
      /\ c.pods[p].data.magic = magic /\ c.pods[p].op = op /\ c.pods[p].pinned = m.pods[p].pinned
  BY QueuedIs
<1>2. /\ Settle(c)
      /\ \E i \in 1..Len(queue) + 1 :
           /\ queue' = InsertAt(queue, i, p)
           /\ late' = late \cup {rn \in older'[m.pods[p].data.rn] :
                                   \E j \in i..Len(queue) : mem.pods[queue[j]].data.rn = rn}
  BY DEF Queue, WithMagicOp
<1> HIDE DEF c
<1>3. /\ MemOK(c) /\ c.cache = m.cache /\ c.lru = m.lru /\ DOMAIN c.pods = DOMAIN m.pods
      /\ \A q \in DOMAIN m.pods : q # p => c.pods[q] = m.pods[q]
  BY <1>1 DEF Changed
<1>4. /\ MemOK(mem') /\ mem'.cache = c.cache /\ mem'.lru = c.lru
      /\ DOMAIN mem'.pods \subseteq DOMAIN c.pods
      /\ \A q \in DOMAIN mem'.pods : mem'.pods[q] = c.pods[q]
      /\ held' \cap DOMAIN c.pods \subseteq DOMAIN mem'.pods
      /\ ToSet(queue') \cap DOMAIN c.pods \subseteq DOMAIN mem'.pods
      /\ writer'.pod \in DOMAIN c.pods => writer'.pod \in DOMAIN mem'.pods
  BY <1>2, <1>3, SettleIs
<1>5. queue' \in Seq(DOMAIN m.pods) /\ ToSet(queue') = ToSet(queue) \cup {p}
  BY <1>2, InsertAtIs
<1>6. ToSet(queue') \subseteq DOMAIN mem'.pods
  BY <1>3, <1>4, <1>5, ToSetOf
<1>7. queue' \in Seq(DOMAIN mem'.pods)
  BY <1>5, <1>6 DEF ToSet
<1>8. p \in DOMAIN mem'.pods /\ PodNum(p)' = m.pods[p].data.rn
  <2>1. p \in ToSet(queue')
    BY <1>5
  <2>2. p \in DOMAIN mem'.pods
    BY <1>6, <2>1
  <2> QED
    BY <1>1, <1>4, <2>2 DEF PodNum
<1>9. Inserted(p)
  <2>1. PICK i \in 1..Len(queue) + 1 :
          /\ queue' = InsertAt(queue, i, p)
          /\ late' = late \cup {rn \in older'[m.pods[p].data.rn] :
                                  \E j \in i..Len(queue) : mem.pods[queue[j]].data.rn = rn}
    BY <1>2
  <2>2. /\ DOMAIN queue' = 1..Len(queue) + 1 /\ queue'[i] = p
        /\ \A j \in 1..i - 1 : queue'[j] = queue[j]
        /\ \A j \in i..Len(queue) : queue'[j + 1] = queue[j]
    BY <2>1, InsertAtIs
  <2>3. late' = late \cup {rn \in older'[PodNum(p)'] : \E j \in i..Len(queue) : PodNum(queue[j]) = rn}
    BY <1>8, <2>1 DEF PodNum
  <2> QED
    BY <2>2, <2>3 DEF Inserted
<1> QED
  BY <1>1, <1>2, <1>3, <1>4, <1>5, <1>6, <1>7, <1>8, <1>9

LEMMA TypeFacts ==
  ASSUME TypeInv
  PROVE  /\ MemOK(mem) /\ FilesOK(fs) /\ held \subseteq DOMAIN mem.pods /\ queue \in Seq(DOMAIN mem.pods)
         /\ mem.pods \in [DOMAIN mem.pods -> Pod] /\ DOMAIN mem.pods \subseteq Pods
         /\ nextRN \in Nat /\ fileRN \in Nat /\ minRN \in Nat /\ MaxRN \in Nat
         /\ nextRN <= MaxRN /\ fileRN <= MaxRN /\ minRN <= MaxRN
         /\ older \in [RN -> SUBSET RN] /\ kept \subseteq RN /\ filled \subseteq RN
BY StoreAssumption DEF TypeInv, PodsTyped, MemOK, NumbersTyped, HistoryTyped

LEMMA AllocateIs ==
  ASSUME TypeInv, NEW prev \in 0..nextRN, Allocate(mem, prev)
  PROVE  LET p == NewPod IN
         /\ p \in Pods \ DOMAIN mem.pods /\ nextRN \in RN
         /\ MemOK(mem') /\ mem'.cache = mem.cache /\ mem'.lru = mem.lru
         /\ DOMAIN mem'.pods = DOMAIN mem.pods \cup {p}
         /\ mem'.pods[p] = [data |-> [rn |-> nextRN, prev |-> prev, magic |-> "allocated"],
                            op |-> "none", pinned |-> FALSE]
         /\ \A q \in DOMAIN mem.pods : mem'.pods[q] = mem.pods[q]
<1>1. CanAlloc /\ nextRN < MaxRN
  BY DEF Allocate
<1>2. MemOK(mem) /\ nextRN \in Nat /\ MaxRN \in Nat
  BY TypeFacts
<1> DEFINE p == NewPod
           data == [rn |-> nextRN, prev |-> prev, magic |-> "allocated"]
<1>3. p \in Pods \ DOMAIN mem.pods
  BY <1>1, <1>2, NewPodIs
<1>4. data \in Trailer /\ nextRN \in RN
  BY <1>1, <1>2 DEF Trailer, RN, Magic
<1>5. mem' = AddPod(mem, p, data)
  BY DEF Allocate
<1> HIDE DEF p, data
<1>6. /\ MemOK(mem') /\ mem'.cache = mem.cache /\ mem'.lru = mem.lru
      /\ DOMAIN mem'.pods = DOMAIN mem.pods \cup {p}
      /\ mem'.pods[p] = [data |-> data, op |-> "none", pinned |-> FALSE]
      /\ \A q \in DOMAIN mem.pods : q # p => mem'.pods[q] = mem.pods[q]
  BY <1>2, <1>3, <1>4, <1>5, AddPodIs
<1> QED
  BY <1>3, <1>4, <1>6 DEF p, data

\* What get__() finds of a record that is committed.
Present(rn) ==
  \/ At(fs, rn).magic = "committed"
  \/ \E q \in ToSet(mem.cache) : PodNum(q) = rn /\ PodMagic(q) = "committed"

LEMMA NewRecordIs ==
  ASSUME TypeInv, Push \/ Update
  PROVE  Opened(fs, fs') /\ \E prev \in 0..nextRN : Allocate(mem, prev) /\ (prev = nextRN \/ Present(prev))
<1>0. MemOK(mem) /\ FilesOK(fs) /\ nextRN \in Nat /\ nextRN <= MaxRN /\ MaxRN \in Nat
  BY TypeFacts
<1>1. CASE Push
  BY <1>0, <1>1 DEF Push, Opened
<1>2. CASE Update
  <2>1. PICK prev \in 0..(nextRN - 1) : 
        CanAlloc /\ Load(prev).magic = "committed" /\ fs' = Load(prev).fs /\ Allocate(mem, prev)
    BY <1>2 DEF Update
  <2>2. prev \in RN /\ prev \in 0..nextRN
    BY <1>0 DEF RN
  <2>3. Opened(fs, Load(prev).fs)
    BY <1>0, <2>1, <2>2, LoadIs
  <2>4. Present(prev)
    <3> DEFINE l == Load(prev)
    <3>1. /\ l.magic # "none" => l.mem.pods[l.pod].data.magic = l.magic
          /\ \A q \in DOMAIN mem.pods : l.mem.pods[q] = mem.pods[q]
          /\ Hit(prev) => /\ l.pod \in ToSet(mem.cache) /\ l.pod \in DOMAIN mem.pods
                          /\ mem.pods[l.pod].data.rn = prev
          /\ ~Hit(prev) /\ l.magic # "none" =>
               l.mem.pods[l.pod] = [data |-> At(fs, prev), op |-> "none", pinned |-> FALSE]
      BY <1>0, <2>1, <2>2, LoadIs
    <3>2. l.magic = "committed"
      BY <2>1
    <3> HIDE DEF l
    <3> QED
      BY <3>1, <3>2 DEF Present, PodNum, PodMagic
  <2> QED
    BY <2>1, <2>2, <2>3, <2>4
<1> QED
  BY <1>1, <1>2

LEMMA PutIs ==
  ASSUME TypeInv, NEW p \in held, NEW replace \in BOOLEAN, Put(p, replace)
  PROVE  /\ MemOK(mem') /\ ToSet(mem'.cache) \subseteq ToSet(mem.cache) \cup {p}
         /\ p \in ToSet(mem'.cache) /\ ToSet(mem'.lru) \subseteq ToSet(mem.lru) \cup {p}
         /\ \A q \in DOMAIN mem.pods :
              Fast(mem, q) /\ q # p /\ (PodPrev(p) = PodNum(p) \/ PodNum(q) # PodPrev(p)) => q \in ToSet(mem'.cache)
         /\ Inserted(p) /\ queue' \in Seq(DOMAIN mem'.pods) /\ held' \subseteq DOMAIN mem'.pods
         /\ ToSet(queue') = ToSet(queue) \cup {p} /\ p \in DOMAIN mem'.pods /\ p \in DOMAIN mem.pods
         /\ writer.pod \in DOMAIN mem.pods => writer.pod \in DOMAIN mem'.pods
         /\ DOMAIN mem'.pods \subseteq DOMAIN mem.pods
         /\ \A q \in DOMAIN mem'.pods : q # p => mem'.pods[q] = mem.pods[q]
         /\ mem'.pods[p].data.rn = mem.pods[p].data.rn /\ mem'.pods[p].data.prev = mem.pods[p].data.prev
         /\ mem'.pods[p].data.magic = "committed" /\ mem'.pods[p].op = (IF replace THEN "upd" ELSE "add")
         /\ mem'.pods[p].pinned = TRUE
<1> DEFINE d == mem.pods[p].data
           m == IF d.prev = d.rn THEN mem ELSE CacheDel(mem, d.prev)
           k == PinCommitted(m, p)
           c == Cache(k, p)
           op == IF replace THEN "upd" ELSE "add"
<1>0. /\ MemOK(mem) /\ p \in DOMAIN mem.pods /\ held \subseteq DOMAIN mem.pods
      /\ queue \in Seq(DOMAIN mem.pods)
  BY TypeFacts
<1>1. Committed(p) = c
  BY DEF Committed, PinCommitted
<1>2. Queue(c, p, "committed", op) /\ held' = held \ {p} /\ writer' = writer
  BY <1>1 DEF Put
<1>3. /\ MemOK(m) /\ m.pods = mem.pods /\ ToSet(m.cache) \subseteq ToSet(mem.cache)
      /\ ToSet(m.lru) \subseteq ToSet(mem.lru)
      /\ d.prev = d.rn \/ Keeps(mem, m, d.prev)
      /\ d.prev = d.rn => m = mem
  BY <1>0, CacheDelIs DEF Cacheable
<1> HIDE DEF m
<1>4. /\ Changed(m, k, p)
      /\ k.pods[p].data.rn = m.pods[p].data.rn /\ k.pods[p].data.prev = m.pods[p].data.prev
      /\ k.pods[p].data.magic = "committed" /\ k.pods[p].op = m.pods[p].op /\ k.pods[p].pinned = TRUE
  BY <1>0, <1>3, CommittedIs
<1> HIDE DEF k
<1>5. /\ MemOK(k) /\ k.cache = m.cache /\ k.lru = m.lru /\ DOMAIN k.pods = DOMAIN mem.pods
      /\ \A q \in DOMAIN mem.pods : q # p => k.pods[q] = mem.pods[q]
  BY <1>3, <1>4 DEF Changed
<1>6. /\ MemOK(c) /\ c.pods = k.pods /\ ToSet(c.cache) \subseteq ToSet(k.cache) \cup {p}
      /\ p \in ToSet(c.cache) /\ ToSet(c.lru) \subseteq ToSet(k.lru) \cup {p}
      /\ \A q : Fast(k, q) => q \in ToSet(c.cache)
  BY <1>0, <1>5, CacheIs DEF Cacheable
<1> HIDE DEF c
<1>7. op \in Op /\ op \in {"add", "upd"} /\ "committed" \in Magic
  BY DEF Op, Magic
<1> HIDE DEF op
<1>8. /\ p \in DOMAIN c.pods /\ queue \in Seq(DOMAIN c.pods) /\ held' \subseteq DOMAIN c.pods
  BY <1>0, <1>2, <1>5, <1>6
<1>9. /\ MemOK(mem') /\ mem'.cache = c.cache /\ mem'.lru = c.lru
      /\ Inserted(p) /\ queue' \in Seq(DOMAIN mem'.pods) /\ held' \subseteq DOMAIN mem'.pods
      /\ ToSet(queue') = ToSet(queue) \cup {p} /\ p \in DOMAIN mem'.pods
      /\ writer'.pod \in DOMAIN c.pods => writer'.pod \in DOMAIN mem'.pods
      /\ DOMAIN mem'.pods \subseteq DOMAIN c.pods
      /\ \A q \in DOMAIN mem'.pods : q # p => mem'.pods[q] = c.pods[q]
      /\ mem'.pods[p].data.rn = c.pods[p].data.rn /\ mem'.pods[p].data.prev = c.pods[p].data.prev
      /\ mem'.pods[p].data.magic = "committed" /\ mem'.pods[p].op = op /\ mem'.pods[p].pinned = c.pods[p].pinned
  BY <1>2, <1>6, <1>7, <1>8, QueueIs
<1>10. ASSUME NEW q \in DOMAIN mem.pods, Fast(mem, q), q # p, d.prev = d.rn \/ mem.pods[q].data.rn # d.prev
       PROVE  q \in ToSet(c.cache)
  <2>1. q \in ToSet(m.cache)
    BY <1>3, <1>10 DEF Fast, Keeps
  <2>2. k.pods[q] = mem.pods[q]
    BY <1>5, <1>10
  <2>3. ASSUME NEW l \in ToSet(k.lru), l # q
        PROVE  k.pods[l].data.rn # k.pods[q].data.rn
    <3>1. l \in ToSet(mem.lru) /\ l \in DOMAIN mem.pods
      BY <1>0, <1>3, <1>5, <2>3, ToSetOf DEF MemOK
    <3>2. k.pods[l].data.rn = mem.pods[l].data.rn
      BY <1>3, <1>4, <1>5, <3>1
    <3> QED
      BY <1>10, <2>2, <2>3, <3>1, <3>2 DEF Fast
  <2>4. Fast(k, q)
    BY <1>5, <1>10, <2>1, <2>2, <2>3 DEF Fast
  <2> QED
    BY <1>6, <2>4
<1>11. \A q \in DOMAIN mem.pods :
         Fast(mem, q) /\ q # p /\ (PodPrev(p) = PodNum(p) \/ PodNum(q) # PodPrev(p)) => q \in ToSet(mem'.cache)
  BY <1>9, <1>10 DEF PodNum, PodPrev
<1> QED
  BY <1>0, <1>2, <1>3, <1>4, <1>5, <1>6, <1>7, <1>9, <1>11 DEF op

LEMMA AbortIs ==
  ASSUME TypeInv, NEW p \in held, Abort(p)
  PROVE  /\ MemOK(mem') /\ mem'.cache = mem.cache /\ mem'.lru = mem.lru
         /\ Inserted(p) /\ queue' \in Seq(DOMAIN mem'.pods) /\ held' \subseteq DOMAIN mem'.pods
         /\ ToSet(queue') = ToSet(queue) \cup {p} /\ p \in DOMAIN mem'.pods /\ p \in DOMAIN mem.pods
         /\ writer.pod \in DOMAIN mem.pods => writer.pod \in DOMAIN mem'.pods
         /\ DOMAIN mem'.pods \subseteq DOMAIN mem.pods
         /\ \A q \in DOMAIN mem'.pods : q # p => mem'.pods[q] = mem.pods[q]
         /\ mem'.pods[p].data.rn = mem.pods[p].data.rn /\ mem'.pods[p].data.prev = mem.pods[p].data.prev
         /\ mem'.pods[p].data.magic = "deleted" /\ mem'.pods[p].op = "del"
<1>0. /\ MemOK(mem) /\ p \in DOMAIN mem.pods /\ held \subseteq DOMAIN mem.pods
      /\ queue \in Seq(DOMAIN mem.pods)
  BY TypeFacts
<1>1. Queue(mem, p, "deleted", "del") /\ held' = held \ {p} /\ writer' = writer
  BY DEF Abort
<1>2. "del" \in Op /\ "deleted" \in Magic /\ held' \subseteq DOMAIN mem.pods
  BY <1>0, <1>1 DEF Op, Magic
<1>3. /\ MemOK(mem') /\ mem'.cache = mem.cache /\ mem'.lru = mem.lru
      /\ Inserted(p) /\ queue' \in Seq(DOMAIN mem'.pods) /\ held' \subseteq DOMAIN mem'.pods
      /\ ToSet(queue') = ToSet(queue) \cup {p} /\ p \in DOMAIN mem'.pods
      /\ writer'.pod \in DOMAIN mem.pods => writer'.pod \in DOMAIN mem'.pods
      /\ DOMAIN mem'.pods \subseteq DOMAIN mem.pods
      /\ \A q \in DOMAIN mem'.pods : q # p => mem'.pods[q] = mem.pods[q]
      /\ mem'.pods[p].data.rn = mem.pods[p].data.rn /\ mem'.pods[p].data.prev = mem.pods[p].data.prev
      /\ mem'.pods[p].data.magic = "deleted" /\ mem'.pods[p].op = "del" /\ mem'.pods[p].pinned = mem.pods[p].pinned
  BY <1>0, <1>1, <1>2, QueueIs
<1> QED
  BY <1>0, <1>1, <1>3

\* What is used of a memory stays, when no call is queued.
LEMMA SettleSameIs ==
  ASSUME TypeInv, NEW m, MemOK(m), DOMAIN mem.pods \subseteq DOMAIN m.pods, Settle(m),
         UNCHANGED <<held, queue>>, writer'.pod = writer.pod
  PROVE  /\ MemOK(mem') /\ mem'.cache = m.cache /\ mem'.lru = m.lru /\ DOMAIN mem'.pods \subseteq DOMAIN m.pods
         /\ \A q \in DOMAIN mem'.pods : mem'.pods[q] = m.pods[q]
         /\ held' \subseteq DOMAIN mem'.pods /\ queue' \in Seq(DOMAIN mem'.pods)
         /\ writer.pod \in DOMAIN mem.pods => writer.pod \in DOMAIN mem'.pods
<1>0. held \subseteq DOMAIN mem.pods /\ queue \in Seq(DOMAIN mem.pods)
  BY TypeFacts
<1>1. /\ MemOK(mem') /\ mem'.cache = m.cache /\ mem'.lru = m.lru /\ DOMAIN mem'.pods \subseteq DOMAIN m.pods
      /\ \A q \in DOMAIN mem'.pods : mem'.pods[q] = m.pods[q]
      /\ held' \cap DOMAIN m.pods \subseteq DOMAIN mem'.pods
      /\ ToSet(queue') \cap DOMAIN m.pods \subseteq DOMAIN mem'.pods
      /\ writer'.pod \in DOMAIN m.pods => writer'.pod \in DOMAIN mem'.pods
  BY SettleIs
<1>2. ToSet(queue) \subseteq DOMAIN mem'.pods
  BY <1>0, <1>1, ToSetOf
<1>3. queue \in Seq(DOMAIN mem'.pods)
  BY <1>0, <1>2 DEF ToSet
<1> QED
  BY <1>0, <1>1, <1>3

\* A record that is loaded and one that was in memory.
Loaded(rn) == [data |-> At(fs, rn), op |-> "none", pinned |-> FALSE]

LEMMA GetIs ==
  ASSUME TypeInv, Get
  PROVE  /\ Opened(fs, fs')
         /\ MemOK(mem') /\ held' \subseteq DOMAIN mem'.pods /\ queue' \in Seq(DOMAIN mem'.pods)
         /\ writer.pod \in DOMAIN mem.pods => writer.pod \in DOMAIN mem'.pods
         /\ UNCHANGED <<held, queue, writer>>
         /\ \E rn \in 0..(nextRN - 1), c \in Pods :
              /\ \A q \in DOMAIN mem'.pods :
                   \/ q \in DOMAIN mem.pods /\ mem'.pods[q] = mem.pods[q]
                   \/ /\ q = c /\ c \notin DOMAIN mem.pods /\ mem'.pods[q] = Loaded(rn)
                      /\ At(fs, rn).magic = "committed"
              /\ ToSet(mem'.cache) \subseteq ToSet(mem.cache) \cup (DOMAIN mem'.pods \ DOMAIN mem.pods)
              /\ ToSet(mem'.lru) \subseteq ToSet(mem.lru) \cup ToSet(mem.cache) \cup (DOMAIN mem'.pods \ DOMAIN mem.pods)
              /\ \A q : Fast(mem, q) => q \in ToSet(mem'.cache)
<1>0. MemOK(mem) /\ FilesOK(fs) /\ nextRN \in Nat /\ nextRN <= MaxRN /\ MaxRN \in Nat
  BY TypeFacts
<1>1. PICK rn \in 0..(nextRN - 1) :
        LET l == Load(rn) IN
        /\ CanAlloc /\ fs' = l.fs
        /\ UNCHANGED <<held, queue, writer>>
        /\ Settle(IF l.magic # "committed" THEN mem
                  ELSE IF l.cached THEN [l.mem EXCEPT !.lru = Append(RemoveFirst(@, l.pod), l.pod)]
                  ELSE Cache(l.mem, l.pod))
  BY DEF Get
<1>2. rn \in RN
  BY <1>0 DEF RN
<1> DEFINE l == Load(rn)
           lru == Append(RemoveFirst(l.mem.lru, l.pod), l.pod)
           m == IF l.magic # "committed" THEN mem
                ELSE IF l.cached THEN [l.mem EXCEPT !.lru = lru]
                ELSE Cache(l.mem, l.pod)
<1>3. /\ Opened(fs, l.fs)
      /\ MemOK(l.mem) /\ l.mem.cache = mem.cache /\ l.mem.lru = mem.lru /\ l.pod \in Pods
      /\ l.cached <=> Hit(rn)
      /\ DOMAIN mem.pods \subseteq DOMAIN l.mem.pods /\ DOMAIN l.mem.pods \subseteq DOMAIN mem.pods \cup {l.pod}
      /\ \A q \in DOMAIN mem.pods : l.mem.pods[q] = mem.pods[q]
      /\ l.magic # "none" => l.pod \in DOMAIN l.mem.pods /\ l.mem.pods[l.pod].data.magic = l.magic
      /\ Hit(rn) => /\ l.pod \in ToSet(mem.cache) /\ l.pod \in DOMAIN mem.pods
                    /\ mem.pods[l.pod].data.rn = rn /\ l.magic # "none"
      /\ ~Hit(rn) => /\ l.pod \notin DOMAIN mem.pods
                     /\ l.magic # "none" =>
                          l.mem.pods[l.pod] = [data |-> At(fs, rn), op |-> "none", pinned |-> FALSE]
  BY <1>0, <1>1, <1>2, LoadIs
<1>4. fs' = l.fs /\ UNCHANGED <<held, queue, writer>> /\ Settle(m)
  BY <1>1
<1> HIDE DEF l
<1>5. CASE l.magic # "committed"
  <2>1. m = mem
    BY <1>5
  <2> HIDE DEF m
  <2>2. /\ MemOK(mem') /\ mem'.cache = mem.cache /\ mem'.lru = mem.lru /\ DOMAIN mem'.pods \subseteq DOMAIN mem.pods
        /\ \A q \in DOMAIN mem'.pods : mem'.pods[q] = mem.pods[q]
        /\ held' \subseteq DOMAIN mem'.pods /\ queue' \in Seq(DOMAIN mem'.pods)
        /\ writer.pod \in DOMAIN mem.pods => writer.pod \in DOMAIN mem'.pods
    BY <1>0, <1>4, <2>1, SettleSameIs
  <2> QED
    BY <1>3, <1>4, <2>2 DEF Fast
<1>6. CASE l.magic = "committed"
  <2>1. /\ l.pod \in DOMAIN l.mem.pods
        /\ l.cached => l.pod \in ToSet(mem.cache) /\ l.pod \in DOMAIN mem.pods
        /\ ~l.cached => l.pod \notin DOMAIN mem.pods /\ l.mem.pods[l.pod] = Loaded(rn)
        /\ ~l.cached => At(fs, rn).magic = "committed"
    BY <1>3, <1>6 DEF Loaded
  <2>2. /\ MemOK(m) /\ m.pods = l.mem.pods
        /\ ToSet(m.cache) \subseteq ToSet(mem.cache) \cup IF l.cached THEN {} ELSE {l.pod}
        /\ ToSet(m.lru) \subseteq ToSet(mem.lru) \cup ToSet(mem.cache) \cup {l.pod}
        /\ \A q : Fast(mem, q) => q \in ToSet(m.cache)
    <3>1. CASE l.cached
      <4>1. l.mem.lru \in Seq(DOMAIN l.mem.pods)
        BY <1>3 DEF MemOK
      <4> DEFINE s == RemoveFirst(l.mem.lru, l.pod)
      <4>5. s \in Seq(DOMAIN l.mem.pods) /\ ToSet(s) \subseteq ToSet(l.mem.lru)
        BY <4>1, RemoveFirstIs
      <4> HIDE DEF s
      <4>6. Append(s, l.pod) \in Seq(DOMAIN l.mem.pods) /\ ToSet(Append(s, l.pod)) = ToSet(s) \cup {l.pod}
        <5> DEFINE S == DOMAIN l.mem.pods
                   x == l.pod
        <5>1. s \in Seq(S) /\ x \in S
          BY <2>1, <4>5
        <5> HIDE DEF S, x
        <5>2. Append(s, x) \in Seq(S) /\ ToSet(Append(s, x)) = ToSet(s) \cup {x}
          BY <5>1, AppendIs
        <5> QED
          BY <5>2 DEF S, x
      <4>2. lru \in Seq(DOMAIN l.mem.pods) /\ ToSet(lru) \subseteq ToSet(mem.lru) \cup {l.pod}
        BY <1>3, <4>5, <4>6 DEF s
      <4>3. m = [l.mem EXCEPT !.lru = lru]
        BY <1>6, <3>1
      <4> HIDE DEF lru, m
      <4>4. Cacheable(l.mem, m, {}) /\ m.lru = lru /\ m.cache = l.mem.cache
        BY <1>3, <4>2, <4>3, LruIs
      <4> QED
        BY <1>3, <3>1, <4>2, <4>4 DEF Cacheable, Fast
    <3>2. CASE ~l.cached
      <4>1. m = Cache(l.mem, l.pod)
        BY <1>6, <3>2
      <4> HIDE DEF m
      <4>2. /\ Cacheable(l.mem, m, {l.pod}) /\ ToSet(m.lru) \subseteq ToSet(l.mem.lru) \cup {l.pod}
            /\ \A q : Fast(l.mem, q) => q \in ToSet(m.cache)
        BY <1>3, <2>1, <4>1, CacheIs
      <4>3. ToSet(mem.cache) \subseteq DOMAIN mem.pods /\ ToSet(mem.lru) \subseteq DOMAIN mem.pods
        BY <1>0, ToSetOf DEF MemOK
      <4>4. \A q : Fast(mem, q) => Fast(l.mem, q)
        BY <1>3, <4>3 DEF Fast
      <4> QED
        BY <1>3, <3>2, <4>2, <4>4 DEF Cacheable
    <3> QED
      BY <3>1, <3>2
  <2> HIDE DEF m
  <2>3. DOMAIN mem.pods \subseteq DOMAIN m.pods
    BY <1>3, <2>2
  <2>4. /\ MemOK(mem') /\ mem'.cache = m.cache /\ mem'.lru = m.lru /\ DOMAIN mem'.pods \subseteq DOMAIN m.pods
        /\ \A q \in DOMAIN mem'.pods : mem'.pods[q] = m.pods[q]
        /\ held' \subseteq DOMAIN mem'.pods /\ queue' \in Seq(DOMAIN mem'.pods)
        /\ writer.pod \in DOMAIN mem.pods => writer.pod \in DOMAIN mem'.pods
    BY <1>4, <2>2, <2>3, SettleSameIs
  <2>5. \A q \in DOMAIN mem'.pods :
          \/ q \in DOMAIN mem.pods /\ mem'.pods[q] = mem.pods[q]
          \/ /\ q = l.pod /\ l.pod \notin DOMAIN mem.pods /\ mem'.pods[q] = Loaded(rn)
             /\ At(fs, rn).magic = "committed"
    <3> SUFFICES ASSUME NEW q \in DOMAIN mem'.pods
                 PROVE  \/ q \in DOMAIN mem.pods /\ mem'.pods[q] = mem.pods[q]
                        \/ /\ q = l.pod /\ l.pod \notin DOMAIN mem.pods /\ mem'.pods[q] = Loaded(rn)
                           /\ At(fs, rn).magic = "committed"
      OBVIOUS
    <3>1. q \in DOMAIN mem.pods \/ q = l.pod
      BY <1>3, <2>2, <2>4
    <3>2. mem'.pods[q] = l.mem.pods[q]
      BY <2>2, <2>4
    <3>3. CASE q \in DOMAIN mem.pods
      BY <1>3, <3>2, <3>3
    <3>4. CASE q \notin DOMAIN mem.pods
      BY <2>1, <3>1, <3>2, <3>4
    <3> QED
      BY <3>3, <3>4
  <2>6. ToSet(mem'.cache) \subseteq ToSet(mem.cache) \cup (DOMAIN mem'.pods \ DOMAIN mem.pods)
    <3>1. ToSet(mem'.cache) \subseteq DOMAIN mem'.pods
      BY <2>4, ToSetOf DEF MemOK
    <3> QED
      BY <2>1, <2>2, <2>4, <3>1
  <2>7. ToSet(mem'.lru) \subseteq ToSet(mem.lru) \cup ToSet(mem.cache) \cup (DOMAIN mem'.pods \ DOMAIN mem.pods)
    <3>1. ToSet(mem'.lru) \subseteq DOMAIN mem'.pods
      BY <2>4, ToSetOf DEF MemOK
    <3> QED
      BY <2>1, <2>2, <2>4, <3>1
  <2> QED
    BY <1>3, <1>4, <2>2, <2>4, <2>5, <2>6, <2>7
<1> QED
  BY <1>5, <1>6

\* del() and purge(): the record that was loaded leaves the cache and is queued, deleted.
Condemned(c) ==
  /\ MemOK(mem') /\ ToSet(mem'.cache) \subseteq ToSet(mem.cache) /\ ToSet(mem'.lru) \subseteq ToSet(mem.lru)
  /\ Inserted(c) /\ queue' \in Seq(DOMAIN mem'.pods) /\ held' \subseteq DOMAIN mem'.pods
  /\ UNCHANGED <<held, writer>>
  /\ ToSet(queue') = ToSet(queue) \cup {c} /\ c \in DOMAIN mem'.pods
  /\ writer.pod \in DOMAIN mem.pods => writer.pod \in DOMAIN mem'.pods
  /\ \A q \in DOMAIN mem'.pods : q # c => q \in DOMAIN mem.pods /\ mem'.pods[q] = mem.pods[q]
  /\ mem'.pods[c].data.magic = "deleted" /\ mem'.pods[c].op = "del"

LEMMA DelIs ==
  ASSUME TypeInv, Del
  PROVE  /\ Opened(fs, fs') /\ nextRN \in RN /\ nextRN' = nextRN + 1
         /\ \E rn \in 0..(nextRN - 1), c \in Pods :
              /\ Condemned(c)
              /\ older' = [older EXCEPT ![nextRN] = {rn} \cup older[rn]]
              /\ live' = live \ ({rn} \cup older[rn])
              /\ mem'.pods[c].data.rn = nextRN /\ mem'.pods[c].data.prev = rn
              /\ c \in DOMAIN mem.pods =>
                   /\ mem.pods[c].data.magic = "committed" /\ (~mem.pods[c].pinned \/ DelQueued)
                   /\ mem.pods[c].data.rn = rn /\ c \in ToSet(mem.cache)
              /\ c \notin DOMAIN mem.pods => At(fs, rn).magic = "committed"
              /\ \A q \in ToSet(mem.cache) : mem.pods[q].data.rn # rn => q \in ToSet(mem'.cache)
<1>0. /\ MemOK(mem) /\ FilesOK(fs) /\ nextRN \in Nat /\ nextRN <= MaxRN /\ MaxRN \in Nat
      /\ held \subseteq DOMAIN mem.pods /\ queue \in Seq(DOMAIN mem.pods)
  BY TypeFacts
<1>1. PICK rn \in 0..(nextRN - 1) :
        LET l == Load(rn)
            m == CacheDel(l.mem, rn)
        IN /\ CanAlloc /\ l.magic = "committed" /\ nextRN < MaxRN
           /\ ~l.mem.pods[l.pod].pinned \/ DelQueued
           /\ fs' = l.fs /\ nextRN' = nextRN + 1
           /\ older' = [older EXCEPT ![nextRN] = {rn} \cup older[rn]]
           /\ live' = live \ ({rn} \cup older[rn])
           /\ UNCHANGED <<held, writer>>
           /\ Queue([m EXCEPT !.pods[l.pod].data.rn = nextRN, !.pods[l.pod].data.prev = rn], l.pod, "deleted", "del")
  BY DEF Del
<1>2. rn \in RN /\ nextRN \in RN
  BY <1>0, <1>1 DEF RN
<1> DEFINE l == Load(rn)
           c == l.pod
           m == CacheDel(l.mem, rn)
           k == Renumber(m, c, nextRN, rn)
<1>3. /\ Opened(fs, l.fs)
      /\ MemOK(l.mem) /\ l.mem.cache = mem.cache /\ l.mem.lru = mem.lru /\ l.pod \in Pods
      /\ l.cached <=> Hit(rn)
      /\ DOMAIN mem.pods \subseteq DOMAIN l.mem.pods /\ DOMAIN l.mem.pods \subseteq DOMAIN mem.pods \cup {l.pod}
      /\ \A q \in DOMAIN mem.pods : l.mem.pods[q] = mem.pods[q]
      /\ l.magic # "none" => l.pod \in DOMAIN l.mem.pods /\ l.mem.pods[l.pod].data.magic = l.magic
      /\ Hit(rn) => /\ l.pod \in ToSet(mem.cache) /\ l.pod \in DOMAIN mem.pods
                    /\ mem.pods[l.pod].data.rn = rn /\ l.magic # "none"
      /\ ~Hit(rn) => /\ l.pod \notin DOMAIN mem.pods
                     /\ l.magic # "none" =>
                          l.mem.pods[l.pod] = [data |-> At(fs, rn), op |-> "none", pinned |-> FALSE]
  BY <1>0, <1>1, <1>2, LoadIs
<1>4. /\ l.magic = "committed" /\ (~l.mem.pods[c].pinned \/ DelQueued)
      /\ fs' = l.fs /\ nextRN' = nextRN + 1
      /\ older' = [older EXCEPT ![nextRN] = {rn} \cup older[rn]]
      /\ live' = live \ ({rn} \cup older[rn])
      /\ UNCHANGED <<held, writer>>
      /\ Queue(k, c, "deleted", "del")
  BY <1>1 DEF Renumber
<1> HIDE DEF l
<1>5. /\ MemOK(m) /\ m.pods = l.mem.pods /\ ToSet(m.cache) \subseteq ToSet(mem.cache)
      /\ ToSet(m.lru) \subseteq ToSet(mem.lru) /\ Keeps(l.mem, m, rn)
  BY <1>3, CacheDelIs DEF Cacheable
<1> HIDE DEF m
<1>14. \A q \in ToSet(mem.cache) : mem.pods[q].data.rn # rn => q \in ToSet(m.cache)
  <2>1. ToSet(mem.cache) \subseteq DOMAIN mem.pods
    BY <1>0, ToSetOf DEF MemOK
  <2> QED
    BY <1>3, <1>5, <2>1 DEF Keeps
<1>6. c \in DOMAIN m.pods
  BY <1>3, <1>4, <1>5
<1>7. /\ Changed(m, k, c)
      /\ k.pods[c].data.rn = nextRN /\ k.pods[c].data.prev = rn
  BY <1>2, <1>5, <1>6, RenumberedIs
<1> HIDE DEF k
<1>8. /\ MemOK(k) /\ k.cache = m.cache /\ k.lru = m.lru /\ DOMAIN k.pods = DOMAIN l.mem.pods
      /\ \A q \in DOMAIN l.mem.pods : q # c => k.pods[q] = l.mem.pods[q]
  BY <1>5, <1>7 DEF Changed
<1>9. /\ c \in DOMAIN k.pods /\ queue \in Seq(DOMAIN k.pods) /\ held' \subseteq DOMAIN k.pods
      /\ "deleted" \in Magic /\ "del" \in Op
  BY <1>0, <1>3, <1>4, <1>5, <1>6, <1>8 DEF Op, Magic
<1>10. /\ MemOK(mem') /\ mem'.cache = k.cache /\ mem'.lru = k.lru
       /\ Inserted(c) /\ queue' \in Seq(DOMAIN mem'.pods) /\ held' \subseteq DOMAIN mem'.pods
       /\ ToSet(queue') = ToSet(queue) \cup {c} /\ c \in DOMAIN mem'.pods
       /\ writer'.pod \in DOMAIN k.pods => writer'.pod \in DOMAIN mem'.pods
       /\ DOMAIN mem'.pods \subseteq DOMAIN k.pods
       /\ \A q \in DOMAIN mem'.pods : q # c => mem'.pods[q] = k.pods[q]
       /\ mem'.pods[c].data.rn = k.pods[c].data.rn /\ mem'.pods[c].data.prev = k.pods[c].data.prev
       /\ mem'.pods[c].data.magic = "deleted" /\ mem'.pods[c].op = "del" /\ mem'.pods[c].pinned = k.pods[c].pinned
  BY <1>4, <1>8, <1>9, QueueIs
<1>11. Condemned(c)
  <2>1. \A q \in DOMAIN mem'.pods : q # c => q \in DOMAIN mem.pods /\ mem'.pods[q] = mem.pods[q]
    BY <1>3, <1>8, <1>10
  <2>2. writer.pod \in DOMAIN mem.pods => writer.pod \in DOMAIN mem'.pods
    BY <1>3, <1>4, <1>8, <1>10
  <2> QED
    BY <1>4, <1>5, <1>8, <1>10, <2>1, <2>2 DEF Condemned
<1>12. /\ c \in DOMAIN mem.pods =>
            /\ mem.pods[c].data.magic = "committed" /\ (~mem.pods[c].pinned \/ DelQueued)
            /\ mem.pods[c].data.rn = rn /\ c \in ToSet(mem.cache)
       /\ c \notin DOMAIN mem.pods => At(fs, rn).magic = "committed"
  <2>1. c \in DOMAIN mem.pods => l.mem.pods[c] = mem.pods[c]
    BY <1>3
  <2>2. l.mem.pods[c].data.magic = "committed"
    BY <1>3, <1>4
  <2>3. Hit(rn) <=> c \in DOMAIN mem.pods
    BY <1>3
  <2>4. ~Hit(rn) => l.mem.pods[c].data = At(fs, rn)
    BY <1>3, <1>4
  <2> QED
    BY <1>3, <1>4, <2>1, <2>2, <2>3, <2>4
<1>13. c \in Pods /\ mem'.pods[c].data.rn = nextRN /\ mem'.pods[c].data.prev = rn
  BY <1>3, <1>7, <1>10
<1>15. \A q \in ToSet(mem.cache) : mem.pods[q].data.rn # rn => q \in ToSet(mem'.cache)
  BY <1>8, <1>10, <1>14
<1> HIDE DEF c
<1> QED
  BY <1>2, <1>3, <1>4, <1>11, <1>12, <1>13, <1>15

LEMMA PurgeStepIs ==
  ASSUME TypeInv, PurgeStep
  PROVE  \/ /\ purging' = Idle /\ UNCHANGED <<mem, fs, minRN, queue, live, late, held, writer>>
         \/ /\ purging' = [purging EXCEPT !.rn = @ + 1] /\ purging.rn < nextRN /\ purging.rn \in RN
            /\ Opened(fs, fs')
            /\ \/ UNCHANGED <<mem, minRN, queue, live, late, held, writer>>
               \/ /\ minRN' = purging.rn
                  /\ \A q \in ToSet(mem.cache) : mem.pods[q].data.rn # purging.rn => q \in ToSet(mem'.cache)
                  /\ \E c \in Pods :
                       /\ Condemned(c)
                       /\ c \in DOMAIN mem.pods =>
                            /\ c \in ToSet(mem.cache) /\ mem.pods[c].data.rn = purging.rn
                            /\ mem'.pods[c].data.rn = mem.pods[c].data.rn
                            /\ mem'.pods[c].data.prev = mem.pods[c].data.prev
                       /\ c \notin DOMAIN mem.pods =>
                            /\ \A q \in ToSet(mem.cache) : mem.pods[q].data.rn # purging.rn
                            /\ mem'.pods[c].data.rn = At(fs, purging.rn).rn
                            /\ mem'.pods[c].data.prev = At(fs, purging.rn).prev
                       /\ live' = live \ ({mem'.pods[c].data.rn} \cup older[mem'.pods[c].data.rn])
<1>0. /\ MemOK(mem) /\ FilesOK(fs) /\ nextRN \in Nat /\ nextRN <= MaxRN /\ MaxRN \in Nat
      /\ held \subseteq DOMAIN mem.pods /\ queue \in Seq(DOMAIN mem.pods)
  BY TypeFacts
<1>1. purging \in [pod : {1}, rn : Nat, min : Nat] /\ CanAlloc
  BY DEF PurgeStep, TypeInv, PurgeTyped
<1>2. CASE purging.rn >= purging.min \/ purging.rn >= nextRN
  BY <1>2 DEF PurgeStep
<1>3. CASE ~(purging.rn >= purging.min \/ purging.rn >= nextRN)
  <2> DEFINE l == Load(purging.rn)
             c == l.pod
             m == CacheDel(l.mem, purging.rn)
             rn == l.mem.pods[c].data.rn
  <2>1. /\ purging' = [purging EXCEPT !.rn = @ + 1]
        /\ fs' = l.fs /\ UNCHANGED <<held, writer>>
        /\ IF l.magic = "none" THEN UNCHANGED <<mem, minRN, queue, live, late>>
           ELSE /\ minRN' = purging.rn
                /\ Queue(m, c, "deleted", "del")
                /\ live' = live \ ({rn} \cup older[rn])
    BY <1>3 DEF PurgeStep
  <2>2. purging.rn < nextRN /\ purging.rn \in RN
    BY <1>0, <1>1, <1>3 DEF RN
  <2>3. /\ Opened(fs, l.fs)
        /\ MemOK(l.mem) /\ l.mem.cache = mem.cache /\ l.mem.lru = mem.lru /\ l.pod \in Pods
        /\ l.cached <=> Hit(purging.rn)
        /\ DOMAIN mem.pods \subseteq DOMAIN l.mem.pods /\ DOMAIN l.mem.pods \subseteq DOMAIN mem.pods \cup {l.pod}
        /\ \A q \in DOMAIN mem.pods : l.mem.pods[q] = mem.pods[q]
        /\ l.magic # "none" => l.pod \in DOMAIN l.mem.pods /\ l.mem.pods[l.pod].data.magic = l.magic
        /\ Hit(purging.rn) => /\ l.pod \in ToSet(mem.cache) /\ l.pod \in DOMAIN mem.pods
                              /\ mem.pods[l.pod].data.rn = purging.rn /\ l.magic # "none"
        /\ ~Hit(purging.rn) => /\ l.pod \notin DOMAIN mem.pods
                               /\ l.magic # "none" =>
                                    l.mem.pods[l.pod] = [data |-> At(fs, purging.rn), op |-> "none", pinned |-> FALSE]
    BY <1>0, <1>1, <2>2, LoadIs
  <2> HIDE DEF l
  <2>4. CASE l.magic = "none"
    BY <2>1, <2>2, <2>3, <2>4
  <2>5. CASE l.magic # "none"
    <3>1. /\ MemOK(m) /\ m.pods = l.mem.pods /\ ToSet(m.cache) \subseteq ToSet(mem.cache)
          /\ ToSet(m.lru) \subseteq ToSet(mem.lru) /\ Keeps(l.mem, m, purging.rn)
      BY <2>3, CacheDelIs DEF Cacheable
    <3>2. Queue(m, c, "deleted", "del") /\ minRN' = purging.rn /\ live' = live \ ({rn} \cup older[rn])
      BY <2>1, <2>5
    <3> HIDE DEF m
    <3>3. /\ c \in DOMAIN m.pods /\ queue \in Seq(DOMAIN m.pods) /\ held' \subseteq DOMAIN m.pods
          /\ "deleted" \in Magic /\ "del" \in Op
      BY <1>0, <2>1, <2>3, <2>5, <3>1 DEF Op, Magic
    <3>4. /\ MemOK(mem') /\ mem'.cache = m.cache /\ mem'.lru = m.lru
          /\ Inserted(c) /\ queue' \in Seq(DOMAIN mem'.pods) /\ held' \subseteq DOMAIN mem'.pods
          /\ ToSet(queue') = ToSet(queue) \cup {c} /\ c \in DOMAIN mem'.pods
          /\ writer'.pod \in DOMAIN m.pods => writer'.pod \in DOMAIN mem'.pods
          /\ DOMAIN mem'.pods \subseteq DOMAIN m.pods
          /\ \A q \in DOMAIN mem'.pods : q # c => mem'.pods[q] = m.pods[q]
          /\ mem'.pods[c].data.rn = m.pods[c].data.rn /\ mem'.pods[c].data.prev = m.pods[c].data.prev
          /\ mem'.pods[c].data.magic = "deleted" /\ mem'.pods[c].op = "del" /\ mem'.pods[c].pinned = m.pods[c].pinned
      BY <3>1, <3>2, <3>3, QueueIs
    <3>5. Condemned(c)
      <4>1. \A q \in DOMAIN mem'.pods : q # c => q \in DOMAIN mem.pods /\ mem'.pods[q] = mem.pods[q]
        BY <2>3, <3>1, <3>4
      <4>2. writer.pod \in DOMAIN mem.pods => writer.pod \in DOMAIN mem'.pods
        BY <2>1, <2>3, <3>1, <3>4
      <4> QED
        BY <2>1, <3>1, <3>4, <4>1, <4>2 DEF Condemned
    <3>6. c \in DOMAIN mem.pods =>
            /\ c \in ToSet(mem.cache) /\ mem.pods[c].data.rn = purging.rn
            /\ mem'.pods[c].data.rn = mem.pods[c].data.rn
            /\ mem'.pods[c].data.prev = mem.pods[c].data.prev
      BY <2>3, <3>1, <3>4
    <3>7. c \notin DOMAIN mem.pods =>
            /\ mem'.pods[c].data.rn = At(fs, purging.rn).rn
            /\ mem'.pods[c].data.prev = At(fs, purging.rn).prev
      <4>1. c \notin DOMAIN mem.pods =>
              m.pods[c] = [data |-> At(fs, purging.rn), op |-> "none", pinned |-> FALSE]
        BY <2>3, <2>5, <3>1
      <4> QED
        BY <3>4, <4>1
    <3>8. rn = mem'.pods[c].data.rn /\ c \in Pods
      BY <2>3, <3>1, <3>4
    <3>9. fs' = l.fs /\ purging' = [purging EXCEPT !.rn = @ + 1]
      BY <2>1
    <3>10. \A q \in ToSet(mem.cache) : mem.pods[q].data.rn # purging.rn => q \in ToSet(mem'.cache)
      <4>1. ToSet(mem.cache) \subseteq DOMAIN mem.pods
        BY <1>0, ToSetOf DEF MemOK
      <4> QED
        BY <2>3, <3>1, <3>4, <4>1 DEF Keeps
    <3>11. c \notin DOMAIN mem.pods => \A q \in ToSet(mem.cache) : mem.pods[q].data.rn # purging.rn
      <4>1. c \notin DOMAIN mem.pods => ~Hit(purging.rn)
        BY <2>3
      <4> QED
        BY <4>1 DEF Hit, Places, ToSet
    <3> HIDE DEF c, rn
    <3> QED
      BY <2>2, <2>3, <3>2, <3>5, <3>6, <3>7, <3>8, <3>9, <3>10, <3>11
  <2> QED
    BY <2>4, <2>5
<1> QED
  BY <1>2, <1>3

LEMMA WriteDoneIs ==
  ASSUME TypeInv, WriteDone
  PROVE  /\ MemOK(mem') /\ mem'.cache = mem.cache /\ mem'.lru = mem.lru
         /\ held' \subseteq DOMAIN mem'.pods /\ queue' \in Seq(DOMAIN mem'.pods)
         /\ \A q \in DOMAIN mem'.pods :
              /\ q \in DOMAIN mem.pods
              /\ mem'.pods[q].data = mem.pods[q].data /\ mem'.pods[q].op = mem.pods[q].op
              /\ q # writer.pod => mem'.pods[q] = mem.pods[q]
<1>0. /\ MemOK(mem) /\ held \subseteq DOMAIN mem.pods /\ queue \in Seq(DOMAIN mem.pods)
      /\ writer.pod \in DOMAIN mem.pods
  BY TypeFacts DEF WriteDone, TypeInv, PodsTyped
<1> DEFINE c == WithPinned(mem, writer.pod, FALSE)
<1>1. Settle(c) /\ UNCHANGED <<held, queue>>
  BY DEF WriteDone, WithPinned
<1>2. FALSE \in BOOLEAN
  OBVIOUS
<1>3. /\ Changed(mem, c, writer.pod)
      /\ c.pods[writer.pod].data = mem.pods[writer.pod].data /\ c.pods[writer.pod].op = mem.pods[writer.pod].op
  BY <1>0, <1>2, PinnedIs
<1> HIDE DEF c
<1>4. /\ MemOK(c) /\ c.cache = mem.cache /\ c.lru = mem.lru /\ DOMAIN c.pods = DOMAIN mem.pods
      /\ \A q \in DOMAIN mem.pods : q # writer.pod => c.pods[q] = mem.pods[q]
  BY <1>3 DEF Changed
<1>5. /\ MemOK(mem') /\ mem'.cache = c.cache /\ mem'.lru = c.lru
      /\ DOMAIN mem'.pods \subseteq DOMAIN c.pods
      /\ \A q \in DOMAIN mem'.pods : mem'.pods[q] = c.pods[q]
      /\ held' \cap DOMAIN c.pods \subseteq DOMAIN mem'.pods
      /\ ToSet(queue') \cap DOMAIN c.pods \subseteq DOMAIN mem'.pods
  BY <1>1, <1>4, SettleIs
<1>6. ToSet(queue) \subseteq DOMAIN mem'.pods /\ held \subseteq DOMAIN mem'.pods
  BY <1>0, <1>1, <1>4, <1>5, ToSetOf
<1>7. queue \in Seq(DOMAIN mem'.pods)
  BY <1>0, <1>6 DEF ToSet
<1> QED
  BY <1>1, <1>3, <1>4, <1>5, <1>6, <1>7

LEMMA RecoverIs ==
  ASSUME TypeInv, Recover
  PROVE  /\ MemOK(mem') /\ held' \subseteq DOMAIN mem'.pods /\ queue' \in Seq(DOMAIN mem'.pods)
         /\ writer.pod \in DOMAIN mem.pods => writer.pod \in DOMAIN mem'.pods
         /\ UNCHANGED <<held, queue, writer>>
         /\ \E rn \in recovering, c \in Pods :
              /\ recovering' = recovering \ {rn}
              /\ \A q \in DOMAIN mem'.pods :
                   \/ q \in DOMAIN mem.pods /\ mem'.pods[q] = mem.pods[q]
                   \/ q = c /\ mem'.pods[q] = Loaded(rn)
              /\ c \notin DOMAIN mem.pods /\ ToSet(mem'.cache) \subseteq ToSet(mem.cache) \cup {c}
<1>a. RN \subseteq Nat
  BY StoreAssumption DEF RN
<1>0. /\ MemOK(mem) /\ FilesOK(fs) /\ recovering \subseteq RN /\ RN \subseteq Nat
      /\ \A rn \in recovering : FileOf(rn) \in DOMAIN fs.disk
  BY <1>a, TypeFacts DEF TypeInv, RecoveryTyped
<1> DEFINE rn == Min(recovering)
           p == NewPod
           data == Stored(fs, rn)
           m == AddPod(mem, p, data)
           u == IF data.prev = rn THEN m ELSE Uncache(m, data.prev)
           c == Cache(u, p)
<1>1. /\ recovering # {} /\ CanAlloc /\ recovering' = recovering \ {rn}
      /\ UNCHANGED <<held, queue, writer>> /\ Settle(c)
  BY DEF Recover
<1>2. rn \in recovering
  BY <1>0, <1>1, MinIs
<1>3. p \in Pods \ DOMAIN mem.pods
  BY <1>0, <1>1, NewPodIs
<1> HIDE DEF rn, p
<1>4. rn \in Nat /\ data = At(fs, rn)
  BY <1>0, <1>2 DEF At
<1>5. data \in Trailer
  BY <1>0, <1>4, AtIsTrailer
<1> HIDE DEF data
<1>6. /\ MemOK(m) /\ m.cache = mem.cache /\ DOMAIN m.pods = DOMAIN mem.pods \cup {p}
      /\ m.pods[p] = [data |-> data, op |-> "none", pinned |-> FALSE]
      /\ \A q \in DOMAIN mem.pods : q # p => m.pods[q] = mem.pods[q]
  BY <1>0, <1>3, <1>5, AddPodIs
<1> HIDE DEF m
<1>7. MemOK(u) /\ u.pods = m.pods /\ ToSet(u.cache) \subseteq ToSet(mem.cache)
  BY <1>6, UncacheIs DEF Cacheable
<1> HIDE DEF u
<1>8. MemOK(c) /\ c.pods = m.pods /\ ToSet(c.cache) \subseteq ToSet(mem.cache) \cup {p}
  BY <1>3, <1>6, <1>7, CacheIs DEF Cacheable
<1> HIDE DEF c
<1>9. DOMAIN mem.pods \subseteq DOMAIN c.pods /\ writer'.pod = writer.pod
  BY <1>1, <1>6, <1>8
<1>10. /\ MemOK(mem') /\ mem'.cache = c.cache /\ DOMAIN mem'.pods \subseteq DOMAIN c.pods
       /\ \A q \in DOMAIN mem'.pods : mem'.pods[q] = c.pods[q]
       /\ held' \subseteq DOMAIN mem'.pods /\ queue' \in Seq(DOMAIN mem'.pods)
       /\ writer.pod \in DOMAIN mem.pods => writer.pod \in DOMAIN mem'.pods
  BY <1>1, <1>8, <1>9, SettleSameIs
<1>11. \A q \in DOMAIN mem'.pods :
         \/ q \in DOMAIN mem.pods /\ mem'.pods[q] = mem.pods[q]
         \/ q = p /\ mem'.pods[q] = Loaded(rn)
  BY <1>3, <1>4, <1>6, <1>8, <1>10 DEF Loaded
<1> QED
  BY <1>1, <1>2, <1>3, <1>8, <1>10, <1>11

\* The record in the write thread.
LEMMA WriterFacts ==
  ASSUME TypeInv, writer # Idle
  PROVE  /\ writer = [pod |-> writer.pod, rn |-> writer.rn, prev |-> writer.prev,
                      op |-> writer.op, step |-> writer.step, gap |-> writer.gap]
         /\ writer.pod \in DOMAIN mem.pods /\ writer.pod # 0
         /\ writer.rn \in RN /\ writer.prev \in RN /\ writer.op \in Op
         /\ writer.step \in Steps /\ writer.gap \in Nat
         /\ writer.step = "gap" => writer.gap < writer.rn
<1>1. writer \in Write /\ (writer.step = "gap" => writer.gap < writer.rn) /\ writer.pod \in DOMAIN mem.pods
  BY DEF TypeInv, WriterTyped, PodsTyped
<1>2. 0 \notin Pods
  BY StoreAssumption
<1> QED
  BY <1>1, <1>2 DEF Write

LEMMA RNIs ==
  /\ RN \subseteq Nat /\ MaxRN \in Nat
  /\ \A n \in Nat : n \in RN <=> n < MaxRN
BY StoreAssumption DEF RN

LEMMA WriteBeginIs ==
  ASSUME TypeInv, WriteBegin
  PROVE  LET p == Head(queue)
             rn == mem.pods[p].data.rn
         IN /\ writer = Idle /\ queue # << >>
            /\ p \in DOMAIN mem.pods /\ ToSet(queue) = ToSet(queue') \cup {p} /\ queue' = Tail(queue)
            /\ queue' \in Seq(DOMAIN mem.pods) /\ rn \in RN /\ GapStart(rn) \in Nat
            /\ GapStart(rn) = IF fileRN >= FileOf(rn) * FileRecs THEN fileRN ELSE FileOf(rn) * FileRecs
            /\ writer' = [pod |-> p, rn |-> rn, prev |-> mem.pods[p].data.prev, op |-> mem.pods[p].op,
                          step |-> IF GapStart(rn) < rn THEN "gap" ELSE "record", gap |-> GapStart(rn)]
            /\ fileRN' = IF fileRN >= rn + 1 THEN fileRN ELSE rn + 1
            /\ writer' \in Write /\ writer' # Idle
<1>0. /\ MemOK(mem) /\ queue \in Seq(DOMAIN mem.pods) /\ mem.pods \in [DOMAIN mem.pods -> Pod]
      /\ DOMAIN mem.pods \subseteq Pods /\ fileRN \in Nat
  BY TypeFacts
<1>1. writer = Idle /\ queue # << >> /\ queue' = Tail(queue)
  BY DEF WriteBegin
<1> DEFINE p == Head(queue)
           rn == mem.pods[p].data.rn
<1>2. p \in DOMAIN mem.pods /\ ToSet(queue) = ToSet(queue') \cup {p} /\ queue' \in Seq(DOMAIN mem.pods)
  BY <1>0, <1>1, TailIs
<1>3. mem.pods[p] \in Pod
  BY <1>0, <1>2
<1>4. /\ mem.pods[p].op \in Op /\ rn \in RN /\ mem.pods[p].data.prev \in RN
  BY <1>3, PodIs
<1>5. rn \in Nat /\ rn + 1 \in Nat /\ FileRecs \in Nat
  <2> HIDE DEF rn
  <2>1. rn \in Nat
    BY <1>4, RNIs
  <2> QED
    BY <2>1, StoreAssumption
<1>6. FileOf(rn) * FileRecs \in Nat
  BY <1>5, FileSlot
<1>7. GapStart(rn) = IF fileRN >= FileOf(rn) * FileRecs THEN fileRN ELSE FileOf(rn) * FileRecs
  BY <1>0, <1>6, MaxOfTwo DEF GapStart
<1>8. GapStart(rn) \in Nat
  BY <1>0, <1>6, <1>7
<1>9. fileRN' = IF fileRN >= rn + 1 THEN fileRN ELSE rn + 1
  <2>1. fileRN' = Max({fileRN, rn + 1})
    BY DEF WriteBegin
  <2> QED
    BY <2>1, <1>0, <1>5, MaxOfTwo
<1>10. writer' = [pod |-> p, rn |-> rn, prev |-> mem.pods[p].data.prev, op |-> mem.pods[p].op,
                  step |-> IF GapStart(rn) < rn THEN "gap" ELSE "record", gap |-> GapStart(rn)]
  BY DEF WriteBegin
<1>11. writer' \in Write /\ writer' # Idle
  <2>1. (IF GapStart(rn) < rn THEN "gap" ELSE "record") \in Steps /\ p \in Pods
    BY <1>0, <1>2 DEF Steps
  <2>2. writer' \in Write
    BY <1>4, <1>8, <1>10, <2>1 DEF Write
  <2>3. writer'.pod # 0
    BY <1>10, <2>1, StoreAssumption
  <2> QED
    BY <2>2, <2>3 DEF Idle
<1> HIDE DEF p, rn
<1> QED
  BY <1>1, <1>2, <1>4, <1>7, <1>8, <1>9, <1>10, <1>11 DEF p, rn

LEMMA WriteGapIs ==
  ASSUME TypeInv, WriteGap
  PROVE  /\ writer # Idle /\ writer.step = "gap" /\ writer.gap \in RN /\ writer.gap < writer.rn
         /\ Erased(fs, fs', writer.gap, [rn |-> writer.gap, prev |-> writer.gap, magic |-> "deleted"])
         /\ filled' = filled \cup {writer.gap}
         /\ writer' = [pod |-> writer.pod, rn |-> writer.rn, prev |-> writer.prev, op |-> writer.op,
                       step |-> IF writer.gap + 1 < writer.rn THEN "gap" ELSE "record", gap |-> writer.gap + 1]
<1>1. writer # Idle /\ writer.step = "gap"
  BY DEF WriteGap
<1>2. writer.gap \in Nat /\ writer.gap < writer.rn /\ writer.rn \in RN
  BY <1>1, WriterFacts
<1>3. writer.gap \in RN
  <2>1. writer.rn \in Nat /\ writer.rn < MaxRN /\ MaxRN \in Nat
    BY <1>2, RNIs
  <2>2. writer.gap < MaxRN
    BY <1>2, <2>1
  <2> QED
    BY <1>2, <2>2, RNIs
<1> DEFINE data == [rn |-> writer.gap, prev |-> writer.gap, magic |-> "deleted"]
<1>4. data \in Trailer
  BY <1>3 DEF Trailer, Magic
<1>5. fs' = Erase(GetFile(fs, FileOf(writer.gap), TRUE), writer.gap, data)
  BY DEF WriteGap, FillGap
<1> HIDE DEF data
<1>6. FilesOK(fs) /\ TRUE \in BOOLEAN
  BY TypeFacts
<1>7. Erased(fs, fs', writer.gap, data)
  BY <1>2, <1>4, <1>5, <1>6, WriteAtIs
<1>8. writer' = [pod |-> writer.pod, rn |-> writer.rn, prev |-> writer.prev, op |-> writer.op,
                 step |-> IF writer.gap + 1 < writer.rn THEN "gap" ELSE "record", gap |-> writer.gap + 1]
  <2>1. writer' = [writer EXCEPT !.gap = @ + 1, !.step = IF writer.gap + 1 < writer.rn THEN "gap" ELSE "record"]
    BY DEF WriteGap
  <2>2. writer = [pod |-> writer.pod, rn |-> writer.rn, prev |-> writer.prev,
                  op |-> writer.op, step |-> writer.step, gap |-> writer.gap]
    BY <1>1, WriterFacts
  <2> QED
    BY <2>1, <2>2
<1>9. filled' = filled \cup {writer.gap}
  BY DEF WriteGap
<1> QED
  BY <1>1, <1>2, <1>3, <1>7, <1>8, <1>9 DEF data

LEMMA WriteRecordIs ==
  ASSUME TypeInv, WriteRecord
  PROVE  LET data == mem.pods[writer.pod].data IN
         /\ writer # Idle /\ writer.step = "record" /\ data \in Trailer
         /\ writer.op = "del" => Erased(fs, fs', writer.rn, data)
         /\ writer.op # "del" => Overwritten(fs, fs', writer.rn, data)
         /\ ~gapped' => ~gapped /\ \A m \in Nat : m < writer.rn /\ SameFile(m, writer.rn) => At(fs, m).magic # "zero"
         /\ kept' = ((kept \cup {writer.rn}) \ (IF data.magic = "committed" THEN {} ELSE {writer.rn}))
                      \ (IF writer.op = "add" THEN {} ELSE older[writer.rn])
         /\ writer' = [pod |-> writer.pod, rn |-> writer.rn, prev |-> writer.prev, op |-> writer.op,
                       step |-> IF writer.op = "add" \/ writer.prev = writer.rn THEN "done" ELSE "chain",
                       gap |-> writer.gap]
<1>1. writer # Idle /\ writer.step = "record"
  BY DEF WriteRecord
<1>2. writer.pod \in DOMAIN mem.pods /\ writer.rn \in Nat
  BY <1>1, WriterFacts, RNIs
<1> DEFINE data == mem.pods[writer.pod].data
           f == GetFile(fs, FileOf(writer.rn), TRUE)
<1>3. data \in Trailer
  <2>1. mem.pods[writer.pod] \in Pod
    BY <1>2, TypeFacts
  <2> QED
    BY <2>1, PodIs
<1>4. fs' = IF writer.op = "del" THEN Erase(f, writer.rn, data) ELSE WriteSlot(f, writer.rn, data)
  BY DEF WriteRecord
<1>5. FilesOK(fs) /\ TRUE \in BOOLEAN
  BY TypeFacts
<1> HIDE DEF data
<1>6. /\ Overwritten(fs, WriteSlot(f, writer.rn, data), writer.rn, data)
      /\ Erased(fs, Erase(f, writer.rn, data), writer.rn, data)
  BY <1>2, <1>3, <1>5, WriteAtIs
<1>7. ~gapped' => ~gapped /\ \A m \in Nat : m < writer.rn /\ SameFile(m, writer.rn) => At(fs, m).magic # "zero"
  <2> SUFFICES ASSUME ~gapped', NEW m \in Nat, m < writer.rn, SameFile(m, writer.rn)
               PROVE  ~gapped /\ At(fs, m).magic # "zero"
    <3>1. ~gapped' => ~gapped
      BY DEF WriteRecord
    <3> QED
      BY <3>1
  <2>1. gapped' = (gapped \/ \E s \in 0..SlotOf(writer.rn) - 1 : f.disk[FileOf(writer.rn)][s].magic = "zero")
    BY DEF WriteRecord
  <2>2. /\ FileOf(m) = FileOf(writer.rn) /\ FileOf(m) \in Nat /\ SlotOf(m) \in Slot /\ SlotOf(writer.rn) \in Slot
        /\ m = FileOf(m) * FileRecs + SlotOf(m) /\ writer.rn = FileOf(m) * FileRecs + SlotOf(writer.rn)
    BY <1>2, FileSlot DEF SameFile
  <2>3. SlotOf(m) \in 0..SlotOf(writer.rn) - 1
    <3>1. \A x, a, b \in Nat : x + a < x + b => a < b
      OBVIOUS
    <3>2. FileOf(m) * FileRecs \in Nat /\ SlotOf(m) \in Nat /\ SlotOf(writer.rn) \in Nat
      BY <2>2, StoreAssumption DEF Slot
    <3>3. SlotOf(m) < SlotOf(writer.rn)
      BY <2>2, <3>1, <3>2
    <3> QED
      BY <3>2, <3>3
  <2>4. /\ Opened(fs, f) /\ FileOf(writer.rn) \in DOMAIN f.open
    BY <1>2, <1>5, <2>2, GetFileIs
  <2>5. FileOf(m) \in DOMAIN f.disk
    BY <2>2, <2>4 DEF Opened, FilesOK
  <2>6. f.disk[FileOf(m)][SlotOf(m)] = At(fs, m)
    BY <2>4, <2>5 DEF Opened, At, Stored
  <2> HIDE DEF f
  <2> QED
    BY <2>1, <2>2, <2>3, <2>6
<1>8. writer' = [pod |-> writer.pod, rn |-> writer.rn, prev |-> writer.prev, op |-> writer.op,
                 step |-> IF writer.op = "add" \/ writer.prev = writer.rn THEN "done" ELSE "chain",
                 gap |-> writer.gap]
  <2>1. writer' = [writer EXCEPT !.step = IF writer.op = "add" \/ writer.prev = writer.rn THEN "done" ELSE "chain"]
    BY DEF WriteRecord
  <2>2. writer = [pod |-> writer.pod, rn |-> writer.rn, prev |-> writer.prev,
                  op |-> writer.op, step |-> writer.step, gap |-> writer.gap]
    BY <1>1, WriterFacts
  <2> QED
    BY <2>1, <2>2
<1>9. kept' = ((kept \cup {writer.rn}) \ (IF data.magic = "committed" THEN {} ELSE {writer.rn}))
                \ (IF writer.op = "add" THEN {} ELSE older[writer.rn])
  BY DEF WriteRecord, data
<1> QED
  BY <1>1, <1>3, <1>4, <1>6, <1>7, <1>8, <1>9 DEF data

LEMMA WriteChainIs ==
  ASSUME TypeInv, WriteChain
  PROVE  LET rn == writer.prev
             data == At(fs, rn) IN
         /\ writer # Idle /\ writer.step = "chain"
         /\ \/ /\ data.magic = "committed" /\ data.prev \in RN
               /\ \E d \in Trailer : /\ d.rn = data.rn /\ d.prev = data.prev /\ d.magic = "deleted"
                                     /\ Erased(fs, fs', rn, d)
               /\ writer' = [pod |-> writer.pod, rn |-> writer.rn, prev |-> data.prev, op |-> writer.op,
                             step |-> IF data.prev = rn THEN "done" ELSE "chain", gap |-> writer.gap]
            \/ /\ data.magic # "committed" /\ Opened(fs, fs')
               /\ writer' = [pod |-> writer.pod, rn |-> writer.rn, prev |-> writer.prev, op |-> writer.op,
                             step |-> "done", gap |-> writer.gap]
<1>1. writer # Idle /\ writer.step = "chain"
  BY DEF WriteChain
<1>2. /\ writer.prev \in RN /\ writer.prev \in Nat
      /\ writer = [pod |-> writer.pod, rn |-> writer.rn, prev |-> writer.prev,
                   op |-> writer.op, step |-> writer.step, gap |-> writer.gap]
  BY <1>1, WriterFacts, RNIs
<1> DEFINE rn == writer.prev
           f == GetFile(fs, FileOf(rn), FALSE)
           data == Stored(f, rn)
           d == [data EXCEPT !.magic = "deleted"]
<1>3. FilesOK(fs) /\ FALSE \in BOOLEAN /\ FileOf(rn) \in Nat
  BY <1>2, TypeFacts, FileSlot
<1>4. /\ Opened(fs, f)
      /\ FileOf(rn) \in DOMAIN fs.disk <=> FileOf(rn) \in DOMAIN f.open
      /\ DOMAIN fs.disk \subseteq DOMAIN f.disk
  BY <1>3, GetFileIs
<1>5. CASE InFile(f, rn) /\ data.magic = "committed"
  <2>1. /\ fs' = Erase(f, rn, d)
        /\ writer' = [writer EXCEPT !.prev = data.prev, !.step = IF data.prev = rn THEN "done" ELSE "chain"]
    BY <1>5 DEF WriteChain
  <2>2. FileOf(rn) \in DOMAIN fs.disk /\ FileOf(rn) \in DOMAIN f.disk
    BY <1>4, <1>5 DEF InFile
  <2>3. data = At(fs, rn)
    BY <1>2, <1>4, <2>2 DEF Opened, At
  <2> HIDE DEF data
  <2>4. data \in Trailer
    BY <1>2, <1>3, <2>3, AtIsTrailer
  <2>5. d = [rn |-> data.rn, prev |-> data.prev, magic |-> "deleted"]
    BY <2>4, TrailerWith
  <2>6. d \in Trailer /\ d.rn = data.rn /\ d.prev = data.prev /\ d.magic = "deleted" /\ data.prev \in RN
    BY <2>4, <2>5 DEF Trailer, Magic
  <2> HIDE DEF d
  <2>7. Erased(fs, Erase(f, rn, d), rn, d)
    BY <1>2, <1>3, <2>2, <2>6, WriteAtIs
  <2>8. writer' = [pod |-> writer.pod, rn |-> writer.rn, prev |-> data.prev, op |-> writer.op,
                   step |-> IF data.prev = rn THEN "done" ELSE "chain", gap |-> writer.gap]
    BY <1>2, <2>1
  <2> QED
    BY <1>1, <1>5, <2>1, <2>3, <2>6, <2>7, <2>8
<1>6. CASE ~(InFile(f, rn) /\ data.magic = "committed")
  <2>1. fs' = f /\ writer' = [writer EXCEPT !.step = "done"]
    BY <1>6 DEF WriteChain
  <2>2. writer' = [pod |-> writer.pod, rn |-> writer.rn, prev |-> writer.prev, op |-> writer.op,
                   step |-> "done", gap |-> writer.gap]
    BY <1>2, <2>1
  <2>3. ASSUME At(fs, rn).magic = "committed"
        PROVE  FALSE
    <3>1. FileOf(rn) \in DOMAIN fs.disk
      BY <2>3 DEF At, Zero
    <3>2. InFile(f, rn) /\ data = At(fs, rn)
      BY <1>2, <1>4, <3>1 DEF InFile, Opened, At
    <3> QED
      BY <1>6, <2>3, <3>2
  <2> QED
    BY <1>1, <1>4, <2>1, <2>2, <2>3
<1> QED
  BY <1>5, <1>6

-----------------------------------------------------------------------------
(* Every step keeps the types *)

\* What a call of the application, which holds no write, keeps.
LEMMA CallTyped ==
  ASSUME TypeInv, FilesOK(fs'), MemOK(mem'), held' \subseteq DOMAIN mem'.pods, queue' \in Seq(DOMAIN mem'.pods),
         writer.pod \in DOMAIN mem.pods => writer.pod \in DOMAIN mem'.pods,
         recovering = {}, UNCHANGED <<writer, fileRN, recovering, crashes, gapped, torn, kept, filled, erased>>
  PROVE  PodsTyped' /\ WriterTyped' /\ RecoveryTyped'
BY DEF TypeInv, PodsTyped, WriterTyped, RecoveryTyped

LEMMA InsertedTyped ==
  ASSUME TypeInv, NEW c, Inserted(c)
  PROVE  late \subseteq late' /\ late' \subseteq RN
<1>1. Len(queue) \in Nat /\ DOMAIN queue = 1..Len(queue) /\ \A j \in DOMAIN queue : queue[j] \in DOMAIN mem.pods
  BY TypeFacts
<1>2. \A j \in DOMAIN queue : PodNum(queue[j]) \in RN
  <2>1. \A q \in DOMAIN mem.pods : PodNum(q) \in RN
    BY TypeFacts DEF Pod, Trailer, PodNum
  <2> QED
    BY <1>1, <2>1
<1>3. PICK i \in 1..Len(queue) + 1 :
        late' = late \cup {rn \in older'[PodNum(c)'] : \E j \in i..Len(queue) : PodNum(queue[j]) = rn}
  BY DEF Inserted
<1>4. i..Len(queue) \subseteq DOMAIN queue
  BY <1>1
<1>5. late \subseteq RN
  BY DEF TypeInv, HistoryTyped
<1> QED
  BY <1>2, <1>3, <1>4, <1>5

LEMMA NewRecordTyped ==
  ASSUME TypeInv, recovering = {}, Push \/ Update
  PROVE  TypeInv'
<1>1. PICK prev \in 0..nextRN : Opened(fs, fs') /\ Allocate(mem, prev)
  BY NewRecordIs
<1>2. /\ NewPod \in Pods \ DOMAIN mem.pods /\ nextRN \in RN
      /\ MemOK(mem') /\ DOMAIN mem'.pods = DOMAIN mem.pods \cup {NewPod}
  BY <1>1, AllocateIs
<1>3. held' = held \cup {NewPod} /\ queue' = queue /\ nextRN' = nextRN + 1 /\ nextRN < MaxRN
      /\ older' = [older EXCEPT ![nextRN] = IF prev = nextRN THEN {} ELSE {prev} \cup older[prev]]
      /\ UNCHANGED <<minRN, fileRN, writer, purging, recovering, purges, crashes>>
      /\ UNCHANGED <<live, kept, filled, gapped, erased, late, torn>>
  BY <1>1 DEF Allocate
<1>4. /\ held \subseteq DOMAIN mem.pods /\ queue \in Seq(DOMAIN mem.pods) /\ nextRN \in Nat /\ MaxRN \in Nat
      /\ older \in [RN -> SUBSET RN]
  BY TypeFacts
<1>5. queue' \in Seq(DOMAIN mem'.pods)
  <2>1. ToSet(queue) \subseteq DOMAIN mem'.pods
    BY <1>2, <1>4, ToSetOf
  <2> QED
    BY <1>3, <1>4, <2>1 DEF ToSet
<1>6. FilesOK(fs')
  BY <1>1 DEF Opened
<1>7. PodsTyped' /\ WriterTyped' /\ RecoveryTyped'
  BY <1>2, <1>3, <1>4, <1>5, <1>6, CallTyped
<1>8. NumbersTyped'
  BY <1>3, <1>4 DEF TypeInv, NumbersTyped
<1>9. prev \in RN /\ older[prev] \subseteq RN
  <2>1. prev \in RN
    BY <1>2, <1>4 DEF RN
  <2> QED
    BY <1>4, <2>1
<1>10. HistoryTyped'
  BY <1>3, <1>4, <1>9 DEF TypeInv, HistoryTyped
<1> QED
  BY <1>3, <1>6, <1>7, <1>8, <1>10 DEF TypeInv, PurgeTyped, CountsTyped

LEMMA PutTyped ==
  ASSUME TypeInv, recovering = {}, NEW p \in held, NEW replace \in BOOLEAN, Put(p, replace)
  PROVE  TypeInv'
<1>1. /\ MemOK(mem') /\ queue' \in Seq(DOMAIN mem'.pods) /\ held' \subseteq DOMAIN mem'.pods
      /\ writer.pod \in DOMAIN mem.pods => writer.pod \in DOMAIN mem'.pods
      /\ p \in DOMAIN mem.pods /\ Inserted(p)
  BY PutIs
<1>2. /\ live' = (live \ IF replace THEN older[mem.pods[p].data.rn] ELSE {}) \cup {mem.pods[p].data.rn}
      /\ UNCHANGED <<writer, fs, numbers, purging, recovering, purges, crashes, older, kept, filled, gapped, erased, torn>>
  BY DEF Put
<1>3. FilesOK(fs')
  BY <1>2, TypeFacts
<1>4. PodsTyped' /\ WriterTyped' /\ RecoveryTyped'
  BY <1>1, <1>2, <1>3, CallTyped DEF numbers
<1>5. mem.pods[p].data.rn \in RN
  <2>1. mem.pods[p] \in Pod
    BY <1>1, TypeFacts
  <2> QED
    BY <2>1, PodIs
<1>6. HistoryTyped'
  <2>1. late' \subseteq RN
    BY <1>1, InsertedTyped
  <2> QED
    BY <1>2, <1>5, <2>1 DEF TypeInv, HistoryTyped
<1> QED
  BY <1>2, <1>3, <1>4, <1>6 DEF TypeInv, PurgeTyped, CountsTyped, NumbersTyped, numbers

LEMMA AbortTyped ==
  ASSUME TypeInv, recovering = {}, NEW p \in held, Abort(p)
  PROVE  TypeInv'
<1>1. /\ MemOK(mem') /\ queue' \in Seq(DOMAIN mem'.pods) /\ held' \subseteq DOMAIN mem'.pods
      /\ writer.pod \in DOMAIN mem.pods => writer.pod \in DOMAIN mem'.pods
      /\ Inserted(p)
  BY AbortIs
<1>2. /\ UNCHANGED <<writer, fs, numbers, purging, recovering, purges, crashes>>
      /\ UNCHANGED <<older, live, kept, filled, gapped, erased, torn>>
  BY DEF Abort
<1>3. FilesOK(fs')
  BY <1>2, TypeFacts
<1>4. PodsTyped' /\ WriterTyped' /\ RecoveryTyped'
  BY <1>1, <1>2, <1>3, CallTyped DEF numbers
<1>5. HistoryTyped'
  <2>1. late' \subseteq RN
    BY <1>1, InsertedTyped
  <2> QED
    BY <1>2, <2>1 DEF TypeInv, HistoryTyped
<1> QED
  BY <1>2, <1>3, <1>4, <1>5 DEF TypeInv, PurgeTyped, CountsTyped, NumbersTyped, numbers

LEMMA GetTyped ==
  ASSUME TypeInv, recovering = {}, Get
  PROVE  TypeInv'
<1>1. /\ Opened(fs, fs')
      /\ MemOK(mem') /\ queue' \in Seq(DOMAIN mem'.pods) /\ held' \subseteq DOMAIN mem'.pods
      /\ writer.pod \in DOMAIN mem.pods => writer.pod \in DOMAIN mem'.pods
  BY GetIs
<1>2. UNCHANGED <<writer, numbers, purging, recovering, purges, crashes, history>>
  BY DEF Get
<1>3. FilesOK(fs')
  BY <1>1 DEF Opened
<1>4. PodsTyped' /\ WriterTyped' /\ RecoveryTyped'
  BY <1>1, <1>2, <1>3, CallTyped DEF numbers, history
<1> QED
  BY <1>2, <1>3, <1>4 DEF TypeInv, PurgeTyped, CountsTyped, NumbersTyped, HistoryTyped, numbers, history

LEMMA DelTyped ==
  ASSUME TypeInv, recovering = {}, Del
  PROVE  TypeInv'
<1>1. PICK rn \in 0..(nextRN - 1), c \in Pods :
        /\ Opened(fs, fs') /\ nextRN \in RN /\ nextRN' = nextRN + 1
        /\ Condemned(c)
        /\ older' = [older EXCEPT ![nextRN] = {rn} \cup older[rn]]
        /\ live' = live \ ({rn} \cup older[rn])
  BY DelIs
<1>2. UNCHANGED <<writer, minRN, fileRN, purging, recovering, purges, crashes, kept, filled, gapped, erased, torn>>
  BY DEF Del
<1>3. FilesOK(fs')
  BY <1>1 DEF Opened
<1>4. PodsTyped' /\ WriterTyped' /\ RecoveryTyped'
  BY <1>1, <1>2, <1>3, CallTyped DEF Condemned
<1>5. older \in [RN -> SUBSET RN] /\ nextRN \in Nat /\ nextRN < MaxRN /\ MaxRN \in Nat
  BY <1>1, TypeFacts, RNIs
<1>6. rn \in RN
  BY <1>5 DEF RN
<1>7. HistoryTyped'
  <2>1. late' \subseteq RN
    BY <1>1, InsertedTyped DEF Condemned
  <2> QED
    BY <1>1, <1>2, <1>5, <1>6, <2>1 DEF TypeInv, HistoryTyped
<1>8. NumbersTyped'
  BY <1>1, <1>2, <1>5 DEF TypeInv, NumbersTyped
<1> QED
  BY <1>2, <1>3, <1>4, <1>7, <1>8 DEF TypeInv, PurgeTyped, CountsTyped

LEMMA PurgeTypedStep ==
  ASSUME TypeInv, recovering = {}, Purge
  PROVE  TypeInv'
<1>1. PICK min \in (minRN + 1)..nextRN : purging' = [pod |-> 1, rn |-> minRN, min |-> min]
  BY DEF Purge
<1>2. /\ UNCHANGED <<mem, fs, numbers, held, queue, writer, recovering, crashes, history>>
      /\ purges < MaxPurges /\ purges' = purges + 1
  BY DEF Purge
<1>3. minRN \in Nat /\ nextRN \in Nat
  BY TypeFacts
<1>4. PurgeTyped'
  BY <1>1, <1>3 DEF PurgeTyped
<1>5. CountsTyped'
  BY <1>2, StoreAssumption DEF TypeInv, CountsTyped
<1> QED
  BY <1>2, <1>4, <1>5 DEF TypeInv, PodsTyped, WriterTyped, NumbersTyped, RecoveryTyped, HistoryTyped,
       numbers, history

LEMMA PurgeStepTyped ==
  ASSUME TypeInv, recovering = {}, PurgeStep
  PROVE  TypeInv'
<1>0. /\ purging # Idle /\ UNCHANGED <<nextRN, fileRN, recovering, purges, crashes, older, kept, filled, gapped, erased, torn>>
  BY DEF PurgeStep
<1>1. CASE purging' = Idle /\ UNCHANGED <<mem, fs, minRN, queue, live, late, held, writer>>
  BY <1>0, <1>1 DEF TypeInv, PodsTyped, WriterTyped, NumbersTyped, RecoveryTyped, HistoryTyped, CountsTyped, PurgeTyped
<1>2. CASE /\ purging' = [purging EXCEPT !.rn = @ + 1] /\ purging.rn < nextRN /\ purging.rn \in RN
           /\ Opened(fs, fs')
           /\ UNCHANGED <<mem, minRN, queue, live, late, held, writer>>
  <2>1. PurgeTyped' /\ FilesOK(fs')
    BY <1>0, <1>2 DEF TypeInv, PurgeTyped, Opened
  <2> QED
    BY <1>0, <1>2, <2>1 DEF TypeInv, PodsTyped, WriterTyped, NumbersTyped, RecoveryTyped, HistoryTyped, CountsTyped
<1>3. CASE /\ purging' = [purging EXCEPT !.rn = @ + 1] /\ purging.rn < nextRN /\ purging.rn \in RN
           /\ Opened(fs, fs') /\ minRN' = purging.rn
           /\ \E c \in Pods :
                Condemned(c) /\ live' = live \ ({mem'.pods[c].data.rn} \cup older[mem'.pods[c].data.rn])
  <2>1. PICK c \in Pods :
          Condemned(c) /\ live' = live \ ({mem'.pods[c].data.rn} \cup older[mem'.pods[c].data.rn])
    BY <1>3
  <2>2. PurgeTyped' /\ FilesOK(fs')
    BY <1>0, <1>3 DEF TypeInv, PurgeTyped, Opened
  <2>3. PodsTyped' /\ WriterTyped' /\ RecoveryTyped'
    BY <1>0, <2>1, <2>2, CallTyped DEF Condemned
  <2>4. NumbersTyped'
    <3>1. minRN' \in Nat /\ minRN' < MaxRN /\ MaxRN \in Nat
      BY <1>3, RNIs
    <3> QED
      BY <1>0, <3>1 DEF TypeInv, NumbersTyped
  <2>5. HistoryTyped'
    <3>1. late' \subseteq RN
      BY <2>1, InsertedTyped DEF Condemned
    <3> QED
      BY <1>0, <2>1, <3>1 DEF TypeInv, HistoryTyped
  <2> QED
    BY <1>0, <2>2, <2>3, <2>4, <2>5 DEF TypeInv, CountsTyped
<1> QED
  BY <1>1, <1>2, <1>3, PurgeStepIs

\* What a step of the write thread leaves alone.
LEMMA WriteTyped ==
  ASSUME TypeInv, UNCHANGED <<mem, held, nextRN, minRN, purging, purges, crashes, older, live, late, torn>>,
         recovering = {}, recovering' = {}, FilesOK(fs'), writer' \in Write,
         writer'.step = "gap" => writer'.gap < writer'.rn,
         writer'.pod \in DOMAIN mem.pods, queue' \in Seq(DOMAIN mem.pods), fileRN' \in 0..MaxRN,
         gapped' \in BOOLEAN, kept' \subseteq RN, filled' \subseteq RN, erased' \subseteq RN
  PROVE  TypeInv'
BY DEF TypeInv, PodsTyped, WriterTyped, NumbersTyped, RecoveryTyped, HistoryTyped, CountsTyped, PurgeTyped

LEMMA WriteBeginTyped ==
  ASSUME TypeInv, recovering = {}, WriteBegin
  PROVE  TypeInv'
<1> DEFINE p == Head(queue)
           rn == mem.pods[p].data.rn
<1>1. /\ p \in DOMAIN mem.pods
      /\ queue' \in Seq(DOMAIN mem.pods) /\ rn \in RN /\ GapStart(rn) \in Nat
      /\ writer' = [pod |-> p, rn |-> rn, prev |-> mem.pods[p].data.prev, op |-> mem.pods[p].op,
                    step |-> IF GapStart(rn) < rn THEN "gap" ELSE "record", gap |-> GapStart(rn)]
      /\ fileRN' = IF fileRN >= rn + 1 THEN fileRN ELSE rn + 1
      /\ writer' \in Write
  BY WriteBeginIs
<1> HIDE DEF p, rn
<1>2. writer'.pod = p /\ (writer'.step = "gap" => writer'.gap < writer'.rn)
  BY <1>1
<1>3. UNCHANGED <<mem, fs, kept, filled, gapped, erased>> /\ WriterUnchanged
  BY DEF WriteBegin
<1>4. fileRN' \in 0..MaxRN
  <2>1. rn \in Nat /\ rn < MaxRN /\ MaxRN \in Nat /\ fileRN \in Nat /\ fileRN <= MaxRN
    BY <1>1, RNIs, TypeFacts
  <2> QED
    BY <1>1, <2>1
<1>5. FilesOK(fs') /\ gapped' \in BOOLEAN /\ kept' \subseteq RN /\ filled' \subseteq RN /\ erased' \subseteq RN
  BY <1>3 DEF TypeInv, HistoryTyped
<1> QED
  BY <1>1, <1>2, <1>3, <1>4, <1>5, WriteTyped DEF WriterUnchanged

LEMMA WriteGapTyped ==
  ASSUME TypeInv, recovering = {}, WriteGap
  PROVE  TypeInv'
<1>1. /\ writer # Idle /\ writer.step = "gap" /\ writer.gap \in RN
      /\ Erased(fs, fs', writer.gap, [rn |-> writer.gap, prev |-> writer.gap, magic |-> "deleted"])
      /\ filled' = filled \cup {writer.gap}
      /\ writer' = [pod |-> writer.pod, rn |-> writer.rn, prev |-> writer.prev, op |-> writer.op,
                    step |-> IF writer.gap + 1 < writer.rn THEN "gap" ELSE "record", gap |-> writer.gap + 1]
  BY WriteGapIs
<1>2. UNCHANGED <<mem, fileRN, queue, kept, gapped, erased>> /\ WriterUnchanged
  BY DEF WriteGap
<1>3. /\ writer.pod \in DOMAIN mem.pods /\ writer.pod \in Pods /\ writer.rn \in RN /\ writer.prev \in RN
      /\ writer.op \in Op /\ writer.gap + 1 \in Nat
  BY <1>1, WriterFacts, TypeFacts
<1>4. writer' \in Write /\ (writer'.step = "gap" => writer'.gap < writer'.rn) /\ writer'.pod = writer.pod
  BY <1>1, <1>3 DEF Write, Steps
<1>5. /\ FilesOK(fs') /\ gapped' \in BOOLEAN /\ kept' \subseteq RN /\ filled' \subseteq RN /\ erased' \subseteq RN
      /\ fileRN' \in 0..MaxRN
  BY <1>1, <1>2 DEF TypeInv, HistoryTyped, NumbersTyped, Erased
<1>6. queue' \in Seq(DOMAIN mem.pods)
  BY <1>2, TypeFacts
<1> QED
  BY <1>2, <1>3, <1>4, <1>5, <1>6, WriteTyped DEF WriterUnchanged

LEMMA WriteRecordTyped ==
  ASSUME TypeInv, recovering = {}, WriteRecord
  PROVE  TypeInv'
<1> DEFINE data == mem.pods[writer.pod].data
<1>1. /\ writer # Idle
      /\ writer.op = "del" => Erased(fs, fs', writer.rn, data)
      /\ writer.op # "del" => Overwritten(fs, fs', writer.rn, data)
      /\ kept' = ((kept \cup {writer.rn}) \ (IF data.magic = "committed" THEN {} ELSE {writer.rn}))
                   \ (IF writer.op = "add" THEN {} ELSE older[writer.rn])
      /\ writer' = [pod |-> writer.pod, rn |-> writer.rn, prev |-> writer.prev, op |-> writer.op,
                    step |-> IF writer.op = "add" \/ writer.prev = writer.rn THEN "done" ELSE "chain",
                    gap |-> writer.gap]
  BY WriteRecordIs
<1>2. UNCHANGED <<mem, fileRN, queue, filled, erased>> /\ WriterUnchanged
  BY DEF WriteRecord
<1>3. /\ writer.pod \in DOMAIN mem.pods /\ writer.pod \in Pods /\ writer.rn \in RN /\ writer.prev \in RN
      /\ writer.op \in Op /\ writer.gap \in Nat
  BY <1>1, WriterFacts, TypeFacts
<1>4. writer' \in Write /\ (writer'.step = "gap" => writer'.gap < writer'.rn) /\ writer'.pod = writer.pod
  BY <1>1, <1>3 DEF Write, Steps
<1>5. gapped' \in BOOLEAN
  BY DEF WriteRecord
<1>6. FilesOK(fs') /\ kept' \subseteq RN
  BY <1>1, <1>3 DEF TypeInv, HistoryTyped, Overwritten, Erased
<1>7. filled' \subseteq RN /\ erased' \subseteq RN /\ fileRN' \in 0..MaxRN
  BY <1>2 DEF TypeInv, HistoryTyped, NumbersTyped
<1>8. queue' \in Seq(DOMAIN mem.pods)
  BY <1>2, TypeFacts
<1> QED
  BY <1>2, <1>3, <1>4, <1>5, <1>6, <1>7, <1>8, WriteTyped DEF WriterUnchanged

LEMMA WriteChainTyped ==
  ASSUME TypeInv, recovering = {}, WriteChain
  PROVE  TypeInv'
<1>1. writer # Idle /\ UNCHANGED <<mem, fileRN, queue, kept, filled, gapped, erased>> /\ WriterUnchanged
  BY DEF WriteChain
<1>2. /\ FilesOK(fs')
      /\ \E prev \in RN, step \in {"done", "chain"} :
           writer' = [pod |-> writer.pod, rn |-> writer.rn, prev |-> prev, op |-> writer.op,
                      step |-> step, gap |-> writer.gap]
  <2>1. writer.prev \in RN
    BY <1>1, WriterFacts
  <2> QED
    BY <2>1, WriteChainIs DEF Opened, Erased
<1>3. /\ writer.pod \in DOMAIN mem.pods /\ writer.pod \in Pods /\ writer.rn \in RN
      /\ writer.op \in Op /\ writer.gap \in Nat
  BY <1>1, WriterFacts, TypeFacts
<1>4. writer' \in Write /\ (writer'.step = "gap" => writer'.gap < writer'.rn) /\ writer'.pod = writer.pod
  BY <1>2, <1>3 DEF Write, Steps
<1>5. /\ gapped' \in BOOLEAN /\ kept' \subseteq RN /\ filled' \subseteq RN /\ erased' \subseteq RN
      /\ fileRN' \in 0..MaxRN
  BY <1>1 DEF TypeInv, HistoryTyped, NumbersTyped
<1>6. queue' \in Seq(DOMAIN mem.pods)
  BY <1>1, TypeFacts
<1> QED
  BY <1>1, <1>2, <1>3, <1>4, <1>5, <1>6, WriteTyped DEF WriterUnchanged

LEMMA WriteDoneTyped ==
  ASSUME TypeInv, recovering = {}, WriteDone
  PROVE  TypeInv'
<1>1. /\ MemOK(mem') /\ held' \subseteq DOMAIN mem'.pods /\ queue' \in Seq(DOMAIN mem'.pods)
  BY WriteDoneIs
<1>2. /\ writer # Idle /\ writer' = Idle
      /\ erased' = IF writer.op = "add" THEN erased ELSE erased \cup {writer.rn}
      /\ UNCHANGED <<fs, nextRN, minRN, fileRN, purging, recovering, purges, crashes, older, live, kept, filled, gapped, late, torn>>
  BY DEF WriteDone
<1>3. writer.rn \in RN
  BY <1>2, WriterFacts
<1>4. HistoryTyped'
  BY <1>2, <1>3 DEF TypeInv, HistoryTyped
<1>5. PodsTyped' /\ WriterTyped'
  BY <1>1, <1>2 DEF PodsTyped, WriterTyped
<1> QED
  BY <1>2, <1>4, <1>5 DEF TypeInv, NumbersTyped, RecoveryTyped, CountsTyped, PurgeTyped

LEMMA RecoverTyped ==
  ASSUME TypeInv, Recover
  PROVE  TypeInv'
<1>1. /\ MemOK(mem') /\ held' \subseteq DOMAIN mem'.pods /\ queue' \in Seq(DOMAIN mem'.pods)
      /\ writer.pod \in DOMAIN mem.pods => writer.pod \in DOMAIN mem'.pods
      /\ UNCHANGED <<held, queue, writer>>
      /\ recovering' \subseteq recovering
  BY RecoverIs
<1>2. UNCHANGED <<fs, numbers, purging, purges, crashes, history>>
  BY DEF Recover
<1>3. PodsTyped' /\ WriterTyped' /\ RecoveryTyped'
  BY <1>1, <1>2 DEF TypeInv, PodsTyped, WriterTyped, RecoveryTyped
<1> QED
  BY <1>2, <1>3 DEF TypeInv, NumbersTyped, HistoryTyped, CountsTyped, PurgeTyped, numbers, history

\* What is found after a crash.
LEMMA CrashIs ==
  ASSUME TypeInv, Crash
  PROVE  LET found == Recovered(fs.disk)
             lost == nextRN' .. (MaxRN - 1)
         IN /\ live' = {rn \in found : Stored(fs, rn).magic = "committed"} /\ mem'.cache = << >>
            /\ mem'.pods = << >> /\ MemOK(mem') /\ FilesOK(fs') /\ fs'.disk = fs.disk /\ fs'.open = << >>
            /\ found \subseteq RN /\ \A rn \in found : FileOf(rn) \in DOMAIN fs.disk
            /\ nextRN' \in 0..MaxRN /\ fileRN' = nextRN' /\ \A rn \in found : rn < nextRN'
            /\ minRN' \in 0..MaxRN /\ minRN' \in {MaxRN} \cup found
            /\ nextRN' # 0 => \E rn \in found : nextRN' = rn + 1
            /\ held' = {} /\ queue' = << >> /\ writer' = Idle /\ purging' = Idle /\ recovering' = found
            /\ kept' = kept \ lost /\ filled' = filled \ lost
            /\ older' = [rn \in RN |-> IF rn \in lost THEN {} ELSE older[rn]]
            /\ UNCHANGED gapped
<1> DEFINE found == Recovered(fs.disk)
           above == {0} \cup {rn + 1 : rn \in found}
           lost == nextRN' .. (MaxRN - 1)
<1>1. found \subseteq RN /\ \A rn \in found : FileOf(rn) \in DOMAIN fs.disk
  BY DEF Recovered, Reached
<1>2. /\ mem' = [pods |-> << >>, cache |-> << >>, lru |-> << >>, size |-> CacheSize, hash |-> CacheSize]
      /\ fs' = [disk |-> fs.disk, open |-> << >>, lru |-> << >>, last |-> 0]
      /\ nextRN' = Max(above) /\ fileRN' = Max(above) /\ minRN' = Min({MaxRN} \cup found)
      /\ held' = {} /\ queue' = << >> /\ writer' = Idle /\ purging' = Idle /\ recovering' = found
      /\ live' = {rn \in found : Stored(fs, rn).magic = "committed"}
      /\ kept' = kept \ lost /\ filled' = filled \ lost
      /\ older' = [rn \in RN |-> IF rn \in lost THEN {} ELSE older[rn]]
      /\ UNCHANGED gapped
  BY DEF Crash
<1> HIDE DEF found
<1>3. MaxRN \in Nat /\ found \subseteq Nat /\ \A rn \in found : rn < MaxRN
  BY <1>1, RNIs
<1>4. above \in SUBSET Nat /\ above # {} /\ \A n \in above : n <= MaxRN
  BY <1>3
<1>5. nextRN' \in above /\ \A n \in above : n <= nextRN'
  <2> HIDE DEF above
  <2> QED
    BY <1>2, <1>3, <1>4, MaxIs
<1>6. /\ nextRN' \in 0..MaxRN
      /\ \A rn \in found : rn + 1 <= nextRN'
      /\ nextRN' # 0 => \E rn \in found : nextRN' = rn + 1
  BY <1>3, <1>4, <1>5
<1>7. minRN' \in {MaxRN} \cup found
  <2>1. {MaxRN} \cup found \in SUBSET Nat /\ {MaxRN} \cup found # {}
    BY <1>3
  <2> QED
    BY <1>2, <2>1, MinIs
<1>8. minRN' \in 0..MaxRN
  BY <1>3, <1>7
<1>9. MemOK(mem')
  BY <1>2 DEF MemOK
<1>10. FilesOK(fs')
  <2>1. FilesOK(fs)
    BY TypeFacts
  <2> QED
    BY <1>2, <2>1 DEF FilesOK, ToSet, IsInjective
<1>11. \A rn \in found : rn < nextRN'
  BY <1>3, <1>6
<1> QED
  BY <1>1, <1>2, <1>6, <1>7, <1>8, <1>9, <1>10, <1>11 DEF found

LEMMA CrashTyped ==
  ASSUME TypeInv, Crash
  PROVE  TypeInv'
<1> DEFINE found == Recovered(fs.disk)
           lost == nextRN' .. (MaxRN - 1)
<1>1. /\ MemOK(mem') /\ FilesOK(fs') /\ fs'.disk = fs.disk
      /\ found \subseteq RN /\ \A rn \in found : FileOf(rn) \in DOMAIN fs.disk
      /\ nextRN' \in 0..MaxRN /\ fileRN' = nextRN' /\ minRN' \in 0..MaxRN
      /\ held' = {} /\ queue' = << >> /\ writer' = Idle /\ purging' = Idle /\ recovering' = found
      /\ kept' = kept \ lost /\ filled' = filled \ lost
      /\ older' = [rn \in RN |-> IF rn \in lost THEN {} ELSE older[rn]]
      /\ UNCHANGED gapped
  BY CrashIs
<1>2. /\ crashes < MaxCrashes /\ crashes' = crashes + 1 /\ UNCHANGED purges
      /\ live' = {rn \in found : Stored(fs, rn).magic = "committed"} /\ erased' = erased \ lost /\ late' = late \ lost
      /\ torn' = (torn \/ (writer # Idle /\ writer.step = "chain"))
  BY DEF Crash
<1> HIDE DEF found, lost
<1>3. PodsTyped' /\ WriterTyped'
  BY <1>1 DEF PodsTyped, WriterTyped
<1>4. NumbersTyped' /\ PurgeTyped' /\ RecoveryTyped'
  BY <1>1 DEF NumbersTyped, PurgeTyped, RecoveryTyped
<1>5. CountsTyped'
  BY <1>2, StoreAssumption DEF TypeInv, CountsTyped
<1>6. HistoryTyped'
  BY <1>1, <1>2 DEF TypeInv, HistoryTyped
<1> QED
  BY <1>1, <1>3, <1>4, <1>5, <1>6 DEF TypeInv

LEMMA TypeInvStep ==
  ASSUME TypeInv, [Next]_vars
  PROVE  TypeInv'
<1>1. CASE UNCHANGED vars
  BY <1>1 DEF vars, numbers, history, TypeInv, PodsTyped, WriterTyped, NumbersTyped, RecoveryTyped, HistoryTyped,
       CountsTyped, PurgeTyped
<1>2. CASE recovering = {} /\ (Push \/ Update)
  BY <1>2, NewRecordTyped
<1>3. CASE recovering = {} /\ Get
  BY <1>3, GetTyped
<1>4. CASE recovering = {} /\ Del
  BY <1>4, DelTyped
<1>5. CASE recovering = {} /\ (Purge \/ PurgeStep)
  BY <1>5, PurgeTypedStep, PurgeStepTyped
<1>6. CASE recovering = {} /\ \E p \in held : Abort(p) \/ \E replace \in BOOLEAN : Put(p, replace)
  BY <1>6, AbortTyped, PutTyped
<1>7. CASE recovering = {} /\ (WriteBegin \/ WriteGap \/ WriteRecord \/ WriteChain \/ WriteDone)
  BY <1>7, WriteBeginTyped, WriteGapTyped, WriteRecordTyped, WriteChainTyped, WriteDoneTyped
<1>8. CASE Recover \/ Crash
  BY <1>8, RecoverTyped, CrashTyped
<1> QED
  BY <1>1, <1>2, <1>3, <1>4, <1>5, <1>6, <1>7, <1>8 DEF Next

\* The state keeps its types: in particular a record is freed only when neither the cache, the
\* list of used records, the application, the write queue nor the write thread refers to it, and
\* the files that are open are those of the list of used files, and exist.
THEOREM TypeCorrect == Spec => []TypeOK
<1>1. Init => TypeInv
  BY InitTyped
<1>2. TypeInv /\ [Next]_vars => TypeInv'
  BY TypeInvStep
<1>3. TypeInv => TypeOK
  BY TypeInvOK
<1> QED
  BY <1>1, <1>2, <1>3, PTL DEF Spec

-----------------------------------------------------------------------------
(* The inductive invariant for durability                                  *)
(*                                                                         *)
(* It holds until a record is written after a place of its file that was   *)
(* never written (gapped), and if the application does not delete a record *)
(* whose write is queued (DelQueued).                                      *)

WriterAt(steps) == writer # Idle /\ writer.step \in steps

\* The records that are queued or being written, those whose place in the files is still to be
\* written, and those that are to be written there as committed.
InLine == ToSet(queue) \cup (IF writer = Idle THEN {} ELSE {writer.pod})
ToWrite == ToSet(queue) \cup (IF WriterAt({"gap", "record"}) THEN {writer.pod} ELSE {})
Pending == held \cup {p \in ToWrite : PodMagic(p) = "committed"}
Once(p) ==
  /\ \A i, j \in DOMAIN queue : queue[i] = p /\ queue[j] = p => i = j
  /\ writer # Idle /\ writer.pod = p => p \notin ToSet(queue)

\* The first place that the write thread has not yet filled or passed.
Written == IF WriterAt({"gap"}) THEN writer.gap ELSE fileRN

MemInv ==
  \A p \in DOMAIN mem.pods :
    PodNum(p) < nextRN /\ (PodPrev(p) = PodNum(p) \/ PodPrev(p) \in older[PodNum(p)])

HeldInv == \A p \in held : PodMagic(p) = "allocated" /\ p \notin InLine /\ p \notin ToSet(mem.cache)

\* A record that is queued as committed is pinned, and queued once.
LineInv ==
  \A p \in InLine :
    /\ PodMagic(p) \in {"committed", "deleted"}
    /\ mem.pods[p].op = "del" => PodMagic(p) = "deleted"
    /\ PodMagic(p) = "committed" => mem.pods[p].pinned = TRUE /\ Once(p)

\* Nothing has been written at the place of a record that is still to be, unless that place was
\* filled as a gap; and nothing else in memory can be written there.
PendingInv ==
  \A p \in Pending :
    /\ PodNum(p) \notin kept
    /\ At(fs, PodNum(p)).magic # "committed"
    /\ PodNum(p) \in filled \/ (At(fs, PodNum(p)).magic = "zero" /\ ~Marked(fs, PodNum(p)))
    /\ \A q \in DOMAIN mem.pods : q # p /\ PodNum(q) = PodNum(p) =>
         /\ q \notin Pending /\ PodMagic(q) # "committed" /\ q \notin ToSet(mem.cache)
         /\ q \in ToWrite => PodNum(p) \in filled

OlderInv ==
  \A v \in RN :
    /\ \A a \in older[v] : a < v /\ older[a] \subseteq older[v]
    /\ v >= nextRN => older[v] = {}

WriterInv ==
  writer # Idle =>
    /\ writer.rn = PodNum(writer.pod) /\ writer.rn < fileRN
    /\ writer.prev = writer.rn \/ writer.prev \in older[writer.rn]
    /\ writer.op = "del" => PodMagic(writer.pod) = "deleted"
    /\ writer.step = "chain" => writer.prev \in older[writer.rn] /\ older[writer.rn] \cap kept = {}
    /\ writer.step = "gap" =>
         /\ SameFile(writer.gap, writer.rn) /\ fileRN = writer.rn + 1
         /\ \A n \in Nat : writer.gap <= n /\ n <= writer.rn => At(fs, n).magic = "zero"

\* What is at a place has the number of that place, and no place before it in the file is empty.
DiskInv ==
  \A n \in Nat :
    /\ At(fs, n).magic = "zero" => At(fs, n) = Zero
    /\ At(fs, n).magic # "zero" =>
         /\ At(fs, n).rn = n /\ n < fileRN
         /\ At(fs, n).prev = n \/ At(fs, n).prev \in older[n]
         /\ \A m \in Nat : m < n /\ SameFile(m, n) => At(fs, m).magic # "zero"

\* What a bitmap has deleted is not kept, and is before what is to be written.
BitsInv == \A n \in Nat : Marked(fs, n) => n \notin kept \ filled /\ n < Written

KeptInv == \A n \in kept : n < nextRN /\ (n \notin filled => At(fs, n).magic = "committed")

\* In the file that is being written, every place before is written.
FileInv ==
  \A n \in Nat :
    n < Written /\ SameFile(n, Written) /\ ~(WriterAt({"record"}) /\ n = writer.rn) => At(fs, n).magic # "zero"

\* Record 0 may be purged only when it is not to be written: a place that is empty reads as record 0.
PurgeInv ==
  /\ minRN # MaxRN => nextRN >= 1 /\ \A p \in Pending : PodNum(p) >= 1
  /\ purging # Idle => minRN # MaxRN

RecoverInv ==
  recovering # {} =>
    /\ held = {} /\ queue = << >> /\ writer = Idle
    /\ \A rn \in recovering : At(fs, rn).magic # "zero"

NextInv == fileRN <= nextRN

DiskPart == DiskInv /\ BitsInv /\ KeptInv /\ FileInv /\ RecoverInv /\ NextInv
MemPart == MemInv /\ HeldInv /\ LineInv /\ PendingInv /\ OlderInv /\ WriterInv /\ PurgeInv
SafeInv == DiskPart /\ MemPart

-----------------------------------------------------------------------------
(* Places in files *)

LEMMA Between ==
  ASSUME NEW m \in Nat, NEW k \in Nat, NEW n \in Nat, m <= k, k <= n, SameFile(m, n)
  PROVE  SameFile(m, k) /\ SameFile(k, n)
<1>1. FileOf(m) <= FileOf(k) /\ FileOf(k) <= FileOf(n) /\ FileOf(m) = FileOf(n)
  BY FileOrder DEF SameFile
<1>2. FileOf(m) \in Nat /\ FileOf(k) \in Nat /\ FileOf(n) \in Nat
  BY FileSlot
<1> QED
  BY <1>1, <1>2 DEF SameFile

LEMMA FileStart ==
  ASSUME NEW n \in Nat
  PROVE  LET start == FileOf(n) * FileRecs IN
         /\ start \in Nat /\ start <= n /\ SameFile(start, n)
         /\ \A m \in Nat : SameFile(m, n) => start <= m
<1> DEFINE start == FileOf(n) * FileRecs
<1>1. FileOf(n) \in Nat /\ SlotOf(n) \in Nat /\ n = start + SlotOf(n) /\ 0 \in Slot
  BY FileSlot, StoreAssumption DEF Slot
<1>2. start \in Nat
  BY <1>1, StoreAssumption
<1>3. FileOf(start) = FileOf(n)
  <2>1. FileOf(start + 0) = FileOf(n)
    BY <1>1, SlotFile
  <2> HIDE DEF start
  <2>2. start + 0 = start
    BY <1>2
  <2> QED
    BY <2>1, <2>2
<1>4. ASSUME NEW m \in Nat, SameFile(m, n)
      PROVE  start <= m
  <2>1. SlotOf(m) \in Nat /\ m = FileOf(m) * FileRecs + SlotOf(m) /\ FileOf(m) = FileOf(n)
    BY <1>4, FileSlot, StoreAssumption DEF Slot, SameFile
  <2>2. m = start + SlotOf(m)
    BY <2>1
  <2> HIDE DEF start
  <2> QED
    BY <1>2, <2>1, <2>2
<1> HIDE DEF start
<1>5. start <= n
  BY <1>1, <1>2
<1> QED
  BY <1>2, <1>3, <1>4, <1>5 DEF start, SameFile

LEMMA InitSafe == Init => SafeInv
<1> SUFFICES ASSUME Init PROVE SafeInv
  OBVIOUS
<1>1. /\ mem.pods = << >> /\ mem.cache = << >> /\ fs.disk = << >> /\ fs.open = << >>
      /\ nextRN = 0 /\ minRN = MaxRN /\ fileRN = 0
      /\ held = {} /\ queue = << >> /\ writer = Idle /\ purging = Idle /\ recovering = {}
      /\ older = [rn \in RN |-> {}] /\ kept = {} /\ filled = {}
  BY DEF Init
<1>2. \A n \in Nat : At(fs, n) = Zero /\ ~Marked(fs, n)
  BY <1>1 DEF At, Marked
<1>3. InLine = {} /\ ToWrite = {} /\ Pending = {} /\ Written = 0
  BY <1>1 DEF InLine, ToWrite, Pending, Written, WriterAt, ToSet
<1>4. DiskPart
  BY <1>1, <1>2, <1>3 DEF DiskPart, DiskInv, BitsInv, KeptInv, FileInv, RecoverInv, NextInv, Zero
<1>5. MemInv /\ HeldInv /\ LineInv /\ PendingInv
  BY <1>1, <1>3 DEF MemInv, HeldInv, LineInv, PendingInv
<1>6. OlderInv /\ WriterInv /\ PurgeInv
  BY <1>1, <1>3 DEF OlderInv, WriterInv, PurgeInv
<1> QED
  BY <1>4, <1>5, <1>6 DEF SafeInv, MemPart

\* Nothing is at or after the place that is to be written next, nor where a gap is still to be filled.
LEMMA Ahead ==
  ASSUME TypeInv, DiskInv, WriterInv, NEW n \in Nat, At(fs, n).magic # "zero"
  PROVE  n < Written /\ n < fileRN
<1>1. n < fileRN /\ fileRN \in Nat
  BY TypeFacts DEF DiskInv
<1>2. CASE WriterAt({"gap"})
  <2>1. writer # Idle /\ writer.step = "gap" /\ writer.gap \in Nat /\ writer.rn \in Nat
    BY <1>2, WriterFacts, RNIs DEF WriterAt
  <2>2. /\ fileRN = writer.rn + 1
        /\ writer.gap <= n /\ n <= writer.rn => At(fs, n).magic = "zero"
    BY <2>1 DEF WriterInv
  <2>3. n < writer.gap
    BY <1>1, <2>1, <2>2
  <2> QED
    BY <1>1, <1>2, <2>3 DEF Written
<1>3. CASE ~WriterAt({"gap"})
  BY <1>1, <1>3 DEF Written
<1> QED
  BY <1>2, <1>3

LEMMA WrittenIs ==
  ASSUME TypeInv, WriterInv
  PROVE  Written \in Nat /\ Written <= fileRN
<1>1. CASE WriterAt({"gap"})
  <2>1. writer # Idle /\ writer.step = "gap" /\ writer.gap \in Nat /\ writer.rn \in Nat /\ writer.gap < writer.rn
    BY <1>1, WriterFacts, RNIs DEF WriterAt
  <2>2. fileRN = writer.rn + 1
    BY <2>1 DEF WriterInv
  <2> QED
    BY <1>1, <2>1, <2>2 DEF Written
<1>2. CASE ~WriterAt({"gap"})
  BY <1>2, TypeFacts DEF Written
<1> QED
  BY <1>1, <1>2

\* A call of the application, and opening files, leave what the files hold.
LEMMA CallDisk ==
  ASSUME TypeInv, SafeInv, Opened(fs, fs'), UNCHANGED <<writer, fileRN, kept, filled>>,
         recovering' = {}, nextRN' \in Nat, nextRN <= nextRN',
         \A n \in Nat : n < nextRN => older'[n] = older[n]
  PROVE  DiskPart'
<1>1. /\ \A n \in Nat : At(fs', n) = At(fs, n)
      /\ \A n \in Nat : Marked(fs', n) => Marked(fs, n) \/ At(fs, n).magic \in {"allocated", "deleted"}
  BY DEF Opened
<1>2. /\ nextRN \in Nat /\ fileRN \in Nat /\ kept \subseteq Nat /\ fileRN <= nextRN
  BY TypeFacts, RNIs DEF SafeInv, DiskPart, NextInv
<1>3. Written' = Written
  BY DEF Written, WriterAt
<1>4. DiskInv'
  <2>1. \A n \in Nat : At(fs, n).magic # "zero" => older'[n] = older[n]
    BY <1>2 DEF SafeInv, DiskPart, DiskInv
  <2> QED
    BY <1>1, <2>1 DEF SafeInv, DiskPart, DiskInv
<1>5. BitsInv'
  <2> SUFFICES ASSUME NEW n \in Nat, Marked(fs', n)
               PROVE  n \notin kept \ filled /\ n < Written
    BY <1>3 DEF BitsInv
  <2>1. CASE Marked(fs, n)
    BY <2>1 DEF SafeInv, DiskPart, BitsInv
  <2>2. CASE At(fs, n).magic \in {"allocated", "deleted"}
    BY <2>2, Ahead DEF SafeInv, DiskPart, MemPart, KeptInv
  <2> QED
    BY <1>1, <2>1, <2>2
<1>6. KeptInv'
  BY <1>1, <1>2 DEF SafeInv, DiskPart, KeptInv
<1>7. FileInv'
  BY <1>1, <1>3 DEF SafeInv, DiskPart, FileInv, WriterAt
<1>8. RecoverInv' /\ NextInv'
  BY <1>2 DEF RecoverInv, NextInv
<1> QED
  BY <1>4, <1>5, <1>6, <1>7, <1>8 DEF DiskPart

LEMMA SafeFacts ==
  ASSUME TypeInv, SafeInv
  PROVE  /\ MemInv /\ HeldInv /\ LineInv /\ PendingInv /\ OlderInv /\ WriterInv /\ PurgeInv
         /\ DiskInv /\ BitsInv /\ KeptInv /\ FileInv /\ RecoverInv /\ NextInv
         /\ InLine \subseteq DOMAIN mem.pods /\ ToWrite \subseteq InLine
         /\ Pending \subseteq DOMAIN mem.pods /\ held \subseteq Pending
         /\ ToSet(queue) \subseteq ToWrite /\ ToSet(mem.cache) \subseteq DOMAIN mem.pods
         /\ \A p \in DOMAIN mem.pods : PodNum(p) \in RN /\ PodNum(p) \in Nat /\ PodNum(p) < nextRN
<1>1. /\ MemInv /\ HeldInv /\ LineInv /\ PendingInv /\ OlderInv /\ WriterInv /\ PurgeInv
      /\ DiskInv /\ BitsInv /\ KeptInv /\ FileInv /\ RecoverInv /\ NextInv
  BY DEF SafeInv, DiskPart, MemPart
<1>2. /\ MemOK(mem) /\ held \subseteq DOMAIN mem.pods /\ queue \in Seq(DOMAIN mem.pods)
      /\ mem.pods \in [DOMAIN mem.pods -> Pod]
  BY TypeFacts
<1>3. ToSet(queue) \subseteq DOMAIN mem.pods /\ ToSet(mem.cache) \subseteq DOMAIN mem.pods
  BY <1>2, ToSetOf DEF MemOK
<1>4. writer # Idle => writer.pod \in DOMAIN mem.pods
  BY WriterFacts
<1>5. InLine \subseteq DOMAIN mem.pods /\ ToWrite \subseteq InLine /\ ToSet(queue) \subseteq ToWrite
  BY <1>3, <1>4 DEF InLine, ToWrite, WriterAt
<1>6. Pending \subseteq DOMAIN mem.pods /\ held \subseteq Pending
  BY <1>2, <1>5 DEF Pending
<1>7. ASSUME NEW p \in DOMAIN mem.pods
      PROVE  PodNum(p) \in RN /\ PodNum(p) \in Nat /\ PodNum(p) < nextRN
  <2>1. mem.pods[p] \in Pod
    BY <1>2
  <2>2. PodNum(p) \in RN
    BY <2>1, PodIs DEF PodNum
  <2> QED
    BY <1>1, <2>2, RNIs DEF MemInv
<1> QED
  BY <1>1, <1>3, <1>5, <1>6, <1>7

\* The record the write thread has keeps its number.
LEMMA CallWriter ==
  ASSUME TypeInv, SafeInv, Opened(fs, fs'), UNCHANGED <<writer, fileRN, kept>>,
         \A n \in Nat : n < nextRN => older'[n] = older[n],
         writer # Idle => PodNum(writer.pod)' = PodNum(writer.pod),
         writer # Idle => PodMagic(writer.pod)' \in {PodMagic(writer.pod), "deleted"}
  PROVE  WriterInv'
<1> SUFFICES ASSUME writer # Idle PROVE WriterInv'
  BY DEF WriterInv
<1>1. \A n \in Nat : At(fs', n) = At(fs, n)
  BY DEF Opened
<1>2. WriterInv /\ fileRN <= nextRN /\ writer.rn \in Nat /\ fileRN \in Nat /\ nextRN \in Nat /\ writer.rn < fileRN
  BY SafeFacts, WriterFacts, RNIs, TypeFacts DEF WriterInv, NextInv
<1>3. older'[writer.rn] = older[writer.rn]
  BY <1>2
<1> QED
  BY <1>1, <1>2, <1>3 DEF WriterInv

LEMMA NewRecordSafe ==
  ASSUME TypeInv, SafeInv, recovering = {}, Push \/ Update
  PROVE  SafeInv'
<1>1. PICK prev \in 0..nextRN : Opened(fs, fs') /\ Allocate(mem, prev)
  BY NewRecordIs
<1>2. PICK p \in Pods \ DOMAIN mem.pods :
        /\ p = NewPod /\ nextRN \in RN
        /\ MemOK(mem') /\ mem'.cache = mem.cache
        /\ DOMAIN mem'.pods = DOMAIN mem.pods \cup {p}
        /\ mem'.pods[p] = [data |-> [rn |-> nextRN, prev |-> prev, magic |-> "allocated"],
                           op |-> "none", pinned |-> FALSE]
        /\ \A q \in DOMAIN mem.pods : mem'.pods[q] = mem.pods[q]
  BY <1>1, AllocateIs
<1>3. held' = held \cup {p} /\ queue' = queue /\ nextRN' = nextRN + 1 /\ nextRN < MaxRN
      /\ older' = [older EXCEPT ![nextRN] = IF prev = nextRN THEN {} ELSE {prev} \cup older[prev]]
      /\ UNCHANGED <<minRN, fileRN, writer, purging, recovering, purges, crashes>>
      /\ UNCHANGED <<live, kept, filled, gapped, erased, torn>>
  BY <1>1, <1>2 DEF Allocate
<1>4. /\ held \subseteq DOMAIN mem.pods /\ nextRN \in Nat /\ MaxRN \in Nat /\ fileRN \in Nat
      /\ older \in [RN -> SUBSET RN] /\ fileRN <= nextRN /\ nextRN' \in Nat /\ nextRN <= nextRN'
      /\ prev \in Nat /\ prev <= nextRN
  BY <1>3, TypeFacts, SafeFacts DEF NextInv
<1>5. \A n \in Nat : n < nextRN => older'[n] = older[n]
  <2>1. \A n \in Nat : n < nextRN => n \in RN /\ n # nextRN
    BY <1>3, <1>4, RNIs
  <2> QED
    BY <1>3, <1>4, <2>1
<1>5a. older'[nextRN] = IF prev = nextRN THEN {} ELSE {prev} \cup older[prev]
  BY <1>2, <1>3, <1>4
<1>6. DiskPart'
  BY <1>1, <1>3, <1>4, <1>5, CallDisk
<1>7. /\ \A q \in DOMAIN mem.pods : PodNum(q)' = PodNum(q) /\ PodPrev(q)' = PodPrev(q) /\ PodMagic(q)' = PodMagic(q)
      /\ PodNum(p)' = nextRN /\ PodPrev(p)' = prev /\ PodMagic(p)' = "allocated"
  BY <1>2 DEF PodNum, PodPrev, PodMagic
<1>8. \A q \in DOMAIN mem.pods : PodNum(q) \in Nat /\ PodNum(q) < nextRN
  BY SafeFacts
<1>9. MemInv'
  <2>1. ASSUME NEW q \in DOMAIN mem.pods
        PROVE  /\ PodNum(q)' < nextRN' /\ (PodPrev(q)' = PodNum(q)' \/ PodPrev(q)' \in older'[PodNum(q)'])
    BY <1>4, <1>5, <1>7, <1>8, SafeFacts DEF MemInv
  <2>2. PodNum(p)' < nextRN' /\ (PodPrev(p)' = PodNum(p)' \/ PodPrev(p)' \in older'[PodNum(p)'])
    BY <1>3, <1>4, <1>5a, <1>7
  <2> QED
    BY <1>2, <2>1, <2>2 DEF MemInv
<1>10. InLine' = InLine
  BY <1>3 DEF InLine
<1>11. HeldInv'
  BY <1>2, <1>3, <1>4, <1>7, <1>10, SafeFacts DEF HeldInv
<1>12. LineInv'
  <2>1. \A q : Once(q)' <=> Once(q)
    BY <1>3 DEF Once
  <2> QED
    BY <1>2, <1>7, <1>10, <2>1, SafeFacts DEF LineInv
<1>13. ToWrite' = ToWrite
  BY <1>3 DEF ToWrite, WriterAt
<1>14. Pending' = Pending \cup {p}
  BY <1>3, <1>7, <1>13, SafeFacts DEF Pending
<1>15. /\ \A n \in Nat : At(fs', n) = At(fs, n)
       /\ \A n \in Nat : At(fs, n).magic = "zero" /\ ~Marked(fs, n) => ~Marked(fs', n)
  BY <1>1 DEF Opened
<1>16. /\ nextRN \notin kept /\ At(fs, nextRN).magic = "zero" /\ ~Marked(fs, nextRN)
  <2>1. nextRN \notin kept
    BY <1>4, SafeFacts DEF KeptInv
  <2>2. At(fs, nextRN).magic = "zero"
    BY <1>4, SafeFacts, Ahead
  <2>3. ~Marked(fs, nextRN)
    BY <1>4, SafeFacts, WrittenIs DEF BitsInv
  <2> QED
    BY <2>1, <2>2, <2>3
<1>17. PendingInv'
  <2>1. ASSUME NEW r \in Pending'
        PROVE  /\ PodNum(r)' \notin kept'
               /\ At(fs', PodNum(r)').magic # "committed"
               /\ PodNum(r)' \in filled' \/ (At(fs', PodNum(r)').magic = "zero" /\ ~Marked(fs', PodNum(r)'))
    <3>1. CASE r = p
      BY <1>3, <1>4, <1>7, <1>15, <1>16, <3>1
    <3>2. CASE r \in Pending
      <4>1. r \in DOMAIN mem.pods
        BY <3>2, SafeFacts
      <4>2. /\ PodNum(r) \notin kept /\ At(fs, PodNum(r)).magic # "committed"
            /\ PodNum(r) \in filled \/ (At(fs, PodNum(r)).magic = "zero" /\ ~Marked(fs, PodNum(r)))
        BY <3>2, SafeFacts DEF PendingInv
      <4> QED
        BY <1>3, <1>7, <1>8, <1>15, <4>1, <4>2
    <3> QED
      BY <1>14, <3>1, <3>2
  <2>2. ASSUME NEW r \in Pending', NEW q \in DOMAIN mem'.pods, q # r, PodNum(q)' = PodNum(r)'
        PROVE  /\ q \notin Pending' /\ PodMagic(q)' # "committed" /\ q \notin ToSet(mem'.cache)
               /\ q \in ToWrite' => PodNum(r)' \in filled'
    <3>1. r \in DOMAIN mem.pods \cup {p}
      BY <1>14, SafeFacts
    <3>2. r # p /\ q # p /\ r \in DOMAIN mem.pods /\ q \in DOMAIN mem.pods
      BY <1>2, <1>4, <1>7, <1>8, <2>2, <3>1
    <3>3. r \in Pending /\ PodNum(q) = PodNum(r)
      BY <1>7, <1>14, <2>2, <3>2
    <3>4. /\ q \notin Pending /\ PodMagic(q) # "committed" /\ q \notin ToSet(mem.cache)
          /\ q \in ToWrite => PodNum(r) \in filled
      BY <2>2, <3>2, <3>3, SafeFacts DEF PendingInv
    <3> QED
      BY <1>2, <1>3, <1>7, <1>13, <1>14, <3>2, <3>4
  <2> QED
    BY <2>1, <2>2 DEF PendingInv
<1>18. OlderInv'
  <2>1. ASSUME NEW v \in RN
        PROVE  /\ \A a \in older'[v] : a < v /\ older'[a] \subseteq older'[v]
               /\ v >= nextRN' => older'[v] = {}
    <3>0. v \in Nat /\ OlderInv /\ older[v] \subseteq Nat
      BY <1>4, RNIs, SafeFacts
    <3>1. CASE v = nextRN
      <4>1. CASE prev = nextRN
        BY <1>3, <1>4, <1>5a, <3>1, <4>1
      <4>2. CASE prev # nextRN
        <5>1. prev < nextRN /\ prev \in RN
          BY <1>3, <1>4, <4>2, RNIs
        <5>2. \A a \in older[prev] : a \in Nat /\ a < prev /\ older[a] \subseteq older[prev]
          BY <1>4, <3>0, <5>1, RNIs DEF OlderInv
        <5>3. older'[v] = {prev} \cup older[prev]
          BY <1>5a, <3>1, <4>2
        <5> QED
          BY <1>3, <1>4, <1>5, <3>1, <5>1, <5>2, <5>3
      <4> QED
        BY <4>1, <4>2
    <3>2. CASE v < nextRN
      <4>1. \A a \in older[v] : a \in Nat /\ a < v /\ older[a] \subseteq older[v]
        BY <3>0 DEF OlderInv
      <4> QED
        BY <1>3, <1>4, <1>5, <3>0, <3>2, <4>1
    <3>3. CASE v > nextRN
      <4>1. older[v] = {}
        BY <1>4, <3>0, <3>3 DEF OlderInv
      <4>2. older'[v] = older[v]
        BY <1>3, <1>4, <3>0, <3>3
      <4> QED
        BY <4>1, <4>2
    <3> QED
      BY <1>4, <3>0, <3>1, <3>2, <3>3
  <2> QED
    BY <2>1 DEF OlderInv
<1>19. WriterInv'
  <2>1. writer # Idle => writer.pod \in DOMAIN mem.pods
    BY WriterFacts
  <2> QED
    BY <1>1, <1>3, <1>5, <1>7, <2>1, CallWriter
<1>20. PurgeInv'
  <2>1. ASSUME minRN' # MaxRN, NEW r \in Pending'
        PROVE  PodNum(r)' >= 1
    <3>1. r = p \/ (r \in Pending /\ r \in DOMAIN mem.pods)
      BY <1>14, SafeFacts
    <3>2. nextRN >= 1 /\ \A q \in Pending : PodNum(q) >= 1
      BY <1>3, <2>1, SafeFacts DEF PurgeInv
    <3> QED
      BY <1>7, <3>1, <3>2
  <2>2. minRN' # MaxRN => nextRN' >= 1
    BY <1>3, <1>4
  <2>3. purging' # Idle => minRN' # MaxRN
    BY <1>3, SafeFacts DEF PurgeInv
  <2> QED
    BY <2>1, <2>2, <2>3 DEF PurgeInv
<1> QED
  BY <1>6, <1>9, <1>11, <1>12, <1>17, <1>18, <1>19, <1>20 DEF SafeInv, MemPart

\* Queueing a record leaves the others queued as they were.
LEMMA OnceOther ==
  ASSUME TypeInv, NEW c \in DOMAIN mem.pods \cup Pods, Inserted(c), writer' = writer,
         NEW q, q # c, Once(q)
  PROVE  Once(q)'
<1>1. Len(queue) \in Nat /\ DOMAIN queue = 1..Len(queue) /\ DOMAIN queue' = 1..Len(queue) + 1
  BY TypeFacts DEF Inserted
<1>2. PICK i \in 1..Len(queue) + 1 :
        /\ queue'[i] = c
        /\ \A j \in 1..i - 1 : queue'[j] = queue[j]
        /\ \A j \in i..Len(queue) : queue'[j + 1] = queue[j]
  BY DEF Inserted
<1> DEFINE down(j) == IF j < i THEN j ELSE j - 1
<1>3. \A j \in DOMAIN queue' : j # i => down(j) \in DOMAIN queue /\ queue'[j] = queue[down(j)]
  <2> SUFFICES ASSUME NEW j \in DOMAIN queue', j # i
               PROVE  down(j) \in DOMAIN queue /\ queue'[j] = queue[down(j)]
    OBVIOUS
  <2>1. CASE j < i
    BY <1>1, <1>2, <2>1
  <2>2. CASE j > i
    <3>1. j - 1 \in i..Len(queue) /\ (j - 1) + 1 = j
      BY <1>1, <2>2
    <3> QED
      BY <1>1, <1>2, <2>2, <3>1
  <2> QED
    BY <1>1, <2>1, <2>2
<1>4. \A j, k \in DOMAIN queue' : j # i /\ k # i /\ down(j) = down(k) => j = k
  BY <1>1
<1> HIDE DEF down
<1>5. \A j \in DOMAIN queue' : queue'[j] = q => j # i /\ down(j) \in DOMAIN queue /\ queue[down(j)] = q
  BY <1>2, <1>3
<1>6. q \notin ToSet(queue) => q \notin ToSet(queue')
  BY <1>5 DEF ToSet
<1> QED
  BY <1>4, <1>5, <1>6 DEF Once

LEMMA OnceNew ==
  ASSUME TypeInv, NEW c \in DOMAIN mem.pods, Inserted(c), writer' = writer, c \notin InLine
  PROVE  Once(c)'
<1>1. Len(queue) \in Nat /\ DOMAIN queue = 1..Len(queue) /\ DOMAIN queue' = 1..Len(queue) + 1
  BY TypeFacts DEF Inserted
<1>2. PICK i \in 1..Len(queue) + 1 :
        /\ queue'[i] = c
        /\ \A j \in 1..i - 1 : queue'[j] = queue[j]
        /\ \A j \in i..Len(queue) : queue'[j + 1] = queue[j]
  BY DEF Inserted
<1>3. \A j \in DOMAIN queue : queue[j] # c
  BY DEF InLine, ToSet
<1>4. \A j \in DOMAIN queue' : queue'[j] = c => j = i
  <2> SUFFICES ASSUME NEW j \in DOMAIN queue', j # i
               PROVE  queue'[j] # c
    OBVIOUS
  <2>1. CASE j < i
    BY <1>1, <1>2, <1>3, <2>1
  <2>2. CASE j > i
    <3>1. j - 1 \in i..Len(queue) /\ (j - 1) + 1 = j /\ j - 1 \in DOMAIN queue
      BY <1>1, <2>2
    <3> QED
      BY <1>2, <1>3, <3>1
  <2> QED
    BY <1>1, <2>1, <2>2
<1>5. writer = Idle \/ writer.pod # c
  BY DEF InLine
<1> QED
  BY <1>4, <1>5 DEF Once

\* A call that queues a record the application held.
LEMMA QueuedSafe ==
  ASSUME TypeInv, SafeInv, NEW p \in held,
         ToSet(mem'.cache) \subseteq ToSet(mem.cache) \cup (IF PodMagic(p)' = "committed" THEN {p} ELSE {}),
         Inserted(p), ToSet(queue') = ToSet(queue) \cup {p}, held' = held \ {p},
         DOMAIN mem'.pods \subseteq DOMAIN mem.pods,
         \A q \in DOMAIN mem'.pods : q # p => mem'.pods[q] = mem.pods[q],
         writer # Idle => writer.pod \in DOMAIN mem'.pods,
         held' \subseteq DOMAIN mem'.pods, ToSet(queue') \subseteq DOMAIN mem'.pods,
         PodNum(p)' = PodNum(p), PodPrev(p)' = PodPrev(p), PodMagic(p)' \in {"committed", "deleted"},
         mem'.pods[p].op = "del" => PodMagic(p)' = "deleted",
         PodMagic(p)' = "committed" => mem'.pods[p].pinned = TRUE,
         UNCHANGED <<fs, writer, nextRN, minRN, fileRN, purging, recovering, older, kept, filled>>,
         recovering = {}
  PROVE  SafeInv'
<1>1. /\ \A q \in DOMAIN mem'.pods : q # p => /\ PodNum(q)' = PodNum(q) /\ PodPrev(q)' = PodPrev(q)
                                              /\ PodMagic(q)' = PodMagic(q)
      /\ \A q \in DOMAIN mem'.pods : PodNum(q)' = PodNum(q) /\ PodPrev(q)' = PodPrev(q)
  BY DEF PodNum, PodPrev, PodMagic
<1>2. DiskPart'
  <2>1. Opened(fs, fs')
    BY TypeFacts DEF Opened
  <2>2. nextRN' \in Nat /\ nextRN <= nextRN'
    BY TypeFacts
  <2> QED
    BY <2>1, <2>2, CallDisk
<1>3. p \in DOMAIN mem.pods /\ p \notin InLine /\ PodMagic(p) = "allocated" /\ p \in Pending
  BY SafeFacts DEF HeldInv
<1>4. InLine' = InLine \cup {p}
  BY DEF InLine
<1>5. ToWrite' = ToWrite \cup {p}
  BY DEF ToWrite, WriterAt
<1>6. \A q \in InLine : q # p /\ q \in DOMAIN mem'.pods
  BY <1>3 DEF InLine
<1>7. \A q \in ToWrite : q # p /\ q \in DOMAIN mem'.pods
  BY <1>6, SafeFacts
<1>8. Pending' \subseteq Pending /\ (PodMagic(p)' = "deleted" => p \notin Pending')
  <2>1. Pending' \subseteq Pending
    BY <1>1, <1>3, <1>5, <1>7 DEF Pending
  <2> QED
    BY <2>1 DEF Pending
<1>9. Pending' \subseteq DOMAIN mem'.pods
  BY <1>5, <1>7 DEF Pending
<1>10. MemInv'
  BY <1>1, SafeFacts DEF MemInv
<1>11. HeldInv'
  BY <1>1, <1>4, SafeFacts DEF HeldInv
<1>12. LineInv'
  <2>1. ASSUME NEW q \in InLine, q \in DOMAIN mem'.pods, q # p
        PROVE  /\ PodMagic(q)' \in {"committed", "deleted"}
               /\ mem'.pods[q].op = "del" => PodMagic(q)' = "deleted"
               /\ PodMagic(q)' = "committed" => mem'.pods[q].pinned = TRUE /\ Once(q)'
    <3>1. mem'.pods[q] = mem.pods[q] /\ PodMagic(q)' = PodMagic(q)
      BY <1>1, <2>1
    <3>2. /\ PodMagic(q) \in {"committed", "deleted"}
          /\ mem.pods[q].op = "del" => PodMagic(q) = "deleted"
          /\ PodMagic(q) = "committed" => mem.pods[q].pinned = TRUE /\ Once(q)
      BY SafeFacts DEF LineInv
    <3>3. Once(q) => Once(q)'
      BY <1>3, <2>1, OnceOther
    <3> QED
      BY <3>1, <3>2, <3>3
  <2>2. Once(p)'
    BY <1>3, OnceNew
  <2> QED
    BY <1>4, <1>6, <2>1, <2>2 DEF LineInv
<1>13. PendingInv'
  <2> SUFFICES ASSUME NEW r \in Pending'
               PROVE  /\ PodNum(r)' \notin kept'
                      /\ At(fs', PodNum(r)').magic # "committed"
                      /\ PodNum(r)' \in filled' \/ (At(fs', PodNum(r)').magic = "zero" /\ ~Marked(fs', PodNum(r)'))
                      /\ \A q \in DOMAIN mem'.pods : q # r /\ PodNum(q)' = PodNum(r)' =>
                           /\ q \notin Pending' /\ PodMagic(q)' # "committed" /\ q \notin ToSet(mem'.cache)
                           /\ q \in ToWrite' => PodNum(r)' \in filled'
    BY DEF PendingInv
  <2>1. r \in Pending /\ r \in DOMAIN mem'.pods /\ PodNum(r)' = PodNum(r)
    BY <1>1, <1>8, <1>9
  <2>2. /\ PodNum(r) \notin kept
        /\ At(fs, PodNum(r)).magic # "committed"
        /\ PodNum(r) \in filled \/ (At(fs, PodNum(r)).magic = "zero" /\ ~Marked(fs, PodNum(r)))
    BY <2>1, SafeFacts DEF PendingInv
  <2>3. ASSUME NEW q \in DOMAIN mem'.pods, q # r, PodNum(q)' = PodNum(r)'
        PROVE  /\ q \notin Pending' /\ PodMagic(q)' # "committed" /\ q \notin ToSet(mem'.cache)
               /\ q \in ToWrite' => PodNum(r)' \in filled'
    <3>1. PodNum(q) = PodNum(r) /\ q \in DOMAIN mem.pods
      BY <1>1, <2>1, <2>3
    <3>2. /\ q \notin Pending /\ PodMagic(q) # "committed" /\ q \notin ToSet(mem.cache)
          /\ q \in ToWrite => PodNum(r) \in filled
      BY <2>1, <2>3, <3>1, SafeFacts DEF PendingInv
    <3>3. q # p
      BY <1>3, <3>2
    <3> QED
      BY <1>1, <1>5, <1>8, <2>1, <3>2, <3>3
  <2> QED
    BY <2>1, <2>2, <2>3
<1>14. OlderInv'
  BY SafeFacts DEF OlderInv
<1>15. WriterInv'
  <2>1. Opened(fs, fs')
    BY TypeFacts DEF Opened
  <2>2. writer # Idle => writer.pod # p
    BY <1>3 DEF InLine
  <2>3. writer # Idle => PodNum(writer.pod)' = PodNum(writer.pod) /\ PodMagic(writer.pod)' = PodMagic(writer.pod)
    BY <2>2 DEF PodNum, PodMagic
  <2> QED
    BY <2>1, <2>3, CallWriter
<1>16. PurgeInv'
  BY <1>1, <1>8, <1>9, SafeFacts DEF PurgeInv
<1> QED
  BY <1>2, <1>10, <1>11, <1>12, <1>13, <1>14, <1>15, <1>16 DEF SafeInv, MemPart

LEMMA PutSafe ==
  ASSUME TypeInv, SafeInv, recovering = {}, NEW p \in held, NEW replace \in BOOLEAN, Put(p, replace)
  PROVE  SafeInv'
<1>1. /\ MemOK(mem') /\ ToSet(mem'.cache) \subseteq ToSet(mem.cache) \cup {p}
      /\ Inserted(p) /\ queue' \in Seq(DOMAIN mem'.pods) /\ held' \subseteq DOMAIN mem'.pods
      /\ ToSet(queue') = ToSet(queue) \cup {p} /\ p \in DOMAIN mem'.pods /\ p \in DOMAIN mem.pods
      /\ writer.pod \in DOMAIN mem.pods => writer.pod \in DOMAIN mem'.pods
      /\ DOMAIN mem'.pods \subseteq DOMAIN mem.pods
      /\ \A q \in DOMAIN mem'.pods : q # p => mem'.pods[q] = mem.pods[q]
      /\ mem'.pods[p].data.rn = mem.pods[p].data.rn /\ mem'.pods[p].data.prev = mem.pods[p].data.prev
      /\ mem'.pods[p].data.magic = "committed" /\ mem'.pods[p].op \in {"add", "upd"}
      /\ mem'.pods[p].pinned = TRUE
  BY PutIs
<1>2. /\ held' = held \ {p}
      /\ UNCHANGED <<fs, writer, nextRN, minRN, fileRN, purging, recovering, older, kept, filled>>
  BY DEF Put, numbers
<1>3. ToSet(queue') \subseteq DOMAIN mem'.pods
  BY <1>1, ToSetOf
<1>4. writer # Idle => writer.pod \in DOMAIN mem'.pods
  BY <1>1, WriterFacts
<1>5. /\ PodNum(p)' = PodNum(p) /\ PodPrev(p)' = PodPrev(p) /\ PodMagic(p)' = "committed"
      /\ mem'.pods[p].op # "del"
  BY <1>1 DEF PodNum, PodPrev, PodMagic
<1>6. ToSet(mem'.cache) \subseteq ToSet(mem.cache) \cup (IF PodMagic(p)' = "committed" THEN {p} ELSE {})
  BY <1>1, <1>5
<1> QED
  BY <1>1, <1>2, <1>3, <1>4, <1>5, <1>6, QueuedSafe

LEMMA AbortSafe ==
  ASSUME TypeInv, SafeInv, recovering = {}, NEW p \in held, Abort(p)
  PROVE  SafeInv'
<1>1. /\ MemOK(mem') /\ mem'.cache = mem.cache
      /\ Inserted(p) /\ queue' \in Seq(DOMAIN mem'.pods) /\ held' \subseteq DOMAIN mem'.pods
      /\ ToSet(queue') = ToSet(queue) \cup {p} /\ p \in DOMAIN mem'.pods /\ p \in DOMAIN mem.pods
      /\ writer.pod \in DOMAIN mem.pods => writer.pod \in DOMAIN mem'.pods
      /\ DOMAIN mem'.pods \subseteq DOMAIN mem.pods
      /\ \A q \in DOMAIN mem'.pods : q # p => mem'.pods[q] = mem.pods[q]
      /\ mem'.pods[p].data.rn = mem.pods[p].data.rn /\ mem'.pods[p].data.prev = mem.pods[p].data.prev
      /\ mem'.pods[p].data.magic = "deleted" /\ mem'.pods[p].op = "del"
  BY AbortIs
<1>2. /\ held' = held \ {p}
      /\ UNCHANGED <<fs, writer, nextRN, minRN, fileRN, purging, recovering, older, kept, filled>>
  BY DEF Abort, numbers, history
<1>3. ToSet(queue') \subseteq DOMAIN mem'.pods
  BY <1>1, ToSetOf
<1>4. writer # Idle => writer.pod \in DOMAIN mem'.pods
  BY <1>1, WriterFacts
<1>5. /\ PodNum(p)' = PodNum(p) /\ PodPrev(p)' = PodPrev(p) /\ PodMagic(p)' = "deleted"
  BY <1>1 DEF PodNum, PodPrev, PodMagic
<1>6. ToSet(mem'.cache) \subseteq ToSet(mem.cache) \cup (IF PodMagic(p)' = "committed" THEN {p} ELSE {})
  BY <1>1, <1>5
<1> QED
  BY <1>1, <1>2, <1>3, <1>4, <1>5, <1>6, QueuedSafe

LEMMA GetSafe ==
  ASSUME TypeInv, SafeInv, recovering = {}, Get
  PROVE  SafeInv'
<1>1. PICK rn \in 0..(nextRN - 1), c \in Pods :
        /\ \A q \in DOMAIN mem'.pods :
             \/ q \in DOMAIN mem.pods /\ mem'.pods[q] = mem.pods[q]
             \/ /\ q = c /\ c \notin DOMAIN mem.pods /\ mem'.pods[q] = Loaded(rn)
                /\ At(fs, rn).magic = "committed"
        /\ ToSet(mem'.cache) \subseteq ToSet(mem.cache) \cup (DOMAIN mem'.pods \ DOMAIN mem.pods)
  BY GetIs
<1>2. /\ Opened(fs, fs')
      /\ MemOK(mem') /\ held' \subseteq DOMAIN mem'.pods /\ queue' \in Seq(DOMAIN mem'.pods)
      /\ writer.pod \in DOMAIN mem.pods => writer.pod \in DOMAIN mem'.pods
      /\ UNCHANGED <<held, queue, writer, nextRN, minRN, fileRN, purging, recovering, older, kept, filled>>
  BY GetIs DEF Get, numbers, history
<1>3. /\ nextRN \in Nat /\ rn \in Nat /\ rn < nextRN
  BY TypeFacts
<1>4. /\ \A q \in DOMAIN mem'.pods : q \in DOMAIN mem.pods =>
           PodNum(q)' = PodNum(q) /\ PodPrev(q)' = PodPrev(q) /\ PodMagic(q)' = PodMagic(q)
      /\ \A q \in DOMAIN mem'.pods : q \notin DOMAIN mem.pods =>
           /\ At(fs, rn).magic = "committed"
           /\ PodNum(q)' = At(fs, rn).rn /\ PodPrev(q)' = At(fs, rn).prev
  <2>1. ASSUME NEW q \in DOMAIN mem'.pods, q \in DOMAIN mem.pods
        PROVE  mem'.pods[q] = mem.pods[q]
    BY <1>1, <2>1
  <2>2. ASSUME NEW q \in DOMAIN mem'.pods, q \notin DOMAIN mem.pods
        PROVE  mem'.pods[q] = Loaded(rn) /\ At(fs, rn).magic = "committed"
    BY <1>1, <2>2
  <2> QED
    BY <2>1, <2>2 DEF PodNum, PodPrev, PodMagic, Loaded
<1>5. At(fs, rn).magic = "committed" => /\ At(fs, rn).rn = rn
                                        /\ At(fs, rn).prev = rn \/ At(fs, rn).prev \in older[rn]
  BY <1>3, SafeFacts DEF DiskInv
<1>6. DiskPart'
  BY <1>2, <1>3, CallDisk
<1>7. MemInv'
  <2>1. ASSUME NEW q \in DOMAIN mem'.pods
        PROVE  PodNum(q)' < nextRN' /\ (PodPrev(q)' = PodNum(q)' \/ PodPrev(q)' \in older'[PodNum(q)'])
    <3>1. CASE q \in DOMAIN mem.pods
      BY <1>2, <1>4, <3>1, SafeFacts DEF MemInv
    <3>2. CASE q \notin DOMAIN mem.pods
      BY <1>2, <1>3, <1>4, <1>5, <3>2
    <3> QED
      BY <3>1, <3>2
  <2> QED
    BY <2>1 DEF MemInv
<1>8. /\ InLine' = InLine /\ InLine \subseteq DOMAIN mem.pods /\ ToWrite \subseteq InLine
      /\ ToWrite' = ToWrite
  BY <1>2, SafeFacts DEF InLine, ToWrite, WriterAt
<1>9. InLine \subseteq DOMAIN mem'.pods
  BY <1>2, ToSetOf, WriterFacts DEF InLine
<1>10. HeldInv'
  BY <1>1, <1>2, <1>4, <1>8, SafeFacts DEF HeldInv
<1>11. LineInv'
  <2>1. \A q \in InLine : PodMagic(q)' = PodMagic(q) /\ mem'.pods[q] = mem.pods[q]
    BY <1>1, <1>4, <1>8, <1>9
  <2>2. \A q : Once(q)' <=> Once(q)
    BY <1>2 DEF Once
  <2> QED
    BY <1>8, <2>1, <2>2, SafeFacts DEF LineInv
<1>12. Pending' = Pending /\ Pending \subseteq DOMAIN mem'.pods /\ Pending \subseteq DOMAIN mem.pods
  <2>1. \A q \in ToWrite : PodMagic(q)' = PodMagic(q)
    BY <1>4, <1>8, <1>9
  <2> QED
    BY <1>2, <1>8, <1>9, <2>1, SafeFacts DEF Pending
<1>13. /\ \A n \in Nat : At(fs', n) = At(fs, n)
       /\ \A n \in Nat : At(fs, n).magic = "zero" /\ ~Marked(fs, n) => ~Marked(fs', n)
  BY <1>2 DEF Opened
<1>14. PendingInv'
  <2>1. ASSUME NEW r \in Pending
        PROVE  /\ PodNum(r)' = PodNum(r) /\ PodNum(r) \in Nat
               /\ PodNum(r) \notin kept /\ At(fs, PodNum(r)).magic # "committed"
               /\ PodNum(r) \in filled \/ (At(fs, PodNum(r)).magic = "zero" /\ ~Marked(fs, PodNum(r)))
    BY <1>4, <1>12, SafeFacts DEF PendingInv
  <2>2. ASSUME NEW r \in Pending, NEW q \in DOMAIN mem'.pods, q # r, PodNum(q)' = PodNum(r)
        PROVE  /\ q \notin Pending /\ PodMagic(q)' # "committed" /\ q \notin ToSet(mem'.cache)
               /\ q \in ToWrite => PodNum(r) \in filled
    <3>1. q \in DOMAIN mem.pods
      BY <1>4, <1>5, <2>1, <2>2
    <3>2. PodNum(q) = PodNum(r) /\ PodMagic(q)' = PodMagic(q)
      BY <1>4, <2>2, <3>1
    <3>3. /\ q \notin Pending /\ PodMagic(q) # "committed" /\ q \notin ToSet(mem.cache)
          /\ q \in ToWrite => PodNum(r) \in filled
      BY <2>2, <3>1, <3>2, SafeFacts DEF PendingInv
    <3> QED
      BY <1>1, <3>1, <3>2, <3>3
  <2>3. \A r \in Pending' :
          /\ PodNum(r)' \notin kept'
          /\ At(fs', PodNum(r)').magic # "committed"
          /\ PodNum(r)' \in filled' \/ (At(fs', PodNum(r)').magic = "zero" /\ ~Marked(fs', PodNum(r)'))
    BY <1>2, <1>12, <1>13, <2>1
  <2>4. \A r \in Pending' : \A q \in DOMAIN mem'.pods : q # r /\ PodNum(q)' = PodNum(r)' =>
          /\ q \notin Pending' /\ PodMagic(q)' # "committed" /\ q \notin ToSet(mem'.cache)
          /\ q \in ToWrite' => PodNum(r)' \in filled'
    BY <1>2, <1>8, <1>12, <2>1, <2>2
  <2> QED
    BY <2>3, <2>4 DEF PendingInv
<1>15. OlderInv'
  BY <1>2, SafeFacts DEF OlderInv
<1>16. WriterInv'
  <2>1. writer # Idle => PodNum(writer.pod)' = PodNum(writer.pod) /\ PodMagic(writer.pod)' = PodMagic(writer.pod)
    <3>1. writer # Idle => writer.pod \in DOMAIN mem.pods /\ writer.pod \in DOMAIN mem'.pods
      BY <1>2, WriterFacts
    <3> QED
      BY <1>1, <1>2, <3>1 DEF PodNum, PodMagic
  <2> QED
    BY <1>2, <2>1, CallWriter
<1>17. PurgeInv'
  BY <1>2, <1>4, <1>12, SafeFacts DEF PurgeInv
<1> QED
  BY <1>6, <1>7, <1>10, <1>11, <1>14, <1>15, <1>16, <1>17 DEF SafeInv, MemPart

\* A call that queues a record as deleted.
LEMMA CondemnedSafe ==
  ASSUME TypeInv, SafeInv, NEW c \in Pods, Condemned(c), c \notin held, Opened(fs, fs'),
         UNCHANGED <<fileRN, kept, filled, recovering>>, recovering = {},
         nextRN' \in Nat, nextRN <= nextRN', \A n \in Nat : n < nextRN => older'[n] = older[n],
         OlderInv',
         PodNum(c)' < nextRN', PodPrev(c)' = PodNum(c)' \/ PodPrev(c)' \in older'[PodNum(c)'],
         c \in InLine => PodNum(c)' = PodNum(c),
         \A r \in Pending : r # c /\ PodNum(c)' = PodNum(r) => PodNum(r) \in filled /\ c \notin ToSet(mem.cache),
         minRN' # MaxRN => minRN # MaxRN, purging' # Idle => minRN' # MaxRN
  PROVE  SafeInv'
<1>1. /\ MemOK(mem') /\ ToSet(mem'.cache) \subseteq ToSet(mem.cache)
      /\ Inserted(c) /\ queue' \in Seq(DOMAIN mem'.pods) /\ held' \subseteq DOMAIN mem'.pods
      /\ UNCHANGED <<held, writer>>
      /\ ToSet(queue') = ToSet(queue) \cup {c} /\ c \in DOMAIN mem'.pods
      /\ writer.pod \in DOMAIN mem.pods => writer.pod \in DOMAIN mem'.pods
      /\ \A q \in DOMAIN mem'.pods : q # c => q \in DOMAIN mem.pods /\ mem'.pods[q] = mem.pods[q]
      /\ PodMagic(c)' = "deleted" /\ mem'.pods[c].op = "del"
  BY DEF Condemned, PodMagic
<1>2. \A q \in DOMAIN mem'.pods : q # c => /\ PodNum(q)' = PodNum(q) /\ PodPrev(q)' = PodPrev(q)
                                           /\ PodMagic(q)' = PodMagic(q) /\ q \in DOMAIN mem.pods
  BY <1>1 DEF PodNum, PodPrev, PodMagic
<1>3. DiskPart'
  BY <1>1, CallDisk
<1>4. nextRN \in Nat /\ \A q \in DOMAIN mem.pods : PodNum(q) \in Nat /\ PodNum(q) < nextRN
  BY TypeFacts, SafeFacts
<1>5. MemInv'
  <2>1. ASSUME NEW q \in DOMAIN mem'.pods, q # c
        PROVE  PodNum(q)' < nextRN' /\ (PodPrev(q)' = PodNum(q)' \/ PodPrev(q)' \in older'[PodNum(q)'])
    BY <1>2, <1>4, <2>1, SafeFacts DEF MemInv
  <2> QED
    BY <2>1 DEF MemInv
<1>6. /\ InLine' = InLine \cup {c} /\ ToWrite' = ToWrite \cup {c} /\ ToWrite \subseteq InLine
      /\ InLine \subseteq DOMAIN mem.pods
  BY <1>1, SafeFacts DEF InLine, ToWrite, WriterAt
<1>7. InLine' \subseteq DOMAIN mem'.pods
  BY <1>1, ToSetOf, WriterFacts DEF InLine
<1>8. HeldInv'
  BY <1>1, <1>2, <1>6, SafeFacts DEF HeldInv
<1>9. LineInv'
  <2>1. ASSUME NEW q \in InLine, q # c
        PROVE  /\ PodMagic(q)' \in {"committed", "deleted"}
               /\ mem'.pods[q].op = "del" => PodMagic(q)' = "deleted"
               /\ PodMagic(q)' = "committed" => mem'.pods[q].pinned = TRUE /\ Once(q)'
    <3>0. q \in DOMAIN mem'.pods
      BY <1>6, <1>7
    <3>1. mem'.pods[q] = mem.pods[q] /\ PodMagic(q)' = PodMagic(q)
      BY <1>1, <1>2, <2>1, <3>0
    <3>2. /\ PodMagic(q) \in {"committed", "deleted"}
          /\ mem.pods[q].op = "del" => PodMagic(q) = "deleted"
          /\ PodMagic(q) = "committed" => mem.pods[q].pinned = TRUE /\ Once(q)
      BY SafeFacts DEF LineInv
    <3>3. Once(q) => Once(q)'
      BY <1>1, <2>1, OnceOther
    <3> QED
      BY <3>1, <3>2, <3>3
  <2> QED
    BY <1>1, <1>6, <2>1 DEF LineInv
<1>10. /\ Pending' \subseteq Pending \ {c}
       /\ Pending' \subseteq DOMAIN mem'.pods
  <2>1. c \notin Pending'
    BY <1>1 DEF Pending
  <2>2. \A q \in ToWrite : q \in DOMAIN mem'.pods
    BY <1>6, <1>7
  <2> QED
    BY <1>1, <1>2, <1>6, <2>1, <2>2 DEF Pending
<1>11. /\ \A n \in Nat : At(fs', n) = At(fs, n)
       /\ \A n \in Nat : At(fs, n).magic = "zero" /\ ~Marked(fs, n) => ~Marked(fs', n)
  BY DEF Opened
<1>12. PendingInv'
  <2>1. ASSUME NEW r \in Pending'
        PROVE  /\ r \in Pending /\ r # c /\ r \in DOMAIN mem'.pods
               /\ PodNum(r)' = PodNum(r) /\ PodNum(r) \in Nat
               /\ PodNum(r) \notin kept /\ At(fs, PodNum(r)).magic # "committed"
               /\ PodNum(r) \in filled \/ (At(fs, PodNum(r)).magic = "zero" /\ ~Marked(fs, PodNum(r)))
    BY <1>2, <1>4, <1>10, SafeFacts DEF PendingInv
  <2>2. ASSUME NEW r \in Pending', NEW q \in DOMAIN mem'.pods, q # r, PodNum(q)' = PodNum(r)
        PROVE  /\ q \notin Pending' /\ PodMagic(q)' # "committed" /\ q \notin ToSet(mem'.cache)
               /\ q \in ToWrite' => PodNum(r) \in filled
    <3>1. CASE q = c
      <4>1. PodNum(r) \in filled /\ c \notin ToSet(mem.cache)
        BY <2>1, <2>2, <3>1
      <4> QED
        BY <1>1, <1>10, <3>1, <4>1
    <3>2. CASE q # c
      <4>1. PodNum(q) = PodNum(r) /\ PodMagic(q)' = PodMagic(q) /\ q \in DOMAIN mem.pods
        BY <1>2, <2>2, <3>2
      <4>2. /\ q \notin Pending /\ PodMagic(q) # "committed" /\ q \notin ToSet(mem.cache)
            /\ q \in ToWrite => PodNum(r) \in filled
        BY <2>1, <2>2, <4>1, SafeFacts DEF PendingInv
      <4> QED
        BY <1>1, <1>6, <1>10, <3>2, <4>1, <4>2
    <3> QED
      BY <3>1, <3>2
  <2>3. \A r \in Pending' :
          /\ PodNum(r)' \notin kept'
          /\ At(fs', PodNum(r)').magic # "committed"
          /\ PodNum(r)' \in filled' \/ (At(fs', PodNum(r)').magic = "zero" /\ ~Marked(fs', PodNum(r)'))
    BY <1>11, <2>1
  <2>4. \A r \in Pending' : \A q \in DOMAIN mem'.pods : q # r /\ PodNum(q)' = PodNum(r)' =>
          /\ q \notin Pending' /\ PodMagic(q)' # "committed" /\ q \notin ToSet(mem'.cache)
          /\ q \in ToWrite' => PodNum(r)' \in filled'
    BY <2>1, <2>2
  <2> QED
    BY <2>3, <2>4 DEF PendingInv
<1>13. WriterInv'
  <2>1. writer # Idle => /\ PodNum(writer.pod)' = PodNum(writer.pod)
                         /\ PodMagic(writer.pod)' \in {PodMagic(writer.pod), "deleted"}
    <3>1. writer # Idle => writer.pod \in DOMAIN mem'.pods /\ writer.pod \in InLine
      BY <1>1, WriterFacts DEF InLine
    <3>2. CASE writer # Idle /\ writer.pod = c
      <4>1. writer'.pod = c
        BY <1>1, <3>2
      <4> QED
        BY <1>1, <3>1, <3>2, <4>1 DEF PodNum, PodMagic
    <3>3. CASE writer # Idle /\ writer.pod # c
      <4>1. mem'.pods[writer'.pod] = mem.pods[writer.pod]
        BY <1>1, <3>1, <3>3
      <4> QED
        BY <4>1 DEF PodNum, PodMagic
    <3> QED
      BY <3>2, <3>3
  <2> QED
    BY <1>1, <2>1, CallWriter
<1>14. PurgeInv'
  <2>1. ASSUME minRN # MaxRN, NEW r \in Pending'
        PROVE  PodNum(r)' >= 1
    BY <1>2, <1>10, <2>1, SafeFacts DEF PurgeInv
  <2>2. minRN # MaxRN => nextRN' >= 1
    BY <1>4, SafeFacts DEF PurgeInv
  <2> QED
    BY <2>1, <2>2 DEF PurgeInv
<1> QED
  BY <1>3, <1>5, <1>8, <1>9, <1>12, <1>13, <1>14 DEF SafeInv, MemPart

\* A new version, whose number is nextRN, replaces prev.
LEMMA OlderExtended ==
  ASSUME TypeInv, SafeInv, nextRN \in RN, nextRN' = nextRN + 1, NEW prev \in 0..(nextRN - 1),
         older' = [older EXCEPT ![nextRN] = {prev} \cup older[prev]]
  PROVE  OlderInv' /\ older'[nextRN] = {prev} \cup older[prev] /\ \A n \in Nat : n < nextRN => older'[n] = older[n]
<1>1. /\ nextRN \in Nat /\ MaxRN \in Nat /\ nextRN < MaxRN /\ older \in [RN -> SUBSET RN]
      /\ prev \in Nat /\ prev < nextRN /\ prev \in RN
  BY TypeFacts, RNIs
<1>2. \A n \in Nat : n < nextRN => older'[n] = older[n]
  <2>1. \A n \in Nat : n < nextRN => n \in RN /\ n # nextRN
    BY <1>1, RNIs
  <2> QED
    BY <1>1, <2>1
<1>3. older'[nextRN] = {prev} \cup older[prev]
  BY <1>1
<1>4. ASSUME NEW v \in RN
      PROVE  /\ \A a \in older'[v] : a < v /\ older'[a] \subseteq older'[v]
             /\ v >= nextRN' => older'[v] = {}
  <2>0. v \in Nat /\ OlderInv /\ older[v] \subseteq Nat
    BY <1>1, RNIs, SafeFacts
  <2>1. CASE v = nextRN
    <3>1. \A a \in older[prev] : a \in Nat /\ a < prev /\ older[a] \subseteq older[prev]
      BY <1>1, <2>0, RNIs DEF OlderInv
    <3> QED
      BY <1>1, <1>2, <1>3, <2>1, <3>1
  <2>2. CASE v < nextRN
    <3>1. \A a \in older[v] : a \in Nat /\ a < v /\ older[a] \subseteq older[v]
      BY <2>0 DEF OlderInv
    <3> QED
      BY <1>1, <1>2, <2>0, <2>2, <3>1
  <2>3. CASE v > nextRN
    <3>1. older[v] = {}
      BY <1>1, <2>0, <2>3 DEF OlderInv
    <3>2. older'[v] = older[v]
      BY <1>1, <2>0, <2>3
    <3> QED
      BY <3>1, <3>2
  <2> QED
    BY <1>1, <2>0, <2>1, <2>2, <2>3
<1> QED
  BY <1>2, <1>3, <1>4 DEF OlderInv

LEMMA DelSafe ==
  ASSUME DelQueued = FALSE, TypeInv, SafeInv, recovering = {}, Del
  PROVE  SafeInv'
<1>1. PICK rn \in 0..(nextRN - 1), c \in Pods :
        /\ Condemned(c)
        /\ older' = [older EXCEPT ![nextRN] = {rn} \cup older[rn]]
        /\ mem'.pods[c].data.rn = nextRN /\ mem'.pods[c].data.prev = rn
        /\ c \in DOMAIN mem.pods =>
             mem.pods[c].data.magic = "committed" /\ (~mem.pods[c].pinned \/ DelQueued)
  BY DelIs
<1>2. /\ Opened(fs, fs') /\ nextRN \in RN /\ nextRN' = nextRN + 1
      /\ UNCHANGED <<writer, minRN, fileRN, purging, recovering, kept, filled>>
  BY DelIs DEF Del
<1>3. OlderInv' /\ older'[nextRN] = {rn} \cup older[rn] /\ \A n \in Nat : n < nextRN => older'[n] = older[n]
  BY <1>1, <1>2, OlderExtended
<1>4. /\ nextRN \in Nat /\ nextRN' \in Nat /\ nextRN <= nextRN' /\ nextRN < nextRN'
      /\ held \subseteq DOMAIN mem.pods /\ InLine \subseteq DOMAIN mem.pods
  BY <1>2, TypeFacts, SafeFacts
<1>5. c \notin held /\ c \notin InLine
  <2>1. CASE c \in DOMAIN mem.pods
    <3>1. PodMagic(c) = "committed" /\ mem.pods[c].pinned # TRUE
      BY <1>1, <2>1 DEF PodMagic
    <3> QED
      BY <3>1, SafeFacts DEF HeldInv, LineInv
  <2>2. CASE c \notin DOMAIN mem.pods
    BY <1>4, <2>2
  <2> QED
    BY <2>1, <2>2
<1>6. PodNum(c)' = nextRN /\ PodPrev(c)' = rn
  BY <1>1 DEF PodNum, PodPrev
<1>7. PodNum(c)' < nextRN' /\ PodPrev(c)' \in older'[PodNum(c)']
  BY <1>3, <1>4, <1>6
<1>8. \A r \in Pending : PodNum(r) # nextRN
  <2>1. \A r \in Pending : PodNum(r) \in Nat /\ PodNum(r) < nextRN
    BY SafeFacts
  <2> QED
    BY <1>4, <2>1
<1>9. purging' # Idle => minRN' # MaxRN
  BY <1>2, SafeFacts DEF PurgeInv
<1> QED
  BY <1>1, <1>2, <1>3, <1>4, <1>5, <1>6, <1>7, <1>8, <1>9, CondemnedSafe

\* A call that does nothing but open files.
LEMMA QuietSafe ==
  ASSUME TypeInv, SafeInv, recovering = {}, Opened(fs, fs'),
         UNCHANGED <<mem, held, queue, writer, nextRN, fileRN, minRN, older, kept, filled, recovering>>,
         purging' # Idle => minRN # MaxRN
  PROVE  SafeInv'
<1>1. DiskPart'
  BY CallDisk, TypeFacts
<1>2. /\ InLine' = InLine /\ ToWrite' = ToWrite /\ Pending' = Pending
      /\ \A q : (Once(q)' <=> Once(q))
      /\ \A q : PodNum(q)' = PodNum(q) /\ PodPrev(q)' = PodPrev(q) /\ PodMagic(q)' = PodMagic(q)
  BY DEF InLine, ToWrite, Pending, WriterAt, Once, PodNum, PodPrev, PodMagic
<1>3. /\ \A n \in Nat : At(fs', n) = At(fs, n)
      /\ \A n \in Nat : At(fs, n).magic = "zero" /\ ~Marked(fs, n) => ~Marked(fs', n)
  BY DEF Opened
<1>4. MemInv' /\ HeldInv' /\ LineInv' /\ OlderInv'
  BY <1>2, SafeFacts DEF MemInv, HeldInv, LineInv, OlderInv
<1>5. PendingInv'
  <2>1. \A r \in Pending : PodNum(r) \in Nat
    BY SafeFacts
  <2> QED
    BY <1>2, <1>3, <2>1, SafeFacts DEF PendingInv
<1>6. WriterInv'
  BY <1>2, CallWriter
<1>7. PurgeInv'
  BY <1>2, SafeFacts DEF PurgeInv
<1> QED
  BY <1>1, <1>4, <1>5, <1>6, <1>7 DEF SafeInv, MemPart

LEMMA PurgeSafe ==
  ASSUME TypeInv, SafeInv, recovering = {}, Purge
  PROVE  SafeInv'
<1>1. /\ UNCHANGED <<mem, fs, nextRN, minRN, fileRN, held, queue, writer, recovering, older, kept, filled>>
      /\ \E min \in (minRN + 1)..nextRN : TRUE
  BY DEF Purge, numbers, history
<1>2. minRN # MaxRN
  BY <1>1, TypeFacts
<1>3. Opened(fs, fs')
  BY <1>1, TypeFacts DEF Opened
<1> QED
  BY <1>1, <1>2, <1>3, QuietSafe

LEMMA PurgeStepSafe ==
  ASSUME TypeInv, SafeInv, recovering = {}, PurgeStep
  PROVE  SafeInv'
<1>0. /\ purging # Idle /\ UNCHANGED <<nextRN, fileRN, recovering, older, kept, filled>>
      /\ minRN # MaxRN
  BY SafeFacts DEF PurgeStep, PurgeInv
<1>1. CASE purging' = Idle /\ UNCHANGED <<mem, fs, minRN, queue, live, late, held, writer>>
  <2>1. Opened(fs, fs')
    BY <1>1, TypeFacts DEF Opened
  <2> QED
    BY <1>0, <1>1, <2>1, QuietSafe
<1>2. CASE Opened(fs, fs') /\ UNCHANGED <<mem, minRN, queue, live, late, held, writer>>
  BY <1>0, <1>2, QuietSafe
<1>3. CASE /\ purging.rn < nextRN /\ purging.rn \in RN
           /\ Opened(fs, fs') /\ minRN' = purging.rn
           /\ \E c \in Pods :
                /\ Condemned(c)
                /\ c \in DOMAIN mem.pods =>
                     /\ c \in ToSet(mem.cache)
                     /\ mem'.pods[c].data.rn = mem.pods[c].data.rn
                     /\ mem'.pods[c].data.prev = mem.pods[c].data.prev
                /\ c \notin DOMAIN mem.pods =>
                     /\ mem'.pods[c].data.rn = At(fs, purging.rn).rn
                     /\ mem'.pods[c].data.prev = At(fs, purging.rn).prev
  <2> DEFINE n == purging.rn
  <2>1. PICK c \in Pods :
          /\ Condemned(c)
          /\ c \in DOMAIN mem.pods =>
               c \in ToSet(mem.cache) /\ PodNum(c)' = PodNum(c) /\ PodPrev(c)' = PodPrev(c)
          /\ c \notin DOMAIN mem.pods => PodNum(c)' = At(fs, n).rn /\ PodPrev(c)' = At(fs, n).prev
    BY <1>3 DEF PodNum, PodPrev
  <2>2. n < nextRN /\ n \in Nat /\ n \in RN /\ n # MaxRN /\ nextRN \in Nat /\ minRN' = n
    <3>1. n < nextRN /\ n \in RN /\ minRN' = n
      BY <1>3
    <3> HIDE DEF n
    <3>2. n \in Nat /\ n < MaxRN /\ MaxRN \in Nat
      BY <3>1, RNIs
    <3> QED
      BY <3>1, <3>2, TypeFacts
  <2> HIDE DEF n
  <2>3. /\ held \subseteq DOMAIN mem.pods /\ InLine \subseteq DOMAIN mem.pods /\ Pending \subseteq DOMAIN mem.pods
        /\ ToSet(mem.cache) \subseteq DOMAIN mem.pods
    BY SafeFacts
  <2>4. c \notin held
    BY <2>1, <2>3, SafeFacts DEF HeldInv
  <2>5. /\ At(fs, n).magic = "zero" => At(fs, n).rn = 0 /\ At(fs, n).prev = 0
        /\ At(fs, n).magic # "zero" => At(fs, n).rn = n /\ (At(fs, n).prev = n \/ At(fs, n).prev \in older[n])
    BY <2>2, SafeFacts DEF DiskInv, Zero
  <2>6. PodNum(c)' < nextRN' /\ (PodPrev(c)' = PodNum(c)' \/ PodPrev(c)' \in older'[PodNum(c)'])
    <3>1. CASE c \in DOMAIN mem.pods
      BY <1>0, <2>1, <3>1, SafeFacts DEF MemInv
    <3>2. CASE c \notin DOMAIN mem.pods
      BY <1>0, <2>1, <2>2, <2>5, <3>2
    <3> QED
      BY <3>1, <3>2
  <2>7. ASSUME NEW r \in Pending, r # c, PodNum(c)' = PodNum(r)
        PROVE  PodNum(r) \in filled /\ c \notin ToSet(mem.cache)
    <3>1. CASE c \in DOMAIN mem.pods
      BY <2>1, <2>7, <3>1, SafeFacts DEF PendingInv
    <3>2. CASE c \notin DOMAIN mem.pods
      <4>1. PodNum(r) >= 1 /\ PodNum(r) \in Nat
        BY <1>0, <2>3, SafeFacts DEF PurgeInv
      <4>2. At(fs, n).magic # "zero" /\ PodNum(r) = n
        BY <2>1, <2>5, <2>7, <3>2, <4>1
      <4>3. PodNum(r) \in filled
        BY <4>2, SafeFacts DEF PendingInv
      <4> QED
        BY <2>3, <3>2, <4>3
    <3> QED
      BY <3>1, <3>2
  <2>8. nextRN' \in Nat /\ nextRN <= nextRN' /\ \A k \in Nat : k < nextRN => older'[k] = older[k]
    BY <1>0, <2>2
  <2>9. OlderInv'
    BY <1>0, SafeFacts DEF OlderInv
  <2>10. c \in InLine => PodNum(c)' = PodNum(c)
    BY <2>1, <2>3
  <2>11. Opened(fs, fs')
    BY <1>3
  <2> QED
    BY <1>0, <2>1, <2>2, <2>4, <2>6, <2>7, <2>8, <2>9, <2>10, <2>11, CondemnedSafe
<1> QED
  BY <1>1, <1>2, <1>3, PurgeStepIs

-----------------------------------------------------------------------------
(* The steps of the write thread keep the invariant *)

\* What a step of the write thread leaves alone.
LEMMA WriteFacts ==
  ASSUME WriterUnchanged, UNCHANGED mem
  PROVE  /\ \A q : PodNum(q)' = PodNum(q) /\ PodPrev(q)' = PodPrev(q) /\ PodMagic(q)' = PodMagic(q)
         /\ UNCHANGED <<mem, nextRN, minRN, held, purging, recovering, older>>
BY DEF WriterUnchanged, PodNum, PodPrev, PodMagic

LEMMA WriteBeginSafe ==
  ASSUME TypeInv, SafeInv, recovering = {}, WriteBegin
  PROVE  SafeInv'
<1>1. PICK p \in DOMAIN mem.pods : p = Head(queue)
  BY WriteBeginIs
<1> DEFINE rn == PodNum(p)
           gap == GapStart(rn)
           start == FileOf(rn) * FileRecs
<1>2. /\ writer = Idle /\ queue # << >>
      /\ ToSet(queue) = ToSet(queue') \cup {p} /\ queue' = Tail(queue)
      /\ rn \in RN /\ gap \in Nat
      /\ gap = IF fileRN >= start THEN fileRN ELSE start
      /\ writer' = [pod |-> p, rn |-> rn, prev |-> PodPrev(p), op |-> mem.pods[p].op,
                    step |-> IF gap < rn THEN "gap" ELSE "record", gap |-> gap]
      /\ fileRN' = IF fileRN >= rn + 1 THEN fileRN ELSE rn + 1
      /\ writer' # Idle
  BY <1>1, WriteBeginIs DEF PodNum, PodPrev
<1>3. /\ UNCHANGED <<fs, kept, filled>> /\ UNCHANGED <<mem, nextRN, minRN, held, purging, recovering, older>>
      /\ \A q : PodNum(q)' = PodNum(q) /\ PodPrev(q)' = PodPrev(q) /\ PodMagic(q)' = PodMagic(q)
  BY WriteFacts DEF WriteBegin
<1>4. /\ rn \in Nat /\ rn < nextRN /\ nextRN \in Nat /\ fileRN \in Nat /\ fileRN <= nextRN
  BY <1>1, TypeFacts, SafeFacts DEF NextInv
<1> HIDE DEF rn
<1>5. /\ start \in Nat /\ start <= rn /\ SameFile(start, rn)
      /\ \A m \in Nat : SameFile(m, rn) => start <= m
  BY <1>4, FileStart
<1> HIDE DEF start, gap
<1>6. /\ InLine' = InLine /\ ToWrite' = ToWrite /\ Pending' = Pending
  <2>1. writer'.pod = p /\ writer'.step \in {"gap", "record"}
    BY <1>2
  <2>2. InLine' = InLine /\ ToWrite' = ToWrite
    BY <1>2, <2>1 DEF InLine, ToWrite, WriterAt
  <2> QED
    BY <1>3, <2>2 DEF Pending
<1>7. Written = fileRN /\ fileRN <= fileRN' /\ Written' = IF gap < rn THEN gap ELSE fileRN'
  <2>1. writer'.step = IF gap < rn THEN "gap" ELSE "record"
    BY <1>2
  <2>2. writer'.gap = gap
    BY <1>2
  <2>3. WriterAt({"gap"})' <=> gap < rn
    BY <1>2, <2>1 DEF WriterAt
  <2>4. fileRN <= fileRN'
    BY <1>2, <1>4
  <2> QED
    BY <1>2, <2>2, <2>3, <2>4 DEF Written, WriterAt
<1>8. fileRN <= gap /\ (gap < rn => fileRN' = rn + 1 /\ fileRN' \in Nat)
  BY <1>2, <1>4, <1>5
<1>9. DiskInv'
  <2>1. fileRN' \in Nat
    BY <1>2, <1>4
  <2> QED
    BY <1>3, <1>4, <1>7, <2>1, SafeFacts DEF DiskInv
<1>10. BitsInv'
  <2>1. fileRN' \in Nat /\ \A n \in Nat : n < fileRN => n < Written'
    BY <1>2, <1>4, <1>7, <1>8
  <2> QED
    BY <1>3, <1>7, <2>1, SafeFacts DEF BitsInv
<1>11. KeptInv' /\ RecoverInv' /\ NextInv'
  <2>1. fileRN' <= nextRN
    BY <1>2, <1>4
  <2> QED
    BY <1>3, <2>1, SafeFacts DEF KeptInv, RecoverInv, NextInv
<1>12. FileInv'
  <2> SUFFICES ASSUME NEW n \in Nat, n < Written', SameFile(n, Written'), ~(WriterAt({"record"})' /\ n = writer'.rn)
               PROVE  At(fs, n).magic # "zero"
    BY <1>3 DEF FileInv
  <2>1. n < fileRN /\ SameFile(n, fileRN) => At(fs, n).magic # "zero"
    BY <1>2, <1>7, SafeFacts DEF FileInv, WriterAt
  <2>2. CASE gap < rn
    <3>1. n < gap /\ SameFile(n, gap)
      BY <1>7, <2>2
    <3>2. SameFile(gap, rn)
      BY <1>2, <1>4, <1>5, <1>8, <2>2, Between
    <3>3. SameFile(n, rn)
      BY <3>1, <3>2 DEF SameFile
    <3>4. gap = fileRN
      BY <1>2, <1>4, <1>5, <3>1, <3>3
    <3> QED
      BY <2>1, <3>1, <3>4
  <2>3. CASE ~(gap < rn)
    <3>1. writer'.step = "record" /\ writer'.rn = rn
      BY <1>2, <2>3
    <3>2. n # rn /\ n < fileRN' /\ SameFile(n, fileRN')
      BY <1>2, <1>7, <2>3, <3>1 DEF WriterAt
    <3>3. CASE fileRN >= rn + 1
      BY <1>2, <2>1, <3>2, <3>3
    <3>4. CASE ~(fileRN >= rn + 1)
      <4>1. fileRN' = rn + 1 /\ rn + 1 \in Nat /\ n <= rn /\ n < rn
        BY <1>2, <1>4, <3>2, <3>4
      <4>2. SameFile(n, rn)
        BY <1>4, <3>2, <4>1, Between
      <4>3. start <= n
        BY <1>5, <4>2
      <4>4. gap = fileRN /\ fileRN = rn
        BY <1>2, <1>4, <1>5, <2>3, <3>4, <4>1, <4>3
      <4> QED
        BY <2>1, <4>1, <4>2, <4>4
    <3> QED
      BY <3>3, <3>4
  <2> QED
    BY <2>2, <2>3
<1>13. MemInv' /\ HeldInv' /\ OlderInv' /\ PurgeInv'
  BY <1>3, <1>6, SafeFacts DEF MemInv, HeldInv, OlderInv, PurgeInv
<1>14. PendingInv'
  BY <1>3, <1>6, SafeFacts DEF PendingInv
<1>15. LineInv'
  <2>1. ASSUME NEW q, Once(q)
        PROVE  Once(q)'
    <3>1. queue \in Seq(DOMAIN mem.pods)
      BY TypeFacts
    <3>2. /\ Len(queue) \in Nat /\ DOMAIN queue = 1..Len(queue) /\ DOMAIN queue' = 1..(Len(queue) - 1)
          /\ \A i \in DOMAIN queue' : i + 1 \in DOMAIN queue /\ queue'[i] = queue[i + 1]
          /\ 1 \in DOMAIN queue /\ queue[1] = p
      BY <1>1, <1>2, <3>1, HeadTailProperties
    <3>3. \A i, j \in DOMAIN queue' : queue'[i] = q /\ queue'[j] = q => i = j
      <4> SUFFICES ASSUME NEW i \in DOMAIN queue', NEW j \in DOMAIN queue', queue'[i] = q, queue'[j] = q
                   PROVE  i = j
        OBVIOUS
      <4>1. i + 1 = j + 1
        BY <2>1, <3>2 DEF Once
      <4> QED
        BY <3>2, <4>1
    <3>4. q = p => q \notin ToSet(queue')
      <4> SUFFICES ASSUME q = p, NEW i \in DOMAIN queue', queue'[i] = p
                   PROVE  FALSE
        BY DEF ToSet
      <4>1. i + 1 = 1
        BY <2>1, <3>2 DEF Once
      <4> QED
        BY <3>2, <4>1
    <3> QED
      BY <1>2, <3>3, <3>4 DEF Once
  <2> QED
    BY <1>3, <1>6, <2>1, SafeFacts DEF LineInv
<1>16. WriterInv'
  <2>0. /\ writer'.pod = p /\ writer'.rn = rn /\ writer'.prev = PodPrev(p) /\ writer'.op = mem.pods[p].op
        /\ writer'.gap = gap /\ writer'.step # "chain" /\ (writer'.step = "gap" => gap < rn)
    BY <1>2
  <2>1. rn = PodNum(p) /\ (PodPrev(p) = rn \/ PodPrev(p) \in older[rn])
    BY <1>1, SafeFacts DEF rn, MemInv
  <2>2. mem.pods[p].op = "del" => PodMagic(p) = "deleted"
    <3>1. p \in InLine
      BY <1>2 DEF InLine
    <3> QED
      BY <3>1, SafeFacts DEF LineInv
  <2>3. rn < fileRN'
    BY <1>2, <1>4
  <2>4. ASSUME gap < rn
        PROVE  /\ SameFile(gap, rn) /\ fileRN' = rn + 1
               /\ \A n \in Nat : gap <= n /\ n <= rn => At(fs, n).magic = "zero"
    <3>1. SameFile(gap, rn)
      BY <1>2, <1>4, <1>5, <1>8, <2>4, Between
    <3>2. ASSUME NEW n \in Nat, gap <= n
          PROVE  At(fs, n).magic = "zero"
      <4>1. ~(n < fileRN)
        BY <1>2, <1>4, <1>8, <3>2
      <4> QED
        BY <4>1, SafeFacts DEF DiskInv
    <3> QED
      BY <1>8, <2>4, <3>1, <3>2
  <2> QED
    BY <1>3, <2>0, <2>1, <2>2, <2>3, <2>4 DEF WriterInv, PodNum, PodMagic
<1> QED
  BY <1>9, <1>10, <1>11, <1>12, <1>13, <1>14, <1>15, <1>16 DEF SafeInv, MemPart, DiskPart

\* The records in memory, in a step of a write that has begun.
LEMMA WriteMem ==
  ASSUME TypeInv, SafeInv, WriterUnchanged, UNCHANGED <<mem, queue>>,
         writer # Idle, writer' # Idle, writer'.pod = writer.pod,
         writer'.step \in {"gap", "record"} => writer.step \in {"gap", "record"}
  PROVE  /\ MemInv' /\ HeldInv' /\ LineInv' /\ OlderInv' /\ PurgeInv'
         /\ Pending' \subseteq Pending /\ ToWrite' \subseteq ToWrite
<1>1. /\ UNCHANGED <<mem, nextRN, minRN, held, purging, recovering, older>>
      /\ \A q : PodNum(q)' = PodNum(q) /\ PodPrev(q)' = PodPrev(q) /\ PodMagic(q)' = PodMagic(q)
  BY WriteFacts
<1>2. InLine' = InLine /\ ToWrite' \subseteq ToWrite
  BY DEF InLine, ToWrite, WriterAt
<1>3. Pending' \subseteq Pending
  BY <1>1, <1>2 DEF Pending
<1>4. \A q : (Once(q)' <=> Once(q))
  BY DEF Once
<1>5. MemInv' /\ HeldInv' /\ LineInv' /\ OlderInv'
  BY <1>1, <1>2, <1>4, SafeFacts DEF MemInv, HeldInv, LineInv, OlderInv
<1>6. PurgeInv'
  BY <1>1, <1>3, SafeFacts DEF PurgeInv
<1> QED
  BY <1>2, <1>3, <1>5, <1>6

LEMMA WritePending ==
  ASSUME TypeInv, SafeInv, WriterUnchanged, UNCHANGED mem, Pending' \subseteq Pending, ToWrite' \subseteq ToWrite,
         filled \subseteq filled',
         \A r \in Pending' :
           /\ PodNum(r) \notin kept' /\ At(fs', PodNum(r)).magic # "committed"
           /\ PodNum(r) \in filled' \/ (At(fs', PodNum(r)).magic = "zero" /\ ~Marked(fs', PodNum(r)))
  PROVE  PendingInv'
<1>1. \A q : PodNum(q)' = PodNum(q) /\ PodPrev(q)' = PodPrev(q) /\ PodMagic(q)' = PodMagic(q)
  BY WriteFacts
<1>2. \A r \in Pending' : \A q \in DOMAIN mem.pods : q # r /\ PodNum(q) = PodNum(r) =>
        /\ q \notin Pending' /\ PodMagic(q) # "committed" /\ q \notin ToSet(mem.cache)
        /\ q \in ToWrite' => PodNum(r) \in filled'
  BY SafeFacts DEF PendingInv
<1> QED
  BY <1>1, <1>2 DEF PendingInv

LEMMA WriteGapSafe ==
  ASSUME TypeInv, SafeInv, recovering = {}, WriteGap
  PROVE  SafeInv'
<1> DEFINE g == writer.gap
           rn == writer.rn
           d == [rn |-> g, prev |-> g, magic |-> "deleted"]
<1>1. /\ writer # Idle /\ writer.step = "gap" /\ g \in RN /\ g < rn
      /\ Erased(fs, fs', g, d)
      /\ filled' = filled \cup {g}
      /\ writer' = [pod |-> writer.pod, rn |-> rn, prev |-> writer.prev, op |-> writer.op,
                    step |-> IF g + 1 < rn THEN "gap" ELSE "record", gap |-> g + 1]
  BY WriteGapIs
<1>2. UNCHANGED <<mem, fileRN, queue, kept, gapped, erased>> /\ WriterUnchanged
  BY DEF WriteGap
<1>3. /\ UNCHANGED <<mem, nextRN, minRN, held, purging, recovering, older>>
      /\ \A q : PodNum(q)' = PodNum(q) /\ PodPrev(q)' = PodPrev(q) /\ PodMagic(q)' = PodMagic(q)
  BY <1>2, WriteFacts
<1>4. /\ writer'.pod = writer.pod /\ writer'.rn = rn /\ writer'.prev = writer.prev /\ writer'.op = writer.op
      /\ writer'.step = (IF g + 1 < rn THEN "gap" ELSE "record") /\ writer'.gap = g + 1 /\ writer' # Idle
  <2>1. writer.pod # 0
    BY <1>1, WriterFacts
  <2>2. writer'.pod # Idle.pod
    BY <1>1, <2>1 DEF Idle
  <2> QED
    BY <1>1, <2>2
<1>5. /\ rn = PodNum(writer.pod) /\ rn < fileRN
      /\ writer.prev = rn \/ writer.prev \in older[rn]
      /\ writer.op = "del" => PodMagic(writer.pod) = "deleted"
      /\ SameFile(g, rn) /\ fileRN = rn + 1
      /\ \A n \in Nat : g <= n /\ n <= rn => At(fs, n).magic = "zero"
  BY <1>1, SafeFacts DEF WriterInv
<1>6. /\ g \in Nat /\ rn \in Nat /\ fileRN \in Nat /\ g # rn
      /\ \A r \in Pending : PodNum(r) \in Nat
  BY <1>1, WriterFacts, RNIs, TypeFacts, SafeFacts
<1>7. d.rn = g /\ d.prev = g /\ d.magic = "deleted"
  OBVIOUS
<1> HIDE DEF g, rn, d
<1>8. Written = g /\ Written' = IF g + 1 < rn THEN g + 1 ELSE fileRN
  BY <1>1, <1>2, <1>4, <1>6 DEF Written, WriterAt, g
\* The place of the record that is to be written is in the file: it is not removed.
<1>9. At(fs', g) = d /\ \A n \in Nat : n # g => At(fs', n) = At(fs, n)
  <2>1. ~Removed(fs, fs', g)
    <3>1. SUFFICES ~Marked(fs, rn) /\ At(fs, rn).magic \notin {"allocated", "deleted"} /\ SameFile(rn, g) /\ rn # g
      BY <1>6 DEF Removed, Gone
    <3>2. ~(rn < Written)
      BY <1>1, <1>6, <1>8
    <3> QED
      BY <1>1, <1>5, <1>6, <3>2, SafeFacts DEF BitsInv, SameFile
  <2> QED
    BY <1>1, <2>1 DEF Erased
<1>10. /\ FilesOK(fs')
       /\ \A n \in Nat : Marked(fs', n) => Marked(fs, n) \/ n = g \/ At(fs, n).magic \in {"allocated", "deleted"}
  BY <1>1 DEF Erased, Gone
<1>11. DiskInv'
  <2>1. \A m \in Nat : m < g /\ SameFile(m, g) => At(fs, m).magic # "zero"
    BY <1>1, <1>8, SafeFacts DEF FileInv, WriterAt
  <2>2. ASSUME NEW n \in Nat, At(fs', n).magic # "zero"
        PROVE  /\ At(fs', n).rn = n /\ n < fileRN
               /\ At(fs', n).prev = n \/ At(fs', n).prev \in older[n]
               /\ \A m \in Nat : m < n /\ SameFile(m, n) => At(fs', m).magic # "zero"
    <3>1. CASE n = g
      <4>1. \A m \in Nat : m < n /\ SameFile(m, n) => At(fs', m).magic # "zero"
        BY <1>6, <1>9, <2>1, <3>1
      <4> QED
        BY <1>1, <1>5, <1>6, <1>7, <1>9, <3>1, <4>1
    <3>2. CASE n # g
      <4>1. At(fs', n) = At(fs, n)
        BY <1>9, <3>2
      <4>2. \A m \in Nat : At(fs, m).magic # "zero" => At(fs', m).magic # "zero"
        BY <1>7, <1>9
      <4> QED
        BY <2>2, <4>1, <4>2, SafeFacts DEF DiskInv
    <3> QED
      BY <3>1, <3>2
  <2>3. \A n \in Nat : At(fs', n).magic = "zero" => At(fs', n) = Zero
    BY <1>7, <1>9, SafeFacts DEF DiskInv
  <2> QED
    BY <1>2, <1>3, <2>2, <2>3 DEF DiskInv
<1>12. BitsInv'
  <2> SUFFICES ASSUME NEW n \in Nat, Marked(fs', n)
               PROVE  n \notin kept \ filled' /\ n < Written'
    BY <1>2 DEF BitsInv
  <2>1. g < Written'
    BY <1>1, <1>5, <1>6, <1>8
  <2>2. n = g \/ (n \notin kept \ filled /\ n < g)
    <3>1. CASE Marked(fs, n)
      BY <1>8, <3>1, SafeFacts DEF BitsInv
    <3>2. CASE At(fs, n).magic \in {"allocated", "deleted"}
      BY <1>8, <3>2, Ahead, SafeFacts DEF KeptInv
    <3> QED
      BY <1>10, <3>1, <3>2
  <2>3. Written' \in Nat
    BY <1>6, <1>8
  <2> QED
    BY <1>1, <1>6, <2>1, <2>2, <2>3
<1>13. KeptInv'
  <2>1. kept \subseteq Nat
    BY TypeFacts, RNIs
  <2> QED
    BY <1>1, <1>2, <1>3, <1>9, <2>1, SafeFacts DEF KeptInv
<1>14. FileInv'
  <2> SUFFICES ASSUME NEW n \in Nat, n < Written', SameFile(n, Written'), ~(WriterAt({"record"})' /\ n = writer'.rn)
               PROVE  At(fs', n).magic # "zero"
    BY DEF FileInv
  <2>1. \A m \in Nat : m < g /\ SameFile(m, g) => At(fs, m).magic # "zero"
    BY <1>1, <1>8, SafeFacts DEF FileInv, WriterAt
  <2>2. n <= g
    <3>1. CASE g + 1 < rn
      BY <1>6, <1>8, <3>1
    <3>2. CASE ~(g + 1 < rn)
      <4>1. WriterAt({"record"})'
        BY <1>4, <3>2 DEF WriterAt
      <4>2. n # rn /\ n < rn + 1
        BY <1>4, <1>5, <1>8, <3>2, <4>1
      <4> QED
        BY <1>6, <3>2, <4>2
    <3> QED
      BY <3>1, <3>2
  <2>3. SameFile(n, g)
    <3>1. Written' \in Nat /\ g <= Written'
      BY <1>1, <1>5, <1>6, <1>8
    <3> QED
      BY <1>6, <2>2, <3>1, Between
  <2>4. n = g \/ n < g
    BY <1>6, <2>2
  <2> QED
    BY <1>7, <1>9, <2>1, <2>3, <2>4
<1>15. RecoverInv' /\ NextInv'
  BY <1>2, <1>3, SafeFacts DEF RecoverInv, NextInv
<1>16. /\ MemInv' /\ HeldInv' /\ LineInv' /\ OlderInv' /\ PurgeInv'
       /\ Pending' \subseteq Pending /\ ToWrite' \subseteq ToWrite
  BY <1>1, <1>2, <1>4, WriteMem
<1>17. PendingInv'
  <2>1. ASSUME NEW r \in Pending'
        PROVE  /\ PodNum(r) \notin kept' /\ At(fs', PodNum(r)).magic # "committed"
               /\ PodNum(r) \in filled' \/ (At(fs', PodNum(r)).magic = "zero" /\ ~Marked(fs', PodNum(r)))
    <3>1. /\ r \in Pending /\ PodNum(r) \in Nat
          /\ PodNum(r) \notin kept /\ At(fs, PodNum(r)).magic # "committed"
          /\ PodNum(r) \in filled \/ (At(fs, PodNum(r)).magic = "zero" /\ ~Marked(fs, PodNum(r)))
      BY <1>6, <1>16, SafeFacts DEF PendingInv
    <3>2. CASE PodNum(r) = g
      BY <1>1, <1>2, <1>7, <1>9, <3>1, <3>2
    <3>3. CASE PodNum(r) # g
      BY <1>1, <1>2, <1>9, <1>10, <3>1, <3>3
    <3> QED
      BY <3>2, <3>3
  <2> QED
    BY <1>1, <1>2, <1>16, <2>1, WritePending
<1>18. WriterInv'
  <2>1. ASSUME g + 1 < rn
        PROVE  SameFile(g + 1, rn) /\ \A n \in Nat : g + 1 <= n /\ n <= rn => At(fs', n).magic = "zero"
    <3>1. g + 1 \in Nat /\ g <= g + 1 /\ g + 1 <= rn
      BY <1>6, <2>1
    <3>2. SameFile(g + 1, rn)
      BY <1>5, <1>6, <3>1, Between
    <3>3. ASSUME NEW n \in Nat, g + 1 <= n, n <= rn
          PROVE  At(fs', n).magic = "zero"
      <4>1. n # g /\ g <= n
        BY <1>6, <3>3
      <4> QED
        BY <1>5, <1>9, <3>3, <4>1
    <3> QED
      BY <3>2, <3>3
  <2>2. mem'.pods[writer'.pod] = mem.pods[writer.pod]
    BY <1>2, <1>4
  <2>3. writer'.step # "chain" /\ (writer'.step = "gap" => g + 1 < rn)
    BY <1>4
  <2> QED
    BY <1>2, <1>3, <1>4, <1>5, <2>1, <2>2, <2>3 DEF WriterInv, PodNum, PodMagic
<1> QED
  BY <1>11, <1>12, <1>13, <1>14, <1>15, <1>16, <1>17, <1>18 DEF SafeInv, MemPart, DiskPart

\* In a file that is removed nothing is kept, and it is not the file that is being written.
LEMMA RemovedKeeps ==
  ASSUME TypeInv, SafeInv, Written = fileRN, Written' = fileRN,
         UNCHANGED <<fileRN, nextRN, older, filled, recovering>>, recovering = {},
         NEW r \in Nat, r < fileRN, NEW data, Erased(fs, fs', r, data), Removed(fs, fs', r),
         kept' \subseteq kept, r \notin kept', WriterAt({"record"}) => writer.rn = r
  PROVE  DiskPart'
<1>1. /\ \A m \in Nat : SameFile(m, r) /\ m # r => Marked(fs, m) \/ At(fs, m).magic \in {"allocated", "deleted"}
      /\ \A n \in Nat : SameFile(n, r) => At(fs', n) = Zero /\ ~Marked(fs', n)
      /\ \A n \in Nat : ~SameFile(n, r) => At(fs', n) = At(fs, n)
      /\ \A n \in Nat : Marked(fs', n) => Marked(fs, n) \/ n = r \/ At(fs, n).magic \in {"allocated", "deleted"}
  BY DEF Removed, Erased, Gone
<1>2. /\ kept \subseteq Nat /\ fileRN \in Nat /\ Zero.magic = "zero" /\ SameFile(r, r)
  BY TypeFacts, RNIs DEF Zero, SameFile
<1>3. \A n \in Nat : At(fs, n).magic \in {"allocated", "deleted"} => n \notin kept \ filled /\ n < fileRN
  BY Ahead, SafeFacts DEF KeptInv
<1>4. ~SameFile(fileRN, r)
  BY <1>1, <1>2, <1>3, SafeFacts DEF BitsInv
<1>5. DiskInv'
  <2>1. ASSUME NEW n \in Nat, At(fs', n).magic # "zero"
        PROVE  /\ At(fs', n).rn = n /\ n < fileRN
               /\ At(fs', n).prev = n \/ At(fs', n).prev \in older[n]
               /\ \A m \in Nat : m < n /\ SameFile(m, n) => At(fs', m).magic # "zero"
    <3>1. ~SameFile(n, r) /\ At(fs', n) = At(fs, n)
      BY <1>1, <1>2, <2>1
    <3>2. \A m \in Nat : SameFile(m, n) => At(fs', m) = At(fs, m)
      BY <1>1, <3>1 DEF SameFile
    <3> QED
      BY <2>1, <3>1, <3>2, SafeFacts DEF DiskInv
  <2>2. \A n \in Nat : At(fs', n).magic = "zero" => At(fs', n) = Zero
    BY <1>1, SafeFacts DEF DiskInv
  <2> QED
    BY <2>1, <2>2 DEF DiskInv
<1>6. BitsInv'
  <2> SUFFICES ASSUME NEW n \in Nat, Marked(fs', n)
               PROVE  n \notin kept' \ filled /\ n < fileRN
    BY DEF BitsInv
  <2>1. n # r
    BY <1>1, <1>2
  <2> QED
    BY <1>1, <1>3, <2>1, SafeFacts DEF BitsInv
<1>7. KeptInv'
  <2>1. ASSUME NEW n \in kept', n \notin filled
        PROVE  At(fs', n).magic = "committed"
    <3>1. n \in Nat /\ n \in kept \ filled /\ n # r
      BY <1>2, <2>1
    <3>2. ~SameFile(n, r)
      BY <1>1, <1>3, <3>1, SafeFacts DEF BitsInv
    <3> QED
      BY <1>1, <3>1, <3>2, SafeFacts DEF KeptInv
  <2> QED
    BY <2>1, SafeFacts DEF KeptInv
<1>8. FileInv'
  <2>1. ASSUME NEW n \in Nat, n < fileRN, SameFile(n, fileRN)
        PROVE  At(fs', n).magic # "zero"
    <3>1. ~SameFile(n, r) /\ n # r
      BY <1>2, <1>4, <2>1 DEF SameFile
    <3>2. At(fs, n).magic # "zero"
      BY <2>1, <3>1, SafeFacts DEF FileInv
    <3> QED
      BY <1>1, <3>1, <3>2
  <2> QED
    BY <2>1 DEF FileInv
<1> QED
  BY <1>5, <1>6, <1>7, <1>8, SafeFacts DEF DiskPart, RecoverInv, NextInv

\* What is written at the place of r.
LEMMA PlacedKeeps ==
  ASSUME TypeInv, SafeInv, Written = fileRN, Written' = fileRN,
         UNCHANGED <<fileRN, nextRN, older, filled, recovering>>, recovering = {},
         NEW r \in Nat, r < fileRN, NEW d,
         At(fs', r) = d, \A n \in Nat : n # r => At(fs', n) = At(fs, n),
         d.rn = r, d.magic # "zero", d.prev = r \/ d.prev \in older[r],
         \A m \in Nat : m < r /\ SameFile(m, r) => At(fs, m).magic # "zero",
         \A n \in Nat : Marked(fs', n) =>
           Marked(fs, n) \/ (n = r /\ r \notin kept') \/ At(fs, n).magic \in Gone,
         kept' \subseteq kept \cup {r}, r \in kept' => d.magic = "committed",
         r \in kept' \ filled => r \in kept \/ (~Marked(fs, r) /\ At(fs, r).magic = "zero"),
         WriterAt({"record"}) => writer.rn = r
  PROVE  DiskPart'
<1>1. /\ kept \subseteq Nat /\ fileRN \in Nat /\ nextRN \in Nat /\ fileRN <= nextRN
      /\ \A n \in Nat : At(fs, n).magic # "zero" => At(fs', n).magic # "zero"
  BY TypeFacts, RNIs, SafeFacts DEF NextInv
<1>2. DiskInv'
  <2>1. ASSUME NEW n \in Nat, At(fs', n).magic # "zero"
        PROVE  /\ At(fs', n).rn = n /\ n < fileRN
               /\ At(fs', n).prev = n \/ At(fs', n).prev \in older[n]
               /\ \A m \in Nat : m < n /\ SameFile(m, n) => At(fs', m).magic # "zero"
    <3>1. CASE n = r
      BY <1>1, <2>1, <3>1
    <3>2. CASE n # r
      <4>1. At(fs', n) = At(fs, n)
        BY <3>2
      <4>2. /\ At(fs, n).rn = n /\ n < fileRN
            /\ At(fs, n).prev = n \/ At(fs, n).prev \in older[n]
            /\ \A m \in Nat : m < n /\ SameFile(m, n) => At(fs, m).magic # "zero"
        BY <2>1, <4>1, SafeFacts DEF DiskInv
      <4> QED
        BY <1>1, <4>1, <4>2
    <3> QED
      BY <3>1, <3>2
  <2>2. \A n \in Nat : At(fs', n).magic = "zero" => At(fs', n) = Zero
    BY SafeFacts DEF DiskInv
  <2> QED
    BY <2>1, <2>2 DEF DiskInv
<1>3. BitsInv'
  <2> SUFFICES ASSUME NEW n \in Nat, Marked(fs', n)
               PROVE  n \notin kept' \ filled /\ n < fileRN
    BY DEF BitsInv
  <2>1. CASE Marked(fs, n)
    BY <2>1, SafeFacts DEF BitsInv
  <2>2. CASE n = r /\ r \notin kept'
    BY <2>2
  <2>3. CASE At(fs, n).magic \in Gone
    <3>1. n \notin kept \ filled /\ n < fileRN /\ At(fs, n).magic # "zero"
      BY <2>3, Ahead, SafeFacts DEF KeptInv, Gone
    <3> QED
      BY <3>1
  <2> QED
    BY <2>1, <2>2, <2>3
<1>4. KeptInv'
  <2>1. ASSUME NEW n \in kept'
        PROVE  n < nextRN /\ (n \notin filled => At(fs', n).magic = "committed")
    <3>1. CASE n = r
      BY <1>1, <2>1, <3>1
    <3>2. CASE n # r
      BY <1>1, <2>1, <3>2, SafeFacts DEF KeptInv
    <3> QED
      BY <3>1, <3>2
  <2> QED
    BY <2>1 DEF KeptInv
<1>5. FileInv'
  <2>1. ASSUME NEW n \in Nat, n < fileRN, SameFile(n, fileRN)
        PROVE  At(fs', n).magic # "zero"
    <3>1. CASE n = r
      BY <3>1
    <3>2. CASE n # r
      <4>1. At(fs, n).magic # "zero"
        BY <2>1, <3>2, SafeFacts DEF FileInv
      <4> QED
        BY <1>1, <4>1
    <3> QED
      BY <3>1, <3>2
  <2> QED
    BY <2>1 DEF FileInv
<1> QED
  BY <1>2, <1>3, <1>4, <1>5, SafeFacts DEF DiskPart, RecoverInv, NextInv

\* A place that is still to be written, when another is erased or written.
LEMMA ElsewhereKeeps ==
  ASSUME TypeInv, SafeInv, NEW r \in Nat, NEW data, NEW k \in Nat, k # r,
         \/ Overwritten(fs, fs', r, data)
         \/ Erased(fs, fs', r, data),
         At(fs, k).magic # "committed",
         k \in filled \/ (At(fs, k).magic = "zero" /\ ~Marked(fs, k))
  PROVE  /\ At(fs', k).magic # "committed"
         /\ k \in filled \/ (At(fs', k).magic = "zero" /\ ~Marked(fs', k))
<1>1. CASE Removed(fs, fs', r) /\ SameFile(k, r)
  BY <1>1 DEF Removed, Zero
<1>2. CASE ~(Removed(fs, fs', r) /\ SameFile(k, r))
  <2>1. At(fs', k) = At(fs, k)
    BY <1>2 DEF Removed, Erased, Overwritten
  <2>2. Marked(fs', k) => Marked(fs, k) \/ At(fs, k).magic \in {"allocated", "deleted"}
    BY DEF Erased, Overwritten, Gone
  <2> QED
    BY <2>1, <2>2
<1> QED
  BY <1>1, <1>2

LEMMA WriteRecordSafe ==
  ASSUME TypeInv, SafeInv, recovering = {}, WriteRecord, ~gapped'
  PROVE  SafeInv'
<1> DEFINE p == writer.pod
           rn == writer.rn
           data == mem.pods[p].data
<1>1. /\ writer # Idle /\ writer.step = "record" /\ data \in Trailer
      /\ writer.op = "del" => Erased(fs, fs', rn, data)
      /\ writer.op # "del" => Overwritten(fs, fs', rn, data)
      /\ \A m \in Nat : m < rn /\ SameFile(m, rn) => At(fs, m).magic # "zero"
      /\ kept' = ((kept \cup {rn}) \ (IF data.magic = "committed" THEN {} ELSE {rn}))
                   \ (IF writer.op = "add" THEN {} ELSE older[rn])
      /\ writer' = [pod |-> p, rn |-> rn, prev |-> writer.prev, op |-> writer.op,
                    step |-> IF writer.op = "add" \/ writer.prev = rn THEN "done" ELSE "chain",
                    gap |-> writer.gap]
  BY WriteRecordIs
<1>2. UNCHANGED <<mem, fileRN, queue, filled, erased>> /\ WriterUnchanged
  BY DEF WriteRecord
<1>3. UNCHANGED <<mem, nextRN, minRN, held, purging, recovering, older>>
  BY <1>2, WriteFacts
<1>4. /\ writer'.pod = p /\ writer'.rn = rn /\ writer'.prev = writer.prev /\ writer'.op = writer.op
      /\ writer'.step = (IF writer.op = "add" \/ writer.prev = rn THEN "done" ELSE "chain") /\ writer' # Idle
  <2>1. writer.pod # 0
    BY <1>1, WriterFacts
  <2>2. writer'.pod # Idle.pod
    BY <1>1, <2>1 DEF Idle
  <2> QED
    BY <1>1, <2>2
<1>5. /\ rn = data.rn /\ rn < fileRN
      /\ writer.prev = rn \/ writer.prev \in older[rn]
      /\ writer.op = "del" => data.magic = "deleted"
  BY <1>1, SafeFacts DEF WriterInv, PodNum, PodMagic
<1>6. /\ p \in DOMAIN mem.pods /\ rn \in Nat /\ rn \in RN /\ p \in InLine /\ p \in ToWrite
  BY <1>1, WriterFacts, RNIs DEF InLine, ToWrite, WriterAt
<1>7. /\ data.magic \in {"committed", "deleted"}
      /\ data.magic = "committed" => Once(p)
      /\ data.prev = rn \/ data.prev \in older[rn]
  <2>1. /\ PodMagic(p) \in {"committed", "deleted"}
        /\ PodMagic(p) = "committed" => Once(p)
    BY <1>6, SafeFacts DEF LineInv
  <2>2. PodPrev(p) = PodNum(p) \/ PodPrev(p) \in older[PodNum(p)]
    BY <1>6, SafeFacts DEF MemInv
  <2> QED
    BY <1>5, <2>1, <2>2 DEF PodMagic, PodPrev, PodNum
<1>8. PodNum(p) = rn /\ PodMagic(p) = data.magic
  BY <1>5 DEF PodNum, PodMagic
<1> HIDE DEF data, rn, p
<1>9. Written = fileRN /\ Written' = fileRN
  BY <1>1, <1>2, <1>4 DEF Written, WriterAt
<1>10. /\ kept' \subseteq kept \cup {rn}
       /\ data.magic # "committed" => rn \notin kept' /\ kept' \subseteq kept
       /\ writer.op # "add" => older[rn] \cap kept' = {}
  BY <1>1
<1>11. data.magic = "committed" => /\ p \in Pending /\ writer.op # "del"
                                   /\ rn \in filled \/ (At(fs, rn).magic = "zero" /\ ~Marked(fs, rn))
  <2>1. data.magic = "committed" => p \in Pending
    BY <1>6, <1>8 DEF Pending
  <2> QED
    BY <1>5, <1>8, <2>1, SafeFacts DEF PendingInv
<1>12. DiskPart'
  <2>1. CASE writer.op = "del" /\ Removed(fs, fs', rn)
    <3>1. Erased(fs, fs', rn, data) /\ rn \notin kept' /\ kept' \subseteq kept
      BY <1>1, <1>5, <1>10, <2>1
    <3>2. WriterAt({"record"}) => writer.rn = rn
      BY DEF rn
    <3> QED
      BY <1>2, <1>3, <1>5, <1>6, <1>9, <2>1, <3>1, <3>2, RemovedKeeps
  <2>2. CASE ~(writer.op = "del" /\ Removed(fs, fs', rn))
    <3>1. At(fs', rn) = data /\ \A n \in Nat : n # rn => At(fs', n) = At(fs, n)
      BY <1>1, <2>2 DEF Erased, Overwritten
    <3>2. \A n \in Nat : Marked(fs', n) =>
            Marked(fs, n) \/ (n = rn /\ rn \notin kept') \/ At(fs, n).magic \in Gone
      BY <1>1, <1>5, <1>10 DEF Erased, Overwritten
    <3>3. rn \in kept' => data.magic = "committed"
      BY <1>10
    <3>4. data.rn = rn /\ data.magic # "zero"
      BY <1>5, <1>7
    <3>5. WriterAt({"record"}) => writer.rn = rn
      BY DEF rn
    <3>6. rn \in kept' \ filled => rn \in kept \/ (~Marked(fs, rn) /\ At(fs, rn).magic = "zero")
      BY <1>11, <3>3
    <3> QED
      BY <1>1, <1>2, <1>3, <1>5, <1>6, <1>7, <1>9, <1>10, <3>1, <3>2, <3>3, <3>4, <3>5, <3>6, PlacedKeeps
  <2> QED
    BY <2>1, <2>2
<1>13. /\ MemInv' /\ HeldInv' /\ LineInv' /\ OlderInv' /\ PurgeInv'
       /\ Pending' \subseteq Pending /\ ToWrite' \subseteq ToWrite
  BY <1>1, <1>2, <1>4, WriteMem DEF p
<1>14. p \notin Pending'
  <2>1. p \notin held
    BY <1>6, SafeFacts DEF HeldInv
  <2>2. ToWrite' = ToSet(queue)
    BY <1>2, <1>4 DEF ToWrite, WriterAt
  <2>3. data.magic = "committed" => p \notin ToSet(queue)
    BY <1>1, <1>7 DEF Once, p
  <2>4. p \in Pending' => p \in held \/ (p \in ToSet(queue) /\ data.magic = "committed")
    <3>1. p = writer'.pod
      BY <1>4
    <3>2. \A q : mem'.pods[q].data.magic = mem.pods[q].data.magic
      BY <1>3
    <3>3. mem.pods[p].data.magic = data.magic
      BY DEF data
    <3> QED
      BY <1>3, <2>2, <3>2, <3>3 DEF Pending, PodMagic
  <2> QED
    BY <2>1, <2>3, <2>4
<1>15. PendingInv'
  <2>1. ASSUME NEW r \in Pending'
        PROVE  /\ PodNum(r) \notin kept' /\ At(fs', PodNum(r)).magic # "committed"
               /\ PodNum(r) \in filled' \/ (At(fs', PodNum(r)).magic = "zero" /\ ~Marked(fs', PodNum(r)))
    <3>1. /\ r \in Pending /\ PodNum(r) \in Nat
          /\ PodNum(r) \notin kept /\ At(fs, PodNum(r)).magic # "committed"
          /\ PodNum(r) \in filled \/ (At(fs, PodNum(r)).magic = "zero" /\ ~Marked(fs, PodNum(r)))
      BY <1>13, SafeFacts DEF PendingInv
    <3>2. CASE PodNum(r) = rn
      <4>1. p # r
        BY <1>14
      <4>2. data.magic # "committed" /\ rn \in filled
        BY <1>6, <1>8, <3>1, <3>2, <4>1, SafeFacts DEF PendingInv
      <4>3. At(fs', rn) = data \/ At(fs', rn) = Zero
        BY <1>1, <1>6 DEF Erased, Overwritten, Removed, SameFile
      <4> QED
        BY <1>2, <1>10, <3>2, <4>2, <4>3 DEF Zero
    <3>3. CASE PodNum(r) # rn
      <4>1. Overwritten(fs, fs', rn, data) \/ Erased(fs, fs', rn, data)
        BY <1>1
      <4>2. /\ At(fs', PodNum(r)).magic # "committed"
            /\ PodNum(r) \in filled \/ (At(fs', PodNum(r)).magic = "zero" /\ ~Marked(fs', PodNum(r)))
        BY <1>6, <3>1, <3>3, <4>1, ElsewhereKeeps
      <4> QED
        BY <1>2, <1>10, <3>1, <3>3, <4>2
    <3> QED
      BY <3>2, <3>3
  <2> QED
    BY <1>2, <1>13, <2>1, WritePending
<1>16. WriterInv'
  <2>1. mem'.pods[writer'.pod] = mem.pods[p]
    BY <1>3, <1>4
  <2>2. rn = PodNum(p) /\ (writer.op = "del" => PodMagic(p) = "deleted")
    BY <1>5, <1>8
  <2>3. writer'.step = "chain" => writer.op # "add" /\ writer.prev \in older[rn] /\ older[rn] \cap kept' = {}
    BY <1>4, <1>5, <1>10
  <2>4. writer'.step # "gap"
    BY <1>4
  <2> QED
    BY <1>2, <1>3, <1>4, <1>5, <2>1, <2>2, <2>3, <2>4 DEF WriterInv, PodNum, PodMagic
<1> QED
  BY <1>12, <1>13, <1>15, <1>16 DEF SafeInv, MemPart

LEMMA WriteChainSafe ==
  ASSUME TypeInv, SafeInv, recovering = {}, WriteChain
  PROVE  SafeInv'
<1> DEFINE c == writer.prev
           rn == writer.rn
           data == At(fs, c)
<1>1. /\ writer # Idle /\ writer.step = "chain"
      /\ \/ /\ data.magic = "committed" /\ data.prev \in RN
            /\ \E d \in Trailer : /\ d.rn = data.rn /\ d.prev = data.prev /\ d.magic = "deleted"
                                  /\ Erased(fs, fs', c, d)
            /\ writer' = [pod |-> writer.pod, rn |-> rn, prev |-> data.prev, op |-> writer.op,
                          step |-> IF data.prev = c THEN "done" ELSE "chain", gap |-> writer.gap]
         \/ /\ Opened(fs, fs')
            /\ writer' = [pod |-> writer.pod, rn |-> rn, prev |-> c, op |-> writer.op,
                          step |-> "done", gap |-> writer.gap]
  BY WriteChainIs
<1>2. UNCHANGED <<mem, fileRN, queue, kept, filled, gapped, erased>> /\ WriterUnchanged
  BY DEF WriteChain
<1>3. UNCHANGED <<mem, nextRN, minRN, held, purging, recovering, older>>
  BY <1>2, WriteFacts
<1>4. /\ rn = PodNum(writer.pod) /\ rn < fileRN
      /\ writer.op = "del" => PodMagic(writer.pod) = "deleted"
      /\ c \in older[rn] /\ older[rn] \cap kept = {}
  BY <1>1, SafeFacts DEF WriterInv
<1>5. /\ writer.pod # 0 /\ c \in Nat /\ c \in RN /\ rn \in RN
      /\ nextRN' \in Nat /\ nextRN <= nextRN' /\ kept \subseteq Nat
  BY <1>1, <1>3, WriterFacts, RNIs, TypeFacts
<1> HIDE DEF c, rn
<1>6. /\ writer'.pod = writer.pod /\ writer'.rn = rn /\ writer'.op = writer.op /\ writer' # Idle
      /\ writer'.step \in {"chain", "done"}
  <2>1. /\ writer'.pod = writer.pod /\ writer'.rn = rn /\ writer'.op = writer.op
        /\ writer'.step \in {"chain", "done"}
    BY <1>1
  <2>2. writer'.pod # Idle.pod
    BY <1>5, <2>1 DEF Idle
  <2> QED
    BY <2>1, <2>2
<1>7. /\ MemInv' /\ HeldInv' /\ LineInv' /\ OlderInv' /\ PurgeInv'
      /\ Pending' \subseteq Pending /\ ToWrite' \subseteq ToWrite
  BY <1>1, <1>2, <1>6, WriteMem
<1>8. mem'.pods[writer'.pod] = mem.pods[writer.pod]
  BY <1>3, <1>6
<1>9. Written = fileRN /\ Written' = fileRN /\ ~WriterAt({"record"}) /\ ~WriterAt({"record"})'
  BY <1>1, <1>2, <1>6 DEF Written, WriterAt
<1>10. CASE /\ data.magic = "committed" /\ data.prev \in RN
            /\ \E d \in Trailer : /\ d.rn = data.rn /\ d.prev = data.prev /\ d.magic = "deleted"
                                  /\ Erased(fs, fs', c, d)
            /\ writer' = [pod |-> writer.pod, rn |-> rn, prev |-> data.prev, op |-> writer.op,
                          step |-> IF data.prev = c THEN "done" ELSE "chain", gap |-> writer.gap]
  <2>1. PICK d \in Trailer : /\ d.rn = data.rn /\ d.prev = data.prev /\ d.magic = "deleted"
                             /\ Erased(fs, fs', c, d)
    BY <1>10
  <2>2. /\ data.rn = c /\ c < fileRN
        /\ data.prev = c \/ data.prev \in older[c]
        /\ \A m \in Nat : m < c /\ SameFile(m, c) => At(fs, m).magic # "zero"
    BY <1>5, <1>10, SafeFacts DEF DiskInv
  <2>3. c \notin kept
    BY <1>4
  <2>4. DiskPart'
    <3>1. CASE Removed(fs, fs', c)
      BY <1>2, <1>3, <1>5, <1>9, <2>1, <2>2, <2>3, <3>1, RemovedKeeps
    <3>2. CASE ~Removed(fs, fs', c)
      <4>1. At(fs', c) = d /\ \A n \in Nat : n # c => At(fs', n) = At(fs, n)
        BY <2>1, <3>2 DEF Erased
      <4>2. \A n \in Nat : Marked(fs', n) =>
              Marked(fs, n) \/ (n = c /\ c \notin kept') \/ At(fs, n).magic \in Gone
        BY <1>2, <2>1, <2>3 DEF Erased
      <4>3. d.rn = c /\ d.magic # "zero" /\ (d.prev = c \/ d.prev \in older[c])
        BY <2>1, <2>2
      <4>4. c \notin kept' /\ kept' \subseteq kept \cup {c}
        BY <1>2, <2>3
      <4> QED
        BY <1>2, <1>3, <1>5, <1>9, <2>2, <4>1, <4>2, <4>3, <4>4, PlacedKeeps
    <3> QED
      BY <3>1, <3>2
  <2>5. PendingInv'
    <3>1. ASSUME NEW r \in Pending'
          PROVE  /\ PodNum(r) \notin kept' /\ At(fs', PodNum(r)).magic # "committed"
                 /\ PodNum(r) \in filled' \/ (At(fs', PodNum(r)).magic = "zero" /\ ~Marked(fs', PodNum(r)))
      <4>1. /\ r \in Pending /\ PodNum(r) \in Nat
            /\ PodNum(r) \notin kept /\ At(fs, PodNum(r)).magic # "committed"
            /\ PodNum(r) \in filled \/ (At(fs, PodNum(r)).magic = "zero" /\ ~Marked(fs, PodNum(r)))
        BY <1>7, SafeFacts DEF PendingInv
      <4>2. PodNum(r) # c
        BY <1>10, <4>1
      <4>3. /\ At(fs', PodNum(r)).magic # "committed"
            /\ PodNum(r) \in filled \/ (At(fs', PodNum(r)).magic = "zero" /\ ~Marked(fs', PodNum(r)))
        BY <1>5, <2>1, <4>1, <4>2, ElsewhereKeeps
      <4> QED
        BY <1>2, <4>1, <4>3
    <3> QED
      BY <1>2, <1>7, <3>1, WritePending
  <2>6. WriterInv'
    <3>1. data.prev \in older[rn]
      <4>1. older[c] \subseteq older[rn]
        BY <1>4, <1>5, SafeFacts DEF OlderInv
      <4> QED
        BY <1>4, <2>2, <4>1
    <3>2. writer'.prev = data.prev /\ writer'.step # "gap"
      BY <1>6, <1>10
    <3> QED
      BY <1>2, <1>3, <1>4, <1>6, <1>8, <3>1, <3>2 DEF WriterInv, PodNum, PodMagic
  <2> QED
    BY <1>7, <2>4, <2>5, <2>6 DEF SafeInv, MemPart
<1>11. CASE /\ Opened(fs, fs')
            /\ writer' = [pod |-> writer.pod, rn |-> rn, prev |-> c, op |-> writer.op,
                          step |-> "done", gap |-> writer.gap]
  <2>1. /\ \A n \in Nat : At(fs', n) = At(fs, n)
        /\ \A n \in Nat : Marked(fs', n) => Marked(fs, n) \/ At(fs, n).magic \in {"allocated", "deleted"}
    BY <1>11 DEF Opened
  <2>2. DiskInv' /\ KeptInv' /\ FileInv'
    <3>1. DiskInv'
      BY <1>2, <1>3, <2>1, SafeFacts DEF DiskInv
    <3>2. KeptInv'
      BY <1>2, <1>3, <1>5, <2>1, SafeFacts DEF KeptInv
    <3>3. FileInv'
      BY <1>9, <2>1, SafeFacts DEF FileInv
    <3> QED
      BY <3>1, <3>2, <3>3
  <2>3. BitsInv'
    <3> SUFFICES ASSUME NEW n \in Nat, Marked(fs', n)
                 PROVE  n \notin kept \ filled /\ n < fileRN
      BY <1>2, <1>9 DEF BitsInv
    <3>1. CASE Marked(fs, n)
      BY <1>9, <3>1, SafeFacts DEF BitsInv
    <3>2. CASE At(fs, n).magic \in {"allocated", "deleted"}
      BY <3>2, Ahead, SafeFacts DEF KeptInv
    <3> QED
      BY <2>1, <3>1, <3>2
  <2>4. DiskPart'
    BY <1>2, <1>3, <2>2, <2>3, SafeFacts DEF DiskPart, RecoverInv, NextInv
  <2>5. PendingInv'
    <3>1. ASSUME NEW r \in Pending'
          PROVE  /\ PodNum(r) \notin kept' /\ At(fs', PodNum(r)).magic # "committed"
                 /\ PodNum(r) \in filled' \/ (At(fs', PodNum(r)).magic = "zero" /\ ~Marked(fs', PodNum(r)))
      <4>1. /\ r \in Pending /\ PodNum(r) \in Nat
            /\ PodNum(r) \notin kept /\ At(fs, PodNum(r)).magic # "committed"
            /\ PodNum(r) \in filled \/ (At(fs, PodNum(r)).magic = "zero" /\ ~Marked(fs, PodNum(r)))
        BY <1>7, SafeFacts DEF PendingInv
      <4> QED
        BY <1>2, <2>1, <4>1
    <3> QED
      BY <1>2, <1>7, <3>1, WritePending
  <2>6. WriterInv'
    <3>1. writer'.prev = c /\ writer'.step = "done"
      BY <1>11
    <3> QED
      BY <1>2, <1>3, <1>4, <1>6, <1>8, <3>1 DEF WriterInv, PodNum, PodMagic
  <2> QED
    BY <1>7, <2>4, <2>5, <2>6 DEF SafeInv, MemPart
<1> QED
  BY <1>1, <1>10, <1>11

LEMMA WriteDoneSafe ==
  ASSUME TypeInv, SafeInv, recovering = {}, WriteDone
  PROVE  SafeInv'
<1>1. /\ MemOK(mem') /\ mem'.cache = mem.cache
      /\ held' \subseteq DOMAIN mem'.pods /\ queue' \in Seq(DOMAIN mem'.pods)
      /\ \A q \in DOMAIN mem'.pods :
           /\ q \in DOMAIN mem.pods
           /\ mem'.pods[q].data = mem.pods[q].data /\ mem'.pods[q].op = mem.pods[q].op
           /\ q # writer.pod => mem'.pods[q] = mem.pods[q]
  BY WriteDoneIs
<1>2. /\ writer # Idle /\ writer.step = "done" /\ writer' = Idle /\ UNCHANGED <<held, queue>>
      /\ UNCHANGED <<fs, nextRN, minRN, fileRN, purging, recovering, older, kept, filled>>
  BY DEF WriteDone
<1>3. \A q \in DOMAIN mem'.pods : PodNum(q)' = PodNum(q) /\ PodPrev(q)' = PodPrev(q) /\ PodMagic(q)' = PodMagic(q)
  BY <1>1 DEF PodNum, PodPrev, PodMagic
<1>4. /\ InLine' = ToSet(queue) /\ ToWrite' = ToSet(queue) /\ ToWrite = ToSet(queue)
      /\ InLine = ToSet(queue) \cup {writer.pod}
  BY <1>2 DEF InLine, ToWrite, WriterAt
<1>5. ToSet(queue) \subseteq DOMAIN mem'.pods
  BY <1>1, <1>2, ToSetOf
<1>6. Pending' = Pending /\ Pending \subseteq DOMAIN mem'.pods
  <2>1. \A q \in ToWrite : PodMagic(q)' = PodMagic(q)
    BY <1>3, <1>4, <1>5
  <2> QED
    BY <1>1, <1>2, <1>4, <1>5, <2>1 DEF Pending
<1>7. DiskPart'
  <2>1. Written' = Written /\ ~WriterAt({"record"}) /\ ~WriterAt({"record"})'
    BY <1>2 DEF Written, WriterAt
  <2>2. DiskInv' /\ BitsInv' /\ KeptInv' /\ FileInv'
    BY <1>2, <2>1, SafeFacts DEF DiskInv, BitsInv, KeptInv, FileInv
  <2> QED
    BY <1>2, <2>2, SafeFacts DEF DiskPart, RecoverInv, NextInv
<1>8. MemInv' /\ OlderInv' /\ WriterInv'
  BY <1>1, <1>2, <1>3, SafeFacts DEF MemInv, OlderInv, WriterInv
<1>9. HeldInv'
  BY <1>1, <1>2, <1>3, <1>4, SafeFacts DEF HeldInv
<1>10. LineInv'
  <2>1. ASSUME NEW q \in ToSet(queue)
        PROVE  /\ PodMagic(q)' \in {"committed", "deleted"}
               /\ mem'.pods[q].op = "del" => PodMagic(q)' = "deleted"
               /\ PodMagic(q)' = "committed" => mem'.pods[q].pinned = TRUE /\ Once(q)'
    <3>1. /\ PodMagic(q) \in {"committed", "deleted"}
          /\ mem.pods[q].op = "del" => PodMagic(q) = "deleted"
          /\ PodMagic(q) = "committed" => mem.pods[q].pinned = TRUE /\ Once(q)
      BY <1>4, SafeFacts DEF LineInv
    <3>2. PodMagic(q) = "committed" => q # writer.pod
      BY <1>2, <3>1 DEF Once
    <3>3. Once(q) => Once(q)'
      BY <1>2 DEF Once
    <3>4. PodMagic(q)' = PodMagic(q) /\ mem'.pods[q].op = mem.pods[q].op
          /\ (q # writer.pod => mem'.pods[q].pinned = mem.pods[q].pinned)
      BY <1>1, <1>3, <1>5
    <3> QED
      BY <3>1, <3>2, <3>3, <3>4
  <2> QED
    BY <1>4, <2>1 DEF LineInv
<1>11. PendingInv'
  BY <1>1, <1>2, <1>3, <1>4, <1>6, SafeFacts DEF PendingInv
<1>12. PurgeInv'
  BY <1>2, <1>3, <1>6, SafeFacts DEF PurgeInv
<1> QED
  BY <1>7, <1>8, <1>9, <1>10, <1>11, <1>12 DEF SafeInv, MemPart

LEMMA RecoverSafe ==
  ASSUME TypeInv, SafeInv, Recover
  PROVE  SafeInv'
<1>1. PICK rn \in recovering, c \in Pods :
        /\ recovering' = recovering \ {rn}
        /\ \A q \in DOMAIN mem'.pods :
             \/ q \in DOMAIN mem.pods /\ mem'.pods[q] = mem.pods[q]
             \/ q = c /\ mem'.pods[q] = Loaded(rn)
  BY RecoverIs
<1>2. /\ UNCHANGED <<held, queue, writer, fs, nextRN, minRN, fileRN, purging, older, kept, filled>>
  BY RecoverIs DEF Recover, numbers, history
<1>3. held = {} /\ queue = << >> /\ writer = Idle /\ At(fs, rn).magic # "zero"
  BY SafeFacts DEF RecoverInv
<1>4. rn \in Nat
  BY RNIs DEF TypeInv, RecoveryTyped
<1>5. /\ At(fs, rn).rn = rn /\ rn < fileRN /\ fileRN <= nextRN /\ fileRN \in Nat /\ nextRN \in Nat
      /\ At(fs, rn).prev = rn \/ At(fs, rn).prev \in older[rn]
  BY <1>3, <1>4, SafeFacts, TypeFacts DEF DiskInv, NextInv
<1>6. MemInv'
  <2>1. ASSUME NEW q \in DOMAIN mem'.pods
        PROVE  PodNum(q)' < nextRN' /\ (PodPrev(q)' = PodNum(q)' \/ PodPrev(q)' \in older'[PodNum(q)'])
    <3>1. CASE q \in DOMAIN mem.pods /\ mem'.pods[q] = mem.pods[q]
      BY <1>2, <3>1, SafeFacts DEF MemInv, PodNum, PodPrev
    <3>2. CASE mem'.pods[q] = Loaded(rn)
      <4>1. PodNum(q)' = rn /\ PodPrev(q)' = At(fs, rn).prev
        BY <1>5, <3>2 DEF PodNum, PodPrev, Loaded
      <4> QED
        BY <1>2, <1>4, <1>5, <4>1
    <3> QED
      BY <1>1, <3>1, <3>2
  <2> QED
    BY <2>1 DEF MemInv
<1>7. InLine' = {} /\ Pending' = {} /\ ToWrite' = {}
  <2>1. InLine' = {} /\ ToWrite' = {}
    BY <1>2, <1>3 DEF InLine, ToWrite, WriterAt, ToSet
  <2> QED
    BY <1>2, <1>3, <2>1 DEF Pending
<1>8. HeldInv' /\ LineInv' /\ PendingInv' /\ OlderInv' /\ WriterInv' /\ PurgeInv'
  BY <1>2, <1>3, <1>7, SafeFacts DEF HeldInv, LineInv, PendingInv, OlderInv, WriterInv, PurgeInv
<1>9. DiskInv' /\ BitsInv' /\ KeptInv' /\ FileInv' /\ NextInv'
  <2>1. Written' = Written /\ (WriterAt({"record"})' <=> WriterAt({"record"}))
    BY <1>2 DEF Written, WriterAt
  <2> QED
    BY <1>2, <2>1, SafeFacts DEF DiskInv, BitsInv, KeptInv, FileInv, NextInv
<1>10. RecoverInv'
  BY <1>1, <1>2, <1>3, SafeFacts DEF RecoverInv
<1> QED
  BY <1>6, <1>8, <1>9, <1>10 DEF SafeInv, MemPart, DiskPart

\* What recovery finds, of what DiskInv says is there.
LEMMA FoundIs ==
  ASSUME TypeInv, DiskInv, NEW n \in Nat
  PROVE  n \in Recovered(fs.disk) <=> At(fs, n).magic # "zero"
<1>0. FileOf(n) \in Nat /\ SlotOf(n) \in Slot /\ n = FileOf(n) * FileRecs + SlotOf(n) /\ Slot \subseteq Nat
  BY FileSlot, StoreAssumption DEF Slot
<1>1. ASSUME n \in Recovered(fs.disk)
      PROVE  At(fs, n).magic # "zero"
  <2>1. FileOf(n) \in DOMAIN fs.disk /\ fs.disk[FileOf(n)][SlotOf(n)].magic # "zero"
    <3>1. Reached(fs.disk, n)
      BY <1>1 DEF Recovered
    <3>2. SlotOf(n) \in 0..SlotOf(n)
      <4>1. \A x \in Nat : x \in 0..x
        OBVIOUS
      <4> QED
        BY <1>0, <4>1
    <3> QED
      BY <3>1, <3>2 DEF Reached
  <2> QED
    BY <2>1 DEF At, Stored
<1>2. ASSUME At(fs, n).magic # "zero"
      PROVE  n \in Recovered(fs.disk)
  <2>1. FileOf(n) \in DOMAIN fs.disk
    BY <1>2 DEF At, Zero
  <2>2. At(fs, n).rn = n /\ n < fileRN /\ \A m \in Nat : m < n /\ SameFile(m, n) => At(fs, m).magic # "zero"
    BY <1>2 DEF DiskInv
  <2>3. n \in RN
    <3>1. fileRN \in Nat /\ fileRN <= MaxRN /\ MaxRN \in Nat
      BY TypeFacts
    <3> QED
      BY <2>2, <3>1, RNIs
  <2>4. ASSUME NEW s \in 0..SlotOf(n)
        PROVE  fs.disk[FileOf(n)][s].magic # "zero"
    <3> DEFINE m == FileOf(n) * FileRecs + s
    <3>1. s \in Slot /\ s <= SlotOf(n) /\ SlotOf(n) \in Nat /\ s \in Nat
      BY <1>0, StoreAssumption DEF Slot
    <3>2. m \in Nat /\ FileOf(m) = FileOf(n) /\ SlotOf(m) = s
      BY <1>0, <3>1, SlotFile
    <3>3. m <= n
      <4>1. FileOf(n) * FileRecs \in Nat
        BY <1>0, StoreAssumption
      <4> HIDE DEF m
      <4>2. \A x \in Nat : x + s <= x + SlotOf(n)
        BY <3>1
      <4> QED
        BY <1>0, <4>1, <4>2 DEF m
    <3> HIDE DEF m
    <3>4. At(fs, m).magic # "zero"
      <4>1. m = n \/ m < n
        BY <3>2, <3>3
      <4> QED
        BY <1>2, <2>2, <3>2, <4>1 DEF SameFile
    <3> QED
      BY <2>1, <3>2, <3>4 DEF At, Stored
  <2>5. fs.disk[FileOf(n)][SlotOf(n)].rn = n
    BY <2>1, <2>2 DEF At, Stored
  <2> QED
    BY <2>1, <2>3, <2>4, <2>5 DEF Recovered, Reached
<1> QED
  BY <1>1, <1>2

LEMMA CrashSafe ==
  ASSUME TypeInv, SafeInv, Crash
  PROVE  SafeInv'
<1> DEFINE found == Recovered(fs.disk)
           lost == nextRN' .. (MaxRN - 1)
<1>1. /\ mem'.pods = << >> /\ fs'.disk = fs.disk /\ fs'.open = << >>
      /\ found \subseteq RN /\ \A rn \in found : FileOf(rn) \in DOMAIN fs.disk
      /\ nextRN' \in 0..MaxRN /\ fileRN' = nextRN' /\ \A rn \in found : rn < nextRN'
      /\ minRN' \in {MaxRN} \cup found
      /\ nextRN' # 0 => \E rn \in found : nextRN' = rn + 1
      /\ held' = {} /\ queue' = << >> /\ writer' = Idle /\ purging' = Idle /\ recovering' = found
      /\ kept' = kept \ lost /\ filled' = filled \ lost
      /\ older' = [rn \in RN |-> IF rn \in lost THEN {} ELSE older[rn]]
  BY CrashIs
<1>2. \A n \in Nat : n \in found <=> At(fs, n).magic # "zero"
  BY FoundIs, SafeFacts
<1> HIDE DEF found
<1>3. nextRN' \in Nat /\ nextRN' <= MaxRN /\ MaxRN \in Nat /\ found \subseteq Nat
  <2>1. MaxRN \in Nat /\ RN \subseteq Nat
    BY RNIs
  <2>2. nextRN' \in Nat /\ nextRN' <= MaxRN
    BY <1>1, <2>1
  <2>3. found \subseteq Nat
    BY <1>1, <2>1
  <2> QED
    BY <2>1, <2>2, <2>3
<1>4. \A n \in RN : (n \in lost <=> n >= nextRN') /\ n \in Nat
  BY <1>3 DEF RN
<1> HIDE DEF lost
<1>5. \A n \in Nat : At(fs', n) = At(fs, n) /\ ~Marked(fs', n)
  BY <1>1 DEF At, Stored, Marked
<1>6. \A n \in Nat : At(fs, n).magic # "zero" => n < fileRN' /\ older'[n] = older[n]
  <2>1. \A n \in found : n \in RN /\ n < nextRN' /\ ~(n >= nextRN')
    BY <1>1, <1>3
  <2> QED
    BY <1>1, <1>2, <1>4, <2>1
<1>7. DiskInv'
  BY <1>5, <1>6, SafeFacts DEF DiskInv
<1>8. BitsInv'
  BY <1>5 DEF BitsInv
<1>9. KeptInv'
  <2>1. ASSUME NEW n \in kept'
        PROVE  n < nextRN' /\ (n \notin filled' => At(fs', n).magic = "committed")
    <3>1. n \in kept /\ n \in RN /\ n \in Nat /\ n \notin lost
      BY <1>1, <1>4, TypeFacts
    <3>2. n < nextRN'
      BY <1>3, <1>4, <3>1
    <3>3. n \notin filled' => n \notin filled
      BY <1>1, <3>1
    <3> QED
      BY <1>5, <3>1, <3>2, <3>3, SafeFacts DEF KeptInv
  <2> QED
    BY <2>1 DEF KeptInv
<1>10. FileInv'
  <2>1. Written' = nextRN'
    BY <1>1 DEF Written, WriterAt
  <2> SUFFICES ASSUME NEW n \in Nat, n < nextRN', SameFile(n, nextRN')
               PROVE  At(fs, n).magic # "zero"
    BY <1>5, <2>1 DEF FileInv
  <2>2. PICK k \in found : nextRN' = k + 1
    BY <1>1, <1>3
  <2>3. k \in Nat /\ At(fs, k).magic # "zero" /\ n <= k /\ k <= nextRN'
    BY <1>2, <1>3, <2>2
  <2>4. SameFile(n, k)
    BY <1>3, <2>3, Between
  <2>5. n = k \/ n < k
    BY <2>3
  <2> QED
    BY <2>3, <2>4, <2>5, SafeFacts DEF DiskInv
<1>11. RecoverInv' /\ NextInv'
  BY <1>1, <1>2, <1>3, <1>5 DEF RecoverInv, NextInv
<1>12. InLine' = {} /\ Pending' = {} /\ ToWrite' = {}
  <2>1. InLine' = {} /\ ToWrite' = {}
    BY <1>1 DEF InLine, ToWrite, WriterAt, ToSet
  <2> QED
    BY <1>1, <2>1 DEF Pending
<1>13. MemInv' /\ HeldInv' /\ LineInv' /\ PendingInv' /\ WriterInv'
  BY <1>1, <1>12 DEF MemInv, HeldInv, LineInv, PendingInv, WriterInv
<1>14. PurgeInv'
  <2>1. minRN' # MaxRN => nextRN' >= 1
    BY <1>1, <1>3
  <2> QED
    BY <1>1, <1>12, <2>1 DEF PurgeInv
<1>15. OlderInv'
  <2>1. ASSUME NEW v \in RN
        PROVE  /\ \A a \in older'[v] : a < v /\ older'[a] \subseteq older'[v]
               /\ v >= nextRN' => older'[v] = {}
    <3>1. CASE v \in lost
      BY <1>1, <3>1
    <3>2. CASE v \notin lost
      <4>1. older'[v] = older[v] /\ v < nextRN' /\ v \in Nat
        BY <1>1, <1>3, <1>4, <3>2
      <4>2. \A a \in older[v] : a \in RN /\ a < v /\ older[a] \subseteq older[v]
        BY SafeFacts, TypeFacts DEF OlderInv
      <4>3. ASSUME NEW a \in older[v]
            PROVE  a \notin lost
        <5>1. a \in RN /\ a \in Nat /\ a < v
          BY <1>4, <4>2
        <5>2. ~(a >= nextRN')
          BY <1>3, <4>1, <5>1
        <5> QED
          BY <1>4, <5>1, <5>2
      <4>4. \A a \in older[v] : older'[a] = older[a]
        BY <1>1, <4>2, <4>3
      <4> QED
        BY <1>3, <4>1, <4>2, <4>4
    <3> QED
      BY <3>1, <3>2
  <2> QED
    BY <2>1 DEF OlderInv
<1> QED
  BY <1>7, <1>8, <1>9, <1>10, <1>11, <1>13, <1>14, <1>15 DEF SafeInv, MemPart, DiskPart

\* Once a record is written after a gap, nothing more is said.
LEMMA GappedStays ==
  ASSUME TypeInv, [Next]_vars, gapped
  PROVE  gapped'
BY DEF Next, vars, history, Push, Update, Allocate, Put, Abort, Get, Del, Purge, PurgeStep,
     WriteBegin, WriteGap, WriteRecord, WriteChain, WriteDone, WriterUnchanged, Recover, Crash

LEMMA SafeInvStep ==
  ASSUME DelQueued = FALSE, TypeInv, SafeInv, [Next]_vars, ~gapped'
  PROVE  SafeInv'
<1>1. CASE UNCHANGED vars
  <2>1. Opened(fs, fs')
    BY <1>1, TypeFacts DEF Opened, vars
  <2>2. CASE recovering = {}
    <3>1. purging' # Idle => minRN # MaxRN
      BY <1>1, SafeFacts DEF PurgeInv, vars
    <3> QED
      BY <1>1, <2>1, <2>2, <3>1, QuietSafe DEF vars, numbers, history
  <2>3. CASE recovering # {}
    BY <1>1 DEF vars, numbers, history, SafeInv, DiskPart, MemPart, DiskInv, BitsInv, KeptInv, FileInv, RecoverInv,
         NextInv, MemInv, HeldInv, LineInv, PendingInv, OlderInv, WriterInv, PurgeInv, Written, WriterAt,
         InLine, ToWrite, Pending, Once, PodNum, PodPrev, PodMagic
  <2> QED
    BY <2>2, <2>3
<1>2. CASE recovering = {} /\ (Push \/ Update)
  BY <1>2, NewRecordSafe
<1>3. CASE recovering = {} /\ Get
  BY <1>3, GetSafe
<1>4. CASE recovering = {} /\ Del
  BY <1>4, DelSafe
<1>5. CASE recovering = {} /\ (Purge \/ PurgeStep)
  BY <1>5, PurgeSafe, PurgeStepSafe
<1>6. CASE recovering = {} /\ \E p \in held : Abort(p) \/ \E replace \in BOOLEAN : Put(p, replace)
  BY <1>6, AbortSafe, PutSafe
<1>7. CASE recovering = {} /\ (WriteBegin \/ WriteGap \/ WriteRecord \/ WriteChain \/ WriteDone)
  BY <1>7, WriteBeginSafe, WriteGapSafe, WriteRecordSafe, WriteChainSafe, WriteDoneSafe
<1>8. CASE Recover \/ Crash
  BY <1>8, RecoverSafe, CrashSafe
<1> QED
  BY <1>1, <1>2, <1>3, <1>4, <1>5, <1>6, <1>7, <1>8 DEF Next

LEMMA SafeIsDurable ==
  ASSUME TypeInv, ~gapped => SafeInv
  PROVE  Durable
<1> SUFFICES ASSUME SafeInv
             PROVE  /\ \A rn \in kept \ filled : OnDisk(rn) /\ rn \in Recovered(fs.disk)
                    /\ \A rn \in RN \ filled : OnDisk(rn) => rn < nextRN /\ rn < fileRN
  BY DEF Durable
<1>1. \A n \in Nat : OnDisk(n) <=> At(fs, n).magic = "committed"
  BY DEF OnDisk, At, Zero
<1>2. ASSUME NEW rn \in kept \ filled
      PROVE  OnDisk(rn) /\ rn \in Recovered(fs.disk)
  <2>1. rn \in Nat
    BY TypeFacts, RNIs
  <2>2. At(fs, rn).magic = "committed"
    BY SafeFacts DEF KeptInv
  <2> QED
    BY <1>1, <2>1, <2>2, FoundIs, SafeFacts
<1>3. ASSUME NEW rn \in RN \ filled, OnDisk(rn)
      PROVE  rn < nextRN /\ rn < fileRN
  <2>1. rn \in Nat /\ fileRN \in Nat /\ nextRN \in Nat /\ fileRN <= nextRN
    BY TypeFacts, RNIs, SafeFacts DEF NextInv
  <2>2. At(fs, rn).magic # "zero"
    BY <1>1, <1>3, <2>1
  <2>3. rn < fileRN
    BY <2>1, <2>2, SafeFacts DEF DiskInv
  <2> QED
    BY <2>1, <2>3
<1> QED
  BY <1>2, <1>3

\* What was written is found again after any crash, until the write of what replaces or deletes it
\* begins, and its number is not given to another record: for any number of records, files and
\* records in a file, any use of the store, any interleaving of it with the write thread and
\* any number of crashes, as long as the application does not delete a record whose write is
\* queued, and until a record is written after a place of its file that was never written.
THEOREM Durability ==
  ASSUME DelQueued = FALSE
  PROVE  Spec => []Durable
<1> DEFINE IInv == TypeInv /\ (~gapped => SafeInv)
<1>1. Init => IInv
  BY InitTyped, InitSafe
<1>2. IInv /\ [Next]_vars => IInv'
  BY TypeInvStep, SafeInvStep, GappedStays
<1>3. IInv => Durable
  BY SafeIsDurable
<1> QED
  BY <1>1, <1>2, <1>3, PTL DEF Spec

-----------------------------------------------------------------------------
(* The inductive invariant for what can be read                            *)
(*                                                                         *)
(* It holds where SafeInv does.  What is live and was not filled as a gap  *)
(* before it was written can be read (Left); of these, those no live       *)
(* record replaces are on file, or still to be written and in the cache.   *)

Left == live \ filled
Newest == {n \in Left : \A v \in live : n \notin older[v]}
OnFile(n) == At(fs, n).magic = "committed"
Waiting(n) == \E p \in ToWrite : PodNum(p) = n /\ PodMagic(p) = "committed" /\ p \in ToSet(mem.cache)

\* The write thread is erasing what its record replaces, or will.
Erasing ==
  /\ writer # Idle
  /\ \/ writer.step = "chain"
     \/ writer.step \in {"gap", "record"} /\ writer.op # "add" /\ writer.prev # writer.rn

LiveBelow == \A n \in live : n < nextRN

\* What is to be written as deleted is not live, nor is what will be erased with it.
DoomedInv == \A p \in ToWrite : PodMagic(p) = "deleted" => PodNum(p) \notin Left
ReplacedInv ==
  /\ \A p \in ToSet(queue) : mem.pods[p].op # "add" /\ PodPrev(p) # PodNum(p) => older[PodNum(p)] \cap Left = {}
  /\ Erasing => older[writer.rn] \cap Left = {}

\* A record on file whose place was not filled is not marked deleted in the file's bitmap.
UnmarkedInv == \A n \in Nat : OnFile(n) /\ n \notin filled => ~Marked(fs, n)

\* The application's records are new: nothing replaces one yet.
FreshInv == \A p \in held : PodNum(p) \notin live /\ \A v \in RN : PodNum(p) \notin older[v]

CacheInv == \A p \in ToSet(mem.cache) : PodNum(p) \in Left => PodMagic(p) = "committed"
FoundInv == recovering # {} => \A n \in live : OnFile(n)

\* The list of used records has no other of the number of one that is to be written: only its own
\* turn in that list can take it from the cache, and it is pinned.
UsedInv == \A p \in Pending : \A q \in ToSet(mem.lru) : q # p => PodNum(q) # PodNum(p)

NewestInv == \A n \in Newest : OnFile(n) \/ Waiting(n)

LiveInv ==
  /\ LiveBelow /\ DoomedInv /\ ReplacedInv /\ UnmarkedInv /\ FreshInv
  /\ CacheInv /\ FoundInv /\ UsedInv /\ NewestInv

LEMMA LiveFacts ==
  ASSUME TypeInv, SafeInv
  PROVE  /\ live \subseteq RN /\ Left \subseteq RN /\ Newest \subseteq Left /\ RN \subseteq Nat
         /\ ToSet(mem.lru) \subseteq DOMAIN mem.pods /\ ToSet(mem.cache) \subseteq DOMAIN mem.pods
         /\ \A n \in RN : n \in Nat /\ older[n] \subseteq RN
<1>1. live \subseteq RN
  BY DEF TypeInv, HistoryTyped
<1>2. ToSet(mem.lru) \subseteq DOMAIN mem.pods /\ ToSet(mem.cache) \subseteq DOMAIN mem.pods
  BY TypeFacts, ToSetOf DEF MemOK
<1>3. \A n \in RN : n \in Nat /\ older[n] \subseteq RN
  BY TypeFacts, RNIs
<1> QED
  BY <1>1, <1>2, <1>3, RNIs DEF Left, Newest

LEMMA InitLive == Init => LiveInv
<1> SUFFICES ASSUME Init
             PROVE  LiveInv
  OBVIOUS
<1>1. /\ live = {} /\ held = {} /\ recovering = {} /\ ToSet(queue) = {} /\ writer = Idle
      /\ ToSet(mem.cache) = {} /\ fs.open = << >>
  BY DEF Init, ToSet
<1>2. ToWrite = {} /\ Pending = {} /\ Left = {} /\ Newest = {}
  BY <1>1 DEF ToWrite, WriterAt, Pending, Left, Newest
<1>3. \A n : ~Marked(fs, n)
  BY <1>1 DEF Marked
<1> QED
  BY <1>1, <1>2, <1>3 DEF LiveInv, LiveBelow, DoomedInv, ReplacedInv, Erasing, UnmarkedInv, FreshInv, CacheInv,
       FoundInv, UsedInv, NewestInv

\* A record that is to be written stays in the cache, whatever is added to it.
LEMMA WaitingIsFast ==
  ASSUME TypeInv, SafeInv, UsedInv, NEW q \in ToWrite, PodMagic(q) = "committed", q \in ToSet(mem.cache)
  PROVE  q \in Pending /\ Fast(mem, q)
<1>1. q \in Pending
  BY DEF Pending
<1>2. mem.pods[q].pinned = TRUE
  BY SafeFacts DEF LineInv
<1>3. \A l \in ToSet(mem.lru) : l # q => PodNum(l) # PodNum(q)
  BY <1>1 DEF UsedInv
<1> QED
  BY <1>1, <1>2, <1>3 DEF Fast, PodNum

\* When a record is no longer live, nor are those it replaced: no record is newest for that.
LEMMA StaysNewest ==
  ASSUME NEW S, \A v \in S : older[v] \subseteq S, live \ S \subseteq live',
         \A v \in live \ S : older'[v] = older[v], filled \subseteq filled',
         NEW n \in Newest', n \in live, n \notin S
  PROVE  n \in Newest
<1>1. n \notin filled /\ \A v \in live' : n \notin older'[v]
  BY DEF Newest, Left
<1>2. ASSUME NEW v \in live
      PROVE  n \notin older[v]
  <2>1. CASE v \in S
    BY <2>1
  <2>2. CASE v \notin S
    BY <1>1, <2>2
  <2> QED
    BY <2>1, <2>2
<1> QED
  BY <1>1, <1>2 DEF Newest, Left

\* A record the application holds is not one that is found.
LEMMA HeldIsNew ==
  ASSUME TypeInv, SafeInv, NEW h \in held, NEW rn, Present(rn)
  PROVE  PodNum(h) # rn
<1>1. h \in Pending /\ PodMagic(h) = "allocated" /\ At(fs, PodNum(h)).magic # "committed"
  BY SafeFacts DEF HeldInv, PendingInv
<1>2. ASSUME NEW q \in ToSet(mem.cache), PodNum(q) = PodNum(h), PodMagic(q) = "committed"
      PROVE  FALSE
  <2>1. q \in DOMAIN mem.pods /\ q # h
    BY <1>1, <1>2, SafeFacts
  <2> QED
    BY <1>1, <1>2, <2>1, SafeFacts DEF PendingInv
<1> QED
  BY <1>1, <1>2 DEF Present

LEMMA OpenedMarks ==
  ASSUME UnmarkedInv, Opened(fs, fs'), filled' = filled
  PROVE  UnmarkedInv' /\ \A n \in Nat : OnFile(n)' <=> OnFile(n)
<1>1. \A n \in Nat : At(fs', n) = At(fs, n)
  BY DEF Opened
<1>2. ASSUME NEW n \in Nat, At(fs', n).magic = "committed", n \notin filled'
      PROVE  ~Marked(fs', n)
  <2>1. At(fs, n).magic = "committed" /\ ~Marked(fs, n)
    BY <1>1, <1>2 DEF UnmarkedInv, OnFile
  <2> QED
    BY <2>1 DEF Opened
<1> QED
  BY <1>1, <1>2 DEF UnmarkedInv, OnFile

LEMMA NewRecordLive ==
  ASSUME TypeInv, SafeInv, LiveInv, recovering = {}, Push \/ Update
  PROVE  LiveInv'
<1>1. PICK prev \in 0..nextRN : Opened(fs, fs') /\ Allocate(mem, prev) /\ (prev = nextRN \/ Present(prev))
  BY NewRecordIs
<1>2. PICK p \in Pods \ DOMAIN mem.pods :
        /\ p = NewPod /\ nextRN \in RN
        /\ mem'.cache = mem.cache /\ mem'.lru = mem.lru
        /\ mem'.pods[p] = [data |-> [rn |-> nextRN, prev |-> prev, magic |-> "allocated"],
                           op |-> "none", pinned |-> FALSE]
        /\ \A q \in DOMAIN mem.pods : mem'.pods[q] = mem.pods[q]
  BY <1>1, AllocateIs
<1>3. held' = held \cup {p} /\ queue' = queue /\ nextRN' = nextRN + 1
      /\ older' = [older EXCEPT ![nextRN] = IF prev = nextRN THEN {} ELSE {prev} \cup older[prev]]
      /\ UNCHANGED <<writer, recovering, live, filled>>
  BY <1>1, <1>2 DEF Allocate
<1>4. /\ nextRN \in Nat /\ fileRN \in Nat /\ fileRN <= nextRN /\ prev \in Nat /\ prev <= nextRN
      /\ older \in [RN -> SUBSET RN] /\ RN \subseteq Nat /\ live \subseteq RN /\ Left \subseteq live
  BY TypeFacts, SafeFacts, LiveFacts DEF NextInv, Left
<1>5. \A q \in DOMAIN mem.pods :
        /\ PodNum(q)' = PodNum(q) /\ PodPrev(q)' = PodPrev(q) /\ PodMagic(q)' = PodMagic(q)
        /\ mem'.pods[q].op = mem.pods[q].op /\ PodNum(q) \in RN /\ PodNum(q) < nextRN
  BY <1>2, SafeFacts DEF PodNum, PodPrev, PodMagic
<1>6. PodNum(p)' = nextRN /\ PodMagic(p)' = "allocated"
  BY <1>2 DEF PodNum, PodMagic
<1>7. \A n \in RN : n # nextRN => older'[n] = older[n]
  BY <1>3, <1>4
<1>8. \A n \in live : n < nextRN /\ older'[n] = older[n]
  BY <1>4, <1>7 DEF LiveInv, LiveBelow
<1>9. Left' = Left /\ Newest' = Newest
  BY <1>3, <1>8 DEF Left, Newest
<1>10. ToWrite' = ToWrite /\ ToWrite \subseteq DOMAIN mem.pods
  BY <1>3, SafeFacts DEF ToWrite, WriterAt
<1>11. Pending' = Pending \cup {p} /\ Pending \subseteq DOMAIN mem.pods
  BY <1>3, <1>5, <1>10, SafeFacts DEF Pending
<1>12. ToSet(mem.cache) \subseteq DOMAIN mem.pods /\ ToSet(mem.lru) \subseteq DOMAIN mem.pods
  BY LiveFacts
<1>13. LiveBelow'
  BY <1>3, <1>4, <1>8 DEF LiveBelow
<1>14. DoomedInv'
  BY <1>5, <1>9, <1>10 DEF LiveInv, DoomedInv
<1>15. ReplacedInv'
  <2>1. ASSUME NEW q \in ToSet(queue), mem.pods[q].op # "add", PodPrev(q) # PodNum(q)
        PROVE  older'[PodNum(q)] \cap Left' = {}
    <3>1. q \in DOMAIN mem.pods
      BY <1>10, SafeFacts
    <3>2. older'[PodNum(q)] = older[PodNum(q)]
      <4>1. PodNum(q) \in RN /\ PodNum(q) \in Nat /\ PodNum(q) < nextRN
        BY <1>4, <1>5, <3>1
      <4>2. PodNum(q) # nextRN
        BY <1>4, <4>1
      <4> QED
        BY <1>7, <4>1, <4>2
    <3> QED
      BY <1>9, <2>1, <3>2 DEF LiveInv, ReplacedInv
  <2>2. ASSUME Erasing'
        PROVE  older'[writer.rn] \cap Left' = {}
    <3>1. Erasing /\ writer # Idle
      BY <1>3, <2>2 DEF Erasing
    <3>2. writer.rn \in RN /\ writer.rn \in Nat /\ writer.rn < nextRN
      <4>1. writer.rn \in RN /\ writer.rn \in Nat /\ writer.rn < fileRN
        BY <1>4, <3>1, SafeFacts, WriterFacts DEF WriterInv
      <4> QED
        BY <1>4, <4>1
    <3>3. older'[writer.rn] = older[writer.rn]
      <4>1. writer.rn # nextRN
        BY <1>4, <3>2
      <4> QED
        BY <1>7, <3>2, <4>1
    <3> QED
      BY <1>9, <3>1, <3>3 DEF LiveInv, ReplacedInv
  <2>3. \A q \in ToSet(queue) : q \in DOMAIN mem.pods
    BY <1>10, SafeFacts
  <2> QED
    BY <1>3, <1>5, <2>1, <2>2, <2>3 DEF ReplacedInv
<1>16. UnmarkedInv' /\ \A n \in Nat : OnFile(n)' <=> OnFile(n)
  BY <1>1, <1>3, OpenedMarks DEF LiveInv
<1>17. FreshInv'
  <2>1. ASSUME NEW h \in held, NEW v \in RN
        PROVE  PodNum(h) \notin older'[v]
    <3>1. PodNum(h) \notin older[v] /\ PodNum(h) \notin older[nextRN]
      BY <1>2 DEF LiveInv, FreshInv
    <3>2. CASE v = nextRN /\ prev # nextRN
      <4>1. PodNum(h) # prev
        BY <1>1, <3>2, HeldIsNew
      <4>2. prev \in RN
        BY <1>2, <1>4, <3>2, RNIs
      <4>3. PodNum(h) \notin older[prev]
        BY <4>2 DEF LiveInv, FreshInv
      <4> QED
        BY <1>3, <1>4, <3>2, <4>1, <4>3
    <3>3. CASE ~(v = nextRN /\ prev # nextRN)
      BY <1>3, <1>4, <3>1, <3>3
    <3> QED
      BY <3>2, <3>3
  <2>2. ASSUME NEW v \in RN, nextRN \in older'[v]
        PROVE  FALSE
    <3>1. \A u \in RN : nextRN \notin older[u]
      <4>1. ASSUME NEW u \in RN, nextRN \in older[u]
            PROVE  FALSE
        <5>1. nextRN < u /\ (u >= nextRN => older[u] = {})
          BY <4>1, SafeFacts DEF OlderInv
        <5> QED
          BY <1>4, <4>1, <5>1
      <4> QED
        BY <4>1
    <3>2. v = nextRN /\ prev # nextRN /\ (nextRN = prev \/ nextRN \in older[prev])
      BY <1>3, <1>4, <2>2, <3>1
    <3>3. prev \in RN
      BY <1>2, <1>4, <3>2, RNIs
    <3> QED
      BY <3>1, <3>2, <3>3
  <2>3. nextRN \notin live
    BY <1>4, <1>8
  <2>4. \A h \in held : h \in DOMAIN mem.pods /\ PodNum(h) \notin live
    BY SafeFacts DEF LiveInv, FreshInv
  <2> QED
    BY <1>3, <1>5, <1>6, <2>1, <2>2, <2>3, <2>4 DEF FreshInv
<1>18. CacheInv'
  BY <1>2, <1>5, <1>9, <1>12 DEF LiveInv, CacheInv
<1>19. FoundInv'
  BY <1>3 DEF FoundInv
<1>20. UsedInv'
  <2>1. ASSUME NEW r \in Pending', NEW q \in ToSet(mem.lru), q # r
        PROVE  PodNum(q)' # PodNum(r)'
    <3>1. CASE r = p
      BY <1>4, <1>5, <1>6, <1>12, <3>1
    <3>2. CASE r \in Pending
      BY <1>5, <1>11, <1>12, <2>1, <3>2 DEF LiveInv, UsedInv
    <3> QED
      BY <1>11, <3>1, <3>2
  <2> QED
    BY <1>2, <2>1 DEF UsedInv
<1>21. NewestInv'
  <2>1. ASSUME NEW n \in Newest
        PROVE  OnFile(n)' \/ Waiting(n)'
    <3>1. n \in Nat /\ (OnFile(n) \/ Waiting(n))
      BY LiveFacts DEF LiveInv, NewestInv
    <3>2. Waiting(n) => Waiting(n)'
      BY <1>2, <1>5, <1>10 DEF Waiting
    <3> QED
      BY <1>16, <3>1, <3>2
  <2> QED
    BY <1>9, <2>1 DEF NewestInv
<1> QED
  BY <1>13, <1>14, <1>15, <1>16, <1>17, <1>18, <1>19, <1>20, <1>21 DEF LiveInv

LEMMA PutLive ==
  ASSUME TypeInv, SafeInv, LiveInv, recovering = {}, NEW p \in held, NEW replace \in BOOLEAN, Put(p, replace)
  PROVE  LiveInv'
<1> DEFINE rn == PodNum(p)
           S == IF replace THEN older[rn] ELSE {}
<1>1. /\ ToSet(mem'.cache) \subseteq ToSet(mem.cache) \cup {p}
      /\ p \in ToSet(mem'.cache) /\ ToSet(mem'.lru) \subseteq ToSet(mem.lru) \cup {p}
      /\ \A q \in DOMAIN mem.pods :
           Fast(mem, q) /\ q # p /\ (PodPrev(p) = PodNum(p) \/ PodNum(q) # PodPrev(p)) => q \in ToSet(mem'.cache)
      /\ ToSet(queue') = ToSet(queue) \cup {p} /\ p \in DOMAIN mem'.pods /\ p \in DOMAIN mem.pods
      /\ DOMAIN mem'.pods \subseteq DOMAIN mem.pods
      /\ \A q \in DOMAIN mem'.pods : q # p => mem'.pods[q] = mem.pods[q]
      /\ mem'.pods[p].data.rn = mem.pods[p].data.rn /\ mem'.pods[p].data.prev = mem.pods[p].data.prev
      /\ mem'.pods[p].data.magic = "committed" /\ mem'.pods[p].op = (IF replace THEN "upd" ELSE "add")
      /\ MemOK(mem') /\ queue' \in Seq(DOMAIN mem'.pods)
  BY PutIs
<1>2. /\ held' = held \ {p} /\ live' = (live \ S) \cup {rn} /\ (replace => PodPrev(p) # rn)
      /\ UNCHANGED <<writer, fs, nextRN, recovering, older, filled>>
  BY DEF Put, numbers, PodNum, PodPrev
<1>3. /\ rn \in RN /\ rn < nextRN /\ p \in Pending /\ p \notin ToSet(mem.cache)
      /\ RN \subseteq Nat /\ live \subseteq RN /\ ToWrite \subseteq DOMAIN mem.pods
  BY SafeFacts, LiveFacts DEF HeldInv
<1>4. rn \notin live /\ \A v \in RN : rn \notin older[v]
  BY DEF LiveInv, FreshInv
<1>5. /\ \A q \in DOMAIN mem'.pods : PodNum(q)' = PodNum(q) /\ PodPrev(q)' = PodPrev(q)
      /\ \A q \in DOMAIN mem'.pods : q # p => PodMagic(q)' = PodMagic(q) /\ mem'.pods[q].op = mem.pods[q].op
      /\ PodMagic(p)' = "committed"
  BY <1>1 DEF PodNum, PodPrev, PodMagic
<1>6. /\ ToSet(mem'.cache) \subseteq DOMAIN mem'.pods /\ ToSet(mem'.lru) \subseteq DOMAIN mem'.pods
      /\ ToSet(queue') \subseteq DOMAIN mem'.pods
      /\ writer # Idle => writer.pod \in DOMAIN mem'.pods
  BY <1>1, <1>2, ToSetOf, PutTyped DEF MemOK, TypeInv, PodsTyped
<1>7. ToWrite' = ToWrite \cup {p} /\ ToWrite' \subseteq DOMAIN mem'.pods
  BY <1>1, <1>2, <1>6 DEF ToWrite, WriterAt
<1>8. Left' \subseteq Left \cup {rn} /\ Left' \cap S = {} /\ (rn \in Left' => rn \notin filled)
  <2>1. S \cap {rn} = {}
    BY <1>3, <1>4
  <2> QED
    BY <1>2, <2>1 DEF Left
<1>9. \A q \in DOMAIN mem.pods : q # p /\ PodNum(q) = rn =>
        q \notin Pending /\ q \notin ToSet(mem.cache) /\ (q \in ToWrite => rn \in filled)
  BY <1>3, SafeFacts DEF PendingInv
<1>10. held' \subseteq held /\ held' \subseteq DOMAIN mem'.pods
  BY <1>2, PutIs
<1>11. Pending' \subseteq Pending
  BY <1>3, <1>5, <1>7, <1>10 DEF Pending
<1>12. LiveBelow'
  BY <1>2, <1>3 DEF LiveInv, LiveBelow
<1>13. DoomedInv'
  <2>1. ASSUME NEW q \in ToWrite', PodMagic(q)' = "deleted"
        PROVE  PodNum(q)' \notin Left'
    <3>1. q # p /\ q \in ToWrite /\ q \in DOMAIN mem'.pods /\ q \in DOMAIN mem.pods /\ PodMagic(q) = "deleted"
      BY <1>1, <1>5, <1>7, <2>1
    <3>2. PodNum(q) \notin Left
      BY <3>1 DEF LiveInv, DoomedInv
    <3> QED
      BY <1>5, <1>8, <1>9, <3>1, <3>2
  <2> QED
    BY <2>1 DEF DoomedInv
<1>14. ReplacedInv'
  <2>1. ASSUME NEW n \in RN, older[n] \cap Left = {}
        PROVE  older[n] \cap Left' = {}
    BY <1>4, <1>8, <2>1
  <2>2. ASSUME NEW q \in ToSet(queue'), mem'.pods[q].op # "add", PodPrev(q)' # PodNum(q)'
        PROVE  older'[PodNum(q)'] \cap Left' = {}
    <3>1. q \in DOMAIN mem'.pods /\ q \in DOMAIN mem.pods /\ PodNum(q) \in RN
      BY <1>1, <1>6, <2>2, SafeFacts
    <3>2. CASE q = p
      <4>1. replace
        BY <1>1, <2>2, <3>2
      <4> QED
        BY <1>2, <1>5, <1>8, <3>1, <3>2, <4>1
    <3>3. CASE q # p
      <4>1. older[PodNum(q)] \cap Left = {}
        BY <1>1, <1>5, <2>2, <3>1, <3>3 DEF LiveInv, ReplacedInv
      <4> QED
        BY <1>2, <1>5, <2>1, <3>1, <4>1
    <3> QED
      BY <3>2, <3>3
  <2>3. ASSUME Erasing'
        PROVE  older'[writer'.rn] \cap Left' = {}
    <3>1. Erasing /\ writer # Idle
      BY <1>2, <2>3 DEF Erasing
    <3>2. writer.rn \in RN /\ older[writer.rn] \cap Left = {}
      BY <3>1, WriterFacts DEF LiveInv, ReplacedInv
    <3> QED
      BY <1>2, <2>1, <3>2
  <2> QED
    BY <2>2, <2>3 DEF ReplacedInv
<1>15. UnmarkedInv' /\ \A n \in Nat : OnFile(n)' <=> OnFile(n)
  BY <1>2 DEF LiveInv, UnmarkedInv, OnFile
<1>16. FreshInv'
  <2>1. ASSUME NEW h \in held'
        PROVE  PodNum(h)' \notin live' /\ \A v \in RN : PodNum(h)' \notin older'[v]
    <3>1. h \in held /\ h # p /\ h \in Pending /\ h \in DOMAIN mem'.pods /\ h \in DOMAIN mem.pods
      BY <1>1, <1>2, <1>10, <2>1, SafeFacts
    <3>2. PodNum(h) # rn /\ PodNum(h) \notin live /\ \A v \in RN : PodNum(h) \notin older[v]
      BY <1>9, <3>1 DEF LiveInv, FreshInv
    <3> QED
      BY <1>2, <1>5, <3>1, <3>2
  <2> QED
    BY <2>1 DEF FreshInv
<1>17. CacheInv'
  <2>1. ASSUME NEW q \in ToSet(mem'.cache), PodNum(q)' \in Left'
        PROVE  PodMagic(q)' = "committed"
    <3>1. CASE q = p
      BY <1>5, <3>1
    <3>2. CASE q # p
      <4>1. q \in ToSet(mem.cache) /\ q \in DOMAIN mem'.pods /\ q \in DOMAIN mem.pods
        BY <1>1, <1>6, <3>2
      <4>2. PodNum(q) # rn /\ PodNum(q) \in Left
        BY <1>5, <1>8, <1>9, <2>1, <3>2, <4>1
      <4> QED
        BY <1>5, <3>2, <4>1, <4>2 DEF LiveInv, CacheInv
    <3> QED
      BY <3>1, <3>2
  <2> QED
    BY <2>1 DEF CacheInv
<1>18. FoundInv'
  BY <1>2 DEF FoundInv
<1>19. UsedInv'
  <2>1. ASSUME NEW r \in Pending', NEW q \in ToSet(mem'.lru), q # r
        PROVE  PodNum(q)' # PodNum(r)'
    <3>1. r \in Pending /\ r \in DOMAIN mem.pods /\ r \in DOMAIN mem'.pods
      BY <1>7, <1>10, <1>11, SafeFacts DEF Pending
    <3>2. q \in DOMAIN mem'.pods
      BY <1>6
    <3>3. CASE q = p
      <4>1. PodNum(r) # rn
        BY <1>9, <2>1, <3>1, <3>3
      <4> QED
        BY <1>5, <3>1, <3>2, <3>3, <4>1
    <3>4. CASE q # p
      <4>1. q \in ToSet(mem.lru)
        BY <1>1, <3>4
      <4>2. PodNum(q) # PodNum(r)
        BY <2>1, <3>1, <4>1 DEF LiveInv, UsedInv
      <4> QED
        BY <1>5, <3>1, <3>2, <4>2
    <3> QED
      BY <3>3, <3>4
  <2> QED
    BY <2>1 DEF UsedInv
<1>20. NewestInv'
  <2>1. ASSUME NEW n \in Newest'
        PROVE  OnFile(n)' \/ Waiting(n)'
    <3>1. CASE n = rn
      BY <1>1, <1>5, <1>7, <3>1 DEF Waiting
    <3>2. CASE n # rn
      <4>1. n \in Left' /\ \A v \in live' : n \notin older[v]
        BY <1>2, <2>1 DEF Newest
      <4>2. n \in live /\ n \notin S /\ n \notin older[rn]
        BY <1>2, <1>8, <3>2, <4>1 DEF Left
      <4>3. \A v \in S : older[v] \subseteq S
        BY <1>3, SafeFacts DEF OlderInv
      <4>4. live \ S \subseteq live' /\ filled \subseteq filled' /\ \A v \in live \ S : older'[v] = older[v]
        BY <1>2
      <4> HIDE DEF S
      <4>5. n \in Newest
        BY <2>1, <4>2, <4>3, <4>4, StaysNewest
      <4>6. n \in Nat /\ (OnFile(n) \/ Waiting(n))
        BY <4>5, LiveFacts DEF LiveInv, NewestInv
      <4>7. ASSUME Waiting(n)
            PROVE  Waiting(n)'
        <5>1. PICK q \in ToWrite : PodNum(q) = n /\ PodMagic(q) = "committed" /\ q \in ToSet(mem.cache)
          BY <4>7 DEF Waiting
        <5>2. Fast(mem, q) /\ q # p /\ q \in DOMAIN mem.pods
          BY <1>3, <5>1, WaitingIsFast DEF LiveInv
        <5>3. PodPrev(p) = PodNum(p) \/ PodNum(q) # PodPrev(p)
          BY <1>1, <4>2, <5>1, SafeFacts DEF MemInv
        <5>4. q \in ToSet(mem'.cache)
          BY <1>1, <5>2, <5>3
        <5>5. PodNum(q)' = n /\ PodMagic(q)' = "committed" /\ q \in ToWrite'
          BY <1>5, <1>7, <5>1, <5>2
        <5> QED
          BY <5>4, <5>5 DEF Waiting
      <4> QED
        BY <1>15, <4>6, <4>7
    <3> QED
      BY <3>1, <3>2
  <2> QED
    BY <2>1 DEF NewestInv
<1> QED
  BY <1>12, <1>13, <1>14, <1>15, <1>16, <1>17, <1>18, <1>19, <1>20 DEF LiveInv

LEMMA AbortLive ==
  ASSUME TypeInv, SafeInv, LiveInv, recovering = {}, NEW p \in held, Abort(p)
  PROVE  LiveInv'
<1>1. /\ mem'.cache = mem.cache /\ mem'.lru = mem.lru
      /\ ToSet(queue') = ToSet(queue) \cup {p} /\ p \in DOMAIN mem'.pods /\ p \in DOMAIN mem.pods
      /\ DOMAIN mem'.pods \subseteq DOMAIN mem.pods
      /\ \A q \in DOMAIN mem'.pods : q # p => mem'.pods[q] = mem.pods[q]
      /\ mem'.pods[p].data.rn = mem.pods[p].data.rn /\ mem'.pods[p].data.prev = mem.pods[p].data.prev
      /\ mem'.pods[p].data.magic = "deleted"
      /\ MemOK(mem') /\ queue' \in Seq(DOMAIN mem'.pods) /\ held' \subseteq DOMAIN mem'.pods
  BY AbortIs
<1>2. /\ held' = held \ {p} /\ PodPrev(p) = PodNum(p)
      /\ UNCHANGED <<writer, fs, nextRN, recovering, older, live, filled>>
  BY DEF Abort, numbers, history, PodNum, PodPrev
<1>3. p \in Pending /\ p \notin ToSet(mem.cache) /\ p \notin ToWrite /\ ToWrite \subseteq DOMAIN mem.pods
  BY SafeFacts DEF HeldInv
<1>4. PodNum(p) \notin live
  BY DEF LiveInv, FreshInv
<1>5. /\ \A q \in DOMAIN mem'.pods : PodNum(q)' = PodNum(q) /\ PodPrev(q)' = PodPrev(q)
      /\ \A q \in DOMAIN mem'.pods : q # p => PodMagic(q)' = PodMagic(q) /\ mem'.pods[q].op = mem.pods[q].op
      /\ PodMagic(p)' = "deleted"
  BY <1>1 DEF PodNum, PodPrev, PodMagic
<1>6. /\ ToSet(mem.cache) \subseteq DOMAIN mem'.pods /\ ToSet(mem.lru) \subseteq DOMAIN mem'.pods
      /\ ToSet(queue') \subseteq DOMAIN mem'.pods
      /\ writer # Idle => writer.pod \in DOMAIN mem'.pods
  BY <1>1, <1>2, ToSetOf, AbortTyped DEF MemOK, TypeInv, PodsTyped
<1>7. ToWrite' = ToWrite \cup {p} /\ ToWrite' \subseteq DOMAIN mem'.pods
  BY <1>1, <1>2, <1>6 DEF ToWrite, WriterAt
<1>8. Left' = Left /\ Newest' = Newest
  BY <1>2 DEF Left, Newest
<1>9. Pending' \subseteq Pending /\ Pending' \subseteq DOMAIN mem'.pods
  BY <1>1, <1>2, <1>5, <1>7 DEF Pending
<1>10. LiveBelow'
  BY <1>2 DEF LiveInv, LiveBelow
<1>11. DoomedInv'
  BY <1>1, <1>4, <1>5, <1>7, <1>8 DEF LiveInv, DoomedInv, Left
<1>12. ReplacedInv'
  <2>1. ASSUME NEW q \in ToSet(queue'), mem'.pods[q].op # "add", PodPrev(q)' # PodNum(q)'
        PROVE  older'[PodNum(q)'] \cap Left' = {}
    <3>1. q \in DOMAIN mem'.pods /\ q # p
      BY <1>2, <1>5, <1>6, <2>1
    <3>2. older[PodNum(q)] \cap Left = {}
      BY <1>1, <1>5, <2>1, <3>1 DEF LiveInv, ReplacedInv
    <3> QED
      BY <1>2, <1>5, <1>8, <3>1, <3>2
  <2>2. Erasing' => older'[writer'.rn] \cap Left' = {}
    BY <1>2, <1>8 DEF LiveInv, ReplacedInv, Erasing
  <2> QED
    BY <2>1, <2>2 DEF ReplacedInv
<1>13. UnmarkedInv' /\ \A n \in Nat : OnFile(n)' <=> OnFile(n)
  BY <1>2 DEF LiveInv, UnmarkedInv, OnFile
<1>14. FreshInv'
  BY <1>1, <1>2, <1>5 DEF LiveInv, FreshInv
<1>15. CacheInv'
  BY <1>1, <1>3, <1>5, <1>6, <1>8 DEF LiveInv, CacheInv
<1>16. FoundInv'
  BY <1>2 DEF FoundInv
<1>17. UsedInv'
  BY <1>1, <1>5, <1>6, <1>9 DEF LiveInv, UsedInv
<1>18. NewestInv'
  <2>1. ASSUME NEW n \in Newest
        PROVE  OnFile(n)' \/ Waiting(n)'
    <3>1. n \in Nat /\ (OnFile(n) \/ Waiting(n))
      BY LiveFacts DEF LiveInv, NewestInv
    <3>2. Waiting(n) => Waiting(n)'
      BY <1>1, <1>3, <1>5, <1>7 DEF Waiting
    <3> QED
      BY <1>13, <3>1, <3>2
  <2> QED
    BY <1>8, <2>1 DEF NewestInv
<1> QED
  BY <1>10, <1>11, <1>12, <1>13, <1>14, <1>15, <1>16, <1>17, <1>18 DEF LiveInv

LEMMA GetLive ==
  ASSUME TypeInv, SafeInv, LiveInv, recovering = {}, Get
  PROVE  LiveInv'
<1>1. /\ Opened(fs, fs') /\ MemOK(mem') /\ held' \subseteq DOMAIN mem'.pods /\ queue' \in Seq(DOMAIN mem'.pods)
      /\ UNCHANGED <<held, queue, writer, nextRN, recovering, older, live, filled>>
  BY GetIs DEF Get, numbers, history
<1>2. PICK rn \in 0..(nextRN - 1), c \in Pods :
        /\ \A q \in DOMAIN mem'.pods :
             \/ q \in DOMAIN mem.pods /\ mem'.pods[q] = mem.pods[q]
             \/ /\ q = c /\ c \notin DOMAIN mem.pods /\ mem'.pods[q] = Loaded(rn)
                /\ At(fs, rn).magic = "committed"
        /\ ToSet(mem'.cache) \subseteq ToSet(mem.cache) \cup (DOMAIN mem'.pods \ DOMAIN mem.pods)
        /\ ToSet(mem'.lru) \subseteq ToSet(mem.lru) \cup ToSet(mem.cache) \cup (DOMAIN mem'.pods \ DOMAIN mem.pods)
        /\ \A q : Fast(mem, q) => q \in ToSet(mem'.cache)
  BY GetIs
<1>3. \A q \in DOMAIN mem'.pods : q \in DOMAIN mem.pods =>
        /\ PodNum(q)' = PodNum(q) /\ PodPrev(q)' = PodPrev(q) /\ PodMagic(q)' = PodMagic(q)
        /\ mem'.pods[q].op = mem.pods[q].op
  BY <1>2 DEF PodNum, PodPrev, PodMagic
<1>4. \A q \in DOMAIN mem'.pods \ DOMAIN mem.pods :
        PodMagic(q)' = "committed" /\ PodNum(q)' = rn /\ At(fs, rn).magic = "committed"
  <2>1. rn \in Nat
    BY TypeFacts
  <2>2. At(fs, rn).magic = "committed" => At(fs, rn).rn = rn
    BY <2>1, SafeFacts DEF DiskInv
  <2>3. ASSUME NEW q \in DOMAIN mem'.pods \ DOMAIN mem.pods
        PROVE  mem'.pods[q].data = At(fs, rn) /\ At(fs, rn).magic = "committed"
    BY <1>2 DEF Loaded
  <2> QED
    BY <2>2, <2>3 DEF PodNum, PodMagic
<1>5. /\ ToSet(mem'.cache) \subseteq DOMAIN mem'.pods /\ ToSet(mem'.lru) \subseteq DOMAIN mem'.pods
      /\ ToSet(queue') \subseteq DOMAIN mem'.pods
      /\ writer # Idle => writer.pod \in DOMAIN mem'.pods
  BY <1>1, ToSetOf, GetTyped DEF MemOK, TypeInv, PodsTyped
<1>6. ToWrite' = ToWrite /\ ToWrite \subseteq DOMAIN mem.pods /\ ToWrite \subseteq DOMAIN mem'.pods
  BY <1>1, <1>5, SafeFacts DEF ToWrite, WriterAt
<1>7. /\ Pending' = Pending /\ Pending \subseteq DOMAIN mem.pods /\ Pending \subseteq DOMAIN mem'.pods
  BY <1>1, <1>3, <1>6, SafeFacts DEF Pending
<1>8. Left' = Left /\ Newest' = Newest
  BY <1>1 DEF Left, Newest
<1>9. /\ ToSet(mem.lru) \subseteq DOMAIN mem.pods /\ ToSet(mem.cache) \subseteq DOMAIN mem.pods
      /\ held \subseteq Pending /\ ToSet(queue) \subseteq ToWrite
  BY LiveFacts, SafeFacts
<1>10. LiveBelow'
  BY <1>1 DEF LiveInv, LiveBelow
<1>11. DoomedInv'
  BY <1>3, <1>6, <1>8 DEF LiveInv, DoomedInv
<1>12. ReplacedInv'
  <2>1. Erasing' => older'[writer'.rn] \cap Left' = {}
    BY <1>1, <1>8 DEF LiveInv, ReplacedInv, Erasing
  <2> QED
    BY <1>1, <1>3, <1>6, <1>8, <1>9, <2>1 DEF LiveInv, ReplacedInv
<1>13. UnmarkedInv' /\ \A n \in Nat : OnFile(n)' <=> OnFile(n)
  BY <1>1, OpenedMarks DEF LiveInv
<1>14. FreshInv'
  BY <1>1, <1>3, <1>7, <1>9 DEF LiveInv, FreshInv
<1>15. CacheInv'
  BY <1>2, <1>3, <1>4, <1>5, <1>8, <1>9 DEF LiveInv, CacheInv
<1>16. FoundInv'
  BY <1>1 DEF FoundInv
<1>17. UsedInv'
  <2>1. ASSUME NEW r \in Pending, NEW q \in ToSet(mem'.lru), q # r
        PROVE  PodNum(q)' # PodNum(r)'
    <3>1. PodNum(r)' = PodNum(r) /\ q \in DOMAIN mem'.pods
      BY <1>3, <1>5, <1>7
    <3>2. CASE q \in DOMAIN mem.pods
      <4>1. PodNum(q)' = PodNum(q) /\ q \in ToSet(mem.lru) \cup ToSet(mem.cache)
        BY <1>2, <1>3, <3>1, <3>2
      <4>2. q \in ToSet(mem.cache) => PodNum(q) # PodNum(r)
        BY <2>1, <3>2, SafeFacts DEF PendingInv
      <4> QED
        BY <2>1, <3>1, <4>1, <4>2 DEF LiveInv, UsedInv
    <3>3. CASE q \notin DOMAIN mem.pods
      <4>1. PodNum(q)' = rn /\ At(fs, rn).magic = "committed"
        BY <1>4, <3>1, <3>3
      <4>2. At(fs, PodNum(r)).magic # "committed"
        BY SafeFacts DEF PendingInv
      <4> QED
        BY <3>1, <4>1, <4>2
    <3> QED
      BY <3>2, <3>3
  <2> QED
    BY <1>7, <2>1 DEF UsedInv
<1>18. NewestInv'
  <2>1. ASSUME NEW n \in Newest
        PROVE  OnFile(n)' \/ Waiting(n)'
    <3>1. n \in Nat /\ (OnFile(n) \/ Waiting(n))
      BY LiveFacts DEF LiveInv, NewestInv
    <3>2. ASSUME Waiting(n)
          PROVE  Waiting(n)'
      <4>1. PICK q \in ToWrite : PodNum(q) = n /\ PodMagic(q) = "committed" /\ q \in ToSet(mem.cache)
        BY <3>2 DEF Waiting
      <4>2. q \in ToSet(mem'.cache)
        BY <1>2, <4>1, WaitingIsFast DEF LiveInv
      <4> QED
        BY <1>3, <1>6, <4>1, <4>2 DEF Waiting
    <3> QED
      BY <1>13, <3>1, <3>2
  <2> QED
    BY <1>8, <2>1 DEF NewestInv
<1> QED
  BY <1>10, <1>11, <1>12, <1>13, <1>14, <1>15, <1>16, <1>17, <1>18 DEF LiveInv

\* A call that queues a record as deleted: it, and what it replaced, are no longer live.
LEMMA CondemnedLive ==
  ASSUME TypeInv, SafeInv, LiveInv, TypeInv', OlderInv', NEW c \in Pods, Condemned(c), c \notin held,
         Opened(fs, fs'), UNCHANGED <<filled, recovering>>, recovering = {},
         nextRN <= nextRN', \A v \in RN : v < nextRN => older'[v] = older[v],
         \A h \in held : \A v \in RN : PodNum(h) \notin older'[v],
         NEW m \in RN, m = PodNum(c)', live' = live \ ({m} \cup older'[m]),
         c \in DOMAIN mem.pods => m = PodNum(c) \/ m = nextRN,
         c \in ToWrite => m = PodNum(c),
         \A q \in ToSet(mem.cache) : PodNum(q) \notin {m} \cup older'[m] => q \in ToSet(mem'.cache)
  PROVE  LiveInv'
<1> DEFINE S == {m} \cup older'[m]
<1>1. /\ ToSet(mem'.cache) \subseteq ToSet(mem.cache) /\ ToSet(mem'.lru) \subseteq ToSet(mem.lru)
      /\ UNCHANGED <<held, writer>> /\ ToSet(queue') = ToSet(queue) \cup {c} /\ c \in DOMAIN mem'.pods
      /\ \A q \in DOMAIN mem'.pods : q # c => q \in DOMAIN mem.pods /\ mem'.pods[q] = mem.pods[q]
      /\ mem'.pods[c].data.magic = "deleted"
  BY DEF Condemned
<1>2. /\ \A q \in DOMAIN mem'.pods : q # c =>
           /\ PodNum(q)' = PodNum(q) /\ PodPrev(q)' = PodPrev(q) /\ PodMagic(q)' = PodMagic(q)
           /\ mem'.pods[q].op = mem.pods[q].op
      /\ PodMagic(c)' = "deleted"
  BY <1>1 DEF PodNum, PodPrev, PodMagic
<1>3. /\ ToSet(mem'.cache) \subseteq DOMAIN mem'.pods /\ ToSet(mem'.lru) \subseteq DOMAIN mem'.pods
      /\ ToSet(queue') \subseteq DOMAIN mem'.pods /\ held \subseteq DOMAIN mem'.pods
      /\ writer # Idle => writer.pod \in DOMAIN mem'.pods
  BY <1>1, ToSetOf DEF MemOK, TypeInv, PodsTyped
<1>4. ToWrite' = ToWrite \cup {c} /\ ToWrite' \subseteq DOMAIN mem'.pods
  BY <1>1, <1>3 DEF ToWrite, WriterAt
<1>5. Pending' \subseteq Pending \ {c} /\ Pending' \subseteq DOMAIN mem'.pods
  BY <1>1, <1>2, <1>3, <1>4 DEF Pending
<1>6. /\ live \subseteq RN /\ RN \subseteq Nat /\ nextRN \in Nat /\ nextRN' \in Nat /\ older \in [RN -> SUBSET RN]
      /\ older' \in [RN -> SUBSET RN] /\ fileRN \in Nat /\ fileRN <= nextRN
      /\ \A q \in DOMAIN mem.pods : PodNum(q) \in RN /\ PodNum(q) \in Nat /\ PodNum(q) < nextRN
  BY LiveFacts, SafeFacts, RNIs DEF TypeInv, HistoryTyped, NumbersTyped, NextInv
<1>7. Left' \subseteq Left /\ live' \subseteq live /\ Left' \cap S = {}
  BY DEF Left
<1>8. \A v \in RN : older[v] \subseteq older'[v]
  <2>1. ASSUME NEW v \in RN, ~(v < nextRN)
        PROVE  older[v] = {}
    <3>1. v \in Nat /\ v >= nextRN
      BY <1>6, <2>1
    <3> QED
      BY <3>1, SafeFacts DEF OlderInv
  <2> QED
    BY <2>1
<1>9. \A v \in live : v < nextRN /\ older'[v] = older[v]
  BY <1>6 DEF LiveInv, LiveBelow
<1>10. LiveBelow'
  <2>1. ASSUME NEW v \in live'
        PROVE  v < nextRN'
    <3>1. v \in Nat /\ v < nextRN
      BY <1>6, <1>7, <1>9
    <3> QED
      BY <1>6, <3>1
  <2> QED
    BY <2>1 DEF LiveBelow
<1>11. DoomedInv'
  <2>1. ASSUME NEW q \in ToWrite', PodMagic(q)' = "deleted"
        PROVE  PodNum(q)' \notin Left'
    <3>1. CASE q = c
      BY <1>7, <3>1
    <3>2. CASE q # c
      <4>1. q \in ToWrite /\ PodMagic(q) = "deleted" /\ PodNum(q)' = PodNum(q)
        BY <1>2, <1>4, <2>1, <3>2
      <4> QED
        BY <1>7, <4>1 DEF LiveInv, DoomedInv
    <3> QED
      BY <3>1, <3>2
  <2> QED
    BY <2>1 DEF DoomedInv
<1>12. ReplacedInv'
  <2>1. ASSUME NEW q \in ToSet(queue'), mem'.pods[q].op # "add", PodPrev(q)' # PodNum(q)'
        PROVE  older'[PodNum(q)'] \cap Left' = {}
    <3>1. CASE q = c
      BY <1>7, <3>1
    <3>2. CASE q # c
      <4>1. /\ q \in ToSet(queue) /\ q \in DOMAIN mem.pods /\ PodNum(q)' = PodNum(q) /\ PodPrev(q)' = PodPrev(q)
            /\ mem'.pods[q].op = mem.pods[q].op
        BY <1>1, <1>2, <1>3, <3>2
      <4>2. older[PodNum(q)] \cap Left = {}
        BY <2>1, <4>1 DEF LiveInv, ReplacedInv
      <4>3. older'[PodNum(q)] = older[PodNum(q)]
        BY <1>6, <4>1
      <4> QED
        BY <1>7, <4>1, <4>2, <4>3
    <3> QED
      BY <3>1, <3>2
  <2>2. ASSUME Erasing'
        PROVE  older'[writer'.rn] \cap Left' = {}
    <3>1. Erasing /\ writer # Idle
      BY <1>1, <2>2 DEF Erasing
    <3>2. writer.rn \in RN /\ writer.rn \in Nat /\ writer.rn < fileRN
      BY <1>6, <3>1, SafeFacts, WriterFacts DEF WriterInv
    <3>3. writer.rn < nextRN
      BY <1>6, <3>2
    <3>4. older'[writer.rn] = older[writer.rn]
      BY <3>2, <3>3
    <3>5. older[writer.rn] \cap Left = {}
      BY <3>1 DEF LiveInv, ReplacedInv
    <3> QED
      BY <1>1, <1>7, <3>4, <3>5
  <2> QED
    BY <2>1, <2>2 DEF ReplacedInv
<1>13. UnmarkedInv' /\ \A n \in Nat : OnFile(n)' <=> OnFile(n)
  BY OpenedMarks DEF LiveInv
<1>14. FreshInv'
  BY <1>1, <1>2, <1>3, <1>7 DEF LiveInv, FreshInv
<1>15. CacheInv'
  BY <1>1, <1>2, <1>3, <1>7 DEF LiveInv, CacheInv
<1>16. FoundInv'
  BY DEF FoundInv
<1>17. UsedInv'
  <2>1. ASSUME NEW r \in Pending', NEW q \in ToSet(mem'.lru), q # r
        PROVE  PodNum(q)' # PodNum(r)'
    <3>1. r \in Pending /\ r # c /\ r \in DOMAIN mem'.pods /\ r \in DOMAIN mem.pods /\ PodNum(r)' = PodNum(r)
      BY <1>1, <1>2, <1>5
    <3>2. q \in ToSet(mem.lru) /\ q \in DOMAIN mem'.pods /\ q \in DOMAIN mem.pods
      BY <1>1, <1>3, LiveFacts
    <3>3. PodNum(q) # PodNum(r)
      BY <2>1, <3>1, <3>2 DEF LiveInv, UsedInv
    <3>4. PodNum(q)' = PodNum(q) \/ PodNum(q)' = nextRN
      BY <1>2, <3>2
    <3>5. PodNum(r) # nextRN
      BY <1>6, <3>1
    <3> QED
      BY <3>1, <3>3, <3>4, <3>5
  <2> QED
    BY <2>1 DEF UsedInv
<1>18. NewestInv'
  <2>1. ASSUME NEW n \in Newest'
        PROVE  OnFile(n)' \/ Waiting(n)'
    <3>1. n \in Left' /\ n \in live /\ n \notin S
      BY <1>7, <2>1 DEF Newest, Left
    <3>2. \A v \in S : older[v] \subseteq S
      <4>1. older[m] \subseteq S
        BY <1>8
      <4>2. ASSUME NEW v \in older'[m]
            PROVE  older[v] \subseteq S
        <5>1. v \in RN /\ older'[v] \subseteq older'[m]
          BY <1>6 DEF OlderInv
        <5> QED
          BY <1>8, <5>1
      <4> QED
        BY <4>1, <4>2
    <3>3. live \ S \subseteq live' /\ filled \subseteq filled' /\ \A v \in live \ S : older'[v] = older[v]
      BY <1>9
    <3> HIDE DEF S
    <3>4. n \in Newest
      BY <2>1, <3>1, <3>2, <3>3, StaysNewest
    <3>5. n \in Nat /\ (OnFile(n) \/ Waiting(n))
      BY <3>4, LiveFacts DEF LiveInv, NewestInv
    <3>6. ASSUME Waiting(n)
          PROVE  Waiting(n)'
      <4>1. PICK q \in ToWrite : PodNum(q) = n /\ PodMagic(q) = "committed" /\ q \in ToSet(mem.cache)
        BY <3>6 DEF Waiting
      <4>2. q # c /\ q \in ToSet(mem'.cache)
        BY <3>1, <4>1 DEF S
      <4> QED
        BY <1>2, <1>4, <4>1, <4>2 DEF Waiting
    <3> QED
      BY <1>13, <3>5, <3>6
  <2> QED
    BY <2>1 DEF NewestInv
<1> QED
  BY <1>10, <1>11, <1>12, <1>13, <1>14, <1>15, <1>16, <1>17, <1>18 DEF LiveInv

LEMMA DelLive ==
  ASSUME DelQueued = FALSE, TypeInv, SafeInv, LiveInv, recovering = {}, Del
  PROVE  LiveInv'
<1>1. PICK rn \in 0..(nextRN - 1), c \in Pods :
        /\ Condemned(c)
        /\ older' = [older EXCEPT ![nextRN] = {rn} \cup older[rn]]
        /\ live' = live \ ({rn} \cup older[rn])
        /\ mem'.pods[c].data.rn = nextRN
        /\ c \in DOMAIN mem.pods =>
             /\ mem.pods[c].data.magic = "committed" /\ (~mem.pods[c].pinned \/ DelQueued)
             /\ mem.pods[c].data.rn = rn /\ c \in ToSet(mem.cache)
        /\ c \notin DOMAIN mem.pods => At(fs, rn).magic = "committed"
        /\ \A q \in ToSet(mem.cache) : mem.pods[q].data.rn # rn => q \in ToSet(mem'.cache)
  BY DelIs
<1>2. /\ Opened(fs, fs') /\ nextRN \in RN /\ nextRN' = nextRN + 1 /\ UNCHANGED <<filled, recovering>>
  BY DelIs DEF Del
<1>3. OlderInv' /\ older'[nextRN] = {rn} \cup older[rn] /\ \A n \in Nat : n < nextRN => older'[n] = older[n]
  BY <1>1, <1>2, OlderExtended
<1>4. /\ nextRN \in Nat /\ nextRN <= nextRN' /\ held \subseteq DOMAIN mem.pods /\ ToWrite \subseteq DOMAIN mem.pods
      /\ RN \subseteq Nat /\ ToWrite \subseteq InLine /\ rn \in Nat /\ rn < nextRN
  BY <1>2, TypeFacts, SafeFacts, LiveFacts
<1>5. c \notin held /\ c \notin ToWrite
  <2>1. CASE c \in DOMAIN mem.pods
    <3>1. PodMagic(c) = "committed" /\ mem.pods[c].pinned # TRUE
      BY <1>1, <2>1 DEF PodMagic
    <3> QED
      BY <1>4, <3>1, SafeFacts DEF HeldInv, LineInv
  <2>2. CASE c \notin DOMAIN mem.pods
    BY <1>4, <2>2
  <2> QED
    BY <2>1, <2>2
<1>6. PodNum(c)' = nextRN
  BY <1>1 DEF PodNum
<1>7. Present(rn)
  BY <1>1 DEF Present, PodNum, PodMagic
<1>8. rn \in RN
  BY <1>2, <1>4, RNIs
<1>9. \A v \in RN : v < nextRN => older'[v] = older[v]
  BY <1>3, <1>4
<1>10. ASSUME NEW h \in held, NEW v \in RN
       PROVE  PodNum(h) \notin older'[v]
  <2>1. \A u \in RN : PodNum(h) \notin older[u]
    BY DEF LiveInv, FreshInv
  <2>2. PodNum(h) # rn
    BY <1>7, HeldIsNew
  <2>3. v # nextRN => older'[v] = older[v]
    BY <1>1, TypeFacts
  <2> QED
    BY <1>3, <1>8, <2>1, <2>2, <2>3
<1>11. live' = live \ ({nextRN} \cup older'[nextRN])
  <2>1. nextRN \notin live
    BY <1>4 DEF LiveInv, LiveBelow
  <2> QED
    BY <1>1, <1>3, <2>1
<1>12. \A q \in ToSet(mem.cache) : PodNum(q) \notin {nextRN} \cup older'[nextRN] => q \in ToSet(mem'.cache)
  BY <1>1, <1>3 DEF PodNum
<1> QED
  BY <1>1, <1>2, <1>3, <1>4, <1>5, <1>6, <1>9, <1>10, <1>11, <1>12, DelTyped, CondemnedLive

\* A call that does nothing but open files.
LEMMA QuietLive ==
  ASSUME TypeInv, SafeInv, LiveInv, recovering = {}, Opened(fs, fs'),
         UNCHANGED <<mem, held, queue, writer, nextRN, older, live, filled, recovering>>
  PROVE  LiveInv'
<1>1. /\ Left' = Left /\ Newest' = Newest /\ ToWrite' = ToWrite /\ Newest \subseteq Nat
      /\ \A q : PodNum(q)' = PodNum(q) /\ PodPrev(q)' = PodPrev(q) /\ PodMagic(q)' = PodMagic(q)
  BY LiveFacts DEF Left, Newest, ToWrite, WriterAt, PodNum, PodPrev, PodMagic
<1>2. Pending' = Pending /\ (Erasing' <=> Erasing)
  BY <1>1 DEF Pending, Erasing
<1>3. UnmarkedInv' /\ \A n \in Nat : OnFile(n)' <=> OnFile(n)
  BY OpenedMarks DEF LiveInv
<1>4. LiveBelow' /\ DoomedInv' /\ ReplacedInv' /\ FreshInv' /\ CacheInv' /\ FoundInv' /\ UsedInv'
  BY <1>1, <1>2 DEF LiveInv, LiveBelow, DoomedInv, ReplacedInv, FreshInv, CacheInv, FoundInv, UsedInv
<1>5. NewestInv'
  <2>1. \A n : Waiting(n) => Waiting(n)'
    BY <1>1 DEF Waiting
  <2> QED
    BY <1>1, <1>3, <2>1 DEF LiveInv, NewestInv
<1> QED
  BY <1>3, <1>4, <1>5 DEF LiveInv

LEMMA PurgeLive ==
  ASSUME TypeInv, SafeInv, LiveInv, recovering = {}, Purge
  PROVE  LiveInv'
<1>1. Opened(fs, fs')
  BY TypeFacts DEF Purge, Opened
<1> QED
  BY <1>1, QuietLive DEF Purge, numbers, history

LEMMA PurgeStepLive ==
  ASSUME TypeInv, SafeInv, LiveInv, recovering = {}, PurgeStep
  PROVE  LiveInv'
<1>0. UNCHANGED <<nextRN, recovering, older, filled>>
  BY DEF PurgeStep
<1>1. CASE purging' = Idle /\ UNCHANGED <<mem, fs, minRN, queue, live, late, held, writer>>
  <2>1. Opened(fs, fs')
    BY <1>1, TypeFacts DEF Opened
  <2> QED
    BY <1>0, <1>1, <2>1, QuietLive
<1>2. CASE Opened(fs, fs') /\ UNCHANGED <<mem, minRN, queue, live, late, held, writer>>
  BY <1>0, <1>2, QuietLive
<1>3. CASE /\ Opened(fs, fs')
           /\ \A q \in ToSet(mem.cache) : mem.pods[q].data.rn # purging.rn => q \in ToSet(mem'.cache)
           /\ \E c \in Pods :
                /\ Condemned(c)
                /\ c \in DOMAIN mem.pods =>
                     /\ c \in ToSet(mem.cache) /\ mem.pods[c].data.rn = purging.rn
                     /\ mem'.pods[c].data.rn = mem.pods[c].data.rn
                /\ c \notin DOMAIN mem.pods =>
                     \A q \in ToSet(mem.cache) : mem.pods[q].data.rn # purging.rn
                /\ live' = live \ ({mem'.pods[c].data.rn} \cup older[mem'.pods[c].data.rn])
  <2>1. PICK c \in Pods :
          /\ Condemned(c)
          /\ c \in DOMAIN mem.pods =>
               c \in ToSet(mem.cache) /\ PodNum(c) = purging.rn /\ mem'.pods[c].data.rn = PodNum(c)
          /\ c \notin DOMAIN mem.pods => \A q \in ToSet(mem.cache) : PodNum(q) # purging.rn
          /\ live' = live \ ({mem'.pods[c].data.rn} \cup older[mem'.pods[c].data.rn])
    BY <1>3 DEF PodNum
  <2>2. mem'.pods[c].data.rn \in RN
    <3>1. mem'.pods[c] \in Pod
      BY <2>1 DEF Condemned, MemOK
    <3> QED
      BY <3>1, PodIs
  <2>3. PICK m \in RN : m = mem'.pods[c].data.rn
    BY <2>2
  <2>4. m = PodNum(c)' /\ live' = live \ ({m} \cup older'[m])
    BY <1>0, <2>1, <2>3 DEF PodNum
  <2>5. c \notin held /\ ToWrite \subseteq DOMAIN mem.pods
    BY <2>1, SafeFacts DEF HeldInv
  <2>6. c \in DOMAIN mem.pods => m = PodNum(c)
    BY <2>1, <2>3
  <2>7. \A q \in ToSet(mem.cache) : PodNum(q) \notin {m} \cup older'[m] => q \in ToSet(mem'.cache)
    BY <1>3, <2>1, <2>3 DEF PodNum
  <2>8. OlderInv' /\ nextRN <= nextRN' /\ \A v \in RN : older'[v] = older[v]
    BY <1>0, SafeFacts, TypeFacts DEF OlderInv
  <2>9. \A h \in held : \A v \in RN : PodNum(h) \notin older'[v]
    BY <1>0 DEF LiveInv, FreshInv
  <2> QED
    BY <1>0, <1>3, <2>1, <2>4, <2>5, <2>6, <2>7, <2>8, <2>9, PurgeStepTyped, CondemnedLive
<1> QED
  BY <1>1, <1>2, <1>3, PurgeStepIs

-----------------------------------------------------------------------------
(* The steps of the write thread keep what can be read *)

LEMMA WriteLive ==
  ASSUME TypeInv, SafeInv, LiveInv, recovering = {}, WriterUnchanged, UNCHANGED mem, filled \subseteq filled',
         ToWrite' \subseteq ToWrite, ToSet(queue') \subseteq ToSet(queue),
         Erasing' => older[writer'.rn] \cap Left = {}, UnmarkedInv', NewestInv'
  PROVE  LiveInv'
<1>1. /\ UNCHANGED <<mem, nextRN, held, recovering, older, live>>
      /\ \A q : PodNum(q)' = PodNum(q) /\ PodPrev(q)' = PodPrev(q) /\ PodMagic(q)' = PodMagic(q)
  BY WriteFacts DEF WriterUnchanged
<1>2. Left' \subseteq Left /\ Pending' \subseteq Pending
  BY <1>1 DEF Left, Pending
<1>3. LiveBelow' /\ FreshInv' /\ CacheInv' /\ FoundInv' /\ UsedInv' /\ DoomedInv'
  BY <1>1, <1>2 DEF LiveInv, LiveBelow, DoomedInv, FreshInv, CacheInv, FoundInv, UsedInv
<1>4. ReplacedInv'
  <2>1. ASSUME NEW q \in ToSet(queue'), mem'.pods[q].op # "add", PodPrev(q)' # PodNum(q)'
        PROVE  older'[PodNum(q)'] \cap Left' = {}
    <3>1. older[PodNum(q)] \cap Left = {}
      BY <1>1, <2>1 DEF LiveInv, ReplacedInv
    <3> QED
      BY <1>1, <1>2, <3>1
  <2>2. Erasing' => older'[writer'.rn] \cap Left' = {}
    BY <1>1, <1>2
  <2> QED
    BY <2>1, <2>2 DEF ReplacedInv
<1> QED
  BY <1>3, <1>4 DEF LiveInv

\* What is written at the place of r, or erased there, is not what a live record needs.
LEMMA PlacedLive ==
  ASSUME TypeInv, SafeInv, LiveInv, WriterUnchanged, UNCHANGED mem, filled \subseteq filled',
         NEW r \in Nat, NEW d, d.magic \in {"committed", "deleted"},
         Overwritten(fs, fs', r, d) \/ (d.magic = "deleted" /\ Erased(fs, fs', r, d)),
         d.magic = "committed" => r \in filled \/ (At(fs, r).magic = "zero" /\ ~Marked(fs, r)),
         d.magic = "deleted" => r \notin Newest',
         \A q \in ToWrite : PodNum(q) # r => q \in ToWrite'
  PROVE  UnmarkedInv' /\ NewestInv'
<1>1. /\ UNCHANGED <<mem, older, live>>
      /\ \A q : PodNum(q)' = PodNum(q) /\ PodPrev(q)' = PodPrev(q) /\ PodMagic(q)' = PodMagic(q)
  BY WriteFacts DEF WriterUnchanged
<1>2. Newest' \subseteq Newest /\ Newest \subseteq Left /\ Left' \subseteq Left /\ Newest \subseteq Nat
  BY <1>1, LiveFacts DEF Left, Newest
<1>3. \A n \in Nat : n # r => At(fs', n) = At(fs, n) \/ (Removed(fs, fs', r) /\ At(fs', n) = Zero /\ SameFile(n, r))
  BY DEF Overwritten, Erased, Removed
<1>4. At(fs', r) = d \/ At(fs', r) = Zero
  BY DEF Overwritten, Erased, Removed, SameFile
<1>5. UnmarkedInv'
  <2>1. ASSUME NEW n \in Nat, At(fs', n).magic = "committed", n \notin filled'
        PROVE  ~Marked(fs', n)
    <3>1. CASE n = r
      <4>1. d.magic = "committed"
        BY <1>4, <2>1, <3>1 DEF Zero
      <4>2. Overwritten(fs, fs', r, d) /\ At(fs, r).magic = "zero" /\ ~Marked(fs, r)
        BY <2>1, <3>1, <4>1
      <4> QED
        BY <3>1, <4>2 DEF Overwritten, Gone
    <3>2. CASE n # r
      <4>1. At(fs, n).magic = "committed" /\ n \notin filled
        BY <1>3, <2>1, <3>2 DEF Zero
      <4>2. ~Marked(fs, n)
        BY <4>1 DEF LiveInv, UnmarkedInv, OnFile
      <4> QED
        BY <3>2, <4>1, <4>2 DEF Overwritten, Erased, Gone
    <3> QED
      BY <3>1, <3>2
  <2> QED
    BY <2>1 DEF UnmarkedInv, OnFile
<1>6. NewestInv'
  <2>1. ASSUME NEW n \in Newest'
        PROVE  OnFile(n)' \/ Waiting(n)'
    <3>1. n \in Newest /\ n \in Nat /\ n \notin filled /\ (OnFile(n) \/ Waiting(n))
      BY <1>2 DEF Left, LiveInv, NewestInv
    <3>2. CASE n = r
      BY <2>1, <3>2 DEF Overwritten, OnFile
    <3>3. CASE n # r /\ Waiting(n)
      BY <1>1, <3>3 DEF Waiting
    <3>4. CASE n # r /\ OnFile(n)
      <4>1. ~Marked(fs, n) /\ At(fs, n).magic = "committed"
        BY <3>1, <3>4 DEF LiveInv, UnmarkedInv, OnFile
      <4>2. ~(Removed(fs, fs', r) /\ SameFile(n, r))
        BY <3>1, <3>4, <4>1 DEF Removed, Gone
      <4>3. At(fs', n) = At(fs, n)
        BY <1>3, <3>1, <3>4, <4>2
      <4> QED
        BY <4>1, <4>3 DEF OnFile
    <3> QED
      BY <3>1, <3>2, <3>3, <3>4
  <2> QED
    BY <2>1 DEF NewestInv
<1> QED
  BY <1>5, <1>6

LEMMA WriteBeginLive ==
  ASSUME TypeInv, SafeInv, LiveInv, recovering = {}, WriteBegin
  PROVE  LiveInv'
<1>1. PICK p \in DOMAIN mem.pods :
        /\ writer = Idle /\ ToSet(queue) = ToSet(queue') \cup {p}
        /\ writer'.pod = p /\ writer'.rn = PodNum(p) /\ writer'.prev = PodPrev(p) /\ writer'.op = mem.pods[p].op
        /\ writer'.step \in {"gap", "record"} /\ writer' # Idle
  BY WriteBeginIs DEF PodNum, PodPrev
<1>2. UNCHANGED <<mem, fs, filled>> /\ WriterUnchanged
  BY DEF WriteBegin
<1>3. ToWrite' = ToWrite
  BY <1>1 DEF ToWrite, WriterAt
<1>4. Erasing' => older[writer'.rn] \cap Left = {}
  BY <1>1 DEF Erasing, LiveInv, ReplacedInv
<1>5. UnmarkedInv'
  BY <1>2 DEF LiveInv, UnmarkedInv, OnFile
<1>6. NewestInv'
  BY <1>2, <1>3 DEF WriterUnchanged, LiveInv, NewestInv, Newest, Left, OnFile, Waiting, PodNum, PodMagic
<1> QED
  BY <1>1, <1>2, <1>3, <1>4, <1>5, <1>6, WriteLive

LEMMA WriteGapLive ==
  ASSUME TypeInv, SafeInv, LiveInv, recovering = {}, WriteGap
  PROVE  LiveInv'
<1> DEFINE g == writer.gap
           d == [rn |-> g, prev |-> g, magic |-> "deleted"]
<1>1. /\ writer # Idle /\ writer.step = "gap" /\ g \in RN /\ Erased(fs, fs', g, d) /\ filled' = filled \cup {g}
      /\ writer' = [pod |-> writer.pod, rn |-> writer.rn, prev |-> writer.prev, op |-> writer.op,
                    step |-> IF g + 1 < writer.rn THEN "gap" ELSE "record", gap |-> g + 1]
  BY WriteGapIs
<1>2. UNCHANGED <<mem, queue>> /\ WriterUnchanged
  BY DEF WriteGap
<1>3. /\ writer'.pod = writer.pod /\ writer'.rn = writer.rn /\ writer'.prev = writer.prev /\ writer'.op = writer.op
      /\ writer'.step \in {"gap", "record"} /\ writer' # Idle
  <2>1. writer.pod # 0
    BY <1>1, WriterFacts
  <2>2. writer'.pod # Idle.pod
    BY <1>1, <2>1 DEF Idle
  <2> QED
    BY <1>1, <2>2
<1>4. g \in Nat /\ g \notin Newest' /\ d.magic = "deleted"
  BY <1>1, RNIs DEF Newest, Left
<1>5. ToWrite' = ToWrite
  BY <1>1, <1>2, <1>3 DEF ToWrite, WriterAt
<1>6. Erasing' => older[writer'.rn] \cap Left = {}
  BY <1>1, <1>3 DEF Erasing, LiveInv, ReplacedInv
<1> HIDE DEF g, d
<1>7. UnmarkedInv' /\ NewestInv'
  BY <1>1, <1>2, <1>4, <1>5, PlacedLive
<1> QED
  BY <1>1, <1>2, <1>5, <1>6, <1>7, WriteLive

LEMMA WriteRecordLive ==
  ASSUME TypeInv, SafeInv, LiveInv, recovering = {}, WriteRecord
  PROVE  LiveInv'
<1> DEFINE p == writer.pod
           rn == writer.rn
           d == mem.pods[p].data
<1>1. /\ writer # Idle /\ writer.step = "record"
      /\ writer.op = "del" => Erased(fs, fs', rn, d)
      /\ writer.op # "del" => Overwritten(fs, fs', rn, d)
      /\ writer' = [pod |-> p, rn |-> rn, prev |-> writer.prev, op |-> writer.op,
                    step |-> IF writer.op = "add" \/ writer.prev = rn THEN "done" ELSE "chain",
                    gap |-> writer.gap]
  BY WriteRecordIs
<1>2. UNCHANGED <<mem, queue, filled>> /\ WriterUnchanged
  BY DEF WriteRecord
<1>3. /\ writer'.rn = rn
      /\ writer'.step = (IF writer.op = "add" \/ writer.prev = rn THEN "done" ELSE "chain")
  BY <1>1
<1>4. /\ p \in InLine /\ p \in ToWrite /\ rn \in Nat /\ rn = PodNum(p) /\ PodMagic(p) = d.magic
      /\ writer.op = "del" => d.magic = "deleted"
  BY <1>1, WriterFacts, RNIs, SafeFacts DEF InLine, ToWrite, WriterAt, WriterInv, PodMagic
<1>5. d.magic \in {"committed", "deleted"}
  BY <1>4, SafeFacts DEF LineInv
<1>6. d.magic = "committed" => rn \in filled \/ (At(fs, rn).magic = "zero" /\ ~Marked(fs, rn))
  <2>1. d.magic = "committed" => p \in Pending
    BY <1>4 DEF Pending
  <2> QED
    BY <1>4, <2>1, SafeFacts DEF PendingInv
<1>7. d.magic = "deleted" => rn \notin Newest'
  <2>1. d.magic = "deleted" => rn \notin Left
    BY <1>4 DEF LiveInv, DoomedInv
  <2> QED
    BY <1>2, <2>1 DEF WriterUnchanged, Newest, Left
<1>8. ToWrite' = ToSet(queue) /\ ToWrite = ToSet(queue) \cup {p}
  BY <1>1, <1>2, <1>3 DEF ToWrite, WriterAt
<1>9. Erasing' => older[writer'.rn] \cap Left = {}
  <2>1. Erasing' => Erasing
    BY <1>1, <1>3 DEF Erasing
  <2> QED
    BY <1>3, <2>1 DEF LiveInv, ReplacedInv
<1>10. \A q \in ToWrite : PodNum(q) # rn => q \in ToWrite'
  BY <1>4, <1>8
<1>11. Overwritten(fs, fs', rn, d) \/ (d.magic = "deleted" /\ Erased(fs, fs', rn, d))
  BY <1>1, <1>4
<1> HIDE DEF d, p, rn
<1>12. UnmarkedInv' /\ NewestInv'
  BY <1>2, <1>4, <1>5, <1>6, <1>7, <1>10, <1>11, PlacedLive
<1> QED
  BY <1>2, <1>8, <1>9, <1>12, WriteLive

LEMMA WriteChainLive ==
  ASSUME TypeInv, SafeInv, LiveInv, recovering = {}, WriteChain
  PROVE  LiveInv'
<1> DEFINE r == writer.prev
<1>1. /\ writer # Idle /\ writer.step = "chain"
      /\ \/ \E d \in Trailer : d.magic = "deleted" /\ Erased(fs, fs', r, d)
         \/ Opened(fs, fs')
      /\ writer'.rn = writer.rn /\ writer'.step \in {"chain", "done"}
  BY WriteChainIs
<1>2. UNCHANGED <<mem, queue, filled>> /\ WriterUnchanged
  BY DEF WriteChain
<1>3. ToWrite' = ToSet(queue) /\ ToWrite = ToSet(queue)
  BY <1>1, <1>2 DEF ToWrite, WriterAt
<1>4. Erasing /\ older[writer.rn] \cap Left = {}
  BY <1>1 DEF Erasing, LiveInv, ReplacedInv
<1>5. r \in Nat /\ r \in older[writer.rn]
  BY <1>1, WriterFacts, RNIs, SafeFacts DEF WriterInv
<1>6. Newest' = Newest /\ r \notin Newest
  BY <1>2, <1>4, <1>5 DEF WriterUnchanged, Newest, Left
<1>7. UnmarkedInv' /\ NewestInv'
  <2>1. CASE \E d \in Trailer : d.magic = "deleted" /\ Erased(fs, fs', r, d)
    <3>1. PICK d \in Trailer : d.magic = "deleted" /\ Erased(fs, fs', r, d)
      BY <2>1
    <3> HIDE DEF r
    <3> QED
      BY <1>2, <1>3, <1>5, <1>6, <3>1, PlacedLive
  <2>2. CASE Opened(fs, fs')
    <3>1. UnmarkedInv' /\ \A n \in Nat : OnFile(n)' <=> OnFile(n)
      BY <1>2, <2>2, OpenedMarks DEF LiveInv
    <3>2. \A n : Waiting(n) => Waiting(n)'
      BY <1>2, <1>3 DEF Waiting, PodNum, PodMagic
    <3>3. Newest \subseteq Nat
      BY LiveFacts
    <3> QED
      BY <1>6, <3>1, <3>2, <3>3 DEF LiveInv, NewestInv
  <2> QED
    BY <1>1, <2>1, <2>2
<1> QED
  BY <1>1, <1>2, <1>3, <1>4, <1>7, WriteLive

LEMMA WriteDoneLive ==
  ASSUME TypeInv, SafeInv, LiveInv, recovering = {}, WriteDone
  PROVE  LiveInv'
<1>1. /\ mem'.cache = mem.cache /\ mem'.lru = mem.lru
      /\ held' \subseteq DOMAIN mem'.pods /\ queue' \in Seq(DOMAIN mem'.pods) /\ MemOK(mem')
      /\ \A q \in DOMAIN mem'.pods :
           /\ q \in DOMAIN mem.pods
           /\ mem'.pods[q].data = mem.pods[q].data /\ mem'.pods[q].op = mem.pods[q].op
  BY WriteDoneIs
<1>2. /\ writer # Idle /\ writer.step = "done" /\ writer' = Idle
      /\ UNCHANGED <<held, queue, fs, nextRN, recovering, older, live, filled>>
  BY DEF WriteDone
<1>3. /\ ToSet(mem.cache) \subseteq DOMAIN mem'.pods /\ ToSet(mem.lru) \subseteq DOMAIN mem'.pods
      /\ ToSet(queue) \subseteq DOMAIN mem'.pods /\ held \subseteq DOMAIN mem'.pods
  BY <1>1, <1>2, ToSetOf DEF MemOK
<1>4. \A q \in DOMAIN mem'.pods : /\ PodNum(q)' = PodNum(q) /\ PodPrev(q)' = PodPrev(q)
                                   /\ PodMagic(q)' = PodMagic(q) /\ mem'.pods[q].op = mem.pods[q].op
  BY <1>1 DEF PodNum, PodPrev, PodMagic
<1>5. ToWrite' = ToWrite /\ ToWrite = ToSet(queue)
  BY <1>2 DEF ToWrite, WriterAt
<1>6. Pending' = Pending /\ Pending \subseteq DOMAIN mem'.pods
  BY <1>2, <1>3, <1>4, <1>5 DEF Pending
<1>7. Left' = Left /\ Newest' = Newest
  BY <1>2 DEF Left, Newest
<1>8. LiveBelow' /\ UnmarkedInv' /\ FoundInv' /\ \A n : OnFile(n)' <=> OnFile(n)
  BY <1>2 DEF LiveInv, LiveBelow, UnmarkedInv, FoundInv, OnFile
<1>9. DoomedInv' /\ FreshInv' /\ CacheInv' /\ UsedInv'
  BY <1>1, <1>2, <1>3, <1>4, <1>5, <1>6, <1>7 DEF LiveInv, DoomedInv, FreshInv, CacheInv, UsedInv
<1>10. ReplacedInv'
  BY <1>2, <1>3, <1>4, <1>7 DEF LiveInv, ReplacedInv, Erasing
<1>11. NewestInv'
  <2>1. \A n : Waiting(n) => Waiting(n)'
    BY <1>1, <1>3, <1>4, <1>5 DEF Waiting
  <2> QED
    BY <1>7, <1>8, <2>1 DEF LiveInv, NewestInv
<1> QED
  BY <1>8, <1>9, <1>10, <1>11 DEF LiveInv

\* When nothing is held, queued or being written, what can be read is what is on file.
LEMMA NothingWaits ==
  ASSUME held' = {}, queue' = << >>, writer' = Idle, LiveBelow', UnmarkedInv', CacheInv', FoundInv',
         \A n \in live' : OnFile(n)'
  PROVE  LiveInv'
<1>1. ToWrite' = {} /\ Pending' = {} /\ ToSet(queue') = {}
  BY DEF ToWrite, WriterAt, Pending, ToSet
<1> QED
  BY <1>1 DEF LiveInv, DoomedInv, ReplacedInv, Erasing, FreshInv, UsedInv, NewestInv, Newest, Left

LEMMA RecoverLive ==
  ASSUME TypeInv, SafeInv, LiveInv, Recover
  PROVE  LiveInv'
<1>1. PICK rn \in recovering, c \in Pods :
        /\ recovering' = recovering \ {rn}
        /\ \A q \in DOMAIN mem'.pods :
             \/ q \in DOMAIN mem.pods /\ mem'.pods[q] = mem.pods[q]
             \/ q = c /\ mem'.pods[q] = Loaded(rn)
        /\ c \notin DOMAIN mem.pods /\ ToSet(mem'.cache) \subseteq ToSet(mem.cache) \cup {c}
  BY RecoverIs
<1>2. UNCHANGED <<held, queue, writer, fs, nextRN, older, live, filled>> /\ MemOK(mem')
  BY RecoverIs DEF Recover, numbers, history
<1>3. held = {} /\ queue = << >> /\ writer = Idle /\ At(fs, rn).magic # "zero"
  BY SafeFacts DEF RecoverInv
<1>4. rn \in Nat
  BY RNIs DEF TypeInv, RecoveryTyped
<1>5. At(fs, rn).rn = rn
  BY <1>3, <1>4, SafeFacts DEF DiskInv
<1>6. \A n \in live : OnFile(n)
  BY <1>1 DEF LiveInv, FoundInv
<1>7. CacheInv'
  <2>1. ASSUME NEW q \in ToSet(mem'.cache), PodNum(q)' \in Left'
        PROVE  PodMagic(q)' = "committed"
    <3>1. q \in DOMAIN mem'.pods
      BY <1>2, ToSetOf DEF MemOK
    <3>2. CASE q \in DOMAIN mem.pods /\ mem'.pods[q] = mem.pods[q]
      <4>1. q \in ToSet(mem.cache) /\ PodNum(q)' = PodNum(q) /\ PodMagic(q)' = PodMagic(q)
        BY <1>1, <3>2 DEF PodNum, PodMagic
      <4> QED
        BY <1>2, <2>1, <4>1 DEF LiveInv, CacheInv, Left
    <3>3. CASE mem'.pods[q] = Loaded(rn)
      <4>1. PodNum(q)' = rn /\ PodMagic(q)' = At(fs, rn).magic
        BY <1>5, <3>3 DEF PodNum, PodMagic, Loaded
      <4> QED
        BY <1>2, <1>6, <2>1, <4>1 DEF Left, OnFile
    <3> QED
      BY <1>1, <3>1, <3>2, <3>3
  <2> QED
    BY <2>1 DEF CacheInv
<1>8. LiveBelow' /\ UnmarkedInv' /\ FoundInv' /\ \A n \in live' : OnFile(n)'
  BY <1>2, <1>6 DEF LiveInv, LiveBelow, UnmarkedInv, FoundInv, OnFile
<1>9. held' = {} /\ queue' = << >> /\ writer' = Idle
  BY <1>2, <1>3
<1> QED
  BY <1>7, <1>8, <1>9, NothingWaits

LEMMA CrashLive ==
  ASSUME TypeInv, SafeInv, Crash
  PROVE  LiveInv'
<1> DEFINE found == Recovered(fs.disk)
<1>1. /\ live' = {rn \in found : Stored(fs, rn).magic = "committed"} /\ mem'.cache = << >>
      /\ fs'.disk = fs.disk /\ fs'.open = << >>
      /\ \A rn \in found : FileOf(rn) \in DOMAIN fs.disk
      /\ \A rn \in found : rn < nextRN'
      /\ held' = {} /\ queue' = << >> /\ writer' = Idle
  BY CrashIs
<1> HIDE DEF found
<1>2. LiveBelow'
  BY <1>1 DEF LiveBelow
<1>3. UnmarkedInv'
  BY <1>1 DEF UnmarkedInv, Marked
<1>4. CacheInv'
  BY <1>1 DEF CacheInv, ToSet
<1>5. \A n \in live' : OnFile(n)'
  BY <1>1 DEF OnFile, At, Stored
<1>6. FoundInv'
  BY <1>5 DEF FoundInv
<1> QED
  BY <1>1, <1>2, <1>3, <1>4, <1>5, <1>6, NothingWaits

LEMMA LiveInvStep ==
  ASSUME DelQueued = FALSE, TypeInv, SafeInv, LiveInv, [Next]_vars
  PROVE  LiveInv'
<1>1. CASE UNCHANGED vars
  BY <1>1 DEF vars, numbers, history, LiveInv, LiveBelow, DoomedInv, ReplacedInv, Erasing, UnmarkedInv, FreshInv,
       CacheInv, FoundInv, UsedInv, NewestInv, Newest, Left, OnFile, Waiting, ToWrite, WriterAt, Pending,
       PodNum, PodPrev, PodMagic
<1>2. CASE recovering = {} /\ (Push \/ Update)
  BY <1>2, NewRecordLive
<1>3. CASE recovering = {} /\ Get
  BY <1>3, GetLive
<1>4. CASE recovering = {} /\ Del
  BY <1>4, DelLive
<1>5. CASE recovering = {} /\ (Purge \/ PurgeStep)
  BY <1>5, PurgeLive, PurgeStepLive
<1>6. CASE recovering = {} /\ \E p \in held : Abort(p) \/ \E replace \in BOOLEAN : Put(p, replace)
  BY <1>6, AbortLive, PutLive
<1>7. CASE recovering = {} /\ (WriteBegin \/ WriteGap \/ WriteRecord \/ WriteChain \/ WriteDone)
  BY <1>7, WriteBeginLive, WriteGapLive, WriteRecordLive, WriteChainLive, WriteDoneLive
<1>8. CASE Recover \/ Crash
  BY <1>8, RecoverLive, CrashLive
<1> QED
  BY <1>1, <1>2, <1>3, <1>4, <1>5, <1>6, <1>7, <1>8 DEF Next

\* What the cache has of a record that is left is committed, and what it does not have is on file:
\* a record that waits is in the cache.
LEMMA LiveIsReadable ==
  ASSUME TypeInv, SafeInv, LiveInv, NEW n \in Newest
  PROVE  IF Places(mem, n) # {} THEN mem.pods[Cached(mem, n)].data.magic = "committed" ELSE OnDisk(n)
<1>1. MemOK(mem) /\ n \in Left
  BY TypeFacts, LiveFacts
<1>2. CASE Places(mem, n) # {}
  <2>1. Cached(mem, n) \in ToSet(mem.cache) /\ PodNum(Cached(mem, n)) = n
    BY <1>1, <1>2, PlacesIs DEF PodNum
  <2> QED
    BY <1>1, <1>2, <2>1 DEF LiveInv, CacheInv, PodMagic
<1>3. CASE Places(mem, n) = {}
  <2>1. ~Waiting(n)
    <3>1. ASSUME NEW p \in ToSet(mem.cache), PodNum(p) = n
          PROVE  FALSE
      <4>1. PICK i \in DOMAIN mem.cache : mem.cache[i] = p
        BY DEF ToSet
      <4> QED
        BY <1>3, <3>1, <4>1 DEF Places, PodNum
    <3> QED
      BY <3>1 DEF Waiting
  <2>2. OnFile(n)
    BY <2>1 DEF LiveInv, NewestInv
  <2> QED
    BY <1>3, <2>2 DEF OnFile, OnDisk, At, Zero
<1> QED
  BY <1>2, <1>3

\* The newest version of a record can be read from the moment it is committed, while its write is
\* queued, while it is being written and after it was, whatever else is put, updated, deleted,
\* purged, read into the cache or evicted from it meanwhile, and again after any crash: under the
\* assumptions of Durability, and unless its place in a file was filled as a gap before it was
\* written.
THEOREM Readability ==
  ASSUME DelQueued = FALSE
  PROVE  Spec => []Readable
<1> DEFINE IInv == TypeInv /\ (~gapped => SafeInv /\ LiveInv)
<1>1. Init => IInv
  BY InitTyped, InitSafe, InitLive
<1>2. IInv /\ [Next]_vars => IInv'
  BY TypeInvStep, SafeInvStep, LiveInvStep, GappedStays
<1>3. IInv => Readable
  BY LiveIsReadable DEF Readable, Newest, Left
<1> QED
  BY <1>1, <1>2, <1>3, PTL DEF Spec
=============================================================================
