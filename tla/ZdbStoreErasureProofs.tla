----------------------- MODULE ZdbStoreErasureProofs -----------------------
(***************************************************************************)
(* Proofs about ZdbStore: that what an update or a deletion replaced is    *)
(* erased when it is written (VersionsErased), for any number of records,  *)
(* files, writes and crashes.                                              *)
(***************************************************************************)
EXTENDS ZdbStoreProofs

-----------------------------------------------------------------------------
(* A record is in the cache once                                           *)

LEMMA RemoveAtOnce ==
  ASSUME NEW S, NEW s \in Seq(S), IsInjective(s), NEW i \in 1..Len(s)
  PROVE  IsInjective(RemoveAt(s, i)) /\ s[i] \notin ToSet(RemoveAt(s, i))
<1> DEFINE r == RemoveAt(s, i)
<1>1. /\ r \in Seq(S) /\ Len(r) = Len(s) - 1
      /\ \A j \in 1..Len(s) - 1 : r[j] = IF j < i THEN s[j] ELSE s[j + 1]
  BY RemoveAtProperties
<1>2. Len(s) \in Nat /\ DOMAIN s = 1..Len(s) /\ DOMAIN r = 1..Len(s) - 1
  BY <1>1
<1>3. \A j, k \in 1..Len(s) : s[j] = s[k] => j = k
  BY <1>2 DEF IsInjective
<1> HIDE DEF r
<1>4. ASSUME NEW j \in DOMAIN r, NEW k \in DOMAIN r, r[j] = r[k]
      PROVE  j = k
  <2> DEFINE up(n) == IF n < i THEN n ELSE n + 1
  <2>1. up(j) \in 1..Len(s) /\ up(k) \in 1..Len(s) /\ r[j] = s[up(j)] /\ r[k] = s[up(k)]
    BY <1>1, <1>2
  <2>2. up(j) = up(k)
    <3> HIDE DEF up
    <3> QED
      BY <1>3, <1>4, <2>1
  <2> QED
    BY <1>2, <2>2
<1>5. ASSUME NEW j \in DOMAIN r, r[j] = s[i]
      PROVE  FALSE
  <2> DEFINE up(n) == IF n < i THEN n ELSE n + 1
  <2>1. up(j) \in 1..Len(s) /\ r[j] = s[up(j)] /\ up(j) # i
    BY <1>1, <1>2
  <2> HIDE DEF up
  <2> QED
    BY <1>3, <1>5, <2>1
<1>6. IsInjective(r)
  BY <1>4 DEF IsInjective
<1>7. s[i] \notin ToSet(r)
  BY <1>5 DEF ToSet
<1> QED
  BY <1>6, <1>7 DEF r

LEMMA PrependOnce ==
  ASSUME NEW S, NEW s \in Seq(S), IsInjective(s), NEW x \in S, x \notin ToSet(s)
  PROVE  IsInjective(<<x>> \o s)
<1> DEFINE r == <<x>> \o s
<1>1. /\ r \in Seq(S) /\ Len(r) = Len(s) + 1
      /\ \A i \in 1..Len(s) + 1 : r[i] = IF i = 1 THEN x ELSE s[i - 1]
  <2>1. <<x>> \in Seq(S) /\ Len(<<x>>) = 1 /\ <<x>>[1] = x
    OBVIOUS
  <2>2. /\ <<x>> \o s \in Seq(S) /\ Len(<<x>> \o s) = Len(<<x>>) + Len(s)
        /\ \A i \in 1..Len(<<x>>) + Len(s) : (<<x>> \o s)[i] = IF i <= Len(<<x>>) THEN <<x>>[i] ELSE s[i - Len(<<x>>)]
    BY <2>1, ConcatProperties
  <2> QED
    BY <2>1, <2>2
<1>2. Len(s) \in Nat /\ DOMAIN s = 1..Len(s) /\ DOMAIN r = 1..Len(s) + 1
  BY <1>1
<1>3. \A j, k \in 1..Len(s) : s[j] = s[k] => j = k
  BY <1>2 DEF IsInjective
<1>4. \A j \in 1..Len(s) : s[j] # x
  BY <1>2 DEF ToSet
<1> HIDE DEF r
<1>5. ASSUME NEW j \in DOMAIN r, NEW k \in DOMAIN r, r[j] = r[k]
      PROVE  j = k
  <2>1. CASE j = 1 /\ k = 1
    BY <2>1
  <2>2. CASE j = 1 /\ k # 1
    <3>1. k - 1 \in 1..Len(s) /\ r[k] = s[k - 1] /\ r[j] = x
      BY <1>1, <1>2, <2>2
    <3> QED
      BY <1>4, <1>5, <3>1
  <2>3. CASE j # 1 /\ k = 1
    <3>1. j - 1 \in 1..Len(s) /\ r[j] = s[j - 1] /\ r[k] = x
      BY <1>1, <1>2, <2>3
    <3> QED
      BY <1>4, <1>5, <3>1
  <2>4. CASE j # 1 /\ k # 1
    <3>1. j - 1 \in 1..Len(s) /\ r[j] = s[j - 1] /\ k - 1 \in 1..Len(s) /\ r[k] = s[k - 1]
      BY <1>1, <1>2, <2>4
    <3>2. j - 1 = k - 1
      BY <1>3, <1>5, <3>1
    <3> QED
      BY <1>2, <3>2
  <2> QED
    BY <2>1, <2>2, <2>3, <2>4
<1> QED
  BY <1>5 DEF IsInjective, r

\* What leaves the cache leaves it once, and for all: rn is found there no more if it was once.
LEMMA UncacheOnce ==
  ASSUME NEW m, MemOK(m), IsInjective(m.cache), NEW rn
  PROVE  /\ IsInjective(Uncache(m, rn).cache)
         /\ \A p \in ToSet(m.cache) :
              /\ m.pods[p].data.rn = rn
              /\ \A q \in ToSet(m.cache) : m.pods[q].data.rn = rn => q = p
              => p \notin ToSet(Uncache(m, rn).cache)
<1>1. CASE Places(m, rn) = {}
  <2>1. \A p \in ToSet(m.cache) : m.pods[p].data.rn # rn
    BY <1>1 DEF Places, ToSet
  <2> QED
    BY <1>1, <2>1 DEF Uncache
<1>2. CASE Places(m, rn) # {}
  <2> DEFINE i == Min(Places(m, rn))
             c == RemoveAt(m.cache, i)
  <2>1. /\ m = [pods |-> m.pods, cache |-> m.cache, lru |-> m.lru, size |-> m.size, hash |-> m.hash]
        /\ m.cache \in Seq(DOMAIN m.pods)
    BY DEF MemOK
  <2>2. i \in 1..Len(m.cache) /\ m.pods[m.cache[i]].data.rn = rn /\ DOMAIN m.cache = 1..Len(m.cache)
    BY <1>2, <2>1, PlacesIs DEF Cached
  <2>3. Uncache(m, rn).cache = c
    <3>1. Uncache(m, rn) = [m EXCEPT !.cache = c]
      BY <1>2 DEF Uncache
    <3> HIDE DEF c
    <3> QED
      BY <2>1, <3>1
  <2> HIDE DEF i
  <2>4. IsInjective(c) /\ m.cache[i] \notin ToSet(c)
    BY <2>1, <2>2, RemoveAtOnce
  <2>5. m.cache[i] \in ToSet(m.cache)
    BY <2>2 DEF ToSet
  <2> HIDE DEF c
  <2> QED
    BY <2>2, <2>3, <2>4, <2>5
<1> QED
  BY <1>1, <1>2

LEMMA CacheDelOnce ==
  ASSUME NEW m, MemOK(m), IsInjective(m.cache), NEW rn
  PROVE  /\ IsInjective(CacheDel(m, rn).cache)
         /\ \A p \in ToSet(m.cache) :
              /\ m.pods[p].data.rn = rn
              /\ \A q \in ToSet(m.cache) : m.pods[q].data.rn = rn => q = p
              => p \notin ToSet(CacheDel(m, rn).cache)
<1>1. CASE Places(m, rn) = {}
  <2>1. \A p \in ToSet(m.cache) : m.pods[p].data.rn # rn
    BY <1>1 DEF Places, ToSet
  <2> QED
    BY <1>1, <2>1 DEF CacheDel
<1>2. CASE Places(m, rn) # {}
  <2> DEFINE u == Uncache(m, rn)
             l == RemoveFirst(u.lru, Cached(m, rn))
  <2>1. CacheDel(m, rn) = [u EXCEPT !.lru = l]
    BY <1>2 DEF CacheDel
  <2>2. MemOK(u)
    BY UncacheIs DEF Cacheable
  <2> HIDE DEF u, l
  <2>3. CacheDel(m, rn).cache = u.cache
    BY <2>1, <2>2 DEF MemOK
  <2> QED
    BY <2>3, UncacheOnce DEF u
<1> QED
  BY <1>1, <1>2

LEMMA CacheAddOnce ==
  ASSUME NEW m, MemOK(m), IsInjective(m.cache), NEW p \in DOMAIN m.pods, p \notin ToSet(m.cache)
  PROVE  IsInjective(CacheAdd(m, p).cache)
<1> DEFINE c == <<p>> \o m.cache
           l == Append(m.lru, p)
           h == IF Len(m.cache) >= m.hash THEN 2 * m.hash ELSE m.hash
<1>1. /\ m = [pods |-> m.pods, cache |-> m.cache, lru |-> m.lru, size |-> m.size, hash |-> m.hash]
      /\ m.cache \in Seq(DOMAIN m.pods)
  BY DEF MemOK
<1>2. IsInjective(c)
  BY <1>1, PrependOnce
<1>3. CacheAdd(m, p) = [m EXCEPT !.cache = c, !.lru = l, !.hash = h]
  BY DEF CacheAdd
<1> HIDE DEF c, l, h
<1>4. CacheAdd(m, p).cache = c
  BY <1>1, <1>3
<1> QED
  BY <1>2, <1>4

LEMMA CachedOnce ==
  ASSUME NEW m, MemOK(m), IsInjective(m.cache), NEW p \in DOMAIN m.pods, p \notin ToSet(m.cache)
  PROVE  IsInjective(Cache(m, p).cache)
<1>1. CASE Len(m.cache) < m.size \/ m.lru = <<>>
  BY <1>1, CacheAddOnce DEF Cache
<1>2. CASE ~(Len(m.cache) < m.size \/ m.lru = <<>>)
  <2> DEFINE old == Head(m.lru)
             rest == [m EXCEPT !.lru = Tail(@)]
             again == [rest EXCEPT !.lru = Append(@, old)]
             grown == CacheAdd(again, p)
             u == Uncache(rest, m.pods[old].data.rn)
  <2>1. m.lru \in Seq(DOMAIN m.pods) /\ m.lru # <<>>
    BY <1>2 DEF MemOK
  <2>2. Tail(m.lru) \in Seq(DOMAIN m.pods) /\ old \in DOMAIN m.pods
    BY <2>1, TailIs
  <2>3. Cacheable(m, rest, {}) /\ rest.lru = Tail(m.lru) /\ rest.cache = m.cache
    <3>1. rest = [m EXCEPT !.lru = Tail(m.lru)]
      OBVIOUS
    <3> QED
      BY <2>2, <3>1, LruIs
  <2>4. Cache(m, p) = IF m.pods[old].pinned THEN [grown EXCEPT !.size = grown.hash] ELSE CacheAdd(u, p)
    BY <1>2 DEF Cache
  <2> HIDE DEF old, rest
  <2>5. MemOK(rest) /\ rest.pods = m.pods
    BY <2>3 DEF Cacheable
  <2>6. MemOK(u) /\ u.pods = m.pods /\ ToSet(u.cache) \subseteq ToSet(m.cache) /\ IsInjective(u.cache)
    <3>1. Cacheable(rest, u, {}) /\ IsInjective(u.cache)
      BY <2>3, <2>5, UncacheIs, UncacheOnce
    <3> HIDE DEF u
    <3> QED
      BY <2>3, <2>5, <3>1 DEF Cacheable
  <2> HIDE DEF u
  <2>7. IsInjective(CacheAdd(u, p).cache)
    BY <2>6, CacheAddOnce
  <2>8. MemOK(again) /\ again.pods = m.pods /\ again.cache = m.cache
    <3>1. Append(rest.lru, old) \in Seq(DOMAIN rest.pods)
      <4> DEFINE S == DOMAIN rest.pods
                 s == rest.lru
      <4>1. s \in Seq(S) /\ old \in S
        BY <2>2, <2>3, <2>5
      <4> HIDE DEF S, s
      <4>2. Append(s, old) \in Seq(S)
        BY <4>1, AppendIs
      <4> QED
        BY <4>2 DEF S, s
    <3>2. Cacheable(rest, again, {}) /\ again.cache = rest.cache
      <4>1. again = [rest EXCEPT !.lru = Append(rest.lru, old)]
        OBVIOUS
      <4> QED
        BY <2>5, <3>1, <4>1, LruIs
    <3> HIDE DEF again
    <3> QED
      BY <2>3, <2>5, <3>2 DEF Cacheable
  <2> HIDE DEF again
  <2>9. MemOK(grown) /\ IsInjective(grown.cache)
    BY <2>8, CacheAddIs, CacheAddOnce DEF Cacheable
  <2> HIDE DEF grown
  <2>10. [grown EXCEPT !.size = grown.hash].cache = grown.cache
    BY <2>9 DEF MemOK
  <2> QED
    BY <2>4, <2>7, <2>9, <2>10
<1> QED
  BY <1>1, <1>2

LEMMA PutOnce ==
  ASSUME TypeInv, IsInjective(mem.cache), NEW p \in held, p \notin ToSet(mem.cache), NEW replace \in BOOLEAN,
         Put(p, replace)
  PROVE  /\ IsInjective(mem'.cache)
         /\ \A q \in ToSet(mem.cache) :
              /\ PodPrev(p) # PodNum(p) /\ PodNum(q) = PodPrev(p)
              /\ \A r \in ToSet(mem.cache) : PodNum(r) = PodPrev(p) => r = q
              => q \notin ToSet(mem'.cache)
<1> DEFINE d == mem.pods[p].data
           m == IF d.prev = d.rn THEN mem ELSE CacheDel(mem, d.prev)
           k == PinCommitted(m, p)
           c == Cache(k, p)
           op == IF replace THEN "upd" ELSE "add"
<1>0. /\ MemOK(mem) /\ p \in DOMAIN mem.pods /\ held \subseteq DOMAIN mem.pods
      /\ queue \in Seq(DOMAIN mem.pods)
  BY TypeFacts
<1>1. Committed(p) = c
  BY DEF Committed, PinCommitted
<1>2. Queue(c, p, "committed", op) /\ held' = held \ {p}
  BY <1>1 DEF Put
<1>3. /\ MemOK(m) /\ m.pods = mem.pods /\ ToSet(m.cache) \subseteq ToSet(mem.cache) /\ IsInjective(m.cache)
      /\ \A q \in ToSet(mem.cache) :
           /\ d.prev # d.rn /\ mem.pods[q].data.rn = d.prev
           /\ \A r \in ToSet(mem.cache) : mem.pods[r].data.rn = d.prev => r = q
           => q \notin ToSet(m.cache)
  <2>1. CASE d.prev = d.rn
    BY <1>0, <2>1
  <2>2. CASE d.prev # d.rn
    <3> DEFINE x == d.prev
    <3>1. m = CacheDel(mem, x)
      BY <2>2
    <3> HIDE DEF m, x
    <3>2. Cacheable(mem, m, {}) /\ IsInjective(m.cache)
      BY <1>0, <3>1, CacheDelIs, CacheDelOnce
    <3>3. \A q \in ToSet(mem.cache) :
            /\ mem.pods[q].data.rn = x
            /\ \A r \in ToSet(mem.cache) : mem.pods[r].data.rn = x => r = q
            => q \notin ToSet(m.cache)
      BY <1>0, <3>1, CacheDelOnce
    <3> QED
      BY <3>2, <3>3 DEF Cacheable, x
  <2> QED
    BY <2>1, <2>2
<1> HIDE DEF m
<1>4. Changed(m, k, p)
  BY <1>0, <1>3, CommittedIs
<1> HIDE DEF k
<1>5. MemOK(k) /\ k.cache = m.cache /\ DOMAIN k.pods = DOMAIN mem.pods
  BY <1>3, <1>4 DEF Changed
<1>6. MemOK(c) /\ c.pods = k.pods /\ ToSet(c.cache) \subseteq ToSet(k.cache) \cup {p}
  BY <1>0, <1>5, CacheIs DEF Cacheable
<1>7. IsInjective(c.cache)
  BY <1>0, <1>3, <1>5, CachedOnce
<1> HIDE DEF c
<1>8. op \in Op /\ "committed" \in Magic
  BY DEF Op, Magic
<1> HIDE DEF op
<1>9. p \in DOMAIN c.pods /\ queue \in Seq(DOMAIN c.pods) /\ held' \subseteq DOMAIN c.pods
  BY <1>0, <1>2, <1>5, <1>6
<1>10. mem'.cache = c.cache
  BY <1>2, <1>6, <1>8, <1>9, QueueIs
<1> QED
  BY <1>0, <1>3, <1>5, <1>6, <1>7, <1>10 DEF PodNum, PodPrev

LEMMA GetOnce ==
  ASSUME TypeInv, IsInjective(mem.cache), Get
  PROVE  IsInjective(mem'.cache)
<1>0. /\ MemOK(mem) /\ FilesOK(fs) /\ nextRN \in Nat /\ nextRN <= MaxRN /\ MaxRN \in Nat
      /\ ToSet(mem.cache) \subseteq DOMAIN mem.pods
  BY TypeFacts, ToSetOf DEF MemOK
<1>1. PICK rn \in 0..(nextRN - 1) :
        LET l == Load(rn) IN
        /\ CanAlloc
        /\ UNCHANGED <<held, queue, writer>>
        /\ Settle(IF l.magic # "committed" THEN mem
                  ELSE IF l.cached THEN [l.mem EXCEPT !.lru = Append(RemoveFirst(@, l.pod), l.pod)]
                  ELSE Cache(l.mem, l.pod))
  BY DEF Get
<1>2. rn \in RN
  BY <1>0 DEF RN
<1> DEFINE l == Load(rn)
           lru == Append(RemoveFirst(l.mem.lru, l.pod), l.pod)
           m == IF l.magic # "committed" THEN mem
                ELSE IF l.cached THEN [l.mem EXCEPT !.lru = lru]
                ELSE Cache(l.mem, l.pod)
<1>3. /\ MemOK(l.mem) /\ l.mem.cache = mem.cache /\ l.pod \in Pods
      /\ l.cached <=> Hit(rn)
      /\ DOMAIN mem.pods \subseteq DOMAIN l.mem.pods
      /\ l.magic # "none" => l.pod \in DOMAIN l.mem.pods
      /\ Hit(rn) => l.pod \in ToSet(mem.cache) /\ l.pod \in DOMAIN mem.pods
      /\ ~Hit(rn) => l.pod \notin DOMAIN mem.pods
  BY <1>0, <1>1, <1>2, LoadIs
<1>4. Settle(m) /\ UNCHANGED <<held, queue, writer>>
  BY <1>1
<1> HIDE DEF l
<1>5. MemOK(m) /\ IsInjective(m.cache)
  <2>1. CASE l.magic # "committed"
    BY <1>0, <2>1
  <2>2. CASE l.magic = "committed" /\ l.cached
    <3> DEFINE s == RemoveFirst(l.mem.lru, l.pod)
    <3>1. l.mem.lru \in Seq(DOMAIN l.mem.pods) /\ l.pod \in DOMAIN l.mem.pods
      <4>1. l.pod \in DOMAIN l.mem.pods
        BY <1>3, <2>2
      <4>2. MemOK(l.mem)
        BY <1>3
      <4> QED
        BY <4>1, <4>2 DEF MemOK
    <3>2. s \in Seq(DOMAIN l.mem.pods)
      BY <3>1, RemoveFirstIs
    <3> HIDE DEF s
    <3>3. Append(s, l.pod) \in Seq(DOMAIN l.mem.pods)
      <4> DEFINE S == DOMAIN l.mem.pods
                 x == l.pod
      <4>1. s \in Seq(S) /\ x \in S
        BY <3>1, <3>2
      <4> HIDE DEF S, x
      <4>2. Append(s, x) \in Seq(S)
        BY <4>1, AppendIs
      <4> QED
        BY <4>2 DEF S, x
    <3>4. lru \in Seq(DOMAIN l.mem.pods)
      BY <3>3 DEF s
    <3>5. m = [l.mem EXCEPT !.lru = lru]
      BY <2>2
    <3> HIDE DEF lru, m
    <3>6. MemOK(l.mem) /\ l.mem.cache = mem.cache
      BY <1>3
    <3>7. Cacheable(l.mem, m, {}) /\ m.cache = l.mem.cache
      BY <3>4, <3>5, <3>6, LruIs
    <3> QED
      BY <3>6, <3>7 DEF Cacheable
  <2>3. CASE l.magic = "committed" /\ ~l.cached
    <3>1. m = Cache(l.mem, l.pod)
      BY <2>3
    <3>2. MemOK(l.mem) /\ l.mem.cache = mem.cache
      BY <1>3
    <3>3. l.pod \in DOMAIN l.mem.pods /\ l.pod \notin ToSet(l.mem.cache)
      BY <1>0, <1>3, <2>3
    <3> HIDE DEF m
    <3> QED
      BY <3>1, <3>2, <3>3, CacheIs, CachedOnce DEF Cacheable
  <2> QED
    BY <2>1, <2>2, <2>3
<1> HIDE DEF m
<1> QED
  BY <1>4, <1>5, SettleIs

LEMMA DelOnce ==
  ASSUME TypeInv, IsInjective(mem.cache), Del
  PROVE  IsInjective(mem'.cache)
<1>0. /\ MemOK(mem) /\ FilesOK(fs) /\ nextRN \in Nat /\ nextRN <= MaxRN /\ MaxRN \in Nat
      /\ held \subseteq DOMAIN mem.pods /\ queue \in Seq(DOMAIN mem.pods)
  BY TypeFacts
<1>1. PICK rn \in 0..(nextRN - 1) :
        LET l == Load(rn)
            m == CacheDel(l.mem, rn)
        IN /\ CanAlloc /\ l.magic = "committed" /\ nextRN < MaxRN /\ held' = held
           /\ Queue([m EXCEPT !.pods[l.pod].data.rn = nextRN, !.pods[l.pod].data.prev = rn], l.pod, "deleted", "del")
  BY DEF Del
<1>2. rn \in RN /\ nextRN \in RN
  BY <1>0, <1>1 DEF RN
<1> DEFINE l == Load(rn)
           c == l.pod
           m == CacheDel(l.mem, rn)
           k == Renumber(m, c, nextRN, rn)
<1>3. /\ MemOK(l.mem) /\ l.mem.cache = mem.cache
      /\ DOMAIN mem.pods \subseteq DOMAIN l.mem.pods
      /\ l.magic # "none" => l.pod \in DOMAIN l.mem.pods
  BY <1>0, <1>1, <1>2, LoadIs
<1>4. l.magic = "committed" /\ held' = held /\ Queue(k, c, "deleted", "del")
  BY <1>1 DEF Renumber
<1> HIDE DEF l
<1>5. MemOK(m) /\ m.pods = l.mem.pods /\ IsInjective(m.cache)
  BY <1>3, CacheDelIs, CacheDelOnce DEF Cacheable
<1> HIDE DEF m
<1>6. c \in DOMAIN m.pods
  BY <1>3, <1>4, <1>5
<1>7. Changed(m, k, c)
  BY <1>2, <1>5, <1>6, RenumberedIs
<1> HIDE DEF k
<1>8. MemOK(k) /\ k.cache = m.cache /\ DOMAIN k.pods = DOMAIN l.mem.pods
  BY <1>5, <1>7 DEF Changed
<1>9. /\ c \in DOMAIN k.pods /\ queue \in Seq(DOMAIN k.pods) /\ held' \subseteq DOMAIN k.pods
      /\ "deleted" \in Magic /\ "del" \in Op
  BY <1>0, <1>3, <1>4, <1>5, <1>6, <1>8 DEF Op, Magic
<1>10. mem'.cache = k.cache
  BY <1>4, <1>8, <1>9, QueueIs
<1> QED
  BY <1>5, <1>8, <1>10

LEMMA PurgeStepOnce ==
  ASSUME TypeInv, IsInjective(mem.cache), PurgeStep
  PROVE  IsInjective(mem'.cache)
<1>0. /\ MemOK(mem) /\ FilesOK(fs) /\ nextRN \in Nat /\ nextRN <= MaxRN /\ MaxRN \in Nat
      /\ held \subseteq DOMAIN mem.pods /\ queue \in Seq(DOMAIN mem.pods)
  BY TypeFacts
<1>1. purging \in [pod : {1}, rn : Nat, min : Nat] /\ CanAlloc
  BY DEF PurgeStep, TypeInv, PurgeTyped
<1>2. CASE UNCHANGED mem
  BY <1>2
<1>3. CASE ~UNCHANGED mem
  <2> DEFINE l == Load(purging.rn)
             c == l.pod
             m == CacheDel(l.mem, purging.rn)
  <2>1. /\ purging.rn < nextRN /\ purging.rn \in RN
        /\ held' = held /\ l.magic # "none" /\ Queue(m, c, "deleted", "del")
    BY <1>0, <1>1, <1>3 DEF PurgeStep, RN
  <2>2. /\ MemOK(l.mem) /\ l.mem.cache = mem.cache
        /\ DOMAIN mem.pods \subseteq DOMAIN l.mem.pods
        /\ l.magic # "none" => l.pod \in DOMAIN l.mem.pods
    BY <1>0, <1>1, <2>1, LoadIs
  <2> HIDE DEF l
  <2>3. MemOK(m) /\ m.pods = l.mem.pods /\ IsInjective(m.cache)
    BY <2>2, CacheDelIs, CacheDelOnce DEF Cacheable
  <2> HIDE DEF m
  <2>4. /\ c \in DOMAIN m.pods /\ queue \in Seq(DOMAIN m.pods) /\ held' \subseteq DOMAIN m.pods
        /\ "deleted" \in Magic /\ "del" \in Op
    BY <1>0, <2>1, <2>2, <2>3 DEF Op, Magic
  <2>5. mem'.cache = m.cache
    BY <2>1, <2>3, <2>4, QueueIs
  <2> QED
    BY <2>3, <2>5
<1> QED
  BY <1>2, <1>3

LEMMA RecoverOnce ==
  ASSUME TypeInv, IsInjective(mem.cache), Recover
  PROVE  IsInjective(mem'.cache)
<1>0. /\ MemOK(mem) /\ FilesOK(fs) /\ recovering \subseteq RN /\ RN \subseteq Nat
      /\ \A rn \in recovering : FileOf(rn) \in DOMAIN fs.disk
      /\ ToSet(mem.cache) \subseteq DOMAIN mem.pods
  BY TypeFacts, RNIs, ToSetOf DEF TypeInv, RecoveryTyped, MemOK
<1> DEFINE rn == Min(recovering)
           p == NewPod
           data == Stored(fs, rn)
           m == AddPod(mem, p, data)
           u == IF data.prev = rn THEN m ELSE Uncache(m, data.prev)
           c == Cache(u, p)
<1>1. recovering # {} /\ CanAlloc /\ UNCHANGED <<held, queue, writer>> /\ Settle(c)
  BY DEF Recover
<1>2. rn \in recovering
  BY <1>0, <1>1, MinIs
<1>3. p \in Pods \ DOMAIN mem.pods
  BY <1>0, <1>1, NewPodIs
<1> HIDE DEF rn, p
<1>4. data \in Trailer
  <2>1. rn \in Nat /\ data = At(fs, rn)
    BY <1>0, <1>2 DEF At
  <2> HIDE DEF data
  <2> QED
    BY <1>0, <2>1, AtIsTrailer
<1> HIDE DEF data
<1>5. MemOK(m) /\ m.cache = mem.cache /\ DOMAIN m.pods = DOMAIN mem.pods \cup {p}
  BY <1>0, <1>3, <1>4, AddPodIs
<1> HIDE DEF m
<1>6. /\ MemOK(u) /\ u.pods = m.pods /\ ToSet(u.cache) \subseteq ToSet(mem.cache) /\ IsInjective(u.cache)
  BY <1>5, UncacheIs, UncacheOnce DEF Cacheable
<1> HIDE DEF u
<1>7. MemOK(c) /\ IsInjective(c.cache)
  BY <1>0, <1>3, <1>5, <1>6, CacheIs, CachedOnce DEF Cacheable
<1> HIDE DEF c
<1> QED
  BY <1>1, <1>7, SettleIs

-----------------------------------------------------------------------------
(* The inductive invariant for what is erased                              *)
(*                                                                         *)
(* It holds where SafeInv does, until a crash interrupts an erasure        *)
(* (torn).  The versions of a record form a chain: each replaces the one   *)
(* at its prev, and all that one replaced.  Where no version was marked    *)
(* deleted before it was written (Clean), or was queued behind one that    *)
(* replaces it (Timely), one before b is on file or still to be written    *)
(* only if b is on file too, or will be written (Coming), or is being      *)
(* erased with all those before it: the write thread, which goes back      *)
(* along the chain until it finds none on file, leaves none.               *)

Linked(p) == PodPrev(p) # PodNum(p)
DiskLinked(x) == At(fs, x).magic # "zero" /\ At(fs, x).prev # x
Clean(b) == b \notin filled /\ older[b] \cap filled = {}
Prompt(b) == older[b] \cap late = {}
Timely(b) == b \notin late /\ Prompt(b)

\* What replaces the version at p replaces all that one did, too.
Follows(n, p) == older[n] = IF p = n THEN {} ELSE {p} \cup older[p]

LineageInv == \A x \in RN : \A b, c \in older[x] : b = c \/ b \in older[c] \/ c \in older[b]

\* A place that was filled has no version before it, whatever the record replaced.
PodsPrior ==
  \A p \in DOMAIN mem.pods :
    Linked(p) \/ PodMagic(p) # "deleted" \/ PodNum(p) \notin filled => Follows(PodNum(p), PodPrev(p))
DiskPrior ==
  \A n \in RN :
    DiskLinked(n) \/ At(fs, n).magic \notin {"zero", "deleted"} \/ (At(fs, n).magic = "deleted" /\ n \notin filled) =>
      Follows(n, At(fs, n).prev)
WriterPrior ==
  writer # Idle =>
    /\ writer.prev # writer.rn <=> Linked(writer.pod)
    /\ writer.step \in {"gap", "record"} =>
         writer.prev = PodPrev(writer.pod) /\ (writer.op # "del" => ~OnFile(writer.rn))

\* What is queued as deleted is written as a deletion.
DeletedInv == \A p \in ToSet(queue) : PodMagic(p) = "deleted" => mem.pods[p].op = "del"

ErasedBelow == \A x \in erased : x < nextRN
OnceInv == IsInjective(mem.cache)

\* The version x is written, or about to be; Passed(x) and a version of x still to be written exclude
\* each other: a version is written before those that replace it, if it was queued before them.
Passed(x) ==
  \/ x \in erased \ filled
  \/ DiskLinked(x)
  \/ writer # Idle /\ writer.rn = x /\ writer.prev # x
Unpassed(b) == \A x \in RN : Passed(x) => b \notin older[x]
OrderInv == \A p \in ToWrite : PodMagic(p) = "committed" /\ PodNum(p) \notin late => Unpassed(PodNum(p))
LineOrderInv ==
  \A i, j \in DOMAIN queue :
    j < i /\ PodMagic(queue[i]) = "committed" /\ PodNum(queue[i]) \notin late /\ Linked(queue[j]) =>
      PodNum(queue[i]) \notin older[PodNum(queue[j])]

\* A record still to be written that is in the cache has been replaced by none but the application's own.
FastInv ==
  \A p \in ToWrite : PodMagic(p) = "committed" /\ p \in ToSet(mem.cache) =>
    \A h \in DOMAIN mem.pods :
      Linked(h) /\ PodNum(p) \in older[PodNum(h)] => h \in held /\ PodPrev(h) = PodNum(p)

\* The erasure under way has not gone past it.
FastOrderInv == \A p \in ToWrite : PodMagic(p) = "committed" /\ p \in ToSet(mem.cache) => Unpassed(PodNum(p))

\* b will be written, before whatever replaces it: its write erases the versions before it, or the
\* write of what replaces it does.
BeingWritten(b) ==
  /\ WriterAt({"gap", "record"}) /\ writer.rn = b
  /\ PodMagic(writer.pod) = "committed" \/ writer.op # "add"
InTurn(b) ==
  \E i \in DOMAIN queue :
    /\ PodNum(queue[i]) = b
    /\ \A j \in DOMAIN queue : j < i /\ Linked(queue[j]) => b \notin older[PodNum(queue[j])]
Coming(b) == Unpassed(b) /\ (BeingWritten(b) \/ InTurn(b))
BeingErased(b) ==
  WriterAt({"chain"}) /\ b \in {writer.rn} \cup older[writer.rn] /\ b \notin {writer.prev} \cup older[writer.prev]

Pend(a) == \E p \in ToWrite : PodNum(p) = a /\ PodMagic(p) = "committed"
Seen(x) == DiskLinked(x) \/ \E p \in DOMAIN mem.pods : PodNum(p) = x /\ Linked(p)
Ref(b) ==
  \/ \E q \in ToSet(mem.cache) : PodNum(q) = b /\ PodMagic(q) = "committed"
  \/ \E x \in RN : Seen(x) /\ b \in older[x]
Whole(b) == OnFile(b) \/ Coming(b) \/ BeingErased(b)
ChainInv ==
  \A b \in RN : Ref(b) /\ Clean(b) /\ Timely(b) => \A a \in older[b] : OnFile(a) \/ Pend(a) => Whole(b)

\* What is on file of the versions that the write thread erases is still before it.
WalkInv ==
  /\ WriterAt({"chain"}) => \A a \in older[writer.rn] : OnFile(a) => a \in {writer.prev} \cup older[writer.prev]
  /\ WriterAt({"done"}) /\ writer.op # "add" /\ Clean(writer.rn) /\ Prompt(writer.rn) =>
       \A a \in older[writer.rn] : ~OnFile(a)
ErasedInv == \A x \in erased : Clean(x) /\ Prompt(x) => \A a \in older[x] : ~OnFile(a)

PlaceVersions == DiskPrior /\ WriterPrior /\ ErasedBelow /\ WalkInv /\ ErasedInv
LineVersions ==
  LineageInv /\ PodsPrior /\ DeletedInv /\ OnceInv /\ OrderInv /\ LineOrderInv /\ FastInv /\ FastOrderInv /\ ChainInv
VersionInv == PlaceVersions /\ LineVersions

LEMMA VersionFacts ==
  ASSUME TypeInv, SafeInv
  PROVE  /\ RN \subseteq Nat /\ nextRN \in Nat /\ fileRN \in Nat /\ fileRN <= nextRN
         /\ older \in [RN -> SUBSET RN] /\ erased \subseteq RN /\ filled \subseteq RN
         /\ \A n \in RN : /\ older[n] \subseteq RN /\ n \notin older[n] /\ (n >= nextRN => older[n] = {})
                          /\ \A a \in older[n] : a < n /\ older[a] \subseteq older[n]
         /\ writer # Idle =>
              /\ writer.rn \in RN /\ writer.rn < nextRN /\ writer.prev \in RN
              /\ writer.pod \in DOMAIN mem.pods /\ PodNum(writer.pod) = writer.rn /\ writer.step \in Steps
         /\ \A p \in DOMAIN mem.pods : PodNum(p) \in RN /\ PodNum(p) < nextRN /\ PodPrev(p) \in RN
         /\ ToWrite \subseteq DOMAIN mem.pods /\ ToSet(queue) \subseteq ToWrite
         /\ ToSet(mem.cache) \subseteq DOMAIN mem.pods /\ queue \in Seq(DOMAIN mem.pods)
         /\ \A i \in DOMAIN queue : queue[i] \in ToSet(queue)
         /\ \A n \in RN : At(fs, n) \in Trailer /\ (At(fs, n).magic # "zero" => n < nextRN)
<1>1. /\ RN \subseteq Nat /\ nextRN \in Nat /\ fileRN \in Nat /\ fileRN <= nextRN
      /\ older \in [RN -> SUBSET RN] /\ erased \subseteq RN /\ filled \subseteq RN
  BY TypeFacts, SafeFacts, RNIs DEF NextInv, TypeInv, HistoryTyped
<1>2. ASSUME NEW n \in RN
      PROVE  /\ older[n] \subseteq RN /\ n \notin older[n] /\ (n >= nextRN => older[n] = {})
             /\ \A a \in older[n] : a < n /\ older[a] \subseteq older[n]
  <2>1. \A a \in older[n] : a < n /\ older[a] \subseteq older[n]
    BY SafeFacts DEF OlderInv
  <2>2. n \notin older[n]
    BY <1>1, <2>1
  <2>3. n >= nextRN => older[n] = {}
    BY SafeFacts DEF OlderInv
  <2> QED
    BY <1>1, <2>1, <2>2, <2>3
<1>3. ASSUME writer # Idle
      PROVE  /\ writer.rn \in RN /\ writer.rn < nextRN /\ writer.prev \in RN
             /\ writer.pod \in DOMAIN mem.pods /\ PodNum(writer.pod) = writer.rn /\ writer.step \in Steps
  <2>1. /\ writer.rn \in RN /\ writer.rn < fileRN /\ writer.prev \in RN
        /\ writer.pod \in DOMAIN mem.pods /\ PodNum(writer.pod) = writer.rn /\ writer.step \in Steps
    BY <1>3, SafeFacts, WriterFacts DEF WriterInv
  <2>2. writer.rn \in Nat
    BY <1>1, <2>1
  <2>3. writer.rn < nextRN
    BY <1>1, <2>1, <2>2
  <2> QED
    BY <2>1, <2>3
<1>4. \A p \in DOMAIN mem.pods : PodNum(p) \in RN /\ PodNum(p) < nextRN /\ PodPrev(p) \in RN
  <2>1. \A p \in DOMAIN mem.pods : mem.pods[p] \in Pod
    BY TypeFacts
  <2>2. \A p \in DOMAIN mem.pods : PodPrev(p) \in RN
    BY <2>1 DEF Pod, Trailer, PodPrev
  <2> QED
    BY <2>2, SafeFacts
<1>5. /\ ToWrite \subseteq DOMAIN mem.pods /\ ToSet(queue) \subseteq ToWrite
      /\ ToSet(mem.cache) \subseteq DOMAIN mem.pods /\ queue \in Seq(DOMAIN mem.pods)
      /\ \A i \in DOMAIN queue : queue[i] \in ToSet(queue)
  <2>1. \A i \in DOMAIN queue : queue[i] \in ToSet(queue)
    BY DEF ToSet
  <2>2. queue \in Seq(DOMAIN mem.pods)
    BY TypeFacts
  <2> QED
    BY <2>1, <2>2, SafeFacts
<1>6. ASSUME NEW n \in RN
      PROVE  At(fs, n) \in Trailer /\ (At(fs, n).magic # "zero" => n < nextRN)
  <2>1. n \in Nat /\ At(fs, n) \in Trailer
    BY <1>1, TypeFacts, AtIsTrailer
  <2>2. At(fs, n).magic # "zero" => n < fileRN
    BY <2>1, SafeFacts DEF DiskInv
  <2> QED
    BY <1>1, <2>1, <2>2
<1> QED
  BY <1>1, <1>2, <1>3, <1>4, <1>5, <1>6

LEMMA PassedBelow ==
  ASSUME TypeInv, SafeInv, ErasedBelow, NEW x \in RN, Passed(x)
  PROVE  x < nextRN
BY VersionFacts DEF Passed, DiskLinked, ErasedBelow

\* A call of the application writes nothing: it may queue a record and replace some by the number nextRN.
Call ==
  /\ Opened(fs, fs') /\ UNCHANGED <<writer, filled, erased>> /\ nextRN' \in Nat /\ nextRN <= nextRN'
  /\ \A n \in RN : n < nextRN => older'[n] = older[n]
  /\ \A p \in InLine :
       PodNum(p)' = PodNum(p) /\ PodPrev(p)' = PodPrev(p) /\ PodMagic(p)' \in {PodMagic(p), "deleted"}
  /\ (queue' = queue /\ late' = late) \/ \E c \in Pods : Inserted(c)

LEMMA CallPlaces ==
  ASSUME TypeInv, SafeInv, VersionInv, Call
  PROVE  /\ PlaceVersions'
         /\ \A x \in RN : /\ At(fs', x) = At(fs, x)
                          /\ DiskLinked(x)' <=> DiskLinked(x)
                          /\ OnFile(x)' <=> OnFile(x)
                          /\ Passed(x)' <=> Passed(x)
                          /\ Passed(x) => older'[x] = older[x]
         /\ \A b \in RN : /\ Unpassed(b)' <=> Unpassed(b)
                          /\ BeingErased(b)' <=> BeingErased(b)
                          /\ b < nextRN => (Clean(b)' <=> Clean(b)) /\ (Timely(b)' => Timely(b))
         /\ late \subseteq late'
<1> USE DEF VersionInv, PlaceVersions
<1>1. \A x \in RN : At(fs', x) = At(fs, x)
  BY VersionFacts DEF Call, Opened
<1>2. writer' = writer /\ filled' = filled /\ erased' = erased
  BY DEF Call
<1>3. \A x \in RN : (DiskLinked(x)' <=> DiskLinked(x)) /\ (OnFile(x)' <=> OnFile(x))
  BY <1>1 DEF DiskLinked, OnFile
<1>4. \A x \in RN : Passed(x)' <=> Passed(x)
  BY <1>2, <1>3 DEF Passed
<1>5. \A n \in RN : n < nextRN => older'[n] = older[n]
  BY DEF Call
<1>6. \A x \in RN : Passed(x) => older'[x] = older[x]
  BY <1>5, PassedBelow
<1>7. \A b \in RN : Unpassed(b)' <=> Unpassed(b)
  BY <1>4, <1>6 DEF Unpassed
<1>8. writer # Idle => older'[writer.rn] = older[writer.rn] /\ older'[writer.prev] = older[writer.prev]
  <2>1. CASE writer # Idle
    <3>1. writer.rn \in RN /\ writer.rn < nextRN /\ writer.prev \in RN /\ RN \subseteq Nat /\ nextRN \in Nat
      BY <2>1, VersionFacts
    <3>2. writer.prev = writer.rn \/ writer.prev < writer.rn
      BY <2>1, <3>1, SafeFacts, VersionFacts DEF WriterInv
    <3>3. writer.prev < nextRN
      <4>1. writer.prev \in Nat /\ writer.rn \in Nat
        BY <3>1
      <4> QED
        BY <3>1, <3>2, <4>1
    <3> QED
      BY <1>5, <3>1, <3>3
  <2> QED
    BY <2>1
<1>9. \A b \in RN : BeingErased(b)' <=> BeingErased(b)
  BY <1>2, <1>8 DEF BeingErased, WriterAt
<1>10. late \subseteq late' /\ \A b \in RN : b < nextRN => (Clean(b)' <=> Clean(b)) /\ (Prompt(b)' => Prompt(b))
  <2>1. late \subseteq late'
    BY DEF Call, Inserted
  <2> QED
    BY <1>2, <1>5, <2>1 DEF Clean, Prompt
<1>11. DiskPrior'
  <2> SUFFICES ASSUME NEW n \in RN,
                      \/ DiskLinked(n)' \/ At(fs', n).magic \notin {"zero", "deleted"}
                      \/ At(fs', n).magic = "deleted" /\ n \notin filled'
               PROVE  older'[n] = IF At(fs', n).prev = n THEN {} ELSE {At(fs', n).prev} \cup older'[At(fs', n).prev]
    BY DEF DiskPrior, Follows
  <2>1. At(fs, n).magic # "zero" /\ Follows(n, At(fs, n).prev)
    BY <1>1, <1>2, <1>3 DEF DiskPrior, DiskLinked
  <2>2. n < nextRN
    BY <2>1, VersionFacts
  <2>3. older'[n] = older[n]
    BY <1>5, <2>2
  <2> DEFINE p == At(fs, n).prev
  <2>4. p \in RN
    BY VersionFacts DEF Trailer
  <2>5. At(fs', n).prev = p /\ older[n] = IF p = n THEN {} ELSE {p} \cup older[p]
    BY <1>1, <2>1 DEF Follows
  <2> HIDE DEF p
  <2>6. CASE p = n
    BY <2>3, <2>5, <2>6
  <2>7. CASE p # n
    <3>1. p < nextRN
      BY <2>2, <2>4, <2>5, <2>7, VersionFacts
    <3> QED
      BY <1>5, <2>3, <2>4, <2>5, <2>7, <3>1
  <2> QED
    BY <2>6, <2>7
<1>12. WriterPrior'
  <2>1. writer # Idle => PodNum(writer.pod)' = PodNum(writer.pod) /\ PodPrev(writer.pod)' = PodPrev(writer.pod)
    BY DEF Call, InLine
  <2>2. writer # Idle => writer.rn \in RN
    BY VersionFacts
  <2> QED
    BY <1>2, <1>3, <2>1, <2>2 DEF WriterPrior, Linked
<1>13. ErasedBelow'
  <2>1. \A x \in erased : x < nextRN /\ x \in Nat
    BY VersionFacts DEF ErasedBelow
  <2>2. nextRN \in Nat /\ nextRN' \in Nat /\ nextRN <= nextRN'
    BY VersionFacts DEF Call
  <2> QED
    BY <1>2, <2>1, <2>2 DEF ErasedBelow
<1>14. WalkInv'
  <2>1. writer # Idle => writer.rn \in RN /\ writer.rn < nextRN /\ older[writer.rn] \subseteq RN
    BY VersionFacts
  <2> QED
    BY <1>2, <1>3, <1>8, <1>10, <2>1 DEF WalkInv, WriterAt
<1>15. ErasedInv'
  <2>1. \A x \in erased : x \in RN /\ x < nextRN /\ older[x] \subseteq RN
    BY VersionFacts DEF ErasedBelow
  <2> QED
    BY <1>2, <1>3, <1>5, <1>10, <2>1 DEF ErasedInv
<1>16. \A b \in RN : b < nextRN => (Timely(b)' => Timely(b))
  BY <1>10 DEF Timely
<1> QED
  BY <1>1, <1>3, <1>4, <1>6, <1>7, <1>9, <1>10, <1>11, <1>12, <1>13, <1>14, <1>15, <1>16

\* What follows what is not changed by a call.
LEMMA CallFollows ==
  ASSUME TypeInv, SafeInv, Call, NEW n \in RN, n < nextRN, NEW p \in RN, Follows(n, p)
  PROVE  older'[n] = IF p = n THEN {} ELSE {p} \cup older'[p]
<1>1. older'[n] = older[n] /\ \A m \in RN : m < nextRN => older'[m] = older[m]
  BY DEF Call
<1>2. CASE p = n
  BY <1>1, <1>2 DEF Follows
<1>3. CASE p # n
  <2>1. older[n] = {p} \cup older[p]
    BY <1>3 DEF Follows
  <2>2. p < n /\ n \in Nat /\ p \in Nat /\ nextRN \in Nat
    BY <2>1, VersionFacts
  <2>3. p < nextRN
    BY <2>2
  <2> QED
    BY <1>1, <1>3, <2>1, <2>3
<1> QED
  BY <1>2, <1>3

\* A write that is queued takes a place in the queue, and those behind it move up by one.
LEMMA InsertedIs ==
  ASSUME TypeInv, NEW c, Inserted(c)
  PROVE  /\ \A k \in DOMAIN queue : k \in Nat
         /\ \E i \in DOMAIN queue' :
              /\ i \in Nat /\ queue'[i] = c
              /\ \A k \in DOMAIN queue : \E m \in DOMAIN queue' :
                   m = (IF k < i THEN k ELSE k + 1) /\ queue'[m] = queue[k]
              /\ \A m \in DOMAIN queue' :
                   /\ m \in Nat
                   /\ m # i => \E k \in DOMAIN queue : k = (IF m < i THEN m ELSE m - 1) /\ queue'[m] = queue[k]
              /\ \A k \in DOMAIN queue : k >= i /\ PodNum(queue[k]) \in older'[PodNum(c)'] => PodNum(queue[k]) \in late'
<1>1. Len(queue) \in Nat /\ DOMAIN queue = 1..Len(queue)
  BY TypeFacts
<1>2. DOMAIN queue' = 1..Len(queue) + 1
  BY DEF Inserted
<1>3. PICK i \in 1..Len(queue) + 1 :
        /\ queue'[i] = c
        /\ \A j \in 1..i - 1 : queue'[j] = queue[j]
        /\ \A j \in i..Len(queue) : queue'[j + 1] = queue[j]
        /\ late' = late \cup {rn \in older'[PodNum(c)'] : \E j \in i..Len(queue) : PodNum(queue[j]) = rn}
  BY DEF Inserted
<1>4. i \in Nat /\ i \in DOMAIN queue'
  BY <1>1, <1>2
<1>5. ASSUME NEW k \in DOMAIN queue
      PROVE  \E m \in DOMAIN queue' : m = (IF k < i THEN k ELSE k + 1) /\ queue'[m] = queue[k]
  BY <1>1, <1>2, <1>3, <1>4
<1>6. ASSUME NEW m \in DOMAIN queue', m # i
      PROVE  \E k \in DOMAIN queue : k = (IF m < i THEN m ELSE m - 1) /\ queue'[m] = queue[k]
  <2>1. CASE m < i
    BY <1>1, <1>2, <1>3, <1>4, <2>1
  <2>2. CASE ~(m < i)
    <3>1. PICK k \in i..Len(queue) : k = m - 1
      BY <1>1, <1>2, <1>4, <1>6, <2>2
    <3>2. k \in DOMAIN queue /\ k + 1 = m
      BY <1>1, <1>2, <1>4, <3>1
    <3>3. queue'[m] = queue[k]
      BY <1>3, <3>1, <3>2
    <3> QED
      BY <2>2, <3>1, <3>2, <3>3
  <2> QED
    BY <2>1, <2>2
<1>7. ASSUME NEW k \in DOMAIN queue, k >= i, PodNum(queue[k]) \in older'[PodNum(c)']
      PROVE  PodNum(queue[k]) \in late'
  <2>1. k \in i..Len(queue)
    BY <1>1, <1>4, <1>7
  <2> QED
    BY <1>3, <1>7, <2>1
<1> QED
  BY <1>1, <1>2, <1>3, <1>4, <1>5, <1>6, <1>7

\* What is queued keeps its place, its number and what it replaces.
LEMMA CallLine ==
  ASSUME TypeInv, SafeInv, Call, NEW j \in DOMAIN queue
  PROVE  /\ queue[j] \in InLine /\ queue[j] \in DOMAIN mem.pods /\ PodNum(queue[j]) \in RN
         /\ mem'.pods[queue[j]].data.rn = PodNum(queue[j]) /\ mem'.pods[queue[j]].data.prev = PodPrev(queue[j])
         /\ mem'.pods[queue[j]].data.magic \in {PodMagic(queue[j]), "deleted"}
         /\ older'[PodNum(queue[j])] = older[PodNum(queue[j])]
<1>1. PICK q \in ToSet(queue) : q = queue[j]
  BY VersionFacts
<1>2. q \in InLine /\ q \in DOMAIN mem.pods /\ PodNum(q) \in RN /\ PodNum(q) < nextRN
  BY VersionFacts DEF InLine
<1>3. mem'.pods[q].data.rn = PodNum(q) /\ mem'.pods[q].data.prev = PodPrev(q)
      /\ mem'.pods[q].data.magic \in {PodMagic(q), "deleted"} /\ older'[PodNum(q)] = older[PodNum(q)]
  <2>1. PodNum(q)' = PodNum(q) /\ PodPrev(q)' = PodPrev(q) /\ PodMagic(q)' \in {PodMagic(q), "deleted"}
    BY <1>2 DEF Call
  <2>2. older'[PodNum(q)] = older[PodNum(q)]
    BY <1>2 DEF Call
  <2> QED
    BY <2>1, <2>2 DEF PodNum, PodPrev, PodMagic
<1> QED
  BY <1>1, <1>2, <1>3

\* What is queued keeps its turn, unless what replaces it is queued before it.
LEMMA CallTurn ==
  ASSUME TypeInv, SafeInv, Call, NEW b, InTurn(b)
  PROVE  InTurn(b)' \/ b \in late'
<1>1. PICK k \in DOMAIN queue :
        /\ PodNum(queue[k]) = b
        /\ \A j \in DOMAIN queue : j < k /\ Linked(queue[j]) => b \notin older[PodNum(queue[j])]
  BY DEF InTurn
<1>2. ASSUME NEW j \in DOMAIN queue, j < k,
             mem'.pods[queue[j]].data.prev # mem'.pods[queue[j]].data.rn
      PROVE  b \notin older'[mem'.pods[queue[j]].data.rn]
  <2>1. /\ mem'.pods[queue[j]].data.rn = PodNum(queue[j]) /\ mem'.pods[queue[j]].data.prev = PodPrev(queue[j])
        /\ older'[PodNum(queue[j])] = older[PodNum(queue[j])]
    BY CallLine
  <2>2. Linked(queue[j])
    BY <1>2, <2>1 DEF Linked
  <2> QED
    BY <1>1, <1>2, <2>1, <2>2
<1>3. mem'.pods[queue[k]].data.rn = b
  BY <1>1, CallLine
<1>4. CASE queue' = queue
  BY <1>2, <1>3, <1>4 DEF InTurn, Linked, PodNum, PodPrev
<1>5. ASSUME NEW c \in Pods, Inserted(c), b \notin late'
      PROVE  InTurn(b)'
  <2>1. PICK i \in DOMAIN queue' :
          /\ i \in Nat /\ queue'[i] = c
          /\ \A l \in DOMAIN queue : \E m \in DOMAIN queue' : m = (IF l < i THEN l ELSE l + 1) /\ queue'[m] = queue[l]
          /\ \A m \in DOMAIN queue' :
               /\ m \in Nat
               /\ m # i => \E l \in DOMAIN queue : l = (IF m < i THEN m ELSE m - 1) /\ queue'[m] = queue[l]
          /\ \A l \in DOMAIN queue : l >= i /\ PodNum(queue[l]) \in older'[PodNum(c)'] => PodNum(queue[l]) \in late'
    BY <1>5, InsertedIs
  <2>2. k \in Nat /\ \A l \in DOMAIN queue : l \in Nat
    BY <1>5, InsertedIs
  <2>3. PICK n \in DOMAIN queue' : n = (IF k < i THEN k ELSE k + 1) /\ queue'[n] = queue[k]
    BY <2>1
  <2>4. ASSUME NEW m \in DOMAIN queue', m < n,
               mem'.pods[queue'[m]].data.prev # mem'.pods[queue'[m]].data.rn
        PROVE  b \notin older'[mem'.pods[queue'[m]].data.rn]
    <3>1. CASE m = i
      <4>1. k >= i
        BY <2>1, <2>2, <2>3, <2>4, <3>1
      <4>2. b \notin older'[PodNum(c)']
        BY <1>1, <1>5, <2>1, <4>1
      <4> QED
        BY <2>1, <3>1, <4>2 DEF PodNum
    <3>2. CASE m # i
      <4>1. PICK l \in DOMAIN queue : l = (IF m < i THEN m ELSE m - 1) /\ queue'[m] = queue[l]
        BY <2>1, <3>2
      <4>2. l < k
        BY <2>1, <2>2, <2>3, <2>4, <3>2, <4>1
      <4> QED
        BY <1>2, <2>4, <4>1, <4>2
    <3> QED
      BY <3>1, <3>2
  <2> QED
    BY <1>3, <2>3, <2>4 DEF InTurn, Linked, PodNum, PodPrev
<1> QED
  BY <1>4, <1>5 DEF Call

\* A record that is to be written and is in the cache is before none that the application can find.
LEMMA NotReplaced ==
  ASSUME TypeInv, SafeInv, VersionInv, NEW p \in ToWrite, PodMagic(p) = "committed", p \in ToSet(mem.cache),
         NEW rn \in RN, Present(rn)
  PROVE  PodNum(p) \notin older[rn]
<1> USE DEF VersionInv, PlaceVersions, LineVersions
<1> SUFFICES ASSUME PodNum(p) \in older[rn] PROVE FALSE
  OBVIOUS
<1>1. CASE At(fs, rn).magic = "committed"
  <2>1. Follows(rn, At(fs, rn).prev)
    BY <1>1 DEF DiskPrior
  <2>2. DiskLinked(rn)
    BY <1>1, <2>1 DEF Follows, DiskLinked
  <2> QED
    BY <2>2 DEF FastOrderInv, Unpassed, Passed
<1>2. CASE \E q \in ToSet(mem.cache) : PodNum(q) = rn /\ PodMagic(q) = "committed"
  <2>1. PICK q \in ToSet(mem.cache) : PodNum(q) = rn /\ PodMagic(q) = "committed"
    BY <1>2
  <2>2. q \in DOMAIN mem.pods
    BY VersionFacts
  <2>3. Follows(rn, PodPrev(q))
    BY <2>1, <2>2 DEF PodsPrior
  <2>4. Linked(q)
    BY <2>1, <2>3 DEF Follows, Linked
  <2>5. q \in held
    BY <2>1, <2>2, <2>4 DEF FastInv
  <2> QED
    BY <2>5, SafeFacts DEF HeldInv
<1> QED
  BY <1>1, <1>2 DEF Present

\* What the application can find, and all it replaced, is on file or referred to.
LEMMA RefOfPresent ==
  ASSUME TypeInv, SafeInv, VersionInv, NEW rn \in RN, Present(rn), NEW b \in {rn} \cup older[rn]
  PROVE  OnFile(b) \/ Ref(b)
<1> USE DEF VersionInv, PlaceVersions, LineVersions
<1>1. CASE At(fs, rn).magic = "committed"
  <2>1. CASE b = rn
    BY <1>1, <2>1 DEF OnFile
  <2>2. CASE b \in older[rn]
    <3>1. Follows(rn, At(fs, rn).prev)
      BY <1>1 DEF DiskPrior
    <3>2. DiskLinked(rn)
      BY <1>1, <2>2, <3>1 DEF Follows, DiskLinked
    <3> QED
      BY <2>2, <3>2 DEF Ref, Seen
  <2> QED
    BY <2>1, <2>2
<1>2. CASE \E q \in ToSet(mem.cache) : PodNum(q) = rn /\ PodMagic(q) = "committed"
  <2>1. PICK q \in ToSet(mem.cache) : PodNum(q) = rn /\ PodMagic(q) = "committed"
    BY <1>2
  <2>2. q \in DOMAIN mem.pods
    BY VersionFacts
  <2>3. CASE b = rn
    BY <2>1, <2>3 DEF Ref
  <2>4. CASE b \in older[rn]
    <3>1. Follows(rn, PodPrev(q))
      BY <2>1, <2>2 DEF PodsPrior
    <3>2. Linked(q)
      BY <2>1, <2>4, <3>1 DEF Follows, Linked
    <3> QED
      BY <2>1, <2>2, <2>4, <3>2 DEF Ref, Seen
  <2> QED
    BY <2>3, <2>4
<1> QED
  BY <1>1, <1>2 DEF Present

\* A new number replaces one version and those it replaced, or none.
LEMMA LineageExtended ==
  ASSUME TypeInv, SafeInv, LineageInv, nextRN \in RN, NEW prev \in RN, prev < nextRN,
         \A n \in RN : n # nextRN => older'[n] = older[n],
         older'[nextRN] = {} \/ older'[nextRN] = {prev} \cup older[prev]
  PROVE  LineageInv'
<1>1. \A n \in RN : nextRN \notin older[n] /\ older[n] \subseteq RN
  <2>1. \A n \in RN : n >= nextRN \/ n < nextRN
    BY VersionFacts
  <2>2. \A n \in RN : \A a \in older[n] : a < n /\ a \in Nat /\ n \in Nat /\ nextRN \in Nat
    BY VersionFacts
  <2>3. \A n \in RN : n < nextRN => nextRN \notin older[n]
    BY <2>2
  <2> QED
    BY <2>1, <2>3, VersionFacts
<1>2. ASSUME NEW x \in RN, NEW b \in older'[x], NEW c \in older'[x]
      PROVE  b = c \/ b \in older'[c] \/ c \in older'[b]
  <2>1. CASE x # nextRN
    <3>1. b \in older[x] /\ c \in older[x]
      BY <1>2, <2>1
    <3>2. b = c \/ b \in older[c] \/ c \in older[b]
      BY <3>1 DEF LineageInv
    <3> QED
      BY <1>1, <3>1, <3>2
  <2>2. CASE x = nextRN
    <3>1. b \in {prev} \cup older[prev] /\ c \in {prev} \cup older[prev]
      BY <1>2, <2>2
    <3>2. prev # nextRN
      BY VersionFacts
    <3>3. older'[prev] = older[prev]
      BY <3>2
    <3>4. CASE b = prev \/ c = prev
      BY <3>1, <3>3, <3>4
    <3>5. CASE b \in older[prev] /\ c \in older[prev]
      <4>1. b = c \/ b \in older[c] \/ c \in older[b]
        BY <3>5 DEF LineageInv
      <4> QED
        BY <1>1, <3>5, <4>1
    <3> QED
      BY <3>1, <3>4, <3>5
  <2> QED
    BY <2>1, <2>2
<1> QED
  BY <1>2 DEF LineageInv

\* What a call queues for the first time has been replaced by nothing, unless it is a deletion.
LEMMA CallOrder ==
  ASSUME TypeInv, SafeInv, VersionInv, Call,
         \/ queue' = queue
         \/ \E c \in Pods :
              /\ Inserted(c)
              /\ mem'.pods[c].data.magic = "committed" => \A x \in RN : mem'.pods[c].data.rn \notin older'[x]
  PROVE  OrderInv' /\ LineOrderInv'
<1> USE DEF VersionInv, PlaceVersions, LineVersions
<1>1. writer' = writer /\ late \subseteq late'
  BY CallPlaces DEF Call
<1>2. ASSUME NEW p \in ToWrite, PodMagic(p)' = "committed", NEW x \in RN, Passed(x)', PodNum(p)' \notin late'
      PROVE  PodNum(p)' \notin older'[x]
  <2>1. Passed(x) /\ older'[x] = older[x]
    BY <1>2, CallPlaces
  <2>2. /\ PodNum(p)' = PodNum(p) /\ PodMagic(p)' \in {PodMagic(p), "deleted"} /\ PodNum(p) \in RN
    BY VersionFacts, SafeFacts DEF Call
  <2> QED
    BY <1>1, <1>2, <2>1, <2>2 DEF OrderInv, Unpassed
<1>3. ASSUME NEW k \in DOMAIN queue, NEW j \in DOMAIN queue, j < k,
             mem'.pods[queue[k]].data.magic = "committed", mem'.pods[queue[k]].data.rn \notin late',
             mem'.pods[queue[j]].data.prev # mem'.pods[queue[j]].data.rn
      PROVE  mem'.pods[queue[k]].data.rn \notin older'[mem'.pods[queue[j]].data.rn]
  <2>1. PodMagic(queue[k]) = "committed" /\ mem'.pods[queue[k]].data.rn = PodNum(queue[k])
    BY <1>3, CallLine
  <2>2. /\ Linked(queue[j]) /\ mem'.pods[queue[j]].data.rn = PodNum(queue[j])
        /\ older'[PodNum(queue[j])] = older[PodNum(queue[j])]
    BY <1>3, CallLine DEF Linked
  <2>3. PodNum(queue[k]) \notin older[PodNum(queue[j])]
    BY <1>1, <1>3, <2>1, <2>2 DEF LineOrderInv
  <2> QED
    BY <2>1, <2>2, <2>3
<1>4. CASE queue' = queue
  <2>1. ToWrite' = ToWrite
    BY <1>1, <1>4 DEF ToWrite, WriterAt
  <2>2. OrderInv'
    BY <1>2, <2>1 DEF OrderInv, Unpassed
  <2> QED
    BY <1>3, <1>4, <2>2 DEF LineOrderInv, Linked, PodMagic, PodNum, PodPrev
<1>5. ASSUME NEW c \in Pods, Inserted(c),
             mem'.pods[c].data.magic = "committed" => \A x \in RN : mem'.pods[c].data.rn \notin older'[x]
      PROVE  OrderInv' /\ LineOrderInv'
  <2>1. PICK i \in DOMAIN queue' :
          /\ i \in Nat /\ queue'[i] = c
          /\ \A m \in DOMAIN queue' :
               /\ m \in Nat
               /\ m # i => \E l \in DOMAIN queue : l = (IF m < i THEN m ELSE m - 1) /\ queue'[m] = queue[l]
          /\ \A l \in DOMAIN queue : l >= i /\ PodNum(queue[l]) \in older'[PodNum(c)'] => PodNum(queue[l]) \in late'
    BY <1>5, InsertedIs
  <2>2. \A l \in DOMAIN queue : l \in Nat /\ queue[l] \in ToSet(queue)
    BY <1>5, InsertedIs, VersionFacts
  <2>3. \A p \in ToWrite' : p \in ToWrite \/ p = c
    <3>1. \A p \in ToSet(queue') : p \in ToSet(queue) \/ p = c
      BY <2>1 DEF ToSet
    <3> QED
      BY <1>1, <3>1 DEF ToWrite, WriterAt
  <2>4. OrderInv'
    BY <1>2, <1>5, <2>3 DEF OrderInv, Unpassed, PodMagic, PodNum
  <2>5. LineOrderInv'
    <3> SUFFICES ASSUME NEW k \in DOMAIN queue', NEW j \in DOMAIN queue', j < k,
                        mem'.pods[queue'[k]].data.magic = "committed", mem'.pods[queue'[k]].data.rn \notin late',
                        mem'.pods[queue'[j]].data.prev # mem'.pods[queue'[j]].data.rn
                 PROVE  mem'.pods[queue'[k]].data.rn \notin older'[mem'.pods[queue'[j]].data.rn]
      BY DEF LineOrderInv, Linked, PodMagic, PodNum, PodPrev
    <3>1. CASE k = i
      <4>1. PICK l \in DOMAIN queue : queue'[j] = queue[l]
        BY <2>1, <3>1
      <4>2. mem'.pods[queue[l]].data.rn \in RN
        BY CallLine
      <4> QED
        BY <1>5, <2>1, <3>1, <4>1, <4>2
    <3>2. CASE k # i /\ j = i
      <4>1. PICK l \in DOMAIN queue : l = (IF k < i THEN k ELSE k - 1) /\ queue'[k] = queue[l]
        BY <2>1, <3>2
      <4>2. l >= i
        BY <2>1, <3>2, <4>1
      <4>3. mem'.pods[queue[l]].data.rn = PodNum(queue[l])
        BY CallLine
      <4> QED
        BY <2>1, <3>2, <4>1, <4>2, <4>3 DEF PodNum
    <3>3. CASE k # i /\ j # i
      <4>1. PICK l \in DOMAIN queue : l = (IF k < i THEN k ELSE k - 1) /\ queue'[k] = queue[l]
        BY <2>1, <3>3
      <4>2. PICK m \in DOMAIN queue : m = (IF j < i THEN j ELSE j - 1) /\ queue'[j] = queue[m]
        BY <2>1, <3>3
      <4>3. m < l
        BY <2>1, <3>3, <4>1, <4>2
      <4> QED
        BY <1>3, <4>1, <4>2, <4>3
    <3> QED
      BY <3>1, <3>2, <3>3
  <2> QED
    BY <2>4, <2>5
<1> QED
  BY <1>4, <1>5

\* A call leaves the chains whole: what it newly refers to was referred to, or is on file, or is queued.
LEMMA CallChain ==
  ASSUME TypeInv, SafeInv, VersionInv, Call,
         \A b \in RN : Ref(b)' => b < nextRN /\ (Ref(b) \/ OnFile(b) \/ (InTurn(b)' /\ Unpassed(b))),
         \A a \in RN : Pend(a)' => Pend(a) \/ \A x \in RN : a \notin older'[x],
         \A b \in RN : BeingWritten(b) => BeingWritten(b)' \/ InTurn(b)'
  PROVE  ChainInv'
<1> USE DEF VersionInv, PlaceVersions, LineVersions
<1>1. ASSUME NEW b \in RN, Whole(b), b \notin late'
      PROVE  Whole(b)'
  <2>1. CASE OnFile(b) \/ BeingErased(b)
    BY <2>1, CallPlaces DEF Whole
  <2>2. CASE Coming(b)
    <3>1. Unpassed(b)'
      BY <2>2, CallPlaces DEF Coming
    <3>2. BeingWritten(b)' \/ InTurn(b)'
      BY <1>1, <2>2, CallTurn DEF Coming
    <3> QED
      BY <3>1, <3>2 DEF Whole, Coming
  <2> QED
    BY <1>1, <2>1, <2>2 DEF Whole
<1>2. ASSUME NEW b \in RN, Ref(b)', Clean(b)', Timely(b)', NEW a \in older'[b], OnFile(a)' \/ Pend(a)'
      PROVE  Whole(b)'
  <2>1. b < nextRN /\ older'[b] = older[b] /\ Clean(b) /\ Timely(b) /\ b \notin late' /\ a \in RN
    BY <1>2, CallPlaces, VersionFacts DEF Call, Timely
  <2>2. OnFile(a) \/ Pend(a)
    BY <1>2, <2>1, CallPlaces
  <2>3. CASE Ref(b)
    BY <1>1, <1>2, <2>1, <2>2, <2>3 DEF ChainInv
  <2>4. CASE OnFile(b)
    BY <2>4, CallPlaces DEF Whole
  <2>5. CASE InTurn(b)' /\ Unpassed(b)
    BY <2>5, CallPlaces DEF Whole, Coming
  <2> QED
    BY <1>2, <2>3, <2>4, <2>5
<1> QED
  BY <1>2 DEF ChainInv

\* What a call leaves in memory: a record that was there, perhaps deleted, or one read from its file.
KeptPod(p) ==
  /\ p \in DOMAIN mem.pods /\ PodNum(p)' = PodNum(p) /\ PodPrev(p)' = PodPrev(p)
  /\ PodMagic(p)' \in {PodMagic(p), "deleted"}
ReadPod(p) ==
  \E n \in RN : /\ n < nextRN /\ PodNum(p)' = At(fs, n).rn /\ PodPrev(p)' = At(fs, n).prev
                /\ PodMagic(p)' \in {At(fs, n).magic, "deleted"}

LEMMA ReadPodIs ==
  ASSUME TypeInv, SafeInv, VersionInv, NEW p, ReadPod(p)
  PROVE  /\ PodNum(p)' \in RN /\ PodNum(p)' < nextRN /\ PodPrev(p)' \in RN
         /\ Linked(p)' => DiskLinked(PodNum(p)')
         /\ PodMagic(p)' = "committed" => OnFile(PodNum(p)')
         /\ Linked(p)' \/ PodMagic(p)' # "deleted" \/ PodNum(p)' \notin filled =>
              Follows(PodNum(p)', PodPrev(p)')
<1> USE DEF VersionInv, PlaceVersions, LineVersions
<1>1. PICK n \in RN : /\ n < nextRN /\ PodNum(p)' = At(fs, n).rn /\ PodPrev(p)' = At(fs, n).prev
                      /\ PodMagic(p)' \in {At(fs, n).magic, "deleted"}
  BY DEF ReadPod
<1>2. At(fs, n) \in Trailer /\ n \in Nat
  BY VersionFacts
<1>3. At(fs, n).rn \in RN /\ At(fs, n).prev \in RN
  BY <1>2 DEF Trailer
<1>4. CASE At(fs, n).magic = "zero"
  <2>1. PodNum(p)' = 0 /\ PodPrev(p)' = 0 /\ PodMagic(p)' \in {"zero", "deleted"}
    BY <1>1, <1>2, <1>4, SafeFacts DEF DiskInv, Zero
  <2>2. 0 \in RN /\ 0 < nextRN
    <3>1. nextRN \in Nat
      BY VersionFacts
    <3> QED
      BY <1>1, <1>2, <1>3, <2>1, <3>1
  <2>3. older[0] = {}
    <3>1. \A a \in older[0] : a < 0 /\ a \in Nat
      BY <2>2, VersionFacts
    <3> QED
      BY <3>1
  <2> QED
    BY <2>1, <2>2, <2>3 DEF Follows, Linked
<1>5. CASE At(fs, n).magic # "zero"
  <2>1. At(fs, n).rn = n
    BY <1>2, <1>5, SafeFacts DEF DiskInv
  <2>2. PodNum(p)' = n /\ PodPrev(p)' = At(fs, n).prev
    BY <1>1, <2>1
  <2>3. Linked(p)' => DiskLinked(n)
    BY <1>5, <2>2 DEF Linked, DiskLinked
  <2>4. PodMagic(p)' = "committed" => OnFile(n)
    BY <1>1 DEF OnFile
  <2>5. ASSUME Linked(p)' \/ PodMagic(p)' # "deleted" \/ n \notin filled
        PROVE  Follows(n, At(fs, n).prev)
    BY <1>1, <1>5, <2>3, <2>5 DEF DiskPrior
  <2> QED
    BY <1>1, <1>3, <2>2, <2>3, <2>4, <2>5
<1> QED
  BY <1>4, <1>5

\* Such a record follows what it replaces as before.
LEMMA CallPod ==
  ASSUME TypeInv, SafeInv, VersionInv, Call, NEW p, KeptPod(p) \/ ReadPod(p),
         Linked(p)' \/ PodMagic(p)' # "deleted" \/ PodNum(p)' \notin filled'
  PROVE  Follows(PodNum(p), PodPrev(p))'
<1> USE DEF VersionInv, PlaceVersions, LineVersions
<1>1. filled' = filled
  BY DEF Call
<1>2. PICK n \in RN, prev \in RN : n < nextRN /\ PodNum(p)' = n /\ PodPrev(p)' = prev /\ Follows(n, prev)
  <2>1. CASE KeptPod(p)
    <3>1. PodNum(p) \in RN /\ PodPrev(p) \in RN /\ PodNum(p) < nextRN
      BY <2>1, VersionFacts DEF KeptPod
    <3>2. Linked(p) \/ PodMagic(p) # "deleted" \/ PodNum(p) \notin filled
      BY <1>1, <2>1 DEF KeptPod, Linked
    <3>3. Follows(PodNum(p), PodPrev(p))
      BY <2>1, <3>2 DEF KeptPod, PodsPrior
    <3> QED
      BY <2>1, <3>1, <3>3 DEF KeptPod
  <2>2. CASE ReadPod(p)
    BY <1>1, <2>2, ReadPodIs
  <2> QED
    BY <2>1, <2>2
<1>3. older'[n] = IF prev = n THEN {} ELSE {prev} \cup older'[prev]
  BY <1>2, CallFollows
<1> QED
  BY <1>2, <1>3 DEF Follows

\* Of what replaces a record still to be written and in the cache it is the application's own.
LEMMA CallFast ==
  ASSUME TypeInv, SafeInv, VersionInv, Call, NEW p \in ToWrite, PodMagic(p) = "committed", p \in ToSet(mem.cache),
         NEW h, KeptPod(h) \/ ReadPod(h), Linked(h)', PodNum(p) \in older'[PodNum(h)']
  PROVE  h \in held /\ PodPrev(h) = PodNum(p) /\ KeptPod(h)
<1> USE DEF VersionInv, PlaceVersions, LineVersions
<1>1. CASE KeptPod(h)
  <2>1. h \in DOMAIN mem.pods /\ PodNum(h) \in RN /\ PodNum(h) < nextRN /\ PodNum(h)' = PodNum(h) /\ Linked(h)
    BY <1>1, VersionFacts DEF KeptPod, Linked
  <2>2. PodNum(p) \in older[PodNum(h)]
    BY <2>1 DEF Call
  <2> QED
    BY <1>1, <2>1, <2>2 DEF FastInv
<1>2. CASE ReadPod(h)
  <2>1. PICK n \in RN : n = PodNum(h)' /\ DiskLinked(n) /\ n < nextRN
    BY <1>2, ReadPodIs
  <2>2. PodNum(p) \in older[n]
    BY <2>1 DEF Call
  <2> QED
    BY <2>1, <2>2 DEF FastOrderInv, Unpassed, Passed
<1> QED
  BY <1>1, <1>2

\* Nor has it been passed by any of them.
LEMMA CallFastOrder ==
  ASSUME TypeInv, SafeInv, VersionInv, Call,
         \A q \in ToWrite' : PodMagic(q)' = "committed" /\ q \in ToSet(mem'.cache) =>
           \/ q \in ToWrite /\ PodMagic(q) = "committed" /\ q \in ToSet(mem.cache) /\ PodNum(q)' = PodNum(q)
           \/ \A x \in RN : PodNum(q)' \notin older'[x]
  PROVE  FastOrderInv'
<1> SUFFICES ASSUME NEW q \in ToWrite', PodMagic(q)' = "committed", q \in ToSet(mem'.cache),
                    NEW x \in RN, Passed(x)'
             PROVE  PodNum(q)' \notin older'[x]
  BY DEF FastOrderInv, Unpassed
<1>1. Passed(x) /\ older'[x] = older[x]
  BY CallPlaces
<1>2. CASE q \in ToWrite /\ PodMagic(q) = "committed" /\ q \in ToSet(mem.cache) /\ PodNum(q)' = PodNum(q)
  BY <1>1, <1>2 DEF FastOrderInv, Unpassed, VersionInv, LineVersions
<1> QED
  BY <1>2

\* What a call may refer to without harm.
Cause(b) == b \in RN /\ b < nextRN /\ (Ref(b) \/ OnFile(b) \/ (InTurn(b)' /\ Unpassed(b)))

LEMMA CallRef ==
  ASSUME TypeInv, SafeInv, VersionInv, Call,
         \A q \in ToSet(mem'.cache) : PodMagic(q)' = "committed" =>
           (q \in ToSet(mem.cache) /\ KeptPod(q)) \/ ReadPod(q) \/ \E c \in RN : c = PodNum(q)' /\ Cause(c),
         \A h \in DOMAIN mem'.pods : Linked(h)' =>
           KeptPod(h) \/ ReadPod(h) \/ \A b \in older'[PodNum(h)'] : Cause(b)
  PROVE  \A b \in RN : Ref(b)' => Cause(b)
<1> SUFFICES ASSUME NEW b \in RN, Ref(b)'
             PROVE  Cause(b)
  OBVIOUS
<1>1. ASSUME NEW q \in ToSet(mem'.cache), PodNum(q)' = b, PodMagic(q)' = "committed"
      PROVE  Cause(b)
  <2>1. CASE q \in ToSet(mem.cache) /\ KeptPod(q)
    <3>1. PodNum(q) = b /\ PodMagic(q) = "committed" /\ q \in DOMAIN mem.pods
      BY <1>1, <2>1 DEF KeptPod
    <3>2. Ref(b)
      BY <2>1, <3>1 DEF Ref
    <3> QED
      BY <3>1, <3>2, VersionFacts DEF Cause
  <2>2. CASE ReadPod(q)
    BY <1>1, <2>2, ReadPodIs DEF Cause
  <2> QED
    BY <1>1, <2>1, <2>2
<1>2. ASSUME NEW x \in RN, x < nextRN, Seen(x), b \in older[x]
      PROVE  Cause(b)
  <2>1. Ref(b)
    BY <1>2 DEF Ref
  <2>2. b < x /\ b \in Nat /\ x \in Nat /\ nextRN \in Nat
    BY <1>2, VersionFacts
  <2>3. b < nextRN
    BY <1>2, <2>2
  <2> QED
    BY <2>1, <2>3 DEF Cause
<1>3. ASSUME NEW x \in RN, DiskLinked(x)', b \in older'[x]
      PROVE  Cause(b)
  <2>1. DiskLinked(x) /\ older'[x] = older[x]
    BY <1>3, CallPlaces DEF Passed
  <2>2. x < nextRN
    BY <2>1, VersionFacts DEF DiskLinked
  <2> QED
    BY <1>2, <1>3, <2>1, <2>2 DEF Seen
<1>4. ASSUME NEW x \in RN, NEW h \in DOMAIN mem'.pods, PodNum(h)' = x, Linked(h)', b \in older'[x]
      PROVE  Cause(b)
  <2>1. CASE KeptPod(h)
    <3>1. h \in DOMAIN mem.pods /\ PodNum(h) = x /\ Linked(h)
      BY <1>4, <2>1 DEF KeptPod, Linked
    <3>2. x < nextRN
      BY <3>1, VersionFacts
    <3>3. b \in older[x]
      BY <1>4, <3>2 DEF Call
    <3> QED
      BY <1>2, <3>1, <3>2, <3>3 DEF Seen
  <2>2. CASE ReadPod(h)
    <3>1. DiskLinked(x) /\ x < nextRN
      BY <1>4, <2>2, ReadPodIs
    <3>2. b \in older[x]
      BY <1>4, <3>1 DEF Call
    <3> QED
      BY <1>2, <3>1, <3>2 DEF Seen
  <2> QED
    BY <1>4, <2>1, <2>2
<1> QED
  BY <1>1, <1>3, <1>4 DEF Ref, Seen

\* A call that queues nothing and leaves what waits as it is.
LEMMA StillLine ==
  ASSUME TypeInv, SafeInv, VersionInv, Call, queue' = queue, \A q \in InLine : mem'.pods[q] = mem.pods[q]
  PROVE  /\ DeletedInv' /\ OrderInv' /\ LineOrderInv' /\ ToWrite' = ToWrite
         /\ \A q \in ToWrite : PodNum(q)' = PodNum(q) /\ PodMagic(q)' = PodMagic(q)
         /\ \A a \in RN : Pend(a)' => Pend(a)
         /\ \A b \in RN : BeingWritten(b) => BeingWritten(b)'
<1>1. writer' = writer /\ ToWrite \subseteq InLine /\ ToSet(queue) \subseteq ToWrite
  BY SafeFacts DEF Call
<1>2. ToWrite' = ToWrite
  BY <1>1 DEF ToWrite, WriterAt
<1>3. \A q \in ToWrite : PodNum(q)' = PodNum(q) /\ PodMagic(q)' = PodMagic(q) /\ mem'.pods[q].op = mem.pods[q].op
  BY <1>1 DEF PodNum, PodMagic
<1>4. DeletedInv'
  BY <1>1, <1>3 DEF DeletedInv, VersionInv, LineVersions
<1>5. OrderInv' /\ LineOrderInv'
  BY CallOrder
<1>6. \A a \in RN : Pend(a)' => Pend(a)
  BY <1>2, <1>3 DEF Pend
<1>7. \A b \in RN : BeingWritten(b) => BeingWritten(b)'
  BY <1>1, <1>3 DEF BeingWritten, ToWrite, WriterAt
<1> QED
  BY <1>2, <1>3, <1>4, <1>5, <1>6, <1>7

\* A call that queues a deletion.
LEMMA CondemnedLine ==
  ASSUME TypeInv, SafeInv, VersionInv, Call, NEW c \in Pods, Inserted(c), ToSet(queue') = ToSet(queue) \cup {c},
         PodMagic(c)' = "deleted", mem'.pods[c].op = "del",
         \A q \in InLine : q # c => mem'.pods[q] = mem.pods[q]
  PROVE  /\ DeletedInv' /\ OrderInv' /\ LineOrderInv'
         /\ \A q \in ToWrite' : PodMagic(q)' = "committed" =>
              q \in ToWrite /\ q # c /\ PodMagic(q) = "committed" /\ PodNum(q)' = PodNum(q)
         /\ \A a \in RN : Pend(a)' => Pend(a)
<1>1. writer' = writer /\ ToWrite \subseteq InLine /\ ToSet(queue) \subseteq ToWrite
  BY SafeFacts DEF Call
<1>3. \A q \in ToWrite :
        q # c => PodNum(q)' = PodNum(q) /\ PodMagic(q)' = PodMagic(q) /\ mem'.pods[q].op = mem.pods[q].op
  BY <1>1 DEF PodNum, PodMagic
<1>4. \A q \in ToWrite' : q \in ToWrite \/ q = c
  BY <1>1 DEF ToWrite, WriterAt
<1>5. DeletedInv'
  BY <1>1, <1>3 DEF DeletedInv, VersionInv, LineVersions
<1>6. OrderInv' /\ LineOrderInv'
  BY CallOrder DEF PodMagic
<1>7. \A q \in ToWrite' : PodMagic(q)' = "committed" =>
        q \in ToWrite /\ q # c /\ PodMagic(q) = "committed" /\ PodNum(q)' = PodNum(q)
  BY <1>3, <1>4
<1>8. \A a \in RN : Pend(a)' => Pend(a)
  BY <1>7 DEF Pend
<1> QED
  BY <1>5, <1>6, <1>7, <1>8

\* What is queued is in turn, if nothing that is queued replaces it.
LEMMA InTurnNew ==
  ASSUME TypeInv, SafeInv, Call, NEW c \in Pods, Inserted(c), NEW b, PodNum(c)' = b,
         \A j \in DOMAIN queue : Linked(queue[j]) => b \notin older[PodNum(queue[j])]
  PROVE  InTurn(b)'
<1>1. PICK i \in DOMAIN queue' :
        /\ i \in Nat /\ queue'[i] = c
        /\ \A m \in DOMAIN queue' : m \in Nat /\ (m # i => \E l \in DOMAIN queue : queue'[m] = queue[l])
  BY InsertedIs
<1>2. mem'.pods[queue'[i]].data.rn = b
  BY <1>1 DEF PodNum
<1>3. ASSUME NEW m \in DOMAIN queue', m < i,
             mem'.pods[queue'[m]].data.prev # mem'.pods[queue'[m]].data.rn
      PROVE  b \notin older'[mem'.pods[queue'[m]].data.rn]
  <2>1. PICK j \in DOMAIN queue : queue'[m] = queue[j]
    BY <1>1, <1>3
  <2>2. /\ mem'.pods[queue[j]].data.rn = PodNum(queue[j]) /\ mem'.pods[queue[j]].data.prev = PodPrev(queue[j])
        /\ older'[PodNum(queue[j])] = older[PodNum(queue[j])]
    BY CallLine
  <2>3. Linked(queue[j])
    BY <1>3, <2>1, <2>2 DEF Linked
  <2> QED
    BY <2>1, <2>2, <2>3
<1> QED
  BY <1>2, <1>3 DEF InTurn, Linked, PodNum, PodPrev

\* A new record replaces one that the application found.
LEMMA NewRecordVersions ==
  ASSUME TypeInv, SafeInv, VersionInv, Push \/ Update
  PROVE  VersionInv'
<1>1. PICK prev \in 0..nextRN : Opened(fs, fs') /\ Allocate(mem, prev) /\ (prev = nextRN \/ Present(prev))
  BY NewRecordIs
<1>2. PICK p \in Pods \ DOMAIN mem.pods :
        /\ nextRN \in RN /\ p = NewPod
        /\ MemOK(mem') /\ mem'.cache = mem.cache
        /\ DOMAIN mem'.pods = DOMAIN mem.pods \cup {p}
        /\ mem'.pods[p] = [data |-> [rn |-> nextRN, prev |-> prev, magic |-> "allocated"],
                           op |-> "none", pinned |-> FALSE]
        /\ \A q \in DOMAIN mem.pods : mem'.pods[q] = mem.pods[q]
  BY <1>1, AllocateIs
<1>3. /\ nextRN' = nextRN + 1 /\ held' = held \cup {p} /\ queue' = queue /\ UNCHANGED <<writer, filled, erased, late>>
      /\ older' = [older EXCEPT ![nextRN] = IF prev = nextRN THEN {} ELSE {prev} \cup older[prev]]
  BY <1>1, <1>2 DEF Allocate
<1>4. PICK n \in RN : n = nextRN /\ n \in Nat
  BY <1>2, VersionFacts
<1>5. prev \in RN /\ (prev = n \/ prev < n)
  BY <1>1, <1>4, RNIs
<1>6. /\ \A x \in RN : x # n => older'[x] = older[x]
      /\ older'[n] = IF prev = n THEN {} ELSE {prev} \cup older[prev]
  BY <1>3, <1>4, VersionFacts
<1>7. Call
  <2>1. \A q \in InLine : q \in DOMAIN mem.pods
    BY SafeFacts
  <2>2. \A q \in InLine : PodNum(q)' = PodNum(q) /\ PodPrev(q)' = PodPrev(q) /\ PodMagic(q)' = PodMagic(q)
    BY <1>2, <2>1 DEF PodNum, PodPrev, PodMagic
  <2>3. nextRN' \in Nat /\ nextRN <= nextRN'
    BY <1>3, <1>4
  <2>4. \A x \in RN : x < nextRN => older'[x] = older[x]
    BY <1>4, <1>6
  <2> QED
    BY <1>1, <1>3, <2>2, <2>3, <2>4 DEF Call
<1>8. \A q \in InLine : mem'.pods[q] = mem.pods[q]
  BY <1>2, SafeFacts
<1>9. PodNum(p)' = n /\ PodPrev(p)' = prev /\ PodMagic(p)' = "allocated"
  BY <1>2, <1>4 DEF PodNum, PodPrev, PodMagic
<1>10. \A q \in DOMAIN mem'.pods : q # p => q \in DOMAIN mem.pods /\ KeptPod(q)
  BY <1>2 DEF KeptPod, PodNum, PodPrev, PodMagic
<1>11. PlaceVersions'
  BY <1>7, CallPlaces
<1>12. LineageInv'
  <2>1. CASE prev = n
    <3>1. older[n] = {}
      BY <1>4, VersionFacts
    <3>2. \A x \in RN : older'[x] = older[x]
      BY <1>6, <2>1, <3>1
    <3> QED
      BY <3>2, VersionFacts DEF VersionInv, LineVersions, LineageInv
  <2>2. CASE prev # n
    BY <1>2, <1>4, <1>5, <1>6, <2>2, LineageExtended DEF VersionInv, LineVersions
  <2> QED
    BY <2>1, <2>2
<1>13. PodsPrior'
  <2>1. ASSUME NEW q \in DOMAIN mem'.pods, Linked(q)' \/ PodMagic(q)' # "deleted" \/ PodNum(q)' \notin filled'
        PROVE  Follows(PodNum(q), PodPrev(q))'
    <3>1. CASE q = p
      <4>1. prev # n => older'[prev] = older[prev]
        BY <1>5, <1>6
      <4> QED
        BY <1>6, <1>9, <3>1, <4>1 DEF Follows
    <3>2. CASE q # p
      BY <1>7, <1>10, <2>1, <3>2, CallPod
    <3> QED
      BY <3>1, <3>2
  <2> QED
    BY <2>1 DEF PodsPrior
<1>14. OnceInv'
  BY <1>2 DEF OnceInv, VersionInv, LineVersions
<1>15. FastInv'
  <2> SUFFICES ASSUME NEW q \in ToWrite', PodMagic(q)' = "committed", q \in ToSet(mem'.cache),
                      NEW h \in DOMAIN mem'.pods, Linked(h)', PodNum(q)' \in older'[PodNum(h)']
               PROVE  h \in held' /\ PodPrev(h)' = PodNum(q)'
    BY DEF FastInv
  <2>1. q \in ToWrite /\ PodMagic(q) = "committed" /\ q \in ToSet(mem.cache) /\ PodNum(q)' = PodNum(q)
    BY <1>2, <1>3, <1>7, <1>8, StillLine
  <2>2. CASE h = p
    <3>1. prev # n /\ Present(prev) /\ PodNum(q) \in {prev} \cup older[prev]
      BY <1>1, <1>4, <1>6, <1>9, <2>1, <2>2 DEF Linked
    <3>2. PodNum(q) \notin older[prev]
      BY <1>5, <2>1, <3>1, NotReplaced
    <3> QED
      BY <1>3, <1>9, <2>1, <2>2, <3>1, <3>2
  <2>3. CASE h # p
    <3>1. h \in held /\ PodPrev(h) = PodNum(q) /\ KeptPod(h)
      BY <1>7, <1>10, <2>1, <2>3, CallFast
    <3> QED
      BY <1>3, <2>1, <3>1 DEF KeptPod
  <2> QED
    BY <2>2, <2>3
<1>16. \A b \in RN : Ref(b)' => Cause(b)
  <2>1. \A q \in ToSet(mem'.cache) : q \in ToSet(mem.cache) /\ KeptPod(q)
    <3>1. ToSet(mem'.cache) = ToSet(mem.cache) /\ ToSet(mem.cache) \subseteq DOMAIN mem.pods
      BY <1>2, VersionFacts
    <3> QED
      BY <1>2, <1>10, <3>1
  <2>2. ASSUME NEW h \in DOMAIN mem'.pods, Linked(h)', ~KeptPod(h), NEW b \in older'[PodNum(h)']
        PROVE  Cause(b)
    <3>1. h = p
      BY <1>10, <2>2
    <3>2. prev # n /\ Present(prev) /\ b \in {prev} \cup older[prev]
      BY <1>1, <1>4, <1>6, <1>9, <2>2, <3>1 DEF Linked
    <3>3. b \in RN /\ (OnFile(b) \/ Ref(b))
      BY <1>5, <3>2, RefOfPresent, VersionFacts
    <3>4. b < nextRN
      <4>1. b = prev \/ b < prev
        BY <1>5, <3>2, VersionFacts
      <4>2. b \in Nat /\ prev \in Nat
        BY <1>5, <3>3, RNIs
      <4> QED
        BY <1>4, <1>5, <3>2, <4>1, <4>2
    <3> QED
      BY <3>3, <3>4 DEF Cause
  <2> QED
    BY <1>7, <2>1, <2>2, CallRef
<1>17. ChainInv'
  BY <1>3, <1>7, <1>8, <1>16, StillLine, CallChain DEF Cause
<1>18. FastOrderInv'
  <2>1. \A q \in ToWrite' : PodMagic(q)' = "committed" /\ q \in ToSet(mem'.cache) =>
          q \in ToWrite /\ PodMagic(q) = "committed" /\ q \in ToSet(mem.cache) /\ PodNum(q)' = PodNum(q)
    BY <1>2, <1>3, <1>7, <1>8, StillLine
  <2> QED
    BY <1>7, <2>1, CallFastOrder
<1> QED
  BY <1>3, <1>7, <1>8, <1>11, <1>12, <1>13, <1>14, <1>15, <1>17, <1>18, StillLine DEF VersionInv, LineVersions

\* A record that is committed takes the place in the cache of the one it replaces.
LEMMA PutVersions ==
  ASSUME TypeInv, SafeInv, LiveInv, VersionInv, NEW p \in held, NEW replace \in BOOLEAN, Put(p, replace)
  PROVE  VersionInv'
<1> USE DEF VersionInv, PlaceVersions, LineVersions
<1>1. /\ MemOK(mem') /\ ToSet(mem'.cache) \subseteq ToSet(mem.cache) \cup {p}
      /\ Inserted(p) /\ queue' \in Seq(DOMAIN mem'.pods)
      /\ ToSet(queue') = ToSet(queue) \cup {p} /\ p \in DOMAIN mem'.pods /\ p \in DOMAIN mem.pods
      /\ DOMAIN mem'.pods \subseteq DOMAIN mem.pods
      /\ \A q \in DOMAIN mem'.pods : q # p => mem'.pods[q] = mem.pods[q]
      /\ mem'.pods[p].data.rn = mem.pods[p].data.rn /\ mem'.pods[p].data.prev = mem.pods[p].data.prev
      /\ mem'.pods[p].data.magic = "committed"
  BY PutIs
<1>2. held' = held \ {p} /\ UNCHANGED <<writer, fs, nextRN, older, filled, erased>>
  BY DEF Put, numbers
<1>3. PodMagic(p) = "allocated" /\ p \notin InLine /\ p \notin ToSet(mem.cache) /\ p \in Pods
  BY <1>1, SafeFacts, TypeFacts DEF HeldInv
<1>4. PICK n \in RN : n = PodNum(p) /\ n < nextRN /\ \A x \in RN : n \notin older[x]
  BY <1>1, VersionFacts DEF LiveInv, FreshInv
<1>5. PodNum(p)' = n /\ PodPrev(p)' = PodPrev(p) /\ PodMagic(p)' = "committed"
  BY <1>1, <1>4 DEF PodNum, PodPrev, PodMagic
<1>6. \A q \in InLine : q \in DOMAIN mem'.pods /\ q # p /\ mem'.pods[q] = mem.pods[q]
  <2>1. ToSet(queue) \subseteq DOMAIN mem'.pods
    BY <1>1, ToSetOf
  <2>2. writer # Idle => writer.pod \in DOMAIN mem'.pods
    BY PutIs, TypeFacts, VersionFacts
  <2> QED
    BY <1>1, <1>3, <2>1, <2>2 DEF InLine
<1>7. Call
  <2>1. \A q \in InLine : PodNum(q)' = PodNum(q) /\ PodPrev(q)' = PodPrev(q) /\ PodMagic(q)' = PodMagic(q)
    BY <1>6 DEF PodNum, PodPrev, PodMagic
  <2>2. Opened(fs, fs') /\ nextRN \in Nat
    BY <1>2, TypeFacts DEF Opened
  <2> QED
    BY <1>1, <1>2, <1>3, <2>1, <2>2 DEF Call
<1>8. \A q \in DOMAIN mem'.pods : q # p => KeptPod(q)
  BY <1>1 DEF KeptPod, PodNum, PodPrev, PodMagic
<1>9. PlaceVersions'
  BY <1>7, CallPlaces
<1>10. ASSUME NEW q \in ToWrite', q # p
       PROVE  /\ q \in ToWrite /\ q \in InLine /\ PodNum(q)' = PodNum(q) /\ PodMagic(q)' = PodMagic(q)
              /\ mem'.pods[q] = mem.pods[q]
  <2>1. q \in ToWrite
    BY <1>1, <1>2, <1>10 DEF ToWrite, WriterAt
  <2> QED
    BY <1>6, <2>1, SafeFacts DEF PodNum, PodMagic
<1>11. DeletedInv'
  <2>1. ASSUME NEW q \in ToSet(queue'), PodMagic(q)' = "deleted"
        PROVE  mem'.pods[q].op = "del"
    <3>1. q # p /\ q \in ToSet(queue)
      BY <1>1, <1>5, <2>1
    <3>2. mem'.pods[q] = mem.pods[q] /\ PodMagic(q) = "deleted"
      BY <1>6, <2>1, <3>1 DEF InLine, PodMagic
    <3> QED
      BY <3>1, <3>2 DEF DeletedInv
  <2> QED
    BY <2>1 DEF DeletedInv
<1>12. LineageInv' /\ OnceInv'
  BY <1>2, <1>3, PutOnce, VersionFacts DEF LineageInv, OnceInv
<1>13. PodsPrior'
  <2>1. ASSUME NEW q \in DOMAIN mem'.pods, Linked(q)' \/ PodMagic(q)' # "deleted" \/ PodNum(q)' \notin filled'
        PROVE  Follows(PodNum(q), PodPrev(q))'
    <3>1. CASE q = p
      <4>1. Follows(n, PodPrev(p))
        BY <1>1, <1>3, <1>4 DEF PodsPrior
      <4> QED
        BY <1>2, <1>5, <3>1, <4>1 DEF Follows
    <3>2. CASE q # p
      BY <1>7, <1>8, <2>1, <3>2, CallPod
    <3> QED
      BY <3>1, <3>2
  <2> QED
    BY <2>1 DEF PodsPrior
<1>14. OrderInv' /\ LineOrderInv'
  <2>1. \A x \in RN : mem'.pods[p].data.rn \notin older'[x]
    BY <1>1, <1>2, <1>4 DEF PodNum
  <2> QED
    BY <1>1, <1>3, <1>7, <2>1, CallOrder
<1>15. FastInv'
  <2> SUFFICES ASSUME NEW q \in ToWrite', PodMagic(q)' = "committed", q \in ToSet(mem'.cache),
                      NEW h \in DOMAIN mem'.pods, Linked(h)', PodNum(q)' \in older'[PodNum(h)']
               PROVE  h \in held' /\ PodPrev(h)' = PodNum(q)'
    BY DEF FastInv
  <2>1. PodNum(h)' \in RN
    BY <1>1, <1>5, VersionFacts DEF PodNum
  <2>2. q # p
    BY <1>2, <1>4, <1>5, <2>1
  <2>3. q \in ToWrite /\ PodMagic(q) = "committed" /\ q \in ToSet(mem.cache) /\ PodNum(q)' = PodNum(q)
    BY <1>1, <1>10, <2>2
  <2>4. CASE h = p
    <3>1. Linked(p) /\ PodNum(q) \in older[n]
      BY <1>2, <1>4, <1>5, <2>3, <2>4 DEF Linked
    <3>2. PodPrev(p) = PodNum(q)
      BY <1>1, <1>4, <2>3, <3>1 DEF FastInv
    <3>3. \A r \in ToSet(mem.cache) : PodNum(r) = PodPrev(p) => r = q
      BY <2>3, <3>2, SafeFacts DEF PendingInv, Pending
    <3> QED
      BY <1>3, <2>3, <3>1, <3>2, <3>3, PutOnce DEF Linked, OnceInv
  <2>5. CASE h # p
    <3>1. h \in held /\ PodPrev(h) = PodNum(q) /\ KeptPod(h)
      BY <1>7, <1>8, <2>3, <2>5, CallFast
    <3> QED
      BY <1>2, <2>3, <2>5, <3>1 DEF KeptPod
  <2> QED
    BY <2>4, <2>5
<1>16. \A b \in RN : Ref(b)' => Cause(b)
  <2>1. Cause(n)
    <3>1. \A j \in DOMAIN queue : PodNum(queue[j]) \in RN
      BY <1>7, CallLine
    <3>2. InTurn(n)'
      BY <1>1, <1>3, <1>4, <1>5, <1>7, <3>1, InTurnNew
    <3> QED
      BY <1>4, <3>2 DEF Cause, Unpassed
  <2>2. \A q \in ToSet(mem'.cache) : (q \in ToSet(mem.cache) /\ KeptPod(q)) \/ \E c \in RN : c = PodNum(q)' /\ Cause(c)
    <3>1. ToSet(mem'.cache) \subseteq DOMAIN mem'.pods
      BY <1>1, ToSetOf DEF MemOK
    <3> QED
      BY <1>1, <1>5, <1>8, <2>1, <3>1
  <2>3. ASSUME NEW h \in DOMAIN mem'.pods, Linked(h)', ~KeptPod(h), NEW b \in older'[PodNum(h)']
        PROVE  Cause(b)
    <3>1. h = p /\ b \in older[n] /\ Linked(p)
      BY <1>2, <1>4, <1>5, <1>8, <2>3 DEF Linked
    <3>2. Ref(b)
      BY <1>1, <1>4, <3>1 DEF Ref, Seen
    <3>3. b \in RN /\ b < n
      BY <3>1, VersionFacts
    <3>4. b < nextRN
      <4>1. b \in Nat /\ n \in Nat /\ nextRN \in Nat
        BY <3>3, VersionFacts
      <4> QED
        BY <1>4, <3>3, <4>1
    <3> QED
      BY <3>2, <3>3, <3>4 DEF Cause
  <2> QED
    BY <1>7, <2>2, <2>3, CallRef
<1>17. \A a \in RN : Pend(a)' => Pend(a) \/ \A x \in RN : a \notin older'[x]
  <2> SUFFICES ASSUME NEW a \in RN, NEW q \in ToWrite', PodNum(q)' = a, PodMagic(q)' = "committed"
               PROVE  Pend(a) \/ \A x \in RN : a \notin older'[x]
    BY DEF Pend
  <2>1. CASE q = p
    BY <1>2, <1>4, <1>5, <2>1
  <2>2. CASE q # p
    BY <1>10, <2>2 DEF Pend
  <2> QED
    BY <2>1, <2>2
<1>18. \A b \in RN : BeingWritten(b) => BeingWritten(b)'
  <2>1. WriterAt({"gap", "record"}) => mem'.pods[writer.pod] = mem.pods[writer.pod]
    BY <1>6 DEF WriterAt, InLine
  <2> QED
    BY <1>2, <2>1 DEF BeingWritten, WriterAt, PodMagic
<1>19. ChainInv'
  BY <1>7, <1>16, <1>17, <1>18, CallChain DEF Cause
<1>20. FastOrderInv'
  <2>1. \A q \in ToWrite' : PodMagic(q)' = "committed" /\ q \in ToSet(mem'.cache) =>
          \/ q \in ToWrite /\ PodMagic(q) = "committed" /\ q \in ToSet(mem.cache) /\ PodNum(q)' = PodNum(q)
          \/ \A x \in RN : PodNum(q)' \notin older'[x]
    BY <1>1, <1>2, <1>4, <1>5, <1>10
  <2> QED
    BY <1>7, <2>1, CallFastOrder
<1> QED
  BY <1>9, <1>11, <1>12, <1>13, <1>14, <1>15, <1>19, <1>20

\* What a deletion that is queued leaves as it is, whatever record it is of.
LEMMA AbortVersions ==
  ASSUME TypeInv, SafeInv, VersionInv, NEW p \in held, Abort(p)
  PROVE  VersionInv'
<1> USE DEF VersionInv, PlaceVersions, LineVersions
<1>1. /\ MemOK(mem') /\ mem'.cache = mem.cache
      /\ Inserted(p) /\ queue' \in Seq(DOMAIN mem'.pods)
      /\ ToSet(queue') = ToSet(queue) \cup {p} /\ p \in DOMAIN mem'.pods /\ p \in DOMAIN mem.pods
      /\ DOMAIN mem'.pods \subseteq DOMAIN mem.pods
      /\ \A q \in DOMAIN mem'.pods : q # p => mem'.pods[q] = mem.pods[q]
      /\ mem'.pods[p].data.rn = mem.pods[p].data.rn /\ mem'.pods[p].data.prev = mem.pods[p].data.prev
      /\ mem'.pods[p].data.magic = "deleted" /\ mem'.pods[p].op = "del"
  BY AbortIs
<1>2. held' = held \ {p} /\ UNCHANGED <<writer, fs, nextRN, older, filled, erased>> /\ ~Linked(p)
  BY DEF Abort, numbers, history, Linked, PodNum, PodPrev
<1>3. p \notin InLine /\ p \notin ToSet(mem.cache) /\ p \in Pods
  BY <1>1, SafeFacts, TypeFacts DEF HeldInv
<1>4. \A q \in DOMAIN mem'.pods : KeptPod(q)
  BY <1>1 DEF KeptPod, PodNum, PodPrev, PodMagic
<1>5. \A q \in InLine : q \in DOMAIN mem'.pods /\ q # p /\ mem'.pods[q] = mem.pods[q]
  <2>1. ToSet(queue) \subseteq DOMAIN mem'.pods
    BY <1>1, ToSetOf
  <2>2. writer # Idle => writer.pod \in DOMAIN mem'.pods
    BY AbortIs, TypeFacts, VersionFacts
  <2> QED
    BY <1>1, <1>3, <2>1, <2>2 DEF InLine
<1>6. Call
  <2>1. \A q \in InLine : PodNum(q)' = PodNum(q) /\ PodPrev(q)' = PodPrev(q) /\ PodMagic(q)' = PodMagic(q)
    BY <1>5 DEF PodNum, PodPrev, PodMagic
  <2>2. Opened(fs, fs') /\ nextRN \in Nat
    BY <1>2, TypeFacts DEF Opened
  <2> QED
    BY <1>1, <1>2, <1>3, <2>1, <2>2 DEF Call
<1>7. PodMagic(p)' = "deleted" /\ mem'.pods[p].op = "del" /\ ~Linked(p)'
  BY <1>1, <1>2 DEF PodMagic, Linked, PodNum, PodPrev
<1>8. PlaceVersions'
  BY <1>6, CallPlaces
<1>9. /\ DeletedInv' /\ OrderInv' /\ LineOrderInv'
      /\ \A q \in ToWrite' : PodMagic(q)' = "committed" =>
           q \in ToWrite /\ q # p /\ PodMagic(q) = "committed" /\ PodNum(q)' = PodNum(q)
      /\ \A a \in RN : Pend(a)' => Pend(a)
  BY <1>1, <1>3, <1>5, <1>6, <1>7, CondemnedLine
<1>10. LineageInv' /\ OnceInv'
  BY <1>1, <1>2, VersionFacts DEF LineageInv, OnceInv
<1>11. PodsPrior'
  <2>1. ASSUME NEW q \in DOMAIN mem'.pods, Linked(q)' \/ PodMagic(q)' # "deleted" \/ PodNum(q)' \notin filled'
        PROVE  Follows(PodNum(q), PodPrev(q))'
    BY <1>4, <1>6, <2>1, CallPod
  <2> QED
    BY <2>1 DEF PodsPrior
<1>12. FastInv'
  <2> SUFFICES ASSUME NEW q \in ToWrite', PodMagic(q)' = "committed", q \in ToSet(mem'.cache),
                      NEW h \in DOMAIN mem'.pods, Linked(h)', PodNum(q)' \in older'[PodNum(h)']
               PROVE  h \in held' /\ PodPrev(h)' = PodNum(q)'
    BY DEF FastInv
  <2>1. q \in ToWrite /\ PodMagic(q) = "committed" /\ q \in ToSet(mem.cache) /\ PodNum(q)' = PodNum(q)
    BY <1>1, <1>9
  <2>2. h \in held /\ PodPrev(h) = PodNum(q) /\ KeptPod(h)
    BY <1>4, <1>6, <2>1, CallFast
  <2> QED
    BY <1>2, <1>7, <2>1, <2>2 DEF KeptPod
<1>13. \A b \in RN : Ref(b)' => Cause(b)
  <2>1. ToSet(mem'.cache) \subseteq DOMAIN mem'.pods
    BY <1>1, ToSetOf DEF MemOK
  <2> QED
    BY <1>1, <1>4, <1>6, <2>1, CallRef
<1>14. \A b \in RN : BeingWritten(b) => BeingWritten(b)'
  <2>1. WriterAt({"gap", "record"}) => mem'.pods[writer.pod] = mem.pods[writer.pod]
    BY <1>5 DEF WriterAt, InLine
  <2> QED
    BY <1>2, <2>1 DEF BeingWritten, WriterAt, PodMagic
<1>15. ChainInv'
  BY <1>6, <1>9, <1>13, <1>14, CallChain DEF Cause
<1>16. FastOrderInv'
  BY <1>1, <1>6, <1>9, CallFastOrder
<1> QED
  BY <1>8, <1>9, <1>10, <1>11, <1>12, <1>15, <1>16

\* A call that queues nothing, and leaves in memory what was there and what it reads.
LEMMA ReadVersions ==
  ASSUME TypeInv, SafeInv, VersionInv, Opened(fs, fs'),
         UNCHANGED <<nextRN, writer, held, queue, older, filled, erased, late>>,
         \A q \in DOMAIN mem'.pods :
           \/ q \in DOMAIN mem.pods /\ mem'.pods[q] = mem.pods[q]
           \/ q \notin DOMAIN mem.pods /\ ReadPod(q),
         InLine \subseteq DOMAIN mem'.pods, ToSet(mem'.cache) \subseteq DOMAIN mem'.pods,
         ToSet(mem'.cache) \subseteq ToSet(mem.cache) \cup (DOMAIN mem'.pods \ DOMAIN mem.pods), OnceInv'
  PROVE  VersionInv'
<1> USE DEF VersionInv, PlaceVersions, LineVersions
<1>1. \A q \in InLine : mem'.pods[q] = mem.pods[q]
  BY SafeFacts
<1>2. Call
  <2>1. \A q \in InLine : PodNum(q)' = PodNum(q) /\ PodPrev(q)' = PodPrev(q) /\ PodMagic(q)' = PodMagic(q)
    BY <1>1 DEF PodNum, PodPrev, PodMagic
  <2>2. nextRN \in Nat
    BY TypeFacts
  <2> QED
    BY <2>1, <2>2 DEF Call
<1>3. \A q \in DOMAIN mem'.pods : KeptPod(q) \/ ReadPod(q)
  BY DEF KeptPod, PodNum, PodPrev, PodMagic
<1>4. \A q \in ToSet(mem'.cache) : (q \in ToSet(mem.cache) /\ KeptPod(q)) \/ ReadPod(q)
  <2>1. ToSet(mem.cache) \subseteq DOMAIN mem.pods
    BY VersionFacts
  <2>2. \A q \in DOMAIN mem'.pods : q \in DOMAIN mem.pods => KeptPod(q)
    BY DEF KeptPod, PodNum, PodPrev, PodMagic
  <2> QED
    BY <2>1, <2>2
<1>5. /\ DeletedInv' /\ OrderInv' /\ LineOrderInv' /\ ToWrite' = ToWrite
      /\ \A q \in ToWrite : PodNum(q)' = PodNum(q) /\ PodMagic(q)' = PodMagic(q)
      /\ \A a \in RN : Pend(a)' => Pend(a)
      /\ \A b \in RN : BeingWritten(b) => BeingWritten(b)'
  BY <1>1, <1>2, StillLine
<1>6. PodsPrior'
  <2>1. ASSUME NEW q \in DOMAIN mem'.pods, Linked(q)' \/ PodMagic(q)' # "deleted" \/ PodNum(q)' \notin filled'
        PROVE  Follows(PodNum(q), PodPrev(q))'
    BY <1>2, <1>3, <2>1, CallPod
  <2> QED
    BY <2>1 DEF PodsPrior
<1>7. FastInv'
  <2> SUFFICES ASSUME NEW q \in ToWrite', PodMagic(q)' = "committed", q \in ToSet(mem'.cache),
                      NEW h \in DOMAIN mem'.pods, Linked(h)', PodNum(q)' \in older'[PodNum(h)']
               PROVE  h \in held' /\ PodPrev(h)' = PodNum(q)'
    BY DEF FastInv
  <2>1. q \in ToWrite /\ PodMagic(q) = "committed" /\ q \in ToSet(mem.cache) /\ PodNum(q)' = PodNum(q)
    BY <1>5, VersionFacts
  <2>2. h \in held /\ PodPrev(h) = PodNum(q) /\ KeptPod(h)
    BY <1>2, <1>3, <2>1, CallFast
  <2> QED
    BY <2>1, <2>2 DEF KeptPod
<1>8. ChainInv'
  <2>1. \A b \in RN : Ref(b)' => Cause(b)
    BY <1>2, <1>3, <1>4, CallRef
  <2> QED
    BY <1>2, <1>5, <2>1, CallChain DEF Cause
<1>9. LineageInv'
  BY VersionFacts DEF LineageInv
<1>10. FastOrderInv'
  <2>1. \A q \in ToWrite' : PodMagic(q)' = "committed" /\ q \in ToSet(mem'.cache) =>
          q \in ToWrite /\ PodMagic(q) = "committed" /\ q \in ToSet(mem.cache) /\ PodNum(q)' = PodNum(q)
    BY <1>5, VersionFacts
  <2> QED
    BY <1>2, <2>1, CallFastOrder
<1> QED
  BY <1>2, <1>5, <1>6, <1>7, <1>8, <1>9, <1>10, CallPlaces

LEMMA GetVersions ==
  ASSUME TypeInv, SafeInv, VersionInv, Get
  PROVE  VersionInv'
<1>1. /\ Opened(fs, fs') /\ MemOK(mem') /\ queue' \in Seq(DOMAIN mem'.pods)
      /\ writer.pod \in DOMAIN mem.pods => writer.pod \in DOMAIN mem'.pods
      /\ UNCHANGED <<held, queue, writer>>
  BY GetIs
<1>2. PICK rn \in 0..(nextRN - 1), c \in Pods :
        /\ \A q \in DOMAIN mem'.pods :
             \/ q \in DOMAIN mem.pods /\ mem'.pods[q] = mem.pods[q]
             \/ /\ q = c /\ c \notin DOMAIN mem.pods /\ mem'.pods[q] = Loaded(rn)
                /\ At(fs, rn).magic = "committed"
        /\ ToSet(mem'.cache) \subseteq ToSet(mem.cache) \cup (DOMAIN mem'.pods \ DOMAIN mem.pods)
  BY GetIs
<1>3. UNCHANGED <<nextRN, older, filled, erased, late>>
  BY DEF Get, numbers, history
<1>4. rn \in RN /\ rn < nextRN
  <2>1. rn \in Nat /\ rn < nextRN /\ nextRN <= MaxRN /\ MaxRN \in Nat /\ nextRN \in Nat
    BY <1>2, TypeFacts
  <2> QED
    BY <2>1, RNIs
<1>5. ASSUME NEW q, mem'.pods[q] = Loaded(rn)
      PROVE  ReadPod(q)
  BY <1>4, <1>5 DEF ReadPod, Loaded, PodNum, PodPrev, PodMagic
<1>6. InLine \subseteq DOMAIN mem'.pods
  <2>1. ToSet(queue) \subseteq DOMAIN mem'.pods
    BY <1>1, ToSetOf
  <2> QED
    BY <1>1, <2>1, VersionFacts DEF InLine
<1>7. ToSet(mem'.cache) \subseteq DOMAIN mem'.pods
  BY <1>1, ToSetOf DEF MemOK
<1>8. OnceInv'
  BY GetOnce DEF OnceInv, VersionInv, LineVersions
<1>9. \A q \in DOMAIN mem'.pods :
        \/ q \in DOMAIN mem.pods /\ mem'.pods[q] = mem.pods[q]
        \/ q \notin DOMAIN mem.pods /\ ReadPod(q)
  BY <1>2, <1>5
<1> QED
  BY <1>1, <1>2, <1>3, <1>6, <1>7, <1>8, <1>9, ReadVersions

LEMMA QuietVersions ==
  ASSUME TypeInv, SafeInv, VersionInv, Opened(fs, fs'),
         UNCHANGED <<mem, nextRN, writer, held, queue, older, filled, erased, late>>
  PROVE  VersionInv'
<1>1. InLine \subseteq DOMAIN mem'.pods /\ ToSet(mem'.cache) \subseteq DOMAIN mem'.pods
  BY VersionFacts, SafeFacts
<1>2. OnceInv'
  BY DEF OnceInv, VersionInv, LineVersions
<1> QED
  BY <1>1, <1>2, ReadVersions

LEMMA RecoverVersions ==
  ASSUME TypeInv, SafeInv, VersionInv, Recover
  PROVE  VersionInv'
<1>1. /\ MemOK(mem') /\ queue' \in Seq(DOMAIN mem'.pods)
      /\ writer.pod \in DOMAIN mem.pods => writer.pod \in DOMAIN mem'.pods
      /\ UNCHANGED <<held, queue, writer>>
  BY RecoverIs
<1>2. PICK rn \in recovering, c \in Pods :
        /\ \A q \in DOMAIN mem'.pods :
             \/ q \in DOMAIN mem.pods /\ mem'.pods[q] = mem.pods[q]
             \/ q = c /\ mem'.pods[q] = Loaded(rn)
        /\ c \notin DOMAIN mem.pods /\ ToSet(mem'.cache) \subseteq ToSet(mem.cache) \cup {c}
  BY RecoverIs
<1>3. UNCHANGED <<nextRN, older, filled, erased, late, fs>>
  BY DEF Recover, numbers, history
<1>4. rn \in RN /\ rn < nextRN
  <2>1. rn \in RN /\ recovering # {}
    BY <1>2 DEF TypeInv, RecoveryTyped
  <2>2. At(fs, rn).magic # "zero"
    BY <1>2, <2>1, SafeFacts DEF RecoverInv
  <2> QED
    BY <2>1, <2>2, VersionFacts
<1>5. ASSUME NEW q, mem'.pods[q] = Loaded(rn)
      PROVE  ReadPod(q)
  BY <1>4, <1>5 DEF ReadPod, Loaded, PodNum, PodPrev, PodMagic
<1>6. InLine \subseteq DOMAIN mem'.pods
  <2>1. ToSet(queue) \subseteq DOMAIN mem'.pods
    BY <1>1, ToSetOf
  <2> QED
    BY <1>1, <2>1, VersionFacts DEF InLine
<1>7. ToSet(mem'.cache) \subseteq DOMAIN mem'.pods
  BY <1>1, ToSetOf DEF MemOK
<1>8. OnceInv'
  BY RecoverOnce DEF OnceInv, VersionInv, LineVersions
<1>9. Opened(fs, fs')
  BY <1>3, TypeFacts DEF Opened
<1>10. \A q \in DOMAIN mem'.pods :
         \/ q \in DOMAIN mem.pods /\ mem'.pods[q] = mem.pods[q]
         \/ q \notin DOMAIN mem.pods /\ ReadPod(q)
  BY <1>2, <1>5
<1>11. ToSet(mem'.cache) \subseteq ToSet(mem.cache) \cup (DOMAIN mem'.pods \ DOMAIN mem.pods)
  BY <1>2, <1>7
<1> QED
  BY <1>1, <1>3, <1>6, <1>7, <1>8, <1>9, <1>10, <1>11, ReadVersions

\* A deletion of a record the application finds, by a new number or its own.
LEMMA CondemnedVersions ==
  ASSUME TypeInv, SafeInv, VersionInv, NEW c \in Pods, Condemned(c), Call, LineageInv', OnceInv',
         Linked(c)' \/ PodNum(c)' \notin filled' => Follows(PodNum(c), PodPrev(c))',
         c \in InLine => KeptPod(c) /\ c \in ToSet(mem.cache),
         \A q \in ToWrite : PodMagic(q) = "committed" /\ q # c /\ q \in ToSet(mem.cache) /\ Linked(c)' =>
           PodNum(q) \notin older'[PodNum(c)'],
         Linked(c)' => KeptPod(c) \/ ReadPod(c) \/ \A b \in older'[PodNum(c)'] : Cause(b)
  PROVE  VersionInv'
<1> USE DEF VersionInv, PlaceVersions, LineVersions
<1>1. /\ MemOK(mem') /\ ToSet(mem'.cache) \subseteq ToSet(mem.cache)
      /\ Inserted(c) /\ queue' \in Seq(DOMAIN mem'.pods) /\ held' = held /\ writer' = writer
      /\ ToSet(queue') = ToSet(queue) \cup {c} /\ c \in DOMAIN mem'.pods
      /\ writer.pod \in DOMAIN mem.pods => writer.pod \in DOMAIN mem'.pods
      /\ \A q \in DOMAIN mem'.pods : q # c => q \in DOMAIN mem.pods /\ mem'.pods[q] = mem.pods[q]
      /\ mem'.pods[c].data.magic = "deleted" /\ mem'.pods[c].op = "del"
  BY DEF Condemned
<1>2. PodMagic(c)' = "deleted"
  BY <1>1 DEF PodMagic
<1>3. \A q \in InLine : q \in DOMAIN mem'.pods /\ (q # c => mem'.pods[q] = mem.pods[q])
  <2>1. ToSet(queue) \subseteq DOMAIN mem'.pods
    BY <1>1, ToSetOf
  <2> QED
    BY <1>1, <2>1, VersionFacts DEF InLine
<1>4. \A q \in DOMAIN mem'.pods : q # c => KeptPod(q)
  BY <1>1 DEF KeptPod, PodNum, PodPrev, PodMagic
<1>5. /\ DeletedInv' /\ OrderInv' /\ LineOrderInv'
      /\ \A q \in ToWrite' : PodMagic(q)' = "committed" =>
           q \in ToWrite /\ q # c /\ PodMagic(q) = "committed" /\ PodNum(q)' = PodNum(q)
      /\ \A a \in RN : Pend(a)' => Pend(a)
  BY <1>1, <1>2, <1>3, CondemnedLine
<1>6. PodsPrior'
  <2>1. ASSUME NEW q \in DOMAIN mem'.pods, Linked(q)' \/ PodMagic(q)' # "deleted" \/ PodNum(q)' \notin filled'
        PROVE  Follows(PodNum(q), PodPrev(q))'
    <3>1. CASE q = c
      BY <1>2, <2>1, <3>1
    <3>2. CASE q # c
      BY <1>4, <2>1, <3>2, CallPod
    <3> QED
      BY <3>1, <3>2
  <2> QED
    BY <2>1 DEF PodsPrior
<1>7. FastInv'
  <2> SUFFICES ASSUME NEW q \in ToWrite', PodMagic(q)' = "committed", q \in ToSet(mem'.cache),
                      NEW h \in DOMAIN mem'.pods, Linked(h)', PodNum(q)' \in older'[PodNum(h)']
               PROVE  h \in held' /\ PodPrev(h)' = PodNum(q)'
    BY DEF FastInv
  <2>1. q \in ToWrite /\ q # c /\ PodMagic(q) = "committed" /\ q \in ToSet(mem.cache) /\ PodNum(q)' = PodNum(q)
    BY <1>1, <1>5
  <2>2. h # c
    BY <2>1
  <2>3. h \in held /\ PodPrev(h) = PodNum(q) /\ KeptPod(h)
    BY <1>4, <2>1, <2>2, CallFast
  <2> QED
    BY <1>1, <2>1, <2>3 DEF KeptPod
<1>8. \A b \in RN : Ref(b)' => Cause(b)
  <2>1. \A q \in ToSet(mem'.cache) : PodMagic(q)' = "committed" => q \in ToSet(mem.cache) /\ KeptPod(q)
    <3>1. ToSet(mem'.cache) \subseteq DOMAIN mem'.pods
      BY <1>1, ToSetOf DEF MemOK
    <3> QED
      BY <1>1, <1>2, <1>4, <3>1
  <2>2. \A h \in DOMAIN mem'.pods : Linked(h)' =>
          KeptPod(h) \/ ReadPod(h) \/ \A b \in older'[PodNum(h)'] : Cause(b)
    BY <1>4
  <2> QED
    BY <2>1, <2>2, CallRef
<1>9. ASSUME NEW b \in RN, BeingWritten(b)
      PROVE  BeingWritten(b)' \/ InTurn(b)'
  <2>1. writer # Idle /\ writer.pod \in ToWrite /\ writer.pod \in InLine /\ PodNum(writer.pod) = b /\ writer.rn = b
    BY <1>9, VersionFacts DEF BeingWritten, ToWrite, WriterAt, InLine
  <2>2. CASE writer.op # "add" \/ writer.pod # c
    <3>1. writer.op # "add" \/ PodMagic(writer.pod)' = PodMagic(writer.pod)
      BY <1>1, <1>3, <2>1, <2>2 DEF PodMagic
    <3> QED
      BY <1>1, <1>9, <3>1 DEF BeingWritten, WriterAt
  <2>3. CASE writer.op = "add" /\ writer.pod = c
    <3>1. PodMagic(c) = "committed" /\ c \in ToWrite /\ PodNum(c) = b /\ KeptPod(c) /\ c \in ToSet(mem.cache)
      BY <1>9, <2>1, <2>3 DEF BeingWritten
    <3>2. ASSUME NEW j \in DOMAIN queue, Linked(queue[j])
          PROVE  b \notin older[PodNum(queue[j])]
      <4>1. PICK h \in ToSet(queue) : h = queue[j]
        BY VersionFacts
      <4>2. h \in InLine /\ h \in DOMAIN mem.pods /\ Linked(h)
        BY <3>2, <4>1, VersionFacts DEF InLine
      <4>3. h \notin held
        BY <4>2, SafeFacts DEF HeldInv
      <4>4. b \notin older[PodNum(h)]
        BY <3>1, <4>2, <4>3 DEF FastInv
      <4> QED
        BY <4>1, <4>4
    <3>3. PodNum(c)' = b
      BY <3>1 DEF KeptPod
    <3> QED
      BY <1>1, <3>2, <3>3, InTurnNew
  <2> QED
    BY <2>2, <2>3
<1>10. ChainInv'
  BY <1>5, <1>8, <1>9, CallChain DEF Cause
<1>11. FastOrderInv'
  BY <1>1, <1>5, CallFastOrder
<1> QED
  BY <1>5, <1>6, <1>7, <1>10, <1>11, CallPlaces

LEMMA DelVersions ==
  ASSUME DelQueued = FALSE, TypeInv, SafeInv, VersionInv, Del
  PROVE  VersionInv'
<1>1. /\ Opened(fs, fs') /\ nextRN \in RN /\ nextRN' = nextRN + 1
      /\ UNCHANGED <<filled, erased>>
  BY DelIs DEF Del
<1>2. PICK rn \in 0..(nextRN - 1), c \in Pods :
        /\ Condemned(c)
        /\ older' = [older EXCEPT ![nextRN] = {rn} \cup older[rn]]
        /\ mem'.pods[c].data.rn = nextRN /\ mem'.pods[c].data.prev = rn
        /\ c \in DOMAIN mem.pods =>
             /\ mem.pods[c].data.magic = "committed" /\ (~mem.pods[c].pinned \/ DelQueued)
             /\ mem.pods[c].data.rn = rn /\ c \in ToSet(mem.cache)
        /\ c \notin DOMAIN mem.pods => At(fs, rn).magic = "committed"
  BY DelIs
<1>3. PICK n \in RN : n = nextRN /\ n \in Nat
  BY <1>1, VersionFacts
<1>4. rn \in RN /\ rn < n
  BY <1>2, <1>3, RNIs
<1>5. /\ \A x \in RN : x # n => older'[x] = older[x]
      /\ older'[n] = {rn} \cup older[rn] /\ older'[rn] = older[rn]
  BY <1>2, <1>3, <1>4, VersionFacts
<1>6. c \notin InLine
  <2>1. \A p \in InLine : p \in DOMAIN mem.pods /\ (PodMagic(p) = "committed" => mem.pods[p].pinned = TRUE)
    BY SafeFacts DEF LineInv
  <2> QED
    BY <1>2, <2>1 DEF PodMagic
<1>7. /\ \A q \in DOMAIN mem'.pods : q # c => q \in DOMAIN mem.pods /\ mem'.pods[q] = mem.pods[q]
      /\ queue' \in Seq(DOMAIN mem'.pods) /\ Inserted(c) /\ writer' = writer
      /\ ToSet(queue') = ToSet(queue) \cup {c}
      /\ writer.pod \in DOMAIN mem.pods => writer.pod \in DOMAIN mem'.pods
  BY <1>2 DEF Condemned
<1>8. Call
  <2>1. \A q \in InLine : q \in DOMAIN mem'.pods /\ q # c
    <3>1. ToSet(queue) \subseteq DOMAIN mem'.pods
      BY <1>7, ToSetOf
    <3> QED
      BY <1>6, <1>7, <3>1, VersionFacts DEF InLine
  <2>2. \A q \in InLine : PodNum(q)' = PodNum(q) /\ PodPrev(q)' = PodPrev(q) /\ PodMagic(q)' = PodMagic(q)
    BY <1>7, <2>1 DEF PodNum, PodPrev, PodMagic
  <2>3. nextRN' \in Nat /\ nextRN <= nextRN'
    BY <1>1, <1>3
  <2>4. \A x \in RN : x < nextRN => older'[x] = older[x]
    BY <1>3, <1>5
  <2> QED
    BY <1>1, <1>7, <2>2, <2>3, <2>4 DEF Call
<1>9. PodNum(c)' = n /\ PodPrev(c)' = rn
  BY <1>2, <1>3 DEF PodNum, PodPrev
<1>10. Present(rn)
  BY <1>2 DEF Present, PodNum, PodMagic
<1>11. Follows(PodNum(c), PodPrev(c))'
  BY <1>4, <1>5, <1>9 DEF Follows
<1>12. LineageInv' /\ OnceInv'
  <2>1. LineageInv'
    BY <1>1, <1>3, <1>4, <1>5, LineageExtended DEF VersionInv, LineVersions
  <2> QED
    BY <2>1, DelOnce DEF OnceInv, VersionInv, LineVersions
<1>13. ASSUME NEW q \in ToWrite, PodMagic(q) = "committed", q # c, q \in ToSet(mem.cache)
       PROVE  PodNum(q) \notin older'[PodNum(c)']
  <2>1. PodNum(q) \notin older[rn]
    BY <1>4, <1>10, <1>13, NotReplaced
  <2>2. PodNum(q) # rn
    <3>1. /\ At(fs, PodNum(q)).magic # "committed"
          /\ \A r \in DOMAIN mem.pods : r # q /\ PodNum(r) = PodNum(q) => PodMagic(r) # "committed"
      BY <1>13, SafeFacts DEF PendingInv, Pending
    <3> QED
      BY <1>2, <1>13, <3>1 DEF PodNum, PodMagic
  <2> QED
    BY <1>5, <1>9, <2>1, <2>2
<1>14. ASSUME NEW b \in older'[PodNum(c)']
       PROVE  Cause(b)
  <2>1. b \in {rn} \cup older[rn]
    BY <1>5, <1>9, <1>14
  <2>2. b \in RN /\ (OnFile(b) \/ Ref(b))
    BY <1>4, <1>10, <2>1, RefOfPresent, VersionFacts
  <2>3. b < nextRN
    <3>1. b = rn \/ b < rn
      BY <1>4, <2>1, VersionFacts
    <3>2. b \in Nat /\ rn \in Nat
      BY <1>4, <2>2, RNIs
    <3> QED
      BY <1>3, <1>4, <3>1, <3>2
  <2> QED
    BY <2>2, <2>3 DEF Cause
<1> QED
  BY <1>2, <1>6, <1>8, <1>11, <1>12, <1>13, <1>14, CondemnedVersions

LEMMA PurgeVersions ==
  ASSUME TypeInv, SafeInv, VersionInv, Purge
  PROVE  VersionInv'
<1>1. UNCHANGED <<mem, fs, nextRN, writer, held, queue, older, filled, erased, late>>
  BY DEF Purge, numbers, history
<1>2. Opened(fs, fs')
  BY <1>1, TypeFacts DEF Opened
<1> QED
  BY <1>1, <1>2, QuietVersions

LEMMA PurgeStepVersions ==
  ASSUME TypeInv, SafeInv, VersionInv, PurgeStep
  PROVE  VersionInv'
<1>1. UNCHANGED <<nextRN, older, filled, erased>>
  BY DEF PurgeStep
<1>2. CASE UNCHANGED <<mem, fs, minRN, queue, live, late, held, writer>>
  <2>1. Opened(fs, fs')
    BY <1>2, TypeFacts DEF Opened
  <2> QED
    BY <1>1, <1>2, <2>1, QuietVersions
<1>3. CASE Opened(fs, fs') /\ UNCHANGED <<mem, minRN, queue, live, late, held, writer>>
  BY <1>1, <1>3, QuietVersions
<1>4. ASSUME Opened(fs, fs'), purging.rn < nextRN, purging.rn \in RN, NEW c \in Pods, Condemned(c),
             c \in DOMAIN mem.pods =>
               /\ c \in ToSet(mem.cache)
               /\ mem'.pods[c].data.rn = mem.pods[c].data.rn
               /\ mem'.pods[c].data.prev = mem.pods[c].data.prev,
             c \notin DOMAIN mem.pods =>
               /\ mem'.pods[c].data.rn = At(fs, purging.rn).rn
               /\ mem'.pods[c].data.prev = At(fs, purging.rn).prev
      PROVE  VersionInv'
  <2>1. /\ \A q \in DOMAIN mem'.pods : q # c => q \in DOMAIN mem.pods /\ mem'.pods[q] = mem.pods[q]
        /\ queue' \in Seq(DOMAIN mem'.pods) /\ Inserted(c) /\ writer' = writer
        /\ ToSet(queue') = ToSet(queue) \cup {c} /\ mem'.pods[c].data.magic = "deleted"
        /\ writer.pod \in DOMAIN mem.pods => writer.pod \in DOMAIN mem'.pods
    BY <1>4 DEF Condemned
  <2>2. c \in DOMAIN mem.pods => KeptPod(c)
    BY <1>4, <2>1 DEF KeptPod, PodNum, PodPrev, PodMagic
  <2>3. c \notin DOMAIN mem.pods => ReadPod(c)
    BY <1>4, <2>1 DEF ReadPod, PodNum, PodPrev, PodMagic
  <2>4. Call
    <3>1. \A q \in InLine : q \in DOMAIN mem'.pods
      <4>1. ToSet(queue) \subseteq DOMAIN mem'.pods
        BY <2>1, ToSetOf
      <4> QED
        BY <2>1, <4>1, VersionFacts DEF InLine
    <3>2. ASSUME NEW q \in InLine
          PROVE  PodNum(q)' = PodNum(q) /\ PodPrev(q)' = PodPrev(q) /\ PodMagic(q)' \in {PodMagic(q), "deleted"}
      <4>1. CASE q = c
        BY <2>2, <4>1, SafeFacts DEF KeptPod
      <4>2. CASE q # c
        BY <2>1, <3>1, <4>2 DEF PodNum, PodPrev, PodMagic
      <4> QED
        BY <4>1, <4>2
    <3>3. nextRN \in Nat
      BY TypeFacts
    <3> QED
      BY <1>1, <1>4, <2>1, <3>2, <3>3 DEF Call
  <2>5. Linked(c)' \/ PodNum(c)' \notin filled' => Follows(PodNum(c), PodPrev(c))'
    BY <2>2, <2>3, <2>4, CallPod
  <2>6. LineageInv' /\ OnceInv'
    BY <1>1, PurgeStepOnce, VersionFacts DEF LineageInv, OnceInv, VersionInv, LineVersions
  <2>7. c \in InLine => KeptPod(c) /\ c \in ToSet(mem.cache)
    BY <1>4, <2>2, SafeFacts
  <2>8. ASSUME NEW q \in ToWrite, PodMagic(q) = "committed", q \in ToSet(mem.cache), Linked(c)',
               PodNum(q) \in older'[PodNum(c)']
        PROVE  FALSE
    <3>1. c \in held /\ c \in DOMAIN mem.pods
      BY <2>2, <2>3, <2>4, <2>8, CallFast DEF KeptPod
    <3> QED
      BY <1>4, <3>1, SafeFacts DEF HeldInv
  <2> QED
    BY <1>4, <2>2, <2>3, <2>4, <2>5, <2>6, <2>7, <2>8, CondemnedVersions
<1> QED
  BY <1>2, <1>3, <1>4, PurgeStepIs

-----------------------------------------------------------------------------
(* What the write thread's steps leave of the chains *)

\* What an erasure leaves of the places in the files: a file it removes had no record left that was
\* not marked deleted before it was written.
LEMMA ErasedPlaces ==
  ASSUME UnmarkedInv, NEW r \in RN, NEW d, Erased(fs, fs', r, d), NEW x \in RN
  PROVE  /\ At(fs', x) = At(fs, x) \/ At(fs', x) = Zero \/ (x = r /\ At(fs', x) = d)
         /\ x = r => At(fs', x) = Zero \/ At(fs', x) = d
         /\ OnFile(x) /\ x \notin filled /\ x # r => At(fs', x) = At(fs, x)
<1>1. x \in Nat /\ r \in Nat
  BY RNIs
<1>2. CASE Removed(fs, fs', r)
  <2>1. CASE SameFile(x, r)
    <3>1. At(fs', x) = Zero
      BY <1>1, <1>2, <2>1 DEF Removed
    <3>2. x # r => Marked(fs, x) \/ At(fs, x).magic \in Gone
      BY <1>1, <1>2, <2>1 DEF Removed
    <3>3. ~(OnFile(x) /\ x \notin filled /\ x # r)
      BY <1>1, <3>2 DEF UnmarkedInv, OnFile, Gone
    <3> QED
      BY <3>1, <3>3
  <2>2. CASE ~SameFile(x, r)
    BY <1>1, <1>2, <2>2 DEF Removed, SameFile
  <2> QED
    BY <2>1, <2>2
<1>3. CASE At(fs', r) = d /\ \A n \in Nat : n # r => At(fs', n) = At(fs, n)
  BY <1>1, <1>3
<1> QED
  BY <1>2, <1>3 DEF Erased

\* A step of a write: of the places it fills only its own may refer to others.
WriteStep ==
  /\ WriterUnchanged /\ UNCHANGED <<mem, queue, erased>> /\ filled \subseteq filled'
  /\ writer # Idle /\ writer' # Idle /\ ToWrite' \subseteq ToWrite
  /\ writer'.rn = writer.rn /\ writer'.pod = writer.pod /\ writer'.op = writer.op
  /\ writer'.prev # writer.rn => writer.prev # writer.rn
  /\ \A x \in RN : DiskLinked(x)' => DiskLinked(x) \/ (x = writer.rn /\ Linked(writer.pod))

LEMMA WriteStepIs ==
  ASSUME TypeInv, SafeInv, VersionInv, WriteStep
  PROVE  /\ \A x \in RN : Passed(x)' => Passed(x)
         /\ \A b \in RN : Unpassed(b) => Unpassed(b)'
         /\ \A b \in RN : InTurn(b) => InTurn(b)'
         /\ \A b \in RN : Ref(b)' => Ref(b)
         /\ \A b \in RN : Clean(b)' => Clean(b) /\ b \notin filled'
         /\ \A b \in RN : Pend(b)' => Pend(b)
<1>1. /\ \A q : PodNum(q)' = PodNum(q) /\ PodPrev(q)' = PodPrev(q) /\ PodMagic(q)' = PodMagic(q)
      /\ UNCHANGED <<mem, queue, erased, older, nextRN, held>>
  BY WriteFacts DEF WriteStep
<1>2. ASSUME NEW x \in RN, Passed(x)'
      PROVE  Passed(x)
  <2>1. CASE x \in erased' \ filled'
    BY <1>1, <2>1 DEF Passed, WriteStep
  <2>2. CASE DiskLinked(x)'
    <3>1. CASE x = writer.rn /\ Linked(writer.pod)
      BY <3>1 DEF Passed, WriteStep, VersionInv, PlaceVersions, WriterPrior
    <3> QED
      BY <2>2, <3>1 DEF Passed, WriteStep
  <2>3. CASE writer' # Idle /\ writer'.rn = x /\ writer'.prev # x
    BY <2>3 DEF Passed, WriteStep
  <2> QED
    BY <1>2, <2>1, <2>2, <2>3 DEF Passed
<1>3. \A b \in RN : Unpassed(b) => Unpassed(b)'
  BY <1>1, <1>2 DEF Unpassed
<1>4. \A b \in RN : InTurn(b) => InTurn(b)'
  BY <1>1 DEF InTurn, Linked, PodNum, PodPrev
<1>5. ASSUME NEW x \in RN, Seen(x)'
      PROVE  Seen(x)
  <2>1. CASE DiskLinked(x)'
    <3>1. CASE x = writer.rn /\ Linked(writer.pod)
      BY <3>1, VersionFacts DEF Seen, WriteStep
    <3> QED
      BY <2>1, <3>1 DEF Seen, WriteStep
  <2>2. CASE \E p \in DOMAIN mem'.pods : PodNum(p)' = x /\ Linked(p)'
    BY <1>1, <2>2 DEF Seen, Linked
  <2> QED
    BY <1>5, <2>1, <2>2 DEF Seen
<1>6. \A b \in RN : Ref(b)' => Ref(b)
  BY <1>1, <1>5 DEF Ref
<1>7. \A b \in RN : Clean(b)' => Clean(b) /\ b \notin filled'
  BY <1>1 DEF Clean, WriteStep
<1>8. \A b \in RN : Pend(b)' => Pend(b)
  BY <1>1 DEF Pend, WriteStep
<1> QED
  BY <1>2, <1>3, <1>4, <1>6, <1>7, <1>8

\* Such a step keeps the invariant, if what it brings to the files was to be written, and each version
\* that has one before it is still to be found or to come.
LEMMA WriteVersions ==
  ASSUME TypeInv, SafeInv, VersionInv, WriteStep, DiskPrior', WriterPrior', WalkInv',
         \A a \in RN : OnFile(a)' => OnFile(a) \/ Pend(a),
         \A b \in RN : \A a \in older[b] :
           Clean(b) /\ Timely(b) /\ b \notin filled' /\ Whole(b) /\ (OnFile(a)' \/ Pend(a)) => Whole(b)'
  PROVE  VersionInv'
<1> USE DEF VersionInv, PlaceVersions, LineVersions
<1>1. /\ \A q : PodNum(q)' = PodNum(q) /\ PodPrev(q)' = PodPrev(q) /\ PodMagic(q)' = PodMagic(q)
      /\ UNCHANGED <<mem, queue, erased, older, late, nextRN, held>>
  BY WriteFacts DEF WriteStep, WriterUnchanged
<1>2. ErasedBelow' /\ LineageInv' /\ OnceInv'
  BY <1>1 DEF ErasedBelow, LineageInv, OnceInv
<1>3. DeletedInv' /\ LineOrderInv'
  BY <1>1 DEF DeletedInv, LineOrderInv, Linked, PodNum, PodPrev, PodMagic
<1>4. PodsPrior'
  BY <1>1 DEF PodsPrior, Linked, Follows, WriteStep
<1>5. ErasedInv'
  <2> SUFFICES ASSUME NEW x \in erased', Clean(x)', Prompt(x)', NEW a \in older'[x], OnFile(a)'
               PROVE  FALSE
    BY DEF ErasedInv
  <2>1. x \in erased /\ x \in RN /\ a \in RN /\ a \in older[x]
    BY <1>1, VersionFacts
  <2>2. Clean(x) /\ Prompt(x) /\ a \notin late
    BY <1>1, <2>1, WriteStepIs DEF Prompt
  <2>3. Pend(a)
    BY <2>1, <2>2 DEF ErasedInv
  <2>4. Passed(x)
    BY <2>1, <2>2 DEF Passed, Clean
  <2> QED
    BY <2>1, <2>2, <2>3, <2>4 DEF Pend, OrderInv, Unpassed
<1>6. OrderInv' /\ FastOrderInv'
  <2> SUFFICES ASSUME NEW p \in ToWrite', PodMagic(p)' = "committed",
                      PodNum(p)' \notin late' \/ p \in ToSet(mem'.cache)
               PROVE  Unpassed(PodNum(p))'
    BY DEF OrderInv, FastOrderInv
  <2>1. p \in ToWrite /\ PodMagic(p) = "committed" /\ (PodNum(p) \notin late \/ p \in ToSet(mem.cache))
    BY <1>1 DEF WriteStep
  <2>2. PICK b \in RN : b = PodNum(p) /\ Unpassed(b)
    BY <2>1, VersionFacts DEF OrderInv, FastOrderInv
  <2>3. Unpassed(b)'
    BY <2>2, WriteStepIs
  <2>4. PodNum(p)' = b
    BY <1>1, <2>2
  <2> QED
    BY <2>3, <2>4 DEF Unpassed
<1>7. FastInv'
  BY <1>1 DEF FastInv, Linked, WriteStep
<1>8. ChainInv'
  <2> SUFFICES ASSUME NEW b \in RN, Ref(b)', Clean(b)', Timely(b)', NEW a \in older'[b], OnFile(a)' \/ Pend(a)'
               PROVE  Whole(b)'
    BY DEF ChainInv
  <2>1. Ref(b) /\ Clean(b) /\ Timely(b) /\ b \notin filled' /\ a \in older[b] /\ a \in RN
    BY <1>1, WriteStepIs, VersionFacts DEF Timely, Prompt
  <2>2. OnFile(a)' \/ Pend(a)
    BY <2>1, WriteStepIs
  <2>3. Whole(b)
    BY <2>1, <2>2 DEF ChainInv
  <2> QED
    BY <2>1, <2>2, <2>3
<1> QED
  BY <1>2, <1>3, <1>4, <1>5, <1>6, <1>7, <1>8

LEMMA QueueTail ==
  ASSUME TypeInv, queue # << >>, queue' = Tail(queue)
  PROVE  /\ 1 \in DOMAIN queue /\ queue[1] = Head(queue)
         /\ \A i \in DOMAIN queue : i \in Nat /\ 1 <= i
         /\ \A i \in DOMAIN queue' : i \in Nat /\ i + 1 \in DOMAIN queue /\ queue'[i] = queue[i + 1]
         /\ \A i \in DOMAIN queue : i # 1 => i - 1 \in DOMAIN queue' /\ queue'[i - 1] = queue[i]
<1>1. queue \in Seq(DOMAIN mem.pods)
  BY TypeFacts
<1>2. /\ Len(queue) \in Nat /\ Len(queue) >= 1 /\ DOMAIN queue = 1..Len(queue)
      /\ DOMAIN queue' = 1..Len(queue) - 1 /\ queue[1] = Head(queue)
      /\ \A i \in 1..Len(queue) - 1 : queue'[i] = queue[i + 1]
  BY <1>1
<1>3. \A i \in DOMAIN queue' : i \in Nat /\ i + 1 \in DOMAIN queue /\ queue'[i] = queue[i + 1]
  BY <1>2
<1>4. \A i \in DOMAIN queue : i \in Nat /\ 1 <= i /\ (i # 1 => i - 1 \in DOMAIN queue')
  BY <1>2
<1>5. ASSUME NEW i \in DOMAIN queue, i # 1
      PROVE  queue'[i - 1] = queue[i]
  <2>1. PICK k \in DOMAIN queue' : k = i - 1
    BY <1>4, <1>5
  <2>2. k + 1 = i
    BY <1>4, <2>1
  <2> QED
    BY <1>3, <2>1, <2>2
<1> QED
  BY <1>2, <1>3, <1>4, <1>5

\* The write of the first record in the queue begins: what it replaces waits no longer.
LEMMA WriteBeginVersions ==
  ASSUME TypeInv, SafeInv, VersionInv, WriteBegin
  PROVE  VersionInv'
<1> USE DEF VersionInv, PlaceVersions, LineVersions
<1>1. /\ writer = Idle /\ queue # << >> /\ queue' = Tail(queue) /\ writer' # Idle
      /\ Head(queue) \in DOMAIN mem.pods /\ ToSet(queue) = ToSet(queue') \cup {Head(queue)}
  BY WriteBeginIs
<1>2. PICK p \in DOMAIN mem.pods : p = Head(queue) /\ p = queue[1]
  BY <1>1, QueueTail
<1>3. PICK n \in RN : n = PodNum(p)
  BY VersionFacts
<1>4. /\ writer'.pod = p /\ writer'.rn = n /\ writer'.prev = PodPrev(p) /\ writer'.op = mem.pods[p].op
      /\ writer'.step \in {"gap", "record"}
  BY <1>2, <1>3, WriteBeginIs DEF PodNum, PodPrev
<1>5. /\ \A q : PodNum(q)' = PodNum(q) /\ PodPrev(q)' = PodPrev(q) /\ PodMagic(q)' = PodMagic(q)
      /\ UNCHANGED <<mem, fs, filled, erased, older, late, nextRN, held>>
  BY WriteFacts DEF WriteBegin, WriterUnchanged
<1>6. ToWrite' = ToWrite
  BY <1>1, <1>2, <1>4 DEF ToWrite, WriterAt
<1>7. p \in ToSet(queue) /\ p \in ToWrite /\ (PodMagic(p) = "deleted" => mem.pods[p].op = "del")
  BY <1>1, <1>2, SafeFacts DEF DeletedInv
<1>8. PodMagic(p) \in {"committed", "deleted"}
  BY <1>7, SafeFacts DEF LineInv
<1>9. /\ DiskPrior' /\ ErasedBelow' /\ ErasedInv' /\ LineageInv' /\ OnceInv' /\ PodsPrior'
  BY <1>5 DEF DiskPrior, ErasedBelow, ErasedInv, LineageInv, OnceInv, PodsPrior, Follows, DiskLinked, Linked,
       Clean, Prompt, OnFile, At, Stored
<1>10. WriterPrior'
  <2>1. Linked(p) <=> writer'.prev # writer'.rn
    BY <1>3, <1>4 DEF Linked
  <2>2. ~OnFile(n) \/ mem.pods[p].op = "del"
    <3>1. CASE PodMagic(p) = "committed"
      BY <1>3, <1>7, <3>1, SafeFacts DEF PendingInv, Pending, OnFile
    <3> QED
      BY <1>7, <1>8, <3>1
  <2>3. OnFile(n)' <=> OnFile(n)
    BY <1>5 DEF OnFile, At, Stored
  <2> QED
    BY <1>4, <1>5, <2>1, <2>2, <2>3 DEF WriterPrior, Linked
<1>11. WalkInv'
  BY <1>4 DEF WalkInv, WriterAt
<1>12. DeletedInv'
  BY <1>1, <1>5 DEF DeletedInv
<1>13. ASSUME NEW x \in RN, Passed(x)'
       PROVE  Passed(x) \/ (x = n /\ Linked(p))
  <2>1. DiskLinked(x)' <=> DiskLinked(x)
    BY <1>5 DEF DiskLinked, At, Stored
  <2> QED
    BY <1>3, <1>4, <1>5, <1>13, <2>1 DEF Passed, Linked
<1>14. n \notin older[n]
  BY VersionFacts
<1>15. ASSUME NEW b \in RN, Unpassed(b), Linked(p) => b \notin older[n]
       PROVE  Unpassed(b)'
  BY <1>5, <1>13, <1>15 DEF Unpassed
<1>16. OrderInv'
  <2>1. ASSUME NEW q \in ToWrite, PodMagic(q) = "committed", PodNum(q) \notin late, Linked(p)
        PROVE  PodNum(q) \notin older[n]
    <3>1. q \in ToSet(queue)
      BY <1>1, <2>1 DEF ToWrite, WriterAt
    <3>2. PICK i \in DOMAIN queue : queue[i] = q
      BY <3>1 DEF ToSet
    <3>3. CASE i = 1
      BY <1>2, <1>3, <1>14, <3>2, <3>3
    <3>4. CASE i # 1
      <4>1. 1 \in DOMAIN queue /\ 1 < i
        BY <1>1, <3>4, QueueTail
      <4> QED
        BY <1>2, <1>3, <2>1, <3>2, <4>1 DEF LineOrderInv
    <3> QED
      BY <3>3, <3>4
  <2> SUFFICES ASSUME NEW q \in ToWrite', PodMagic(q)' = "committed", PodNum(q)' \notin late',
                      NEW x \in RN, Passed(x)'
               PROVE  PodNum(q)' \notin older'[x]
    BY DEF OrderInv, Unpassed
  <2>2. q \in ToWrite /\ PodMagic(q) = "committed" /\ PodNum(q)' = PodNum(q) /\ older'[x] = older[x]
        /\ PodNum(q) \notin late
    BY <1>5, <1>6
  <2>3. Passed(x) => PodNum(q) \notin older[x]
    BY <2>2 DEF OrderInv, Unpassed
  <2> QED
    BY <1>13, <2>1, <2>2, <2>3
<1>17. LineOrderInv'
  <2> SUFFICES ASSUME NEW i \in DOMAIN queue', NEW j \in DOMAIN queue', j < i,
                      mem'.pods[queue'[i]].data.magic = "committed", mem'.pods[queue'[i]].data.rn \notin late',
                      mem'.pods[queue'[j]].data.prev # mem'.pods[queue'[j]].data.rn
               PROVE  mem'.pods[queue'[i]].data.rn \notin older'[mem'.pods[queue'[j]].data.rn]
    BY DEF LineOrderInv, Linked, PodMagic, PodNum, PodPrev
  <2>1. PICK k \in DOMAIN queue, m \in DOMAIN queue : m < k /\ queue[k] = queue'[i] /\ queue[m] = queue'[j]
    <3>1. /\ i + 1 \in DOMAIN queue /\ queue'[i] = queue[i + 1]
          /\ j + 1 \in DOMAIN queue /\ queue'[j] = queue[j + 1] /\ j + 1 < i + 1
      BY <1>1, QueueTail
    <3> QED
      BY <3>1
  <2>2. PodNum(queue[k]) \notin older[PodNum(queue[m])]
    BY <1>5, <2>1 DEF LineOrderInv, Linked, PodMagic, PodNum, PodPrev
  <2> QED
    BY <1>5, <2>1, <2>2 DEF PodNum
<1>18. FastInv'
  BY <1>5, <1>6 DEF FastInv, Linked
<1>19. ASSUME NEW b \in RN, Coming(b)
       PROVE  Coming(b)'
  <2>1. Unpassed(b) /\ InTurn(b)
    BY <1>1, <1>19 DEF Coming, BeingWritten, WriterAt
  <2>2. PICK i \in DOMAIN queue :
          /\ PodNum(queue[i]) = b
          /\ \A j \in DOMAIN queue : j < i /\ Linked(queue[j]) => b \notin older[PodNum(queue[j])]
    BY <2>1 DEF InTurn
  <2>3. CASE i = 1
    <3>1. b = n
      BY <1>2, <1>3, <2>2, <2>3
    <3>2. Unpassed(b)'
      BY <1>14, <1>15, <2>1, <3>1
    <3>3. BeingWritten(b)'
      BY <1>1, <1>4, <1>5, <1>7, <1>8, <3>1 DEF BeingWritten, WriterAt
    <3> QED
      BY <3>2, <3>3 DEF Coming
  <2>4. CASE i # 1
    <3>1. 1 \in DOMAIN queue /\ 1 < i /\ i \in Nat
      BY <1>1, <2>4, QueueTail
    <3>2. Linked(p) => b \notin older[n]
      BY <1>2, <1>3, <2>2, <3>1
    <3>3. Unpassed(b)'
      BY <1>15, <2>1, <3>2
    <3>4. PICK k \in DOMAIN queue' : k = i - 1 /\ queue'[k] = queue[i]
      BY <1>1, <2>4, QueueTail
    <3>5. ASSUME NEW j \in DOMAIN queue', j < k, Linked(queue[j + 1])
          PROVE  b \notin older[PodNum(queue[j + 1])]
      <4>1. j + 1 \in DOMAIN queue /\ j \in Nat
        BY <1>1, QueueTail
      <4>2. j + 1 < i
        BY <3>1, <3>4, <3>5, <4>1
      <4> QED
        BY <2>2, <3>5, <4>1, <4>2
    <3>6. \A j \in DOMAIN queue' : queue'[j] = queue[j + 1]
      BY <1>1, QueueTail
    <3>7. InTurn(b)'
      BY <1>5, <2>2, <3>4, <3>5, <3>6 DEF InTurn, Linked, PodNum, PodPrev
    <3> QED
      BY <3>3, <3>7 DEF Coming
  <2> QED
    BY <2>3, <2>4
<1>20. ChainInv'
  <2>1. \A b \in RN : /\ (Ref(b)' => Ref(b)) /\ (Clean(b)' => Clean(b)) /\ (Timely(b)' => Timely(b))
                      /\ (OnFile(b)' <=> OnFile(b)) /\ (Pend(b)' => Pend(b)) /\ ~BeingErased(b)
    BY <1>1, <1>5, <1>6
    DEF Ref, Clean, Timely, Prompt, OnFile, Pend, BeingErased, Seen, DiskLinked, Linked, WriterAt, At, Stored
  <2> SUFFICES ASSUME NEW b \in RN, Ref(b)', Clean(b)', Timely(b)', NEW a \in older'[b], OnFile(a)' \/ Pend(a)'
               PROVE  Whole(b)'
    BY DEF ChainInv
  <2>2. a \in older[b] /\ a \in RN
    BY <1>5, VersionFacts
  <2>3. Whole(b)
    BY <2>1, <2>2 DEF ChainInv
  <2> QED
    BY <1>19, <2>1, <2>3 DEF Whole
<1>21. FastOrderInv'
  <2> SUFFICES ASSUME NEW q \in ToWrite', PodMagic(q)' = "committed", q \in ToSet(mem'.cache),
                      NEW x \in RN, Passed(x)'
               PROVE  PodNum(q)' \notin older'[x]
    BY DEF FastOrderInv, Unpassed
  <2>1. /\ q \in ToWrite /\ PodMagic(q) = "committed" /\ q \in ToSet(mem.cache)
        /\ PodNum(q)' = PodNum(q) /\ older'[x] = older[x]
    BY <1>5, <1>6
  <2>2. Linked(p) => PodNum(q) \notin older[n]
    BY <1>3, <1>7, <2>1, SafeFacts DEF FastInv, HeldInv, InLine
  <2> QED
    BY <1>13, <2>1, <2>2 DEF FastOrderInv, Unpassed
<1> QED
  BY <1>9, <1>10, <1>11, <1>12, <1>16, <1>17, <1>18, <1>20, <1>21

\* A place is filled, and marked deleted: it refers to none.
LEMMA WriteGapVersions ==
  ASSUME TypeInv, SafeInv, LiveInv, VersionInv, WriteGap
  PROVE  VersionInv'
<1> USE DEF VersionInv, PlaceVersions, LineVersions
<1>1. PICK g \in RN : /\ g = writer.gap /\ g < writer.rn
                      /\ Erased(fs, fs', g, [rn |-> g, prev |-> g, magic |-> "deleted"])
                      /\ filled' = filled \cup {g}
  BY WriteGapIs
<1>2. /\ writer # Idle /\ writer.step = "gap" /\ writer' # Idle
      /\ writer'.pod = writer.pod /\ writer'.rn = writer.rn /\ writer'.prev = writer.prev /\ writer'.op = writer.op
      /\ writer'.step \in {"gap", "record"}
  <2>1. writer # Idle /\ writer'.pod = writer.pod
    BY WriteGapIs
  <2>2. writer' # Idle
    BY <2>1, WriterFacts DEF Idle
  <2> QED
    BY <2>2, WriteGapIs
<1>3. /\ \A q : PodNum(q)' = PodNum(q) /\ PodPrev(q)' = PodPrev(q) /\ PodMagic(q)' = PodMagic(q)
      /\ UNCHANGED <<mem, queue, erased, older, nextRN, held>> /\ WriterUnchanged
  BY WriteFacts DEF WriteGap
<1> DEFINE d == [rn |-> g, prev |-> g, magic |-> "deleted"]
<1>4. At(fs, g).magic = "zero"
  <2>1. g \in Nat /\ writer.rn \in Nat /\ g <= writer.rn /\ g <= g
    BY <1>1, <1>2, VersionFacts
  <2>2. \A n \in Nat : writer.gap <= n /\ n <= writer.rn => At(fs, n).magic = "zero"
    BY <1>2, SafeFacts DEF WriterInv
  <2> QED
    BY <1>1, <2>1, <2>2
<1>5. \A x \in RN : /\ At(fs', x) = At(fs, x) \/ At(fs', x) = Zero \/ (x = g /\ At(fs', x) = d)
                    /\ OnFile(x) /\ x \notin filled => At(fs', x) = At(fs, x)
  BY <1>1, <1>4, ErasedPlaces DEF LiveInv, OnFile
<1>6. \A x \in RN : /\ DiskLinked(x)' => DiskLinked(x)
                    /\ OnFile(x)' => OnFile(x)
                    /\ OnFile(x) /\ x \notin filled => OnFile(x)'
  BY <1>5 DEF DiskLinked, OnFile, Zero
<1>7. WriteStep
  <2>1. ToWrite' = ToWrite
    BY <1>2, <1>3 DEF ToWrite, WriterAt
  <2> QED
    BY <1>1, <1>2, <1>3, <1>6, <2>1 DEF WriteStep
<1>8. DiskPrior'
  <2> SUFFICES ASSUME NEW n \in RN,
                      \/ DiskLinked(n)' \/ At(fs', n).magic \notin {"zero", "deleted"}
                      \/ At(fs', n).magic = "deleted" /\ n \notin filled'
               PROVE  Follows(n, At(fs', n).prev)
    BY <1>3 DEF DiskPrior, Follows
  <2>1. At(fs', n) = At(fs, n)
    BY <1>1, <1>5 DEF DiskLinked, Zero
  <2> QED
    BY <1>1, <2>1 DEF DiskPrior, DiskLinked
<1>9. WriterPrior'
  <2>1. writer.rn \in RN
    BY <1>2, VersionFacts
  <2> QED
    BY <1>2, <1>3, <1>6, <2>1 DEF WriterPrior, Linked
<1>10. WalkInv'
  BY <1>2 DEF WalkInv, WriterAt
<1>11. ASSUME NEW b \in RN, b \notin filled', Whole(b)
       PROVE  Whole(b)'
  <2>1. CASE OnFile(b)
    BY <1>1, <1>6, <1>11, <2>1 DEF Whole
  <2>2. CASE Coming(b)
    <3>1. Unpassed(b)' /\ (InTurn(b) => InTurn(b)')
      BY <1>7, <2>2, WriteStepIs DEF Coming
    <3>2. BeingWritten(b) => BeingWritten(b)'
      BY <1>2, <1>3 DEF BeingWritten, WriterAt
    <3> QED
      BY <2>2, <3>1, <3>2 DEF Coming, Whole
  <2>3. ~BeingErased(b)
    BY <1>2 DEF BeingErased, WriterAt
  <2> QED
    BY <1>11, <2>1, <2>2, <2>3 DEF Whole
<1> QED
  BY <1>6, <1>7, <1>8, <1>9, <1>10, <1>11, WriteVersions

\* A record is written: if it replaces others, the write thread goes on to erase them.
LEMMA WriteRecordVersions ==
  ASSUME TypeInv, SafeInv, LiveInv, VersionInv, WriteRecord
  PROVE  VersionInv'
<1> USE DEF VersionInv, PlaceVersions, LineVersions
<1>1. /\ writer # Idle /\ writer.step = "record" /\ writer' # Idle
      /\ writer'.pod = writer.pod /\ writer'.rn = writer.rn /\ writer'.prev = writer.prev /\ writer'.op = writer.op
      /\ writer'.step = IF writer.op = "add" \/ writer.prev = writer.rn THEN "done" ELSE "chain"
  <2>1. writer # Idle /\ writer'.pod = writer.pod
    BY WriteRecordIs
  <2>2. writer' # Idle
    BY <2>1, WriterFacts DEF Idle
  <2> QED
    BY <2>2, WriteRecordIs
<1>2. PICK n \in RN, p \in DOMAIN mem.pods : n = writer.rn /\ p = writer.pod /\ PodNum(p) = n
  BY <1>1, VersionFacts
<1>3. PICK data \in Trailer :
        /\ data = mem.pods[p].data
        /\ writer.op = "del" => Erased(fs, fs', n, data)
        /\ writer.op # "del" => Overwritten(fs, fs', n, data)
  BY <1>2, WriteRecordIs
<1>4. data.rn = n /\ data.prev = PodPrev(p) /\ data.magic = PodMagic(p)
  BY <1>2, <1>3 DEF PodNum, PodPrev, PodMagic
<1>5. /\ \A q : PodNum(q)' = PodNum(q) /\ PodPrev(q)' = PodPrev(q) /\ PodMagic(q)' = PodMagic(q)
      /\ UNCHANGED <<mem, queue, filled, erased, older, nextRN, held>> /\ WriterUnchanged
  BY WriteFacts DEF WriteRecord
<1>6. \A x \in RN : /\ At(fs', x) = At(fs, x) \/ At(fs', x) = Zero \/ (x = n /\ At(fs', x) = data)
                    /\ OnFile(x) /\ x \notin filled /\ x # n => At(fs', x) = At(fs, x)
                    /\ x = n /\ writer.op # "del" => At(fs', x) = data
  <2>1. CASE writer.op = "del"
    BY <1>3, <2>1, ErasedPlaces DEF LiveInv
  <2>2. CASE writer.op # "del"
    <3>1. \A x \in RN : x \in Nat
      BY RNIs
    <3> QED
      BY <1>3, <2>2, <3>1 DEF Overwritten
  <2> QED
    BY <2>1, <2>2
<1>7. /\ p \in ToWrite /\ PodMagic(p) \in {"committed", "deleted"}
      /\ Linked(p) <=> writer.prev # n
      /\ writer.prev = PodPrev(p) /\ (writer.op # "del" => ~OnFile(n))
  <2>1. p \in ToWrite /\ p \in InLine
    BY <1>1, <1>2 DEF ToWrite, InLine, WriterAt
  <2>2. PodMagic(p) \in {"committed", "deleted"}
    BY <2>1, SafeFacts DEF LineInv
  <2> QED
    BY <1>1, <1>2, <2>1, <2>2 DEF WriterPrior
<1>8. Linked(p) \/ PodMagic(p) # "deleted" \/ n \notin filled => Follows(n, writer.prev)
  BY <1>2, <1>7 DEF PodsPrior
<1>9. ASSUME NEW x \in RN, DiskLinked(x)'
      PROVE  DiskLinked(x) \/ (x = n /\ Linked(p))
  BY <1>2, <1>4, <1>6, <1>9 DEF DiskLinked, Linked, Zero
<1>10. ASSUME NEW a \in RN, OnFile(a)'
       PROVE  OnFile(a) \/ Pend(a)
  <2>1. CASE At(fs', a) = At(fs, a)
    BY <1>10, <2>1 DEF OnFile
  <2>2. CASE a = n /\ At(fs', a) = data
    BY <1>2, <1>4, <1>7, <1>10, <2>2 DEF OnFile, Pend
  <2> QED
    BY <1>6, <1>10, <2>1, <2>2 DEF OnFile, Zero
<1>11. WriteStep
  <2>1. ToWrite' \subseteq ToWrite
    BY <1>1, <1>5 DEF ToWrite, WriterAt
  <2> QED
    BY <1>1, <1>2, <1>5, <1>9, <2>1 DEF WriteStep
<1>12. DiskPrior'
  <2> SUFFICES ASSUME NEW x \in RN,
                      \/ DiskLinked(x)' \/ At(fs', x).magic \notin {"zero", "deleted"}
                      \/ At(fs', x).magic = "deleted" /\ x \notin filled'
               PROVE  Follows(x, At(fs', x).prev)
    BY <1>5 DEF DiskPrior, Follows
  <2>1. CASE At(fs', x) = At(fs, x)
    BY <1>5, <2>1 DEF DiskPrior, DiskLinked
  <2>2. CASE At(fs', x) = Zero
    BY <2>2 DEF DiskLinked, Zero
  <2>3. CASE x = n /\ At(fs', x) = data
    BY <1>2, <1>4, <1>5, <1>7, <1>8, <2>3 DEF DiskLinked, Linked
  <2> QED
    BY <1>6, <2>1, <2>2, <2>3
<1>13. WriterPrior'
  BY <1>1, <1>2, <1>5, <1>7 DEF WriterPrior, Linked
<1>14. ASSUME writer'.step = "chain"
       PROVE  Linked(p) /\ writer.op # "add" /\ older[n] = {writer.prev} \cup older[writer.prev]
  BY <1>1, <1>2, <1>7, <1>8, <1>14 DEF Follows
<1>15. ASSUME writer'.step = "done", writer.op # "add", n \notin filled
       PROVE  older[n] = {}
  BY <1>1, <1>2, <1>8, <1>15 DEF Follows
<1>16. WalkInv'
  BY <1>1, <1>2, <1>5, <1>14, <1>15 DEF WalkInv, WriterAt, Clean, Prompt
<1>17. ASSUME NEW b \in RN, NEW a \in older[b], Clean(b), Whole(b)
       PROVE  Whole(b)'
  <2>1. ASSUME b = n, writer.op # "add"
        PROVE  BeingErased(b)'
    <3>1. writer'.step = "chain"
      BY <1>1, <1>15, <1>17, <2>1 DEF Clean
    <3>2. n \notin older[n]
      BY VersionFacts
    <3> QED
      BY <1>1, <1>2, <1>5, <1>14, <2>1, <3>1, <3>2 DEF BeingErased, WriterAt
  <2>2. CASE OnFile(b)
    <3>1. CASE b = n
      BY <1>7, <2>1, <2>2, <3>1 DEF Whole
    <3>2. CASE b # n
      BY <1>6, <1>17, <2>2, <3>2 DEF Clean, Whole, OnFile
    <3> QED
      BY <3>1, <3>2
  <2>3. CASE Coming(b)
    <3>1. Unpassed(b)' /\ (InTurn(b) => InTurn(b)')
      BY <1>11, <2>3, WriteStepIs DEF Coming
    <3>2. CASE InTurn(b)
      BY <3>1, <3>2 DEF Coming, Whole
    <3>3. CASE BeingWritten(b)
      <4>1. b = n /\ (PodMagic(p) = "committed" \/ writer.op # "add")
        BY <1>2, <3>3 DEF BeingWritten
      <4>2. CASE writer.op # "add"
        BY <2>1, <4>1, <4>2 DEF Whole
      <4>3. CASE writer.op = "add"
        BY <1>4, <1>6, <4>1, <4>3 DEF Whole, OnFile
      <4> QED
        BY <4>2, <4>3
    <3> QED
      BY <2>3, <3>2, <3>3 DEF Coming
  <2>4. ~BeingErased(b)
    BY <1>1 DEF BeingErased, WriterAt
  <2> QED
    BY <1>17, <2>2, <2>3, <2>4 DEF Whole
<1> QED
  BY <1>10, <1>11, <1>12, <1>13, <1>16, <1>17, WriteVersions

\* What the write thread is erasing, at the version it has reached.
LEMMA ChainIs ==
  ASSUME TypeInv, SafeInv, VersionInv, writer # Idle, writer.step = "chain"
  PROVE  /\ writer.rn \in RN /\ writer.prev \in RN /\ writer.prev \in older[writer.rn] /\ writer.prev # writer.rn
         /\ older[writer.prev] \subseteq older[writer.rn]
         /\ Linked(writer.pod) /\ Seen(writer.rn) /\ Passed(writer.rn)
         /\ \A a \in older[writer.rn] : (Pend(a) => a \in late) /\ ~Unpassed(a)
         /\ \A a \in older[writer.rn] : OnFile(a) => a \in {writer.prev} \cup older[writer.prev]
<1> USE DEF VersionInv, PlaceVersions, LineVersions
<1>1. /\ writer.rn \in RN /\ writer.prev \in RN /\ writer.prev \in older[writer.rn]
      /\ writer.pod \in DOMAIN mem.pods /\ PodNum(writer.pod) = writer.rn
  BY VersionFacts, SafeFacts DEF WriterInv
<1>2. writer.prev # writer.rn /\ older[writer.prev] \subseteq older[writer.rn]
  BY <1>1, VersionFacts
<1>3. Linked(writer.pod)
  BY <1>2 DEF WriterPrior
<1>4. Seen(writer.rn) /\ Passed(writer.rn)
  BY <1>1, <1>2, <1>3 DEF Seen, Passed
<1>5. \A a \in older[writer.rn] : ~Unpassed(a)
  BY <1>1, <1>4 DEF Unpassed
<1>6. \A a \in older[writer.rn] : Pend(a) => a \in late
  BY <1>5 DEF Pend, OrderInv
<1>7. \A a \in older[writer.rn] : OnFile(a) => a \in {writer.prev} \cup older[writer.prev]
  BY DEF WalkInv, WriterAt
<1> QED
  BY <1>1, <1>2, <1>3, <1>4, <1>5, <1>6, <1>7

\* If the version it has reached is not on file, none of those before it is.
LEMMA ChainEnds ==
  ASSUME TypeInv, SafeInv, VersionInv, writer # Idle, writer.step = "chain", ~OnFile(writer.prev),
         Clean(writer.prev), Timely(writer.prev), NEW a \in older[writer.rn]
  PROVE  ~OnFile(a)
<1> USE DEF VersionInv, PlaceVersions, LineVersions
<1> SUFFICES ASSUME OnFile(a) PROVE FALSE
  OBVIOUS
<1>1. PICK v \in RN : v = writer.prev /\ v \in older[writer.rn]
  BY ChainIs
<1>2. a \in older[v]
  BY <1>1, ChainIs
<1>3. Ref(v)
  BY <1>1, ChainIs DEF Ref
<1>4. Whole(v)
  BY <1>1, <1>2, <1>3 DEF ChainInv
<1>5. ~Coming(v)
  BY <1>1, ChainIs DEF Coming
<1>6. ~BeingErased(v)
  BY <1>1 DEF BeingErased
<1> QED
  BY <1>1, <1>4, <1>5, <1>6 DEF Whole

\* The version reached is erased, and the write thread goes on to the one before it, if there is one.
LEMMA WriteChainErases ==
  ASSUME TypeInv, SafeInv, LiveInv, VersionInv, WriteChain, OnFile(writer.prev)
  PROVE  VersionInv'
<1> USE DEF VersionInv, PlaceVersions, LineVersions
<1>1. /\ writer # Idle /\ writer.step = "chain" /\ At(fs, writer.prev).prev \in RN
      /\ \E d \in Trailer : /\ d.prev = At(fs, writer.prev).prev /\ d.magic = "deleted"
                            /\ Erased(fs, fs', writer.prev, d)
      /\ writer' = [pod |-> writer.pod, rn |-> writer.rn, prev |-> At(fs, writer.prev).prev, op |-> writer.op,
                    step |-> IF At(fs, writer.prev).prev = writer.prev THEN "done" ELSE "chain", gap |-> writer.gap]
  BY WriteChainIs DEF OnFile
<1>2. PICK v \in RN, n \in RN, u \in RN : v = writer.prev /\ n = writer.rn /\ u = At(fs, v).prev
  BY <1>1, VersionFacts
<1>3. PICK d \in Trailer : d.prev = u /\ d.magic = "deleted" /\ Erased(fs, fs', v, d)
  BY <1>1, <1>2
<1>4. /\ writer'.pod = writer.pod /\ writer'.rn = n /\ writer'.prev = u /\ writer'.op = writer.op
      /\ writer'.step = IF u = v THEN "done" ELSE "chain"
  BY <1>1, <1>2
<1>5. writer' # Idle
  BY <1>1, <1>4, WriterFacts DEF Idle
<1>6. /\ \A q : PodNum(q)' = PodNum(q) /\ PodPrev(q)' = PodPrev(q) /\ PodMagic(q)' = PodMagic(q)
      /\ UNCHANGED <<mem, queue, filled, erased, older, nextRN, held>> /\ WriterUnchanged
  BY WriteFacts DEF WriteChain
<1>7. /\ v \in older[n] /\ v # n /\ older[v] \subseteq older[n] /\ Linked(writer.pod) /\ Passed(n)
      /\ \A a \in older[n] : (Pend(a) => a \in late) /\ ~Unpassed(a)
      /\ \A a \in older[n] : OnFile(a) => a \in {v} \cup older[v]
  BY <1>1, <1>2, ChainIs
<1>8. older[v] = IF u = v THEN {} ELSE {u} \cup older[u]
  BY <1>2 DEF OnFile, DiskPrior, Follows
<1>9. u # n /\ (u # v => u \in older[n]) /\ n \notin older[n] /\ v \notin older[v]
  BY <1>7, <1>8, VersionFacts
<1>10. \A x \in RN : /\ At(fs', x) = At(fs, x) \/ At(fs', x) = Zero \/ (x = v /\ At(fs', x) = d)
                     /\ x = v => At(fs', x) = Zero \/ At(fs', x) = d
                     /\ OnFile(x) /\ x \notin filled /\ x # v => At(fs', x) = At(fs, x)
  BY <1>3, ErasedPlaces DEF LiveInv
<1>11. \A x \in RN : /\ DiskLinked(x)' => DiskLinked(x)
                     /\ OnFile(x)' => OnFile(x) /\ x # v
                     /\ OnFile(x) /\ x \notin filled /\ x # v => OnFile(x)'
  BY <1>2, <1>3, <1>10 DEF DiskLinked, OnFile, Zero
<1>12. WriteStep
  <2>1. ToWrite' \subseteq ToWrite
    BY <1>4, <1>6 DEF ToWrite, WriterAt
  <2> QED
    BY <1>1, <1>2, <1>4, <1>5, <1>6, <1>7, <1>11, <2>1 DEF WriteStep
<1>13. DiskPrior'
  <2> SUFFICES ASSUME NEW x \in RN,
                      \/ DiskLinked(x)' \/ At(fs', x).magic \notin {"zero", "deleted"}
                      \/ At(fs', x).magic = "deleted" /\ x \notin filled'
               PROVE  Follows(x, At(fs', x).prev)
    BY <1>6 DEF DiskPrior, Follows
  <2>1. CASE At(fs', x) = At(fs, x)
    BY <1>6, <2>1 DEF DiskPrior, DiskLinked
  <2>2. CASE At(fs', x) = Zero
    BY <2>2 DEF DiskLinked, Zero
  <2>3. CASE x = v /\ At(fs', x) = d
    BY <1>3, <1>8, <2>3 DEF Follows
  <2> QED
    BY <1>10, <2>1, <2>2, <2>3
<1>14. WriterPrior'
  BY <1>4, <1>6, <1>7, <1>9 DEF WriterPrior, Linked
<1>15. WalkInv'
  <2>1. ASSUME NEW a \in older[n], OnFile(a)'
        PROVE  u # v /\ a \in {u} \cup older[u]
    <3>1. OnFile(a) /\ a # v
      BY <1>11, <2>1, VersionFacts
    <3> QED
      BY <1>7, <1>8, <2>1, <3>1
  <2> QED
    BY <1>4, <1>6, <2>1 DEF WalkInv, WriterAt
<1>16. ASSUME NEW b \in RN, NEW a \in older[b], Clean(b), Timely(b), Whole(b), OnFile(a)' \/ Pend(a)
       PROVE  Whole(b)'
  <2>1. CASE OnFile(b) /\ b # v
    BY <1>11, <1>16, <2>1 DEF Clean, Whole
  <2>2. CASE b = v
    <3>1. u # v /\ v \notin {u} \cup older[u]
      BY <1>8, <1>9, <1>16, <2>2
    <3> QED
      BY <1>4, <1>5, <1>6, <1>7, <2>2, <3>1 DEF Whole, BeingErased, WriterAt
  <2>3. CASE Coming(b)
    <3>1. InTurn(b) /\ Unpassed(b)
      BY <1>1, <2>3 DEF Coming, BeingWritten, WriterAt
    <3> QED
      BY <1>12, <3>1, WriteStepIs DEF Coming, Whole
  <2>4. CASE BeingErased(b)
    <3>1. b \in {n} \cup older[n] /\ b \notin {v} \cup older[v]
      BY <1>2, <2>4 DEF BeingErased
    <3>2. CASE u # v
      <4>1. b \notin {u} \cup older[u]
        BY <1>8, <3>1, <3>2
      <4> QED
        BY <1>4, <1>5, <1>6, <3>1, <3>2, <4>1 DEF Whole, BeingErased, WriterAt
    <3>3. CASE u = v
      <4>1. a \in older[n] /\ a \in RN
        BY <1>16, <3>1, VersionFacts
      <4>2. OnFile(a) /\ a # v
        BY <1>7, <1>11, <1>16, <4>1 DEF Timely, Prompt
      <4> QED
        BY <1>7, <1>8, <3>3, <4>1, <4>2
    <3> QED
      BY <3>2, <3>3
  <2> QED
    BY <1>16, <2>1, <2>2, <2>3, <2>4 DEF Whole
<1> QED
  BY <1>11, <1>12, <1>13, <1>14, <1>15, <1>16, WriteVersions

\* The version reached is not on file: none is left of those before it, and the erasure ends.
LEMMA WriteChainEnds ==
  ASSUME TypeInv, SafeInv, VersionInv, WriteChain, ~OnFile(writer.prev)
  PROVE  VersionInv'
<1> USE DEF VersionInv, PlaceVersions, LineVersions
<1>1. /\ writer # Idle /\ writer.step = "chain" /\ Opened(fs, fs')
      /\ writer' = [pod |-> writer.pod, rn |-> writer.rn, prev |-> writer.prev, op |-> writer.op,
                    step |-> "done", gap |-> writer.gap]
  BY WriteChainIs DEF OnFile
<1>2. PICK v \in RN, n \in RN : v = writer.prev /\ n = writer.rn
  BY <1>1, VersionFacts
<1>3. /\ writer'.pod = writer.pod /\ writer'.rn = n /\ writer'.prev = v /\ writer'.op = writer.op
      /\ writer'.step = "done"
  BY <1>1, <1>2
<1>4. writer' # Idle
  BY <1>1, <1>3, WriterFacts DEF Idle
<1>5. /\ \A q : PodNum(q)' = PodNum(q) /\ PodPrev(q)' = PodPrev(q) /\ PodMagic(q)' = PodMagic(q)
      /\ UNCHANGED <<mem, queue, filled, erased, older, nextRN, held>> /\ WriterUnchanged
  BY WriteFacts DEF WriteChain
<1>6. /\ v \in older[n] /\ v # n /\ older[v] \subseteq older[n] /\ Linked(writer.pod)
      /\ \A a \in older[n] : Pend(a) => a \in late
      /\ \A a \in older[n] : OnFile(a) => a \in {v} \cup older[v]
  BY <1>1, <1>2, ChainIs
<1>7. \A x \in RN : At(fs', x) = At(fs, x) /\ (DiskLinked(x)' <=> DiskLinked(x)) /\ (OnFile(x)' <=> OnFile(x))
  BY <1>1, VersionFacts DEF Opened, DiskLinked, OnFile
<1>8. WriteStep
  <2>1. ToWrite' \subseteq ToWrite
    BY <1>3, <1>5 DEF ToWrite, WriterAt
  <2> QED
    BY <1>1, <1>2, <1>3, <1>4, <1>5, <1>6, <1>7, <2>1 DEF WriteStep
<1>9. DiskPrior'
  BY <1>5, <1>7 DEF DiskPrior, DiskLinked, Follows
<1>10. WriterPrior'
  BY <1>3, <1>5, <1>6 DEF WriterPrior, Linked
<1>11. Clean(v) /\ Timely(v) => \A a \in older[n] : ~OnFile(a)
  BY <1>1, <1>2, ChainEnds
<1>12. WalkInv'
  <2>1. ASSUME Clean(n), Prompt(n), NEW a \in older[n]
        PROVE  ~OnFile(a)'
    <3>1. Clean(v) /\ Timely(v)
      BY <1>6, <2>1 DEF Clean, Timely, Prompt
    <3> QED
      BY <1>7, <1>11, <2>1, <3>1, VersionFacts
  <2> QED
    BY <1>3, <1>5, <2>1 DEF WalkInv, WriterAt, WriterUnchanged, Clean, Prompt
<1>13. ASSUME NEW b \in RN, NEW a \in older[b], Clean(b), Timely(b), Whole(b), OnFile(a)' \/ Pend(a)
       PROVE  Whole(b)'
  <2>1. CASE OnFile(b)
    BY <1>7, <2>1 DEF Whole
  <2>2. CASE Coming(b)
    <3>1. InTurn(b) /\ Unpassed(b)
      BY <1>1, <2>2 DEF Coming, BeingWritten, WriterAt
    <3> QED
      BY <1>8, <3>1, WriteStepIs DEF Coming, Whole
  <2>3. CASE BeingErased(b)
    <3>1. b \in {n} \cup older[n] /\ b \notin {v} \cup older[v]
      BY <1>2, <2>3 DEF BeingErased
    <3>2. a \in older[n] /\ a \in RN
      BY <1>13, <3>1, VersionFacts
    <3>3. OnFile(a)
      BY <1>6, <1>7, <1>13, <3>2 DEF Timely, Prompt
    <3>4. v \in older[b]
      BY <1>6, <3>1 DEF LineageInv
    <3>5. Clean(v) /\ Timely(v)
      BY <1>13, <3>4, VersionFacts DEF Clean, Timely, Prompt
    <3> QED
      BY <1>11, <3>2, <3>3, <3>5
  <2> QED
    BY <1>13, <2>1, <2>2, <2>3 DEF Whole
<1> QED
  BY <1>7, <1>8, <1>9, <1>10, <1>12, <1>13, WriteVersions

LEMMA WriteChainVersions ==
  ASSUME TypeInv, SafeInv, LiveInv, VersionInv, WriteChain
  PROVE  VersionInv'
BY WriteChainErases, WriteChainEnds

\* A write is done: no version before it is on file, if it was to erase them.
LEMMA WriteDoneVersions ==
  ASSUME TypeInv, SafeInv, VersionInv, WriteDone
  PROVE  VersionInv'
<1> USE DEF VersionInv, PlaceVersions, LineVersions
<1>1. /\ writer # Idle /\ writer.step = "done" /\ writer' = Idle
      /\ erased' = IF writer.op = "add" THEN erased ELSE erased \cup {writer.rn}
      /\ UNCHANGED <<fs, held, queue, nextRN, older, filled, late>>
  BY DEF WriteDone
<1>2. /\ MemOK(mem') /\ mem'.cache = mem.cache /\ queue' \in Seq(DOMAIN mem'.pods)
      /\ \A q \in DOMAIN mem'.pods :
           q \in DOMAIN mem.pods /\ mem'.pods[q].data = mem.pods[q].data /\ mem'.pods[q].op = mem.pods[q].op
  BY WriteDoneIs
<1>3. PICK n \in RN, p \in DOMAIN mem.pods : n = writer.rn /\ n < nextRN /\ p = writer.pod /\ PodNum(p) = n
  BY <1>1, VersionFacts
<1>4. \A q \in DOMAIN mem'.pods : PodNum(q)' = PodNum(q) /\ PodPrev(q)' = PodPrev(q) /\ PodMagic(q)' = PodMagic(q)
  BY <1>2 DEF PodNum, PodPrev, PodMagic
<1>5. ToSet(queue) \subseteq DOMAIN mem'.pods /\ ToSet(mem.cache) \subseteq DOMAIN mem'.pods
  BY <1>1, <1>2, ToSetOf DEF MemOK
<1>6. ToWrite' = ToSet(queue) /\ ToWrite = ToSet(queue)
  BY <1>1 DEF ToWrite, WriterAt
<1>7. \A x \in RN : /\ (DiskLinked(x)' <=> DiskLinked(x)) /\ (OnFile(x)' <=> OnFile(x)) /\ (Clean(x)' <=> Clean(x))
                    /\ (Prompt(x)' <=> Prompt(x)) /\ (Timely(x)' <=> Timely(x))
  BY <1>1 DEF DiskLinked, OnFile, Clean, Prompt, Timely, At, Stored
<1>8. ASSUME NEW x \in RN, Passed(x)', ~Passed(x)
      PROVE  older[x] = {}
  <2>1. x \in erased' \ filled'
    BY <1>1, <1>7, <1>8 DEF Passed
  <2>2. x = n /\ n \notin filled
    BY <1>1, <1>3, <1>8, <2>1 DEF Passed
  <2>3. writer.prev = n
    BY <1>1, <1>3, <1>8, <2>2 DEF Passed
  <2>4. ~Linked(p)
    BY <1>1, <1>3, <2>3 DEF WriterPrior
  <2>5. Follows(n, PodPrev(p))
    BY <1>3, <2>2 DEF PodsPrior
  <2> QED
    BY <1>3, <2>2, <2>4, <2>5 DEF Follows, Linked
<1>9. \A b \in RN : Unpassed(b) => Unpassed(b)'
  BY <1>1, <1>8 DEF Unpassed
<1>10. DiskPrior' /\ LineageInv' /\ OnceInv'
  BY <1>1, <1>2 DEF DiskPrior, LineageInv, OnceInv, DiskLinked, Follows, At, Stored
<1>11. WriterPrior' /\ WalkInv'
  BY <1>1 DEF WriterPrior, WalkInv, WriterAt
<1>12. ErasedBelow'
  BY <1>1, <1>3 DEF ErasedBelow
<1>13. ErasedInv'
  <2> SUFFICES ASSUME NEW x \in erased', Clean(x)', Prompt(x)', NEW a \in older'[x]
               PROVE  ~OnFile(a)'
    BY DEF ErasedInv
  <2>1. x \in RN /\ a \in older[x]
    BY <1>1, <1>3, VersionFacts
  <2>2. a \in RN /\ Clean(x) /\ Prompt(x) /\ (OnFile(a)' <=> OnFile(a))
    BY <1>7, <2>1, VersionFacts
  <2>3. CASE x \in erased
    BY <2>1, <2>2, <2>3 DEF ErasedInv
  <2>4. CASE x \notin erased
    <3>1. x = n /\ writer.op # "add"
      BY <1>1, <1>3, <2>4
    <3> QED
      BY <1>1, <1>3, <2>1, <2>2, <3>1 DEF WalkInv, WriterAt
  <2> QED
    BY <2>3, <2>4
<1>14. PodsPrior'
  <2>1. ASSUME NEW q \in DOMAIN mem'.pods, Linked(q)' \/ PodMagic(q)' # "deleted" \/ PodNum(q)' \notin filled'
        PROVE  Follows(PodNum(q), PodPrev(q))'
    <3>1. q \in DOMAIN mem.pods /\ Follows(PodNum(q), PodPrev(q))
      BY <1>1, <1>2, <1>4, <2>1 DEF PodsPrior, Linked
    <3> QED
      BY <1>1, <1>4, <3>1 DEF Follows
  <2> QED
    BY <2>1 DEF PodsPrior
<1>15. DeletedInv'
  BY <1>1, <1>2, <1>4, <1>5 DEF DeletedInv
<1>16. OrderInv' /\ FastOrderInv'
  <2> SUFFICES ASSUME NEW q \in ToWrite', PodMagic(q)' = "committed",
                      PodNum(q)' \notin late' \/ q \in ToSet(mem'.cache)
               PROVE  Unpassed(PodNum(q))'
    BY DEF OrderInv, FastOrderInv
  <2>1. /\ q \in ToWrite /\ PodMagic(q) = "committed" /\ PodNum(q)' = PodNum(q) /\ PodNum(q) \in RN
        /\ PodNum(q) \notin late \/ q \in ToSet(mem.cache)
    BY <1>1, <1>2, <1>4, <1>5, <1>6, VersionFacts
  <2>2. PICK b \in RN : b = PodNum(q)' /\ Unpassed(b)
    BY <2>1 DEF OrderInv, FastOrderInv
  <2>3. Unpassed(b)'
    BY <1>9, <2>2
  <2> QED
    BY <2>2, <2>3 DEF Unpassed
<1>17. \A i \in DOMAIN queue : /\ queue'[i] = queue[i] /\ queue[i] \in DOMAIN mem'.pods
                               /\ mem'.pods[queue[i]].data = mem.pods[queue[i]].data
  BY <1>1, <1>2, <1>5 DEF ToSet
<1>18. LineOrderInv' /\ \A b \in RN : InTurn(b) => InTurn(b)'
  BY <1>1, <1>17 DEF LineOrderInv, InTurn, Linked, PodNum, PodPrev, PodMagic
<1>19. FastInv'
  <2> SUFFICES ASSUME NEW q \in ToWrite', PodMagic(q)' = "committed", q \in ToSet(mem'.cache),
                      NEW h \in DOMAIN mem'.pods, Linked(h)', PodNum(q)' \in older'[PodNum(h)']
               PROVE  h \in held' /\ PodPrev(h)' = PodNum(q)'
    BY DEF FastInv
  <2>1. q \in ToWrite /\ PodMagic(q) = "committed" /\ q \in ToSet(mem.cache) /\ PodNum(q)' = PodNum(q)
    BY <1>2, <1>4, <1>5, <1>6
  <2>2. h \in DOMAIN mem.pods /\ Linked(h) /\ PodNum(q) \in older[PodNum(h)] /\ PodPrev(h)' = PodPrev(h)
    BY <1>1, <1>2, <1>4, <2>1 DEF Linked
  <2> QED
    BY <1>1, <2>1, <2>2 DEF FastInv
<1>20. ChainInv'
  <2>1. ASSUME NEW x \in RN, Seen(x)'
        PROVE  Seen(x)
    BY <1>2, <1>4, <1>7, <2>1 DEF Seen, Linked
  <2>2. \A b \in RN : Ref(b)' => Ref(b)
    BY <1>1, <1>2, <1>4, <1>5, <2>1 DEF Ref
  <2>3. \A b \in RN : Pend(b)' => Pend(b)
    BY <1>4, <1>5, <1>6 DEF Pend
  <2>4. \A b \in RN : Whole(b) => Whole(b)'
    BY <1>1, <1>7, <1>9, <1>18 DEF Whole, Coming, BeingWritten, BeingErased, WriterAt
  <2> SUFFICES ASSUME NEW b \in RN, Ref(b)', Clean(b)', Timely(b)', NEW a \in older'[b], OnFile(a)' \/ Pend(a)'
               PROVE  Whole(b)'
    BY DEF ChainInv
  <2>5. a \in older[b] /\ a \in RN
    BY <1>1, VersionFacts
  <2>6. Ref(b) /\ Clean(b) /\ Timely(b) /\ (OnFile(a) \/ Pend(a))
    BY <1>7, <2>2, <2>3, <2>5
  <2> QED
    BY <2>4, <2>5, <2>6 DEF ChainInv
<1> QED
  BY <1>10, <1>11, <1>12, <1>13, <1>14, <1>15, <1>16, <1>18, <1>19, <1>20

\* After a crash only the files are left: what they refer to was erased, or is there.
LEMMA CrashVersions ==
  ASSUME TypeInv, SafeInv, VersionInv, Crash, ~torn'
  PROVE  VersionInv'
<1> USE DEF VersionInv, PlaceVersions, LineVersions
<1>1. /\ mem'.cache = << >> /\ mem'.pods = << >> /\ fs'.disk = fs.disk
      /\ nextRN' \in 0..MaxRN /\ held' = {} /\ queue' = << >> /\ writer' = Idle
      /\ \A rn \in Recovered(fs.disk) : rn < nextRN'
      /\ filled' = filled \ (nextRN' .. (MaxRN - 1))
      /\ older' = [rn \in RN |-> IF rn \in nextRN' .. (MaxRN - 1) THEN {} ELSE older[rn]]
  BY CrashIs
<1>2. /\ erased' = erased \ (nextRN' .. (MaxRN - 1)) /\ late' = late \ (nextRN' .. (MaxRN - 1))
      /\ ~WriterAt({"chain"})
  BY DEF Crash, WriterAt
<1>3. PICK m \in Nat : m = nextRN' /\ \A n \in RN : n < m <=> n \notin nextRN' .. (MaxRN - 1)
  <2>1. nextRN' \in Nat /\ MaxRN \in Nat /\ \A n \in RN : n \in Nat /\ n < MaxRN
    BY <1>1, RNIs
  <2>2. \A n \in RN : n < nextRN' <=> n \notin nextRN' .. (MaxRN - 1)
    BY <2>1
  <2> QED
    BY <2>1, <2>2
<1>4. \A n \in RN : /\ older'[n] = IF n < m THEN older[n] ELSE {}
                    /\ n \in filled' <=> n \in filled /\ n < m
                    /\ n \in erased' <=> n \in erased /\ n < m
                    /\ n \in late' <=> n \in late /\ n < m
  BY <1>1, <1>2, <1>3
<1>5. \A n \in RN : /\ At(fs', n) = At(fs, n) /\ (DiskLinked(n)' <=> DiskLinked(n)) /\ (OnFile(n)' <=> OnFile(n))
                    /\ At(fs, n).magic # "zero" => n < m
  <2>1. \A n \in RN : At(fs', n) = At(fs, n)
    BY <1>1 DEF At, Stored
  <2>2. \A n \in RN : At(fs, n).magic # "zero" => n < m
    BY <1>1, <1>3, RNIs, SafeFacts, FoundIs
  <2> QED
    BY <2>1, <2>2 DEF DiskLinked, OnFile
<1>6. \A n \in RN : \A a \in older[n] : a \in RN /\ (n < m => a < m)
  <2>1. \A n \in RN : \A a \in older[n] : a \in RN /\ a < n /\ a \in Nat /\ n \in Nat
    BY VersionFacts
  <2> QED
    BY <2>1
<1>7. \A n \in RN : n < m =>
        (Clean(n)' => Clean(n)) /\ (Prompt(n)' => Prompt(n)) /\ (Timely(n)' => Timely(n))
  <2>1. ASSUME NEW n \in RN, n < m, Clean(n)'
        PROVE  Clean(n)
    <3>1. n \notin filled' /\ older[n] \cap filled' = {}
      BY <1>4, <2>1 DEF Clean
    <3>2. \A a \in older[n] : a \notin filled
      BY <1>4, <1>6, <2>1, <3>1
    <3> QED
      BY <1>4, <2>1, <3>1, <3>2 DEF Clean
  <2>2. ASSUME NEW n \in RN, n < m, Prompt(n)'
        PROVE  Prompt(n)
    <3>1. \A a \in older[n] : a \notin late'
      BY <1>4, <2>2 DEF Prompt
    <3>2. \A a \in older[n] : a \notin late
      BY <1>4, <1>6, <2>2, <3>1
    <3> QED
      BY <3>2 DEF Prompt
  <2> QED
    BY <1>4, <2>1, <2>2 DEF Timely
<1>8. DiskPrior'
  <2> SUFFICES ASSUME NEW n \in RN,
                      \/ DiskLinked(n)' \/ At(fs', n).magic \notin {"zero", "deleted"}
                      \/ At(fs', n).magic = "deleted" /\ n \notin filled'
               PROVE  older'[n] = IF At(fs', n).prev = n THEN {} ELSE {At(fs', n).prev} \cup older'[At(fs', n).prev]
    BY DEF DiskPrior, Follows
  <2>1. n < m
    BY <1>5 DEF DiskLinked
  <2>2. PICK p \in RN : p = At(fs, n).prev
    BY VersionFacts DEF Trailer
  <2>3. older[n] = IF p = n THEN {} ELSE {p} \cup older[p]
    BY <1>4, <1>5, <2>1, <2>2 DEF DiskPrior, DiskLinked, Follows
  <2>4. p # n => p < m
    BY <1>6, <2>1, <2>3
  <2> QED
    BY <1>4, <1>5, <2>1, <2>2, <2>3, <2>4
<1>9. WriterPrior' /\ WalkInv'
  BY <1>1 DEF WriterPrior, WalkInv, WriterAt
<1>10. ErasedBelow'
  BY <1>3, <1>4, <1>2, VersionFacts DEF ErasedBelow
<1>11. ErasedInv'
  <2> SUFFICES ASSUME NEW x \in erased', Clean(x)', Prompt(x)', NEW a \in older'[x]
               PROVE  ~OnFile(a)'
    BY DEF ErasedInv
  <2>1. x \in RN
    BY <1>2, VersionFacts
  <2>2. x \in erased /\ x < m /\ a \in older[x]
    BY <1>4, <2>1
  <2> QED
    BY <1>5, <1>6, <1>7, <2>1, <2>2 DEF ErasedInv
<1>12. LineageInv'
  BY <1>4, <1>6 DEF LineageInv
<1>13. ToWrite' = {} /\ DOMAIN mem'.pods = {} /\ DOMAIN queue' = {} /\ ToSet(queue') = {} /\ ToSet(mem'.cache) = {}
  BY <1>1 DEF ToWrite, WriterAt, ToSet
<1>14. PodsPrior' /\ DeletedInv' /\ OrderInv' /\ LineOrderInv' /\ FastInv' /\ FastOrderInv'
  BY <1>13 DEF PodsPrior, DeletedInv, OrderInv, LineOrderInv, FastInv, FastOrderInv
<1>15. OnceInv'
  BY <1>1 DEF OnceInv, IsInjective
<1>16. ChainInv'
  <2> SUFFICES ASSUME NEW b \in RN, Ref(b)', Clean(b)', Timely(b)', NEW a \in older'[b], OnFile(a)' \/ Pend(a)'
               PROVE  Whole(b)'
    BY DEF ChainInv
  <2>1. PICK x \in RN : DiskLinked(x)' /\ b \in older'[x]
    BY <1>13 DEF Ref, Seen
  <2>2. DiskLinked(x) /\ b \in older[x] /\ b < m
    BY <1>4, <1>6, <2>1, <1>5
  <2>3. a \in older[b] /\ a \in RN /\ OnFile(a) /\ Clean(b) /\ Timely(b)
    BY <1>4, <1>5, <1>6, <1>7, <1>13, <2>2 DEF Pend
  <2>4. Whole(b)
    BY <2>2, <2>3 DEF ChainInv, Ref, Seen
  <2>5. ~Coming(b)
    BY <2>2 DEF Coming, Unpassed, Passed
  <2>6. ~BeingErased(b)
    BY <1>2 DEF BeingErased
  <2> QED
    BY <1>5, <2>4, <2>5, <2>6 DEF Whole
<1> QED
  BY <1>8, <1>9, <1>10, <1>11, <1>12, <1>14, <1>15, <1>16

LEMMA InitVersions ==
  ASSUME Init
  PROVE  VersionInv
<1>1. /\ mem.pods = << >> /\ mem.cache = << >> /\ queue = << >> /\ writer = Idle /\ fs.disk = << >>
      /\ older = [rn \in RN |-> {}] /\ erased = {}
  BY DEF Init
<1>2. ToWrite = {} /\ DOMAIN mem.pods = {} /\ DOMAIN queue = {} /\ ToSet(queue) = {} /\ ToSet(mem.cache) = {}
  BY <1>1 DEF ToWrite, WriterAt, ToSet
<1>3. \A n \in RN : older[n] = {} /\ At(fs, n) = Zero
  BY <1>1 DEF At
<1>4. PlaceVersions
  BY <1>1, <1>3 DEF PlaceVersions, DiskPrior, WriterPrior, ErasedBelow, WalkInv, ErasedInv, DiskLinked, WriterAt, Zero
<1>5. LineageInv /\ ChainInv
  BY <1>3 DEF LineageInv, ChainInv
<1>6. PodsPrior /\ DeletedInv /\ OrderInv /\ LineOrderInv /\ FastInv /\ FastOrderInv
  BY <1>2 DEF PodsPrior, DeletedInv, OrderInv, LineOrderInv, FastInv, FastOrderInv
<1>7. OnceInv
  BY <1>1 DEF OnceInv, IsInjective
<1> QED
  BY <1>4, <1>5, <1>6, <1>7 DEF VersionInv, LineVersions

LEMMA TornStays ==
  ASSUME TypeInv, [Next]_vars, torn
  PROVE  torn'
BY DEF Next, vars, history, Push, Update, Allocate, Put, Abort, Get, Del, Purge, PurgeStep,
     WriteBegin, WriteGap, WriteRecord, WriteChain, WriteDone, WriterUnchanged, Recover, Crash

LEMMA VersionInvStep ==
  ASSUME DelQueued = FALSE, TypeInv, SafeInv, LiveInv, VersionInv, [Next]_vars, ~torn'
  PROVE  VersionInv'
<1>1. CASE UNCHANGED vars
  <2>1. UNCHANGED <<mem, fs, nextRN, writer, held, queue, older, filled, erased, late>>
    BY <1>1 DEF vars, numbers, history
  <2>2. Opened(fs, fs')
    BY <2>1, TypeFacts DEF Opened
  <2> QED
    BY <2>1, <2>2, QuietVersions
<1>2. CASE Push \/ Update
  BY <1>2, NewRecordVersions
<1>3. CASE Get
  BY <1>3, GetVersions
<1>4. CASE Del
  BY <1>4, DelVersions
<1>5. CASE Purge \/ PurgeStep
  BY <1>5, PurgeVersions, PurgeStepVersions
<1>6. CASE \E p \in held : Abort(p) \/ \E replace \in BOOLEAN : Put(p, replace)
  BY <1>6, AbortVersions, PutVersions
<1>7. CASE WriteBegin \/ WriteGap \/ WriteRecord \/ WriteChain \/ WriteDone
  BY <1>7, WriteBeginVersions, WriteGapVersions, WriteRecordVersions, WriteChainVersions, WriteDoneVersions
<1>8. CASE Recover \/ Crash
  BY <1>8, RecoverVersions, CrashVersions
<1> QED
  BY <1>1, <1>2, <1>3, <1>4, <1>5, <1>6, <1>7, <1>8 DEF Next

LEMMA ErasedAreGone ==
  ASSUME TypeInv, SafeInv, VersionInv, NEW x \in erased, ({x} \cup older[x]) \cap filled = {},
         older[x] \cap late = {}, NEW a \in older[x]
  PROVE  ~OnDisk(a)
<1>1. Clean(x) /\ Prompt(x) /\ x \in RN /\ a \in RN
  BY VersionFacts DEF Clean, Prompt
<1>2. ~OnFile(a)
  BY <1>1 DEF VersionInv, PlaceVersions, ErasedInv
<1> QED
  BY <1>2 DEF OnDisk, OnFile, At

\* Once an update or a deletion is written, the write thread has erased every version of the record
\* before it, and none comes back: none that was still to be written when its erasure went by, and
\* none that an erasure which stopped early left behind; whatever the application puts, updates,
\* deletes and purges meanwhile, though what it replaces is still queued, in whatever order threads
\* queue their writes, and after any crash but one in the middle of an erasure (torn), unless the
\* write of one of them was queued behind that of a later one (late), or one of them was marked
\* deleted before it was written (filled), and until a record is written behind a place that never
\* was (gapped).
\* The hypothesis is that of Durability.
THEOREM Erasure ==
  ASSUME DelQueued = FALSE
  PROVE  Spec => []VersionsErased
<1> DEFINE Safe == ~gapped => SafeInv /\ LiveInv
           Versions == ~gapped /\ ~torn => VersionInv
           IInv == TypeInv /\ Safe /\ Versions
<1>1. Init => IInv
  BY InitTyped, InitSafe, InitLive, InitVersions
<1>2. IInv /\ [Next]_vars => IInv'
  <2> SUFFICES ASSUME IInv, [Next]_vars
               PROVE  IInv'
    OBVIOUS
  <2>1. TypeInv'
    BY TypeInvStep
  <2>2. Safe'
    BY SafeInvStep, LiveInvStep, GappedStays
  <2>3. Versions'
    BY VersionInvStep, GappedStays, TornStays
  <2> QED
    BY <2>1, <2>2, <2>3
<1>3. IInv => VersionsErased
  BY ErasedAreGone DEF VersionsErased
<1> QED
  BY <1>1, <1>2, <1>3, PTL DEF Spec

=============================================================================
